---------------------------- MODULE PendingBuffer ----------------------------
(***************************************************************************)
(* A pending buffer of the Client: cgi_stdin_pending_ or cgi_send_pending_ *)
(* with its offset.  Consuming moves the offset; the consumed bytes are    *)
(* erased only once the offset has reached COMPACT_THRESHOLD.  A caller    *)
(* hands the unconsumed part to write() or send() and consumes what the    *)
(* call accepted, so no more than the unconsumed part.                     *)
(***************************************************************************)
EXTENDS Integers, Sequences

CONSTANTS Byte, MaxLen,
          Threshold   \* COMPACT_THRESHOLD

ASSUME BoundAssumption == MaxLen \in Nat
ASSUME ThresholdAssumption == Threshold \in Nat \ {0}

VARIABLES data,       \* the string
          offset,     \* bytes of it already consumed
          put         \* bytes appended so far

vars == <<data, offset, put>>

Pieces == UNION {[1..n -> Byte] : n \in 1..MaxLen}

(* get_..._pending_size: 0 when the offset has reached the end.            *)
PendingSize == IF offset >= Len(data) THEN 0 ELSE Len(data) - offset

(* What get_..._pending_ptr and _size hand to write() and send().          *)
Pending == SubSeq(data, offset + 1, offset + PendingSize)

Init == data = <<>> /\ offset = 0 /\ put = 0

append_pending(d) ==
  /\ put + Len(d) <= MaxLen
  /\ data' = data \o d
  /\ put' = put + Len(d)
  /\ UNCHANGED offset

(* Mutant: the compacted string is read from the old offset.               *)
CompactKeepsOffset(n) ==
  /\ offset' = n
  /\ data' = IF n < Threshold THEN data
             ELSE IF n >= Len(data) THEN <<>> ELSE SubSeq(data, n + 1, Len(data))

(* Mutant: the string is compacted only when all of it is consumed.        *)
CompactWhenEmpty(n) ==
  IF n >= Threshold /\ n >= Len(data)
  THEN data' = <<>> /\ offset' = 0
  ELSE data' = data /\ offset' = n

(* The tail of consume_..._pending, with n the new offset.                 *)
Compact(n) ==
  IF n >= Threshold
  THEN /\ data' = IF n >= Len(data) THEN <<>> ELSE SubSeq(data, n + 1, Len(data))
       /\ offset' = 0
  ELSE data' = data /\ offset' = n

consume_pending(n) == Compact(offset + n) /\ UNCHANGED put

AppendPiece == \E d \in Pieces : append_pending(d)
Consume == \E n \in 1..PendingSize : consume_pending(n)

Next == AppendPiece \/ Consume

Spec == Init /\ [][Next]_vars

-----------------------------------------------------------------------------
TypeOK == data \in Seq(Byte) /\ offset \in Nat /\ put \in Nat

(* Client.cpp:297, "Compact once offset exceeds 1MB to reclaim memory":    *)
(* what has been consumed and not yet erased stays below the threshold,    *)
(* and the offset never passes the end, so that a later append is not cut. *)
Reclaimed == offset <= Len(data) /\ offset < Threshold

(* The buffer is a queue: its unconsumed part, whatever was erased.        *)
Queue == INSTANCE ByteQueue WITH queue <- Pending
QueueSpec == Queue!Spec
=============================================================================
