------------------------------ MODULE ByteQueue ------------------------------
(***************************************************************************)
(* What the poll loop expects of a pending buffer of the Client: bytes     *)
(* come out once and in the order in which they went in, and any prefix of *)
(* what is waiting may be taken.                                           *)
(***************************************************************************)
EXTENDS Integers, Sequences

CONSTANTS Byte,     \* the bytes
          MaxLen    \* bound: most bytes ever put in, over all appends

VARIABLES queue,    \* bytes that wait
          put       \* how many bytes have been put in so far

Pieces == UNION {[1..n -> Byte] : n \in 1..MaxLen}

Init == queue = <<>> /\ put = 0

Put == \E d \in Pieces :
  /\ put + Len(d) <= MaxLen
  /\ queue' = queue \o d
  /\ put' = put + Len(d)

Get == \E n \in 1..Len(queue) :
  /\ queue' = SubSeq(queue, n + 1, Len(queue))
  /\ UNCHANGED put

Spec == Init /\ [][Put \/ Get]_<<queue, put>>
=============================================================================
