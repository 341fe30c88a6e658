------------------------- MODULE PendingBufferProofs -------------------------
(***************************************************************************)
(* A pending buffer implements a byte queue, for every compaction          *)
(* threshold and every length of data.                                     *)
(***************************************************************************)
EXTENDS PendingBuffer, SequenceTheorems, TLAPS

(* The inductive invariant: the types and the two bounds on the offset.    *)
BufferInv == TypeOK /\ Reclaimed

LEMMA PieceType ==
  ASSUME NEW d \in Pieces
  PROVE  d \in Seq(Byte) /\ Len(d) \in Nat
  <1>1. PICK n \in 1..MaxLen : d \in [1..n -> Byte]
    BY DEF Pieces
  <1> QED BY <1>1, BoundAssumption

(* What a string holds after its first k bytes.                            *)
After(s, k) == SubSeq(s, k + 1, Len(s))

LEMMA AfterType ==
  ASSUME NEW S, NEW s \in Seq(S), NEW k \in 0..Len(s)
  PROVE  /\ After(s, k) \in Seq(S) /\ Len(After(s, k)) = Len(s) - k
         /\ \A i \in 1..(Len(s) - k) : After(s, k)[i] = s[k + i]
  BY DEF After

LEMMA AfterZero ==
  ASSUME NEW S, NEW s \in Seq(S)
  PROVE  After(s, 0) = s
  BY DEF After

(* Appending commutes with dropping a prefix.                              *)
LEMMA AfterAppend ==
  ASSUME NEW S, NEW s \in Seq(S), NEW d \in Seq(S), NEW k \in 0..Len(s)
  PROVE  After(s \o d, k) = After(s, k) \o d
  <1>1. s \o d \in Seq(S) /\ Len(s \o d) = Len(s) + Len(d)
    OBVIOUS
  <1>2. After(s, k) \in Seq(S) /\ Len(After(s, k)) = Len(s) - k
    BY AfterType
  <1>3. \A i \in 1..(Len(s) - k) : After(s, k)[i] = s[k + i]
    BY AfterType
  <1>4. k \in 0..Len(s \o d) /\ Len(s) \in Nat /\ Len(d) \in Nat
    BY <1>1
  <1>5. /\ After(s \o d, k) \in Seq(S)
        /\ Len(After(s \o d, k)) = Len(s) + Len(d) - k
        /\ \A i \in 1..(Len(s) + Len(d) - k) : After(s \o d, k)[i] = (s \o d)[k + i]
    <2> DEFINE e == s \o d
    <2>1. e \in Seq(S) /\ k \in 0..Len(e) /\ Len(e) = Len(s) + Len(d)
      BY <1>1, <1>4
    <2> HIDE DEF e
    <2>2. /\ After(e, k) \in Seq(S) /\ Len(After(e, k)) = Len(e) - k
          /\ \A i \in 1..(Len(e) - k) : After(e, k)[i] = e[k + i]
      BY <2>1, AfterType
    <2> QED BY <2>1, <2>2 DEF e
  <1> DEFINE u == After(s \o d, k)
             v == After(s, k)
  <1>6. /\ v \in Seq(S) /\ Len(v) = Len(s) - k /\ u \in Seq(S)
        /\ Len(u) = Len(s) + Len(d) - k
        /\ \A i \in 1..(Len(s) - k) : v[i] = s[k + i]
        /\ \A i \in 1..(Len(s) + Len(d) - k) : u[i] = (s \o d)[k + i]
    BY <1>2, <1>3, <1>5
  <1> HIDE DEF u, v
  <1>7. v \o d \in Seq(S) /\ Len(v \o d) = Len(v) + Len(d)
    BY <1>6
  <1>8. Len(u) = Len(v \o d)
    BY <1>4, <1>6, <1>7
  <1>9. ASSUME NEW i \in 1..Len(u) PROVE u[i] = (v \o d)[i]
    <2>1. u[i] = (s \o d)[k + i]
      BY <1>6
    <2>2. CASE i <= Len(s) - k
      BY <1>4, <1>6, <2>1, <2>2
    <2>3. CASE ~(i <= Len(s) - k)
      <3>1. (s \o d)[k + i] = d[k + i - Len(s)]
        BY <1>4, <1>6, <2>3
      <3>2. (v \o d)[i] = d[i - Len(v)]
        <4>1. i \in 1..(Len(v) + Len(d)) /\ ~(i <= Len(v))
          BY <1>4, <1>6, <1>7, <1>8, <2>3
        <4>2. \A j \in 1..(Len(v) + Len(d)) :
                 (v \o d)[j] = IF j <= Len(v) THEN v[j] ELSE d[j - Len(v)]
          BY <1>6, ConcatProperties
        <4> QED BY <4>1, <4>2
      <3>3. k + i - Len(s) = i - Len(v)
        BY <1>4, <1>6
      <3> QED BY <2>1, <3>1, <3>2, <3>3
    <2> QED BY <2>2, <2>3
  <1>10. u = v \o d
    <2>1. /\ u \in Seq(S) /\ v \o d \in Seq(S) /\ Len(u) = Len(v \o d)
          /\ \A i \in 1..Len(u) : u[i] = (v \o d)[i]
      BY <1>6, <1>7, <1>8, <1>9
    <2> QED BY <2>1, SeqEqual, Zenon
  <1> QED BY <1>10 DEF u, v

(* Dropping twice is dropping the sum.                                     *)
LEMMA AfterAfter ==
  ASSUME NEW S, NEW s \in Seq(S), NEW k \in 0..Len(s), NEW n \in 0..(Len(s) - k)
  PROVE  After(After(s, k), n) = After(s, k + n)
  <1> DEFINE v == After(s, k)
  <1>1. /\ v \in Seq(S) /\ Len(v) = Len(s) - k
        /\ \A i \in 1..(Len(s) - k) : v[i] = s[k + i]
    BY AfterType
  <1>2. k + n \in 0..Len(s)
    OBVIOUS
  <1>3. /\ After(s, k + n) \in Seq(S) /\ Len(After(s, k + n)) = Len(s) - (k + n)
        /\ \A i \in 1..(Len(s) - (k + n)) : After(s, k + n)[i] = s[k + n + i]
    BY <1>2, AfterType
  <1> HIDE DEF v
  <1>4. n \in 0..Len(v)
    BY <1>1
  <1>5. /\ After(v, n) \in Seq(S) /\ Len(After(v, n)) = Len(v) - n
        /\ \A i \in 1..(Len(v) - n) : After(v, n)[i] = v[n + i]
    <2>1. v \in Seq(S)
      BY <1>1
    <2> QED BY <1>4, <2>1, AfterType, Zenon
  <1>6. After(v, n) = After(s, k + n)
    <2>1. Len(After(v, n)) = Len(After(s, k + n))
      <3>1. Len(v) - n = Len(s) - (k + n)
        <4>1. Len(s) \in Nat /\ Len(v) = Len(s) - k
          BY <1>1
        <4> QED BY <4>1
      <3> QED BY <1>3, <1>5, <3>1, Zenon
    <2>2. \A i \in 1..Len(After(v, n)) : After(v, n)[i] = After(s, k + n)[i]
      BY <1>1, <1>3, <1>5
    <2> QED BY <1>3, <1>5, <2>1, <2>2, SeqEqual, Zenon
  <1> QED BY <1>6 DEF v

(* Under the invariant what is handed out is the string after the offset.  *)
LEMMA PendingIsSuffix ==
  BufferInv => /\ Pending = After(data, offset)
               /\ PendingSize = Len(data) - offset
               /\ offset \in 0..Len(data)
  <1> SUFFICES ASSUME BufferInv
               PROVE  /\ Pending = After(data, offset)
                      /\ PendingSize = Len(data) - offset
                      /\ offset \in 0..Len(data)
    OBVIOUS
  <1>1. offset \in Nat /\ Len(data) \in Nat /\ offset <= Len(data)
    BY DEF BufferInv, TypeOK, Reclaimed
  <1>2. PendingSize = Len(data) - offset
    BY <1>1 DEF PendingSize
  <1>3. offset + PendingSize = Len(data)
    BY <1>1, <1>2
  <1> QED BY <1>1, <1>2, <1>3 DEF Pending, After

(* Appending leaves the offset where it was and adds to the end.           *)
LEMMA AppendPreserves ==
  ASSUME NEW d \in Pieces, BufferInv, append_pending(d)
  PROVE  /\ BufferInv'
         /\ After(data, offset)' = After(data, offset) \o d
  <1>1. /\ offset \in 0..Len(data) /\ data \in Seq(Byte) /\ Len(data) \in Nat
        /\ put \in Nat /\ offset < Threshold
    BY DEF BufferInv, TypeOK, Reclaimed
  <1>2. d \in Seq(Byte) /\ Len(d) \in Nat
    BY PieceType
  <1>3. /\ data' = data \o d /\ data' \in Seq(Byte) /\ offset' = offset
        /\ Len(data') = Len(data) + Len(d) /\ put' \in Nat
    BY <1>1, <1>2 DEF append_pending
  <1>4. BufferInv'
    BY <1>1, <1>2, <1>3 DEF BufferInv, TypeOK, Reclaimed
  <1>5. After(data', offset') = After(data, offset) \o d
    BY <1>1, <1>2, <1>3, AfterAppend
  <1> QED BY <1>4, <1>5

(* Consuming drops a prefix, whether or not the string is compacted.       *)
LEMMA ConsumePreserves ==
  ASSUME NEW n \in 1..PendingSize, BufferInv, consume_pending(n)
  PROVE  /\ BufferInv'
         /\ After(data, offset)' = After(After(data, offset), n)
         /\ put' = put
  <1> DEFINE m == offset + n
  <1>1. /\ offset \in 0..Len(data) /\ data \in Seq(Byte) /\ Len(data) \in Nat
        /\ put \in Nat /\ put' = put
    BY DEF BufferInv, TypeOK, Reclaimed, consume_pending
  <1>2. PendingSize = Len(data) - offset
    BY PendingIsSuffix
  <1>3. m \in 0..Len(data) /\ n \in 0..(Len(data) - offset)
    BY <1>1, <1>2
  <1>4. Compact(m)
    BY DEF consume_pending
  <1>5. After(After(data, offset), n) = After(data, m)
    BY <1>1, <1>3, AfterAfter
  <1> HIDE DEF m
  <1>6. BufferInv' /\ After(data', offset') = After(data, m)
    <2>1. CASE m < Threshold
      <3>1. data' = data /\ offset' = m
        BY <1>3, <1>4, <2>1, ThresholdAssumption DEF Compact
      <3> QED BY <1>1, <1>3, <2>1, <3>1 DEF BufferInv, TypeOK, Reclaimed
    <2>2. CASE ~(m < Threshold)
      <3>1. /\ offset' = 0
            /\ data' = IF m >= Len(data) THEN <<>> ELSE SubSeq(data, m + 1, Len(data))
        BY <1>3, <1>4, <2>2, ThresholdAssumption DEF Compact
      <3>2. data' = After(data, m) /\ data' \in Seq(Byte)
        <4>1. CASE m >= Len(data)
          BY <1>1, <1>3, <3>1, <4>1 DEF After
        <4>2. CASE ~(m >= Len(data))
          BY <1>1, <1>3, <3>1, <4>2, AfterType DEF After
        <4> QED BY <4>1, <4>2
      <3>3. After(data', offset') = data'
        BY <3>1, <3>2, AfterZero
      <3>4. Len(data') \in Nat /\ offset' < Threshold /\ offset' <= Len(data')
        BY <3>1, <3>2, ThresholdAssumption
      <3> QED BY <1>1, <3>1, <3>2, <3>3, <3>4 DEF BufferInv, TypeOK, Reclaimed
    <2> QED BY <2>1, <2>2
  <1> QED BY <1>1, <1>5, <1>6

(* consume_..._pending keeps the consumed part below COMPACT_THRESHOLD     *)
(* and the offset inside the string, in every reachable state.             *)
THEOREM BufferReclaimed == Spec => [](TypeOK /\ Reclaimed)
  <1>1. Init => BufferInv
    BY ThresholdAssumption DEF Init, BufferInv, TypeOK, Reclaimed
  <1>2. BufferInv /\ [Next]_vars => BufferInv'
    <2> SUFFICES ASSUME BufferInv, [Next]_vars PROVE BufferInv'
      OBVIOUS
    <2>1. CASE AppendPiece
      BY <2>1, AppendPreserves DEF AppendPiece
    <2>2. CASE Consume
      BY <2>2, ConsumePreserves DEF Consume
    <2>3. CASE UNCHANGED vars
      BY <2>3 DEF vars, BufferInv, TypeOK, Reclaimed
    <2> QED BY <2>1, <2>2, <2>3 DEF Next
  <1> QED BY <1>1, <1>2, PTL DEF Spec, BufferInv

(* Every step of a pending buffer is a step of the queue of its            *)
(* unconsumed bytes: append_..._pending puts, consume_..._pending gets,    *)
(* and compaction is invisible.                                            *)
THEOREM BufferIsQueue == Spec => QueueSpec
  <1>1. Init => Queue!Init
    BY DEF Init, Queue!Init, Pending, PendingSize
  <1>0. /\ BufferInv => /\ Pending = After(data, offset)
                       /\ PendingSize = Len(data) - offset
                       /\ offset \in 0..Len(data)
        /\ (BufferInv => Pending = After(data, offset))'
    BY PendingIsSuffix, PTL
  <1>2. BufferInv /\ BufferInv' /\ [Next]_vars => [Queue!Put \/ Queue!Get]_<<Pending, put>>
    <2> SUFFICES ASSUME BufferInv, BufferInv', [Next]_vars
                 PROVE  [Queue!Put \/ Queue!Get]_<<Pending, put>>
      OBVIOUS
    <2>0. /\ Pending = After(data, offset) /\ Pending' = After(data, offset)'
          /\ PendingSize = Len(data) - offset /\ offset \in 0..Len(data)
      BY <1>0
    <2>1. CASE AppendPiece
      <3>1. PICK d \in Pieces : append_pending(d)
        BY <2>1 DEF AppendPiece
      <3>2. Pending' = Pending \o d
        BY <2>0, <3>1, AppendPreserves
      <3>3. d \in Queue!Pieces
        BY DEF Pieces, Queue!Pieces
      <3> QED BY <3>1, <3>2, <3>3 DEF append_pending, Queue!Put
    <2>2. CASE Consume
      <3>1. PICK n \in 1..PendingSize : consume_pending(n)
        BY <2>2 DEF Consume
      <3>2. Pending' = SubSeq(Pending, n + 1, Len(Pending)) /\ put' = put
        BY <2>0, <3>1, ConsumePreserves DEF After
      <3>3. n \in 1..Len(Pending)
        <4>1. data \in Seq(Byte)
          BY DEF BufferInv, TypeOK
        <4> QED BY <2>0, <4>1, AfterType
      <3> QED BY <3>2, <3>3 DEF Queue!Get
    <2>3. CASE UNCHANGED vars
      BY <2>3 DEF vars, Pending, PendingSize
    <2> QED BY <2>1, <2>2, <2>3 DEF Next
  <1>3. Spec => []BufferInv
    BY BufferReclaimed, PTL DEF BufferInv
  <1> QED BY <1>1, <1>2, <1>3, PTL DEF Spec, QueueSpec, Queue!Spec
=============================================================================
