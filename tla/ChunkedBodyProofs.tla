------------------------- MODULE ChunkedBodyProofs -------------------------
(***************************************************************************)
(* Theorems on the two chunk decoders: whatever the bytes of a message,    *)
(* wherever the reads cut them and wherever one decoder hands over to the  *)
(* other, what comes out is what the whole message means.                  *)
(***************************************************************************)
EXTENDS ChunkedBody, SequenceTheorems, WellFoundedInduction, TLAPS

-----------------------------------------------------------------------------
(***************************************************************************)
(* Sequences of bytes and their tails.                                     *)
(***************************************************************************)
Tails(bytes) == {Drop(bytes, k) : k \in 0 .. Len(bytes)}

(* A set of naturals has a least one.                                      *)
LEMMA MinIn ==
  ASSUME NEW T \in SUBSET Nat, T # {}
  PROVE  Min(T) \in T /\ \A y \in T : Min(T) <= y
  <1> DEFINE R == OpToRel(<, Nat)
  <1>1. IsWellFoundedOn(R, Nat)
    BY NatLessThanWellFounded
  <1> HIDE DEF R
  <1>2. PICK x \in T : \A y \in T : ~ (<<y, x>> \in R)
    BY <1>1, WFMin
  <1>3. \A y \in T : ~ (y < x)
    BY <1>2 DEF R, OpToRel
  <1>4. \A y \in T : x <= y
    BY <1>3
  <1> QED BY <1>4 DEF Min

(* A set of positions has a greatest one.                                  *)
LEMMA MaxIn ==
  ASSUME NEW k \in Nat, NEW T \in SUBSET (0 .. k), T # {}
  PROVE  Max(T) \in T /\ \A y \in T : y <= Max(T)
  <1> DEFINE U == {k - x : x \in T}
  <1>1. U \in SUBSET Nat /\ U # {}
    <2>1. \A x \in T : k - x \in Nat
      OBVIOUS
    <2> QED BY <2>1
  <1>2. PICK u \in U : \A v \in U : u <= v
    BY <1>1, MinIn
  <1>3. PICK x \in T : u = k - x
    BY <1>2
  <1>4. \A y \in T : x >= y
    <2> SUFFICES ASSUME NEW y \in T PROVE x >= y
      OBVIOUS
    <2>1. k - x <= k - y
      BY <1>2, <1>3
    <2> QED BY <2>1
  <1>5. Max(T) \in T /\ \A y \in T : Max(T) >= y
    BY <1>4 DEF Max
  <1> QED BY <1>5

(* What stands where in two sequences put together.                        *)
LEMMA JoinIs ==
  ASSUME NEW s \in Seq(Byte), NEW t \in Seq(Byte)
  PROVE  /\ s \o t \in Seq(Byte) /\ Len(s \o t) = Len(s) + Len(t)
         /\ Len(s) \in Nat /\ Len(t) \in Nat
         /\ \A i \in 1 .. Len(s) : (s \o t)[i] = s[i]
         /\ \A i \in 1 .. Len(t) : (s \o t)[Len(s) + i] = t[i]
  OBVIOUS

LEMMA JoinThree ==
  ASSUME NEW s \in Seq(Byte), NEW t \in Seq(Byte), NEW u \in Seq(Byte)
  PROVE  (s \o t) \o u = s \o (t \o u)
  BY ConcatAssociative

LEMMA JoinEmpty ==
  ASSUME NEW s \in Seq(Byte)
  PROVE  s \o <<>> = s /\ <<>> \o s = s /\ <<>> \in Seq(Byte) /\ Len(<<>>) = 0
  BY ConcatEmptySeq

(* The first k, and the rest.                                              *)
LEMMA DropIs ==
  ASSUME NEW s \in Seq(Byte), NEW k \in 0 .. Len(s)
  PROVE  /\ Drop(s, k) \in Seq(Byte) /\ Len(Drop(s, k)) = Len(s) - k /\ Len(s) \in Nat
         /\ \A i \in 1 .. Len(s) - k : Drop(s, k)[i] = s[k + i]
  BY DEF Drop

LEMMA FirstIs ==
  ASSUME NEW s \in Seq(Byte), NEW k \in 0 .. Len(s)
  PROVE  /\ SubSeq(s, 1, k) \in Seq(Byte) /\ Len(SubSeq(s, 1, k)) = k /\ Len(s) \in Nat
         /\ \A i \in 1 .. k : SubSeq(s, 1, k)[i] = s[i]
  OBVIOUS

(* Sequences are equal element by element.                                 *)
LEMMA SameBytes ==
  ASSUME NEW s \in Seq(Byte), NEW t \in Seq(Byte), Len(s) = Len(t),
         \A i \in 1 .. Len(s) : s[i] = t[i]
  PROVE  s = t
  BY SeqEqual, Zenon

LEMMA CutAt ==
  ASSUME NEW s \in Seq(Byte), NEW k \in 0 .. Len(s)
  PROVE  SubSeq(s, 1, k) \o Drop(s, k) = s
  <1> DEFINE a == SubSeq(s, 1, k)
             b == Drop(s, k)
  <1>1. /\ a \in Seq(Byte) /\ Len(a) = k /\ Len(s) \in Nat
        /\ \A i \in 1 .. k : a[i] = s[i]
    BY FirstIs
  <1>2. /\ b \in Seq(Byte) /\ Len(b) = Len(s) - k
        /\ \A i \in 1 .. Len(s) - k : b[i] = s[k + i]
    BY DropIs
  <1> HIDE DEF a, b
  <1>3. /\ a \o b \in Seq(Byte) /\ Len(a \o b) = Len(s)
        /\ \A i \in 1 .. Len(a) : (a \o b)[i] = a[i]
        /\ \A i \in 1 .. Len(b) : (a \o b)[Len(a) + i] = b[i]
    BY <1>1, <1>2, JoinIs
  <1>4. ASSUME NEW i \in 1 .. Len(a \o b) PROVE (a \o b)[i] = s[i]
    <2>1. CASE i \in 1 .. k
      BY <1>1, <1>3, <2>1
    <2>2. CASE i \notin 1 .. k
      <3> DEFINE j == i - k
      <3>1. j \in 1 .. Len(b) /\ i = Len(a) + j /\ i = k + j
        BY <1>1, <1>2, <1>3, <2>2
      <3> HIDE DEF j
      <3> QED BY <1>2, <1>3, <3>1
    <2> QED BY <2>1, <2>2
  <1>5. a \o b = s
    BY <1>3, <1>4, SameBytes
  <1> QED BY <1>5 DEF a, b

LEMMA DropDrop ==
  ASSUME NEW s \in Seq(Byte), NEW k \in 0 .. Len(s), NEW m \in 0 .. Len(s) - k
  PROVE  Drop(Drop(s, k), m) = Drop(s, k + m) /\ k + m \in 0 .. Len(s)
  <1> DEFINE a == Drop(s, k)
             b == Drop(a, m)
             c == Drop(s, k + m)
  <1>1. /\ a \in Seq(Byte) /\ Len(a) = Len(s) - k /\ Len(s) \in Nat
        /\ \A i \in 1 .. Len(s) - k : a[i] = s[k + i]
    BY DropIs
  <1>2. k + m \in 0 .. Len(s) /\ m \in 0 .. Len(a)
    BY <1>1
  <1>3. /\ c \in Seq(Byte) /\ Len(c) = Len(s) - (k + m)
        /\ \A i \in 1 .. Len(s) - (k + m) : c[i] = s[k + m + i]
    BY <1>2, DropIs
  <1> HIDE DEF a, c
  <1>4. /\ b \in Seq(Byte) /\ Len(b) = Len(a) - m
        /\ \A i \in 1 .. Len(a) - m : b[i] = a[m + i]
    BY <1>1, <1>2, DropIs
  <1> HIDE DEF b
  <1>5. Len(b) = Len(c)
    BY <1>1, <1>3, <1>4
  <1>6. ASSUME NEW i \in 1 .. Len(b) PROVE b[i] = c[i]
    <2>1. m + i \in 1 .. Len(s) - k /\ k + (m + i) = k + m + i /\ i \in 1 .. Len(s) - (k + m)
      BY <1>1, <1>2, <1>4
    <2> QED BY <1>1, <1>3, <1>4, <2>1
  <1>7. b = c
    BY <1>3, <1>4, <1>5, <1>6, SameBytes
  <1> QED BY <1>2, <1>7 DEF a, b, c

(* What is taken from the front of what has arrived is taken from the      *)
(* front of all that is to come.                                           *)
LEMMA DropJoin ==
  ASSUME NEW s \in Seq(Byte), NEW t \in Seq(Byte), NEW k \in 0 .. Len(s)
  PROVE  /\ k \in 0 .. Len(s \o t)
         /\ Drop(s \o t, k) = Drop(s, k) \o t
         /\ SubSeq(s \o t, 1, k) = SubSeq(s, 1, k)
  <1> DEFINE u == s \o t
             a == Drop(s, k)
             b == Drop(u, k)
  <1>1. /\ u \in Seq(Byte) /\ Len(u) = Len(s) + Len(t) /\ Len(s) \in Nat /\ Len(t) \in Nat
        /\ \A i \in 1 .. Len(s) : u[i] = s[i]
        /\ \A i \in 1 .. Len(t) : u[Len(s) + i] = t[i]
    BY JoinIs
  <1> HIDE DEF u
  <1>2. k \in 0 .. Len(u)
    BY <1>1
  <1>3. /\ a \in Seq(Byte) /\ Len(a) = Len(s) - k
        /\ \A i \in 1 .. Len(s) - k : a[i] = s[k + i]
    BY DropIs
  <1>4. /\ b \in Seq(Byte) /\ Len(b) = Len(u) - k
        /\ \A i \in 1 .. Len(u) - k : b[i] = u[k + i]
    BY <1>1, <1>2, DropIs
  <1> HIDE DEF a, b
  <1>5. /\ a \o t \in Seq(Byte) /\ Len(a \o t) = Len(a) + Len(t)
        /\ \A i \in 1 .. Len(a) : (a \o t)[i] = a[i]
        /\ \A i \in 1 .. Len(t) : (a \o t)[Len(a) + i] = t[i]
    BY <1>3, JoinIs
  <1>6. ASSUME NEW i \in 1 .. Len(b) PROVE b[i] = (a \o t)[i]
    <2>1. CASE i \in 1 .. Len(a)
      <3>1. k + i \in 1 .. Len(s) /\ i \in 1 .. Len(u) - k
        BY <1>1, <1>3, <2>1
      <3> QED BY <1>1, <1>3, <1>4, <1>5, <2>1, <3>1
    <2>2. CASE i \notin 1 .. Len(a)
      <3> DEFINE j == i - Len(a)
      <3>1. j \in 1 .. Len(t) /\ i = Len(a) + j /\ k + i = Len(s) + j
        BY <1>1, <1>3, <1>4, <2>2
      <3> HIDE DEF j
      <3> QED BY <1>1, <1>4, <1>5, <3>1
    <2> QED BY <2>1, <2>2
  <1>7. b = a \o t
    <2>1. Len(b) = Len(a \o t)
      BY <1>1, <1>3, <1>4, <1>5
    <2> QED BY <1>4, <1>5, <1>6, <2>1, SameBytes
  <1>8. SubSeq(u, 1, k) = SubSeq(s, 1, k)
    <2>1. /\ SubSeq(u, 1, k) \in Seq(Byte) /\ Len(SubSeq(u, 1, k)) = k
          /\ \A i \in 1 .. k : SubSeq(u, 1, k)[i] = u[i]
      BY <1>1, <1>2, FirstIs
    <2>2. /\ SubSeq(s, 1, k) \in Seq(Byte) /\ Len(SubSeq(s, 1, k)) = k
          /\ \A i \in 1 .. k : SubSeq(s, 1, k)[i] = s[i]
      BY FirstIs
    <2> DEFINE x == SubSeq(u, 1, k)
               y == SubSeq(s, 1, k)
    <2>3. \A i \in 1 .. k : x[i] = y[i]
      BY <1>1, <2>1, <2>2
    <2> HIDE DEF x, y
    <2> QED BY <2>1, <2>2, <2>3, SameBytes DEF x, y
  <1> QED BY <1>2, <1>7, <1>8 DEF a, b, u

(* Two pieces of data that follow each other.                              *)
LEMMA FirstMore ==
  ASSUME NEW s \in Seq(Byte), NEW k \in 0 .. Len(s), NEW m \in 0 .. Len(s) - k
  PROVE  SubSeq(s, 1, k) \o SubSeq(Drop(s, k), 1, m) = SubSeq(s, 1, k + m)
  <1> DEFINE d == Drop(s, k)
             a == SubSeq(s, 1, k)
             b == SubSeq(d, 1, m)
             c == SubSeq(s, 1, k + m)
  <1>1. /\ d \in Seq(Byte) /\ Len(d) = Len(s) - k /\ Len(s) \in Nat
        /\ \A i \in 1 .. Len(s) - k : d[i] = s[k + i]
    BY DropIs
  <1> HIDE DEF d
  <1>2. /\ a \in Seq(Byte) /\ Len(a) = k /\ \A i \in 1 .. k : a[i] = s[i]
    BY FirstIs
  <1>3. m \in 0 .. Len(d) /\ k + m \in 0 .. Len(s)
    BY <1>1
  <1>4. /\ b \in Seq(Byte) /\ Len(b) = m /\ \A i \in 1 .. m : b[i] = d[i]
    BY <1>1, <1>3, FirstIs
  <1>5. /\ c \in Seq(Byte) /\ Len(c) = k + m /\ \A i \in 1 .. k + m : c[i] = s[i]
    BY <1>3, FirstIs
  <1> HIDE DEF a, b, c
  <1>6. /\ a \o b \in Seq(Byte) /\ Len(a \o b) = Len(a) + Len(b)
        /\ \A i \in 1 .. Len(a) : (a \o b)[i] = a[i]
        /\ \A i \in 1 .. Len(b) : (a \o b)[Len(a) + i] = b[i]
    BY <1>2, <1>4, JoinIs
  <1>7. ASSUME NEW i \in 1 .. Len(a \o b) PROVE (a \o b)[i] = c[i]
    <2>1. CASE i \in 1 .. k
      BY <1>2, <1>3, <1>5, <1>6, <2>1
    <2>2. CASE i \notin 1 .. k
      <3> DEFINE j == i - k
      <3>1. j \in 1 .. m /\ i = k + j /\ i \in 1 .. k + m /\ j \in 1 .. Len(s) - k
        BY <1>1, <1>2, <1>4, <1>6, <2>2
      <3> HIDE DEF j
      <3>2. (a \o b)[i] = b[j]
        BY <1>2, <1>4, <1>6, <3>1
      <3>3. b[j] = s[i] /\ c[i] = s[i]
        BY <1>1, <1>4, <1>5, <3>1
      <3> QED BY <3>2, <3>3
    <2> QED BY <2>1, <2>2
  <1>8. a \o b = c
    <2>1. Len(a \o b) = Len(c)
      BY <1>2, <1>4, <1>5, <1>6
    <2> QED BY <1>5, <1>6, <1>7, <2>1, SameBytes
  <1> QED BY <1>8 DEF a, b, c, d

-----------------------------------------------------------------------------
(***************************************************************************)
(* Lines.                                                                  *)
(***************************************************************************)
Crlfs(s) == {i \in 1 .. Len(s) - 1 : s[i] = CR /\ s[i + 1] = LF}

LEMMA FindIs ==
  ASSUME NEW s \in Seq(Byte)
  PROVE  /\ FindCrlf(s) = 0 <=> Crlfs(s) = {}
         /\ FindCrlf(s) # 0 => /\ FindCrlf(s) \in Crlfs(s)
                               /\ \A i \in Crlfs(s) : FindCrlf(s) <= i
  <1>1. FindCrlf(s) = IF Crlfs(s) = {} THEN 0 ELSE Min(Crlfs(s))
    BY DEF FindCrlf, Crlfs
  <1>2. Crlfs(s) \in SUBSET Nat /\ 0 \notin Crlfs(s)
    BY DEF Crlfs
  <1> HIDE DEF Crlfs
  <1>3. CASE Crlfs(s) = {}
    BY <1>1, <1>3
  <1>4. CASE Crlfs(s) # {}
    BY <1>1, <1>2, <1>4, MinIn
  <1> QED BY <1>3, <1>4

(* A line that is there: its bytes, and what follows it.                   *)
LEMMA LineIs ==
  ASSUME NEW s \in Seq(Byte), FindCrlf(s) # 0
  PROVE  /\ FindCrlf(s) \in 1 .. Len(s) - 1 /\ Len(s) \in Nat
         /\ FindCrlf(s) - 1 \in 0 .. Len(s) /\ FindCrlf(s) + 1 \in 1 .. Len(s)
         /\ s[FindCrlf(s)] = CR /\ s[FindCrlf(s) + 1] = LF
  <1> DEFINE f == FindCrlf(s)
  <1>1. f \in Crlfs(s)
    BY FindIs
  <1>2. f \in 1 .. Len(s) - 1 /\ s[f] = CR /\ s[f + 1] = LF
    BY <1>1 DEF Crlfs
  <1> HIDE DEF f
  <1>3. Len(s) \in Nat
    OBVIOUS
  <1>4. f - 1 \in 0 .. Len(s) /\ f + 1 \in 1 .. Len(s)
    BY <1>2, <1>3
  <1> QED BY <1>2, <1>3, <1>4 DEF f

(* The bytes that have not arrived yet do not change it.                   *)
LEMMA FindJoin ==
  ASSUME NEW s \in Seq(Byte), NEW t \in Seq(Byte), FindCrlf(s) # 0
  PROVE  FindCrlf(s \o t) = FindCrlf(s)
  <1> DEFINE u == s \o t
             f == FindCrlf(s)
             g == FindCrlf(u)
  <1>1. /\ u \in Seq(Byte) /\ Len(u) = Len(s) + Len(t) /\ Len(s) \in Nat /\ Len(t) \in Nat
        /\ \A i \in 1 .. Len(s) : u[i] = s[i]
    BY JoinIs
  <1> HIDE DEF u
  <1>2. f \in Crlfs(s) /\ \A i \in Crlfs(s) : f <= i
    BY FindIs
  <1>3. \A i \in 1 .. Len(s) - 1 : i \in Crlfs(u) <=> i \in Crlfs(s)
    <2> SUFFICES ASSUME NEW i \in 1 .. Len(s) - 1 PROVE i \in Crlfs(u) <=> i \in Crlfs(s)
      OBVIOUS
    <2>1. i \in 1 .. Len(s) /\ i + 1 \in 1 .. Len(s) /\ i \in 1 .. Len(u) - 1
      BY <1>1
    <2> QED BY <1>1, <2>1 DEF Crlfs
  <1>4. f \in 1 .. Len(s) - 1
    BY <1>2 DEF Crlfs
  <1>5. f \in Crlfs(u)
    BY <1>2, <1>3, <1>4
  <1>6. g \in Crlfs(u) /\ \A i \in Crlfs(u) : g <= i
    BY <1>1, <1>5, FindIs
  <1>7. g \in 1 .. Len(u) - 1 /\ g <= f
    BY <1>5, <1>6 DEF Crlfs
  <1> HIDE DEF f, g
  <1>8. g \in 1 .. Len(s) - 1
    BY <1>1, <1>4, <1>7
  <1>9. g \in Crlfs(s)
    BY <1>3, <1>6, <1>8
  <1>10. f <= g
    BY <1>2, <1>9
  <1> QED BY <1>1, <1>4, <1>7, <1>8, <1>10 DEF f, g, u

(* A CRLF at the front.                                                    *)
LEMMA FindFirst ==
  ASSUME NEW s \in Seq(Byte), Len(s) >= 2
  PROVE  FindCrlf(s) = 1 <=> s[1] = CR /\ s[2] = LF
  <1>1. Len(s) \in Nat /\ 1 \in 1 .. Len(s) - 1
    OBVIOUS
  <1>2. 1 \in Crlfs(s) <=> s[1] = CR /\ s[2] = LF
    BY <1>1 DEF Crlfs
  <1>3. CASE 1 \in Crlfs(s)
    <2>1. FindCrlf(s) \in Crlfs(s) /\ FindCrlf(s) <= 1
      BY <1>3, FindIs
    <2>2. FindCrlf(s) \in 1 .. Len(s) - 1
      BY <2>1 DEF Crlfs
    <2>3. FindCrlf(s) = 1
      BY <2>1, <2>2
    <2> QED BY <1>2, <1>3, <2>3
  <1>4. CASE 1 \notin Crlfs(s)
    <2>1. FindCrlf(s) # 1
      BY <1>4, FindIs
    <2> QED BY <1>2, <1>4, <2>1
  <1> QED BY <1>3, <1>4

(* The size field of a line is made of its bytes.                          *)
LEMMA FieldIs ==
  ASSUME NEW s \in Seq(Byte)
  PROVE  StripExtension(s) \in Seq(Byte) /\ TrimBlanks(s) \in Seq(Byte)
  <1>1. StripExtension(s) \in Seq(Byte)
    <2> DEFINE I == {i \in 1 .. Len(s) : s[i] = ";"}
    <2>1. StripExtension(s) = IF I # {} /\ Min(I) # 0 THEN SubSeq(s, 1, Min(I) - 1) ELSE s
      BY DEF StripExtension, SelectInSeq
    <2>2. CASE I = {}
      BY <2>1, <2>2
    <2>3. CASE I # {}
      <3>1. I \in SUBSET Nat
        <4>1. \A i \in I : i \in 1 .. Len(s)
          OBVIOUS
        <4>2. \A i \in 1 .. Len(s) : i \in Nat
          OBVIOUS
        <4> HIDE DEF I
        <4> QED BY <4>1, <4>2
      <3>2. Min(I) \in I
        <4> HIDE DEF I
        <4> QED BY <2>3, <3>1, MinIn
      <3>3. Min(I) - 1 \in 0 .. Len(s)
        <4> DEFINE k == Min(I)
        <4>1. k \in 1 .. Len(s) /\ Len(s) \in Nat
          <5>1. \A i \in I : i \in 1 .. Len(s)
            OBVIOUS
          <5> HIDE DEF I
          <5> QED BY <3>2, <5>1
        <4> HIDE DEF k
        <4>2. k - 1 \in 0 .. Len(s)
          BY <4>1
        <4> QED BY <4>2 DEF k
      <3>4. SubSeq(s, 1, Min(I) - 1) \in Seq(Byte)
        <4> HIDE DEF I
        <4> QED BY <3>3, FirstIs
      <3> QED BY <2>1, <3>4
    <2> QED BY <2>2, <2>3
  <1>2. TrimBlanks(s) \in Seq(Byte)
    <2> DEFINE solid == {i \in DOMAIN s : s[i] # " "}
    <2>1. TrimBlanks(s) = IF solid = {} THEN <<>> ELSE SubSeq(s, Min(solid), Max(solid))
      BY DEF TrimBlanks
    <2>2. CASE solid = {}
      BY <2>1, <2>2, JoinEmpty
    <2>3. CASE solid # {}
      <3>1. solid \in SUBSET Nat /\ solid \in SUBSET (0 .. Len(s)) /\ Len(s) \in Nat
        <4>1. DOMAIN s = 1 .. Len(s) /\ Len(s) \in Nat
          OBVIOUS
        <4>2. \A i \in 1 .. Len(s) : i \in Nat /\ i \in 0 .. Len(s)
          BY <4>1
        <4>3. \A i \in solid : i \in 1 .. Len(s)
          BY <4>1
        <4> HIDE DEF solid
        <4> QED BY <4>1, <4>2, <4>3
      <3> HIDE DEF solid
      <3>2. Min(solid) \in solid
        BY <2>3, <3>1, MinIn
      <3>3. Max(solid) \in solid
        BY <2>3, <3>1, MaxIn
      <3>4. Min(solid) \in 1 .. Len(s) /\ Max(solid) \in 1 .. Len(s)
        <4>1. \A i \in solid : i \in 1 .. Len(s)
          <5>1. DOMAIN s = 1 .. Len(s)
            OBVIOUS
          <5> QED BY <5>1 DEF solid
        <4> QED BY <3>2, <3>3, <4>1
      <3>5. SubSeq(s, Min(solid), Max(solid)) \in Seq(Byte)
        BY <3>4
      <3> QED BY <2>1, <2>3, <3>5
    <2> QED BY <2>2, <2>3
  <1> QED BY <1>1, <1>2

(* There is nothing to trim of a number.                                   *)
LEMMA TrimHex ==
  ASSUME NEW s \in Seq(Byte), IsHex(s)
  PROVE  TrimBlanks(s) = s
  <1> DEFINE solid == {i \in DOMAIN s : s[i] # " "}
  <1>1. DOMAIN s = 1 .. Len(s) /\ Len(s) \in Nat
    OBVIOUS
  <1>2. \A i \in DOMAIN s : s[i] # " "
    BY NumbersAssumption DEF IsHex
  <1>3. solid = 1 .. Len(s)
    BY <1>1, <1>2
  <1>4. TrimBlanks(s) = IF solid = {} THEN <<>> ELSE SubSeq(s, Min(solid), Max(solid))
    BY DEF TrimBlanks
  <1> HIDE DEF solid
  <1>5. CASE s = <<>>
    <2>1. 1 .. 0 = {}
      OBVIOUS
    <2>2. Len(s) = 0
      BY <1>5
    <2> QED BY <1>3, <1>4, <1>5, <2>1, <2>2
  <1>6. CASE s # <<>>
    <2>1. Len(s) # 0 /\ 1 \in solid /\ Len(s) \in solid
      BY <1>1, <1>3, <1>6
    <2>2. solid \in SUBSET Nat /\ solid \in SUBSET (0 .. Len(s))
      BY <1>1, <1>3
    <2>3. Min(solid) \in solid /\ Min(solid) <= 1
      BY <2>1, <2>2, MinIn
    <2>4. Max(solid) \in solid /\ Len(s) <= Max(solid)
      BY <1>1, <2>1, <2>2, MaxIn
    <2>5. Min(solid) = 1 /\ Max(solid) = Len(s)
      BY <1>1, <1>3, <2>3, <2>4
    <2>6. SubSeq(s, 1, Len(s)) = s
      OBVIOUS
    <2> QED BY <1>4, <2>1, <2>5, <2>6
  <1> QED BY <1>5, <1>6

(* A remainder.                                                            *)
LEMMA ModIs ==
  ASSUME NEW x \in Nat, NEW m \in Nat \ {0}
  PROVE  x % m \in Nat
  OBVIOUS

(* A number is a number: the loop over its digits ends.                    *)
LEMMA ValueIs ==
  ASSUME NEW s \in Seq(Byte), IsHex(s)
  PROVE  HexValue(s) \in Nat /\ (s = <<>> => HexValue(s) = 0)
  <1> DEFINE N == Len(s)
             Step(g, i) == IF i = 0 THEN 0 ELSE (g[i - 1] * 16 + Hex[s[i]]) % Modulus
             Runs(g, m) == g = [i \in 0 .. m |-> Step(g, i)] /\ \A i \in 0 .. m : g[i] \in Nat
             T == {m \in 0 .. N : ~ \E g : Runs(g, m)}
  <1>1. N \in Nat
    OBVIOUS
  <1>2. \A i \in 1 .. N : Hex[s[i]] \in Nat
    <2>1. \A c \in DOMAIN Hex : Hex[c] \in Nat
      BY NumbersAssumption
    <2>2. DOMAIN s = 1 .. Len(s)
      OBVIOUS
    <2>3. \A i \in 1 .. Len(s) : s[i] \in DOMAIN Hex
      BY <2>2 DEF IsHex
    <2> QED BY <2>1, <2>3
  <1> HIDE DEF N
  <1>3. T = {}
    <2> SUFFICES ASSUME T # {} PROVE FALSE
      OBVIOUS
    <2>1. T \in SUBSET Nat
      OBVIOUS
    <2>2. PICK m \in T : \A k \in T : m <= k
      BY <2>1, MinIn
    <2>3. CASE m = 0
      <3>1. Runs([i \in 0 .. 0 |-> 0], 0)
        OBVIOUS
      <3> QED BY <2>2, <2>3, <3>1
    <2>4. CASE m # 0
      <3>1. m - 1 \in 0 .. N /\ m - 1 \notin T /\ m \in Nat /\ m \in 1 .. N
        <4>1. m \in 0 .. N
          BY <2>2
        <4>2. m - 1 \in 0 .. N /\ m \in Nat /\ m \in 1 .. N /\ ~ (m <= m - 1)
          BY <1>1, <2>4, <4>1
        <4> HIDE DEF T
        <4> QED BY <2>2, <4>2
      <3>2. PICK g : Runs(g, m - 1)
        BY <3>1
      <3> DEFINE new == (g[m - 1] * 16 + Hex[s[m]]) % Modulus
                 next == [i \in 0 .. m |-> IF i = m THEN new ELSE g[i]]
      <3>3. new \in Nat
        <4>1. g[m - 1] \in Nat /\ Hex[s[m]] \in Nat
          BY <1>2, <3>1, <3>2
        <4> DEFINE x == g[m - 1] * 16 + Hex[s[m]]
        <4>2. x \in Nat
          BY <4>1
        <4> HIDE DEF x
        <4>3. x % Modulus \in Nat
          BY <4>2, ModIs, NumbersAssumption
        <4> QED BY <4>3 DEF x
      <3>4. ASSUME NEW i \in 0 .. m
            PROVE  next[i] = Step(next, i) /\ next[i] \in Nat
        <4> HIDE DEF new
        <4>1. CASE i = m
          <5>1. next[m] = new /\ next[m - 1] = g[m - 1]
            BY <3>1
          <5> QED BY <2>4, <3>3, <4>1, <5>1 DEF new
        <4>2. CASE i # m
          <5>1. i \in 0 .. m - 1 /\ (i # 0 => i - 1 \in 0 .. m /\ i - 1 # m)
            BY <3>1, <4>2
          <5>2. g[i] = Step(g, i) /\ g[i] \in Nat
            BY <3>2, <5>1
          <5>3. i # 0 => next[i - 1] = g[i - 1]
            BY <5>1
          <5>4. next[i] = g[i]
            BY <4>2
          <5> HIDE DEF next
          <5>5. Step(next, i) = Step(g, i)
            BY <5>3
          <5> QED BY <5>2, <5>4, <5>5
        <4> QED BY <4>1, <4>2
      <3>5. Runs(next, m)
        <4>1. next = [i \in 0 .. m |-> next[i]]
          OBVIOUS
        <4> HIDE DEF next
        <4> QED BY <3>4, <4>1
      <3> QED BY <2>2, <3>5
    <2> QED BY <2>3, <2>4
  <1> DEFINE out == CHOOSE g : g = [i \in 0 .. N |-> Step(g, i)]
  <1>4. PICK h : Runs(h, N)
    <2>1. N \in 0 .. N
      BY <1>1
    <2>2. N \notin T
      <3> HIDE DEF T
      <3> QED BY <1>3
    <2> QED BY <2>1, <2>2
  <1>5. HexValue(s) = out[N]
    BY DEF HexValue, N
  <1>6. out = [i \in 0 .. N |-> Step(out, i)]
    BY <1>4
  <1> HIDE DEF out
  (* There is only one such function.                                      *)
  <1>7. \A i \in 0 .. N : out[i] \in Nat
    <2> DEFINE B == {i \in 0 .. N : out[i] \notin Nat}
    <2> SUFFICES ASSUME B # {} PROVE FALSE
      OBVIOUS
    <2>1. B \in SUBSET Nat
      OBVIOUS
    <2>2. PICK i \in B : \A k \in B : i <= k
      BY <2>1, MinIn
    <2>3. i \in 0 .. N /\ out[i] \notin Nat /\ out[i] = Step(out, i)
      BY <1>6, <2>2
    <2>4. i # 0
      BY <2>3
    <2>5. i \in 1 .. N /\ i - 1 \in 0 .. N /\ ~ (i <= i - 1)
      BY <1>1, <2>3, <2>4
    <2>6. out[i - 1] \in Nat
      <3>1. i - 1 \notin B
        <4> HIDE DEF B
        <4> QED BY <2>2, <2>5
      <3> QED BY <2>5, <3>1
    <2> DEFINE x == out[i - 1] * 16 + Hex[s[i]]
    <2>7. x \in Nat
      BY <1>2, <2>5, <2>6
    <2>8. out[i] = x % Modulus
      BY <2>3, <2>4
    <2> HIDE DEF x
    <2>9. x % Modulus \in Nat
      BY <2>7, ModIs, NumbersAssumption
    <2> QED BY <2>3, <2>8, <2>9
  <1>8. s = <<>> => out[N] = 0
    <2>1. s = <<>> => N = 0
      BY DEF N
    <2>2. 0 \in 0 .. N
      BY <1>1
    <2> QED BY <1>6, <2>1, <2>2
  <1>9. N \in 0 .. N
    BY <1>1
  <1> QED BY <1>5, <1>7, <1>8, <1>9

-----------------------------------------------------------------------------
(***************************************************************************)
(* The reference.                                                          *)
(***************************************************************************)
Meanings == [body : Seq(Byte), ok : BOOLEAN, plain : BOOLEAN]

LEMMA TailIs ==
  ASSUME NEW w \in Seq(Byte), NEW s \in Tails(w)
  PROVE  /\ s \in Seq(Byte) /\ Len(s) \in 0 .. Len(w) /\ Len(w) \in Nat
         /\ \A k \in 0 .. Len(s) : Drop(s, k) \in Tails(w) /\ Len(Drop(s, k)) = Len(s) - k
  <1>1. PICK j \in 0 .. Len(w) : s = Drop(w, j)
    BY DEF Tails
  <1>2. s \in Seq(Byte) /\ Len(s) = Len(w) - j /\ Len(w) \in Nat
    BY <1>1, DropIs
  <1>3. ASSUME NEW k \in 0 .. Len(s)
        PROVE  Drop(s, k) \in Tails(w) /\ Len(Drop(s, k)) = Len(s) - k
    <2>1. k \in 0 .. Len(w) - j
      BY <1>2
    <2>2. Drop(s, k) = Drop(w, j + k) /\ j + k \in 0 .. Len(w)
      BY <1>1, <2>1, DropDrop
    <2>3. Len(Drop(s, k)) = Len(s) - k
      BY <1>2, DropIs
    <2> QED BY <2>2, <2>3 DEF Tails
  <1> QED BY <1>2, <1>3

LEMMA WholeIsTail ==
  ASSUME NEW w \in Seq(Byte)
  PROVE  w \in Tails(w)
  <1>1. Drop(w, 0) = w /\ 0 \in 0 .. Len(w)
    <2>1. 0 \in 0 .. Len(w) /\ SubSeq(w, 1, 0) = <<>>
      OBVIOUS
    <2>2. SubSeq(w, 1, 0) \o Drop(w, 0) = w /\ Drop(w, 0) \in Seq(Byte)
      BY <2>1, CutAt, DropIs
    <2> QED BY <2>1, <2>2, JoinEmpty
  <1> QED BY <1>1 DEF Tails

(* The meaning of a tail depends on that of shorter ones only.             *)
Agree(w, f, g, m) == \A t \in Tails(w) : Len(t) < m => f[t] = g[t]

LEMMA DataLooksOn ==
  ASSUME NEW w \in Seq(Byte), NEW s \in Tails(w), NEW n \in Nat, NEW f, NEW g,
         NEW m \in Nat, Len(s) <= m, Agree(w, f, g, m)
  PROVE  DataMeans(f, s, n) = DataMeans(g, s, n)
  <1>1. CASE Len(s) >= n + 2 /\ s[n + 1] = CR /\ s[n + 2] = LF
    <2>1. n + 2 \in 0 .. Len(s) /\ Len(s) \in Nat
      BY <1>1, TailIs
    <2>2. Drop(s, n + 2) \in Tails(w) /\ Len(Drop(s, n + 2)) = Len(s) - (n + 2)
      BY <2>1, TailIs
    <2>3. Len(Drop(s, n + 2)) < m
      BY <2>1, <2>2
    <2>4. f[Drop(s, n + 2)] = g[Drop(s, n + 2)]
      BY <2>2, <2>3 DEF Agree
    <2> QED BY <1>1, <2>4 DEF DataMeans
  <1>2. CASE ~ (Len(s) >= n + 2 /\ s[n + 1] = CR /\ s[n + 2] = LF)
    BY <1>2 DEF DataMeans
  <1> QED BY <1>1, <1>2

Field(s) == StripExtension(SubSeq(s, 1, FindCrlf(s) - 1))
Digits(s) == TrimBlanks(Field(s))
Behind(s) == Drop(s, FindCrlf(s) + 1)

(* The line a tail begins with.                                            *)
LEMMA SizeLine ==
  ASSUME NEW s \in Seq(Byte), FindCrlf(s) # 0
  PROVE  /\ Field(s) \in Seq(Byte) /\ Digits(s) \in Seq(Byte)
         /\ IsHex(Digits(s)) => HexValue(Digits(s)) \in Nat
         /\ IsHex(Field(s)) => Digits(s) = Field(s)
         /\ FindCrlf(s) + 1 \in 1 .. Len(s)
  <1>1. SubSeq(s, 1, FindCrlf(s) - 1) \in Seq(Byte)
    BY LineIs, FirstIs
  <1>2. Field(s) \in Seq(Byte)
    BY <1>1, FieldIs DEF Field
  <1>3. Digits(s) \in Seq(Byte)
    BY <1>2, FieldIs DEF Digits
  <1> QED BY <1>2, <1>3, ValueIs, TrimHex, LineIs DEF Digits

LEMMA SizeMeansIs ==
  ASSUME NEW f, NEW s
  PROVE  SizeMeans(f, s) =
           IF FindCrlf(s) = 0 \/ Digits(s) = <<>> \/ ~ IsHex(Digits(s))
           THEN Meant(<<>>, FALSE, TRUE)
           ELSE IF HexValue(Digits(s)) = 0 THEN Meant(<<>>, TRUE, IsHex(Field(s)))
           ELSE Meant(DataMeans(f, Behind(s), HexValue(Digits(s))).body,
                      DataMeans(f, Behind(s), HexValue(Digits(s))).ok,
                      DataMeans(f, Behind(s), HexValue(Digits(s))).plain /\ IsHex(Field(s)))
  BY DEF SizeMeans, Digits, Field, Behind

LEMMA SizeLooksOn ==
  ASSUME NEW w \in Seq(Byte), NEW s \in Tails(w), NEW f, NEW g, Agree(w, f, g, Len(s))
  PROVE  SizeMeans(f, s) = SizeMeans(g, s)
  <1>1. CASE FindCrlf(s) = 0 \/ Digits(s) = <<>> \/ ~ IsHex(Digits(s)) \/ HexValue(Digits(s)) = 0
    BY <1>1, SizeMeansIs
  <1>2. CASE ~ (\/ FindCrlf(s) = 0 \/ Digits(s) = <<>>
                \/ ~ IsHex(Digits(s)) \/ HexValue(Digits(s)) = 0)
    <2>1. s \in Seq(Byte) /\ Len(s) \in Nat
      BY TailIs
    <2>2. HexValue(Digits(s)) \in Nat /\ FindCrlf(s) + 1 \in 1 .. Len(s)
      BY <1>2, <2>1, SizeLine
    <2>3. Behind(s) \in Tails(w) /\ Len(Behind(s)) <= Len(s)
      <3>1. FindCrlf(s) + 1 \in 0 .. Len(s)
        BY <2>2
      <3>2. Behind(s) \in Tails(w) /\ Len(Behind(s)) = Len(s) - (FindCrlf(s) + 1)
        BY <3>1, TailIs DEF Behind
      <3> QED BY <2>1, <2>2, <3>2
    <2>4. DataMeans(f, Behind(s), HexValue(Digits(s)))
            = DataMeans(g, Behind(s), HexValue(Digits(s)))
      BY <2>1, <2>2, <2>3, DataLooksOn
    <2> QED BY <1>2, <2>4, SizeMeansIs
  <1> QED BY <1>1, <1>2

(* So there is such a function.                                            *)
LEMMA SizesRuns ==
  ASSUME NEW w \in Seq(Byte)
  PROVE  \A s \in Tails(w) : Sizes(w)[s] = SizeMeans(Sizes(w), s)
  <1> DEFINE N == Len(w) + 1
             Dull == Meant(<<>>, FALSE, FALSE)
             Upto(g, m) == [s \in Tails(w) |-> IF Len(s) < m THEN SizeMeans(g, s) ELSE Dull]
             T == {m \in 0 .. N : ~ \E g : g = Upto(g, m)}
  <1>1. N \in Nat /\ \A s \in Tails(w) : Len(s) \in Nat /\ Len(s) < N
    <2>1. \A s \in Tails(w) : Len(s) \in 0 .. Len(w) /\ Len(w) \in Nat
      BY TailIs
    <2> QED BY <2>1
  <1> HIDE DEF N, Dull
  <1>2. T = {}
    <2> SUFFICES ASSUME T # {} PROVE FALSE
      OBVIOUS
    <2>1. T \in SUBSET Nat
      OBVIOUS
    <2>2. PICK m \in T : \A k \in T : m <= k
      BY <2>1, MinIn
    <2>3. CASE m = 0
      <3> DEFINE g == [s \in Tails(w) |-> Dull]
      <3>1. \A s \in Tails(w) : ~ (Len(s) < 0)
        BY <1>1
      <3>2. Upto(g, 0) = g
        BY <3>1
      <3> HIDE DEF g
      <3> QED BY <2>2, <2>3, <3>2
    <2>4. CASE m # 0
      <3>1. m - 1 \in 0 .. N /\ m - 1 \notin T /\ m \in Nat
        <4>1. m \in 0 .. N
          BY <2>2
        <4>2. m - 1 \in 0 .. N /\ m \in Nat /\ ~ (m <= m - 1)
          BY <1>1, <2>4, <4>1
        <4> HIDE DEF T
        <4> QED BY <2>2, <4>2
      <3>2. PICK g : g = Upto(g, m - 1)
        BY <3>1
      <3> DEFINE next == Upto(g, m)
      <3>3. \A s \in Tails(w) : next[s] = IF Len(s) < m THEN SizeMeans(g, s) ELSE Dull
        OBVIOUS
      <3>4. \A s \in Tails(w) : g[s] = IF Len(s) < m - 1 THEN SizeMeans(g, s) ELSE Dull
        BY <3>2
      <3>5. next = [s \in Tails(w) |-> next[s]]
        OBVIOUS
      <3> HIDE DEF next
      <3>6. ASSUME NEW s \in Tails(w), Len(s) < m
            PROVE  SizeMeans(next, s) = SizeMeans(g, s)
        <4>1. ASSUME NEW t \in Tails(w), Len(t) < Len(s) PROVE next[t] = g[t]
          <5>1. Len(t) < m - 1 /\ Len(t) < m
            BY <1>1, <3>1, <3>6, <4>1
          <5> QED BY <3>3, <3>4, <5>1
        <4>2. Agree(w, next, g, Len(s))
          BY <4>1 DEF Agree
        <4> QED BY <4>2, SizeLooksOn
      <3>7. \A s \in Tails(w) : next[s] = IF Len(s) < m THEN SizeMeans(next, s) ELSE Dull
        BY <3>3, <3>6
      <3>8. next = Upto(next, m)
        BY <3>5, <3>7
      <3> QED BY <2>2, <3>8
    <2> QED BY <2>3, <2>4
  <1>3. \E g : g = [s \in Tails(w) |-> SizeMeans(g, s)]
    <2>1. N \in 0 .. N
      BY <1>1
    <2>2. N \notin T
      <3> HIDE DEF T
      <3> QED BY <1>2
    <2>3. PICK g : g = Upto(g, N)
      BY <2>1, <2>2
    <2>4. Upto(g, N) = [s \in Tails(w) |-> SizeMeans(g, s)]
      BY <1>1
    <2> QED BY <2>3, <2>4
  <1>4. Sizes(w) = CHOOSE g : g = [s \in Tails(w) |-> SizeMeans(g, s)]
    BY DEF Sizes, Tails
  <1>5. Sizes(w) = [s \in Tails(w) |-> SizeMeans(Sizes(w), s)]
    BY <1>3, <1>4
  <1> QED BY <1>5

(* What it says are bytes and truth values.                                *)
Typed(w, f, m) == \A t \in Tails(w) : Len(t) < m => f[t] \in Meanings

LEMMA DataTyped ==
  ASSUME NEW w \in Seq(Byte), NEW s \in Tails(w), NEW n \in Nat, NEW f,
         NEW m \in Nat, Len(s) <= m, Typed(w, f, m)
  PROVE  DataMeans(f, s, n) \in Meanings
  <1>1. s \in Seq(Byte) /\ Len(s) \in Nat
    BY TailIs
  <1>2. CASE Len(s) >= n + 2 /\ s[n + 1] = CR /\ s[n + 2] = LF
    <2> DEFINE next == f[Drop(s, n + 2)]
    <2>1. n + 2 \in 0 .. Len(s) /\ n \in 0 .. Len(s)
      BY <1>1, <1>2
    <2>2. Drop(s, n + 2) \in Tails(w) /\ Len(Drop(s, n + 2)) = Len(s) - (n + 2)
      BY <2>1, TailIs
    <2>3. Len(Drop(s, n + 2)) < m
      BY <1>1, <2>1, <2>2
    <2>4. next \in Meanings
      BY <2>2, <2>3 DEF Typed
    <2>5. DataMeans(f, s, n) = Meant(SubSeq(s, 1, n) \o next.body, next.ok, next.plain)
      BY <1>2 DEF DataMeans
    <2> HIDE DEF next
    <2>6. SubSeq(s, 1, n) \in Seq(Byte) /\ next.body \in Seq(Byte)
      BY <1>1, <2>1, <2>4, FirstIs DEF Meanings
    <2>7. SubSeq(s, 1, n) \o next.body \in Seq(Byte)
      BY <2>6, JoinIs
    <2> QED BY <2>4, <2>5, <2>7 DEF Meant, Meanings
  <1>3. CASE ~ (Len(s) >= n + 2 /\ s[n + 1] = CR /\ s[n + 2] = LF)
    <2> DEFINE k == IF n < Len(s) THEN n ELSE Len(s)
    <2>1. k \in 0 .. Len(s)
      BY <1>1
    <2>2. DataMeans(f, s, n) = Meant(SubSeq(s, 1, k), FALSE, TRUE)
      BY <1>3 DEF DataMeans
    <2> HIDE DEF k
    <2>3. SubSeq(s, 1, k) \in Seq(Byte)
      BY <1>1, <2>1, FirstIs
    <2> QED BY <2>2, <2>3 DEF Meant, Meanings
  <1> QED BY <1>2, <1>3

LEMMA SizeTyped ==
  ASSUME NEW w \in Seq(Byte), NEW s \in Tails(w), NEW f, Typed(w, f, Len(s))
  PROVE  SizeMeans(f, s) \in Meanings
  <1>1. s \in Seq(Byte) /\ Len(s) \in Nat
    BY TailIs
  <1>2. <<>> \in Seq(Byte) /\ IsHex(Field(s)) \in BOOLEAN
    BY DEF IsHex
  <1>3. CASE FindCrlf(s) = 0 \/ Digits(s) = <<>> \/ ~ IsHex(Digits(s))
    <2>1. SizeMeans(f, s) = Meant(<<>>, FALSE, TRUE)
      BY <1>3, SizeMeansIs
    <2> QED BY <1>2, <2>1 DEF Meant, Meanings
  <1>4. CASE ~ (FindCrlf(s) = 0 \/ Digits(s) = <<>> \/ ~ IsHex(Digits(s)))
    <2>1. CASE HexValue(Digits(s)) = 0
      <3>1. SizeMeans(f, s) = Meant(<<>>, TRUE, IsHex(Field(s)))
        BY <1>4, <2>1, SizeMeansIs
      <3> QED BY <1>2, <3>1 DEF Meant, Meanings
    <2>2. CASE HexValue(Digits(s)) # 0
      <3> DEFINE d == DataMeans(f, Behind(s), HexValue(Digits(s)))
      <3>1. HexValue(Digits(s)) \in Nat /\ FindCrlf(s) + 1 \in 1 .. Len(s)
        BY <1>1, <1>4, SizeLine
      <3>2. FindCrlf(s) + 1 \in 0 .. Len(s)
        BY <1>1, <3>1
      <3>3. Behind(s) \in Tails(w) /\ Len(Behind(s)) = Len(s) - (FindCrlf(s) + 1)
        BY <3>2, TailIs DEF Behind
      <3>4. Len(Behind(s)) <= Len(s)
        BY <1>1, <3>1, <3>3
      <3>5. d \in Meanings
        BY <1>1, <3>1, <3>3, <3>4, DataTyped
      <3>6. SizeMeans(f, s) = Meant(d.body, d.ok, d.plain /\ IsHex(Field(s)))
        BY <1>4, <2>2, SizeMeansIs
      <3> HIDE DEF d
      <3>7. d.body \in Seq(Byte) /\ d.ok \in BOOLEAN
        BY <3>5 DEF Meanings
      <3>8. (d.plain /\ IsHex(Field(s))) \in BOOLEAN
        OBVIOUS
      <3> DEFINE p == d.plain /\ IsHex(Field(s))
      <3>9. p \in BOOLEAN
        OBVIOUS
      <3> HIDE DEF p
      <3>10. Meant(d.body, d.ok, p) \in Meanings
        BY <3>7, <3>9 DEF Meant, Meanings
      <3> QED BY <3>6, <3>10 DEF p
    <2> QED BY <2>1, <2>2
  <1> QED BY <1>3, <1>4

LEMMA SizesTyped ==
  ASSUME NEW w \in Seq(Byte)
  PROVE  \A s \in Tails(w) : Sizes(w)[s] \in Meanings
  <1> DEFINE size == Sizes(w)
             T == {m \in Nat : \E s \in Tails(w) : Len(s) = m /\ size[s] \notin Meanings}
  <1>1. \A s \in Tails(w) : Len(s) \in Nat /\ size[s] = SizeMeans(size, s)
    BY TailIs, SizesRuns
  <1> HIDE DEF size
  <1>2. T = {}
    <2> SUFFICES ASSUME T # {} PROVE FALSE
      OBVIOUS
    <2>1. T \in SUBSET Nat
      OBVIOUS
    <2>2. PICK m \in T : \A k \in T : m <= k
      BY <2>1, MinIn
    <2>3. PICK s \in Tails(w) : Len(s) = m /\ size[s] \notin Meanings
      BY <2>2
    <2>4. ASSUME NEW t \in Tails(w), Len(t) < m PROVE size[t] \in Meanings
      <3>1. Len(t) \in Nat /\ m \in Nat
        BY <1>1, <2>1
      <3>2. Len(t) \notin T
        <4> HIDE DEF T
        <4> QED BY <2>2, <2>4, <3>1
      <3> QED BY <3>1, <3>2
    <2>5. Typed(w, size, Len(s))
      BY <2>3, <2>4 DEF Typed
    <2> QED BY <1>1, <2>3, <2>5, SizeTyped
  <1> QED BY <1>1, <1>2 DEF size

LEMMA DataIsTyped ==
  ASSUME NEW w \in Seq(Byte), NEW s \in Tails(w), NEW n \in Nat
  PROVE  DataMeans(Sizes(w), s, n) \in Meanings
  <1>1. Len(s) \in Nat /\ Len(s) <= Len(s)
    BY TailIs
  <1>2. Typed(w, Sizes(w), Len(s))
    BY SizesTyped DEF Typed
  <1> QED BY <1>1, <1>2, DataTyped

(***************************************************************************)
(* The reference when something has arrived: b is in the buffer, t has not *)
(* been read yet.                                                          *)
(***************************************************************************)
(* A size line that is complete.                                           *)
LEMMA LineMeans ==
  ASSUME NEW w \in Seq(Byte), NEW b \in Seq(Byte), NEW t \in Seq(Byte), b \o t \in Tails(w),
         FindCrlf(b) # 0,
         NEW here, here = Sizes(w)[b \o t],
         NEW data, data = DataMeans(Sizes(w), Behind(b) \o t, HexValue(Digits(b)))
  PROVE  /\ Behind(b) \o t \in Tails(w)
         /\ Digits(b) = <<>> \/ ~ IsHex(Digits(b)) => here.body = <<>> /\ ~ here.ok
         /\ Digits(b) # <<>> /\ IsHex(Digits(b)) =>
              /\ here.plain => IsHex(Field(b))
              /\ HexValue(Digits(b)) = 0 => here.body = <<>>
              /\ HexValue(Digits(b)) # 0 => /\ here.body = data.body /\ here.ok = data.ok
                                            /\ here.plain => data.plain
  <1> DEFINE u == b \o t
             f == FindCrlf(b)
  <1>1. f - 1 \in 0 .. Len(b) /\ f + 1 \in 0 .. Len(b)
    BY LineIs
  <1>2. FindCrlf(u) = f
    BY FindJoin
  <1>3. SubSeq(u, 1, f - 1) = SubSeq(b, 1, f - 1)
    BY <1>1, DropJoin
  <1>4. Drop(u, f + 1) = Drop(b, f + 1) \o t /\ f + 1 \in 0 .. Len(u)
    BY <1>1, DropJoin
  <1> HIDE DEF u, f
  <1>5. Field(u) = Field(b)
    BY <1>2, <1>3 DEF Field, f
  <1>6. Digits(u) = Digits(b)
    BY <1>5 DEF Digits
  <1>7. Behind(u) = Behind(b) \o t
    BY <1>2, <1>4 DEF Behind, f
  <1>8. Behind(u) \in Tails(w)
    BY <1>2, <1>4, TailIs DEF Behind, u
  <1>9. here = SizeMeans(Sizes(w), u)
    BY SizesRuns DEF u
  <1>10. CASE Digits(b) = <<>> \/ ~ IsHex(Digits(b))
    <2>1. here = Meant(<<>>, FALSE, TRUE)
      BY <1>6, <1>9, <1>10, SizeMeansIs
    <2>2. here.body = <<>> /\ here.ok = FALSE
      BY <2>1 DEF Meant
    <2> QED BY <1>7, <1>8, <1>10, <2>2
  <1>11. CASE Digits(b) # <<>> /\ IsHex(Digits(b)) /\ HexValue(Digits(b)) = 0
    <2>1. here = Meant(<<>>, TRUE, IsHex(Field(b)))
      BY <1>2, <1>5, <1>6, <1>9, <1>11, SizeMeansIs DEF f
    <2>2. here.body = <<>> /\ here.plain = IsHex(Field(b))
      BY <2>1 DEF Meant
    <2> QED BY <1>7, <1>8, <1>11, <2>2
  <1>12. CASE Digits(b) # <<>> /\ IsHex(Digits(b)) /\ HexValue(Digits(b)) # 0
    <2>1. here = Meant(data.body, data.ok, data.plain /\ IsHex(Field(b)))
      BY <1>2, <1>5, <1>6, <1>7, <1>9, <1>12, SizeMeansIs DEF f
    <2>2. here.body = data.body /\ here.ok = data.ok
      BY <2>1 DEF Meant
    <2>3. here.plain = (data.plain /\ IsHex(Field(b)))
      BY <2>1 DEF Meant
    <2> QED BY <1>7, <1>8, <1>12, <2>2, <2>3
  <1> QED BY <1>10, <1>11, <1>12

(* A name for bytes in front of others, which lemmas can be applied with.  *)
Before(a, b) == a \o b

(* Some of the data of a chunk.                                            *)
LEMMA DataMore ==
  ASSUME NEW w \in Seq(Byte), NEW s \in Tails(w), NEW n \in Nat,
         NEW k \in 0 .. Len(s), NEW m \in Nat, n <= k + m, k + m <= n,
         NEW this, this = DataMeans(Sizes(w), s, n),
         NEW that, that = DataMeans(Sizes(w), Drop(s, k), m)
  PROVE  /\ this.body = Before(SubSeq(s, 1, k), that.body)
         /\ this.ok = that.ok /\ this.plain = that.plain
  <1> DEFINE d == Drop(s, k)
  <1>1. s \in Seq(Byte) /\ Len(s) \in Nat
    BY TailIs
  <1>2. /\ d \in Tails(w) /\ d \in Seq(Byte) /\ Len(d) = Len(s) - k
        /\ \A i \in 1 .. Len(s) - k : d[i] = s[k + i]
    BY <1>1, DropIs, TailIs
  <1>3. m \in Nat /\ n = k + m
    OBVIOUS
  <1>4. Len(d) >= m + 2 <=> Len(s) >= n + 2
    BY <1>1, <1>2, <1>3
  <1>5. Len(d) >= m + 2 => d[m + 1] = s[n + 1] /\ d[m + 2] = s[n + 2]
    <2> SUFFICES ASSUME Len(d) >= m + 2 PROVE d[m + 1] = s[n + 1] /\ d[m + 2] = s[n + 2]
      OBVIOUS
    <2>1. /\ m + 1 \in 1 .. Len(s) - k /\ m + 2 \in 1 .. Len(s) - k
          /\ k + (m + 1) = n + 1 /\ k + (m + 2) = n + 2
      BY <1>1, <1>2, <1>3
    <2> HIDE DEF d
    <2>2. d[m + 1] = s[k + (m + 1)] /\ d[m + 2] = s[k + (m + 2)]
      BY <1>2, <2>1
    <2> QED BY <2>1, <2>2
  <1>6. SubSeq(s, 1, k) \in Seq(Byte)
    BY <1>1, FirstIs
  <1>7. CASE Len(s) >= n + 2 /\ s[n + 1] = CR /\ s[n + 2] = LF
    <2> DEFINE next == Sizes(w)[Drop(s, n + 2)]
    <2>1. m + 2 \in 0 .. Len(s) - k /\ m \in 0 .. Len(s) - k /\ m \in 0 .. Len(d)
          /\ k + (m + 2) = n + 2 /\ n + 2 \in 0 .. Len(s)
      BY <1>1, <1>2, <1>3, <1>7
    <2>2. Drop(d, m + 2) = Drop(s, n + 2)
      BY <1>1, <2>1, DropDrop
    <2>3. Drop(s, n + 2) \in Tails(w)
      BY <2>1, TailIs
    <2>4. next.body \in Seq(Byte)
      BY <2>3, SizesTyped DEF Meanings
    <2>5. this = Meant(SubSeq(s, 1, n) \o next.body, next.ok, next.plain)
      BY <1>7 DEF DataMeans
    <2>6. that = Meant(SubSeq(d, 1, m) \o next.body, next.ok, next.plain)
      BY <1>4, <1>5, <1>7, <2>2 DEF DataMeans
    <2>7. SubSeq(s, 1, k) \o SubSeq(d, 1, m) = SubSeq(s, 1, n)
      BY <1>1, <1>3, <2>1, FirstMore
    <2>8. SubSeq(d, 1, m) \in Seq(Byte)
      BY <1>2, <2>1, FirstIs
    <2> DEFINE x == SubSeq(s, 1, k)
               y == SubSeq(d, 1, m)
               z == SubSeq(s, 1, n)
    <2> HIDE DEF next, d, x, y, z
    <2>9. x \in Seq(Byte) /\ y \in Seq(Byte) /\ x \o y = z
      BY <1>6, <2>7, <2>8 DEF x, y, z, d
    <2>10. z \o next.body = x \o (y \o next.body)
      BY <2>4, <2>9, JoinThree
    <2>11. this = Meant(z \o next.body, next.ok, next.plain)
      BY <2>5 DEF z
    <2>12. that = Meant(y \o next.body, next.ok, next.plain)
      BY <2>6 DEF y
    <2>13. this.body = z \o next.body /\ this.ok = next.ok /\ this.plain = next.plain
      BY <2>11 DEF Meant
    <2>14. that.body = y \o next.body /\ that.ok = next.ok /\ that.plain = next.plain
      BY <2>12 DEF Meant
    <2> QED BY <2>10, <2>13, <2>14 DEF Before, x
  <1>8. CASE ~ (Len(s) >= n + 2 /\ s[n + 1] = CR /\ s[n + 2] = LF)
    <2> DEFINE i == IF n < Len(s) THEN n ELSE Len(s)
               j == IF m < Len(d) THEN m ELSE Len(d)
    <2>1. this = Meant(SubSeq(s, 1, i), FALSE, TRUE)
      BY <1>8 DEF DataMeans
    <2>2. that = Meant(SubSeq(d, 1, j), FALSE, TRUE)
      BY <1>4, <1>5, <1>8 DEF DataMeans
    <2>3. j \in 0 .. Len(s) - k /\ i = k + j
      BY <1>1, <1>2, <1>3
    <2> DEFINE x == SubSeq(s, 1, i)
               y == SubSeq(d, 1, j)
    <2> HIDE DEF i, j
    <2>4. SubSeq(s, 1, k) \o SubSeq(d, 1, j) = SubSeq(s, 1, i)
      BY <1>1, <2>3, FirstMore
    <2>5. this = Meant(x, FALSE, TRUE) /\ that = Meant(y, FALSE, TRUE)
      BY <2>1, <2>2
    <2> HIDE DEF x, y
    <2>6. /\ this.body = x /\ this.ok = FALSE /\ this.plain = TRUE
          /\ that.body = y /\ that.ok = FALSE /\ that.plain = TRUE
      BY <2>5 DEF Meant
    <2> QED BY <2>4, <2>6 DEF Before, x, y
  <1> QED BY <1>7, <1>8

(* The same with the data in two parts: b has arrived, t has not.          *)
LEMMA DataCut ==
  ASSUME NEW w \in Seq(Byte), NEW b \in Seq(Byte), NEW t \in Seq(Byte), b \o t \in Tails(w),
         NEW n \in Nat,
         NEW k \in 0 .. Len(b), NEW m \in Nat, n <= k + m, k + m <= n,
         NEW this, this = DataMeans(Sizes(w), b \o t, n),
         NEW that, that = DataMeans(Sizes(w), Drop(b, k) \o t, m)
  PROVE  /\ this.body = Before(SubSeq(b, 1, k), that.body)
         /\ this.ok = that.ok /\ this.plain = that.plain
         /\ that.body \in Seq(Byte)
  <1> DEFINE u == b \o t
  <1>1. /\ k \in 0 .. Len(u) /\ Drop(u, k) = Drop(b, k) \o t
        /\ SubSeq(u, 1, k) = SubSeq(b, 1, k)
    BY DropJoin
  <1>2. m \in Nat /\ n <= k + m /\ k + m <= n
    OBVIOUS
  <1>3. /\ u \in Tails(w) /\ this = DataMeans(Sizes(w), u, n)
        /\ that = DataMeans(Sizes(w), Drop(u, k), m)
    BY <1>1
  <1> HIDE DEF u
  <1>4. Drop(u, k) \in Tails(w)
    BY <1>1, <1>3, TailIs
  <1>5. that.body \in Seq(Byte)
    BY <1>2, <1>3, <1>4, DataIsTyped DEF Meanings
  <1>6. /\ this.body = Before(SubSeq(u, 1, k), that.body)
        /\ this.ok = that.ok /\ this.plain = that.plain
    <2>1. w \in Seq(Byte) /\ n \in Nat /\ k \in 0 .. Len(u)
      BY <1>1
    <2> QED BY ONLY <1>2, <1>3, <2>1, DataMore
  <1> QED BY <1>1, <1>5, <1>6

(* The CRLF behind the data.                                               *)
LEMMA CrlfMeans ==
  ASSUME NEW w \in Seq(Byte), NEW b \in Seq(Byte), NEW t \in Seq(Byte), b \o t \in Tails(w),
         Len(b) >= 2,
         NEW this, this = DataMeans(Sizes(w), b \o t, 0),
         NEW that, that = Sizes(w)[Drop(b, 2) \o t]
  PROVE  /\ FindCrlf(b) = 1 => /\ Drop(b, 2) \o t \in Tails(w) /\ this.body = that.body
                               /\ this.ok = that.ok /\ this.plain = that.plain
         /\ FindCrlf(b) # 1 => ~ this.ok
  <1> DEFINE u == b \o t
  <1>1. /\ u \in Seq(Byte) /\ Len(u) = Len(b) + Len(t) /\ Len(b) \in Nat /\ Len(t) \in Nat
        /\ \A i \in 1 .. Len(b) : u[i] = b[i]
    BY JoinIs
  <1>2. 2 \in 0 .. Len(b) /\ 1 \in 1 .. Len(b) /\ 2 \in 1 .. Len(b) /\ Len(u) >= 0 + 2
    BY <1>1
  <1>3. Drop(u, 2) = Drop(b, 2) \o t /\ 2 \in 0 .. Len(u)
    BY <1>2, DropJoin
  <1>4. Drop(u, 2) \in Tails(w)
    BY <1>3, TailIs
  <1>5. u[0 + 1] = b[1] /\ u[0 + 2] = b[2]
    BY <1>1, <1>2
  <1> HIDE DEF u
  <1>6. FindCrlf(b) = 1 <=> b[1] = CR /\ b[2] = LF
    BY FindFirst
  <1>7. CASE FindCrlf(b) = 1
    <2>1. this = Meant(SubSeq(u, 1, 0) \o that.body, that.ok, that.plain)
      <3>1. Drop(u, 0 + 2) = Drop(b, 2) \o t
        BY <1>3
      <3> QED BY <1>2, <1>5, <1>6, <1>7, <3>1 DEF DataMeans, u
    <2>2. that.body \in Seq(Byte)
      BY <1>3, <1>4, SizesTyped DEF Meanings
    <2>3. SubSeq(u, 1, 0) = <<>>
      BY <1>1
    <2>4. SubSeq(u, 1, 0) \o that.body = that.body
      BY <2>2, <2>3, JoinEmpty
    <2> DEFINE x == SubSeq(u, 1, 0) \o that.body
    <2>5. this = Meant(x, that.ok, that.plain)
      BY <2>1
    <2>6. x = that.body
      BY <2>4
    <2> HIDE DEF x
    <2>7. this.body = x /\ this.ok = that.ok /\ this.plain = that.plain
      BY <2>5 DEF Meant
    <2>8. Drop(b, 2) \o t \in Tails(w)
      BY <1>3, <1>4
    <2> QED BY <1>7, <2>6, <2>7, <2>8
  <1>8. CASE FindCrlf(b) # 1
    <2>1. this = Meant(SubSeq(u, 1, IF 0 < Len(u) THEN 0 ELSE Len(u)), FALSE, TRUE)
      BY <1>5, <1>6, <1>8 DEF DataMeans, u
    <2>2. this.ok = FALSE
      BY <2>1 DEF Meant
    <2> QED BY <1>8, <2>2
  <1> QED BY <1>7, <1>8

-----------------------------------------------------------------------------
(***************************************************************************)
(* The invariant: what has come out and what the bytes to come mean are    *)
(* together what the message means.                                        *)
(***************************************************************************)
Coming == buffer \o wire
Got == body \o fresh

LeftOf(w, state, tail, n) ==
  IF state = "size" THEN Sizes(w)[tail]
  ELSE IF state = "data" THEN DataMeans(Sizes(w), tail, n)
  ELSE IF state = "crlf" THEN DataMeans(Sizes(w), tail, 0)
  ELSE Meant(<<>>, TRUE, TRUE)
Left == LeftOf(msg.wire, st, Coming, remaining)

TypesOK ==
  /\ msg \in Messages /\ cgi \in BOOLEAN /\ max \in Limits
  /\ wire \in Seq(Byte) /\ buffer \in Seq(Byte) /\ body \in Seq(Byte) /\ fresh \in Seq(Byte)
  /\ remaining \in Nat /\ resumed \in BOOLEAN
  /\ who \in {"request", "client"}
  /\ st \in {"size", "data", "crlf", "trailers", "done"}

(* No byte is lost or read twice.                                          *)
Whole == Coming \in Tails(msg.wire)

(* Which decoder is in charge, and when it may report the end.             *)
Turns ==
  /\ who = "client" => cgi
  /\ who = "request" => fresh = <<>> /\ st # "done"
  /\ st = "data" => remaining > 0
  /\ run \in {"complete", "eof"} => st \in {"trailers", "done"} /\ fresh = <<>>

(* No chunk was refused so far.                                            *)
Sound == run \notin {"error", "refused"} /\ ~ resumed

GoesOn ==
  Sound => /\ msg.body = Got \o Left.body
           /\ msg.legal => Left.ok
           /\ ~ msg.spaced => Left.plain

(* What was refused had a reason, and what came out before stays right.    *)
Refused ==
  ~ Sound => /\ ~ Acceptable
             /\ ~ resumed => \E m \in 0 .. Len(msg.body) : Got = SubSeq(msg.body, 1, m)

(* The limit is exceeded at most while a chunk is being read.              *)
WithinLimit == who = "request" /\ run # "error" /\ st # "data" => ~ Over(Len(body))

ChunkInv == TypesOK /\ Whole /\ Turns /\ GoesOn /\ Refused /\ WithinLimit

-----------------------------------------------------------------------------
LEMMA MessageIs ==
  ASSUME TypesOK
  PROVE  /\ msg.wire \in Seq(Byte) /\ msg.body \in Seq(Byte)
         /\ msg.legal \in BOOLEAN /\ msg.spaced \in BOOLEAN
         /\ msg.body = Sizes(msg.wire)[msg.wire].body
         /\ msg.legal => Sizes(msg.wire)[msg.wire].ok
         /\ ~ msg.spaced => Sizes(msg.wire)[msg.wire].plain
  BY MessagesAssumption DEF TypesOK

LEMMA LeftTyped ==
  ASSUME NEW w \in Seq(Byte), NEW tail \in Tails(w), NEW n \in Nat, NEW state
  PROVE  LeftOf(w, state, tail, n) \in Meanings
  <1>1. Sizes(w)[tail] \in Meanings
    BY SizesTyped
  <1>2. DataMeans(Sizes(w), tail, n) \in Meanings /\ DataMeans(Sizes(w), tail, 0) \in Meanings
    BY DataIsTyped
  <1>3. Meant(<<>>, TRUE, TRUE) \in Meanings
    <2>1. <<>> \in Seq(Byte)
      OBVIOUS
    <2> QED BY <2>1 DEF Meant, Meanings
  <1> QED BY <1>1, <1>2, <1>3 DEF LeftOf

(* Every step of a decoder takes bytes from the front of its buffer.       *)
LEMMA Takes ==
  ASSUME TypesOK, Parse \/ Dispatch \/ Decode \/ StdinFlushed
  PROVE  /\ UNCHANGED <<input, wire, resumed>>
         /\ \E k \in 0 .. Len(buffer) : buffer' = Drop(buffer, k)
  <1>1. /\ buffer \in Seq(Byte) /\ Len(buffer) \in Nat /\ remaining \in Nat
        /\ 0 \in 0 .. Len(buffer) /\ Len(buffer) \in 0 .. Len(buffer)
    BY DEF TypesOK
  <1>2. Drop(buffer, 0) = buffer
    <2>1. SubSeq(buffer, 1, 0) = <<>>
      BY <1>1
    <2>2. SubSeq(buffer, 1, 0) \o Drop(buffer, 0) = buffer /\ Drop(buffer, 0) \in Seq(Byte)
      BY <1>1, CutAt, DropIs
    <2> QED BY <2>1, <2>2, JoinEmpty
  <1>3. Drop(buffer, Len(buffer)) = <<>>
    <2>1. Drop(buffer, Len(buffer)) \in Seq(Byte) /\ Len(Drop(buffer, Len(buffer))) = 0
      BY <1>1, DropIs
    <2> QED BY <2>1
  <1>4. FindCrlf(buffer) # 0 => FindCrlf(buffer) + 1 \in 0 .. Len(buffer)
    BY <1>1, LineIs
  <1>5. FindCrlf(buffer) # 0 => AfterLine = Drop(buffer, FindCrlf(buffer) + 1)
    BY DEF AfterLine
  <1> DEFINE Some == \E k \in 0 .. Len(buffer) : buffer' = Drop(buffer, k)
  <1>6. buffer' = buffer \/ buffer' = <<>> => Some
    BY <1>1, <1>2, <1>3
  <1>7. FindCrlf(buffer) # 0 /\ buffer' = AfterLine => Some
    BY <1>4, <1>5
  <1>8. Len(buffer) >= remaining /\ buffer' = Drop(buffer, remaining) => Some
    BY <1>1
  <1>9. ~ CrlfMissing /\ buffer' = Drop(buffer, 2) => Some
    <2>1. ~ CrlfMissing => 2 \in 0 .. Len(buffer)
      BY <1>1 DEF CrlfMissing
    <2> QED BY <2>1
  <1>10. buffer' = Drop(buffer, Avail) => Some
    <2>1. Avail \in 0 .. Len(buffer)
      BY <1>1 DEF Avail
    <2> QED BY <2>1
  <1> SUFFICES UNCHANGED <<input, wire, resumed>> /\ Some
    OBVIOUS
  <1> HIDE DEF Some
  <1>11. CASE Parse
    <2>1. CASE parse_chunk_size
      BY <1>6, <1>7, <2>1 DEF parse_chunk_size, input
    <2>2. CASE parse_chunk_data
      BY <1>6, <1>8, <2>2 DEF parse_chunk_data, input
    <2>3. CASE parse_chunk_data_crlf
      BY <1>6, <1>9, <2>3 DEF parse_chunk_data_crlf, input
    <2>4. CASE parse_chunk_trailers
      BY <1>6, <1>7, <2>4 DEF parse_chunk_trailers, input
    <2> QED BY <1>11, <2>1, <2>2, <2>3, <2>4 DEF Parse
  <1>12. CASE Dispatch
    BY <1>6, <1>12 DEF Dispatch, input
  <1>13. CASE Decode
    <2>1. CASE DecodeEmpty
      BY <1>6, <2>1 DEF DecodeEmpty, input
    <2>2. CASE DecodeSize
      BY <1>6, <1>7, <2>2 DEF DecodeSize, input
    <2>3. CASE DecodeData
      BY <1>10, <2>3 DEF DecodeData, input
    <2>4. CASE DecodeCrlf
      BY <1>6, <1>9, <2>4 DEF DecodeCrlf, input
    <2>5. CASE DecodeTrailers
      BY <1>6, <1>7, <2>5 DEF DecodeTrailers, input
    <2>6. CASE DecodeDone
      BY <1>6, <2>6 DEF DecodeDone, input
    <2> QED BY <1>13, <2>1, <2>2, <2>3, <2>4, <2>5, <2>6 DEF Decode
  <1>14. CASE StdinFlushed
    BY <1>6, <1>14 DEF StdinFlushed, input
  <1> QED BY <1>11, <1>12, <1>13, <1>14

(* A read moves bytes from one end of what is to come to the other.        *)
LEMMA Reads ==
  ASSUME TypesOK, Read
  PROVE  /\ wire' \in Seq(Byte) /\ buffer' \in Seq(Byte) /\ Coming' = Coming
         /\ UNCHANGED <<input, st, remaining, body, fresh, who>>
         /\ run \in {"start", "more", "eof", "refused"} /\ run' = "loop"
         /\ resumed' = (resumed \/ run = "refused")
  <1>1. PICK k \in (IF run = "start" THEN 0 ELSE 1) .. Len(wire) :
          buffer' = buffer \o SubSeq(wire, 1, k) /\ wire' = Drop(wire, k)
    BY DEF Read
  <1>2. wire \in Seq(Byte) /\ buffer \in Seq(Byte) /\ k \in 0 .. Len(wire)
    BY <1>1 DEF TypesOK
  <1> DEFINE a == SubSeq(wire, 1, k)
             b == Drop(wire, k)
  <1>3. a \in Seq(Byte) /\ b \in Seq(Byte) /\ a \o b = wire
    BY <1>2, FirstIs, DropIs, CutAt
  <1> HIDE DEF a, b
  <1>4. buffer' = buffer \o a /\ wire' = b
    BY <1>1 DEF a, b
  <1>5. buffer \o a \in Seq(Byte)
    BY <1>2, <1>3, JoinIs
  <1>6. (buffer \o a) \o b = buffer \o wire
    BY <1>2, <1>3, JoinThree
  <1>7. Coming' = Coming
    BY <1>4, <1>6 DEF Coming
  <1> QED BY <1>3, <1>4, <1>5, <1>7 DEF Read, Continue, input

(* The bytes to come stay an end of the message.                           *)
LEMMA WholeStep ==
  ASSUME TypesOK, Whole, Next
  PROVE  Whole' /\ wire' \in Seq(Byte) /\ buffer' \in Seq(Byte)
  <1>1. msg.wire \in Seq(Byte) /\ Coming \in Tails(msg.wire)
    BY MessageIs DEF Whole
  <1>2. CASE Read
    <2>1. Coming' = Coming /\ msg' = msg
      BY <1>2, Reads DEF input
    <2> QED BY <1>1, <1>2, <2>1, Reads DEF Whole
  <1>3. CASE Parse \/ Dispatch \/ Decode \/ StdinFlushed
    <2>1. PICK k \in 0 .. Len(buffer) : buffer' = Drop(buffer, k)
      BY <1>3, Takes
    <2>2. wire' = wire /\ msg' = msg
      BY <1>3, Takes DEF input
    <2>3. wire \in Seq(Byte) /\ buffer \in Seq(Byte)
      BY DEF TypesOK
    <2>4. Drop(buffer \o wire, k) = Drop(buffer, k) \o wire /\ k \in 0 .. Len(buffer \o wire)
      BY <2>3, DropJoin
    <2>5. Drop(Coming, k) \in Tails(msg.wire)
      BY <1>1, <2>4, TailIs DEF Coming
    <2>6. Coming' = Drop(Coming, k)
      BY <2>1, <2>2, <2>4 DEF Coming
    <2>7. Drop(buffer, k) \in Seq(Byte)
      BY <2>3, DropIs
    <2> QED BY <2>1, <2>2, <2>3, <2>5, <2>6, <2>7 DEF Whole
  <1> QED BY <1>2, <1>3 DEF Next

(* The types of what a decoder keeps and of what it has put out.           *)
LEMMA TypesStep ==
  ASSUME TypesOK, Whole, Next
  PROVE  TypesOK'
  <1>1. wire' \in Seq(Byte) /\ buffer' \in Seq(Byte)
    BY WholeStep
  <1>2. /\ buffer \in Seq(Byte) /\ Len(buffer) \in Nat /\ remaining \in Nat
        /\ body \in Seq(Byte) /\ fresh \in Seq(Byte) /\ <<>> \in Seq(Byte)
        /\ st \in {"size", "data", "crlf", "trailers", "done"}
        /\ who \in {"request", "client"}
    BY DEF TypesOK
  <1>3. body \o fresh \in Seq(Byte) /\ body \o buffer \in Seq(Byte)
    BY <1>2, JoinIs
  <1> DEFINE Kept == UNCHANGED input /\ resumed' \in BOOLEAN
             Put == body' \in Seq(Byte) /\ fresh' \in Seq(Byte)
             State == /\ remaining' \in Nat /\ who' \in {"request", "client"}
                      /\ st' \in {"size", "data", "crlf", "trailers", "done"}
  <1>4. Kept
    <2>1. resumed \in BOOLEAN
      BY DEF TypesOK
    <2> QED BY <2>1, Takes, Reads DEF Next
  <1>5. \A r : Return(r) => Put
    BY <1>2, <1>3 DEF Return
  <1>6. Refuse \/ Again => Put
    BY <1>2 DEF Refuse, Again
  <1>7. FindCrlf(buffer) # 0 /\ IsHex(Digits(buffer)) => HexValue(Digits(buffer)) \in Nat
    BY <1>2, SizeLine
  <1>8. FindCrlf(buffer) # 0 /\ IsHex(Field(buffer)) => HexValue(Field(buffer)) \in Nat
    BY <1>2, SizeLine, ValueIs
  <1>9. Digits(buffer) = TrimBlanks(StripExtension(Line)) /\ Field(buffer) = StripExtension(Line)
    BY DEF Digits, Field, Line
  <1>10. Avail \in 0 .. Len(buffer) /\ remaining - Avail \in Nat
    BY <1>2 DEF Avail
  <1>11. SubSeq(buffer, 1, Avail) \in Seq(Byte)
    BY <1>2, <1>10, FirstIs
  <1>12. Put /\ State
    <2> HIDE DEF Put
    <2>1. CASE Read
      BY <1>2, <2>1, Reads DEF Put
    <2>2. CASE parse_chunk_size
      <3>1. Put
        BY <1>2, <2>2 DEF parse_chunk_size, Put
      <3>2. State
        BY <1>2, <1>7, <1>9, <2>2 DEF parse_chunk_size
      <3> QED BY <3>1, <3>2
    <2>3. CASE parse_chunk_data
      <3>1. CASE Len(buffer) >= remaining
        <4> DEFINE a == SubSeq(buffer, 1, remaining)
        <4>1. a \in Seq(Byte)
          BY <1>2, <3>1, FirstIs
        <4>2. body' = body \o a /\ fresh' = fresh /\ remaining' = 0 /\ st' = "crlf" /\ who' = who
          BY <2>3, <3>1 DEF parse_chunk_data
        <4> HIDE DEF a
        <4>3. body \o a \in Seq(Byte)
          BY <1>2, <4>1, JoinIs
        <4> QED BY <1>2, <4>2, <4>3 DEF Put
      <3>2. CASE ~ (Len(buffer) >= remaining)
        <4>1. /\ body' = body \o buffer /\ fresh' = fresh /\ remaining' = remaining - Len(buffer)
              /\ st' = st /\ who' = who
          BY <2>3, <3>2 DEF parse_chunk_data
        <4>2. remaining - Len(buffer) \in Nat
          BY <1>2, <3>2
        <4> QED BY <1>2, <1>3, <4>1, <4>2 DEF Put
      <3> QED BY <3>1, <3>2
    <2>4. CASE parse_chunk_data_crlf
      BY <1>2, <2>4 DEF parse_chunk_data_crlf, Put
    <2>5. CASE parse_chunk_trailers
      BY <1>2, <2>5 DEF parse_chunk_trailers, Put
    <2>6. CASE Dispatch
      BY <1>2, <2>6 DEF Dispatch, init_cgi_chunk_decoder, Put
    <2>7. CASE DecodeEmpty
      BY <1>2, <1>5, <2>7 DEF DecodeEmpty
    <2>8. CASE DecodeSize
      <3>1. Put
        BY <1>5, <1>6, <2>8 DEF DecodeSize
      <3>2. State
        BY <1>2, <1>8, <1>9, <2>8 DEF DecodeSize
      <3> QED BY <3>1, <3>2
    <2>9. CASE DecodeData
      <3> DEFINE a == SubSeq(buffer, 1, Avail)
      <3>1. \/ fresh' = fresh \o a /\ body' = body
            \/ fresh' = <<>> /\ body' = body \o (fresh \o a)
        BY <2>9 DEF DecodeData
      <3>2. remaining' = remaining - Avail /\ who' = who /\ (st' = "crlf" \/ st' = st)
        BY <2>9 DEF DecodeData
      <3> HIDE DEF a
      <3>3. fresh \o a \in Seq(Byte)
        BY <1>2, <1>11, JoinIs DEF a
      <3>4. body \o (fresh \o a) \in Seq(Byte)
        BY <1>2, <3>3, JoinIs
      <3>5. Put
        BY <1>2, <3>1, <3>3, <3>4 DEF Put
      <3> QED BY <1>2, <1>10, <3>2, <3>5
    <2>10. CASE DecodeCrlf
      BY <1>2, <1>5, <1>6, <2>10 DEF DecodeCrlf
    <2>11. CASE DecodeTrailers
      BY <1>2, <1>5, <1>6, <2>11 DEF DecodeTrailers
    <2>12. CASE DecodeDone
      BY <1>2, <1>5, <2>12 DEF DecodeDone
    <2>13. CASE StdinFlushed
      BY <1>2, <2>13 DEF StdinFlushed, Put
    <2> QED BY <2>1, <2>2, <2>3, <2>4, <2>5, <2>6, <2>7, <2>8, <2>9, <2>10, <2>11, <2>12, <2>13
            DEF Next, Parse, Decode
  <1> QED BY <1>1, <1>4, <1>12 DEF TypesOK, input

(* Who decodes, and when the end is reported.                              *)
LEMMA TurnsStep ==
  ASSUME TypesOK, Turns, Next
  PROVE  Turns'
  <1>1. /\ buffer \in Seq(Byte) /\ Len(buffer) \in Nat /\ remaining \in Nat
        /\ st \in {"size", "data", "crlf", "trailers", "done"}
        /\ who \in {"request", "client"}
    BY DEF TypesOK
  <1>2. cgi' = cgi
    BY Takes, Reads DEF Next, input
  <1>3. FindCrlf(buffer) # 0 /\ IsHex(Digits(buffer)) => HexValue(Digits(buffer)) \in Nat
    BY <1>1, SizeLine
  <1>4. FindCrlf(buffer) # 0 /\ IsHex(Field(buffer)) => HexValue(Field(buffer)) \in Nat
    BY <1>1, SizeLine, ValueIs
  <1>5. Digits(buffer) = TrimBlanks(StripExtension(Line)) /\ Field(buffer) = StripExtension(Line)
    BY DEF Digits, Field, Line
  <1>6. CASE Read
    BY <1>1, <1>2, <1>6, Reads DEF Turns
  <1>7. CASE parse_chunk_size
    <2>1. /\ who' = who /\ fresh' = fresh /\ who = "request" /\ st = "size"
          /\ run' \in {"more", "error", "loop"}
      BY <1>7 DEF parse_chunk_size, Parsing, Stop, Continue
    <2>2. st' = "data" => remaining' > 0
      BY <1>1, <1>3, <1>5, <1>7, <2>1 DEF parse_chunk_size
    <2>3. st' # "done"
      BY <1>7, <2>1 DEF parse_chunk_size
    <2> QED BY <1>2, <2>1, <2>2, <2>3 DEF Turns
  <1>8. CASE parse_chunk_data
    <2>1. /\ who' = who /\ fresh' = fresh /\ who = "request" /\ st = "data"
          /\ run' \in {"more", "error", "loop"} /\ st' \in {"data", "crlf"}
      BY <1>8 DEF parse_chunk_data, Parsing, Stop, Continue
    <2>2. st' = "data" => remaining' > 0
      BY <1>1, <1>8 DEF parse_chunk_data
    <2> QED BY <1>2, <2>1, <2>2 DEF Turns
  <1>9. CASE parse_chunk_data_crlf
    BY <1>1, <1>2, <1>9 DEF parse_chunk_data_crlf, Parsing, Stop, Continue, Turns
  <1>10. CASE parse_chunk_trailers
    BY <1>1, <1>2, <1>10 DEF parse_chunk_trailers, Parsing, Stop, Continue, Turns
  <1>11. CASE Dispatch
    BY <1>1, <1>2, <1>11 DEF Dispatch, init_cgi_chunk_decoder, Stop, Continue, Turns
  <1>12. CASE DecodeEmpty
    BY <1>1, <1>2, <1>12 DEF DecodeEmpty, Return, Turns
  <1>13. CASE DecodeSize
    <2>1. /\ who' = who /\ who = "client" /\ st = "size"
          /\ run' \in {"more", "error", "refused", "loop"}
      BY <1>13 DEF DecodeSize, Decoding, Return, Refuse, Stop, Again, Continue
    <2>2. st' = "data" => remaining' > 0
      BY <1>1, <1>4, <1>5, <1>13, <2>1 DEF DecodeSize
    <2> QED BY <1>2, <2>1, <2>2 DEF Turns
  <1>14. CASE DecodeData
    <2>1. who' = who /\ who = "client" /\ run' \in {"more", "loop"}
      BY <1>14 DEF DecodeData, Decoding, Continue
    <2>2. st' = "data" => remaining' > 0
      <3>1. remaining' \in Nat /\ (st' # "crlf" => remaining' # 0)
        BY <1>1, <1>14 DEF DecodeData, Avail
      <3> QED BY <3>1
    <2> QED BY <1>2, <2>1, <2>2 DEF Turns
  <1>15. CASE DecodeCrlf
    BY <1>1, <1>2, <1>15 DEF DecodeCrlf, Decoding, Return, Refuse, Stop, Again, Continue, Turns
  <1>16. CASE DecodeTrailers
    BY <1>1, <1>2, <1>16 DEF DecodeTrailers, Decoding, Return, Again, Continue, Turns
  <1>17. CASE DecodeDone
    BY <1>1, <1>2, <1>17 DEF DecodeDone, Decoding, Return, Turns
  <1>18. CASE StdinFlushed
    BY <1>1, <1>2, <1>18 DEF StdinFlushed, Stop, Turns
  <1> QED BY <1>6, <1>7, <1>8, <1>9, <1>10, <1>11, <1>12, <1>13, <1>14, <1>15, <1>16, <1>17, <1>18
          DEF Next, Parse, Decode

(* The limit.                                                              *)
LEMMA LimitStep ==
  ASSUME TypesOK, WithinLimit, Next
  PROVE  WithinLimit'
  <1>1. max' = max
    BY Takes, Reads DEF Next, input
  <1>2. Over(Len(body))' = Over(Len(body'))
    BY <1>1 DEF Over
  <1>3. CASE Read
    BY <1>1, <1>3, Reads DEF WithinLimit, Over
  <1>4. CASE parse_chunk_size
    BY <1>1, <1>4 DEF parse_chunk_size, Parsing, WithinLimit, Over
  <1>5. CASE parse_chunk_data
    <2>1. CASE Len(buffer) >= remaining
      BY <1>2, <1>5, <2>1 DEF parse_chunk_data, Stop, Continue, WithinLimit
    <2>2. CASE ~ (Len(buffer) >= remaining)
      BY <1>5, <2>2 DEF parse_chunk_data, Parsing, WithinLimit
    <2> QED BY <2>1, <2>2
  <1>6. CASE parse_chunk_data_crlf
    BY <1>1, <1>6 DEF parse_chunk_data_crlf, Parsing, WithinLimit, Over
  <1>7. CASE parse_chunk_trailers
    BY <1>1, <1>7 DEF parse_chunk_trailers, Parsing, WithinLimit, Over
  <1>8. CASE Dispatch
    BY <1>8 DEF Dispatch, WithinLimit
  <1>9. CASE Decode
    BY <1>9 DEF Decode, DecodeEmpty, DecodeSize, DecodeData, DecodeCrlf, DecodeTrailers,
                DecodeDone, Decoding, WithinLimit
  <1>10. CASE StdinFlushed
    BY <1>10 DEF StdinFlushed, Stop, WithinLimit
  <1> QED BY <1>3, <1>4, <1>5, <1>6, <1>7, <1>8, <1>9, <1>10 DEF Next, Parse

-----------------------------------------------------------------------------
(***************************************************************************)
(* What comes out.                                                         *)
(***************************************************************************)
(* The front of a body.                                                    *)
LEMMA FrontOf ==
  ASSUME NEW a \in Seq(Byte), NEW x \in Seq(Byte)
  PROVE  Len(a) \in 0 .. Len(a \o x) /\ a = SubSeq(a \o x, 1, Len(a))
  <1>1. Len(a) \in 0 .. Len(a)
    OBVIOUS
  <1>2. SubSeq(a \o x, 1, Len(a)) = SubSeq(a, 1, Len(a)) /\ Len(a) \in 0 .. Len(a \o x)
    BY <1>1, DropJoin
  <1>3. SubSeq(a, 1, Len(a)) = a
    OBVIOUS
  <1> QED BY <1>2, <1>3

LEMMA LeftIs ==
  ASSUME TypesOK, Whole
  PROVE  Left.body \in Seq(Byte) /\ Left.ok \in BOOLEAN /\ Left.plain \in BOOLEAN
  <1>1. msg.wire \in Seq(Byte) /\ Coming \in Tails(msg.wire) /\ remaining \in Nat
    BY MessageIs DEF Whole, TypesOK
  <1>2. Left \in Meanings
    BY <1>1, LeftTyped DEF Left
  <1> QED BY <1>2 DEF Meanings

(* The decoder goes on: it has put out x of what was left.                 *)
LEMMA Advances ==
  ASSUME TypesOK, Whole, GoesOn, TypesOK', Whole', Sound, Sound',
         UNCHANGED input, NEW x \in Seq(Byte), Got' = Got \o x,
         NEW left, left = Left',
         Left.body = x \o left.body, Left.ok => left.ok, Left.plain => left.plain
  PROVE  GoesOn' /\ Refused'
  <1>1. msg' = msg
    BY DEF input
  <1>2. Got \in Seq(Byte)
    BY JoinIs DEF TypesOK, Got
  <1>3. left \in Meanings
    <2>1. msg'.wire \in Seq(Byte)
      BY <1>1, MessageIs
    <2>2. Coming' \in Tails(msg'.wire) /\ remaining' \in Nat
      BY DEF Whole, TypesOK
    <2>3. LeftOf(msg'.wire, st', Coming', remaining') \in Meanings
      BY <2>1, <2>2, LeftTyped
    <2> QED BY <2>3 DEF Left
  <1>4. left.body \in Seq(Byte)
    BY <1>3 DEF Meanings
  <1>5. (Got \o x) \o left.body = Got \o (x \o left.body)
    <2>1. x \in Seq(Byte)
      OBVIOUS
    <2> QED BY ONLY <1>2, <1>4, <2>1, JoinThree
  <1>6. msg.body = Got \o Left.body /\ (msg.legal => Left.ok) /\ (~ msg.spaced => Left.plain)
    BY DEF GoesOn
  <1>7. msg.body = (Got \o x) \o left.body
    BY <1>5, <1>6
  <1> QED BY <1>1, <1>6, <1>7 DEF GoesOn, Refused

(* It refuses what is left, and may throw away the last of what it put out.*)
LEMMA Refuses ==
  ASSUME TypesOK, Whole, GoesOn, Sound, ~ Sound', UNCHANGED input,
         NEW x \in Seq(Byte), NEW y \in Seq(Byte), Got' = x, Got = x \o y,
         ~ Left.ok \/ (cgi /\ ~ Left.plain) \/ (max > 0 /\ Len(msg.body) > max)
  PROVE  GoesOn' /\ Refused'
  <1>1. msg' = msg /\ cgi' = cgi /\ max' = max
    BY DEF input
  <1>2. msg.body = Got \o Left.body /\ (msg.legal => Left.ok) /\ (~ msg.spaced => Left.plain)
    BY DEF GoesOn
  <1>3. msg.body \in Seq(Byte) /\ max \in Nat
    BY MessageIs, NumbersAssumption DEF TypesOK
  <1>4. ~ Acceptable
    <2>1. max > 0 /\ Len(msg.body) > max => ~ (max = 0 \/ Len(msg.body) <= max)
      <3>1. Len(msg.body) \in Nat
        BY <1>3
      <3> QED BY <1>3, <3>1
    <2> QED BY <1>2, <2>1 DEF Acceptable
  <1>5. Acceptable' = Acceptable
    BY <1>1 DEF Acceptable
  <1>6. x \o (y \o Left.body) = msg.body /\ y \o Left.body \in Seq(Byte)
    <2>1. Left.body \in Seq(Byte)
      BY LeftIs
    <2>2. (x \o y) \o Left.body = x \o (y \o Left.body)
      BY <2>1, JoinThree
    <2> QED BY <1>2, <2>1, <2>2, JoinIs
  <1>7. Len(x) \in 0 .. Len(msg.body) /\ x = SubSeq(msg.body, 1, Len(x))
    BY <1>6, FrontOf
  <1> QED BY <1>1, <1>4, <1>5, <1>7 DEF GoesOn, Refused

(* What is put out but not handed over yet.                                *)
LEMMA GotKept ==
  ASSUME TypesOK, \/ UNCHANGED <<body, fresh>>
                  \/ body' = body \o fresh /\ fresh' = <<>>
  PROVE  Got' = Got
  <1>1. body \in Seq(Byte) /\ fresh \in Seq(Byte)
    BY DEF TypesOK
  <1>2. CASE UNCHANGED <<body, fresh>>
    BY <1>2 DEF Got
  <1>3. CASE body' = body \o fresh /\ fresh' = <<>>
    <2>1. body \o fresh \in Seq(Byte)
      BY <1>1, JoinIs
    <2>2. (body \o fresh) \o <<>> = body \o fresh
      BY <2>1, JoinEmpty
    <2> QED BY <1>3, <2>2 DEF Got
  <1> QED BY <1>2, <1>3

(* Nothing moves.                                                          *)
LEMMA Stays ==
  ASSUME ChunkInv, TypesOK', Whole', Sound, Sound', UNCHANGED input,
         Got' = Got, Coming' = Coming, UNCHANGED <<st, remaining>>
  PROVE  GoesOn' /\ Refused'
  <1>1. Left' = Left
    BY DEF Left, input
  <1>2. Left.body \in Seq(Byte) /\ Got \in Seq(Byte)
    BY LeftIs, JoinIs DEF ChunkInv, TypesOK, Got
  <1>3. <<>> \o Left.body = Left.body /\ Got \o <<>> = Got /\ <<>> \in Seq(Byte)
    BY <1>2, JoinEmpty
  <1> DEFINE left == Left'
             e == <<>>
  <1>4. /\ e \in Seq(Byte) /\ Got' = Got \o e /\ Left.body = e \o left.body
        /\ left.ok = Left.ok /\ left.plain = Left.plain /\ left = Left'
    BY <1>1, <1>3
  <1> HIDE DEF left, e
  <1> QED BY <1>4, Advances DEF ChunkInv

(* A size line, in either decoder.                                         *)
LEMMA SizeGoesOn ==
  ASSUME ChunkInv, TypesOK', Whole', Sound, Sound', UNCHANGED input,
         st = "size", FindCrlf(buffer) # 0, buffer' = Behind(buffer), wire' = wire,
         UNCHANGED <<body, fresh>>, IsHex(Digits(buffer)),
         remaining' = HexValue(Digits(buffer)),
         st' = IF HexValue(Digits(buffer)) = 0 THEN "trailers" ELSE "data"
  PROVE  GoesOn' /\ Refused'
  <1> DEFINE w == msg.wire
             here == Sizes(w)[buffer \o wire]
             data == DataMeans(Sizes(w), Behind(buffer) \o wire, HexValue(Digits(buffer)))
  <1>1. /\ w \in Seq(Byte) /\ buffer \in Seq(Byte) /\ wire \in Seq(Byte)
        /\ buffer \o wire \in Tails(w)
    BY MessageIs DEF ChunkInv, TypesOK, Whole, Coming
  <1>2. Left = here
    BY DEF Left, LeftOf, Coming
  <1> HIDE DEF here, data, w
  <1>3. /\ Digits(buffer) = <<>> \/ ~ IsHex(Digits(buffer)) => here.body = <<>> /\ ~ here.ok
        /\ Digits(buffer) # <<>> /\ IsHex(Digits(buffer)) =>
             /\ here.plain => IsHex(Field(buffer))
             /\ HexValue(Digits(buffer)) = 0 => here.body = <<>>
             /\ HexValue(Digits(buffer)) # 0 =>
                  here.body = data.body /\ here.ok = data.ok /\ (here.plain => data.plain)
    BY <1>1, LineMeans DEF here, data
  <1>4. Digits(buffer) = <<>> => HexValue(Digits(buffer)) = 0
    BY <1>1, SizeLine, ValueIs
  <1>5. msg' = msg /\ Got' = Got
    BY DEF input, Got
  <1> DEFINE left == Left'
             e == <<>>
  <1>6. Got \in Seq(Byte)
    BY JoinIs DEF ChunkInv, TypesOK, Got
  <1>7. /\ e \in Seq(Byte) /\ Got' = Got \o e
    BY <1>5, <1>6, JoinEmpty
  <1>8. Left.body = left.body /\ (Left.ok => left.ok) /\ (Left.plain => left.plain)
    <2>1. CASE HexValue(Digits(buffer)) = 0
      <3>1. left = Meant(<<>>, TRUE, TRUE)
        BY <2>1 DEF Left, LeftOf
      <3>2. left.body = <<>> /\ left.ok = TRUE /\ left.plain = TRUE
        BY <3>1 DEF Meant
      <3> QED BY <1>2, <1>3, <2>1, <3>2
    <2>2. CASE HexValue(Digits(buffer)) # 0
      <3>1. left = data
        BY <1>5, <2>2 DEF Left, LeftOf, Coming, data, w
      <3> QED BY <1>2, <1>3, <1>4, <2>2, <3>1
    <2> QED BY <2>1, <2>2
  <1>9. Left.body = e \o left.body
    <2>1. Left.body \in Seq(Byte)
      BY LeftIs DEF ChunkInv
    <2> QED BY <1>8, <2>1, JoinEmpty
  <1>10. left = Left'
    OBVIOUS
  <1> HIDE DEF left, e
  <1> QED BY <1>7, <1>8, <1>9, <1>10, Advances DEF ChunkInv

(* A size line that the decoder in charge cannot read.                     *)
LEMMA SizeRefused ==
  ASSUME ChunkInv, Sound, ~ Sound', UNCHANGED input,
         st = "size", FindCrlf(buffer) # 0,
         NEW x \in Seq(Byte), NEW y \in Seq(Byte), Got' = x, Got = x \o y,
         \/ Digits(buffer) = <<>> \/ ~ IsHex(Digits(buffer))
         \/ who = "client" /\ ~ IsHex(Field(buffer))
  PROVE  GoesOn' /\ Refused'
  <1> DEFINE w == msg.wire
             here == Sizes(w)[buffer \o wire]
             data == DataMeans(Sizes(w), Behind(buffer) \o wire, HexValue(Digits(buffer)))
  <1>1. /\ w \in Seq(Byte) /\ buffer \in Seq(Byte) /\ wire \in Seq(Byte)
        /\ buffer \o wire \in Tails(w)
    BY MessageIs DEF ChunkInv, TypesOK, Whole, Coming
  <1>2. Left = here
    BY DEF Left, LeftOf, Coming
  <1> HIDE DEF here, data, w
  <1>3. /\ Digits(buffer) = <<>> \/ ~ IsHex(Digits(buffer)) => ~ here.ok
        /\ Digits(buffer) # <<>> /\ IsHex(Digits(buffer)) /\ here.plain => IsHex(Field(buffer))
    <2>1. /\ here = Sizes(w)[buffer \o wire] /\ FindCrlf(buffer) # 0
          /\ data = DataMeans(Sizes(w), Behind(buffer) \o wire, HexValue(Digits(buffer)))
      BY DEF here, data
    <2> QED BY ONLY <1>1, <2>1, LineMeans
  <1>4. who = "client" => cgi
    BY DEF ChunkInv, Turns
  <1>5. ~ Left.ok \/ (cgi /\ ~ Left.plain)
    BY <1>2, <1>3, <1>4
  <1> QED BY <1>5, Refuses DEF ChunkInv

(* Data, as much of a chunk as is there or all that was missing of it.     *)
LEMMA DataGoesOn ==
  ASSUME ChunkInv, TypesOK', Whole', Sound, UNCHANGED input, st = "data",
         NEW k \in 0 .. Len(buffer), k <= remaining,
         buffer' = Drop(buffer, k), wire' = wire, remaining' = remaining - k,
         st' = "data" \/ (st' = "crlf" /\ remaining' = 0),
         NEW x, x = SubSeq(buffer, 1, k), Got' = Got \o x
  PROVE  /\ Sound' => GoesOn' /\ Refused'
         /\ \E rest \in Seq(Byte) : msg.body = Got' \o rest
  <1> DEFINE w == msg.wire
             this == DataMeans(Sizes(w), buffer \o wire, remaining)
             that == DataMeans(Sizes(w), Drop(buffer, k) \o wire, remaining - k)
  <1>1. /\ w \in Seq(Byte) /\ buffer \in Seq(Byte) /\ wire \in Seq(Byte)
        /\ buffer \o wire \in Tails(w) /\ remaining \in Nat
    BY MessageIs DEF ChunkInv, TypesOK, Whole, Coming
  <1>2. Left = this
    BY DEF Left, LeftOf, Coming
  <1>3. Left' = that
    BY DEF Left, LeftOf, Coming, w, input
  <1>4. x \in Seq(Byte)
    BY <1>1, FirstIs
  <1> HIDE DEF this, that, w
  <1>5. /\ this.body = x \o that.body /\ that.body \in Seq(Byte)
        /\ this.ok = that.ok /\ this.plain = that.plain
    <2> DEFINE m == remaining - k
    <2>1. m \in Nat /\ remaining <= k + m /\ k + m <= remaining
      BY <1>1
    <2>2. /\ this = DataMeans(Sizes(w), buffer \o wire, remaining)
          /\ that = DataMeans(Sizes(w), Drop(buffer, k) \o wire, m)
      BY DEF this, that
    <2>3. k \in 0 .. Len(buffer)
      OBVIOUS
    <2> HIDE DEF m
    <2>4. /\ this.body = Before(SubSeq(buffer, 1, k), that.body) /\ that.body \in Seq(Byte)
          /\ this.ok = that.ok /\ this.plain = that.plain
      BY ONLY <1>1, <2>1, <2>2, <2>3, DataCut
    <2> QED BY <2>4 DEF Before
  <1>7. that.body \in Seq(Byte)
    BY <1>5
  <1>8. Left.body = x \o that.body /\ Left.ok = that.ok /\ Left.plain = that.plain
    BY <1>2, <1>5
  <1>9. Sound' => GoesOn' /\ Refused'
    BY <1>3, <1>4, <1>8, Advances DEF ChunkInv
  <1>10. msg.body = Got' \o that.body
    <2>1. msg.body = Got \o Left.body /\ Got \in Seq(Byte)
      BY JoinIs DEF ChunkInv, GoesOn, TypesOK, Got
    <2>2. (Got \o x) \o that.body = Got \o (x \o that.body)
      BY <1>4, <1>7, <2>1, JoinThree
    <2> QED BY <1>8, <2>1, <2>2
  <1> QED BY <1>7, <1>9, <1>10

(* The CRLF behind the data, or something else.                            *)
LEMMA CrlfGoesOn ==
  ASSUME ChunkInv, TypesOK', Whole', Sound, UNCHANGED input, st = "crlf",
         Len(buffer) >= 2, wire' = wire,
         \/ /\ FindCrlf(buffer) = 1 /\ Sound' /\ Got' = Got
            /\ buffer' = Drop(buffer, 2) /\ st' = "size"
         \/ /\ FindCrlf(buffer) # 1 /\ ~ Sound'
            /\ \E x, y \in Seq(Byte) : Got' = x /\ Got = x \o y
  PROVE  GoesOn' /\ Refused'
  <1> DEFINE w == msg.wire
             this == DataMeans(Sizes(w), buffer \o wire, 0)
             that == Sizes(w)[Drop(buffer, 2) \o wire]
  <1>1. /\ w \in Seq(Byte) /\ buffer \in Seq(Byte) /\ wire \in Seq(Byte)
        /\ buffer \o wire \in Tails(w)
    BY MessageIs DEF ChunkInv, TypesOK, Whole, Coming
  <1>2. Left = this
    BY DEF Left, LeftOf, Coming
  <1> HIDE DEF this, that, w
  <1>3. /\ FindCrlf(buffer) = 1 => /\ this.body = that.body
                                   /\ this.ok = that.ok /\ this.plain = that.plain
        /\ FindCrlf(buffer) # 1 => ~ this.ok
    BY <1>1, CrlfMeans DEF this, that
  <1>4. CASE FindCrlf(buffer) # 1
    BY <1>2, <1>3, <1>4, Refuses DEF ChunkInv
  <1>5. CASE FindCrlf(buffer) = 1
    <2> DEFINE left == Left'
               e == <<>>
    <2>1. left = that
      BY <1>5 DEF Left, LeftOf, Coming, that, w, input
    <2>2. Left.body \in Seq(Byte) /\ Got \in Seq(Byte)
      BY LeftIs, JoinIs DEF ChunkInv, TypesOK, Got
    <2>3. e \in Seq(Byte) /\ Got' = Got \o e /\ Left.body = e \o Left.body
      BY <1>5, <2>2, JoinEmpty
    <2>4. left = Left' /\ Sound'
      BY <1>5
    <2> HIDE DEF left, e
    <2>5. Left.body = e \o left.body /\ (Left.ok => left.ok) /\ (Left.plain => left.plain)
      BY <1>2, <1>3, <1>5, <2>1, <2>3
    <2> QED BY <2>3, <2>4, <2>5, Advances DEF ChunkInv
  <1> QED BY <1>4, <1>5

(* Behind the last chunk nothing is left.                                  *)
LEMMA TrailersGoOn ==
  ASSUME ChunkInv, TypesOK', Whole', Sound, Sound', UNCHANGED input,
         st \in {"trailers", "done"}, st' \in {"trailers", "done"}, Got' = Got
  PROVE  GoesOn' /\ Refused'
  <1>1. Left = Meant(<<>>, TRUE, TRUE) /\ Left' = Meant(<<>>, TRUE, TRUE)
    BY DEF Left, LeftOf
  <1>2. Left.body \in Seq(Byte) /\ Got \in Seq(Byte)
    BY LeftIs, JoinIs DEF ChunkInv, TypesOK, Got
  <1> DEFINE left == Left'
             e == <<>>
  <1>3. /\ e \in Seq(Byte) /\ Got' = Got \o e /\ Left.body = e \o left.body
        /\ left.ok = Left.ok /\ left.plain = Left.plain /\ left = Left'
    BY <1>1, <1>2, JoinEmpty
  <1> HIDE DEF left, e
  <1> QED BY <1>3, Advances DEF ChunkInv

(* Once a chunk was refused the decoders may go on, but nothing is made    *)
(* good: the message was not acceptable, and what comes out is not looked  *)
(* at any more.                                                            *)
LEMMA NeverSoundAgain ==
  ASSUME TypesOK, Refused, ~ Sound, Next
  PROVE  GoesOn' /\ Refused'
  <1>1. resumed \in BOOLEAN /\ UNCHANGED input
    BY Takes, Reads DEF TypesOK, Next
  <1>2. ~ Acceptable'
    BY <1>1 DEF Refused, Acceptable, input
  <1>3. CASE StdinFlushed
    <2>1. run' = "error" /\ UNCHANGED <<resumed, body, fresh>>
      BY <1>3 DEF StdinFlushed, Stop
    <2>2. msg' = msg
      BY <1>1 DEF input
    <2> QED BY <1>2, <2>1, <2>2 DEF Refused, GoesOn, Sound, Got
  <1>4. CASE Read
    <2>1. resumed'
      BY <1>1, <1>4, Reads DEF Sound
    <2> QED BY <1>2, <2>1 DEF Refused, GoesOn, Sound
  <1>5. CASE Parse \/ Dispatch \/ Decode
    <2>1. run \notin {"error", "refused"}
      BY <1>5 DEF Parse, parse_chunk_size, parse_chunk_data, parse_chunk_data_crlf,
                  parse_chunk_trailers, Parsing, Dispatch, Decode, DecodeEmpty, DecodeSize,
                  DecodeData, DecodeCrlf, DecodeTrailers, DecodeDone, Decoding
    <2>2. resumed'
      BY <1>1, <1>5, <2>1, Takes DEF Sound
    <2> QED BY <1>2, <2>2 DEF Refused, GoesOn, Sound
  <1> QED BY <1>3, <1>4, <1>5 DEF Next

(* How a round of a decoder ends, when nothing was refused before.         *)
LEMMA EndsSound ==
  ASSUME TypesOK, Sound, Parse \/ Dispatch \/ Decode
  PROVE  /\ run' \in {"loop", "more", "complete", "eof"} => Sound'
         /\ run' \in {"error", "refused"} => ~ Sound'
  BY Takes DEF Sound

(* What the decoder of Client throws away when it refuses.                 *)
LEMMA RefuseGives ==
  ASSUME TypesOK, Refuse
  PROVE  Got' = body /\ Got = body \o fresh /\ body \in Seq(Byte) /\ fresh \in Seq(Byte)
  BY JoinEmpty DEF Refuse, TypesOK, Got

(* HTTPRequest answers 413.                                                *)
LEMMA LimitRefused ==
  ASSUME TypesOK, TypesOK', UNCHANGED input, ~ Sound',
         Over(Len(Got')), NEW rest \in Seq(Byte), msg.body = Got' \o rest
  PROVE  GoesOn' /\ Refused'
  <1> DEFINE got == Got'
  <1>1. got \in Seq(Byte)
    BY JoinIs DEF TypesOK, Got
  <1>2. msg' = msg /\ cgi' = cgi /\ max' = max
    BY DEF input
  <1>3. Over(Len(got)) /\ msg.body = got \o rest /\ got = Got'
    OBVIOUS
  <1>4. max \in Nat
    BY NumbersAssumption DEF TypesOK
  <1> HIDE DEF got
  <1>5. /\ Len(got) \in 0 .. Len(msg.body) /\ got = SubSeq(msg.body, 1, Len(got))
        /\ Len(msg.body) = Len(got) + Len(rest) /\ Len(rest) \in Nat /\ Len(got) \in Nat
    BY <1>1, <1>3, FrontOf, JoinIs
  <1>6. ~ (max = 0 \/ Len(msg.body) <= max)
    BY <1>3, <1>4, <1>5 DEF Over
  <1>7. ~ Acceptable'
    BY <1>2, <1>6 DEF Acceptable
  <1> QED BY <1>2, <1>3, <1>5, <1>7 DEF GoesOn, Refused

(* A round of HTTPRequest's loop, and one of Client's: what it adds and    *)
(* what it leaves is what was to come.                                     *)
LEMMA ParseMeans ==
  ASSUME ChunkInv, TypesOK', Whole', Sound, Parse
  PROVE  GoesOn' /\ Refused'
  <1>0. /\ run' \in {"loop", "more", "complete", "eof"} => Sound'
        /\ run' \in {"error", "refused"} => ~ Sound'
    BY EndsSound DEF ChunkInv
  <1>1. UNCHANGED <<input, wire>>
    BY Takes DEF ChunkInv
  <1>2. /\ buffer \in Seq(Byte) /\ Len(buffer) \in Nat /\ remaining \in Nat
        /\ body \in Seq(Byte) /\ fresh \in Seq(Byte) /\ Got \in Seq(Byte)
    BY JoinIs DEF ChunkInv, TypesOK, Got
  <1>3. Got \o <<>> = Got /\ <<>> \in Seq(Byte)
    BY <1>2, JoinEmpty
  <1>4. /\ Digits(buffer) = TrimBlanks(StripExtension(Line))
        /\ Behind(buffer) = AfterLine
    BY DEF Digits, Field, Line, Behind, AfterLine
  <1>5. UNCHANGED <<body, fresh>> => Got' = Got
    BY DEF Got
  <1>6. UNCHANGED <<buffer, wire>> => Coming' = Coming
    BY DEF Coming
  <1>7. CASE parse_chunk_size
    <2>1. st = "size" /\ UNCHANGED <<body, fresh>>
      BY <1>7 DEF parse_chunk_size, Parsing
    <2>2. CASE FindCrlf(buffer) = 0
      <3>1. UNCHANGED <<buffer, st, remaining>> /\ run' = "more"
        BY <1>7, <2>2 DEF parse_chunk_size, Stop
      <3>2. Sound' /\ Coming' = Coming /\ Got' = Got /\ UNCHANGED <<st, remaining>>
        BY <1>0, <1>1, <1>5, <1>6, <2>1, <3>1
      <3> QED BY <1>1, <3>2, Stays
    <2>3. CASE FindCrlf(buffer) # 0 /\ (Digits(buffer) = <<>> \/ ~ IsHex(Digits(buffer)))
      <3>1. ~ Sound'
        BY <1>0, <1>4, <1>7, <2>3 DEF parse_chunk_size, Stop
      <3>2. Got' = Got /\ Got = Got \o <<>>
        BY <1>3, <1>5, <2>1
      <3> QED BY <1>1, <1>2, <1>3, <2>1, <2>3, <3>1, <3>2, SizeRefused
    <2>4. CASE FindCrlf(buffer) # 0 /\ ~ (Digits(buffer) = <<>> \/ ~ IsHex(Digits(buffer)))
      <3>1. /\ buffer' = Behind(buffer) /\ remaining' = HexValue(Digits(buffer))
            /\ st' = IF HexValue(Digits(buffer)) = 0 THEN "trailers" ELSE "data"
            /\ run' = "loop"
        BY <1>4, <1>7, <2>4 DEF parse_chunk_size, Continue
      <3>2. Sound' /\ wire' = wire
        BY <1>0, <1>1, <3>1
      <3> QED BY <1>1, <2>1, <2>4, <3>1, <3>2, SizeGoesOn
    <2> QED BY <2>2, <2>3, <2>4
  <1>8. CASE parse_chunk_data
    <2>1. st = "data" /\ fresh' = fresh /\ fresh = <<>> /\ wire' = wire
      BY <1>1, <1>8 DEF parse_chunk_data, Parsing, ChunkInv, Turns
    <2>2. CASE Len(buffer) >= remaining
      <3> DEFINE k == remaining
                 x == SubSeq(buffer, 1, k)
      <3>1. /\ body' = body \o x /\ buffer' = Drop(buffer, k) /\ remaining' = 0
            /\ st' = "crlf" /\ (Over(Len(body')) => run' = "error")
            /\ (~ Over(Len(body')) => run' = "loop")
        BY <1>8, <2>2 DEF parse_chunk_data, Stop, Continue
      <3>2. k \in 0 .. Len(buffer) /\ k <= remaining /\ remaining' = remaining - k
        BY <1>2, <2>2, <3>1
      <3>3. x \in Seq(Byte) /\ x = SubSeq(buffer, 1, k)
        BY <1>2, <3>2, FirstIs
      <3> HIDE DEF x
      <3>4. Got = body /\ Got' = body' /\ Got' = Got \o x
        <4>1. Got = body
          BY <1>2, <2>1, JoinEmpty DEF Got
        <4>2. body \o x \in Seq(Byte)
          BY <1>2, <3>3, JoinIs
        <4>3. Got' = body'
          BY <2>1, <3>1, <4>2, JoinEmpty DEF Got
        <4> QED BY <3>1, <4>1, <4>3
      <3>5. st' = "data" \/ (st' = "crlf" /\ remaining' = 0)
        BY <3>1
      <3> HIDE DEF k
      <3>6. /\ Sound' => GoesOn' /\ Refused'
            /\ \E rest \in Seq(Byte) : msg.body = Got' \o rest
        BY <1>1, <2>1, <3>1, <3>2, <3>3, <3>4, <3>5, DataGoesOn
      <3>7. CASE ~ Sound'
        <4>1. Over(Len(Got'))
          BY <1>0, <3>1, <3>4, <3>7
        <4> QED BY <1>1, <3>6, <3>7, <4>1, LimitRefused DEF ChunkInv
      <3> QED BY <3>6, <3>7
    <2>3. CASE ~ (Len(buffer) >= remaining)
      <3> DEFINE k == Len(buffer)
      <3>1. /\ body' = body \o buffer /\ buffer' = <<>> /\ remaining' = remaining - k
            /\ st' = st /\ run' = "more"
        BY <1>8, <2>3 DEF parse_chunk_data, Stop
      <3>2. k \in 0 .. Len(buffer) /\ k <= remaining
        BY <1>2, <2>3
      <3>3. buffer = SubSeq(buffer, 1, k) /\ Drop(buffer, k) = <<>>
        <4>1. Drop(buffer, k) \in Seq(Byte) /\ Len(Drop(buffer, k)) = 0
          BY <1>2, <3>2, DropIs
        <4> QED BY <1>2, <4>1
      <3>4. Got' = Got \o buffer
        <4>1. Got = body
          BY <1>2, <2>1, JoinEmpty DEF Got
        <4>2. body \o buffer \in Seq(Byte)
          BY <1>2, JoinIs
        <4>3. Got' = body'
          BY <2>1, <3>1, <4>2, JoinEmpty DEF Got
        <4> QED BY <3>1, <4>1, <4>3
      <3>5. /\ Sound' /\ buffer' = Drop(buffer, k) /\ st' = "data"
        BY <1>0, <2>1, <3>1, <3>3
      <3> HIDE DEF k
      <3>6. /\ Sound' => GoesOn' /\ Refused'
            /\ \E rest \in Seq(Byte) : msg.body = Got' \o rest
        BY <1>1, <2>1, <3>1, <3>2, <3>3, <3>4, <3>5, DataGoesOn
      <3> QED BY <3>5, <3>6
    <2> QED BY <2>2, <2>3
  <1>9. CASE parse_chunk_data_crlf
    <2>1. st = "crlf" /\ UNCHANGED <<body, fresh, remaining>> /\ Got' = Got
      BY <1>5, <1>9 DEF parse_chunk_data_crlf, Parsing
    <2>2. CASE CrlfMissing
      <3>1. UNCHANGED <<buffer, st>> /\ run' = "more"
        BY <1>9, <2>2 DEF parse_chunk_data_crlf, Stop
      <3>2. Sound' /\ Coming' = Coming /\ UNCHANGED <<st, remaining>>
        BY <1>0, <1>1, <1>6, <2>1, <3>1
      <3> QED BY <1>1, <2>1, <3>2, Stays
    <2>3. CASE ~ CrlfMissing
      <3>1. Len(buffer) >= 2 /\ wire' = wire
        BY <1>1, <1>2, <2>3 DEF CrlfMissing
      <3>2. \/ /\ FindCrlf(buffer) = 1 /\ Sound' /\ Got' = Got
               /\ buffer' = Drop(buffer, 2) /\ st' = "size"
            \/ FindCrlf(buffer) # 1 /\ ~ Sound'
        BY <1>0, <1>9, <2>1, <2>3 DEF parse_chunk_data_crlf, Stop, Continue
      <3>3. \E x, y \in Seq(Byte) : Got' = x /\ Got = x \o y
        BY <1>2, <1>3, <2>1
      <3> QED BY <1>1, <2>1, <3>1, <3>2, <3>3, CrlfGoesOn
    <2> QED BY <2>2, <2>3
  <1>10. CASE parse_chunk_trailers
    <2>1. /\ st \in {"trailers", "done"} /\ st' \in {"trailers", "done"}
          /\ Sound' /\ UNCHANGED <<body, fresh>>
      BY <1>0, <1>10 DEF parse_chunk_trailers, Parsing, Stop, Continue
    <2> QED BY <1>1, <1>5, <2>1, TrailersGoOn
  <1> QED BY <1>7, <1>8, <1>9, <1>10 DEF Parse

LEMMA DecodeMeans ==
  ASSUME ChunkInv, TypesOK', Whole', Sound, Decode
  PROVE  GoesOn' /\ Refused'
  <1>0. /\ run' \in {"loop", "more", "complete", "eof"} => Sound'
        /\ run' \in {"error", "refused"} => ~ Sound'
    BY EndsSound DEF ChunkInv
  <1>1. UNCHANGED <<input, wire>> /\ TypesOK
    BY Takes DEF ChunkInv
  <1>2. /\ buffer \in Seq(Byte) /\ Len(buffer) \in Nat /\ remaining \in Nat
        /\ body \in Seq(Byte) /\ fresh \in Seq(Byte) /\ Got \in Seq(Byte)
    BY <1>1, JoinIs DEF TypesOK, Got
  <1>3. Behind(buffer) = AfterLine /\ Field(buffer) = StripExtension(Line)
    BY DEF Field, Line, Behind, AfterLine
  <1>4. \A r : Return(r) => Got' = Got /\ run' = r
    BY <1>1, GotKept DEF Return
  <1>5. Again => UNCHANGED <<body, fresh>> /\ Got' = Got /\ run' = "loop"
    BY DEF Again, Continue, Got
  <1>6. Refuse => Got' = body /\ Got = body \o fresh /\ ~ Sound'
    BY <1>0, <1>1, RefuseGives DEF Refuse, Stop
  <1>7. UNCHANGED <<buffer, wire>> => Coming' = Coming
    BY DEF Coming
  <1>8. CASE DecodeEmpty
    <2>1. Sound' /\ Got' = Got /\ UNCHANGED <<buffer, st, remaining>>
      BY <1>0, <1>4, <1>8 DEF DecodeEmpty
    <2> QED BY <1>1, <1>7, <2>1, Stays
  <1>9. CASE DecodeSize
    <2>1. st = "size" /\ who = "client"
      BY <1>9 DEF DecodeSize, Decoding
    <2>2. CASE FindCrlf(buffer) = 0
      <3>1. UNCHANGED <<buffer, st, remaining>> /\ Sound' /\ Got' = Got
        BY <1>0, <1>4, <1>9, <2>2 DEF DecodeSize
      <3> QED BY <1>1, <1>7, <3>1, Stays
    <2>3. CASE FindCrlf(buffer) # 0 /\ ~ IsHex(Field(buffer))
      <3>1. ~ Sound' /\ Got' = body /\ Got = body \o fresh
        BY <1>3, <1>6, <1>9, <2>3 DEF DecodeSize
      <3> QED BY <1>1, <1>2, <2>1, <2>3, <3>1, SizeRefused
    <2>4. CASE FindCrlf(buffer) # 0 /\ IsHex(Field(buffer))
      <3>1. Digits(buffer) = Field(buffer)
        BY <1>2, <2>4, SizeLine
      <3>2. /\ buffer' = Behind(buffer) /\ remaining' = HexValue(Digits(buffer))
            /\ st' = IF HexValue(Digits(buffer)) = 0 THEN "trailers" ELSE "data"
            /\ Again
        BY <1>3, <1>9, <2>4, <3>1 DEF DecodeSize
      <3>3. Sound' /\ wire' = wire /\ UNCHANGED <<body, fresh>> /\ IsHex(Digits(buffer))
        BY <1>0, <1>1, <1>5, <2>4, <3>1, <3>2
      <3> QED BY <1>1, <2>1, <2>4, <3>2, <3>3, SizeGoesOn
    <2> QED BY <2>2, <2>3, <2>4
  <1>10. CASE DecodeData
    <2> DEFINE k == Avail
               x == SubSeq(buffer, 1, k)
    <2>1. /\ st = "data" /\ wire' = wire
          /\ buffer' = Drop(buffer, k) /\ remaining' = remaining - k
          /\ st' = "data" \/ (st' = "crlf" /\ remaining' = 0)
          /\ Sound'
      BY <1>0, <1>1, <1>10 DEF DecodeData, Decoding, Continue
    <2>2. \/ fresh' = fresh \o x /\ body' = body
          \/ fresh' = <<>> /\ body' = body \o (fresh \o x)
      BY <1>10 DEF DecodeData
    <2>3. k \in 0 .. Len(buffer) /\ k <= remaining
      BY <1>2 DEF Avail
    <2>4. x = SubSeq(buffer, 1, k) /\ x \in Seq(Byte)
      BY <1>2, <2>3, FirstIs
    <2> HIDE DEF k, x
    <2>5. Got' = Got \o x
      <3>1. fresh \o x \in Seq(Byte)
        BY <1>2, <2>4, JoinIs
      <3>2. body \o (fresh \o x) \in Seq(Byte)
        BY <1>2, <3>1, JoinIs
      <3>3. (body \o fresh) \o x = body \o (fresh \o x)
        <4>1. body \in Seq(Byte) /\ fresh \in Seq(Byte) /\ x \in Seq(Byte)
          BY <1>2, <2>4
        <4> QED BY ONLY <4>1, JoinThree
      <3>4. (body \o (fresh \o x)) \o <<>> = body \o (fresh \o x)
        BY <3>2, JoinEmpty
      <3> QED BY <2>2, <3>3, <3>4 DEF Got
    <2> QED BY <1>1, <2>1, <2>3, <2>4, <2>5, DataGoesOn
  <1>11. CASE DecodeCrlf
    <2>1. st = "crlf" /\ remaining' = remaining
      BY <1>11 DEF DecodeCrlf, Decoding
    <2>2. CASE CrlfMissing
      <3>1. UNCHANGED <<buffer, st>> /\ Sound' /\ Got' = Got
        BY <1>0, <1>4, <1>11, <2>2 DEF DecodeCrlf
      <3>2. Coming' = Coming /\ UNCHANGED <<st, remaining>>
        BY <1>1, <1>7, <2>1, <3>1
      <3> QED BY <1>1, <3>1, <3>2, Stays
    <2>3. CASE ~ CrlfMissing
      <3>1. Len(buffer) >= 2 /\ wire' = wire
        BY <1>1, <1>2, <2>3 DEF CrlfMissing
      <3>2. \/ /\ FindCrlf(buffer) = 1 /\ Sound' /\ Got' = Got
               /\ buffer' = Drop(buffer, 2) /\ st' = "size"
            \/ FindCrlf(buffer) # 1 /\ ~ Sound' /\ Got' = body /\ Got = body \o fresh
        BY <1>0, <1>5, <1>6, <1>11, <2>3 DEF DecodeCrlf
      <3>3. FindCrlf(buffer) # 1 => \E y, z \in Seq(Byte) : Got' = y /\ Got = y \o z
        BY <1>2, <3>2
      <3> QED BY <1>1, <2>1, <3>1, <3>2, <3>3, CrlfGoesOn
    <2> QED BY <2>2, <2>3
  <1>12. CASE DecodeTrailers
    <2>1. /\ st \in {"trailers", "done"} /\ st' \in {"trailers", "done"}
          /\ Sound' /\ Got' = Got
      BY <1>0, <1>4, <1>5, <1>12 DEF DecodeTrailers, Decoding
    <2> QED BY <1>1, <2>1, TrailersGoOn
  <1>13. CASE DecodeDone
    <2>1. /\ st \in {"trailers", "done"} /\ st' \in {"trailers", "done"}
          /\ Sound' /\ Got' = Got
      BY <1>0, <1>4, <1>13 DEF DecodeDone, Decoding
    <2> QED BY <1>1, <2>1, TrailersGoOn
  <1> QED BY <1>8, <1>9, <1>10, <1>11, <1>12, <1>13 DEF Decode

LEMMA MeaningStep ==
  ASSUME ChunkInv, TypesOK', Whole', Next
  PROVE  GoesOn' /\ Refused'
  <1>1. TypesOK /\ Refused
    BY DEF ChunkInv
  <1>2. CASE ~ Sound
    BY <1>1, <1>2, NeverSoundAgain
  <1>3. CASE Sound
    <2>1. CASE Read
      <3>1. /\ Coming' = Coming /\ Sound' /\ Got' = Got /\ UNCHANGED <<input, st, remaining>>
        BY <1>1, <1>3, <2>1, Reads DEF Got, Sound
      <3> QED BY <1>3, <3>1, Stays
    <2>2. CASE Dispatch
      <3>1. /\ Coming' = Coming /\ Sound' /\ Got' = Got /\ UNCHANGED <<input, st, remaining>>
        BY <1>1, <1>3, <2>2, EndsSound
           DEF Dispatch, init_cgi_chunk_decoder, Stop, Continue, Coming, Got
      <3> QED BY <1>3, <3>1, Stays
    <2>3. ~ StdinFlushed
      BY <1>3 DEF StdinFlushed, Sound
    <2> QED BY <1>3, <2>1, <2>2, <2>3, ParseMeans, DecodeMeans DEF Next
  <1> QED BY <1>2, <1>3

-----------------------------------------------------------------------------
LEMMA StartMeans ==
  ASSUME Init
  PROVE  ChunkInv
  <1>1. /\ msg \in Messages /\ cgi \in BOOLEAN /\ max \in Limits /\ wire = msg.wire
        /\ buffer = <<>> /\ st = "size" /\ remaining = 0 /\ body = <<>> /\ fresh = <<>>
        /\ who = "request" /\ run = "start" /\ resumed = FALSE
    BY DEF Init
  <1>2. msg.wire \in Seq(Byte) /\ msg.body \in Seq(Byte)
    BY <1>1, MessagesAssumption
  <1>3. <<>> \in Seq(Byte) /\ Len(<<>>) = 0
    BY <1>2, JoinEmpty
  <1>4. TypesOK
    BY <1>1, <1>2, <1>3 DEF TypesOK
  <1>5. Coming = msg.wire /\ Got = <<>> /\ <<>> \o msg.body = msg.body
    <2>1. <<>> \o msg.wire = msg.wire /\ <<>> \o <<>> = <<>> /\ <<>> \o msg.body = msg.body
      BY <1>2, <1>3, JoinEmpty
    <2> QED BY <1>1, <2>1 DEF Coming, Got
  <1>6. Whole
    BY <1>2, <1>5, WholeIsTail DEF Whole
  <1>7. Turns
    BY <1>1 DEF Turns
  <1>8. GoesOn /\ Refused
    <2>1. Left = Sizes(msg.wire)[msg.wire]
      BY <1>1, <1>5 DEF Left, LeftOf
    <2>2. Sound
      BY <1>1 DEF Sound
    <2> QED BY <1>1, <1>4, <1>5, <2>1, <2>2, MessageIs DEF GoesOn, Refused
  <1>9. WithinLimit
    <2>1. max \in Nat
      BY <1>1, NumbersAssumption
    <2>2. ~ Over(0)
      BY <2>1 DEF Over
    <2> QED BY <1>1, <1>3, <2>2 DEF WithinLimit
  <1> QED BY <1>4, <1>6, <1>7, <1>8, <1>9 DEF ChunkInv

LEMMA ChunkStep ==
  ASSUME ChunkInv, [Next]_vars
  PROVE  ChunkInv'
  <1>1. CASE Next
    <2>1. TypesOK' /\ Whole'
      BY <1>1, TypesStep, WholeStep DEF ChunkInv
    <2>2. Turns' /\ WithinLimit'
      BY <1>1, TurnsStep, LimitStep DEF ChunkInv
    <2>3. GoesOn' /\ Refused'
      BY <1>1, <2>1, MeaningStep
    <2> QED BY <2>1, <2>2, <2>3 DEF ChunkInv
  <1>2. CASE UNCHANGED vars
    <2>1. TypesOK' = TypesOK /\ Whole' = Whole /\ Turns' = Turns
      BY <1>2 DEF vars, TypesOK, Whole, Turns, Coming
    <2>2. GoesOn' = GoesOn
      BY <1>2 DEF vars, GoesOn, Sound, Got, Left, Coming
    <2>3. Refused' = Refused
      BY <1>2 DEF vars, Refused, Sound, Got, Acceptable
    <2>4. WithinLimit' = WithinLimit
      BY <1>2 DEF vars, WithinLimit, Over
    <2> QED BY <2>1, <2>2, <2>3, <2>4 DEF ChunkInv
  <1> QED BY <1>1, <1>2

(***************************************************************************)
(* What has come out and what the bytes to come mean are together what the *)
(* whole message means, wherever the reads cut it and whichever decoder is *)
(* in charge: parse_chunked_body, dispatch_cgi and decode_chunked_for_cgi; *)
(* until handle_client_read reads on after a chunk it refused, because     *)
(* bytes before it still wait for the script.                              *)
(***************************************************************************)
THEOREM ChunkInvariant == Spec => []ChunkInv
  <1>1. Init => ChunkInv
    BY StartMeans
  <1>2. ChunkInv /\ [Next]_vars => ChunkInv'
    BY ChunkStep
  <1> QED BY <1>1, <1>2, PTL DEF Spec

(* What the decoders put out, on the wire so far, is the beginning of the  *)
(* body: neither parse_chunk_data nor decode_chunked_for_cgi lets a size   *)
(* line, a CRLF or a trailer through, or loses a byte, where a read ends   *)
(* or dispatch_cgi changes the decoder.  After a chunk was refused and     *)
(* reading went on nothing is said: StdinClosedOnError is refuted there.   *)
THEOREM BodyAlwaysPrefix == Spec => []BodyIsPrefix
  <1>1. ChunkInv => BodyIsPrefix
    <2> SUFFICES ASSUME ChunkInv, ~ resumed PROVE IsPrefix(body \o fresh, msg.body)
      BY DEF BodyIsPrefix
    <2>1. Got \in Seq(Byte) /\ msg.body \in Seq(Byte) /\ Len(msg.body) \in Nat
      BY JoinIs, MessageIs DEF ChunkInv, TypesOK, Got
    <2>2. \E m \in 0 .. Len(msg.body) : Got = SubSeq(msg.body, 1, m)
      <3>1. CASE Sound
        <4>1. msg.body = Got \o Left.body /\ Left.body \in Seq(Byte)
          BY <3>1, LeftIs DEF ChunkInv, GoesOn
        <4> QED BY <2>1, <4>1, FrontOf
      <3> QED BY <3>1 DEF ChunkInv, Refused
    <2>3. PICK m \in 0 .. Len(msg.body) : Got = SubSeq(msg.body, 1, m)
      BY <2>2
    <2>4. Len(Got) = m /\ m <= Len(msg.body)
      BY <2>1, <2>3, FirstIs
    <2>5. SubSeq(Got, 1, Len(Got)) = Got
      BY <2>1
    <2>6. IsPrefix(Got, msg.body)
      BY <2>3, <2>4, <2>5 DEF IsPrefix
    <2> QED BY <2>6 DEF Got
  <1> QED BY <1>1, ChunkInvariant, PTL

(* The whole body is there when either decoder reports its end, "complete" *)
(* of parse_chunk_trailers or eof of decode_chunked_for_cgi, unless it is  *)
(* an eof read after a chunk was refused; and no body above                *)
(* client_max_body_size gets to HTTPHandler (parse_chunk_data).            *)
THEOREM EndAlwaysWhole == Spec => []EndIsWhole
  <1>1. ChunkInv => EndIsWhole
    <2> SUFFICES ASSUME ChunkInv PROVE EndIsWhole
      OBVIOUS
    <2>1. ASSUME run \in {"complete", "eof"}, ~ resumed PROVE body = msg.body
      <3>1. st \in {"trailers", "done"} /\ fresh = <<>> /\ Sound
        BY <2>1 DEF ChunkInv, Turns, Sound
      <3>2. Left = Meant(<<>>, TRUE, TRUE)
        BY <3>1 DEF Left, LeftOf
      <3>3. Left.body = <<>> /\ msg.body = Got \o Left.body
        BY <3>1, <3>2 DEF Meant, ChunkInv, GoesOn
      <3>4. body \in Seq(Byte)
        BY DEF ChunkInv, TypesOK
      <3> QED BY <3>1, <3>3, <3>4, JoinEmpty DEF Got
    <2>2. ASSUME who = "request", run = "complete" PROVE max = 0 \/ Len(body) <= max
      <3>1. st # "data" /\ run # "error"
        BY <2>2 DEF ChunkInv, Turns
      <3>2. ~ Over(Len(body)) /\ max \in Nat /\ Len(body) \in Nat
        <4>1. ~ Over(Len(body)) /\ max \in Limits /\ body \in Seq(Byte)
          BY <2>2, <3>1 DEF ChunkInv, WithinLimit, TypesOK
        <4>2. max \in Nat
          BY <4>1, NumbersAssumption
        <4> QED BY <4>1, <4>2
      <3> QED BY <3>2 DEF Over
    <2> QED BY <2>1, <2>2 DEF EndIsWhole
  <1> QED BY <1>1, ChunkInvariant, PTL

(* parse_chunked_body and decode_chunked_for_cgi refuse no well-formed     *)
(* body within the limit that both can tell, wherever it is cut.           *)
THEOREM LegalAlwaysAccepted == Spec => []LegalIsAccepted
  <1>1. ChunkInv => LegalIsAccepted
    BY DEF ChunkInv, Refused, Sound, LegalIsAccepted
  <1> QED BY <1>1, ChunkInvariant, PTL

=============================================================================
