---------------------------- MODULE StartupProofs ----------------------------
(***************************************************************************)
(* Theorems about Startup: a file that is accepted was understood as its   *)
(* braces say, and the server that starts has one socket for each block.   *)
(***************************************************************************)
EXTENDS Startup, FiniteSetTheorems, WellFoundedInduction, TLAPS

-----------------------------------------------------------------------------
(***************************************************************************)
(* Sets of line numbers: their greatest element and their size.            *)
(***************************************************************************)
(* A set of numbers has a least element.                                   *)
LEMMA LeastNatural ==
  ASSUME NEW T \in SUBSET Nat, T # {}
  PROVE  \E x \in T : \A y \in T : x <= y
  <1> DEFINE R == OpToRel(<, Nat)
  <1>1. IsWellFoundedOn(R, Nat)
    BY NatLessThanWellFounded
  <1> HIDE DEF R
  <1>2. PICK x \in T : \A y \in T : ~ (<<y, x>> \in R)
    BY <1>1, WFMin
  <1>3. \A y \in T : ~ (y < x)
    BY <1>2 DEF R, OpToRel
  <1> QED BY <1>3

(* A set of line numbers has a greatest one.                               *)
LEMMA MaxIn ==
  ASSUME NEW k \in Nat, NEW s \in SUBSET (1 .. k), s # {}
  PROVE  Max(s) \in s /\ \A y \in s : Max(s) >= y
  <1> DEFINE U == {k - x : x \in s}
  <1>1. U \in SUBSET Nat
    <2>1. \A x \in s : k - x \in Nat
      OBVIOUS
    <2> QED BY <2>1
  <1>2. U # {}
    OBVIOUS
  <1>3. PICK u \in U : \A v \in U : u <= v
    BY <1>1, <1>2, LeastNatural
  <1>4. PICK x \in s : u = k - x
    BY <1>3
  <1>5. \A y \in s : x >= y
    <2> SUFFICES ASSUME NEW y \in s PROVE x >= y
      OBVIOUS
    <2>1. k - x <= k - y
      BY <1>3, <1>4
    <2> QED BY <2>1
  <1> QED BY <1>5 DEF Max

(* The greatest of a set that reaches its bound.                           *)
LEMMA MaxIs ==
  ASSUME NEW k \in Nat, NEW s \in SUBSET (1 .. k), k \in s
  PROVE  Max(s) = k
  <1>1. Max(s) \in s /\ Max(s) >= k
    BY MaxIn
  <1>2. Max(s) \in 1 .. k
    BY <1>1
  <1> QED BY <1>1, <1>2

(* How many there are, with one more.                                      *)
LEMMA CountMore ==
  ASSUME NEW n \in Nat, NEW s \in SUBSET (1 .. n)
  PROVE  /\ Cardinality(s) \in Nat
         /\ Cardinality(s \cup {n + 1}) = Cardinality(s) + 1
  <1>1. IsFiniteSet(1 .. n)
    BY FS_Interval
  <1>2. IsFiniteSet(s)
    BY <1>1, FS_Subset
  <1>3. n + 1 \notin s
    OBVIOUS
  <1> QED BY <1>2, <1>3, FS_CardinalityType, FS_AddElement

-----------------------------------------------------------------------------
(***************************************************************************)
(* The reader's view of Startup, of any sequence of lines t.               *)
(***************************************************************************)
CountIn(t, i, words) == Cardinality({j \in 1 .. i - 1 : t[j] = words})
DepthIn(t, i) == CountIn(t, i, Opening) - CountIn(t, i, Closing)
BlockIn(t, i) == Cardinality({j \in 1 .. i : t[j] = <<"server">> /\ DepthIn(t, j) = 0})
LocationIn(t, i) ==
  Cardinality({j \in 1 .. i : /\ t[j][1] = "location" /\ DepthIn(t, j) = 1
                              /\ BlockIn(t, j) = BlockIn(t, i)})

(* Line i is one of the directives of server k (l = 0) or of its location  *)
(* l; it opens that location.                                              *)
Within(t, k, l, i) ==
  /\ BlockIn(t, i) = k /\ DepthIn(t, i) = IF l = 0 THEN 1 ELSE 2
  /\ l # 0 => LocationIn(t, i) = l
Heads(t, k, l, i) ==
  /\ t[i] # <<>> /\ t[i][1] = "location" /\ DepthIn(t, i) = 1
  /\ BlockIn(t, i) = k /\ LocationIn(t, i) = l

LookupIn(t, k, l, key) == {i \in 1 .. Len(t) : t[i][1] = key /\ Within(t, k, l, i)}
None(t, k, l, key) == LookupIn(t, k, l, key) = {}
LineOf(t, k, l, key) == t[Max(LookupIn(t, k, l, key))]

-----------------------------------------------------------------------------
(***************************************************************************)
(* One more line: t and Append(t, w).                                      *)
(***************************************************************************)
(* The lines there were stay.                                              *)
LEMMA AppendIs ==
  ASSUME NEW S, NEW t \in Seq(S), NEW w \in S
  PROVE  /\ Append(t, w) \in Seq(S) /\ Len(t) \in Nat /\ Len(Append(t, w)) = Len(t) + 1
         /\ \A i \in 1 .. Len(t) : Append(t, w)[i] = t[i]
         /\ Append(t, w)[Len(t) + 1] = w
  OBVIOUS

(* How often words stands above a line.                                    *)
LEMMA CountKept ==
  ASSUME NEW S, NEW t \in Seq(S), NEW w \in S, NEW words,
         NEW i \in 1 .. Len(t) + 1
  PROVE  CountIn(Append(t, w), i, words) = CountIn(t, i, words)
  <1> DEFINE u == Append(t, w)
  <1>1. \A j \in 1 .. Len(t) : u[j] = t[j]
    BY AppendIs
  <1>2. i - 1 <= Len(t) /\ i - 1 \in Nat
    BY AppendIs
  <1> HIDE DEF u
  <1>3. {j \in 1 .. i - 1 : u[j] = words} = {j \in 1 .. i - 1 : t[j] = words}
    BY <1>1, <1>2
  <1> QED BY <1>3 DEF CountIn, u

(* And above the line after the last.                                      *)
LEMMA CountNext ==
  ASSUME NEW S, NEW t \in Seq(S), NEW w \in S, NEW words
  PROVE  /\ CountIn(t, Len(t) + 1, words) \in Nat
         /\ CountIn(Append(t, w), Len(t) + 2, words) =
              CountIn(t, Len(t) + 1, words) + (IF w = words THEN 1 ELSE 0)
  <1> DEFINE u == Append(t, w)
             n == Len(t)
             s == {j \in 1 .. n : t[j] = words}
  <1>1. n \in Nat /\ u[n + 1] = w /\ \A j \in 1 .. n : u[j] = t[j]
    BY AppendIs
  <1>2. (n + 2) - 1 = n + 1 /\ n + 1 - 1 = n
    BY <1>1
  <1>3. CountIn(t, n + 1, words) = Cardinality(s)
    BY <1>2 DEF CountIn
  <1> HIDE DEF u, n
  <1>4. CountIn(u, n + 2, words) = Cardinality({j \in 1 .. n + 1 : u[j] = words})
    <2>1. \A i : CountIn(u, i, words) = Cardinality({j \in 1 .. i - 1 : u[j] = words})
      BY DEF CountIn
    <2>2. 1 .. (n + 2) - 1 = 1 .. n + 1
      BY <1>2
    <2>3. {j \in 1 .. (n + 2) - 1 : u[j] = words} = {j \in 1 .. n + 1 : u[j] = words}
      BY <2>2
    <2>4. CountIn(u, n + 2, words) = Cardinality({j \in 1 .. (n + 2) - 1 : u[j] = words})
      BY <2>1, Zenon
    <2> QED BY <2>3, <2>4, Zenon
  <1>5. {j \in 1 .. n + 1 : u[j] = words} = IF w = words THEN s \cup {n + 1} ELSE s
    BY <1>1
  <1>6. Cardinality(s) \in Nat /\ Cardinality(s \cup {n + 1}) = Cardinality(s) + 1
    BY <1>1, CountMore
  <1> HIDE DEF s
  <1>7. CountIn(u, n + 2, words) = CountIn(t, n + 1, words) + (IF w = words THEN 1 ELSE 0)
    <2>1. CASE w = words
      BY <1>3, <1>4, <1>5, <1>6, <2>1
    <2>2. CASE w # words
      <3>1. CountIn(u, n + 2, words) = CountIn(t, n + 1, words)
        BY <1>3, <1>4, <1>5, <2>2
      <3> QED BY <1>3, <1>6, <2>2, <3>1
    <2> QED BY <2>1, <2>2
  <1> QED BY <1>3, <1>6, <1>7 DEF u, n

(* The depth before a line counts the lines above it.                      *)
LEMMA DepthSteps ==
  ASSUME NEW S, NEW t \in Seq(S), NEW w \in S
  PROVE  /\ \A i \in 1 .. Len(t) + 1 : DepthIn(Append(t, w), i) = DepthIn(t, i)
         /\ DepthIn(t, Len(t) + 1) \in Int
         /\ DepthIn(Append(t, w), Len(t) + 2) =
              (DepthIn(t, Len(t) + 1) + (IF w = Opening THEN 1 ELSE 0))
                - (IF w = Closing THEN 1 ELSE 0)
  <1>1. \A i \in 1 .. Len(t) + 1 : DepthIn(Append(t, w), i) = DepthIn(t, i)
    BY CountKept DEF DepthIn
  <1> DEFINE a == CountIn(t, Len(t) + 1, Opening)
             b == CountIn(t, Len(t) + 1, Closing)
             c == CountIn(Append(t, w), Len(t) + 2, Opening)
             d == CountIn(Append(t, w), Len(t) + 2, Closing)
  <1>2. a \in Nat /\ c = a + (IF w = Opening THEN 1 ELSE 0)
    BY CountNext
  <1>3. b \in Nat /\ d = b + (IF w = Closing THEN 1 ELSE 0)
    BY CountNext
  <1>4. DepthIn(t, Len(t) + 1) = a - b /\ DepthIn(Append(t, w), Len(t) + 2) = c - d
    BY DEF DepthIn
  <1> HIDE DEF a, b, c, d
  <1> DEFINE x == IF w = Opening THEN 1 ELSE 0
             y == IF w = Closing THEN 1 ELSE 0
  <1>5. x \in Nat /\ y \in Nat
    OBVIOUS
  <1>6. c = a + x /\ d = b + y /\ a \in Nat /\ b \in Nat
    BY <1>2, <1>3
  <1> HIDE DEF x, y
  <1>7. a - b \in Int /\ c - d = ((a - b) + x) - y
    BY <1>5, <1>6
  <1> QED BY <1>1, <1>4, <1>7 DEF x, y

(* The server a line belongs to.                                           *)
LEMMA BlockSteps ==
  ASSUME NEW S, NEW t \in Seq(S), NEW w \in S
  PROVE  /\ \A i \in 1 .. Len(t) : BlockIn(Append(t, w), i) = BlockIn(t, i)
         /\ BlockIn(t, Len(t)) \in Nat
         /\ BlockIn(Append(t, w), Len(t) + 1) =
              BlockIn(t, Len(t))
                + (IF w = <<"server">> /\ DepthIn(t, Len(t) + 1) = 0 THEN 1 ELSE 0)
  <1> DEFINE u == Append(t, w)
             n == Len(t)
             opens(v, j) == v[j] = <<"server">> /\ DepthIn(v, j) = 0
             s == {j \in 1 .. n : opens(t, j)}
  <1>1. n \in Nat /\ u[n + 1] = w /\ \A j \in 1 .. n : u[j] = t[j]
    BY AppendIs
  <1>2. \A j \in 1 .. n + 1 : DepthIn(u, j) = DepthIn(t, j)
    BY DepthSteps
  <1> HIDE DEF u, n
  <1>3. \A i \in 1 .. n : BlockIn(u, i) = BlockIn(t, i)
    <2> SUFFICES ASSUME NEW i \in 1 .. n PROVE BlockIn(u, i) = BlockIn(t, i)
      OBVIOUS
    <2>1. \A j \in 1 .. i : j \in 1 .. n /\ j \in 1 .. n + 1
      BY <1>1
    <2>2. {j \in 1 .. i : opens(u, j)} = {j \in 1 .. i : opens(t, j)}
      BY <1>1, <1>2, <2>1
    <2> QED BY <2>2 DEF BlockIn
  <1>4. {j \in 1 .. n + 1 : opens(u, j)} =
          IF w = <<"server">> /\ DepthIn(t, n + 1) = 0 THEN s \cup {n + 1} ELSE s
    <2>1. \A j \in 1 .. n : opens(u, j) <=> opens(t, j)
      BY <1>1, <1>2
    <2>2. opens(u, n + 1) <=> w = <<"server">> /\ DepthIn(t, n + 1) = 0
      BY <1>1, <1>2
    <2> HIDE DEF opens
    <2> QED BY <2>1, <2>2, <1>1
  <1>5. Cardinality(s) \in Nat /\ Cardinality(s \cup {n + 1}) = Cardinality(s) + 1
    BY <1>1, CountMore
  <1>6. BlockIn(t, n) = Cardinality(s)
    BY DEF BlockIn
  <1>7. BlockIn(u, n + 1) = Cardinality({j \in 1 .. n + 1 : opens(u, j)})
    BY DEF BlockIn
  <1> HIDE DEF opens, s
  <1>8. BlockIn(u, n + 1) = BlockIn(t, n)
          + (IF w = <<"server">> /\ DepthIn(t, n + 1) = 0 THEN 1 ELSE 0)
    <2> DEFINE p == w = <<"server">> /\ DepthIn(t, n + 1) = 0
    <2>1. BlockIn(u, n + 1) = Cardinality(IF p THEN s \cup {n + 1} ELSE s)
      BY <1>4, <1>7
    <2> HIDE DEF p
    <2>2. BlockIn(u, n + 1) = BlockIn(t, n) + (IF p THEN 1 ELSE 0)
      BY <1>5, <1>6, <2>1
    <2> QED BY <2>2 DEF p
  <1> QED BY <1>3, <1>5, <1>6, <1>8 DEF u, n

(* The location a line belongs to, if the line is in the block of the one  *)
(* above it.                                                               *)
LEMMA LocationSteps ==
  ASSUME NEW S, NEW t \in Seq(S), NEW w \in S
  PROVE  /\ \A i \in 1 .. Len(t) : LocationIn(Append(t, w), i) = LocationIn(t, i)
         /\ LocationIn(t, Len(t)) \in Nat
         /\ BlockIn(Append(t, w), Len(t) + 1) = BlockIn(t, Len(t)) =>
              LocationIn(Append(t, w), Len(t) + 1) =
                LocationIn(t, Len(t))
                  + (IF w[1] = "location" /\ DepthIn(t, Len(t) + 1) = 1 THEN 1 ELSE 0)
  <1> DEFINE u == Append(t, w)
             n == Len(t)
             opens(v, j) == v[j][1] = "location" /\ DepthIn(v, j) = 1
             here(v, j, i) == opens(v, j) /\ BlockIn(v, j) = BlockIn(v, i)
             s == {j \in 1 .. n : here(t, j, n)}
  <1>1. n \in Nat /\ u[n + 1] = w /\ \A j \in 1 .. n : u[j] = t[j]
    BY AppendIs
  <1>2. \A j \in 1 .. n + 1 : DepthIn(u, j) = DepthIn(t, j)
    BY DepthSteps
  <1>3. \A j \in 1 .. n : BlockIn(u, j) = BlockIn(t, j)
    BY BlockSteps
  <1> HIDE DEF u, n
  <1>4. /\ \A j \in 1 .. n : opens(u, j) <=> opens(t, j)
        /\ opens(u, n + 1) <=> w[1] = "location" /\ DepthIn(t, n + 1) = 1
    BY <1>1, <1>2
  <1>5. \A i : /\ LocationIn(t, i) = Cardinality({j \in 1 .. i : here(t, j, i)})
               /\ LocationIn(u, i) = Cardinality({j \in 1 .. i : here(u, j, i)})
    BY DEF LocationIn
  <1> HIDE DEF opens
  <1>6. \A i \in 1 .. n : LocationIn(u, i) = LocationIn(t, i)
    <2> SUFFICES ASSUME NEW i \in 1 .. n PROVE LocationIn(u, i) = LocationIn(t, i)
      OBVIOUS
    <2>1. \A j \in 1 .. i : j \in 1 .. n
      BY <1>1
    <2>2. {j \in 1 .. i : here(u, j, i)} = {j \in 1 .. i : here(t, j, i)}
      BY <1>3, <1>4, <2>1
    <2> QED BY <1>5, <2>2
  <1>7. Cardinality(s) \in Nat /\ Cardinality(s \cup {n + 1}) = Cardinality(s) + 1
    BY <1>1, CountMore
  <1>8. LocationIn(t, n) = Cardinality(s)
    BY <1>5
  <1>9. ASSUME BlockIn(u, n + 1) = BlockIn(t, n)
        PROVE  {j \in 1 .. n + 1 : here(u, j, n + 1)} =
                 IF w[1] = "location" /\ DepthIn(t, n + 1) = 1 THEN s \cup {n + 1} ELSE s
    <2>1. \A j \in 1 .. n : here(u, j, n + 1) <=> here(t, j, n)
      BY <1>3, <1>4, <1>9
    <2>2. here(u, n + 1, n + 1) <=> w[1] = "location" /\ DepthIn(t, n + 1) = 1
      BY <1>4
    <2> HIDE DEF here
    <2> QED BY <2>1, <2>2, <1>1
  <1>10. ASSUME BlockIn(u, n + 1) = BlockIn(t, n)
         PROVE  LocationIn(u, n + 1) = LocationIn(t, n)
                  + (IF w[1] = "location" /\ DepthIn(t, n + 1) = 1 THEN 1 ELSE 0)
    <2>1. LocationIn(u, n + 1) = Cardinality({j \in 1 .. n + 1 : here(u, j, n + 1)})
      BY <1>5
    <2> HIDE DEF here, s
    <2> DEFINE p == w[1] = "location" /\ DepthIn(t, n + 1) = 1
    <2>2. LocationIn(u, n + 1) = Cardinality(IF p THEN s \cup {n + 1} ELSE s)
      BY <2>1, <1>9, <1>10
    <2> HIDE DEF p
    <2>3. LocationIn(u, n + 1) = LocationIn(t, n) + (IF p THEN 1 ELSE 0)
      BY <1>7, <1>8, <2>2
    <2> QED BY <2>3 DEF p
  <1> QED BY <1>6, <1>7, <1>8, <1>10 DEF u, n

(* No line belongs to a later server or location than the last one.        *)
Grows(t) ==
  \A i \in 1 .. Len(t) :
    /\ BlockIn(t, i) <= BlockIn(t, Len(t))
    /\ BlockIn(t, i) = BlockIn(t, Len(t)) => LocationIn(t, i) <= LocationIn(t, Len(t))

(* Blocks and locations are counted.                                       *)
LEMMA Integers ==
  ASSUME NEW S, NEW t \in Seq(S), NEW i \in 1 .. Len(t)
  PROVE  BlockIn(t, i) \in Nat /\ LocationIn(t, i) \in Nat
  <1>1. i \in Nat /\ 1 .. i \subseteq 1 .. Len(t)
    BY AppendIs
  <1>2. \A s \in SUBSET (1 .. i) : Cardinality(s) \in Nat
    BY <1>1, CountMore
  <1>3. BlockIn(t, i) \in Nat
    BY <1>2 DEF BlockIn
  <1>4. LocationIn(t, i) \in Nat
    <2> DEFINE s == {j \in 1 .. i : /\ t[j][1] = "location" /\ DepthIn(t, j) = 1
                                    /\ BlockIn(t, j) = BlockIn(t, i)}
    <2>1. LocationIn(t, i) = Cardinality(s)
      BY DEF LocationIn
    <2>2. s \in SUBSET (1 .. i)
      OBVIOUS
    <2> HIDE DEF s
    <2> QED BY <1>2, <2>1, <2>2
  <1> QED BY <1>3, <1>4

(* They are numbered in the order of the file.                             *)
LEMMA GrowsStep ==
  ASSUME NEW S, NEW t \in Seq(S), NEW w \in S, Grows(t)
  PROVE  Grows(Append(t, w))
  <1> DEFINE u == Append(t, w)
             n == Len(t)
  <1>1. n \in Nat /\ u \in Seq(S) /\ Len(u) = n + 1
    BY AppendIs
  <1>2. /\ \A i \in 1 .. n : BlockIn(u, i) = BlockIn(t, i) /\ BlockIn(t, i) \in Nat
        /\ BlockIn(t, n) \in Nat
        /\ BlockIn(u, n + 1) = BlockIn(t, n)
             + (IF w = <<"server">> /\ DepthIn(t, n + 1) = 0 THEN 1 ELSE 0)
    BY BlockSteps, Integers
  <1>3. /\ \A i \in 1 .. n : LocationIn(u, i) = LocationIn(t, i) /\ LocationIn(t, i) \in Nat
        /\ LocationIn(t, n) \in Nat
        /\ BlockIn(u, n + 1) = BlockIn(t, n) =>
              LocationIn(u, n + 1) = LocationIn(t, n)
                  + (IF w[1] = "location" /\ DepthIn(t, n + 1) = 1 THEN 1 ELSE 0)
    BY LocationSteps, Integers
  <1>4. LocationIn(u, n + 1) \in Nat
    <2>1. n + 1 \in 1 .. Len(u)
      BY <1>1
    <2> HIDE DEF u, n
    <2> QED BY <1>1, <2>1, Integers
  <1> DEFINE b == IF w = <<"server">> /\ DepthIn(t, n + 1) = 0 THEN 1 ELSE 0
             c == IF w[1] = "location" /\ DepthIn(t, n + 1) = 1 THEN 1 ELSE 0
  <1>5. b \in {0, 1} /\ c \in {0, 1}
    OBVIOUS
  <1>6. /\ BlockIn(u, n + 1) = BlockIn(t, n) + b
        /\ b = 0 => LocationIn(u, n + 1) = LocationIn(t, n) + c
    BY <1>2, <1>3
  <1> HIDE DEF u, n, b, c
  <1> SUFFICES ASSUME NEW i \in 1 .. n + 1
               PROVE  /\ BlockIn(u, i) <= BlockIn(u, n + 1)
                      /\ BlockIn(u, i) = BlockIn(u, n + 1) =>
                           LocationIn(u, i) <= LocationIn(u, n + 1)
    BY <1>1 DEF Grows, u
  <1>7. CASE i = n + 1
    BY <1>2, <1>4, <1>5, <1>6, <1>7
  <1>8. CASE i \in 1 .. n
    <2>1. /\ BlockIn(t, i) <= BlockIn(t, n)
          /\ BlockIn(t, i) = BlockIn(t, n) => LocationIn(t, i) <= LocationIn(t, n)
      BY <1>8 DEF Grows, n
    <2> QED BY <1>2, <1>3, <1>5, <1>6, <1>8, <2>1
  <1> QED BY <1>1, <1>7, <1>8

(* The directives a server or a location has.                              *)
LEMMA WithinKept ==
  ASSUME NEW S, NEW t \in Seq(S), NEW w \in S, NEW k, NEW l, NEW i \in 1 .. Len(t)
  PROVE  /\ Within(Append(t, w), k, l, i) <=> Within(t, k, l, i)
         /\ Heads(Append(t, w), k, l, i) <=> Heads(t, k, l, i)
  <1>1. Append(t, w)[i] = t[i] /\ i \in 1 .. Len(t) + 1
    BY AppendIs
  <1>2. DepthIn(Append(t, w), i) = DepthIn(t, i)
    BY <1>1, DepthSteps
  <1>3. BlockIn(Append(t, w), i) = BlockIn(t, i)
    BY BlockSteps
  <1>4. LocationIn(Append(t, w), i) = LocationIn(t, i)
    BY LocationSteps
  <1> QED BY <1>1, <1>2, <1>3, <1>4, Zenon DEF Within, Heads

(* The lines with a key, with one more line.                               *)
LEMMA LookupSteps ==
  ASSUME NEW S, NEW t \in Seq(S), NEW w \in S, NEW k, NEW l, NEW key
  PROVE  LookupIn(Append(t, w), k, l, key) =
           IF w[1] = key /\ Within(Append(t, w), k, l, Len(t) + 1)
           THEN LookupIn(t, k, l, key) \cup {Len(t) + 1} ELSE LookupIn(t, k, l, key)
  <1> DEFINE u == Append(t, w)
             n == Len(t)
             has(v, i) == v[i][1] = key /\ Within(v, k, l, i)
  <1>1. n \in Nat /\ Len(u) = n + 1 /\ u[n + 1] = w /\ \A i \in 1 .. n : u[i] = t[i]
    BY AppendIs
  <1>2. \A i \in 1 .. n : has(u, i) <=> has(t, i)
    BY <1>1, WithinKept
  <1>3. has(u, n + 1) <=> w[1] = key /\ Within(u, k, l, n + 1)
    BY <1>1
  <1>4. LookupIn(u, k, l, key) = {i \in 1 .. n + 1 : has(u, i)}
    BY <1>1 DEF LookupIn
  <1>5. LookupIn(t, k, l, key) = {i \in 1 .. n : has(t, i)}
    BY DEF LookupIn
  <1> HIDE DEF u, n, has
  <1>6. {i \in 1 .. n + 1 : has(u, i)} =
          IF has(u, n + 1) THEN {i \in 1 .. n : has(t, i)} \cup {n + 1}
          ELSE {i \in 1 .. n : has(t, i)}
    BY <1>1, <1>2
  <1> QED BY <1>3, <1>4, <1>5, <1>6 DEF u, n

(* A line that is not such a directive does not change which one counts.   *)
LEMMA LineKept ==
  ASSUME NEW S, NEW t \in Seq(S), NEW w \in S, NEW k, NEW l, NEW key,
         ~ (w[1] = key /\ Within(Append(t, w), k, l, Len(t) + 1))
  PROVE  /\ LookupIn(Append(t, w), k, l, key) = LookupIn(t, k, l, key)
         /\ None(Append(t, w), k, l, key) <=> None(t, k, l, key)
         /\ ~ None(t, k, l, key) => LineOf(Append(t, w), k, l, key) = LineOf(t, k, l, key)
  <1>1. LookupIn(Append(t, w), k, l, key) = LookupIn(t, k, l, key)
    BY LookupSteps
  <1>2. LookupIn(t, k, l, key) \in SUBSET (1 .. Len(t))
    BY DEF LookupIn
  <1>3. ASSUME LookupIn(t, k, l, key) # {}
        PROVE  Max(LookupIn(t, k, l, key)) \in 1 .. Len(t)
    BY <1>2, <1>3, AppendIs, MaxIn
  <1>4. \A i \in 1 .. Len(t) : Append(t, w)[i] = t[i]
    BY AppendIs
  <1> QED BY <1>1, <1>3, <1>4, Zenon DEF None, LineOf

(* One that is, is the one that counts.                                    *)
LEMMA LineNew ==
  ASSUME NEW S, NEW t \in Seq(S), NEW w \in S, NEW k, NEW l,
         Within(Append(t, w), k, l, Len(t) + 1)
  PROVE  ~ None(Append(t, w), k, l, w[1]) /\ LineOf(Append(t, w), k, l, w[1]) = w
  <1> DEFINE s == LookupIn(Append(t, w), k, l, w[1])
             n == Len(t)
  <1>1. n \in Nat /\ Append(t, w)[n + 1] = w
    BY AppendIs
  <1>2. s = LookupIn(t, k, l, w[1]) \cup {n + 1}
    BY LookupSteps
  <1>3. LookupIn(t, k, l, w[1]) \in SUBSET (1 .. n)
    BY DEF LookupIn
  <1> HIDE DEF s, n
  <1>4. s \in SUBSET (1 .. n + 1) /\ n + 1 \in s /\ n + 1 \in Nat
    BY <1>1, <1>2, <1>3
  <1>5. Max(s) = n + 1
    BY <1>4, MaxIs
  <1>6. s # {}
    BY <1>4
  <1> QED BY <1>1, <1>5, <1>6 DEF None, LineOf, s

(* Lists of anything.                                                      *)
IsList(s) == s \in Seq(ToSet(s))

(* They stay lists, and keep what they hold.                               *)
LEMMA ListAppend ==
  ASSUME NEW s, IsList(s), NEW x
  PROVE  /\ IsList(Append(s, x)) /\ Len(s) \in Nat /\ Len(Append(s, x)) = Len(s) + 1
         /\ \A i \in 1 .. Len(s) : Append(s, x)[i] = s[i]
         /\ Append(s, x)[Len(s) + 1] = x
  <1> DEFINE A == ToSet(s) \cup {x}
             a == Append(s, x)
  <1>1. s \in Seq(A)
    <2>1. s \in Seq(ToSet(s))
      BY DEF IsList
    <2> QED BY <2>1
  <1>2. x \in A
    OBVIOUS
  <1> HIDE DEF A
  <1>3. /\ a \in Seq(A) /\ Len(s) \in Nat /\ Len(a) = Len(s) + 1
        /\ \A i \in 1 .. Len(s) : a[i] = s[i]
        /\ a[Len(s) + 1] = x
    BY <1>1, <1>2
  <1> HIDE DEF a
  <1>4. a \in Seq(ToSet(a))
    <2>1. \A i \in 1 .. Len(a) : a[i] \in ToSet(a)
      BY <1>3 DEF ToSet
    <2> QED BY <1>3, <2>1
  <1> QED BY <1>3, <1>4 DEF IsList, a

-----------------------------------------------------------------------------
(***************************************************************************)
(* The names and the error pages of a server, with one more line.          *)
(***************************************************************************)
PlacesIn(t, k) == UNION {{i} \X (2 .. Len(t[i])) : i \in LookupIn(t, k, 0, "server_name")}

NamesWritten(t, k, names) ==
  /\ IsList(names) /\ IsFiniteSet(PlacesIn(t, k)) /\ Len(names) = Cardinality(PlacesIn(t, k))
  /\ \A p \in PlacesIn(t, k) :
       /\ Cardinality(UpTo(p, PlacesIn(t, k))) \in 1 .. Len(names)
       /\ names[Cardinality(UpTo(p, PlacesIn(t, k)))] = t[p[1]][p[2]]

PageLinesIn(t, k, code) == {i \in LookupIn(t, k, 0, "error_page") : Number[t[i][2]] = code}

PagesWritten(t, k, pages) ==
  /\ DOMAIN pages = {Number[t[i][2]] : i \in LookupIn(t, k, 0, "error_page")}
  /\ \A code \in DOMAIN pages : pages[code] = t[Max(PageLinesIn(t, k, code))][3]

(* Where a name stands.                                                    *)
LEMMA PlaceIs ==
  ASSUME NEW t, NEW k, NEW p
  PROVE  p \in PlacesIn(t, k) <=>
           \E i \in LookupIn(t, k, 0, "server_name") : p \in {i} \X (2 .. Len(t[i]))
  BY DEF PlacesIn

(* The places Q are those of P and m - 1 more, of the line n + 1.          *)
MorePlaces(P, Q, n, m) ==
  /\ IsFiniteSet(Q) /\ Cardinality(P) \in Nat
  /\ Cardinality(Q) = Cardinality(P) + (m - 1)
  /\ \A p \in P : UpTo(p, Q) = UpTo(p, P)
  /\ \A j \in 2 .. m : Cardinality(UpTo(<<n + 1, j>>, Q)) = Cardinality(P) + (j - 1)

(* The places of a line come after those above it, in their own order.     *)
LEMMA PlacesMore ==
  ASSUME NEW P, IsFiniteSet(P), NEW n \in Nat, NEW m \in Nat, m >= 1,
         \A p \in P : p[1] \in 1 .. n
  PROVE  MorePlaces(P, P \cup ({n + 1} \X (2 .. m)), n, m)
  <1> DEFINE N(j) == {n + 1} \X (2 .. j)
             Q == P \cup N(m)
  <1>1. Cardinality(P) \in Nat
    BY FS_CardinalityType
  <1>2. ASSUME NEW j \in 1 .. m
        PROVE  IsFiniteSet(P \cup N(j)) /\ Cardinality(P \cup N(j)) = Cardinality(P) + (j - 1)
    <2>1. IsFiniteSet(2 .. j) /\ Cardinality(2 .. j) = j - 1
      BY FS_Interval
    <2>2. IsFiniteSet({n + 1}) /\ Cardinality({n + 1}) = 1
      BY FS_Singleton
    <2>3. IsFiniteSet(N(j)) /\ Cardinality(N(j)) = j - 1
      <3>1. IsFiniteSet(N(j)) /\ Cardinality(N(j)) = Cardinality({n + 1}) * Cardinality(2 .. j)
        BY <2>1, <2>2, FS_Product
      <3> QED BY <2>1, <2>2, <3>1
    <2>4. P \cap N(j) = {}
      OBVIOUS
    <2>5. Cardinality({}) = 0
      BY FS_EmptySet
    <2> HIDE DEF N
    <2>6. /\ IsFiniteSet(P \cup N(j))
          /\ Cardinality(P \cup N(j)) =
               Cardinality(P) + Cardinality(N(j)) - Cardinality(P \cap N(j))
      BY <2>3, FS_Union
    <2>7. Cardinality(P \cap N(j)) = 0
      BY <2>4, <2>5, Zenon
    <2> QED BY <1>1, <2>3, <2>6, <2>7
  <1>3. \A p \in P : UpTo(p, Q) = UpTo(p, P)
    BY DEF UpTo
  <1>4. ASSUME NEW j \in 2 .. m PROVE UpTo(<<n + 1, j>>, Q) = P \cup N(j)
    BY DEF UpTo
  <1> HIDE DEF N
  <1>5. m \in 1 .. m /\ \A j \in 2 .. m : j \in 1 .. m
    OBVIOUS
  <1>6. \A j \in 2 .. m : Cardinality(UpTo(<<n + 1, j>>, Q)) = Cardinality(P) + (j - 1)
    BY <1>2, <1>4, <1>5
  <1>7. MorePlaces(P, Q, n, m)
    BY <1>1, <1>2, <1>3, <1>5, <1>6 DEF MorePlaces
  <1> QED BY <1>7 DEF N

(* Two sequences joined, element by element.                               *)
Joins(q, a, b) ==
  /\ Len(a) \in Nat /\ Len(b) \in Nat /\ Len(q) = Len(a) + Len(b)
  /\ \A i \in 1 .. Len(a) : q[i] = a[i]
  /\ \A i \in 1 .. Len(b) : q[Len(a) + i] = b[i]

LEMMA Joined ==
  ASSUME NEW A, NEW a \in Seq(A), NEW b \in Seq(A)
  PROVE  a \o b \in Seq(A) /\ Joins(a \o b, a, b)
  <1>1. a \o b \in Seq(A) /\ Len(a \o b) = Len(a) + Len(b) /\ Len(a) \in Nat /\ Len(b) \in Nat
    OBVIOUS
  <1>2. \A i \in 1 .. Len(a) : (a \o b)[i] = a[i]
    OBVIOUS
  <1>3. \A i \in 1 .. Len(b) : (a \o b)[Len(a) + i] = b[i]
    OBVIOUS
  <1> QED BY <1>1, <1>2, <1>3 DEF Joins

(* The list q is s and the words of w after the first.                     *)
Longer(q, s, w) ==
  /\ IsList(q) /\ Len(s) \in Nat /\ Len(q) = Len(s) + (Len(w) - 1)
  /\ \A c \in 1 .. Len(s) : q[c] = s[c]
  /\ \A j \in 2 .. Len(w) : q[Len(s) + (j - 1)] = w[j]

LEMMA ListWords ==
  ASSUME NEW s, IsList(s), NEW w \in Seq(STRING), Len(w) >= 1
  PROVE  Longer(s \o Tail(w), s, w)
  <1> DEFINE A == ToSet(s) \cup STRING
             v == Tail(w)
             a == s \o v
  <1>1. s \in Seq(A)
    <2>1. s \in Seq(ToSet(s))
      BY DEF IsList
    <2> QED BY <2>1
  <1>2. /\ v \in Seq(A) /\ Len(v) = Len(w) - 1 /\ Len(w) \in Nat
        /\ \A j \in 2 .. Len(w) : v[j - 1] = w[j]
    OBVIOUS
  <1> HIDE DEF A, v
  <1>3. a \in Seq(A) /\ Joins(a, s, v)
    BY <1>1, <1>2, Joined
  <1> HIDE DEF a
  <1>4. IsList(a)
    <2>1. \A i \in 1 .. Len(a) : a[i] \in ToSet(a)
      BY <1>3 DEF ToSet
    <2> QED BY <1>3, <2>1 DEF IsList
  <1>5. ASSUME NEW j \in 2 .. Len(w) PROVE a[Len(s) + (j - 1)] = w[j]
    <2>1. j - 1 \in 1 .. Len(v) /\ v[j - 1] = w[j]
      BY <1>2
    <2> QED BY <1>3, <2>1 DEF Joins
  <1>6. Longer(a, s, w)
    BY <1>2, <1>3, <1>4, <1>5 DEF Longer, Joins
  <1> QED BY <1>6 DEF a, v

(* A line that names no one.                                               *)
LEMMA NamesKept ==
  ASSUME NEW S, NEW t \in Seq(S), NEW w \in S, NEW k, NEW names, NamesWritten(t, k, names),
         LookupIn(Append(t, w), k, 0, "server_name") = LookupIn(t, k, 0, "server_name")
  PROVE  NamesWritten(Append(t, w), k, names)
  <1> DEFINE u == Append(t, w)
             s == LookupIn(t, k, 0, "server_name")
  <1>1. \A i \in s : u[i] = t[i]
    BY AppendIs DEF LookupIn
  <1>2. LookupIn(u, k, 0, "server_name") = s
    OBVIOUS
  <1> HIDE DEF u
  <1>3. PlacesIn(u, k) = PlacesIn(t, k)
    <2>1. \A p : p \in PlacesIn(u, k) <=> \E i \in s : p \in {i} \X (2 .. Len(u[i]))
      BY <1>2, PlaceIs
    <2>2. \A p : p \in PlacesIn(t, k) <=> \E i \in s : p \in {i} \X (2 .. Len(t[i]))
      BY PlaceIs
    <2> HIDE DEF s
    <2>3. \A p : p \in PlacesIn(u, k) <=> p \in PlacesIn(t, k)
      BY <1>1, <2>1, <2>2
    <2> QED BY <2>3
  <1>4. \A p \in PlacesIn(t, k) : u[p[1]] = t[p[1]]
    BY <1>1, PlaceIs
  <1>5. NamesWritten(u, k, names)
    BY <1>3, <1>4 DEF NamesWritten
  <1> QED BY <1>5 DEF u

(* A line of names: they come after the others.                            *)
LEMMA NamesMore ==
  ASSUME NEW S, NEW t \in Seq(S), NEW w \in S, NEW k, NEW names, NamesWritten(t, k, names),
         w \in Seq(STRING), Len(w) >= 2,
         LookupIn(Append(t, w), k, 0, "server_name") =
           LookupIn(t, k, 0, "server_name") \cup {Len(t) + 1}
  PROVE  NamesWritten(Append(t, w), k, names \o Tail(w))
  <1> DEFINE u == Append(t, w)
             n == Len(t)
             m == Len(w)
             s == LookupIn(t, k, 0, "server_name")
             P == PlacesIn(t, k)
             Q == PlacesIn(u, k)
             new == names \o Tail(w)
  <1>1. /\ n \in Nat /\ m \in Nat /\ m >= 2 /\ u[n + 1] = w
        /\ s \subseteq 1 .. n /\ \A i \in s : u[i] = t[i]
    BY AppendIs DEF LookupIn
  <1>2. LookupIn(u, k, 0, "server_name") = s \cup {n + 1}
    OBVIOUS
  <1>3. /\ IsList(names) /\ IsFiniteSet(P) /\ Len(names) = Cardinality(P)
        /\ \A p \in P : /\ Cardinality(UpTo(p, P)) \in 1 .. Len(names)
                        /\ names[Cardinality(UpTo(p, P))] = t[p[1]][p[2]]
    BY DEF NamesWritten
  <1>4. \A p \in P : \E i \in s : p \in {i} \X (2 .. Len(t[i]))
    BY PlaceIs
  <1>5. /\ IsList(new) /\ Len(names) \in Nat /\ Len(new) = Len(names) + (m - 1)
        /\ \A c \in 1 .. Len(names) : new[c] = names[c]
        /\ \A j \in 2 .. m : new[Len(names) + (j - 1)] = w[j]
    <2>1. m >= 1
      BY <1>1
    <2>2. Longer(new, names, w)
      BY <1>3, <2>1, ListWords
    <2> QED BY <2>2 DEF Longer
  <1> HIDE DEF u, n, m, new
  <1>6. Q = P \cup ({n + 1} \X (2 .. m))
    <2>1. \A p : p \in Q <=> \E i \in s \cup {n + 1} : p \in {i} \X (2 .. Len(u[i]))
      BY <1>2, PlaceIs
    <2>2. \A p : p \in P <=> \E i \in s : p \in {i} \X (2 .. Len(t[i]))
      BY PlaceIs
    <2> HIDE DEF s, P, Q
    <2>3. 2 .. Len(u[n + 1]) = 2 .. m
      BY <1>1 DEF m
    <2> QED BY <1>1, <2>1, <2>2, <2>3
  <1>7. \A p \in P : p[1] \in s /\ p[1] \in 1 .. n
    <2> HIDE DEF P, s
    <2> QED BY <1>1, <1>4
  <1> HIDE DEF s, P, Q
  <1>8. /\ IsFiniteSet(Q) /\ Cardinality(Q) = Cardinality(P) + (m - 1)
        /\ \A p \in P : UpTo(p, Q) = UpTo(p, P)
        /\ \A j \in 2 .. m : Cardinality(UpTo(<<n + 1, j>>, Q)) = Cardinality(P) + (j - 1)
    <2>1. m >= 1 /\ \A p \in P : p[1] \in 1 .. n
      BY <1>1, <1>7
    <2>2. MorePlaces(P, P \cup ({n + 1} \X (2 .. m)), n, m)
      BY <1>1, <1>3, <2>1, PlacesMore
    <2>3. MorePlaces(P, Q, n, m)
      BY <1>6, <2>2
    <2> QED BY <2>3 DEF MorePlaces
  <1>9. ASSUME NEW p \in P
        PROVE  /\ Cardinality(UpTo(p, Q)) \in 1 .. Len(new)
               /\ new[Cardinality(UpTo(p, Q))] = u[p[1]][p[2]]
    <2> DEFINE c == Cardinality(UpTo(p, P))
    <2>1. c \in 1 .. Len(names) /\ names[c] = t[p[1]][p[2]] /\ Cardinality(UpTo(p, Q)) = c
      BY <1>3, <1>8
    <2>2. u[p[1]] = t[p[1]]
      BY <1>1, <1>7
    <2> HIDE DEF c
    <2> QED BY <1>1, <1>5, <2>1, <2>2
  <1>10. ASSUME NEW p \in {n + 1} \X (2 .. m)
         PROVE  /\ Cardinality(UpTo(p, Q)) \in 1 .. Len(new)
                /\ new[Cardinality(UpTo(p, Q))] = u[p[1]][p[2]]
    <2>1. PICK j \in 2 .. m : p = <<n + 1, j>>
      OBVIOUS
    <2>2. Cardinality(UpTo(p, Q)) = Len(names) + (j - 1)
      BY <1>3, <1>8, <2>1
    <2>3. u[p[1]][p[2]] = w[j]
      BY <1>1, <2>1
    <2>4. Len(names) + (j - 1) \in 1 .. Len(new)
      BY <1>1, <1>5
    <2> QED BY <1>5, <2>2, <2>3, <2>4
  <1>11. \A p \in Q : /\ Cardinality(UpTo(p, Q)) \in 1 .. Len(new)
                      /\ new[Cardinality(UpTo(p, Q))] = u[p[1]][p[2]]
    BY <1>6, <1>9, <1>10
  <1>12. NamesWritten(u, k, new)
    BY <1>3, <1>5, <1>8, <1>11 DEF NamesWritten, Q
  <1> QED BY <1>12 DEF u, new

(* A line that gives no error page.                                        *)
LEMMA PagesKept ==
  ASSUME NEW S, NEW t \in Seq(S), NEW w \in S, NEW k, NEW pages, PagesWritten(t, k, pages),
         LookupIn(Append(t, w), k, 0, "error_page") = LookupIn(t, k, 0, "error_page")
  PROVE  PagesWritten(Append(t, w), k, pages)
  <1> DEFINE u == Append(t, w)
             s == LookupIn(t, k, 0, "error_page")
  <1>1. s \in SUBSET (1 .. Len(t)) /\ Len(t) \in Nat /\ \A i \in s : u[i] = t[i]
    BY AppendIs DEF LookupIn
  <1>2. LookupIn(u, k, 0, "error_page") = s
    OBVIOUS
  <1> HIDE DEF u
  <1>3. \A code : PageLinesIn(u, k, code) = PageLinesIn(t, k, code)
    BY <1>1, <1>2 DEF PageLinesIn
  <1>4. DOMAIN pages = {Number[t[i][2]] : i \in s}
    BY DEF PagesWritten
  <1>5. DOMAIN pages = {Number[u[i][2]] : i \in LookupIn(u, k, 0, "error_page")}
    <2>1. \A i \in s : Number[u[i][2]] = Number[t[i][2]]
      BY <1>1
    <2> HIDE DEF s
    <2>2. {Number[u[i][2]] : i \in s} = {Number[t[i][2]] : i \in s}
      BY <2>1
    <2> QED BY <1>2, <1>4, <2>2
  <1>6. ASSUME NEW code \in DOMAIN pages
        PROVE  pages[code] = u[Max(PageLinesIn(u, k, code))][3]
    <2> DEFINE q == PageLinesIn(t, k, code)
    <2>1. q \in SUBSET s /\ q # {}
      BY <1>4 DEF PageLinesIn
    <2>2. pages[code] = t[Max(q)][3]
      BY DEF PagesWritten
    <2> HIDE DEF q, s
    <2>3. Max(q) \in s
      <3>1. q \in SUBSET (1 .. Len(t))
        BY <1>1, <2>1
      <3> QED BY <1>1, <2>1, <3>1, MaxIn
    <2>4. PageLinesIn(u, k, code) = q
      BY <1>3 DEF q
    <2>5. u[Max(q)] = t[Max(q)]
      BY <1>1, <2>3
    <2> QED BY <2>2, <2>4, <2>5
  <1>7. PagesWritten(u, k, pages)
    BY <1>5, <1>6 DEF PagesWritten
  <1> QED BY <1>7 DEF u

(* A line that does: it counts for its code from now on.                   *)
LEMMA PagesMore ==
  ASSUME NEW S, NEW t \in Seq(S), NEW w \in S, NEW k, NEW pages, PagesWritten(t, k, pages),
         LookupIn(Append(t, w), k, 0, "error_page") =
           LookupIn(t, k, 0, "error_page") \cup {Len(t) + 1}
  PROVE  PagesWritten(Append(t, w), k, SetPage(pages, Number[w[2]], w[3]))
  <1> DEFINE u == Append(t, w)
             n == Len(t)
             s == LookupIn(t, k, 0, "error_page")
             a == Number[w[2]]
             new == SetPage(pages, a, w[3])
  <1>1. s \in SUBSET (1 .. n) /\ n \in Nat /\ u[n + 1] = w /\ \A i \in s : u[i] = t[i]
    BY AppendIs DEF LookupIn
  <1>2. LookupIn(u, k, 0, "error_page") = s \cup {n + 1}
    OBVIOUS
  <1>3. /\ DOMAIN new = {a} \cup DOMAIN pages /\ new[a] = w[3]
        /\ \A c \in DOMAIN pages : c # a => new[c] = pages[c]
    BY DEF SetPage
  <1> HIDE DEF u, n, a, new
  <1>4. DOMAIN pages = {Number[t[i][2]] : i \in s}
    BY DEF PagesWritten
  <1>5. Number[u[n + 1][2]] = a
    BY <1>1 DEF a
  <1>6. DOMAIN new = {Number[u[i][2]] : i \in s \cup {n + 1}}
    <2> HIDE DEF s
    <2> QED BY <1>1, <1>3, <1>4, <1>5
  <1>7. ASSUME NEW code \in DOMAIN new
        PROVE  new[code] = u[Max(PageLinesIn(u, k, code))][3]
    <2> DEFINE q == PageLinesIn(t, k, code)
               r == PageLinesIn(u, k, code)
    <2>1. q \in SUBSET s
      BY DEF PageLinesIn
    <2>2. r = IF code = a THEN q \cup {n + 1} ELSE q
      BY <1>1, <1>2, <1>5 DEF PageLinesIn
    <2>3. CASE code = a
      <3> HIDE DEF q, r, s
      <3>1. r \in SUBSET (1 .. n + 1) /\ n + 1 \in r /\ n + 1 \in Nat
        BY <1>1, <2>1, <2>2, <2>3
      <3>2. Max(r) = n + 1
        BY <3>1, MaxIs
      <3>3. u[Max(r)] = w
        BY <1>1, <3>2
      <3> QED BY <1>3, <2>3, <3>3 DEF r
    <2>4. CASE code # a
      <3>1. code \in DOMAIN pages /\ new[code] = pages[code]
        BY <1>3, <2>4
      <3>2. q # {}
        BY <1>4, <3>1 DEF PageLinesIn
      <3>3. pages[code] = t[Max(q)][3]
        BY <3>1 DEF PagesWritten
      <3> HIDE DEF q, r, s
      <3>4. q \in SUBSET (1 .. n)
        BY <1>1, <2>1
      <3>5. Max(q) \in s
        BY <1>1, <2>1, <3>2, <3>4, MaxIn
      <3> QED BY <1>1, <2>2, <2>4, <3>1, <3>3, <3>5 DEF r
    <2> QED BY <2>3, <2>4
  <1>8. PagesWritten(u, k, new)
    BY <1>2, <1>6, <1>7 DEF PagesWritten
  <1> QED BY <1>8 DEF u, new, a

(* A server that nothing is written of yet.                                *)
LEMMA NothingWritten ==
  ASSUME NEW t, NEW k, LookupIn(t, k, 0, "server_name") = {},
         LookupIn(t, k, 0, "error_page") = {}
  PROVE  NamesWritten(t, k, <<>>) /\ PagesWritten(t, k, <<>>)
  <1>1. PlacesIn(t, k) = {}
    BY DEF PlacesIn
  <1>2. IsFiniteSet({}) /\ Cardinality({}) = 0
    BY FS_EmptySet
  <1>3. IsList(<<>>) /\ Len(<<>>) = 0
    BY DEF IsList
  <1>4. NamesWritten(t, k, <<>>)
    BY <1>1, <1>2, <1>3 DEF NamesWritten
  <1>5. DOMAIN <<>> = {}
    OBVIOUS
  <1> QED BY <1>4, <1>5 DEF PagesWritten

-----------------------------------------------------------------------------
(***************************************************************************)
(* What the blocks of a file say, of any sequence of lines t.              *)
(***************************************************************************)
RouteFields == DOMAIN RouteConfig("/")
ServerFields == DOMAIN ServerConfig
RouteKeys == Strings \cup {"autoindex", "allow_methods", "return", "client_max_body_size"}
ServerKeys == {"listen", "server_name", "error_page", "client_max_body_size"}
Keys == RouteKeys \cup ServerKeys \cup {"location"}

(* A brace is no directive.                                                *)
LEMMA Braces ==
  /\ Opening # Closing /\ Opening # <<"server">> /\ Closing # <<"server">>
  /\ Opening[1] \notin Keys /\ Closing[1] \notin Keys
  <1>1. Opening[1] = "{" /\ Closing[1] = "}"
    BY Zenon DEF Opening, Closing
  <1>2. "{" \notin Keys /\ "}" \notin Keys
    BY Zenon DEF Keys, RouteKeys, ServerKeys, Strings
  <1>3. Opening # Closing
    <2>1. "{" # "}"
      BY Zenon
    <2> QED BY <1>1, <2>1, Zenon
  <1>4. Opening # <<"server">> /\ Closing # <<"server">>
    <2>1. <<"server">>[1] = "server" /\ "{" # "server" /\ "}" # "server"
      BY Zenon
    <2> QED BY <1>1, <2>1, Zenon
  <1> QED BY <1>1, <1>2, <1>3, <1>4, Zenon

RouteWritten(t, k, l, rt) ==
  /\ \A key \in Strings :
       rt[key] = IF None(t, k, l, key) THEN RouteConfig("/")[key] ELSE LineOf(t, k, l, key)[2]
  /\ \E i \in 1 .. Len(t) :
       /\ Heads(t, k, l, i) /\ rt.path = t[i][2]
       /\ \A j \in 1 .. Len(t) : Heads(t, k, l, j) => j = i
  /\ rt.autoindex = IF None(t, k, l, "autoindex") THEN FALSE
                    ELSE LineOf(t, k, l, "autoindex")[2] = "on"
  /\ rt.allow_methods = IF None(t, k, l, "allow_methods") THEN <<>>
                        ELSE Tail(LineOf(t, k, l, "allow_methods"))
  /\ rt.redirect_code = IF None(t, k, l, "return") THEN 0
                        ELSE Number[LineOf(t, k, l, "return")[2]]
  /\ rt.redirect_url = IF None(t, k, l, "return") THEN "" ELSE LineOf(t, k, l, "return")[3]
  /\ rt.has_max = ~ None(t, k, l, "client_max_body_size")
  /\ rt.max = IF None(t, k, l, "client_max_body_size") THEN 0
              ELSE parse_size(LineOf(t, k, l, "client_max_body_size")[2])

ServerWritten(t, k, sv) ==
  /\ Cardinality(LookupIn(t, k, 0, "listen")) <= 1
  /\ sv.port = IF None(t, k, 0, "listen") THEN 8080
               ELSE Number[PortWord(LineOf(t, k, 0, "listen")[2])]
  /\ sv.host = IF None(t, k, 0, "listen") THEN "0.0.0.0"
               ELSE HostOf(LineOf(t, k, 0, "listen")[2])
  /\ sv.has_listen_ = ~ None(t, k, 0, "listen")
  /\ NamesWritten(t, k, sv.server_names) /\ PagesWritten(t, k, sv.error_pages)
  /\ sv.max = IF None(t, k, 0, "client_max_body_size") THEN ServerConfig.max
              ELSE parse_size(LineOf(t, k, 0, "client_max_body_size")[2])
  /\ \A l \in 1 .. Len(sv.routes) : RouteWritten(t, k, l, sv.routes[l])

-----------------------------------------------------------------------------
(* The locations of a server.                                              *)
LEMMA RoutesWritten ==
  ASSUME NEW t, NEW k, NEW sv, ServerWritten(t, k, sv), NEW l \in 1 .. Len(sv.routes)
  PROVE  RouteWritten(t, k, l, sv.routes[l])
  BY SMT DEF ServerWritten

(* A location keeps its meaning when the next line is not for it.          *)
LEMMA RouteKept ==
  ASSUME NEW S, NEW t \in Seq(S), NEW w \in S, NEW k, NEW l, NEW rt,
         RouteWritten(t, k, l, rt),
         ~ Heads(Append(t, w), k, l, Len(t) + 1),
         ~ (w[1] \in RouteKeys /\ Within(Append(t, w), k, l, Len(t) + 1))
  PROVE  RouteWritten(Append(t, w), k, l, rt)
  <1> DEFINE u == Append(t, w)
             n == Len(t)
  <1>1. n \in Nat /\ Len(u) = n + 1 /\ \A i \in 1 .. n : u[i] = t[i]
    BY AppendIs
  <1>2. \A i \in 1 .. n : Heads(u, k, l, i) <=> Heads(t, k, l, i)
    BY WithinKept
  <1>3. ASSUME NEW key \in RouteKeys
        PROVE  /\ None(u, k, l, key) <=> None(t, k, l, key)
               /\ ~ None(t, k, l, key) => LineOf(u, k, l, key) = LineOf(t, k, l, key)
    BY LineKept
  <1>4. Strings \subseteq RouteKeys
        /\ {"autoindex", "allow_methods", "return", "client_max_body_size"} \subseteq RouteKeys
    BY DEF RouteKeys
  <1>5. ~ Heads(u, k, l, n + 1)
    OBVIOUS
  <1> HIDE DEF u, n
  <1>6. \E i \in 1 .. Len(u) :
          /\ Heads(u, k, l, i) /\ rt.path = u[i][2]
          /\ \A j \in 1 .. Len(u) : Heads(u, k, l, j) => j = i
    <2>1. PICK i \in 1 .. n : /\ Heads(t, k, l, i) /\ rt.path = t[i][2]
                              /\ \A j \in 1 .. n : Heads(t, k, l, j) => j = i
      BY DEF RouteWritten, n
    <2>2. i \in 1 .. Len(u) /\ Heads(u, k, l, i) /\ rt.path = u[i][2]
      BY <1>1, <1>2, <2>1
    <2>3. ASSUME NEW j \in 1 .. Len(u), Heads(u, k, l, j) PROVE j = i
      <3>1. j # n + 1
        BY <1>5, <2>3
      <3>2. j \in 1 .. n
        BY <1>1, <3>1
      <3> QED BY <1>2, <2>1, <2>3, <3>2
    <2> QED BY <2>2, <2>3
  <1>7. \A key \in Strings :
          rt[key] = IF None(u, k, l, key) THEN RouteConfig("/")[key] ELSE LineOf(u, k, l, key)[2]
    BY <1>3, <1>4, Zenon DEF RouteWritten
  <1>8. rt.autoindex = IF None(u, k, l, "autoindex") THEN FALSE
                       ELSE LineOf(u, k, l, "autoindex")[2] = "on"
    BY <1>3, <1>4 DEF RouteWritten
  <1>9. rt.allow_methods = IF None(u, k, l, "allow_methods") THEN <<>>
                           ELSE Tail(LineOf(u, k, l, "allow_methods"))
    BY <1>3, <1>4 DEF RouteWritten
  <1>10. rt.redirect_code = IF None(u, k, l, "return") THEN 0
                            ELSE Number[LineOf(u, k, l, "return")[2]]
    BY <1>3, <1>4 DEF RouteWritten
  <1>11. rt.has_max = ~ None(u, k, l, "client_max_body_size")
    BY <1>3, <1>4 DEF RouteWritten
  <1>12. rt.redirect_url = IF None(u, k, l, "return") THEN "" ELSE LineOf(u, k, l, "return")[3]
    BY <1>3, <1>4 DEF RouteWritten
  <1>13. rt.max = IF None(u, k, l, "client_max_body_size") THEN 0
                  ELSE parse_size(LineOf(u, k, l, "client_max_body_size")[2])
    BY <1>3, <1>4 DEF RouteWritten
  <1> QED BY <1>6, <1>7, <1>8, <1>9, <1>10, <1>11, <1>12, <1>13 DEF RouteWritten, u

(* A server does, when it is not for it nor for one of its locations.      *)
LEMMA ServerKept ==
  ASSUME NEW S, NEW t \in Seq(S), NEW w \in S, NEW k, NEW sv,
         ServerWritten(t, k, sv),
         ~ (w[1] \in ServerKeys /\ Within(Append(t, w), k, 0, Len(t) + 1)),
         \A l \in 1 .. Len(sv.routes) :
           /\ ~ Heads(Append(t, w), k, l, Len(t) + 1)
           /\ ~ (w[1] \in RouteKeys /\ Within(Append(t, w), k, l, Len(t) + 1))
  PROVE  ServerWritten(Append(t, w), k, sv)
  <1> DEFINE u == Append(t, w)
  <1>1. ASSUME NEW l \in 1 .. Len(sv.routes) PROVE RouteWritten(u, k, l, sv.routes[l])
    <2>1. RouteWritten(t, k, l, sv.routes[l])
      BY RoutesWritten
    <2> QED BY <2>1, RouteKept
  <1>2. ASSUME NEW key \in ServerKeys
        PROVE  /\ LookupIn(u, k, 0, key) = LookupIn(t, k, 0, key)
               /\ None(u, k, 0, key) <=> None(t, k, 0, key)
               /\ ~ None(t, k, 0, key) => LineOf(u, k, 0, key) = LineOf(t, k, 0, key)
    BY LineKept
  <1>3. {"listen", "server_name", "error_page", "client_max_body_size"} \subseteq ServerKeys
    BY DEF ServerKeys
  <1>4. NamesWritten(u, k, sv.server_names)
    <2>1. NamesWritten(t, k, sv.server_names)
      BY SMT DEF ServerWritten
    <2> QED BY <1>2, <1>3, <2>1, NamesKept
  <1>5. PagesWritten(u, k, sv.error_pages)
    <2>1. PagesWritten(t, k, sv.error_pages)
      BY SMT DEF ServerWritten
    <2> QED BY <1>2, <1>3, <2>1, PagesKept
  <1> HIDE DEF u
  <1>6. Cardinality(LookupIn(u, k, 0, "listen")) <= 1
    BY <1>2, <1>3 DEF ServerWritten
  <1>7. sv.port = IF None(u, k, 0, "listen") THEN 8080
                  ELSE Number[PortWord(LineOf(u, k, 0, "listen")[2])]
    BY <1>2, <1>3 DEF ServerWritten
  <1>8. sv.host = IF None(u, k, 0, "listen") THEN "0.0.0.0"
                  ELSE HostOf(LineOf(u, k, 0, "listen")[2])
    BY <1>2, <1>3 DEF ServerWritten
  <1>9. sv.has_listen_ = ~ None(u, k, 0, "listen")
    BY <1>2, <1>3 DEF ServerWritten
  <1>10. sv.max = IF None(u, k, 0, "client_max_body_size") THEN ServerConfig.max
                  ELSE parse_size(LineOf(u, k, 0, "client_max_body_size")[2])
    BY <1>2, <1>3 DEF ServerWritten
  <1> QED BY <1>1, <1>4, <1>5, <1>6, <1>7, <1>8, <1>9, <1>10 DEF ServerWritten, u

(* In a file nothing of a new server is written yet.                       *)
LEMMA ServerOpens ==
  ASSUME NEW S, NEW t \in Seq(S), NEW w \in S, Grows(t),
         w = <<"server">>, DepthIn(t, Len(t) + 1) = 0
  PROVE  ServerWritten(Append(t, w), BlockIn(t, Len(t)) + 1, ServerConfig)
  <1> DEFINE u == Append(t, w)
             n == Len(t)
             k == BlockIn(t, n) + 1
  <1>1. n \in Nat /\ BlockIn(t, n) \in Nat
    BY AppendIs, BlockSteps
  <1>2. \A i \in 1 .. n : BlockIn(t, i) # k
    BY <1>1, Integers DEF Grows
  <1>3. \A key : LookupIn(t, k, 0, key) = {}
    BY <1>2 DEF LookupIn, Within
  <1>4. w[1] \notin ServerKeys
    BY DEF ServerKeys
  <1>5. ASSUME NEW key \in ServerKeys PROVE LookupIn(u, k, 0, key) = {}
    BY <1>3, <1>4, LineKept
  <1>6. /\ LookupIn(u, k, 0, "listen") = {} /\ None(u, k, 0, "listen")
        /\ None(u, k, 0, "client_max_body_size")
        /\ NamesWritten(u, k, <<>>) /\ PagesWritten(u, k, <<>>)
    <2>1. {"listen", "server_name", "error_page", "client_max_body_size"} \subseteq ServerKeys
      BY DEF ServerKeys
    <2> HIDE DEF u, k
    <2> QED BY <1>5, <2>1, NothingWritten DEF None
  <1> HIDE DEF u, k
  <1>7. None(u, k, 0, "listen") /\ Cardinality(LookupIn(u, k, 0, "listen")) <= 1
    <2>1. Cardinality({}) = 0
      BY FS_EmptySet
    <2>2. LookupIn(u, k, 0, "listen") = {}
      BY <1>6, Zenon
    <2>3. Cardinality(LookupIn(u, k, 0, "listen")) = 0
      BY <2>1, <2>2, Zenon
    <2> QED BY <2>2, <2>3 DEF None
  <1>8. /\ ServerConfig.port = 8080 /\ ServerConfig.host = "0.0.0.0"
        /\ ServerConfig.has_listen_ = FALSE /\ 1 .. Len(ServerConfig.routes) = {}
        /\ ServerConfig.server_names = <<>> /\ ServerConfig.error_pages = <<>>
    BY DEF ServerConfig
  <1>9. ServerWritten(u, k, ServerConfig)
    <2>1. ServerConfig.has_listen_ = ~ None(u, k, 0, "listen")
      <3> DEFINE h == ServerConfig.has_listen_
                 p == None(u, k, 0, "listen")
      <3>1. h = FALSE /\ p
        BY <1>7, <1>8
      <3> HIDE DEF h, p
      <3>2. h = ~ p
        BY <3>1
      <3> QED BY <3>2 DEF h, p
    <2> QED BY <1>7, <1>8, <1>6, <2>1 DEF ServerWritten
  <1> QED BY <1>9 DEF u, k

(* A line that opens a location is the only one of it so far.              *)
LEMMA RouteOpens ==
  ASSUME NEW S, NEW t \in Seq(S), NEW w \in S, NEW k, Grows(t),
         w # <<>>, w[1] = "location", DepthIn(t, Len(t) + 1) = 1, BlockIn(t, Len(t)) = k
  PROVE  RouteWritten(Append(t, w), k, LocationIn(t, Len(t)) + 1, RouteConfig(w[2]))
  <1> DEFINE u == Append(t, w)
             n == Len(t)
             l == LocationIn(t, n) + 1
  <1>1. /\ n \in Nat /\ Len(u) = n + 1 /\ u[n + 1] = w
        /\ LocationIn(t, n) \in Nat
    BY AppendIs, LocationSteps
  <1>2. w # <<"server">>
    OBVIOUS
  <1>3. BlockIn(u, n + 1) = k
    BY <1>2, BlockSteps
  <1>4. LocationIn(u, n + 1) = l
    BY <1>3, LocationSteps
  <1>5. DepthIn(u, n + 1) = 1
    <2>1. n + 1 \in 1 .. n + 1
      BY <1>1
    <2> QED BY <2>1, DepthSteps
  <1>6. ASSUME NEW i \in 1 .. n PROVE ~ (BlockIn(t, i) = k /\ LocationIn(t, i) = l)
    BY <1>1, Integers DEF Grows
  <1>7. l # 0
    BY <1>1
  <1>8. \A key : LookupIn(t, k, l, key) = {}
    BY <1>6, <1>7 DEF LookupIn, Within
  <1>9. ~ Within(u, k, l, n + 1)
    BY <1>5, <1>7 DEF Within
  <1>10. \A key : None(u, k, l, key)
    BY <1>8, <1>9, LineKept DEF None
  <1>11. \A i \in 1 .. n : ~ Heads(u, k, l, i)
    <2>1. \A i \in 1 .. n : ~ Heads(t, k, l, i)
      BY <1>6 DEF Heads
    <2> QED BY <2>1, WithinKept
  <1>12. Heads(u, k, l, n + 1)
    BY <1>1, <1>3, <1>4, <1>5 DEF Heads
  <1> HIDE DEF u, n, l
  <1> DEFINE rt == RouteConfig(w[2])
  <1>13. /\ \A key \in Strings : rt[key] = RouteConfig("/")[key]
         /\ rt.path = w[2] /\ rt.autoindex = FALSE /\ rt.allow_methods = <<>>
         /\ rt.redirect_code = 0 /\ rt.has_max = FALSE /\ rt.redirect_url = "" /\ rt.max = 0
    BY DEF RouteConfig, Strings
  <1> HIDE DEF rt
  <1>14. \E i \in 1 .. Len(u) :
          /\ Heads(u, k, l, i) /\ rt.path = u[i][2]
          /\ \A j \in 1 .. Len(u) : Heads(u, k, l, j) => j = i
    <2>1. n + 1 \in 1 .. Len(u) /\ \A j \in 1 .. Len(u) : j # n + 1 => j \in 1 .. n
      BY <1>1
    <2> QED BY <1>1, <1>11, <1>12, <1>13, <2>1
  <1>15. RouteWritten(u, k, l, rt)
    BY <1>10, <1>13, <1>14 DEF RouteWritten
  <1> QED BY <1>15 DEF u, n, l, rt

(* A directive of a location sets what it says.                            *)
LEMMA RouteSets ==
  ASSUME NEW S, NEW t \in Seq(S), NEW w \in S, NEW k, NEW l, NEW rt,
         RouteWritten(t, k, l, rt), DOMAIN rt = RouteFields,
         Within(Append(t, w), k, l, Len(t) + 1), l # 0,
         ~ IsWrong(parse_route_directive(rt, w))
  PROVE  /\ RouteWritten(Append(t, w), k, l, parse_route_directive(rt, w))
         /\ DOMAIN parse_route_directive(rt, w) = RouteFields
         /\ w[1] \in RouteKeys
  <1> DEFINE u == Append(t, w)
             n == Len(t)
             new == parse_route_directive(rt, w)
             others == RouteKeys \ {w[1]}
  <1>1. IsWrong(Wrong)
    BY DEF IsWrong, Wrong
  <1>2. Strings \cup {"path", "autoindex", "allow_methods", "redirect_code", "redirect_url",
                      "max", "has_max"} = RouteFields
    BY DEF RouteFields, RouteConfig, Strings
  <1>3. ~ None(u, k, l, w[1]) /\ LineOf(u, k, l, w[1]) = w
    BY LineNew
  <1>4. ASSUME NEW key, key # w[1]
        PROVE  /\ None(u, k, l, key) <=> None(t, k, l, key)
               /\ ~ None(t, k, l, key) => LineOf(u, k, l, key) = LineOf(t, k, l, key)
    BY <1>4, LineKept
  <1>5. \E i \in 1 .. Len(u) :
          /\ Heads(u, k, l, i) /\ rt.path = u[i][2]
          /\ \A j \in 1 .. Len(u) : Heads(u, k, l, j) => j = i
    <2>1. n \in Nat /\ Len(u) = n + 1 /\ \A i \in 1 .. n : u[i] = t[i]
      BY AppendIs
    <2>2. \A i \in 1 .. n : Heads(u, k, l, i) <=> Heads(t, k, l, i)
      BY WithinKept
    <2>3. PICK i \in 1 .. n : /\ Heads(t, k, l, i) /\ rt.path = t[i][2]
                              /\ \A j \in 1 .. n : Heads(t, k, l, j) => j = i
      BY DEF RouteWritten
    <2>4. ~ Heads(u, k, l, n + 1)
      BY DEF Heads, Within
    <2> HIDE DEF u, n
    <2>5. i \in 1 .. Len(u) /\ Heads(u, k, l, i) /\ rt.path = u[i][2]
      BY <2>1, <2>2, <2>3
    <2>6. ASSUME NEW j \in 1 .. Len(u), Heads(u, k, l, j) PROVE j = i
      <3>1. j # n + 1
        BY <2>4, <2>6
      <3>2. j \in 1 .. n
        BY <2>1, <3>1
      <3> QED BY <2>2, <2>3, <2>6, <3>2
    <2> QED BY <2>5, <2>6
  (* What the directives of other names say is as before. *)
  <1> DEFINE Said(r, key) ==
        /\ key \in Strings =>
             r[key] = IF None(u, k, l, key) THEN RouteConfig("/")[key] ELSE LineOf(u, k, l, key)[2]
        /\ key = "autoindex" =>
             r.autoindex = IF None(u, k, l, key) THEN FALSE ELSE LineOf(u, k, l, key)[2] = "on"
        /\ key = "allow_methods" =>
             r.allow_methods = IF None(u, k, l, key) THEN <<>> ELSE Tail(LineOf(u, k, l, key))
        /\ key = "return" =>
             /\ r.redirect_code = IF None(u, k, l, key) THEN 0
                                  ELSE Number[LineOf(u, k, l, key)[2]]
             /\ r.redirect_url = IF None(u, k, l, key) THEN "" ELSE LineOf(u, k, l, key)[3]
        /\ key = "client_max_body_size" =>
             /\ r.has_max = ~ None(u, k, l, key)
             /\ r.max = IF None(u, k, l, key) THEN 0 ELSE parse_size(LineOf(u, k, l, key)[2])
  <1>6. ASSUME NEW key, key # w[1] PROVE Said(rt, key)
    <2>1. CASE key \in Strings
      <3>1. rt[key] = IF None(t, k, l, key) THEN RouteConfig("/")[key]
                      ELSE LineOf(t, k, l, key)[2]
        BY <2>1, Zenon DEF RouteWritten
      <3> HIDE DEF u
      <3> QED BY <1>4, <1>6, <2>1, <3>1 DEF Strings
    <2>2. CASE key = "autoindex"
      BY <1>4, <1>6, <2>2, Zenon DEF RouteWritten, Strings
    <2>3. CASE key = "allow_methods"
      BY <1>4, <1>6, <2>3, Zenon DEF RouteWritten, Strings
    <2>4. CASE key = "return"
      BY <1>4, <1>6, <2>4, Zenon DEF RouteWritten, Strings
    <2>5. CASE key = "client_max_body_size"
      BY <1>4, <1>6, <2>5, Zenon DEF RouteWritten, Strings
    <2> HIDE DEF u
    <2> QED BY <2>1, <2>2, <2>3, <2>4, <2>5, Zenon
  <1>7. ASSUME NEW r, \A key \in RouteKeys : Said(r, key), r.path = rt.path
        PROVE  RouteWritten(u, k, l, r)
    <2>1. \A key \in Strings : Said(r, key)
      BY <1>7 DEF RouteKeys
    <2>2. /\ Said(r, "autoindex") /\ Said(r, "allow_methods") /\ Said(r, "return")
          /\ Said(r, "client_max_body_size")
      BY <1>7 DEF RouteKeys
    <2> HIDE DEF u
    <2> QED BY <1>5, <1>7, <2>1, <2>2, Zenon DEF RouteWritten
  <1> HIDE DEF u
  <1>8. CASE w[1] \in Strings
    <2>1. new = [rt EXCEPT ![w[1]] = w[2]]
      BY <1>1, <1>8 DEF parse_route_directive, Strings
    <2>2. /\ DOMAIN new = RouteFields /\ new[w[1]] = w[2]
          /\ \A f \in RouteFields \ {w[1]} : new[f] = rt[f]
      BY <1>2, <1>8, <2>1
    <2> HIDE DEF new
    <2>3. /\ \A f \in Strings \ {w[1]} : new[f] = rt[f]
          /\ new.path = rt.path /\ new.autoindex = rt.autoindex
          /\ new.allow_methods = rt.allow_methods /\ new.redirect_code = rt.redirect_code
          /\ new.has_max = rt.has_max /\ new.redirect_url = rt.redirect_url
          /\ new.max = rt.max
      BY <1>2, <1>8, <2>2 DEF Strings
    <2>4. Said(new, w[1])
      BY <1>3, <1>8, <2>2 DEF Strings
    <2>5. ASSUME NEW key \in RouteKeys, key # w[1] PROVE Said(new, key)
      BY <1>6, <2>3, <2>5, Zenon
    <2> HIDE DEF Said
    <2>6. \A key \in RouteKeys : Said(new, key)
      BY <2>4, <2>5
    <2>7. RouteWritten(u, k, l, new)
      BY <1>7, <2>3, <2>6
    <2> QED BY <1>8, <2>2, <2>7 DEF RouteKeys, u, new
  <1>9. CASE w[1] = "autoindex"
    <2>1. new = [rt EXCEPT !.autoindex = w[2] = "on"]
      BY <1>1, <1>9 DEF parse_route_directive, parse_autoindex, Strings
    <2>2. /\ DOMAIN new = RouteFields /\ new.autoindex = (w[2] = "on")
          /\ \A f \in RouteFields \ {"autoindex"} : new[f] = rt[f]
      BY <1>2, <2>1
    <2> HIDE DEF new
    <2>3. /\ \A f \in Strings : new[f] = rt[f]
          /\ new.path = rt.path /\ new.allow_methods = rt.allow_methods
          /\ new.redirect_code = rt.redirect_code /\ new.has_max = rt.has_max
          /\ new.redirect_url = rt.redirect_url /\ new.max = rt.max
      BY <1>2, <2>2 DEF Strings
    <2>4. Said(new, w[1])
      BY <1>3, <1>9, <2>2, Zenon DEF Strings
    <2>5. ASSUME NEW key \in RouteKeys, key # w[1] PROVE Said(new, key)
      BY <1>6, <1>9, <2>3, <2>5, Zenon
    <2> HIDE DEF Said
    <2>6. \A key \in RouteKeys : Said(new, key)
      BY <2>4, <2>5
    <2>7. RouteWritten(u, k, l, new)
      BY <1>7, <2>3, <2>6
    <2> QED BY <1>9, <2>2, <2>7 DEF RouteKeys, u, new
  <1>10. CASE w[1] = "allow_methods"
    <2>1. new = [rt EXCEPT !.allow_methods = Tail(w)]
      BY <1>1, <1>10 DEF parse_route_directive, parse_allow_methods, Strings
    <2>2. /\ DOMAIN new = RouteFields /\ new.allow_methods = Tail(w)
          /\ \A f \in RouteFields \ {"allow_methods"} : new[f] = rt[f]
      BY <1>2, <2>1
    <2> HIDE DEF new
    <2>3. /\ \A f \in Strings : new[f] = rt[f]
          /\ new.path = rt.path /\ new.autoindex = rt.autoindex
          /\ new.redirect_code = rt.redirect_code /\ new.has_max = rt.has_max
          /\ new.redirect_url = rt.redirect_url /\ new.max = rt.max
      BY <1>2, <2>2 DEF Strings
    <2>4. Said(new, w[1])
      BY <1>3, <1>10, <2>2, Zenon DEF Strings
    <2>5. ASSUME NEW key \in RouteKeys, key # w[1] PROVE Said(new, key)
      BY <1>6, <1>10, <2>3, <2>5, Zenon
    <2> HIDE DEF Said
    <2>6. \A key \in RouteKeys : Said(new, key)
      BY <2>4, <2>5
    <2>7. RouteWritten(u, k, l, new)
      BY <1>7, <2>3, <2>6
    <2> QED BY <1>10, <2>2, <2>7 DEF RouteKeys, u, new
  <1>11. CASE w[1] = "return"
    <2>1. new = [rt EXCEPT !.redirect_code = Number[w[2]], !.redirect_url = w[3]]
      BY <1>1, <1>11 DEF parse_route_directive, parse_return, Strings
    <2>2. /\ DOMAIN new = RouteFields /\ new.redirect_code = Number[w[2]]
          /\ new.redirect_url = w[3]
          /\ \A f \in RouteFields \ {"redirect_code", "redirect_url"} : new[f] = rt[f]
      BY <1>2, <2>1
    <2> HIDE DEF new
    <2>3. /\ \A f \in Strings : new[f] = rt[f]
          /\ new.path = rt.path /\ new.autoindex = rt.autoindex
          /\ new.allow_methods = rt.allow_methods /\ new.has_max = rt.has_max
          /\ new.max = rt.max
      BY <1>2, <2>2 DEF Strings
    <2>4. Said(new, w[1])
      BY <1>3, <1>11, <2>2, Zenon DEF Strings
    <2>5. ASSUME NEW key \in RouteKeys, key # w[1] PROVE Said(new, key)
      BY <1>6, <1>11, <2>3, <2>5, Zenon
    <2> HIDE DEF Said
    <2>6. \A key \in RouteKeys : Said(new, key)
      BY <2>4, <2>5
    <2>7. RouteWritten(u, k, l, new)
      BY <1>7, <2>3, <2>6
    <2> QED BY <1>11, <2>2, <2>7 DEF RouteKeys, u, new
  <1>12. CASE w[1] = "client_max_body_size"
    <2>1. new = [rt EXCEPT !.max = parse_size(w[2]), !.has_max = TRUE]
      BY <1>1, <1>12 DEF parse_route_directive, Strings
    <2>2. /\ DOMAIN new = RouteFields /\ new.has_max = TRUE /\ new.max = parse_size(w[2])
          /\ \A f \in RouteFields \ {"max", "has_max"} : new[f] = rt[f]
      BY <1>2, <2>1
    <2> HIDE DEF new
    <2>3. /\ \A f \in Strings : new[f] = rt[f]
          /\ new.path = rt.path /\ new.autoindex = rt.autoindex
          /\ new.allow_methods = rt.allow_methods /\ new.redirect_code = rt.redirect_code
          /\ new.redirect_url = rt.redirect_url
      BY <1>2, <2>2 DEF Strings
    <2>4. Said(new, w[1])
      <3>1. new.has_max = ~ None(u, k, l, w[1])
        BY <1>3, <2>2 DEF None
      <3>2. new.max = parse_size(LineOf(u, k, l, w[1])[2])
        BY <1>3, <2>2
      <3> QED BY <1>3, <1>12, <3>1, <3>2 DEF Strings
    <2>5. ASSUME NEW key \in RouteKeys, key # w[1] PROVE Said(new, key)
      BY <1>6, <1>12, <2>3, <2>5, Zenon
    <2> HIDE DEF Said
    <2>6. \A key \in RouteKeys : Said(new, key)
      BY <2>4, <2>5
    <2>7. RouteWritten(u, k, l, new)
      BY <1>7, <2>3, <2>6
    <2> QED BY <1>12, <2>2, <2>7 DEF RouteKeys, u, new
  <1>13. w[1] \in RouteKeys
    BY <1>1 DEF parse_route_directive, RouteKeys
  <1> QED BY <1>8, <1>9, <1>10, <1>11, <1>12, <1>13 DEF RouteKeys

(* A directive of a server sets what it says.                              *)
LEMMA ServerSets ==
  ASSUME NEW S, NEW t \in Seq(S), NEW w \in S, NEW k, NEW sv, w \in Seq(STRING),
         ServerWritten(t, k, sv), DOMAIN sv = ServerFields, IsList(sv.routes),
         Within(Append(t, w), k, 0, Len(t) + 1), w[1] # "location",
         ~ IsWrong(parse_directive(sv, w))
  PROVE  /\ ServerWritten(Append(t, w), k, parse_directive(sv, w))
         /\ DOMAIN parse_directive(sv, w) = ServerFields
         /\ parse_directive(sv, w).routes = sv.routes
         /\ w[1] \in ServerKeys
  <1> DEFINE u == Append(t, w)
             n == Len(t)
             new == parse_directive(sv, w)
  <1>1. IsWrong(Wrong)
    BY DEF IsWrong, Wrong
  <1>2. ServerFields = {"host", "port", "has_listen_", "server_names", "error_pages", "max",
                        "routes"}
    BY DEF ServerFields, ServerConfig
  <1>3. \A l \in 1 .. Len(sv.routes) : RouteWritten(u, k, l, sv.routes[l])
    <2> SUFFICES ASSUME NEW l \in 1 .. Len(sv.routes) PROVE RouteWritten(u, k, l, sv.routes[l])
      OBVIOUS
    <2>1. l # 0
      BY ListAppend
    <2>2. u[n + 1] = w
      BY AppendIs
    <2>3. ~ Heads(u, k, l, n + 1)
      BY <2>2 DEF Heads
    <2>4. ~ Within(u, k, l, n + 1)
      BY <2>1 DEF Within
    <2>5. RouteWritten(t, k, l, sv.routes[l])
      BY RoutesWritten
    <2> QED BY <2>3, <2>4, <2>5, RouteKept
  <1>4. ASSUME NEW key, key # w[1]
        PROVE  /\ LookupIn(u, k, 0, key) = LookupIn(t, k, 0, key)
               /\ None(u, k, 0, key) <=> None(t, k, 0, key)
               /\ ~ None(t, k, 0, key) => LineOf(u, k, 0, key) = LineOf(t, k, 0, key)
    BY <1>4, LineKept
  <1>5. /\ ~ None(u, k, 0, w[1]) /\ LineOf(u, k, 0, w[1]) = w
        /\ LookupIn(u, k, 0, w[1]) = LookupIn(t, k, 0, w[1]) \cup {n + 1}
    BY LineNew, LookupSteps
  (* What the directives of other names say is as before. *)
  <1> DEFINE Listens(r) ==
        /\ Cardinality(LookupIn(u, k, 0, "listen")) <= 1
        /\ r.port = IF None(u, k, 0, "listen") THEN 8080
                    ELSE Number[PortWord(LineOf(u, k, 0, "listen")[2])]
        /\ r.host = IF None(u, k, 0, "listen") THEN "0.0.0.0"
                    ELSE HostOf(LineOf(u, k, 0, "listen")[2])
        /\ r.has_listen_ = ~ None(u, k, 0, "listen")
             Limits(r) ==
        r.max = IF None(u, k, 0, "client_max_body_size") THEN ServerConfig.max
                ELSE parse_size(LineOf(u, k, 0, "client_max_body_size")[2])
  <1>6. ASSUME w[1] # "listen" PROVE Listens(sv)
    BY <1>4, <1>6 DEF ServerWritten
  <1>7. ASSUME w[1] # "client_max_body_size" PROVE Limits(sv)
    BY <1>4, <1>7 DEF ServerWritten
  <1>8. NamesWritten(t, k, sv.server_names) /\ PagesWritten(t, k, sv.error_pages)
    BY SMT DEF ServerWritten
  <1>9. ASSUME w[1] # "server_name" PROVE NamesWritten(u, k, sv.server_names)
    BY <1>4, <1>8, <1>9, NamesKept
  <1>10. ASSUME w[1] # "error_page" PROVE PagesWritten(u, k, sv.error_pages)
    BY <1>4, <1>8, <1>10, PagesKept
  <1>11. ASSUME NEW r, Listens(r), Limits(r), NamesWritten(u, k, r.server_names),
                PagesWritten(u, k, r.error_pages), r.routes = sv.routes
         PROVE  ServerWritten(u, k, r)
    <2> HIDE DEF u
    <2> QED BY <1>3, <1>11 DEF ServerWritten
  <1>12. CASE w[1] = "listen"
    <2>1. new = parse_listen(sv, w)
      BY <1>12 DEF parse_directive
    <2>2. /\ ~ sv.has_listen_
          /\ new = [sv EXCEPT !.has_listen_ = TRUE, !.host = HostOf(w[2]),
                              !.port = Number[PortWord(w[2])]]
      BY <1>1, <2>1 DEF parse_listen
    <2>3. /\ DOMAIN new = ServerFields /\ new.has_listen_ = TRUE /\ new.host = HostOf(w[2])
          /\ new.port = Number[PortWord(w[2])] /\ new.routes = sv.routes
          /\ new.server_names = sv.server_names /\ new.error_pages = sv.error_pages
          /\ new.max = sv.max
      BY <1>2, <2>2
    <2>4. LookupIn(t, k, 0, "listen") = {}
      <3>1. sv.has_listen_ = ~ None(t, k, 0, "listen")
        BY SMT DEF ServerWritten
      <3>2. None(t, k, 0, "listen")
        BY ONLY <2>2, <3>1
      <3> QED BY <3>2 DEF None
    <2> HIDE DEF u, new
    <2>5. Cardinality(LookupIn(u, k, 0, "listen")) <= 1
      <3>1. LookupIn(u, k, 0, "listen") = {n + 1}
        BY <1>5, <1>12, <2>4
      <3>2. Cardinality({n + 1}) = 1
        BY FS_Singleton
      <3>3. Cardinality(LookupIn(u, k, 0, "listen")) = 1
        BY <3>1, <3>2, Zenon
      <3> QED BY <3>3
    <2>6. new.has_listen_ = ~ None(u, k, 0, "listen")
      BY <1>5, <1>12, <2>3
    <2>7. Listens(new)
      BY <1>5, <1>12, <2>3, <2>5, <2>6
    <2>8. Limits(new)
      BY <1>7, <1>12, <2>3
    <2> HIDE DEF Listens, Limits
    <2>9. ServerWritten(u, k, new)
      BY <1>9, <1>10, <1>11, <1>12, <2>3, <2>7, <2>8
    <2> QED BY <1>12, <2>3, <2>9 DEF ServerKeys, u, new
  <1>13. CASE w[1] = "server_name"
    <2>1. new = [sv EXCEPT !.server_names = @ \o Tail(w)] /\ Len(w) >= 2
      BY <1>1, <1>13 DEF parse_directive
    <2>2. /\ DOMAIN new = ServerFields /\ new.server_names = sv.server_names \o Tail(w)
          /\ new.has_listen_ = sv.has_listen_ /\ new.host = sv.host /\ new.port = sv.port
          /\ new.error_pages = sv.error_pages /\ new.max = sv.max /\ new.routes = sv.routes
      BY <1>2, <2>1
    <2>3. NamesWritten(u, k, sv.server_names \o Tail(w))
      BY <1>5, <1>8, <1>13, <2>1, NamesMore
    <2> HIDE DEF u, new
    <2>4. Listens(new)
      BY <1>6, <1>13, <2>2
    <2>5. Limits(new)
      BY <1>7, <1>13, <2>2
    <2>6. NamesWritten(u, k, new.server_names)
      BY <2>2, <2>3
    <2> HIDE DEF Listens, Limits
    <2>7. ServerWritten(u, k, new)
      BY <1>10, <1>11, <1>13, <2>2, <2>4, <2>5, <2>6
    <2> QED BY <1>13, <2>2, <2>7 DEF ServerKeys, u, new
  <1>14. CASE w[1] = "error_page"
    <2>1. new = [sv EXCEPT !.error_pages = SetPage(@, Number[w[2]], w[3])]
      BY <1>1, <1>14 DEF parse_directive
    <2>2. /\ DOMAIN new = ServerFields
          /\ new.error_pages = SetPage(sv.error_pages, Number[w[2]], w[3])
          /\ new.has_listen_ = sv.has_listen_ /\ new.host = sv.host /\ new.port = sv.port
          /\ new.server_names = sv.server_names /\ new.max = sv.max /\ new.routes = sv.routes
      BY <1>2, <2>1
    <2>3. PagesWritten(u, k, SetPage(sv.error_pages, Number[w[2]], w[3]))
      BY <1>5, <1>8, <1>14, PagesMore
    <2> HIDE DEF u, new
    <2>4. Listens(new)
      BY <1>6, <1>14, <2>2
    <2>5. Limits(new)
      BY <1>7, <1>14, <2>2
    <2>6. PagesWritten(u, k, new.error_pages)
      BY <2>2, <2>3
    <2> HIDE DEF Listens, Limits
    <2>7. ServerWritten(u, k, new)
      BY <1>9, <1>11, <1>14, <2>2, <2>4, <2>5, <2>6
    <2> QED BY <1>14, <2>2, <2>7 DEF ServerKeys, u, new
  <1>15. CASE w[1] = "client_max_body_size"
    <2>1. new = [sv EXCEPT !.max = parse_size(w[2])]
      BY <1>1, <1>15 DEF parse_directive
    <2>2. /\ DOMAIN new = ServerFields /\ new.max = parse_size(w[2])
          /\ new.has_listen_ = sv.has_listen_ /\ new.host = sv.host /\ new.port = sv.port
          /\ new.server_names = sv.server_names /\ new.error_pages = sv.error_pages
          /\ new.routes = sv.routes
      BY <1>2, <2>1
    <2> HIDE DEF u, new
    <2>3. Listens(new)
      BY <1>6, <1>15, <2>2
    <2>4. Limits(new)
      BY <1>5, <1>15, <2>2
    <2> HIDE DEF Listens, Limits
    <2>5. ServerWritten(u, k, new)
      BY <1>9, <1>10, <1>11, <1>15, <2>2, <2>3, <2>4
    <2> QED BY <1>15, <2>2, <2>5 DEF ServerKeys, u, new
  <1>16. w[1] \in ServerKeys
    BY <1>1 DEF parse_directive, ServerKeys
  <1> QED BY <1>12, <1>13, <1>14, <1>15, <1>16 DEF ServerKeys

-----------------------------------------------------------------------------
(***************************************************************************)
(* What holds between two lines: the blocks that are closed say what is    *)
(* kept of them, and so does the open one as far as it is read.            *)
(***************************************************************************)
LastOf(t, k) == Max({i \in 1 .. Len(t) : BlockIn(t, i) = k})

Complete(t, ss) ==
  \A k \in 1 .. Len(ss) :
    /\ ServerWritten(t, k, ss[k]) /\ IsList(ss[k].routes)
    /\ Len(ss[k].routes) = LocationIn(t, LastOf(t, k))
    /\ \E i \in 1 .. Len(t) : BlockIn(t, i) = k

Outside == {"args", "parse", "bind", "serving", "not_ok"}
Inside == {"open_server", "server", "open_location", "location"}

Types ==
  /\ form \in DOMAIN Forms /\ text \in Seq(Lines) /\ IsList(servers_) /\ IsList(srv.routes)
  /\ DOMAIN srv = ServerFields /\ DOMAIN route = RouteFields

Between ==
  at \in Outside => /\ DepthIn(text, Len(text) + 1) = 0
                    /\ BlockIn(text, Len(text)) = Len(servers_)

Opened ==
  LET n == Len(text)
      k == Len(servers_) + 1
      l == Len(srv.routes)
  IN  at \in Inside =>
        /\ BlockIn(text, n) = k /\ ServerWritten(text, k, srv)
        /\ at = "open_server" => DepthIn(text, n + 1) = 0 /\ LocationIn(text, n) = l
        /\ at = "server" => DepthIn(text, n + 1) = 1 /\ LocationIn(text, n) = l
        /\ at \in {"open_location", "location"} =>
             LocationIn(text, n) = l + 1 /\ RouteWritten(text, k, l + 1, route)
        /\ at = "open_location" => DepthIn(text, n + 1) = 1
        /\ at = "location" => DepthIn(text, n + 1) = 2

Read == at \in Outside \cup Inside => Grows(text) /\ Complete(text, servers_)

ParseInv == Types /\ Read /\ Between /\ Opened

(* What was closed before stays so when a line of a later block is read.   *)
LEMMA CompleteKept ==
  ASSUME NEW S, NEW t \in Seq(S), NEW w \in S, NEW ss, IsList(ss), Complete(t, ss),
         BlockIn(Append(t, w), Len(t) + 1) = Len(ss) + 1
  PROVE  Complete(Append(t, w), ss)
  <1> DEFINE u == Append(t, w)
             n == Len(t)
  <1>1. n \in Nat /\ Len(u) = n + 1 /\ Len(ss) \in Nat
    BY AppendIs, ListAppend
  <1>2. \A i \in 1 .. n : /\ BlockIn(u, i) = BlockIn(t, i)
                          /\ LocationIn(u, i) = LocationIn(t, i)
    BY BlockSteps, LocationSteps
  <1> SUFFICES ASSUME NEW k \in 1 .. Len(ss)
               PROVE  /\ ServerWritten(u, k, ss[k]) /\ IsList(ss[k].routes)
                      /\ Len(ss[k].routes) = LocationIn(u, LastOf(u, k))
                      /\ \E i \in 1 .. Len(u) : BlockIn(u, i) = k
    BY DEF Complete
  <1>3. /\ ServerWritten(t, k, ss[k]) /\ IsList(ss[k].routes)
        /\ Len(ss[k].routes) = LocationIn(t, LastOf(t, k))
        /\ \E i \in 1 .. n : BlockIn(t, i) = k
    BY DEF Complete
  <1>4. BlockIn(u, n + 1) # k
    BY <1>1
  <1>5. ServerWritten(u, k, ss[k])
    <2>1. \A l : ~ Within(u, k, l, n + 1) /\ ~ Heads(u, k, l, n + 1)
      BY <1>4 DEF Within, Heads
    <2> QED BY <1>3, <2>1, ServerKept
  <1> HIDE DEF u, n
  <1> DEFINE s == {i \in 1 .. n : BlockIn(t, i) = k}
  <1>6. {i \in 1 .. Len(u) : BlockIn(u, i) = k} = s
    <2>1. \A i \in 1 .. n + 1 : i # n + 1 => i \in 1 .. n
      BY <1>1
    <2> QED BY <1>1, <1>2, <1>4, <2>1
  <1>7. s \in SUBSET (1 .. n) /\ s # {}
    BY <1>3
  <1>8. LastOf(u, k) = Max(s) /\ LastOf(t, k) = Max(s)
    BY <1>6 DEF LastOf, n
  <1> HIDE DEF s
  <1>9. Max(s) \in 1 .. n
    BY <1>1, <1>7, MaxIn
  <1>10. Len(ss[k].routes) = LocationIn(u, LastOf(u, k))
    BY <1>2, <1>3, <1>8, <1>9
  <1>11. \E i \in 1 .. Len(u) : BlockIn(u, i) = k
    BY <1>1, <1>2, <1>3
  <1> QED BY <1>3, <1>5, <1>10, <1>11 DEF u

(* The block of the last line is closed.                                   *)
LEMMA CompleteCloses ==
  ASSUME NEW S, NEW t \in Seq(S), NEW ss, IsList(ss), Complete(t, ss), NEW sv,
         t # <<>>, BlockIn(t, Len(t)) = Len(ss) + 1,
         ServerWritten(t, Len(ss) + 1, sv), IsList(sv.routes),
         Len(sv.routes) = LocationIn(t, Len(t))
  PROVE  Complete(t, Append(ss, sv))
  <1> DEFINE vv == Append(ss, sv)
             n == Len(t)
             m == Len(ss) + 1
  <1>1. n \in Nat /\ n \in 1 .. n
    OBVIOUS
  <1>2. /\ Len(ss) \in Nat /\ Len(vv) = m /\ vv[m] = sv
        /\ \A i \in 1 .. Len(ss) : vv[i] = ss[i]
    BY ListAppend
  <1> HIDE DEF vv
  <1> SUFFICES ASSUME NEW k \in 1 .. m
               PROVE  /\ ServerWritten(t, k, vv[k]) /\ IsList(vv[k].routes)
                      /\ Len(vv[k].routes) = LocationIn(t, LastOf(t, k))
                      /\ \E i \in 1 .. Len(t) : BlockIn(t, i) = k
    BY <1>2 DEF Complete, vv
  <1>3. CASE k \in 1 .. Len(ss)
    BY <1>2, <1>3 DEF Complete
  <1>4. CASE k = m
    <2> DEFINE s == {i \in 1 .. n : BlockIn(t, i) = m}
    <2>1. s \in SUBSET (1 .. n) /\ n \in s
      BY <1>1
    <2>2. LastOf(t, m) = Max(s)
      BY DEF LastOf
    <2> HIDE DEF s
    <2>3. LastOf(t, m) = n
      BY <1>1, <2>1, <2>2, MaxIs
    <2> QED BY <1>1, <1>2, <1>4, <2>3
  <1> QED BY <1>2, <1>3, <1>4

(* A line that opens nothing and sets nothing, or belongs to the last      *)
(* location, is not for the locations before.                              *)
LEMMA OpenKept ==
  ASSUME NEW S, NEW t \in Seq(S), NEW w \in S, NEW k, NEW sv,
         ServerWritten(t, k, sv), IsList(sv.routes),
         \/ w[1] \notin Keys
         \/ /\ LocationIn(Append(t, w), Len(t) + 1) = Len(sv.routes) + 1
            /\ w[1] \in ServerKeys => DepthIn(t, Len(t) + 1) # 1
  PROVE  ServerWritten(Append(t, w), k, sv)
  <1> DEFINE u == Append(t, w)
             n == Len(t)
  <1>1. n \in Nat /\ u[n + 1] = w /\ Len(sv.routes) \in Nat
    BY AppendIs, ListAppend
  <1>2. DepthIn(u, n + 1) = DepthIn(t, n + 1)
    <2>1. n + 1 \in 1 .. n + 1
      BY <1>1
    <2> QED BY <2>1, DepthSteps
  <1>3. ~ (w[1] \in ServerKeys /\ Within(u, k, 0, n + 1))
    BY <1>2 DEF Within, Keys
  <1>4. ASSUME NEW l \in 1 .. Len(sv.routes)
        PROVE  ~ Heads(u, k, l, n + 1) /\ ~ (w[1] \in RouteKeys /\ Within(u, k, l, n + 1))
    <2>1. l # 0 /\ l # Len(sv.routes) + 1
      BY <1>1
    <2> QED BY <1>1, <2>1 DEF Heads, Within, Keys
  <1> QED BY <1>3, <1>4, ServerKept

-----------------------------------------------------------------------------
(***************************************************************************)
(* The steps.                                                              *)
(***************************************************************************)
(* The line w is read after t, and makes u of it.                          *)
Follows(t, u, w) ==
  LET n == Len(t)
      d == DepthIn(t, n + 1)
      b == BlockIn(t, n)
      l == LocationIn(t, n)
  IN  /\ u # <<>> /\ n \in Nat /\ Len(u) = n + 1 /\ d \in Int /\ b \in Nat /\ l \in Nat
      /\ DepthIn(u, n + 1) = d
      /\ DepthIn(u, n + 2) = IF w = Opening THEN d + 1 ELSE IF w = Closing THEN d - 1 ELSE d
      /\ BlockIn(u, n + 1) = IF w = <<"server">> /\ d = 0 THEN b + 1 ELSE b
      /\ BlockIn(u, n + 1) = b =>
           LocationIn(u, n + 1) = IF w[1] = "location" /\ d = 1 THEN l + 1 ELSE l
      /\ BlockIn(u, n + 1) # b => LocationIn(u, n + 1) = 0
      /\ Grows(u)

(* What the last line adds, from the lemmas above.                         *)
LEMMA LastLine ==
  ASSUME NEW S, NEW t \in Seq(S), NEW w \in S, Grows(t)
  PROVE  Follows(t, Append(t, w), w)
  <1> DEFINE n == Len(t)
             u == Append(t, w)
             d == DepthIn(t, n + 1)
             b == BlockIn(t, n)
             l == LocationIn(t, n)
  <1>1. n \in Nat /\ Len(u) = n + 1 /\ u # <<>>
    BY AppendIs
  <1>2. Grows(u)
    BY GrowsStep
  <1>3. DepthIn(u, n + 1) = d
    <2>1. n + 1 \in 1 .. n + 1
      BY <1>1
    <2> QED BY <2>1, DepthSteps
  <1>4. d \in Int
    BY DepthSteps
  <1>5. DepthIn(u, n + 2) = IF w = Opening THEN d + 1 ELSE IF w = Closing THEN d - 1 ELSE d
    <2>1. DepthIn(u, n + 2) =
            (d + (IF w = Opening THEN 1 ELSE 0)) - (IF w = Closing THEN 1 ELSE 0)
      BY DepthSteps
    <2> DEFINE x == DepthIn(u, n + 2)
    <2>2. ~ (w = Opening /\ w = Closing)
      BY Braces, Zenon
    <2>3. x = (d + (IF w = Opening THEN 1 ELSE 0)) - (IF w = Closing THEN 1 ELSE 0)
      BY <2>1
    <2> HIDE DEF d, u, n, x
    <2>4. x = IF w = Opening THEN d + 1 ELSE IF w = Closing THEN d - 1 ELSE d
      BY <1>4, <2>2, <2>3
    <2> QED BY <2>4 DEF x
  <1>6. b \in Nat /\ BlockIn(u, n + 1) = IF w = <<"server">> /\ d = 0 THEN b + 1 ELSE b
    <2>1. b \in Nat /\ BlockIn(u, n + 1) = b + (IF w = <<"server">> /\ d = 0 THEN 1 ELSE 0)
      BY BlockSteps
    <2> HIDE DEF d, u, b, n
    <2> QED BY <2>1
  <1>7. /\ l \in Nat
        /\ BlockIn(u, n + 1) = b =>
             LocationIn(u, n + 1) = IF w[1] = "location" /\ d = 1 THEN l + 1 ELSE l
    <2>1. /\ l \in Nat
          /\ BlockIn(u, n + 1) = b =>
               LocationIn(u, n + 1) = l + (IF w[1] = "location" /\ d = 1 THEN 1 ELSE 0)
      BY LocationSteps
    <2> HIDE DEF d, u, b, l, n
    <2> QED BY <2>1
  <1>8. ASSUME BlockIn(u, n + 1) # b PROVE LocationIn(u, n + 1) = 0
    <2>1. BlockIn(u, n + 1) = b + 1 /\ d = 0
      BY <1>6, <1>8
    <2>2. \A j \in 1 .. n : BlockIn(u, j) = BlockIn(t, j) /\ BlockIn(t, j) \in Nat
      BY BlockSteps, Integers
    <2>3. \A j \in 1 .. n : BlockIn(u, j) # BlockIn(u, n + 1)
      BY <1>6, <2>1, <2>2 DEF Grows
    <2> HIDE DEF n, u, b, d
    <2>4. {j \in 1 .. n + 1 : /\ u[j][1] = "location" /\ DepthIn(u, j) = 1
                              /\ BlockIn(u, j) = BlockIn(u, n + 1)} = {}
      <3>1. \A j \in 1 .. n + 1 : j # n + 1 => j \in 1 .. n
        BY <1>1
      <3> QED BY <1>1, <1>3, <2>1, <2>3, <3>1
    <2>5. Cardinality({}) = 0
      BY FS_EmptySet
    <2> QED BY <2>4, <2>5, Zenon DEF LocationIn
  <1> HIDE DEF u
  <1>9. Follows(t, u, w)
    BY <1>1, <1>2, <1>3, <1>4, <1>5, <1>6, <1>7, <1>8, Zenon DEF Follows
  <1> QED BY <1>9 DEF u

(* A line is read: what is left to show of the types.                      *)
LEMMA TypesStep ==
  ASSUME Types, NEW w \in Lines, text' = Append(text, w), form' = form,
         IsList(servers_'), IsList(srv'.routes), DOMAIN srv' = ServerFields,
         DOMAIN route' = RouteFields
  PROVE  Types'
  <1>1. Lines' = Lines
    BY DEF Lines
  <1>2. text' \in Seq(Lines)
    BY LastLine DEF Types
  <1> QED BY <1>1, <1>2 DEF Types

(* No line is read.                                                        *)
LEMMA QuietStep ==
  ASSUME ParseInv, UNCHANGED <<form, text, servers_, srv, route>>,
         \/ at' = at \/ (at \in Outside /\ at' \in Outside) \/ at' \notin Outside \cup Inside
  PROVE  ParseInv'
  <1>1. Types'
    BY DEF ParseInv, Types, Lines
  <1>2. Read'
    BY DEF ParseInv, Read
  <1>3. Between'
    BY DEF ParseInv, Between, Outside, Inside
  <1>4. Opened'
    BY DEF ParseInv, Opened, Outside, Inside
  <1> QED BY <1>1, <1>2, <1>3, <1>4 DEF ParseInv

(* Nothing is asked of the states after an error.                          *)
LEMMA FailedStep ==
  ASSUME at' \notin Outside \cup Inside, Types'
  PROVE  ParseInv'
  BY DEF ParseInv, Read, Between, Opened, Outside, Inside

(* Config::parse reads the line of a server block.                         *)
LEMMA ServerLineStep ==
  ASSUME ParseInv, ServerLine
  PROVE  ParseInv'
  <1> USE DEF ParseInv
  <1>1. PICK w \in Lines \ {<<>>} :
          /\ Reading("parse", w)
          /\ at' = IF w = <<"server">> THEN "open_server" ELSE "error"
          /\ srv' = ServerConfig /\ UNCHANGED <<servers_, route>>
    BY DEF ServerLine
  <1>2. at = "parse" /\ text' = Append(text, w) /\ form' = form
    BY <1>1 DEF Reading
  <1>3. /\ text \in Seq(Lines) /\ Grows(text) /\ Complete(text, servers_) /\ IsList(servers_)
        /\ DepthIn(text, Len(text) + 1) = 0 /\ BlockIn(text, Len(text)) = Len(servers_)
    BY <1>2 DEF Types, Read, Between, Outside
  <1>4. IsList(ServerConfig.routes) /\ Len(ServerConfig.routes) = 0
    BY DEF IsList, ServerConfig
  <1>5. Types'
    BY <1>1, <1>2, <1>4, TypesStep DEF Types, ServerFields
  <1>6. CASE w # <<"server">>
    <2>1. at' = "error"
      BY <1>1, <1>6
    <2> QED BY <1>5, <2>1, FailedStep DEF Outside, Inside
  <1>7. CASE w = <<"server">>
    <2>1. Follows(text, text', w)
      BY <1>2, <1>3, LastLine, Zenon
    <2>2. /\ Len(text) \in Nat /\ Len(text') = Len(text) + 1
          /\ DepthIn(text', Len(text) + 2) = 0
          /\ BlockIn(text', Len(text) + 1) = Len(servers_) + 1
          /\ LocationIn(text', Len(text) + 1) = 0
          /\ Grows(text')
      <3>1. w # Opening /\ w # Closing /\ w = <<"server">>
        BY <1>7, Braces
      <3> QED BY <1>3, <2>1, <3>1 DEF Follows
    <2>3. ServerWritten(text', Len(servers_) + 1, ServerConfig)
      BY <1>2, <1>3, <1>7, ServerOpens
    <2>4. Complete(text', servers_)
      BY <1>2, <1>3, <2>2, CompleteKept
    <2>5. at' = "open_server" /\ srv' = ServerConfig /\ servers_' = servers_
      BY <1>1, <1>7
    <2>6. Read'
      BY <2>2, <2>4, <2>5 DEF Read
    <2>7. Between'
      BY <2>5 DEF Between, Outside
    <2>8. Opened'
      <3>1. Len(text') + 1 = Len(text) + 2
        BY <2>2
      <3> QED BY <1>4, <2>2, <2>3, <2>5, <3>1 DEF Opened
    <2> QED BY <1>5, <2>6, <2>7, <2>8
  <1> QED BY <1>6, <1>7

(* What a line of an open block starts from.                               *)
LEMMA OpenLine ==
  ASSUME ParseInv, at \in Inside, NEW w \in Lines, text' = Append(text, w),
         w # <<"server">> \/ at \in {"server", "open_location", "location"}
  PROVE  /\ Follows(text, text', w) /\ Complete(text', servers_)
         /\ Len(text) + 1 = Len(text') /\ Len(text) + 2 = Len(text') + 1
         /\ BlockIn(text', Len(text')) = Len(servers_) + 1
  <1>1. /\ text \in Seq(Lines) /\ Grows(text) /\ Complete(text, servers_) /\ IsList(servers_)
        /\ BlockIn(text, Len(text)) = Len(servers_) + 1
    BY DEF ParseInv, Types, Read, Opened
  <1>2. Follows(text, text', w)
    BY <1>1, LastLine, Zenon
  <1>3. DepthIn(text, Len(text) + 1) # 0 \/ w # <<"server">>
    <2>1. at \in {"server", "open_location", "location"} => DepthIn(text, Len(text) + 1) # 0
      BY DEF ParseInv, Opened, Inside
    <2> QED BY <2>1
  <1>4. /\ BlockIn(text', Len(text) + 1) = Len(servers_) + 1
        /\ Len(text) + 1 = Len(text') /\ Len(text) + 2 = Len(text') + 1
    <2>1. /\ Len(text) \in Nat /\ Len(text') = Len(text) + 1
          /\ BlockIn(text', Len(text) + 1) = BlockIn(text, Len(text))
      BY <1>2, <1>3 DEF Follows
    <2>2. Len(text) + 2 = Len(text') + 1
      BY <2>1
    <2> QED BY <1>1, <2>1, <2>2
  <1>5. Complete(text', servers_)
    BY <1>1, <1>4, CompleteKept
  <1> QED BY <1>2, <1>4, <1>5

(* expect_open_brace.                                                      *)
LEMMA OpenBraceStep ==
  ASSUME ParseInv, OpenBrace
  PROVE  ParseInv'
  <1>1. PICK w \in Lines \ {<<>>}, block \in {"server", "location"} :
          /\ Reading(Before(block), w)
          /\ at' = IF w = Opening THEN block ELSE "error"
          /\ UNCHANGED <<servers_, srv, route>>
    BY DEF OpenBrace
  <1>2. /\ at = IF block = "server" THEN "open_server" ELSE "open_location"
        /\ text' = Append(text, w) /\ form' = form
    BY <1>1 DEF Reading, Before
  <1>3. Types'
    BY <1>1, <1>2, TypesStep DEF ParseInv, Types
  <1>4. CASE w # Opening
    <2>1. at' = "error"
      BY <1>1, <1>4
    <2> QED BY <1>3, <2>1, FailedStep DEF Outside, Inside
  <1>5. CASE w = Opening
    <2>1. /\ at \in Inside /\ w # <<"server">> /\ w # Closing /\ w[1] # "location"
          /\ w[1] \notin Keys
      BY <1>2, <1>5, Braces DEF Inside, Keys
    <2>2. /\ Follows(text, text', w) /\ Complete(text', servers_)
          /\ Len(text) + 1 = Len(text') /\ Len(text) + 2 = Len(text') + 1
          /\ BlockIn(text', Len(text')) = Len(servers_) + 1
      BY <1>2, <2>1, OpenLine
    <2>3. /\ text \in Seq(Lines) /\ IsList(srv.routes)
          /\ ServerWritten(text, Len(servers_) + 1, srv)
      BY <2>1 DEF ParseInv, Types, Opened
    <2>5. ServerWritten(text', Len(servers_) + 1, srv)
      BY <1>2, <2>1, <2>3, OpenKept
    <2>6. at' = block /\ UNCHANGED <<servers_, srv, route>>
      BY <1>1, <1>5
    <2>7. Read'
      BY <2>2, <2>6 DEF Read, Follows
    <2>8. Between'
      BY <2>6 DEF Between, Outside
    <2>9. LocationIn(text', Len(text')) = LocationIn(text, Len(text))
      BY <2>1, <2>2 DEF Follows, ParseInv, Opened
    <2>10. DepthIn(text', Len(text') + 1) = DepthIn(text, Len(text) + 1) + 1
      BY <1>5, <2>2 DEF Follows
    <2>11. Opened'
      <3>1. CASE block = "server"
        <4>1. at = "open_server"
          BY <1>2, <3>1
        <4>2. DepthIn(text, Len(text) + 1) = 0 /\ LocationIn(text, Len(text)) = Len(srv.routes)
          BY <4>1 DEF ParseInv, Opened, Inside
        <4> QED BY <2>2, <2>5, <2>6, <2>9, <2>10, <3>1, <4>2 DEF Opened
      <3>2. CASE block = "location"
        <4>1. at = "open_location"
          BY <1>2, <3>2
        <4>2. /\ DepthIn(text, Len(text) + 1) = 1
              /\ LocationIn(text, Len(text)) = Len(srv.routes) + 1
              /\ RouteWritten(text, Len(servers_) + 1, Len(srv.routes) + 1, route)
          BY <4>1 DEF ParseInv, Opened, Inside
        <4>3. text'[Len(text) + 1] = w
          BY <1>2, <2>3, AppendIs
        <4>4. RouteWritten(text', Len(servers_) + 1, Len(srv.routes) + 1, route)
          BY <1>2, <2>1, <2>3, <4>2, <4>3, RouteKept DEF Heads, Keys
        <4> QED BY <2>2, <2>5, <2>6, <2>9, <2>10, <3>2, <4>2, <4>4 DEF Opened
      <3> QED BY <3>1, <3>2
    <2> QED BY <1>3, <2>7, <2>8, <2>11 DEF ParseInv
  <1> QED BY <1>4, <1>5

(* A server block is closed and kept.                                      *)
LEMMA CloseServerStep ==
  ASSUME ParseInv, CloseServer
  PROVE  ParseInv'
  <1> DEFINE w == Closing
  <1>1. /\ at = "server" /\ at' = "parse" /\ w \in Lines /\ text' = Append(text, w) /\ form' = form
        /\ servers_' = Append(servers_, srv) /\ UNCHANGED <<srv, route>>
    BY DEF CloseServer, Reading
  <1>2. /\ w # <<"server">> /\ w[1] \notin Keys
        /\ w # Opening /\ w = Closing /\ w[1] # "location"
    BY Braces DEF Keys
  <1>3. /\ text \in Seq(Lines) /\ IsList(srv.routes) /\ IsList(servers_)
        /\ ServerWritten(text, Len(servers_) + 1, srv)
        /\ DepthIn(text, Len(text) + 1) = 1 /\ LocationIn(text, Len(text)) = Len(srv.routes)
    BY <1>1 DEF ParseInv, Types, Opened, Inside
  <1>4. IsList(servers_') /\ Len(servers_') = Len(servers_) + 1
    BY <1>1, <1>3, ListAppend
  <1> HIDE DEF w
  <1>5. Types'
    BY <1>1, <1>4, TypesStep DEF ParseInv, Types
  <1>6. /\ Follows(text, text', w) /\ Complete(text', servers_)
        /\ Len(text) + 1 = Len(text') /\ Len(text) + 2 = Len(text') + 1
        /\ BlockIn(text', Len(text')) = Len(servers_) + 1
    BY <1>1, OpenLine DEF Inside
  <1>8. ServerWritten(text', Len(servers_) + 1, srv)
    BY <1>1, <1>2, <1>3, OpenKept
  <1>9. /\ LocationIn(text', Len(text')) = LocationIn(text, Len(text))
        /\ text' # <<>>
    BY <1>1, <1>2, <1>6 DEF Follows, ParseInv, Opened, Inside
  <1>10. text' \in Seq(Lines)
    <2>1. Lines' = Lines
      BY <1>1 DEF Lines
    <2> QED BY <1>5, <2>1 DEF Types
  <1>11. Complete(text', servers_')
    BY <1>1, <1>3, <1>6, <1>8, <1>9, <1>10, CompleteCloses
  <1>12. Read'
    BY <1>6, <1>11 DEF Read, Follows
  <1>13. DepthIn(text', Len(text') + 1) = 0
    <2>1. DepthIn(text', Len(text) + 2) = DepthIn(text, Len(text) + 1) - 1
      BY <1>2, <1>6 DEF Follows
    <2> QED BY <1>3, <1>6, <2>1
  <1>14. Between'
    BY <1>4, <1>6, <1>13 DEF Between
  <1>15. Opened'
    BY <1>1 DEF Opened, Inside
  <1> QED BY <1>5, <1>12, <1>14, <1>15 DEF ParseInv

(* A location starts from the defaults of RouteConfig.                     *)
LEMMA LocationLineStep ==
  ASSUME ParseInv, LocationLine
  PROVE  ParseInv'
  <1>1. PICK w \in Lines :
          /\ w # <<>> /\ w[1] = "location" /\ Reading("server", w)
          /\ IF Len(w) # 2 THEN at' = "error" /\ UNCHANGED route
             ELSE at' = "open_location" /\ route' = RouteConfig(w[2])
          /\ UNCHANGED <<servers_, srv>>
    BY DEF LocationLine
  <1>2. at = "server" /\ text' = Append(text, w) /\ form' = form
    BY <1>1 DEF Reading
  <1>3. DOMAIN RouteConfig(w[2]) = RouteFields
    BY DEF RouteConfig, RouteFields
  <1>4. Types'
    BY <1>1, <1>2, <1>3, TypesStep DEF ParseInv, Types
  <1>5. CASE Len(w) # 2
    <2>1. at' = "error"
      BY <1>1, <1>5
    <2> QED BY <1>4, <2>1, FailedStep DEF Outside, Inside
  <1>6. CASE Len(w) = 2
    <2>1. /\ at' = "open_location" /\ route' = RouteConfig(w[2])
          /\ servers_' = servers_ /\ srv' = srv
      BY <1>1, <1>6
    <2>2. /\ text \in Seq(Lines) /\ Grows(text) /\ IsList(srv.routes)
          /\ ServerWritten(text, Len(servers_) + 1, srv)
          /\ BlockIn(text, Len(text)) = Len(servers_) + 1
          /\ DepthIn(text, Len(text) + 1) = 1 /\ LocationIn(text, Len(text)) = Len(srv.routes)
      BY <1>2 DEF ParseInv, Types, Read, Opened, Inside
    <2>3. w # <<"server">> /\ w # Opening /\ w # Closing
      <3>1. w # <<"server">>
        BY <1>1
      <3>2. w # Opening /\ w # Closing
        BY <1>1, Braces DEF Keys
      <3> QED BY <3>1, <3>2
    <2>4. /\ Follows(text, text', w) /\ Complete(text', servers_)
          /\ Len(text) + 1 = Len(text') /\ Len(text) + 2 = Len(text') + 1
          /\ BlockIn(text', Len(text')) = Len(servers_) + 1
      BY <1>2, OpenLine DEF Inside
    <2>5. /\ DepthIn(text', Len(text') + 1) = 1 /\ Grows(text')
          /\ LocationIn(text', Len(text')) = Len(srv.routes) + 1
      BY <1>1, <2>2, <2>3, <2>4 DEF Follows
    <2>6. ServerWritten(text', Len(servers_) + 1, srv)
      <3>1. w[1] \notin ServerKeys
        BY <1>1 DEF ServerKeys
      <3> QED BY <1>2, <2>2, <2>4, <2>5, <3>1, OpenKept
    <2>7. RouteWritten(text', Len(servers_) + 1, Len(srv.routes) + 1, RouteConfig(w[2]))
      BY <1>1, <1>2, <2>2, RouteOpens
    <2>8. Read'
      BY <2>1, <2>4, <2>5 DEF Read
    <2>9. Between'
      BY <2>1 DEF Between, Outside
    <2>10. Opened'
      BY <2>1, <2>4, <2>5, <2>6, <2>7 DEF Opened
    <2> QED BY <1>4, <2>8, <2>9, <2>10 DEF ParseInv
  <1> QED BY <1>5, <1>6

(* parse_directive.                                                        *)
LEMMA ServerDirectiveStep ==
  ASSUME ParseInv, ServerDirective
  PROVE  ParseInv'
  <1>1. PICK w \in Lines :
          /\ w # <<>> /\ w # Closing /\ w[1] # "location" /\ Reading("server", w)
          /\ IF IsWrong(parse_directive(srv, w)) THEN at' = "error" /\ UNCHANGED srv
             ELSE srv' = parse_directive(srv, w) /\ UNCHANGED at
          /\ UNCHANGED <<servers_, route>>
    BY DEF ServerDirective
  <1>2. at = "server" /\ text' = Append(text, w) /\ form' = form
    BY <1>1 DEF Reading
  <1>3. CASE IsWrong(parse_directive(srv, w))
    <2>1. at' = "error" /\ srv' = srv
      BY <1>1, <1>3
    <2>2. Types'
      BY <1>1, <1>2, <2>1, TypesStep DEF ParseInv, Types
    <2> QED BY <2>1, <2>2, FailedStep DEF Outside, Inside
  <1>4. CASE ~ IsWrong(parse_directive(srv, w))
    <2>1. /\ at' = "server" /\ srv' = parse_directive(srv, w)
          /\ servers_' = servers_ /\ route' = route
      BY <1>1, <1>2, <1>4
    <2>2. /\ text \in Seq(Lines) /\ Grows(text) /\ IsList(srv.routes)
          /\ DOMAIN srv = ServerFields
          /\ ServerWritten(text, Len(servers_) + 1, srv)
          /\ BlockIn(text, Len(text)) = Len(servers_) + 1
          /\ DepthIn(text, Len(text) + 1) = 1 /\ LocationIn(text, Len(text)) = Len(srv.routes)
      BY <1>2 DEF ParseInv, Types, Read, Opened, Inside
    <2>3. /\ Follows(text, text', w) /\ Complete(text', servers_)
          /\ Len(text) + 1 = Len(text') /\ Len(text) + 2 = Len(text') + 1
          /\ BlockIn(text', Len(text')) = Len(servers_) + 1
      BY <1>2, OpenLine DEF Inside
    <2>4. /\ DepthIn(text', Len(text') + 1) =
               IF w = Opening THEN 2 ELSE IF w = Closing THEN 0 ELSE 1
          /\ DepthIn(text', Len(text')) = 1 /\ Grows(text')
          /\ LocationIn(text', Len(text')) = Len(srv.routes)
      BY <1>1, <2>2, <2>3 DEF Follows
    <2>5. Within(text', Len(servers_) + 1, 0, Len(text) + 1)
      BY <2>3, <2>4 DEF Within
    <2>6. /\ ServerWritten(text', Len(servers_) + 1, srv') /\ DOMAIN srv' = ServerFields
          /\ srv'.routes = srv.routes /\ w[1] \in ServerKeys
      <3>1. w \in Seq(STRING)
        BY FormsAssumption DEF ParseInv, Types, Lines
      <3> QED BY <1>1, <1>2, <1>4, <2>1, <2>2, <2>5, <3>1, ServerSets
    <2>7. w # Opening /\ w # Closing
      BY <1>1, <2>6, Braces DEF Keys
    <2>8. Types'
      BY <1>1, <1>2, <2>1, <2>2, <2>6, TypesStep DEF ParseInv, Types
    <2>9. Read'
      BY <2>1, <2>3, <2>4 DEF Read
    <2>10. Between'
      BY <2>1 DEF Between, Outside
    <2>11. DepthIn(text', Len(text') + 1) = 1
      BY <2>4, <2>7
    <2>12. Opened'
      BY <2>1, <2>3, <2>4, <2>6, <2>11 DEF Opened
    <2> QED BY <2>8, <2>9, <2>10, <2>12 DEF ParseInv
  <1> QED BY <1>3, <1>4

(* parse_route_directive.                                                  *)
LEMMA RouteDirectiveStep ==
  ASSUME ParseInv, RouteDirective
  PROVE  ParseInv'
  <1>1. PICK w \in Lines :
          /\ w # <<>> /\ w # Closing /\ Reading("location", w)
          /\ IF IsWrong(parse_route_directive(route, w)) THEN at' = "error" /\ UNCHANGED route
             ELSE route' = parse_route_directive(route, w) /\ UNCHANGED at
          /\ UNCHANGED <<servers_, srv>>
    BY DEF RouteDirective
  <1>2. at = "location" /\ text' = Append(text, w) /\ form' = form
    BY <1>1 DEF Reading
  <1>3. CASE IsWrong(parse_route_directive(route, w))
    <2>1. at' = "error" /\ route' = route
      BY <1>1, <1>3
    <2>2. Types'
      BY <1>1, <1>2, <2>1, TypesStep DEF ParseInv, Types
    <2> QED BY <2>1, <2>2, FailedStep DEF Outside, Inside
  <1>4. CASE ~ IsWrong(parse_route_directive(route, w))
    <2> DEFINE k == Len(servers_) + 1
               l == Len(srv.routes) + 1
    <2>1. /\ at' = "location" /\ route' = parse_route_directive(route, w)
          /\ servers_' = servers_ /\ srv' = srv
      BY <1>1, <1>2, <1>4
    <2>2. /\ text \in Seq(Lines) /\ Grows(text) /\ IsList(srv.routes)
          /\ DOMAIN route = RouteFields
          /\ ServerWritten(text, k, srv) /\ RouteWritten(text, k, l, route)
          /\ BlockIn(text, Len(text)) = k
          /\ DepthIn(text, Len(text) + 1) = 2 /\ LocationIn(text, Len(text)) = l
      BY <1>2 DEF ParseInv, Types, Read, Opened, Inside
    <2>3. /\ Follows(text, text', w) /\ Complete(text', servers_)
          /\ Len(text) + 1 = Len(text') /\ Len(text) + 2 = Len(text') + 1
          /\ BlockIn(text', Len(text')) = k
      BY <1>2, OpenLine DEF Inside
    <2>4. l # 0
      BY <2>2, ListAppend
    <2> HIDE DEF k, l
    <2>5. /\ DepthIn(text', Len(text') + 1) =
               IF w = Opening THEN 3 ELSE IF w = Closing THEN 1 ELSE 2
          /\ DepthIn(text', Len(text')) = 2 /\ Grows(text')
          /\ LocationIn(text', Len(text')) = l
      BY <2>2, <2>3 DEF Follows
    <2>6. Within(text', k, l, Len(text) + 1)
      BY <2>3, <2>4, <2>5 DEF Within
    <2>7. /\ RouteWritten(text', k, l, route') /\ DOMAIN route' = RouteFields
          /\ w[1] \in RouteKeys
      BY <1>2, <1>4, <2>1, <2>2, <2>4, <2>6, RouteSets
    <2>8. ServerWritten(text', k, srv)
      BY <1>2, <2>2, <2>3, <2>5, OpenKept DEF l
    <2>9. w # Opening /\ w # Closing
      BY <1>1, <2>7, Braces DEF Keys
    <2>10. Types'
      BY <1>1, <1>2, <2>1, <2>7, TypesStep DEF ParseInv, Types
    <2>11. Read'
      BY <2>1, <2>3, <2>5 DEF Read
    <2>12. Between'
      BY <2>1 DEF Between, Outside
    <2>13. DepthIn(text', Len(text') + 1) = 2
      BY <2>5, <2>9
    <2>14. Opened'
      BY <2>1, <2>3, <2>5, <2>7, <2>8, <2>13 DEF Opened, k, l
    <2> QED BY <2>10, <2>11, <2>12, <2>14 DEF ParseInv
  <1> QED BY <1>3, <1>4

(* A location is closed and added to its server.                           *)
LEMMA CloseLocationStep ==
  ASSUME ParseInv, CloseLocation
  PROVE  ParseInv'
  <1> DEFINE k == Len(servers_) + 1
             n == Len(srv.routes)
  <1>1. /\ at = "location" /\ at' = "server" /\ Closing \in Lines
        /\ text' = Append(text, Closing) /\ form' = form
        /\ srv' = [srv EXCEPT !.routes = Append(@, route)]
        /\ servers_' = servers_ /\ route' = route
    BY DEF CloseLocation, Reading
  <1>2. /\ text \in Seq(Lines) /\ Grows(text) /\ IsList(srv.routes)
        /\ DOMAIN srv = ServerFields
        /\ ServerWritten(text, k, srv) /\ RouteWritten(text, k, n + 1, route)
        /\ BlockIn(text, Len(text)) = k
        /\ DepthIn(text, Len(text) + 1) = 2 /\ LocationIn(text, Len(text)) = n + 1
    BY <1>1 DEF ParseInv, Types, Read, Opened, Inside
  <1>3. /\ Follows(text, text', Closing) /\ Complete(text', servers_)
        /\ Len(text) + 1 = Len(text') /\ Len(text) + 2 = Len(text') + 1
        /\ BlockIn(text', Len(text')) = k
    BY <1>1, OpenLine DEF Inside
  <1>4. /\ DepthIn(text', Len(text') + 1) = 1 /\ DepthIn(text', Len(text')) = 2 /\ Grows(text')
        /\ LocationIn(text', Len(text')) = n + 1
    BY <1>2, <1>3, Braces DEF Follows
  <1>5. ServerWritten(text', k, srv)
    BY <1>1, <1>2, Braces, OpenKept
  <1>6. RouteWritten(text', k, n + 1, route)
    <2>1. ~ Heads(text', k, n + 1, Len(text) + 1)
      BY <1>3, <1>4 DEF Heads
    <2>2. Closing[1] \notin RouteKeys
      BY Braces DEF Keys
    <2> QED BY <1>1, <1>2, <2>1, <2>2, RouteKept
  <1>7. /\ DOMAIN srv' = ServerFields /\ srv'.routes = Append(srv.routes, route)
        /\ srv'.port = srv.port /\ srv'.host = srv.host /\ srv'.has_listen_ = srv.has_listen_
        /\ srv'.server_names = srv.server_names /\ srv'.error_pages = srv.error_pages
        /\ srv'.max = srv.max
    <2>1. {"routes", "port", "host", "has_listen_", "server_names", "error_pages", "max"}
            \subseteq ServerFields
      BY DEF ServerFields, ServerConfig
    <2> QED BY <1>1, <1>2, <2>1
  <1>8. /\ IsList(srv'.routes) /\ n \in Nat /\ Len(srv'.routes) = n + 1
        /\ \A i \in 1 .. n : srv'.routes[i] = srv.routes[i]
        /\ srv'.routes[n + 1] = route
    BY <1>2, <1>7, ListAppend
  <1>9. Types'
    BY <1>1, <1>7, <1>8, TypesStep DEF ParseInv, Types
  <1>10. ServerWritten(text', k, srv')
    <2>1. \A i \in 1 .. n + 1 : RouteWritten(text', k, i, srv'.routes[i])
      <3> SUFFICES ASSUME NEW i \in 1 .. n + 1 PROVE RouteWritten(text', k, i, srv'.routes[i])
        OBVIOUS
      <3>1. CASE i = n + 1
        BY <1>6, <1>8, <3>1
      <3>2. CASE i \in 1 .. n
        BY <1>5, <1>8, <3>2 DEF ServerWritten
      <3> QED BY <1>8, <3>1, <3>2
    <2> HIDE DEF n
    <2> QED BY <1>5, <1>7, <1>8, <2>1 DEF ServerWritten
  <1>11. Read'
    BY <1>1, <1>3, <1>4 DEF Read
  <1>12. Between'
    BY <1>1 DEF Between, Outside
  <1>13. Opened'
    BY <1>1, <1>3, <1>4, <1>8, <1>10 DEF Opened
  <1> QED BY <1>9, <1>11, <1>12, <1>13 DEF ParseInv

(* A line without words.                                                   *)
LEMMA NoWordsStep ==
  ASSUME ParseInv, NoWords
  PROVE  ParseInv'
  <1>1. /\ <<>> \in Lines /\ text' = Append(text, <<>>) /\ form' = form
        /\ at' \in {"error", "undefined"} /\ UNCHANGED <<servers_, srv, route>>
    BY DEF NoWords, Reading
  <1>2. Types'
    BY <1>1, TypesStep DEF ParseInv, Types
  <1> QED BY <1>1, <1>2, FailedStep DEF Outside, Inside

(* Every step keeps what the blocks say.                                   *)
LEMMA ParseStep ==
  ASSUME ParseInv, [Next]_vars
  PROVE  ParseInv'
  <1>1. CASE Open
    BY <1>1, QuietStep DEF Open, Outside, Inside
  <1>2. CASE EndOfFile
    BY <1>2, QuietStep DEF EndOfFile, Outside, Inside
  <1>3. CASE Bind
    <2>1. /\ at = "bind" /\ at' \in {"bind", "not_ok"}
          /\ UNCHANGED <<form, servers_, srv, route, text>>
      BY <1>3 DEF Bind
    <2> QED BY <2>1, QuietStep DEF Outside, Inside
  <1>4. CASE Start
    BY <1>4, QuietStep DEF Start, Outside, Inside
  <1>5. CASE UNCHANGED vars
    BY <1>5, QuietStep DEF vars
  <1> QED BY <1>1, <1>2, <1>3, <1>4, <1>5, NoWordsStep, ServerLineStep, OpenBraceStep,
             CloseServerStep, LocationLineStep, ServerDirectiveStep, CloseLocationStep,
             RouteDirectiveStep DEF Next

(* The sockets: as many as servers so far, in their order, each port once. *)
BoundOK ==
  /\ IsList(bound) /\ Len(bound) <= Len(servers_)
  /\ \A k \in 1 .. Len(bound) : bound[k] = servers_[k].port
  /\ \A k, m \in 1 .. Len(bound) : bound[k] = bound[m] => k = m
  /\ at \notin {"bind", "serving"} => bound = <<>>
  /\ at = "serving" => Len(bound) = Len(servers_)

(* An empty list.                                                          *)
LEMMA EmptyList == IsList(<<>>) /\ Len(<<>>) = 0
  BY DEF IsList

(* Before the sockets are made.                                            *)
LEMMA NoneBound ==
  ASSUME at \notin {"bind", "serving"}, at' # "serving", BoundOK, UNCHANGED bound,
         Types'
  PROVE  BoundOK'
  <1>1. bound' = <<>>
    BY DEF BoundOK
  <1>2. Len(servers_') \in Nat
    BY ListAppend DEF Types
  <1>3. IsList(bound') /\ Len(bound') = 0
    BY <1>1, EmptyList
  <1> QED BY <1>1, <1>2, <1>3 DEF BoundOK

(* Every step keeps the sockets in order: only Server's constructor binds. *)
LEMMA BoundStep ==
  ASSUME ParseInv, BoundOK, [Next]_vars
  PROVE  BoundOK'
  <1>1. Types'
    BY ParseStep DEF ParseInv
  <1>2. CASE Bind
    <2> DEFINE n == Len(bound)
               p == servers_[n + 1].port
    <2>1. /\ at = "bind" /\ n < Len(servers_) /\ servers_' = servers_
          /\ IF p \in ToSet(bound) THEN at' = "not_ok" /\ bound' = <<>>
             ELSE bound' = Append(bound, p) /\ at' = at
      BY <1>2 DEF Bind
    <2>2. CASE p \in ToSet(bound)
      <3>1. at' = "not_ok" /\ bound' = <<>> /\ IsList(bound') /\ Len(bound') = 0
        BY <2>1, <2>2, EmptyList
      <3>2. Len(servers_') \in Nat
        BY <1>1, ListAppend DEF Types
      <3> QED BY <3>1, <3>2 DEF BoundOK
    <2>3. CASE p \notin ToSet(bound)
      <3>1. at' = "bind" /\ bound' = Append(bound, p)
        BY <2>1, <2>3
      <3>2. IsList(bound) /\ Len(servers_) \in Nat
        BY ListAppend DEF BoundOK, ParseInv, Types
      <3> HIDE DEF p
      <3>3. /\ IsList(bound') /\ n \in Nat /\ Len(bound') = n + 1
            /\ \A i \in 1 .. n : bound'[i] = bound[i]
            /\ bound'[n + 1] = p
        BY <3>1, <3>2, ListAppend
      <3>4. \A i \in 1 .. n : bound[i] # p
        <4>1. DOMAIN bound = 1 .. n
          BY <3>2 DEF IsList
        <4> QED BY <2>3, <4>1 DEF ToSet
      <3>5. /\ \A k \in 1 .. n : bound[k] = servers_[k].port
            /\ \A k, m \in 1 .. n : bound[k] = bound[m] => k = m
        BY DEF BoundOK
      <3>6. p = servers_[n + 1].port
        BY DEF p
      <3> HIDE DEF n
      <3>7. \A k \in 1 .. n + 1 : k = n + 1 \/ k \in 1 .. n
        BY <3>3
      <3>8. \A k \in 1 .. n + 1 : bound'[k] = servers_'[k].port
        BY <2>1, <3>3, <3>5, <3>6, <3>7
      <3>9. \A k, m \in 1 .. n + 1 : bound'[k] = bound'[m] => k = m
        BY <3>3, <3>4, <3>5, <3>7
      <3>10. n + 1 <= Len(servers_')
        BY <2>1, <3>2, <3>3
      <3> QED BY <3>1, <3>3, <3>8, <3>9, <3>10 DEF BoundOK
    <2> QED BY <2>2, <2>3
  <1>3. CASE Start
    <2>1. /\ at = "bind" /\ at' = "serving" /\ Len(bound) = Len(servers_)
          /\ UNCHANGED <<servers_, bound>>
      BY <1>3 DEF Start
    <2> QED BY <2>1 DEF BoundOK
  <1>4. CASE UNCHANGED vars
    BY <1>4 DEF BoundOK, vars
  <1>5. CASE Open
    <2>1. at = "args" /\ at' \in {"parse", "error"} /\ bound' = bound
      BY <1>5 DEF Open
    <2> QED BY <1>1, <2>1, NoneBound
  <1>6. CASE EndOfFile
    <2>1. /\ at \in {"parse", "server", "location", "open_server", "open_location"}
          /\ at' \in {"bind", "error"} /\ bound' = bound
      BY <1>6 DEF EndOfFile
    <2> QED BY <1>1, <2>1, NoneBound
  <1>7. CASE \/ NoWords \/ ServerLine \/ OpenBrace \/ CloseServer \/ LocationLine
             \/ ServerDirective \/ CloseLocation \/ RouteDirective
    <2>1. /\ at \in {"parse", "server", "location", "open_server", "open_location"}
          /\ at' # "serving" /\ bound' = bound
      <3>1. CASE NoWords
        BY <3>1 DEF NoWords, Reading
      <3>2. CASE ServerLine
        BY <3>2 DEF ServerLine, Reading
      <3>3. CASE OpenBrace
        BY <3>3 DEF OpenBrace, Reading, Before
      <3>4. CASE CloseServer
        BY <3>4 DEF CloseServer, Reading
      <3>5. CASE LocationLine
        BY <3>5 DEF LocationLine, Reading
      <3>6. CASE ServerDirective
        BY <3>6 DEF ServerDirective, Reading
      <3>7. CASE CloseLocation
        BY <3>7 DEF CloseLocation, Reading
      <3>8. CASE RouteDirective
        BY <3>8 DEF RouteDirective, Reading
      <3> QED BY <1>7, <3>1, <3>2, <3>3, <3>4, <3>5, <3>6, <3>7, <3>8
    <2> QED BY <1>1, <2>1, NoneBound
  <1> QED BY <1>2, <1>3, <1>4, <1>5, <1>6, <1>7 DEF Next

-----------------------------------------------------------------------------
(***************************************************************************)
(* What this says in the words of Startup.                                 *)
(***************************************************************************)
(* The reader of Startup is the one above, of text.                        *)
LEMMA Reader ==
  /\ \A i : Depth(i) = DepthIn(text, i) /\ Block(i) = BlockIn(text, i)
  /\ \A i : Location(i) = LocationIn(text, i)
  /\ text \in Seq(Lines) => \A k, l, key : Lookup(k, l, key) = LookupIn(text, k, l, key)
  <1>1. \A i : Depth(i) = DepthIn(text, i)
    BY Zenon DEF Depth, Count, DepthIn, CountIn
  <1>2. \A i : Block(i) = BlockIn(text, i)
    BY <1>1, Zenon DEF Block, BlockIn
  <1>3. \A i : Location(i) = LocationIn(text, i)
    BY <1>1, <1>2, Zenon DEF Location, LocationIn
  <1>4. ASSUME text \in Seq(Lines), NEW k, NEW l, NEW key
        PROVE  Lookup(k, l, key) = LookupIn(text, k, l, key)
    <2>1. DOMAIN text = 1 .. Len(text)
      BY <1>4
    <2> QED BY <1>1, <1>2, <1>3, <2>1 DEF Lookup, LookupIn, Within
  <1> QED BY <1>1, <1>2, <1>3, <1>4

(* A location.                                                             *)
LEMMA RouteMeans ==
  ASSUME text \in Seq(Lines), NEW k, NEW l, NEW rt, RouteWritten(text, k, l, rt)
  PROVE  RouteAsWritten(k, l, rt)
  <1>1. \A key : Lookup(k, l, key) = LookupIn(text, k, l, key)
    BY Reader
  <1>2. \A key \in Strings :
          rt[key] = Written(k, l, key, RouteConfig("/")[key], LAMBDA w : w[2])
    BY <1>1, Zenon DEF RouteWritten, Written, None, LineOf
  <1>3. rt.autoindex = Written(k, l, "autoindex", FALSE, LAMBDA w : w[2] = "on")
    BY <1>1, Zenon DEF RouteWritten, Written, None, LineOf
  <1>4. rt.allow_methods = Written(k, l, "allow_methods", <<>>, LAMBDA w : Tail(w))
    BY <1>1, Zenon DEF RouteWritten, Written, None, LineOf
  <1>5. rt.redirect_code = Written(k, l, "return", 0, LAMBDA w : Number[w[2]])
    BY <1>1, Zenon DEF RouteWritten, Written, None, LineOf
  <1>6. rt.has_max = (Lookup(k, l, "client_max_body_size") # {})
    BY <1>1, Zenon DEF RouteWritten, None
  <1>7. rt.redirect_url = Written(k, l, "return", "", LAMBDA w : w[3])
    BY <1>1, Zenon DEF RouteWritten, Written, None, LineOf
  <1>8. rt.max = Written(k, l, "client_max_body_size", 0, LAMBDA w : parse_size(w[2]))
    BY <1>1, Zenon DEF RouteWritten, Written, None, LineOf
  <1> DEFINE Is(w) == \E i \in DOMAIN text :
                        w = text[i] /\ w # <<>> /\ w[1] = "location" /\ Depth(i) = 1
                          /\ Block(i) = k /\ Location(i) = l
  <1>9. rt.path = (CHOOSE w \in Lines : Is(w))[2]
    <2>1. DOMAIN text = 1 .. Len(text)
      OBVIOUS
    <2>2. PICK i \in 1 .. Len(text) :
            /\ Heads(text, k, l, i) /\ rt.path = text[i][2]
            /\ \A j \in 1 .. Len(text) : Heads(text, k, l, j) => j = i
      BY DEF RouteWritten
    <2>3. \A w : Is(w) <=> \E j \in 1 .. Len(text) : w = text[j] /\ Heads(text, k, l, j)
      BY <2>1, Reader, Zenon DEF Heads
    <2> HIDE DEF Is
    <2>4. text[i] \in Lines /\ Is(text[i])
      BY <2>2, <2>3
    <2>5. \A w \in Lines : Is(w) => w = text[i]
      BY <2>2, <2>3
    <2>6. (CHOOSE w \in Lines : Is(w)) = text[i]
      BY <2>4, <2>5
    <2> QED BY <2>2, <2>6
  <1> QED BY <1>2, <1>3, <1>4, <1>5, <1>6, <1>7, <1>8, <1>9 DEF RouteAsWritten

(* A server with its locations.                                            *)
LEMMA ServerMeans ==
  ASSUME text \in Seq(Lines), NEW k, NEW sv, ServerWritten(text, k, sv), IsList(sv.routes),
         Len(sv.routes) = LocationIn(text, LastOf(text, k))
  PROVE  ServerAsWritten(k, sv)
  <1>1. \A key : Lookup(k, 0, key) = LookupIn(text, k, 0, key)
    BY Reader
  <1>2. Cardinality(Lookup(k, 0, "listen")) <= 1
    BY <1>1 DEF ServerWritten
  <1>3. sv.port = Written(k, 0, "listen", 8080, LAMBDA w : Number[PortWord(w[2])])
    <2>1. sv.port = IF None(text, k, 0, "listen") THEN 8080
                    ELSE Number[PortWord(LineOf(text, k, 0, "listen")[2])]
      BY SMT DEF ServerWritten
    <2> QED BY <1>1, <2>1 DEF Written, None, LineOf, PortWord, HostOf
  <1>4. sv.host = Written(k, 0, "listen", "0.0.0.0", LAMBDA w : HostOf(w[2]))
    <2>1. sv.host = IF None(text, k, 0, "listen") THEN "0.0.0.0"
                    ELSE HostOf(LineOf(text, k, 0, "listen")[2])
      BY SMT DEF ServerWritten
    <2> QED BY <1>1, <2>1 DEF Written, None, LineOf, PortWord, HostOf
  <1>5. Len(sv.routes) = Location(Max({i \in DOMAIN text : Block(i) = k}))
    <2>1. DOMAIN text = 1 .. Len(text)
      OBVIOUS
    <2> QED BY <2>1, Reader, Zenon DEF LastOf
  <1>6. \A l \in DOMAIN sv.routes : RouteAsWritten(k, l, sv.routes[l])
    <2>1. DOMAIN sv.routes = 1 .. Len(sv.routes)
      BY DEF IsList
    <2> QED BY <2>1, RouteMeans DEF ServerWritten
  <1>7. sv.has_listen_ = (Lookup(k, 0, "listen") # {})
    <2>1. sv.has_listen_ = ~ None(text, k, 0, "listen")
      BY SMT DEF ServerWritten
    <2> QED BY <1>1, <2>1 DEF None
  <1>8. NamesAsWritten(k, sv.server_names)
    <2>1. NamesWritten(text, k, sv.server_names)
      BY SMT DEF ServerWritten
    <2>2. NamePlaces(k) = PlacesIn(text, k)
      BY <1>1 DEF NamePlaces, PlacesIn
    <2> QED BY <2>1, <2>2, Zenon DEF NamesWritten, NamesAsWritten
  <1>9. PagesAsWritten(k, sv.error_pages)
    <2>1. PagesWritten(text, k, sv.error_pages)
      BY SMT DEF ServerWritten
    <2>2. \A code : PageLines(k, code) = PageLinesIn(text, k, code)
      BY <1>1 DEF PageLines, PageLinesIn
    <2>3. DOMAIN sv.error_pages = {Number[text[i][2]] : i \in Lookup(k, 0, "error_page")}
      BY <1>1, <2>1, Zenon DEF PagesWritten
    <2>4. \A code \in DOMAIN sv.error_pages :
            sv.error_pages[code] = text[Max(PageLines(k, code))][3]
      BY <2>1, <2>2, Zenon DEF PagesWritten
    <2> QED BY <2>3, <2>4, Zenon DEF PagesAsWritten
  <1>10. sv.max = Written(k, 0, "client_max_body_size", ServerConfig.max,
                          LAMBDA w : parse_size(w[2]))
    <2>1. sv.max = IF None(text, k, 0, "client_max_body_size") THEN ServerConfig.max
                   ELSE parse_size(LineOf(text, k, 0, "client_max_body_size")[2])
      BY SMT DEF ServerWritten
    <2>2. Lookup(k, 0, "client_max_body_size") = LookupIn(text, k, 0, "client_max_body_size")
      BY <1>1
    <2> QED BY <2>1, <2>2 DEF Written, None, LineOf
  <1> QED BY <1>2, <1>3, <1>4, <1>5, <1>6, <1>7, <1>8, <1>9, <1>10 DEF ServerAsWritten

(* The file.                                                               *)
LEMMA FileMeans ==
  ASSUME ParseInv
  PROVE  AsWritten
  <1> SUFFICES ASSUME at \in {"bind", "serving", "not_ok"}
               PROVE  /\ Depth(Len(text) + 1) = 0 /\ Len(servers_) = Block(Len(text))
                      /\ \A k \in DOMAIN servers_ : ServerAsWritten(k, servers_[k])
    BY DEF AsWritten
  <1>1. /\ text \in Seq(Lines) /\ Complete(text, servers_)
        /\ DepthIn(text, Len(text) + 1) = 0 /\ BlockIn(text, Len(text)) = Len(servers_)
    BY DEF ParseInv, Types, Read, Between, Outside
  <1>2. Depth(Len(text) + 1) = 0 /\ Len(servers_) = Block(Len(text))
    BY <1>1, Reader
  <1>3. ASSUME NEW k \in DOMAIN servers_ PROVE ServerAsWritten(k, servers_[k])
    <2>1. k \in 1 .. Len(servers_)
      BY DEF ParseInv, Types, IsList
    <2>2. /\ ServerWritten(text, k, servers_[k]) /\ IsList(servers_[k].routes)
          /\ Len(servers_[k].routes) = LocationIn(text, LastOf(text, k))
      BY <1>1, <2>1 DEF Complete
    <2> QED BY <1>1, <2>2, ServerMeans
  <1> QED BY <1>2, <1>3

(* The sockets.                                                            *)
LEMMA SocketsMean ==
  ASSUME ParseInv, BoundOK
  PROVE  OneSocketEach
  <1> SUFFICES ASSUME at = "serving"
               PROVE  /\ Len(bound) = Block(Len(text)) /\ IsInjective(bound)
                      /\ \A k \in DOMAIN bound :
                           bound[k] = Written(k, 0, "listen", 8080,
                                              LAMBDA w : Number[PortWord(w[2])])
    BY DEF OneSocketEach, Written
  <1>1. /\ Len(servers_) = Block(Len(text))
        /\ \A k \in DOMAIN servers_ : ServerAsWritten(k, servers_[k])
    BY FileMeans DEF AsWritten
  <1>2. DOMAIN servers_ = 1 .. Len(servers_) /\ DOMAIN bound = 1 .. Len(bound)
    BY DEF ParseInv, Types, IsList, BoundOK
  <1>3. /\ Len(bound) = Len(servers_)
        /\ \A k \in 1 .. Len(bound) : bound[k] = servers_[k].port
        /\ \A k, m \in 1 .. Len(bound) : bound[k] = bound[m] => k = m
    BY DEF BoundOK
  <1>4. IsInjective(bound)
    BY <1>2, <1>3 DEF IsInjective
  <1>5. ASSUME NEW k \in DOMAIN bound
        PROVE  bound[k] = Written(k, 0, "listen", 8080, LAMBDA w : Number[PortWord(w[2])])
    <2>1. bound[k] = servers_[k].port /\ k \in DOMAIN servers_
      BY <1>2, <1>3
    <2>2. servers_[k].port = Written(k, 0, "listen", 8080, LAMBDA w : Number[PortWord(w[2])])
      <3>1. ServerAsWritten(k, servers_[k])
        BY <1>1, <2>1
      <3> QED BY ONLY <3>1 DEF ServerAsWritten, Written
    <2> QED BY <2>1, <2>2
  <1> QED BY <1>1, <1>3, <1>4, <1>5 DEF Written

-----------------------------------------------------------------------------
(* Nothing is read at the start.                                           *)
LEMMA InitHolds == Init => ParseInv /\ BoundOK
  <1> SUFFICES ASSUME Init PROVE ParseInv /\ BoundOK
    OBVIOUS
  <1>1. /\ form \in DOMAIN Forms /\ at = "args" /\ servers_ = <<>>
        /\ srv = ServerConfig /\ route = RouteConfig("/")
        /\ bound = <<>> /\ text = <<>>
    BY DEF Init
  <1>2. Types
    <2>1. srv.routes = <<>>
      BY <1>1 DEF ServerConfig
    <2> QED BY <1>1, <2>1, EmptyList DEF Types, ServerFields, RouteFields
  <1>3. Len(text) = 0 /\ 1 .. Len(text) = {} /\ 1 .. Len(servers_) = {} /\ Len(servers_) = 0
    BY <1>1
  <1>4. Read
    BY <1>3 DEF Read, Grows, Complete
  <1>5. Between
    <2>1. Cardinality({}) = 0
      BY FS_EmptySet
    <2>2. \A words : CountIn(text, 1, words) = 0
      <3>1. \A words : {j \in 1 .. 1 - 1 : text[j] = words} = {}
        OBVIOUS
      <3> QED BY <2>1, <3>1, Zenon DEF CountIn
    <2>3. DepthIn(text, 1) = 0
      BY <2>2 DEF DepthIn
    <2>4. BlockIn(text, 0) = 0
      <3>1. {j \in 1 .. 0 : text[j] = <<"server">> /\ DepthIn(text, j) = 0} = {}
        OBVIOUS
      <3> QED BY <2>1, <3>1, Zenon DEF BlockIn
    <2> QED BY <1>3, <2>3, <2>4 DEF Between
  <1>6. Opened
    BY <1>1 DEF Opened, Inside
  <1>7. BoundOK
    BY <1>1, <1>3, EmptyList DEF BoundOK
  <1> QED BY <1>2, <1>4, <1>5, <1>6, <1>7 DEF ParseInv

(* Between two lines the blocks that are closed, and the open one as far   *)
(* as it is read, are what the lines between their braces say.             *)
THEOREM ParseInvariant == Spec => [](ParseInv /\ BoundOK)
  <1>1. ParseInv /\ BoundOK /\ [Next]_vars => (ParseInv /\ BoundOK)'
    BY ParseStep, BoundStep
  <1> QED BY InitHolds, <1>1, PTL DEF Spec

(* A file that is accepted was understood as its braces say, whatever the  *)
(* lines are and however many: every field of every server and location is *)
(* what the lines between its braces, and no others, give it, and else the *)
(* default (Config::parse and the directives).                             *)
THEOREM AlwaysAsWritten == Spec => []AsWritten
  <1>1. ParseInv /\ BoundOK => AsWritten
    BY FileMeans
  <1> QED BY ParseInvariant, <1>1, PTL

(* A server that starts has one socket for each block, in the order of the *)
(* file, on the port written there, and no two on one port.                *)
THEOREM AlwaysOneSocketEach == Spec => []OneSocketEach
  <1>1. ParseInv /\ BoundOK => OneSocketEach
    BY SocketsMean
  <1> QED BY ParseInvariant, <1>1, PTL
=============================================================================
