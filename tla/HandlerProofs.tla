---------------------------- MODULE HandlerProofs ----------------------------
(***************************************************************************)
(* Theorems about Handler.  The loops of the source over the characters of *)
(* a target and over the segments of a path are folds; the first part      *)
(* shows that a fold is a run: a function on 0 .. n that starts at the     *)
(* base and makes one step of the loop for every element.  What a loop     *)
(* computes then follows by induction along its run (UpTo).                *)
(***************************************************************************)
EXTENDS Handler, WellFoundedInduction, TLAPS

-----------------------------------------------------------------------------
(***************************************************************************)
(* Induction along 0 .. n, for sets of numbers.                            *)
(***************************************************************************)
(* A set of numbers has a least element.                                   *)
LEMMA LeastNatural ==
  ASSUME NEW T \in SUBSET Nat, T # {}
  PROVE  \E x \in T : \A y \in T : x <= y
  <1> DEFINE R == OpToRel(<, Nat)
  <1>1. IsWellFoundedOn(R, Nat)
    BY NatLessThanWellFounded
  <1> HIDE DEF R
  <1>2. PICK x \in T : \A y \in T : ~ (<<y, x>> \in R)
    BY <1>1, WFMin
  <1>3. \A y \in T : ~ (y < x)
    BY <1>2 DEF R, OpToRel
  <1> QED BY <1>3

(* What holds at 0 and is kept by every step holds up to n.                *)
LEMMA UpTo ==
  ASSUME NEW n \in Nat, NEW T, 0 \in T, \A k \in 1 .. n : k - 1 \in T => k \in T
  PROVE  0 .. n \subseteq T
  <1> SUFFICES ASSUME ~ (0 .. n \subseteq T) PROVE FALSE
    OBVIOUS
  <1>1. (0 .. n) \ T \in SUBSET Nat /\ (0 .. n) \ T # {}
    OBVIOUS
  <1>2. PICK x \in (0 .. n) \ T : \A y \in (0 .. n) \ T : x <= y
    BY <1>1, LeastNatural
  <1>3. x # 0 /\ x \in 1 .. n /\ x - 1 \in 0 .. n
    BY <1>2
  <1>4. x - 1 \in T
    BY <1>2, <1>3
  <1> QED BY <1>2, <1>3, <1>4

-----------------------------------------------------------------------------
(***************************************************************************)
(* FoldLeft peels the greatest index off a set of indices.                 *)
(***************************************************************************)
(* The greatest of a set that reaches its bound.                           *)
LEMMA MaxIs ==
  ASSUME NEW k \in Nat, NEW t \in SUBSET (1 .. k), k \in t
  PROVE  Max(t) = k
  <1>1. \A y \in t : k >= y
    OBVIOUS
  <1>2. Max(t) \in t /\ \A y \in t : Max(t) >= y
    BY <1>1, Zenon DEF Max
  <1>3. Max(t) \in 1 .. k /\ Max(t) >= k
    BY <1>2
  <1> QED BY <1>3

(* Any set of indices has a greatest one.                                  *)
LEMMA MaxIn ==
  ASSUME NEW k \in Nat, NEW t \in SUBSET (1 .. k), t # {}
  PROVE  Max(t) \in t
  <1> DEFINE U == {k - x : x \in t}
  <1>1. U \in SUBSET Nat
    <2>1. \A x \in t : k - x \in Nat
      OBVIOUS
    <2> QED BY <2>1
  <1>2. U # {}
    OBVIOUS
  <1>3. PICK u \in U : \A v \in U : u <= v
    BY <1>1, <1>2, LeastNatural
  <1>4. PICK x \in t : u = k - x
    BY <1>3
  <1>5. \A y \in t : x >= y
    <2> SUFFICES ASSUME NEW y \in t PROVE x >= y
      OBVIOUS
    <2>1. k - x <= k - y
      BY <1>3, <1>4
    <2> QED BY <2>1
  <1> QED BY <1>5 DEF Max

(* The equation that defines a fold of the step function F.                *)
Folds(F, b, s, n, g) ==
  g = [t \in SUBSET (1 .. n) |->
         IF t = {} THEN b ELSE F[<<g[t \ {Max(t)}], s[Max(t)]>>]]

(* It has a solution.                                                      *)
LEMMA FoldExists ==
  ASSUME NEW X, NEW Y, NEW b \in X, NEW F \in [X \X Y -> X], NEW n \in Nat,
         NEW s \in [1 .. n -> Y]
  PROVE  \E g \in [SUBSET (1 .. n) -> X] : Folds(F, b, s, n, g)
  <1> DEFINE T == {k \in 0 .. n : \E g \in [SUBSET (1 .. k) -> X] : Folds(F, b, s, k, g)}
  <1>1. 0 \in T
    <2> DEFINE g == [t \in SUBSET (1 .. 0) |-> b]
    <2>1. \A t \in SUBSET (1 .. 0) : t = {}
      OBVIOUS
    <2>2. g \in [SUBSET (1 .. 0) -> X]
      OBVIOUS
    <2>3. Folds(F, b, s, 0, g)
      BY <2>1 DEF Folds
    <2> QED BY <2>2, <2>3
  <1>2. ASSUME NEW k \in 1 .. n, k - 1 \in T PROVE k \in T
    <2>1. PICK g \in [SUBSET (1 .. (k - 1)) -> X] : Folds(F, b, s, k - 1, g)
      BY <1>2
    <2> DEFINE h == [t \in SUBSET (1 .. k) |-> IF k \in t THEN F[<<g[t \ {k}], s[k]>>] ELSE g[t]]
    <2>2. \A t \in SUBSET (1 .. k) : t \ {k} \in SUBSET (1 .. (k - 1))
      OBVIOUS
    <2>3. \A t \in SUBSET (1 .. k) : k \notin t => t \in SUBSET (1 .. (k - 1))
      OBVIOUS
    <2>4. s[k] \in Y
      OBVIOUS
    <2>5. \A t \in SUBSET (1 .. k) : h[t] \in X
      BY <2>2, <2>3, <2>4
    <2>6. h \in [SUBSET (1 .. k) -> X]
      BY <2>5
    <2>7. ASSUME NEW t \in SUBSET (1 .. k)
          PROVE  h[t] = IF t = {} THEN b ELSE F[<<h[t \ {Max(t)}], s[Max(t)]>>]
      <3>1. CASE k \in t
        <4>1. Max(t) = k
          BY <3>1, MaxIs
        <4>2. h[t \ {k}] = g[t \ {k}]
          OBVIOUS
        <4> QED BY <3>1, <4>1, <4>2
      <3>2. CASE k \notin t
        <4>1. t \in SUBSET (1 .. (k - 1)) /\ h[t] = g[t]
          BY <2>3, <3>2
        <4>2. g[t] = IF t = {} THEN b ELSE F[<<g[t \ {Max(t)}], s[Max(t)]>>]
          BY <2>1, <4>1 DEF Folds
        <4>3. h[t \ {Max(t)}] = g[t \ {Max(t)}]
          BY <3>2
        <4> QED BY <4>1, <4>2, <4>3
      <3> QED BY <3>1, <3>2
    <2>8. Folds(F, b, s, k, h)
      <3>1. h = [t \in SUBSET (1 .. k) |-> h[t]]
        BY <2>6
      <3> HIDE DEF h
      <3>2. h = [t \in SUBSET (1 .. k) |->
                   IF t = {} THEN b ELSE F[<<h[t \ {Max(t)}], s[Max(t)]>>]]
        BY <2>7, <3>1
      <3> QED BY <3>2 DEF Folds
    <2> HIDE DEF h
    <2> QED BY <2>6, <2>8
  <1>3. 0 .. n \subseteq T
    <2> HIDE DEF T
    <2> QED BY <1>1, <1>2, UpTo
  <1>4. n \in T
    <2> HIDE DEF T
    <2> QED BY <1>3
  <1> QED BY <1>4

(* A run of the step function F over s, and its use: g satisfies the       *)
(* equation of a fold as long as its values are states of the loop.        *)
Runs(F, b, s, n, h) ==
  /\ h[0] = b
  /\ \A k \in 1 .. n : h[k] = F[<<h[k - 1], s[k]>>]

FoldsIn(X, F, b, s, n, g) ==
  /\ g[{}] = b
  /\ \A t \in SUBSET (1 .. n) :
       t # {} /\ g[t \ {Max(t)}] \in X => g[t] = F[<<g[t \ {Max(t)}], s[Max(t)]>>]

HasRun(X, F, b, s, n, v) == \E h \in [0 .. n -> X] : Runs(F, b, s, n, h) /\ v = h[n]

LEMMA FoldRuns ==
  ASSUME NEW X, NEW Y, NEW b \in X, NEW F \in [X \X Y -> X], NEW n \in Nat,
         NEW s \in [1 .. n -> Y], NEW g, FoldsIn(X, F, b, s, n, g)
  PROVE  HasRun(X, F, b, s, n, g[1 .. n])
  <1> USE DEF FoldsIn
  <1> DEFINE T == {k \in 0 .. n : g[1 .. k] \in X}
  <1>1. 0 \in T
    <2>1. 1 .. 0 = {}
      OBVIOUS
    <2> QED BY <2>1
  <1>2. ASSUME NEW k \in 1 .. n, g[1 .. (k - 1)] \in X
        PROVE  /\ g[1 .. k] = F[<<g[1 .. (k - 1)], s[k]>>]
               /\ g[1 .. k] \in X
    <2>1. k \in Nat /\ k \in 1 .. k
      OBVIOUS
    <2>a. 1 .. k \in SUBSET (1 .. n)
      OBVIOUS
    <2>2. Max(1 .. k) = k
      BY <2>1, MaxIs
    <2>3. (1 .. k) \ {k} = 1 .. (k - 1)
      OBVIOUS
    <2>4. g[1 .. k] = F[<<g[1 .. (k - 1)], s[k]>>]
      BY <1>2, <2>1, <2>a, <2>2, <2>3
    <2>5. <<g[1 .. (k - 1)], s[k]>> \in X \X Y
      BY <1>2
    <2> QED BY <2>4, <2>5
  <1>3. \A k \in 1 .. n : k - 1 \in T => k \in T
    <2> SUFFICES ASSUME NEW k \in 1 .. n, k - 1 \in T PROVE k \in T
      OBVIOUS
    <2>1. g[1 .. (k - 1)] \in X
      OBVIOUS
    <2>2. g[1 .. k] \in X
      BY <2>1, <1>2
    <2> QED BY <2>2
  <1>4. 0 .. n \subseteq T
    <2> HIDE DEF T
    <2> QED BY <1>1, <1>3, UpTo
  <1>5. \A k \in 0 .. n : g[1 .. k] \in X
    BY <1>4
  <1> DEFINE h == [k \in 0 .. n |-> g[1 .. k]]
  <1>6. h \in [0 .. n -> X]
    BY <1>5
  <1>7. h[0] = b
    <2>1. 1 .. 0 = {}
      OBVIOUS
    <2> QED BY <2>1
  <1>8. \A k \in 1 .. n : h[k] = F[<<h[k - 1], s[k]>>]
    <2> SUFFICES ASSUME NEW k \in 1 .. n PROVE h[k] = F[<<h[k - 1], s[k]>>]
      OBVIOUS
    <2>1. k \in 0 .. n /\ k - 1 \in 0 .. n
      OBVIOUS
    <2>2. h[k] = g[1 .. k] /\ h[k - 1] = g[1 .. (k - 1)]
      BY <2>1
    <2>3. g[1 .. (k - 1)] \in X
      BY <1>5, <2>1
    <2> HIDE DEF h
    <2> QED BY <2>2, <2>3, <1>2
  <1>9. g[1 .. n] = h[n]
    OBVIOUS
  <1> HIDE DEF h
  <1> QED BY <1>6, <1>7, <1>8, <1>9 DEF Runs, HasRun

-----------------------------------------------------------------------------
(***************************************************************************)
(* The kernel's walk.                                                      *)
(***************************************************************************)
WalkStep(at, seg) ==
  CASE seg = DotDot -> IF at = <<>> THEN <<>> ELSE Front(at)
    [] seg \in {Dot, <<>>} -> at
    [] OTHER -> Append(at, seg)

WalkEq(path, g) ==
  g = [t \in SUBSET (DOMAIN path) |->
         IF t = {} THEN <<>> ELSE WalkStep(g[t \ {Max(t)}], path[Max(t)])]

LEMMA WalkUnfolds ==
  ASSUME NEW path
  PROVE  Walk(path) = (CHOOSE g : WalkEq(path, g))[DOMAIN path]
  BY DEF Walk, FoldLeft, MapThenFoldSet, WalkEq, WalkStep

(* The first n elements of a sequence, and all but the last.               *)
LEMMA FirstPart ==
  ASSUME NEW S, NEW s \in Seq(S), NEW n \in Nat, n <= Len(s)
  PROVE  /\ SubSeq(s, 1, n) \in Seq(S)
         /\ Len(SubSeq(s, 1, n)) = n
         /\ \A i \in 1 .. n : SubSeq(s, 1, n)[i] = s[i]
  OBVIOUS

LEMMA FrontIs ==
  ASSUME NEW S, NEW s \in Seq(S), s # <<>>
  PROVE  Front(s) \in Seq(S) /\ Len(Front(s)) = Len(s) - 1
           /\ \A i \in 1 .. (Len(s) - 1) : Front(s)[i] = s[i]
  <1>1. Len(s) - 1 \in Nat /\ Len(s) - 1 <= Len(s)
    OBVIOUS
  <1> QED BY <1>1, FirstPart DEF Front

(* A sequence of one.                                                      *)
LEMMA Singleton ==
  ASSUME NEW S, NEW x \in S
  PROVE  <<x>> \in Seq(S) /\ Len(<<x>>) = 1 /\ <<x>>[1] = x
  OBVIOUS

(* A prefix, element by element.                                           *)
LEMMA PrefixIs ==
  ASSUME NEW S, NEW s \in Seq(S), NEW t \in Seq(S)
  PROVE  IsPrefix(s, t) <=> (Len(s) <= Len(t) /\ \A i \in 1 .. Len(s) : s[i] = t[i])
  <1>1. SubSeq(s, 1, Len(s)) = s
    OBVIOUS
  <1>2. CASE Len(s) <= Len(t)
    <2>1. /\ SubSeq(t, 1, Len(s)) \in Seq(S)
          /\ Len(SubSeq(t, 1, Len(s))) = Len(s)
          /\ \A i \in 1 .. Len(s) : SubSeq(t, 1, Len(s))[i] = t[i]
      BY <1>2, FirstPart
    <2>2. s = SubSeq(t, 1, Len(s)) <=> \A i \in 1 .. Len(s) : s[i] = t[i]
      BY <2>1
    <2> QED BY <1>1, <1>2, <2>2 DEF IsPrefix
  <1>3. CASE ~ (Len(s) <= Len(t))
    BY <1>3 DEF IsPrefix
  <1> QED BY <1>2, <1>3

(* Sequences are equal when their elements are.                            *)
LEMMA SameElements ==
  ASSUME NEW S, NEW s \in Seq(S), NEW t \in Seq(S), Len(s) = Len(t),
         \A i \in 1 .. Len(s) : s[i] = t[i]
  PROVE  s = t
  OBVIOUS

LEMMA WalkRuns ==
  ASSUME NEW S, NEW path \in Seq(S)
  PROVE  \E h \in [0 .. Len(path) -> Seq(S)] :
           /\ h[0] = <<>>
           /\ \A k \in 1 .. Len(path) : h[k] = WalkStep(h[k - 1], path[k])
           /\ Walk(path) = h[Len(path)]
  <1> DEFINE X == Seq(S)
             n == Len(path)
             F == [p \in X \X S |-> WalkStep(p[1], p[2])]
  <1>1. n \in Nat /\ DOMAIN path = 1 .. n /\ path \in [1 .. n -> S] /\ <<>> \in X
    OBVIOUS
  <1>2. \A at \in X, seg \in S : WalkStep(at, seg) \in X
    <2> SUFFICES ASSUME NEW at \in X, NEW seg \in S PROVE WalkStep(at, seg) \in X
      OBVIOUS
    <2>1. at = <<>> \/ Front(at) \in X
      BY FrontIs
    <2>2. Append(at, seg) \in X
      OBVIOUS
    <2> QED BY <2>1, <2>2 DEF WalkStep
  <1>3. F \in [X \X S -> X]
    BY <1>2
  <1>4. \A at \in X, seg \in S : F[<<at, seg>>] = WalkStep(at, seg)
    OBVIOUS
  <1>5. \A t \in SUBSET (1 .. n) : t # {} => path[Max(t)] \in S
    BY <1>1, MaxIn
  <1> HIDE DEF X, n, F
  <1>6. PICK f \in [SUBSET (1 .. n) -> X] : Folds(F, <<>>, path, n, f)
    BY <1>1, <1>3, FoldExists
  <1>7. WalkEq(path, f)
    <2>1. ASSUME NEW t \in SUBSET (1 .. n), t # {}
          PROVE  F[<<f[t \ {Max(t)}], path[Max(t)]>>] = WalkStep(f[t \ {Max(t)}], path[Max(t)])
      <3>1. t \ {Max(t)} \in SUBSET (1 .. n)
        OBVIOUS
      <3>2. f[t \ {Max(t)}] \in X
        BY <3>1
      <3> QED BY <3>2, <2>1, <1>4, <1>5
    <2> QED BY <1>1, <1>6, <2>1 DEF Folds, WalkEq
  <1> DEFINE g == CHOOSE g : WalkEq(path, g)
  <1>8. WalkEq(path, g)
    BY <1>7, Zenon
  <1>9. Walk(path) = g[1 .. n]
    BY <1>1, WalkUnfolds
  <1> HIDE DEF g
  <1>10. g[{}] = <<>>
    BY <1>1, <1>8 DEF WalkEq
  <1>11. \A t \in SUBSET (1 .. n) :
           t # {} => g[t] = WalkStep(g[t \ {Max(t)}], path[Max(t)])
    BY <1>1, <1>8 DEF WalkEq
  <1>12. \A t \in SUBSET (1 .. n) :
           t # {} /\ g[t \ {Max(t)}] \in X => g[t] = F[<<g[t \ {Max(t)}], path[Max(t)]>>]
    BY <1>4, <1>5, <1>11
  <1>13. PICK h \in [0 .. n -> X] : Runs(F, <<>>, path, n, h) /\ g[1 .. n] = h[n]
    <2>1. FoldsIn(X, F, <<>>, path, n, g)
      BY <1>10, <1>12 DEF FoldsIn
    <2>2. HasRun(X, F, <<>>, path, n, g[1 .. n])
      BY <1>1, <1>3, <2>1, FoldRuns
    <2> QED BY <2>2 DEF HasRun
  <1>14. \A k \in 1 .. n : h[k] = WalkStep(h[k - 1], path[k])
    <2> SUFFICES ASSUME NEW k \in 1 .. n PROVE h[k] = WalkStep(h[k - 1], path[k])
      OBVIOUS
    <2>1. h[k] = F[<<h[k - 1], path[k]>>]
      BY <1>13 DEF Runs
    <2>2. k - 1 \in 0 .. n /\ path[k] \in S
      BY <1>1
    <2> QED BY <2>1, <2>2, <1>4
  <1>15. h[0] = <<>>
    BY <1>13 DEF Runs
  <1> QED BY <1>9, <1>13, <1>14, <1>15 DEF X, n

(* Names: what a walk goes down to.                                        *)
Names(C) == Seq(C) \ {<<>>, Dot, DotDot}

LEMMA NameIs ==
  ASSUME NEW s, FileName(s)
  PROVE  s \in Names(Char) /\ \A i \in 1 .. Len(s) : s[i] # "/"
  BY DEF FileName, Names, Dot, DotDot

(* A path of names is walked straight down.                                *)
LEMMA WalkDown ==
  ASSUME NEW C, NEW path \in Seq(Names(C))
  PROVE  Walk(path) = path
  <1> DEFINE S == Names(C)
  <1>0. \A i \in 1 .. Len(path) : path[i] \notin {<<>>, Dot, DotDot}
    BY DEF Names
  <1> HIDE DEF S
  <1>1. PICK h \in [0 .. Len(path) -> Seq(S)] :
           /\ h[0] = <<>>
           /\ \A k \in 1 .. Len(path) : h[k] = WalkStep(h[k - 1], path[k])
           /\ Walk(path) = h[Len(path)]
    BY WalkRuns DEF S
  <1> DEFINE n == Len(path)
             T == {k \in 0 .. n : h[k] = SubSeq(path, 1, k)}
  <1>2. n \in Nat
    OBVIOUS
  <1>3. 0 \in T
    <2>1. SubSeq(path, 1, 0) = <<>>
      OBVIOUS
    <2> QED BY <1>1, <1>2, <2>1
  <1>4. ASSUME NEW k \in 1 .. n, k - 1 \in T PROVE k \in T
    <2>1. h[k - 1] = SubSeq(path, 1, k - 1)
      BY <1>4
    <2>2. h[k] = Append(SubSeq(path, 1, k - 1), path[k])
      <3>1. k \in 1 .. Len(path)
        OBVIOUS
      <3>2. path[k] \notin {<<>>, Dot, DotDot}
        BY <1>0, <3>1
      <3> QED BY <1>1, <2>1, <3>1, <3>2 DEF WalkStep
    <2>3. Append(SubSeq(path, 1, k - 1), path[k]) = SubSeq(path, 1, k)
      OBVIOUS
    <2>4. k \in 0 .. n
      BY <1>2
    <2>5. h[k] = SubSeq(path, 1, k)
      BY <2>2, <2>3
    <2> QED BY <2>4, <2>5, Zenon
  <1>5. 0 .. n \subseteq T
    <2> HIDE DEF T, n
    <2> QED BY <1>2, <1>3, <1>4, UpTo
  <1>6. n \in T
    <2> HIDE DEF T, n
    <2> QED BY <1>2, <1>5
  <1>7. SubSeq(path, 1, n) = path
    OBVIOUS
  <1> QED BY <1>1, <1>6, <1>7

(* A walk that ends with a name ends there.                                *)
LEMMA WalkLast ==
  ASSUME NEW S, NEW path \in Seq(S), path # <<>>, Last(path) \notin {<<>>, Dot, DotDot}
  PROVE  Walk(path) \in Seq(S) /\ Walk(path) # <<>> /\ Last(Walk(path)) = Last(path)
  <1> DEFINE n == Len(path)
  <1>1. PICK h \in [0 .. n -> Seq(S)] :
           /\ h[0] = <<>>
           /\ \A k \in 1 .. n : h[k] = WalkStep(h[k - 1], path[k])
           /\ Walk(path) = h[n]
    BY WalkRuns
  <1>2. n \in 1 .. n /\ n - 1 \in 0 .. n /\ path[n] \in S /\ Last(path) = path[n]
    BY DEF Last
  <1> DEFINE at == h[n - 1]
             a == Append(at, path[n])
  <1>3. at \in Seq(S)
    BY <1>1, <1>2
  <1>4. h[n] = WalkStep(at, path[n])
    BY <1>1, <1>2
  <1>5. h[n] = a
    BY <1>2, <1>4 DEF WalkStep
  <1> HIDE DEF n, at
  <1>6. a \in Seq(S) /\ Len(a) = Len(at) + 1 /\ Len(at) \in Nat /\ a[Len(at) + 1] = path[n]
    BY <1>2, <1>3
  <1> HIDE DEF a
  <1>7. a # <<>> /\ Last(a) = path[n]
    BY <1>6 DEF Last
  <1> QED BY <1>1, <1>2, <1>5, <1>6, <1>7

-----------------------------------------------------------------------------
(***************************************************************************)
(* sanitize_path.                                                          *)
(***************************************************************************)
SanitizeStep(st, ch) ==
  IF ch = "/" THEN [done |-> process_path_segment(st.done, st.seg), seg |-> <<>>]
  ELSE [st EXCEPT !.seg = Append(@, ch)]

SanitizeStart == [done |-> <<>>, seg |-> <<>>]

SanitizeEq(path, g) ==
  g = [t \in SUBSET (DOMAIN path) |->
         IF t = {} THEN SanitizeStart ELSE SanitizeStep(g[t \ {Max(t)}], path[Max(t)])]

SanitizeEnd(path) == (CHOOSE g : SanitizeEq(path, g))[DOMAIN path]

LEMMA SanitizeUnfolds ==
  ASSUME NEW path
  PROVE  sanitize_path(path)
           = process_path_segment(SanitizeEnd(path).done, SanitizeEnd(path).seg)
  BY DEF sanitize_path, FoldLeft, MapThenFoldSet, SanitizeEq, SanitizeStep, SanitizeStart,
         SanitizeEnd

(* The segments that are collected, and the segment that is read.          *)
Clean(C) == Seq(Names(C))
Scan(C) == [done : Clean(C), seg : Seq(C)]

LEMMA CleanIs ==
  ASSUME NEW C, NEW segs \in Clean(C)
  PROVE  segs \in Seq(Seq(C))
  <1>1. Names(C) \subseteq Seq(C)
    BY DEF Names
  <1> DEFINE N == Names(C)
  <1>2. segs \in Seq(N)
    BY DEF Clean
  <1> HIDE DEF N
  <1>3. N \subseteq Seq(C)
    BY <1>1 DEF N
  <1> QED BY <1>2, <1>3

LEMMA SegmentClean ==
  ASSUME NEW C, NEW done \in Clean(C), NEW seg \in Seq(C)
  PROVE  process_path_segment(done, seg) \in Clean(C)
  <1>1. CASE seg = DotDot
    BY <1>1, FrontIs DEF process_path_segment, Clean
  <1>2. CASE seg # DotDot /\ seg \in {Dot, <<>>}
    BY <1>2 DEF process_path_segment
  <1>3. CASE seg \notin {DotDot, Dot, <<>>}
    <2>1. seg \in Names(C)
      BY <1>3 DEF Names
    <2> QED BY <1>3, <2>1 DEF process_path_segment, Clean
  <1> QED BY <1>1, <1>2, <1>3

LEMMA SanitizeRuns ==
  ASSUME NEW C, NEW path \in Seq(C)
  PROVE  \E h \in [0 .. Len(path) -> Scan(C)] :
           /\ h[0] = SanitizeStart
           /\ \A k \in 1 .. Len(path) : h[k] = SanitizeStep(h[k - 1], path[k])
           /\ SanitizeEnd(path) = h[Len(path)]
  <1> DEFINE X == Scan(C)
             n == Len(path)
             F == [p \in X \X C |-> SanitizeStep(p[1], p[2])]
  <1>1. n \in Nat /\ DOMAIN path = 1 .. n /\ path \in [1 .. n -> C]
    OBVIOUS
  <1>a. SanitizeStart \in X
    BY DEF Scan, SanitizeStart, Clean
  <1>2. \A st \in X, ch \in C : SanitizeStep(st, ch) \in X
    <2> SUFFICES ASSUME NEW st \in X, NEW ch \in C PROVE SanitizeStep(st, ch) \in X
      OBVIOUS
    <2>1. st.done \in Clean(C) /\ st.seg \in Seq(C)
      BY DEF Scan
    <2>2. process_path_segment(st.done, st.seg) \in Clean(C)
      BY <2>1, SegmentClean
    <2>3. Append(st.seg, ch) \in Seq(C) /\ <<>> \in Seq(C)
      BY <2>1
    <2>4. \A x \in Seq(C) : [st EXCEPT !.seg = x] \in Scan(C)
      BY DEF Scan
    <2> QED BY <2>1, <2>2, <2>3, <2>4 DEF SanitizeStep, Scan
  <1>3. F \in [X \X C -> X]
    BY <1>2
  <1>4. \A st \in X, ch \in C : F[<<st, ch>>] = SanitizeStep(st, ch)
    OBVIOUS
  <1>5. \A t \in SUBSET (1 .. n) : t # {} => path[Max(t)] \in C
    BY <1>1, MaxIn
  <1> HIDE DEF X, n, F
  <1>6. PICK f \in [SUBSET (1 .. n) -> X] : Folds(F, SanitizeStart, path, n, f)
    BY <1>1, <1>a, <1>3, FoldExists
  <1>7. SanitizeEq(path, f)
    <2>1. ASSUME NEW t \in SUBSET (1 .. n), t # {}
          PROVE  F[<<f[t \ {Max(t)}], path[Max(t)]>>]
                   = SanitizeStep(f[t \ {Max(t)}], path[Max(t)])
      <3>1. t \ {Max(t)} \in SUBSET (1 .. n)
        OBVIOUS
      <3>2. f[t \ {Max(t)}] \in X
        BY <3>1
      <3> QED BY <3>2, <2>1, <1>4, <1>5
    <2> QED BY <1>1, <1>6, <2>1 DEF Folds, SanitizeEq
  <1> DEFINE g == CHOOSE g : SanitizeEq(path, g)
  <1>8. SanitizeEq(path, g)
    BY <1>7, Zenon
  <1>9. SanitizeEnd(path) = g[1 .. n]
    BY <1>1 DEF SanitizeEnd
  <1> HIDE DEF g
  <1>10. g[{}] = SanitizeStart
    BY <1>1, <1>8 DEF SanitizeEq
  <1>11. \A t \in SUBSET (1 .. n) :
           t # {} => g[t] = SanitizeStep(g[t \ {Max(t)}], path[Max(t)])
    BY <1>1, <1>8 DEF SanitizeEq
  <1>12. \A t \in SUBSET (1 .. n) :
           t # {} /\ g[t \ {Max(t)}] \in X => g[t] = F[<<g[t \ {Max(t)}], path[Max(t)]>>]
    BY <1>4, <1>5, <1>11
  <1>13. PICK h \in [0 .. n -> X] : Runs(F, SanitizeStart, path, n, h) /\ g[1 .. n] = h[n]
    <2>1. FoldsIn(X, F, SanitizeStart, path, n, g)
      BY <1>10, <1>12 DEF FoldsIn
    <2>2. HasRun(X, F, SanitizeStart, path, n, g[1 .. n])
      BY <1>1, <1>a, <1>3, <2>1, FoldRuns
    <2> QED BY <2>2 DEF HasRun
  <1>14. \A k \in 1 .. n : h[k] = SanitizeStep(h[k - 1], path[k])
    <2> SUFFICES ASSUME NEW k \in 1 .. n PROVE h[k] = SanitizeStep(h[k - 1], path[k])
      OBVIOUS
    <2>1. h[k] = F[<<h[k - 1], path[k]>>]
      BY <1>13 DEF Runs
    <2>2. k - 1 \in 0 .. n /\ path[k] \in C
      BY <1>1
    <2> QED BY <2>1, <2>2, <1>4
  <1>15. h[0] = SanitizeStart
    BY <1>13 DEF Runs
  <1> QED BY <1>9, <1>13, <1>14, <1>15 DEF X, n

(* However many ".." a path holds, it gives names only.                    *)
LEMMA SanitizedIsClean ==
  ASSUME NEW C, NEW path \in Seq(C)
  PROVE  sanitize_path(path) \in Clean(C)
  <1>1. PICK h \in [0 .. Len(path) -> Scan(C)] : SanitizeEnd(path) = h[Len(path)]
    BY SanitizeRuns
  <1>2. Len(path) \in 0 .. Len(path)
    OBVIOUS
  <1>3. SanitizeEnd(path) \in Scan(C)
    BY <1>1, <1>2
  <1> QED BY <1>3, SanitizeUnfolds, SegmentClean DEF Scan

-----------------------------------------------------------------------------
(***************************************************************************)
(* match_route, on a route table.                                          *)
(***************************************************************************)
MatchStep(table, uri, best, i) ==
  IF /\ Covers(table[i].path, uri)
     /\ Len(table[i].path) > (IF best = 0 THEN 0 ELSE Len(table[best].path))
  THEN i ELSE best

MatchEq(table, uri, g) ==
  g = [t \in SUBSET (DOMAIN table) |->
         IF t = {} THEN 0
         ELSE MatchStep(table, uri, g[t \ {Max(t)}], [i \in DOMAIN table |-> i][Max(t)])]

MatchIn(table, uri) == (CHOOSE g : MatchEq(table, uri, g))[DOMAIN table]

LEMMA MatchUnfolds ==
  ASSUME NEW uri
  PROVE  match_route(uri) = MatchIn(routes, uri)
  BY DEF match_route, FoldLeft, MapThenFoldSet, MatchIn, MatchEq, MatchStep

LEMMA ChosenIs ==
  /\ Chosen = MatchIn(routes, strip_query_string(req.uri))
  /\ Chosen' = MatchIn(routes', strip_query_string(req.uri'))
  <1>1. Chosen = MatchIn(routes, strip_query_string(req.uri))
    BY MatchUnfolds DEF Chosen, peek_uri
  <1>2. Chosen' = MatchIn(routes', strip_query_string(req.uri'))
    BY DEF Chosen, peek_uri, match_route, FoldLeft, MapThenFoldSet, MatchIn, MatchEq, MatchStep
  <1> QED BY <1>1, <1>2

LEMMA MatchRuns ==
  ASSUME NEW table \in Seq(Route), NEW uri
  PROVE  \E h \in [0 .. Len(table) -> 0 .. Len(table)] :
           /\ h[0] = 0
           /\ \A k \in 1 .. Len(table) : h[k] = MatchStep(table, uri, h[k - 1], k)
           /\ MatchIn(table, uri) = h[Len(table)]
  <1> DEFINE n == Len(table)
             X == 0 .. n
             Y == 1 .. n
             s == [i \in DOMAIN table |-> i]
             F == [p \in X \X Y |-> MatchStep(table, uri, p[1], p[2])]
  <1>1. n \in Nat /\ DOMAIN table = 1 .. n /\ s \in [1 .. n -> Y] /\ 0 \in X
    OBVIOUS
  <1>2. \A best \in X, i \in Y : MatchStep(table, uri, best, i) \in X
    BY DEF MatchStep
  <1>3. F \in [X \X Y -> X]
    BY <1>2
  <1>4. \A best \in X, i \in Y : F[<<best, i>>] = MatchStep(table, uri, best, i)
    OBVIOUS
  <1>5. \A t \in SUBSET (1 .. n) : t # {} => s[Max(t)] \in Y
    BY <1>1, MaxIn
  <1>a. \A k \in 1 .. n : s[k] = k
    OBVIOUS
  <1>b. \A g : MatchEq(table, uri, g) <=>
          g = [t \in SUBSET (1 .. n) |->
                 IF t = {} THEN 0 ELSE MatchStep(table, uri, g[t \ {Max(t)}], s[Max(t)])]
    BY <1>1 DEF MatchEq
  <1> HIDE DEF X, n, F, Y, s
  <1>6. PICK f \in [SUBSET (1 .. n) -> X] : Folds(F, 0, s, n, f)
    BY <1>1, <1>3, FoldExists
  <1>7. MatchEq(table, uri, f)
    <2>1. ASSUME NEW t \in SUBSET (1 .. n), t # {}
          PROVE  F[<<f[t \ {Max(t)}], s[Max(t)]>>]
                   = MatchStep(table, uri, f[t \ {Max(t)}], s[Max(t)])
      <3>1. t \ {Max(t)} \in SUBSET (1 .. n)
        OBVIOUS
      <3>2. f[t \ {Max(t)}] \in X
        BY <3>1
      <3> QED BY <3>2, <2>1, <1>4, <1>5
    <2>2. f = [t \in SUBSET (1 .. n) |->
                 IF t = {} THEN 0 ELSE MatchStep(table, uri, f[t \ {Max(t)}], s[Max(t)])]
      BY <1>6, <2>1 DEF Folds
    <2> QED BY <1>b, <2>2
  <1> DEFINE g == CHOOSE g : MatchEq(table, uri, g)
  <1>8. MatchEq(table, uri, g)
    BY <1>7, Zenon
  <1>9. MatchIn(table, uri) = g[1 .. n]
    BY <1>1 DEF MatchIn
  <1> HIDE DEF g
  <1>10. g[{}] = 0
    BY <1>b, <1>8
  <1>11. \A t \in SUBSET (1 .. n) :
           t # {} => g[t] = MatchStep(table, uri, g[t \ {Max(t)}], s[Max(t)])
    BY <1>b, <1>8
  <1>12. \A t \in SUBSET (1 .. n) :
           t # {} /\ g[t \ {Max(t)}] \in X => g[t] = F[<<g[t \ {Max(t)}], s[Max(t)]>>]
    BY <1>4, <1>5, <1>11
  <1>13. PICK h \in [0 .. n -> X] : Runs(F, 0, s, n, h) /\ g[1 .. n] = h[n]
    <2>1. FoldsIn(X, F, 0, s, n, g)
      BY <1>10, <1>12 DEF FoldsIn
    <2>2. HasRun(X, F, 0, s, n, g[1 .. n])
      BY <1>1, <1>3, <2>1, FoldRuns
    <2> QED BY <2>2 DEF HasRun
  <1>14. \A k \in 1 .. n : h[k] = MatchStep(table, uri, h[k - 1], k)
    <2> SUFFICES ASSUME NEW k \in 1 .. n PROVE h[k] = MatchStep(table, uri, h[k - 1], k)
      OBVIOUS
    <2>1. h[k] = F[<<h[k - 1], s[k]>>]
      BY <1>13 DEF Runs
    <2>2. k - 1 \in 0 .. n /\ s[k] \in Y /\ s[k] = k
      BY <1>1, <1>a
    <2> QED BY <2>1, <2>2, <1>4
  <1>15. h[0] = 0
    BY <1>13 DEF Runs
  <1> QED BY <1>9, <1>13, <1>14, <1>15 DEF X, n

(* The first of the longest routes among 1 .. k that cover the target.     *)
FirstLongest(table, uri, k, m) ==
  /\ m \in 0 .. k
  /\ m # 0 => Covers(table[m].path, uri)
  /\ \A i \in 1 .. k : Covers(table[i].path, uri) =>
       /\ m # 0
       /\ Len(table[i].path) <= Len(table[m].path)
       /\ Len(table[i].path) = Len(table[m].path) => m <= i

LEMMA MatchIsFirstLongest ==
  ASSUME NEW table \in Seq(Route), NEW uri, \A i \in 1 .. Len(table) : table[i].path # <<>>
  PROVE  FirstLongest(table, uri, Len(table), MatchIn(table, uri))
  <1>1. PICK h \in [0 .. Len(table) -> 0 .. Len(table)] :
           /\ h[0] = 0
           /\ \A k \in 1 .. Len(table) : h[k] = MatchStep(table, uri, h[k - 1], k)
           /\ MatchIn(table, uri) = h[Len(table)]
    BY MatchRuns
  <1> DEFINE n == Len(table)
             T == {k \in 0 .. n : FirstLongest(table, uri, k, h[k])}
  <1>2. n \in Nat
    OBVIOUS
  <1>3. 0 \in T
    BY <1>1, <1>2 DEF FirstLongest
  <1>4. ASSUME NEW k \in 1 .. n, k - 1 \in T PROVE k \in T
    <2> DEFINE m == h[k - 1]
               L == [i \in 1 .. n |-> Len(table[i].path)]
               Cov == {i \in 1 .. n : Covers(table[i].path, uri)}
    <2>1. FirstLongest(table, uri, k - 1, m) /\ k - 1 \in 0 .. n /\ k \in 0 .. n
      BY <1>2, <1>4
    <2>2. h[k] = MatchStep(table, uri, m, k)
      BY <1>1
    <2>3. \A i \in 1 .. n : L[i] \in Nat \ {0}
      <3> SUFFICES ASSUME NEW i \in 1 .. n PROVE L[i] \in Nat \ {0}
        OBVIOUS
      <3>1. table[i] \in Route /\ table[i].path # <<>>
        OBVIOUS
      <3>2. table[i].path \in Seq(Char)
        BY <3>1 DEF Route
      <3>3. Len(table[i].path) \in Nat \ {0}
        BY <3>1, <3>2
      <3> QED BY <3>3
    <2>4. m \in 0 .. (k - 1) /\ (m # 0 => m \in Cov) /\ k \in 1 .. n
      BY <2>1 DEF FirstLongest
    <2>5. \A i \in 1 .. (k - 1) : i \in Cov => m # 0 /\ L[i] <= L[m] /\ (L[i] = L[m] => m <= i)
      BY <2>1, <2>4 DEF FirstLongest
    <2>6. h[k] = IF k \in Cov /\ L[k] > (IF m = 0 THEN 0 ELSE L[m]) THEN k ELSE m
      BY <2>2, <2>4 DEF MatchStep
    <2>7. /\ h[k] \in 0 .. k
          /\ h[k] # 0 => h[k] \in Cov
          /\ \A i \in 1 .. k : i \in Cov =>
               h[k] # 0 /\ L[i] <= L[h[k]] /\ (L[i] = L[h[k]] => h[k] <= i)
      <3> HIDE DEF m, L, Cov
      <3> QED BY <2>3, <2>4, <2>5, <2>6
    <2>8. FirstLongest(table, uri, k, h[k])
      <3>1. \A i \in 1 .. n : L[i] = Len(table[i].path)
        OBVIOUS
      <3>2. \A i \in 1 .. n : i \in Cov <=> Covers(table[i].path, uri)
        OBVIOUS
      <3>3. h[k] # 0 => h[k] \in 1 .. n
        BY <2>7, <2>4
      <3>4. 1 .. k \subseteq 1 .. n
        BY <2>4
      <3> HIDE DEF L, Cov, m
      <3>5. h[k] # 0 => Covers(table[h[k]].path, uri)
        BY <2>7, <3>2, <3>3
      <3>6. \A i \in 1 .. k : Covers(table[i].path, uri) =>
              /\ h[k] # 0
              /\ Len(table[i].path) <= Len(table[h[k]].path)
              /\ Len(table[i].path) = Len(table[h[k]].path) => h[k] <= i
        BY <2>7, <3>1, <3>2, <3>3, <3>4
      <3> QED BY <2>7, <3>5, <3>6 DEF FirstLongest
    <2> QED BY <2>1, <2>8
  <1>5. 0 .. n \subseteq T
    <2> HIDE DEF T, n
    <2> QED BY <1>2, <1>3, <1>4, UpTo
  <1>6. n \in T
    <2> HIDE DEF T, n
    <2> QED BY <1>2, <1>5
  <1> QED BY <1>1, <1>6

-----------------------------------------------------------------------------
(***************************************************************************)
(* From a target to a file.                                                *)
(***************************************************************************)
(* A piece of a sequence up to its end.                                    *)
LEMMA LastPart ==
  ASSUME NEW S, NEW s \in Seq(S), NEW m \in Nat
  PROVE  SubSeq(s, m + 1, Len(s)) \in Seq(S)
  OBVIOUS

(* The target without its query ends before the first "?".                 *)
LEMMA QueryStripped ==
  ASSUME NEW C, NEW uri \in Seq(C)
  PROVE  \E n \in 0 .. Len(uri) : strip_query_string(uri) = SubSeq(uri, 1, n)
  <1> DEFINE q == {i \in DOMAIN uri : uri[i] = "?"}
  <1>1. CASE q = {}
    <2>1. strip_query_string(uri) = uri
      BY <1>1 DEF strip_query_string
    <2>2. uri = SubSeq(uri, 1, Len(uri)) /\ Len(uri) \in 0 .. Len(uri)
      OBVIOUS
    <2> QED BY <2>1, <2>2
  <1>2. CASE q # {}
    <2>1. q \in SUBSET Nat
      OBVIOUS
    <2> DEFINE x == CHOOSE i \in q : \A j \in q : i <= j
    <2>2. \E i \in q : \A j \in q : i <= j
      <3> HIDE DEF q
      <3> QED BY <1>2, <2>1, LeastNatural
    <2>3. x \in q
      <3> HIDE DEF q
      <3> QED BY <2>2
    <2>4. strip_query_string(uri) = SubSeq(uri, 1, x - 1)
      BY <1>2 DEF strip_query_string
    <2>5. x - 1 \in 0 .. Len(uri)
      <3> HIDE DEF x
      <3> QED BY <2>3
    <2> HIDE DEF x
    <2> QED BY <2>4, <2>5
  <1> QED BY <1>1, <1>2

LEMMA StripTypes ==
  ASSUME NEW uri \in Seq(Char), NEW path \in Seq(Char)
  PROVE  /\ strip_query_string(uri) \in Seq(Char)
         /\ strip_route_prefix(uri, path) \in Seq(Char)
  <1>1. PICK n \in 0 .. Len(uri) : strip_query_string(uri) = SubSeq(uri, 1, n)
    BY QueryStripped
  <1>2. SubSeq(uri, 1, n) \in Seq(Char)
    BY FirstPart
  <1>3. SubSeq(uri, Len(path) + 1, Len(uri)) \in Seq(Char)
    BY LastPart
  <1>4. <<"/">> \o SubSeq(uri, Len(path) + 1, Len(uri)) \in Seq(Char)
    <2>1. <<"/">> \in Seq(Char)
      BY Singleton DEF Char
    <2> QED BY <1>3, <2>1
  <1> QED BY <1>1, <1>2, <1>3, <1>4 DEF strip_route_prefix

LEMMA SegmentsClean ==
  ASSUME NEW uri \in Seq(Char), NEW route \in Route
  PROVE  Segments(uri, route) \in Clean(Char)
  <1>1. route.path \in Seq(Char)
    BY DEF Route
  <1>2. strip_query_string(uri) \in Seq(Char)
    BY <1>1, StripTypes
  <1>3. strip_route_prefix(strip_query_string(uri), route.path) \in Seq(Char)
    BY <1>1, <1>2, StripTypes
  <1> QED BY <1>3, SanitizedIsClean DEF Segments

(* One word is a name.                                                     *)
LEMMA WordName ==
  ASSUME NEW w \in Char, w \notin {"/", "."}
  PROVE  FileName(<<w>>)
  <1>1. <<w>> \in Seq(Char) /\ Len(<<w>>) = 1 /\ <<w>>[1] = w
    BY Singleton
  <1>2. Len(<<".">>) = 1 /\ <<".">>[1] = "." /\ Len(<<".", ".">>) = 2 /\ Len(<<>>) = 0
    OBVIOUS
  <1>3. <<w>> \notin {<<>>, <<".">>, <<".", ".">>}
    BY <1>1, <1>2
  <1>4. \A i \in 1 .. Len(<<w>>) : <<w>>[i] # "/"
    BY <1>1
  <1> QED BY <1>1, <1>3, <1>4 DEF FileName

(* A location whose directories and index are names, where it has them.    *)
Named(route) ==
  /\ route \in Route
  /\ \A dir \in {route.root, route.index, route.upload_store} : dir = <<>> \/ FileName(dir)

LEMMA DirsAreNames ==
  ASSUME NEW route, Named(route)
  PROVE  FileName(root_dir(route)) /\ FileName(index_file(route)) /\ FileName(uploads_dir(route))
  <1>1. FileName(<<"files">>) /\ FileName(<<"index.html">>) /\ FileName(<<"uploads">>)
    BY WordName DEF Char
  <1> QED BY <1>1 DEF Named, root_dir, index_file, uploads_dir

(* The kernel finds a file where its path says, the index file too.        *)
LEMMA FilePathDown ==
  ASSUME NEW uri \in Seq(Char), NEW route, Named(route)
  PROVE  LET path == FilePath(uri, route)
             index == Append(path, index_file(route))
         IN  /\ path \in Clean(Char) /\ path # <<>>
             /\ path[1] = root_dir(route)
             /\ Walk(path) = path
             /\ Walk(index) = index
             /\ IsPrefix(<<root_dir(route)>>, path)
             /\ IsPrefix(<<root_dir(route)>>, index)
  <1> DEFINE N == Names(Char)
             segs == Segments(uri, route)
             root == root_dir(route)
             i == index_file(route)
             path == <<root>> \o segs
             index == Append(path, i)
  <1>1. root \in N /\ i \in N
    BY DirsAreNames, NameIs
  <1>2. segs \in Seq(N)
    BY SegmentsClean DEF Clean, Named
  <1> HIDE DEF N, segs, root, i
  <1>3. path \in Seq(N) /\ path # <<>> /\ path[1] = root /\ Len(path) >= 1
    BY <1>1, <1>2
  <1>4. index \in Seq(N) /\ index[1] = root /\ Len(index) >= 1
    BY <1>1, <1>3
  <1> HIDE DEF path, index
  <1>6. Walk(path) = path
    BY <1>3, WalkDown DEF N
  <1>7. Walk(index) = index
    BY <1>4, WalkDown DEF N
  <1>8. \A s \in Seq(N) : s[1] = root /\ Len(s) >= 1 => IsPrefix(<<root>>, s)
    <2> SUFFICES ASSUME NEW s \in Seq(N), s[1] = root, Len(s) >= 1 PROVE IsPrefix(<<root>>, s)
      OBVIOUS
    <2>1. <<root>> \in Seq(N) /\ Len(<<root>>) = 1 /\ <<root>>[1] = root
      BY <1>1
    <2>2. Len(<<root>>) <= Len(s) /\ \A k \in 1 .. Len(<<root>>) : <<root>>[k] = s[k]
      BY <2>1
    <2> QED BY <2>1, <2>2, PrefixIs
  <1>9. FilePath(uri, route) = path
    BY DEF FilePath, path, root, segs
  <1>10. path \in Clean(Char)
    BY <1>3 DEF Clean, N
  <1> QED BY <1>3, <1>4, <1>6, <1>7, <1>8, <1>9, <1>10 DEF index, i, root

-----------------------------------------------------------------------------
(***************************************************************************)
(* The answers.                                                            *)
(***************************************************************************)
(* A directory that stands where an error page is expected.                *)
PageDir(at) ==
  /\ at \in DOMAIN files /\ files[at].kind = "dir"
  /\ \E status \in DOMAIN ErrorPages : at = Walk(ErrorPages[status])

LEMMA ErrorBy ==
  ASSUME NEW status
  PROVE  /\ Error(status).by \in {"error", "throw"}
         /\ Error(status).by = "throw" => PageDir(Error(status).path)
  <1> DEFINE page == get_error_page(status)
             answer == Response(status, load_error_page(page), "error", <<>>)
  <1>1. Error(status) = IF Opens(page) /\ At(page).kind = "dir" THEN Throw(page) ELSE answer
    BY DEF Error
  <1>2. answer.by = "error" /\ Throw(page).by = "throw" /\ Throw(page).path = Walk(page)
    BY DEF Response, Throw
  <1>3. Opens(page) => status \in DOMAIN ErrorPages /\ page = ErrorPages[status]
    BY DEF Opens, get_error_page
  <1>4. Opens(page) /\ At(page).kind = "dir" => PageDir(Walk(page))
    BY <1>3 DEF PageDir, Opens, Found, At
  <1> HIDE DEF answer, page
  <1>5. CASE Opens(page) /\ At(page).kind = "dir"
    BY <1>1, <1>2, <1>4, <1>5
  <1>6. CASE ~ (Opens(page) /\ At(page).kind = "dir")
    BY <1>1, <1>2, <1>6
  <1> QED BY <1>5, <1>6

LEMMA ServedBy ==
  ASSUME NEW path, NEW ok \in BOOLEAN
  PROVE  LET r == ServeFile(path, ok)
         IN  /\ r.by \in {"error", "file", "throw"}
             /\ r.by = "file" => r.path = Walk(path)
             /\ r.by = "throw" => PageDir(r.path) \/ (r.path = Walk(path) /\ At(path).kind = "dir")
  <1> DEFINE node == At(path)
             failed == Error(500)
             denied == Error(403)
             thrown == Throw(path)
             found == Response(200, node.data, "file", Walk(path))
             Fine(r) == /\ r.by \in {"error", "file", "throw"}
                        /\ r.by = "file" => r.path = Walk(path)
                        /\ r.by = "throw" =>
                             PageDir(r.path) \/ (r.path = Walk(path) /\ node.kind = "dir")
  <1>1. Fine(denied) /\ Fine(failed)
    BY ErrorBy
  <1>2. node.kind = "dir" => Fine(thrown)
    BY DEF Throw, Response
  <1>3. Fine(found)
    BY DEF Response
  <1>4. ServeFile(path, ok) = CASE ~ node.r -> denied
                                [] node.r /\ ~ ok -> failed
                                [] node.r /\ ok -> IF node.kind = "dir" THEN thrown ELSE found
    BY DEF ServeFile
  <1> HIDE DEF failed, denied, thrown, found, Fine
  <1>5. Fine(ServeFile(path, ok))
    <2> HIDE DEF node
    <2>1. CASE ~ node.r
      <3>1. ServeFile(path, ok) = denied
        BY <1>4, <2>1
      <3> QED BY <1>1, <3>1
    <2>2. CASE node.r /\ ~ ok
      <3>1. ServeFile(path, ok) = failed
        BY <1>4, <2>2
      <3> QED BY <1>1, <3>1
    <2>3. CASE node.r /\ ok /\ node.kind = "dir"
      <3>1. ServeFile(path, ok) = thrown
        BY <1>4, <2>3
      <3> QED BY <1>2, <2>3, <3>1
    <2>4. CASE node.r /\ ok /\ node.kind # "dir"
      <3>1. ServeFile(path, ok) = found
        BY <1>4, <2>4
      <3> QED BY <1>3, <3>1
    <2> QED BY <2>1, <2>2, <2>3, <2>4
  <1> QED BY <1>5 DEF Fine

LEMMA ListedBy ==
  ASSUME NEW path, NEW junk \in BOOLEAN
  PROVE  LET r == generate_autoindex(path, junk)
         IN  /\ r.by \in {"error", "throw", "autoindex"}
             /\ r.by = "autoindex" => r.path = Walk(path)
             /\ r.by = "throw" => PageDir(r.path)
  <1>1. CASE ~ At(path).r
    <2>1. generate_autoindex(path, junk) = Error(404)
      BY <1>1 DEF generate_autoindex
    <2> QED BY <2>1, ErrorBy
  <1>2. CASE At(path).r
    BY <1>2 DEF generate_autoindex, Response
  <1> QED BY <1>1, <1>2

(* What handle_get answers with, and about which file.                     *)
GetAnswer(path, index, r) ==
  /\ r.by \in {"error", "file", "throw", "autoindex"}
  /\ r.by \in {"file", "autoindex"} => r.path \in {Walk(path), Walk(index)}
  /\ r.by = "throw" =>
       \/ PageDir(r.path)
       \/ /\ r.path = Walk(index)
          /\ Walk(index) \in DOMAIN files /\ files[Walk(index)].kind = "dir"

LEMMA GotBy ==
  ASSUME NEW uri, NEW route, NEW ok \in BOOLEAN, NEW junk \in BOOLEAN
  PROVE  LET path == FilePath(uri, route)
             r == handle_get(uri, route, ok, junk)
         IN  GetAnswer(path, Append(path, index_file(route)), r)
  <1> DEFINE path == FilePath(uri, route)
             index == Append(path, index_file(route))
  <1>1. handle_get(uri, route, ok, junk) =
          IF ~ Found(path) THEN Error(404)
          ELSE IF At(path).kind # "dir" THEN ServeFile(path, ok)
          ELSE IF Found(index) THEN ServeFile(index, ok)
          ELSE IF route.autoindex THEN generate_autoindex(path, junk)
          ELSE Error(404)
    BY DEF handle_get
  <1> HIDE DEF path, index
  <1>2. GetAnswer(path, index, Error(404))
    BY ErrorBy DEF GetAnswer
  <1>3. At(path).kind # "dir" => GetAnswer(path, index, ServeFile(path, ok))
    BY ServedBy DEF GetAnswer
  <1>4. Found(index) => GetAnswer(path, index, ServeFile(index, ok))
    BY ServedBy DEF GetAnswer, Found, At
  <1>5. GetAnswer(path, index, generate_autoindex(path, junk))
    BY ListedBy DEF GetAnswer
  <1>6. GetAnswer(path, index, handle_get(uri, route, ok, junk))
    BY <1>1, <1>2, <1>3, <1>4, <1>5
  <1> QED BY <1>6 DEF path, index

(* What the other handlers answer with.                                    *)
LEMMA DeletedBy ==
  ASSUME NEW uri, NEW route, NEW ok \in BOOLEAN
  PROVE  LET r == handle_delete(uri, route, ok)
         IN  /\ r.by \in {"error", "throw", "deleted"}
             /\ r.by = "deleted" => r.path = Walk(FilePath(uri, route))
             /\ r.by = "throw" => PageDir(r.path)
  <1> DEFINE done == Response(200, <<"deleted">>, "deleted", Walk(FilePath(uri, route)))
             Fine(r) == /\ r.by \in {"error", "throw", "deleted"}
                        /\ r.by = "deleted" => r.path = Walk(FilePath(uri, route))
                        /\ r.by = "throw" => PageDir(r.path)
  <1>1. Fine(Error(400)) /\ Fine(Error(403)) /\ Fine(Error(404)) /\ Fine(Error(500))
    BY ErrorBy
  <1>2. Fine(done)
    BY DEF Response
  <1>3. handle_delete(uri, route, ok) \in {Error(400), Error(403), Error(404), Error(500), done}
    BY DEF handle_delete
  <1> HIDE DEF done, Fine
  <1>4. Fine(handle_delete(uri, route, ok))
    BY <1>1, <1>2, <1>3
  <1> QED BY <1>4 DEF Fine

LEMMA PostedBy ==
  ASSUME NEW route, NEW p
  PROVE  handle_post(route, p).by \in {"stored", "received"}
  BY DEF handle_post, Response

(* Early runs no script by itself: the gate has taken the request before.  *)
LEMMA EarlyBy ==
  ASSUME NEW i
  PROVE  /\ Early(i).by \in {"error", "throw", "dispatch_cgi", "redirect", "by method"}
         /\ Early(i).by = "by method" => i # 0
         /\ Early(i).by = "throw" => PageDir(Early(i).path)
  <1> DEFINE large == Error(413)
             forked == Response(0, <<>>, "dispatch_cgi", <<>>)
             slash == Redirect(301, Append(peek_uri, "/"))
             none == Error(404)
             moved == Redirect(routes[i].redirect, <<"url">>)
             denied == Error(405)
             blocks == Response(0, <<>>, "CGI::execute", <<>>)
             method == Response(0, <<>>, "by method", <<>>)
             cgi == IsCgi(i, peek_uri)
             Fine(r) == /\ r.by \in {"error", "throw", "dispatch_cgi", "redirect"}
                        /\ r.by = "throw" => PageDir(r.path)
  <1>1. Fine(large) /\ Fine(none) /\ Fine(denied)
    BY ErrorBy
  <1>a. Fine(slash) /\ Fine(moved) /\ Fine(forked) /\ method.by = "by method"
    BY DEF Redirect, Response
  <1>2. cgi /\ Allowed(i) /\ i # 0 => CgiGate(i)
    BY DEF CgiGate
  <1>3. Early(i) = IF TooLarge(i) THEN large
                   ELSE IF CgiGate(i) THEN forked
                   ELSE IF SlashRedirect(i) THEN slash
                   ELSE IF i = 0 THEN none
                   ELSE IF routes[i].redirect # 0 THEN moved
                   ELSE IF ~ Allowed(i) THEN denied
                   ELSE IF cgi THEN blocks ELSE method
    BY DEF Early
  <1> HIDE DEF large, forked, slash, none, moved, denied, blocks, method, cgi, Fine
  <1>4. Early(i) \in {large, forked, slash, none, moved, denied} \/ (i # 0 /\ Early(i) = method)
    BY <1>2, <1>3
  <1>5. Fine(Early(i)) \/ (i # 0 /\ Early(i) = method)
    BY <1>1, <1>a, <1>4
  <1> QED BY <1>a, <1>5 DEF Fine

-----------------------------------------------------------------------------
(***************************************************************************)
(* The invariant: there is no answer before a request is handled, and the  *)
(* answer there is names the file it is about.                             *)
(***************************************************************************)
Request ==
  [state : {"idle", "complete", "answered", "ended"}, method : Methods \cup {"GET"},
   uri : Seq(Char), len : Lengths \cup {0}, payload : Payloads \cup {Idle.payload}]

RequestOK ==
  /\ routes \in Tables
  /\ req \in Request
  /\ req.state \in {"idle", "complete"} => resp.by = "nothing"

(* The file the request names, by the route that was chosen.               *)
Target == FilePath(req.uri, routes[Chosen])

Gone == resp.by = "deleted" => Walk(Target) \notin DOMAIN files

(* A directory ends the process: of an error page or of an index file.     *)
Ends(at) ==
  /\ at \in DOMAIN files /\ files[at].kind = "dir"
  /\ \/ \E status \in DOMAIN ErrorPages : at = Walk(ErrorPages[status])
     \/ Chosen # 0 /\ at = Append(Walk(Target), index_file(routes[Chosen]))

Ended == req.state = "ended" => Ends(resp.path)

HandlerInv == RequestOK /\ NeverBlocks /\ InsideRoot /\ Ended /\ Gone

LEMMA IdleIsRequest == Idle \in Request
  <1>1. Idle.payload = (CHOOSE p \in Payloads : TRUE)
    BY DEF Idle
  <1>2. <<"/">> \in Seq(Char)
    BY Singleton DEF Char
  <1> DEFINE p == CHOOSE p \in Payloads : TRUE
  <1>3. Idle = [state |-> "idle", method |-> "GET", uri |-> <<"/">>, len |-> 0, payload |-> p]
    BY DEF Idle
  <1> HIDE DEF p
  <1> QED BY <1>1, <1>2, <1>3 DEF Request, p

(* A request is handled by a route of the table.                           *)
LEMMA RoutedRoute ==
  ASSUME RequestOK, Routed
  PROVE  Chosen \in 1 .. Len(routes) /\ Named(routes[Chosen])
  <1>1. routes \in Seq(Route) /\ \A i \in 1 .. Len(routes) :
          /\ routes[i].path # <<>>
          /\ \A dir \in {routes[i].root, routes[i].index, routes[i].upload_store} :
               dir = <<>> \/ FileName(dir)
    BY TablesAssumption DEF RequestOK
  <1>2. FirstLongest(routes, strip_query_string(req.uri), Len(routes), Chosen)
    BY <1>1, ChosenIs, MatchIsFirstLongest
  <1>3. Chosen # 0
    BY EarlyBy DEF Routed
  <1>4. Chosen \in 1 .. Len(routes)
    BY <1>1, <1>2, <1>3 DEF FirstLongest
  <1> QED BY <1>1, <1>4 DEF Named

(* Reply leaves the request as it is, but for its state.                   *)
LEMMA Replied ==
  ASSUME RequestOK, NEW r, Reply(r), routes' = routes
  PROVE  /\ resp' = r
         /\ req' \in Request /\ req'.uri = req.uri
         /\ req'.state = IF r.by = "throw" THEN "ended" ELSE "answered"
         /\ Chosen' = Chosen
         /\ RequestOK'
  <1>1. req \in Request /\ resp' = r
    BY DEF RequestOK, Reply
  <1>2. \A x \in {"answered", "ended"} :
          [req EXCEPT !.state = x] \in Request
          /\ [req EXCEPT !.state = x].uri = req.uri /\ [req EXCEPT !.state = x].state = x
    BY <1>1 DEF Request
  <1>3. /\ req' \in Request /\ req'.uri = req.uri
        /\ req'.state = IF r.by = "throw" THEN "ended" ELSE "answered"
    BY <1>2 DEF Reply
  <1>4. Chosen' = Chosen
    BY <1>3, ChosenIs
  <1> QED BY <1>1, <1>3, <1>4 DEF RequestOK

(* What an answer must be for the invariant to hold after it.              *)
Fits(r) ==
  /\ r.by # "CGI::execute"
  /\ r.by \in {"file", "autoindex", "deleted"} =>
       IsPrefix(<<root_dir(routes[Chosen])>>, r.path)
  /\ r.by = "throw" => Ends(r.path)

LEMMA AnswerFits ==
  ASSUME RequestOK, NEW r, Reply(r), routes' = routes, Fits(r),
         r.by = "throw" => files' = files,
         r.by = "deleted" => Walk(Target) \notin DOMAIN files'
  PROVE  HandlerInv'
  <1>1. /\ resp' = r /\ RequestOK' /\ Chosen' = Chosen /\ req'.uri = req.uri
        /\ req'.state = IF r.by = "throw" THEN "ended" ELSE "answered"
    BY Replied
  <1>2. NeverBlocks'
    BY <1>1 DEF NeverBlocks, Fits
  <1>3. InsideRoot'
    BY <1>1 DEF InsideRoot, Fits
  <1>4. Ended'
    <2>1. Target' = Target
      BY <1>1 DEF Target
    <2>2. CASE r.by = "throw"
      BY <1>1, <2>1, <2>2 DEF Ended, Ends, Fits
    <2>3. CASE r.by # "throw"
      BY <1>1, <2>3 DEF Ended
    <2> QED BY <2>2, <2>3
  <1>5. Gone'
    BY <1>1 DEF Gone, Target
  <1> QED BY <1>1, <1>2, <1>3, <1>4, <1>5 DEF HandlerInv

(* GET and HEAD.                                                           *)
LEMMA GetFits ==
  ASSUME RequestOK, Routed, NEW ok \in BOOLEAN, NEW junk \in BOOLEAN
  PROVE  LET r == handle_get(req.uri, routes[Chosen], ok, junk)
         IN  /\ Fits(r) /\ r.by # "deleted"
             /\ Fits(clear_body(r)) /\ clear_body(r).by # "deleted"
  <1> DEFINE route == routes[Chosen]
             path == FilePath(req.uri, route)
             index == Append(path, index_file(route))
             r == handle_get(req.uri, route, ok, junk)
  <1>1. req.uri \in Seq(Char) /\ Named(route) /\ Chosen # 0
    BY RoutedRoute DEF RequestOK, Request
  <1>2. /\ Walk(path) = path /\ Walk(index) = index
        /\ IsPrefix(<<root_dir(route)>>, path) /\ IsPrefix(<<root_dir(route)>>, index)
    BY <1>1, FilePathDown
  <1>3. GetAnswer(path, index, r)
    BY GotBy
  <1>4. clear_body(r).by = r.by /\ clear_body(r).path = r.path
    <2>1. "by" # "body" /\ "path" # "body"
      OBVIOUS
    <2> QED BY <2>1 DEF clear_body
  <1> HIDE DEF r
  <1>5. Fits(r) /\ r.by # "deleted"
    <2>1. r.by = "throw" => Ends(r.path)
      BY <1>1, <1>2, <1>3 DEF GetAnswer, Ends, PageDir, Target
    <2> QED BY <1>2, <1>3, <2>1 DEF Fits, GetAnswer
  <1>6. Fits(clear_body(r)) /\ clear_body(r).by # "deleted"
    BY <1>4, <1>5 DEF Fits
  <1> QED BY <1>5, <1>6 DEF r

LEMMA HandlerStep == HandlerInv /\ [Next]_vars => HandlerInv'
  <1> SUFFICES ASSUME HandlerInv, [Next]_vars PROVE HandlerInv'
    OBVIOUS
  <1>0. RequestOK
    BY DEF HandlerInv
  <1>1. CASE Receive
    <2>1. /\ routes' = routes /\ files' = files /\ resp' = resp /\ req.state = "idle"
          /\ \E m \in Methods, u \in Uris, n \in Lengths, p \in Payloads :
               req' = [state |-> "complete", method |-> m, uri |-> u, len |-> n, payload |-> p]
      BY <1>1 DEF Receive
    <2>2. resp'.by = "nothing" /\ routes' \in Tables
      BY <1>0, <2>1 DEF RequestOK
    <2>3. req' \in Request /\ req'.state = "complete"
      BY <2>1, UrisAssumption DEF Request
    <2> QED BY <2>2, <2>3 DEF HandlerInv, RequestOK, NeverBlocks, InsideRoot, Ended, Gone
  <1>2. CASE Close
    <2>1. routes' = routes /\ req' = Idle /\ resp' = NoResponse
      BY <1>2 DEF Close
    <2>2. resp'.by = "nothing"
      BY <2>1 DEF NoResponse, Response
    <2>3. req' \in Request /\ req'.state = "idle" /\ routes' \in Tables
      BY <1>0, <2>1, IdleIsRequest DEF Idle, RequestOK
    <2> QED BY <2>2, <2>3 DEF HandlerInv, RequestOK, NeverBlocks, InsideRoot, Ended, Gone
  <1>3. CASE AnswerEarly
    <2>1. Reply(Early(Chosen)) /\ routes' = routes /\ files' = files
      BY <1>3 DEF AnswerEarly
    <2>2. Fits(Early(Chosen)) /\ Early(Chosen).by # "deleted"
      BY EarlyBy DEF Fits, Ends, PageDir
    <2> QED BY <1>0, <2>1, <2>2, AnswerFits
  <1>4. CASE OnGet
    <2>1. PICK ok \in BOOLEAN, junk \in BOOLEAN :
            Reply(handle_get(req.uri, routes[Chosen], ok, junk))
      BY <1>4 DEF OnGet
    <2>2. Routed /\ routes' = routes /\ files' = files
      BY <1>4 DEF OnGet
    <2>3. Fits(handle_get(req.uri, routes[Chosen], ok, junk))
          /\ handle_get(req.uri, routes[Chosen], ok, junk).by # "deleted"
      BY <1>0, <2>2, GetFits
    <2> QED BY <1>0, <2>1, <2>2, <2>3, AnswerFits
  <1>5. CASE OnHead
    <2>1. PICK ok \in BOOLEAN, junk \in BOOLEAN :
            Reply(clear_body(handle_get(req.uri, routes[Chosen], ok, junk)))
      BY <1>5 DEF OnHead
    <2>2. Routed /\ routes' = routes /\ files' = files
      BY <1>5 DEF OnHead
    <2>3. Fits(clear_body(handle_get(req.uri, routes[Chosen], ok, junk)))
          /\ clear_body(handle_get(req.uri, routes[Chosen], ok, junk)).by # "deleted"
      BY <1>0, <2>2, GetFits
    <2> QED BY <1>0, <2>1, <2>2, <2>3, AnswerFits
  <1>6. CASE OnPost
    <2>1. Reply(handle_post(routes[Chosen], req.payload)) /\ routes' = routes
      BY <1>6 DEF OnPost
    <2>2. Fits(handle_post(routes[Chosen], req.payload))
          /\ handle_post(routes[Chosen], req.payload).by \notin {"throw", "deleted"}
      BY PostedBy DEF Fits
    <2> QED BY <1>0, <2>1, <2>2, AnswerFits
  <1>7. CASE OnDelete
    <2>1. PICK ok \in BOOLEAN :
            LET r == handle_delete(req.uri, routes[Chosen], ok)
            IN  /\ Reply(r)
                /\ files' = IF r.by = "deleted" THEN Restrict(files, DOMAIN files \ {r.path})
                            ELSE files
      BY <1>7 DEF OnDelete
    <2>2. Routed /\ routes' = routes
      BY <1>7 DEF OnDelete
    <2> DEFINE route == routes[Chosen]
               path == FilePath(req.uri, route)
               r == handle_delete(req.uri, route, ok)
    <2>3. /\ r.by \in {"error", "throw", "deleted"}
          /\ r.by = "deleted" => r.path = Walk(path)
          /\ r.by = "throw" => PageDir(r.path)
      BY DeletedBy
    <2>4. req.uri \in Seq(Char) /\ Named(route)
      BY <1>0, <2>2, RoutedRoute DEF RequestOK, Request
    <2>5. Walk(path) = path /\ IsPrefix(<<root_dir(route)>>, path)
      BY <2>4, FilePathDown
    <2>6. /\ Reply(r)
          /\ r.by = "deleted" => files' = Restrict(files, DOMAIN files \ {r.path})
          /\ r.by # "deleted" => files' = files
      BY <2>1
    <2> HIDE DEF r
    <2>7. Fits(r)
      BY <2>3, <2>5 DEF Fits, Ends, PageDir
    <2>8. r.by = "deleted" => Walk(Target) \notin DOMAIN files'
      BY <2>3, <2>6 DEF Restrict, Target
    <2> QED BY <1>0, <2>2, <2>6, <2>7, <2>8, AnswerFits
  <1>8. CASE OnOther
    <2>1. Reply(Error(405)) /\ routes' = routes /\ files' = files
      BY <1>8 DEF OnOther
    <2>2. Fits(Error(405)) /\ Error(405).by # "deleted"
      BY ErrorBy DEF Fits, Ends, PageDir
    <2> QED BY <1>0, <2>1, <2>2, AnswerFits
  <1>9. CASE UNCHANGED vars
    <2>1. routes' = routes /\ files' = files /\ req' = req /\ resp' = resp
      BY <1>9 DEF vars
    <2>2. Chosen' = Chosen
      BY <2>1, ChosenIs
    <2> QED BY <2>1, <2>2 DEF HandlerInv, RequestOK, NeverBlocks, InsideRoot, Ended, Ends, Gone,
                              Target
  <1> QED BY <1>1, <1>2, <1>3, <1>4, <1>5, <1>6, <1>7, <1>8, <1>9 DEF Next

(* The invariant holds in every state of every behaviour.                  *)
THEOREM HandlerInvariant == Spec => []HandlerInv
  <1>1. Init => HandlerInv
    <2> SUFFICES ASSUME Init PROVE HandlerInv
      OBVIOUS
    <2>1. resp.by = "nothing"
      BY DEF Init, NoResponse, Response
    <2>2. req \in Request /\ req.state = "idle" /\ routes \in Tables
      BY IdleIsRequest DEF Init, Idle
    <2> QED BY <2>1, <2>2 DEF HandlerInv, RequestOK, NeverBlocks, InsideRoot, Ended, Gone
  <1> QED BY <1>1, HandlerStep, PTL DEF Spec

(* The file that is served, listed or deleted lies under the root of its   *)
(* route, for every target (sanitize_path, HTTPHandler.cpp).               *)
THEOREM AlwaysInsideRoot == Spec => []InsideRoot
  <1>1. HandlerInv => InsideRoot
    BY DEF HandlerInv
  <1> QED BY <1>1, HandlerInvariant, PTL

(* No request reaches the blocking CGI::execute: the gate in Server takes  *)
(* every one that would.                                                   *)
THEOREM NeverEverBlocks == Spec => []NeverBlocks
  <1>1. HandlerInv => NeverBlocks
    BY DEF HandlerInv
  <1> QED BY <1>1, HandlerInvariant, PTL

(* What handle_delete deleted is not found by the same target.             *)
THEOREM DeletedStaysGone == Spec => []DeletedIsGone
  <1>1. HandlerInv => DeletedIsGone
    <2> SUFFICES ASSUME HandlerInv, resp.by = "deleted"
                 PROVE  handle_get(req.uri, routes[Chosen], TRUE, TRUE) = Error(404)
      BY DEF DeletedIsGone
    <2>1. ~ Found(FilePath(req.uri, routes[Chosen]))
      BY DEF HandlerInv, Gone, Target, Found
    <2> QED BY <2>1 DEF handle_get
  <1> QED BY <1>1, HandlerInvariant, PTL

-----------------------------------------------------------------------------
(***************************************************************************)
(* The reference for match_route: a target as its segments.                *)
(***************************************************************************)
SplitStep(segs, ch) ==
  IF ch = "/" THEN Append(segs, <<>>)
  ELSE Append(Front(segs), Append(Last(segs), ch))

SplitStart == << <<>> >>

SplitEq(path, g) ==
  g = [t \in SUBSET (DOMAIN path) |->
         IF t = {} THEN SplitStart ELSE SplitStep(g[t \ {Max(t)}], path[Max(t)])]

LEMMA SplitUnfolds ==
  ASSUME NEW path
  PROVE  Split(path) = (CHOOSE g : SplitEq(path, g))[DOMAIN path]
  BY DEF Split, FoldLeft, MapThenFoldSet, SplitEq, SplitStep, SplitStart

(* At least one segment, the last one still growing.                       *)
Segs(C) == Seq(Seq(C)) \ {<<>>}

LEMMA SplitStepIs ==
  ASSUME NEW C, NEW segs \in Segs(C), NEW ch \in C
  PROVE  LET m == Len(segs)
             next == SplitStep(segs, ch)
         IN  /\ next \in Segs(C) /\ m \in Nat \ {0}
             /\ \A i \in 1 .. (m - 1) : next[i] = segs[i]
             /\ ch = "/" => /\ Len(next) = m + 1
                            /\ next[m] = segs[m] /\ next[m + 1] = <<>>
             /\ ch # "/" => Len(next) = m /\ next[m] = Append(segs[m], ch)
  <1> DEFINE m == Len(segs)
  <1>1. segs \in Seq(Seq(C)) /\ segs # <<>> /\ m \in Nat \ {0}
    BY DEF Segs
  <1>2. CASE ch = "/"
    <2>1. SplitStep(segs, ch) = Append(segs, <<>>)
      BY <1>2 DEF SplitStep
    <2>2. <<>> \in Seq(C)
      OBVIOUS
    <2>3. /\ Append(segs, <<>>) \in Seq(Seq(C)) /\ Len(Append(segs, <<>>)) = m + 1
          /\ Append(segs, <<>>)[m + 1] = <<>>
          /\ \A i \in 1 .. m : Append(segs, <<>>)[i] = segs[i]
      BY <1>1, <2>2
    <2>4. Append(segs, <<>>) # <<>>
      BY <1>1, <2>3
    <2>5. m \in 1 .. m /\ 1 .. (m - 1) \subseteq 1 .. m
      BY <1>1
    <2> DEFINE next == Append(segs, <<>>)
    <2>6. /\ next \in Seq(Seq(C)) /\ next # <<>> /\ Len(next) = m + 1 /\ next[m + 1] = <<>>
          /\ next[m] = segs[m] /\ \A i \in 1 .. (m - 1) : next[i] = segs[i]
      BY <2>3, <2>4, <2>5
    <2> HIDE DEF m, next
    <2>7. SplitStep(segs, ch) = next
      BY <2>1 DEF next
    <2> QED BY <1>1, <1>2, <2>6, <2>7 DEF Segs, m
  <1>3. CASE ch # "/"
    <2> DEFINE f == Front(segs)
               x == Append(segs[m], ch)
    <2>1. SplitStep(segs, ch) = Append(f, x)
      BY <1>3 DEF SplitStep, Last
    <2>2. segs[m] \in Seq(C)
      BY <1>1
    <2>3. x \in Seq(C)
      BY <2>2
    <2>4. f \in Seq(Seq(C)) /\ Len(f) = m - 1 /\ \A i \in 1 .. (m - 1) : f[i] = segs[i]
      BY <1>1, FrontIs
    <2> HIDE DEF f, x, m
    <2>5. /\ Append(f, x) \in Seq(Seq(C)) /\ Len(Append(f, x)) = m /\ Append(f, x)[m] = x
          /\ \A i \in 1 .. (m - 1) : Append(f, x)[i] = segs[i]
      BY <1>1, <2>3, <2>4
    <2>6. Append(f, x) # <<>>
      BY <1>1, <2>5
    <2> QED BY <1>1, <1>3, <2>1, <2>5, <2>6 DEF Segs, m, x
  <1> QED BY <1>2, <1>3

SplitRun(C, s, h) ==
  /\ h \in [0 .. Len(s) -> Segs(C)]
  /\ h[0] = SplitStart
  /\ \A k \in 1 .. Len(s) : h[k] = SplitStep(h[k - 1], s[k])

LEMMA SplitRuns ==
  ASSUME NEW C, NEW path \in Seq(C)
  PROVE  \E h : SplitRun(C, path, h) /\ Split(path) = h[Len(path)]
  <1> DEFINE X == Segs(C)
             n == Len(path)
             F == [p \in X \X C |-> SplitStep(p[1], p[2])]
  <1>1. n \in Nat /\ DOMAIN path = 1 .. n /\ path \in [1 .. n -> C]
    OBVIOUS
  <1>a. SplitStart \in X
    <2>1. <<>> \in Seq(C)
      OBVIOUS
    <2>2. << <<>> >> \in Seq(Seq(C)) /\ Len(<< <<>> >>) = 1
      BY <2>1, Singleton
    <2> QED BY <2>2 DEF SplitStart, Segs
  <1>2. \A segs \in X, ch \in C : SplitStep(segs, ch) \in X
    BY SplitStepIs
  <1>3. F \in [X \X C -> X]
    BY <1>2
  <1>4. \A segs \in X, ch \in C : F[<<segs, ch>>] = SplitStep(segs, ch)
    OBVIOUS
  <1>5. \A t \in SUBSET (1 .. n) : t # {} => path[Max(t)] \in C
    BY <1>1, MaxIn
  <1> HIDE DEF X, n, F
  <1>6. PICK f \in [SUBSET (1 .. n) -> X] : Folds(F, SplitStart, path, n, f)
    BY <1>1, <1>a, <1>3, FoldExists
  <1>7. SplitEq(path, f)
    <2>1. ASSUME NEW t \in SUBSET (1 .. n), t # {}
          PROVE  F[<<f[t \ {Max(t)}], path[Max(t)]>>] = SplitStep(f[t \ {Max(t)}], path[Max(t)])
      <3>1. t \ {Max(t)} \in SUBSET (1 .. n)
        OBVIOUS
      <3>2. f[t \ {Max(t)}] \in X
        BY <3>1
      <3> QED BY <3>2, <2>1, <1>4, <1>5
    <2> QED BY <1>1, <1>6, <2>1 DEF Folds, SplitEq
  <1> DEFINE g == CHOOSE g : SplitEq(path, g)
  <1>8. SplitEq(path, g)
    BY <1>7, Zenon
  <1>9. Split(path) = g[1 .. n]
    BY <1>1, SplitUnfolds
  <1> HIDE DEF g
  <1>10. g[{}] = SplitStart
    BY <1>1, <1>8 DEF SplitEq
  <1>11. \A t \in SUBSET (1 .. n) :
           t # {} => g[t] = SplitStep(g[t \ {Max(t)}], path[Max(t)])
    BY <1>1, <1>8 DEF SplitEq
  <1>12. \A t \in SUBSET (1 .. n) :
           t # {} /\ g[t \ {Max(t)}] \in X => g[t] = F[<<g[t \ {Max(t)}], path[Max(t)]>>]
    BY <1>4, <1>5, <1>11
  <1>13. PICK h \in [0 .. n -> X] : Runs(F, SplitStart, path, n, h) /\ g[1 .. n] = h[n]
    <2>1. FoldsIn(X, F, SplitStart, path, n, g)
      BY <1>10, <1>12 DEF FoldsIn
    <2>2. HasRun(X, F, SplitStart, path, n, g[1 .. n])
      BY <1>1, <1>a, <1>3, <2>1, FoldRuns
    <2> QED BY <2>2 DEF HasRun
  <1>14. \A k \in 1 .. n : h[k] = SplitStep(h[k - 1], path[k])
    <2> SUFFICES ASSUME NEW k \in 1 .. n PROVE h[k] = SplitStep(h[k - 1], path[k])
      OBVIOUS
    <2>1. h[k] = F[<<h[k - 1], path[k]>>]
      BY <1>13 DEF Runs
    <2>2. k - 1 \in 0 .. n /\ path[k] \in C
      BY <1>1
    <2> QED BY <2>1, <2>2, <1>4
  <1>15. h[0] = SplitStart
    BY <1>13 DEF Runs
  <1> QED BY <1>9, <1>13, <1>14, <1>15 DEF X, n, SplitRun

(* The segment after the last slash holds none.                            *)
Bare(seg) == \A i \in 1 .. Len(seg) : seg[i] # "/"

LEMMA SplitTail ==
  ASSUME NEW path \in Seq(Char)
  PROVE  Split(path) \in Segs(Char) /\ Bare(Last(Split(path)))
  <1> DEFINE n == Len(path)
  <1>1. PICK h : SplitRun(Char, path, h) /\ Split(path) = h[n]
    BY SplitRuns
  <1>2. n \in Nat /\ \A k \in 1 .. n : path[k] \in Char
    OBVIOUS
  <1>3. /\ h \in [0 .. n -> Segs(Char)] /\ h[0] = SplitStart
        /\ \A k \in 1 .. n : h[k] = SplitStep(h[k - 1], path[k])
    BY <1>1 DEF SplitRun
  <1> DEFINE T == {k \in 0 .. n : Bare(Last(h[k]))}
  <1>4. 0 \in T
    <2>1. Last(SplitStart) = <<>>
      BY DEF SplitStart, Last
    <2>2. Bare(<<>>)
      BY DEF Bare
    <2> QED BY <1>2, <1>3, <2>1, <2>2
  <1>5. \A k \in 1 .. n : k - 1 \in T => k \in T
    <2> SUFFICES ASSUME NEW k \in 1 .. n, k - 1 \in T PROVE k \in T
      OBVIOUS
    <2> DEFINE segs == h[k - 1]
               ch == path[k]
               m == Len(segs)
               next == SplitStep(segs, ch)
    <2>1. segs \in Segs(Char) /\ ch \in Char /\ h[k] = next /\ k \in 0 .. n /\ Bare(Last(segs))
      BY <1>2, <1>3
    <2>2. segs[m] \in Seq(Char)
      BY <2>1 DEF Segs
    <2> HIDE DEF segs, ch, next
    <2>3. CASE ch = "/"
      <3>1. Len(next) = m + 1 /\ next[m + 1] = <<>>
        BY <2>1, <2>3, SplitStepIs DEF next
      <3>2. Last(next) = <<>>
        BY <3>1 DEF Last
      <3>3. Bare(Last(next))
        BY <3>2 DEF Bare
      <3> QED BY <2>1, <3>3
    <2>4. CASE ch # "/"
      <3>1. Len(next) = m /\ next[m] = Append(segs[m], ch)
        BY <2>1, <2>4, SplitStepIs DEF next
      <3>2. Bare(segs[m])
        BY <2>1 DEF Last
      <3>3. Bare(Append(segs[m], ch))
        BY <2>1, <2>2, <2>4, <3>2 DEF Bare
      <3>4. Bare(Last(next))
        BY <3>1, <3>3 DEF Last
      <3> QED BY <2>1, <3>4
    <2> QED BY <2>3, <2>4
  <1>6. n \in T
    <2> HIDE DEF T, n
    <2>1. 0 .. n \subseteq T
      BY <1>2, <1>4, <1>5, UpTo
    <2> QED BY <1>2, <2>1
  <1>7. h[n] \in Segs(Char)
    BY <1>2, <1>3
  <1> QED BY <1>1, <1>6, <1>7

LEMMA SplitLetter ==
  ASSUME NEW C, NEW segs \in Segs(C), NEW ch \in C, ch # "/"
  PROVE  LET next == SplitStep(segs, ch)
         IN  Len(next) = Len(segs) /\ next[Len(segs)] = Append(segs[Len(segs)], ch)
  BY SplitStepIs

(* A name without a slash is one segment.                                  *)
LEMMA SplitWord ==
  ASSUME NEW name \in Seq(Char), Bare(name)
  PROVE  Split(name) = <<name>>
  <1> DEFINE n == Len(name)
  <1>1. PICK h : SplitRun(Char, name, h) /\ Split(name) = h[n]
    BY SplitRuns
  <1>2. /\ n \in Nat /\ SubSeq(name, 1, 0) = <<>> /\ SubSeq(name, 1, n) = name
        /\ \A k \in 1 .. n : name[k] \in Char /\ name[k] # "/"
    BY DEF Bare
  <1>3. /\ h \in [0 .. n -> Segs(Char)] /\ h[0] = SplitStart
        /\ \A k \in 1 .. n : h[k] = SplitStep(h[k - 1], name[k])
    BY <1>1 DEF SplitRun
  <1> DEFINE T == {k \in 0 .. n : Len(h[k]) = 1 /\ h[k][1] = SubSeq(name, 1, k)}
  <1>4. 0 \in T
    <2>1. Len(SplitStart) = 1 /\ SplitStart[1] = <<>>
      BY DEF SplitStart
    <2>2. 0 \in 0 .. n
      BY <1>2
    <2>3. Len(h[0]) = 1 /\ h[0][1] = SubSeq(name, 1, 0)
      BY <1>2, <1>3, <2>1
    <2> QED BY <2>2, <2>3
  <1>5. \A k \in 1 .. n : k - 1 \in T => k \in T
    <2> SUFFICES ASSUME NEW k \in 1 .. n, k - 1 \in T PROVE k \in T
      OBVIOUS
    <2> DEFINE segs == h[k - 1]
               ch == name[k]
               next == SplitStep(segs, ch)
    <2>1. /\ segs \in Segs(Char) /\ h[k] = next /\ k \in 0 .. n
          /\ Len(segs) = 1 /\ segs[1] = SubSeq(name, 1, k - 1)
      BY <1>3
    <2>2. SubSeq(name, 1, k) = Append(SubSeq(name, 1, k - 1), ch)
      OBVIOUS
    <2>3. ch \in Char /\ ch # "/"
      BY <1>2
    <2> HIDE DEF T, n, segs, ch, next
    <2>4. Len(next) = Len(segs) /\ next[Len(segs)] = Append(segs[Len(segs)], ch)
      BY <2>1, <2>3, SplitLetter DEF next
    <2>5. Len(next) = 1 /\ next[1] = SubSeq(name, 1, k)
      BY <2>1, <2>2, <2>4
    <2> QED BY <2>1, <2>5 DEF T
  <1>6. n \in T
    <2> HIDE DEF T, n
    <2>1. 0 .. n \subseteq T
      BY <1>2, <1>4, <1>5, UpTo
    <2> QED BY <1>2, <2>1
  <1>7. h[n] \in Seq(Seq(Char)) /\ Len(h[n]) = 1 /\ h[n][1] = name
    BY <1>2, <1>3, <1>6 DEF Segs
  <1>8. <<name>> \in Seq(Seq(Char)) /\ Len(<<name>>) = 1 /\ <<name>>[1] = name
    BY Singleton
  <1> HIDE DEF n
  <1>9. h[n] = <<name>>
    <2>1. \A i \in 1 .. Len(h[n]) : h[n][i] = <<name>>[i]
      BY <1>7, <1>8
    <2> QED BY <1>7, <1>8, <2>1, SameElements
  <1> QED BY <1>1, <1>9

(* b goes on where a stands: its complete segments are those of a, and the *)
(* last one of a is the beginning of a segment of b.                       *)
Extends(a, b) ==
  /\ Len(a) <= Len(b)
  /\ \A i \in 1 .. (Len(a) - 1) : a[i] = b[i]
  /\ Len(a[Len(a)]) <= Len(b[Len(a)])
  /\ \A j \in 1 .. Len(a[Len(a)]) : a[Len(a)][j] = b[Len(a)][j]

LEMMA ExtendsStep ==
  ASSUME NEW C, NEW a \in Segs(C), NEW b \in Segs(C), Extends(a, b), NEW ch \in C
  PROVE  Extends(a, SplitStep(b, ch))
  <1> DEFINE m == Len(a)
             l == Len(b)
             c == SplitStep(b, ch)
  <1>1. a \in Seq(Seq(C)) /\ b \in Seq(Seq(C)) /\ m \in Nat \ {0} /\ l \in Nat \ {0} /\ m <= l
    BY DEF Segs, Extends
  <1>2. /\ \A i \in 1 .. (l - 1) : c[i] = b[i]
        /\ ch = "/" => Len(c) = l + 1 /\ c[l] = b[l]
        /\ ch # "/" => Len(c) = l /\ c[l] = Append(b[l], ch)
    BY SplitStepIs
  <1>3. b[m] \in Seq(C) /\ a[m] \in Seq(C)
    BY <1>1
  <1>4. /\ Len(a[m]) <= Len(b[m]) /\ \A j \in 1 .. Len(a[m]) : a[m][j] = b[m][j]
        /\ \A i \in 1 .. (m - 1) : a[i] = b[i]
    BY DEF Extends
  <1> HIDE DEF m, l, c
  <1>5. Len(c) >= l /\ \A i \in 1 .. (m - 1) : a[i] = c[i]
    <2>1. Len(c) = l \/ Len(c) = l + 1
      BY <1>2
    <2>2. Len(c) >= l
      BY <1>1, <2>1
    <2>3. 1 .. (m - 1) \subseteq 1 .. (l - 1)
      BY <1>1
    <2> QED BY <1>2, <1>4, <2>2, <2>3
  <1>6. CASE m < l \/ ch = "/"
    <2>1. c[m] = b[m]
      BY <1>1, <1>2, <1>6
    <2> QED BY <1>1, <1>4, <1>5, <2>1 DEF Extends, m, c
  <1>7. CASE m = l /\ ch # "/"
    <2>1. c[m] = Append(b[m], ch)
      BY <1>2, <1>7
    <2>2. Len(c[m]) = Len(b[m]) + 1 /\ \A j \in 1 .. Len(b[m]) : c[m][j] = b[m][j]
      BY <1>3, <2>1
    <2>3. Len(a[m]) \in Nat /\ Len(b[m]) \in Nat
      BY <1>3
    <2>4. Len(a[m]) <= Len(c[m]) /\ \A j \in 1 .. Len(a[m]) : a[m][j] = c[m][j]
      BY <1>4, <2>2, <2>3
    <2> QED BY <1>1, <1>5, <2>4 DEF Extends, m, c
  <1> QED BY <1>1, <1>6, <1>7

LEMMA SplitGrows ==
  ASSUME NEW C, NEW s \in Seq(C), NEW h, SplitRun(C, s, h), NEW k \in 0 .. Len(s)
  PROVE  Extends(h[k], h[Len(s)])
  <1> DEFINE n == Len(s)
             T == {j \in 0 .. n : j >= k => Extends(h[k], h[j])}
  <1>1. n \in Nat /\ \A j \in 0 .. n : h[j] \in Segs(C)
    <2>1. n \in Nat
      OBVIOUS
    <2>2. h \in [0 .. n -> Segs(C)]
      BY DEF SplitRun
    <2> QED BY <2>1, <2>2
  <1>2. Extends(h[k], h[k])
    <2>1. h[k] \in Seq(Seq(C)) /\ h[k] # <<>>
      BY <1>1 DEF Segs
    <2>2. h[k][Len(h[k])] \in Seq(C) /\ Len(h[k]) \in Nat
      BY <2>1
    <2> QED BY <2>2 DEF Extends
  <1>3. 0 \in T
    BY <1>1, <1>2
  <1>4. ASSUME NEW j \in 1 .. n, j - 1 \in T PROVE j \in T
    <2>1. j \in 0 .. n /\ j - 1 \in 0 .. n
      OBVIOUS
    <2>2. CASE j < k
      BY <2>1, <2>2
    <2>3. CASE j = k
      BY <2>1, <2>3, <1>2
    <2>4. CASE j > k
      <3>1. j - 1 >= k
        BY <2>4
      <3>2. Extends(h[k], h[j - 1])
        BY <1>4, <3>1
      <3>3. h[j] = SplitStep(h[j - 1], s[j]) /\ s[j] \in C
        BY DEF SplitRun
      <3>4. Extends(h[k], h[j])
        BY <1>1, <2>1, <3>2, <3>3, ExtendsStep
      <3> QED BY <2>1, <3>4
    <2> QED BY <2>2, <2>3, <2>4
  <1>5. 0 .. n \subseteq T
    <2> HIDE DEF T, n
    <2> QED BY <1>1, <1>3, <1>4, UpTo
  <1>6. n \in T
    <2> HIDE DEF T, n
    <2> QED BY <1>1, <1>5
  <1> QED BY <1>6

(* As long as two paths agree, so do their segments.                       *)
LEMMA SplitAgree ==
  ASSUME NEW C, NEW s \in Seq(C), NEW t \in Seq(C), NEW g, NEW h,
         SplitRun(C, s, g), SplitRun(C, t, h),
         NEW n \in Nat, n <= Len(s), n <= Len(t), \A i \in 1 .. n : s[i] = t[i]
  PROVE  g[n] = h[n]
  <1> DEFINE T == {k \in 0 .. n : g[k] = h[k]}
  <1>1. 0 \in T
    BY DEF SplitRun
  <1>2. ASSUME NEW k \in 1 .. n, k - 1 \in T PROVE k \in T
    <2>1. k \in 1 .. Len(s) /\ k \in 1 .. Len(t) /\ k \in 0 .. n
      OBVIOUS
    <2>2. g[k] = SplitStep(g[k - 1], s[k]) /\ h[k] = SplitStep(h[k - 1], t[k])
      BY <2>1 DEF SplitRun
    <2>3. g[k - 1] = h[k - 1] /\ s[k] = t[k]
      BY <1>2
    <2> QED BY <2>1, <2>2, <2>3
  <1>3. 0 .. n \subseteq T
    <2> HIDE DEF T
    <2> QED BY <1>1, <1>2, UpTo
  <1> QED BY <1>3

(* What a character after the segments H says of segments P that go on     *)
(* behind it.                                                              *)
Shows(H, ch, P) ==
  /\ Len(H) <= Len(P)
  /\ \A i \in 1 .. (Len(H) - 1) : P[i] = H[i]
  /\ ch = "/" => Len(H) + 1 <= Len(P) /\ P[Len(H)] = H[Len(H)]
  /\ ch # "/" => /\ Len(H[Len(H)]) + 1 <= Len(P[Len(H)])
                 /\ P[Len(H)][Len(H[Len(H)]) + 1] = ch

LEMMA StepShows ==
  ASSUME NEW C, NEW H \in Segs(C), NEW ch \in C, NEW P \in Segs(C), Extends(SplitStep(H, ch), P)
  PROVE  Shows(H, ch, P)
  <1> DEFINE m == Len(H)
             N == SplitStep(H, ch)
  <1>1. N \in Segs(C)
    BY SplitStepIs
  <1>2. /\ m \in Nat \ {0}
        /\ \A i \in 1 .. (m - 1) : N[i] = H[i]
        /\ ch = "/" => Len(N) = m + 1 /\ N[m] = H[m]
        /\ ch # "/" => Len(N) = m /\ N[m] = Append(H[m], ch)
    BY SplitStepIs
  <1>3. Extends(N, P)
    OBVIOUS
  <1>4. H[m] \in Seq(C) /\ Len(P) \in Nat
    BY <1>2 DEF Segs
  <1> HIDE DEF m, N
  <1>5. CASE ch = "/"
    <2>1. Len(N) = m + 1 /\ N[m] = H[m] /\ m \in 1 .. (Len(N) - 1)
      BY <1>2, <1>5
    <2>2. Len(N) <= Len(P) /\ \A i \in 1 .. (Len(N) - 1) : N[i] = P[i]
      BY <1>3 DEF Extends
    <2>3. P[m] = H[m] /\ m + 1 <= Len(P) /\ m <= Len(P)
      BY <1>2, <1>4, <2>1, <2>2
    <2>4. \A i \in 1 .. (m - 1) : P[i] = H[i]
      <3>1. \A i \in 1 .. (m - 1) : N[i] = H[i]
        BY <1>2
      <3>2. \A i \in 1 .. m : N[i] = P[i]
        <4>1. Len(N) - 1 = m
          BY <1>2, <2>1
        <4> QED BY <2>2, <4>1
      <3>3. 1 .. (m - 1) \subseteq 1 .. m
        BY <1>2
      <3> QED BY <3>1, <3>2, <3>3
    <2> QED BY <1>5, <2>3, <2>4 DEF Shows, m
  <1>6. CASE ch # "/"
    <2>1. Len(N) = m /\ N[m] = Append(H[m], ch)
      BY <1>2, <1>6
    <2>2. /\ m <= Len(P) /\ \A i \in 1 .. (m - 1) : N[i] = P[i]
          /\ Len(N[m]) <= Len(P[m]) /\ \A j \in 1 .. Len(N[m]) : N[m][j] = P[m][j]
      BY <1>3, <2>1 DEF Extends
    <2>3. Len(N[m]) = Len(H[m]) + 1 /\ N[m][Len(H[m]) + 1] = ch /\ Len(H[m]) \in Nat
      BY <1>4, <2>1
    <2>4. Len(H[m]) + 1 <= Len(P[m]) /\ P[m][Len(H[m]) + 1] = ch
      BY <2>2, <2>3
    <2>5. \A i \in 1 .. (m - 1) : P[i] = H[i]
      BY <1>2, <2>2
    <2> QED BY <1>6, <2>2, <2>4, <2>5 DEF Shows, m
  <1> QED BY <1>5, <1>6

LEMMA SplitNext ==
  ASSUME NEW C, NEW s \in Seq(C), NEW h, SplitRun(C, s, h), NEW k \in 1 .. Len(s)
  PROVE  Shows(h[k - 1], s[k], h[Len(s)])
  <1>1. k - 1 \in 0 .. Len(s) /\ k \in 0 .. Len(s) /\ Len(s) \in 0 .. Len(s) /\ s[k] \in C
    OBVIOUS
  <1>2. h[k - 1] \in Segs(C) /\ h[Len(s)] \in Segs(C)
    BY <1>1 DEF SplitRun
  <1>3. h[k] = SplitStep(h[k - 1], s[k])
    BY DEF SplitRun
  <1>4. Extends(SplitStep(h[k - 1], s[k]), h[Len(s)])
    BY <1>1, <1>3, SplitGrows
  <1> QED BY <1>1, <1>2, <1>4, StepShows

(* A path's segments are the first segments of a target exactly when the   *)
(* path is its prefix and a segment ends there.                            *)
EndsAt(path, uri) == Len(uri) = Len(path) \/ uri[Len(path) + 1] = "/"

LEMMA PrefixSplits ==
  ASSUME NEW C, NEW path \in Seq(C), NEW uri \in Seq(C), IsPrefix(path, uri), EndsAt(path, uri)
  PROVE  IsPrefix(Split(path), Split(uri))
  <1>1. PICK g : SplitRun(C, path, g) /\ Split(path) = g[Len(path)]
    BY SplitRuns
  <1>2. PICK h : SplitRun(C, uri, h) /\ Split(uri) = h[Len(uri)]
    BY SplitRuns
  <1> DEFINE n == Len(path)
             H == h[n]
             U == h[Len(uri)]
  <1>3. n \in Nat /\ Len(uri) \in Nat /\ n <= Len(uri) /\ \A i \in 1 .. n : path[i] = uri[i]
    BY PrefixIs
  <1>4. g[n] = H
    BY <1>1, <1>2, <1>3, SplitAgree
  <1>5. H \in Segs(C) /\ U \in Segs(C)
    BY <1>2, <1>3 DEF SplitRun
  <1>6. H \in Seq(Seq(C)) /\ U \in Seq(Seq(C)) /\ Len(H) \in Nat
    BY <1>5 DEF Segs
  <1>7. CASE Len(uri) = n
    <2>1. H = U
      BY <1>7
    <2>2. IsPrefix(H, U)
      BY <1>6, <2>1, PrefixIs
    <2> QED BY <1>1, <1>2, <1>4, <2>2
  <1>8. CASE Len(uri) # n
    <2>1. n + 1 \in 1 .. Len(uri) /\ (n + 1) - 1 = n /\ uri[n + 1] = "/"
      BY <1>3, <1>8 DEF EndsAt
    <2>2. Shows(H, "/", U)
      BY <1>2, <2>1, SplitNext
    <2> HIDE DEF H, U
    <2>3. Len(H) <= Len(U) /\ \A i \in 1 .. Len(H) : H[i] = U[i]
      <3>1. Len(H) <= Len(U) /\ \A i \in 1 .. (Len(H) - 1) : U[i] = H[i]
        BY <2>2 DEF Shows
      <3>2. U[Len(H)] = H[Len(H)]
        BY <2>2 DEF Shows
      <3> QED BY <1>6, <3>1, <3>2
    <2>4. IsPrefix(H, U)
      BY <1>6, <2>3, PrefixIs
    <2> QED BY <1>1, <1>2, <1>4, <2>4 DEF H, U
  <1> QED BY <1>7, <1>8

(* Two sequences of segments that begin alike show the same characters.    *)
LEMMA ShowsAlike ==
  ASSUME NEW C, NEW H \in Segs(C), NEW P \in Segs(C), NEW U \in Segs(C),
         NEW c \in C, NEW d \in C, Shows(H, c, P), Shows(H, d, U),
         P[Len(H)] = U[Len(H)]
  PROVE  c = d
  <1> DEFINE m == Len(H)
             l == Len(H[m])
  <1>1. H[m] \in Seq(C)
    BY DEF Segs
  <1>2. l \in Nat
    BY <1>1
  <1>3. /\ c = "/" => P[m] = H[m]
        /\ c # "/" => l + 1 <= Len(P[m]) /\ P[m][l + 1] = c
        /\ d = "/" => U[m] = H[m]
        /\ d # "/" => l + 1 <= Len(U[m]) /\ U[m][l + 1] = d
        /\ P[m] = U[m]
    BY DEF Shows
  <1>4. P[m] = H[m] => Len(P[m]) = l
    OBVIOUS
  <1> HIDE DEF m, l
  <1>5. ~ (l + 1 <= l)
    BY <1>2
  <1> QED BY <1>3, <1>4, <1>5

LEMMA SplitPrefixes ==
  ASSUME NEW C, NEW path \in Seq(C), NEW uri \in Seq(C), IsPrefix(Split(path), Split(uri))
  PROVE  IsPrefix(path, uri) /\ EndsAt(path, uri)
  <1>1. PICK g : SplitRun(C, path, g) /\ Split(path) = g[Len(path)]
    BY SplitRuns
  <1>2. PICK h : SplitRun(C, uri, h) /\ Split(uri) = h[Len(uri)]
    BY SplitRuns
  <1> DEFINE n == Len(path)
             P == g[n]
             U == h[Len(uri)]
             T == {k \in 0 .. n : k <= Len(uri) /\ \A i \in 1 .. k : path[i] = uri[i]}
  <1>3. n \in Nat /\ Len(uri) \in Nat
    OBVIOUS
  <1>4. P \in Segs(C) /\ U \in Segs(C)
    BY <1>1, <1>2, <1>3 DEF SplitRun
  <1>5. Len(P) <= Len(U) /\ \A i \in 1 .. Len(P) : P[i] = U[i]
    <2>1. P \in Seq(Seq(C)) /\ U \in Seq(Seq(C)) /\ IsPrefix(P, U)
      BY <1>1, <1>2, <1>4 DEF Segs
    <2> HIDE DEF P, U
    <2> QED BY <2>1, PrefixIs
  <1>6. ASSUME NEW k \in 0 .. n, k <= Len(uri), \A i \in 1 .. k : path[i] = uri[i]
        PROVE  /\ g[k] = h[k] /\ h[k] \in Segs(C)
               /\ Len(h[k]) \in Nat \ {0} /\ Len(h[k][Len(h[k])]) \in Nat
               /\ k < n => Shows(h[k], path[k + 1], P) /\ path[k + 1] \in C
               /\ k < Len(uri) => Shows(h[k], uri[k + 1], U) /\ uri[k + 1] \in C
    <2>1. g[k] = h[k]
      BY <1>1, <1>2, <1>3, <1>6, SplitAgree
    <2>2. h[k] \in Segs(C)
      BY <1>2, <1>6 DEF SplitRun
    <2>3. h[k] \in Seq(Seq(C)) /\ h[k] # <<>>
      BY <2>2 DEF Segs
    <2>4. Len(h[k]) \in Nat \ {0} /\ h[k][Len(h[k])] \in Seq(C)
      BY <2>3
    <2>5. k < n => Shows(h[k], path[k + 1], P) /\ path[k + 1] \in C
      <3> SUFFICES ASSUME k < n PROVE Shows(h[k], path[k + 1], P) /\ path[k + 1] \in C
        OBVIOUS
      <3>1. k + 1 \in 1 .. n /\ (k + 1) - 1 = k
        OBVIOUS
      <3> QED BY <1>1, <2>1, <3>1, SplitNext
    <2>6. k < Len(uri) => Shows(h[k], uri[k + 1], U) /\ uri[k + 1] \in C
      <3> SUFFICES ASSUME k < Len(uri) PROVE Shows(h[k], uri[k + 1], U) /\ uri[k + 1] \in C
        OBVIOUS
      <3>1. k + 1 \in 1 .. Len(uri) /\ (k + 1) - 1 = k
        BY <1>6
      <3> QED BY <1>2, <3>1, SplitNext
    <2>7. Len(h[k][Len(h[k])]) \in Nat
      BY <2>4
    <2> QED BY <2>1, <2>2, <2>4, <2>5, <2>6, <2>7
  <1> HIDE DEF P, U
  <1>7. 0 \in T
    BY <1>3
  <1>8. ASSUME NEW j \in 1 .. n, j - 1 \in T PROVE j \in T
    <2> DEFINE k == j - 1
               H == h[k]
               m == Len(H)
    <2>1. k \in 0 .. n /\ k <= Len(uri) /\ (\A i \in 1 .. k : path[i] = uri[i]) /\ k < n
          /\ k + 1 = j
      BY <1>8
    <2>2. /\ g[k] = h[k] /\ H \in Segs(C) /\ m \in Nat \ {0} /\ Len(H[m]) \in Nat
          /\ Shows(H, path[j], P) /\ path[j] \in C
          /\ k < Len(uri) => Shows(H, uri[j], U) /\ uri[j] \in C
      BY <2>1, <1>6
    <2>3. m <= Len(P)
      BY <2>2 DEF Shows
    <2>4. P[m] = U[m]
      BY <1>5, <2>2, <2>3
    <2>5. k < Len(uri)
      <3> SUFFICES ASSUME k = Len(uri) PROVE FALSE
        BY <2>1, <1>3
      <3>1. U = H
        BY DEF U
      <3> HIDE DEF H, m
      <3>2. path[j] = "/" => m + 1 <= Len(P)
        BY <2>2 DEF Shows, m
      <3>3. path[j] # "/" => Len(H[m]) + 1 <= Len(P[m])
        BY <2>2 DEF Shows, m
      <3>4. Len(P) <= m /\ P[m] = H[m]
        BY <1>5, <2>4, <3>1 DEF m
      <3>5. Len(P) \in Nat
        BY <1>4 DEF Segs
      <3> QED BY <2>2, <3>2, <3>3, <3>4, <3>5
    <2>6. path[j] = uri[j]
      <3>1. Shows(H, path[j], P) /\ Shows(H, uri[j], U) /\ path[j] \in C /\ uri[j] \in C
        BY <2>2, <2>5
      <3> HIDE DEF H
      <3> QED BY <1>4, <2>2, <2>4, <3>1, ShowsAlike
    <2>7. j <= Len(uri) /\ j \in 0 .. n
      BY <2>1, <2>5, <1>3
    <2>8. \A i \in 1 .. j : path[i] = uri[i]
      BY <2>1, <2>6
    <2> QED BY <2>7, <2>8
  <1>9. 0 .. n \subseteq T
    <2> HIDE DEF T, n
    <2> QED BY <1>3, <1>7, <1>8, UpTo
  <1>10. n \in T
    <2> HIDE DEF T, n
    <2> QED BY <1>3, <1>9
  <1>11. n \in 0 .. n /\ n <= Len(uri) /\ \A i \in 1 .. n : path[i] = uri[i]
    BY <1>10
  <1>12. IsPrefix(path, uri)
    BY <1>11, PrefixIs
  <1>13. ASSUME n < Len(uri), uri[n + 1] # "/" PROVE FALSE
    <2> DEFINE H == h[n]
               m == Len(H)
    <2>1. /\ g[n] = H /\ m \in Nat \ {0} /\ Len(H[m]) \in Nat /\ Shows(H, uri[n + 1], U)
      <3>1. n \in 0 .. n /\ n <= Len(uri)
        BY <1>11
      <3>2. \A i \in 1 .. n : path[i] = uri[i]
        BY <1>11
      <3>3. n < Len(uri)
        BY <1>13
      <3> HIDE DEF n
      <3>4. /\ g[n] = h[n]
            /\ Len(h[n]) \in Nat \ {0} /\ Len(h[n][Len(h[n])]) \in Nat
            /\ n < Len(uri) => Shows(h[n], uri[n + 1], U) /\ uri[n + 1] \in C
        BY <3>1, <3>2, <1>6
      <3> QED BY <3>3, <3>4
    <2>2. P = H
      BY <2>1 DEF P
    <2>3. U[m] = H[m]
      <3>1. m \in 1 .. Len(P) /\ P[m] = H[m]
        <4> HIDE DEF H, P
        <4>1. m = Len(P) /\ m \in 1 .. m
          BY <2>1, <2>2 DEF m
        <4> QED BY <2>2, <4>1
      <3>2. \A i \in 1 .. Len(P) : P[i] = U[i]
        BY <1>5
      <3> HIDE DEF H, m
      <3> QED BY <3>1, <3>2, Zenon
    <2>4. Len(H[m]) + 1 <= Len(U[m])
      BY <2>1, <1>13 DEF Shows
    <2> QED BY <2>1, <2>3, <2>4
  <1>14. EndsAt(path, uri)
    BY <1>3, <1>11, <1>13 DEF EndsAt
  <1> QED BY <1>12, <1>14

(* A slash at the end opens an empty segment.                              *)
LEMMA SplitSlash ==
  ASSUME NEW C, NEW path \in Seq(C), path # <<>>, path[Len(path)] = "/"
  PROVE  Front(Split(path)) = Split(Front(path)) /\ Split(Front(path)) \in Seq(Seq(C))
  <1> DEFINE n == Len(path)
             q == Front(path)
  <1>1. n \in Nat \ {0} /\ n - 1 \in Nat /\ n \in 1 .. n
    OBVIOUS
  <1>2. q \in Seq(C) /\ Len(q) = n - 1 /\ \A i \in 1 .. (n - 1) : q[i] = path[i]
    BY FrontIs
  <1>3. PICK g : SplitRun(C, path, g) /\ Split(path) = g[n]
    BY SplitRuns
  <1> HIDE DEF q
  <1>4. PICK h : SplitRun(C, q, h) /\ Split(q) = h[Len(q)]
    BY <1>2, SplitRuns
  <1>5. g[n - 1] = h[n - 1]
    BY <1>1, <1>2, <1>3, <1>4, SplitAgree
  <1>6. g[n] = Append(g[n - 1], <<>>)
    BY <1>1, <1>3 DEF SplitRun, SplitStep
  <1>7. Split(q) \in Seq(Seq(C))
    <2>1. Len(q) \in 0 .. Len(q)
      BY <1>1, <1>2
    <2>2. h[Len(q)] \in Segs(C)
      BY <1>4, <2>1 DEF SplitRun
    <2> QED BY <1>4, <2>2 DEF Segs
  <1>8. Split(path) = Append(Split(q), <<>>)
    BY <1>2, <1>3, <1>4, <1>5, <1>6
  <1>9. \A s \in Seq(Seq(C)) : Front(Append(s, <<>>)) = s
    <2> SUFFICES ASSUME NEW s \in Seq(Seq(C)) PROVE Front(Append(s, <<>>)) = s
      OBVIOUS
    <2>1. <<>> \in Seq(C)
      OBVIOUS
    <2>2. /\ Append(s, <<>>) \in Seq(Seq(C)) /\ Len(Append(s, <<>>)) = Len(s) + 1
          /\ \A i \in 1 .. Len(s) : Append(s, <<>>)[i] = s[i]
      BY <2>1
    <2> DEFINE a == Append(s, <<>>)
    <2>a. Len(s) \in Nat
      OBVIOUS
    <2>b. a # <<>>
      <3> HIDE DEF a
      <3>1. a \in Seq(Seq(C)) /\ Len(a) # 0
        BY <2>2, <2>a DEF a
      <3> QED BY <3>1
    <2>3. a # <<>> /\ (Len(s) + 1) - 1 = Len(s) /\ Len(s) \in Nat
      BY <2>a, <2>b
    <2> HIDE DEF a
    <2>c. a \in Seq(Seq(C)) /\ Len(a) = Len(s) + 1 /\ \A i \in 1 .. Len(s) : a[i] = s[i]
      BY <2>2 DEF a
    <2>4. Front(a) \in Seq(Seq(C)) /\ Len(Front(a)) = Len(s)
            /\ \A i \in 1 .. Len(s) : Front(a)[i] = s[i]
      <3>1. /\ Front(a) \in Seq(Seq(C)) /\ Len(Front(a)) = Len(a) - 1
            /\ \A i \in 1 .. (Len(a) - 1) : Front(a)[i] = a[i]
        BY <2>3, <2>c, FrontIs
      <3>2. Len(a) - 1 = Len(s)
        BY <2>3, <2>c
      <3> QED BY <2>c, <3>1, <3>2
    <2>5. Front(a) = s
      BY <2>4, SameElements
    <2> QED BY <2>5 DEF a
  <1> QED BY <1>7, <1>8, <1>9 DEF q

(* What match_route compares character by character are segments.          *)
LEMMA CoversIsUnder ==
  ASSUME NEW C, NEW path \in Seq(C), path # <<>>, NEW uri \in Seq(C)
  PROVE  Covers(path, uri) <=> Under(path, uri)
  <1> DEFINE n == Len(path)
  <1>1. n \in Nat \ {0} /\ Len(uri) \in Nat
    OBVIOUS
  <1>2. CASE Last(path) # "/"
    <2>1. path # <<"/">>
      BY <1>2 DEF Last
    <2>2. Covers(path, uri) <=> (IsPrefix(path, uri) /\ EndsAt(path, uri))
      BY <1>2, <2>1 DEF Covers, EndsAt
    <2>3. Under(path, uri) <=> IsPrefix(Split(path), Split(uri))
      BY <1>2 DEF Under
    <2> QED BY <2>2, <2>3, PrefixSplits, SplitPrefixes
  <1>3. CASE Last(path) = "/"
    <2> DEFINE q == Front(path)
    <2>1. q \in Seq(C) /\ Len(q) = n - 1 /\ \A i \in 1 .. (n - 1) : q[i] = path[i]
      BY FrontIs
    <2>2. path[n] = "/"
      BY <1>3 DEF Last
    <2>3. Covers(path, uri) <=> IsPrefix(path, uri)
      BY <1>3 DEF Covers
    <2>4. Under(path, uri) <=> (IsPrefix(Split(q), Split(uri)) /\ Split(q) # Split(uri))
      BY <1>3, <2>2, SplitSlash DEF Under, IsStrictPrefix
    <2> HIDE DEF q
    <2>5. IsPrefix(path, uri) => IsPrefix(Split(q), Split(uri)) /\ Split(q) # Split(uri)
      <3> SUFFICES ASSUME IsPrefix(path, uri)
                   PROVE  IsPrefix(Split(q), Split(uri)) /\ Split(q) # Split(uri)
        OBVIOUS
      <3>1. n <= Len(uri) /\ \A i \in 1 .. n : path[i] = uri[i]
        BY PrefixIs
      <3>2. Len(q) <= Len(uri) /\ (\A i \in 1 .. Len(q) : q[i] = uri[i]) /\ uri[n] = "/"
        BY <1>1, <2>1, <2>2, <3>1
      <3>3. IsPrefix(q, uri)
        BY <2>1, <3>2, PrefixIs
      <3>4. EndsAt(q, uri)
        <4>1. Len(q) + 1 = n
          BY <1>1, <2>1
        <4> QED BY <3>2, <4>1 DEF EndsAt
      <3>5. IsPrefix(Split(q), Split(uri))
        BY <2>1, <3>3, <3>4, PrefixSplits
      <3>6. ASSUME Split(q) = Split(uri) PROVE FALSE
        <4>1. IsPrefix(Split(uri), Split(q))
          BY <3>5, <3>6
        <4>2. IsPrefix(uri, q)
          BY <2>1, <4>1, SplitPrefixes
        <4>3. Len(uri) <= Len(q)
          BY <4>2 DEF IsPrefix
        <4> QED BY <1>1, <2>1, <3>1, <4>3
      <3> QED BY <3>5, <3>6
    <2>6. IsPrefix(Split(q), Split(uri)) /\ Split(q) # Split(uri) => IsPrefix(path, uri)
      <3> SUFFICES ASSUME IsPrefix(Split(q), Split(uri)), Split(q) # Split(uri)
                   PROVE  IsPrefix(path, uri)
        OBVIOUS
      <3>1. IsPrefix(q, uri) /\ EndsAt(q, uri)
        BY <2>1, SplitPrefixes
      <3>2. Len(q) <= Len(uri) /\ \A i \in 1 .. Len(q) : q[i] = uri[i]
        BY <2>1, <3>1, PrefixIs
      <3>3. Len(q) # Len(uri)
        <4> SUFFICES ASSUME Len(q) = Len(uri) PROVE FALSE
          OBVIOUS
        <4>1. q = uri
          BY <2>1, <3>2, SameElements
        <4> QED BY <4>1
      <3>4. Len(q) + 1 = n /\ n <= Len(uri) /\ uri[n] = "/"
        BY <1>1, <2>1, <3>1, <3>2, <3>3 DEF EndsAt
      <3>5. \A i \in 1 .. n : path[i] = uri[i]
        BY <1>1, <2>1, <2>2, <3>2, <3>4
      <3> QED BY <3>4, <3>5, PrefixIs
    <2> QED BY <2>3, <2>4, <2>5, <2>6
  <1> QED BY <1>2, <1>3

(* The location that answers is the longest one that covers the target by  *)
(* whole path segments, the first of equals (Server::match_route).         *)
THEOREM RouteAlwaysLongest == Spec => []RouteIsLongest
  <1>1. RequestOK => RouteIsLongest
    <2> SUFFICES ASSUME RequestOK PROVE RouteIsLongest
      OBVIOUS
    <2> DEFINE n == Len(routes)
               c == {i \in DOMAIN routes : Under(routes[i].path, peek_uri)}
    <2>1. routes \in Seq(Route) /\ \A i \in 1 .. n : routes[i].path # <<>>
      BY TablesAssumption DEF RequestOK
    <2>2. peek_uri \in Seq(Char)
      <3>1. req.uri \in Seq(Char) /\ <<>> \in Seq(Char)
        BY DEF RequestOK, Request
      <3> QED BY <3>1, StripTypes DEF peek_uri
    <2>3. FirstLongest(routes, peek_uri, n, Chosen)
      BY <2>1, ChosenIs, MatchIsFirstLongest DEF peek_uri
    <2>4. \A i \in 1 .. n : Covers(routes[i].path, peek_uri) <=> Under(routes[i].path, peek_uri)
      <3> SUFFICES ASSUME NEW i \in 1 .. n
                   PROVE  Covers(routes[i].path, peek_uri) <=> Under(routes[i].path, peek_uri)
        OBVIOUS
      <3>1. routes[i] \in Route
        BY <2>1
      <3>2. routes[i].path \in Seq(Char) /\ routes[i].path # <<>>
        BY <2>1, <3>1 DEF Route
      <3> QED BY <2>2, <3>2, CoversIsUnder
    <2>5. \A i \in 1 .. n : i \in c <=> Covers(routes[i].path, peek_uri)
      BY <2>1, <2>4
    <2>6. c \subseteq 1 .. n
      BY <2>1
    <2>7. Chosen \in 0 .. n /\ n \in Nat
      BY <2>1, <2>3 DEF FirstLongest
    <2> HIDE DEF c
    <2>8. CASE c = {}
      <3>1. Chosen = 0
        BY <2>3, <2>5, <2>7, <2>8 DEF FirstLongest
      <3> QED BY <2>8, <3>1 DEF RouteIsLongest, c
    <2>9. CASE c # {}
      <3>1. PICK i \in 1 .. n : i \in c
        BY <2>6, <2>9
      <3>2. Chosen # 0
        BY <2>3, <2>5, <3>1 DEF FirstLongest
      <3>3. Chosen \in c
        BY <2>3, <2>5, <2>7, <3>2 DEF FirstLongest
      <3>4. \A j \in c : /\ Len(routes[j].path) <= Len(routes[Chosen].path)
                         /\ Len(routes[j].path) = Len(routes[Chosen].path) => Chosen <= j
        BY <2>3, <2>5, <2>6 DEF FirstLongest
      <3> QED BY <2>9, <3>3, <3>4 DEF RouteIsLongest, c
    <2> QED BY <2>8, <2>9
  <1>2. HandlerInv => RouteIsLongest
    BY <1>1 DEF HandlerInv
  <1> QED BY <1>2, HandlerInvariant, PTL

-----------------------------------------------------------------------------
(***************************************************************************)
(* sanitize_path goes on where it stands: what follows a path is scanned   *)
(* from the state the path leaves.                                         *)
(***************************************************************************)
LEMMA SanitizeMore ==
  ASSUME NEW C, NEW path \in Seq(C), NEW ch \in C
  PROVE  /\ SanitizeEnd(path) \in Scan(C)
         /\ SanitizeEnd(Append(path, ch)) = SanitizeStep(SanitizeEnd(path), ch)
  <1> DEFINE n == Len(path)
             q == Append(path, ch)
  <1>1. /\ q \in Seq(C) /\ Len(q) = n + 1 /\ n \in Nat /\ q[n + 1] = ch
        /\ \A i \in 1 .. n : q[i] = path[i]
    OBVIOUS
  <1>2. PICK g \in [0 .. n -> Scan(C)] :
           /\ g[0] = SanitizeStart
           /\ \A k \in 1 .. n : g[k] = SanitizeStep(g[k - 1], path[k])
           /\ SanitizeEnd(path) = g[n]
    BY SanitizeRuns
  <1> HIDE DEF q
  <1>3. PICK h \in [0 .. Len(q) -> Scan(C)] :
           /\ h[0] = SanitizeStart
           /\ \A k \in 1 .. Len(q) : h[k] = SanitizeStep(h[k - 1], q[k])
           /\ SanitizeEnd(q) = h[Len(q)]
    BY <1>1, SanitizeRuns
  <1> HIDE DEF n
  <1> DEFINE T == {k \in 0 .. n : g[k] = h[k]}
  <1>4. 0 \in T
    BY <1>1, <1>2, <1>3
  <1>5. \A k \in 1 .. n : k - 1 \in T => k \in T
    <2> SUFFICES ASSUME NEW k \in 1 .. n, k - 1 \in T PROVE k \in T
      OBVIOUS
    <2>1. k \in 0 .. n /\ k \in 1 .. Len(q) /\ q[k] = path[k]
      BY <1>1
    <2>2. g[k] = SanitizeStep(g[k - 1], path[k]) /\ h[k] = SanitizeStep(h[k - 1], q[k])
      BY <1>2, <1>3, <2>1
    <2> QED BY <2>1, <2>2
  <1>6. n \in T
    <2> HIDE DEF T
    <2>1. 0 .. n \subseteq T
      BY <1>1, <1>4, <1>5, UpTo
    <2> QED BY <1>1, <2>1
  <1>7. n + 1 \in 1 .. Len(q) /\ (n + 1) - 1 = n /\ n \in 0 .. n
    BY <1>1
  <1>8. h[n + 1] = SanitizeStep(h[n], ch)
    BY <1>1, <1>3, <1>7
  <1>9. SanitizeEnd(path) \in Scan(C)
    BY <1>2, <1>7
  <1> QED BY <1>1, <1>2, <1>3, <1>6, <1>8, <1>9 DEF q

(* A name is collected whole.                                              *)
LEMMA SanitizeName ==
  ASSUME NEW C, NEW path \in Seq(C), NEW name \in Seq(C),
         \A i \in 1 .. Len(name) : name[i] # "/", SanitizeEnd(path).seg = <<>>
  PROVE  SanitizeEnd(path \o name) = [done |-> SanitizeEnd(path).done, seg |-> name]
  <1> DEFINE m == Len(name)
             d == SanitizeEnd(path).done
             part(k) == SubSeq(name, 1, k)
             T == {k \in 0 .. m : SanitizeEnd(path \o part(k)) = [done |-> d, seg |-> part(k)]}
  <1>1. m \in Nat /\ part(m) = name
    OBVIOUS
  <1>2. \A k \in 0 .. m : part(k) \in Seq(C)
    BY FirstPart
  <1>3. 0 \in T
    <2>1. part(0) = <<>> /\ path \o <<>> = path
      OBVIOUS
    <2>2. SanitizeEnd(path) = [done |-> d, seg |-> <<>>]
      <3>1. PICK h \in [0 .. Len(path) -> Scan(C)] : SanitizeEnd(path) = h[Len(path)]
        BY SanitizeRuns
      <3>2. SanitizeEnd(path) \in Scan(C)
        <4>1. Len(path) \in 0 .. Len(path)
          OBVIOUS
        <4> QED BY <3>1, <4>1
      <3> QED BY <3>2 DEF Scan
    <2>3. 0 \in 0 .. m
      BY <1>1
    <2> HIDE DEF d, part
    <2>4. SanitizeEnd(path \o part(0)) = [done |-> d, seg |-> part(0)]
      BY <2>1, <2>2
    <2> QED BY <2>3, <2>4
  <1>4. \A k \in 1 .. m : k - 1 \in T => k \in T
    <2> SUFFICES ASSUME NEW k \in 1 .. m, k - 1 \in T PROVE k \in T
      OBVIOUS
    <2> DEFINE a == part(k - 1)
    <2>1. k \in 0 .. m /\ k - 1 \in 0 .. m /\ name[k] \in C /\ name[k] # "/"
      OBVIOUS
    <2>2. part(k) = Append(a, name[k])
      OBVIOUS
    <2>3. a \in Seq(C) /\ SanitizeEnd(path \o a) = [done |-> d, seg |-> a]
      BY <1>2, <2>1
    <2> HIDE DEF a, d, part
    <2>4. path \o a \in Seq(C) /\ path \o Append(a, name[k]) = Append(path \o a, name[k])
      BY <2>1, <2>3
    <2>5. SanitizeEnd(Append(path \o a, name[k])) = SanitizeStep(SanitizeEnd(path \o a), name[k])
      BY <2>1, <2>4, SanitizeMore
    <2>6. SanitizeStep([done |-> d, seg |-> a], name[k]) = [done |-> d, seg |-> Append(a, name[k])]
      BY <2>1 DEF SanitizeStep
    <2>7. SanitizeEnd(path \o part(k)) = [done |-> d, seg |-> part(k)]
      BY <2>2, <2>3, <2>4, <2>5, <2>6
    <2> QED BY <2>1, <2>7
  <1>5. m \in T
    <2> HIDE DEF T
    <2>1. 0 .. m \subseteq T
      BY <1>1, <1>3, <1>4, UpTo
    <2> QED BY <1>1, <2>1
  <1> QED BY <1>1, <1>5

(* All but the last, and the last.                                         *)
LEMMA FrontLast ==
  ASSUME NEW S, NEW s \in Seq(S), s # <<>>
  PROVE  s = Append(Front(s), Last(s)) /\ Front(s) \in Seq(S) /\ Last(s) \in S
  <1> DEFINE f == Front(s)
             x == Last(s)
             a == Append(f, x)
  <1>1. f \in Seq(S) /\ Len(f) = Len(s) - 1 /\ \A i \in 1 .. (Len(s) - 1) : f[i] = s[i]
    BY FrontIs
  <1>2. Len(s) \in Nat \ {0} /\ Len(s) \in 1 .. Len(s)
    OBVIOUS
  <1>3. x \in S /\ x = s[Len(s)]
    BY <1>2 DEF Last
  <1> HIDE DEF f, x
  <1>4. /\ a \in Seq(S) /\ Len(a) = Len(f) + 1 /\ a[Len(f) + 1] = x
        /\ \A i \in 1 .. Len(f) : a[i] = f[i]
    BY <1>1, <1>3
  <1> HIDE DEF a
  <1>5. Len(a) = Len(s) /\ Len(f) + 1 = Len(s)
    BY <1>1, <1>2, <1>4
  <1>6. \A i \in 1 .. Len(s) : i = Len(s) \/ i \in 1 .. (Len(s) - 1)
    BY <1>2
  <1>7. \A i \in 1 .. Len(s) : s[i] = a[i]
    BY <1>1, <1>3, <1>4, <1>5, <1>6
  <1>8. s = a
    BY <1>4, <1>5, <1>7, SameElements
  <1> QED BY <1>1, <1>3, <1>8 DEF a, f, x

LEMMA EmptyIsNoDots == <<>> # DotDot
  <1>1. <<>> # <<".", ".">>
    OBVIOUS
  <1> QED BY <1>1 DEF DotDot

(* A name after a slash, with a slash behind it or not, is one segment.    *)
LEMMA SanitizeEntry ==
  ASSUME NEW base \in Seq(Char), base # <<>>, base[Len(base)] = "/", NEW name, FileName(name)
  PROVE  /\ sanitize_path(base \o name) = Append(sanitize_path(base), name)
         /\ sanitize_path(base \o Append(name, "/")) = Append(sanitize_path(base), name)
  <1> DEFINE f == Front(base)
             s == SanitizeEnd(f)
             d == process_path_segment(s.done, s.seg)
  <1>1. /\ name \in Seq(Char) /\ name \notin {<<>>, Dot, DotDot}
        /\ \A i \in 1 .. Len(name) : name[i] # "/"
    BY DEF FileName, Dot, DotDot
  <1>2. f \in Seq(Char) /\ "/" \in Char
    BY FrontIs DEF Char
  <1>3. base = Append(f, "/")
    BY FrontLast DEF Last
  <1>4. SanitizeEnd(base) = [done |-> d, seg |-> <<>>]
    BY <1>2, <1>3, SanitizeMore DEF SanitizeStep
  <1> HIDE DEF f, s, d
  <1>5. SanitizeEnd(base).done = d /\ SanitizeEnd(base).seg = <<>>
    BY <1>4
  <1>6. sanitize_path(base) = d
    <2> QED BY <1>5, EmptyIsNoDots, SanitizeUnfolds DEF process_path_segment
  <1>7. SanitizeEnd(base \o name) = [done |-> d, seg |-> name]
    BY <1>1, <1>5, SanitizeName
  <1>8. process_path_segment(d, name) = Append(d, name)
    BY <1>1 DEF process_path_segment
  <1>9. sanitize_path(base \o name) = Append(d, name)
    BY <1>7, <1>8, SanitizeUnfolds
  <1>10. base \o Append(name, "/") = Append(base \o name, "/") /\ base \o name \in Seq(Char)
    BY <1>1, <1>2
  <1>11. SanitizeEnd(base \o Append(name, "/")) = [done |-> Append(d, name), seg |-> <<>>]
    <2>1. SanitizeEnd(Append(base \o name, "/")) = SanitizeStep(SanitizeEnd(base \o name), "/")
      BY <1>2, <1>10, SanitizeMore
    <2>2. SanitizeStep([done |-> d, seg |-> name], "/") = [done |-> Append(d, name), seg |-> <<>>]
      BY <1>8 DEF SanitizeStep
    <2> QED BY <1>7, <1>10, <2>1, <2>2
  <1>12. \A e : process_path_segment(e, <<>>) = e
    BY EmptyIsNoDots DEF process_path_segment
  <1>13. sanitize_path(base \o Append(name, "/")) = Append(d, name)
    BY <1>11, <1>12, SanitizeUnfolds
  <1> QED BY <1>6, <1>9, <1>13

-----------------------------------------------------------------------------
(***************************************************************************)
(* A name below a target: what strip_query_string and strip_route_prefix   *)
(* make of it.                                                             *)
(***************************************************************************)
(* A "?" begins a query; no character that stands for itself is one.       *)
HasQuery(name) == \E i \in 1 .. Len(name) : name[i] = "?"

LEMMA LiteralHasNone ==
  ASSUME NEW name, Literal(name)
  PROVE  ~ HasQuery(name)
  BY UnreservedAssumption DEF Literal, HasQuery

(* No "?" is left of a target whose query is stripped.                     *)
LEMMA QueryGone ==
  ASSUME NEW C, NEW uri \in Seq(C)
  PROVE  ~ HasQuery(strip_query_string(uri))
  <1> DEFINE q == {i \in DOMAIN uri : uri[i] = "?"}
  <1>1. CASE q = {}
    <2>1. strip_query_string(uri) = uri
      BY <1>1 DEF strip_query_string
    <2>2. \A i \in 1 .. Len(uri) : uri[i] # "?"
      BY <1>1
    <2> QED BY <2>1, <2>2 DEF HasQuery
  <1>2. CASE q # {}
    <2>1. q \in SUBSET Nat
      OBVIOUS
    <2> DEFINE x == CHOOSE i \in q : \A j \in q : i <= j
    <2>2. \E i \in q : \A j \in q : i <= j
      <3> HIDE DEF q
      <3> QED BY <1>2, <2>1, LeastNatural
    <2>3. x \in q /\ \A j \in q : x <= j
      <3> HIDE DEF q
      <3> QED BY <2>2
    <2>4. strip_query_string(uri) = SubSeq(uri, 1, x - 1)
      BY <1>2 DEF strip_query_string
    <2> HIDE DEF x
    <2>5. x \in 1 .. Len(uri) /\ \A i \in 1 .. Len(uri) : uri[i] = "?" => x <= i
      BY <2>3
    <2>6. x - 1 \in Nat /\ x - 1 <= Len(uri)
      BY <2>5
    <2>7. /\ Len(SubSeq(uri, 1, x - 1)) = x - 1
          /\ \A i \in 1 .. (x - 1) : SubSeq(uri, 1, x - 1)[i] = uri[i]
      BY <2>6, FirstPart
    <2>8. \A i \in 1 .. (x - 1) : i \in 1 .. Len(uri) /\ ~ (x <= i)
      BY <2>5
    <2>9. \A i \in 1 .. (x - 1) : SubSeq(uri, 1, x - 1)[i] # "?"
      BY <2>5, <2>7, <2>8
    <2> QED BY <2>4, <2>7, <2>9 DEF HasQuery
  <1> QED BY <1>1, <1>2

LEMMA QueryNone ==
  ASSUME NEW C, NEW uri \in Seq(C), ~ HasQuery(uri)
  PROVE  strip_query_string(uri) = uri
  <1>1. {i \in DOMAIN uri : uri[i] = "?"} = {}
    BY DEF HasQuery
  <1> QED BY <1>1 DEF strip_query_string

(* Two sequences joined, element by element.                               *)
LEMMA Joined ==
  ASSUME NEW S, NEW s \in Seq(S), NEW t \in Seq(S)
  PROVE  /\ s \o t \in Seq(S) /\ Len(s \o t) = Len(s) + Len(t)
         /\ \A i \in 1 .. Len(s) : (s \o t)[i] = s[i]
         /\ \A i \in 1 .. Len(t) : (s \o t)[Len(s) + i] = t[i]
  OBVIOUS

(* The end of two sequences joined.                                        *)
LEMMA RestJoined ==
  ASSUME NEW S, NEW s \in Seq(S), NEW t \in Seq(S), NEW n \in Nat, n <= Len(s)
  PROVE  SubSeq(s \o t, n + 1, Len(s \o t)) = SubSeq(s, n + 1, Len(s)) \o t
  <1> DEFINE j == s \o t
             r == SubSeq(s, n + 1, Len(s))
             a == SubSeq(j, n + 1, Len(j))
             b == r \o t
  <1>1. /\ j \in Seq(S) /\ Len(j) = Len(s) + Len(t)
        /\ \A i \in 1 .. Len(s) : j[i] = s[i]
        /\ \A i \in 1 .. Len(t) : j[Len(s) + i] = t[i]
    BY Joined
  <1>2. Len(s) \in Nat /\ Len(t) \in Nat
    OBVIOUS
  <1>3. r \in Seq(S) /\ Len(r) = Len(s) - n /\ \A i \in 1 .. (Len(s) - n) : r[i] = s[n + i]
    OBVIOUS
  <1> HIDE DEF j, r
  <1>4. n <= Len(j)
    BY <1>1, <1>2
  <1>5. a \in Seq(S) /\ Len(a) = Len(j) - n /\ \A i \in 1 .. (Len(j) - n) : a[i] = j[n + i]
    BY <1>1, <1>4
  <1>6. /\ b \in Seq(S) /\ Len(b) = Len(r) + Len(t)
        /\ \A i \in 1 .. Len(r) : b[i] = r[i]
        /\ \A i \in 1 .. Len(t) : b[Len(r) + i] = t[i]
    <2>1. r \in Seq(S)
      BY <1>3
    <2> QED BY <2>1
  <1> HIDE DEF a, b
  <1>7. Len(a) = Len(b)
    BY <1>1, <1>2, <1>3, <1>5, <1>6
  <1>8. ASSUME NEW i \in 1 .. Len(a) PROVE a[i] = b[i]
    <2>1. a[i] = j[n + i]
      BY <1>5
    <2>2. CASE i <= Len(s) - n
      <3>1. i \in 1 .. Len(r) /\ n + i \in 1 .. Len(s) /\ i \in 1 .. (Len(s) - n)
        BY <1>2, <1>3, <2>2
      <3> QED BY <1>1, <1>3, <1>6, <2>1, <3>1
    <2>3. CASE ~ (i <= Len(s) - n)
      <3> DEFINE k == i - (Len(s) - n)
      <3>1. k \in 1 .. Len(t) /\ i = Len(r) + k /\ n + i = Len(s) + k
        BY <1>1, <1>2, <1>3, <1>5, <2>3
      <3> HIDE DEF k
      <3> QED BY <1>1, <1>6, <2>1, <3>1
    <2> QED BY <2>2, <2>3
  <1>9. a = b
    BY <1>5, <1>6, <1>7, <1>8, SameElements
  <1> QED BY <1>9 DEF a, b, j, r

(* What is left of a target that ends in a slash when a location's path is *)
(* taken off: it begins and ends with one, and a name goes behind it.      *)
LEMMA StripEntry ==
  ASSUME NEW path \in Seq(Char), path # <<>>,
         NEW base \in Seq(Char), base # <<>>, base[Len(base)] = "/", IsPrefix(path, base),
         NEW name \in Seq(Char), name # <<>>, name[1] # "/"
  PROVE  LET left == strip_route_prefix(base, path)
         IN  /\ strip_route_prefix(base \o name, path) = left \o name
             /\ left \in Seq(Char) /\ left # <<>> /\ left[Len(left)] = "/"
  <1> DEFINE n == Len(path)
             rest == SubSeq(base, n + 1, Len(base))
             u == base \o name
             left == strip_route_prefix(base, path)
  <1>1. /\ n \in Nat \ {0} /\ n <= Len(base) /\ Len(base) \in Nat
        /\ \A i \in 1 .. n : path[i] = base[i]
    BY PrefixIs
  <1>2. /\ u \in Seq(Char) /\ Len(u) = Len(base) + Len(name)
        /\ \A i \in 1 .. Len(base) : u[i] = base[i]
    BY Joined
  <1>3. IsPrefix(path, u)
    <2>1. Len(name) \in Nat
      OBVIOUS
    <2> HIDE DEF u, n
    <2>2. n <= Len(u) /\ \A i \in 1 .. n : path[i] = u[i]
      BY <1>1, <1>2, <2>1
    <2> QED BY <1>2, <2>2, PrefixIs DEF n
  <1>4. SubSeq(u, n + 1, Len(u)) = rest \o name
    BY <1>1, RestJoined
  <1>5. rest \in Seq(Char) /\ Len(rest) = Len(base) - n
          /\ \A i \in 1 .. (Len(base) - n) : rest[i] = base[n + i]
    BY <1>1
  <1>6. <<"/">> \in Seq(Char) /\ Len(<<"/">>) = 1 /\ <<"/">>[1] = "/"
    BY Singleton DEF Char
  <1> HIDE DEF n, rest, u
  <1>7. CASE path = <<"/">>
    <2>1. strip_route_prefix(u, path) = u /\ strip_route_prefix(base, path) = base
      BY <1>7 DEF strip_route_prefix
    <2> QED BY <2>1 DEF u
  <1>8. CASE path # <<"/">>
    <2>1. strip_route_prefix(base, path) =
            IF rest = <<>> \/ rest[1] # "/" THEN <<"/">> \o rest ELSE rest
      BY <1>8 DEF strip_route_prefix, rest, n
    <2>2. strip_route_prefix(u, path) =
            IF rest \o name = <<>> \/ (rest \o name)[1] # "/" THEN <<"/">> \o (rest \o name)
            ELSE rest \o name
      BY <1>3, <1>4, <1>8 DEF strip_route_prefix, n
    <2>3. CASE rest = <<>>
      <3>1. rest \o name = name
        BY <2>3
      <3>2. <<"/">> \o rest = <<"/">>
        BY <2>3
      <3> QED BY <1>6, <2>1, <2>2, <2>3, <3>1, <3>2 DEF u
    <2>4. CASE rest # <<>>
      <3>1. rest[Len(rest)] = "/" /\ Len(rest) \in Nat \ {0}
        <4>1. Len(rest) \in Nat \ {0}
          BY <1>5, <2>4
        <4>2. Len(rest) \in 1 .. (Len(base) - n) /\ n + Len(rest) = Len(base)
          BY <1>1, <1>5, <4>1
        <4> QED BY <1>5, <4>1, <4>2
      <3>2. /\ rest \o name \in Seq(Char) /\ rest \o name # <<>>
            /\ (rest \o name)[1] = rest[1]
        <4>1. 1 \in 1 .. Len(rest)
          BY <3>1
        <4>a. /\ rest \o name \in Seq(Char) /\ Len(rest \o name) = Len(rest) + Len(name)
              /\ \A i \in 1 .. Len(rest) : (rest \o name)[i] = rest[i]
          <5>1. rest \in Seq(Char)
            BY <1>5
          <5> QED BY <5>1
        <4>2. /\ rest \o name \in Seq(Char) /\ Len(rest \o name) = Len(rest) + Len(name)
              /\ (rest \o name)[1] = rest[1]
          BY <4>1, <4>a, Zenon
        <4>3. Len(name) \in Nat
          OBVIOUS
        <4>4. Len(rest \o name) # 0
          BY <3>1, <4>2, <4>3
        <4> QED BY <4>2, <4>4
      <3>3. CASE rest[1] = "/"
        <4>1. strip_route_prefix(base, path) = rest /\ strip_route_prefix(u, path) = rest \o name
          BY <2>1, <2>2, <2>4, <3>2, <3>3
        <4> QED BY <1>5, <2>4, <3>1, <4>1 DEF u
      <3>4. CASE rest[1] # "/"
        <4> DEFINE l == <<"/">> \o rest
        <4>1. strip_route_prefix(base, path) = l
                /\ strip_route_prefix(u, path) = <<"/">> \o (rest \o name)
          BY <2>1, <2>2, <2>4, <3>2, <3>4
        <4>2. <<"/">> \o (rest \o name) = l \o name
          BY <1>5, <1>6
        <4>3. /\ l \in Seq(Char) /\ Len(l) = 1 + Len(rest)
              /\ \A i \in 1 .. Len(rest) : l[1 + i] = rest[i]
          BY <1>5, <1>6, Joined
        <4>4. Len(rest) \in 1 .. Len(rest)
          BY <3>1
        <4>5. l[Len(l)] = "/"
          BY <3>1, <4>3, <4>4
        <4>6. Len(l) # 0
          BY <3>1, <4>3
        <4> HIDE DEF l
        <4>7. l # <<>>
          BY <4>6
        <4> QED BY <4>1, <4>2, <4>3, <4>5, <4>7 DEF u
      <3> QED BY <3>3, <3>4
    <2> QED BY <2>3, <2>4
  <1> QED BY <1>7, <1>8 DEF u

(* The root has no segments.                                               *)
LEMMA RootIsEmpty == sanitize_path(<<"/">>) = <<>>
  <1>1. <<>> \in Seq(Char) /\ "/" \in Char
    BY DEF Char
  <1>2. <<"/">> = Append(<<>>, "/")
    OBVIOUS
  <1>3. SanitizeEnd(<<>>) = SanitizeStart
    <2>1. Len(<<>>) = 0
      OBVIOUS
    <2> DEFINE e == <<>>
    <2>2. e \in Seq(Char) /\ Len(e) = 0
      BY <1>1, <2>1
    <2> HIDE DEF e
    <2>3. PICK h \in [0 .. Len(e) -> Scan(Char)] :
             h[0] = SanitizeStart /\ SanitizeEnd(e) = h[Len(e)]
      BY <2>2, SanitizeRuns
    <2>4. SanitizeEnd(e) = SanitizeStart
      BY <2>2, <2>3
    <2> QED BY <2>4 DEF e
  <1>4. process_path_segment(<<>>, <<>>) = <<>>
    BY EmptyIsNoDots DEF process_path_segment
  <1>5. SanitizeEnd(<<"/">>) = SanitizeStep(SanitizeStart, "/")
    BY <1>1, <1>2, <1>3, SanitizeMore
  <1>6. SanitizeStep(SanitizeStart, "/") = [done |-> <<>>, seg |-> <<>>]
    BY <1>4 DEF SanitizeStep, SanitizeStart
  <1> QED BY <1>4, <1>5, <1>6, SanitizeUnfolds

(* A location's path with a slash at its end names the location's root.    *)
LEMMA LocationDir ==
  ASSUME NEW path \in Seq(Char), path # <<>>, ~ HasQuery(path)
  PROVE  LET base == path \o (IF Last(path) = "/" THEN <<>> ELSE <<"/">>)
         IN  /\ base \in Seq(Char) /\ base # <<>> /\ base[Len(base)] = "/" /\ ~ HasQuery(base)
             /\ IsPrefix(path, base) /\ strip_route_prefix(base, path) = <<"/">>
  <1> DEFINE n == Len(path)
             sep == IF Last(path) = "/" THEN <<>> ELSE <<"/">>
             base == path \o sep
  <1>1. n \in Nat \ {0} /\ n \in 1 .. n /\ Last(path) = path[n] /\ \A i \in 1 .. n : path[i] # "?"
    BY DEF Last, HasQuery
  <1>2. /\ <<"/">> \in Seq(Char) /\ Len(<<"/">>) = 1 /\ <<"/">>[1] = "/"
        /\ <<>> \in Seq(Char) /\ Len(<<>>) = 0
    BY Singleton DEF Char
  <1>3. SubSeq(path, n + 1, n) = <<>>
    OBVIOUS
  <1>4. CASE Last(path) = "/"
    <2>1. path \o <<>> = path
      OBVIOUS
    <2>2. base = path
      BY <1>4, <2>1
    <2>3. IsPrefix(path, path)
      <3>1. Len(path) <= Len(path)
        BY <1>1
      <3> QED BY <3>1, PrefixIs
    <2>4. <<"/">> \o <<>> = <<"/">>
      OBVIOUS
    <2> HIDE DEF n
    <2>5. strip_route_prefix(path, path) = <<"/">>
      BY <1>3, <2>3, <2>4 DEF strip_route_prefix, n
    <2>6. path[Len(path)] = "/"
      BY <1>4 DEF Last
    <2> HIDE DEF base, sep
    <2>7. /\ base \in Seq(Char) /\ base # <<>> /\ base[Len(base)] = "/" /\ ~ HasQuery(base)
          /\ IsPrefix(path, base) /\ strip_route_prefix(base, path) = <<"/">>
      BY <2>2, <2>3, <2>5, <2>6
    <2> QED BY <2>7 DEF base, sep
  <1>5. CASE Last(path) # "/"
    <2> DEFINE b == path \o <<"/">>
    <2>1. base = b
      BY <1>5
    <2>2. /\ b \in Seq(Char) /\ Len(b) = n + 1 /\ b[n + 1] = "/" /\ \A i \in 1 .. n : b[i] = path[i]
      BY <1>2
    <2>3. SubSeq(b, n + 1, Len(b)) = SubSeq(path, n + 1, n) \o <<"/">>
      BY <1>1, <1>2, RestJoined
    <2>4. <<>> \o <<"/">> = <<"/">>
      OBVIOUS
    <2> HIDE DEF b, base, sep
    <2>5. b # <<>> /\ b[Len(b)] = "/"
      BY <1>1, <2>2
    <2>6. ~ HasQuery(b)
      <3>1. \A i \in 1 .. Len(b) : i = n + 1 \/ i \in 1 .. n
        BY <1>1, <2>2
      <3>2. \A i \in 1 .. Len(b) : b[i] # "?"
        BY <1>1, <2>2, <3>1
      <3> QED BY <3>2 DEF HasQuery
    <2> HIDE DEF n
    <2>7. IsPrefix(path, b)
      <3>1. Len(path) <= Len(b) /\ \A i \in 1 .. Len(path) : path[i] = b[i]
        BY <1>1, <2>2 DEF n
      <3> QED BY <2>2, <3>1, PrefixIs
    <2>8. path # <<"/">>
      <3>1. Last(<<"/">>) = "/"
        BY <1>2 DEF Last
      <3> QED BY <1>5, <3>1
    <2>9. SubSeq(b, Len(path) + 1, Len(b)) = <<"/">>
      BY <1>3, <2>3, <2>4 DEF n
    <2>10. <<"/">> # <<>>
      OBVIOUS
    <2>11. strip_route_prefix(b, path) = <<"/">>
      BY <1>2, <2>7, <2>8, <2>9, <2>10 DEF strip_route_prefix
    <2> QED BY <2>1, <2>2, <2>5, <2>6, <2>7, <2>11 DEF base, sep
  <1> QED BY <1>4, <1>5

-----------------------------------------------------------------------------
(***************************************************************************)
(* The files, and what the answers to an upload and to a listing say of    *)
(* them: the invariant behind EndedByDirectory, UploadedIsServed and       *)
(* LinksLead.                                                              *)
(***************************************************************************)
PayloadOK == req.state # "idle" => req.payload \in Payloads

(* No request makes a directory.                                           *)
FilesOK ==
  \A p \in DOMAIN files :
    /\ p \in Seq(Seq(Char)) /\ (p # <<>> => FileName(Last(p)))
    /\ files[p] \in Node
    /\ files[p].kind = "dir" => p \in DOMAIN Tree /\ Tree[p].kind = "dir"

(* An upload that was stored is in the file it was stored to, if it could  *)
(* be written, and nothing else is.                                        *)
Stored ==
  resp.by = "stored" =>
    /\ Chosen # 0
    /\ resp.path = Walk(UploadPath(routes[Chosen], req.payload))
    /\ resp.path \in DOMAIN files /\ files[resp.path].kind = "file"
    /\ req.payload.type = "multipart" =>
         files[resp.path].data \in {<<>>, <<req.payload.data>>}

(* A listing is of the directory the request names; it links to names.     *)
EntryLink(n) == n \in Seq(Char) /\ n # <<>> /\ FileName(Entry(n))
Entries(names) == \A n \in names : n = Append(DotDot, "/") \/ EntryLink(n)
Listed == resp.by = "autoindex" => Chosen # 0 /\ resp.path = Target /\ Entries(resp.names)

AnswerInv == PayloadOK /\ FilesOK /\ Stored /\ Listed

(* The link made of a name.                                                *)
LEMMA EntryIsLink ==
  ASSUME NEW s, FileName(s)
  PROVE  EntryLink(s) /\ EntryLink(Append(s, "/"))
  <1> DEFINE a == Append(s, "/")
  <1>1. s \in Seq(Char) /\ "/" \in Char
    BY DEF FileName, Char
  <1>2. /\ a \in Seq(Char) /\ Len(a) = Len(s) + 1 /\ Len(s) \in Nat /\ a[Len(s) + 1] = "/"
        /\ \A i \in 1 .. Len(s) : a[i] = s[i]
    BY <1>1
  <1> HIDE DEF a
  <1>3. a # <<>> /\ Len(a) - 1 = Len(s)
    BY <1>2
  <1>4. Last(a) = "/"
    BY <1>2 DEF Last
  <1>5. /\ Front(a) \in Seq(Char) /\ Len(Front(a)) = Len(a) - 1
        /\ \A i \in 1 .. (Len(a) - 1) : Front(a)[i] = a[i]
    BY <1>2, <1>3, FrontIs
  <1>6. Front(a) = s
    BY <1>1, <1>2, <1>3, <1>5, SameElements
  <1>7. s # <<>> /\ Last(s) # "/"
    <2>1. s # <<>> /\ \A i \in 1 .. Len(s) : s[i] # "/"
      BY DEF FileName
    <2>2. Len(s) \in 1 .. Len(s)
      BY <1>1, <2>1
    <2> QED BY <2>1, <2>2 DEF Last
  <1> QED BY <1>1, <1>2, <1>3, <1>4, <1>6, <1>7 DEF EntryLink, Entry, a

(* generate_autoindex links to names of files.                             *)
LEMMA ListedNames ==
  ASSUME FilesOK, NEW path, Walk(path) \in Seq(Seq(Char)), NEW junk \in BOOLEAN,
         generate_autoindex(path, junk).by = "autoindex"
  PROVE  Entries(generate_autoindex(path, junk).names)
  <1> DEFINE Link(p) == IF files[p].kind = "dir" \/ (files[p].kind = "dangling" /\ junk)
                        THEN Append(Last(p), "/") ELSE Last(p)
             links == {Append(DotDot, "/")} \cup {Link(p) : p \in Children(path)}
             answer == [Response(200, <<"listing">>, "autoindex", Walk(path))
                          EXCEPT !.names = links]
  <1>1. generate_autoindex(path, junk) = IF ~ At(path).r THEN Error(404) ELSE answer
    BY DEF generate_autoindex
  <1>2. Error(404).by # "autoindex"
    BY ErrorBy
  <1>3. answer.names = links
    BY DEF Response
  <1>4. ASSUME NEW p \in Children(path) PROVE EntryLink(Link(p))
    <2>1. p \in DOMAIN files /\ Len(p) = Len(Walk(path)) + 1
      BY DEF Children
    <2>2. p # <<>>
      <3>1. Len(Walk(path)) \in Nat
        OBVIOUS
      <3>2. Len(p) # 0
        BY <2>1, <3>1
      <3> QED BY <3>2
    <2>3. FileName(Last(p))
      BY <2>1, <2>2 DEF FilesOK
    <2>4. EntryLink(Last(p)) /\ EntryLink(Append(Last(p), "/"))
      BY <2>3, EntryIsLink
    <2> QED BY <2>4
  <1> HIDE DEF Link, answer
  <1>5. Entries(links)
    BY <1>4 DEF Entries
  <1> HIDE DEF links
  <1>6. generate_autoindex(path, junk) = answer
    BY <1>1, <1>2
  <1> QED BY <1>3, <1>5, <1>6

(* What handle_get lists.                                                  *)
LEMMA GetLists ==
  ASSUME RequestOK, FilesOK, Routed, NEW ok \in BOOLEAN, NEW junk \in BOOLEAN
  PROVE  LET r == handle_get(req.uri, routes[Chosen], ok, junk)
         IN  /\ r.by # "stored" /\ clear_body(r).by = r.by
             /\ r.by = "autoindex" => r.path = Target /\ Entries(r.names)
             /\ clear_body(r).path = r.path /\ clear_body(r).names = r.names
  <1> DEFINE route == routes[Chosen]
             path == FilePath(req.uri, route)
             index == Append(path, index_file(route))
             r == handle_get(req.uri, route, ok, junk)
             list == generate_autoindex(path, junk)
  <1>1. req.uri \in Seq(Char) /\ Named(route)
    BY RoutedRoute DEF RequestOK, Request
  <1>2. Walk(path) = path /\ path \in Clean(Char)
    BY <1>1, FilePathDown
  <1>3. r = IF ~ Found(path) THEN Error(404)
            ELSE IF At(path).kind # "dir" THEN ServeFile(path, ok)
            ELSE IF Found(index) THEN ServeFile(index, ok)
            ELSE IF route.autoindex THEN list
            ELSE Error(404)
    BY DEF handle_get
  <1>4. GetAnswer(path, index, r)
    BY GotBy
  <1>5. /\ clear_body(r).by = r.by /\ clear_body(r).path = r.path
        /\ clear_body(r).names = r.names
    <2>1. "by" # "body" /\ "path" # "body" /\ "names" # "body"
      OBVIOUS
    <2> QED BY <2>1 DEF clear_body
  <1>6. path \in Seq(Seq(Char))
    <2> HIDE DEF path
    <2> QED BY <1>2, CleanIs
  <1> HIDE DEF r, path, index, list
  <1>7. r.by # "stored"
    BY <1>4 DEF GetAnswer
  <1>8. ASSUME r.by = "autoindex" PROVE r.path = path /\ Entries(r.names)
    <2>1. /\ Error(404).by # "autoindex"
          /\ ServeFile(path, ok).by # "autoindex" /\ ServeFile(index, ok).by # "autoindex"
      BY ErrorBy, ServedBy
    <2>2. r = list
      BY <1>3, <1>8, <2>1
    <2>3. list.by = "autoindex" /\ list.path = Walk(path)
      BY <1>8, <2>2, ListedBy DEF list
    <2>4. Entries(list.names)
      BY <1>2, <1>6, <2>3, ListedNames DEF list
    <2> QED BY <1>2, <2>2, <2>3, <2>4
  <1> QED BY <1>5, <1>7, <1>8 DEF r, path, Target

(* Any answer that was not stored.                                         *)
LEMMA AnswerKeeps ==
  ASSUME RequestOK, PayloadOK, Ready, NEW r, Reply(r), routes' = routes, FilesOK', r.by # "stored",
         r.by = "autoindex" => Chosen # 0 /\ r.path = Target /\ Entries(r.names)
  PROVE  AnswerInv'
  <1>1. resp' = r /\ Chosen' = Chosen /\ req'.uri = req.uri
    BY Replied
  <1>2. req'.payload = req.payload
    BY DEF Reply, RequestOK, Request
  <1>3. PayloadOK'
    BY <1>2 DEF PayloadOK, Ready
  <1>4. Stored'
    BY <1>1 DEF Stored
  <1>5. Listed'
    BY <1>1 DEF Listed, Target
  <1> QED BY <1>3, <1>4, <1>5 DEF AnswerInv

(* handle_post opens a name, whatever directories lead to it.              *)
LEMMA UploadNamed ==
  ASSUME NEW route, Named(route), NEW p \in Payloads, CanWrite(UploadPath(route, p))
  PROVE  LET at == Walk(UploadPath(route, p))
         IN  at \in Seq(Seq(Char)) /\ FileName(Last(at))
  <1> DEFINE form == <<"form_data.txt">>
             tail == IF p.type = "multipart" THEN Split(p.name) ELSE <<form>>
             dir == uploads_dir(route)
             path == <<dir>> \o tail
  <1>1. tail \in Segs(Char) /\ Bare(Last(tail))
    <2>1. Split(p.name) \in Segs(Char) /\ Bare(Last(Split(p.name)))
      <3>1. p.name \in Seq(Char)
        BY PayloadsAssumption
      <3> QED BY <3>1, SplitTail
    <2>2. form \in Seq(Char) /\ Bare(form)
      <3>1. FileName(form)
        BY WordName DEF Char
      <3> QED BY <3>1, NameIs DEF Names, Bare
    <2> HIDE DEF form
    <2>3. <<form>> \in Seq(Seq(Char)) /\ Len(<<form>>) = 1 /\ <<form>>[1] = form
      BY <2>2, Singleton
    <2>4. <<form>> \in Segs(Char) /\ Last(<<form>>) = form
      BY <2>3 DEF Segs, Last
    <2> QED BY <2>1, <2>2, <2>4
  <1>2. dir \in Seq(Char)
    BY DirsAreNames, NameIs DEF Names
  <1>3. UploadPath(route, p) = path
    BY DEF UploadPath
  <1> HIDE DEF tail, dir
  <1>4. path \in Seq(Seq(Char)) /\ path # <<>> /\ Last(path) = Last(tail)
    <2>1. tail \in Seq(Seq(Char)) /\ tail # <<>>
      BY <1>1 DEF Segs
    <2>2. <<dir>> \in Seq(Seq(Char)) /\ Len(<<dir>>) = 1
      BY <1>2, Singleton
    <2>3. /\ path \in Seq(Seq(Char)) /\ Len(path) = 1 + Len(tail)
          /\ \A i \in 1 .. Len(tail) : path[1 + i] = tail[i]
      BY <2>1, <2>2, Joined
    <2>4. Len(tail) \in Nat \ {0} /\ Len(tail) \in 1 .. Len(tail)
      BY <2>1
    <2> HIDE DEF path
    <2>5. path # <<>> /\ path[Len(path)] = tail[Len(tail)]
      BY <2>3, <2>4
    <2> QED BY <2>3, <2>5 DEF Last
  <1> HIDE DEF path
  <1>5. Last(path) \in Seq(Char)
    BY <1>4, FrontLast
  <1>6. Last(path) \notin {<<>>, Dot, DotDot}
    BY <1>3 DEF CanWrite
  <1>7. FileName(Last(path))
    BY <1>1, <1>4, <1>5, <1>6 DEF FileName, Dot, DotDot, Bare
  <1>8. Walk(path) \in Seq(Seq(Char)) /\ Last(Walk(path)) = Last(path)
    BY <1>4, <1>6, WalkLast
  <1> QED BY <1>3, <1>7, <1>8

(* The data of a node, replaced.                                           *)
LEMMA NodeData ==
  ASSUME NEW node \in Node, NEW data \in Seq(STRING)
  PROVE  LET n == [node EXCEPT !.data = data]
         IN  n \in Node /\ n.kind = node.kind /\ n.data = data
  BY DEF Node

LEMMA PostStores ==
  ASSUME RequestOK, AnswerInv, OnPost
  PROVE  AnswerInv'
  <1> DEFINE p == req.payload
             route == routes[Chosen]
             at == Walk(UploadPath(route, p))
             r == handle_post(route, p)
             new == [kind |-> "file", r |-> TRUE, w |-> TRUE, data |-> <<>>]
             node == IF r.path \in DOMAIN files THEN files[r.path] ELSE new
  <1>1. PICK written \in BOOLEAN :
          /\ Routed /\ Reply(r) /\ routes' = routes
          /\ files' = IF r.by # "stored" THEN files
                      ELSE [f \in DOMAIN files \cup {r.path} |->
                              IF f = r.path
                              THEN [node EXCEPT !.data = UploadData(r.path, p, written)]
                              ELSE files[f]]
    BY DEF OnPost
  <1>2. Ready /\ Chosen # 0
    BY <1>1, EarlyBy DEF Routed
  <1>3. p \in Payloads
    BY <1>2 DEF AnswerInv, PayloadOK, Ready
  <1>4. Named(route)
    BY <1>1, RoutedRoute
  <1>5. /\ r.by \in {"stored", "received"}
        /\ r.by = "stored" => r.path = at /\ CanWrite(UploadPath(route, p))
    BY DEF handle_post, Response, Stores
  <1>6. FilesOK
    BY DEF AnswerInv
  <1>7. UploadPath(routes[Chosen], req.payload) = UploadPath(route, p)
    OBVIOUS
  <1> HIDE DEF r
  <1>10. CASE r.by # "stored"
    <2>1. FilesOK'
      BY <1>1, <1>6, <1>10 DEF FilesOK
    <2> QED BY <1>1, <1>2, <1>5, <1>10, <2>1, AnswerKeeps DEF AnswerInv
  <1>11. CASE r.by = "stored"
    <2> DEFINE data == UploadData(at, p, written)
               stored == [node EXCEPT !.data = data]
    <2>1. r.path = at /\ CanWrite(UploadPath(route, p))
      BY <1>5, <1>11
    <2>2. at \in Seq(Seq(Char)) /\ FileName(Last(at))
      BY <1>3, <1>4, <2>1, UploadNamed
    <2>3. at \in DOMAIN files => files[at] \in Node /\ files[at].kind = "file"
      BY <1>6, <2>1 DEF FilesOK, CanWrite, At
    <2>4. new \in Node /\ new.kind = "file"
      BY DEF Node
    <2>5. node \in Node /\ node.kind = "file"
      <3> HIDE DEF new, at
      <3> QED BY <2>1, <2>3, <2>4
    <2>6. p.data \in STRING
      BY <1>3, PayloadsAssumption
    <2>7. Old(at) \in Seq(STRING)
      <3> HIDE DEF at
      <3>1. <<>> \in Seq(STRING)
        OBVIOUS
      <3>2. at \in DOMAIN files => files[at].data \in Seq(STRING)
        BY <2>3 DEF Node
      <3> QED BY <3>1, <3>2 DEF Old
    <2>8. data \in Seq(STRING) /\ (p.type = "multipart" => data \in {<<>>, <<p.data>>})
      <3>1. /\ <<>> \in Seq(STRING) /\ Append(<<>>, p.data) \in Seq(STRING)
            /\ Append(Old(at), p.data) \in Seq(STRING) /\ Append(<<>>, p.data) = <<p.data>>
        BY <2>6, <2>7
      <3> HIDE DEF p, at
      <3> QED BY <2>7, <3>1 DEF UploadData
    <2> HIDE DEF at, node, data
    <2>9. stored \in Node /\ stored.kind = "file" /\ stored.data = data
      BY <2>5, <2>8, NodeData
    <2>10. files' = [f \in DOMAIN files \cup {at} |-> IF f = at THEN stored ELSE files[f]]
      BY <1>1, <1>11, <2>1 DEF data
    <2> HIDE DEF stored
    <2>11. /\ DOMAIN files' = {at} \cup DOMAIN files /\ files'[at] = stored
           /\ \A f \in DOMAIN files : f # at => files'[f] = files[f]
      BY <2>10
    <2>12. FilesOK'
      BY <1>6, <2>2, <2>9, <2>11 DEF FilesOK
    <2>13. resp' = r /\ Chosen' = Chosen
      BY <1>1, Replied
    <2>14. req'.payload = p
      BY <1>1 DEF Reply, RequestOK, Request
    <2>15. PayloadOK'
      BY <1>3, <2>14 DEF PayloadOK
    <2>16. Walk(UploadPath(routes[Chosen], req.payload))' = at
      BY <1>1, <2>13, <2>14 DEF UploadPath, uploads_dir, at
    <2>17. Stored'
      BY <1>2, <2>1, <2>8, <2>9, <2>11, <2>13, <2>14, <2>16 DEF Stored
    <2>18. Listed'
      BY <1>11, <2>13 DEF Listed
    <2> QED BY <2>12, <2>15, <2>17, <2>18 DEF AnswerInv
  <1> QED BY <1>10, <1>11

LEMMA AnswerStep == HandlerInv /\ AnswerInv /\ [Next]_vars => AnswerInv'
  <1> SUFFICES ASSUME HandlerInv, AnswerInv, [Next]_vars PROVE AnswerInv'
    OBVIOUS
  <1>0. RequestOK /\ PayloadOK /\ FilesOK
    BY DEF HandlerInv, AnswerInv
  <1>1. CASE Receive
    <2>1. /\ routes' = routes /\ files' = files /\ resp' = resp /\ req.state = "idle"
          /\ \E m \in Methods, u \in Uris, n \in Lengths, p \in Payloads :
               req' = [state |-> "complete", method |-> m, uri |-> u, len |-> n, payload |-> p]
      BY <1>1 DEF Receive
    <2>2. resp'.by = "nothing"
      BY <1>0, <2>1 DEF RequestOK
    <2>3. req'.payload \in Payloads
      BY <2>1
    <2>4. FilesOK'
      BY <1>0, <2>1 DEF FilesOK
    <2> QED BY <2>2, <2>3, <2>4 DEF AnswerInv, PayloadOK, Stored, Listed
  <1>2. CASE Close
    <2>1. files' = files /\ req'.state = "idle" /\ resp'.by = "nothing"
      BY <1>2 DEF Close, NoResponse, Response, Idle
    <2>2. FilesOK'
      BY <1>0, <2>1 DEF FilesOK
    <2> QED BY <2>1, <2>2 DEF AnswerInv, PayloadOK, Stored, Listed
  <1>3. CASE AnswerEarly
    <2>1. Reply(Early(Chosen)) /\ routes' = routes /\ files' = files /\ Ready
      BY <1>3 DEF AnswerEarly
    <2>2. Early(Chosen).by \notin {"stored", "autoindex"}
      BY EarlyBy
    <2>3. FilesOK'
      BY <1>0, <2>1 DEF FilesOK
    <2> QED BY <1>0, <2>1, <2>2, <2>3, AnswerKeeps
  <1>4. CASE OnGet
    <2>1. PICK ok \in BOOLEAN, junk \in BOOLEAN :
            Reply(handle_get(req.uri, routes[Chosen], ok, junk))
      BY <1>4 DEF OnGet
    <2>2. Routed /\ Ready /\ routes' = routes /\ files' = files
      BY <1>4 DEF OnGet, Routed
    <2> DEFINE r == handle_get(req.uri, routes[Chosen], ok, junk)
    <2>3. r.by # "stored" /\ (r.by = "autoindex" => r.path = Target /\ Entries(r.names))
      BY <1>0, <2>2, GetLists
    <2>4. Chosen # 0 /\ Reply(r)
      BY <2>1, <2>2, EarlyBy DEF Routed
    <2>5. FilesOK'
      BY <1>0, <2>2 DEF FilesOK
    <2> HIDE DEF r
    <2> QED BY <1>0, <2>2, <2>3, <2>4, <2>5, AnswerKeeps
  <1>5. CASE OnHead
    <2>1. PICK ok \in BOOLEAN, junk \in BOOLEAN :
            Reply(clear_body(handle_get(req.uri, routes[Chosen], ok, junk)))
      BY <1>5 DEF OnHead
    <2>2. Routed /\ Ready /\ routes' = routes /\ files' = files
      BY <1>5 DEF OnHead, Routed
    <2> DEFINE r == handle_get(req.uri, routes[Chosen], ok, junk)
               h == clear_body(r)
    <2>3. /\ r.by # "stored" /\ (r.by = "autoindex" => r.path = Target /\ Entries(r.names))
          /\ h.by = r.by /\ h.path = r.path /\ h.names = r.names
      BY <1>0, <2>2, GetLists
    <2>4. Chosen # 0 /\ Reply(h)
      BY <2>1, <2>2, EarlyBy DEF Routed
    <2>5. FilesOK'
      BY <1>0, <2>2 DEF FilesOK
    <2> HIDE DEF r, h
    <2> QED BY <1>0, <2>2, <2>3, <2>4, <2>5, AnswerKeeps
  <1>6. CASE OnPost
    BY <1>0, <1>6, PostStores
  <1>7. CASE OnDelete
    <2>1. PICK ok \in BOOLEAN :
            LET r == handle_delete(req.uri, routes[Chosen], ok)
            IN  /\ Reply(r)
                /\ files' = IF r.by = "deleted" THEN Restrict(files, DOMAIN files \ {r.path})
                            ELSE files
      BY <1>7 DEF OnDelete
    <2>2. Ready /\ routes' = routes
      BY <1>7 DEF OnDelete, Routed
    <2> DEFINE r == handle_delete(req.uri, routes[Chosen], ok)
    <2>3. r.by \notin {"stored", "autoindex"}
      BY DeletedBy
    <2>4. Reply(r) /\ files' \in {files, Restrict(files, DOMAIN files \ {r.path})}
      BY <2>1
    <2> HIDE DEF r
    <2>5. DOMAIN files' \subseteq DOMAIN files /\ \A f \in DOMAIN files' : files'[f] = files[f]
      BY <2>4 DEF Restrict
    <2>6. FilesOK'
      BY <1>0, <2>5 DEF FilesOK
    <2> QED BY <1>0, <2>2, <2>3, <2>4, <2>6, AnswerKeeps
  <1>8. CASE OnOther
    <2>1. Reply(Error(405)) /\ routes' = routes /\ files' = files /\ Ready
      BY <1>8 DEF OnOther, Routed
    <2>2. Error(405).by \notin {"stored", "autoindex"}
      BY ErrorBy
    <2>3. FilesOK'
      BY <1>0, <2>1 DEF FilesOK
    <2> QED BY <1>0, <2>1, <2>2, <2>3, AnswerKeeps
  <1>9. CASE UNCHANGED vars
    <2>1. routes' = routes /\ files' = files /\ req' = req /\ resp' = resp
      BY <1>9 DEF vars
    <2>2. Chosen' = Chosen
      BY <2>1, ChosenIs
    <2>3. PayloadOK' /\ FilesOK'
      BY <1>0, <2>1 DEF PayloadOK, FilesOK
    <2>4. Stored' /\ Listed'
      BY <2>1, <2>2 DEF AnswerInv, Stored, Listed, Target, UploadPath, uploads_dir
    <2> QED BY <2>3, <2>4 DEF AnswerInv
  <1> QED BY <1>1, <1>2, <1>3, <1>4, <1>5, <1>6, <1>7, <1>8, <1>9 DEF Next

(* The invariant holds in every state of every behaviour.                  *)
THEOREM AnswerInvariant == Spec => []AnswerInv
  <1>1. Init => AnswerInv
    <2> SUFFICES ASSUME Init PROVE AnswerInv
      OBVIOUS
    <2>1. resp.by = "nothing" /\ req.state = "idle" /\ files = Tree
      BY DEF Init, NoResponse, Response, Idle
    <2>2. FilesOK
      <3> SUFFICES ASSUME NEW p \in DOMAIN Tree, p # <<>>
                   PROVE  FileName(Last(p))
        BY <2>1, TreeAssumption DEF FilesOK
      <3>1. p \in Seq(Seq(Char)) /\ \A i \in 1 .. Len(p) : FileName(p[i])
        BY TreeAssumption
      <3>2. Len(p) \in 1 .. Len(p)
        BY <3>1
      <3> QED BY <3>1, <3>2 DEF Last
    <2> QED BY <2>1, <2>2 DEF AnswerInv, PayloadOK, Stored, Listed
  <1> QED BY <1>1, AnswerStep, HandlerInvariant, PTL DEF Spec

(* Nothing but a directory that was there from the start ends the server:  *)
(* in place of an error page (HTTPResponse::load_error_page) or of an      *)
(* index file (handle_get).                                                *)
THEOREM OnlyEndedByDirectory == Spec => []EndedByDirectory
  <1>1. HandlerInv /\ AnswerInv => EndedByDirectory
    <2> SUFFICES ASSUME HandlerInv, AnswerInv, req.state = "ended"
                 PROVE  /\ resp.path \in DOMAIN Tree /\ Tree[resp.path].kind = "dir"
                        /\ \/ \E status \in DOMAIN ErrorPages : resp.path = Walk(ErrorPages[status])
                           \/ /\ Chosen # 0
                              /\ resp.path = Append(Walk(FilePath(req.uri, routes[Chosen])),
                                                    index_file(routes[Chosen]))
      BY DEF EndedByDirectory
    <2>1. Ends(resp.path)
      BY DEF HandlerInv, Ended
    <2> QED BY <2>1 DEF Ends, Target, AnswerInv, FilesOK
  <1> QED BY <1>1, HandlerInvariant, AnswerInvariant, PTL

-----------------------------------------------------------------------------
(***************************************************************************)
(* A name under the target of a location.                                  *)
(***************************************************************************)
LEMMA ChosenRoute ==
  ASSUME RequestOK, Chosen # 0
  PROVE  LET route == routes[Chosen]
         IN  /\ Named(route) /\ route.path \in Seq(Char) /\ route.path # <<>>
             /\ peek_uri \in Seq(Char) /\ ~ HasQuery(peek_uri)
             /\ IsPrefix(route.path, peek_uri)
  <1>1. routes \in Seq(Route) /\ \A i \in 1 .. Len(routes) :
          /\ routes[i].path # <<>>
          /\ \A dir \in {routes[i].root, routes[i].index, routes[i].upload_store} :
               dir = <<>> \/ FileName(dir)
    BY TablesAssumption DEF RequestOK
  <1>2. FirstLongest(routes, peek_uri, Len(routes), Chosen)
    BY <1>1, ChosenIs, MatchIsFirstLongest DEF peek_uri
  <1>3. Chosen \in 1 .. Len(routes) /\ Covers(routes[Chosen].path, peek_uri)
    BY <1>1, <1>2 DEF FirstLongest
  <1>4. IsPrefix(routes[Chosen].path, peek_uri)
    BY <1>3 DEF Covers
  <1>5. req.uri \in Seq(Char)
    BY DEF RequestOK, Request
  <1>6. peek_uri \in Seq(Char)
    BY <1>5, StripTypes DEF peek_uri
  <1>7. ~ HasQuery(peek_uri)
    BY <1>5, QueryGone DEF peek_uri
  <1>8. routes[Chosen] \in Route /\ Named(routes[Chosen])
    BY <1>1, <1>3 DEF Named
  <1>9. routes[Chosen].path \in Seq(Char)
    BY <1>8 DEF Route
  <1> QED BY <1>1, <1>3, <1>4, <1>6, <1>7, <1>8, <1>9

LEMMA PairIs ==
  ASSUME NEW S, NEW x \in S, NEW y \in S
  PROVE  Append(<<x>> \o <<>>, y) = <<x, y>>
  <1>1. <<x>> \in Seq(S)
    BY Singleton
  <1>2. <<x>> \o <<>> = <<x>>
    BY <1>1
  <1>3. Append(<<x>>, y) = <<x, y>>
    <2> DEFINE a == Append(<<x>>, y)
               b == <<x, y>>
    <2>1. /\ a \in Seq(S) /\ Len(a) = 2 /\ a[1] = x /\ a[2] = y
      BY <1>1
    <2>2. /\ b \in Seq(S) /\ Len(b) = 2 /\ b[1] = x /\ b[2] = y
      OBVIOUS
    <2> HIDE DEF a, b
    <2>3. \A i \in 1 .. 2 : i = 1 \/ i = 2
      OBVIOUS
    <2>4. \A i \in 1 .. Len(a) : a[i] = b[i]
      BY <2>1, <2>2, <2>3
    <2>5. a = b
      BY <2>1, <2>2, <2>4, SameElements
    <2> QED BY <2>5 DEF a, b
  <1> QED BY <1>2, <1>3, Zenon

LEMMA JoinedPair ==
  ASSUME NEW S, NEW x \in S, NEW y \in S
  PROVE  <<x>> \o <<y>> = <<x, y>> /\ <<x, y>> \in Seq(S)
  <1> DEFINE a == <<x>>
             b == <<y>>
             j == a \o b
             p == <<x, y>>
  <1>1. a \in Seq(S) /\ Len(a) = 1 /\ a[1] = x /\ b \in Seq(S) /\ Len(b) = 1 /\ b[1] = y
    BY Singleton
  <1>2. p \in Seq(S) /\ Len(p) = 2 /\ p[1] = x /\ p[2] = y
    OBVIOUS
  <1> HIDE DEF a, b
  <1>3. /\ j \in Seq(S) /\ Len(j) = 2
        /\ \A i \in 1 .. 1 : j[i] = a[i]
        /\ \A i \in 1 .. 1 : j[1 + i] = b[i]
    BY <1>1, Joined
  <1>4. 1 \in 1 .. 1 /\ \A i \in 1 .. 2 : i = 1 \/ i = 2
    OBVIOUS
  <1> HIDE DEF j, p
  <1>5. j[1] = x /\ j[2] = y
    BY <1>1, <1>3, <1>4
  <1>6. \A i \in 1 .. Len(j) : j[i] = p[i]
    BY <1>2, <1>3, <1>4, <1>5
  <1>7. j = p
    BY <1>2, <1>3, <1>6, SameElements
  <1> QED BY <1>2, <1>7 DEF j, p, a, b

LEMMA RootType ==
  ASSUME NEW route \in Route
  PROVE  root_dir(route) \in Seq(Char)
  <1>1. <<"files">> \in Seq(Char)
    BY Singleton DEF Char
  <1> QED BY <1>1 DEF root_dir, Route

(* It is the entry of that name in the directory the target names.         *)
LEMMA EntryPath ==
  ASSUME NEW route, Named(route), route.path # <<>>,
         NEW base \in Seq(Char), base # <<>>, base[Len(base)] = "/", ~ HasQuery(base),
         IsPrefix(route.path, base), NEW name, FileName(name), ~ HasQuery(name)
  PROVE  LET left == strip_route_prefix(base, route.path)
             entry == Append(<<root_dir(route)>> \o sanitize_path(left), name)
         IN  /\ FilePath(base \o name, route) = entry
             /\ FilePath(base \o Append(name, "/"), route) = entry
             /\ Walk(entry) = entry
  <1> DEFINE left == strip_route_prefix(base, route.path)
             root == root_dir(route)
             segs == sanitize_path(left)
             a == Append(name, "/")
  <1>1. route.path \in Seq(Char)
    BY DEF Named, Route
  <1>2. name \in Seq(Char) /\ name # <<>> /\ "/" \in Char
    BY DEF FileName, Char
  <1>3. name[1] # "/"
    <2>1. 1 \in 1 .. Len(name)
      BY <1>2
    <2> QED BY <2>1 DEF FileName
  <1>4. /\ a \in Seq(Char) /\ a # <<>> /\ a[1] # "/" /\ Len(a) = Len(name) + 1
        /\ a[Len(name) + 1] = "/" /\ \A i \in 1 .. Len(name) : a[i] = name[i]
    BY <1>2, <1>3
  <1>5. ~ HasQuery(a)
    <2> HIDE DEF a
    <2>1. \A i \in 1 .. Len(name) : name[i] # "?"
      BY DEF HasQuery
    <2>2. \A i \in 1 .. Len(a) : i \in 1 .. Len(name) \/ i = Len(name) + 1
      BY <1>2, <1>4
    <2>3. \A i \in 1 .. Len(a) : a[i] # "?"
      BY <1>4, <2>1, <2>2
    <2> QED BY <2>3 DEF HasQuery
  <1>6. ASSUME NEW s \in Seq(Char), ~ HasQuery(s)
        PROVE  base \o s \in Seq(Char) /\ strip_query_string(base \o s) = base \o s
    <2> DEFINE u == base \o s
    <2>1. /\ u \in Seq(Char) /\ Len(u) = Len(base) + Len(s)
          /\ \A i \in 1 .. Len(base) : u[i] = base[i]
          /\ \A i \in 1 .. Len(s) : u[Len(base) + i] = s[i]
      BY Joined
    <2>2. Len(base) \in Nat /\ Len(s) \in Nat
      OBVIOUS
    <2> HIDE DEF u
    <2>3. \A i \in 1 .. Len(base) : u[i] # "?"
      BY <2>1 DEF HasQuery
    <2>4. \A i \in 1 .. Len(s) : u[Len(base) + i] # "?"
      BY <1>6, <2>1 DEF HasQuery
    <2>5. ASSUME NEW i \in 1 .. Len(u), i \notin 1 .. Len(base)
          PROVE  u[i] # "?"
      <3> DEFINE k == i - Len(base)
      <3>1. k \in 1 .. Len(s) /\ Len(base) + k = i
        BY <2>1, <2>2, <2>5
      <3> HIDE DEF k
      <3> QED BY <2>4, <3>1
    <2>6. ~ HasQuery(u)
      BY <2>3, <2>5 DEF HasQuery
    <2> QED BY <2>1, <2>6, QueryNone DEF u
  <1>7. /\ left \in Seq(Char) /\ left # <<>> /\ left[Len(left)] = "/"
        /\ strip_route_prefix(base \o name, route.path) = left \o name
    BY <1>1, <1>2, <1>3, StripEntry
  <1> HIDE DEF a
  <1>8. strip_route_prefix(base \o a, route.path) = left \o a
    BY <1>1, <1>4, StripEntry
  <1> HIDE DEF left
  <1>9. /\ sanitize_path(left \o name) = Append(segs, name)
        /\ sanitize_path(left \o a) = Append(segs, name)
    BY <1>7, SanitizeEntry DEF a
  <1>10. Segments(base \o name, route) = Append(segs, name)
           /\ Segments(base \o a, route) = Append(segs, name)
    BY <1>2, <1>4, <1>5, <1>6, <1>7, <1>8, <1>9 DEF Segments
  <1>11. <<root>> \o Append(segs, name) = Append(<<root>> \o segs, name)
    <2>1. root \in Seq(Char)
      BY RootType DEF Named
    <2>2. segs \in Seq(Seq(Char))
      <3>1. segs \in Clean(Char)
        BY <1>7, SanitizedIsClean
      <3> HIDE DEF segs
      <3> QED BY <3>1, CleanIs
    <2> HIDE DEF segs, root
    <2> QED BY <1>2, <2>1, <2>2
  <1> DEFINE entry == Append(<<root>> \o segs, name)
  <1> HIDE DEF segs, root
  <1>12. FilePath(base \o name, route) = entry /\ FilePath(base \o a, route) = entry
    BY <1>10, <1>11 DEF FilePath, root
  <1>13. Walk(FilePath(base \o name, route)) = FilePath(base \o name, route)
    BY <1>2, <1>6, FilePathDown
  <1> QED BY <1>12, <1>13 DEF entry, left, segs, root, a

(* What handle_get answers about a file that is found.                     *)
LEMMA GetServes ==
  ASSUME NEW uri, NEW route, NEW path, FilePath(uri, route) = path, Walk(path) = path,
         path \in DOMAIN files, files[path].kind = "file", files[path] \in Node
  PROVE  LET got == handle_get(uri, route, TRUE, TRUE)
         IN  IF files[path].r
             THEN got.by = "file" /\ got.path = path /\ got.body = files[path].data
             ELSE got = Error(403)
  <1>1. Found(path) /\ At(path) = files[path]
    BY DEF Found, At
  <1> DEFINE found == Response(200, files[path].data, "file", path)
             node == files[path]
             denied == Error(403)
  <1>2. handle_get(uri, route, TRUE, TRUE) = ServeFile(path, TRUE)
    BY <1>1 DEF handle_get
  <1>3. node.kind = "file" /\ node.r \in BOOLEAN
    BY DEF Node
  <1>4. ServeFile(path, TRUE) = CASE ~ node.r -> denied
                                  [] node.r /\ ~ TRUE -> Error(500)
                                  [] node.r /\ TRUE -> IF node.kind = "dir" THEN Throw(path)
                                                       ELSE found
    BY <1>1 DEF ServeFile
  <1>5. found.by = "file" /\ found.path = path /\ found.body = node.data
    BY DEF Response
  <1> HIDE DEF found, node, denied
  <1>6. CASE node.r
    <2>1. ServeFile(path, TRUE) = found
      BY <1>3, <1>4, <1>6
    <2> QED BY <1>2, <1>5, <1>6, <2>1 DEF node
  <1>7. CASE ~ node.r
    <2>1. ServeFile(path, TRUE) = denied
      BY <1>4, <1>7
    <2> QED BY <1>2, <1>7, <2>1 DEF node, denied
  <1> QED BY <1>6, <1>7

(* A file that was stored under a plain name that needs no encoding is     *)
(* what a GET of that name finds, with the data that was sent or, where    *)
(* that was not written, with none, and a 403 where the file that was      *)
(* there may not be read (handle_post, handle_get), for every payload,     *)
(* tree and configuration.                                                 *)
THEOREM UploadAlwaysServed == Spec => []UploadedIsServed
  <1>1. RequestOK /\ AnswerInv => UploadedIsServed
    <2> DEFINE r == routes[Chosen]
               name == req.payload.name
               sep == IF Last(r.path) = "/" THEN <<>> ELSE <<"/">>
               base == r.path \o sep
               file == <<root_dir(r), name>>
               got == handle_get(base \o name, r, TRUE, TRUE)
    <2> SUFFICES ASSUME RequestOK, AnswerInv, resp.by = "stored", req.payload.type = "multipart",
                        FileName(name), Literal(name), root_dir(r) = uploads_dir(r)
                 PROVE  IF files[resp.path].r
                        THEN /\ got.by = "file" /\ got.path = resp.path
                             /\ got.body \in {<<>>, <<req.payload.data>>}
                        ELSE got = Error(403)
      BY DEF UploadedIsServed
    <2>1. Chosen # 0
      BY DEF AnswerInv, Stored
    <2>2. /\ Named(r) /\ r.path \in Seq(Char) /\ r.path # <<>>
          /\ peek_uri \in Seq(Char) /\ ~ HasQuery(peek_uri) /\ IsPrefix(r.path, peek_uri)
      BY <2>1, ChosenRoute
    <2>3. name \in Names(Char) /\ Bare(name) /\ root_dir(r) \in Names(Char) /\ ~ HasQuery(name)
      BY <2>2, NameIs, DirsAreNames, LiteralHasNone DEF Bare
    <2>4. UploadPath(r, req.payload) = file /\ Walk(file) = file
      <3> HIDE DEF name, r
      <3>1. name \in Seq(Char)
        BY <2>3 DEF Names
      <3>2. Split(name) = <<name>>
        BY <2>3, <3>1, SplitWord
      <3>3. <<root_dir(r)>> \o <<name>> = file /\ file \in Seq(Names(Char))
        BY <2>3, JoinedPair
      <3>4. UploadPath(r, req.payload) = <<root_dir(r)>> \o Split(name)
        BY DEF UploadPath, name, r
      <3>5. Walk(file) = file
        BY <3>3, WalkDown
      <3> QED BY <3>2, <3>3, <3>4, <3>5
    <2>5. /\ resp.path = file /\ file \in DOMAIN files /\ files[file].kind = "file"
          /\ files[file].data \in {<<>>, <<req.payload.data>>}
      <3>1. /\ resp.path = Walk(UploadPath(r, req.payload))
            /\ resp.path \in DOMAIN files /\ files[resp.path].kind = "file"
            /\ files[resp.path].data \in {<<>>, <<req.payload.data>>}
        BY DEF AnswerInv, Stored
      <3> HIDE DEF r, file
      <3> QED BY <2>4, <3>1
    <2>6. files[file] \in Node
      BY <2>5 DEF AnswerInv, FilesOK
    <2> HIDE DEF r, name, file
    <2>7. ~ HasQuery(r.path)
      <3>1. Len(r.path) <= Len(peek_uri) /\ \A i \in 1 .. Len(r.path) : r.path[i] = peek_uri[i]
        BY <2>2, PrefixIs
      <3>2. \A i \in 1 .. Len(peek_uri) : peek_uri[i] # "?"
        BY <2>2 DEF HasQuery
      <3>3. Len(peek_uri) \in Nat /\ Len(r.path) \in Nat
        BY <2>2
      <3> QED BY <3>1, <3>2, <3>3 DEF HasQuery
    <2>8. /\ base \in Seq(Char) /\ base # <<>> /\ base[Len(base)] = "/" /\ ~ HasQuery(base)
          /\ IsPrefix(r.path, base) /\ strip_route_prefix(base, r.path) = <<"/">>
      BY <2>2, <2>7, LocationDir
    <2>9. FileName(name)
      BY DEF name
    <2> HIDE DEF base, sep
    <2> DEFINE left == strip_route_prefix(base, r.path)
               entry == Append(<<root_dir(r)>> \o sanitize_path(left), name)
    <2>10. FilePath(base \o name, r) = entry /\ Walk(entry) = entry
      BY <2>2, <2>3, <2>8, <2>9, EntryPath
    <2>11. entry = file
      <3>1. sanitize_path(left) = <<>>
        BY <2>8, RootIsEmpty
      <3>2. Append(<<root_dir(r)>> \o <<>>, name) = <<root_dir(r), name>>
        BY <2>3, PairIs
      <3> HIDE DEF left
      <3> QED BY <3>1, <3>2 DEF file
    <2> DEFINE u == base \o name
    <2> HIDE DEF entry, u
    <2>a. FilePath(u, r) = file /\ Walk(file) = file /\ got = handle_get(u, r, TRUE, TRUE)
      BY <2>10, <2>11 DEF u
    <2> HIDE DEF got
    <2>12. IF files[file].r
           THEN got.by = "file" /\ got.path = file /\ got.body = files[file].data
           ELSE got = Error(403)
      <3> DEFINE answer == handle_get(u, r, TRUE, TRUE)
      <3>1. IF files[file].r
            THEN answer.by = "file" /\ answer.path = file /\ answer.body = files[file].data
            ELSE answer = Error(403)
        BY ONLY <2>5, <2>6, <2>a, GetServes
      <3> HIDE DEF answer
      <3>2. got = answer
        BY <2>a DEF answer
      <3> QED BY <3>1, <3>2
    <2> QED BY <2>5, <2>12
  <1>2. HandlerInv => RequestOK
    BY DEF HandlerInv
  <1> QED BY <1>1, <1>2, HandlerInvariant, AnswerInvariant, PTL

(* Every link of a listing whose name no client encodes leads to its entry *)
(* (generate_autoindex, sanitize_path): the request a client makes of it,  *)
(* for a target without encoded characters or dots left to resolve, names  *)
(* the file it was made for.                                               *)
THEOREM LinksAlwaysLead == Spec => []LinksLead
  <1>1. RequestOK /\ AnswerInv => LinksLead
    <2> DEFINE r == routes[Chosen]
               base == peek_uri
               left == strip_route_prefix(base, r.path)
               dir == <<root_dir(r)>> \o sanitize_path(left)
    <2> SUFFICES ASSUME RequestOK, AnswerInv, resp.by = "autoindex", Last(base) = "/",
                        NEW n \in resp.names, n # Append(DotDot, "/"), Literal(Entry(n))
                 PROVE  Leads(base, n)
      BY DEF LinksLead, Links
    <2>1. Chosen # 0 /\ resp.path = Target /\ EntryLink(n)
      BY DEF AnswerInv, Listed, Entries
    <2>2. /\ Named(r) /\ r.path \in Seq(Char) /\ r.path # <<>>
          /\ base \in Seq(Char) /\ ~ HasQuery(base) /\ IsPrefix(r.path, base)
      BY <2>1, ChosenRoute
    <2>3. base # <<>> /\ base[Len(base)] = "/"
      <3>1. Len(r.path) <= Len(base) /\ Len(r.path) \in Nat \ {0} /\ Len(base) \in Nat
        BY <2>2 DEF IsPrefix
      <3>2. base # <<>>
        BY <3>1
      <3> QED BY <3>2 DEF Last
    <2>4. resp.path = dir
      BY <2>1 DEF Target, FilePath, Segments, peek_uri
    <2> HIDE DEF base, r
    <2>5. ASSUME NEW s, FileName(s), ~ HasQuery(s)
          PROVE  /\ Walk(FilePath(base \o s, r)) = Append(dir, s)
                 /\ Walk(FilePath(base \o Append(s, "/"), r)) = Append(dir, s)
      <3> DEFINE entry == Append(dir, s)
      <3>1. /\ FilePath(base \o s, r) = entry /\ FilePath(base \o Append(s, "/"), r) = entry
            /\ Walk(entry) = entry
        BY <2>2, <2>3, <2>5, EntryPath, Zenon
      <3> HIDE DEF entry
      <3>2. /\ Walk(FilePath(base \o s, r)) = entry
            /\ Walk(FilePath(base \o Append(s, "/"), r)) = entry
        BY <3>1
      <3> QED BY <3>2 DEF entry
    <2> HIDE DEF dir
    <2> DEFINE s == Entry(n)
    <2>6. n \in Seq(Char) /\ n # <<>> /\ FileName(s)
      BY <2>1 DEF EntryLink
    <2>7. ~ HasQuery(s)
      BY LiteralHasNone
    <2>8. n = s \/ n = Append(s, "/")
      BY <2>6, FrontLast DEF Entry
    <2>9. Walk(FilePath(base \o n, r)) = Append(dir, s)
      <3> HIDE DEF s
      <3> QED BY <2>5, <2>6, <2>7, <2>8
    <2> QED BY <2>4, <2>9 DEF Leads, r
  <1>2. HandlerInv => RequestOK
    BY DEF HandlerInv
  <1> QED BY <1>1, <1>2, HandlerInvariant, AnswerInvariant, PTL

=============================================================================
