------------------------- MODULE CgiResponseProofs -------------------------
(***************************************************************************)
(* What the client gets of a script's output, however it is cut into       *)
(* reads and however long it is.                                           *)
(***************************************************************************)
EXTENDS CgiResponse, SequenceTheorems, WellFoundedInduction, TLAPS

-----------------------------------------------------------------------------
(***************************************************************************)
(* Positions.                                                              *)
(***************************************************************************)
(* A set of naturals has a least one.                                      *)
LEMMA MinIn ==
  ASSUME NEW T \in SUBSET Nat, T # {}
  PROVE  Min(T) \in T /\ \A y \in T : Min(T) <= y
  <1> DEFINE R == OpToRel(<, Nat)
  <1>1. IsWellFoundedOn(R, Nat)
    BY NatLessThanWellFounded
  <1> HIDE DEF R
  <1>2. PICK x \in T : \A y \in T : ~ (<<y, x>> \in R)
    BY <1>1, WFMin
  <1>3. \A y \in T : ~ (y < x)
    BY <1>2 DEF R, OpToRel
  <1>4. \A y \in T : x <= y
    BY <1>3
  <1> QED BY <1>4 DEF Min

(* A set of positions up to k has a greatest one.                          *)
LEMMA MaxIn ==
  ASSUME NEW k \in Nat, NEW T \in SUBSET (0 .. k), T # {}
  PROVE  Max(T) \in T /\ \A y \in T : y <= Max(T)
  <1> DEFINE U == {k - x : x \in T}
  <1>1. U \in SUBSET Nat
    <2>1. \A x \in T : k - x \in Nat
      OBVIOUS
    <2> QED BY <2>1
  <1>2. U # {}
    OBVIOUS
  <1>3. Min(U) \in U /\ \A v \in U : Min(U) <= v
    BY <1>1, <1>2, MinIn
  <1>4. PICK x \in T : Min(U) = k - x
    BY <1>3
  <1>5. \A y \in T : y <= x
    <2> SUFFICES ASSUME NEW y \in T PROVE y <= x
      OBVIOUS
    <2>1. k - x <= k - y
      BY <1>3, <1>4
    <2>2. x \in Nat /\ y \in Nat
      OBVIOUS
    <2> QED BY <2>1, <2>2
  <1>6. \A y \in T : y \in Nat
    OBVIOUS
  <1> QED BY <1>5, <1>6 DEF Max

(* The greatest one is the one no other is above.                          *)
LEMMA MaxIs ==
  ASSUME NEW k \in Nat, NEW T \in SUBSET (0 .. k), NEW x \in T, \A y \in T : y <= x
  PROVE  Max(T) = x
  <1>1. Max(T) \in T /\ x <= Max(T)
    BY MaxIn
  <1>2. Max(T) \in 0 .. k /\ x \in 0 .. k
    BY <1>1
  <1> QED BY <1>1, <1>2

(* Where a pattern stands in s.                                            *)
Hits(s, pattern) ==
  {i \in 1 .. Len(s) - Len(pattern) + 1 : SubSeq(s, i, i + Len(pattern) - 1) = pattern}

LEMMA FindIs ==
  ASSUME NEW s \in Seq(Unit), NEW p \in Seq(Unit)
  PROVE  /\ Find(s, p) = 0 <=> Hits(s, p) = {}
         /\ Find(s, p) # 0 => /\ Find(s, p) \in Hits(s, p)
                              /\ \A i \in Hits(s, p) : Find(s, p) <= i
  <1>1. Find(s, p) = IF Hits(s, p) = {} THEN 0 ELSE Min(Hits(s, p))
    BY DEF Find, Hits
  <1>2. Hits(s, p) \in SUBSET Nat /\ 0 \notin Hits(s, p)
    BY DEF Hits
  <1> HIDE DEF Hits
  <1>3. CASE Hits(s, p) = {}
    BY <1>1, <1>3
  <1>4. CASE Hits(s, p) # {}
    BY <1>1, <1>2, <1>4, MinIn
  <1> QED BY <1>3, <1>4

(* More output behind s moves nothing.                                     *)
LEMMA HitsAppend ==
  ASSUME NEW s \in Seq(Unit), NEW t \in Seq(Unit), NEW p \in Seq(Unit)
  PROVE  \A i \in 1 .. Len(s) - Len(p) + 1 : i \in Hits(s \o t, p) <=> i \in Hits(s, p)
  <1> DEFINE u == s \o t
  <1>1. /\ u \in Seq(Unit) /\ Len(u) = Len(s) + Len(t) /\ Len(s) \in Nat /\ Len(t) \in Nat
        /\ Len(p) \in Nat /\ \A j \in 1 .. Len(s) : u[j] = s[j]
    OBVIOUS
  <1> HIDE DEF u
  <1> SUFFICES ASSUME NEW i \in 1 .. Len(s) - Len(p) + 1
               PROVE  i \in Hits(u, p) <=> i \in Hits(s, p)
    BY DEF u
  <1>2. i \in 1 .. Len(u) - Len(p) + 1 /\ i + Len(p) - 1 <= Len(s)
    BY <1>1
  <1>3. SubSeq(u, i, i + Len(p) - 1) = SubSeq(s, i, i + Len(p) - 1)
    BY <1>1, <1>2
  <1> QED BY <1>2, <1>3 DEF Hits

LEMMA FindAppend ==
  ASSUME NEW s \in Seq(Unit), NEW t \in Seq(Unit), NEW p \in Seq(Unit), Find(s, p) # 0
  PROVE  Find(s \o t, p) = Find(s, p)
  <1> DEFINE u == s \o t
             f == Find(s, p)
             g == Find(u, p)
  <1>1. u \in Seq(Unit)
    OBVIOUS
  <1>2. f \in Hits(s, p) /\ \A i \in Hits(s, p) : f <= i
    BY FindIs
  <1>3. f \in 1 .. Len(s) - Len(p) + 1
    BY <1>2 DEF Hits
  <1>4. f \in Hits(u, p)
    BY <1>2, <1>3, HitsAppend
  <1> HIDE DEF u
  <1>5. g \in Hits(u, p) /\ \A i \in Hits(u, p) : g <= i
    BY <1>1, <1>4, FindIs
  <1>6. g <= f /\ g \in Nat /\ g >= 1
    <2>1. g <= f
      BY <1>4, <1>5
    <2>2. g \in 1 .. Len(u) - Len(p) + 1
      BY <1>5 DEF Hits
    <2> HIDE DEF f, g
    <2> QED BY <2>1, <2>2
  <1>7. g \in 1 .. Len(s) - Len(p) + 1
    <2>1. Len(s) - Len(p) + 1 \in Int
      OBVIOUS
    <2> QED BY <1>3, <1>6, <2>1
  <1>8. g \in Hits(s, p)
    BY <1>5, <1>7, HitsAppend DEF u
  <1>9. f <= g
    BY <1>2, <1>8
  <1> QED BY <1>3, <1>6, <1>9 DEF u

(* The pieces before and behind a position, with more behind.              *)
LEMMA PiecesAppend ==
  ASSUME NEW s \in Seq(Unit), NEW t \in Seq(Unit), NEW i \in 1 .. Len(s) + 1
  PROVE  /\ Before(s \o t, i) = Before(s, i) /\ From(s \o t, i) = From(s, i) \o t
         /\ Before(s, i) \in Seq(Unit) /\ From(s, i) \in Seq(Unit)
         /\ Len(Before(s, i)) = i - 1 /\ \A j \in 1 .. i - 1 : Before(s, i)[j] = s[j]
  <1> DEFINE u == s \o t
  <1>1. /\ u \in Seq(Unit) /\ Len(u) = Len(s) + Len(t) /\ Len(s) \in Nat /\ Len(t) \in Nat
        /\ \A j \in 1 .. Len(s) : u[j] = s[j]
        /\ \A j \in 1 .. Len(t) : u[Len(s) + j] = t[j]
    OBVIOUS
  <1>2. /\ Before(s, i) \in Seq(Unit) /\ From(s, i) \in Seq(Unit)
        /\ Len(Before(s, i)) = i - 1 /\ \A j \in 1 .. i - 1 : Before(s, i)[j] = s[j]
        /\ Len(From(s, i)) = Len(s) - i + 1
        /\ \A j \in 1 .. Len(s) - i + 1 : From(s, i)[j] = s[i + j - 1]
    BY <1>1 DEF Before, From
  <1> HIDE DEF u
  <1>3. Before(u, i) = Before(s, i)
    <2> DEFINE m == i - 1
    <2>1. m \in 0 .. Len(s) /\ m \in 0 .. Len(u)
      BY <1>1
    <2>2. Before(u, i) = SubSeq(u, 1, m) /\ Before(s, i) = SubSeq(s, 1, m)
      BY DEF Before
    <2> HIDE DEF m
    <2>3. SubSeq(u, 1, m) = SubSeq(s, 1, m)
      BY <1>1, <2>1
    <2> QED BY <2>2, <2>3
  <1>4. From(u, i) = From(s, i) \o t
    <2>1. /\ From(u, i) \in Seq(Unit) /\ Len(From(u, i)) = Len(u) - i + 1
          /\ \A j \in 1 .. Len(u) - i + 1 : From(u, i)[j] = u[i + j - 1]
      BY <1>1 DEF From
    <2> DEFINE a == From(s, i)
               b == From(u, i)
    <2>2. /\ a \o t \in Seq(Unit) /\ Len(a \o t) = Len(a) + Len(t)
          /\ \A j \in 1 .. Len(a) : (a \o t)[j] = a[j]
          /\ \A j \in 1 .. Len(t) : (a \o t)[Len(a) + j] = t[j]
      <3>1. a \in Seq(Unit)
        BY <1>2
      <3> HIDE DEF a
      <3> QED BY <3>1
    <2> HIDE DEF a, b
    <2>3. Len(b) = Len(a) + Len(t)
      BY <1>1, <1>2, <2>1 DEF a, b
    <2>4. ASSUME NEW j \in 1 .. Len(b) PROVE b[j] = (a \o t)[j]
      <3>1. CASE j \in 1 .. Len(a)
        <4>1. b[j] = u[i + j - 1] /\ a[j] = s[i + j - 1] /\ i + j - 1 \in 1 .. Len(s)
          BY <1>1, <1>2, <2>1, <3>1 DEF a, b
        <4> QED BY <1>1, <2>2, <3>1, <4>1
      <3>2. CASE j \notin 1 .. Len(a)
        <4> DEFINE m == j - Len(a)
        <4>1. m \in 1 .. Len(t) /\ j = Len(a) + m /\ i + j - 1 = Len(s) + m
          BY <1>1, <1>2, <2>3, <3>2 DEF a
        <4>2. b[j] = u[i + j - 1]
          BY <2>1 DEF b
        <4> HIDE DEF m
        <4> QED BY <1>1, <2>2, <4>1, <4>2
      <3> QED BY <3>1, <3>2
    <2>5. b \in Seq(Unit) /\ a \o t \in Seq(Unit) /\ Len(b) = Len(a \o t)
      BY <2>1, <2>2, <2>3 DEF b
    <2>6. b = a \o t
      BY ONLY <2>4, <2>5, SeqEqual, Zenon
    <2> QED BY <2>6 DEF a, b
  <1> QED BY <1>2, <1>3, <1>4 DEF u

-----------------------------------------------------------------------------
(***************************************************************************)
(* The header lines.                                                       *)
(***************************************************************************)
Empty == [status |-> 200, fields |-> << >>]
Responses == {"status", "fields"}
Status == {"S404", "S302"}

(* One turn of the loop.                                                   *)
Turn(h, r, n) ==
  IF n \in DOMAIN h /\ h[n] # "LF" THEN r ELSE HeaderLine(r, Line(h, n))

(* The loop ends, and every turn goes on from the one before.              *)
LEMMA LoopRuns ==
  ASSUME NEW h \in Seq(Unit)
  PROVE  /\ ReadLines(h)[0] = Empty
         /\ \A n \in 1 .. Len(h) + 1 : ReadLines(h)[n] = Turn(h, ReadLines(h)[n - 1], n)
  <1> DEFINE N == Len(h) + 1
             Runs(g, m) ==
               g = [n \in 0 .. m |-> IF n = 0 THEN Empty ELSE Turn(h, g[n - 1], n)]
             T == {m \in 0 .. N : ~ \E g : Runs(g, m)}
  <1>1. N \in Nat
    OBVIOUS
  <1> HIDE DEF N
  <1>2. T = {}
    <2> SUFFICES ASSUME T # {} PROVE FALSE
      OBVIOUS
    <2>1. T \in SUBSET Nat
      OBVIOUS
    <2>2. PICK m \in T : \A k \in T : m <= k
      BY <2>1, MinIn
    <2>3. CASE m = 0
      <3>1. Runs([n \in 0 .. 0 |-> Empty], 0)
        OBVIOUS
      <3> QED BY <2>2, <2>3, <3>1
    <2>4. CASE m # 0
      <3>1. m - 1 \in 0 .. N /\ m - 1 \notin T /\ m \in Nat
        <4>1. m \in 0 .. N
          BY <2>2
        <4>2. m - 1 \in 0 .. N /\ m \in Nat /\ ~ (m <= m - 1)
          BY <1>1, <2>4, <4>1
        <4> HIDE DEF T
        <4> QED BY <2>2, <4>2
      <3>2. PICK g : Runs(g, m - 1)
        BY <3>1
      <3> DEFINE next == [n \in 0 .. m |-> IF n = m THEN Turn(h, g[m - 1], m) ELSE g[n]]
      <3>3. ASSUME NEW n \in 0 .. m
            PROVE  next[n] = IF n = 0 THEN Empty ELSE Turn(h, next[n - 1], n)
        <4>1. CASE n = m
          BY <2>4, <3>1, <4>1
        <4>2. CASE n # m
          <5>1. n \in 0 .. m - 1 /\ (n # 0 => n - 1 \in 0 .. m /\ n - 1 # m)
            BY <3>1, <4>2
          <5>2. g[n] = IF n = 0 THEN Empty ELSE Turn(h, g[n - 1], n)
            BY <3>2, <5>1
          <5> QED BY <4>2, <5>1, <5>2
        <4> QED BY <4>1, <4>2
      <3>4. Runs(next, m)
        <4>1. next = [n \in 0 .. m |-> next[n]]
          OBVIOUS
        <4> HIDE DEF next
        <4> QED BY <3>3, <4>1
      <3> QED BY <2>2, <3>4
    <2> QED BY <2>3, <2>4
  <1>3. \E g : Runs(g, N)
    BY <1>1, <1>2
  <1>4. ReadLines(h) = CHOOSE g : Runs(g, N)
    BY DEF ReadLines, Turn, Empty, N
  <1>5. Runs(ReadLines(h), N)
    BY <1>3, <1>4
  <1> QED BY <1>1, <1>5 DEF N

(* The first unit of a line, and a line without its last.                  *)
LEMMA LinePieces ==
  ASSUME NEW s \in Seq(Unit), s # <<>>
  PROVE  /\ s[1] \in Unit /\ Len(s) \in Nat \ {0} /\ SubSeq(s, 1, 1) = <<s[1]>>
         /\ SubSeq(s, 1, Len(s) - 1) \in Seq(Unit)
         /\ Len(SubSeq(s, 1, Len(s) - 1)) = Len(s) - 1
         /\ Len(s) # 1 => SubSeq(s, 1, Len(s) - 1)[1] = s[1]
  <1>1. s[1] \in Unit /\ Len(s) \in Nat \ {0}
    OBVIOUS
  <1>2. /\ SubSeq(s, 1, 1) \in Seq(Unit) /\ Len(SubSeq(s, 1, 1)) = 1
        /\ SubSeq(s, 1, 1)[1] = s[1]
    BY <1>1
  <1> DEFINE a == SubSeq(s, 1, 1)
             b == <<s[1]>>
  <1>3. b \in Seq(Unit) /\ Len(b) = 1 /\ b[1] = s[1]
    BY <1>1
  <1>4. a \in Seq(Unit) /\ Len(a) = 1 /\ a[1] = s[1]
    BY <1>2
  <1> HIDE DEF a, b
  <1>5. a = b
    <2>1. \A i \in 1 .. Len(a) : a[i] = b[i]
      BY <1>3, <1>4
    <2> QED BY <1>3, <1>4, <2>1, SeqEqual, Zenon
  <1>6. /\ SubSeq(s, 1, Len(s) - 1) \in Seq(Unit)
        /\ Len(SubSeq(s, 1, Len(s) - 1)) = Len(s) - 1
        /\ Len(s) # 1 => SubSeq(s, 1, Len(s) - 1)[1] = s[1]
    <2> DEFINE k == Len(s)
               n == k - 1
    <2>1. k \in Nat \ {0} /\ s \in [1 .. k -> Unit]
      BY <1>1
    <2> HIDE DEF k
    <2>2. n \in Int /\ 1 \in Int /\ \A i \in 1 .. n : i \in 1 .. k
      BY <2>1
    <2>3. \A i \in 1 .. n : s[i] \in Unit
      BY <2>1, <2>2
    <2>4. /\ SubSeq(s, 1, n) \in Seq(Unit)
          /\ Len(SubSeq(s, 1, n)) = IF 1 <= n THEN n - 1 + 1 ELSE 0
          /\ \A i \in 1 .. n - 1 + 1 : SubSeq(s, 1, n)[i] = s[1 + i - 1]
      <3> HIDE DEF n
      <3> QED BY <2>2, <2>3, SubSeqProperties
    <2>5. (n - 1) + 1 = n /\ (k # 1 => 1 \in 1 .. n) /\ (~ (1 <= n) => n = 0)
      BY <2>1
    <2> HIDE DEF n
    <2>6. Len(SubSeq(s, 1, n)) = n
      BY <2>2, <2>4, <2>5
    <2>7. k # 1 => SubSeq(s, 1, n)[1] = s[1]
      BY <2>4, <2>5
    <2> QED BY <2>4, <2>6, <2>7, Zenon DEF n, k
  <1> QED BY <1>1, <1>5, <1>6 DEF a, b

(* Status is set by a line that starts with it, and by no other.           *)
LEMMA LineSets ==
  ASSUME NEW r, DOMAIN r = Responses, NEW raw \in Seq(Unit)
  PROVE  /\ DOMAIN HeaderLine(r, raw) = Responses
         /\ HeaderLine(r, raw).status =
              IF raw # <<>> /\ raw[1] \in Status THEN StatusOf(raw[1]) ELSE r.status
  <1> DEFINE line == StripCr(raw)
             colon == {i \in DOMAIN line : line[i] \in HasColon}
             key == SubSeq(line, 1, Min(colon))
             value == From(line, Min(colon) + 1)
  <1>1. /\ line \in Seq(Unit)
        /\ line # <<>> => raw # <<>> /\ line[1] = raw[1]
        /\ raw # <<>> /\ raw[1] \in Status => line # <<>>
    <2>1. CASE raw # <<>> /\ Last(raw) = "CR"
      <3>1. line = SubSeq(raw, 1, Len(raw) - 1)
        BY <2>1 DEF StripCr, Front
      <3>2. Len(raw) = 1 => raw[1] \notin Status
        BY <2>1 DEF Last, Status
      <3>3. /\ line \in Seq(Unit) /\ Len(line) = Len(raw) - 1 /\ Len(raw) \in Nat \ {0}
            /\ Len(raw) # 1 => line[1] = raw[1]
        BY <2>1, <3>1, LinePieces, Zenon
      <3> HIDE DEF line
      <3>4. line # <<>> => Len(raw) # 1
        BY <3>3
      <3>5. Len(raw) # 1 => line # <<>>
        BY <3>3
      <3> QED BY <2>1, <3>2, <3>3, <3>4, <3>5
    <2>2. CASE ~ (raw # <<>> /\ Last(raw) = "CR")
      <3>1. line = raw
        BY <2>2 DEF StripCr
      <3> QED BY <3>1
    <2> QED BY <2>1, <2>2
  <1>2. HeaderLine(r, raw) =
          IF colon = {} THEN r
          ELSE IF key \in {<<"S404">>, <<"S302">>} THEN [r EXCEPT !.status = StatusOf(key[1])]
          ELSE set_header(r, key, IF key = <<"L">> THEN <<Declared>> \o value ELSE value)
    BY DEF HeaderLine
  <1> HIDE DEF line
  <1>3. raw # <<>> /\ raw[1] \in Status => 1 \in colon
    BY <1>1 DEF HasColon, Status
  <1>4. CASE colon = {}
    BY <1>2, <1>3, <1>4
  <1>5. CASE colon # {}
    <2> DEFINE m == Min(colon)
    <2>1. m \in colon /\ \A i \in colon : m <= i
      <3>1. colon \in SUBSET Nat
        BY <1>1
      <3> HIDE DEF colon
      <3> QED BY <1>5, <3>1, MinIn
    <2>2. m \in 1 .. Len(line) /\ line[m] \in HasColon
      BY <1>1, <2>1
    <2> HIDE DEF m
    <2>3. Len(key) = m /\ key[1] = line[1] /\ line # <<>>
      BY <1>1, <2>2 DEF m
    <2> HIDE DEF key, value
    <2>4. CASE key \in {<<"S404">>, <<"S302">>}
      <3>1. raw # <<>> /\ raw[1] = key[1] /\ key[1] \in Status
        BY <1>1, <2>3, <2>4 DEF Status
      <3>2. HeaderLine(r, raw) = [r EXCEPT !.status = StatusOf(key[1])]
        BY <1>2, <1>5, <2>4
      <3> QED BY <3>1, <3>2 DEF Responses
    <2>5. CASE key \notin {<<"S404">>, <<"S302">>}
      <3>1. ~ (raw # <<>> /\ raw[1] \in Status)
        <4> SUFFICES ASSUME raw # <<>>, raw[1] \in Status PROVE FALSE
          OBVIOUS
        <4>1. m = 1
          BY <1>3, <2>1, <2>2
        <4>2. key = <<raw[1]>>
          <5>1. key = SubSeq(line, 1, 1)
            BY <4>1 DEF key, m
          <5>2. SubSeq(line, 1, 1) = <<line[1]>>
            BY <1>1, <2>3, LinePieces
          <5> QED BY <1>1, <2>3, <5>1, <5>2, Zenon
        <4> QED BY <2>5, <4>2 DEF Status
      <3>2. HeaderLine(r, raw) =
              set_header(r, key, IF key = <<"L">> THEN <<Declared>> \o value ELSE value)
        BY <1>2, <1>5, <2>5
      <3> QED BY <3>1, <3>2 DEF set_header, Responses
    <2> QED BY <2>4, <2>5
  <1> QED BY <1>4, <1>5

(* The status lines among the first n units, and what they say.            *)
StatusAt(h, n) == {i \in 1 .. n : h[i] \in Status /\ (i = 1 \/ h[i - 1] = "LF")}
StatusIs(h, T) == IF T = {} THEN 200 ELSE StatusOf(h[Max(T)])

(* Where the last line that ends among them ends.                          *)
LastEnd(h, n) == Max({0} \cup {i \in 1 .. n : h[i] = "LF"})

LEMMA LastEndIs ==
  ASSUME NEW h \in Seq(Unit), NEW n \in 0 .. Len(h)
  PROVE  /\ LastEnd(h, n) \in 0 .. n
         /\ LastEnd(h, n) # 0 => h[LastEnd(h, n)] = "LF"
         /\ \A i \in 1 .. n : h[i] = "LF" => i <= LastEnd(h, n)
  <1> DEFINE T == {0} \cup {i \in 1 .. n : h[i] = "LF"}
  <1>1. n \in Nat /\ T \in SUBSET (0 .. n) /\ T # {}
    OBVIOUS
  <1>2. \A x \in T : x # 0 => h[x] = "LF"
    OBVIOUS
  <1>3. \A i \in 1 .. n : h[i] = "LF" => i \in T
    OBVIOUS
  <1> HIDE DEF T
  <1>4. Max(T) \in T /\ \A y \in T : y <= Max(T)
    BY <1>1, MaxIn
  <1>5. LastEnd(h, n) = Max(T)
    BY DEF LastEnd, T
  <1> QED BY <1>1, <1>2, <1>3, <1>4, <1>5

(* Of the line behind it only the first unit counts.                       *)
LEMMA OneLine ==
  ASSUME NEW h \in Seq(Unit), NEW n \in 0 .. Len(h)
  PROVE  StatusIs(h, StatusAt(h, n)) =
           IF LastEnd(h, n) < n /\ h[LastEnd(h, n) + 1] \in Status
           THEN StatusOf(h[LastEnd(h, n) + 1])
           ELSE StatusIs(h, StatusAt(h, LastEnd(h, n)))
  <1> DEFINE e == LastEnd(h, n)
  <1>1. /\ e \in 0 .. n /\ n \in Nat
        /\ e # 0 => h[e] = "LF"
        /\ \A i \in 1 .. n : h[i] = "LF" => i <= e
    BY LastEndIs
  <1> HIDE DEF e
  <1>2. \A i \in 1 .. n : i \in StatusAt(h, n) <=>
          i \in StatusAt(h, e) \/ (i = e + 1 /\ h[e + 1] \in Status)
    <2> SUFFICES ASSUME NEW i \in 1 .. n
                 PROVE  i \in StatusAt(h, n) <=>
                          i \in StatusAt(h, e) \/ (i = e + 1 /\ h[e + 1] \in Status)
      OBVIOUS
    <2>1. CASE i <= e
      BY <1>1, <2>1 DEF StatusAt
    <2>2. CASE i = e + 1
      BY <1>1, <2>2 DEF StatusAt
    <2>3. CASE i > e + 1
      <3>1. i - 1 \in 1 .. n /\ ~ (i - 1 <= e)
        BY <1>1, <2>3
      <3>2. h[i - 1] # "LF"
        BY <1>1, <3>1
      <3> QED BY <1>1, <2>3, <3>2 DEF StatusAt
    <2> QED BY <1>1, <2>1, <2>2, <2>3
  <1>3. StatusAt(h, n) \in SUBSET (1 .. n) /\ StatusAt(h, e) \in SUBSET (1 .. e)
    BY DEF StatusAt
  <1>4. CASE e < n /\ h[e + 1] \in Status
    <2>1. e + 1 \in 1 .. n
      BY <1>1, <1>4
    <2>2. e + 1 \in StatusAt(h, n) /\ \A y \in StatusAt(h, n) : y <= e + 1
      <3>1. e + 1 \in StatusAt(h, n)
        BY <1>2, <1>4, <2>1
      <3>2. ASSUME NEW y \in StatusAt(h, n) PROVE y <= e + 1
        <4>1. y \in 1 .. n
          BY <1>3
        <4>2. y \in StatusAt(h, e) \/ y = e + 1
          BY <1>2, <4>1
        <4>3. y \in StatusAt(h, e) => y \in 1 .. e
          BY <1>3
        <4> QED BY <1>1, <4>1, <4>2, <4>3
      <3> QED BY <3>1, <3>2
    <2>3. StatusAt(h, n) \in SUBSET (0 .. n)
      BY <1>1, <1>3
    <2>4. Max(StatusAt(h, n)) = e + 1
      BY <1>1, <2>2, <2>3, MaxIs
    <2>5. StatusIs(h, StatusAt(h, n)) = StatusOf(h[e + 1])
      BY <2>2, <2>4 DEF StatusIs
    <2> QED BY <1>4, <2>5 DEF e
  <1>5. CASE ~ (e < n /\ h[e + 1] \in Status)
    <2>1. ASSUME NEW i \in 1 .. n PROVE i \in StatusAt(h, n) <=> i \in StatusAt(h, e)
      <3>1. i = e + 1 => e < n
        BY <1>1
      <3> QED BY <1>2, <1>5, <3>1
    <2>2. StatusAt(h, n) = StatusAt(h, e)
      <3>1. 1 .. e \subseteq 1 .. n
        BY <1>1
      <3> QED BY <1>3, <2>1, <3>1, Zenon
    <2> QED BY <1>5, <2>2, Zenon DEF e
  <1> QED BY <1>4, <1>5

(* A turn that reads a line keeps the count.                               *)
LEMMA TurnReads ==
  ASSUME NEW h \in Seq(Unit), NEW n \in 1 .. Len(h) + 1, NEW r, DOMAIN r = Responses,
         r.status = StatusIs(h, StatusAt(h, LastEnd(h, n - 1)))
  PROVE  /\ DOMAIN HeaderLine(r, Line(h, n)) = Responses
         /\ HeaderLine(r, Line(h, n)).status = StatusIs(h, StatusAt(h, n - 1))
  <1> DEFINE m == n - 1
             e == LastEnd(h, m)
             raw == Line(h, n)
  <1>1. m \in 0 .. Len(h) /\ Len(h) \in Nat
    OBVIOUS
  <1>2. raw = SubSeq(h, e + 1, m)
    BY DEF Line, LastEnd
  <1>3. r.status = StatusIs(h, StatusAt(h, e))
    OBVIOUS
  <1>4. e \in 0 .. m
    <2> HIDE DEF m
    <2> QED BY <1>1, LastEndIs
  <1> HIDE DEF e, m
  <1>5. /\ raw \in Seq(Unit)
        /\ raw # <<>> <=> e < m
        /\ e < m => raw[1] = h[e + 1]
    <2> HIDE DEF raw
    <2>1. SubSeq(h, e + 1, m) \in Seq(Unit)
      BY <1>1, <1>4
    <2>2. Len(SubSeq(h, e + 1, m)) = m - e
      BY <1>1, <1>4
    <2>3. e < m => SubSeq(h, e + 1, m)[1] = h[e + 1]
      BY <1>1, <1>4
    <2>4. m - e # 0 <=> e < m
      BY <1>1, <1>4
    <2>5. raw # <<>> <=> Len(raw) # 0
      <3>1. raw \in Seq(Unit)
        BY <1>2, <2>1
      <3> QED BY ONLY <3>1
    <2> QED BY <1>2, <2>1, <2>2, <2>3, <2>4, <2>5
  <1>6. StatusIs(h, StatusAt(h, m)) =
          IF e < m /\ h[e + 1] \in Status THEN StatusOf(h[e + 1]) ELSE StatusIs(h, StatusAt(h, e))
    BY <1>1, OneLine DEF e
  <1> HIDE DEF raw
  <1>7. /\ DOMAIN HeaderLine(r, raw) = Responses
        /\ HeaderLine(r, raw).status =
             IF raw # <<>> /\ raw[1] \in Status THEN StatusOf(raw[1]) ELSE r.status
    BY <1>5, LineSets
  <1>8. HeaderLine(r, raw).status = StatusIs(h, StatusAt(h, m))
    BY <1>3, <1>5, <1>6, <1>7
  <1> QED BY <1>7, <1>8 DEF raw, m

(* After the loop the status is that of the last status line.              *)
LEMMA StatusRead ==
  ASSUME NEW h \in Seq(Unit)
  PROVE  /\ DOMAIN parse_cgi_headers(h) = Responses
         /\ parse_cgi_headers(h).status = StatusIs(h, StatusAt(h, Len(h)))
  <1> DEFINE R == ReadLines(h)
             N == Len(h)
             Good(n) == /\ DOMAIN R[n] = Responses
                        /\ R[n].status = StatusIs(h, StatusAt(h, LastEnd(h, n)))
             T == {n \in 0 .. N : ~ Good(n)}
  <1>1. N \in Nat /\ DOMAIN h = 1 .. N
    OBVIOUS
  <1>2. R[0] = Empty /\ \A n \in 1 .. N + 1 : R[n] = Turn(h, R[n - 1], n)
    BY LoopRuns
  <1> HIDE DEF R
  <1>3. Good(0)
    <2>1. LastEnd(h, 0) \in 0 .. 0
      BY <1>1, LastEndIs
    <2>2. StatusAt(h, LastEnd(h, 0)) = {}
      BY <2>1 DEF StatusAt
    <2> QED BY <1>2, <2>2 DEF Empty, Responses, StatusIs
  <1>4. ASSUME NEW n \in 1 .. N, Good(n - 1) PROVE Good(n)
    <2>1. R[n] = Turn(h, R[n - 1], n) /\ n \in 1 .. N + 1
      BY <1>1, <1>2
    <2>2. CASE h[n] # "LF"
      <3>1. R[n] = R[n - 1]
        BY <1>1, <2>1, <2>2 DEF Turn
      <3>2. {i \in 1 .. n : h[i] = "LF"} = {i \in 1 .. n - 1 : h[i] = "LF"}
        <4>1. \A i \in 1 .. n : h[i] = "LF" => i \in 1 .. n - 1
          BY <1>1, <2>2
        <4>2. \A i \in 1 .. n - 1 : i \in 1 .. n
          BY <1>1
        <4> QED BY <4>1, <4>2
      <3>3. LastEnd(h, n) = LastEnd(h, n - 1)
        BY <3>2, Zenon DEF LastEnd
      <3> QED BY <1>4, <3>1, <3>3, Zenon
    <2>3. CASE h[n] = "LF"
      <3>1. R[n] = HeaderLine(R[n - 1], Line(h, n))
        BY <1>1, <2>1, <2>3 DEF Turn
      <3>2. n \in 1 .. Len(h) + 1 /\ n \in 0 .. Len(h)
        BY <1>1
      <3>3. DOMAIN R[n] = Responses /\ R[n].status = StatusIs(h, StatusAt(h, n - 1))
        BY <1>4, <3>1, <3>2, TurnReads
      <3>4. LastEnd(h, n) = n
        <4>1. LastEnd(h, n) \in 0 .. n /\ n <= LastEnd(h, n)
          BY <2>3, <3>2, LastEndIs
        <4> QED BY <3>2, <4>1
      <3>5. StatusAt(h, n) = StatusAt(h, n - 1)
        <4>1. \A i \in 1 .. n : i \in 1 .. n - 1 \/ h[i] \notin Status
          BY <1>1, <2>3 DEF Status
        <4>2. \A i \in 1 .. n - 1 : i \in 1 .. n
          BY <1>1
        <4> QED BY <4>1, <4>2 DEF StatusAt
      <3> QED BY <3>3, <3>4, <3>5
    <2> QED BY <2>2, <2>3
  <1> HIDE DEF Good
  <1>5. T = {}
    <2> SUFFICES ASSUME T # {} PROVE FALSE
      OBVIOUS
    <2>1. PICK m \in T : \A k \in T : m <= k
      <3>1. T \in SUBSET Nat
        OBVIOUS
      <3> QED BY <3>1, MinIn
    <2>2. m \in 0 .. N /\ ~ Good(m)
      OBVIOUS
    <2>3. m - 1 \in 0 .. N /\ m \in 1 .. N /\ ~ (m <= m - 1)
      BY <1>1, <1>3, <2>2
    <2>4. m - 1 \notin T
      <3> HIDE DEF T
      <3> QED BY <2>1, <2>3
    <2>5. Good(m - 1)
      BY <2>3, <2>4
    <2> QED BY <1>4, <2>2, <2>3, <2>5
  <1>6. Good(N)
    BY <1>1, <1>5
  <1>7. R[N + 1] = HeaderLine(R[N], Line(h, N + 1))
    <2>1. N + 1 \in 1 .. N + 1 /\ N + 1 \notin DOMAIN h /\ N + 1 - 1 = N
      BY <1>1
    <2> QED BY <1>2, <2>1 DEF Turn
  <1>8. DOMAIN R[N + 1] = Responses /\ R[N + 1].status = StatusIs(h, StatusAt(h, N))
    <2>1. N + 1 \in 1 .. Len(h) + 1 /\ N + 1 - 1 = N
      BY <1>1
    <2>2. DOMAIN R[N] = Responses /\ R[N].status = StatusIs(h, StatusAt(h, LastEnd(h, N)))
      BY <1>6 DEF Good
    <2> DEFINE k == N + 1
    <2>3. k \in 1 .. Len(h) + 1 /\ k - 1 = N
      BY <2>1
    <2> HIDE DEF N, k
    <2>4. R[N].status = StatusIs(h, StatusAt(h, LastEnd(h, k - 1)))
      BY <2>2, <2>3
    <2>5. /\ DOMAIN HeaderLine(R[N], Line(h, k)) = Responses
          /\ HeaderLine(R[N], Line(h, k)).status = StatusIs(h, StatusAt(h, k - 1))
      BY <2>2, <2>3, <2>4, TurnReads
    <2> QED BY <1>7, <2>3, <2>5 DEF k
  <1> QED BY <1>8 DEF parse_cgi_headers, R

-----------------------------------------------------------------------------
(***************************************************************************)
(* What the output means.                                                  *)
(***************************************************************************)
(* A blank line of either kind where it is found.                          *)
LEMMA BlankFound ==
  ASSUME NEW s \in Seq(Unit)
  PROVE  /\ Find(s, Crlf2) # 0 => /\ Find(s, Crlf2) \in 1 .. Len(s) - 3
                                  /\ s[Find(s, Crlf2)] = "CR"
         /\ Find(s, Lf2) # 0 => /\ Find(s, Lf2) \in 1 .. Len(s) - 1
                                /\ s[Find(s, Lf2)] = "LF"
                                /\ SubSeq(s, Find(s, Lf2), Find(s, Lf2) + 1) = Lf2
  <1>1. /\ Crlf2 \in Seq(Unit) /\ Len(Crlf2) = 4 /\ Crlf2[1] = "CR"
        /\ Lf2 \in Seq(Unit) /\ Len(Lf2) = 2 /\ Lf2[1] = "LF"
    BY DEF Crlf2, Lf2, Unit
  <1>2. ASSUME NEW p \in Seq(Unit), NEW k \in Nat \ {0}, Len(p) = k, Find(s, p) # 0
        PROVE  /\ Find(s, p) \in 1 .. Len(s) - k + 1
               /\ SubSeq(s, Find(s, p), Find(s, p) + k - 1) = p /\ s[Find(s, p)] = p[1]
    <2> DEFINE f == Find(s, p)
    <2>1. f \in Hits(s, p)
      BY <1>2, FindIs
    <2>2. f \in 1 .. Len(s) - k + 1 /\ SubSeq(s, f, f + k - 1) = p
      BY <1>2, <2>1 DEF Hits
    <2> HIDE DEF f
    <2>3. SubSeq(s, f, f + k - 1)[1] = s[f]
      <3>1. f \in 1 .. Len(s) /\ f + k - 1 \in 1 .. Len(s) /\ f <= f + k - 1
        BY <2>2
      <3> DEFINE m == f + k - 1
      <3> HIDE DEF m
      <3>2. SubSeq(s, f, m)[1] = s[f]
        BY <3>1 DEF m
      <3> QED BY <3>2 DEF m
    <2> QED BY <2>2, <2>3 DEF f
  <1>3. Find(s, Crlf2) # 0 => Find(s, Crlf2) \in 1 .. Len(s) - 3 /\ s[Find(s, Crlf2)] = "CR"
    <2> SUFFICES ASSUME Find(s, Crlf2) # 0
                 PROVE  Find(s, Crlf2) \in 1 .. Len(s) - 3 /\ s[Find(s, Crlf2)] = "CR"
      OBVIOUS
    <2>1. /\ Find(s, Crlf2) \in 1 .. Len(s) - 4 + 1
          /\ s[Find(s, Crlf2)] = Crlf2[1]
      <3>1. 4 \in Nat \ {0}
        OBVIOUS
      <3> QED BY <1>1, <1>2, <3>1, Zenon
    <2>2. (Len(s) - 4) + 1 = Len(s) - 3
      OBVIOUS
    <2> QED BY <1>1, <2>1, <2>2
  <1>4. Find(s, Lf2) # 0 => /\ Find(s, Lf2) \in 1 .. Len(s) - 1 /\ s[Find(s, Lf2)] = "LF"
                            /\ SubSeq(s, Find(s, Lf2), Find(s, Lf2) + 1) = Lf2
    <2> SUFFICES ASSUME Find(s, Lf2) # 0
                 PROVE  /\ Find(s, Lf2) \in 1 .. Len(s) - 1 /\ s[Find(s, Lf2)] = "LF"
                        /\ SubSeq(s, Find(s, Lf2), Find(s, Lf2) + 1) = Lf2
      OBVIOUS
    <2> DEFINE f == Find(s, Lf2)
    <2>1. /\ f \in 1 .. Len(s) - 2 + 1 /\ s[f] = Lf2[1]
          /\ SubSeq(s, f, f + 2 - 1) = Lf2
      <3>1. 2 \in Nat \ {0}
        OBVIOUS
      <3> QED BY <1>1, <1>2, <3>1, Zenon
    <2> HIDE DEF f
    <2>2. (Len(s) - 2) + 1 = Len(s) - 1 /\ (f + 2) - 1 = f + 1
      BY <2>1
    <2> QED BY <1>1, <2>1, <2>2 DEF f
  <1> QED BY <1>3, <1>4, Zenon

(* The first of them, as long as no LF LF comes before the CR LF CR LF.    *)
LEMMA BlankIs ==
  ASSUME all \in Seq(Unit)
  PROVE  /\ Find(all, Crlf2) = 0 /\ Find(all, Lf2) = 0 => Blank = 0
         /\ Find(all, Crlf2) = 0 /\ Find(all, Lf2) # 0 => Blank = Find(all, Lf2) /\ Skip = 2
         /\ Find(all, Crlf2) # 0 /\ ~ Mixed => Blank = Find(all, Crlf2) /\ Skip = 4
  <1> DEFINE c == Find(all, Crlf2)
             l == Find(all, Lf2)
             b == {c, l} \ {0}
  <1>1. /\ c # 0 => c \in 1 .. Len(all) - 3 /\ all[c] = "CR"
        /\ l # 0 => /\ l \in 1 .. Len(all) - 1 /\ all[l] = "LF"
                    /\ SubSeq(all, l, l + 1) = Lf2
    BY BlankFound
  <1>2. Blank = IF b = {} THEN 0 ELSE Min(b)
    BY DEF Blank
  <1>3. Mixed <=> c # 0 /\ l # 0 /\ l < c
    BY DEF Mixed
  <1>4. Skip = IF SubSeq(all, Blank, Blank + 1) = Lf2 THEN 2 ELSE 4
    BY DEF Skip
  <1> HIDE DEF c, l
  <1>5. b \in SUBSET Nat
    BY <1>1
  <1>6. CASE c = 0 /\ l = 0
    BY <1>2, <1>6 DEF c, l
  <1>7. CASE c = 0 /\ l # 0
    <2>1. b = {l}
      BY <1>7
    <2>2. Min({l}) = l
      <3>1. {l} \in SUBSET Nat /\ {l} # {}
        BY <1>5, <2>1
      <3>2. Min({l}) \in {l}
        BY <3>1, MinIn
      <3> QED BY <3>2
    <2>3. Blank = l
      BY <1>2, <2>1, <2>2
    <2> QED BY <1>1, <1>4, <1>7, <2>3, Zenon DEF c, l
  <1>8. CASE c # 0 /\ ~ Mixed
    <2>1. c \in b /\ b # {} /\ \A y \in b : c <= y
      <3>1. c \in Nat /\ (l # 0 => c <= l)
        BY <1>1, <1>3, <1>8
      <3>2. \A y \in b : y = c \/ (y = l /\ l # 0)
        OBVIOUS
      <3> QED BY <1>1, <1>8, <3>1, <3>2
    <2>2. Min(b) \in b /\ Min(b) <= c
      BY <1>5, <2>1, MinIn
    <2>3. Blank = c
      <3>1. c <= Min(b) /\ Min(b) \in Nat /\ c \in Nat
        BY <1>5, <2>1, <2>2
      <3> HIDE DEF b
      <3> QED BY <1>2, <2>1, <2>2, <3>1
    <2>4. SubSeq(all, c, c + 1) # Lf2
      <3>1. c \in 1 .. Len(all) /\ c + 1 \in 1 .. Len(all) /\ all[c] = "CR"
        BY <1>1, <1>8
      <3> DEFINE m == c + 1
      <3> HIDE DEF m
      <3>2. SubSeq(all, c, m)[1] = all[c]
        BY <3>1 DEF m
      <3>3. Lf2[1] = "LF"
        BY DEF Lf2
      <3> QED BY <3>1, <3>2, <3>3 DEF m
    <2>5. Skip = 4
      BY <1>4, <2>3, <2>4, Zenon
    <2> QED BY <1>8, <2>3, <2>5 DEF c, l
  <1> QED BY <1>6, <1>7, <1>8 DEF c, l

(* The status of the lines before it is the one that is meant.             *)
LEMMA StatusMeant ==
  ASSUME all \in Seq(Unit), Blank \in 1 .. Len(all)
  PROVE  parse_cgi_headers(Before(all, Blank)).status = MeantStatus
  <1> DEFINE h == Before(all, Blank)
             n == Blank - 1
  <1>1. h \in Seq(Unit) /\ Len(h) = n /\ \A j \in 1 .. n : h[j] = all[j]
    <2>1. Blank \in 1 .. Len(all) + 1 /\ <<>> \in Seq(Unit)
      OBVIOUS
    <2> QED BY <2>1, PiecesAppend
  <1>2. n \in Nat /\ Blank # 0
    OBVIOUS
  <1>3. Statuses = {i \in 1 .. n : all[i] \in Status /\ (i = 1 \/ all[i - 1] = "LF")}
    BY DEF Statuses, LineStart, Status
  <1>4. MeantStatus = IF Statuses = {} THEN 200 ELSE StatusOf(all[Max(Statuses)])
    BY <1>2 DEF MeantStatus
  <1> HIDE DEF h, n
  <1>5. StatusAt(h, n) = Statuses
    <2>1. \A i \in 1 .. n : i # 1 => i - 1 \in 1 .. n
      BY <1>2
    <2> QED BY <1>1, <1>3, <2>1 DEF StatusAt
  <1>6. parse_cgi_headers(h).status = StatusIs(h, Statuses)
    BY <1>1, <1>5, StatusRead
  <1>7. CASE Statuses = {}
    BY <1>4, <1>6, <1>7, Zenon DEF StatusIs, h
  <1>8. CASE Statuses # {}
    <2>1. Statuses \in SUBSET (0 .. n) /\ Statuses \subseteq 1 .. n
      BY <1>3
    <2>2. Max(Statuses) \in 1 .. n
      BY <1>2, <1>8, <2>1, MaxIn
    <2>3. h[Max(Statuses)] = all[Max(Statuses)]
      BY <1>1, <2>2
    <2> QED BY <1>4, <1>6, <1>8, <2>3, Zenon DEF StatusIs, h
  <1> QED BY <1>7, <1>8

-----------------------------------------------------------------------------
(***************************************************************************)
(* Reading.                                                                *)
(***************************************************************************)
Answer(s) == IF s = <<>> THEN Error500 ELSE parse_cgi_response(s)
Streamed(s) == From(s, Find(s, Crlf2) + 4)

(* What was collected is all there is, or the headers were sent: then they *)
(* and the body are those of everything read.  At the end nothing is       *)
(* missing.                                                                *)
AnswerInv ==
  /\ all \in Seq(Unit) /\ headers_sent \in BOOLEAN
  /\ ~ headers_sent => cgi_output = all /\ Find(all, Crlf2) = 0
  /\ headers_sent => /\ Find(all, Crlf2) # 0 /\ body = Streamed(all)
                     /\ resp = parse_cgi_headers(Before(all, Find(all, Crlf2)))
  /\ at = "done" /\ ~ headers_sent => resp = Answer(all).head /\ body = Answer(all).body

(* Nothing is found in nothing.                                            *)
LEMMA FindNothing == Find(<<>>, Crlf2) = 0 /\ Find(<<>>, Lf2) = 0
  <1>1. <<>> \in Seq(Unit) /\ Len(<<>>) = 0
    OBVIOUS
  <1>2. Find(<<>>, Crlf2) # 0 => Find(<<>>, Crlf2) \in 1 .. 0 - 3
    BY <1>1, BlankFound
  <1>3. Find(<<>>, Lf2) # 0 => Find(<<>>, Lf2) \in 1 .. 0 - 1
    BY <1>1, BlankFound
  <1> QED BY <1>2, <1>3

(* More of a streamed body.                                                *)
LEMMA StreamedMore ==
  ASSUME NEW s \in Seq(Unit), NEW t \in Seq(Unit), Find(s, Crlf2) # 0
  PROVE  /\ Find(s \o t, Crlf2) = Find(s, Crlf2) /\ Streamed(s \o t) = Streamed(s) \o t
         /\ Before(s \o t, Find(s, Crlf2)) = Before(s, Find(s, Crlf2))
  <1> DEFINE c == Find(s, Crlf2)
  <1>1. c \in 1 .. Len(s) - 3
    BY BlankFound
  <1>2. Find(s \o t, Crlf2) = c
    <2>1. Crlf2 \in Seq(Unit)
      BY DEF Crlf2, Unit
    <2> QED BY <2>1, FindAppend
  <1> HIDE DEF c
  <1>3. c \in 1 .. Len(s) + 1 /\ c + 4 \in 1 .. Len(s) + 1
    BY <1>1
  <1>4. Before(s \o t, c) = Before(s, c) /\ From(s \o t, c + 4) = From(s, c + 4) \o t
    <2> DEFINE m == c + 4
    <2>1. m \in 1 .. Len(s) + 1
      BY <1>3
    <2> HIDE DEF m
    <2>2. From(s \o t, m) = From(s, m) \o t
      BY <2>1, PiecesAppend
    <2> QED BY <1>3, <2>2, PiecesAppend DEF m
  <1> QED BY <1>2, <1>4 DEF c, Streamed

(* Every read keeps it.                                                    *)
LEMMA ReadStep ==
  ASSUME AnswerInv, NEW bytes \in Reads, Collect(bytes) \/ SendHeaders(bytes) \/ Stream(bytes)
  PROVE  AnswerInv'
  <1>1. bytes \in Seq(Unit)
    BY ReadsAssumption
  <1>2. all \in Seq(Unit) /\ all' = all \o bytes /\ at' = "reading"
    BY DEF AnswerInv, Collect, SendHeaders, Stream, Got
  <1>3. all' \in Seq(Unit)
    BY <1>1, <1>2
  <1>4. CASE Collect(bytes)
    BY <1>2, <1>3, <1>4 DEF AnswerInv, Collect, Search
  <1>5. CASE SendHeaders(bytes)
    BY <1>2, <1>3, <1>5 DEF AnswerInv, SendHeaders, Search, BodyStart, Streamed
  <1>6. CASE Stream(bytes)
    <2>1. /\ headers_sent /\ headers_sent' = headers_sent /\ resp' = resp
          /\ Find(all, Crlf2) # 0 /\ body' = Streamed(all) \o bytes
          /\ resp = parse_cgi_headers(Before(all, Find(all, Crlf2)))
      BY <1>6 DEF AnswerInv, Stream
    <2>2. /\ Find(all', Crlf2) = Find(all, Crlf2) /\ Streamed(all') = Streamed(all) \o bytes
          /\ Before(all', Find(all, Crlf2)) = Before(all, Find(all, Crlf2))
      BY <1>1, <1>2, <2>1, StreamedMore
    <2>3. headers_sent' = TRUE
      BY <2>1 DEF AnswerInv
    <2> QED BY <1>2, <1>3, <2>1, <2>2, <2>3 DEF AnswerInv
  <1> QED BY <1>4, <1>5, <1>6

(* So does the end.                                                        *)
LEMMA EndStep ==
  ASSUME AnswerInv, finalize_cgi
  PROVE  AnswerInv'
  <1>1. /\ all' = all /\ cgi_output' = cgi_output /\ headers_sent' = headers_sent
        /\ at' = "done"
    BY DEF finalize_cgi
  <1>2. CASE headers_sent
    <2>1. resp' = resp /\ body' = body
      BY <1>2 DEF finalize_cgi
    <2> QED BY <1>1, <1>2, <2>1 DEF AnswerInv, Streamed
  <1>3. CASE ~ headers_sent
    <2>1. resp' = Answer(cgi_output).head /\ body' = Answer(cgi_output).body
      BY <1>3 DEF finalize_cgi, Answer
    <2>2. cgi_output = all
      BY <1>3 DEF AnswerInv
    <2> QED BY <1>1, <1>3, <2>1, <2>2 DEF AnswerInv
  <1> QED BY <1>2, <1>3 DEF AnswerInv

(* However the output is cut into reads, what is answered depends on all   *)
(* of it only (handle_cgi_output, finalize_cgi).                           *)
THEOREM AnswerInvariant == Spec => []AnswerInv
  <1>1. Init => AnswerInv
    <2>1. <<>> \in Seq(Unit)
      OBVIOUS
    <2> QED BY <2>1, FindNothing DEF Init, AnswerInv
  <1>2. AnswerInv /\ [Next]_vars => AnswerInv'
    <2>1. AnswerInv /\ UNCHANGED vars => AnswerInv'
      BY DEF AnswerInv, Answer, Streamed, vars
    <2> QED BY <2>1, ReadStep, EndStep DEF Next
  <1> QED BY <1>1, <1>2, PTL DEF Spec

-----------------------------------------------------------------------------
(* A body is set with its length.                                          *)
LEMMA BodyHasLength ==
  ASSUME NEW r, DOMAIN r = Responses, NEW b
  PROVE  /\ set_body(r, b).head.fields[<<"L">>] = <<Len(b)>> /\ set_body(r, b).body = b
         /\ set_body(r, b).head.status = r.status
  <1>1. Has(r.fields, <<"L">>, <<Len(b)>>)[<<"L">>] = <<Len(b)>>
    BY DEF Has
  <1> QED BY <1>1 DEF set_body, set_header, Responses

(* What finalize_cgi makes of output it collected.                         *)
LEMMA CollectedAnswer ==
  ASSUME NEW s \in Seq(Unit), Find(s, Crlf2) = 0
  PROVE  /\ Answer(s).head.fields[<<"L">>] = <<Len(Answer(s).body)>>
         /\ Find(s, Lf2) = 0 => Answer(s).head.status = 500 /\ Answer(s).body = <<"t">>
         /\ Find(s, Lf2) # 0 =>
              /\ Answer(s).head.status = parse_cgi_headers(Before(s, Find(s, Lf2))).status
              /\ Answer(s).body = From(s, Find(s, Lf2) + 2)
  <1> DEFINE l == Find(s, Lf2)
             r == parse_cgi_headers(Before(s, l))
             e == [status |-> 500, fields |-> << >>]
  <1>1. DOMAIN e = Responses /\ e.status = 500
    BY DEF Responses
  <1>2. Error500 = set_body(e, <<"t">>)
    BY DEF Error500
  <1> HIDE DEF e
  <1>3. CASE l = 0
    <2>1. Answer(s) = Error500
      BY <1>3 DEF Answer, parse_cgi_response
    <2> QED BY <1>1, <1>2, <1>3, <2>1, BodyHasLength
  <1>4. CASE l # 0
    <2>1. Answer(s) = set_body(r, From(s, l + 2))
      <3>1. s # <<>>
        BY <1>4, FindNothing
      <3> QED BY <1>4, <3>1 DEF Answer, parse_cgi_response
    <2>2. DOMAIN r = Responses
      <3>1. l \in 1 .. Len(s) + 1 /\ <<>> \in Seq(Unit)
        BY <1>4, BlankFound
      <3>2. Before(s, l) \in Seq(Unit)
        BY <3>1, PiecesAppend
      <3> QED BY <3>2, StatusRead
    <2> HIDE DEF r
    <2>3. /\ Answer(s).head.fields[<<"L">>] = <<Len(From(s, l + 2))>>
          /\ Answer(s).body = From(s, l + 2) /\ Answer(s).head.status = r.status
      BY <2>1, <2>2, BodyHasLength
    <2> QED BY <1>4, <2>3 DEF r
  <1> QED BY <1>3, <1>4

(* The client gets the last Status the header lines give and exactly the   *)
(* bytes after the blank line, or a 500 if there is none, wherever the     *)
(* reads cut the output, and whatever it is (parse_cgi_headers,            *)
(* parse_cgi_response).                                                    *)
THEOREM AnswerAlwaysAsMeant == Spec => []AnswerAsMeant
  <1>1. ASSUME AnswerInv PROVE AnswerAsMeant
    <2> SUFFICES ASSUME ~ Mixed, at = "done"
                 PROVE  resp.status = MeantStatus /\ body = MeantBody
      BY DEF AnswerAsMeant, AsMeant
    <2> DEFINE c == Find(all, Crlf2)
               l == Find(all, Lf2)
    <2>1. all \in Seq(Unit)
      BY <1>1 DEF AnswerInv
    <2>2. MeantBody = IF Blank = 0 THEN <<"t">> ELSE From(all, Blank + Skip)
      BY DEF MeantBody
    <2>3. /\ c # 0 => c \in 1 .. Len(all)
          /\ l # 0 => l \in 1 .. Len(all)
      BY <2>1, BlankFound
    <2>4. CASE headers_sent
      <3>1. c # 0 /\ resp = parse_cgi_headers(Before(all, c)) /\ body = From(all, c + 4)
        BY <1>1, <2>4 DEF AnswerInv, Streamed
      <3>2. Blank = c /\ Skip = 4
        BY <2>1, <3>1, BlankIs
      <3> HIDE DEF c
      <3>3. resp.status = MeantStatus
        BY <2>1, <2>3, <3>1, <3>2, StatusMeant
      <3> QED BY <2>2, <3>1, <3>2, <3>3
    <2>5. CASE ~ headers_sent
      <3>1. c = 0 /\ resp = Answer(all).head /\ body = Answer(all).body
        BY <1>1, <2>5 DEF AnswerInv
      <3>2. CASE l = 0
        <4>1. Blank = 0
          BY <2>1, <3>1, <3>2, BlankIs
        <4>2. resp.status = 500 /\ body = <<"t">>
          BY <2>1, <3>1, <3>2, CollectedAnswer
        <4> QED BY <2>2, <4>1, <4>2 DEF MeantStatus
      <3>3. CASE l # 0
        <4>1. Blank = l /\ Skip = 2
          BY <2>1, <3>1, <3>3, BlankIs
        <4>2. /\ resp.status = parse_cgi_headers(Before(all, l)).status
              /\ body = From(all, l + 2)
          BY <2>1, <3>1, <3>3, CollectedAnswer
        <4> HIDE DEF l
        <4>3. resp.status = MeantStatus
          BY <2>1, <2>3, <3>3, <4>1, <4>2, StatusMeant
        <4> QED BY <2>2, <2>3, <3>3, <4>1, <4>2, <4>3
      <3> QED BY <3>2, <3>3
    <2> QED BY <1>1, <2>4, <2>5 DEF AnswerInv
  <1> QED BY AnswerInvariant, <1>1, PTL

(* A response that was collected has the Content-Length of its body,       *)
(* whatever length the script declared (HTTPResponse::set_body).           *)
THEOREM CollectedAlwaysFramed == Spec => []CollectedIsFramed
  <1>1. ASSUME AnswerInv PROVE CollectedIsFramed
    <2> SUFFICES ASSUME at = "done", ~ headers_sent
                 PROVE  resp.fields[<<"L">>] = <<Len(body)>>
      BY DEF CollectedIsFramed
    <2>1. /\ all \in Seq(Unit) /\ Find(all, Crlf2) = 0
          /\ resp = Answer(all).head /\ body = Answer(all).body
      BY <1>1 DEF AnswerInv
    <2> QED BY <2>1, CollectedAnswer
  <1> QED BY AnswerInvariant, <1>1, PTL
=============================================================================
