-------------------------- MODULE EventLoopProofs --------------------------
(***************************************************************************)
(* The tables of the event loop, for any number of servers, descriptors,   *)
(* connections and cut bodies.  First the helpers (sorting, the lowest     *)
(* free numbers, erasing positions), then the types, then what holds in    *)
(* every state (Base), then what holds while no body has been cut          *)
(* (Tables).  Steps are classed by what they do to the tables: nothing     *)
(* (SameTables), take every trace of some descriptors (Shrinks), or add    *)
(* entries of free ones (Grows).                                           *)
(***************************************************************************)
EXTENDS EventLoop, FiniteSetTheorems, SequenceTheorems, TLAPS

(* Counting the smaller elements numbers a finite set from 0.              *)
LEMMA RankInjects ==
  ASSUME NEW S, S \subseteq Nat, IsFiniteSet(S)
  PROVE  [x \in S |-> Cardinality({y \in S : y < x})] \in Bijection(S, 0..(Cardinality(S) - 1))
<1> DEFINE below(x) == {y \in S : y < x}
<1> DEFINE rank == [x \in S |-> Cardinality(below(x))]
<1>1. \A x \in S : IsFiniteSet(below(x)) /\ Cardinality(below(x)) \in Nat
  <2> TAKE x \in S
  <2>1. below(x) \in SUBSET S
    OBVIOUS
  <2> QED
    BY <2>1, FS_Subset, FS_CardinalityType
<1>2. \A x \in S : Cardinality(below(x)) \in 0..(Cardinality(S) - 1)
  <2> TAKE x \in S
  <2>1. below(x) \in SUBSET S /\ x \notin below(x)
    BY SMT
  <2>2. Cardinality(below(x)) <= Cardinality(S) /\ Cardinality(S) # Cardinality(below(x))
    BY <2>1, FS_Subset
  <2> QED
    BY <1>1, <2>2, FS_CardinalityType
<1>3. \A x, z \in S : x < z => Cardinality(below(x)) < Cardinality(below(z))
  <2> SUFFICES ASSUME NEW x \in S, NEW z \in S, x < z
               PROVE  Cardinality(below(x)) < Cardinality(below(z))
    OBVIOUS
  <2>0. x \in Nat /\ z \in Nat /\ (\A y \in S : y \in Nat)
    OBVIOUS
  <2>1. below(x) \in SUBSET below(z) /\ x \in below(z) /\ x \notin below(x)
    <3>1. \A y \in S : y < x => y < z
      BY <2>0
    <3>2. ~ (x < x)
      BY <2>0
    <3> QED
      BY <3>1, <3>2, Zenon
  <2>2. Cardinality(below(x)) <= Cardinality(below(z))
        /\ Cardinality(below(z)) # Cardinality(below(x))
    BY <1>1, <2>1, FS_Subset
  <2> QED
    BY <1>1, <2>2
<1> HIDE DEF below
<1>4. rank \in Injection(S, 0..(Cardinality(S) - 1))
  <2>1. rank \in [S -> 0..(Cardinality(S) - 1)]
    BY <1>2
  <2>2. \A x, z \in S : rank[x] = rank[z] => x = z
    <3> TAKE x, z \in S
    <3>1. x \in Nat /\ z \in Nat
      OBVIOUS
    <3> QED
      BY <1>1, <1>3, <3>1
  <2> QED
    BY <2>1, <2>2, Zenon DEF Injection, IsInjective
<1>5. IsFiniteSet(0..(Cardinality(S) - 1)) /\ Cardinality(0..(Cardinality(S) - 1)) = Cardinality(S)
  <2>1. Cardinality(S) \in Nat /\ Cardinality(S) - 1 \in Int
    BY FS_CardinalityType
  <2> QED
    BY <2>1, FS_Interval
<1>6. rank \in Surjection(S, 0..(Cardinality(S) - 1))
  BY <1>4, <1>5, FS_Injection
<1> QED
  BY <1>4, <1>6, Zenon DEF Bijection, below

(* Sorted lists a finite set of numbers in increasing order, and all of it. *)
LEMMA SortedFacts ==
  ASSUME NEW S, S \subseteq Nat, IsFiniteSet(S)
  PROVE  /\ Cardinality(S) \in Nat
         /\ Sorted(S) \in [1..Cardinality(S) -> S]
         /\ Sorted(S) \in Seq(S) /\ Len(Sorted(S)) = Cardinality(S)
         /\ \A i, j \in 1..Cardinality(S) : i < j => Sorted(S)[i] < Sorted(S)[j]
         /\ \A x \in S : \E i \in 1..Cardinality(S) : Sorted(S)[i] = x
         /\ \A i \in 1..Cardinality(S), x \in S :
              Cardinality({y \in S : y < x}) = i - 1 => Sorted(S)[i] = x
<1> DEFINE n == Cardinality(S)
<1> DEFINE rank == [x \in S |-> Cardinality({y \in S : y < x})]
<1>1. n \in Nat
  BY FS_CardinalityType
<1>2. rank \in Bijection(S, 0..(n - 1))
  BY RankInjects
<1>3. /\ rank \in [S -> 0..(n - 1)]
      /\ \A x, y \in S : rank[x] = rank[y] => x = y
      /\ \A r \in 0..(n - 1) : \E x \in S : rank[x] = r
  BY <1>2, Zenon DEF Bijection, Injection, Surjection, IsInjective
<1> DEFINE s == Sorted(S)
<1>4. \A i \in 1..n : s[i] = CHOOSE x \in S : Cardinality({y \in S : y < x}) = i - 1
  BY DEF Sorted
<1>5. \A i \in 1..n : s[i] \in S /\ rank[s[i]] = i - 1
  <2> TAKE i \in 1..n
  <2>1. i - 1 \in 0..(n - 1)
    BY <1>1
  <2> HIDE DEF s, rank, n
  <2>2. \E x \in S : rank[x] = i - 1
    BY <1>3, <2>1
  <2>3. \E x \in S : Cardinality({y \in S : y < x}) = i - 1
    BY <2>2 DEF rank
  <2>4. s[i] \in S /\ Cardinality({y \in S : y < s[i]}) = i - 1
    BY <1>4, <2>3, Zenon
  <2> QED
    BY <2>4 DEF rank
<1>6. s \in [1..n -> S]
  BY <1>5 DEF Sorted
<1> HIDE DEF rank, n
<1>7. \A x, z \in S : x <= z => rank[x] <= rank[z]
  <2> SUFFICES ASSUME NEW x \in S, NEW z \in S, x <= z
               PROVE  rank[x] <= rank[z]
    OBVIOUS
  <2> DEFINE X == {y \in S : y < x}
             Z == {y \in S : y < z}
  <2>1. \A y \in S : y \in Nat
    OBVIOUS
  <2>2. \A y \in S : y < x => y < z
    BY <2>1
  <2>3. X \in SUBSET Z /\ Z \in SUBSET S
    BY <2>2, Zenon
  <2>4. IsFiniteSet(Z)
    BY <2>3, FS_Subset
  <2>5. Cardinality(X) <= Cardinality(Z)
    BY <2>3, <2>4, FS_Subset
  <2> QED
    BY <2>5 DEF rank
<1>8. \A i, j \in 1..n : i < j => s[i] < s[j]
  <2> SUFFICES ASSUME NEW i \in 1..n, NEW j \in 1..n, i < j
               PROVE  s[i] < s[j]
    OBVIOUS
  <2>1. s[i] \in S /\ s[j] \in S /\ s[i] \in Nat /\ s[j] \in Nat
    BY <1>5
  <2>2. rank[s[i]] = i - 1 /\ rank[s[j]] = j - 1
    BY <1>5
  <2>3. ~ (rank[s[j]] <= rank[s[i]])
    BY <1>1, <2>2
  <2>4. ~ (s[j] <= s[i])
    BY <1>7, <2>1, <2>3
  <2> QED
    BY <2>1, <2>4
<1>9. \A i \in 1..n, x \in S : rank[x] = i - 1 => s[i] = x
  BY <1>3, <1>5
<1>10. \A x \in S : \E i \in 1..n : s[i] = x
  <2> TAKE x \in S
  <2>1. rank[x] \in 0..(n - 1)
    BY <1>3
  <2>2. rank[x] + 1 \in 1..n /\ rank[x] = (rank[x] + 1) - 1
    BY <1>1, <2>1
  <2> QED
    BY <1>9, <2>2
<1>11. s \in Seq(S) /\ Len(s) = n
  BY <1>1, <1>6
<1> QED
  BY <1>1, <1>6, <1>8, <1>9, <1>10, <1>11 DEF n, rank

(* The least of a finite set of numbers.                                   *)
LEMMA MinFacts ==
  ASSUME NEW S, S \subseteq Nat, IsFiniteSet(S), S # {}
  PROVE  Min(S) \in S
<1>1. Cardinality(S) \in Nat /\ Cardinality(S) # 0
  BY FS_EmptySet, FS_CardinalityType
<1>2. 1 \in 1..Cardinality(S)
  BY <1>1
<1>3. Sorted(S)[1] \in S
  <2>1. Sorted(S) \in [1..Cardinality(S) -> S]
    BY SortedFacts
  <2> QED
    BY <1>2, <2>1
<1>4. \A y \in S : Sorted(S)[1] <= y
  <2> TAKE y \in S
  <2>1. PICK i \in 1..Cardinality(S) : Sorted(S)[i] = y
    BY SortedFacts
  <2>2. i = 1 \/ 1 < i
    BY <1>1
  <2>3. CASE i = 1
    <3>1. y = Sorted(S)[1] /\ y \in Nat
      BY <2>1, <2>3
    <3> QED
      BY <3>1
  <2>4. CASE 1 < i
    <3>1. Sorted(S)[1] < Sorted(S)[i]
      BY <1>2, <2>4, SortedFacts
    <3>2. Sorted(S)[1] \in Nat /\ y \in Nat
      BY <1>3
    <3> QED
      BY <2>1, <3>1, <3>2
  <2> QED
    BY <2>2, <2>3, <2>4
<1> QED
  BY <1>3, <1>4 DEF Min

(* Fds and what is free of it are finite.                                  *)
LEMMA FreeFdsFacts ==
  /\ Fds \subseteq Nat /\ IsFiniteSet(Fds) /\ FreeFds \subseteq Fds
  /\ FreeFds \subseteq Nat /\ IsFiniteSet(FreeFds) /\ Cardinality(FreeFds) \in Nat
<1>1. Fds \subseteq Nat /\ FreeFds \in SUBSET Fds
  BY EventLoopAssumption DEF Fds, FreeFds
<1>2. IsFiniteSet(Fds)
  BY EventLoopAssumption, FS_Interval DEF Fds
<1> QED
  BY <1>1, <1>2, FS_Subset, FS_CardinalityType

(* The kernel's n lowest free descriptors, when there are that many.       *)
LEMMA LowestFacts ==
  ASSUME NEW n \in Nat, n <= Cardinality(FreeFds)
  PROVE  /\ Lowest(n) \subseteq FreeFds /\ Lowest(n) \subseteq Nat
         /\ IsFiniteSet(Lowest(n)) /\ Cardinality(Lowest(n)) = n
<1> DEFINE s == Sorted(FreeFds)
           m == Cardinality(FreeFds)
           T == {s[i] : i \in 1..n}
<1>1. /\ m \in Nat /\ s \in [1..m -> FreeFds]
      /\ \A i, j \in 1..m : i < j => s[i] < s[j]
      /\ \A x \in FreeFds : \E i \in 1..m : s[i] = x
      /\ FreeFds \subseteq Nat
  BY FreeFdsFacts, SortedFacts
<1> HIDE DEF s, m
<1>2. n <= m
  BY DEF m
<1>3. \A i \in 1..n : i \in 1..m
  BY <1>1, <1>2
<1>4. T \in SUBSET FreeFds
  BY <1>1, <1>3
<1>5. [i \in 1..n |-> s[i]] \in Bijection(1..n, T)
  <2> DEFINE b == [i \in 1..n |-> s[i]]
  <2>1. b \in [1..n -> T]
    OBVIOUS
  <2>2. \A i, j \in 1..n : b[i] = b[j] => i = j
    <3> SUFFICES ASSUME NEW i \in 1..n, NEW j \in 1..n, b[i] = b[j]
                 PROVE  i = j
      OBVIOUS
    <3>1. s[i] = s[j] /\ s[i] \in Nat /\ s[j] \in Nat
      BY <1>1, <1>3
    <3>2. ~ (i < j) /\ ~ (j < i)
      BY <1>1, <1>3, <3>1
    <3> QED
      BY <3>2
  <2>3. \A t \in T : \E i \in 1..n : b[i] = t
    OBVIOUS
  <2> HIDE DEF b, T
  <2>4. DOMAIN b = 1..n
    BY <2>1
  <2>5. b \in Bijection(1..n, T)
    BY <2>1, <2>2, <2>3, <2>4, Zenon DEF Bijection, Injection, Surjection, IsInjective
  <2> QED
    BY <2>5 DEF b
<1>6. Cardinality(T) = n
  <2>1. ExistsBijection(1..n, T)
    BY <1>5, Zenon DEF ExistsBijection
  <2> QED
    BY <2>1, FS_CountingElements
<1>7. \A f \in T, g \in FreeFds \ T : f < g
  <2> SUFFICES ASSUME NEW i \in 1..n, NEW g \in FreeFds, g \notin T
               PROVE  s[i] < g
    OBVIOUS
  <2>1. PICK j \in 1..m : s[j] = g
    BY <1>1
  <2>2. j \notin 1..n
    BY <2>1
  <2>3. i < j
    BY <1>1, <2>2
  <2> QED
    BY <1>1, <1>3, <2>1, <2>3
<1>8. /\ Lowest(n) \in SUBSET FreeFds /\ Cardinality(Lowest(n)) = n
  <2> HIDE DEF T
  <2> QED
    BY <1>4, <1>6, <1>7 DEF Lowest
<1>9. IsFiniteSet(Lowest(n))
  BY <1>8, FreeFdsFacts, FS_Subset
<1> QED
  BY <1>8, <1>9, FreeFdsFacts

(***************************************************************************)
(* Erase drops the entries at some positions and keeps the order of the    *)
(* others: Kept(P)[i] is where the i-th entry that stays came from.        *)
(***************************************************************************)
PollEntry == [fd : Fds, c : 0..MaxConns, was : Kinds \cup {"none", "free"}]
Kept(P) == Sorted(DOMAIN poll_fds_ \ P)

LEMMA EraseFacts ==
  ASSUME poll_fds_ \in Seq(PollEntry), NEW P
  PROVE  /\ Erase(P) \in Seq(PollEntry) /\ DOMAIN Erase(P) = DOMAIN Kept(P)
         /\ \A i \in DOMAIN Erase(P) :
              /\ Kept(P)[i] \in DOMAIN poll_fds_ /\ Kept(P)[i] \notin P
              /\ Erase(P)[i] = poll_fds_[Kept(P)[i]]
         /\ \A i, j \in DOMAIN Erase(P) : i < j => Kept(P)[i] < Kept(P)[j]
<1> DEFINE D == DOMAIN poll_fds_ \ P
           n == Cardinality(D)
<1>1. DOMAIN poll_fds_ = 1..Len(poll_fds_) /\ Len(poll_fds_) \in Nat
  OBVIOUS
<1>2. D \subseteq Nat /\ IsFiniteSet(D)
  <2>1. IsFiniteSet(DOMAIN poll_fds_)
    BY <1>1, FS_Interval
  <2>2. D \in SUBSET DOMAIN poll_fds_
    OBVIOUS
  <2> QED
    BY <1>1, <2>1, <2>2, FS_Subset
<1>3. /\ n \in Nat /\ Kept(P) \in [1..n -> D]
      /\ \A i, j \in 1..n : i < j => Kept(P)[i] < Kept(P)[j]
  BY <1>2, SortedFacts DEF Kept
<1> HIDE DEF n
<1>4. Erase(P) = [i \in 1..n |-> poll_fds_[Kept(P)[i]]]
  BY <1>3 DEF Erase, Kept
<1>5. \A i \in 1..n : Kept(P)[i] \in D /\ poll_fds_[Kept(P)[i]] \in PollEntry
  BY <1>1, <1>3
<1>6. Erase(P) \in [1..n -> PollEntry]
  BY <1>4, <1>5
<1> QED
  BY <1>3, <1>4, <1>5, <1>6

(* What stands before all that is erased stays where it is.                *)
LEMMA ErasePrefix ==
  ASSUME poll_fds_ \in Seq(PollEntry), NEW P, NEW m \in Nat, m <= Len(poll_fds_),
         \A p \in P : p \notin 1..m
  PROVE  /\ m <= Len(Erase(P))
         /\ \A i \in 1..m : i \in DOMAIN Erase(P) /\ Erase(P)[i] = poll_fds_[i]
<1> DEFINE D == DOMAIN poll_fds_ \ P
           n == Cardinality(D)
<1>1. DOMAIN poll_fds_ = 1..Len(poll_fds_) /\ Len(poll_fds_) \in Nat
  OBVIOUS
<1>2. D \subseteq Nat /\ IsFiniteSet(D)
  <2>1. IsFiniteSet(DOMAIN poll_fds_)
    BY <1>1, FS_Interval
  <2>2. D \in SUBSET DOMAIN poll_fds_
    OBVIOUS
  <2> QED
    BY <1>1, <2>1, <2>2, FS_Subset
<1>3. 1..m \in SUBSET D
  BY <1>1
<1>4. n \in Nat /\ m <= n
  <2>1. Cardinality(1..m) = m
    BY FS_Interval
  <2> QED
    BY <1>2, <1>3, <2>1, FS_Subset, FS_CardinalityType
<1>5. \A i \in 1..m : Kept(P)[i] = i
  <2> TAKE i \in 1..m
  <2>1. {y \in D : y < i} = 1..(i - 1)
    BY <1>1, <1>3
  <2>2. Cardinality(1..(i - 1)) = i - 1
    BY FS_Interval
  <2>3. i \in 1..n /\ i \in D
    BY <1>3, <1>4
  <2>4. \A j \in 1..n, x \in D :
          Cardinality({y \in D : y < x}) = j - 1 => Kept(P)[j] = x
    <3> HIDE DEF D
    <3> QED
      BY <1>2, SortedFacts DEF Kept, D
  <2>5. Cardinality({y \in D : y < i}) = i - 1
    BY <2>1, <2>2, Zenon
  <2> QED
    BY <2>3, <2>4, <2>5, Zenon
<1>6. /\ DOMAIN Erase(P) = 1..n
      /\ \A i \in 1..n : Erase(P)[i] = poll_fds_[Kept(P)[i]]
  <2>1. DOMAIN Kept(P) = 1..n
    BY <1>2, SortedFacts DEF Kept
  <2> QED
    BY <2>1, EraseFacts
<1>7. Len(Erase(P)) = n
  <2>1. Erase(P) \in Seq(PollEntry)
    BY EraseFacts
  <2> HIDE DEF n
  <2>2. DOMAIN Erase(P) = 1..Len(Erase(P)) /\ Len(Erase(P)) \in Nat
    BY <2>1
  <2> QED
    BY <1>4, <1>6, <2>2
<1> HIDE DEF n, D
<1> QED
  BY <1>4, <1>5, <1>6, <1>7

-----------------------------------------------------------------------------
(***************************************************************************)
(* Types, in the form the provers need: the vectors are sequences and the  *)
(* maps are functions, and no number of a connection is ahead of made.     *)
(***************************************************************************)
FdMap(m) == DOMAIN m \subseteq Fds /\ m \in [DOMAIN m -> Fds]

Types ==
  /\ file \in [Fds -> Object] /\ made \in 0..MaxConns
  /\ phase \in {"init", "poll", "visit", "output", "timeouts", "exit"}
  /\ server_fds_ \in Seq(Fds) /\ poll_fds_ \in Seq(PollEntry)
  /\ DOMAIN clients_ \subseteq Fds /\ clients_ \in [DOMAIN clients_ -> Client]
  /\ FdMap(cgi_fd_to_client_fd_) /\ FdMap(cgi_stdin_fd_to_client_fd_)
  /\ idx \in Nat \ {0} /\ seen \in Fds \cup {NoFd} /\ cuts \in 0..MaxCuts

LEMMA TypesImply == Types => TypeOK
<1> SUFFICES ASSUME Types PROVE TypeOK
  OBVIOUS
<1>1. ToSet(server_fds_) \subseteq Fds
  BY DEF Types, ToSet
<1>2. ToSet(poll_fds_) \subseteq PollEntry
  BY DEF Types, ToSet
<1>3. Range(clients_) \subseteq Client
  BY DEF Types, Range
<1>4. \A m \in {cgi_fd_to_client_fd_, cgi_stdin_fd_to_client_fd_} :
       DOMAIN m \subseteq Fds /\ Range(m) \subseteq Fds
  BY DEF Types, FdMap, Range
<1> QED
  BY <1>1, <1>2, <1>3, <1>4 DEF Types, TypeOK, PollEntry

(* Adding to and taking from a map.                                        *)
LEMMA MapFacts ==
  ASSUME NEW m, FdMap(m)
  PROVE  /\ \A f : /\ FdMap(Without(m, f)) /\ DOMAIN Without(m, f) = DOMAIN m \ {f}
                   /\ \A x \in DOMAIN m : x # f => Without(m, f)[x] = m[x]
         /\ \A X : /\ FdMap(Restrict(m, DOMAIN m \ X))
                   /\ DOMAIN Restrict(m, DOMAIN m \ X) = DOMAIN m \ X
                   /\ \A x \in DOMAIN m \ X : Restrict(m, DOMAIN m \ X)[x] = m[x]
         /\ \A f, v \in Fds :
              /\ FdMap(With(m, f, v)) /\ DOMAIN With(m, f, v) = DOMAIN m \cup {f}
              /\ With(m, f, v)[f] = v
              /\ \A x \in DOMAIN m : x # f => With(m, f, v)[x] = m[x]
BY DEF FdMap, Without, Restrict, With

LEMMA ClientMapFacts ==
  ASSUME Types
  PROVE  /\ \A f : /\ DOMAIN Without(clients_, f) = DOMAIN clients_ \ {f}
                   /\ Without(clients_, f) \in [DOMAIN clients_ \ {f} -> Client]
                   /\ \A x \in DOMAIN clients_ : x # f => Without(clients_, f)[x] = clients_[x]
BY DEF Types, Without, Restrict

(* Closing descriptors.                                                    *)
LEMMA ClosingFacts ==
  ASSUME Types, NEW X
  PROVE  /\ Closing(X) \in [Fds -> Object]
         /\ \A f \in Fds : Closing(X)[f] = IF f \in X THEN Free ELSE file[f]
BY DEF Types, Closing, Object

(* The entry at the scan index.                                            *)
LEMMA CurFacts ==
  ASSUME Types, idx <= Len(poll_fds_)
  PROVE  /\ idx \in DOMAIN poll_fds_ /\ Cur \in PollEntry /\ Cur.fd \in Fds
         /\ Cur.c \in 0..MaxConns /\ Cur = poll_fds_[idx]
<1>1. idx \in DOMAIN poll_fds_
  BY DEF Types
<1>2. Cur \in PollEntry
  BY <1>1 DEF Types, Cur
<1> QED
  BY <1>1, <1>2 DEF PollEntry, Cur

(* Appending entries.                                                      *)
LEMMA PushFacts ==
  ASSUME Types, NEW es \in Seq(PollEntry)
  PROVE  /\ PushBack(es) \in Seq(PollEntry)
         /\ Len(PushBack(es)) = Len(poll_fds_) + Len(es)
         /\ \A i \in DOMAIN poll_fds_ : PushBack(es)[i] = poll_fds_[i]
         /\ \A i \in DOMAIN es : PushBack(es)[Len(poll_fds_) + i] = es[i]
BY DEF Types, PushBack

LEMMA RemoveTypes ==
  ASSUME Types, NEW i \in DOMAIN poll_fds_, remove_client(i),
         phase' \in {"visit", "output", "timeouts"}, idx' \in Nat \ {0},
         seen' \in Fds \cup {NoFd}
  PROVE  Types'
<1>1. poll_fds_' \in Seq(PollEntry)
  BY EraseFacts DEF remove_client, Types
<1>2. file' \in [Fds -> Object]
  BY ClosingFacts DEF remove_client
<1>3. FdMap(cgi_fd_to_client_fd_') /\ FdMap(cgi_stdin_fd_to_client_fd_')
  BY MapFacts DEF remove_client, Types
<1>4. DOMAIN clients_' \subseteq Fds /\ clients_' \in [DOMAIN clients_' -> Client]
  BY ClientMapFacts DEF remove_client, Types
<1>5. UNCHANGED <<made, server_fds_, cuts>>
  BY DEF remove_client
<1> QED
  BY <1>1, <1>2, <1>3, <1>4, <1>5 DEF Types, FdMap

-----------------------------------------------------------------------------
(***************************************************************************)
(* The inductive invariant.                                                *)
(***************************************************************************)
(* No connection has a number yet to be given.                             *)
Numbered ==
  /\ \A f \in Fds : file[f].c <= made
  /\ \A f \in DOMAIN clients_ : clients_[f].c <= made

(* A Client holds CGI descriptors exactly while its CGI is active: what    *)
(* dispatch_cgi overwrites is never the last trace of an open descriptor.  *)
ActiveHolds ==
  \A f \in DOMAIN clients_ :
    /\ clients_[f].active <=> clients_[f].out # NoFd
    /\ clients_[f].in # NoFd => clients_[f].active

(* The constructor pushes an entry for each listening socket and no other. *)
Starting ==
  phase = "init" => DOMAIN clients_ = {} /\ Len(poll_fds_) = Len(server_fds_)

(* Where the owner of an open descriptor is found, by its kind.            *)
Held ==
  /\ phase # "exit" => \A f \in Fds :
       /\ file[f].k = "listen" => f \in ToSet(server_fds_)
       /\ file[f].k = "sock" => Known(f)
       /\ file[f].k \in {"in", "out"} =>
            \E g \in DOMAIN clients_ : clients_[g].in = f \/ clients_[g].out = f
  /\ phase = "exit" => \A f \in Fds : file[f].k \notin {"listen", "sock"}

(* The CGI descriptors a Client holds are its own and registered for it.   *)
OwnPipes ==
  /\ {f \in Fds : file[f].k = "listen"} = ToSet(server_fds_)
  /\ \A g \in DOMAIN clients_ :
       LET cl == clients_[g]
       IN  /\ cl.in # NoFd => /\ file[cl.in] = [k |-> "in", c |-> cl.c]
                              /\ cgi_stdin_fd_to_client_fd_[cl.in] = g
           /\ cl.out # NoFd => /\ file[cl.out] = [k |-> "out", c |-> cl.c]
                               /\ cgi_fd_to_client_fd_[cl.out] = g

(* Listening sockets first, and a connection's socket before its pipes.    *)
InOrder ==
  /\ Len(server_fds_) <= Len(poll_fds_)
  /\ \A i \in DOMAIN server_fds_ : poll_fds_[i].fd = server_fds_[i]
  /\ \A i, j \in DOMAIN poll_fds_ :
       file[poll_fds_[i].fd].k = "sock" /\ poll_fds_[i].c = poll_fds_[j].c /\ i # j
       => i < j

Uncut == phase # "exit" /\ cuts = 0
Tables == EntriesLive /\ MapsAgree /\ OwnPipes /\ InOrder
Base  == Types /\ Numbered /\ ActiveHolds /\ OutputHasClient /\ Starting /\ Held
IInv  == Base /\ (Uncut => Tables)

-----------------------------------------------------------------------------
(* The descriptors the kernel hands out: free until then, each once.       *)
LEMMA NewFds ==
  ASSUME NEW n \in Nat, n <= Cardinality(FreeFds)
  PROVE  LET new == Sorted(Lowest(n))
         IN  /\ new \in [1..n -> FreeFds] /\ new \in Seq(FreeFds) /\ Len(new) = n
             /\ DOMAIN new = 1..n /\ ToSet(new) \subseteq FreeFds
             /\ \A i, j \in 1..n : new[i] = new[j] => i = j
             /\ \A i \in 1..n : (CHOOSE j \in DOMAIN new : new[j] = new[i]) = i
<1> DEFINE new == Sorted(Lowest(n))
<1>1. /\ Lowest(n) \subseteq FreeFds /\ Lowest(n) \subseteq Nat
      /\ IsFiniteSet(Lowest(n)) /\ Cardinality(Lowest(n)) = n
  BY LowestFacts
<1>2. /\ new \in [1..n -> Lowest(n)] /\ new \in Seq(Lowest(n)) /\ Len(new) = n
      /\ \A i, j \in 1..n : i < j => new[i] < new[j]
  BY <1>1, SortedFacts
<1> HIDE DEF new
<1>3. new \in [1..n -> FreeFds] /\ DOMAIN new = 1..n /\ new \in Seq(FreeFds)
  BY <1>1, <1>2
<1>4. ToSet(new) \subseteq FreeFds
  BY <1>3 DEF ToSet
<1>5. \A i, j \in 1..n : new[i] = new[j] => i = j
  <2> SUFFICES ASSUME NEW i \in 1..n, NEW j \in 1..n, new[i] = new[j]
               PROVE  i = j
    OBVIOUS
  <2>1. new[i] \in Nat /\ new[j] \in Nat
    BY <1>1, <1>2
  <2>2. ~ (new[i] < new[j]) /\ ~ (new[j] < new[i])
    BY <2>1
  <2> QED
    BY <1>2, <2>2
<1>6. \A i \in 1..n : (CHOOSE j \in DOMAIN new : new[j] = new[i]) = i
  BY <1>3, <1>5
<1> QED
  BY <1>2, <1>3, <1>4, <1>5, <1>6 DEF new

(* What accept_client does, with the numbers it gives spelled out.         *)
LEMMA AcceptFacts ==
  ASSUME Types, accept_client
  PROVE  \E n \in Nat, new \in Seq(FreeFds) :
           /\ made + n <= MaxConns /\ made' = made + n
           /\ Len(new) = n /\ new \in [1..n -> FreeFds]
           /\ \A i, j \in 1..n : new[i] = new[j] => i = j
           /\ file' \in [Fds -> Object]
           /\ \A i \in 1..n : file'[new[i]] = [k |-> "sock", c |-> made + i]
           /\ \A f \in Fds : f \notin ToSet(new) => file'[f] = file[f]
           /\ DOMAIN clients_' = DOMAIN clients_ \cup ToSet(new)
           /\ clients_' \in [DOMAIN clients_' -> Client]
           /\ \A f \in DOMAIN clients_ : clients_'[f] = clients_[f]
           /\ \A i \in 1..n : ~ Known(new[i]) => clients_'[new[i]] = NewClient(made + i)
           /\ [i \in 1..n |-> Entry(new[i], made + i)] \in Seq(PollEntry)
           /\ poll_fds_' = PushBack([i \in 1..n |-> Entry(new[i], made + i)])
           /\ ToOutput /\ UNCHANGED <<server_fds_, cuts, maps>>
<1>1. made \in 0..MaxConns /\ MaxConns \in Nat
  BY EventLoopAssumption DEF Types
<1>2. PICK n \in 0..(MaxConns - made) :
       /\ n <= Cardinality(FreeFds)
       /\ LET new == Sorted(Lowest(n))
              num(f) == made + (CHOOSE i \in DOMAIN new : new[i] = f)
          IN  /\ file' = [f \in Fds |-> IF f \in ToSet(new)
                                        THEN [k |-> "sock", c |-> num(f)] ELSE file[f]]
              /\ clients_' = [f \in DOMAIN clients_ \cup ToSet(new) |->
                                IF Known(f) THEN clients_[f] ELSE NewClient(num(f))]
              /\ poll_fds_' = PushBack([i \in DOMAIN new |-> Entry(new[i], made + i)])
              /\ made' = made + n
  BY Zenon DEF accept_client
<1>3. n \in Nat /\ made + n <= MaxConns
  BY <1>1, <1>2
<1> DEFINE new == Sorted(Lowest(n))
           at(f) == CHOOSE i \in DOMAIN new : new[i] = f
           es == [i \in 1..n |-> Entry(new[i], made + i)]
<1>4. /\ new \in [1..n -> FreeFds] /\ new \in Seq(FreeFds) /\ Len(new) = n
      /\ DOMAIN new = 1..n /\ ToSet(new) \subseteq FreeFds
      /\ \A i, j \in 1..n : new[i] = new[j] => i = j
      /\ \A i \in 1..n : at(new[i]) = i
  BY <1>2, <1>3, NewFds
<1>5. /\ file' = [f \in Fds |-> IF f \in ToSet(new)
                                THEN [k |-> "sock", c |-> made + at(f)] ELSE file[f]]
      /\ clients_' = [f \in DOMAIN clients_ \cup ToSet(new) |->
                        IF Known(f) THEN clients_[f] ELSE NewClient(made + at(f))]
      /\ poll_fds_' = PushBack([i \in DOMAIN new |-> Entry(new[i], made + i)])
      /\ made' = made + n
  BY <1>2
<1> HIDE DEF new, at
<1>6. ToSet(new) = {new[i] : i \in 1..n}
  BY <1>4 DEF ToSet
<1>7. \A f \in ToSet(new) : at(f) \in 1..n
  BY <1>4, <1>6
<1>8. \A i \in 1..n : made + i \in 1..MaxConns /\ made + i \in 0..MaxConns
  BY <1>1, <1>3
<1>9. FreeFds \subseteq Fds
  BY FreeFdsFacts
<1>10. file' \in [Fds -> Object]
  BY <1>5, <1>7, <1>8 DEF Types, Object, Kinds
<1>11. \A i \in 1..n : file'[new[i]] = [k |-> "sock", c |-> made + i]
  BY <1>4, <1>5, <1>6, <1>9
<1>12. \A c \in 1..MaxConns : NewClient(c) \in Client
  BY DEF NewClient, Client
<1>13. clients_' \in [DOMAIN clients_' -> Client]
  BY <1>5, <1>7, <1>8, <1>12 DEF Types, Known
<1>14. \A i \in 1..n : ~ Known(new[i]) => clients_'[new[i]] = NewClient(made + i)
  BY <1>4, <1>5, <1>6
<1>15. es \in Seq(PollEntry)
  <2>1. \A i \in 1..n : Entry(new[i], made + i) \in PollEntry
    BY <1>4, <1>8, <1>9 DEF Entry, PollEntry
  <2>2. es \in [1..n -> PollEntry]
    BY <2>1
  <2> QED
    BY <1>3, <2>2
<1>16. \A f \in DOMAIN clients_ : clients_'[f] = clients_[f]
  BY <1>5 DEF Known
<1>17. \A f \in Fds : f \notin ToSet(new) => file'[f] = file[f]
  BY <1>5
<1>18. ToOutput /\ UNCHANGED <<server_fds_, cuts, maps>>
  BY DEF accept_client
<1>19. DOMAIN clients_' = DOMAIN clients_ \cup ToSet(new) /\ poll_fds_' = PushBack(es)
  BY <1>4, <1>5
<1> QED
  BY <1>3, <1>4, <1>5, <1>10, <1>11, <1>13, <1>14, <1>15, <1>16, <1>17, <1>18, <1>19

(* What dispatch_cgi does, with its two ends named.                        *)
Dispatches(in, out, keep, pend, eof) ==
  /\ in # out
  /\ file' = [f \in Fds |-> IF f = out THEN [k |-> "out", c |-> Cl.c]
                            ELSE IF f = in /\ keep
                            THEN [k |-> "in", c |-> Cl.c] ELSE file[f]]
  /\ clients_' = [clients_ EXCEPT ![Cur.fd] =
       [Cl EXCEPT !.active = TRUE, !.hs = FALSE,
                  !.in = IF keep THEN in ELSE NoFd, !.out = out,
                  !.pend = pend, !.eof = eof]]
  /\ cgi_fd_to_client_fd_' = With(cgi_fd_to_client_fd_, out, Cur.fd)
  /\ cgi_stdin_fd_to_client_fd_' =
       IF keep THEN With(cgi_stdin_fd_to_client_fd_, in, Cur.fd)
       ELSE cgi_stdin_fd_to_client_fd_
  /\ poll_fds_' = PushBack(<<Entry(out, Cl.c)>>
                          \o IF keep THEN <<Entry(in, Cl.c)>> ELSE <<>>)
  /\ Reading /\ Known(Cur.fd) /\ ~ Cl.active
  /\ ToOutput /\ UNCHANGED <<made, server_fds_, cuts>>

LEMMA DispatchFacts ==
  ASSUME Types, dispatch_cgi
  PROVE  \E in, out \in FreeFds : \E keep, pend, eof \in BOOLEAN :
           Dispatches(in, out, keep, pend, eof)
<1> DEFINE p == Sorted(Lowest(4))
<1>1. PICK complete \in BOOLEAN, pend \in BOOLEAN :
       LET keep == ~ complete \/ pend
       IN  /\ file' = [f \in Fds |-> IF f = p[3] THEN [k |-> "out", c |-> Cl.c]
                                     ELSE IF f = p[2] /\ keep
                                     THEN [k |-> "in", c |-> Cl.c] ELSE file[f]]
           /\ Change(Cur.fd, [Cl EXCEPT !.active = TRUE, !.hs = FALSE,
                                !.in = IF keep THEN p[2] ELSE NoFd, !.out = p[3],
                                !.pend = pend, !.eof = complete /\ pend])
           /\ cgi_fd_to_client_fd_' = With(cgi_fd_to_client_fd_, p[3], Cur.fd)
           /\ cgi_stdin_fd_to_client_fd_' =
                IF keep THEN With(cgi_stdin_fd_to_client_fd_, p[2], Cur.fd)
                ELSE cgi_stdin_fd_to_client_fd_
           /\ poll_fds_' = PushBack(<<Entry(p[3], Cl.c)>>
                                   \o IF keep THEN <<Entry(p[2], Cl.c)>> ELSE <<>>)
  BY Zenon DEF dispatch_cgi
<1>2. 4 <= Cardinality(FreeFds)
  BY FreeFdsFacts DEF dispatch_cgi
<1>3. /\ p \in [1..4 -> FreeFds]
      /\ \A i, j \in 1..4 : p[i] = p[j] => i = j
  BY <1>2, NewFds
<1>4. p[2] \in FreeFds /\ p[3] \in FreeFds /\ p[2] # p[3]
  <2> HIDE DEF p
  <2> QED
    BY <1>3
<1>5. /\ Reading /\ Known(Cur.fd) /\ ~ Cl.active
      /\ ToOutput /\ UNCHANGED <<made, server_fds_, cuts>>
  BY DEF dispatch_cgi
<1> HIDE DEF p
<1> DEFINE in == p[2]
           out == p[3]
           keep == ~ complete \/ pend
           eof == complete /\ pend
<1>6. keep \in BOOLEAN /\ eof \in BOOLEAN
  OBVIOUS
<1>7. /\ file' = [f \in Fds |-> IF f = out THEN [k |-> "out", c |-> Cl.c]
                                ELSE IF f = in /\ keep
                                THEN [k |-> "in", c |-> Cl.c] ELSE file[f]]
      /\ clients_' = [clients_ EXCEPT ![Cur.fd] =
           [Cl EXCEPT !.active = TRUE, !.hs = FALSE,
                      !.in = IF keep THEN in ELSE NoFd, !.out = out,
                      !.pend = pend, !.eof = eof]]
      /\ cgi_fd_to_client_fd_' = With(cgi_fd_to_client_fd_, out, Cur.fd)
      /\ cgi_stdin_fd_to_client_fd_' =
           IF keep THEN With(cgi_stdin_fd_to_client_fd_, in, Cur.fd)
           ELSE cgi_stdin_fd_to_client_fd_
      /\ poll_fds_' = PushBack(<<Entry(out, Cl.c)>>
                              \o IF keep THEN <<Entry(in, Cl.c)>> ELSE <<>>)
  BY <1>1, Zenon DEF Change
<1>8. in \in FreeFds /\ out \in FreeFds /\ in # out
  BY <1>4
<1> HIDE DEF in, out, keep, eof
<1>9. Dispatches(in, out, keep, pend, eof)
  BY <1>5, <1>7, <1>8, Zenon DEF Dispatches
<1> QED
  BY <1>6, <1>8, <1>9, Zenon

(* The Client at a descriptor, and putting another one there.              *)
LEMMA ChangeTypes ==
  ASSUME Types, NEW f, NEW cl, f \in DOMAIN clients_ => cl \in Client, Change(f, cl)
  PROVE  /\ DOMAIN clients_' = DOMAIN clients_
         /\ clients_' \in [DOMAIN clients_' -> Client]
         /\ f \in DOMAIN clients_ => clients_'[f] = cl
         /\ \A g \in DOMAIN clients_ : g # f => clients_'[g] = clients_[g]
BY DEF Types, Change

LEMMA TypesInit == Init => Types
<1> SUFFICES ASSUME Init PROVE Types
  OBVIOUS
<1>1. file \in [Fds -> Object]
  BY DEF Init, Object
<1>2. /\ server_fds_ \in Seq(Fds) /\ poll_fds_ \in Seq(PollEntry)
      /\ DOMAIN clients_ \subseteq Fds /\ clients_ \in [DOMAIN clients_ -> Client]
      /\ FdMap(cgi_fd_to_client_fd_) /\ FdMap(cgi_stdin_fd_to_client_fd_)
  BY DEF Init, FdMap
<1> QED
  BY <1>1, <1>2, EventLoopAssumption DEF Init, Types, NoFd

LEMMA TypesStep == Types /\ [Next]_vars => Types'
<1> SUFFICES ASSUME Types, [Next]_vars PROVE Types'
  OBVIOUS
<1>a. \A f \in DOMAIN clients_ : clients_[f] \in Client
  BY DEF Types
<1>b. ASSUME idx <= Len(poll_fds_), ToOutput
      PROVE  phase' = "output" /\ idx' \in Nat \ {0} /\ seen' \in Fds \cup {NoFd}
  BY <1>b, CurFacts DEF ToOutput, Types
<1>c. ASSUME NEW i \in {idx, idx + 1}, Stay(i)
      PROVE  phase' = "visit" /\ idx' \in Nat \ {0} /\ seen' \in Fds \cup {NoFd}
  BY <1>c DEF Stay, Types
<1>1. CASE Listen
  <2>1. FreeFds # {} /\ Min(FreeFds) \in Fds
    BY <1>1, MinFacts, FreeFdsFacts DEF Listen
  <2>2. [k |-> "listen", c |-> 0] \in Object /\ Entry(Min(FreeFds), 0) \in PollEntry
    BY <2>1, EventLoopAssumption DEF Object, Kinds, Entry, PollEntry
  <2> QED
    BY <1>1, <2>1, <2>2 DEF Listen, Types, maps, FdMap
<1>2. CASE ListenFails
  BY <1>2, ClosingFacts DEF ListenFails, Types, maps, FdMap
<1>3. CASE Stop
  BY <1>3, ClosingFacts DEF Stop, Types, maps, FdMap
<1>4. CASE Poll
  <2>1. \A i \in DOMAIN poll_fds_ :
          [poll_fds_[i] EXCEPT !.was = file[poll_fds_[i].fd].k] \in PollEntry
    <3> TAKE i \in DOMAIN poll_fds_
    <3>1. poll_fds_[i] \in PollEntry
      BY DEF Types
    <3>2. poll_fds_[i].fd \in Fds
      BY <3>1 DEF PollEntry
    <3>3. file[poll_fds_[i].fd].k \in Kinds \cup {"none", "free"}
      BY <3>2 DEF Types, Object, Free
    <3> QED
      BY <3>1, <3>3 DEF PollEntry
  <2>2. poll_fds_' \in Seq(PollEntry)
    <3>1. poll_fds_ \in Seq(PollEntry)
      BY DEF Types
    <3>2. poll_fds_' = [i \in DOMAIN poll_fds_ |->
                          [poll_fds_[i] EXCEPT !.was = file[poll_fds_[i].fd].k]]
      BY <1>4 DEF Poll
    <3>3. PICK n \in Nat : DOMAIN poll_fds_ = 1..n
      BY <3>1
    <3>4. poll_fds_' \in [1..n -> PollEntry]
      BY <2>1, <3>2, <3>3, Zenon
    <3> QED
      BY <3>4
  <2> QED
    BY <1>4, <2>2 DEF Poll, Types, maps, FdMap
<1>5. CASE EndScan
  BY <1>5 DEF EndScan, Types, maps, FdMap
<1>6. CASE NoInput
  BY <1>6, <1>b DEF NoInput, Types, maps, FdMap
<1>7. CASE Clear
  <2>1. \A i \in DOMAIN poll_fds_ : [poll_fds_[i] EXCEPT !.was = "none"] \in PollEntry
    <3>1. \A e \in PollEntry : [e EXCEPT !.was = "none"] \in PollEntry
      BY DEF PollEntry
    <3> QED
      BY <3>1 DEF Types
  <2>2. poll_fds_' \in Seq(PollEntry)
    BY <1>7, <2>1 DEF Clear, Types
  <2> QED
    BY <1>7, <2>2, <1>c DEF Clear, Types, maps, FdMap
<1>8. CASE TimeOut
  <2>1. PICK i \in DOMAIN poll_fds_ : remove_client(i)
    BY <1>8 DEF TimeOut
  <2>2. phase' \in {"visit", "output", "timeouts"} /\ idx' \in Nat \ {0}
        /\ seen' \in Fds \cup {NoFd}
    BY <1>8 DEF TimeOut, Types
  <2> QED
    BY <2>1, <2>2, RemoveTypes
<1>9. CASE EndRound
  <2>1. \A i \in DOMAIN poll_fds_ : [poll_fds_[i] EXCEPT !.was = "none"] \in PollEntry
    <3>1. \A e \in PollEntry : [e EXCEPT !.was = "none"] \in PollEntry
      BY DEF PollEntry
    <3> QED
      BY <3>1 DEF Types
  <2>2. poll_fds_' \in Seq(PollEntry)
    BY <1>9, <2>1 DEF EndRound, Types
  <2> QED
    BY <1>9, <2>2 DEF EndRound, Types, maps, FdMap
<1>10. CASE StdinError
  <2> DEFINE g == cgi_stdin_fd_to_client_fd_[Cur.fd]
  <2>1. DOMAIN clients_' \subseteq Fds /\ clients_' \in [DOMAIN clients_' -> Client]
    <3>1. CASE Known(g)
      <4>1. Change(g, [clients_[g] EXCEPT !.in = NoFd])
        BY <1>10, <3>1 DEF StdinError
      <4>2. [clients_[g] EXCEPT !.in = NoFd] \in Client
        BY <1>a, <3>1 DEF Known, Client
      <4> QED
        BY <4>1, <4>2, ChangeTypes DEF Types
    <3>2. CASE ~ Known(g)
      BY <1>10, <3>2 DEF StdinError, Types
    <3> QED
      BY <3>1, <3>2
  <2>2. file' \in [Fds -> Object]
    BY <1>10, ClosingFacts DEF StdinError
  <2>3. poll_fds_' \in Seq(PollEntry)
    BY <1>10, EraseFacts DEF StdinError, Types
  <2>4. FdMap(cgi_stdin_fd_to_client_fd_')
    BY <1>10, MapFacts DEF StdinError, Types
  <2>5. Stay(idx) /\ UNCHANGED <<made, server_fds_, cuts, cgi_fd_to_client_fd_>>
    BY <1>10 DEF StdinError
  <2> QED
    BY <2>1, <2>2, <2>3, <2>4, <2>5, <1>c DEF Types, FdMap
<1>11. CASE SocketError
  BY <1>11, <1>c, RemoveTypes, CurFacts DEF SocketError, Visiting
<1>12. CASE accept_client
  <2>1. PICK n \in Nat, new \in Seq(FreeFds) :
           /\ made + n <= MaxConns /\ made' = made + n
           /\ file' \in [Fds -> Object]
           /\ DOMAIN clients_' = DOMAIN clients_ \cup ToSet(new)
           /\ clients_' \in [DOMAIN clients_' -> Client]
           /\ [i \in 1..n |-> Entry(new[i], made + i)] \in Seq(PollEntry)
           /\ poll_fds_' = PushBack([i \in 1..n |-> Entry(new[i], made + i)])
           /\ ToOutput /\ UNCHANGED <<server_fds_, cuts, maps>>
    BY <1>12, AcceptFacts, Zenon
  <2>2. ToSet(new) \subseteq Fds
    <3>1. \A i \in DOMAIN new : new[i] \in FreeFds
      OBVIOUS
    <3> QED
      BY <3>1, FreeFdsFacts DEF ToSet
  <2>3. poll_fds_' \in Seq(PollEntry)
    BY <2>1, PushFacts
  <2>4. idx <= Len(poll_fds_)
    BY <1>12 DEF accept_client, Visiting
  <2>5. made' \in 0..MaxConns
    BY <2>1 DEF Types
  <2> QED
    BY <1>b, <2>1, <2>2, <2>3, <2>4, <2>5 DEF Types, maps, FdMap
<1>13. CASE SkipStdin
  BY <1>13, <1>c DEF SkipStdin, Types, maps, FdMap
<1>14. CASE CgiOutput
  <2>1. PICK hs \in BOOLEAN : Change(CgiClient, [clients_[CgiClient] EXCEPT !.hs = @ \/ hs])
    BY <1>14 DEF CgiOutput
  <2>2. CgiClient \in DOMAIN clients_ =>
          [clients_[CgiClient] EXCEPT !.hs = @ \/ hs] \in Client
    BY <1>a DEF Client
  <2> QED
    BY <1>14, <2>1, <2>2, <1>c, ChangeTypes DEF CgiOutput, Types, maps, FdMap
<1>15. CASE CgiEnd
  <2> DEFINE cl == clients_[CgiClient]
  <2>1. CgiClient \in DOMAIN clients_ => Finished(cl) \in Client
    BY <1>a DEF Client, Finished
  <2>2. Change(CgiClient, Finished(cl)) /\ Cut(cl)
    BY <1>15 DEF CgiEnd
  <2>3. file' \in [Fds -> Object]
    BY <1>15, ClosingFacts DEF CgiEnd
  <2>4. poll_fds_' \in Seq(PollEntry)
    BY <1>15, EraseFacts DEF CgiEnd, Types
  <2>5. FdMap(cgi_fd_to_client_fd_')
    BY <1>15, MapFacts DEF CgiEnd, Types
  <2>6. cuts' \in 0..MaxCuts
    BY <2>2, EventLoopAssumption DEF Cut, Types
  <2>7. DOMAIN clients_' = DOMAIN clients_ /\ clients_' \in [DOMAIN clients_' -> Client]
    BY <2>1, <2>2, ChangeTypes
  <2>8. Stay(idx) /\ UNCHANGED <<made, server_fds_, cgi_stdin_fd_to_client_fd_>>
    BY <1>15 DEF CgiEnd
  <2> QED
    BY <2>3, <2>4, <2>5, <2>6, <2>7, <2>8, <1>c DEF Types, FdMap
<1>16. CASE ReadNoClient
  <2>1. idx <= Len(poll_fds_)
    BY <1>16 DEF ReadNoClient, Reading, Visiting
  <2> QED
    BY <1>16, <2>1, CurFacts DEF ReadNoClient, Types, maps, FdMap
<1>17. CASE BodyCut
  <2>1. idx <= Len(poll_fds_) /\ Cl \in Client
    BY <1>17, <1>a DEF BodyCut, Reading, Visiting, Known, Cl
  <2> DEFINE closes == IF Cl.pend THEN {} ELSE StdinOf(Cl)
             cl == [Cl EXCEPT !.eof = TRUE, !.in = IF closes = {} THEN @ ELSE NoFd]
  <2>2. cl \in Client
    BY <2>1 DEF Client
  <2>3. Change(Cur.fd, cl) /\ file' = Closing(closes) /\ Cut(Cl)
    BY <1>17, Zenon DEF BodyCut
  <2> HIDE DEF cl, closes
  <2>4. cuts' \in 0..MaxCuts
    BY <2>3, EventLoopAssumption DEF Cut, Types
  <2>5. file' \in [Fds -> Object]
    BY <2>3, ClosingFacts
  <2>6. DOMAIN clients_' = DOMAIN clients_ /\ clients_' \in [DOMAIN clients_' -> Client]
    BY <2>2, <2>3, ChangeTypes
  <2>7. ToOutput /\ UNCHANGED <<made, server_fds_, poll_fds_, maps>>
    BY <1>17 DEF BodyCut
  <2> QED
    BY <1>b, <2>1, <2>4, <2>5, <2>6, <2>7 DEF Types, maps, FdMap
<1>18. CASE BodyBuffered
  <2>1. idx <= Len(poll_fds_) /\ Cl \in Client /\ Cl.in # NoFd
    BY <1>18, <1>a DEF BodyBuffered, Reading, Visiting, Known, Cl
  <2>2. Entry(Cl.in, Cl.c) \in PollEntry /\ Cl.in \in Fds
    BY <2>1 DEF Entry, PollEntry, Client
  <2>3. PushBack(<<Entry(Cl.in, Cl.c)>>) \in Seq(PollEntry)
    <3>1. <<Entry(Cl.in, Cl.c)>> \in Seq(PollEntry)
      BY <2>2
    <3> QED
      BY <3>1, PushFacts
  <2>4. FdMap(With(cgi_stdin_fd_to_client_fd_, Cl.in, Cur.fd))
    BY <2>1, <2>2, MapFacts, CurFacts DEF Types
  <2>8. poll_fds_' \in Seq(PollEntry) /\ FdMap(cgi_stdin_fd_to_client_fd_')
    <3>1. CASE isCgiStdinFd(Cl.in)
      <4>1. UNCHANGED <<poll_fds_, cgi_stdin_fd_to_client_fd_>>
        BY <1>18, <3>1 DEF BodyBuffered
      <4> QED
        BY <4>1 DEF Types, FdMap
    <3>2. CASE ~ isCgiStdinFd(Cl.in)
      BY <1>18, <2>3, <2>4, <3>2 DEF BodyBuffered
    <3> QED
      BY <3>1, <3>2
  <2>5. [Cl EXCEPT !.pend = TRUE] \in Client
    BY <2>1 DEF Client
  <2>6. DOMAIN clients_' = DOMAIN clients_ /\ clients_' \in [DOMAIN clients_' -> Client]
    BY <1>18, <2>5, ChangeTypes DEF BodyBuffered
  <2>7. ToOutput /\ UNCHANGED <<file, made, server_fds_, cuts, cgi_fd_to_client_fd_>>
    BY <1>18 DEF BodyBuffered
  <2> QED
    BY <1>b, <2>1, <2>6, <2>7, <2>8 DEF Types, FdMap
<1>19. CASE BodyEnds
  <2>1. idx <= Len(poll_fds_) /\ Cl \in Client
    BY <1>19, <1>a DEF BodyEnds, Reading, Visiting, Known, Cl
  <2>2. [Cl EXCEPT !.eof = TRUE] \in Client /\ [Cl EXCEPT !.in = NoFd] \in Client
    BY <2>1 DEF Client
  <2>3. DOMAIN clients_' = DOMAIN clients_ /\ clients_' \in [DOMAIN clients_' -> Client]
    BY <1>19, <2>2, ChangeTypes DEF BodyEnds
  <2>4. file' \in [Fds -> Object]
    BY <1>19, ClosingFacts DEF BodyEnds, Types
  <2>5. poll_fds_' \in Seq(PollEntry)
    BY <1>19, EraseFacts DEF BodyEnds, DropStdinOf, Types
  <2>6. FdMap(cgi_stdin_fd_to_client_fd_')
    <3>1. FdMap(Without(cgi_stdin_fd_to_client_fd_, Cl.in))
      BY MapFacts DEF Types
    <3>2. \/ cgi_stdin_fd_to_client_fd_' = cgi_stdin_fd_to_client_fd_
          \/ cgi_stdin_fd_to_client_fd_' = Without(cgi_stdin_fd_to_client_fd_, Cl.in)
      BY <1>19 DEF BodyEnds, DropStdinOf
    <3> QED
      BY <3>1, <3>2 DEF Types, FdMap
  <2>7. ToOutput /\ UNCHANGED <<made, server_fds_, cuts, cgi_fd_to_client_fd_>>
    BY <1>19 DEF BodyEnds
  <2> QED
    BY <1>b, <2>1, <2>3, <2>4, <2>5, <2>6, <2>7 DEF Types, FdMap
<1>20. CASE RequestEof
  BY <1>20, <1>b, RemoveTypes, CurFacts DEF RequestEof, Reading, Visiting
<1>21. CASE Answered
  <2>1. idx <= Len(poll_fds_) /\ Cl \in Client
    BY <1>21, <1>a DEF Answered, Reading, Visiting, Known, Cl
  <2>2. [Cl EXCEPT !.ans = TRUE] \in Client
    BY <2>1 DEF Client
  <2>3. DOMAIN clients_' = DOMAIN clients_ /\ clients_' \in [DOMAIN clients_' -> Client]
    BY <1>21, <2>2, ChangeTypes DEF Answered
  <2> QED
    BY <1>21, <1>b, <2>1, <2>3 DEF Answered, Types, maps, FdMap
<1>22. CASE PipeFails
  <2>1. idx <= Len(poll_fds_) /\ Cl \in Client
    BY <1>22, <1>a DEF PipeFails, Reading, Visiting, Known, Cl
  <2>2. [Cl EXCEPT !.ans = TRUE] \in Client /\ [k |-> "lost", c |-> Cl.c] \in Object
    <3>1. Cl.c \in 0..MaxConns
      BY <2>1 DEF Client
    <3> QED
      BY <2>1, <3>1 DEF Client, Object, Kinds
  <2>3. DOMAIN clients_' = DOMAIN clients_ /\ clients_' \in [DOMAIN clients_' -> Client]
    BY <1>22, <2>2, ChangeTypes DEF PipeFails
  <2>4. file' \in [Fds -> Object]
    BY <1>22, <2>2 DEF PipeFails, Types
  <2> QED
    BY <1>22, <1>b, <2>1, <2>3, <2>4 DEF PipeFails, Types, maps, FdMap
<1>23. CASE dispatch_cgi
  <2>1. PICK in \in FreeFds, out \in FreeFds : \E keep, pend, eof \in BOOLEAN :
           Dispatches(in, out, keep, pend, eof)
    BY <1>23, DispatchFacts
  <2>2. PICK keep \in BOOLEAN, pend \in BOOLEAN, eof \in BOOLEAN :
           Dispatches(in, out, keep, pend, eof)
    BY <2>1
  <2>3. idx <= Len(poll_fds_) /\ Cl \in Client /\ in \in Fds /\ out \in Fds
    BY <2>2, <1>a, FreeFdsFacts DEF Dispatches, Reading, Visiting, Known, Cl
  <2> DEFINE cl == [Cl EXCEPT !.active = TRUE, !.hs = FALSE,
                      !.in = IF keep THEN in ELSE NoFd, !.out = out,
                      !.pend = pend, !.eof = eof]
  <2>4. cl \in Client
    BY <2>3 DEF Client
  <2>5. Change(Cur.fd, cl)
    BY <2>2 DEF Dispatches, Change
  <2>6. DOMAIN clients_' = DOMAIN clients_ /\ clients_' \in [DOMAIN clients_' -> Client]
    BY <2>4, <2>5, ChangeTypes
  <2>7. file' \in [Fds -> Object]
    BY <2>2, <2>3 DEF Dispatches, Types, Object, Kinds, Client
  <2>8. FdMap(cgi_stdin_fd_to_client_fd_') /\ FdMap(cgi_fd_to_client_fd_')
    BY <2>2, <2>3, MapFacts, CurFacts DEF Dispatches, Types
  <2>9. Entry(in, Cl.c) \in PollEntry /\ Entry(out, Cl.c) \in PollEntry
    BY <2>3 DEF Entry, PollEntry, Client
  <2>10. <<Entry(out, Cl.c)>> \o (IF keep THEN <<Entry(in, Cl.c)>> ELSE <<>>)
            \in Seq(PollEntry)
    BY <2>9
  <2>11. poll_fds_' \in Seq(PollEntry)
    BY <2>2, <2>10, PushFacts DEF Dispatches
  <2>12. ToOutput /\ UNCHANGED <<made, server_fds_, cuts>>
    BY <2>2 DEF Dispatches
  <2> QED
    BY <1>b, <2>3, <2>6, <2>7, <2>8, <2>11, <2>12 DEF Types, FdMap
<1>24. CASE AnswerEnds
  BY <1>24, <1>c, RemoveTypes, CurFacts DEF AnswerEnds, Writing
<1>25. CASE StdinOrphan
  <2>1. file' \in [Fds -> Object]
    BY <1>25, ClosingFacts DEF StdinOrphan
  <2>2. poll_fds_' \in Seq(PollEntry)
    BY <1>25, EraseFacts DEF StdinOrphan, Types
  <2>3. FdMap(cgi_stdin_fd_to_client_fd_')
    BY <1>25, MapFacts DEF StdinOrphan, Types
  <2> QED
    BY <1>25, <1>c, <2>1, <2>2, <2>3 DEF StdinOrphan, Types, FdMap
<1>26. CASE StdinFlush
  <2>1. PICK pend \in {FALSE, clients_[StdinClient].pend} :
       LET cl == [clients_[StdinClient] EXCEPT !.pend = pend]
       IN  IF ~ pend /\ cl.eof
           THEN /\ file' = Closing(StdinOf(cl))
                /\ Change(StdinClient, [cl EXCEPT !.in = NoFd])
                /\ cgi_stdin_fd_to_client_fd_' =
                     Without(cgi_stdin_fd_to_client_fd_, Cur.fd)
                /\ poll_fds_' = Erase({idx})
                /\ Stay(idx)
           ELSE /\ Change(StdinClient, cl)
                /\ Stay(idx + 1)
                /\ UNCHANGED <<file, poll_fds_, cgi_stdin_fd_to_client_fd_>>
    BY <1>26, Zenon DEF StdinFlush
  <2> DEFINE cl == [clients_[StdinClient] EXCEPT !.pend = pend]
  <2>2. clients_[StdinClient] \in Client
    BY <1>26, <1>a DEF StdinFlush, Known
  <2>3. cl \in Client /\ [cl EXCEPT !.in = NoFd] \in Client
    BY <2>2 DEF Client
  <2>4. \E c \in Client : Change(StdinClient, c)
    BY <2>1, <2>3, Zenon
  <2>5. DOMAIN clients_' = DOMAIN clients_ /\ clients_' \in [DOMAIN clients_' -> Client]
    BY <2>4, ChangeTypes
  <2>6. file' \in [Fds -> Object]
    BY <2>1, ClosingFacts DEF Types
  <2>7. poll_fds_' \in Seq(PollEntry)
    BY <2>1, EraseFacts DEF Types
  <2>8. FdMap(cgi_stdin_fd_to_client_fd_')
    <3>1. FdMap(Without(cgi_stdin_fd_to_client_fd_, Cur.fd))
      BY MapFacts DEF Types
    <3>2. \/ cgi_stdin_fd_to_client_fd_' = cgi_stdin_fd_to_client_fd_
          \/ cgi_stdin_fd_to_client_fd_' = Without(cgi_stdin_fd_to_client_fd_, Cur.fd)
      BY <2>1
    <3> QED
      BY <3>1, <3>2 DEF Types, FdMap
  <2>9. \E i \in {idx, idx + 1} : Stay(i)
    BY <2>1, Zenon
  <2>10. UNCHANGED <<made, server_fds_, cuts, cgi_fd_to_client_fd_>>
    BY <1>26 DEF StdinFlush
  <2> QED
    BY <1>c, <2>5, <2>6, <2>7, <2>8, <2>9, <2>10 DEF Types, FdMap
<1>27. CASE UNCHANGED vars
  BY <1>27 DEF vars, maps, Types, FdMap
<1> QED
  BY <1>1, <1>2, <1>3, <1>4, <1>5, <1>6, <1>7, <1>8, <1>9, <1>10, <1>11, <1>12,
     <1>13, <1>14, <1>15, <1>16, <1>17, <1>18, <1>19, <1>20, <1>21, <1>22, <1>23,
     <1>24, <1>25, <1>26, <1>27 DEF Next

-----------------------------------------------------------------------------
(* A step that changes one Client, keeps its stdout and the CGI it runs,   *)
(* and gives up its stdin only by closing it.                              *)
LEMMA KeptClient ==
  ASSUME Base, NEW f \in DOMAIN clients_, NEW cl \in Client, Change(f, cl),
         cl.c = clients_[f].c, cl.out = clients_[f].out, cl.active = clients_[f].active,
         \/ cl.in = clients_[f].in
         \/ cl.in = NoFd /\ \A g \in Fds : clients_[f].in = g => file'[g].k = "free",
         \A g \in Fds : \/ file'[g] = file[g]
                        \/ file'[g].k \in {"free", "lost"} /\ file'[g].c <= made,
         UNCHANGED <<made, server_fds_, cgi_fd_to_client_fd_>>,
         phase \notin {"init", "exit"}, phase' \notin {"init", "exit"}
  PROVE  Numbered' /\ ActiveHolds' /\ OutputHasClient' /\ Starting' /\ Held'
<1>1. /\ DOMAIN clients_' = DOMAIN clients_ /\ clients_'[f] = cl
      /\ \A g \in DOMAIN clients_ : g # f => clients_'[g] = clients_[g]
  BY ChangeTypes DEF Base
<1>2. Numbered'
  BY <1>1 DEF Base, Numbered
<1>3. ActiveHolds'
  BY <1>1 DEF Base, ActiveHolds
<1>4. OutputHasClient'
  BY <1>1 DEF Base, OutputHasClient, Known
<1>5. Starting'
  BY DEF Starting
<1>6. Held'
  <2> SUFFICES ASSUME NEW x \in Fds
               PROVE  /\ file'[x].k = "listen" => x \in ToSet(server_fds_)'
                      /\ file'[x].k = "sock" => x \in DOMAIN clients_'
                      /\ file'[x].k \in {"in", "out"} =>
                           \E g \in DOMAIN clients_' : clients_'[g].in = x \/ clients_'[g].out = x
    BY DEF Held, Known
  <2>1. CASE file'[x].k \in {"free", "lost"}
    BY <2>1
  <2>2. CASE file'[x] = file[x] /\ file'[x].k \notin {"free", "lost"}
    <3>1. /\ file[x].k = "listen" => x \in ToSet(server_fds_)
          /\ file[x].k = "sock" => x \in DOMAIN clients_
          /\ file[x].k \in {"in", "out"} =>
                \E g \in DOMAIN clients_ : clients_[g].in = x \/ clients_[g].out = x
      BY DEF Base, Held, Known
    <3>2. ASSUME NEW g \in DOMAIN clients_, clients_[g].in = x \/ clients_[g].out = x
          PROVE  clients_'[g].in = x \/ clients_'[g].out = x
      BY <1>1, <2>2, <3>2
    <3> QED
      BY <1>1, <2>2, <3>1, <3>2
  <2> QED
    BY <2>1, <2>2
<1> QED
  BY <1>2, <1>3, <1>4, <1>5, <1>6

LEMMA RemoveBase ==
  ASSUME Base, NEW i \in DOMAIN poll_fds_, remove_client(i),
         phase \notin {"init", "exit"}, phase' \notin {"init", "exit"}
  PROVE  Numbered' /\ ActiveHolds' /\ OutputHasClient' /\ Starting' /\ Held'
<1> DEFINE f == poll_fds_[i].fd
           out == IF Known(f) THEN {clients_[f].out} \ {NoFd} ELSE {}
           in  == IF Known(f) THEN {clients_[f].in} \ {NoFd} ELSE {}
<1>1. /\ cgi_fd_to_client_fd_' =
           Restrict(cgi_fd_to_client_fd_, DOMAIN cgi_fd_to_client_fd_ \ out)
      /\ file' = Closing({f} \cup out \cup in)
      /\ clients_' = Without(clients_, f)
      /\ UNCHANGED <<made, server_fds_, cuts>>
  BY DEF remove_client
<1> HIDE DEF f, out, in
<1>2. \A x \in Fds : file'[x] = IF x \in {f} \cup out \cup in THEN Free ELSE file[x]
  BY <1>1, ClosingFacts DEF Base
<1>3. /\ DOMAIN clients_' = DOMAIN clients_ \ {f}
      /\ \A g \in DOMAIN clients_ : g # f => clients_'[g] = clients_[g]
  BY <1>1, ClientMapFacts DEF Base
<1>4. /\ DOMAIN cgi_fd_to_client_fd_' = DOMAIN cgi_fd_to_client_fd_ \ out
      /\ \A g \in DOMAIN cgi_fd_to_client_fd_' :
           cgi_fd_to_client_fd_'[g] = cgi_fd_to_client_fd_[g]
  <2> DEFINE m == cgi_fd_to_client_fd_
             r == Restrict(m, DOMAIN m \ out)
  <2>1. DOMAIN r = DOMAIN m \ out /\ \A x \in DOMAIN m \ out : r[x] = m[x]
    BY DEF Restrict
  <2> HIDE DEF r
  <2> QED
    BY <1>1, <2>1 DEF r
<1>5. Numbered'
  <2>1. \A x \in Fds : file'[x].c <= made
    <3> TAKE x \in Fds
    <3>1. made \in Nat /\ file[x].c <= made
      BY DEF Base, Types, Numbered
    <3>2. file'[x] = Free \/ file'[x] = file[x]
      BY <1>2
    <3> QED
      BY <3>1, <3>2 DEF Free
  <2> QED
    BY <1>1, <1>3, <2>1 DEF Base, Numbered
<1>6. ActiveHolds'
  BY <1>3 DEF Base, ActiveHolds
<1>7. OutputHasClient'
  <2> SUFFICES ASSUME NEW x \in DOMAIN cgi_fd_to_client_fd_'
               PROVE  /\ cgi_fd_to_client_fd_'[x] \in DOMAIN clients_'
                      /\ clients_'[cgi_fd_to_client_fd_'[x]].out = x
    BY DEF OutputHasClient, Known
  <2>1. /\ x \in DOMAIN cgi_fd_to_client_fd_ /\ x \notin out /\ x \in Fds
        /\ cgi_fd_to_client_fd_'[x] = cgi_fd_to_client_fd_[x]
    BY <1>4 DEF Base, Types, FdMap
  <2>2. /\ cgi_fd_to_client_fd_[x] \in DOMAIN clients_
        /\ clients_[cgi_fd_to_client_fd_[x]].out = x
    BY <2>1 DEF Base, OutputHasClient, Known
  <2>3. x # NoFd
    BY <2>1, EventLoopAssumption DEF Fds, NoFd
  <2>4. cgi_fd_to_client_fd_[x] # f
    BY <2>1, <2>2, <2>3 DEF out, Known
  <2> QED
    BY <1>3, <2>1, <2>2, <2>4
<1>8. Starting'
  BY DEF Starting
<1>9. Held'
  <2> SUFFICES ASSUME NEW x \in Fds, file'[x].k # "free"
               PROVE  /\ file'[x].k = "listen" => x \in ToSet(server_fds_)'
                      /\ file'[x].k = "sock" => x \in DOMAIN clients_'
                      /\ file'[x].k \in {"in", "out"} =>
                           \E g \in DOMAIN clients_' : clients_'[g].in = x \/ clients_'[g].out = x
    BY DEF Held, Known
  <2>1. file'[x] = file[x] /\ x # f /\ x \notin out /\ x \notin in
    BY <1>2 DEF Free
  <2>2. /\ file[x].k = "listen" => x \in ToSet(server_fds_)
        /\ file[x].k = "sock" => x \in DOMAIN clients_
        /\ file[x].k \in {"in", "out"} =>
              \E g \in DOMAIN clients_ : clients_[g].in = x \/ clients_[g].out = x
    BY DEF Base, Held, Known
  <2>3. x # NoFd
    BY EventLoopAssumption DEF Fds, NoFd
  <2>4. ASSUME NEW g \in DOMAIN clients_, clients_[g].in = x \/ clients_[g].out = x
        PROVE  g # f
    BY <2>1, <2>3, <2>4 DEF out, in, Known
  <2> QED
    BY <1>1, <1>3, <2>1, <2>2, <2>4
<1> QED
  BY <1>5, <1>6, <1>7, <1>8, <1>9

(* A step that leaves the Clients alone and opens no descriptor.           *)
LEMMA SameClients ==
  ASSUME Base, UNCHANGED <<made, server_fds_, clients_, cgi_fd_to_client_fd_>>,
         \A g \in Fds : file'[g] = file[g] \/ file'[g] = Free,
         phase \notin {"init", "exit"}, phase' \notin {"init", "exit"}
  PROVE  Numbered' /\ ActiveHolds' /\ OutputHasClient' /\ Starting' /\ Held'
<1>1. Numbered'
  <2>1. \A x \in Fds : file'[x].c <= made
    <3> TAKE x \in Fds
    <3>1. made \in Nat /\ file[x].c <= made
      BY DEF Base, Types, Numbered
    <3> QED
      BY <3>1 DEF Free
  <2> QED
    BY <2>1 DEF Base, Numbered
<1>2. ActiveHolds' /\ OutputHasClient' /\ Starting'
  BY DEF Base, ActiveHolds, OutputHasClient, Known, Starting
<1>3. Held'
  <2> SUFFICES ASSUME NEW x \in Fds
               PROVE  /\ file'[x].k = "listen" => x \in ToSet(server_fds_)'
                      /\ file'[x].k = "sock" => x \in DOMAIN clients_'
                      /\ file'[x].k \in {"in", "out"} =>
                           \E g \in DOMAIN clients_' : clients_'[g].in = x \/ clients_'[g].out = x
    BY DEF Held, Known
  <2> QED
    BY DEF Base, Held, Known, Free
<1> QED
  BY <1>1, <1>2, <1>3

LEMMA AcceptBase ==
  ASSUME Base, accept_client
  PROVE  Numbered' /\ ActiveHolds' /\ OutputHasClient' /\ Starting' /\ Held'
<1>1. PICK n \in Nat, new \in Seq(FreeFds) :
           /\ made + n <= MaxConns /\ made' = made + n
           /\ Len(new) = n /\ new \in [1..n -> FreeFds]
           /\ \A i \in 1..n : file'[new[i]] = [k |-> "sock", c |-> made + i]
           /\ \A f \in Fds : f \notin ToSet(new) => file'[f] = file[f]
           /\ DOMAIN clients_' = DOMAIN clients_ \cup ToSet(new)
           /\ \A f \in DOMAIN clients_ : clients_'[f] = clients_[f]
           /\ \A i \in 1..n : ~ Known(new[i]) => clients_'[new[i]] = NewClient(made + i)
           /\ ToOutput /\ UNCHANGED <<server_fds_, cuts, maps>>
  BY AcceptFacts, Zenon DEF Base
<1>2. made \in Nat /\ made <= made'
  BY <1>1 DEF Base, Types
<1>3. ToSet(new) = {new[i] : i \in 1..n}
  BY <1>1 DEF ToSet
<1>4. phase \notin {"init", "exit"} /\ phase' \notin {"init", "exit"}
  BY <1>1 DEF accept_client, Visiting, ToOutput
<1>5. \A x \in Fds : file'[x] = file[x] \/ \E i \in 1..n : file'[x] = [k |-> "sock", c |-> made + i]
  BY <1>1, <1>3
<1>6. \A g \in DOMAIN clients_' :
        \/ g \in DOMAIN clients_ /\ clients_'[g] = clients_[g]
        \/ g \notin DOMAIN clients_ /\ \E i \in 1..n : clients_'[g] = NewClient(made + i)
  BY <1>1, <1>3 DEF Known
<1>7. Numbered'
  <2>1. \A x \in Fds : file'[x].c <= made'
    <3> TAKE x \in Fds
    <3>1. CASE file'[x] = file[x]
      <4>1. file[x].c <= made /\ file[x].c \in Int
        BY DEF Base, Numbered, Types, Object, Free
      <4> QED
        BY <1>1, <1>2, <3>1, <4>1
    <3>2. CASE \E i \in 1..n : file'[x] = [k |-> "sock", c |-> made + i]
      BY <1>1, <1>2, <3>2
    <3> QED
      BY <1>5, <3>1, <3>2
  <2>2. \A g \in DOMAIN clients_' : clients_'[g].c <= made'
    <3> TAKE g \in DOMAIN clients_'
    <3>1. CASE g \in DOMAIN clients_ /\ clients_'[g] = clients_[g]
      <4>1. clients_[g].c <= made /\ clients_[g].c \in Int
        BY <3>1 DEF Base, Numbered, Types, Client
      <4> QED
        BY <1>1, <1>2, <3>1, <4>1
    <3>2. CASE \E i \in 1..n : clients_'[g] = NewClient(made + i)
      BY <1>1, <1>2, <3>2 DEF NewClient
    <3> QED
      BY <1>6, <3>1, <3>2
  <2> QED
    BY <2>1, <2>2 DEF Numbered
<1>8. ActiveHolds'
  BY <1>6 DEF Base, ActiveHolds, NewClient
<1>9. OutputHasClient'
  BY <1>1 DEF Base, OutputHasClient, Known, maps
<1>10. Starting'
  BY <1>4 DEF Starting
<1>11. Held'
  <2> SUFFICES ASSUME NEW x \in Fds
               PROVE  /\ file'[x].k = "listen" => x \in ToSet(server_fds_)'
                      /\ file'[x].k = "sock" => x \in DOMAIN clients_'
                      /\ file'[x].k \in {"in", "out"} =>
                           \E g \in DOMAIN clients_' : clients_'[g].in = x \/ clients_'[g].out = x
    BY <1>4 DEF Held, Known
  <2>1. /\ file[x].k = "listen" => x \in ToSet(server_fds_)
        /\ file[x].k = "sock" => x \in DOMAIN clients_
        /\ file[x].k \in {"in", "out"} =>
              \E g \in DOMAIN clients_ : clients_[g].in = x \/ clients_[g].out = x
    BY <1>4 DEF Base, Held, Known
  <2>2. CASE x \in ToSet(new)
    <3>0. PICK i \in 1..n : x = new[i]
      BY <1>3, <2>2
    <3>1. file'[x] = [k |-> "sock", c |-> made + i]
      BY <1>1, <3>0
    <3> QED
      BY <1>1, <2>2, <3>1
  <2>3. CASE x \notin ToSet(new)
    <3>1. file'[x] = file[x]
      BY <1>1, <2>3
    <3> QED
      BY <1>1, <2>1, <3>1
  <2> QED
    BY <2>2, <2>3
<1> QED
  BY <1>7, <1>8, <1>9, <1>10, <1>11

LEMMA DispatchBase ==
  ASSUME Base, dispatch_cgi
  PROVE  Numbered' /\ ActiveHolds' /\ OutputHasClient' /\ Starting' /\ Held'
<1>1. PICK in \in FreeFds, out \in FreeFds : \E keep, pend, eof \in BOOLEAN :
         Dispatches(in, out, keep, pend, eof)
  BY DispatchFacts DEF Base
<1>2. PICK keep \in BOOLEAN, pend \in BOOLEAN, eof \in BOOLEAN :
         Dispatches(in, out, keep, pend, eof)
  BY <1>1
<1> DEFINE f == Cur.fd
           cl == [Cl EXCEPT !.active = TRUE, !.hs = FALSE,
                    !.in = IF keep THEN in ELSE NoFd, !.out = out,
                    !.pend = pend, !.eof = eof]
<1>3. f \in DOMAIN clients_ /\ clients_[f] \in Client /\ f \in Fds /\ ~ clients_[f].active
  BY <1>2, CurFacts DEF Dispatches, Known, Cl, Base, Types, Reading, Visiting
<1>4. /\ DOMAIN clients_' = DOMAIN clients_ /\ clients_'[f] = cl
      /\ \A g \in DOMAIN clients_ : g # f => clients_'[g] = clients_[g]
  BY <1>2, <1>3 DEF Dispatches
<1>5. /\ cl.c = clients_[f].c /\ cl.active = TRUE /\ cl.out = out
      /\ cl.in = IF keep THEN in ELSE NoFd
  BY <1>3 DEF Cl, Client
<1> HIDE DEF cl
<1>6. clients_[f].out = NoFd /\ clients_[f].in = NoFd
  BY <1>3 DEF Base, ActiveHolds
<1>7. in \in Fds /\ out \in Fds /\ out # NoFd
  BY FreeFdsFacts, EventLoopAssumption DEF Fds, NoFd
<1>8. phase \notin {"init", "exit"} /\ phase' \notin {"init", "exit"}
      /\ UNCHANGED <<made, server_fds_, cuts>>
  BY <1>2 DEF Dispatches, Reading, Visiting, ToOutput
<1>9. \A x \in Fds : file'[x] = IF x = out THEN [k |-> "out", c |-> clients_[f].c]
                                ELSE IF x = in /\ keep
                                THEN [k |-> "in", c |-> clients_[f].c] ELSE file[x]
  BY <1>2 DEF Dispatches, Cl
<1>10. /\ DOMAIN cgi_fd_to_client_fd_' = DOMAIN cgi_fd_to_client_fd_ \cup {out}
       /\ cgi_fd_to_client_fd_'[out] = f
       /\ \A x \in DOMAIN cgi_fd_to_client_fd_ :
            x # out => cgi_fd_to_client_fd_'[x] = cgi_fd_to_client_fd_[x]
  BY <1>2 DEF Dispatches, With
<1>11. Numbered'
  BY <1>3, <1>4, <1>5, <1>8, <1>9 DEF Base, Numbered
<1>12. ActiveHolds'
  BY <1>3, <1>4, <1>5, <1>7 DEF Base, ActiveHolds
<1>13. OutputHasClient'
  <2> SUFFICES ASSUME NEW x \in DOMAIN cgi_fd_to_client_fd_'
               PROVE  /\ cgi_fd_to_client_fd_'[x] \in DOMAIN clients_'
                      /\ clients_'[cgi_fd_to_client_fd_'[x]].out = x
    BY DEF OutputHasClient, Known
  <2>1. CASE x = out
    BY <1>3, <1>4, <1>5, <1>10, <2>1
  <2>2. CASE x # out
    <3>1. x \in DOMAIN cgi_fd_to_client_fd_ /\ x # NoFd
      BY <1>10, <2>2, EventLoopAssumption DEF Base, Types, FdMap, Fds, NoFd
    <3>2. /\ cgi_fd_to_client_fd_[x] \in DOMAIN clients_
          /\ clients_[cgi_fd_to_client_fd_[x]].out = x
      BY <3>1 DEF Base, OutputHasClient, Known
    <3> QED
      BY <1>4, <1>6, <1>10, <2>2, <3>1, <3>2
  <2> QED
    BY <2>1, <2>2
<1>14. Starting'
  BY <1>8 DEF Starting
<1>15. Held'
  <2> SUFFICES ASSUME NEW x \in Fds
               PROVE  /\ file'[x].k = "listen" => x \in ToSet(server_fds_)'
                      /\ file'[x].k = "sock" => x \in DOMAIN clients_'
                      /\ file'[x].k \in {"in", "out"} =>
                           \E g \in DOMAIN clients_' : clients_'[g].in = x \/ clients_'[g].out = x
    BY <1>8 DEF Held, Known
  <2>1. CASE x = out
    BY <1>3, <1>4, <1>5, <1>9, <2>1
  <2>2. CASE x # out /\ x = in /\ keep
    BY <1>3, <1>4, <1>5, <1>9, <2>2
  <2>3. CASE x # out /\ ~ (x = in /\ keep)
    <3>1. file'[x] = file[x] /\ x # NoFd
      BY <1>9, <2>3, EventLoopAssumption DEF Fds, NoFd
    <3>2. /\ file[x].k = "listen" => x \in ToSet(server_fds_)
          /\ file[x].k = "sock" => x \in DOMAIN clients_
          /\ file[x].k \in {"in", "out"} =>
                \E g \in DOMAIN clients_ : clients_[g].in = x \/ clients_[g].out = x
      BY <1>8 DEF Base, Held, Known
    <3> QED
      BY <1>4, <1>6, <1>8, <3>1, <3>2
  <2> QED
    BY <2>1, <2>2, <2>3
<1> QED
  BY <1>11, <1>12, <1>13, <1>14, <1>15

LEMMA CgiEndBase ==
  ASSUME Base, CgiEnd
  PROVE  Numbered' /\ ActiveHolds' /\ OutputHasClient' /\ Starting' /\ Held'
<1> DEFINE f == CgiClient
           e == Cur.fd
           cl == clients_[f]
<1>1. /\ file' = Closing({e} \cup StdinOf(cl)) /\ Change(f, Finished(cl))
      /\ cgi_fd_to_client_fd_' = Without(cgi_fd_to_client_fd_, e)
      /\ Stay(idx) /\ UNCHANGED <<made, server_fds_>>
      /\ e \in DOMAIN cgi_fd_to_client_fd_ /\ f = cgi_fd_to_client_fd_[e]
  BY DEF CgiEnd, CgiReady, isCgiFd, CgiClient
<1>2. f \in DOMAIN clients_ /\ cl \in Client /\ cl.out = e
  BY <1>1 DEF Base, OutputHasClient, Known, Types
<1>3. Finished(cl) \in Client
  BY <1>2 DEF Client, Finished
<1>4. Finished(cl).active = FALSE /\ Finished(cl).out = NoFd /\ Finished(cl).in = NoFd
      /\ Finished(cl).c = cl.c
  BY <1>2 DEF Client, Finished
<1> HIDE DEF f, e
<1>5. /\ DOMAIN clients_' = DOMAIN clients_ /\ clients_'[f] = Finished(cl)
      /\ \A g \in DOMAIN clients_ : g # f => clients_'[g] = clients_[g]
  BY <1>1, <1>2, <1>3, ChangeTypes DEF Base
<1>6. phase \notin {"init", "exit"} /\ phase' \notin {"init", "exit"}
  BY <1>1 DEF CgiEnd, CgiReady, Visiting, Stay
<1>7. \A x \in Fds : file'[x] = IF x \in {e} \cup StdinOf(cl) THEN Free ELSE file[x]
  BY <1>1, ClosingFacts DEF Base
<1>8. /\ DOMAIN cgi_fd_to_client_fd_' = DOMAIN cgi_fd_to_client_fd_ \ {e}
      /\ \A x \in DOMAIN cgi_fd_to_client_fd_ :
            x # e => cgi_fd_to_client_fd_'[x] = cgi_fd_to_client_fd_[x]
  BY <1>1 DEF Without, Restrict
<1>9. Numbered'
  <2>1. \A x \in Fds : file'[x].c <= made
    <3> TAKE x \in Fds
    <3>1. made \in Nat /\ file[x].c <= made
      BY DEF Base, Types, Numbered
    <3>2. file'[x] = Free \/ file'[x] = file[x]
      BY <1>7
    <3> QED
      BY <3>1, <3>2 DEF Free
  <2> QED
    BY <1>1, <1>2, <1>4, <1>5, <2>1 DEF Base, Numbered
<1>10. ActiveHolds'
  BY <1>2, <1>4, <1>5 DEF Base, ActiveHolds
<1>11. OutputHasClient'
  <2> SUFFICES ASSUME NEW x \in DOMAIN cgi_fd_to_client_fd_'
               PROVE  /\ cgi_fd_to_client_fd_'[x] \in DOMAIN clients_'
                      /\ clients_'[cgi_fd_to_client_fd_'[x]].out = x
    BY DEF OutputHasClient, Known
  <2>1. x \in DOMAIN cgi_fd_to_client_fd_ /\ x # e
    BY <1>8
  <2>2. /\ cgi_fd_to_client_fd_[x] \in DOMAIN clients_
        /\ clients_[cgi_fd_to_client_fd_[x]].out = x
    BY <2>1 DEF Base, OutputHasClient, Known
  <2> QED
    BY <1>2, <1>5, <1>8, <2>1, <2>2
<1>12. Starting'
  BY <1>6 DEF Starting
<1>13. Held'
  <2> SUFFICES ASSUME NEW x \in Fds, file'[x].k # "free"
               PROVE  /\ file'[x].k = "listen" => x \in ToSet(server_fds_)'
                      /\ file'[x].k = "sock" => x \in DOMAIN clients_'
                      /\ file'[x].k \in {"in", "out"} =>
                           \E g \in DOMAIN clients_' : clients_'[g].in = x \/ clients_'[g].out = x
    BY <1>6 DEF Held, Known
  <2>1. x # NoFd
    BY EventLoopAssumption DEF Fds, NoFd
  <2>2. file'[x] = file[x] /\ x # cl.out /\ x # cl.in
    BY <1>2, <1>7, <2>1 DEF Free, StdinOf
  <2>3. /\ file[x].k = "listen" => x \in ToSet(server_fds_)
        /\ file[x].k = "sock" => x \in DOMAIN clients_
        /\ file[x].k \in {"in", "out"} =>
              \E g \in DOMAIN clients_ : clients_[g].in = x \/ clients_[g].out = x
    BY <1>6 DEF Base, Held, Known
  <2> QED
    BY <1>1, <1>5, <2>2, <2>3
<1> QED
  BY <1>9, <1>10, <1>11, <1>12, <1>13

LEMMA BaseInit == Init => Base
<1> SUFFICES ASSUME Init PROVE Base
  OBVIOUS
<1>1. \A f \in Fds : file[f].k = "free" /\ file[f].c = 0
  BY DEF Init, Free
<1>2. made = 0 /\ DOMAIN clients_ = {} /\ DOMAIN cgi_fd_to_client_fd_ = {}
      /\ Len(poll_fds_) = Len(server_fds_) /\ phase = "init"
  BY DEF Init
<1>3. Numbered
  BY <1>1, <1>2 DEF Numbered
<1>4. ActiveHolds /\ OutputHasClient /\ Starting
  BY <1>2 DEF ActiveHolds, OutputHasClient, Starting
<1>5. Held
  BY <1>1, <1>2 DEF Held
<1> QED
  BY <1>3, <1>4, <1>5, TypesInit DEF Base

LEMMA ConstructorBase ==
  ASSUME Base, Listen \/ ListenFails \/ Stop
  PROVE  Numbered' /\ ActiveHolds' /\ OutputHasClient' /\ Starting' /\ Held'
<1>1. CASE Listen
  <2> DEFINE f == Min(FreeFds)
  <2>1. f \in Fds /\ file[f] = Free
    BY <1>1, MinFacts, FreeFdsFacts DEF Listen, FreeFds
  <2>2. /\ file' = [file EXCEPT ![f] = [k |-> "listen", c |-> 0]]
        /\ server_fds_' = Append(server_fds_, f)
        /\ poll_fds_' = Append(poll_fds_, Entry(f, 0))
        /\ phase = "init" /\ phase' \in {"init", "poll"}
        /\ UNCHANGED <<made, clients_, cgi_fd_to_client_fd_>>
    BY <1>1 DEF Listen, maps
  <2> HIDE DEF f
  <2>3. \A x \in Fds : file'[x] = IF x = f THEN [k |-> "listen", c |-> 0] ELSE file[x]
    BY <2>1, <2>2 DEF Base, Types
  <2>4. Numbered'
    BY <2>2, <2>3 DEF Base, Numbered, Types
  <2>5. ActiveHolds' /\ OutputHasClient'
    BY <2>2 DEF Base, ActiveHolds, OutputHasClient, Known
  <2>6. Starting'
    BY <2>2 DEF Base, Starting, Types
  <2>7. ToSet(server_fds_') = ToSet(server_fds_) \cup {f}
    <3>1. server_fds_ \in Seq(Fds)
      BY DEF Base, Types
    <3>2. /\ DOMAIN server_fds_ = 1..Len(server_fds_) /\ Len(server_fds_) \in Nat
          /\ DOMAIN server_fds_' = 1..(Len(server_fds_) + 1)
          /\ server_fds_'[Len(server_fds_) + 1] = f
          /\ \A i \in DOMAIN server_fds_ : server_fds_'[i] = server_fds_[i]
      BY <2>1, <2>2, <3>1
    <3>3. DOMAIN server_fds_' = DOMAIN server_fds_ \cup {Len(server_fds_) + 1}
      BY <3>2
    <3> QED
      BY <3>2, <3>3 DEF ToSet
  <2>8. Held'
    BY <2>2, <2>3, <2>7 DEF Base, Held, Known
  <2> QED
    BY <2>4, <2>5, <2>6, <2>8
<1>2. CASE ListenFails
  <2>1. /\ file' = Closing(ToSet(server_fds_)) /\ phase = "init" /\ phase' = "exit"
        /\ UNCHANGED <<made, clients_, cgi_fd_to_client_fd_>>
    BY <1>2 DEF ListenFails, maps
  <2>2. \A x \in Fds : file'[x] = IF x \in ToSet(server_fds_) THEN Free ELSE file[x]
    BY <2>1, ClosingFacts DEF Base
  <2>3. Numbered'
    BY <2>1, <2>2 DEF Base, Numbered, Types, Free
  <2>4. ActiveHolds' /\ OutputHasClient' /\ Starting'
    BY <2>1 DEF Base, ActiveHolds, OutputHasClient, Known, Starting
  <2>5. Held'
    BY <2>1, <2>2 DEF Base, Held, Known, Starting, Free
  <2> QED
    BY <2>3, <2>4, <2>5
<1>3. CASE Stop
  <2>1. /\ file' = Closing(DOMAIN clients_ \cup ToSet(server_fds_))
        /\ phase = "poll" /\ phase' = "exit"
        /\ UNCHANGED <<made, clients_, cgi_fd_to_client_fd_>>
    BY <1>3 DEF Stop, maps
  <2>2. \A x \in Fds : file'[x] = IF x \in DOMAIN clients_ \cup ToSet(server_fds_)
                                  THEN Free ELSE file[x]
    BY <2>1, ClosingFacts DEF Base
  <2>3. Numbered'
    <3>1. Free.c <= made
      BY DEF Base, Types, Free
    <3> QED
      BY <2>1, <2>2, <3>1 DEF Base, Numbered
  <2>4. ActiveHolds' /\ OutputHasClient' /\ Starting'
    BY <2>1 DEF Base, ActiveHolds, OutputHasClient, Known, Starting
  <2>5. Held'
    BY <2>1, <2>2 DEF Base, Held, Known, Free
  <2> QED
    BY <2>3, <2>4, <2>5
<1> QED
  BY <1>1, <1>2, <1>3

LEMMA BaseStep == Base /\ [Next]_vars => Base'
<1> SUFFICES ASSUME Base, [Next]_vars PROVE Base'
  OBVIOUS
<1> DEFINE Goal == Numbered' /\ ActiveHolds' /\ OutputHasClient' /\ Starting' /\ Held'
<1> SUFFICES Goal
  BY TypesStep DEF Base
<1> HIDE DEF Goal
<1>a. \A f \in DOMAIN clients_ : clients_[f] \in Client
  BY DEF Base, Types
<1>b. Types
  BY DEF Base
<1>c. NoFd \notin Fds
  BY EventLoopAssumption DEF Fds, NoFd
<1>d. ASSUME NEW X, file' = Closing(X)
      PROVE  \A g \in Fds : /\ file'[g] = IF g \in X THEN Free ELSE file[g]
                            /\ \/ file'[g] = file[g]
                               \/ file'[g].k \in {"free", "lost"} /\ file'[g].c <= made
  <2> TAKE g \in Fds
  <2>1. file'[g] = IF g \in X THEN Free ELSE file[g]
    BY <1>b, <1>d, ClosingFacts
  <2>2. Free.k = "free" /\ Free.c <= made
    BY <1>b DEF Free, Types
  <2> QED
    BY <2>1, <2>2
<1>1. CASE Listen \/ ListenFails \/ Stop
  BY <1>1, ConstructorBase DEF Goal
<1>2. CASE Poll \/ EndScan \/ NoInput \/ Clear \/ EndRound \/ SkipStdin \/ ReadNoClient
  BY <1>2, SameClients DEF Goal, Poll, EndScan, NoInput, Clear, EndRound, SkipStdin,
     ReadNoClient, Reading, Visiting, Stay, ToOutput, maps
<1>3. CASE TimeOut
  <2>1. PICK i \in DOMAIN poll_fds_ : remove_client(i)
    BY <1>3 DEF TimeOut
  <2> QED
    BY <1>3, <2>1, RemoveBase DEF Goal, TimeOut
<1>4. CASE SocketError
  BY <1>4, RemoveBase, CurFacts, <1>b DEF Goal, SocketError, Visiting, Stay
<1>5. CASE RequestEof
  BY <1>5, RemoveBase, CurFacts, <1>b DEF Goal, RequestEof, Reading, Visiting, ToOutput
<1>6. CASE AnswerEnds
  BY <1>6, RemoveBase, CurFacts, <1>b DEF Goal, AnswerEnds, Writing, Stay
<1>7. CASE accept_client
  BY <1>7, AcceptBase DEF Goal
<1>8. CASE dispatch_cgi
  BY <1>8, DispatchBase DEF Goal
<1>9. CASE CgiEnd
  BY <1>9, CgiEndBase DEF Goal
<1>10. CASE StdinError
  <2> DEFINE e == Cur.fd
             g == cgi_stdin_fd_to_client_fd_[e]
             cl == [clients_[g] EXCEPT !.in = NoFd]
  <2>1. /\ UNCHANGED <<made, server_fds_, cgi_fd_to_client_fd_>>
        /\ phase \notin {"init", "exit"} /\ phase' \notin {"init", "exit"}
    BY <1>10 DEF StdinError, Visiting, Stay
  <2>2. CASE Known(g)
    <3>1. file' = Closing({e} \cup StdinOf(clients_[g])) /\ Change(g, cl)
      BY <1>10, <2>2 DEF StdinError
    <3>2. /\ clients_[g] \in Client /\ cl \in Client /\ cl.in = NoFd /\ cl.c = clients_[g].c
          /\ cl.out = clients_[g].out /\ cl.active = clients_[g].active
      BY <1>a, <2>2 DEF Known, Client
    <3> HIDE DEF cl, g, e
    <3>3. \A x \in Fds : clients_[g].in = x => file'[x].k = "free"
      BY <3>1, <1>c, <1>d DEF StdinOf, Free
    <3> QED
      BY <1>d, <2>1, <2>2, <3>1, <3>2, <3>3, KeptClient DEF Goal, Known
  <2>3. CASE ~ Known(g)
    <3>1. UNCHANGED clients_ /\ file' = Closing({e})
      BY <1>10, <2>3 DEF StdinError
    <3>2. \A x \in Fds : file'[x] = file[x] \/ file'[x] = Free
      BY <1>d, <3>1
    <3> QED
      BY <2>1, <3>1, <3>2, SameClients DEF Goal
  <2> QED
    BY <2>2, <2>3
<1>11. CASE CgiOutput
  <2>1. PICK hs \in BOOLEAN : Change(CgiClient, [clients_[CgiClient] EXCEPT !.hs = @ \/ hs])
    BY <1>11 DEF CgiOutput
  <2> DEFINE cl == [clients_[CgiClient] EXCEPT !.hs = @ \/ hs]
  <2>2. CgiClient \in DOMAIN clients_ /\ clients_[CgiClient] \in Client
    BY <1>11, <1>a DEF CgiOutput, CgiReady, isCgiFd, CgiClient, Base, OutputHasClient, Known
  <2>3. /\ cl \in Client /\ cl.in = clients_[CgiClient].in /\ cl.c = clients_[CgiClient].c
        /\ cl.out = clients_[CgiClient].out /\ cl.active = clients_[CgiClient].active
    BY <2>2 DEF Client
  <2>4. /\ UNCHANGED <<file, made, server_fds_, cgi_fd_to_client_fd_>>
        /\ phase \notin {"init", "exit"} /\ phase' \notin {"init", "exit"}
    BY <1>11 DEF CgiOutput, CgiReady, Visiting, Stay, maps
  <2> HIDE DEF cl
  <2> QED
    BY <2>1, <2>2, <2>3, <2>4, KeptClient DEF Goal, cl
<1>12. ASSUME Reading, Known(Cur.fd)
       PROVE  /\ Cur.fd \in DOMAIN clients_ /\ Cl \in Client /\ Cl = clients_[Cur.fd]
              /\ phase \notin {"init", "exit"}
              /\ ToOutput => phase' \notin {"init", "exit"}
  BY <1>12, <1>a DEF Known, Cl, Reading, Visiting, ToOutput
<1>13. CASE BodyCut
  <2> DEFINE closes == IF Cl.pend THEN {} ELSE StdinOf(Cl)
             cl == [Cl EXCEPT !.eof = TRUE, !.in = IF closes = {} THEN @ ELSE NoFd]
  <2>1. /\ Change(Cur.fd, cl) /\ file' = Closing(closes) /\ ToOutput
        /\ Reading /\ Known(Cur.fd)
        /\ UNCHANGED <<made, server_fds_, cgi_fd_to_client_fd_>>
    BY <1>13, Zenon DEF BodyCut, maps
  <2>2. Cl \in Client
    BY <1>12, <2>1
  <2>3. /\ cl \in Client /\ cl.in = (IF closes = {} THEN Cl.in ELSE NoFd) /\ cl.c = Cl.c
        /\ cl.out = Cl.out /\ cl.active = Cl.active
    BY <2>2 DEF Client
  <2> HIDE DEF cl
  <2>4. closes = {} \/ \A x \in Fds : Cl.in = x => file'[x].k = "free"
    BY <2>1, <1>c, <1>d DEF StdinOf, Free
  <2> HIDE DEF closes
  <2> QED
    BY <1>12, <1>d, <2>1, <2>3, <2>4, KeptClient DEF Goal
<1>14. CASE BodyBuffered
  <2> DEFINE cl == [Cl EXCEPT !.pend = TRUE]
  <2>1. /\ Change(Cur.fd, cl) /\ ToOutput /\ Reading /\ Known(Cur.fd)
        /\ UNCHANGED <<file, made, server_fds_, cgi_fd_to_client_fd_>>
    BY <1>14 DEF BodyBuffered
  <2>2. Cl \in Client
    BY <1>12, <2>1
  <2>3. cl \in Client /\ cl.in = Cl.in /\ cl.c = Cl.c /\ cl.out = Cl.out /\ cl.active = Cl.active
    BY <2>2 DEF Client
  <2> HIDE DEF cl
  <2> QED
    BY <1>12, <2>1, <2>3, KeptClient DEF Goal
<1>15. CASE BodyEnds
  <2>1. /\ ToOutput /\ Reading /\ Known(Cur.fd) /\ Cl.in # NoFd
        /\ UNCHANGED <<made, server_fds_, cgi_fd_to_client_fd_>>
    BY <1>15 DEF BodyEnds
  <2>2. Cl \in Client
    BY <1>12, <2>1
  <2>3. CASE Cl.pend
    <3> DEFINE cl == [Cl EXCEPT !.eof = TRUE]
    <3>1. Change(Cur.fd, cl) /\ UNCHANGED file
      BY <1>15, <2>3 DEF BodyEnds
    <3>2. cl \in Client /\ cl.in = Cl.in /\ cl.c = Cl.c /\ cl.out = Cl.out /\ cl.active = Cl.active
      BY <2>2 DEF Client
    <3> HIDE DEF cl
    <3> QED
      BY <1>12, <2>1, <3>1, <3>2, KeptClient DEF Goal
  <2>4. CASE ~ Cl.pend
    <3> DEFINE cl == [Cl EXCEPT !.in = NoFd]
    <3>1. Change(Cur.fd, cl) /\ file' = Closing({Cl.in})
      BY <1>15, <2>4 DEF BodyEnds
    <3>2. cl \in Client /\ cl.in = NoFd /\ cl.c = Cl.c /\ cl.out = Cl.out /\ cl.active = Cl.active
      BY <2>2 DEF Client
    <3> HIDE DEF cl
    <3>3. \A x \in Fds : Cl.in = x => file'[x].k = "free"
      BY <3>1, <1>d DEF Free
    <3> QED
      BY <1>12, <1>d, <2>1, <3>1, <3>2, <3>3, KeptClient DEF Goal
  <2> QED
    BY <2>3, <2>4
<1>16. CASE Answered \/ PipeFails
  <2> DEFINE cl == [Cl EXCEPT !.ans = TRUE]
  <2>1. /\ Change(Cur.fd, cl) /\ ToOutput /\ Reading /\ Known(Cur.fd)
        /\ UNCHANGED <<made, server_fds_, cgi_fd_to_client_fd_>>
    BY <1>16 DEF Answered, PipeFails, maps
  <2>2. Cl \in Client /\ Cl.c <= made
    BY <1>12, <2>1 DEF Base, Numbered
  <2>3. cl \in Client /\ cl.in = Cl.in /\ cl.c = Cl.c /\ cl.out = Cl.out /\ cl.active = Cl.active
    BY <2>2 DEF Client
  <2> HIDE DEF cl
  <2>4. \A g \in Fds : \/ file'[g] = file[g]
                       \/ file'[g].k \in {"free", "lost"} /\ file'[g].c <= made
    <3>1. CASE UNCHANGED file
      BY <3>1
    <3>2. CASE PipeFails
      BY <3>2, <2>2 DEF PipeFails
    <3> QED
      BY <1>16, <3>1, <3>2 DEF Answered
  <2> QED
    BY <1>12, <2>1, <2>3, <2>4, KeptClient DEF Goal
<1>17. CASE StdinOrphan
  <2>1. /\ UNCHANGED <<made, server_fds_, cgi_fd_to_client_fd_, clients_>>
        /\ phase \notin {"init", "exit"} /\ phase' \notin {"init", "exit"}
        /\ file' = Closing({Cur.fd})
    BY <1>17 DEF StdinOrphan, Writing, Stay
  <2>2. \A x \in Fds : file'[x] = file[x] \/ file'[x] = Free
    BY <1>d, <2>1
  <2> QED
    BY <2>1, <2>2, SameClients DEF Goal
<1>18. CASE StdinFlush
  <2> DEFINE g == StdinClient
  <2>1. PICK pend \in {FALSE, clients_[g].pend} :
       LET cl == [clients_[g] EXCEPT !.pend = pend]
       IN  \/ /\ file' = Closing(StdinOf(cl))
              /\ Change(g, [cl EXCEPT !.in = NoFd]) /\ Stay(idx)
           \/ Change(g, cl) /\ Stay(idx + 1) /\ UNCHANGED file
    BY <1>18, Zenon DEF StdinFlush
  <2>2. g \in DOMAIN clients_ /\ clients_[g] \in Client /\ clients_[g].pend \in BOOLEAN
    BY <1>18, <1>a DEF StdinFlush, Known, Client
  <2>3. /\ UNCHANGED <<made, server_fds_, cgi_fd_to_client_fd_>>
        /\ phase \notin {"init", "exit"} /\ phase' \notin {"init", "exit"}
    BY <1>18, <2>1 DEF StdinFlush, Writing, Stay
  <2> DEFINE cl == [clients_[g] EXCEPT !.pend = pend]
             cln == [cl EXCEPT !.in = NoFd]
  <2>4. /\ cl \in Client /\ cl.in = clients_[g].in /\ cl.c = clients_[g].c
        /\ cl.out = clients_[g].out /\ cl.active = clients_[g].active
    BY <2>2 DEF Client
  <2>5. /\ cln \in Client /\ cln.in = NoFd /\ cln.c = clients_[g].c
        /\ cln.out = clients_[g].out /\ cln.active = clients_[g].active
    BY <2>2 DEF Client
  <2>6. \/ file' = Closing(StdinOf(cl)) /\ Change(g, cln)
        \/ Change(g, cl) /\ UNCHANGED file
    BY <2>1
  <2> HIDE DEF cl, cln, g
  <2>7. CASE file' = Closing(StdinOf(cl)) /\ Change(g, cln)
    <3>1. \A x \in Fds : clients_[g].in = x => file'[x].k = "free"
      BY <2>4, <2>7, <1>c, <1>d DEF StdinOf, Free
    <3> QED
      BY <1>d, <2>2, <2>3, <2>5, <2>7, <3>1, KeptClient DEF Goal
  <2>8. CASE Change(g, cl) /\ UNCHANGED file
    BY <2>2, <2>3, <2>4, <2>8, KeptClient DEF Goal
  <2> QED
    BY <2>6, <2>7, <2>8
<1>19. CASE UNCHANGED vars
  BY <1>19 DEF vars, maps, Goal, Base, Numbered, ActiveHolds, OutputHasClient, Known,
     Starting, Held
<1> QED
  BY <1>1, <1>2, <1>3, <1>4, <1>5, <1>6, <1>7, <1>8, <1>9, <1>10, <1>11, <1>13, <1>14,
     <1>15, <1>16, <1>17, <1>18, <1>19 DEF Next

-----------------------------------------------------------------------------
(* The entries and the descriptors of the tables are numbers of Fds.       *)
LEMMA TableTypes ==
  ASSUME Types
  PROVE  /\ \A i \in DOMAIN poll_fds_ : poll_fds_[i] \in PollEntry /\ poll_fds_[i].fd \in Fds
         /\ DOMAIN poll_fds_ = 1..Len(poll_fds_) /\ Len(poll_fds_) \in Nat
         /\ DOMAIN server_fds_ = 1..Len(server_fds_) /\ Len(server_fds_) \in Nat
         /\ \A g \in DOMAIN clients_ :
              /\ clients_[g] \in Client /\ g \in Fds
              /\ clients_[g].in # NoFd => clients_[g].in \in Fds
              /\ clients_[g].out # NoFd => clients_[g].out \in Fds
         /\ \A f \in DOMAIN cgi_fd_to_client_fd_ : f \in Fds /\ cgi_fd_to_client_fd_[f] \in Fds
         /\ \A f \in DOMAIN cgi_stdin_fd_to_client_fd_ :
              f \in Fds /\ cgi_stdin_fd_to_client_fd_[f] \in Fds
         /\ NoFd \notin Fds
<1>1. \A i \in DOMAIN poll_fds_ : poll_fds_[i] \in PollEntry /\ poll_fds_[i].fd \in Fds
  <2>1. \A e \in PollEntry : e.fd \in Fds
    BY DEF PollEntry
  <2> QED
    BY <2>1 DEF Types
<1>2. \A g \in DOMAIN clients_ : clients_[g] \in Client /\ g \in Fds
  BY DEF Types
<1>3. \A cl \in Client : /\ cl.in # NoFd => cl.in \in Fds
                         /\ cl.out # NoFd => cl.out \in Fds
  BY DEF Client
<1>4. NoFd \notin Fds
  BY EventLoopAssumption DEF Fds, NoFd
<1> QED
  BY <1>1, <1>2, <1>3, <1>4 DEF Types, FdMap

(* A step that moves no descriptor: at most the booleans of Clients, the   *)
(* reports of entries, and free numbers that are lost, change.             *)
LEMMA SameTables ==
  ASSUME Types, Tables,
         UNCHANGED <<server_fds_, cgi_fd_to_client_fd_, cgi_stdin_fd_to_client_fd_>>,
         \A x \in Fds : \/ file'[x] = file[x]
                        \/ file[x] = Free /\ file'[x].k = "lost",
         DOMAIN poll_fds_' = DOMAIN poll_fds_, Len(poll_fds_') = Len(poll_fds_),
         \A i \in DOMAIN poll_fds_ : /\ poll_fds_'[i].fd = poll_fds_[i].fd
                                     /\ poll_fds_'[i].c = poll_fds_[i].c,
         DOMAIN clients_' = DOMAIN clients_,
         \A g \in DOMAIN clients_ :
           /\ clients_'[g].c = clients_[g].c
           /\ clients_'[g].in = clients_[g].in /\ clients_'[g].out = clients_[g].out
  PROVE  Tables'
<1>1. \A x \in Fds : file[x].k \notin {"free", "lost"} => file'[x] = file[x]
  BY DEF Free
<1>2. \A x \in Fds : \/ file'[x] = file[x]
                     \/ file[x].k = "free" /\ file'[x].k = "lost"
  BY DEF Free
<1>3. EntriesLive'
  BY <1>1, TableTypes DEF Tables, EntriesLive
<1>4. MapsAgree'
  <2>1. {f \in Fds : file'[f].k = "sock"} = {f \in Fds : file[f].k = "sock"}
    BY <1>2
  <2>2. {f \in Fds : file'[f].k = "in"} = {f \in Fds : file[f].k = "in"}
    BY <1>2
  <2>3. {f \in Fds : file'[f].k = "out"} = {f \in Fds : file[f].k = "out"}
    BY <1>2
  <2>4. \A f \in DOMAIN clients_ : file'[f] = file[f]
    BY <1>1, TableTypes DEF Tables, MapsAgree
  <2>5. \A f \in DOMAIN cgi_stdin_fd_to_client_fd_ :
          /\ cgi_stdin_fd_to_client_fd_[f] \in DOMAIN clients_'
          /\ clients_'[cgi_stdin_fd_to_client_fd_[f]].in = f
    BY DEF Tables, MapsAgree, Known
  <2>6. \A f \in DOMAIN clients_' : file'[f].c = clients_'[f].c
    BY <2>4 DEF Tables, MapsAgree
  <2>7. /\ {f \in Fds : file'[f].k = "sock"} = DOMAIN clients_'
        /\ DOMAIN cgi_fd_to_client_fd_' = {f \in Fds : file'[f].k = "out"}
        /\ DOMAIN cgi_stdin_fd_to_client_fd_' = {f \in Fds : file'[f].k = "in"}
    BY <2>1, <2>2, <2>3 DEF Tables, MapsAgree
  <2> QED
    BY <2>5, <2>6, <2>7 DEF MapsAgree, Known
<1>5. OwnPipes'
  <2>1. {f \in Fds : file'[f].k = "listen"} = {f \in Fds : file[f].k = "listen"}
    BY <1>2
  <2>2. ASSUME NEW g \in DOMAIN clients_
        PROVE  /\ clients_[g].in # NoFd => file'[clients_[g].in] = file[clients_[g].in]
               /\ clients_[g].out # NoFd => file'[clients_[g].out] = file[clients_[g].out]
    <3>1. /\ clients_[g].in # NoFd => clients_[g].in \in Fds /\ file[clients_[g].in].k = "in"
          /\ clients_[g].out # NoFd => clients_[g].out \in Fds /\ file[clients_[g].out].k = "out"
      <4>1. /\ clients_[g].in # NoFd => clients_[g].in \in Fds
            /\ clients_[g].out # NoFd => clients_[g].out \in Fds
        BY TableTypes
      <4>2. /\ clients_[g].in # NoFd =>
                 file[clients_[g].in] = [k |-> "in", c |-> clients_[g].c]
            /\ clients_[g].out # NoFd =>
                 file[clients_[g].out] = [k |-> "out", c |-> clients_[g].c]
        BY DEF Tables, OwnPipes
      <4> QED
        BY <4>1, <4>2
    <3> QED
      BY <1>1, <3>1
  <2> QED
    BY <2>1, <2>2 DEF Tables, OwnPipes
<1>6. InOrder'
  <2>1. \A i \in DOMAIN poll_fds_ : file'[poll_fds_[i].fd] = file[poll_fds_[i].fd]
    BY <1>1, TableTypes DEF Tables, EntriesLive
  <2>2. \A i \in DOMAIN server_fds_ : i \in DOMAIN poll_fds_
    BY TableTypes DEF Tables, InOrder
  <2> QED
    BY <2>1, <2>2 DEF Tables, InOrder
<1> QED
  BY <1>3, <1>4, <1>5, <1>6 DEF Tables

(* A step that closes the descriptors X, which takes every trace of them   *)
(* from the tables and nothing else.                                       *)
LEMMA Shrinks ==
  ASSUME Types, Tables, NEW X, NEW P,
         file' = Closing(X), poll_fds_' = Erase(P), UNCHANGED server_fds_,
         \A x \in X : x \in Fds /\ file[x].k \in {"sock", "in", "out"},
         \A i \in DOMAIN poll_fds_ : i \in P <=> poll_fds_[i].fd \in X,
         P \subseteq DOMAIN poll_fds_,
         DOMAIN clients_' = DOMAIN clients_ \ X,
         \A g \in DOMAIN clients_ \ X :
           /\ clients_'[g].c = clients_[g].c
           /\ clients_'[g].in = IF clients_[g].in \in X THEN NoFd ELSE clients_[g].in
           /\ clients_'[g].out = IF clients_[g].out \in X THEN NoFd ELSE clients_[g].out,
         \A g \in DOMAIN clients_ \cap X :
           clients_[g].in \in X \cup {NoFd} /\ clients_[g].out \in X \cup {NoFd},
         DOMAIN cgi_fd_to_client_fd_' = DOMAIN cgi_fd_to_client_fd_ \ X,
         \A f \in DOMAIN cgi_fd_to_client_fd_ \ X :
           cgi_fd_to_client_fd_'[f] = cgi_fd_to_client_fd_[f],
         DOMAIN cgi_stdin_fd_to_client_fd_' = DOMAIN cgi_stdin_fd_to_client_fd_ \ X,
         \A f \in DOMAIN cgi_stdin_fd_to_client_fd_ \ X :
           cgi_stdin_fd_to_client_fd_'[f] = cgi_stdin_fd_to_client_fd_[f]
  PROVE  Tables'
<1>1. \A x \in Fds : /\ x \in X => file'[x].k = "free"
                     /\ x \notin X => file'[x] = file[x]
  BY ClosingFacts DEF Free
<1>2. /\ \A i \in DOMAIN poll_fds_' :
           /\ Kept(P)[i] \in DOMAIN poll_fds_ /\ Kept(P)[i] \notin P
           /\ poll_fds_'[i] = poll_fds_[Kept(P)[i]]
      /\ \A i, j \in DOMAIN poll_fds_' : i < j => Kept(P)[i] < Kept(P)[j]
      /\ poll_fds_' \in Seq(PollEntry)
  BY EraseFacts DEF Types
<1>3. \A i \in DOMAIN poll_fds_' : poll_fds_'[i].fd \notin X /\ poll_fds_'[i].fd \in Fds
  BY <1>2, TableTypes
<1>4. \A i, j \in DOMAIN poll_fds_' :
        i \in Nat /\ j \in Nat /\ Kept(P)[i] \in Nat /\ Kept(P)[j] \in Nat
  BY <1>2, TableTypes
<1>5. \A i, j \in DOMAIN poll_fds_' : Kept(P)[i] = Kept(P)[j] => i = j
  <2> TAKE i, j \in DOMAIN poll_fds_'
  <2>1. i < j \/ j < i \/ i = j
    BY <1>4
  <2> QED
    BY <1>2, <1>4, <2>1
<1>6. \A i, j \in DOMAIN poll_fds_' : Kept(P)[i] < Kept(P)[j] => i < j
  <2> TAKE i, j \in DOMAIN poll_fds_'
  <2>1. i < j \/ j < i \/ i = j
    BY <1>4
  <2> QED
    BY <1>2, <1>4, <2>1
<1>7. EntriesLive'
  <2>1. \A i, j \in DOMAIN poll_fds_' : poll_fds_'[i].fd = poll_fds_'[j].fd => i = j
    BY <1>2, <1>5 DEF Tables, EntriesLive
  <2>2. \A i \in DOMAIN poll_fds_' :
          /\ file'[poll_fds_'[i].fd].k \in {"listen", "sock", "in", "out"}
          /\ file'[poll_fds_'[i].fd].c = poll_fds_'[i].c
    BY <1>1, <1>2, <1>3 DEF Tables, EntriesLive
  <2> QED
    BY <2>1, <2>2 DEF EntriesLive
<1>8. MapsAgree'
  <2>1. {f \in Fds : file'[f].k = "sock"} = DOMAIN clients_'
    BY <1>1 DEF Tables, MapsAgree
  <2>2. \A f \in DOMAIN clients_' : file'[f].c = clients_'[f].c
    BY <1>1, TableTypes DEF Tables, MapsAgree
  <2>3. DOMAIN cgi_fd_to_client_fd_' = {f \in Fds : file'[f].k = "out"}
    BY <1>1 DEF Tables, MapsAgree
  <2>4. DOMAIN cgi_stdin_fd_to_client_fd_' = {f \in Fds : file'[f].k = "in"}
    BY <1>1 DEF Tables, MapsAgree
  <2>5. ASSUME NEW f \in DOMAIN cgi_stdin_fd_to_client_fd_'
        PROVE  /\ cgi_stdin_fd_to_client_fd_'[f] \in DOMAIN clients_'
               /\ clients_'[cgi_stdin_fd_to_client_fd_'[f]].in = f
    <3> DEFINE g == cgi_stdin_fd_to_client_fd_[f]
    <3>1. /\ f \in DOMAIN cgi_stdin_fd_to_client_fd_ /\ f \notin X /\ f # NoFd
          /\ cgi_stdin_fd_to_client_fd_'[f] = g
      BY TableTypes
    <3>2. g \in DOMAIN clients_ /\ clients_[g].in = f
      BY <3>1 DEF Tables, MapsAgree, Known
    <3>3. g \notin X
      BY <3>1, <3>2
    <3> QED
      BY <3>1, <3>2, <3>3
  <2> QED
    BY <2>1, <2>2, <2>3, <2>4, <2>5 DEF MapsAgree, Known
<1>9. OwnPipes'
  <2>1. {f \in Fds : file'[f].k = "listen"} = ToSet(server_fds_)
    BY <1>1 DEF Tables, OwnPipes
  <2>2. ASSUME NEW g \in DOMAIN clients_', clients_'[g].in # NoFd
        PROVE  /\ file'[clients_'[g].in] = [k |-> "in", c |-> clients_'[g].c]
               /\ cgi_stdin_fd_to_client_fd_'[clients_'[g].in] = g
    <3>1. /\ g \in DOMAIN clients_ /\ clients_'[g].in = clients_[g].in
          /\ clients_[g].in \notin X /\ clients_[g].in # NoFd
          /\ clients_'[g].c = clients_[g].c
      BY <2>2
    <3>2. /\ clients_[g].in \in Fds /\ file[clients_[g].in] = [k |-> "in", c |-> clients_[g].c]
          /\ cgi_stdin_fd_to_client_fd_[clients_[g].in] = g
      BY <3>1, TableTypes DEF Tables, OwnPipes
    <3>3. clients_[g].in \in DOMAIN cgi_stdin_fd_to_client_fd_
      BY <3>2 DEF Tables, MapsAgree
    <3> QED
      BY <1>1, <3>1, <3>2, <3>3
  <2>3. ASSUME NEW g \in DOMAIN clients_', clients_'[g].out # NoFd
        PROVE  /\ file'[clients_'[g].out] = [k |-> "out", c |-> clients_'[g].c]
               /\ cgi_fd_to_client_fd_'[clients_'[g].out] = g
    <3>1. /\ g \in DOMAIN clients_ /\ clients_'[g].out = clients_[g].out
          /\ clients_[g].out \notin X /\ clients_[g].out # NoFd
          /\ clients_'[g].c = clients_[g].c
      BY <2>3
    <3>2. /\ clients_[g].out \in Fds /\ file[clients_[g].out] = [k |-> "out", c |-> clients_[g].c]
          /\ cgi_fd_to_client_fd_[clients_[g].out] = g
      BY <3>1, TableTypes DEF Tables, OwnPipes
    <3>3. clients_[g].out \in DOMAIN cgi_fd_to_client_fd_
      BY <3>2 DEF Tables, MapsAgree
    <3> QED
      BY <1>1, <3>1, <3>2, <3>3
  <2> QED
    BY <2>1, <2>2, <2>3 DEF OwnPipes
<1>10. InOrder'
  <2>1. \A p \in P : p \notin 1..Len(server_fds_)
    <3> SUFFICES ASSUME NEW p \in P, p \in 1..Len(server_fds_)
                 PROVE  FALSE
      OBVIOUS
    <3>1. p \in DOMAIN server_fds_ /\ p \in DOMAIN poll_fds_
      BY TableTypes
    <3>2. poll_fds_[p].fd = server_fds_[p] /\ server_fds_[p] \in ToSet(server_fds_)
      BY <3>1 DEF Tables, InOrder, ToSet
    <3>3. file[poll_fds_[p].fd].k = "listen"
      BY <3>2 DEF Tables, OwnPipes
    <3> QED
      BY <3>1, <3>3
  <2>2. /\ Len(server_fds_) <= Len(poll_fds_')
        /\ \A i \in 1..Len(server_fds_) : poll_fds_'[i] = poll_fds_[i]
    BY <2>1, ErasePrefix, TableTypes DEF Types, Tables, InOrder
  <2>3. \A i \in DOMAIN server_fds_' : poll_fds_'[i].fd = server_fds_'[i]
    BY <2>2, TableTypes DEF Tables, InOrder
  <2>4. ASSUME NEW i \in DOMAIN poll_fds_', NEW j \in DOMAIN poll_fds_',
               file'[poll_fds_'[i].fd].k = "sock", poll_fds_'[i].c = poll_fds_'[j].c, i # j
        PROVE  i < j
    <3>1. file[poll_fds_[Kept(P)[i]].fd].k = "sock"
      BY <1>1, <1>2, <1>3, <2>4
    <3>2. Kept(P)[i] # Kept(P)[j]
      BY <1>5, <2>4
    <3>3. Kept(P)[i] < Kept(P)[j]
      BY <1>2, <2>4, <3>1, <3>2 DEF Tables, InOrder
    <3> QED
      BY <1>6, <3>3
  <2> QED
    BY <2>2, <2>3, <2>4 DEF InOrder
<1> QED
  BY <1>7, <1>8, <1>9, <1>10 DEF Tables

(* New entries for descriptors that were free.                             *)
LEMMA Grows ==
  ASSUME Types, Tables, NEW es \in Seq(PollEntry), poll_fds_' = PushBack(es),
         \A x \in Fds : file[x] # Free => file'[x] = file[x],
         \A i \in DOMAIN es :
           /\ file[es[i].fd] = Free
           /\ file'[es[i].fd].k \in {"listen", "sock", "in", "out"}
           /\ file'[es[i].fd].c = es[i].c
           /\ file'[es[i].fd].k = "sock" =>
                /\ \A j \in DOMAIN poll_fds_ : poll_fds_[j].c # es[i].c
                /\ \A j \in DOMAIN es : es[j].c = es[i].c => i = j,
         \A i, j \in DOMAIN es : es[i].fd = es[j].fd => i = j
  PROVE  /\ EntriesLive'
         /\ \A i, j \in DOMAIN poll_fds_' :
              file'[poll_fds_'[i].fd].k = "sock" /\ poll_fds_'[i].c = poll_fds_'[j].c /\ i # j
              => i < j
         /\ \A i \in DOMAIN poll_fds_ : poll_fds_'[i] = poll_fds_[i]
         /\ Len(poll_fds_') = Len(poll_fds_) + Len(es)
<1> DEFINE n == Len(poll_fds_)
           q == poll_fds_'
<1>1. /\ q \in Seq(PollEntry) /\ Len(q) = n + Len(es)
      /\ \A i \in 1..n : q[i] = poll_fds_[i]
      /\ \A i \in 1..Len(es) : q[n + i] = es[i]
  <2>1. /\ PushBack(es) \in Seq(PollEntry)
        /\ Len(PushBack(es)) = Len(poll_fds_) + Len(es)
        /\ \A i \in DOMAIN poll_fds_ : PushBack(es)[i] = poll_fds_[i]
        /\ \A i \in DOMAIN es : PushBack(es)[Len(poll_fds_) + i] = es[i]
    BY PushFacts
  <2>2. DOMAIN poll_fds_ = 1..Len(poll_fds_) /\ DOMAIN es = 1..Len(es)
    BY TableTypes
  <2>3. q = PushBack(es)
    OBVIOUS
  <2> HIDE DEF q
  <2> QED
    BY <2>1, <2>2, <2>3
<1>2. n \in Nat /\ Len(es) \in Nat /\ DOMAIN poll_fds_ = 1..n /\ DOMAIN es = 1..Len(es)
      /\ DOMAIN q = 1..(n + Len(es))
  BY <1>1, TableTypes
<1> HIDE DEF n, q
<1>3. \A i \in DOMAIN q : i \in 1..n \/ \E m \in 1..Len(es) : i = n + m
  <2> TAKE i \in DOMAIN q
  <2>1. CASE i > n
    <3>1. i - n \in 1..Len(es) /\ i = n + (i - n)
      BY <1>2, <2>1
    <3> QED
      BY <3>1
  <2> QED
    BY <1>2, <2>1
<1>4. \A i \in 1..n : /\ q[i] = poll_fds_[i] /\ q[i].fd \in Fds /\ file[q[i].fd] # Free
                      /\ file'[q[i].fd] = file[q[i].fd]
  <2> TAKE i \in 1..n
  <2>1. q[i] = poll_fds_[i] /\ poll_fds_[i].fd \in Fds
    BY <1>1, <1>2, TableTypes
  <2>2. file[poll_fds_[i].fd].k \in {"listen", "sock", "in", "out"}
    BY <1>2 DEF Tables, EntriesLive
  <2> QED
    BY <2>1, <2>2 DEF Free
<1>5. \A i, j \in DOMAIN q : q[i].fd = q[j].fd => i = j
  <2> SUFFICES ASSUME NEW i \in DOMAIN q, NEW j \in DOMAIN q, q[i].fd = q[j].fd
               PROVE  i = j
    OBVIOUS
  <2>1. CASE i \in 1..n /\ j \in 1..n
    BY <1>1, <1>2, <2>1 DEF Tables, EntriesLive
  <2>2. CASE i \in 1..n /\ j \notin 1..n
    <3>1. PICK m \in 1..Len(es) : j = n + m
      BY <1>3, <2>2
    <3>2. file[q[j].fd] = Free
      BY <1>1, <1>2, <3>1
    <3>3. file[q[i].fd] # Free
      BY <1>4, <2>2
    <3> QED
      BY <3>2, <3>3
  <2>3. CASE i \notin 1..n /\ j \in 1..n
    <3>1. PICK m \in 1..Len(es) : i = n + m
      BY <1>3, <2>3
    <3> QED
      BY <1>1, <1>2, <1>4, <2>3, <3>1
  <2>4. CASE i \notin 1..n /\ j \notin 1..n
    <3>1. PICK m \in 1..Len(es) : i = n + m
      BY <1>3, <2>4
    <3>2. PICK l \in 1..Len(es) : j = n + l
      BY <1>3, <2>4
    <3>3. es[m].fd = es[l].fd
      BY <1>1, <3>1, <3>2
    <3> QED
      BY <1>2, <3>1, <3>2, <3>3
  <2> QED
    BY <2>1, <2>2, <2>3, <2>4
<1>6. \A i \in DOMAIN q : /\ file'[q[i].fd].k \in {"listen", "sock", "in", "out"}
                          /\ file'[q[i].fd].c = q[i].c
  <2> TAKE i \in DOMAIN q
  <2>1. CASE i \in 1..n
    <3>1. /\ file[poll_fds_[i].fd].k \in {"listen", "sock", "in", "out"}
          /\ file[poll_fds_[i].fd].c = poll_fds_[i].c
      BY <1>2, <2>1 DEF Tables, EntriesLive
    <3> QED
      BY <1>4, <2>1, <3>1
  <2>2. CASE i \notin 1..n
    <3>1. PICK m \in 1..Len(es) : i = n + m
      BY <1>3, <2>2
    <3> QED
      BY <1>1, <1>2, <3>1
  <2> QED
    BY <2>1, <2>2
<1>7. ASSUME NEW i \in DOMAIN q, NEW j \in DOMAIN q,
             file'[q[i].fd].k = "sock", q[i].c = q[j].c, i # j
      PROVE  i < j
  <2>1. CASE i \in 1..n /\ j \in 1..n
    <3>1. file[poll_fds_[i].fd].k = "sock" /\ poll_fds_[i].c = poll_fds_[j].c
      BY <1>1, <1>4, <1>7, <2>1
    <3> QED
      BY <1>2, <1>7, <2>1, <3>1 DEF Tables, InOrder
  <2>2. CASE i \in 1..n /\ j \notin 1..n
    BY <1>2, <2>2
  <2>3. CASE i \notin 1..n
    <3>1. PICK m \in 1..Len(es) : i = n + m
      BY <1>3, <2>3
    <3>2. file'[es[m].fd].k = "sock" /\ es[m].c = q[j].c /\ m \in DOMAIN es
      BY <1>1, <1>2, <1>7, <3>1
    <3>3. j \notin 1..n
      BY <1>1, <1>2, <3>2
    <3>4. PICK l \in 1..Len(es) : j = n + l
      BY <1>3, <3>3
    <3>5. es[l].c = es[m].c /\ l \in DOMAIN es
      BY <1>1, <1>2, <3>2, <3>4
    <3> QED
      BY <1>7, <3>1, <3>2, <3>4, <3>5
  <2> QED
    BY <2>1, <2>2, <2>3
<1>8. EntriesLive'
  BY <1>5, <1>6 DEF EntriesLive, q
<1> QED
  BY <1>1, <1>2, <1>7, <1>8 DEF q, n

(* The step of remove_client.                                              *)
LEMMA RemoveTables ==
  ASSUME Types, Tables, NEW i \in DOMAIN poll_fds_, Known(poll_fds_[i].fd),
         remove_client(i)
  PROVE  /\ Tables'
         /\ \A x \in Fds : file[x] # Free /\ file'[x] = Free => file[x].c = poll_fds_[i].c
<1> DEFINE f == poll_fds_[i].fd
           cl == clients_[f]
           out == {cl.out} \ {NoFd}
           in  == {cl.in} \ {NoFd}
           X == {f} \cup out \cup in
           P == {i} \cup First(out) \cup First(in)
<1>1. /\ poll_fds_' = Erase(P)
      /\ cgi_fd_to_client_fd_' =
           Restrict(cgi_fd_to_client_fd_, DOMAIN cgi_fd_to_client_fd_ \ out)
      /\ cgi_stdin_fd_to_client_fd_' =
           Restrict(cgi_stdin_fd_to_client_fd_, DOMAIN cgi_stdin_fd_to_client_fd_ \ in)
      /\ file' = Closing(X)
      /\ clients_' = Without(clients_, f)
      /\ UNCHANGED <<made, server_fds_, cuts>>
  BY Zenon DEF remove_client
<1>2. /\ f \in DOMAIN clients_ /\ f \in Fds /\ cl \in Client
      /\ cl.in # NoFd => cl.in \in Fds
      /\ cl.out # NoFd => cl.out \in Fds
  BY TableTypes DEF Known
<1>3. /\ file[f].k = "sock" /\ file[f].c = cl.c /\ file[f].c = poll_fds_[i].c
      /\ cl.in # NoFd => file[cl.in] = [k |-> "in", c |-> cl.c]
      /\ cl.out # NoFd => file[cl.out] = [k |-> "out", c |-> cl.c]
  <2>1. file[f].k = "sock" /\ file[f].c = cl.c
    BY <1>2 DEF Tables, MapsAgree
  <2>2. file[f].c = poll_fds_[i].c
    BY DEF Tables, EntriesLive
  <2>3. /\ cl.in # NoFd => file[cl.in] = [k |-> "in", c |-> cl.c]
        /\ cl.out # NoFd => file[cl.out] = [k |-> "out", c |-> cl.c]
    BY <1>2 DEF Tables, OwnPipes
  <2> QED
    BY <2>1, <2>2, <2>3
<1>4. \A x \in out : x = cl.out /\ x \in Fds /\ file[x].k = "out" /\ file[x].c = cl.c
  BY <1>2, <1>3
<1>5. \A x \in in : x = cl.in /\ x \in Fds /\ file[x].k = "in" /\ file[x].c = cl.c
  BY <1>2, <1>3
<1>6. \A x \in X : x \in Fds /\ file[x].k \in {"sock", "in", "out"} /\ file[x].c = cl.c
  BY <1>2, <1>3, <1>4, <1>5
<1>7. \A S : First(S) = {j \in DOMAIN poll_fds_ : poll_fds_[j].fd \in S}
  <2>1. \A j \in DOMAIN poll_fds_ : \A k \in 1..(j - 1) : poll_fds_[k].fd # poll_fds_[j].fd
    <3> SUFFICES ASSUME NEW j \in DOMAIN poll_fds_, NEW k \in 1..(j - 1),
                        poll_fds_[k].fd = poll_fds_[j].fd
                 PROVE  FALSE
      OBVIOUS
    <3>1. k \in DOMAIN poll_fds_ /\ k # j
      BY TableTypes
    <3> QED
      BY <3>1 DEF Tables, EntriesLive
  <2> QED
    BY <2>1 DEF First
<1>8. \A j \in DOMAIN poll_fds_ : j = i <=> poll_fds_[j].fd = f
  BY DEF Tables, EntriesLive
<1>9. P \subseteq DOMAIN poll_fds_ /\ \A j \in DOMAIN poll_fds_ : j \in P <=> poll_fds_[j].fd \in X
  <2> HIDE DEF in, out, f
  <2> QED
    BY <1>7, <1>8
<1>10. /\ DOMAIN clients_' = DOMAIN clients_ \ {f}
       /\ \A g \in DOMAIN clients_ : g # f => clients_'[g] = clients_[g]
  BY <1>1, ClientMapFacts
<1>11. \A g \in DOMAIN clients_ : g \in X <=> g = f
  <2>1. \A g \in DOMAIN clients_ : file[g].k = "sock"
    BY DEF Tables, MapsAgree
  <2> HIDE DEF in, out, f
  <2> QED
    BY <2>1, <1>4, <1>5
<1>12. \A g \in DOMAIN clients_ : g # f => clients_[g].in \notin X /\ clients_[g].out \notin X
  <2> SUFFICES ASSUME NEW g \in DOMAIN clients_, g # f
               PROVE  clients_[g].in \notin X /\ clients_[g].out \notin X
    OBVIOUS
  <2>1. /\ clients_[g].in # NoFd =>
             /\ file[clients_[g].in] = [k |-> "in", c |-> clients_[g].c]
             /\ cgi_stdin_fd_to_client_fd_[clients_[g].in] = g
        /\ clients_[g].out # NoFd =>
             /\ file[clients_[g].out] = [k |-> "out", c |-> clients_[g].c]
             /\ cgi_fd_to_client_fd_[clients_[g].out] = g
        /\ cl.in # NoFd => cgi_stdin_fd_to_client_fd_[cl.in] = f
        /\ cl.out # NoFd => cgi_fd_to_client_fd_[cl.out] = f
    BY <1>2 DEF Tables, OwnPipes
  <2>2. NoFd \notin X
    BY <1>6, TableTypes
  <2>3. ASSUME clients_[g].in \in X PROVE FALSE
    <3>1. clients_[g].in # NoFd /\ file[clients_[g].in].k = "in"
      BY <2>1, <2>2, <2>3
    <3>2. clients_[g].in = cl.in
      BY <2>3, <3>1, <1>3, <1>4
    <3> QED
      BY <2>1, <3>1, <3>2
  <2>4. ASSUME clients_[g].out \in X PROVE FALSE
    <3>1. clients_[g].out # NoFd /\ file[clients_[g].out].k = "out"
      BY <2>1, <2>2, <2>4
    <3>2. clients_[g].out = cl.out
      BY <2>4, <3>1, <1>3, <1>5
    <3> QED
      BY <2>1, <3>1, <3>2
  <2> QED
    BY <2>3, <2>4
<1>13. /\ DOMAIN cgi_fd_to_client_fd_' = DOMAIN cgi_fd_to_client_fd_ \ X
       /\ \A x \in DOMAIN cgi_fd_to_client_fd_ \ X :
            cgi_fd_to_client_fd_'[x] = cgi_fd_to_client_fd_[x]
  <2>1. \A x \in DOMAIN cgi_fd_to_client_fd_ : file[x].k = "out"
    BY DEF Tables, MapsAgree
  <2> HIDE DEF in, out, f
  <2>2. DOMAIN cgi_fd_to_client_fd_ \ out = DOMAIN cgi_fd_to_client_fd_ \ X
    BY <2>1, <1>3, <1>5 DEF f
  <2>3. cgi_fd_to_client_fd_' = [x \in DOMAIN cgi_fd_to_client_fd_ \ out |->
                                   cgi_fd_to_client_fd_[x]]
    BY <1>1 DEF Restrict
  <2> QED
    BY <2>2, <2>3
<1>14. /\ DOMAIN cgi_stdin_fd_to_client_fd_' = DOMAIN cgi_stdin_fd_to_client_fd_ \ X
       /\ \A x \in DOMAIN cgi_stdin_fd_to_client_fd_ \ X :
            cgi_stdin_fd_to_client_fd_'[x] = cgi_stdin_fd_to_client_fd_[x]
  <2>1. \A x \in DOMAIN cgi_stdin_fd_to_client_fd_ : file[x].k = "in"
    BY DEF Tables, MapsAgree
  <2> HIDE DEF in, out, f
  <2>2. DOMAIN cgi_stdin_fd_to_client_fd_ \ in = DOMAIN cgi_stdin_fd_to_client_fd_ \ X
    BY <2>1, <1>3, <1>4 DEF f
  <2>3. cgi_stdin_fd_to_client_fd_' = [x \in DOMAIN cgi_stdin_fd_to_client_fd_ \ in |->
                                         cgi_stdin_fd_to_client_fd_[x]]
    BY <1>1 DEF Restrict
  <2> QED
    BY <2>2, <2>3
<1>15. cl.in \in X \cup {NoFd} /\ cl.out \in X \cup {NoFd}
  OBVIOUS
<1>16. \A x \in Fds : file[x] # Free /\ file'[x] = Free => file[x].c = poll_fds_[i].c
  <2>1. \A x \in Fds : x \notin X => file'[x] = file[x]
    BY <1>1, ClosingFacts
  <2> HIDE DEF X
  <2> QED
    BY <1>3, <1>6, <2>1
<1>17. Tables'
  <2>1. DOMAIN clients_' = DOMAIN clients_ \ X
    BY <1>10, <1>11
  <2>2. \A g \in DOMAIN clients_ \ X :
           /\ clients_'[g].c = clients_[g].c
           /\ clients_'[g].in = IF clients_[g].in \in X THEN NoFd ELSE clients_[g].in
           /\ clients_'[g].out = IF clients_[g].out \in X THEN NoFd ELSE clients_[g].out
    BY <1>10, <1>11, <1>12
  <2>3. \A g \in DOMAIN clients_ \cap X :
           clients_[g].in \in X \cup {NoFd} /\ clients_[g].out \in X \cup {NoFd}
    BY <1>11, <1>15
  <2> HIDE DEF X, P
  <2> QED
    BY <1>1, <1>6, <1>9, <1>13, <1>14, <2>1, <2>2, <2>3, Shrinks
<1> QED
  BY <1>16, <1>17

(* A stdin is closed, deregistered and forgotten by its Client.            *)
LEMMA StdinTables ==
  ASSUME Types, Tables, NEW e \in DOMAIN cgi_stdin_fd_to_client_fd_, NEW P,
         P \subseteq DOMAIN poll_fds_,
         \A j \in DOMAIN poll_fds_ : j \in P <=> poll_fds_[j].fd = e,
         file' = Closing({e}), poll_fds_' = Erase(P),
         cgi_stdin_fd_to_client_fd_' = Without(cgi_stdin_fd_to_client_fd_, e),
         UNCHANGED <<server_fds_, cgi_fd_to_client_fd_>>,
         DOMAIN clients_' = DOMAIN clients_,
         \A g \in DOMAIN clients_ :
           /\ clients_'[g].c = clients_[g].c /\ clients_'[g].out = clients_[g].out
           /\ clients_'[g].in = IF g = cgi_stdin_fd_to_client_fd_[e]
                                THEN NoFd ELSE clients_[g].in
  PROVE  Tables'
<1> DEFINE h == cgi_stdin_fd_to_client_fd_[e]
<1>1. /\ e \in Fds /\ file[e].k = "in" /\ e # NoFd /\ NoFd \notin Fds
      /\ h \in DOMAIN clients_ /\ clients_[h].in = e
  BY TableTypes DEF Tables, MapsAgree, Known
<1>2. \A g \in DOMAIN clients_ :
        /\ g # e
        /\ clients_[g].in = e <=> g = h
        /\ clients_[g].out # e
  <2> TAKE g \in DOMAIN clients_
  <2>1. g # e
    BY <1>1 DEF Tables, MapsAgree
  <2>2. clients_[g].in = e => g = h
    BY <1>1 DEF Tables, OwnPipes
  <2>3. clients_[g].out # e
    <3>1. clients_[g].out # NoFd => file[clients_[g].out] = [k |-> "out", c |-> clients_[g].c]
      BY DEF Tables, OwnPipes
    <3> QED
      BY <1>1, <3>1
  <2> QED
    BY <1>1, <2>1, <2>2, <2>3
<1>3. e \notin DOMAIN cgi_fd_to_client_fd_
  BY <1>1 DEF Tables, MapsAgree
<1>4. /\ DOMAIN cgi_stdin_fd_to_client_fd_' = DOMAIN cgi_stdin_fd_to_client_fd_ \ {e}
      /\ \A f \in DOMAIN cgi_stdin_fd_to_client_fd_ \ {e} :
           cgi_stdin_fd_to_client_fd_'[f] = cgi_stdin_fd_to_client_fd_[f]
  BY DEF Without, Restrict
<1> DEFINE X == {e}
<1>5. /\ \A x \in X : x \in Fds /\ file[x].k \in {"sock", "in", "out"}
      /\ \A j \in DOMAIN poll_fds_ : j \in P <=> poll_fds_[j].fd \in X
      /\ DOMAIN clients_' = DOMAIN clients_ \ X
      /\ \A g \in DOMAIN clients_ \ X :
           /\ clients_'[g].c = clients_[g].c
           /\ clients_'[g].in = IF clients_[g].in \in X THEN NoFd ELSE clients_[g].in
           /\ clients_'[g].out = IF clients_[g].out \in X THEN NoFd ELSE clients_[g].out
      /\ \A g \in DOMAIN clients_ \cap X :
           clients_[g].in \in X \cup {NoFd} /\ clients_[g].out \in X \cup {NoFd}
      /\ DOMAIN cgi_fd_to_client_fd_' = DOMAIN cgi_fd_to_client_fd_ \ X
      /\ file' = Closing(X)
  BY <1>1, <1>2, <1>3
<1>6. /\ DOMAIN cgi_stdin_fd_to_client_fd_' = DOMAIN cgi_stdin_fd_to_client_fd_ \ X
      /\ \A f \in DOMAIN cgi_stdin_fd_to_client_fd_ \ X :
           cgi_stdin_fd_to_client_fd_'[f] = cgi_stdin_fd_to_client_fd_[f]
  BY <1>4
<1> HIDE DEF X
<1> QED
  BY <1>5, <1>6, Shrinks

(* The end of a CGI whose stdin is closed.                                 *)
LEMMA CgiEndTables ==
  ASSUME Base, Tables, CgiEnd, clients_[CgiClient].in = NoFd
  PROVE  Tables'
<1> DEFINE e == Cur.fd
           h == CgiClient
           cl == clients_[h]
           X == {e}
<1>1. /\ file' = Closing({e} \cup StdinOf(cl)) /\ Change(h, Finished(cl))
      /\ cgi_fd_to_client_fd_' = Without(cgi_fd_to_client_fd_, e)
      /\ poll_fds_' = Erase({idx})
      /\ UNCHANGED <<server_fds_, cgi_stdin_fd_to_client_fd_>>
      /\ e \in DOMAIN cgi_fd_to_client_fd_ /\ h = cgi_fd_to_client_fd_[e]
      /\ idx <= Len(poll_fds_)
  BY DEF CgiEnd, CgiReady, Visiting, isCgiFd, CgiClient
<1>2. Types
  BY DEF Base
<1>3. h \in DOMAIN clients_ /\ cl \in Client /\ cl.out = e /\ idx \in DOMAIN poll_fds_
  BY <1>1, <1>2, CurFacts DEF Base, OutputHasClient, Known, Types
<1>4. /\ Finished(cl) \in Client /\ Finished(cl).c = cl.c
      /\ Finished(cl).in = NoFd /\ Finished(cl).out = NoFd
  BY <1>3 DEF Client, Finished
<1>5. /\ DOMAIN clients_' = DOMAIN clients_ /\ clients_'[h] = Finished(cl)
      /\ \A g \in DOMAIN clients_ : g # h => clients_'[g] = clients_[g]
  BY <1>1, <1>2, <1>3, <1>4, ChangeTypes
<1>6. e \in Fds /\ file[e].k = "out" /\ NoFd \notin Fds
  BY <1>1, <1>2, TableTypes DEF Tables, MapsAgree
<1>7. \A j \in DOMAIN poll_fds_ : j \in {idx} <=> poll_fds_[j].fd \in X
  BY <1>3 DEF Tables, EntriesLive, Cur
<1>8. file' = Closing(X)
  <2>1. StdinOf(cl) = {}
    BY DEF StdinOf
  <2> QED
    BY <1>1, <2>1
<1> HIDE DEF e, h
<1>9. \A g \in DOMAIN clients_ :
        /\ g # e
        /\ clients_[g].out = e <=> g = h
        /\ clients_[g].in # e
  <2> TAKE g \in DOMAIN clients_
  <2>1. g # e
    BY <1>6 DEF Tables, MapsAgree
  <2>2. clients_[g].out = e => g = h
    <3>1. clients_[g].out # NoFd => cgi_fd_to_client_fd_[clients_[g].out] = g
      BY DEF Tables, OwnPipes
    <3> QED
      BY <1>1, <1>6, <3>1
  <2>3. clients_[g].in # e
    <3>1. clients_[g].in # NoFd => file[clients_[g].in] = [k |-> "in", c |-> clients_[g].c]
      BY DEF Tables, OwnPipes
    <3> QED
      BY <1>6, <3>1
  <2> QED
    BY <1>3, <2>1, <2>2, <2>3
<1>10. e \notin DOMAIN cgi_stdin_fd_to_client_fd_
  BY <1>6 DEF Tables, MapsAgree
<1>11. /\ DOMAIN cgi_fd_to_client_fd_' = DOMAIN cgi_fd_to_client_fd_ \ X
       /\ \A f \in DOMAIN cgi_fd_to_client_fd_ \ X :
            cgi_fd_to_client_fd_'[f] = cgi_fd_to_client_fd_[f]
  BY <1>1 DEF Without, Restrict
<1>12. /\ \A x \in X : x \in Fds /\ file[x].k \in {"sock", "in", "out"}
       /\ DOMAIN clients_' = DOMAIN clients_ \ X
       /\ \A g \in DOMAIN clients_ \cap X :
            clients_[g].in \in X \cup {NoFd} /\ clients_[g].out \in X \cup {NoFd}
       /\ DOMAIN cgi_stdin_fd_to_client_fd_' = DOMAIN cgi_stdin_fd_to_client_fd_ \ X
  BY <1>1, <1>5, <1>6, <1>9, <1>10
<1>13. \A g \in DOMAIN clients_ \ X :
            /\ clients_'[g].c = clients_[g].c
            /\ clients_'[g].in = IF clients_[g].in \in X THEN NoFd ELSE clients_[g].in
            /\ clients_'[g].out = IF clients_[g].out \in X THEN NoFd ELSE clients_[g].out
  <2> TAKE g \in DOMAIN clients_ \ X
  <2>1. CASE g = h
    BY <1>3, <1>4, <1>5, <1>9, <2>1 DEF h
  <2>2. CASE g # h
    BY <1>5, <1>9, <2>2
  <2> QED
    BY <2>1, <2>2
<1>14. {idx} \subseteq DOMAIN poll_fds_
  BY <1>3
<1>15. /\ UNCHANGED server_fds_ /\ poll_fds_' = Erase({idx})
       /\ \A f \in DOMAIN cgi_stdin_fd_to_client_fd_ \ X :
            cgi_stdin_fd_to_client_fd_'[f] = cgi_stdin_fd_to_client_fd_[f]
  BY <1>1
<1> HIDE DEF X
<1> QED
  BY <1>2, <1>15, <1>7, <1>8, <1>11, <1>12, <1>13, <1>14, Shrinks

LEMMA ListenTables ==
  ASSUME Base, Tables, Listen
  PROVE  Tables'
<1> DEFINE f == Min(FreeFds)
           e == Entry(f, 0)
           es == <<e>>
<1>1. f \in Fds /\ file[f] = Free
  BY MinFacts, FreeFdsFacts DEF Listen, FreeFds
<1>2. /\ file' = [file EXCEPT ![f] = [k |-> "listen", c |-> 0]]
      /\ server_fds_' = Append(server_fds_, f)
      /\ poll_fds_' = Append(poll_fds_, e)
      /\ phase = "init"
      /\ UNCHANGED <<clients_, cgi_fd_to_client_fd_, cgi_stdin_fd_to_client_fd_>>
  BY DEF Listen, maps
<1>3. Types /\ DOMAIN clients_ = {} /\ Len(poll_fds_) = Len(server_fds_)
  BY <1>2 DEF Base, Starting
<1>4. e \in PollEntry /\ e.fd = f /\ e.c = 0
  BY <1>1, EventLoopAssumption DEF Entry, PollEntry
<1> HIDE DEF f, e
<1>5. \A x \in Fds : file'[x] = IF x = f THEN [k |-> "listen", c |-> 0] ELSE file[x]
  BY <1>1, <1>2, <1>3 DEF Types
<1>6. es \in Seq(PollEntry) /\ poll_fds_' = PushBack(es)
  BY <1>2, <1>3, <1>4 DEF PushBack, Types
<1>7. DOMAIN es = {1} /\ es[1] = e /\ Len(es) = 1
  OBVIOUS
<1> HIDE DEF es
<1>8. \A i \in DOMAIN es :
           /\ file[es[i].fd] = Free
           /\ file'[es[i].fd].k \in {"listen", "sock", "in", "out"}
           /\ file'[es[i].fd].c = es[i].c
           /\ file'[es[i].fd].k # "sock"
  BY <1>1, <1>4, <1>5, <1>7
<1>9. \A x \in Fds : file[x] # Free => file'[x] = file[x]
  BY <1>1, <1>5
<1>10. \A i, j \in DOMAIN es : es[i].fd = es[j].fd => i = j
  BY <1>7
<1>11. /\ EntriesLive'
       /\ \A i, j \in DOMAIN poll_fds_' :
              file'[poll_fds_'[i].fd].k = "sock" /\ poll_fds_'[i].c = poll_fds_'[j].c /\ i # j
              => i < j
       /\ \A i \in DOMAIN poll_fds_ : poll_fds_'[i] = poll_fds_[i]
       /\ Len(poll_fds_') = Len(poll_fds_) + 1
  <2>1. \A i \in DOMAIN es : file'[es[i].fd].k = "sock" =>
                /\ \A j \in DOMAIN poll_fds_ : poll_fds_[j].c # es[i].c
                /\ \A j \in DOMAIN es : es[j].c = es[i].c => i = j
    BY <1>8
  <2> QED
    BY <1>3, <1>6, <1>7, <1>8, <1>9, <1>10, <2>1, Grows
<1>12. MapsAgree'
  <2>1. \A x \in Fds : \/ file'[x].k = file[x].k
                       \/ file[x].k = "free" /\ file'[x].k = "listen"
    BY <1>1, <1>5 DEF Free
  <2>2. /\ {x \in Fds : file'[x].k = "sock"} = {x \in Fds : file[x].k = "sock"}
        /\ {x \in Fds : file'[x].k = "in"} = {x \in Fds : file[x].k = "in"}
        /\ {x \in Fds : file'[x].k = "out"} = {x \in Fds : file[x].k = "out"}
    BY <2>1
  <2> QED
    BY <1>2, <1>3, <2>2 DEF Tables, MapsAgree, Known
<1>13. /\ DOMAIN server_fds_ = 1..Len(server_fds_) /\ Len(server_fds_) \in Nat
       /\ DOMAIN server_fds_' = 1..(Len(server_fds_) + 1)
       /\ server_fds_'[Len(server_fds_) + 1] = f
       /\ \A i \in DOMAIN server_fds_ : server_fds_'[i] = server_fds_[i]
       /\ Len(server_fds_') = Len(server_fds_) + 1
  <2>1. server_fds_ \in Seq(Fds)
    BY <1>3 DEF Types
  <2> QED
    BY <1>1, <1>2, <2>1
<1>14. OwnPipes'
  <2>1. DOMAIN server_fds_' = DOMAIN server_fds_ \cup {Len(server_fds_) + 1}
    BY <1>13
  <2>2. ToSet(server_fds_') = ToSet(server_fds_) \cup {f}
    BY <1>13, <2>1 DEF ToSet
  <2>3. {x \in Fds : file'[x].k = "listen"} = {x \in Fds : file[x].k = "listen"} \cup {f}
    BY <1>1, <1>5
  <2> QED
    BY <1>2, <1>3, <2>2, <2>3 DEF Tables, OwnPipes
<1>15. InOrder'
  <2>1. poll_fds_'[Len(server_fds_) + 1].fd = f
    <3>1. poll_fds_ \in Seq(PollEntry)
      BY <1>3 DEF Types
    <3>2. poll_fds_'[Len(poll_fds_) + 1] = e
      BY <1>2, <1>4, <3>1
    <3> QED
      BY <1>3, <1>4, <3>2
  <2>2. \A i \in DOMAIN server_fds_ : i \in DOMAIN poll_fds_
    BY <1>3, TableTypes
  <2>3. \A i \in DOMAIN server_fds_' : poll_fds_'[i].fd = server_fds_'[i]
    <3> TAKE i \in DOMAIN server_fds_'
    <3>1. CASE i = Len(server_fds_) + 1
      BY <1>13, <2>1, <3>1
    <3>2. CASE i \in DOMAIN server_fds_
      BY <1>11, <1>13, <2>2, <3>2 DEF Tables, InOrder
    <3> QED
      BY <1>13, <3>1, <3>2
  <2>4. Len(server_fds_') <= Len(poll_fds_')
    BY <1>3, <1>11, <1>13
  <2> QED
    BY <1>11, <2>3, <2>4 DEF InOrder
<1> QED
  BY <1>11, <1>12, <1>14, <1>15 DEF Tables

LEMMA AcceptTables ==
  ASSUME Base, Tables, accept_client
  PROVE  Tables'
<1> USE DEF Base
<1>1. PICK n \in Nat, new \in Seq(FreeFds) :
           /\ made + n <= MaxConns /\ made' = made + n
           /\ Len(new) = n /\ new \in [1..n -> FreeFds]
           /\ \A i, j \in 1..n : new[i] = new[j] => i = j
           /\ \A i \in 1..n : file'[new[i]] = [k |-> "sock", c |-> made + i]
           /\ \A f \in Fds : f \notin ToSet(new) => file'[f] = file[f]
           /\ DOMAIN clients_' = DOMAIN clients_ \cup ToSet(new)
           /\ \A f \in DOMAIN clients_ : clients_'[f] = clients_[f]
           /\ \A i \in 1..n : ~ Known(new[i]) => clients_'[new[i]] = NewClient(made + i)
           /\ [i \in 1..n |-> Entry(new[i], made + i)] \in Seq(PollEntry)
           /\ poll_fds_' = PushBack([i \in 1..n |-> Entry(new[i], made + i)])
           /\ ToOutput /\ UNCHANGED <<server_fds_, cuts, maps>>
  BY AcceptFacts, Zenon
<1>2. made \in Nat /\ UNCHANGED <<server_fds_, cgi_fd_to_client_fd_, cgi_stdin_fd_to_client_fd_>>
  BY <1>1 DEF Types, maps
<1>3. ToSet(new) = {new[i] : i \in 1..n}
  BY <1>1 DEF ToSet
<1>4. \A i \in 1..n : new[i] \in Fds /\ file[new[i]] = Free
  BY <1>1 DEF FreeFds
<1> DEFINE es == [i \in 1..n |-> Entry(new[i], made + i)]
<1>5. /\ es \in Seq(PollEntry) /\ poll_fds_' = PushBack(es)
      /\ DOMAIN es = 1..n /\ \A i \in 1..n : es[i].fd = new[i] /\ es[i].c = made + i
  BY <1>1 DEF Entry
<1> HIDE DEF es
<1>6. \A x \in Fds : file[x] # Free => file'[x] = file[x]
  BY <1>1, <1>3, <1>4
<1>7. \A i \in 1..n : file'[new[i]].k = "sock" /\ file'[new[i]].c = made + i
  <2> TAKE i \in 1..n
  <2>1. file'[new[i]] = [k |-> "sock", c |-> made + i]
    BY <1>1
  <2> QED
    BY <2>1
<1>8. \A j \in DOMAIN poll_fds_ : poll_fds_[j].c <= made /\ poll_fds_[j].c \in Int
  <2> TAKE j \in DOMAIN poll_fds_
  <2>1. poll_fds_[j].fd \in Fds /\ poll_fds_[j] \in PollEntry
    BY TableTypes
  <2>2. file[poll_fds_[j].fd].c <= made
    BY <2>1 DEF Numbered
  <2>3. poll_fds_[j].c \in Int
    BY <2>1 DEF PollEntry
  <2> QED
    BY <2>2, <2>3 DEF Tables, EntriesLive
<1>9. \A i \in DOMAIN es :
           /\ file[es[i].fd] = Free
           /\ file'[es[i].fd].k \in {"listen", "sock", "in", "out"}
           /\ file'[es[i].fd].c = es[i].c
           /\ file'[es[i].fd].k = "sock" =>
                /\ \A j \in DOMAIN poll_fds_ : poll_fds_[j].c # es[i].c
                /\ \A j \in DOMAIN es : es[j].c = es[i].c => i = j
  <2> TAKE i \in DOMAIN es
  <2>1. \A j \in DOMAIN poll_fds_ : poll_fds_[j].c # es[i].c
    BY <1>2, <1>5, <1>8
  <2>2. \A j \in DOMAIN es : es[j].c = es[i].c => i = j
    BY <1>2, <1>5
  <2> QED
    BY <1>4, <1>5, <1>7, <2>1, <2>2
<1>10. \A i, j \in DOMAIN es : es[i].fd = es[j].fd => i = j
  BY <1>1, <1>5
<1>11. /\ EntriesLive'
       /\ \A i, j \in DOMAIN poll_fds_' :
              file'[poll_fds_'[i].fd].k = "sock" /\ poll_fds_'[i].c = poll_fds_'[j].c /\ i # j
              => i < j
       /\ \A i \in DOMAIN poll_fds_ : poll_fds_'[i] = poll_fds_[i]
       /\ Len(poll_fds_') = Len(poll_fds_) + Len(es)
  BY <1>5, <1>6, <1>9, <1>10, Grows
<1>12. \A x \in ToSet(new) : /\ x \in Fds /\ x \notin DOMAIN clients_ /\ file[x].k = "free"
                             /\ file'[x].k = "sock"
                             /\ clients_'[x].c = file'[x].c
                             /\ clients_'[x].in = NoFd /\ clients_'[x].out = NoFd
  <2> SUFFICES ASSUME NEW i \in 1..n
               PROVE  /\ new[i] \in Fds /\ new[i] \notin DOMAIN clients_ /\ file[new[i]].k = "free"
                      /\ file'[new[i]].k = "sock"
                      /\ clients_'[new[i]].c = file'[new[i]].c
                      /\ clients_'[new[i]].in = NoFd /\ clients_'[new[i]].out = NoFd
    BY <1>3
  <2>1. new[i] \in Fds /\ file[new[i]].k = "free"
    BY <1>4 DEF Free
  <2>2. new[i] \notin DOMAIN clients_
    BY <2>1 DEF Tables, MapsAgree
  <2>3. clients_'[new[i]] = NewClient(made + i)
    BY <1>1, <2>2 DEF Known
  <2> QED
    BY <1>7, <2>1, <2>2, <2>3 DEF NewClient
<1>13. \A x \in Fds : x \notin ToSet(new) => file'[x] = file[x]
  BY <1>1
<1>14. MapsAgree'
  <2>1. {f \in Fds : file'[f].k = "sock"} = DOMAIN clients_'
    BY <1>1, <1>12, <1>13 DEF Tables, MapsAgree
  <2>2. \A f \in DOMAIN clients_' : file'[f].c = clients_'[f].c
    <3> TAKE f \in DOMAIN clients_'
    <3>1. CASE f \in ToSet(new)
      BY <1>12, <3>1
    <3>2. CASE f \notin ToSet(new)
      BY <1>1, <1>13, <3>2, TableTypes DEF Tables, MapsAgree
    <3> QED
      BY <3>1, <3>2
  <2>3. /\ {x \in Fds : file'[x].k = "in"} = {x \in Fds : file[x].k = "in"}
        /\ {x \in Fds : file'[x].k = "out"} = {x \in Fds : file[x].k = "out"}
    BY <1>12, <1>13
  <2>4. \A f \in DOMAIN cgi_stdin_fd_to_client_fd_ :
          /\ cgi_stdin_fd_to_client_fd_[f] \in DOMAIN clients_'
          /\ clients_'[cgi_stdin_fd_to_client_fd_[f]].in = f
    BY <1>1 DEF Tables, MapsAgree, Known
  <2>5. /\ DOMAIN cgi_fd_to_client_fd_' = {f \in Fds : file'[f].k = "out"}
        /\ DOMAIN cgi_stdin_fd_to_client_fd_' = {f \in Fds : file'[f].k = "in"}
    BY <1>2, <2>3 DEF Tables, MapsAgree
  <2> QED
    BY <1>2, <2>1, <2>2, <2>4, <2>5 DEF MapsAgree, Known
<1>15. OwnPipes'
  <2>1. {f \in Fds : file'[f].k = "listen"} = ToSet(server_fds_')
    <3>1. {f \in Fds : file'[f].k = "listen"} = {f \in Fds : file[f].k = "listen"}
      BY <1>12, <1>13
    <3> QED
      BY <1>2, <3>1 DEF Tables, OwnPipes
  <2>2. ASSUME NEW g \in DOMAIN clients_'
        PROVE  /\ clients_'[g].in # NoFd =>
                    /\ file'[clients_'[g].in] = [k |-> "in", c |-> clients_'[g].c]
                    /\ cgi_stdin_fd_to_client_fd_'[clients_'[g].in] = g
               /\ clients_'[g].out # NoFd =>
                    /\ file'[clients_'[g].out] = [k |-> "out", c |-> clients_'[g].c]
                    /\ cgi_fd_to_client_fd_'[clients_'[g].out] = g
    <3>1. CASE g \in ToSet(new)
      BY <1>12, <3>1
    <3>2. CASE g \notin ToSet(new)
      <4>1. g \in DOMAIN clients_ /\ clients_'[g] = clients_[g]
        BY <1>1, <3>2
      <4>2. /\ clients_[g].in # NoFd =>
                 /\ file[clients_[g].in] = [k |-> "in", c |-> clients_[g].c]
                 /\ cgi_stdin_fd_to_client_fd_[clients_[g].in] = g
            /\ clients_[g].out # NoFd =>
                 /\ file[clients_[g].out] = [k |-> "out", c |-> clients_[g].c]
                 /\ cgi_fd_to_client_fd_[clients_[g].out] = g
        BY <4>1 DEF Tables, OwnPipes
      <4>3. /\ clients_[g].in # NoFd => clients_[g].in \in Fds
            /\ clients_[g].out # NoFd => clients_[g].out \in Fds
        BY <4>1, TableTypes
      <4>4. /\ clients_[g].in # NoFd => file[clients_[g].in] # Free
            /\ clients_[g].out # NoFd => file[clients_[g].out] # Free
        BY <4>2 DEF Free
      <4> QED
        BY <1>2, <1>6, <4>1, <4>2, <4>3, <4>4
    <3> QED
      BY <3>1, <3>2
  <2> QED
    BY <2>1, <2>2 DEF OwnPipes
<1>16. InOrder'
  <2>1. \A i \in DOMAIN server_fds_ : i \in DOMAIN poll_fds_
    BY TableTypes DEF Tables, InOrder
  <2>2. \A i \in DOMAIN server_fds_ : poll_fds_'[i].fd = server_fds_[i]
    BY <1>11, <2>1 DEF Tables, InOrder
  <2>3. Len(server_fds_) <= Len(poll_fds_')
    <3>1. Len(es) \in Nat
      BY <1>5
    <3> QED
      BY <1>11, <3>1, TableTypes DEF Tables, InOrder
  <2> QED
    BY <1>2, <1>11, <2>2, <2>3 DEF InOrder
<1> QED
  BY <1>11, <1>14, <1>15, <1>16 DEF Tables

LEMMA DispatchTables ==
  ASSUME Base, Tables, dispatch_cgi
  PROVE  Tables'
<1> USE DEF Base
<1>1. PICK in \in FreeFds, out \in FreeFds : \E keep, pend, eof \in BOOLEAN :
         Dispatches(in, out, keep, pend, eof)
  BY DispatchFacts
<1>2. PICK keep \in BOOLEAN, pend \in BOOLEAN, eof \in BOOLEAN :
         Dispatches(in, out, keep, pend, eof)
  BY <1>1
<1> DEFINE f == Cur.fd
           c == clients_[f].c
           cl == [Cl EXCEPT !.active = TRUE, !.hs = FALSE,
                    !.in = IF keep THEN in ELSE NoFd, !.out = out,
                    !.pend = pend, !.eof = eof]
           es == <<Entry(out, c)>> \o (IF keep THEN <<Entry(in, c)>> ELSE <<>>)
<1>3. f \in DOMAIN clients_ /\ clients_[f] \in Client /\ f \in Fds
      /\ idx \in DOMAIN poll_fds_ /\ c \in 1..MaxConns
  BY <1>2, CurFacts DEF Dispatches, Known, Types, Client, Reading, Visiting
<1>4. /\ DOMAIN clients_' = DOMAIN clients_ /\ clients_'[f] = cl
      /\ \A g \in DOMAIN clients_ : g # f => clients_'[g] = clients_[g]
  BY <1>2, <1>3 DEF Dispatches
<1>5. /\ cl.c = c /\ cl.out = out /\ cl.in = IF keep THEN in ELSE NoFd
  BY <1>3 DEF Cl, Client
<1>6. /\ in \in Fds /\ out \in Fds /\ in # out /\ file[in] = Free /\ file[out] = Free
      /\ NoFd \notin Fds
  BY <1>2, TableTypes DEF FreeFds, Dispatches
<1>7. \A x \in Fds : file'[x] = IF x = out THEN [k |-> "out", c |-> c]
                                ELSE IF x = in /\ keep
                                THEN [k |-> "in", c |-> c] ELSE file[x]
  BY <1>2 DEF Dispatches, Cl
<1>8. /\ poll_fds_' = PushBack(es) /\ UNCHANGED server_fds_
      /\ cgi_fd_to_client_fd_' = With(cgi_fd_to_client_fd_, out, f)
      /\ cgi_stdin_fd_to_client_fd_' =
           IF keep THEN With(cgi_stdin_fd_to_client_fd_, in, f)
           ELSE cgi_stdin_fd_to_client_fd_
  BY <1>2 DEF Dispatches, Cl
<1> HIDE DEF f, cl, c
<1>9. es \in Seq(PollEntry) /\ \A i \in DOMAIN es :
        es[i].c = c /\ ((i = 1 /\ es[i].fd = out) \/ (i = 2 /\ es[i].fd = in /\ keep))
  <2>1. /\ Entry(out, c) \in PollEntry /\ Entry(out, c).fd = out /\ Entry(out, c).c = c
        /\ Entry(in, c) \in PollEntry /\ Entry(in, c).fd = in /\ Entry(in, c).c = c
    BY <1>3, <1>6 DEF Entry, PollEntry
  <2>2. CASE keep
    <3> DEFINE a == Entry(out, c)
               b == Entry(in, c)
    <3>1. es = <<a>> \o <<b>>
      BY <2>2
    <3> HIDE DEF a, b, es
    <3>2. es \in Seq(PollEntry) /\ Len(es) = 2 /\ es[1] = a /\ es[2] = b
      BY <2>1, <3>1 DEF a, b
    <3>3. \A i \in DOMAIN es : i = 1 \/ i = 2
      BY <3>2
    <3> QED
      BY <2>1, <2>2, <3>2, <3>3 DEF a, b
  <2>3. CASE ~ keep
    <3>1. es = <<Entry(out, c)>>
      BY <2>1, <2>3
    <3> QED
      BY <2>1, <2>3, <3>1
  <2> QED
    BY <2>2, <2>3
<1> HIDE DEF es
<1>10. /\ file'[out].k = "out" /\ file'[out].c = c
       /\ keep => file'[in].k = "in" /\ file'[in].c = c
  BY <1>6, <1>7
<1>11. \A x \in Fds : file[x] # Free => file'[x] = file[x]
  BY <1>6, <1>7
<1>12. \A i \in DOMAIN es :
           /\ file[es[i].fd] = Free
           /\ file'[es[i].fd].k \in {"listen", "sock", "in", "out"}
           /\ file'[es[i].fd].c = es[i].c
           /\ file'[es[i].fd].k # "sock"
  BY <1>6, <1>9, <1>10
<1>13. \A i, j \in DOMAIN es : es[i].fd = es[j].fd => i = j
  BY <1>6, <1>9
<1>14. /\ EntriesLive'
       /\ \A i, j \in DOMAIN poll_fds_' :
              file'[poll_fds_'[i].fd].k = "sock" /\ poll_fds_'[i].c = poll_fds_'[j].c /\ i # j
              => i < j
       /\ \A i \in DOMAIN poll_fds_ : poll_fds_'[i] = poll_fds_[i]
       /\ Len(poll_fds_') = Len(poll_fds_) + Len(es)
  <2>1. \A i \in DOMAIN es : file'[es[i].fd].k = "sock" =>
                /\ \A j \in DOMAIN poll_fds_ : poll_fds_[j].c # es[i].c
                /\ \A j \in DOMAIN es : es[j].c = es[i].c => i = j
    BY <1>12
  <2> QED
    BY <1>8, <1>9, <1>11, <1>12, <1>13, <2>1, Grows
<1>15. file[in].k = "free" /\ file[out].k = "free"
  BY <1>6 DEF Free
<1>16. /\ in \notin DOMAIN cgi_stdin_fd_to_client_fd_ /\ out \notin DOMAIN cgi_fd_to_client_fd_
       /\ in \notin DOMAIN clients_ /\ out \notin DOMAIN clients_
  BY <1>15 DEF Tables, MapsAgree
<1>17. /\ DOMAIN cgi_fd_to_client_fd_' = DOMAIN cgi_fd_to_client_fd_ \cup {out}
       /\ cgi_fd_to_client_fd_'[out] = f
       /\ \A x \in DOMAIN cgi_fd_to_client_fd_ : cgi_fd_to_client_fd_'[x] = cgi_fd_to_client_fd_[x]
  BY <1>8, <1>16 DEF With
<1>18. /\ DOMAIN cgi_stdin_fd_to_client_fd_' =
            DOMAIN cgi_stdin_fd_to_client_fd_ \cup (IF keep THEN {in} ELSE {})
       /\ keep => cgi_stdin_fd_to_client_fd_'[in] = f
       /\ \A x \in DOMAIN cgi_stdin_fd_to_client_fd_ :
            cgi_stdin_fd_to_client_fd_'[x] = cgi_stdin_fd_to_client_fd_[x]
  <2>1. CASE keep
    BY <1>8, <1>16, <2>1 DEF With
  <2>2. CASE ~ keep
    BY <1>8, <2>2
  <2> QED
    BY <2>1, <2>2
<1>19. clients_[f].in = NoFd /\ clients_[f].out = NoFd
  <2>1. ~ clients_[f].active
    BY <1>2 DEF Dispatches, Cl, f
  <2> QED
    BY <1>3, <2>1 DEF ActiveHolds
<1>20. MapsAgree'
  <2>1. {x \in Fds : file'[x].k = "sock"} = {x \in Fds : file[x].k = "sock"}
    BY <1>7, <1>15
  <2>2. {x \in Fds : file'[x].k = "out"} = {x \in Fds : file[x].k = "out"} \cup {out}
    BY <1>6, <1>7, <1>15
  <2>3. {x \in Fds : file'[x].k = "in"} =
          {x \in Fds : file[x].k = "in"} \cup (IF keep THEN {in} ELSE {})
    BY <1>6, <1>7, <1>15
  <2>4. \A x \in DOMAIN clients_' : file'[x].c = clients_'[x].c
    <3> TAKE x \in DOMAIN clients_'
    <3>1. x \in DOMAIN clients_ /\ x \in Fds /\ file'[x] = file[x]
      BY <1>4, <1>7, <1>16, TableTypes
    <3>2. clients_'[x].c = clients_[x].c
      BY <1>4, <1>5, <3>1 DEF c
    <3> QED
      BY <3>1, <3>2 DEF Tables, MapsAgree
  <2>5. ASSUME NEW x \in DOMAIN cgi_stdin_fd_to_client_fd_'
        PROVE  /\ cgi_stdin_fd_to_client_fd_'[x] \in DOMAIN clients_'
               /\ clients_'[cgi_stdin_fd_to_client_fd_'[x]].in = x
    <3>1. CASE x \in DOMAIN cgi_stdin_fd_to_client_fd_
      <4> DEFINE g == cgi_stdin_fd_to_client_fd_[x]
      <4>1. g \in DOMAIN clients_ /\ clients_[g].in = x /\ x # NoFd
        BY <3>1, TableTypes DEF Tables, MapsAgree, Known
      <4>2. g # f
        BY <1>19, <4>1
      <4> QED
        BY <1>4, <1>18, <3>1, <4>1, <4>2
    <3>2. CASE x \notin DOMAIN cgi_stdin_fd_to_client_fd_
      <4>1. x = in /\ keep
        BY <1>18, <3>2
      <4> QED
        BY <1>3, <1>4, <1>5, <1>18, <4>1
    <3> QED
      BY <3>1, <3>2
  <2>6. {x \in Fds : file'[x].k = "sock"} = DOMAIN clients_'
    BY <1>4, <2>1 DEF Tables, MapsAgree
  <2>7. DOMAIN cgi_fd_to_client_fd_' = {x \in Fds : file'[x].k = "out"}
    BY <1>17, <2>2 DEF Tables, MapsAgree
  <2>8. DOMAIN cgi_stdin_fd_to_client_fd_' = {x \in Fds : file'[x].k = "in"}
    BY <1>18, <2>3 DEF Tables, MapsAgree
  <2> QED
    BY <2>4, <2>5, <2>6, <2>7, <2>8 DEF MapsAgree, Known
<1>21. OwnPipes'
  <2>1. {x \in Fds : file'[x].k = "listen"} = ToSet(server_fds_')
    <3>1. {x \in Fds : file'[x].k = "listen"} = {x \in Fds : file[x].k = "listen"}
      BY <1>7, <1>15
    <3> QED
      BY <1>8, <3>1 DEF Tables, OwnPipes
  <2>2. ASSUME NEW g \in DOMAIN clients_'
        PROVE  /\ clients_'[g].in # NoFd =>
                    /\ file'[clients_'[g].in] = [k |-> "in", c |-> clients_'[g].c]
                    /\ cgi_stdin_fd_to_client_fd_'[clients_'[g].in] = g
               /\ clients_'[g].out # NoFd =>
                    /\ file'[clients_'[g].out] = [k |-> "out", c |-> clients_'[g].c]
                    /\ cgi_fd_to_client_fd_'[clients_'[g].out] = g
    <3>1. CASE g = f
      <4>1. /\ clients_'[g].in = (IF keep THEN in ELSE NoFd) /\ clients_'[g].out = out
            /\ clients_'[g].c = c
        BY <1>4, <1>5, <3>1
      <4>2. /\ keep => file'[in] = [k |-> "in", c |-> c]
            /\ file'[out] = [k |-> "out", c |-> c]
        BY <1>6, <1>7
      <4> QED
        BY <1>17, <1>18, <3>1, <4>1, <4>2
    <3>2. CASE g # f
      <4>1. g \in DOMAIN clients_ /\ clients_'[g] = clients_[g]
        BY <1>4, <3>2
      <4>2. /\ clients_[g].in # NoFd =>
                 /\ file[clients_[g].in] = [k |-> "in", c |-> clients_[g].c]
                 /\ cgi_stdin_fd_to_client_fd_[clients_[g].in] = g
            /\ clients_[g].out # NoFd =>
                 /\ file[clients_[g].out] = [k |-> "out", c |-> clients_[g].c]
                 /\ cgi_fd_to_client_fd_[clients_[g].out] = g
        BY <4>1 DEF Tables, OwnPipes
      <4>3. /\ clients_[g].in # NoFd => clients_[g].in \in Fds
            /\ clients_[g].out # NoFd => clients_[g].out \in Fds
        BY <4>1, TableTypes
      <4>4. /\ clients_[g].in # NoFd => file[clients_[g].in] # Free
            /\ clients_[g].out # NoFd => file[clients_[g].out] # Free
        BY <4>2 DEF Free
      <4>5. /\ clients_[g].in # NoFd =>
                 clients_[g].in \in DOMAIN cgi_stdin_fd_to_client_fd_
            /\ clients_[g].out # NoFd =>
                 clients_[g].out \in DOMAIN cgi_fd_to_client_fd_
        BY <4>2, <4>3 DEF Tables, MapsAgree
      <4> QED
        BY <1>11, <1>17, <1>18, <4>1, <4>2, <4>3, <4>4, <4>5
    <3> QED
      BY <3>1, <3>2
  <2> QED
    BY <2>1, <2>2 DEF OwnPipes
<1>22. InOrder'
  <2>1. \A i \in DOMAIN server_fds_ : i \in DOMAIN poll_fds_
    BY TableTypes DEF Tables, InOrder
  <2>2. \A i \in DOMAIN server_fds_ : poll_fds_'[i].fd = server_fds_[i]
    BY <1>14, <2>1 DEF Tables, InOrder
  <2>3. Len(server_fds_) <= Len(poll_fds_')
    <3>1. Len(es) \in Nat
      BY <1>9
    <3> QED
      BY <1>14, <3>1, TableTypes DEF Tables, InOrder
  <2> QED
    BY <1>8, <1>14, <2>2, <2>3 DEF InOrder
<1> QED
  BY <1>14, <1>20, <1>21, <1>22 DEF Tables

-----------------------------------------------------------------------------
(* No step leads back from the exit, or takes a cut back.                  *)
LEMMA UncutBefore ==
  ASSUME Types, [Next]_vars, Uncut'
  PROVE  Uncut
<1> USE DEF Uncut
<1>1. cuts \in Nat
  BY DEF Types
<1>2. CASE UNCHANGED vars
  BY <1>2 DEF vars
<1>3. CASE Listen \/ ListenFails \/ Stop
  BY <1>3 DEF Listen, ListenFails, Stop
<1>4. CASE Poll \/ EndScan \/ NoInput \/ Clear \/ EndRound \/ SkipStdin \/ ReadNoClient
  BY <1>4 DEF Poll, EndScan, NoInput, Clear, EndRound, SkipStdin,
     ReadNoClient, Reading, Visiting
<1>5. CASE TimeOut \/ SocketError \/ RequestEof \/ AnswerEnds
  BY <1>5 DEF TimeOut, SocketError, RequestEof, AnswerEnds, remove_client,
     Reading, Visiting, Writing
<1>6. CASE accept_client \/ dispatch_cgi \/ CgiOutput \/ StdinError \/ StdinOrphan \/ StdinFlush
  BY <1>6 DEF accept_client, dispatch_cgi, CgiOutput, StdinError, StdinOrphan, StdinFlush,
     Reading, Visiting, Writing, CgiReady
<1>7. CASE BodyBuffered \/ BodyEnds \/ Answered \/ PipeFails
  BY <1>7 DEF BodyBuffered, BodyEnds, Answered, PipeFails, Reading, Visiting
<1>8. CASE BodyCut
  BY <1>1, <1>8 DEF BodyCut, Cut, Reading, Visiting
<1>9. CASE CgiEnd
  BY <1>1, <1>9 DEF CgiEnd, Cut, CgiReady, Visiting
<1> QED
  BY <1>2, <1>3, <1>4, <1>5, <1>6, <1>7, <1>8, <1>9 DEF Next

(* Changing only booleans of one Client moves no descriptor.               *)
LEMMA FlagTables ==
  ASSUME Types, Tables, NEW f \in DOMAIN clients_, NEW cl \in Client, Change(f, cl),
         cl.c = clients_[f].c, cl.in = clients_[f].in, cl.out = clients_[f].out,
         UNCHANGED <<server_fds_, poll_fds_, cgi_fd_to_client_fd_, cgi_stdin_fd_to_client_fd_>>,
         \A x \in Fds : file'[x] = file[x] \/ (file[x] = Free /\ file'[x].k = "lost")
  PROVE  Tables'
<1>1. /\ DOMAIN clients_' = DOMAIN clients_ /\ clients_'[f] = cl
      /\ \A g \in DOMAIN clients_ : g # f => clients_'[g] = clients_[g]
  BY ChangeTypes
<1> QED
  BY <1>1, SameTables

LEMMA TablesStep ==
  ASSUME Base, Tables, [Next]_vars, Uncut, Uncut'
  PROVE  Tables'
<1>a. Types /\ cuts = 0 /\ cuts' = 0
  BY DEF Base, Uncut
<1>b. \A f \in DOMAIN clients_ : clients_[f] \in Client
  BY <1>a DEF Types
<1>c. ASSUME Visiting("ERR") \/ Visiting("IN") \/ Writing
      PROVE  /\ idx \in DOMAIN poll_fds_ /\ Cur = poll_fds_[idx] /\ Cur.fd \in Fds
             /\ \A j \in DOMAIN poll_fds_ : j \in {idx} <=> poll_fds_[j].fd = Cur.fd
  <2>1. idx \in DOMAIN poll_fds_ /\ Cur = poll_fds_[idx] /\ Cur.fd \in Fds
    BY <1>a, <1>c, CurFacts DEF Visiting, Writing
  <2> QED
    BY <2>1 DEF Tables, EntriesLive
<1>d. ASSUME Reading, Known(Cur.fd)
      PROVE  /\ Cur.fd \in DOMAIN clients_ /\ Cl \in Client /\ Cl = clients_[Cur.fd]
             /\ Visiting("IN")
  BY <1>b, <1>d DEF Known, Cl, Reading
<1>e. ASSUME NEW i \in DOMAIN poll_fds_, ~ isListeningSocket(poll_fds_[i].fd),
             ~ isCgiFd(poll_fds_[i].fd), ~ isCgiStdinFd(poll_fds_[i].fd)
      PROVE  Known(poll_fds_[i].fd)
  <2> DEFINE f == poll_fds_[i].fd
  <2>1. f \in Fds /\ file[f].k \in {"listen", "sock", "in", "out"}
    BY <1>a, TableTypes DEF Tables, EntriesLive
  <2>2. file[f].k # "listen"
    BY <1>e, <2>1 DEF Tables, OwnPipes, isListeningSocket
  <2>3. file[f].k # "in" /\ file[f].k # "out"
    BY <1>e, <2>1 DEF Tables, MapsAgree, isCgiFd, isCgiStdinFd
  <2> QED
    BY <2>1, <2>2, <2>3 DEF Tables, MapsAgree, Known
<1>1. CASE Listen
  BY <1>1, ListenTables
<1>2. CASE ListenFails \/ Stop
  BY <1>2 DEF ListenFails, Stop, Uncut
<1>3. CASE EndScan \/ NoInput \/ SkipStdin \/ ReadNoClient
  BY <1>3, <1>a, SameTables DEF EndScan, NoInput, SkipStdin, ReadNoClient, maps
<1>4. CASE Poll \/ Clear \/ EndRound
  <2>1. /\ DOMAIN poll_fds_' = DOMAIN poll_fds_
        /\ \A i \in DOMAIN poll_fds_ :
             \/ \E w : poll_fds_'[i] = [poll_fds_[i] EXCEPT !.was = w]
             \/ poll_fds_'[i] = poll_fds_[i]
        /\ UNCHANGED <<file, server_fds_, clients_, cgi_fd_to_client_fd_,
                       cgi_stdin_fd_to_client_fd_>>
    BY <1>4 DEF Poll, Clear, EndRound, maps
  <2>2. \A e \in PollEntry : \A w : /\ [e EXCEPT !.was = w].fd = e.fd
                                    /\ [e EXCEPT !.was = w].c = e.c
    BY DEF PollEntry
  <2>3. \A i \in DOMAIN poll_fds_ : poll_fds_'[i].fd = poll_fds_[i].fd
                                    /\ poll_fds_'[i].c = poll_fds_[i].c
    <3> TAKE i \in DOMAIN poll_fds_
    <3>1. poll_fds_[i] \in PollEntry
      BY <1>a, TableTypes
    <3>2. CASE poll_fds_'[i] = poll_fds_[i]
      BY <3>2
    <3>3. CASE \E w : poll_fds_'[i] = [poll_fds_[i] EXCEPT !.was = w]
      <4>1. PICK w : poll_fds_'[i] = [poll_fds_[i] EXCEPT !.was = w]
        BY <3>3
      <4> QED
        BY <4>1, <2>2, <3>1
    <3> QED
      BY <2>1, <3>2, <3>3
  <2>4. Len(poll_fds_') = Len(poll_fds_)
    <3>1. poll_fds_ \in Seq(PollEntry) /\ poll_fds_' \in Seq(PollEntry)
      BY <1>a, TypesStep DEF Types
    <3>2. /\ DOMAIN poll_fds_ = 1..Len(poll_fds_) /\ Len(poll_fds_) \in Nat
          /\ DOMAIN poll_fds_' = 1..Len(poll_fds_') /\ Len(poll_fds_') \in Nat
      BY <3>1
    <3> QED
      BY <2>1, <3>2
  <2> QED
    BY <1>a, <2>1, <2>3, <2>4, SameTables
<1>5. CASE TimeOut
  <2>1. PICK i \in DOMAIN poll_fds_ : Known(poll_fds_[i].fd) /\ remove_client(i)
    BY <1>5 DEF TimeOut
  <2> QED
    BY <1>a, <2>1, RemoveTables
<1>6. CASE SocketError
  <2>1. idx \in DOMAIN poll_fds_ /\ Known(poll_fds_[idx].fd) /\ remove_client(idx)
    BY <1>6, <1>c, <1>e DEF SocketError
  <2> QED
    BY <1>a, <2>1, RemoveTables
<1>7. CASE RequestEof
  <2>1. idx \in DOMAIN poll_fds_ /\ Known(poll_fds_[idx].fd) /\ remove_client(idx)
    BY <1>7, <1>c DEF RequestEof, Reading
  <2> QED
    BY <1>a, <2>1, RemoveTables
<1>8. CASE AnswerEnds
  <2>1. idx \in DOMAIN poll_fds_ /\ Known(poll_fds_[idx].fd) /\ remove_client(idx)
    BY <1>8, <1>c DEF AnswerEnds
  <2> QED
    BY <1>a, <2>1, RemoveTables
<1>9. CASE accept_client
  BY <1>9, AcceptTables
<1>10. CASE dispatch_cgi
  BY <1>10, DispatchTables
<1>11. CASE CgiEnd
  <2>1. clients_[CgiClient].in = NoFd
    BY <1>a, <1>11 DEF CgiEnd, Cut
  <2> QED
    BY <1>11, <2>1, CgiEndTables
<1>12. CASE CgiOutput
  <2>1. PICK hs \in BOOLEAN : Change(CgiClient, [clients_[CgiClient] EXCEPT !.hs = @ \/ hs])
    BY <1>12 DEF CgiOutput
  <2> DEFINE cl == [clients_[CgiClient] EXCEPT !.hs = @ \/ hs]
  <2>2. CgiClient \in DOMAIN clients_ /\ clients_[CgiClient] \in Client
    BY <1>12, <1>b DEF CgiOutput, CgiReady, isCgiFd, CgiClient, Base, OutputHasClient, Known
  <2>3. /\ cl \in Client /\ cl.in = clients_[CgiClient].in /\ cl.c = clients_[CgiClient].c
        /\ cl.out = clients_[CgiClient].out
    BY <2>2 DEF Client
  <2>4. UNCHANGED <<file, server_fds_, poll_fds_, cgi_fd_to_client_fd_,
                    cgi_stdin_fd_to_client_fd_>>
    BY <1>12 DEF CgiOutput, maps
  <2> HIDE DEF cl
  <2> QED
    BY <1>a, <2>1, <2>2, <2>3, <2>4, FlagTables DEF cl
<1>13. CASE StdinError
  <2> DEFINE e == Cur.fd
             g == cgi_stdin_fd_to_client_fd_[e]
             cl == [clients_[g] EXCEPT !.in = NoFd]
  <2>1. e \in DOMAIN cgi_stdin_fd_to_client_fd_ /\ Visiting("ERR")
    BY <1>13 DEF StdinError, isCgiStdinFd
  <2>2. g \in DOMAIN clients_ /\ clients_[g].in = e /\ e # NoFd /\ clients_[g] \in Client
    BY <1>a, <1>b, <2>1, TableTypes DEF Tables, MapsAgree, Known
  <2>3. /\ file' = Closing({e} \cup StdinOf(clients_[g])) /\ Change(g, cl)
        /\ cgi_stdin_fd_to_client_fd_' = Without(cgi_stdin_fd_to_client_fd_, e)
        /\ poll_fds_' = Erase({idx})
        /\ UNCHANGED <<server_fds_, cgi_fd_to_client_fd_>>
    BY <1>13, <2>2 DEF StdinError, Known
  <2>4. {e} \cup StdinOf(clients_[g]) = {e}
    BY <2>2 DEF StdinOf
  <2>5. cl \in Client /\ cl.in = NoFd /\ cl.c = clients_[g].c /\ cl.out = clients_[g].out
    BY <2>2 DEF Client
  <2> HIDE DEF cl
  <2>6. /\ DOMAIN clients_' = DOMAIN clients_ /\ clients_'[g] = cl
        /\ \A h \in DOMAIN clients_ : h # g => clients_'[h] = clients_[h]
    BY <1>a, <2>2, <2>3, <2>5, ChangeTypes
  <2>7. /\ {idx} \subseteq DOMAIN poll_fds_
        /\ \A j \in DOMAIN poll_fds_ : j \in {idx} <=> poll_fds_[j].fd = e
    BY <1>c, <2>1
  <2>8. \A h \in DOMAIN clients_ :
           /\ clients_'[h].c = clients_[h].c /\ clients_'[h].out = clients_[h].out
           /\ clients_'[h].in = IF h = cgi_stdin_fd_to_client_fd_[e]
                                THEN NoFd ELSE clients_[h].in
    BY <2>5, <2>6
  <2>9. file' = Closing({e}) /\ UNCHANGED <<server_fds_, cgi_fd_to_client_fd_>>
        /\ poll_fds_' = Erase({idx})
        /\ cgi_stdin_fd_to_client_fd_' = Without(cgi_stdin_fd_to_client_fd_, e)
        /\ DOMAIN clients_' = DOMAIN clients_
    BY <2>3, <2>4, <2>6
  <2> HIDE DEF e, g
  <2> QED
    BY <1>a, <2>1, <2>7, <2>8, <2>9, StdinTables DEF g
<1>14. CASE BodyCut
  <2> DEFINE closes == IF Cl.pend THEN {} ELSE StdinOf(Cl)
             cl == [Cl EXCEPT !.eof = TRUE, !.in = IF closes = {} THEN @ ELSE NoFd]
  <2>1. /\ Change(Cur.fd, cl) /\ file' = Closing(closes) /\ Cut(Cl)
        /\ Reading /\ Known(Cur.fd)
        /\ UNCHANGED <<server_fds_, poll_fds_, cgi_fd_to_client_fd_, cgi_stdin_fd_to_client_fd_>>
    BY <1>14, Zenon DEF BodyCut, maps
  <2>2. Cl \in Client /\ Cur.fd \in DOMAIN clients_ /\ Cl = clients_[Cur.fd]
    BY <1>d, <2>1
  <2>3. Cl.in = NoFd
    BY <1>a, <2>1 DEF Cut
  <2>4. closes = {}
    BY <2>3 DEF StdinOf
  <2>5. cl \in Client /\ cl.in = Cl.in /\ cl.c = Cl.c /\ cl.out = Cl.out
    BY <2>2, <2>4 DEF Client
  <2> HIDE DEF cl
  <2>6. \A x \in Fds : file'[x] = file[x]
    BY <1>a, <2>1, <2>4, ClosingFacts
  <2> HIDE DEF closes
  <2> QED
    BY <1>a, <2>1, <2>2, <2>5, <2>6, FlagTables
<1>15. CASE BodyBuffered
  <2> DEFINE cl == [Cl EXCEPT !.pend = TRUE]
  <2>1. /\ Change(Cur.fd, cl) /\ Reading /\ Known(Cur.fd) /\ Cl.in # NoFd
        /\ UNCHANGED <<file, server_fds_, cgi_fd_to_client_fd_>>
    BY <1>15 DEF BodyBuffered
  <2>2. Cl \in Client /\ Cur.fd \in DOMAIN clients_ /\ Cl = clients_[Cur.fd]
    BY <1>d, <2>1
  <2>3. cl \in Client /\ cl.in = Cl.in /\ cl.c = Cl.c /\ cl.out = Cl.out
    BY <2>2 DEF Client
  <2>4. isCgiStdinFd(Cl.in)
    <3>1. file[Cl.in] = [k |-> "in", c |-> Cl.c]
      BY <2>1, <2>2 DEF Tables, OwnPipes
    <3>2. Cl.in \in Fds
      BY <1>a, <2>1, <2>2, TableTypes
    <3> QED
      BY <3>1, <3>2 DEF Tables, MapsAgree, isCgiStdinFd
  <2>5. UNCHANGED <<poll_fds_, cgi_stdin_fd_to_client_fd_>>
    BY <1>15, <2>4 DEF BodyBuffered
  <2> HIDE DEF cl
  <2> QED
    BY <1>a, <2>1, <2>2, <2>3, <2>5, FlagTables
<1>16. CASE BodyEnds
  <2>1. /\ Reading /\ Known(Cur.fd) /\ Cl.in # NoFd
        /\ UNCHANGED <<server_fds_, cgi_fd_to_client_fd_>>
    BY <1>16 DEF BodyEnds
  <2>2. Cl \in Client /\ Cur.fd \in DOMAIN clients_ /\ Cl = clients_[Cur.fd]
    BY <1>d, <2>1
  <2>3. CASE Cl.pend
    <3> DEFINE cl == [Cl EXCEPT !.eof = TRUE]
    <3>1. Change(Cur.fd, cl) /\ UNCHANGED <<file, poll_fds_, cgi_stdin_fd_to_client_fd_>>
      BY <1>16, <2>3 DEF BodyEnds
    <3>2. cl \in Client /\ cl.in = Cl.in /\ cl.c = Cl.c /\ cl.out = Cl.out
      BY <2>2 DEF Client
    <3> HIDE DEF cl
    <3> QED
      BY <1>a, <2>1, <2>2, <3>1, <3>2, FlagTables
  <2>4. CASE ~ Cl.pend
    <3> DEFINE cl == [Cl EXCEPT !.in = NoFd]
               e == Cl.in
               P == First({e})
    <3>1. /\ Change(Cur.fd, cl) /\ file' = Closing({e}) /\ poll_fds_' = Erase(P)
          /\ cgi_stdin_fd_to_client_fd_' = Without(cgi_stdin_fd_to_client_fd_, e)
      BY <1>16, <2>4 DEF BodyEnds, DropStdinOf
    <3>2. cl \in Client /\ cl.in = NoFd /\ cl.c = Cl.c /\ cl.out = Cl.out
      BY <2>2 DEF Client
    <3>3. file[e] = [k |-> "in", c |-> Cl.c] /\ cgi_stdin_fd_to_client_fd_[e] = Cur.fd
      BY <2>1, <2>2 DEF Tables, OwnPipes
    <3>4. e \in Fds
      BY <1>a, <2>1, <2>2, TableTypes
    <3>5. e \in DOMAIN cgi_stdin_fd_to_client_fd_
      BY <3>3, <3>4 DEF Tables, MapsAgree
    <3> HIDE DEF e, cl
    <3>6. P \subseteq DOMAIN poll_fds_ /\ \A j \in DOMAIN poll_fds_ : j \in P <=> poll_fds_[j].fd = e
      <4>1. \A j \in DOMAIN poll_fds_ : \A k \in 1..(j - 1) : poll_fds_[k].fd # poll_fds_[j].fd
        <5> SUFFICES ASSUME NEW j \in DOMAIN poll_fds_, NEW k \in 1..(j - 1),
                            poll_fds_[k].fd = poll_fds_[j].fd
                     PROVE  FALSE
          OBVIOUS
        <5>1. k \in DOMAIN poll_fds_ /\ k # j
          BY <1>a, TableTypes
        <5> QED
          BY <5>1 DEF Tables, EntriesLive
      <4> QED
        BY <4>1 DEF First
    <3>7. /\ DOMAIN clients_' = DOMAIN clients_ /\ clients_'[Cur.fd] = cl
          /\ \A h \in DOMAIN clients_ : h # Cur.fd => clients_'[h] = clients_[h]
      BY <1>a, <2>2, <3>1, <3>2, ChangeTypes
    <3>8. \A h \in DOMAIN clients_ :
           /\ clients_'[h].c = clients_[h].c /\ clients_'[h].out = clients_[h].out
           /\ clients_'[h].in = IF h = cgi_stdin_fd_to_client_fd_[e]
                                THEN NoFd ELSE clients_[h].in
      BY <2>2, <3>2, <3>3, <3>7
    <3> HIDE DEF P
    <3> QED
      BY <1>a, <2>1, <3>1, <3>5, <3>6, <3>7, <3>8, StdinTables
  <2> QED
    BY <2>3, <2>4
<1>17. CASE Answered \/ PipeFails
  <2> DEFINE cl == [Cl EXCEPT !.ans = TRUE]
  <2>1. /\ Change(Cur.fd, cl) /\ Reading /\ Known(Cur.fd)
        /\ UNCHANGED <<server_fds_, poll_fds_, cgi_fd_to_client_fd_, cgi_stdin_fd_to_client_fd_>>
    BY <1>17 DEF Answered, PipeFails, maps
  <2>2. Cl \in Client /\ Cur.fd \in DOMAIN clients_ /\ Cl = clients_[Cur.fd]
    BY <1>d, <2>1
  <2>3. cl \in Client /\ cl.in = Cl.in /\ cl.c = Cl.c /\ cl.out = Cl.out
    BY <2>2 DEF Client
  <2> HIDE DEF cl
  <2>4. \A x \in Fds : file'[x] = file[x] \/ (file[x] = Free /\ file'[x].k = "lost")
    <3>1. CASE UNCHANGED file
      BY <3>1
    <3>2. CASE PipeFails
      <4>1. 2 <= Cardinality(FreeFds)
        BY <3>2 DEF PipeFails
      <4>2. Lowest(2) \subseteq FreeFds
        BY <4>1, LowestFacts
      <4> QED
        BY <3>2, <4>2 DEF PipeFails, FreeFds
    <3> QED
      BY <1>17, <3>1, <3>2 DEF Answered
  <2> QED
    BY <1>a, <2>1, <2>2, <2>3, <2>4, FlagTables
<1>18. CASE StdinOrphan
  BY <1>18 DEF StdinOrphan, isCgiStdinFd, StdinClient, Tables, MapsAgree
<1>19. CASE StdinFlush
  <2> DEFINE e == Cur.fd
             g == StdinClient
  <2>1. PICK pend \in {FALSE, clients_[g].pend} :
       LET cl == [clients_[g] EXCEPT !.pend = pend]
       IN  \/ /\ file' = Closing(StdinOf(cl))
              /\ Change(g, [cl EXCEPT !.in = NoFd])
              /\ cgi_stdin_fd_to_client_fd_' = Without(cgi_stdin_fd_to_client_fd_, e)
              /\ poll_fds_' = Erase({idx})
           \/ Change(g, cl) /\ UNCHANGED <<file, poll_fds_, cgi_stdin_fd_to_client_fd_>>
    BY <1>19, Zenon DEF StdinFlush
  <2>2. /\ UNCHANGED <<server_fds_, cgi_fd_to_client_fd_>> /\ Writing
        /\ e \in DOMAIN cgi_stdin_fd_to_client_fd_ /\ g = cgi_stdin_fd_to_client_fd_[e]
    BY <1>19 DEF StdinFlush, isCgiStdinFd, StdinClient
  <2>3. g \in DOMAIN clients_ /\ clients_[g].in = e /\ e # NoFd /\ clients_[g] \in Client
        /\ clients_[g].pend \in BOOLEAN
    <3>1. g \in DOMAIN clients_ /\ clients_[g].in = e
      BY <1>a, <2>2 DEF Tables, MapsAgree, Known
    <3>2. e # NoFd /\ clients_[g] \in Client
      <4> HIDE DEF e, g
      <4>1. clients_[g] \in Client
        BY <1>a, <3>1, TableTypes, Zenon
      <4>2. e \in Fds /\ NoFd \notin Fds
        BY <1>a, <2>2, TableTypes, Zenon
      <4> QED
        BY <4>1, <4>2
    <3>3. clients_[g].pend \in BOOLEAN
      BY <3>2 DEF Client
    <3> QED
      BY <3>1, <3>2, <3>3
  <2> DEFINE cl == [clients_[g] EXCEPT !.pend = pend]
             cln == [cl EXCEPT !.in = NoFd]
  <2>4. /\ cl \in Client /\ cl.in = clients_[g].in /\ cl.c = clients_[g].c
        /\ cl.out = clients_[g].out
    BY <2>3 DEF Client
  <2>5. /\ cln \in Client /\ cln.in = NoFd /\ cln.c = clients_[g].c
        /\ cln.out = clients_[g].out
    BY <2>3 DEF Client
  <2>6. \/ /\ file' = Closing(StdinOf(cl)) /\ Change(g, cln)
           /\ cgi_stdin_fd_to_client_fd_' = Without(cgi_stdin_fd_to_client_fd_, e)
           /\ poll_fds_' = Erase({idx})
        \/ Change(g, cl) /\ UNCHANGED <<file, poll_fds_, cgi_stdin_fd_to_client_fd_>>
    BY <2>1
  <2> HIDE DEF cl, cln, g, e
  <2>7. CASE /\ file' = Closing(StdinOf(cl)) /\ Change(g, cln)
             /\ cgi_stdin_fd_to_client_fd_' = Without(cgi_stdin_fd_to_client_fd_, e)
             /\ poll_fds_' = Erase({idx})
    <3>1. StdinOf(cl) = {e}
      BY <2>3, <2>4 DEF StdinOf
    <3>2. /\ {idx} \subseteq DOMAIN poll_fds_
          /\ \A j \in DOMAIN poll_fds_ : j \in {idx} <=> poll_fds_[j].fd = e
      BY <1>c, <2>2 DEF e
    <3>3. /\ DOMAIN clients_' = DOMAIN clients_ /\ clients_'[g] = cln
          /\ \A h \in DOMAIN clients_ : h # g => clients_'[h] = clients_[h]
      BY <1>a, <2>3, <2>5, <2>7, ChangeTypes
    <3>4. \A h \in DOMAIN clients_ :
           /\ clients_'[h].c = clients_[h].c /\ clients_'[h].out = clients_[h].out
           /\ clients_'[h].in = IF h = cgi_stdin_fd_to_client_fd_[e]
                                THEN NoFd ELSE clients_[h].in
      BY <2>2, <2>5, <3>3
    <3>5. file' = Closing({e})
      BY <2>7, <3>1
    <3> QED
      BY <1>a, <2>2, <2>7, <3>2, <3>3, <3>4, <3>5, StdinTables
  <2>8. CASE Change(g, cl) /\ UNCHANGED <<file, poll_fds_, cgi_stdin_fd_to_client_fd_>>
    BY <1>a, <2>2, <2>3, <2>4, <2>8, FlagTables
  <2> QED
    BY <2>6, <2>7, <2>8
<1>20. CASE UNCHANGED vars
  BY <1>20, <1>a, SameTables DEF vars, maps
<1> QED
  BY <1>1, <1>2, <1>3, <1>4, <1>5, <1>6, <1>7, <1>8, <1>9, <1>10, <1>11, <1>12,
     <1>13, <1>14, <1>15, <1>16, <1>17, <1>18, <1>19, <1>20 DEF Next

(* What a step of the scan closes, in a state where the tables agree.      *)
LEMMA ClosesStep ==
  ASSUME Base, Tables, [Next]_vars, phase \in {"visit", "output"}, idx <= Len(poll_fds_)
  PROVE  Closes(Cur.c)
<1>a. /\ Types /\ idx \in DOMAIN poll_fds_ /\ Cur = poll_fds_[idx] /\ Cur.fd \in Fds
      /\ file[Cur.fd].c = Cur.c
  <2>1. Types
    BY DEF Base
  <2>2. idx \in DOMAIN poll_fds_ /\ Cur = poll_fds_[idx] /\ Cur.fd \in Fds
    BY <2>1, CurFacts
  <2> QED
    BY <2>1, <2>2 DEF Tables, EntriesLive
<1>b. ASSUME UNCHANGED file PROVE Closes(Cur.c)
  BY <1>b DEF Closes
<1>c. ASSUME NEW X, file' = Closing(X), \A x \in X : x \in Fds => file[x].c = Cur.c
      PROVE  Closes(Cur.c)
  BY <1>a, <1>c, ClosingFacts DEF Closes
<1>d. ASSUME Known(Cur.fd)
      PROVE  \A x \in StdinOf(clients_[Cur.fd]) : x \in Fds => file[x].c = Cur.c
  <2>1. file[Cur.fd].c = clients_[Cur.fd].c
    BY <1>d DEF Known, Tables, MapsAgree
  <2>2. clients_[Cur.fd].in # NoFd =>
          file[clients_[Cur.fd].in] = [k |-> "in", c |-> clients_[Cur.fd].c]
    BY <1>d DEF Known, Tables, OwnPipes
  <2> QED
    BY <1>a, <2>1, <2>2 DEF StdinOf
<1>e. ASSUME NEW f \in Fds, NEW g, g \in DOMAIN clients_, clients_[g].in = f
      PROVE  \A x \in StdinOf(clients_[g]) : x = f
  BY <1>e DEF StdinOf
<1>1. CASE Listen \/ ListenFails \/ Stop \/ TimeOut
  BY <1>1 DEF Listen, ListenFails, Stop, TimeOut
<1>2. CASE Poll \/ EndScan \/ NoInput \/ Clear \/ EndRound \/ SkipStdin \/ ReadNoClient
           \/ CgiOutput \/ BodyBuffered \/ Answered \/ UNCHANGED vars
  BY <1>2, <1>b DEF Poll, EndScan, NoInput, Clear, EndRound, SkipStdin, ReadNoClient,
     CgiOutput, BodyBuffered, Answered, vars
<1>3. CASE SocketError \/ RequestEof \/ AnswerEnds
  <2>1. remove_client(idx)
    BY <1>3 DEF SocketError, RequestEof, AnswerEnds
  <2>2. CASE Known(Cur.fd)
    BY <1>a, <2>1, <2>2, RemoveTables DEF Closes
  <2>3. CASE ~ Known(Cur.fd)
    <3>1. file' = Closing({Cur.fd})
      BY <1>a, <2>1, <2>3 DEF remove_client
    <3> QED
      BY <1>a, <1>c, <3>1
  <2> QED
    BY <2>2, <2>3
<1>4. CASE accept_client
  <2>1. PICK n \in Nat, new \in Seq(FreeFds) :
           /\ \A i \in 1..n : file'[new[i]] = [k |-> "sock", c |-> made + i]
           /\ \A f \in Fds : f \notin ToSet(new) => file'[f] = file[f]
           /\ new \in [1..n -> FreeFds]
    BY <1>4, <1>a, AcceptFacts, Zenon
  <2>2. \A f \in Fds : file'[f] = file[f] \/ file[f] = Free
    BY <2>1 DEF ToSet, FreeFds
  <2> QED
    BY <2>2 DEF Closes
<1>5. CASE dispatch_cgi
  <2>1. PICK in \in FreeFds, out \in FreeFds : \E keep, pend, eof \in BOOLEAN :
           Dispatches(in, out, keep, pend, eof)
    BY <1>5, <1>a, DispatchFacts
  <2>2. PICK keep \in BOOLEAN, pend \in BOOLEAN, eof \in BOOLEAN :
           Dispatches(in, out, keep, pend, eof)
    BY <2>1
  <2>3. \A f \in Fds : file'[f] = file[f] \/ file[f] = Free
    BY <2>2 DEF Dispatches, FreeFds
  <2> QED
    BY <2>3 DEF Closes
<1>6. CASE PipeFails
  <2>1. 2 <= Cardinality(FreeFds)
    BY <1>6 DEF PipeFails
  <2>2. Lowest(2) \subseteq FreeFds
    BY <2>1, LowestFacts
  <2>3. \A f \in Fds : file'[f] = file[f] \/ file[f] = Free
    BY <1>6, <2>2 DEF PipeFails, FreeFds
  <2> QED
    BY <2>3 DEF Closes
<1>7. CASE BodyCut
  <2> DEFINE closes == IF Cl.pend THEN {} ELSE StdinOf(Cl)
  <2>1. file' = Closing(closes) /\ Known(Cur.fd)
    BY <1>7, Zenon DEF BodyCut
  <2>2. \A x \in closes : x \in Fds => file[x].c = Cur.c
    BY <1>d, <2>1 DEF Cl
  <2> HIDE DEF closes
  <2> QED
    BY <1>c, <2>1, <2>2
<1>8. CASE BodyEnds
  <2>1. Known(Cur.fd) /\ (UNCHANGED file \/ file' = Closing({Cl.in})) /\ Cl.in # NoFd
    BY <1>8 DEF BodyEnds
  <2>2. \A x \in {Cl.in} : x \in Fds => file[x].c = Cur.c
    BY <1>d, <2>1 DEF Cl, StdinOf
  <2> QED
    BY <1>b, <1>c, <2>1, <2>2
<1>9. CASE CgiEnd
  <2> DEFINE e == Cur.fd
             h == CgiClient
             cl == clients_[h]
  <2>1. /\ file' = Closing({e} \cup StdinOf(cl))
        /\ e \in DOMAIN cgi_fd_to_client_fd_ /\ h = cgi_fd_to_client_fd_[e]
    BY <1>9 DEF CgiEnd, CgiReady, isCgiFd, CgiClient
  <2>2. h \in DOMAIN clients_ /\ cl.out = e /\ e # NoFd
    BY <1>a, <2>1, TableTypes DEF Base, OutputHasClient, Known
  <2>3. /\ file[e] = [k |-> "out", c |-> cl.c]
        /\ cl.in # NoFd => file[cl.in] = [k |-> "in", c |-> cl.c]
    BY <2>2 DEF Tables, OwnPipes
  <2>4. \A x \in {e} \cup StdinOf(cl) : x \in Fds => file[x].c = Cur.c
    BY <1>a, <2>3 DEF StdinOf
  <2> QED
    BY <1>c, <2>1, <2>4
<1>10. CASE StdinError
  <2> DEFINE e == Cur.fd
             g == cgi_stdin_fd_to_client_fd_[e]
  <2>1. e \in DOMAIN cgi_stdin_fd_to_client_fd_
    BY <1>10 DEF StdinError, isCgiStdinFd
  <2>2. g \in DOMAIN clients_ /\ clients_[g].in = e
    BY <2>1 DEF Tables, MapsAgree, Known
  <2>3. file' = Closing({e} \cup StdinOf(clients_[g]))
    BY <1>10, <2>2 DEF StdinError, Known
  <2>4. \A x \in {e} \cup StdinOf(clients_[g]) : x \in Fds => file[x].c = Cur.c
    BY <1>a, <2>2 DEF StdinOf
  <2> QED
    BY <1>c, <2>3, <2>4
<1>11. CASE StdinOrphan
  <2>1. file' = Closing({Cur.fd})
    BY <1>11 DEF StdinOrphan
  <2> QED
    BY <1>a, <1>c, <2>1
<1>12. CASE StdinFlush
  <2> DEFINE e == Cur.fd
             g == StdinClient
  <2>1. e \in DOMAIN cgi_stdin_fd_to_client_fd_ /\ g = cgi_stdin_fd_to_client_fd_[e]
    BY <1>12 DEF StdinFlush, isCgiStdinFd, StdinClient
  <2>2. g \in DOMAIN clients_ /\ clients_[g].in = e /\ clients_[g] \in Client
    BY <1>a, <2>1, TableTypes DEF Tables, MapsAgree, Known
  <2>3. PICK pend \in {FALSE, clients_[g].pend} :
          \/ UNCHANGED file
          \/ file' = Closing(StdinOf([clients_[g] EXCEPT !.pend = pend]))
    BY <1>12 DEF StdinFlush
  <2>4. [clients_[g] EXCEPT !.pend = pend].in = e
    BY <2>2 DEF Client
  <2>5. \A x \in StdinOf([clients_[g] EXCEPT !.pend = pend]) : x \in Fds => file[x].c = Cur.c
    BY <1>a, <2>4 DEF StdinOf
  <2> QED
    BY <1>b, <1>c, <2>3, <2>5
<1> QED
  BY <1>1, <1>2, <1>3, <1>4, <1>5, <1>6, <1>7, <1>8, <1>9, <1>10, <1>11, <1>12 DEF Next

LEMMA TablesInit == Init => Tables
<1> SUFFICES ASSUME Init PROVE Tables
  OBVIOUS
<1>1. /\ \A f \in Fds : file[f].k = "free"
      /\ DOMAIN clients_ = {} /\ DOMAIN poll_fds_ = {} /\ DOMAIN server_fds_ = {}
      /\ DOMAIN cgi_fd_to_client_fd_ = {} /\ DOMAIN cgi_stdin_fd_to_client_fd_ = {}
      /\ Len(poll_fds_) = 0 /\ Len(server_fds_) = 0
  BY DEF Init, Free
<1>2. EntriesLive
  BY <1>1 DEF EntriesLive
<1>3. MapsAgree
  BY <1>1 DEF MapsAgree
<1>4. OwnPipes
  BY <1>1 DEF OwnPipes, ToSet
<1>5. InOrder
  BY <1>1 DEF InOrder
<1> QED
  BY <1>2, <1>3, <1>4, <1>5 DEF Tables

LEMMA IInvInit == Init => IInv
  BY BaseInit, TablesInit DEF IInv

LEMMA IInvStep == IInv /\ [Next]_vars => IInv'
<1> SUFFICES ASSUME IInv, [Next]_vars PROVE IInv'
  OBVIOUS
<1>1. Base /\ Base' /\ Types
  BY BaseStep DEF IInv, Base
<1>2. ASSUME Uncut' PROVE Tables'
  <2>1. Uncut /\ Tables
    BY <1>1, <1>2, UncutBefore DEF IInv
  <2> QED
    BY <1>1, <1>2, <2>1, TablesStep
<1> QED
  BY <1>1, <1>2 DEF IInv

LEMMA Invariance == Spec => []IInv
  BY IInvInit, IInvStep, PTL DEF Spec

LEMMA SteadyIsUncut == Steady => Uncut
  BY DEF Steady, Running, Uncut

(***************************************************************************)
(* Whatever handlers push, erase and close, and however often numbers are  *)
(* reused, poll_fds_, clients_ and the two CGI maps agree with the         *)
(* kernel's table as long as no CGI body has been cut - for any number of  *)
(* servers, connections and descriptors (Server::start, remove_client).    *)
(***************************************************************************)
THEOREM TablesAlwaysAgree == Spec => []TablesAgree
<1>1. IInv => TablesAgree
  BY TypesImply, SteadyIsUncut DEF IInv, Base, Tables, TablesAgree
<1> QED
  BY <1>1, Invariance, PTL

(* Erasing entries during the scan (Server::remove_client) never moves an  *)
(* entry that is still to be visited before the index: CGI entries stand   *)
(* behind their socket, and the listening sockets in front.                *)
THEOREM CgiEntriesAlwaysFollow == Spec => []CgiEntriesFollow
<1>1. IInv => CgiEntriesFollow
  BY SteadyIsUncut DEF IInv, Tables, InOrder, CgiEntriesFollow
<1> QED
  BY <1>1, Invariance, PTL

(* The stdout of a CGI is registered only as long as its Client is there   *)
(* and holds it, cut bodies or not: the branch of handle_cgi_output that   *)
(* handles an orphan is dead code.                                         *)
THEOREM OutputAlwaysHasClient == Spec => []OutputHasClient
<1>1. IInv => OutputHasClient
  BY DEF IInv, Base
<1> QED
  BY <1>1, Invariance, PTL

(* No path of the event loop loses an open descriptor but the second       *)
(* pipe()'s failure, and ~Server and cleanup_sockets_ close every socket,  *)
(* cut bodies or not.                                                      *)
THEOREM NothingEverLeaked == Spec => []NothingLeaked
<1>1. IInv => NothingLeaked
  <2> SUFFICES ASSUME IInv, NEW f \in Fds, file[f].k \notin {"free", "lost"}
               PROVE  IF phase = "exit" THEN file[f].k \in {"in", "out"}
                      ELSE f \in ToSet(server_fds_) \cup DOMAIN clients_
                             \cup UNION {{cl.in, cl.out} : cl \in Range(clients_)}
    BY DEF NothingLeaked
  <2>1. file[f].k \in {"listen", "sock", "in", "out"}
    BY DEF IInv, Base, Types, Object, Free, Kinds
  <2>2. CASE phase = "exit"
    BY <2>1, <2>2 DEF IInv, Base, Held
  <2>3. CASE phase # "exit"
    <3>1. /\ file[f].k = "listen" => f \in ToSet(server_fds_)
          /\ file[f].k = "sock" => f \in DOMAIN clients_
          /\ file[f].k \in {"in", "out"} =>
               \E g \in DOMAIN clients_ : clients_[g].in = f \/ clients_[g].out = f
      BY <2>3 DEF IInv, Base, Held, Known
    <3>2. \A g \in DOMAIN clients_ : clients_[g] \in Range(clients_)
      BY DEF Range
    <3> QED
      BY <2>1, <2>3, <3>1, <3>2
  <2> QED
    BY <2>2, <2>3
<1> QED
  BY <1>1, Invariance, PTL

(* Every close() of a step of the scan is of a descriptor of the           *)
(* connection whose entry the step handles, while no CGI body has been cut.*)
THEOREM AlwaysClosesOwn == Spec => ClosesOwn
<1>1. IInv /\ [Next]_vars =>
        [(Steady /\ phase \in {"visit", "output"} /\ idx <= Len(poll_fds_)) => Closes(Cur.c)]_vars
  BY SteadyIsUncut, ClosesStep DEF IInv
<1> QED
  BY <1>1, Invariance, PTL DEF Spec, ClosesOwn
=============================================================================
