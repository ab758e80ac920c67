---------------------------- MODULE FilterProofs ----------------------------
(***************************************************************************)
(* What the search and the layout of src/main.rs promise, for every        *)
(* process table: any number of processes, any parents, cycles included.   *)
(*                                                                         *)
(* The induction that this takes is on a set: a set of numbers that holds  *)
(* 0 and is closed under the successor is Nat, which follows from every    *)
(* nonempty set of numbers having a least element.                         *)
(***************************************************************************)
EXTENDS Collect, TLAPS, FiniteSetTheorems, WellFoundedInduction

----------------------------------------------------------------------------
(* Numbers, sets and sequences                                             *)

LEMMA LeastNumber ==
  ASSUME NEW T \in SUBSET Nat, T # {}
  PROVE  \E x \in T : \A y \in T : x <= y
<1> DEFINE R == OpToRel(<, Nat)
<1>1. IsWellFoundedOn(R, Nat)
  BY NatLessThanWellFounded
<1>2. \A x, y \in Nat : x < y => <<x, y>> \in R
  BY DEF OpToRel
<1> HIDE DEF R
<1>3. \E x \in T : \A y \in T : ~(<<y, x>> \in R)
  BY ONLY <1>1, T \in SUBSET Nat, T # {}, WFMin
<1>4. \A x, y \in Nat : ~(y < x) => x <= y
  OBVIOUS
<1> QED
  BY <1>2, <1>3, <1>4

LEMMA MinOfNumbers ==
  ASSUME NEW T \in SUBSET Nat, T # {}
  PROVE  Min(T) \in T /\ \A y \in T : Min(T) <= y
BY LeastNumber DEF Min

LEMMA Induct ==
  ASSUME NEW S \in SUBSET Nat, 0 \in S, \A n \in S : n + 1 \in S
  PROVE  S = Nat
<1> SUFFICES ASSUME NEW n \in Nat \ S PROVE FALSE
  OBVIOUS
<1>1. PICK x \in Nat \ S : \A y \in Nat \ S : x <= y
  <2>1. Nat \ S \in SUBSET Nat /\ Nat \ S # {}
    OBVIOUS
  <2> QED
    BY <2>1, LeastNumber
<1>2. x # 0
  OBVIOUS
<1>3. x - 1 \in Nat /\ ~(x <= x - 1)
  BY <1>2
<1>4. x - 1 \in S
  BY <1>1, <1>3
<1> QED
  BY <1>3, <1>4

(* A function that is iterated.                                            *)
Iterates(f, x, g, n) == f[0] = x /\ \A m \in 1 .. n : f[m] = g[f[m - 1]]

LEMMA Iterate ==
  ASSUME NEW S, NEW x \in S, NEW g \in [S -> S], NEW n \in Nat
  PROVE  \E f \in [0 .. n -> S] : Iterates(f, x, g, n)
<1> USE DEF Iterates
<1> DEFINE T == {m \in Nat : \E f \in [0 .. m -> S] : Iterates(f, x, g, m)}
<1>1. 0 \in T
  <2>1. [j \in 0 .. 0 |-> x] \in [0 .. 0 -> S] /\ Iterates([j \in 0 .. 0 |-> x], x, g, 0)
    OBVIOUS
  <2> QED
    BY <2>1
<1>2. ASSUME NEW m \in T PROVE m + 1 \in T
  <2>1. PICK f \in [0 .. m -> S] : Iterates(f, x, g, m)
    OBVIOUS
  <2> DEFINE h == [j \in 0 .. m + 1 |-> IF j = m + 1 THEN g[f[m]] ELSE f[j]]
  <2>2. m \in 0 .. m /\ f[m] \in S /\ g[f[m]] \in S
    OBVIOUS
  <2>3. h \in [0 .. m + 1 -> S]
    BY <2>2
  <2>4. h[0] = x
    BY <2>1
  <2>5. ASSUME NEW j \in 1 .. m + 1 PROVE h[j] = g[h[j - 1]]
    <3>1. CASE j = m + 1
      BY <3>1, <2>2
    <3>2. CASE j \in 1 .. m
      BY <3>2, <2>1
    <3> QED
      BY <3>1, <3>2
  <2> HIDE DEF h
  <2> QED
    BY <2>3, <2>4, <2>5
<1>3. T = Nat
  <2> HIDE DEF T
  <2> QED
    BY <1>1, <1>2, Induct DEF T
<1> QED
  BY <1>3

(* The sequences are as long as their members are many.                    *)
Distinct(s) == \A m, n \in 1 .. Len(s) : s[m] = s[n] => m = n

Members1(s) == {s[n] : n \in 1 .. Len(s)}

LEMMA DistinctLength ==
  ASSUME NEW S, IsFiniteSet(S), NEW s \in Seq(S), Distinct(s)
  PROVE  Len(s) <= Cardinality(S) /\ (Len(s) = Cardinality(S) <=> Members1(s) = S)
<1>1. s \in Injection(1 .. Len(s), S)
  BY DEF Injection, IsInjective, Distinct
<1>2. Cardinality(1 .. Len(s)) = Len(s) /\ IsFiniteSet(1 .. Len(s))
  <2>1. Len(s) \in Nat
    OBVIOUS
  <2> QED
    BY <2>1, FS_Interval
<1>3. /\ Cardinality(1 .. Len(s)) <= Cardinality(S)
      /\ Cardinality(1 .. Len(s)) = Cardinality(S) <=> s \in Surjection(1 .. Len(s), S)
  BY ONLY <1>1, FS_Injection, IsFiniteSet(S)
<1>4. s \in Surjection(1 .. Len(s), S) <=> Members1(s) = S
  BY DEF Surjection, Members1
<1> QED
  BY <1>2, <1>3, <1>4

(* InOrder: the rank of a member, the number of those up to it, counts     *)
(* through the set.                                                        *)
Rank(S, key, k) == Cardinality({j \in S : key[j] <= key[k]})

LEMMA RankGrows ==
  ASSUME NEW S, IsFiniteSet(S), NEW key, \A k \in S : key[k] \in Nat,
         NEW a \in S, NEW b \in S, key[a] < key[b]
  PROVE  Rank(S, key, a) < Rank(S, key, b)
<1> DEFINE A == {j \in S : key[j] <= key[a]}
           B == {j \in S : key[j] <= key[b]}
<1>1. A \in SUBSET B /\ b \in B /\ b \notin A /\ B \in SUBSET S
  OBVIOUS
<1>2. IsFiniteSet(B)
  BY <1>1, FS_Subset
<1>3. Cardinality(A) <= Cardinality(B) /\ (Cardinality(B) = Cardinality(A) => B = A) /\ IsFiniteSet(A)
  BY <1>1, <1>2, FS_Subset
<1>4. Cardinality(A) \in Nat /\ Cardinality(B) \in Nat
  BY <1>2, <1>3, FS_CardinalityType
<1>5. Rank(S, key, a) = Cardinality(A) /\ Rank(S, key, b) = Cardinality(B)
  BY DEF Rank
<1> HIDE DEF A, B
<1> QED
  BY <1>1, <1>3, <1>4, <1>5

LEMMA RankRange ==
  ASSUME NEW S, IsFiniteSet(S), NEW key, \A k \in S : key[k] \in Nat, NEW a \in S
  PROVE  Rank(S, key, a) \in 1 .. Cardinality(S)
<1> DEFINE A == {j \in S : key[j] <= key[a]}
<1>1. A \in SUBSET S /\ a \in A
  OBVIOUS
<1>2. IsFiniteSet(A) /\ Cardinality(A) <= Cardinality(S)
  BY <1>1, FS_Subset
<1>3. Cardinality(A) \in Nat /\ Cardinality(S) \in Nat /\ Cardinality(A) # 0
  BY <1>1, <1>2, FS_CardinalityType, FS_EmptySet
<1>4. Rank(S, key, a) = Cardinality(A)
  BY DEF Rank
<1> QED
  BY <1>2, <1>3, <1>4

Listing(s, S, key) ==
  /\ s \in Seq(S) /\ Len(s) = Cardinality(S) /\ Distinct(s) /\ Members1(s) = S
  /\ \A m, n \in 1 .. Len(s) : m < n => key[s[m]] < key[s[n]]

LEMMA InOrderLists ==
  ASSUME NEW S, IsFiniteSet(S), NEW key, \A k \in S : key[k] \in Nat,
         \A j, k \in S : key[j] = key[k] => j = k
  PROVE  Listing(InOrder(S, key), S, key)
<1> DEFINE s == InOrder(S, key)
           c == Cardinality(S)
           rank == [k \in S |-> Rank(S, key, k)]
<1>1. c \in Nat
  BY FS_CardinalityType
<1>2. Cardinality(1 .. c) = c /\ IsFiniteSet(1 .. c)
  BY <1>1, FS_Interval
<1>3. rank \in Injection(S, 1 .. c)
  <2>1. rank \in [S -> 1 .. c]
    BY RankRange
  <2>2. ASSUME NEW a \in S, NEW b \in S, rank[a] = rank[b] PROVE a = b
    <3>1. rank[a] \in 1 .. c /\ rank[b] \in 1 .. c
      BY <2>1
    <3>2. ~(key[a] < key[b]) /\ ~(key[b] < key[a])
      BY <2>2, <3>1, RankGrows
    <3> QED
      BY <3>2
  <2> QED
    BY <2>1, <2>2 DEF Injection, IsInjective
<1>4. rank \in Surjection(S, 1 .. c)
  <2> HIDE DEF rank
  <2> QED
    BY ONLY <1>2, <1>3, FS_Injection
<1>5. \A n \in 1 .. c : \E k \in S : Rank(S, key, k) = n
  BY <1>4 DEF Surjection
<1>6. \A n \in 1 .. c : s[n] \in S /\ Rank(S, key, s[n]) = n
  BY <1>5 DEF InOrder, Rank
<1>7. s = [n \in 1 .. c |-> s[n]]
  <2> DEFINE pick(n) == CHOOSE k \in S : Cardinality({j \in S : key[j] <= key[k]}) = n
  <2>1. s = [n \in 1 .. c |-> pick(n)]
    BY DEF InOrder
  <2> HIDE DEF s, c, pick
  <2> QED
    BY <2>1
<1>8. s \in Seq(S) /\ Len(s) = c
  <2> HIDE DEF s
  <2> QED
    BY <1>1, <1>6, <1>7
<1>9. Distinct(s)
  <2> HIDE DEF s
  <2> QED
    BY <1>6, <1>8 DEF Distinct
<1>10. \A m, n \in 1 .. c : m < n => key[s[m]] < key[s[n]]
  <2> HIDE DEF s
  <2> SUFFICES ASSUME NEW m \in 1 .. c, NEW n \in 1 .. c, m < n PROVE key[s[m]] < key[s[n]]
    OBVIOUS
  <2>1. s[m] \in S /\ s[n] \in S /\ Rank(S, key, s[m]) = m /\ Rank(S, key, s[n]) = n
    BY <1>6
  <2>2. ~(key[s[n]] < key[s[m]])
    BY <2>1, RankGrows
  <2>3. key[s[n]] # key[s[m]]
    BY <2>1
  <2> QED
    BY <2>1, <2>2, <2>3
<1>11. Members1(s) = S
  <2> HIDE DEF s
  <2> QED
    BY <1>8, <1>9, DistinctLength
<1> QED
  BY <1>8, <1>9, <1>10, <1>11 DEF Listing

LEMMA IterateOnce ==
  ASSUME NEW x, NEW g, NEW a \in Nat, NEW b \in Nat,
         NEW f, Iterates(f, x, g, a), NEW h, Iterates(h, x, g, b),
         NEW n \in 0 .. a, n <= b
  PROVE  f[n] = h[n]
<1> USE DEF Iterates
<1> DEFINE T == {m \in Nat : m <= n => f[m] = h[m]}
<1>1. 0 \in T
  OBVIOUS
<1>2. ASSUME NEW m \in T PROVE m + 1 \in T
  <2> SUFFICES ASSUME m + 1 <= n PROVE f[m + 1] = h[m + 1]
    OBVIOUS
  <2>1. m + 1 \in 1 .. a /\ m + 1 \in 1 .. b /\ (m + 1) - 1 = m /\ m <= n
    OBVIOUS
  <2>2. f[m] = h[m]
    BY <2>1
  <2>3. f[m + 1] = g[f[m]] /\ h[m + 1] = g[h[m]]
    BY <2>1
  <2> QED
    BY <2>2, <2>3
<1>3. T = Nat
  <2> HIDE DEF T
  <2> QED
    BY <1>1, <1>2, Induct DEF T
<1> QED
  BY <1>3

LEMMA IterateForever ==
  ASSUME NEW S, NEW x \in S, NEW g \in [S -> S]
  PROVE  \E f \in [Nat -> S] : f[0] = x /\ \A n \in Nat : f[n + 1] = g[f[n]]
<1> DEFINE F(n) == CHOOSE f \in [0 .. n -> S] : Iterates(f, x, g, n)
           f == [n \in Nat |-> F(n)[n]]
<1>1. \A n \in Nat : F(n) \in [0 .. n -> S] /\ Iterates(F(n), x, g, n)
  BY Iterate
<1> HIDE DEF F
<1>2. f \in [Nat -> S]
  <2>1. \A n \in Nat : n \in 0 .. n
    OBVIOUS
  <2> QED
    BY <1>1, <2>1
<1>3. f[0] = x
  BY <1>1 DEF Iterates
<1>4. ASSUME NEW n \in Nat PROVE f[n + 1] = g[f[n]]
  <2>1. F(n + 1)[n] = F(n)[n]
    <3>1. n + 1 \in Nat /\ n \in 0 .. n + 1 /\ n <= n
      OBVIOUS
    <3> QED
      BY <1>1, <3>1, IterateOnce
  <2>2. n + 1 \in 1 .. n + 1 /\ (n + 1) - 1 = n
    OBVIOUS
  <2>3. F(n + 1)[n + 1] = g[F(n + 1)[n]]
    BY <1>1, <2>2 DEF Iterates
  <2> QED
    BY <2>1, <2>3
<1> HIDE DEF f
<1> QED
  BY <1>2, <1>3, <1>4

----------------------------------------------------------------------------
(* Ancestors                                                               *)

LEMMA ProcsFinite == N \in Nat /\ IsFiniteSet(Procs) /\ Cardinality(Procs) = N
<1>1. N \in Nat
  BY FilterAssumption DEF FilterAssumption, N
<1> QED
  BY <1>1, FS_Interval DEF Procs

LEMMA PidType == \A k \in Procs : Pid[k] \in Nat \ {0}
BY FilterAssumption DEF FilterAssumption, N, Procs

Places == Procs \cup {0}

LEMMA UpPlace ==
  ASSUME in \in Input, NEW k \in Procs
  PROVE  /\ Up(k) \in Places
         /\ Up(k) # 0 => Pid[Up(k)] = in.ppid[k]
         /\ \A q \in Procs : Pid[q] = in.ppid[k] => Up(k) = q
<1>1. in.ppid[k] \in Ppids
  BY DEF Input
<1>2. \A i, j \in Procs : Pid[i] = Pid[j] => i = j
  BY FilterAssumption DEF FilterAssumption
<1>3. Up(k) = IF \E j \in Procs : Pid[j] = in.ppid[k]
                THEN CHOOSE j \in Procs : Pid[j] = in.ppid[k] ELSE 0
  BY <1>1 DEF Up, pid_to_idx
<1>4. 0 \notin Procs
  BY ProcsFinite DEF Procs
<1> QED
  BY <1>2, <1>3, <1>4 DEF Places

Climb == [a \in Places |-> IF a = 0 THEN 0 ELSE Up(a)]

(* All of k's ancestors, however many; 0 from the end on.                  *)
Path(k) == CHOOSE f \in [Nat -> Places] : f[0] = k /\ \A n \in Nat : f[n + 1] = Climb[f[n]]

LEMMA ClimbType == in \in Input => Climb \in [Places -> Places]
<1> SUFFICES ASSUME in \in Input, NEW a \in Places, a # 0 PROVE Up(a) \in Places
  BY DEF Climb, Places
<1> QED
  BY UpPlace DEF Places

LEMMA PathStep ==
  ASSUME in \in Input, NEW k \in Places
  PROVE  /\ Path(k) \in [Nat -> Places]
         /\ Path(k)[0] = k
         /\ \A n \in Nat : Path(k)[n + 1] = Climb[Path(k)[n]]
<1>1. \E f \in [Nat -> Places] : f[0] = k /\ \A n \in Nat : f[n + 1] = Climb[f[n]]
  <2>1. Climb \in [Places -> Places]
    BY ClimbType
  <2> QED
    BY ONLY <2>1, k \in Places, IterateForever
<1> QED
  BY <1>1 DEF Path

LEMMA NthIsPath ==
  ASSUME in \in Input, NEW k \in Procs, NEW n \in 0 .. N
  PROVE  Nth(k, n) = Path(k)[n]
<1> DEFINE f == CHOOSE f : f = [m \in 0 .. N |-> IF m = 0 THEN k
                         ELSE LET a == f[m - 1] IN IF a = 0 THEN 0 ELSE Up(a)]
<1>1. Nth(k, n) = f[n]
  BY DEF Nth
<1> DEFINE h == [m \in 0 .. N |-> Path(k)[m]]
           Rule(e) == [m \in 0 .. N |-> IF m = 0 THEN k
                         ELSE LET a == e[m - 1] IN IF a = 0 THEN 0 ELSE Up(a)]
<1>2. k \in Places /\ N \in Nat
  BY ProcsFinite DEF Places
<1>3. h = Rule(h)
  <2>1. ASSUME NEW m \in 0 .. N, m # 0
        PROVE  Path(k)[m] = IF h[m - 1] = 0 THEN 0 ELSE Up(h[m - 1])
    <3>1. m - 1 \in Nat /\ m - 1 \in 0 .. N /\ (m - 1) + 1 = m
      BY <1>2, <2>1
    <3>2. Path(k)[(m - 1) + 1] = Climb[Path(k)[m - 1]] /\ Path(k)[m - 1] \in Places
      BY ONLY <1>2, <3>1, PathStep, in \in Input
    <3>3. h[m - 1] = Path(k)[m - 1]
      BY <3>1
    <3> QED
      BY <3>1, <3>2, <3>3 DEF Climb
  <2>2. Path(k)[0] = k
    BY <1>2, PathStep
  <2> QED
    BY <2>1, <2>2
<1>4. f = Rule(f)
  BY <1>3
<1> HIDE DEF f, h
<1> DEFINE T == {m \in Nat : m <= N => f[m] = h[m]}
<1>5. 0 \in T
  BY <1>2, <1>3, <1>4
<1>6. ASSUME NEW m \in T PROVE m + 1 \in T
  <2> SUFFICES ASSUME m + 1 <= N PROVE f[m + 1] = h[m + 1]
    OBVIOUS
  <2>1. m + 1 \in 0 .. N /\ m + 1 # 0 /\ (m + 1) - 1 = m /\ m <= N
    BY <1>2
  <2>2. f[m] = h[m]
    BY <2>1
  <2>3. \A e : e = Rule(e) => e[m + 1] = IF e[m] = 0 THEN 0 ELSE Up(e[m])
    BY <2>1
  <2> HIDE DEF Rule
  <2> QED
    BY <1>3, <1>4, <2>2, <2>3
<1>7. T = Nat
  <2> HIDE DEF T
  <2> QED
    BY <1>5, <1>6, Induct DEF T
<1>8. f[n] = h[n]
  <2>1. n \in T /\ n <= N
    BY <1>2, <1>7
  <2> QED
    BY <2>1
<1> QED
  BY <1>1, <1>8 DEF h

LEMMA PathPlus ==
  ASSUME in \in Input, NEW k \in Places, NEW i \in Nat, NEW t \in Nat
  PROVE  Path(k)[i] \in Places /\ Path(k)[i + t] = Path(Path(k)[i])[t]
<1> DEFINE q == Path(k)[i]
           T == {s \in Nat : Path(k)[i + s] = Path(q)[s]}
<1>1. q \in Places
  BY PathStep
<1> HIDE DEF q
<1>2. Path(q)[0] = q /\ \A s \in Nat : Path(q)[s + 1] = Climb[Path(q)[s]]
  BY ONLY <1>1, in \in Input, PathStep
<1>3. \A s \in Nat : Path(k)[s + 1] = Climb[Path(k)[s]]
  BY PathStep
<1>4. 0 \in T
  BY <1>2 DEF q
<1>5. ASSUME NEW s \in T PROVE s + 1 \in T
  <2>1. i + s \in Nat /\ (i + s) + 1 = i + (s + 1)
    OBVIOUS
  <2>2. Path(k)[i + s] = Path(q)[s]
    OBVIOUS
  <2> QED
    BY <1>2, <1>3, <2>1, <2>2
<1>6. T = Nat
  <2> HIDE DEF T
  <2> QED
    BY <1>4, <1>5, Induct DEF T
<1> QED
  BY <1>1, <1>6 DEF q

LEMMA PathEnd ==
  ASSUME in \in Input, NEW k \in Places, NEW i \in Nat, NEW j \in Nat, i <= j, Path(k)[i] = 0
  PROVE  Path(k)[j] = 0
<1> DEFINE T == {s \in Nat : Path(0)[s] = 0}
<1>1. 0 \in Places /\ Climb[0] = 0
  BY DEF Places, Climb
<1>2. 0 \in T
  BY <1>1, PathStep
<1>3. ASSUME NEW s \in T PROVE s + 1 \in T
  <2>1. Path(0)[s + 1] = Climb[Path(0)[s]]
    BY <1>1, PathStep
  <2> QED
    BY <1>1, <2>1
<1>4. T = Nat
  <2> HIDE DEF T
  <2> QED
    BY <1>2, <1>3, Induct DEF T
<1>5. j - i \in Nat /\ i + (j - i) = j
  OBVIOUS
<1>6. Path(k)[i + (j - i)] = Path(Path(k)[i])[j - i]
  BY <1>5, PathPlus
<1> QED
  BY <1>4, <1>5, <1>6

(* Among more places on a path than there are processes, two are the same. *)
LEMMA PathRepeats ==
  ASSUME in \in Input, NEW k \in Procs, NEW m \in Nat, N < m,
         \A i \in 0 .. m - 1 : Path(k)[i] # 0
  PROVE  \E i, j \in 0 .. m - 1 : i < j /\ Path(k)[i] = Path(k)[j]
<1> DEFINE f == [x \in 1 .. m |-> Path(k)[x - 1]]
<1>1. k \in Places /\ N \in Nat /\ IsFiniteSet(Procs) /\ Cardinality(Procs) = N
  BY ProcsFinite DEF Places
<1>2. \A x \in 1 .. m : x - 1 \in 0 .. m - 1 /\ x - 1 \in Nat
  OBVIOUS
<1>3. f \in [1 .. m -> Procs]
  <2> SUFFICES ASSUME NEW x \in 1 .. m PROVE Path(k)[x - 1] \in Procs
    OBVIOUS
  <2>1. Path(k)[x - 1] \in Places /\ Path(k)[x - 1] # 0
    BY <1>1, <1>2, PathStep
  <2> QED
    BY <2>1 DEF Places
<1>4. IsFiniteSet(1 .. m) /\ Cardinality(1 .. m) = m
  BY FS_Interval
<1> HIDE DEF f
<1>5. PICK x, y \in 1 .. m : x # y /\ f[x] = f[y]
  <2>1. Cardinality(Procs) < Cardinality(1 .. m)
    BY <1>1, <1>4
  <2> QED
    BY ONLY <1>1, <1>3, <1>4, <2>1, FS_PigeonHole
<1>6. Path(k)[x - 1] = Path(k)[y - 1]
  BY <1>5 DEF f
<1>7. CASE x < y
  BY <1>2, <1>6, <1>7
<1>8. CASE y < x
  BY <1>2, <1>6, <1>8
<1> QED
  BY <1>5, <1>7, <1>8

(* The first member of a set on the way up is no further than there are    *)
(* processes: what Ancestors and Nearest look at is enough.                *)
LEMMA FirstHit ==
  ASSUME in \in Input, NEW k \in Procs, NEW A \in SUBSET Procs,
         NEW n \in Nat \ {0}, Path(k)[n] \in A
  PROVE  \E m \in 1 .. N : /\ m <= n /\ Path(k)[m] \in A
                           /\ \A j \in 1 .. m - 1 : Path(k)[j] \notin A
<1> DEFINE T == {m \in Nat : m # 0 /\ Path(k)[m] \in A}
<1>1. PICK m \in T : \A y \in T : m <= y
  <2>1. T \in SUBSET Nat /\ n \in T
    OBVIOUS
  <2> HIDE DEF T
  <2> QED
    BY <2>1, LeastNumber
<1>2. m \in Nat \ {0} /\ Path(k)[m] \in A /\ m <= n
  BY <1>1
<1>3. \A j \in 1 .. m - 1 : Path(k)[j] \notin A
  <2> SUFFICES ASSUME NEW j \in 1 .. m - 1 PROVE Path(k)[j] \notin A
    OBVIOUS
  <2>1. j \in Nat /\ j # 0 /\ ~(m <= j)
    BY <1>2
  <2> QED
    BY <1>1, <2>1
<1>4. k \in Places /\ N \in Nat /\ 0 \notin Procs
  BY ProcsFinite DEF Places, Procs
<1>5. m <= N
  <2> SUFFICES ASSUME N < m PROVE FALSE
    BY <1>2, <1>4
  <2>1. \A i \in 0 .. m - 1 : Path(k)[i] # 0
    <3> SUFFICES ASSUME NEW i \in 0 .. m - 1, Path(k)[i] = 0 PROVE FALSE
      OBVIOUS
    <3>1. i \in Nat /\ i <= m /\ m \in Nat
      BY <1>2
    <3>2. Path(k)[m] = 0
      BY <1>4, <3>1, PathEnd
    <3> QED
      BY <1>2, <1>4, <3>2
  <2>2. PICK i, j \in 0 .. m - 1 : i < j /\ Path(k)[i] = Path(k)[j]
    BY <1>2, <2>1, PathRepeats
  <2> DEFINE d == m - j
  <2>3. i \in Nat /\ j \in Nat /\ d \in Nat /\ j + d = m /\ i + d # 0 /\ i + d \in Nat /\ ~(m <= i + d)
    BY <1>2, <2>2
  <2> HIDE DEF d
  <2>4. Path(k)[j + d] = Path(Path(k)[j])[d] /\ Path(k)[i + d] = Path(Path(k)[i])[d]
    BY <1>4, <2>3, PathPlus
  <2>5. i + d \in T
    BY <1>2, <2>2, <2>3, <2>4
  <2> QED
    BY <1>1, <2>3, <2>5
<1> QED
  BY <1>2, <1>3, <1>4, <1>5

LEMMA PathUp ==
  ASSUME in \in Input, NEW k \in Procs
  PROVE  /\ Path(k)[0] = k /\ Path(k)[1] = Up(k) /\ Up(k) \in Places
         /\ \A n \in Nat : Path(k)[n] \in Places /\ Path(k)[n + 1] = Path(Up(k))[n]
         /\ \A n \in Nat : Path(k)[n] # 0 => Path(k)[n + 1] = Up(Path(k)[n])
<1>1. k \in Places /\ k # 0
  BY ProcsFinite DEF Places, Procs
<1>2. /\ Path(k) \in [Nat -> Places] /\ Path(k)[0] = k
      /\ \A n \in Nat : Path(k)[n + 1] = Climb[Path(k)[n]]
  BY <1>1, PathStep
<1>3. \A a \in Places : a # 0 => Climb[a] = Up(a)
  BY DEF Climb
<1>4. \A n \in Nat : Path(k)[n] # 0 => Path(k)[n + 1] = Up(Path(k)[n])
  BY <1>2, <1>3
<1>5. Path(k)[0 + 1] = Up(k)
  BY <1>1, <1>2, <1>4
<1>6. ASSUME NEW n \in Nat PROVE Path(k)[n + 1] = Path(Up(k))[n]
  <2>1. Path(k)[1 + n] = Path(Path(k)[1])[n]
    BY <1>1, PathPlus
  <2> QED
    BY <2>1, <1>5
<1>7. Path(k)[1] = Up(k)
  BY <1>5
<1>8. Up(k) \in Places
  BY <1>2, <1>7
<1> QED
  BY <1>2, <1>4, <1>6, <1>7, <1>8

LEMMA AncestorsOnPath ==
  ASSUME in \in Input, NEW k \in Procs, NEW a \in Procs
  PROVE  a \in Ancestors(k) <=> \E n \in Nat \ {0} : Path(k)[n] = a
<1>1. N \in Nat /\ 0 \notin Procs
  BY ProcsFinite DEF Procs
<1>2. a \in Ancestors(k) <=> \E n \in 1 .. N : Path(k)[n] = a
  <2>1. \A n \in 1 .. N : Nth(k, n) = Path(k)[n]
    BY <1>1, NthIsPath
  <2> QED
    BY <1>1, <2>1 DEF Ancestors
<1>3. ASSUME NEW n \in Nat \ {0}, Path(k)[n] = a PROVE \E m \in 1 .. N : Path(k)[m] = a
  <2> DEFINE A == {a}
  <2>1. \E m \in 1 .. N : Path(k)[m] \in A
    <3>1. A \in SUBSET Procs /\ Path(k)[n] \in A
      BY <1>3
    <3> HIDE DEF A
    <3> QED
      BY <3>1, FirstHit
  <2> QED
    BY <2>1
<1> QED
  BY <1>1, <1>2, <1>3

(* q is the nearest of A above k, or 0.                                    *)
IsNearest(k, A, q) ==
  /\ \A n \in Nat \ {0} :
       Path(k)[n] \in A /\ (\A j \in 1 .. n - 1 : Path(k)[j] \notin A) => q = Path(k)[n]
  /\ (\A n \in Nat \ {0} : Path(k)[n] \notin A) => q = 0
  /\ q # 0 => \E n \in Nat \ {0} : Path(k)[n] \in A /\ q = Path(k)[n]

LEMMA NearestIn ==
  ASSUME in \in Input, NEW k \in Procs, NEW A \in SUBSET Procs, NEW ns,
         ns = {n \in 1 .. N : Nth(k, n) \in A}
  PROVE  IsNearest(k, A, IF ns = {} THEN 0 ELSE Nth(k, Min(ns)))
<1>1. N \in Nat /\ 0 \notin Procs
  BY ProcsFinite DEF Procs
<1>2. \A n \in 1 .. N : Nth(k, n) = Path(k)[n]
  BY <1>1, NthIsPath
<1>3. ns = {n \in 1 .. N : Path(k)[n] \in A}
  BY <1>2
<1>4. PICK q : q = IF ns = {} THEN 0 ELSE Nth(k, Min(ns))
  OBVIOUS
<1>5. ns # {} => Min(ns) \in ns /\ \A n \in ns : Min(ns) <= n
  <2>1. ns \in SUBSET Nat
    BY <1>1, <1>3
  <2> QED
    BY <2>1, MinOfNumbers
<1>6. ASSUME NEW n \in Nat \ {0}, Path(k)[n] \in A PROVE \E m \in ns : m <= n
  BY <1>3, <1>6, FirstHit
<1>7. ASSUME NEW n \in Nat \ {0}, Path(k)[n] \in A, \A j \in 1 .. n - 1 : Path(k)[j] \notin A
      PROVE  q = Path(k)[n]
  <2>1. PICK m \in ns : m <= n
    BY <1>6, <1>7
  <2>2. /\ Min(ns) \in ns /\ Min(ns) <= m /\ m \in 1 .. N /\ Min(ns) \in 1 .. N
        /\ Path(k)[Min(ns)] \in A
    BY <1>3, <1>5, <2>1
  <2>3. Min(ns) = n
    <3>1. ~(Min(ns) \in 1 .. n - 1)
      BY <1>7, <2>2
    <3> QED
      BY <1>1, <2>1, <2>2, <3>1
  <2> QED
    BY <1>2, <1>4, <2>1, <2>2, <2>3
<1>8. ASSUME \A n \in Nat \ {0} : Path(k)[n] \notin A PROVE q = 0
  <2>1. ns = {}
    BY <1>1, <1>3, <1>8
  <2> QED
    BY <1>4, <2>1
<1>9. ASSUME q # 0 PROVE \E n \in Nat \ {0} : Path(k)[n] \in A /\ q = Path(k)[n]
  <2>1. ns # {} /\ q = Nth(k, Min(ns))
    BY <1>4, <1>9
  <2>2. Min(ns) \in 1 .. N /\ Path(k)[Min(ns)] \in A
    BY <1>3, <1>5, <2>1
  <2> QED
    BY <1>1, <1>2, <2>1, <2>2
<1> QED
  BY <1>4, <1>7, <1>8, <1>9 DEF IsNearest

LEMMA NearestVisible ==
  ASSUME in \in Input, vis \in [Procs -> BOOLEAN], NEW k \in Procs
  PROVE  LET q == Nearest(k, LAMBDA a : vis[a])
             Seen(n) == Path(k)[n] # 0 /\ vis[Path(k)[n]]
         IN /\ \A n \in Nat \ {0} : Seen(n) /\ (\A j \in 1 .. n - 1 : ~Seen(j)) => q = Path(k)[n]
            /\ (\A n \in Nat \ {0} : ~Seen(n)) => q = 0
            /\ q # 0 => \E n \in Nat \ {0} : Seen(n) /\ q = Path(k)[n]
<1> DEFINE Seen(n) == Path(k)[n] # 0 /\ vis[Path(k)[n]]
           ns == {n \in 1 .. N : Nth(k, n) # 0 /\ vis[Nth(k, n)]}
           q == Nearest(k, LAMBDA a : vis[a])
           A == {a \in Procs : vis[a]}
<1>1. N \in Nat /\ 0 \notin Procs
  BY ProcsFinite DEF Procs
<1>2. \A n \in Nat : Seen(n) <=> Path(k)[n] \in A
  BY <1>1, PathUp DEF Places
<1>3. \A n \in 1 .. N : Nth(k, n) # 0 /\ vis[Nth(k, n)] <=> Nth(k, n) \in A
  <2>1. \A n \in 1 .. N : n \in Nat /\ Nth(k, n) = Path(k)[n]
    BY <1>1, NthIsPath
  <2> QED
    BY <1>2, <2>1
<1>4. ns = {n \in 1 .. N : Nth(k, n) \in A} /\ A \in SUBSET Procs
  BY <1>3
<1>5. q = IF ns = {} THEN 0 ELSE Nth(k, Min(ns))
  BY DEF Nearest
<1> HIDE DEF ns, q, A
<1>6. IsNearest(k, A, q)
  BY <1>4, <1>5, NearestIn
<1>7. \A n \in Nat \ {0} : \A j \in 1 .. n - 1 : j \in Nat
  OBVIOUS
<1>8. ASSUME NEW n \in Nat \ {0}, Seen(n), \A j \in 1 .. n - 1 : ~Seen(j) PROVE q = Path(k)[n]
  <2>1. Path(k)[n] \in A /\ \A j \in 1 .. n - 1 : Path(k)[j] \notin A
    BY <1>2, <1>7, <1>8
  <2> QED
    BY <1>6, <2>1 DEF IsNearest
<1>9. ASSUME \A n \in Nat \ {0} : ~Seen(n) PROVE q = 0
  BY <1>2, <1>6, <1>9 DEF IsNearest
<1>10. ASSUME q # 0 PROVE \E n \in Nat \ {0} : Seen(n) /\ q = Path(k)[n]
  BY <1>2, <1>6, <1>10 DEF IsNearest
<1> QED
  BY <1>8, <1>9, <1>10 DEF q

----------------------------------------------------------------------------
(* The outermost process that a process folds into is one of the table.    *)

Match == [root : Places, name : Names, a : Places]

Outward ==
  [w \in Match |->
     IF w.a = 0 THEN w
     ELSE IF FoldsInto(w.name, in.name[w.a])
            THEN [root |-> w.a, name |-> in.name[w.a], a |-> Up(w.a)]
            ELSE [w EXCEPT !.a = Up(w.a)]]

LEMMA RootWalk ==
  ASSUME in \in Input, NEW i \in Procs
  PROVE  \E f \in [0 .. Hops -> Match] :
           /\ f[0] = [root |-> 0, name |-> in.name[i], a |-> Up(i)]
           /\ \A h \in 1 .. Hops : f[h] = Outward[f[h - 1]]
           /\ coalesce_root(i) = f[Hops].root
<1> DEFINE x == [root |-> 0, name |-> in.name[i], a |-> Up(i)]
           Rule(e) == [h \in 0 .. Hops |->
                         IF h = 0 THEN [root |-> 0, name |-> in.name[i], a |-> Up(i)]
                         ELSE LET w == e[h - 1]
                              IN IF w.a = 0 THEN w
                                 ELSE IF FoldsInto(w.name, in.name[w.a])
                                        THEN [root |-> w.a, name |-> in.name[w.a], a |-> Up(w.a)]
                                        ELSE [w EXCEPT !.a = Up(w.a)]]
           walk == CHOOSE e : e = Rule(e)
<1>1. coalesce_root(i) = walk[Hops].root
  BY DEF coalesce_root
<1>2. Hops \in Nat /\ 0 \in Places /\ \A k \in Procs : in.name[k] \in Names /\ Up(k) \in Places
  BY FilterAssumption, UpPlace DEF FilterAssumption, Input, Places
<1>3. x \in Match
  BY <1>2 DEF Match
<1>4. Outward \in [Match -> Match]
  <2> SUFFICES ASSUME NEW w \in Match, w.a # 0
               PROVE  /\ [root |-> w.a, name |-> in.name[w.a], a |-> Up(w.a)] \in Match
                      /\ [w EXCEPT !.a = Up(w.a)] \in Match
    BY DEF Outward
  <2>1. w.a \in Procs
    BY DEF Match, Places
  <2> QED
    BY <1>2, <2>1 DEF Match, Places
<1>5. PICK f \in [Nat -> Match] : f[0] = x /\ \A n \in Nat : f[n + 1] = Outward[f[n]]
  <2>1. \A y \in Match : \A g \in [Match -> Match] :
          \E f \in [Nat -> Match] : f[0] = y /\ \A n \in Nat : f[n + 1] = g[f[n]]
    BY ONLY IterateForever
  <2> HIDE DEF x, Rule, walk
  <2> QED
    BY <1>3, <1>4, <2>1
<1> DEFINE h == [m \in 0 .. Hops |-> f[m]]
<1>6. h = Rule(h)
  <2>1. ASSUME NEW m \in 0 .. Hops, m # 0
        PROVE  f[m] = LET w == h[m - 1]
                      IN IF w.a = 0 THEN w
                         ELSE IF FoldsInto(w.name, in.name[w.a])
                                THEN [root |-> w.a, name |-> in.name[w.a], a |-> Up(w.a)]
                                ELSE [w EXCEPT !.a = Up(w.a)]
    <3>1. m - 1 \in Nat /\ m - 1 \in 0 .. Hops /\ (m - 1) + 1 = m
      BY <1>2, <2>1
    <3>2. f[(m - 1) + 1] = Outward[f[m - 1]] /\ f[m - 1] \in Match /\ h[m - 1] = f[m - 1]
      BY <1>5, <3>1
    <3> HIDE DEF h
    <3> QED
      BY <3>1, <3>2 DEF Outward
  <2> QED
    BY <1>5, <2>1
<1>7. walk = Rule(walk)
  BY <1>6
<1> HIDE DEF walk, h
<1> DEFINE T == {m \in Nat : m <= Hops => walk[m] \in Match}
<1>8. walk[0] = x
  <2> HIDE DEF x
  <2>1. \A e : e = Rule(e) => e[0] = x
    BY <1>2 DEF x
  <2> HIDE DEF Rule
  <2> QED
    BY <1>7, <2>1
<1>9. ASSUME NEW m \in 0 .. Hops, m + 1 <= Hops, walk[m] \in Match
      PROVE  walk[m + 1] = Outward[walk[m]]
  <2>1. m + 1 \in 0 .. Hops /\ m + 1 # 0 /\ (m + 1) - 1 = m
    BY <1>2, <1>9
  <2>2. \A e : e = Rule(e) /\ e[m] \in Match => e[m + 1] = Outward[e[m]]
    BY <2>1 DEF Outward
  <2> HIDE DEF Rule
  <2> QED
    BY <1>7, <1>9, <2>2
<1>10. T = Nat
  <2>1. 0 \in T
    BY <1>3, <1>8
  <2>2. ASSUME NEW m \in T PROVE m + 1 \in T
    <3> SUFFICES ASSUME m + 1 <= Hops PROVE walk[m + 1] \in Match
      OBVIOUS
    <3>1. m \in 0 .. Hops
      BY <1>2
    <3> QED
      BY <1>4, <1>9, <3>1
  <2> HIDE DEF T
  <2> QED
    BY <2>1, <2>2, Induct DEF T
<1>11. \A m \in 0 .. Hops : walk[m] \in Match
  BY <1>2, <1>10
<1>12. ASSUME NEW m \in 1 .. Hops PROVE walk[m] = Outward[walk[m - 1]]
  <2>1. m - 1 \in 0 .. Hops /\ (m - 1) + 1 = m /\ m <= Hops
    BY <1>2
  <2> QED
    BY <1>9, <1>11, <2>1
<1> DEFINE g == [m \in 0 .. Hops |-> walk[m]]
<1>13. /\ g \in [0 .. Hops -> Match] /\ g[0] = x /\ coalesce_root(i) = g[Hops].root
       /\ \A m \in 1 .. Hops : g[m] = Outward[g[m - 1]]
  <2>1. 0 \in 0 .. Hops /\ Hops \in 0 .. Hops /\ \A m \in 1 .. Hops : m - 1 \in 0 .. Hops /\ m \in 0 .. Hops
    BY <1>2
  <2> HIDE DEF x
  <2> QED
    BY <1>1, <1>8, <1>11, <1>12, <2>1
<1> HIDE DEF g
<1> QED
  BY <1>13

LEMMA RootType == in \in Input => \A i \in Procs : coalesce_root(i) \in Places
<1> SUFFICES ASSUME in \in Input, NEW i \in Procs PROVE coalesce_root(i) \in Places
  OBVIOUS
<1>1. PICK f \in [0 .. Hops -> Match] : coalesce_root(i) = f[Hops].root
  BY RootWalk
<1>2. Hops \in 0 .. Hops
  BY FilterAssumption DEF FilterAssumption
<1> QED
  BY <1>1, <1>2 DEF Match

----------------------------------------------------------------------------
(* The queue and the stack: what is pushed after a pop                     *)

Firsts(s) == {s[n][1] : n \in 1 .. Len(s)}

OnceEach(s) == \A m, n \in 1 .. Len(s) : s[m][1] = s[n][1] => m = n

LEMMA OnceEachFits ==
  ASSUME NEW Q, NEW s \in Seq(Q), OnceEach(s),
         NEW V, IsFiniteSet(V), Firsts(s) \subseteq V
  PROVE  Len(s) <= Cardinality(V)
<1> DEFINE f == [n \in 1 .. Len(s) |-> s[n][1]]
<1>1. Len(s) \in Nat /\ \A n \in 1 .. Len(s) : s[n] \in Q /\ s[n][1] \in V
  BY DEF Firsts
<1>2. f \in Seq(V) /\ Len(f) = Len(s)
  BY <1>1
<1>3. Distinct(f)
  BY <1>2 DEF Distinct, OnceEach
<1> HIDE DEF f
<1> QED
  BY <1>2, <1>3, DistinctLength

LEMMA Uncapped ==
  ASSUME NEW S, NEW s \in Seq(S), NEW c \in Nat, Len(s) <= c
  PROVE  Capped(s, c) = s
<1>1. Len(s) \in Nat
  OBVIOUS
<1>2. (IF Len(s) < c THEN Len(s) ELSE c) = Len(s)
  BY <1>1
<1>3. SubSeq(s, 1, Len(s)) = s
  OBVIOUS
<1> QED
  BY <1>2, <1>3 DEF Capped

LEMMA Concatenated ==
  ASSUME NEW S, NEW s \in Seq(S), NEW t \in Seq(S)
  PROVE  /\ s \o t \in Seq(S) /\ Len(s \o t) = Len(s) + Len(t)
         /\ \A n \in 1 .. Len(s) : (s \o t)[n] = s[n]
         /\ \A n \in 1 .. Len(t) : (s \o t)[Len(s) + n] = t[n]
OBVIOUS

(* e is what s becomes when its last entry is popped and t pushed.         *)
PoppedPushed(e, s, t) ==
  /\ Len(e) = Len(s) - 1 + Len(t) /\ OnceEach(e)
  /\ Firsts(e) = (Firsts(s) \ {Last(s)[1]}) \cup Firsts(t)
  /\ \A n \in 1 .. Len(s) - 1 : e[n] = s[n]
  /\ \A n \in 1 .. Len(t) : e[Len(s) - 1 + n] = t[n]
  /\ \A n \in 1 .. Len(e) : n \in 1 .. Len(s) - 1 \/ n - (Len(s) - 1) \in 1 .. Len(t)

LEMMA PopPush ==
  ASSUME NEW Q, NEW s \in Seq(Q), s # <<>>, OnceEach(s),
         NEW t \in Seq(Q), OnceEach(t), Firsts(s) \cap Firsts(t) = {},
         NEW V, IsFiniteSet(V), Firsts(s) \cup Firsts(t) \subseteq V,
         NEW c \in Nat, Cardinality(V) <= c
  PROVE  LET e == Capped(Front(s) \o t, c) IN e \in Seq(Q) /\ PoppedPushed(e, s, t)
<1> DEFINE l == Len(s) - 1
           e == Front(s) \o t
<1>1. l \in Nat /\ Len(s) \in Nat /\ Len(t) \in Nat /\ l + 1 = Len(s)
  OBVIOUS
<1>2. /\ Front(s) \in Seq(Q) /\ Len(Front(s)) = l
      /\ \A n \in 1 .. l : Front(s)[n] = s[n]
  <2>1. Front(s) = SubSeq(s, 1, l)
    BY DEF Front
  <2>2. \A n \in 1 .. l : s[n] \in Q
    BY <1>1
  <2> HIDE DEF l
  <2> QED
    BY <1>1, <2>1, <2>2
<1> HIDE DEF l
<1>3. /\ e \in Seq(Q) /\ Len(e) = l + Len(t)
      /\ \A n \in 1 .. l : e[n] = s[n]
      /\ \A n \in 1 .. Len(t) : e[l + n] = t[n]
  <2> DEFINE F == Front(s)
  <2>1. F \in Seq(Q) /\ Len(F) = l /\ (\A n \in 1 .. l : F[n] = s[n]) /\ t \in Seq(Q)
    BY <1>2
  <2> HIDE DEF F
  <2>2. /\ F \o t \in Seq(Q) /\ Len(F \o t) = Len(F) + Len(t)
        /\ \A n \in 1 .. Len(F) : (F \o t)[n] = F[n]
        /\ \A n \in 1 .. Len(t) : (F \o t)[Len(F) + n] = t[n]
    <3>1. F \in Seq(Q) /\ t \in Seq(Q)
      BY <2>1
    <3> QED
      BY ONLY <3>1, Concatenated
  <2>3. e = F \o t
    BY DEF F
  <2> HIDE DEF e
  <2> QED
    BY <2>1, <2>2, <2>3
<1> HIDE DEF e
<1>4. \A n \in 1 .. Len(e) : n \in 1 .. l \/ (n - l \in 1 .. Len(t) /\ l + (n - l) = n)
  BY <1>1, <1>3
<1>5. \A n \in 1 .. Len(e) : \/ n \in 1 .. l /\ e[n] = s[n] /\ e[n][1] \in Firsts(s)
                             \/ /\ n - l \in 1 .. Len(t) /\ l + (n - l) = n /\ e[n] = t[n - l]
                                /\ e[n][1] \in Firsts(t)
  <2> SUFFICES ASSUME NEW n \in 1 .. Len(e)
               PROVE  \/ n \in 1 .. l /\ e[n] = s[n] /\ e[n][1] \in Firsts(s)
                      \/ /\ n - l \in 1 .. Len(t) /\ l + (n - l) = n /\ e[n] = t[n - l]
                         /\ e[n][1] \in Firsts(t)
    OBVIOUS
  <2>1. CASE n \in 1 .. l
    <3>1. n \in 1 .. Len(s)
      BY <1>1, <2>1
    <3> QED
      BY <1>3, <2>1, <3>1 DEF Firsts
  <2>2. CASE n - l \in 1 .. Len(t) /\ l + (n - l) = n
    <3>1. e[l + (n - l)] = t[n - l]
      BY <1>3, <2>2
    <3> QED
      BY <2>2, <3>1 DEF Firsts
  <2> QED
    BY <1>4, <2>1, <2>2
<1>6. OnceEach(e)
  <2> SUFFICES ASSUME NEW m \in 1 .. Len(e), NEW n \in 1 .. Len(e), e[m][1] = e[n][1] PROVE m = n
    BY DEF OnceEach
  <2>1. CASE m \in 1 .. l /\ n \in 1 .. l
    <3>1. m \in 1 .. Len(s) /\ n \in 1 .. Len(s)
      BY <1>1, <2>1
    <3> QED
      BY <1>3, <2>1, <3>1 DEF OnceEach
  <2>2. CASE /\ m - l \in 1 .. Len(t) /\ l + (m - l) = m /\ e[m] = t[m - l]
             /\ n - l \in 1 .. Len(t) /\ l + (n - l) = n /\ e[n] = t[n - l]
    <3>1. m - l = n - l
      BY <2>2 DEF OnceEach
    <3> QED
      BY <1>1, <2>2, <3>1
  <2> QED
    BY <1>5, <2>1, <2>2
<1>7. Firsts(e) = (Firsts(s) \ {Last(s)[1]}) \cup Firsts(t)
  <2>1. ASSUME NEW n \in 1 .. l PROVE s[n][1] # Last(s)[1]
    <3>1. n \in 1 .. Len(s) /\ Len(s) \in 1 .. Len(s) /\ n # Len(s)
      BY <1>1
    <3> QED
      BY <3>1 DEF OnceEach, Last
  <2>2. ASSUME NEW x \in Firsts(e) PROVE x \in (Firsts(s) \ {Last(s)[1]}) \cup Firsts(t)
    <3>1. PICK n \in 1 .. Len(e) : x = e[n][1]
      BY DEF Firsts
    <3> QED
      BY <1>3, <1>5, <2>1, <3>1
  <2>3. ASSUME NEW x \in Firsts(s) \ {Last(s)[1]} PROVE x \in Firsts(e)
    <3>1. PICK n \in 1 .. Len(s) : x = s[n][1]
      BY DEF Firsts
    <3>2. n # Len(s)
      BY <3>1 DEF Last
    <3>3. n \in 1 .. l /\ n \in 1 .. Len(e)
      BY <1>1, <1>3, <3>2
    <3> QED
      BY <1>3, <3>1, <3>3 DEF Firsts
  <2>4. ASSUME NEW x \in Firsts(t) PROVE x \in Firsts(e)
    <3>1. PICK n \in 1 .. Len(t) : x = t[n][1]
      BY DEF Firsts
    <3>2. l + n \in 1 .. Len(e)
      BY <1>1, <1>3
    <3> QED
      BY <1>3, <3>1, <3>2 DEF Firsts
  <2> QED
    BY <2>2, <2>3, <2>4
<1>8. Capped(e, c) = e
  <2>1. Firsts(e) \subseteq V
    BY <1>7
  <2>2. Len(e) <= Cardinality(V) /\ Cardinality(V) \in Nat
    BY <1>3, <1>6, <2>1, OnceEachFits, FS_CardinalityType
  <2>3. Len(e) <= c
    BY <1>1, <1>3, <2>2
  <2> QED
    BY <1>3, <2>3, Uncapped
<1> QED
  BY <1>1, <1>3, <1>4, <1>6, <1>7, <1>8 DEF e, l, PoppedPushed

----------------------------------------------------------------------------
(* What holds all along                                                    *)

Sound ==
  /\ in \in Input /\ ppid \in [Procs -> Nat] /\ cpu \in [Procs -> Nat]
  /\ vis \in [Procs -> BOOLEAN]
  /\ pc \in {"coalesce", "bfs", "layout", "done"} /\ scan \in 1 .. N + 1
  /\ queue \in Seq(Procs \X Procs) /\ enqueued \in SUBSET Procs /\ seeds \in SUBSET enqueued
  /\ procs \in Seq(Procs) /\ stack \in Seq(Procs \X (0 .. 255))
  /\ out \in Seq(Procs \X (0 .. 255))

(* What a phase has not begun with, and what one has left behind.          *)
Early ==
  /\ pc = "coalesce" => queue = <<>> /\ enqueued = {} /\ seeds = {} /\ ppid = in.ppid
  /\ pc \in {"coalesce", "bfs"} => procs = <<>> /\ stack = <<>> /\ out = <<>>
  /\ pc \in {"layout", "done"} => queue = <<>>

(* Popped, and with that all kids treated.                                 *)
Visited == enqueued \ Firsts(queue)

Treated(k) == Up(k) \in Visited

(* l is i or the nearest shown ancestor of it, and all below l are settled.*)
Leads(i, l) ==
  \E n \in Nat : /\ Path(i)[n] = l /\ vis[l]
                 /\ \A j \in 0 .. n - 1 : Path(i)[j] \in enqueued /\ ~vis[Path(i)[j]]

Pending1(a, l) == \E n \in 1 .. Len(queue) : queue[n] = <<a, l>>

Reached(k) == k \in seeds \/ \E n \in Nat \ {0} : Path(k)[n] \in seeds

Searched ==
  pc # "coalesce" =>
    /\ OnceEach(queue) /\ Firsts(queue) \subseteq enqueued
    /\ \A k \in Procs : k \in enqueued <=> k \in seeds \/ Treated(k)
    /\ \A k \in Procs : vis[k] <=> k \in seeds \/ (Treated(k) /\ cpu[k] >= Thresh(k))
    /\ \A k \in enqueued : Reached(k)
    /\ \A a, l \in Procs : Pending1(a, l) => Leads(a, l)
    /\ \A k \in Procs, u \in Places :
         Up(k) = u => IF vis[k] /\ u \in Visited /\ ~vis[u]
                        THEN \E l \in Procs : Leads(u, l) /\ ppid[k] = Pid[l]
                        ELSE ppid[k] = in.ppid[k]

LEMMA SameTable ==
  ASSUME in' = in
  PROVE  \A k : /\ Path(k)' = Path(k) /\ Up(k)' = Up(k) /\ Thresh(k)' = Thresh(k)
                /\ coalesce_root(k)' = coalesce_root(k)
<1>1. pid_to_idx' = pid_to_idx
  BY DEF pid_to_idx
<1>2. \A k : Up(k)' = Up(k)
  BY <1>1 DEF Up
<1>3. Climb' = Climb
  BY <1>2 DEF Climb
<1>4. \A k : Path(k)' = Path(k)
  BY <1>3 DEF Path
<1>5. \A k : Thresh(k)' = Thresh(k)
  BY DEF Thresh
<1>6. \A k : coalesce_root(k)' = coalesce_root(k)
  BY DEF coalesce_root, FoldsInto, Up, pid_to_idx
<1> QED
  BY <1>2, <1>4, <1>5, <1>6

LEMMA ScanListing ==
  ASSUME NEW S \in SUBSET Procs
  PROVE  Listing(InOrder(S, ScanOrder), S, ScanOrder)
<1>1. IsFiniteSet(S)
  BY ProcsFinite, FS_Subset
<1>2. \A k \in S : ScanOrder[k] \in Nat /\ ScanOrder[k] = k
  BY ProcsFinite DEF ScanOrder, Procs
<1> QED
  BY <1>1, <1>2, InOrderLists

LEMMA PidListing ==
  ASSUME NEW S \in SUBSET Procs
  PROVE  Listing(InOrder(S, Pid), S, Pid)
<1>1. IsFiniteSet(S)
  BY ProcsFinite, FS_Subset
<1>2. /\ \A k \in S : Pid[k] \in Nat
      /\ \A i, k \in S : Pid[i] = Pid[k] => i = k
  BY PidType, FilterAssumption DEF FilterAssumption
<1> QED
  BY <1>1, <1>2, InOrderLists

(* Pairs made from a listing.                                              *)
LEMMA Paired ==
  ASSUME NEW S \in SUBSET Procs, NEW key, NEW s, Listing(s, S, key),
         NEW Q, NEW t \in Seq(Q), Len(t) = Len(s), \A n \in 1 .. Len(s) : t[n][1] = s[n]
  PROVE  OnceEach(t) /\ Firsts(t) = S
BY DEF Listing, OnceEach, Firsts, Distinct, Members1

----------------------------------------------------------------------------
(* One entry popped: the search's part of the invariant, and that it has   *)
(* less to do                                                              *)

LEMMA VisitStep ==
  ASSUME Sound, Searched, Visit
  PROVE  /\ queue' \in Seq(Procs \X Procs) /\ enqueued' \in SUBSET Procs
         /\ vis' \in [Procs -> BOOLEAN] /\ ppid' \in [Procs -> Nat]
         /\ Searched'
         /\ \E c \in Nat : /\ Len(queue') = Len(queue) - 1 + c
                           /\ Cardinality(enqueued') = Cardinality(enqueued) + c
                           /\ Cardinality(enqueued') <= N
<1> DEFINE i == Last(queue)[1]
           last == Last(queue)[2]
           kids == KidSet(i)
           fresh == kids \ enqueued
           shown == [k \in Procs |-> vis[k] \/ (k \in kids /\ cpu[k] >= Thresh(k))]
           new == InOrder(fresh, ScanOrder)
           push == [n \in 1 .. Len(new) |-> <<new[n], NewLast(new[n], last, shown[new[n]])>>]
<1>1. /\ pc = "bfs" /\ queue # <<>> /\ in' = in /\ cpu' = cpu /\ pc' = pc /\ seeds' = seeds
      /\ vis' = shown
      /\ ppid' = [k \in Procs |-> IF k \in kids /\ shown[k] /\ ~vis[i] THEN Pid[last] ELSE ppid[k]]
      /\ enqueued' = enqueued \cup kids
      /\ queue' = Capped(Front(queue) \o push, N)
  BY DEF Visit, ToQueue, search, layout
<1>2. /\ OnceEach(queue) /\ Firsts(queue) \subseteq enqueued
      /\ \A k \in Procs : k \in enqueued <=> k \in seeds \/ Treated(k)
      /\ \A k \in Procs : vis[k] <=> k \in seeds \/ (Treated(k) /\ cpu[k] >= Thresh(k))
      /\ \A k \in enqueued : Reached(k)
      /\ \A a, l \in Procs : Pending1(a, l) => Leads(a, l)
      /\ \A k \in Procs, u \in Places :
           Up(k) = u => IF vis[k] /\ u \in Visited /\ ~vis[u]
                          THEN \E l \in Procs : Leads(u, l) /\ ppid[k] = Pid[l]
                          ELSE ppid[k] = in.ppid[k]
  BY <1>1 DEF Searched
<1>3. /\ in \in Input /\ vis \in [Procs -> BOOLEAN] /\ ppid \in [Procs -> Nat]
      /\ queue \in Seq(Procs \X Procs) /\ enqueued \in SUBSET Procs /\ seeds \in SUBSET enqueued
  BY DEF Sound
<1>4. Len(queue) \in 1 .. Len(queue) /\ Len(queue) \in Nat
  BY <1>1, <1>3
<1>5. i \in Procs /\ last \in Procs /\ i \in Firsts(queue) /\ i \in enqueued /\ Leads(i, last)
  <2>1. queue[Len(queue)] \in Procs \X Procs
    BY <1>3, <1>4
  <2>2. i \in Procs /\ last \in Procs /\ queue[Len(queue)] = <<i, last>>
    BY <2>1 DEF Last
  <2>3. Pending1(i, last)
    BY <1>4, <2>2 DEF Pending1
  <2> QED
    BY <1>2, <1>4, <2>1, <2>2, <2>3 DEF Last, Firsts
<1>6. kids \in SUBSET Procs /\ fresh \in SUBSET Procs /\ \A k \in Procs : k \in kids <=> Up(k) = i
  BY DEF KidSet
<1>7. Listing(new, fresh, ScanOrder)
  BY <1>6, ScanListing
<1>8. shown \in [Procs -> BOOLEAN] /\ \A k \in Procs : shown[k] <=> vis[k] \/ (k \in kids /\ cpu[k] >= Thresh(k))
  BY <1>3
<1>9. /\ Len(new) \in Nat /\ \A n \in 1 .. Len(new) : new[n] \in fresh
      /\ Len(new) = Cardinality(fresh) /\ Distinct(new)
  <2> HIDE DEF new, fresh
  <2> QED
    BY <1>7 DEF Listing
<1> HIDE DEF i, last, kids, fresh, shown, new
<1>10. /\ \A n \in 1 .. Len(new) : /\ push[n] = <<new[n], NewLast(new[n], last, shown[new[n]])>>
                                   /\ push[n][2] \in Procs
       /\ push \in Seq(Procs \X Procs) /\ Len(push) = Len(new)
  <2>1. \A n \in 1 .. Len(new) : NewLast(new[n], last, shown[new[n]]) \in Procs /\ new[n] \in Procs
    BY <1>5, <1>6, <1>9 DEF NewLast
  <2> DEFINE L == Len(new)
  <2>2. L \in Nat /\ push = [n \in 1 .. L |-> <<new[n], NewLast(new[n], last, shown[new[n]])>>]
    BY <1>9
  <2> HIDE DEF push, L
  <2>3. push \in [1 .. L -> Procs \X Procs]
    BY <2>1, <2>2 DEF L
  <2> QED
    BY <2>1, <2>2, <2>3 DEF L
<1> HIDE DEF push
<1>11. push \in Seq(Procs \X Procs) /\ Len(push) = Len(new) /\ OnceEach(push) /\ Firsts(push) = fresh
  BY <1>6, <1>7, <1>10, Paired
<1>12. /\ IsFiniteSet(enqueued) /\ IsFiniteSet(fresh) /\ IsFiniteSet(enqueued \cup fresh)
       /\ Cardinality(enqueued \cup fresh) = Cardinality(enqueued) + Cardinality(fresh)
       /\ Cardinality(enqueued \cup fresh) <= N
       /\ Cardinality(fresh) \in Nat /\ N \in Nat
       /\ enqueued \cup fresh = enqueued \cup kids
  <2>1. IsFiniteSet(enqueued) /\ IsFiniteSet(fresh)
    BY <1>3, <1>6, ProcsFinite, FS_Subset
  <2>2. enqueued \cap fresh = {}
    BY DEF fresh
  <2>3. Cardinality(enqueued) \in Nat /\ Cardinality(fresh) \in Nat
    BY <2>1, FS_CardinalityType
  <2>4. /\ IsFiniteSet(enqueued \cup fresh)
        /\ Cardinality(enqueued \cup fresh) =
             Cardinality(enqueued) + Cardinality(fresh) - Cardinality(enqueued \cap fresh)
    BY <2>1, FS_Union
  <2>5. Cardinality(enqueued \cup fresh) <= N
    <3>1. (enqueued \cup fresh) \in SUBSET Procs
      BY <1>3, <1>6
    <3> QED
      BY <3>1, ProcsFinite, FS_Subset
  <2>6. enqueued \cup fresh = enqueued \cup kids
    BY DEF fresh
  <2> QED
    BY <2>1, <2>2, <2>3, <2>4, <2>5, <2>6, FS_EmptySet, ProcsFinite
<1>13. Firsts(queue) \cap Firsts(push) = {}
  BY <1>2, <1>11 DEF fresh
<1>14. /\ queue' \in Seq(Procs \X Procs) /\ Len(queue') = Len(queue) - 1 + Len(new)
       /\ OnceEach(queue')
       /\ Firsts(queue') = (Firsts(queue) \ {i}) \cup fresh
       /\ \A n \in 1 .. Len(queue) - 1 : queue'[n] = queue[n]
       /\ \A n \in 1 .. Len(push) : queue'[Len(queue) - 1 + n] = push[n]
       /\ \A n \in 1 .. Len(queue') : \/ n \in 1 .. Len(queue) - 1
                                      \/ n - (Len(queue) - 1) \in 1 .. Len(push)
  <2> DEFINE V == enqueued \cup fresh
             e == Capped(Front(queue) \o push, N)
  <2>1. Firsts(queue) \cup Firsts(push) \subseteq V /\ IsFiniteSet(V) /\ Cardinality(V) <= N
    BY <1>2, <1>11, <1>12
  <2> HIDE DEF V
  <2>2. /\ e \in Seq(Procs \X Procs) /\ Len(e) = Len(queue) - 1 + Len(push) /\ OnceEach(e)
        /\ Firsts(e) = (Firsts(queue) \ {Last(queue)[1]}) \cup Firsts(push)
        /\ \A n \in 1 .. Len(queue) - 1 : e[n] = queue[n]
        /\ \A n \in 1 .. Len(push) : e[Len(queue) - 1 + n] = push[n]
        /\ \A n \in 1 .. Len(e) : \/ n \in 1 .. Len(queue) - 1
                                  \/ n - (Len(queue) - 1) \in 1 .. Len(push)
    <3>1. N \in Nat /\ queue # <<>>
      BY <1>1, <1>12
    <3>2. queue \in Seq(Procs \X Procs) /\ OnceEach(queue)
      BY <1>2, <1>3
    <3> DEFINE Q == Procs \X Procs
    <3>3. queue \in Seq(Q) /\ push \in Seq(Q) /\ OnceEach(push) /\ Firsts(queue) \cap Firsts(push) = {}
      BY <1>11, <1>13, <3>2
    <3> HIDE DEF Q
    <3>4. e \in Seq(Q)
      BY ONLY <3>3, <2>1, <3>1, <3>2, PopPush
    <3>5. PoppedPushed(e, queue, push)
      BY ONLY <3>3, <2>1, <3>1, <3>2, PopPush
    <3> QED
      BY <3>4, <3>5 DEF Q, PoppedPushed
  <2> HIDE DEF e
  <2>3. queue' = e
    BY <1>1 DEF e
  <2> QED
    BY <1>11, <2>2, <2>3 DEF i
<1>15. \A k : /\ Path(k)' = Path(k) /\ Up(k)' = Up(k) /\ Thresh(k)' = Thresh(k)
  BY <1>1, SameTable
<1>16. Visited' = Visited \cup {i}
  BY <1>1, <1>2, <1>5, <1>14 DEF Visited, fresh
<1>17. \A k \in Procs : /\ Treated(k)' <=> Treated(k) \/ k \in kids
                        /\ k \in kids => ~Treated(k)
  BY <1>5, <1>6, <1>15, <1>16 DEF Treated, Visited
<1>18. \A k \in enqueued : vis'[k] <=> vis[k]
  BY <1>1, <1>2, <1>3, <1>8, <1>17
<1>19. \A k \in Procs : vis[k] => vis'[k]
  BY <1>1, <1>8
<1> DEFINE LeadsOn(a, l) == \E n \in Nat : /\ Path(a)[n] = l /\ vis'[l]
                                           /\ \A j \in 0 .. n - 1 : /\ Path(a)[j] \in enqueued'
                                                                    /\ ~vis'[Path(a)[j]]
<1>20. /\ \A a, l \in Procs : Leads(a, l) => LeadsOn(a, l)
       /\ \A a, l : LeadsOn(a, l) <=> Leads(a, l)'
  <2>1. ASSUME NEW a \in Procs, NEW l \in Procs, Leads(a, l) PROVE LeadsOn(a, l)
    <3>1. PICK n \in Nat : /\ Path(a)[n] = l /\ vis[l]
                           /\ \A j \in 0 .. n - 1 : Path(a)[j] \in enqueued /\ ~vis[Path(a)[j]]
      BY <2>1 DEF Leads
    <3>2. vis'[l] /\ \A j \in 0 .. n - 1 : Path(a)[j] \in enqueued' /\ ~vis'[Path(a)[j]]
      BY <1>1, <1>18, <1>19, <3>1
    <3> QED
      BY <3>1, <3>2
  <2>2. \A a, l : LeadsOn(a, l) <=> Leads(a, l)'
    BY <1>15 DEF Leads
  <2> HIDE DEF LeadsOn
  <2> QED
    BY <2>1, <2>2
<1>21. \A k \in Procs : k \in enqueued' <=> k \in seeds' \/ Treated(k)'
  BY <1>1, <1>2, <1>17
<1>22. \A k \in Procs : vis'[k] <=> k \in seeds' \/ (Treated(k)' /\ cpu'[k] >= Thresh(k)')
  BY <1>1, <1>2, <1>8, <1>15, <1>17
<1>23. ASSUME NEW k \in enqueued' PROVE Reached(k)'
  <2>1. CASE k \in enqueued
    BY <1>1, <1>2, <1>15, <2>1 DEF Reached
  <2>2. CASE k \in kids
    <3>1. k \in Procs /\ Up(k) = i
      BY <1>6, <2>2
    <3>2. \A n \in Nat : Path(k)[n + 1] = Path(i)[n]
      BY <1>3, <3>1, PathUp
    <3>3. Path(i)[0] = i
      BY <1>3, <1>5, PathUp
    <3>4. \E n \in Nat : Path(i)[n] \in seeds
      BY <1>2, <1>5, <3>3 DEF Reached
    <3>5. \E n \in Nat \ {0} : Path(k)[n] \in seeds
      <4>1. PICK n \in Nat : Path(i)[n] \in seeds
        BY <3>4
      <4>2. n + 1 \in Nat \ {0} /\ Path(k)[n + 1] \in seeds
        BY <3>2, <4>1
      <4> QED
        BY <4>2
    <3> QED
      BY <1>1, <1>15, <3>5 DEF Reached
  <2> QED
    BY <1>1, <2>1, <2>2
<1>24. ASSUME NEW n \in 1 .. Len(queue') PROVE LeadsOn(queue'[n][1], queue'[n][2])
  <2>1. CASE n \in 1 .. Len(queue) - 1
    <3>1. queue'[n] = queue[n] /\ n \in 1 .. Len(queue)
      BY <1>4, <1>14, <2>1
    <3>2. PICK a \in Procs, l \in Procs : queue[n] = <<a, l>>
      BY <1>3, <3>1
    <3>3. Leads(a, l)
      BY <1>2, <3>1, <3>2 DEF Pending1
    <3> HIDE DEF LeadsOn
    <3>4. LeadsOn(a, l) /\ queue'[n][1] = a /\ queue'[n][2] = l
      BY <1>20, <3>1, <3>2, <3>3
    <3> QED
      BY <3>4
  <2>2. CASE n - (Len(queue) - 1) \in 1 .. Len(push)
    <3> DEFINE m == n - (Len(queue) - 1)
               k == new[m]
    <3>1. m \in 1 .. Len(push) /\ Len(queue) - 1 + m = n
      BY <1>4, <2>2
    <3>2. queue'[Len(queue) - 1 + m] = push[m]
      BY <1>14, <3>1
    <3>3. queue'[n] = <<k, NewLast(k, last, shown[k])>> /\ k \in fresh
      BY <1>9, <1>10, <1>11, <3>1, <3>2
    <3>4. k \in Procs /\ k \in kids /\ Up(k) = i
      BY <1>6, <3>3 DEF fresh
    <3> HIDE DEF k, m
    <3>5. Path(k)[0] = k /\ \A x \in Nat : Path(k)[x + 1] = Path(i)[x]
      BY <1>3, <3>4, PathUp
    <3>6. CASE shown[k]
      <4>1. 0 \in Nat /\ \A j \in 0 .. 0 - 1 : FALSE
        OBVIOUS
      <4>2. LeadsOn(k, k)
        BY <1>1, <3>5, <3>6, <4>1
      <4>3. queue'[n][1] = k /\ queue'[n][2] = k
        BY <3>3, <3>6 DEF NewLast
      <4> HIDE DEF LeadsOn
      <4> QED
        BY <4>2, <4>3
    <3>7. CASE ~shown[k]
      <4>1. PICK x \in Nat : /\ Path(i)[x] = last /\ vis[last]
                             /\ \A j \in 0 .. x - 1 : Path(i)[j] \in enqueued /\ ~vis[Path(i)[j]]
        BY <1>5 DEF Leads
      <4>2. Path(k)[x + 1] = last /\ vis'[last] /\ x + 1 \in Nat
        <5>1. last \in Procs /\ vis[last] /\ x + 1 \in Nat
          BY <1>5, <4>1
        <5>2. vis'[last]
          BY <1>19, <5>1
        <5>3. Path(k)[x + 1] = last
          BY <3>5, <4>1
        <5> QED
          BY <5>1, <5>2, <5>3
      <4>3. \A j \in 0 .. (x + 1) - 1 : Path(k)[j] \in enqueued' /\ ~vis'[Path(k)[j]]
        <5> SUFFICES ASSUME NEW j \in 0 .. (x + 1) - 1
                     PROVE  Path(k)[j] \in enqueued' /\ ~vis'[Path(k)[j]]
          OBVIOUS
        <5>1. CASE j = 0
          BY <1>1, <3>4, <3>5, <3>7, <5>1
        <5>2. CASE j # 0
          <6>1. j - 1 \in Nat /\ (j - 1) + 1 = j /\ j - 1 \in 0 .. x - 1
            BY <4>1, <5>2
          <6>2. Path(k)[j] = Path(i)[j - 1]
            BY <3>5, <6>1
          <6> QED
            BY <1>1, <1>18, <4>1, <6>1, <6>2
        <5> QED
          BY <5>1, <5>2
      <4>4. LeadsOn(k, last)
        BY <4>2, <4>3
      <4>5. queue'[n][1] = k /\ queue'[n][2] = last
        BY <3>3, <3>7 DEF NewLast
      <4> HIDE DEF LeadsOn
      <4> QED
        BY <4>4, <4>5
    <3> QED
      BY <3>6, <3>7
  <2> QED
    BY <1>14, <2>1, <2>2
<1>25. ASSUME NEW k \in Procs, NEW u \in Places, Up(k) = u
       PROVE  IF vis'[k] /\ u \in Visited' /\ ~vis'[u]
                THEN \E l \in Procs : LeadsOn(u, l) /\ ppid'[k] = Pid[l]
                ELSE ppid'[k] = in'.ppid[k]
  <2> HIDE DEF LeadsOn
  <2>1. CASE k \in kids
    <3>1. u = i /\ u \in Procs /\ u \notin Visited /\ u \in Visited' /\ (vis'[u] <=> vis[u])
      BY <1>5, <1>6, <1>16, <1>18, <1>25, <2>1 DEF Visited
    <3>2. ppid[k] = in.ppid[k]
      BY <1>2, <1>25, <3>1
    <3>3. ppid'[k] = IF shown[k] /\ ~vis[u] THEN Pid[last] ELSE ppid[k]
      BY <1>1, <2>1, <3>1
    <3>4. LeadsOn(u, last)
      BY <1>5, <1>20, <3>1
    <3> QED
      BY <1>1, <1>5, <3>1, <3>2, <3>3, <3>4
  <2>2. CASE k \notin kids
    <3>1. /\ (vis'[k] <=> vis[k]) /\ ppid'[k] = ppid[k] /\ u # i
      BY <1>1, <1>3, <1>6, <1>8, <1>25, <2>2
    <3>2. (u \in Visited' <=> u \in Visited) /\ (u \in Visited => u \in enqueued)
      BY <1>16, <3>1 DEF Visited
    <3>3. u \in Visited => (vis'[u] <=> vis[u]) /\ u \in Procs
      BY <1>3, <1>18, <3>2
    <3>4. \A l \in Procs : u \in Procs /\ Leads(u, l) => LeadsOn(u, l)
      BY <1>20
    <3>5. IF vis[k] /\ u \in Visited /\ ~vis[u]
            THEN \E l \in Procs : Leads(u, l) /\ ppid[k] = Pid[l]
            ELSE ppid[k] = in.ppid[k]
      BY <1>2, <1>25
    <3> QED
      BY <1>1, <3>1, <3>2, <3>3, <3>4, <3>5
  <2> QED
    BY <2>1, <2>2
<1>26. Searched'
  <2> HIDE DEF LeadsOn
  <2>1. ASSUME NEW a \in Procs, NEW l \in Procs, Pending1(a, l)' PROVE Leads(a, l)'
    <3>1. PICK n \in 1 .. Len(queue') : queue'[n] = <<a, l>>
      BY <2>1 DEF Pending1
    <3>2. LeadsOn(queue'[n][1], queue'[n][2]) /\ queue'[n][1] = a /\ queue'[n][2] = l
      BY <1>24, <3>1
    <3>3. LeadsOn(a, l)
      BY <3>2
    <3> QED
      BY <1>20, <3>3
  <2>2. ASSUME NEW k \in Procs, NEW u \in Places, Up(k)' = u
        PROVE  IF vis'[k] /\ u \in Visited' /\ ~vis'[u]
                 THEN \E l \in Procs : Leads(u, l)' /\ ppid'[k] = Pid[l]
                 ELSE ppid'[k] = in'.ppid[k]
    BY <1>15, <1>20, <1>25, <2>2
  <2>3. Firsts(queue') \subseteq enqueued'
    BY <1>1, <1>2, <1>14 DEF fresh
  <2> QED
    BY <1>14, <1>21, <1>22, <1>23, <2>1, <2>2, <2>3 DEF Searched
<1>27. enqueued' \in SUBSET Procs /\ vis' \in [Procs -> BOOLEAN] /\ ppid' \in [Procs -> Nat]
  <2>1. Pid[last] \in Nat
    BY <1>5, PidType
  <2> QED
    BY <1>1, <1>3, <1>6, <1>8, <2>1
<1> QED
  BY <1>1, <1>9, <1>12, <1>14, <1>26, <1>27

----------------------------------------------------------------------------
(* The steps before the search                                             *)

(* Rows that nothing folds into keep what they had or give it away.        *)
Unfolded ==
  \A k \in Procs : (\A i \in Procs : coalesce_root(i) # k) =>
    /\ cpu[k] \in {in.cpu[k], 0}
    /\ pc = "coalesce" /\ vis[k] => in.vis[k]
    /\ k \in seeds => in.vis[k]

LEMMA CoalesceStep ==
  ASSUME Sound, Early, Unfolded, Coalesce
  PROVE  Sound' /\ Early' /\ Unfolded' /\ pc' = "coalesce" /\ scan < scan'
<1> DEFINE i == Min(ToFold)
           r == coalesce_root(i)
           surface == vis[i] \/ (in.mac /\ in.name[r] = "launchd_sim")
           hidden == [vis EXCEPT ![i] = FALSE]
           zeroed == [cpu EXCEPT ![i] = 0]
<1>1. /\ pc = "coalesce" /\ pc' = pc /\ in' = in /\ ppid' = ppid /\ ToFold # {}
      /\ queue' = queue /\ enqueued' = enqueued /\ seeds' = seeds
      /\ procs' = procs /\ stack' = stack /\ out' = out
      /\ vis' = [hidden EXCEPT ![r] = @ \/ surface]
      /\ cpu' = [zeroed EXCEPT ![r] = @ + cpu[i]]
      /\ scan' = i + 1
  BY DEF Coalesce, search, layout
<1>2. in \in Input /\ cpu \in [Procs -> Nat] /\ vis \in [Procs -> BOOLEAN] /\ scan \in 1 .. N + 1
  BY DEF Sound
<1>3. i \in ToFold
  <2>1. ToFold \in SUBSET Nat
    BY <1>2, ProcsFinite DEF ToFold
  <2> HIDE DEF i
  <2> QED
    BY <1>1, <2>1, MinOfNumbers DEF i
<1> HIDE DEF i
<1>4. i \in scan .. N /\ i \in Procs /\ r # 0
  BY <1>2, <1>3, ProcsFinite DEF ToFold, Procs
<1>5. r \in Procs
  BY <1>2, <1>4, RootType DEF Places
<1> HIDE DEF r, surface
<1>6. scan' \in 1 .. N + 1 /\ scan < scan'
  BY <1>1, <1>2, <1>4, ProcsFinite
<1>7. hidden \in [Procs -> BOOLEAN] /\ \A k \in Procs : hidden[k] => vis[k]
  BY <1>2, <1>4
<1>8. zeroed \in [Procs -> Nat] /\ cpu[i] \in Nat /\ \A k \in Procs : zeroed[k] \in {cpu[k], 0}
  BY <1>2, <1>4
<1> HIDE DEF hidden, zeroed
<1>9. vis' \in [Procs -> BOOLEAN] /\ \A k \in Procs : k # r => vis'[k] = hidden[k]
  <2>1. (hidden[r] \/ surface) \in BOOLEAN
    OBVIOUS
  <2> QED
    BY <1>1, <1>5, <1>7, <2>1
<1>10. cpu' \in [Procs -> Nat] /\ \A k \in Procs : k # r => cpu'[k] = zeroed[k]
  BY <1>1, <1>5, <1>8
<1>11. Sound'
  BY <1>1, <1>6, <1>9, <1>10 DEF Sound
<1>12. Early'
  BY <1>1 DEF Early
<1>13. Unfolded'
  <2> SUFFICES ASSUME NEW k \in Procs, \A j \in Procs : coalesce_root(j)' # k
               PROVE  /\ cpu'[k] \in {in'.cpu[k], 0}
                      /\ pc' = "coalesce" /\ vis'[k] => in'.vis[k]
                      /\ k \in seeds' => in'.vis[k]
    BY DEF Unfolded
  <2>1. \A j \in Procs : coalesce_root(j) # k
    BY <1>1, SameTable
  <2>2. k # r
    BY <1>4, <2>1 DEF r
  <2>3. cpu[k] \in {in.cpu[k], 0} /\ (vis[k] => in.vis[k]) /\ (k \in seeds => in.vis[k])
    BY <1>1, <2>1 DEF Unfolded
  <2> QED
    BY <1>1, <1>7, <1>8, <1>9, <1>10, <2>2, <2>3
<1> QED
  BY <1>1, <1>6, <1>11, <1>12, <1>13

LEMMA SeedStep ==
  ASSUME Sound, Early, Unfolded, Seed
  PROVE  Sound' /\ Early' /\ Unfolded' /\ Searched' /\ pc' = "bfs"
<1> DEFINE ks == InOrder(seeds', ScanOrder)
<1>1. /\ pc = "coalesce" /\ pc' = "bfs" /\ in' = in /\ ppid' = ppid /\ cpu' = cpu /\ vis' = vis
      /\ scan' = scan /\ procs' = procs /\ stack' = stack /\ out' = out
      /\ seeds' = {k \in Procs : vis[k]} /\ enqueued' = seeds'
      /\ queue' = [n \in DOMAIN ks |-> <<ks[n], ks[n]>>]
  BY DEF Seed, fields, layout
<1>2. Listing(ks, seeds', ScanOrder)
  <2> DEFINE S == {k \in Procs : vis[k]}
  <2>1. S \in SUBSET Procs
    OBVIOUS
  <2> HIDE DEF S
  <2>2. Listing(InOrder(S, ScanOrder), S, ScanOrder)
    BY <2>1, ScanListing
  <2> QED
    BY <1>1, <2>2 DEF S
<1>3. /\ ks \in Seq(seeds') /\ seeds' \in SUBSET Procs
      /\ DOMAIN ks = 1 .. Len(ks) /\ Len(ks) \in Nat /\ \A n \in 1 .. Len(ks) : ks[n] \in seeds'
  <2>1. ks \in Seq(seeds')
    BY <1>2 DEF Listing
  <2> HIDE DEF ks
  <2> QED
    BY <1>1, <2>1
<1> HIDE DEF ks
<1>4. /\ queue' \in Seq(Procs \X Procs) /\ Len(queue') = Len(ks)
      /\ \A n \in 1 .. Len(ks) : queue'[n] = <<ks[n], ks[n]>>
  <2> DEFINE L == Len(ks)
  <2>1. L \in Nat /\ queue' = [n \in 1 .. L |-> <<ks[n], ks[n]>>] /\ \A n \in 1 .. L : ks[n] \in Procs
    BY <1>1, <1>3
  <2> HIDE DEF L
  <2> QED
    BY <2>1 DEF L
<1>5. /\ queue' \in Seq(Procs \X Procs) /\ Len(queue') = Len(ks)
      /\ OnceEach(queue') /\ Firsts(queue') = seeds'
  <2> DEFINE q == queue'
             S == seeds'
  <2>1. S \in SUBSET Procs /\ Listing(ks, S, ScanOrder)
    BY <1>2, <1>3
  <2>2. q \in Seq(Procs \X Procs) /\ Len(q) = Len(ks) /\ \A n \in 1 .. Len(ks) : q[n][1] = ks[n]
    BY <1>4
  <2> HIDE DEF q, S
  <2>3. OnceEach(q) /\ Firsts(q) = S
    BY ONLY <2>1, <2>2, Paired
  <2> QED
    BY <2>2, <2>3 DEF q, S
<1>6. in \in Input /\ vis \in [Procs -> BOOLEAN]
  BY DEF Sound
<1>7. Sound'
  BY <1>1, <1>3, <1>5 DEF Sound
<1>8. Early'
  BY <1>1 DEF Early
<1>9. Unfolded'
  BY <1>1, SameTable DEF Unfolded
<1>10. Visited' = {}
  BY <1>1, <1>5 DEF Visited
<1>11. ASSUME NEW a \in Procs, NEW l \in Procs, Pending1(a, l)' PROVE Leads(a, l)'
  <2>1. PICK n \in 1 .. Len(queue') : queue'[n] = <<a, l>>
    BY <1>11 DEF Pending1
  <2>2. a = l /\ a \in seeds' /\ vis'[a]
    BY <1>1, <1>3, <1>4, <1>5, <2>1
  <2>3. Path(a)[0] = a /\ Path(a)' = Path(a)
    BY <1>1, <1>6, PathUp, SameTable
  <2>4. \A j \in 0 .. 0 - 1 : FALSE
    OBVIOUS
  <2>5. /\ 0 \in Nat /\ Path(a)'[0] = l /\ vis'[l]
        /\ \A j \in 0 .. 0 - 1 : Path(a)'[j] \in enqueued' /\ ~vis'[Path(a)'[j]]
    BY <2>2, <2>3, <2>4
  <2> QED
    BY <2>5 DEF Leads
<1>12. /\ \A k \in Procs : k \in enqueued' <=> k \in seeds' \/ Treated(k)'
       /\ \A k \in Procs : vis'[k] <=> k \in seeds' \/ (Treated(k)' /\ cpu'[k] >= Thresh(k)')
       /\ \A k \in enqueued' : Reached(k)'
  BY <1>1, <1>6, <1>10 DEF Treated, Reached
<1>13. \A k \in Procs : ppid'[k] = in'.ppid[k]
  BY <1>1 DEF Early
<1>14. Searched'
  BY <1>1, <1>5, <1>10, <1>11, <1>12, <1>13 DEF Searched
<1> QED
  BY <1>1, <1>7, <1>8, <1>9, <1>14

----------------------------------------------------------------------------
(* The layout                                                              *)

Shown == {k \in Procs : vis[k]}

Rooted(k) == \A p \in Shown : Pid[p] # ppid[k]

(* What is drawn or waits to be: the roots that were passed, and the kids  *)
(* of what is drawn.                                                       *)
LaidOut ==
  pc \in {"layout", "done"} =>
    /\ Listing(procs, Shown, Pid) /\ scan <= Len(procs) + 1
    /\ OnceEach(out) /\ OnceEach(stack) /\ Firsts(out) \cap Firsts(stack) = {}
    /\ Firsts(out) \cup Firsts(stack) \subseteq Shown
    /\ \A k \in Shown :
         k \in Firsts(out) \cup Firsts(stack) <=>
           \/ Rooted(k) /\ \E n \in 1 .. scan - 1 : procs[n] = k
           \/ \E p \in Firsts(out) : ppid[k] = Pid[p]
    /\ pc = "done" => stack = <<>> /\ RootsLeft = {}

LEMMA RetainStep ==
  ASSUME Sound, Early, Retain
  PROVE  Sound' /\ Early' /\ LaidOut' /\ pc' = "layout"
<1>1. /\ pc = "bfs" /\ queue = <<>> /\ pc' = "layout" /\ scan' = 1
      /\ procs' = InOrder({k \in Procs : vis[k]}, Pid)
      /\ in' = in /\ ppid' = ppid /\ cpu' = cpu /\ vis' = vis
      /\ queue' = queue /\ enqueued' = enqueued /\ seeds' = seeds /\ stack' = stack /\ out' = out
  BY DEF Retain, fields, search
<1>2. Shown \in SUBSET Procs /\ Shown' = Shown /\ procs' = InOrder(Shown, Pid)
  BY <1>1 DEF Shown
<1>3. Listing(procs', Shown, Pid)
  BY <1>2, PidListing
<1>4. procs' \in Seq(Shown) /\ Len(procs') \in Nat
  BY <1>3 DEF Listing
<1>5. procs' \in Seq(Procs)
  BY <1>2, <1>4
<1>6. Sound'
  BY <1>1, <1>5, ProcsFinite DEF Sound
<1>7. Early'
  BY <1>1 DEF Early
<1>8. stack = <<>> /\ out = <<>> /\ Firsts(<<>>) = {} /\ OnceEach(<<>>)
  BY <1>1 DEF Early, Firsts, OnceEach
<1>9. LaidOut'
  <2>1. Listing(procs', Shown', Pid) /\ scan' <= Len(procs') + 1
    BY <1>1, <1>2, <1>3, <1>4
  <2>2. \A n \in 1 .. 1 - 1 : FALSE
    OBVIOUS
  <2> QED
    BY <1>1, <1>8, <2>1, <2>2 DEF LaidOut
<1> QED
  BY <1>1, <1>6, <1>7, <1>9

LEMMA RootedIsRoot ==
  ASSUME Listing(procs, Shown, Pid)
  PROVE  Rows = Shown /\ \A k : IsRoot(k) <=> Rooted(k)
BY DEF Listing, Members1, Rows, IsRoot, Rooted

LEMMA NextRootStep ==
  ASSUME Sound, Early, LaidOut, NextRoot
  PROVE  Sound' /\ Early' /\ LaidOut' /\ pc' = "layout" /\ scan < scan' /\ scan' <= N + 1
<1> DEFINE m == Min(RootsLeft)
           r == procs[m]
<1>1. /\ pc = "layout" /\ pc' = pc /\ stack = <<>> /\ RootsLeft # {}
      /\ stack' = <<<<r, 0>>>> /\ scan' = m + 1
      /\ in' = in /\ ppid' = ppid /\ cpu' = cpu /\ vis' = vis
      /\ queue' = queue /\ enqueued' = enqueued /\ seeds' = seeds
      /\ procs' = procs /\ out' = out
  BY DEF NextRoot, fields, search
<1>2. /\ Listing(procs, Shown, Pid) /\ scan <= Len(procs) + 1
      /\ OnceEach(out) /\ Firsts(out) \cup Firsts(stack) \subseteq Shown
      /\ \A k \in Shown :
           k \in Firsts(out) \cup Firsts(stack) <=>
             \/ Rooted(k) /\ \E n \in 1 .. scan - 1 : procs[n] = k
             \/ \E p \in Firsts(out) : ppid[k] = Pid[p]
  BY <1>1 DEF LaidOut
<1>3. /\ procs \in Seq(Shown) /\ Len(procs) \in Nat /\ Len(procs) = Cardinality(Shown)
      /\ Distinct(procs) /\ Shown \in SUBSET Procs /\ scan \in 1 .. N + 1 /\ N \in Nat
      /\ Len(procs) <= N
  <2>1. Shown \in SUBSET Procs
    BY DEF Shown
  <2>2. Cardinality(Shown) <= N
    BY <2>1, ProcsFinite, FS_Subset
  <2> QED
    BY <1>2, <2>1, <2>2, ProcsFinite DEF Listing, Sound
<1>4. m \in RootsLeft /\ \A n \in RootsLeft : m <= n
  <2>1. RootsLeft \in SUBSET Nat
    BY <1>3 DEF RootsLeft
  <2> HIDE DEF m
  <2> QED
    BY <1>1, <2>1, MinOfNumbers DEF m
<1> HIDE DEF m
<1>5. m \in scan .. Len(procs) /\ m \in 1 .. Len(procs) /\ r \in Shown /\ r \in Procs /\ Rooted(r)
  <2>1. m \in scan .. Len(procs) /\ IsRoot(r)
    BY <1>4 DEF RootsLeft
  <2>2. Rooted(r)
    BY <1>2, <2>1, RootedIsRoot
  <2> QED
    BY <1>3, <2>1, <2>2
<1>6. Firsts(stack) = {} /\ Firsts(stack') = {r} /\ OnceEach(stack')
  <2>1. Len(<<<<r, 0>>>>) = 1 /\ <<<<r, 0>>>>[1] = <<r, 0>>
    OBVIOUS
  <2> HIDE DEF r
  <2>2. Len(stack') = 1 /\ stack'[1][1] = r /\ Len(stack) = 0
    BY <1>1, <2>1
  <2> QED
    BY <2>2 DEF Firsts, OnceEach
<1>7. r \notin Firsts(out)
  <2> SUFFICES ASSUME r \in Firsts(out) PROVE FALSE
    OBVIOUS
  <2>1. CASE \E n \in 1 .. scan - 1 : procs[n] = r
    <3>1. PICK n \in 1 .. scan - 1 : procs[n] = r
      BY <2>1
    <3>2. n \in 1 .. Len(procs) /\ n # m
      BY <1>2, <1>3, <1>5
    <3> QED
      BY <1>3, <1>5, <3>1, <3>2 DEF Distinct
  <2>2. CASE \E p \in Firsts(out) : ppid[r] = Pid[p]
    BY <1>2, <1>5, <2>2 DEF Rooted
  <2> QED
    BY <1>2, <1>5, <2>1, <2>2
<1>8. Shown' = Shown /\ \A k : Rooted(k)' <=> Rooted(k)
  BY <1>1 DEF Shown, Rooted
<1>9. ASSUME NEW k \in Shown
      PROVE  k \in Firsts(out) \cup {r} <=>
               \/ Rooted(k) /\ \E n \in 1 .. scan' - 1 : procs[n] = k
               \/ \E p \in Firsts(out) : ppid[k] = Pid[p]
  <2>1. \A n \in 1 .. scan' - 1 : n \in 1 .. scan - 1 \/ n = m \/ n \in scan .. m - 1
    BY <1>1, <1>3, <1>5
  <2>2. \A n \in 1 .. scan - 1 : n \in 1 .. scan' - 1
    BY <1>1, <1>3, <1>5
  <2>3. m \in 1 .. scan' - 1
    BY <1>1, <1>3, <1>5
  <2>4. ASSUME NEW n \in scan .. m - 1, procs[n] = k PROVE ~Rooted(k)
    <3>1. n \in scan .. Len(procs) /\ ~(m <= n)
      BY <1>3, <1>5
    <3>2. ~IsRoot(procs[n])
      BY <1>4, <3>1 DEF RootsLeft
    <3> QED
      BY <1>2, <2>4, <3>2, RootedIsRoot
  <2>5. (\E n \in 1 .. scan' - 1 : procs[n] = k) /\ Rooted(k) <=>
           (\/ \E n \in 1 .. scan - 1 : procs[n] = k
            \/ k = r) /\ Rooted(k)
    BY <2>1, <2>2, <2>3, <2>4
  <2> QED
    BY <1>2, <1>5, <1>6, <2>5
<1>10. LaidOut'
  <2> HIDE DEF r
  <2>1. scan' <= Len(procs') + 1
    BY <1>1, <1>3, <1>5
  <2>2. Firsts(out') \cap Firsts(stack') = {} /\ Firsts(out') \cup Firsts(stack') \subseteq Shown'
    BY <1>1, <1>2, <1>5, <1>6, <1>7, <1>8
  <2>3. \A k \in Shown' :
          k \in Firsts(out') \cup Firsts(stack') <=>
             \/ Rooted(k)' /\ \E n \in 1 .. scan' - 1 : procs'[n] = k
             \/ \E p \in Firsts(out') : ppid'[k] = Pid[p]
    BY <1>1, <1>6, <1>8, <1>9
  <2> QED
    BY <1>1, <1>2, <1>6, <1>8, <2>1, <2>2, <2>3 DEF LaidOut
<1>11. scan' \in 1 .. N + 1 /\ scan < scan'
  BY <1>1, <1>3, <1>5
<1>12. stack' \in Seq(Procs \X (0 .. 255))
  <2>1. <<r, 0>> \in Procs \X (0 .. 255)
    BY <1>5
  <2> HIDE DEF r
  <2> QED
    BY <1>1, <2>1
<1>13. Sound'
  BY <1>1, <1>11, <1>12 DEF Sound
<1>14. Early'
  BY <1>1 DEF Early
<1> QED
  BY <1>1, <1>10, <1>11, <1>13, <1>14

LEMMA Reversed ==
  ASSUME NEW Q, NEW t \in Seq(Q), OnceEach(t)
  PROVE  /\ Reverse(t) \in Seq(Q) /\ Len(Reverse(t)) = Len(t)
         /\ OnceEach(Reverse(t)) /\ Firsts(Reverse(t)) = Firsts(t)
         /\ \A n \in 1 .. Len(t) : Reverse(t)[n] = t[(Len(t) - n) + 1]
<1> DEFINE L == Len(t)
           e == Reverse(t)
<1>1. L \in Nat /\ e = [n \in 1 .. L |-> t[(L - n) + 1]]
  BY DEF Reverse
<1>2. \A n \in 1 .. L : t[n] \in Q
  OBVIOUS
<1>3. Len(t) = L
  OBVIOUS
<1> HIDE DEF L, e
<1>4. \A n \in 1 .. L : (L - n) + 1 \in 1 .. L /\ (L - ((L - n) + 1)) + 1 = n
  BY <1>1
<1>5. \A n \in 1 .. L : e[n] = t[(L - n) + 1] /\ e[n] \in Q
  BY <1>1, <1>2, <1>4
<1>6. e \in Seq(Q) /\ Len(e) = L
  <2>1. e \in [1 .. L -> Q] /\ L \in Nat
    BY <1>1, <1>2, <1>4
  <2>2. e \in Seq(Q) /\ Len(e) = L
    BY ONLY <2>1
  <2> QED
    BY <2>2
<1>7. OnceEach(e)
  <2> SUFFICES ASSUME NEW m \in 1 .. L, NEW n \in 1 .. L, e[m][1] = e[n][1] PROVE m = n
    BY <1>6 DEF OnceEach
  <2>1. PICK i \in 1 .. L : i = (L - m) + 1 /\ e[m] = t[i]
    BY <1>4, <1>5
  <2>2. PICK j \in 1 .. L : j = (L - n) + 1 /\ e[n] = t[j]
    BY <1>4, <1>5
  <2>3. i = j
    <3>1. t[i][1] = t[j][1] /\ \A x, y \in 1 .. L : t[x][1] = t[y][1] => x = y
      BY <1>3, <2>1, <2>2 DEF OnceEach
    <3> QED
      BY <3>1
  <2> QED
    BY ONLY <1>1, <2>1, <2>2, <2>3, m \in 1 .. L, n \in 1 .. L
<1>8. Firsts(e) = Firsts(t)
  <2>1. ASSUME NEW n \in 1 .. L PROVE \E m \in 1 .. L : e[n] = t[m]
    BY <1>4, <1>5
  <2>2. ASSUME NEW n \in 1 .. L PROVE \E m \in 1 .. L : t[n] = e[m]
    <3>1. PICK m \in 1 .. L : m = (L - n) + 1 /\ (L - m) + 1 = n
      BY <1>4
    <3>2. e[m] = t[(L - m) + 1]
      BY <1>5
    <3> QED
      BY <3>1, <3>2
  <2>3. ASSUME NEW x \in Firsts(e) PROVE x \in Firsts(t)
    <3>1. PICK n \in 1 .. L : x = e[n][1]
      BY <1>6 DEF Firsts
    <3> QED
      BY <1>3, <2>1, <3>1 DEF Firsts
  <2>4. ASSUME NEW x \in Firsts(t) PROVE x \in Firsts(e)
    <3>1. PICK n \in 1 .. L : x = t[n][1]
      BY <1>3 DEF Firsts
    <3> QED
      BY <1>6, <2>2, <3>1 DEF Firsts
  <2> QED
    BY <2>3, <2>4
<1> QED
  BY <1>3, <1>5, <1>6, <1>7, <1>8 DEF e

LEMMA Drawn ==
  ASSUME NEW Q, NEW s \in Seq(Q), OnceEach(s), NEW x \in Q,
         x[1] \notin Firsts(s)
  PROVE  /\ Append(s, x) \in Seq(Q) /\ Len(Append(s, x)) = Len(s) + 1
         /\ OnceEach(Append(s, x)) /\ Firsts(Append(s, x)) = Firsts(s) \cup {x[1]}
         /\ Append(s, x)[Len(s) + 1] = x /\ \A n \in 1 .. Len(s) : Append(s, x)[n] = s[n]
<1> DEFINE L == Len(s)
           e == Append(s, x)
<1>1. s \in Seq(Q) /\ x \in Q /\ L \in Nat /\ Len(s) = L
  OBVIOUS
<1>2. /\ e \in Seq(Q) /\ Len(e) = L + 1 /\ e[L + 1] = x
      /\ \A n \in 1 .. L : e[n] = s[n]
  BY ONLY <1>1 DEF e
<1> HIDE DEF L, e
<1>3. \A n \in 1 .. L + 1 : n \in 1 .. L \/ n = L + 1
  BY <1>1
<1>4. \A n \in 1 .. L : e[n][1] \in Firsts(s) /\ n \in 1 .. L + 1
  BY <1>1, <1>2 DEF Firsts
<1>5. L + 1 \in 1 .. L + 1
  BY <1>1
<1>6. OnceEach(e)
  <2> SUFFICES ASSUME NEW m \in 1 .. L + 1, NEW n \in 1 .. L + 1, e[m][1] = e[n][1] PROVE m = n
    BY <1>2 DEF OnceEach
  <2>1. CASE m \in 1 .. L /\ n \in 1 .. L
    BY <1>1, <1>2, <2>1 DEF OnceEach
  <2>2. CASE m = L + 1 /\ n = L + 1
    BY <2>2
  <2> QED
    BY <1>2, <1>3, <1>4, <2>1, <2>2
<1>7. Firsts(e) = Firsts(s) \cup {x[1]}
  BY <1>1, <1>2, <1>3, <1>4, <1>5 DEF Firsts
<1> QED
  BY <1>1, <1>2, <1>6, <1>7 DEF e

Depths == 0 .. 255

(* p is drawn at depth d, and its kids ks take its place on the stack, the *)
(* first of them on top.                                                   *)
DrawnAndPushed(p, d, ks, o, s, o2, s2) ==
  /\ p \in Procs /\ d \in Depths /\ s[Len(s)] = <<p, d>> /\ Len(s) \in Nat \ {0}
  /\ Len(o) \in Nat /\ Len(o2) = Len(o) + 1 /\ o2[Len(o) + 1] = <<p, d>>
  /\ \A n \in 1 .. Len(o) : o2[n] = o[n]
  /\ Len(ks) \in Nat /\ Len(s2) = Len(s) - 1 + Len(ks)
  /\ \A n \in 1 .. Len(s) - 1 : s2[n] = s[n]
  /\ \A n \in 1 .. Len(ks) : s2[Len(s) - 1 + n] = <<ks[(Len(ks) - n) + 1], Deeper(d)>>
  /\ \A n \in 1 .. Len(s2) : n \in 1 .. Len(s) - 1 \/ n - (Len(s) - 1) \in 1 .. Len(ks)

LEMMA WalkStep ==
  ASSUME Sound, Early, LaidOut, Walk
  PROVE  /\ Sound' /\ Early' /\ LaidOut' /\ pc' = "layout" /\ scan' = scan
         /\ Len(out') = Len(out) + 1 /\ Len(out') <= Len(procs) /\ procs' = procs
         /\ \E p, d, ks : /\ Listing(ks, {k \in Rows : ppid[k] = Pid[p]}, Pid)
                         /\ DrawnAndPushed(p, d, ks, out, stack, out', stack')
<1> DEFINE p == Last(stack)[1]
           d == Last(stack)[2]
           K == {k \in Rows : ppid[k] = Pid[p]}
           ks == RowKids(p)
           t0 == [n \in DOMAIN ks |-> <<ks[n], Deeper(d)>>]
           t == Reverse(t0)
<1>1. /\ pc = "layout" /\ pc' = pc /\ stack # <<>>
      /\ out' = Capped(Append(out, <<p, d>>), Len(procs))
      /\ stack' = Capped(Front(stack) \o t, Len(procs))
      /\ in' = in /\ ppid' = ppid /\ cpu' = cpu /\ vis' = vis
      /\ queue' = queue /\ enqueued' = enqueued /\ seeds' = seeds
      /\ procs' = procs /\ scan' = scan
  BY DEF Walk, fields, search, Pending
<1>2. /\ Listing(procs, Shown, Pid) /\ scan <= Len(procs) + 1
      /\ OnceEach(out) /\ OnceEach(stack) /\ Firsts(out) \cap Firsts(stack) = {}
      /\ Firsts(out) \cup Firsts(stack) \subseteq Shown
      /\ \A k \in Shown :
           k \in Firsts(out) \cup Firsts(stack) <=>
             \/ Rooted(k) /\ \E n \in 1 .. scan - 1 : procs[n] = k
             \/ \E q \in Firsts(out) : ppid[k] = Pid[q]
  BY <1>1 DEF LaidOut
<1>3. /\ Shown \in SUBSET Procs /\ IsFiniteSet(Shown) /\ Len(procs) = Cardinality(Shown)
      /\ Len(procs) \in Nat /\ Rows = Shown
  <2>1. Shown \in SUBSET Procs
    BY DEF Shown
  <2>2. IsFiniteSet(Shown)
    BY <2>1, ProcsFinite, FS_Subset
  <2> QED
    BY <1>2, <2>1, <2>2, FS_CardinalityType, RootedIsRoot DEF Listing
<1>4. stack \in Seq(Procs \X Depths) /\ out \in Seq(Procs \X Depths) /\ procs \in Seq(Procs)
  BY DEF Sound, Depths
<1>5. p \in Procs /\ d \in Depths /\ p \in Firsts(stack) /\ <<p, d>> \in Procs \X Depths /\ p \in Shown
      /\ stack[Len(stack)] = <<p, d>> /\ Len(stack) \in Nat \ {0}
  <2>1. Len(stack) \in 1 .. Len(stack)
    BY <1>1, <1>4
  <2>2. stack[Len(stack)] \in Procs \X Depths
    BY <1>4, <2>1
  <2> QED
    BY <1>2, <2>1, <2>2 DEF Last, Firsts
<1> HIDE DEF p, d
<1>6. Deeper(d) \in Depths
  BY <1>5 DEF Deeper, Depths
<1>7. K \in SUBSET Procs /\ K \subseteq Shown /\ K = {k \in Shown : ppid[k] = Pid[p]}
  BY <1>3
<1>8. ks = InOrder(K, Pid)
  BY DEF RowKids
<1> HIDE DEF K, ks
<1>9. Listing(ks, K, Pid)
  BY <1>7, <1>8, PidListing
<1>10. t0 \in Seq(Procs \X Depths) /\ Len(t0) = Len(ks) /\ \A n \in 1 .. Len(ks) : t0[n][1] = ks[n]
       /\ Len(ks) \in Nat /\ \A m \in 1 .. Len(ks) : t0[m] = <<ks[m], Deeper(d)>>
  <2> DEFINE L == Len(ks)
  <2>1. ks \in Seq(K)
    BY <1>9 DEF Listing
  <2>2. DOMAIN ks = 1 .. L /\ L \in Nat /\ \A n \in 1 .. L : ks[n] \in Procs
    BY <1>7, <2>1
  <2> HIDE DEF L
  <2>3. t0 = [n \in 1 .. L |-> <<ks[n], Deeper(d)>>]
    BY <2>2
  <2> HIDE DEF t0
  <2>4. t0 \in [1 .. L -> Procs \X Depths] /\ \A n \in 1 .. L : t0[n][1] = ks[n] /\ t0[n] = <<ks[n], Deeper(d)>>
    BY <1>6, <2>2, <2>3
  <2> QED
    BY <2>2, <2>3, <2>4 DEF L
<1> HIDE DEF t0
<1>11. OnceEach(t0) /\ Firsts(t0) = K
  <2>1. K \in SUBSET Procs
    BY <1>7
  <2> QED
    BY ONLY <2>1, <1>9, <1>10, Paired
<1>12. t \in Seq(Procs \X Depths) /\ OnceEach(t) /\ Firsts(t) = K /\ Len(t) = Len(ks)
       /\ \A n \in 1 .. Len(ks) : t[n] = <<ks[(Len(ks) - n) + 1], Deeper(d)>>
  <2>1. /\ t \in Seq(Procs \X Depths) /\ OnceEach(t) /\ Firsts(t) = K /\ Len(t) = Len(t0)
        /\ \A n \in 1 .. Len(t0) : t[n] = t0[(Len(t0) - n) + 1]
    BY <1>10, <1>11, Reversed
  <2>2. \A n \in 1 .. Len(ks) : (Len(ks) - n) + 1 \in 1 .. Len(ks)
    BY <1>10
  <2> HIDE DEF t
  <2> QED
    BY <1>10, <2>1, <2>2
<1> HIDE DEF t
<1>13. K \cap (Firsts(out) \cup Firsts(stack)) = {}
  <2> SUFFICES ASSUME NEW k \in K, k \in Firsts(out) \cup Firsts(stack) PROVE FALSE
    OBVIOUS
  <2>1. k \in Shown /\ ppid[k] = Pid[p]
    BY <1>7
  <2>2. ~Rooted(k)
    BY <1>5, <2>1 DEF Rooted
  <2>3. PICK q \in Firsts(out) : ppid[k] = Pid[q]
    BY <1>2, <2>1, <2>2
  <2>4. q = p
    <3>1. q \in Procs /\ Pid[p] = Pid[q]
      BY <1>2, <1>3, <2>1, <2>3
    <3> QED
      BY <1>5, <3>1, FilterAssumption DEF FilterAssumption
  <2> QED
    BY <1>2, <1>5, <2>3, <2>4
<1>14. /\ stack' \in Seq(Procs \X Depths) /\ OnceEach(stack')
       /\ Firsts(stack') = (Firsts(stack) \ {p}) \cup K
       /\ PoppedPushed(stack', stack, t)
  <2> DEFINE c == Len(procs)
             e == Capped(Front(stack) \o t, c)
  <2>1. Firsts(stack) \cup Firsts(t) \subseteq Shown /\ Firsts(stack) \cap Firsts(t) = {}
    BY <1>2, <1>7, <1>12, <1>13
  <2>2. Cardinality(Shown) <= c /\ c \in Nat
    BY <1>3
  <2> HIDE DEF c
  <2>3. /\ e \in Seq(Procs \X Depths) /\ OnceEach(e)
        /\ Firsts(e) = (Firsts(stack) \ {Last(stack)[1]}) \cup Firsts(t)
        /\ PoppedPushed(e, stack, t)
    <3>1. stack # <<>> /\ OnceEach(stack) /\ IsFiniteSet(Shown)
      BY <1>1, <1>2, <1>3
    <3>2. stack \in Seq(Procs \X Depths)
      BY <1>4
    <3> DEFINE Q == Procs \X Depths
    <3>3. stack \in Seq(Q) /\ t \in Seq(Q) /\ OnceEach(t) /\ Firsts(stack) \cap Firsts(t) = {}
      BY <1>12, <2>1, <3>2
    <3> HIDE DEF Q
    <3>4. e \in Seq(Q)
      BY ONLY <3>3, <2>1, <2>2, <3>1, <3>2, PopPush
    <3>5. PoppedPushed(e, stack, t)
      BY ONLY <3>3, <2>1, <2>2, <3>1, <3>2, PopPush
    <3> QED
      BY <3>4, <3>5 DEF Q, PoppedPushed
  <2> HIDE DEF e
  <2>4. stack' = e
    BY <1>1 DEF e, c
  <2> QED
    BY <1>12, <2>3, <2>4 DEF p
<1>15. /\ out' \in Seq(Procs \X Depths) /\ OnceEach(out') /\ Len(out') = Len(out) + 1
       /\ Len(out') <= Len(procs) /\ Firsts(out') = Firsts(out) \cup {p}
       /\ out'[Len(out) + 1] = <<p, d>> /\ Len(out) \in Nat
       /\ \A n \in 1 .. Len(out) : out'[n] = out[n]
  <2> DEFINE x == <<p, d>>
             e == Append(out, x)
  <2>1. x \in Procs \X Depths /\ x[1] = p /\ x[1] \notin Firsts(out)
    BY <1>2, <1>5
  <2>2. out \in Seq(Procs \X Depths) /\ OnceEach(out)
    BY <1>2, <1>4
  <2> HIDE DEF x
  <2>3. e \in Seq(Procs \X Depths) /\ Len(e) = Len(out) + 1 /\ OnceEach(e) /\ Firsts(e) = Firsts(out) \cup {x[1]}
        /\ e[Len(out) + 1] = x /\ \A n \in 1 .. Len(out) : e[n] = out[n]
    BY ONLY <2>1, <2>2, Drawn
  <2> HIDE DEF e
  <2>4. Firsts(e) \subseteq Shown
    BY <1>2, <1>5, <2>1, <2>3
  <2>5. Len(e) <= Len(procs)
    <3>1. e \in Seq(Procs \X Depths) /\ OnceEach(e) /\ IsFiniteSet(Shown)
      BY <1>3, <2>3
    <3>2. Len(e) <= Cardinality(Shown)
      BY ONLY <3>1, <2>4, OnceEachFits
    <3> QED
      BY <1>3, <3>2
  <2>6. Capped(e, Len(procs)) = e
    BY ONLY <1>3, <2>3, <2>5, Uncapped
  <2>7. out' = e
    BY <1>1, <2>6 DEF e, x
  <2>8. x = <<p, d>> /\ Len(out) \in Nat
    BY <1>4 DEF x
  <2> QED
    BY <2>1, <2>3, <2>5, <2>7, <2>8
<1>16. Shown' = Shown /\ \A k : Rooted(k)' <=> Rooted(k)
  BY <1>1 DEF Shown, Rooted
<1>17. Firsts(out') \cap Firsts(stack') = {}
  BY <1>2, <1>5, <1>13, <1>14, <1>15, <1>7
<1>18. ASSUME NEW k \in Shown
       PROVE  k \in Firsts(out') \cup Firsts(stack') <=>
                \/ Rooted(k) /\ \E n \in 1 .. scan - 1 : procs[n] = k
                \/ \E q \in Firsts(out') : ppid[k] = Pid[q]
  <2>1. k \in Firsts(out') \cup Firsts(stack') <=> k \in Firsts(out) \cup Firsts(stack) \/ k \in K
    BY <1>5, <1>14, <1>15
  <2>2. (\E q \in Firsts(out') : ppid[k] = Pid[q]) <=>
          (\E q \in Firsts(out) : ppid[k] = Pid[q]) \/ ppid[k] = Pid[p]
    BY <1>15
  <2> QED
    BY <1>2, <1>7, <2>1, <2>2
<1>19. LaidOut'
  <2>1. Firsts(out') \cup Firsts(stack') \subseteq Shown'
    BY <1>2, <1>5, <1>7, <1>14, <1>15, <1>16
  <2>2. \A k \in Shown' :
          k \in Firsts(out') \cup Firsts(stack') <=>
             \/ Rooted(k)' /\ \E n \in 1 .. scan' - 1 : procs'[n] = k
             \/ \E q \in Firsts(out') : ppid'[k] = Pid[q]
    BY <1>1, <1>16, <1>18
  <2> QED
    BY <1>1, <1>2, <1>14, <1>15, <1>16, <1>17, <2>1, <2>2 DEF LaidOut
<1>20. Sound'
  BY <1>1, <1>14, <1>15 DEF Sound, Depths
<1>21. Early'
  BY <1>1 DEF Early
<1>22. DrawnAndPushed(p, d, ks, out, stack, out', stack')
  BY <1>5, <1>10, <1>12, <1>14, <1>15 DEF DrawnAndPushed, PoppedPushed
<1>23. Listing(ks, {k \in Rows : ppid[k] = Pid[p]}, Pid)
  BY <1>9 DEF K
<1> QED
  BY <1>1, <1>15, <1>19, <1>20, <1>21, <1>22, <1>23

LEMMA FinishStep ==
  ASSUME Sound, Early, LaidOut, Finish
  PROVE  Sound' /\ Early' /\ LaidOut' /\ pc' = "done"
<1>1. /\ pc = "layout" /\ pc' = "done" /\ stack = <<>> /\ RootsLeft = {}
      /\ in' = in /\ ppid' = ppid /\ cpu' = cpu /\ vis' = vis /\ scan' = scan
      /\ queue' = queue /\ enqueued' = enqueued /\ seeds' = seeds
      /\ procs' = procs /\ stack' = stack /\ out' = out
  BY DEF Finish, fields, search, layout
<1>2. Sound' /\ Early'
  BY <1>1 DEF Sound, Early
<1>3. /\ Shown' = Shown /\ Rows' = Rows /\ (\A k : Rooted(k)' <=> Rooted(k))
      /\ \A k : IsRoot(k)' <=> IsRoot(k)
  BY <1>1 DEF Shown, Rows, Rooted, IsRoot
<1>4. RootsLeft' = RootsLeft
  BY <1>1, <1>3 DEF RootsLeft, IsRoot, Rows
<1>5. LaidOut'
  BY <1>1, <1>3, <1>4 DEF LaidOut
<1> QED
  BY <1>1, <1>2, <1>5

----------------------------------------------------------------------------
(* The invariant                                                           *)

(* The table is the one that this tick's scan gave, if there was one.      *)
Sourced == scanned = Unscanned \/ (scanned \in Scans /\ in = collect_procs)

FInv == Sourced /\ Sound /\ Early /\ Unfolded /\ Searched /\ LaidOut

LEMMA TableType == scanned \in Scans => collect_procs \in Input
<1> SUFFICES ASSUME scanned \in Scans PROVE collect_procs \in Input
  OBVIOUS
<1>1. scanned \in Scan /\ 0 \in Ppids /\ 0 \in Levels /\ "" \in Names /\ "?" \in Names
  BY CollectAssumption DEF CollectAssumption
<1>2. ASSUME NEW i \in Procs
      PROVE  row(i).ppid \in Ppids /\ row(i).name \in Names /\ row(i).cpu \in Levels /\ row(i).vis \in BOOLEAN
  <2> DEFINE p == scanned.of[i]
  <2>1. p \in Process
    BY <1>1 DEF Scan
  <2>2. p.ppid \in Ppids /\ p.cpu \in Levels /\ p.comm \in Names /\ p.label \in Names
    BY <2>1 DEF Process
  <2>3. build_display(p) \in Names /\ qualifies(p) \in BOOLEAN
    BY <1>1, <2>2 DEF build_display, qualifies
  <2>4. \/ row(i) = Row(0, 0, "", FALSE)
        \/ row(i) = Row(p.ppid, p.cpu, p.comm, FALSE)
        \/ row(i) = Row(p.ppid, 0, "", FALSE)
        \/ row(i) = Row(p.ppid, p.cpu, build_display(p), qualifies(p))
    BY Zenon DEF row
  <2> HIDE DEF p
  <2> QED
    <3> DEFINE Typed(r) == r.ppid \in Ppids /\ r.name \in Names /\ r.cpu \in Levels /\ r.vis \in BOOLEAN
    <3>1. \A a \in Ppids, b \in Levels, c \in Names, v \in BOOLEAN : Typed(Row(a, b, c, v))
      BY Zenon DEF Row
    <3> HIDE DEF Typed
    <3>2. /\ Typed(Row(0, 0, "", FALSE)) /\ Typed(Row(p.ppid, p.cpu, p.comm, FALSE))
          /\ Typed(Row(p.ppid, 0, "", FALSE))
          /\ Typed(Row(p.ppid, p.cpu, build_display(p), qualifies(p)))
      BY Zenon, <1>1, <2>2, <2>3, <3>1
    <3>3. Typed(row(i))
      BY Zenon, <2>4, <3>2
    <3> QED
      BY <3>3 DEF Typed
<1>3. scanned.prev \in [Procs -> BOOLEAN] /\ scanned.mac \in BOOLEAN
  BY <1>1 DEF Scan
<1> QED
  BY <1>2, <1>3 DEF collect_procs, Input

LEMMA FilterInitial == CollectInit => FInv
<1> SUFFICES ASSUME CollectInit PROVE FInv
  OBVIOUS
<1>1. Sourced /\ in \in Input /\ Begin
  <2>1. CASE scanned = Unscanned /\ Init
    <3>1. PICK n \in DOMAIN Inputs : in \in Inputs[n]
      BY <2>1 DEF Init
    <3>2. in \in Input
      BY <3>1, FilterAssumption DEF FilterAssumption
    <3> QED
      BY <2>1, <3>2 DEF Sourced, Init
  <2>2. CASE scanned \in Scans /\ in = collect_procs /\ Begin
    BY <2>2, TableType DEF Sourced
  <2> QED
    BY <2>1, <2>2 DEF CollectInit
<1>2. /\ ppid = in.ppid /\ cpu = in.cpu /\ vis = in.vis /\ pc = "coalesce" /\ scan = 1
      /\ queue = <<>> /\ enqueued = {} /\ seeds = {} /\ procs = <<>> /\ stack = <<>> /\ out = <<>>
  BY <1>1 DEF Begin
<1>3. in.ppid \in [Procs -> Nat] /\ in.cpu \in [Procs -> Nat] /\ in.vis \in [Procs -> BOOLEAN]
  BY <1>1, FilterAssumption DEF FilterAssumption, Input
<1>4. Sound
  BY <1>1, <1>2, <1>3, ProcsFinite DEF Sound
<1>5. Early
  BY <1>2 DEF Early
<1>6. Unfolded
  BY <1>2 DEF Unfolded
<1>7. Searched /\ LaidOut
  BY <1>2 DEF Searched, LaidOut
<1> QED
  BY <1>1, <1>4, <1>5, <1>6, <1>7 DEF FInv

LEMMA SearchStays ==
  ASSUME Unfolded, Searched, pc # "coalesce", pc' # "coalesce", in' = in, ppid' = ppid, cpu' = cpu,
         vis' = vis, queue' = queue, enqueued' = enqueued, seeds' = seeds
  PROVE  Unfolded' /\ Searched'
<1>1. \A k : /\ Path(k)' = Path(k) /\ Up(k)' = Up(k) /\ Thresh(k)' = Thresh(k)
             /\ coalesce_root(k)' = coalesce_root(k)
  BY SameTable
<1>2. Unfolded'
  BY <1>1 DEF Unfolded
<1>3. Visited' = Visited
  BY DEF Visited
<1>4. /\ \A k : Treated(k)' <=> Treated(k)
      /\ \A k : Reached(k)' <=> Reached(k)
      /\ \A a, l : (Leads(a, l)' <=> Leads(a, l)) /\ (Pending1(a, l)' <=> Pending1(a, l))
  BY <1>1, <1>3 DEF Treated, Reached, Leads, Pending1
<1>5. Searched'
  BY <1>1, <1>3, <1>4 DEF Searched
<1> QED
  BY <1>2, <1>5

LEMMA LaidOutLater == pc' \notin {"layout", "done"} => LaidOut'
BY DEF LaidOut

LEMMA FilterStep == FInv /\ [Next /\ UNCHANGED scanned]_cvars => FInv'
<1> SUFFICES ASSUME FInv, [Next /\ UNCHANGED scanned]_cvars PROVE FInv'
  OBVIOUS
<1>1. Sourced /\ Sound /\ Early /\ Unfolded /\ Searched /\ LaidOut
  BY DEF FInv
<1>2. scanned' = scanned
  BY DEF cvars
<1>3. in' = in => Sourced'
  <2> SUFFICES ASSUME in' = in PROVE Sourced'
    OBVIOUS
  <2>1. scanned' = Unscanned \/ (scanned' \in Scans /\ in' = collect_procs)
    BY <1>1, <1>2 DEF Sourced
  <2>2. collect_procs' = collect_procs
    BY <1>2 DEF collect_procs, row, Row, build_display, qualifies, is_noise, is_idle_noise, name,
       is_lean_or_lake, may_qualify
  <2> QED
    BY <2>1, <2>2 DEF Sourced, Unscanned
<1>4. CASE Coalesce
  <2>1. Sound' /\ Early' /\ Unfolded' /\ pc' = "coalesce" /\ in' = in
    BY <1>1, <1>4, CoalesceStep DEF Coalesce
  <2>2. Searched' /\ LaidOut'
    BY <2>1 DEF Searched, LaidOut
  <2> QED
    BY <1>3, <2>1, <2>2 DEF FInv
<1>5. CASE Seed
  <2>1. Sound' /\ Early' /\ Unfolded' /\ Searched' /\ pc' = "bfs" /\ in' = in
    BY <1>1, <1>5, SeedStep DEF Seed
  <2>2. LaidOut'
    BY <2>1, LaidOutLater
  <2> QED
    BY <1>3, <2>1, <2>2 DEF FInv
<1>6. CASE Visit
  <2>1. /\ queue' \in Seq(Procs \X Procs) /\ enqueued' \in SUBSET Procs
        /\ vis' \in [Procs -> BOOLEAN] /\ ppid' \in [Procs -> Nat] /\ Searched'
    BY <1>1, <1>6, VisitStep
  <2>2. /\ pc = "bfs" /\ pc' = "bfs" /\ in' = in /\ cpu' = cpu /\ scan' = scan /\ seeds' = seeds
        /\ procs' = procs /\ stack' = stack /\ out' = out /\ enqueued \subseteq enqueued'
    BY <1>6 DEF Visit, layout
  <2>3. Sound'
    BY <1>1, <2>1, <2>2 DEF Sound
  <2>4. Early'
    BY <1>1, <2>2 DEF Early
  <2>5. Unfolded'
    BY <1>1, <2>2, SameTable DEF Unfolded
  <2>6. LaidOut'
    BY <2>2, LaidOutLater
  <2> QED
    BY <1>3, <2>1, <2>2, <2>3, <2>4, <2>5, <2>6 DEF FInv
<1>7. CASE Retain
  <2>1. Sound' /\ Early' /\ LaidOut' /\ pc' = "layout"
    BY <1>1, <1>7, RetainStep
  <2>2. /\ pc = "bfs" /\ in' = in /\ ppid' = ppid /\ cpu' = cpu /\ vis' = vis
        /\ queue' = queue /\ enqueued' = enqueued /\ seeds' = seeds
    BY <1>7 DEF Retain, fields, search
  <2> QED
    BY <1>1, <1>3, <2>1, <2>2, SearchStays DEF FInv
<1>8. CASE NextRoot
  <2>1. Sound' /\ Early' /\ LaidOut' /\ pc' = "layout"
    BY <1>1, <1>8, NextRootStep
  <2>2. /\ pc = "layout" /\ in' = in /\ ppid' = ppid /\ cpu' = cpu /\ vis' = vis
        /\ queue' = queue /\ enqueued' = enqueued /\ seeds' = seeds
    BY <1>8 DEF NextRoot, fields, search
  <2> QED
    BY <1>1, <1>3, <2>1, <2>2, SearchStays DEF FInv
<1>9. CASE Walk
  <2>1. Sound' /\ Early' /\ LaidOut' /\ pc' = "layout"
    BY <1>1, <1>9, WalkStep
  <2>2. /\ pc = "layout" /\ in' = in /\ ppid' = ppid /\ cpu' = cpu /\ vis' = vis
        /\ queue' = queue /\ enqueued' = enqueued /\ seeds' = seeds
    BY <1>9 DEF Walk, fields, search
  <2> QED
    BY <1>1, <1>3, <2>1, <2>2, SearchStays DEF FInv
<1>10. CASE Finish
  <2>1. Sound' /\ Early' /\ LaidOut' /\ pc' = "done"
    BY <1>1, <1>10, FinishStep
  <2>2. /\ pc = "layout" /\ in' = in /\ ppid' = ppid /\ cpu' = cpu /\ vis' = vis
        /\ queue' = queue /\ enqueued' = enqueued /\ seeds' = seeds
    BY <1>10 DEF Finish, fields, search
  <2> QED
    BY <1>1, <1>3, <2>1, <2>2, SearchStays DEF FInv
<1>11. CASE UNCHANGED cvars
  <2>1. /\ in' = in /\ ppid' = ppid /\ cpu' = cpu /\ vis' = vis /\ pc' = pc /\ scan' = scan
        /\ queue' = queue /\ enqueued' = enqueued /\ seeds' = seeds
        /\ procs' = procs /\ stack' = stack /\ out' = out
    BY <1>11 DEF cvars, vars, fields, search, layout
  <2>2. Sound' /\ Early'
    BY <1>1, <2>1 DEF Sound, Early
  <2>3. Unfolded' /\ Searched'
    <3>1. CASE pc = "coalesce"
      BY <1>1, <2>1, <3>1, SameTable DEF Unfolded, Searched
    <3>2. CASE pc # "coalesce"
      BY <1>1, <2>1, <3>2, SearchStays
    <3> QED
      BY <3>1, <3>2
  <2>4. /\ Shown' = Shown /\ Rows' = Rows /\ (\A k : Rooted(k)' <=> Rooted(k))
        /\ \A k : IsRoot(k)' <=> IsRoot(k)
    BY <2>1 DEF Shown, Rows, Rooted, IsRoot
  <2>5. RootsLeft' = RootsLeft
    BY <2>1, <2>4 DEF RootsLeft, IsRoot, Rows
  <2>6. LaidOut'
    BY <1>1, <2>1, <2>4, <2>5 DEF LaidOut
  <2> QED
    BY <1>3, <2>1, <2>2, <2>3, <2>6 DEF FInv
<1> QED
  BY <1>4, <1>5, <1>6, <1>7, <1>8, <1>9, <1>10, <1>11 DEF Next

(* The invariant of a tick's way from the scan to the tree, of which the   *)
(* theorems below are consequences.                                        *)
THEOREM FilterInductive == CollectSpec => []FInv
<1>1. CollectInit => FInv
  BY FilterInitial
<1>2. FInv /\ [Next /\ UNCHANGED scanned]_cvars => FInv'
  BY FilterStep
<1> QED
  BY <1>1, <1>2, PTL DEF CollectSpec

----------------------------------------------------------------------------
(* What follows                                                            *)

LEMMA Queued ==
  ASSUME FInv
  PROVE  Len(queue) <= Cardinality(enqueued) /\ Cardinality(enqueued) \in 0 .. N /\ Len(queue) \in Nat
<1>1. /\ queue \in Seq(Procs \X Procs) /\ enqueued \in SUBSET Procs
      /\ IsFiniteSet(enqueued) /\ Cardinality(enqueued) \in 0 .. N /\ Len(queue) \in Nat
  <2>1. queue \in Seq(Procs \X Procs) /\ enqueued \in SUBSET Procs
    BY DEF FInv, Sound
  <2>2. IsFiniteSet(enqueued) /\ Cardinality(enqueued) <= N
    BY <2>1, ProcsFinite, FS_Subset
  <2> QED
    BY <2>1, <2>2, ProcsFinite, FS_CardinalityType
<1>2. CASE pc = "coalesce"
  BY <1>1, <1>2 DEF FInv, Early
<1>3. CASE pc # "coalesce"
  <2>1. OnceEach(queue) /\ Firsts(queue) \subseteq enqueued
    BY <1>3 DEF FInv, Searched
  <2> QED
    BY <1>1, <2>1, OnceEachFits
<1> QED
  BY <1>1, <1>2, <1>3

LEMMA Drawing ==
  ASSUME FInv, pc \in {"layout", "done"}
  PROVE  Len(out) \in Nat /\ Len(procs) \in Nat /\ Len(out) <= Len(procs) /\ Len(procs) <= N
<1>1. /\ Listing(procs, Shown, Pid) /\ OnceEach(out) /\ Firsts(out) \subseteq Shown
      /\ out \in Seq(Procs \X (0 .. 255))
  BY DEF FInv, LaidOut, Sound
<1>2. Shown \in SUBSET Procs
  BY DEF Shown
<1>3. IsFiniteSet(Shown) /\ Cardinality(Shown) <= N /\ Cardinality(Shown) \in Nat
  BY <1>2, ProcsFinite, FS_Subset, FS_CardinalityType
<1>4. Len(procs) = Cardinality(Shown)
  BY <1>1 DEF Listing
<1>5. Len(out) <= Cardinality(Shown) /\ Len(out) \in Nat
  BY <1>1, <1>3, OnceEachFits
<1> QED
  BY <1>3, <1>4, <1>5

(* The types of the filter, and that the queue, whose capacity is the      *)
(* number of processes, never loses an entry of filter_with_children.      *)
THEOREM FilterTypes == CollectSpec => []TypeOK
<1>1. FInv => TypeOK
  <2> SUFFICES ASSUME FInv PROVE TypeOK
    OBVIOUS
  <2>1. Sound /\ Len(queue) <= Cardinality(enqueued)
    BY Queued DEF FInv
  <2> QED
    BY <2>1 DEF Sound, TypeOK
<1> QED
  BY <1>1, FilterInductive, PTL

(* When nothing is left to pop, the kids of what was enqueued all were.    *)
LEMMA Closed ==
  ASSUME FInv, pc \in {"layout", "done"}
  PROVE  /\ Visited = enqueued
         /\ \A k \in Procs : k \in enqueued <=> k \in seeds \/ Up(k) \in enqueued
<1>1. queue = <<>> /\ Searched
  BY DEF FInv, Early
<1>2. Firsts(queue) = {}
  BY <1>1 DEF Firsts
<1>3. Visited = enqueued
  BY <1>2 DEF Visited
<1> QED
  BY <1>1, <1>3 DEF Searched, Treated

(* A process with a seed above it, at any distance, is reached.            *)
LEMMA BelowSeed ==
  ASSUME FInv, pc \in {"layout", "done"}, NEW k \in Procs, NEW n \in Nat, Path(k)[n] \in enqueued
  PROVE  k \in enqueued
<1> DEFINE T == {m \in Nat : \A q \in Procs : Path(q)[m] \in enqueued => q \in enqueued}
<1>1. in \in Input /\ enqueued \in SUBSET Procs /\ 0 \notin Procs
  BY ProcsFinite DEF FInv, Sound, Procs
<1>2. 0 \in T
  BY <1>1, PathUp
<1>3. ASSUME NEW m \in T PROVE m + 1 \in T
  <2> SUFFICES ASSUME NEW q \in Procs, Path(q)[m + 1] \in enqueued PROVE q \in enqueued
    OBVIOUS
  <2>1. Path(q)[m + 1] = Path(Up(q))[m] /\ Up(q) \in Places
    BY <1>1, PathUp
  <2>2. Up(q) # 0
    <3> SUFFICES ASSUME Up(q) = 0 PROVE FALSE
      OBVIOUS
    <3>1. 0 \in Places /\ Path(0)[0] = 0
      BY <1>1, PathStep DEF Places
    <3>2. Path(0)[m] = 0
      BY <1>1, <3>1, PathEnd
    <3> QED
      BY <1>1, <2>1, <3>2
  <2>3. Up(q) \in enqueued
    BY <2>1, <2>2 DEF Places
  <2> QED
    BY <2>3, Closed
<1>4. T = Nat
  <2> HIDE DEF T
  <2> QED
    BY <1>2, <1>3, Induct DEF T
<1> QED
  BY <1>4

(* filter_with_children shows a process exactly when it qualifies on its   *)
(* own or a qualifying ancestor, at any distance, lets it in with enough   *)
(* cpu: for every table, parent cycles included.                           *)
THEOREM AlwaysShownExactly == CollectSpec => []ShownExactly
<1>1. FInv => ShownExactly
  <2> SUFFICES ASSUME FInv, pc \in {"layout", "done"}, NEW k \in Procs
               PROVE  vis[k] <=> \/ k \in seeds
                                 \/ Ancestors(k) \cap seeds # {} /\ cpu[k] >= Thresh(k)
    BY DEF ShownExactly
  <2>1. in \in Input /\ seeds \in SUBSET enqueued /\ enqueued \in SUBSET Procs /\ 0 \notin Procs
    BY ProcsFinite DEF FInv, Sound, Procs
  <2>2. /\ vis[k] <=> k \in seeds \/ (Up(k) \in enqueued /\ cpu[k] >= Thresh(k))
        /\ k \in enqueued <=> k \in seeds \/ Up(k) \in enqueued
        /\ k \in enqueued => Reached(k)
    BY Closed DEF FInv, Searched, Treated
  <2>3. (\E n \in Nat \ {0} : Path(k)[n] \in seeds) <=> Ancestors(k) \cap seeds # {}
    <3>1. ASSUME NEW n \in Nat \ {0}, Path(k)[n] \in seeds PROVE Ancestors(k) \cap seeds # {}
      <4>1. Path(k)[n] \in Ancestors(k)
        BY <2>1, <3>1, AncestorsOnPath
      <4> QED
        BY <3>1, <4>1
    <3>2. ASSUME NEW a \in Ancestors(k), a \in seeds PROVE \E n \in Nat \ {0} : Path(k)[n] \in seeds
      BY <2>1, <3>2, AncestorsOnPath
    <3> QED
      BY <3>1, <3>2
  <2>4. ASSUME k \notin seeds PROVE Up(k) \in enqueued <=> \E n \in Nat \ {0} : Path(k)[n] \in seeds
    <3>1. Up(k) \in enqueued => \E n \in Nat \ {0} : Path(k)[n] \in seeds
      BY <2>2, <2>4 DEF Reached
    <3>2. ASSUME NEW n \in Nat \ {0}, Path(k)[n] \in seeds PROVE Up(k) \in enqueued
      <4>1. k \in enqueued
        BY <2>1, <3>2, BelowSeed
      <4> QED
        BY <2>2, <2>4, <4>1
    <3> QED
      BY <3>1, <3>2
  <2> QED
    BY <2>2, <2>3, <2>4
<1> QED
  BY <1>1, FilterInductive, PTL

LEMMA HangsOffNearest == FInv => NearestShown
<1> SUFFICES ASSUME FInv, pc \in {"layout", "done"}, NEW k \in Procs, vis[k]
             PROVE  LET q == Nearest(k, LAMBDA a : vis[a])
                    IN ppid[k] = IF q = 0 THEN in.ppid[k] ELSE Pid[q]
  BY DEF NearestShown
<1> DEFINE q == Nearest(k, LAMBDA a : vis[a])
           u == Up(k)
           Seen(n) == Path(k)[n] # 0 /\ vis[Path(k)[n]]
<1>1. /\ in \in Input /\ vis \in [Procs -> BOOLEAN] /\ enqueued \in SUBSET Procs /\ 0 \notin Procs
      /\ u \in Places /\ Path(k)[1] = u /\ \A n \in Nat : Path(k)[n] \in Places
      /\ \A n \in Nat : Path(k)[n + 1] = Path(u)[n]
      /\ u # 0 => Pid[u] = in.ppid[k]
  <2>1. in \in Input /\ vis \in [Procs -> BOOLEAN] /\ enqueued \in SUBSET Procs /\ 0 \notin Procs
    BY ProcsFinite DEF FInv, Sound, Procs
  <2> QED
    BY <2>1, PathUp, UpPlace
<1>2. /\ \A n \in Nat \ {0} : Seen(n) /\ (\A j \in 1 .. n - 1 : ~Seen(j)) => q = Path(k)[n]
      /\ (\A n \in Nat \ {0} : ~Seen(n)) => q = 0
  BY <1>1, NearestVisible
<1> HIDE DEF q, u
<1>3. IF u \in enqueued /\ ~vis[u]
        THEN \E l \in Procs : Leads(u, l) /\ ppid[k] = Pid[l]
        ELSE ppid[k] = in.ppid[k]
  BY <1>1, Closed DEF FInv, Searched, u
<1>4. CASE u \in enqueued /\ ~vis[u]
  <2>1. PICK l \in Procs : Leads(u, l) /\ ppid[k] = Pid[l]
    BY <1>3, <1>4
  <2>2. PICK n \in Nat : /\ Path(u)[n] = l /\ vis[l]
                         /\ \A j \in 0 .. n - 1 : Path(u)[j] \in enqueued /\ ~vis[Path(u)[j]]
    BY <2>1 DEF Leads
  <2>3. n + 1 \in Nat \ {0} /\ Seen(n + 1) /\ Path(k)[n + 1] = l
    BY <1>1, <2>2
  <2>4. \A j \in 1 .. (n + 1) - 1 : ~Seen(j)
    <3> SUFFICES ASSUME NEW j \in 1 .. (n + 1) - 1 PROVE ~vis[Path(k)[j]]
      OBVIOUS
    <3>1. j - 1 \in Nat /\ (j - 1) + 1 = j /\ j - 1 \in 0 .. n - 1
      BY <2>2
    <3>2. Path(k)[j] = Path(u)[j - 1]
      BY <1>1, <3>1
    <3> QED
      BY <2>2, <3>1, <3>2
  <2>5. q = l
    <3> HIDE DEF Seen
    <3> QED
      BY <1>2, <2>3, <2>4
  <2> QED
    BY <1>1, <2>1, <2>5 DEF q
<1>5. CASE u \in Procs /\ vis[u]
  <2>1. Seen(1) /\ 1 \in Nat \ {0} /\ \A j \in 1 .. 1 - 1 : ~Seen(j)
    BY <1>1, <1>5
  <2>2. q = u
    <3> HIDE DEF Seen
    <3> QED
      BY <1>1, <1>2, <2>1
  <2> QED
    BY <1>1, <1>3, <1>5, <2>2 DEF q
<1>6. CASE u \notin enqueued /\ (u = 0 \/ ~vis[u])
  <2>1. ASSUME NEW n \in Nat \ {0}, Seen(n) PROVE FALSE
    <3>1. n - 1 \in Nat /\ (n - 1) + 1 = n /\ n \in Nat
      BY <2>1
    <3>2. Path(k)[n] = Path(u)[n - 1] /\ Path(k)[n] \in Procs
      BY <1>1, <2>1, <3>1 DEF Places
    <3>3. Path(k)[n] \in enqueued
      <4>1. \A a \in Procs : vis[a] => a \in enqueued
        BY <1>1, Closed DEF FInv, Searched, Treated, Sound
      <4> QED
        BY <2>1, <3>2, <4>1
    <3>4. u # 0
      <4> SUFFICES ASSUME u = 0 PROVE FALSE
        OBVIOUS
      <4>1. 0 \in Places /\ Path(0)[0] = 0
        BY <1>1, PathStep DEF Places
      <4>2. Path(0)[n - 1] = 0
        BY <1>1, <3>1, <4>1, PathEnd
      <4> QED
        BY <1>1, <3>2, <4>2
    <3>5. u \in Procs
      BY <1>1, <3>4 DEF Places
    <3>6. u \in enqueued
      BY <3>1, <3>2, <3>3, <3>5, BelowSeed
    <3> QED
      BY <1>6, <3>6
  <2>2. q = 0
    <3> HIDE DEF Seen
    <3> QED
      BY <1>2, <2>1
  <2> QED
    BY <1>3, <1>6, <2>2 DEF q
<1> QED
  BY <1>1, <1>4, <1>5, <1>6 DEF Places

(* Every shown process hangs off its nearest shown ancestor, or is a root: *)
(* what filter_with_children hands down as last_visible is that ancestor.  *)
THEOREM AlwaysNearestShown == CollectSpec => []NearestShown
BY HangsOffNearest, FilterInductive, PTL

(* A tick's search and layout end, whatever cycles the scan produced.      *)
THEOREM AlwaysProgress == CollectSpec => Progress
<1>1. FInv /\ FInv' /\ [Next /\ UNCHANGED scanned]_cvars =>
        [Phase' > Phase \/ (Phase' = Phase /\ 0 <= Left' /\ Left' < Left)]_vars
  <2> SUFFICES ASSUME FInv, FInv', Next
               PROVE  Phase' > Phase \/ (Phase' = Phase /\ 0 <= Left' /\ Left' < Left)
    BY DEF cvars
  <2>1. Sourced /\ Sound /\ Early /\ Unfolded /\ Searched /\ LaidOut /\ N \in Nat /\ scan \in 1 .. N + 1
    BY ProcsFinite DEF FInv, Sound
  <2>2. CASE Coalesce
    <3>1. pc = "coalesce" /\ pc' = "coalesce" /\ scan < scan' /\ scan' \in 1 .. N + 1
      BY <2>1, <2>2, CoalesceStep DEF Coalesce, Sound
    <3> QED
      BY <2>1, <3>1 DEF Phase, Left
  <2>3. CASE Seed
    BY <2>3 DEF Seed, Phase
  <2>4. CASE Visit
    <3>1. pc = "bfs" /\ pc' = "bfs"
      BY <2>4 DEF Visit
    <3>2. PICK c \in Nat : /\ Len(queue') = Len(queue) - 1 + c
                           /\ Cardinality(enqueued') = Cardinality(enqueued) + c
                           /\ Cardinality(enqueued') <= N
      BY <2>1, <2>4, VisitStep
    <3>3. Cardinality(enqueued) \in Nat /\ Len(queue) \in Nat /\ Len(queue) # 0
      <4>1. Cardinality(enqueued) \in Nat /\ Len(queue) \in Nat
        BY Queued, ProcsFinite
      <4>2. queue # <<>> /\ queue \in Seq(Procs \X Procs)
        BY <2>1, <2>4 DEF Visit, Sound
      <4> QED
        BY <4>1, <4>2
    <3>4. /\ Left = 2 * (N - Cardinality(enqueued)) + Len(queue)
          /\ Left' = 2 * (N - Cardinality(enqueued')) + Len(queue')
          /\ Phase = 2 /\ Phase' = 2
      BY <3>1 DEF Left, Phase
    <3> DEFINE e == Cardinality(enqueued)
               e1 == Cardinality(enqueued')
               q == Len(queue)
               q1 == Len(queue')
    <3>5. /\ Left = 2 * (N - e) + q /\ Left' = 2 * (N - e1) + q1 /\ q1 = q - 1 + c /\ e1 = e + c
          /\ e1 <= N /\ e \in Nat /\ q \in Nat /\ q # 0
      BY <3>2, <3>3, <3>4
    <3> HIDE DEF e, e1, q, q1
    <3>6. 0 <= Left' /\ Left' < Left
      BY ONLY <2>1, <3>5, c \in Nat
    <3> QED
      BY <3>4, <3>6
  <2>5. CASE Retain
    BY <2>5 DEF Retain, Phase
  <2>6. CASE NextRoot
    <3>1. pc = "layout" /\ pc' = "layout" /\ scan < scan' /\ scan' <= N + 1 /\ scan' \in Int
      BY <2>1, <2>6, NextRootStep DEF NextRoot, Sound
    <3>2. procs' = procs /\ out' = out
      BY <2>6 DEF NextRoot
    <3>3. Len(out) \in Nat /\ Len(procs) \in Nat /\ Len(out) <= Len(procs)
      BY <3>1, Drawing
    <3>4. /\ Left = N + 1 - scan + Len(procs) - Len(out)
          /\ Left' = N + 1 - scan' + Len(procs) - Len(out) /\ Phase = 3 /\ Phase' = 3
      BY <3>1, <3>2 DEF Left, Phase
    <3> QED
      BY <2>1, <3>1, <3>3, <3>4
  <2>7. CASE Walk
    <3>1. /\ pc = "layout" /\ pc' = "layout" /\ scan' = scan /\ procs' = procs
          /\ Len(out') = Len(out) + 1 /\ Len(out') <= Len(procs)
      BY <2>1, <2>7, WalkStep DEF Walk
    <3>2. Len(out) \in Nat /\ Len(procs) \in Nat
      BY <3>1, Drawing
    <3>3. /\ Left = N + 1 - scan + Len(procs) - Len(out)
          /\ Left' = N + 1 - scan + Len(procs) - Len(out') /\ Phase = 3 /\ Phase' = 3
      BY <3>1 DEF Left, Phase
    <3> QED
      BY <2>1, <3>1, <3>2, <3>3
  <2>8. CASE Finish
    BY <2>8 DEF Finish, Phase
  <2> QED
    BY <2>2, <2>3, <2>4, <2>5, <2>6, <2>7, <2>8 DEF Next
<1> QED
  BY <1>1, FilterInductive, PTL DEF CollectSpec, Progress

(* Without a cycle every path ends, within as many steps as there are      *)
(* processes.                                                              *)
LEMMA PathsEnd ==
  ASSUME in \in Input, Acyclic, NEW k \in Procs
  PROVE  Path(k)[N] = 0
<1> SUFFICES ASSUME Path(k)[N] # 0 PROVE FALSE
  OBVIOUS
<1>1. N \in Nat /\ N + 1 \in Nat /\ N < N + 1 /\ k \in Places
  BY ProcsFinite DEF Places
<1>2. \A i \in 0 .. (N + 1) - 1 : Path(k)[i] # 0
  <2>1. \A i \in 0 .. (N + 1) - 1 : i \in Nat /\ i <= N
    BY <1>1
  <2> QED
    BY <1>1, <2>1, PathEnd
<1>3. PICK i, j \in 0 .. (N + 1) - 1 : i < j /\ Path(k)[i] = Path(k)[j]
  BY <1>1, <1>2, PathRepeats
<1>4. i \in Nat /\ j - i \in Nat \ {0} /\ i + (j - i) = j
  BY <1>1, <1>3
<1> DEFINE a == Path(k)[i]
<1>5. a \in Procs
  BY <1>2, <1>4, PathUp DEF Places
<1>6. Path(k)[i + (j - i)] = Path(a)[j - i]
  BY <1>1, <1>4, PathPlus
<1> HIDE DEF a
<1>7. Path(a)[j - i] = a
  BY <1>3, <1>4, <1>6 DEF a
<1>8. a \in Ancestors(a)
  BY <1>4, <1>5, <1>7, AncestorsOnPath
<1> QED
  BY <1>5, <1>8 DEF Acyclic

LEMMA AllDrawn ==
  ASSUME FInv, pc = "done", Acyclic
  PROVE  Firsts(out) = Shown
<1>1. /\ Firsts(out) \subseteq Shown /\ Listing(procs, Shown, Pid)
      /\ \A k \in Shown :
           k \in Firsts(out) \cup Firsts(stack) <=>
             \/ Rooted(k) /\ \E n \in 1 .. scan - 1 : procs[n] = k
             \/ \E p \in Firsts(out) : ppid[k] = Pid[p]
      /\ stack = <<>> /\ RootsLeft = {}
  BY DEF FInv, LaidOut
<1>2. Firsts(stack) = {}
  BY <1>1 DEF Firsts
<1>3. /\ in \in Input /\ vis \in [Procs -> BOOLEAN] /\ scan \in 1 .. N + 1 /\ N \in Nat
      /\ Shown \in SUBSET Procs /\ 0 \notin Procs
  BY ProcsFinite DEF FInv, Sound, Shown, Procs
<1>4. ASSUME NEW k \in Shown, Rooted(k) PROVE k \in Firsts(out)
  <2>1. PICK n \in 1 .. Len(procs) : procs[n] = k
    BY <1>1 DEF Listing, Members1
  <2>2. IsRoot(procs[n])
    BY <1>1, <1>4, <2>1, RootedIsRoot
  <2>3. n \notin scan .. Len(procs)
    BY <1>1, <2>2 DEF RootsLeft
  <2>4. Len(procs) \in Nat
    BY <1>1 DEF Listing
  <2>5. n \in 1 .. scan - 1
    BY <1>3, <2>3, <2>4
  <2> QED
    BY <1>1, <1>2, <1>4, <2>1, <2>5
<1>5. ASSUME NEW k \in Shown
      PROVE  \/ Rooted(k)
             \/ \E n \in Nat \ {0} : Path(k)[n] \in Shown /\ ppid[k] = Pid[Path(k)[n]]
  <2> DEFINE q == Nearest(k, LAMBDA a : vis[a])
             Seen(n) == Path(k)[n] # 0 /\ vis[Path(k)[n]]
  <2>1. k \in Procs /\ vis[k]
    BY <1>3 DEF Shown
  <2>2. ppid[k] = IF q = 0 THEN in.ppid[k] ELSE Pid[q]
    BY <2>1, HangsOffNearest DEF NearestShown
  <2>3. /\ \A n \in Nat \ {0} : Seen(n) /\ (\A j \in 1 .. n - 1 : ~Seen(j)) => q = Path(k)[n]
        /\ q # 0 => \E n \in Nat \ {0} : Seen(n) /\ q = Path(k)[n]
    BY <1>3, <2>1, NearestVisible
  <2> HIDE DEF q
  <2>4. CASE q # 0
    <3>1. PICK n \in Nat \ {0} : Seen(n) /\ q = Path(k)[n]
      BY <2>3, <2>4
    <3>2. Path(k)[n] \in Places
      BY <1>3, <2>1, PathUp
    <3> QED
      BY <2>2, <2>4, <3>1, <3>2 DEF Places, Shown
  <2>5. CASE q = 0
    <3> SUFFICES ASSUME NEW p \in Shown, Pid[p] = ppid[k] PROVE FALSE
      BY DEF Rooted
    <3>1. Up(k) = p /\ p \in Procs /\ vis[p]
      BY <1>3, <2>1, <2>2, <2>5, UpPlace DEF Shown
    <3>2. Path(k)[1] = p
      BY <1>3, <2>1, <3>1, PathUp
    <3>3. Seen(1) /\ 1 \in Nat \ {0} /\ \A j \in 1 .. 1 - 1 : ~Seen(j)
      BY <1>3, <3>1, <3>2
    <3>4. q = Path(k)[1]
      <4> HIDE DEF Seen
      <4> QED
        BY <2>3, <3>3
    <3> QED
      BY <1>3, <2>5, <3>1, <3>2, <3>4
  <2> QED
    BY <2>4, <2>5
<1> DEFINE T == {n \in Nat : \A k \in Shown : Path(k)[n] = 0 => k \in Firsts(out)}
<1>6. 0 \in T
  BY <1>3, PathUp
<1>7. ASSUME NEW n \in T PROVE n + 1 \in T
  <2> SUFFICES ASSUME NEW k \in Shown, Path(k)[n + 1] = 0 PROVE k \in Firsts(out)
    OBVIOUS
  <2>1. CASE Rooted(k)
    BY <1>4, <2>1
  <2>2. CASE ~Rooted(k)
    <3>1. PICK j \in Nat \ {0} : Path(k)[j] \in Shown /\ ppid[k] = Pid[Path(k)[j]]
      BY <1>5, <2>2
    <3> DEFINE p == Path(k)[j]
    <3>2. k \in Places /\ n + 1 \in Nat /\ j + n \in Nat /\ n + 1 <= j + n
      BY <1>3 DEF Places
    <3>3. Path(k)[j + n] = 0
      BY <1>3, <3>2, PathEnd
    <3>4. Path(p)[n] = 0
      <4>1. j \in Nat /\ n \in Nat
        OBVIOUS
      <4>2. Path(k)[j + n] = Path(Path(k)[j])[n]
        BY ONLY <1>3, <3>2, <4>1, PathPlus
      <4> QED
        BY <3>3, <4>2
    <3>5. p \in Shown /\ ppid[k] = Pid[p]
      BY <3>1
    <3> HIDE DEF p
    <3>6. p \in Firsts(out)
      BY <3>4, <3>5
    <3> QED
      BY <1>1, <1>2, <3>5, <3>6
  <2> QED
    BY <2>1, <2>2
<1>8. T = Nat
  <2> HIDE DEF T
  <2> QED
    BY <1>6, <1>7, Induct DEF T
<1>9. ASSUME NEW k \in Shown PROVE k \in Firsts(out)
  <2>1. PICK n \in Nat : Path(k)[n] = 0
    BY <1>3, ProcsFinite, PathsEnd
  <2> QED
    BY <1>8, <2>1
<1> QED
  BY <1>1, <1>9

(* tree_layout draws no row twice, and without parent cycles draws every   *)
(* row; the capacities of its vectors lose none.                           *)
THEOREM AlwaysDrawnOnce == CollectSpec => []DrawnOnce
<1>1. FInv => DrawnOnce
  <2> SUFFICES ASSUME FInv PROVE DrawnOnce
    OBVIOUS
  <2>1. OnceEach(out)
    <3>1. CASE pc \in {"layout", "done"}
      BY <3>1 DEF FInv, LaidOut
    <3>2. CASE pc \notin {"layout", "done"}
      BY <3>2 DEF FInv, Early, Sound, OnceEach
    <3> QED
      BY <3>1, <3>2
  <2>2. pc = "done" /\ Acyclic => Firsts(out) = Shown
    BY AllDrawn
  <2> QED
    BY <2>1, <2>2 DEF DrawnOnce, OnceEach, Firsts, Shown
<1> QED
  BY <1>1, FilterInductive, PTL

(* A row on screen into which nothing was folded had its arguments read    *)
(* and is neither noise nor unreadable: the fast path of collect_procs,    *)
(* which skips the arguments, never decides wrongly that a process cannot  *)
(* be shown.                                                               *)
THEOREM AlwaysRowsNamed == CollectSpec => []RowsNamed
<1>1. FInv => RowsNamed
  <2> SUFFICES ASSUME FInv, pc = "done", scanned # Unscanned,
                      NEW k \in Procs, vis[k], \A i \in Procs : coalesce_root(i) # k
               PROVE  LET p == scanned.of[k]
                      IN p.read /\ ~is_noise(p) /\ (p.arg # "" => in.name[k] = p.label)
    BY DEF RowsNamed
  <2> DEFINE p == scanned.of[k]
             keep == IF scanned.prev[k] THEN CHILD_CPU_KEEP_THRESH ELSE CHILD_CPU_THRESH
  <2>1. scanned \in Scans /\ in = collect_procs /\ scanned \in Scan
    BY CollectAssumption DEF FInv, Sourced, CollectAssumption
  <2>2. p \in Process /\ in \in Input /\ p.cpu \in Nat /\ keep \in Nat /\ keep > 0
    <3>1. p \in Process /\ p.cpu \in Levels
      BY <2>1 DEF Scan, Process
    <3>2. p.cpu \in Nat
      BY <3>1, FilterAssumption DEF FilterAssumption
    <3>3. in \in Input
      BY DEF FInv, Sound
    <3>4. keep \in Nat /\ keep > 0
      BY DEF CHILD_CPU_KEEP_THRESH, CHILD_CPU_THRESH
    <3> QED
      BY <3>1, <3>2, <3>3, <3>4
  <2>3. /\ in.cpu[k] = row(k).cpu /\ in.vis[k] = row(k).vis /\ in.name[k] = row(k).name
        /\ in.prev = scanned.prev
    BY <2>1 DEF collect_procs
  <2>4. Thresh(k) = keep
    BY <2>3 DEF Thresh
  <2>5. in.vis[k] \/ cpu[k] >= keep
    <3>1. vis[k] <=> k \in seeds \/ (Treated(k) /\ cpu[k] >= Thresh(k))
      BY DEF FInv, Searched
    <3>2. k \in seeds => in.vis[k]
      BY DEF FInv, Unfolded
    <3> QED
      BY <2>4, <3>1, <3>2
  <2>6. cpu[k] \in {in.cpu[k], 0}
    BY DEF FInv, Unfolded
  <2>7. in.vis[k] \/ in.cpu[k] >= keep
    <3> HIDE DEF keep, p
    <3> QED
      BY <2>2, <2>5, <2>6
  <2>8. \A a, b, c, v : row(k) = Row(a, b, c, v) =>
                          in.cpu[k] = b /\ in.name[k] = c /\ in.vis[k] = v
    <3>1. \A a, b, c, v : /\ Row(a, b, c, v).cpu = b /\ Row(a, b, c, v).name = c
                          /\ Row(a, b, c, v).vis = v
      BY Zenon DEF Row
    <3> SUFFICES ASSUME NEW a, NEW b, NEW c, NEW v, row(k) = Row(a, b, c, v)
                 PROVE  in.cpu[k] = b /\ in.name[k] = c /\ in.vis[k] = v
      OBVIOUS
    <3>2. row(k).cpu = b /\ row(k).name = c /\ row(k).vis = v
      BY <3>1
    <3> QED
      BY <2>3, <3>2
  <2>9. p.read
    <3> SUFFICES ASSUME ~p.read PROVE FALSE
      OBVIOUS
    <3>1. row(k) = Row(0, 0, "", FALSE)
      BY Zenon DEF row
    <3>2. ~in.vis[k] /\ in.cpu[k] = 0
      BY <2>8, <3>1
    <3> HIDE DEF keep, p
    <3> QED
      BY <2>2, <2>7, <3>2
  <2>10. scanned.mac \/ may_qualify(p, scanned.prev[k])
    <3> SUFFICES ASSUME ~scanned.mac, ~may_qualify(p, scanned.prev[k]) PROVE FALSE
      OBVIOUS
    <3>1. row(k) = Row(p.ppid, p.cpu, p.comm, FALSE)
      BY Zenon, <2>9 DEF row
    <3>2. ~in.vis[k] /\ in.cpu[k] = p.cpu
      <4> HIDE DEF p
      <4>1. in.cpu[k] = p.cpu /\ in.name[k] = p.comm /\ in.vis[k] = FALSE
        BY ONLY <2>8, <3>1
      <4> QED
        BY <4>1
    <3>3. ~(p.cpu >= keep)
      BY DEF may_qualify
    <3> HIDE DEF keep, p
    <3> QED
      BY <2>2, <2>7, <3>2, <3>3
  <2>11. ~is_noise(p)
    <3> SUFFICES ASSUME is_noise(p) PROVE FALSE
      OBVIOUS
    <3>1. row(k) = Row(p.ppid, 0, "", FALSE)
      BY Zenon, <2>9, <2>10 DEF row
    <3>2. ~in.vis[k] /\ in.cpu[k] = 0
      BY <2>8, <3>1
    <3> HIDE DEF keep, p
    <3> QED
      BY <2>2, <2>7, <3>2
  <2>12. row(k) = Row(p.ppid, p.cpu, build_display(p), qualifies(p))
    BY Zenon, <2>9, <2>10, <2>11 DEF row
  <2>13. in.name[k] = build_display(p)
    BY <2>8, <2>12
  <2> QED
    BY <2>9, <2>11, <2>13 DEF build_display
<1> QED
  BY <1>1, FilterInductive, PTL

----------------------------------------------------------------------------
(* The display order                                                       *)

(* A row q that is drawn at depth e after the first l of s keeps them in   *)
(* pre-order; up gives the ppids of the rows R.                            *)
Fits(up, R, s, l, q, e) ==
  /\ IF e = 0 THEN \A k \in R : Pid[k] # up[q]
     ELSE \E m \in 1 .. l : /\ s[m][2] = e - 1 /\ Pid[s[m][1]] = up[q]
                            /\ \A x \in m + 1 .. l : e <= s[x][2]
  /\ \A m \in 1 .. l :
       s[m][2] = e /\ (\A x \in m .. l : e <= s[x][2]) => Pid[s[m][1]] < Pid[q]

(* No depth is at the limit of its type.                                   *)
Unsaturated == \A n \in 1 .. Len(out) : out[n][2] < 255

(* Whatever is on the stack would fit next, and still will when what is    *)
(* above it is drawn: it is no deeper, and of two peers the lower one has  *)
(* the greater pid.  A root once passed is not passed again.               *)
Ordered ==
  pc \in {"layout", "done"} /\ Unsaturated =>
    /\ \A n \in 1 .. Len(out) : Fits(ppid, Rows, out, n - 1, out[n][1], out[n][2])
    /\ \A n \in 1 .. Len(stack) : Fits(ppid, Rows, out, Len(out), stack[n][1], stack[n][2])
    /\ \A m, n \in 1 .. Len(stack) : m < n =>
         /\ stack[m][2] <= stack[n][2]
         /\ stack[m][2] = stack[n][2] => Pid[stack[n][1]] < Pid[stack[m][1]]
    /\ \A n \in 1 .. Len(out) : out[n][2] = 0 => \E m \in 1 .. scan - 1 : procs[m] = out[n][1]
    /\ \A n \in 1 .. Len(stack) :
         stack[n][2] = 0 => \E m \in 1 .. scan - 1 : procs[m] = stack[n][1]

LEMMA FitsSame ==
  ASSUME NEW up, NEW R, NEW s, NEW t, NEW l \in Nat, NEW q, NEW e \in Nat,
         \A n \in 1 .. l : t[n] = s[n], Fits(up, R, s, l, q, e)
  PROVE  Fits(up, R, t, l, q, e)
<1>1. CASE e = 0
  <2>1. \A m \in 1 .. l : \A x \in m .. l : x \in 1 .. l
    OBVIOUS
  <2> QED
    BY <1>1, <2>1 DEF Fits
<1>2. CASE e # 0
  <2>1. \A m \in 1 .. l : (\A x \in m .. l : x \in 1 .. l) /\ (\A x \in m + 1 .. l : x \in 1 .. l)
    OBVIOUS
  <2> QED
    BY <1>2, <2>1 DEF Fits
<1> QED
  BY <1>1, <1>2

(* It still fits after a row that is as deep, and then has a smaller pid.  *)
LEMMA FitsLater ==
  ASSUME NEW up, NEW R, NEW s, NEW l \in Nat, NEW q, NEW e \in Nat,
         Fits(up, R, s, l, q, e), NEW p, NEW d \in Nat, s[l + 1] = <<p, d>>,
         e <= d, e = d => Pid[p] < Pid[q]
  PROVE  Fits(up, R, s, l + 1, q, e)
<1>1. s[l + 1][1] = p /\ s[l + 1][2] = d
  OBVIOUS
<1>2. \A m \in 1 .. l + 1 : m \in 1 .. l \/ m = l + 1
  OBVIOUS
<1>3. ASSUME NEW m \in 1 .. l + 1, s[m][2] = e, \A x \in m .. l + 1 : e <= s[x][2]
      PROVE  Pid[s[m][1]] < Pid[q]
  <2>1. CASE m = l + 1
    BY <1>1, <1>3, <2>1
  <2>2. CASE m \in 1 .. l
    <3>1. \A x \in m .. l : x \in m .. l + 1
      OBVIOUS
    <3> QED
      BY <1>3, <2>2, <3>1 DEF Fits
  <2> QED
    BY <1>2, <2>1, <2>2
<1>4. CASE e = 0
  BY <1>3, <1>4 DEF Fits
<1>5. CASE e # 0
  <2>1. PICK m \in 1 .. l : /\ s[m][2] = e - 1 /\ Pid[s[m][1]] = up[q]
                            /\ \A x \in m + 1 .. l : e <= s[x][2]
    BY <1>5 DEF Fits
  <2>2. m \in 1 .. l + 1 /\ \A x \in m + 1 .. l + 1 : x \in m + 1 .. l \/ x = l + 1
    OBVIOUS
  <2>3. \A x \in m + 1 .. l + 1 : e <= s[x][2]
    BY <1>1, <2>1, <2>2
  <2> QED
    BY <1>3, <1>5, <2>1, <2>2, <2>3 DEF Fits
<1> QED
  BY <1>4, <1>5

(* A kid of a row fits right below it.                                     *)
LEMMA FitsBelow ==
  ASSUME NEW up, NEW R, NEW s, NEW l \in Nat, NEW q, NEW p, NEW d \in Nat,
         s[l + 1] = <<p, d>>, up[q] = Pid[p]
  PROVE  Fits(up, R, s, l + 1, q, d + 1)
<1>1. s[l + 1][1] = p /\ s[l + 1][2] = d
  OBVIOUS
<1>2. d + 1 # 0 /\ (d + 1) - 1 = d /\ ~(d + 1 <= d) /\ l + 1 \in 1 .. l + 1
  OBVIOUS
<1>3. \A x \in (l + 1) + 1 .. l + 1 : FALSE
  OBVIOUS
<1>4. \A m \in 1 .. l + 1 : l + 1 \in m .. l + 1
  OBVIOUS
<1>5. ASSUME NEW m \in 1 .. l + 1, \A x \in m .. l + 1 : d + 1 <= s[x][2]
      PROVE  FALSE
  BY <1>1, <1>2, <1>4, <1>5
<1> QED
  BY <1>1, <1>2, <1>3, <1>5 DEF Fits

LEMMA OrderedWalk ==
  ASSUME Sound, Early, LaidOut, Ordered, Walk
  PROVE  Ordered'
<1>1. PICK p, d, ks : /\ Listing(ks, {k \in Rows : ppid[k] = Pid[p]}, Pid)
                      /\ DrawnAndPushed(p, d, ks, out, stack, out', stack')
  BY WalkStep
<1>2. /\ pc = "layout" /\ pc' = pc /\ ppid' = ppid /\ procs' = procs /\ scan' = scan
      /\ stack \in Seq(Procs \X Depths) /\ out \in Seq(Procs \X Depths)
  BY DEF Walk, fields, Sound, Depths
<1>3. Rows' = Rows
  BY <1>2 DEF Rows
<1>4. PICK L \in Nat, l \in Nat, K \in Nat :
        L = Len(out) /\ l = Len(stack) - 1 /\ K = Len(ks) /\ l + 1 = Len(stack)
  <2>1. Len(stack) \in Nat \ {0} /\ Len(out) \in Nat /\ Len(ks) \in Nat
    BY <1>1 DEF DrawnAndPushed
  <2>2. Len(stack) - 1 \in Nat /\ (Len(stack) - 1) + 1 = Len(stack)
    BY <2>1
  <2> QED
    BY <2>1, <2>2
<1>5. /\ p \in Procs /\ d \in Depths /\ stack[l + 1] = <<p, d>>
      /\ Len(out') = L + 1 /\ out'[L + 1] = <<p, d>> /\ \A n \in 1 .. L : out'[n] = out[n]
      /\ Len(stack') = l + K /\ \A n \in 1 .. l : stack'[n] = stack[n]
      /\ \A n \in 1 .. K : stack'[l + n] = <<ks[(K - n) + 1], Deeper(d)>>
      /\ \A n \in 1 .. Len(stack') : n \in 1 .. l \/ n - l \in 1 .. K
  BY <1>1, <1>4 DEF DrawnAndPushed
<1>6. /\ \A n \in 1 .. L : out[n][1] \in Procs /\ out[n][2] \in Depths
      /\ \A n \in 1 .. l + 1 : stack[n][1] \in Procs /\ stack[n][2] \in Depths
  BY <1>2, <1>4
<1>7. Depths \in SUBSET Nat
  BY DEF Depths
<1> SUFFICES ASSUME Unsaturated'
             PROVE  /\ \A n \in 1 .. Len(out') : Fits(ppid', Rows', out', n - 1, out'[n][1], out'[n][2])
                    /\ \A n \in 1 .. Len(stack') :
                         Fits(ppid', Rows', out', Len(out'), stack'[n][1], stack'[n][2])
                    /\ \A m, n \in 1 .. Len(stack') : m < n =>
                         /\ stack'[m][2] <= stack'[n][2]
                         /\ stack'[m][2] = stack'[n][2] => Pid[stack'[n][1]] < Pid[stack'[m][1]]
                    /\ \A n \in 1 .. Len(out') :
                         out'[n][2] = 0 => \E m \in 1 .. scan' - 1 : procs'[m] = out'[n][1]
                    /\ \A n \in 1 .. Len(stack') :
                         stack'[n][2] = 0 => \E m \in 1 .. scan' - 1 : procs'[m] = stack'[n][1]
  BY DEF Ordered
<1>8. d < 255 /\ Deeper(d) = d + 1 /\ Unsaturated
  <2>1. L + 1 \in 1 .. L + 1 /\ \A n \in 1 .. L : n \in 1 .. L + 1
    OBVIOUS
  <2>2. out'[L + 1][2] < 255 /\ \A n \in 1 .. L : out[n][2] < 255
    BY <1>5, <2>1 DEF Unsaturated
  <2> QED
    BY <1>4, <1>5, <2>2 DEF Unsaturated, Deeper
<1>9. /\ \A n \in 1 .. L : Fits(ppid, Rows, out, n - 1, out[n][1], out[n][2])
      /\ \A n \in 1 .. l + 1 : Fits(ppid, Rows, out, L, stack[n][1], stack[n][2])
      /\ \A m, n \in 1 .. l + 1 : m < n =>
           /\ stack[m][2] <= stack[n][2]
           /\ stack[m][2] = stack[n][2] => Pid[stack[n][1]] < Pid[stack[m][1]]
      /\ \A n \in 1 .. L : out[n][2] = 0 => \E m \in 1 .. scan - 1 : procs[m] = out[n][1]
      /\ \A n \in 1 .. l + 1 :
           stack[n][2] = 0 => \E m \in 1 .. scan - 1 : procs[m] = stack[n][1]
  BY <1>2, <1>4, <1>8 DEF Ordered
<1>10. l + 1 \in 1 .. l + 1 /\ \A n \in 1 .. l : n \in 1 .. l + 1 /\ n < l + 1
  OBVIOUS
<1>11. ASSUME NEW n \in 1 .. l + 1 PROVE Fits(ppid, Rows, out', L, stack[n][1], stack[n][2])
  <2>1. stack[n][2] \in Nat /\ Fits(ppid, Rows, out, L, stack[n][1], stack[n][2])
    BY <1>6, <1>7, <1>9
  <2> QED
    BY <1>5, <2>1, FitsSame
<1>12. ASSUME NEW n \in 1 .. Len(out')
       PROVE  Fits(ppid', Rows', out', n - 1, out'[n][1], out'[n][2])
  <2>1. CASE n = L + 1
    <3>1. Fits(ppid, Rows, out', L, p, d) /\ n - 1 = L
      BY <1>5, <1>10, <1>11, <2>1
    <3> QED
      BY <1>2, <1>3, <1>5, <2>1, <3>1
  <2>2. CASE n # L + 1
    <3>1. n \in 1 .. L /\ n - 1 \in Nat /\ \A x \in 1 .. n - 1 : x \in 1 .. L
      BY <1>5, <2>2
    <3>2. out[n][2] \in Nat /\ Fits(ppid, Rows, out, n - 1, out[n][1], out[n][2]) /\ out'[n] = out[n]
      BY <1>5, <1>6, <1>7, <1>9, <3>1
    <3>3. \A x \in 1 .. n - 1 : out'[x] = out[x]
      BY <1>5, <3>1
    <3>4. Fits(ppid, Rows, out', n - 1, out[n][1], out[n][2])
      BY <3>1, <3>2, <3>3, FitsSame
    <3> QED
      BY <1>2, <1>3, <3>2, <3>4
  <2> QED
    BY <2>1, <2>2
<1>13. ASSUME NEW n \in 1 .. K
       PROVE  /\ stack'[l + n][1] = ks[(K - n) + 1] /\ stack'[l + n][2] = d + 1
              /\ ppid[ks[(K - n) + 1]] = Pid[p]
  <2>1. (K - n) + 1 \in 1 .. Len(ks)
    BY <1>4
  <2>2. ks[(K - n) + 1] \in {k \in Rows : ppid[k] = Pid[p]}
    BY <1>1, <2>1 DEF Listing, Members1
  <2>3. stack'[l + n] = <<ks[(K - n) + 1], d + 1>>
    BY <1>5, <1>8
  <2> QED
    BY <2>2, <2>3
<1>14. ASSUME NEW n \in 1 .. Len(stack')
       PROVE  \/ n \in 1 .. l /\ stack'[n] = stack[n] /\ n \in 1 .. l + 1
              \/ \E x \in 1 .. K : n = l + x
  <2>1. CASE n \in 1 .. l
    BY <1>5, <1>10, <2>1
  <2>2. CASE n - l \in 1 .. K
    <3>1. n = l + (n - l)
      OBVIOUS
    <3> QED
      BY <2>2, <3>1
  <2> QED
    BY <1>5, <2>1, <2>2
<1>15. ASSUME NEW n \in 1 .. Len(stack')
       PROVE  Fits(ppid', Rows', out', Len(out'), stack'[n][1], stack'[n][2])
  <2>1. CASE n \in 1 .. l /\ stack'[n] = stack[n] /\ n \in 1 .. l + 1
    <3>1. stack[n][2] \in Nat /\ d \in Nat /\ Fits(ppid, Rows, out', L, stack[n][1], stack[n][2])
      BY <1>5, <1>6, <1>7, <1>11, <2>1
    <3>2. stack[l + 1][1] = p /\ stack[l + 1][2] = d
      BY <1>5
    <3>3. stack[n][2] <= d /\ (stack[n][2] = d => Pid[p] < Pid[stack[n][1]])
      BY <1>9, <1>10, <2>1, <3>2
    <3>4. Fits(ppid, Rows, out', L + 1, stack[n][1], stack[n][2])
      BY <1>5, <3>1, <3>3, FitsLater
    <3> QED
      BY <1>2, <1>3, <1>5, <2>1, <3>4
  <2>2. CASE \E x \in 1 .. K : n = l + x
    <3>1. PICK x \in 1 .. K : n = l + x
      BY <2>2
    <3>2. /\ stack'[n][1] = ks[(K - x) + 1] /\ stack'[n][2] = d + 1
          /\ ppid[ks[(K - x) + 1]] = Pid[p]
      BY <1>13, <3>1
    <3>3. d \in Nat
      BY <1>5, <1>7
    <3>4. Fits(ppid, Rows, out', L + 1, ks[(K - x) + 1], d + 1)
      BY <1>5, <3>2, <3>3, FitsBelow
    <3> QED
      BY <1>2, <1>3, <1>5, <3>2, <3>4
  <2> QED
    BY <1>14, <2>1, <2>2
<1>16. ASSUME NEW m \in 1 .. Len(stack'), NEW n \in 1 .. Len(stack'), m < n
       PROVE  /\ stack'[m][2] <= stack'[n][2]
              /\ stack'[m][2] = stack'[n][2] => Pid[stack'[n][1]] < Pid[stack'[m][1]]
  <2>1. CASE n \in 1 .. l /\ stack'[n] = stack[n] /\ n \in 1 .. l + 1
    <3>1. m \in 1 .. l /\ m \in 1 .. l + 1 /\ stack'[m] = stack[m]
      BY <1>5, <1>16, <2>1
    <3> QED
      BY <1>9, <1>16, <2>1, <3>1
  <2>2. CASE \E x \in 1 .. K : n = l + x
    <3>1. PICK x \in 1 .. K : n = l + x
      BY <2>2
    <3>2. stack'[n][1] = ks[(K - x) + 1] /\ stack'[n][2] = d + 1
      BY <1>13, <3>1
    <3>3. CASE m \in 1 .. l /\ stack'[m] = stack[m] /\ m \in 1 .. l + 1
      <4>1. stack[m][2] <= stack[l + 1][2] /\ stack[l + 1][2] = d
        BY <1>5, <1>9, <1>10, <3>3
      <4>2. stack[m][2] \in Nat /\ d \in Nat
        BY <1>5, <1>6, <1>7, <3>3
      <4>3. stack[m][2] <= d + 1 /\ stack[m][2] # d + 1
        BY <4>1, <4>2
      <4> QED
        BY <3>2, <3>3, <4>3
    <3>4. CASE \E y \in 1 .. K : m = l + y
      <4>1. PICK y \in 1 .. K : m = l + y
        BY <3>4
      <4>2. stack'[m][1] = ks[(K - y) + 1] /\ stack'[m][2] = d + 1
        BY <1>13, <4>1
      <4>3. PICK a \in 1 .. Len(ks), b \in 1 .. Len(ks) : a = (K - x) + 1 /\ b = (K - y) + 1 /\ a < b
        <5>1. l + y < l + x /\ y < x
          BY <1>16, <3>1, <4>1
        <5>2. (K - x) + 1 \in 1 .. K /\ (K - y) + 1 \in 1 .. K /\ (K - x) + 1 < (K - y) + 1
          BY <5>1
        <5> QED
          BY <1>4, <5>2
      <4>4. Pid[ks[a]] < Pid[ks[b]]
        BY <1>1, <4>3 DEF Listing
      <4>5. d + 1 <= d + 1
        BY <1>5, <1>7
      <4> QED
        BY <3>2, <4>2, <4>3, <4>4, <4>5
    <3> QED
      BY <1>14, <3>3, <3>4
  <2> QED
    BY <1>14, <2>1, <2>2
<1>17. ASSUME NEW n \in 1 .. Len(out'), out'[n][2] = 0
       PROVE  \E m \in 1 .. scan' - 1 : procs'[m] = out'[n][1]
  <2>1. CASE n = L + 1
    <3>1. stack[l + 1] = out'[n]
      BY <1>5, <2>1
    <3> QED
      BY <1>2, <1>9, <1>10, <1>17, <3>1
  <2>2. CASE n # L + 1
    <3>1. n \in 1 .. L
      BY <1>5, <2>2
    <3>2. out'[n] = out[n]
      BY <1>5, <3>1
    <3> QED
      BY <1>2, <1>9, <1>17, <3>1, <3>2
  <2> QED
    BY <2>1, <2>2
<1>18. ASSUME NEW n \in 1 .. Len(stack'), stack'[n][2] = 0
       PROVE  \E m \in 1 .. scan' - 1 : procs'[m] = stack'[n][1]
  <2>1. CASE n \in 1 .. l /\ stack'[n] = stack[n] /\ n \in 1 .. l + 1
    BY <1>2, <1>9, <1>18, <2>1
  <2>2. CASE \E x \in 1 .. K : n = l + x
    <3>1. PICK x \in 1 .. K : n = l + x
      BY <2>2
    <3>2. d + 1 = 0 /\ d \in Nat
      BY <1>5, <1>7, <1>13, <1>18, <3>1
    <3> QED
      BY <3>2
  <2> QED
    BY <1>14, <2>1, <2>2
<1> QED
  BY <1>12, <1>15, <1>16, <1>17, <1>18

LEMMA OrderedRoot ==
  ASSUME Sound, LaidOut, Ordered, NextRoot
  PROVE  Ordered'
<1> DEFINE j == Min(RootsLeft)
<1>1. /\ pc = "layout" /\ pc' = pc /\ ppid' = ppid /\ procs' = procs /\ out' = out /\ stack = <<>>
      /\ stack' = <<<<procs[j], 0>>>> /\ scan' = j + 1 /\ RootsLeft # {}
  BY DEF NextRoot, fields
<1>2. /\ scan \in 1 .. N + 1 /\ N \in Nat /\ procs \in Seq(Procs) /\ out \in Seq(Procs \X Depths)
      /\ \A m, n \in 1 .. Len(procs) : m < n => Pid[procs[m]] < Pid[procs[n]]
  BY <1>1, ProcsFinite DEF Sound, LaidOut, Listing, Depths
<1>3. j \in RootsLeft
  <2>1. RootsLeft \in SUBSET Nat
    BY <1>2 DEF RootsLeft
  <2> HIDE DEF j
  <2> QED
    BY <1>1, <2>1, MinOfNumbers DEF j
<1> HIDE DEF j
<1>4. j \in Nat /\ scan <= j /\ j \in 1 .. Len(procs) /\ IsRoot(procs[j]) /\ Len(procs) \in Nat
  BY <1>2, <1>3 DEF RootsLeft
<1>5. Rows' = Rows /\ (Unsaturated' <=> Unsaturated)
  BY <1>1 DEF Rows, Unsaturated
<1> SUFFICES ASSUME Unsaturated
             PROVE  /\ \A n \in 1 .. Len(out') : Fits(ppid', Rows', out', n - 1, out'[n][1], out'[n][2])
                    /\ \A n \in 1 .. Len(stack') :
                         Fits(ppid', Rows', out', Len(out'), stack'[n][1], stack'[n][2])
                    /\ \A m, n \in 1 .. Len(stack') : m < n =>
                         /\ stack'[m][2] <= stack'[n][2]
                         /\ stack'[m][2] = stack'[n][2] => Pid[stack'[n][1]] < Pid[stack'[m][1]]
                    /\ \A n \in 1 .. Len(out') :
                         out'[n][2] = 0 => \E m \in 1 .. scan' - 1 : procs'[m] = out'[n][1]
                    /\ \A n \in 1 .. Len(stack') :
                         stack'[n][2] = 0 => \E m \in 1 .. scan' - 1 : procs'[m] = stack'[n][1]
  BY <1>5 DEF Ordered
<1>6. /\ \A n \in 1 .. Len(out) : Fits(ppid, Rows, out, n - 1, out[n][1], out[n][2])
      /\ \A n \in 1 .. Len(out) : out[n][2] = 0 => \E m \in 1 .. scan - 1 : procs[m] = out[n][1]
  BY <1>1 DEF Ordered
<1>7. Len(stack') = 1 /\ stack'[1][1] = procs[j] /\ stack'[1][2] = 0
  BY <1>1
<1>8. \A n \in 1 .. Len(stack') : n = 1
  BY <1>7
<1>9. \A m \in 1 .. scan - 1 : m \in 1 .. scan' - 1 /\ m \in 1 .. Len(procs) /\ m < j
  BY <1>1, <1>2, <1>4
<1>10. Fits(ppid, Rows, out, Len(out), procs[j], 0)
  <2>1. \A k \in Rows : Pid[k] # ppid[procs[j]]
    BY <1>4 DEF IsRoot
  <2>2. ASSUME NEW m \in 1 .. Len(out), out[m][2] = 0 PROVE Pid[out[m][1]] < Pid[procs[j]]
    <3>1. PICK n \in 1 .. scan - 1 : procs[n] = out[m][1]
      BY <1>6, <2>2
    <3> QED
      BY <1>2, <1>4, <1>9, <3>1
  <2> QED
    BY <2>1, <2>2 DEF Fits
<1>11. j \in 1 .. scan' - 1
  BY <1>1, <1>4
<1>12. \A n \in 1 .. Len(out') : Fits(ppid', Rows', out', n - 1, out'[n][1], out'[n][2])
  BY <1>1, <1>5, <1>6
<1>13. \A n \in 1 .. Len(stack') : Fits(ppid', Rows', out', Len(out'), stack'[n][1], stack'[n][2])
  BY <1>1, <1>5, <1>7, <1>8, <1>10
<1>14. \A m, n \in 1 .. Len(stack') : ~(m < n)
  BY <1>8
<1>15. \A n \in 1 .. Len(out') : out'[n][2] = 0 => \E m \in 1 .. scan' - 1 : procs'[m] = out'[n][1]
  BY <1>1, <1>6, <1>9
<1>16. \A n \in 1 .. Len(stack') :
         stack'[n][2] = 0 => \E m \in 1 .. scan' - 1 : procs'[m] = stack'[n][1]
  BY <1>1, <1>7, <1>8, <1>11
<1> QED
  BY <1>12, <1>13, <1>14, <1>15, <1>16

LEMMA OrderedStep ==
  ASSUME FInv, Ordered, [Next /\ UNCHANGED scanned]_cvars
  PROVE  Ordered'
<1>1. Sound /\ Early /\ LaidOut
  BY DEF FInv
<1>2. CASE Coalesce \/ Seed \/ Visit
  BY <1>2 DEF Coalesce, Seed, Visit, Ordered
<1>3. CASE Retain
  <2>1. out' = <<>> /\ stack' = <<>>
    BY <1>1, <1>3 DEF Retain, Early
  <2> QED
    BY <2>1 DEF Ordered
<1>4. CASE NextRoot
  BY <1>1, <1>4, OrderedRoot
<1>5. CASE Walk
  BY <1>1, <1>5, OrderedWalk
<1>6. CASE Finish \/ UNCHANGED cvars
  <2>1. /\ out' = out /\ stack' = stack /\ procs' = procs /\ scan' = scan /\ ppid' = ppid
        /\ pc' \in {"layout", "done"} => pc \in {"layout", "done"}
    BY <1>6 DEF Finish, cvars, vars, fields, layout
  <2>2. Rows' = Rows
    BY <2>1 DEF Rows
  <2> QED
    <3>1. Unsaturated' <=> Unsaturated
      BY <2>1 DEF Unsaturated
    <3> QED
      BY <2>1, <2>2, <3>1 DEF Ordered
<1> QED
  BY <1>2, <1>3, <1>4, <1>5, <1>6 DEF Next

LEMMA OrderedIsPreorder ==
  ASSUME FInv, Ordered, Unsaturated
  PROVE  Preorder
<1>1. CASE pc \notin {"layout", "done"}
  <2>1. out = <<>>
    BY <1>1 DEF FInv, Early, Sound
  <2> QED
    BY <2>1 DEF Preorder
<1>2. CASE pc \in {"layout", "done"}
  <2> DEFINE above(n) == {m \in 1 .. n - 1 : out[m][2] < out[n][2]}
             peers(n) == {m \in 1 .. n - 1 : /\ out[m][2] = out[n][2]
                                             /\ \A x \in m .. n : out[x][2] >= out[n][2]}
  <2>1. out \in Seq(Procs \X Depths) /\ Depths \in SUBSET Nat
    BY DEF FInv, Sound, Depths
  <2> SUFFICES ASSUME NEW n \in 1 .. Len(out)
               PROVE  /\ IF out[n][2] = 0 THEN IsRoot(out[n][1])
                         ELSE /\ above(n) # {} /\ out[Max(above(n))][2] = out[n][2] - 1
                              /\ Pid[out[Max(above(n))][1]] = ppid[out[n][1]]
                      /\ \A m \in peers(n) : Pid[out[m][1]] < Pid[out[n][1]]
    BY DEF Preorder
  <2> DEFINE q == out[n][1]
             e == out[n][2]
  <2>2. Fits(ppid, Rows, out, n - 1, q, e)
    BY <1>2 DEF Ordered
  <2>3. /\ e \in Nat /\ n \in Nat /\ \A m \in 1 .. n - 1 : m \in 1 .. Len(out) /\ m \in Nat
        /\ \A m \in 1 .. n - 1 : out[m][2] \in Nat
    <3>1. Len(out) \in Nat /\ \A m \in 1 .. Len(out) : out[m] \in Procs \X Depths
      BY <2>1
    <3>2. \A m \in 1 .. Len(out) : out[m][2] \in Nat
      BY <2>1, <3>1
    <3>3. n \in Nat /\ \A m \in 1 .. n - 1 : m \in 1 .. Len(out) /\ m \in Nat
      BY <3>1
    <3> QED
      BY <3>2, <3>3
  <2> HIDE DEF q, e
  <2>4. ASSUME NEW m \in peers(n) PROVE Pid[out[m][1]] < Pid[q]
    <3>1. m \in 1 .. n - 1 /\ out[m][2] = e /\ \A x \in m .. n : out[x][2] >= e
      BY <2>4 DEF e
    <3>2. \A x \in m .. n - 1 : x \in m .. n /\ x \in 1 .. n - 1
      BY <3>1, <2>3
    <3>3. \A x \in m .. n - 1 : e <= out[x][2]
      BY <2>3, <3>1, <3>2
    <3> QED
      BY <2>2, <3>1, <3>3 DEF Fits
  <2>5. ASSUME e = 0 PROVE IsRoot(q)
    BY <2>2, <2>5 DEF Fits, IsRoot
  <2>6. ASSUME e # 0
        PROVE  /\ above(n) # {} /\ out[Max(above(n))][2] = e - 1
               /\ Pid[out[Max(above(n))][1]] = ppid[q]
    <3>1. PICK m \in 1 .. n - 1 : /\ out[m][2] = e - 1 /\ Pid[out[m][1]] = ppid[q]
                                  /\ \A x \in m + 1 .. n - 1 : e <= out[x][2]
      BY <2>2, <2>6 DEF Fits
    <3>2. m \in above(n)
      BY <2>3, <3>1 DEF e
    <3>3. ASSUME NEW x \in above(n) PROVE x <= m
      <4>1. x \in 1 .. n - 1 /\ out[x][2] < e /\ out[x][2] \in Nat
        BY <2>3 DEF e
      <4>2. ~(e <= out[x][2])
        BY <2>3, <4>1
      <4>3. x \notin m + 1 .. n - 1
        BY <3>1, <4>2
      <4> QED
        BY <2>3, <4>1, <4>3
    <3>4. \A x \in above(n) : x \in Nat
      BY <2>3
    <3> HIDE DEF above
    <3>5. Max(above(n)) = m
      <4>1. ASSUME NEW A, m \in A, \A x \in A : x <= m /\ x \in Nat PROVE Max(A) = m
        <5>1. Max(A) \in A /\ \A y \in A : Max(A) >= y
          BY <4>1 DEF Max
        <5>2. Max(A) \in Nat /\ m \in Nat /\ Max(A) <= m /\ Max(A) >= m
          BY <4>1, <5>1
        <5> QED
          BY <5>2
      <4> QED
        BY <3>2, <3>3, <3>4, <4>1
    <3> QED
      BY <3>1, <3>2, <3>5
  <2> QED
    BY <2>4, <2>5, <2>6 DEF q, e
<1> QED
  BY <1>1, <1>2

(* The rows of tree_layout come in pre-order, siblings and roots ascending *)
(* by pid, in every tree in which u8::saturating_add never saturates.      *)
THEOREM AlwaysPreorder == CollectSpec => [](Unsaturated => Preorder)
<1>1. CollectInit => Ordered
  BY DEF CollectInit, Init, Begin, Ordered
<1>2. FInv /\ Ordered /\ [Next /\ UNCHANGED scanned]_cvars => Ordered'
  BY OrderedStep
<1>3. FInv /\ Ordered => (Unsaturated => Preorder)
  BY OrderedIsPreorder
<1> QED
  BY <1>1, <1>2, <1>3, FilterInductive, PTL DEF CollectSpec

----------------------------------------------------------------------------
(* The sum that MapThenSumSet folds does not depend on the order in which  *)
(* it takes the members.                                                   *)

Load(c, S) == MapThenSumSet(LAMBDA k : c[k], S)

One(s) == CHOOSE x \in s : TRUE

Adds(c, P, f) ==
  f = [s \in SUBSET P |-> IF s = {} THEN 0 ELSE c[One(s)] + f[s \ {One(s)}]]

LEMMA LoadFold == \A c, S : Load(c, S) = (CHOOSE f : Adds(c, S, f))[S]
BY DEF Load, MapThenSumSet, MapThenFoldSet, Adds, One

LEMMA LessOne ==
  ASSUME NEW P, IsFiniteSet(P), NEW s \in SUBSET P, s # {}
  PROVE  /\ One(s) \in s /\ s \ {One(s)} \in SUBSET P
         /\ \A n \in Nat : Cardinality(s) <= n + 1 => Cardinality(s \ {One(s)}) <= n
<1>1. One(s) \in s
  BY DEF One
<1>2. IsFiniteSet(s)
  BY FS_Subset
<1>3. Cardinality(s \ {One(s)}) = Cardinality(s) - 1 /\ Cardinality(s) \in Nat
  BY <1>1, <1>2, FS_RemoveElement, FS_CardinalityType
<1> QED
  BY <1>1, <1>3

LEMMA SumExists ==
  ASSUME NEW P, IsFiniteSet(P), NEW c, c \in [P -> Nat]
  PROVE  \E f \in [SUBSET P -> Nat] : Adds(c, P, f)
<1> DEFINE F == [SUBSET P -> Nat]
           Step(h) == [s \in SUBSET P |-> IF s = {} THEN 0 ELSE c[One(s)] + h[s \ {One(s)}]]
           g == [h \in F |-> Step(h)]
           zero == [s \in SUBSET P |-> 0]
<1>1. ASSUME NEW h \in F PROVE Step(h) \in F
  <2> SUFFICES ASSUME NEW s \in SUBSET P, s # {} PROVE c[One(s)] + h[s \ {One(s)}] \in Nat
    OBVIOUS
  <2>1. One(s) \in P /\ s \ {One(s)} \in SUBSET P
    BY LessOne
  <2>2. c[One(s)] \in Nat /\ h[s \ {One(s)}] \in Nat
    BY <2>1
  <2> QED
    BY <2>2
<1>2. zero \in F /\ g \in [F -> F]
  BY <1>1
<1>3. PICK f \in [Nat -> F] : f[0] = zero /\ \A n \in Nat : f[n + 1] = g[f[n]]
  <2> HIDE DEF F, g, zero
  <2>1. zero \in F
    BY <1>2
  <2>2. g \in [F -> F]
    BY <1>2
  <2> QED
    BY ONLY <2>1, <2>2, IterateForever
<1>4. \A n \in Nat : f[n] \in F /\ f[n + 1] = Step(f[n])
  <2> HIDE DEF F, Step
  <2> QED
    BY <1>3
<1>5. \A n \in Nat, s \in SUBSET P :
        f[n + 1][s] = IF s = {} THEN 0 ELSE c[One(s)] + f[n][s \ {One(s)}]
  BY <1>4
<1>6. f[0][{}] = 0
  BY <1>3
<1> DEFINE T == {n \in Nat : \A s \in SUBSET P : Cardinality(s) <= n => f[n + 1][s] = f[n][s]}
<1>7. 0 \in T
  <2> SUFFICES ASSUME NEW s \in SUBSET P, Cardinality(s) <= 0 PROVE f[0 + 1][s] = f[0][s]
    OBVIOUS
  <2>1. s = {}
    <3>1. IsFiniteSet(s)
      BY FS_Subset
    <3> QED
      BY <3>1, FS_CardinalityType, FS_EmptySet
  <2> QED
    BY <1>5, <1>6, <2>1
<1>8. ASSUME NEW n \in T PROVE n + 1 \in T
  <2> SUFFICES ASSUME NEW s \in SUBSET P, Cardinality(s) <= n + 1
               PROVE  f[(n + 1) + 1][s] = f[n + 1][s]
    OBVIOUS
  <2>3. n \in Nat /\ n + 1 \in Nat
    OBVIOUS
  <2>1. CASE s = {}
    BY <1>5, <2>1, <2>3
  <2>2. CASE s # {}
    <3>1. s \ {One(s)} \in SUBSET P /\ Cardinality(s \ {One(s)}) <= n
      BY <2>2, LessOne
    <3>2. f[n + 1][s \ {One(s)}] = f[n][s \ {One(s)}]
      BY <3>1
    <3> QED
      <4>1. f[(n + 1) + 1][s] = c[One(s)] + f[n + 1][s \ {One(s)}]
        BY <1>5, <2>2, <2>3
      <4>2. f[n + 1][s] = c[One(s)] + f[n][s \ {One(s)}]
        BY <1>5, <2>2, <2>3
      <4> QED
        BY <3>2, <4>1, <4>2
  <2> QED
    BY <2>1, <2>2
<1>9. T = Nat
  <2> HIDE DEF T
  <2> QED
    BY <1>7, <1>8, Induct DEF T
<1> DEFINE m == Cardinality(P)
<1>10. m \in Nat /\ \A s \in SUBSET P : Cardinality(s) <= m
  BY FS_CardinalityType, FS_Subset
<1>11. \A s \in SUBSET P : f[m + 1][s] = f[m][s]
  <2> HIDE DEF m
  <2> QED
    BY <1>9, <1>10
<1>12. f[m] \in F /\ f[m + 1] \in F /\ f[m + 1] = Step(f[m])
  <2> HIDE DEF F, Step, m
  <2>1. m + 1 \in Nat
    BY <1>10
  <2> QED
    BY <1>4, <1>10, <2>1
<1>13. f[m] = Step(f[m])
  <2> HIDE DEF m
  <2>1. f[m + 1] = f[m]
    BY <1>11, <1>12
  <2> HIDE DEF Step
  <2> QED
    BY <1>12, <2>1
<1> HIDE DEF m
<1> QED
  BY <1>12, <1>13 DEF Adds

(* Of two such functions the one for fewer sets is part of the other.      *)
LEMMA SumUnique ==
  ASSUME NEW P, IsFiniteSet(P), NEW c, NEW f, Adds(c, P, f),
         NEW S \in SUBSET P, NEW h, Adds(c, S, h)
  PROVE  h[S] = f[S]
<1> DEFINE T == {n \in Nat : \A s \in SUBSET S : Cardinality(s) <= n => h[s] = f[s]}
<1>1. \A s \in SUBSET P : f[s] = IF s = {} THEN 0 ELSE c[One(s)] + f[s \ {One(s)}]
  BY DEF Adds
<1>2. \A s \in SUBSET S : h[s] = IF s = {} THEN 0 ELSE c[One(s)] + h[s \ {One(s)}]
  BY DEF Adds
<1>3. 0 \in T
  <2> SUFFICES ASSUME NEW s \in SUBSET S, Cardinality(s) <= 0 PROVE h[s] = f[s]
    OBVIOUS
  <2>1. IsFiniteSet(s)
    BY FS_Subset
  <2>2. s = {}
    BY <2>1, FS_CardinalityType, FS_EmptySet
  <2> QED
    BY <1>1, <1>2, <2>2
<1>4. ASSUME NEW n \in T PROVE n + 1 \in T
  <2> SUFFICES ASSUME NEW s \in SUBSET S, Cardinality(s) <= n + 1 PROVE h[s] = f[s]
    OBVIOUS
  <2>1. CASE s = {}
    BY <1>1, <1>2, <2>1
  <2>2. CASE s # {}
    <3>1. IsFiniteSet(S)
      BY FS_Subset
    <3>2. s \ {One(s)} \in SUBSET S /\ Cardinality(s \ {One(s)}) <= n
      BY <2>2, <3>1, LessOne
    <3>3. h[s \ {One(s)}] = f[s \ {One(s)}]
      BY <3>2
    <3> QED
      BY <1>1, <1>2, <2>2, <3>3
  <2> QED
    BY <2>1, <2>2
<1>5. T = Nat
  <2> HIDE DEF T
  <2> QED
    BY <1>3, <1>4, Induct DEF T
<1>6. IsFiniteSet(S)
  BY FS_Subset
<1>7. Cardinality(S) \in Nat /\ Cardinality(S) <= Cardinality(S)
  BY <1>6, FS_CardinalityType
<1> QED
  BY <1>5, <1>7

LEMMA LoadGrows ==
  ASSUME NEW P, IsFiniteSet(P), NEW c \in [P -> Nat]
  PROVE  /\ Load(c, {}) = 0
         /\ \A S \in SUBSET P : Load(c, S) \in Nat
         /\ \A S \in SUBSET P : \A x \in P \ S : Load(c, S \cup {x}) = Load(c, S) + c[x]
<1>1. PICK f \in [SUBSET P -> Nat] : Adds(c, P, f)
  BY SumExists
<1>2. ASSUME NEW S \in SUBSET P PROVE Load(c, S) = f[S]
  <2>1. IsFiniteSet(S)
    BY FS_Subset
  <2>2. \E h : Adds(c, S, h)
    <3> DEFINE d == [k \in S |-> c[k]]
    <3>1. d \in [S -> Nat]
      OBVIOUS
    <3>2. PICK h \in [SUBSET S -> Nat] : Adds(d, S, h)
      <4> HIDE DEF d
      <4> QED
        BY <2>1, <3>1, SumExists
    <3>3. ASSUME NEW s \in SUBSET S, s # {} PROVE d[One(s)] = c[One(s)]
      <4>1. One(s) \in S
        BY <2>1, <3>3, LessOne
      <4> QED
        BY <4>1
    <3> HIDE DEF d
    <3>4. Adds(c, S, h)
      BY <3>2, <3>3 DEF Adds
    <3> QED
      BY <3>4
  <2>3. Adds(c, S, CHOOSE h : Adds(c, S, h))
    BY <2>2
  <2> QED
    BY <1>1, <2>3, LoadFold, SumUnique
<1>3. \A s \in SUBSET P : f[s] \in Nat /\ f[s] = IF s = {} THEN 0 ELSE c[One(s)] + f[s \ {One(s)}]
  BY <1>1 DEF Adds
<1> DEFINE T == {n \in Nat : \A S \in SUBSET P : Cardinality(S) <= n =>
                              \A x \in P \ S : f[S \cup {x}] = f[S] + c[x]}
<1>4. ASSUME NEW S \in SUBSET P, NEW x \in P \ S, One(S \cup {x}) = x
      PROVE  f[S \cup {x}] = f[S] + c[x]
  <2>1. S \cup {x} \in SUBSET P /\ S \cup {x} # {} /\ (S \cup {x}) \ {x} = S
    OBVIOUS
  <2>2. f[S \cup {x}] = c[x] + f[S]
    BY <1>3, <1>4, <2>1
  <2> QED
    BY <1>3, <2>2
<1>5. 0 \in T
  <2> SUFFICES ASSUME NEW S \in SUBSET P, Cardinality(S) <= 0, NEW x \in P \ S
               PROVE  f[S \cup {x}] = f[S] + c[x]
    OBVIOUS
  <2>1. IsFiniteSet(S)
    BY FS_Subset
  <2>2. S = {}
    BY <2>1, FS_CardinalityType, FS_EmptySet
  <2>3. One(S \cup {x}) = x
    BY <2>2 DEF One
  <2> QED
    BY <1>4, <2>3
<1>6. ASSUME NEW n \in T PROVE n + 1 \in T
  <2> SUFFICES ASSUME NEW S \in SUBSET P, Cardinality(S) <= n + 1, NEW x \in P \ S, One(S \cup {x}) # x
               PROVE  f[S \cup {x}] = f[S] + c[x]
    BY <1>4
  <2> DEFINE U == S \cup {x}
             y == One(U)
  <2>1. U \in SUBSET P /\ U # {}
    OBVIOUS
  <2>2. y \in U
    <3> HIDE DEF U
    <3> QED
      BY <2>1, LessOne
  <2>3. y \in S /\ y \in P /\ y # x
    BY <2>2
  <2>4. f[U] = c[y] + f[U \ {y}]
    <3> HIDE DEF U
    <3> QED
      BY <1>3, <2>1
  <2> HIDE DEF y
  <2> DEFINE V == S \ {y}
  <2>5. V \in SUBSET P /\ Cardinality(V) <= n
    <3>1. IsFiniteSet(S)
      BY FS_Subset
    <3>2. Cardinality(V) = Cardinality(S) - 1 /\ Cardinality(S) \in Nat
      BY <2>3, <3>1, FS_RemoveElement, FS_CardinalityType
    <3> HIDE DEF V
    <3>3. Cardinality(V) <= n
      BY <3>2
    <3> QED
      BY <3>3 DEF V
  <2>6. /\ U \ {y} = V \cup {x} /\ x \in P \ V
        /\ S = V \cup {y} /\ y \in P \ V
    BY <2>3
  <2> HIDE DEF U, V
  <2>7. f[V \cup {x}] = f[V] + c[x] /\ f[V \cup {y}] = f[V] + c[y]
    BY <2>5, <2>6
  <2>8. f[V] \in Nat /\ c[x] \in Nat /\ c[y] \in Nat
    BY <1>3, <2>3, <2>5
  <2>9. f[U] = f[S] + c[x]
    <3>1. f[U] = c[y] + f[V \cup {x}] /\ f[S] = f[V \cup {y}]
      BY <2>4, <2>6
    <3> QED
      BY <2>7, <2>8, <3>1
  <2> QED
    BY <2>9 DEF U
<1>7. T = Nat
  <2> HIDE DEF T
  <2> QED
    BY <1>5, <1>6, Induct DEF T
<1>8. ASSUME NEW S \in SUBSET P, NEW x \in P \ S PROVE Load(c, S \cup {x}) = Load(c, S) + c[x]
  <2>1. IsFiniteSet(S)
    BY FS_Subset
  <2>2. Cardinality(S) \in Nat /\ Cardinality(S) <= Cardinality(S)
    BY <2>1, FS_CardinalityType
  <2>3. f[S \cup {x}] = f[S] + c[x]
    BY <1>7, <2>2
  <2>4. S \cup {x} \in SUBSET P
    OBVIOUS
  <2> QED
    BY <1>2, <2>3, <2>4
<1> QED
  BY <1>2, <1>3, <1>8

----------------------------------------------------------------------------
(* Where a process folds to                                                *)

(* No process has more ancestors than coalesce_root looks at.              *)
Shallow == \A k \in Procs : Path(k)[Hops + 1] = 0

MatchAt(k, n) == Path(k)[n] # 0 /\ FoldsInto(in.name[k], in.name[Path(k)[n]])

LEMMA TargetIs ==
  ASSUME in \in Input, NEW k \in Procs
  PROVE  /\ \A n \in Nat \ {0} :
              MatchAt(k, n) /\ (\A j \in 1 .. n - 1 : ~MatchAt(k, j)) => Target(k) = Path(k)[n]
         /\ (\A n \in Nat \ {0} : ~MatchAt(k, n)) => Target(k) = 0
         /\ Target(k) # 0 => \E n \in Nat \ {0} : MatchAt(k, n) /\ Target(k) = Path(k)[n]
<1> DEFINE ns == {n \in 1 .. N : Nth(k, n) # 0 /\ FoldsInto(in.name[k], in.name[Nth(k, n)])}
           A == {a \in Procs : FoldsInto(in.name[k], in.name[a])}
<1>1. N \in Nat /\ 0 \notin Procs
  BY ProcsFinite DEF Procs
<1>2. \A n \in Nat : MatchAt(k, n) <=> Path(k)[n] \in A
  BY <1>1, PathUp DEF Places, MatchAt
<1>3. \A n \in 1 .. N :
        Nth(k, n) # 0 /\ FoldsInto(in.name[k], in.name[Nth(k, n)]) <=> Nth(k, n) \in A
  <2>1. \A n \in 1 .. N : n \in Nat /\ Nth(k, n) = Path(k)[n]
    BY <1>1, NthIsPath
  <2> QED
    BY <1>2, <2>1 DEF MatchAt
<1>4. ns = {n \in 1 .. N : Nth(k, n) \in A} /\ A \in SUBSET Procs
  BY <1>3
<1>5. Target(k) = IF ns = {} THEN 0 ELSE Nth(k, Min(ns))
  BY DEF Target, Nearest
<1> HIDE DEF ns, A
<1>6. IsNearest(k, A, Target(k))
  BY <1>4, <1>5, NearestIn
<1>7. \A n \in Nat \ {0} : \A j \in 1 .. n - 1 : j \in Nat
  OBVIOUS
<1>8. ASSUME NEW n \in Nat \ {0}, MatchAt(k, n), \A j \in 1 .. n - 1 : ~MatchAt(k, j)
      PROVE  Target(k) = Path(k)[n]
  <2>1. Path(k)[n] \in A /\ \A j \in 1 .. n - 1 : Path(k)[j] \notin A
    BY <1>2, <1>7, <1>8
  <2> QED
    BY <1>6, <2>1 DEF IsNearest
<1>9. ASSUME \A n \in Nat \ {0} : ~MatchAt(k, n) PROVE Target(k) = 0
  BY <1>2, <1>6, <1>9 DEF IsNearest
<1>10. ASSUME Target(k) # 0 PROVE \E n \in Nat \ {0} : MatchAt(k, n) /\ Target(k) = Path(k)[n]
  BY <1>2, <1>6, <1>10 DEF IsNearest
<1> QED
  BY <1>8, <1>9, <1>10

LEMMA TargetType == ASSUME in \in Input, NEW k \in Procs PROVE Target(k) \in Places
<1>1. CASE Target(k) = 0
  BY <1>1 DEF Places
<1>2. CASE Target(k) # 0
  <2>1. PICK n \in Nat : Target(k) = Path(k)[n]
    BY <1>2, TargetIs
  <2> QED
    BY <2>1, PathUp
<1> QED
  BY <1>1, <1>2

(* One fold after another; it stays where nothing is folded any more.      *)
Hop == [q \in Procs |-> IF Target(q) = 0 THEN q ELSE Target(q)]

Chain(k) == CHOOSE f \in [Nat -> Procs] : f[0] = k /\ \A n \in Nat : f[n + 1] = Hop[f[n]]

LEMMA ChainStep ==
  ASSUME in \in Input, NEW k \in Procs
  PROVE  /\ Chain(k) \in [Nat -> Procs] /\ Chain(k)[0] = k
         /\ \A n \in Nat : Chain(k)[n + 1] = Hop[Chain(k)[n]]
<1>1. Hop \in [Procs -> Procs]
  BY TargetType DEF Hop, Places
<1>2. \E f \in [Nat -> Procs] : f[0] = k /\ \A n \in Nat : f[n + 1] = Hop[f[n]]
  BY ONLY <1>1, k \in Procs, IterateForever
<1> QED
  BY <1>2 DEF Chain

LEMMA OutermostOnChain ==
  ASSUME in \in Input, NEW k \in Procs
  PROVE  Outermost(k) = Chain(k)[N]
<1> DEFINE Rule(e) == [m \in 0 .. N |->
                         IF m = 0 THEN k
                         ELSE LET q == e[m - 1]
                                  t == Target(q)
                              IN IF t = 0 THEN q ELSE t]
           f == CHOOSE e : e = Rule(e)
           h == [m \in 0 .. N |-> Chain(k)[m]]
<1>1. Outermost(k) = f[N]
  BY DEF Outermost
<1>2. N \in Nat
  BY ProcsFinite
<1>3. h = Rule(h)
  <2>1. ASSUME NEW m \in 0 .. N, m # 0
        PROVE  Chain(k)[m] = IF Target(h[m - 1]) = 0 THEN h[m - 1] ELSE Target(h[m - 1])
    <3>1. m - 1 \in Nat /\ m - 1 \in 0 .. N /\ (m - 1) + 1 = m
      BY <1>2, <2>1
    <3>2. Chain(k)[(m - 1) + 1] = Hop[Chain(k)[m - 1]] /\ Chain(k)[m - 1] \in Procs
      BY <3>1, ChainStep
    <3>3. h[m - 1] = Chain(k)[m - 1]
      BY <3>1
    <3> QED
      BY <3>1, <3>2, <3>3 DEF Hop
  <2>2. Chain(k)[0] = k
    BY ChainStep
  <2> QED
    BY <2>1, <2>2
<1>4. f = Rule(f)
  BY <1>3
<1> HIDE DEF f, h
<1> DEFINE T == {m \in Nat : m <= N => f[m] = h[m]}
<1>5. 0 \in T
  BY <1>2, <1>3, <1>4
<1>6. ASSUME NEW m \in T PROVE m + 1 \in T
  <2> SUFFICES ASSUME m + 1 <= N PROVE f[m + 1] = h[m + 1]
    OBVIOUS
  <2>1. m + 1 \in 0 .. N /\ m + 1 # 0 /\ (m + 1) - 1 = m /\ m <= N
    BY <1>2
  <2>2. f[m] = h[m]
    BY <2>1
  <2>3. \A e : e = Rule(e) => e[m + 1] = IF Target(e[m]) = 0 THEN e[m] ELSE Target(e[m])
    BY <2>1
  <2> HIDE DEF Rule
  <2> QED
    BY <1>3, <1>4, <2>2, <2>3
<1>7. T = Nat
  <2> HIDE DEF T
  <2> QED
    BY <1>5, <1>6, Induct DEF T
<1>8. f[N] = h[N]
  BY <1>2, <1>7
<1> QED
  BY <1>1, <1>2, <1>8 DEF h

(* What coalesce_root has found after h hops: c is the process it folds to *)
(* so far, j hops up and at most as many folds away, and no match since.   *)
Found(i, h, w, c, j, s) ==
  /\ w.a = Path(i)[h + 1] /\ w.name = in.name[c] /\ c = (IF w.root = 0 THEN i ELSE w.root)
  /\ j \in 0 .. h /\ s \in 0 .. j /\ c \in Procs /\ Path(i)[j] = c /\ Chain(i)[s] = c
  /\ \A x \in 1 .. h - j : ~MatchAt(c, x)
  /\ w.root # 0 => \E x \in Nat \ {0} : MatchAt(i, x)

LEMMA FoundNext ==
  ASSUME in \in Input, NEW i \in Procs, NEW h \in Nat, NEW w \in Match,
         NEW c, NEW j, NEW s, Found(i, h, w, c, j, s)
  PROVE  \E d, k, t : Found(i, h + 1, Outward[w], d, k, t)
<1>1. /\ w.a = Path(i)[h + 1] /\ w.name = in.name[c] /\ c = (IF w.root = 0 THEN i ELSE w.root)
      /\ j \in 0 .. h /\ s \in 0 .. j /\ c \in Procs /\ Path(i)[j] = c /\ Chain(i)[s] = c
      /\ \A x \in 1 .. h - j : ~MatchAt(c, x)
      /\ w.root # 0 => \E x \in Nat \ {0} : MatchAt(i, x)
  BY DEF Found
<1>2. PICK b \in Nat \ {0} : b = (h + 1) - j /\ j + b = h + 1 /\ 1 .. b - 1 = 1 .. h - j
  <2>1. /\ (h + 1) - j \in Nat \ {0} /\ j + ((h + 1) - j) = h + 1
        /\ ((h + 1) - j) - 1 = h - j
    BY <1>1
  <2> QED
    BY <2>1
<1>3. Path(c)[b] = w.a /\ w.a \in Places
  <2>1. j \in Nat /\ i \in Places
    BY <1>1 DEF Places
  <2>2. Path(i)[j + b] = Path(Path(i)[j])[b]
    BY <1>2, <2>1, PathPlus
  <2>3. w.a \in Places
    BY DEF Match
  <2> QED
    BY <1>1, <1>2, <2>2, <2>3
<1>4. (h + 1) + 1 \in Nat /\ h + 1 \in Nat /\ h + 1 <= (h + 1) + 1
  OBVIOUS
<1>5. CASE ~MatchAt(c, b)
  <2>1. Outward[w] = [w EXCEPT !.a = IF w.a = 0 THEN 0 ELSE Up(w.a)]
    <3>1. CASE w.a = 0
      BY <3>1 DEF Outward, Match
    <3>2. CASE w.a # 0
      BY <1>1, <1>3, <1>5, <3>2 DEF Outward, MatchAt
    <3> QED
      BY <3>1, <3>2
  <2>2. Outward[w].root = w.root /\ Outward[w].name = w.name
        /\ Outward[w].a = IF w.a = 0 THEN 0 ELSE Up(w.a)
    BY <2>1 DEF Match
  <2>3. Outward[w].a = Path(i)[(h + 1) + 1]
    <3>1. CASE w.a = 0
      <4>1. i \in Places
        BY DEF Places
      <4> QED
        BY <1>1, <1>4, <2>2, <3>1, <4>1, PathEnd
    <3>2. CASE w.a # 0
      BY <1>1, <1>4, <2>2, <3>2, PathUp
    <3> QED
      BY <3>1, <3>2
  <2>4. \A x \in 1 .. (h + 1) - j : x \in 1 .. h - j \/ x = b
    BY <1>1, <1>2
  <2>5. j \in 0 .. h + 1
    BY <1>1
  <2>6. Found(i, h + 1, Outward[w], c, j, s)
    BY <1>1, <1>5, <2>2, <2>3, <2>4, <2>5 DEF Found
  <2> QED
    BY <2>6
<1>6. CASE MatchAt(c, b)
  <2>1. w.a # 0 /\ FoldsInto(w.name, in.name[w.a]) /\ w.a \in Procs
    BY <1>1, <1>3, <1>6 DEF MatchAt, Places
  <2>2. Outward[w] = [root |-> w.a, name |-> in.name[w.a], a |-> Up(w.a)]
    BY <2>1 DEF Outward
  <2>3. Outward[w].root = w.a /\ Outward[w].name = in.name[w.a] /\ Outward[w].a = Up(w.a)
    BY <2>2
  <2>4. Outward[w].a = Path(i)[(h + 1) + 1]
    BY <1>1, <1>4, <2>1, <2>3, PathUp
  <2>5. Target(c) = w.a
    BY <1>1, <1>2, <1>3, <1>6, TargetIs
  <2>6. Chain(i)[s + 1] = w.a
    <3>1. Chain(i)[s + 1] = Hop[Chain(i)[s]]
      <4>1. s \in Nat
        BY <1>1
      <4> QED
        BY <4>1, ChainStep
    <3> QED
      BY <1>1, <2>1, <2>5, <3>1 DEF Hop
  <2>7. h + 1 \in 0 .. h + 1 /\ s + 1 \in 0 .. h + 1 /\ (h + 1) - (h + 1) = 0
    BY <1>1
  <2>8. \A x \in 1 .. (h + 1) - (h + 1) : FALSE
    BY <2>7
  <2>9. \E x \in Nat \ {0} : MatchAt(i, x)
    BY <1>1, <1>2, <1>6
  <2>10. Found(i, h + 1, Outward[w], w.a, h + 1, s + 1)
    BY <1>1, <2>1, <2>3, <2>4, <2>6, <2>7, <2>8, <2>9 DEF Found
  <2> QED
    BY <2>10
<1> QED
  BY <1>5, <1>6

LEMMA RootIsOutermost ==
  ASSUME in \in Input, Acyclic, Shallow, NEW i \in Procs
  PROVE  /\ coalesce_root(i) = 0 <=> Target(i) = 0
         /\ Outermost(i) = IF coalesce_root(i) = 0 THEN i ELSE coalesce_root(i)
         /\ Outermost(i) \in Procs /\ Target(Outermost(i)) = 0
<1>1. PICK f \in [0 .. Hops -> Match] :
        /\ f[0] = [root |-> 0, name |-> in.name[i], a |-> Up(i)]
        /\ \A h \in 1 .. Hops : f[h] = Outward[f[h - 1]]
        /\ coalesce_root(i) = f[Hops].root
  BY RootWalk
<1>2. Hops \in Nat /\ N \in Nat /\ i \in Places
  BY FilterAssumption, ProcsFinite DEF FilterAssumption, Places
<1> DEFINE T == {h \in Nat : h <= Hops => \E c, j, s : Found(i, h, f[h], c, j, s)}
<1>3. 0 \in T
  <2>1. f[0].root = 0 /\ f[0].name = in.name[i] /\ f[0].a = Up(i)
    BY <1>1
  <2>2. Up(i) = Path(i)[0 + 1] /\ Path(i)[0] = i /\ Chain(i)[0] = i
    <3>1. 0 + 1 = 1
      OBVIOUS
    <3>2. Path(i)[1] = Up(i) /\ Path(i)[0] = i
      BY PathUp
    <3>3. Chain(i)[0] = i
      BY ChainStep
    <3> QED
      BY <3>1, <3>2, <3>3
  <2>3. \A x \in 1 .. 0 - 0 : FALSE
    OBVIOUS
  <2>4. Found(i, 0, f[0], i, 0, 0)
    BY <2>1, <2>2, <2>3 DEF Found
  <2> QED
    BY <2>4
<1>4. ASSUME NEW h \in T PROVE h + 1 \in T
  <2> SUFFICES ASSUME h + 1 <= Hops PROVE \E c, j, s : Found(i, h + 1, f[h + 1], c, j, s)
    OBVIOUS
  <2>1. h \in Nat /\ h + 1 \in 1 .. Hops /\ h \in 0 .. Hops /\ (h + 1) - 1 = h /\ h <= Hops
    BY <1>2
  <2>2. f[h + 1] = Outward[f[h]] /\ f[h] \in Match
    BY <1>1, <2>1
  <2>3. \E c, j, s : Found(i, h, f[h], c, j, s)
    BY <2>1
  <2> QED
    BY <2>1, <2>2, <2>3, FoundNext
<1>5. T = Nat
  <2> HIDE DEF T
  <2> QED
    BY <1>3, <1>4, Induct DEF T
<1>6. PICK c, j, s : Found(i, Hops, f[Hops], c, j, s)
  BY <1>2, <1>5
<1>7. /\ c = (IF coalesce_root(i) = 0 THEN i ELSE coalesce_root(i))
      /\ j \in 0 .. Hops /\ s \in 0 .. j /\ c \in Procs /\ Path(i)[j] = c /\ Chain(i)[s] = c
      /\ \A x \in 1 .. Hops - j : ~MatchAt(c, x)
      /\ coalesce_root(i) # 0 => \E x \in Nat \ {0} : MatchAt(i, x)
  BY <1>1, <1>6 DEF Found
<1>8. Path(i)[Hops + 1] = 0 /\ Path(i)[N] = 0 /\ c # 0
  BY <1>7, PathsEnd, ProcsFinite DEF Shallow, Procs
<1>9. ASSUME NEW x \in Nat \ {0} PROVE ~MatchAt(c, x)
  <2>1. CASE x \in 1 .. Hops - j
    BY <1>7, <2>1
  <2>2. CASE x \notin 1 .. Hops - j
    <3>1. j \in Nat /\ j + x \in Nat /\ Hops + 1 \in Nat /\ Hops + 1 <= j + x
      BY <1>2, <1>7, <2>2
    <3>2. Path(i)[j + x] = 0
      BY <1>2, <1>8, <3>1, PathEnd
    <3>3. Path(c)[x] = 0
      <4>1. Path(i)[j + x] = Path(Path(i)[j])[x]
        BY <1>2, <3>1, PathPlus
      <4> QED
        BY <1>7, <3>2, <4>1
    <3> QED
      BY <3>3 DEF MatchAt
  <2> QED
    BY <2>1, <2>2
<1>10. Target(c) = 0
  BY <1>7, <1>9, TargetIs
<1>11. Outermost(i) = c
  <2> DEFINE R == {n \in Nat : Chain(i)[s + n] = c}
  <2>1. s \in Nat /\ j \in Nat /\ s <= j
    BY <1>2, <1>7
  <2>2. 0 \in R
    BY <1>7, <2>1
  <2>3. ASSUME NEW n \in R PROVE n + 1 \in R
    <3>1. s + n \in Nat /\ (s + n) + 1 = s + (n + 1)
      BY <2>1
    <3>2. Chain(i)[(s + n) + 1] = Hop[Chain(i)[s + n]] /\ Chain(i)[s + n] = c
      BY <3>1, ChainStep
    <3> QED
      BY <1>7, <1>10, <3>1, <3>2 DEF Hop
  <2>4. R = Nat
    <3> HIDE DEF R
    <3> QED
      BY <2>2, <2>3, Induct DEF R
  <2>5. j < N
    BY <1>2, <1>7, <1>8, <2>1, PathEnd
  <2>6. N - s \in Nat /\ s + (N - s) = N
    BY <1>2, <2>1, <2>5
  <2>7. Chain(i)[N] = c
    BY <2>4, <2>6
  <2> QED
    BY <2>7, OutermostOnChain
<1>12. coalesce_root(i) = 0 <=> Target(i) = 0
  <2>1. ASSUME coalesce_root(i) = 0 PROVE Target(i) = 0
    BY <1>7, <1>10, <2>1
  <2>2. ASSUME coalesce_root(i) # 0 PROVE Target(i) # 0
    <3> DEFINE X == {x \in Nat : x # 0 /\ MatchAt(i, x)}
    <3>1. PICK x \in X : \A y \in X : x <= y
      <4>1. X \in SUBSET Nat /\ X # {}
        BY <1>7, <2>2
      <4> HIDE DEF X
      <4> QED
        BY <4>1, LeastNumber
    <3>2. x \in Nat \ {0} /\ MatchAt(i, x)
      BY <3>1
    <3>3. \A y \in 1 .. x - 1 : ~MatchAt(i, y)
      <4>1. \A y \in 1 .. x - 1 : y \in Nat /\ y # 0 /\ ~(x <= y)
        BY <3>2
      <4> QED
        BY <3>1, <4>1
    <3>4. Target(i) = Path(i)[x]
      BY <3>2, <3>3, TargetIs
    <3> QED
      BY <3>2, <3>4 DEF MatchAt
  <2> QED
    BY <2>1, <2>2
<1> QED
  BY <1>7, <1>10, <1>11, <1>12

----------------------------------------------------------------------------
(* The folds that are done                                                 *)

(* What r holds when the scan has come to n.                               *)
Taken(r, n) == {k \in Members(r) : k = r \/ k < n}

Folded ==
  Acyclic /\ Shallow =>
    /\ pc = "coalesce" => \A r \in Procs :
         /\ Target(r) # 0 => IF r < scan THEN cpu[r] = 0 /\ ~vis[r]
                             ELSE cpu[r] = in.cpu[r] /\ vis[r] = in.vis[r]
         /\ Target(r) = 0 =>
              /\ cpu[r] = Load(in.cpu, Taken(r, scan))
              /\ vis[r] <=> \/ \E k \in Taken(r, scan) : in.vis[k]
                            \/ in.mac /\ in.name[r] = "launchd_sim" /\ Taken(r, scan) # {r}
    /\ pc # "coalesce" => \A r \in Procs : Target(r) # 0 => r \notin seeds /\ cpu[r] = 0

LEMMA SameFolds ==
  ASSUME in' = in
  PROVE  /\ \A k : /\ Target(k)' = Target(k) /\ Outermost(k)' = Outermost(k)
                   /\ Members(k)' = Members(k) /\ coalesce_root(k)' = coalesce_root(k)
         /\ Acyclic' <=> Acyclic
         /\ Shallow' <=> Shallow
<1>1. \A k : Path(k)' = Path(k) /\ Up(k)' = Up(k) /\ coalesce_root(k)' = coalesce_root(k)
  BY SameTable
<1>2. pid_to_idx' = pid_to_idx
  BY DEF pid_to_idx
<1>3. \A k : Target(k)' = Target(k)
  BY <1>2 DEF Target, Nearest, Nth, Up, FoldsInto
<1>4. \A k : Outermost(k)' = Outermost(k)
  BY <1>2 DEF Outermost, Target, Nearest, Nth, Up, FoldsInto
<1>5. \A k : Members(k)' = Members(k)
  BY <1>4 DEF Members
<1>6. \A k : Ancestors(k)' = Ancestors(k)
  BY <1>2 DEF Ancestors, Nth, Up
<1>7. Acyclic' <=> Acyclic
  BY <1>6 DEF Acyclic
<1>8. Shallow' <=> Shallow
  BY <1>1 DEF Shallow
<1> QED
  BY <1>1, <1>3, <1>4, <1>5, <1>7, <1>8

(* Who is its own outermost, and that nobody else is folded in place.      *)
LEMMA Stays ==
  ASSUME in \in Input, Acyclic, Shallow
  PROVE  /\ \A k \in Procs : coalesce_root(k) = 0 => Outermost(k) = k /\ Target(k) = 0
         /\ \A k \in Procs : coalesce_root(k) # 0 =>
              /\ Outermost(k) = coalesce_root(k) /\ Target(k) # 0
              /\ coalesce_root(k) \in Procs /\ Target(coalesce_root(k)) = 0
              /\ coalesce_root(k) # k
         /\ \A r \in Procs : \A k \in Members(r) : k \in Procs /\ Target(r) = 0
         /\ \A r \in Procs : Target(r) = 0 => r \in Members(r)
BY RootIsOutermost DEF Members

LEMMA FoldedFirst ==
  ASSUME in \in Input, Begin
  PROVE  Folded
<1> SUFFICES ASSUME Acyclic, Shallow, NEW r \in Procs
             PROVE  /\ Target(r) # 0 => IF r < scan THEN cpu[r] = 0 /\ ~vis[r]
                                        ELSE cpu[r] = in.cpu[r] /\ vis[r] = in.vis[r]
                    /\ Target(r) = 0 =>
                         /\ cpu[r] = Load(in.cpu, Taken(r, scan))
                         /\ vis[r] <=> \/ \E k \in Taken(r, scan) : in.vis[k]
                                       \/ in.mac /\ in.name[r] = "launchd_sim" /\ Taken(r, scan) # {r}
  BY DEF Folded, Begin
<1>1. scan = 1 /\ cpu = in.cpu /\ vis = in.vis /\ ~(r < 1) /\ \A k \in Procs : ~(k < 1)
  BY ProcsFinite DEF Begin, Procs
<1>2. ASSUME Target(r) = 0 PROVE Taken(r, scan) = {r} /\ cpu[r] = Load(in.cpu, Taken(r, scan))
  <2>1. Taken(r, scan) = {r}
    BY <1>1, <1>2, Stays DEF Taken
  <2>2. in.cpu \in [Procs -> Nat] /\ IsFiniteSet(Procs)
    BY FilterAssumption, ProcsFinite DEF FilterAssumption, Input
  <2>3. {} \in SUBSET Procs /\ r \in Procs \ {} /\ {} \cup {r} = {r}
    OBVIOUS
  <2>4. Load(in.cpu, {} \cup {r}) = Load(in.cpu, {}) + in.cpu[r] /\ Load(in.cpu, {}) = 0
    <3>1. PICK c : c = in.cpu
      OBVIOUS
    <3>2. c \in [Procs -> Nat] /\ IsFiniteSet(Procs)
      BY <2>2, <3>1
    <3>3. \A S \in SUBSET Procs : \A x \in Procs \ S : Load(c, S \cup {x}) = Load(c, S) + c[x]
      BY ONLY <3>2, LoadGrows
    <3>4. Load(c, {} \cup {r}) = Load(c, {}) + c[r]
      BY <2>3, <3>3
    <3>5. Load(c, {}) = 0
      BY ONLY <3>2, LoadGrows
    <3> QED
      BY <3>1, <3>4, <3>5
  <2>5. Load(in.cpu, {r}) = in.cpu[r]
    BY <2>2, <2>3, <2>4
  <2> QED
    BY <1>1, <2>1, <2>5
<1> QED
  BY <1>1, <1>2

LEMMA FoldedCoalesce ==
  ASSUME Sound, Folded, Coalesce
  PROVE  Folded'
<1> DEFINE i == Min(ToFold)
           r == coalesce_root(i)
           surface == vis[i] \/ (in.mac /\ in.name[r] = "launchd_sim")
           hidden == [vis EXCEPT ![i] = FALSE]
           zeroed == [cpu EXCEPT ![i] = 0]
<1>1. /\ pc = "coalesce" /\ pc' = pc /\ in' = in /\ ToFold # {}
      /\ vis' = [hidden EXCEPT ![r] = @ \/ surface]
      /\ cpu' = [zeroed EXCEPT ![r] = @ + cpu[i]]
      /\ scan' = i + 1
  BY DEF Coalesce
<1>2. in \in Input /\ cpu \in [Procs -> Nat] /\ vis \in [Procs -> BOOLEAN] /\ scan \in 1 .. N + 1
  BY DEF Sound
<1>3. i \in ToFold /\ \A k \in ToFold : i <= k
  <2>1. ToFold \in SUBSET Nat
    BY <1>2, ProcsFinite DEF ToFold
  <2> HIDE DEF i
  <2> QED
    BY <1>1, <2>1, MinOfNumbers DEF i
<1> HIDE DEF i
<1>4. i \in scan .. N /\ i \in Procs /\ r # 0 /\ i \in Nat /\ scan \in Nat /\ scan <= i
  BY <1>2, <1>3, ProcsFinite DEF ToFold, Procs
<1> SUFFICES ASSUME Acyclic, Shallow, NEW q \in Procs
             PROVE  /\ Target(q) # 0 => IF q < scan' THEN cpu'[q] = 0 /\ ~vis'[q]
                                        ELSE cpu'[q] = in.cpu[q] /\ vis'[q] = in.vis[q]
                    /\ Target(q) = 0 =>
                         /\ cpu'[q] = Load(in.cpu, Taken(q, scan'))
                         /\ vis'[q] <=> \/ \E k \in Taken(q, scan') : in.vis[k]
                                        \/ in.mac /\ in.name[q] = "launchd_sim" /\ Taken(q, scan') # {q}
  <2>1. /\ \A k : Target(k)' = Target(k) /\ Members(k)' = Members(k)
        /\ Acyclic' <=> Acyclic
        /\ Shallow' <=> Shallow
    BY <1>1, SameFolds
  <2>2. \A p : {k \in Members(p)' : k = p \/ k < scan'} = Taken(p, scan')
    BY <2>1 DEF Taken
  <2> SUFFICES ASSUME Acyclic', Shallow', NEW q \in Procs
               PROVE  LET S == {k \in Members(q)' : k = q \/ k < scan'}
                      IN /\ Target(q)' # 0 => IF q < scan' THEN cpu'[q] = 0 /\ ~vis'[q]
                                              ELSE cpu'[q] = in'.cpu[q] /\ vis'[q] = in'.vis[q]
                         /\ Target(q)' = 0 =>
                              /\ cpu'[q] = Load(in'.cpu, S)
                              /\ vis'[q] <=> \/ \E k \in S : in'.vis[k]
                                             \/ in'.mac /\ in'.name[q] = "launchd_sim" /\ S # {q}
    BY <1>1 DEF Folded, Taken
  <2> DEFINE S == {k \in Members(q)' : k = q \/ k < scan'}
  <2>3. S = Taken(q, scan') /\ Target(q)' = Target(q)
    BY <2>1, <2>2
  <2> HIDE DEF S
  <2>4. Acyclic /\ Shallow
    BY <2>1
  <2>5. /\ Target(q) # 0 => IF q < scan' THEN cpu'[q] = 0 /\ ~vis'[q]
                            ELSE cpu'[q] = in.cpu[q] /\ vis'[q] = in.vis[q]
        /\ Target(q) = 0 =>
             /\ cpu'[q] = Load(in.cpu, S)
             /\ vis'[q] <=> \/ \E k \in S : in.vis[k]
                            \/ in.mac /\ in.name[q] = "launchd_sim" /\ S # {q}
    BY <2>3, <2>4
  <2> QED
    BY <1>1, <2>3, <2>5 DEF S
<1>5. /\ \A k \in Procs : coalesce_root(k) = 0 => Outermost(k) = k /\ Target(k) = 0
      /\ Outermost(i) = r /\ Target(i) # 0 /\ r \in Procs /\ Target(r) = 0 /\ r # i
      /\ \A p \in Procs : \A k \in Members(p) : k \in Procs /\ Target(p) = 0
      /\ \A p \in Procs : Target(p) = 0 => p \in Members(p)
  BY <1>2, <1>4, Stays
<1> HIDE DEF r
<1>6. \A k \in Procs : k \in Nat /\ (scan <= k /\ k < i => Outermost(k) = k /\ Target(k) = 0)
  <2> SUFFICES ASSUME NEW k \in Procs, scan <= k, k < i PROVE Outermost(k) = k /\ Target(k) = 0
    BY ProcsFinite DEF Procs
  <2>1. k \in scan .. N /\ ~(i <= k)
    BY <1>4, ProcsFinite DEF Procs
  <2>2. k \notin ToFold
    BY <1>3, <2>1
  <2>3. coalesce_root(k) = 0
    BY <2>1, <2>2 DEF ToFold
  <2> QED
    BY <1>5, <2>3
<1>7. /\ cpu[i] = in.cpu[i] /\ vis[i] = in.vis[i]
      /\ Target(q) # 0 => IF q < scan THEN cpu[q] = 0 /\ ~vis[q]
                          ELSE cpu[q] = in.cpu[q] /\ vis[q] = in.vis[q]
      /\ Target(q) = 0 =>
           /\ cpu[q] = Load(in.cpu, Taken(q, scan))
           /\ vis[q] <=> \/ \E k \in Taken(q, scan) : in.vis[k]
                         \/ in.mac /\ in.name[q] = "launchd_sim" /\ Taken(q, scan) # {q}
  <2>1. ~(i < scan)
    BY <1>4
  <2> QED
    BY <1>1, <1>4, <1>5, <2>1 DEF Folded
<1>8. /\ hidden \in [Procs -> BOOLEAN] /\ ~hidden[i] /\ \A k \in Procs : k # i => hidden[k] = vis[k]
      /\ zeroed \in [Procs -> Nat] /\ zeroed[i] = 0 /\ \A k \in Procs : k # i => zeroed[k] = cpu[k]
  BY <1>2, <1>4
<1> HIDE DEF hidden, zeroed
<1>9. /\ vis'[r] = (hidden[r] \/ surface) /\ cpu'[r] = zeroed[r] + cpu[i]
      /\ \A k \in Procs : k # r => vis'[k] = hidden[k] /\ cpu'[k] = zeroed[k]
  BY <1>1, <1>5, <1>8
<1>10. CASE q = i
  <2>1. q < scan' /\ cpu'[q] = 0 /\ ~vis'[q]
    BY <1>1, <1>4, <1>5, <1>8, <1>9, <1>10
  <2> QED
    BY <1>5, <1>10, <2>1
<1>11. CASE q # i /\ Target(q) # 0
  <2>1. cpu'[q] = cpu[q] /\ vis'[q] = vis[q]
    BY <1>5, <1>8, <1>9, <1>11
  <2>2. q < scan' <=> q < scan
    BY <1>1, <1>4, <1>6, <1>11
  <2> QED
    BY <1>7, <1>11, <2>1, <2>2
<1>12. CASE q # i /\ Target(q) = 0 /\ q # r
  <2>1. cpu'[q] = cpu[q] /\ vis'[q] = vis[q]
    BY <1>8, <1>9, <1>12
  <2>2. Taken(q, scan') = Taken(q, scan)
    <3> SUFFICES ASSUME NEW k \in Members(q), k # q PROVE k < scan' <=> k < scan
      BY DEF Taken
    <3>1. k \in Procs /\ Outermost(k) = q /\ k \in Nat
      BY <1>5, <1>6 DEF Members
    <3>2. k # i
      BY <1>5, <1>12, <3>1
    <3>3. ~(scan <= k /\ k < i)
      BY <1>6, <3>1
    <3> QED
      BY <1>1, <1>4, <3>1, <3>2, <3>3
  <2> QED
    BY <1>7, <1>12, <2>1, <2>2
<1>13. CASE q = r
  <2> DEFINE S == Taken(r, scan)
  <2>1. Taken(r, scan') = S \cup {i} /\ i \notin S /\ S \in SUBSET Procs
    <3>1. i \in Members(r) /\ i < scan' /\ ~(i < scan)
      BY <1>1, <1>4, <1>5 DEF Members
    <3>2. ASSUME NEW k \in Members(r), k # r, k # i PROVE k < scan' <=> k < scan
      <4>1. k \in Procs /\ Outermost(k) = r /\ k \in Nat
        BY <1>5, <1>6 DEF Members
      <4>2. ~(scan <= k /\ k < i)
        BY <1>6, <3>2, <4>1
      <4> QED
        BY <1>1, <1>4, <3>2, <4>1, <4>2
    <3>3. \A k \in Members(r) : k \in Procs
      BY <1>5
    <3> QED
      BY <1>5, <3>1, <3>2, <3>3 DEF Taken
  <2> HIDE DEF S
  <2>2. in.cpu \in [Procs -> Nat] /\ IsFiniteSet(Procs)
    BY <1>2, FilterAssumption, ProcsFinite DEF FilterAssumption, Input
  <2>3. Load(in.cpu, S \cup {i}) = Load(in.cpu, S) + in.cpu[i]
    <3>1. PICK c : c = in.cpu
      OBVIOUS
    <3>2. c \in [Procs -> Nat] /\ IsFiniteSet(Procs) /\ i \in Procs \ S
      BY <1>4, <2>1, <2>2, <3>1
    <3>3. Load(c, S \cup {i}) = Load(c, S) + c[i]
      BY <2>1, <3>2, LoadGrows
    <3> QED
      BY <3>1, <3>3
  <2>4. cpu'[r] = cpu[r] + in.cpu[i] /\ cpu[r] = Load(in.cpu, S)
    BY <1>5, <1>7, <1>8, <1>9, <1>13 DEF S
  <2>5. cpu'[r] = Load(in.cpu, Taken(r, scan'))
    BY <2>1, <2>3, <2>4
  <2>6. vis'[r] <=> vis[r] \/ in.vis[i] \/ (in.mac /\ in.name[r] = "launchd_sim")
    BY <1>5, <1>7, <1>8, <1>9
  <2>7. vis[r] <=> \/ \E k \in S : in.vis[k]
                   \/ in.mac /\ in.name[r] = "launchd_sim" /\ S # {r}
    BY <1>5, <1>7, <1>13 DEF S
  <2>8. S \cup {i} # {r}
    BY <1>5
  <2> QED
    BY <1>5, <1>13, <2>1, <2>5, <2>6, <2>7, <2>8
<1> QED
  BY <1>10, <1>11, <1>12, <1>13

LEMMA FoldedStep ==
  ASSUME FInv, Folded, [Next /\ UNCHANGED scanned]_cvars
  PROVE  Folded'
<1>1. Sound /\ Early
  BY DEF FInv
<1>2. in' = in /\ /\ \A k : Target(k)' = Target(k) /\ Members(k)' = Members(k)
                  /\ Acyclic' <=> Acyclic
                  /\ Shallow' <=> Shallow
  <2>1. in' = in
    BY DEF Next, Coalesce, Seed, Visit, Retain, NextRoot, Walk, Finish, cvars, vars
  <2> QED
    BY <2>1, SameFolds
<1>3. CASE Coalesce
  BY <1>1, <1>3, FoldedCoalesce
<1>4. CASE Seed
  <2>1. pc = "coalesce" /\ ToFold = {} /\ seeds' = {k \in Procs : vis[k]} /\ cpu' = cpu /\ pc' = "bfs"
    BY <1>4 DEF Seed, fields
  <2> SUFFICES ASSUME Acyclic, Shallow, NEW r \in Procs, Target(r) # 0
               PROVE  r \notin seeds' /\ cpu'[r] = 0
    BY <1>2, <2>1 DEF Folded
  <2>2. coalesce_root(r) # 0
    BY <1>1, Stays DEF Sound
  <2>3. r < scan
    <3>1. r \notin scan .. N
      BY <2>1, <2>2 DEF ToFold
    <3>2. scan \in Nat /\ r \in 1 .. N /\ N \in Nat
      BY <1>1, ProcsFinite DEF Sound, Procs
    <3> QED
      BY <3>1, <3>2
  <2> QED
    BY <2>1, <2>3 DEF Folded
<1>5. CASE Visit \/ Retain \/ NextRoot \/ Walk \/ Finish
  <2>1. cpu' = cpu /\ seeds' = seeds /\ pc # "coalesce" /\ pc' # "coalesce"
    BY <1>5 DEF Visit, Retain, NextRoot, Walk, Finish, fields, search
  <2> QED
    BY <1>2, <2>1 DEF Folded
<1>6. CASE UNCHANGED cvars
  <2>1. cpu' = cpu /\ vis' = vis /\ seeds' = seeds /\ pc' = pc /\ scan' = scan
    BY <1>6 DEF cvars, vars, fields, search
  <2>2. \A p : {k \in Members(p)' : k = p \/ k < scan} = Taken(p, scan)
    BY <1>2 DEF Taken
  <2> SUFFICES ASSUME Acyclic, Shallow, pc = "coalesce", NEW q \in Procs
               PROVE  LET S == {k \in Members(q)' : k = q \/ k < scan}
                      IN /\ Target(q) # 0 => IF q < scan THEN cpu[q] = 0 /\ ~vis[q]
                                             ELSE cpu[q] = in.cpu[q] /\ vis[q] = in.vis[q]
                         /\ Target(q) = 0 =>
                              /\ cpu[q] = Load(in.cpu, S)
                              /\ vis[q] <=> \/ \E k \in S : in.vis[k]
                                            \/ in.mac /\ in.name[q] = "launchd_sim" /\ S # {q}
    BY <1>2, <2>1 DEF Folded, Taken
  <2> QED
    BY <2>2 DEF Folded
<1> QED
  BY <1>3, <1>4, <1>5, <1>6 DEF Next

LEMMA FoldedIsOnce ==
  ASSUME FInv, Folded, Shallow
  PROVE  FoldedOnce
<1>1. Sound /\ Searched
  BY DEF FInv
<1>2. /\ in \in Input /\ cpu \in [Procs -> Nat] /\ vis \in [Procs -> BOOLEAN] /\ scan \in 1 .. N + 1
      /\ N \in Nat /\ Procs = 1 .. N
  BY <1>1, ProcsFinite DEF Sound, Procs
<1> SUFFICES ASSUME Acyclic PROVE
       /\ pc = "coalesce" /\ ToFold = {} =>
            \A r \in Procs :
              /\ cpu[r] = IF Target(r) # 0 THEN 0
                          ELSE MapThenSumSet(LAMBDA k : in.cpu[k], Members(r))
              /\ vis[r] <=> /\ Target(r) = 0
                            /\ \/ \E k \in Members(r) : in.vis[k]
                               \/ in.mac /\ in.name[r] = "launchd_sim" /\ Members(r) # {r}
       /\ pc = "done" => \A r \in Procs : Target(r) # 0 => ~vis[r]
  BY DEF FoldedOnce
<1>3. ASSUME pc = "coalesce", ToFold = {}, NEW r \in Procs
      PROVE  /\ cpu[r] = IF Target(r) # 0 THEN 0
                         ELSE MapThenSumSet(LAMBDA k : in.cpu[k], Members(r))
             /\ vis[r] <=> /\ Target(r) = 0
                           /\ \/ \E k \in Members(r) : in.vis[k]
                              \/ in.mac /\ in.name[r] = "launchd_sim" /\ Members(r) # {r}
  <2>1. ASSUME NEW k \in Procs, ~(k < scan) PROVE coalesce_root(k) = 0
    BY <1>2, <1>3, <2>1 DEF ToFold
  <2>2. /\ Target(r) # 0 => IF r < scan THEN cpu[r] = 0 /\ ~vis[r]
                            ELSE cpu[r] = in.cpu[r] /\ vis[r] = in.vis[r]
        /\ Target(r) = 0 =>
             /\ cpu[r] = Load(in.cpu, Taken(r, scan))
             /\ vis[r] <=> \/ \E k \in Taken(r, scan) : in.vis[k]
                           \/ in.mac /\ in.name[r] = "launchd_sim" /\ Taken(r, scan) # {r}
    BY <1>3 DEF Folded
  <2>3. CASE Target(r) # 0
    <3>1. r < scan
      BY <1>2, <2>1, <2>3, Stays
    <3> QED
      BY <2>2, <2>3, <3>1
  <2>4. CASE Target(r) = 0
    <3>1. Taken(r, scan) = Members(r)
      <4> SUFFICES ASSUME NEW k \in Members(r), ~(k < scan) PROVE k = r
        BY DEF Taken
      <4>1. k \in Procs /\ Outermost(k) = r
        BY DEF Members
      <4> QED
        BY <1>2, <2>1, <4>1, Stays
    <3>2. Load(in.cpu, Members(r)) = MapThenSumSet(LAMBDA k : in.cpu[k], Members(r))
      BY DEF Load
    <3> QED
      BY <2>2, <2>4, <3>1, <3>2
  <2> QED
    BY <2>3, <2>4
<1>4. ASSUME pc = "done", NEW r \in Procs, Target(r) # 0 PROVE ~vis[r]
  <2>1. r \notin seeds /\ cpu[r] = 0
    BY <1>4 DEF Folded
  <2>2. vis[r] => r \in seeds \/ cpu[r] >= Thresh(r)
    BY <1>1, <1>4 DEF Searched
  <2>3. ~(0 >= Thresh(r))
    BY DEF Thresh, CHILD_CPU_THRESH, CHILD_CPU_KEEP_THRESH
  <2> QED
    BY <2>1, <2>2, <2>3
<1> QED
  BY <1>3, <1>4

(* coalesce_helpers puts the load of every process into exactly one row,   *)
(* the outermost one it folds into, in any order of the scan, and folded   *)
(* rows stay hidden: in every table in which no process has more ancestors *)
(* than coalesce_root looks at.                                            *)
THEOREM AlwaysFoldedOnce == CollectSpec => [](Shallow => FoldedOnce)
<1>1. CollectInit => Folded
  <2> SUFFICES ASSUME CollectInit PROVE Folded
    OBVIOUS
  <2>1. in \in Input
    BY FilterInitial DEF FInv, Sound
  <2>2. Begin
    BY DEF CollectInit, Init
  <2> QED
    BY <2>1, <2>2, FoldedFirst
<1>2. FInv /\ Folded /\ [Next /\ UNCHANGED scanned]_cvars => Folded'
  BY FoldedStep
<1>3. FInv /\ Folded => (Shallow => FoldedOnce)
  BY FoldedIsOnce
<1> QED
  BY <1>1, <1>2, <1>3, FilterInductive, PTL DEF CollectSpec

============================================================================
