---------------------------- MODULE RenderProofs ----------------------------
(* Proofs about Render for terminals of every height and trees of every    *)
(* shape.  The loop of Sum is what proves that the group sizes add up; the *)
(* loop of Emit then never hands out more than the rounded-down shares.    *)
EXTENDS Render, SequenceTheorems, TLAPS

(* Where group j starts, and the end of the tree for the one after the     *)
(* last.                                                                   *)
Start(j) == IF j <= R THEN roots[j] ELSE len

(* Rows of the tree above group j that are not roots.                      *)
Above(j) == Start(j) - (j - 1)

(* Positions of roots: strictly ascending, the first row is one.           *)
Shape ==
  /\ height \in Nat /\ len \in Nat /\ empty \in BOOLEAN
  /\ roots \in Seq(Nat) /\ R \in Nat
  /\ \A j \in 1 .. R : roots[j] \in Nat /\ roots[j] < len
  /\ \A j \in 1 .. R - 1 : roots[j] < roots[j + 1]
  /\ Start(1) = 0
  /\ empty => len = 0
  /\ len = 0 => R = 0

Base == IF empty THEN 5 ELSE 4

Summing ==
  /\ k \in 1 .. R + 1
  /\ total_children = Above(k)
  /\ \A j \in 1 .. k : 0 <= Above(j) /\ Above(j) <= Above(k)
  /\ allocated = 0 /\ groups = <<>> /\ lines = Base

Emitting ==
  /\ k \in 1 .. n_roots + 1
  /\ total_children = len - R /\ total_children \in Nat
  /\ \A j \in 1 .. R : 0 <= Above(j) /\ Above(j) <= total_children
  /\ allocated \in Nat /\ allocated <= child_budget
  /\ k <= R => allocated * total_children <= child_budget * Above(k)
  /\ lines = Base + (k - 1) + allocated
  /\ groups \in Seq([kids : Nat, drawn : Nat, more : Nat]) /\ Len(groups) = k - 1

(* When everything fits, all rows above group k have been drawn.           *)
Whole ==
  len <= max_rows /\ R <= max_rows =>
    /\ allocated = Above(k)
    /\ \A j \in DOMAIN groups : groups[j].drawn = groups[j].kids /\ groups[j].more = 0

RInv ==
  /\ Shape /\ MarkerExact
  /\ stage \in {"sum", "emit", "done"}
  /\ stage = "sum" => Summing
  /\ stage # "sum" => Emitting /\ Whole
  /\ stage = "done" => k = n_roots + 1

(* A share rounded down, taken back up, is no more than the whole.         *)
LEMMA ShareDown ==
  ASSUME NEW a \in Nat, NEW b \in Nat, b > 0
  PROVE  a \div b \in Nat /\ (a \div b) * b <= a
OBVIOUS

(* A share of a budget that covers the total covers the part.              *)
LEMMA ShareCovers ==
  ASSUME NEW c \in Nat, NEW x \in Nat, NEW t \in Nat, t > 0, t <= c
  PROVE  x <= (c * x) \div t
OBVIOUS

(* What one group gets is a share of the budget: rounded down, or the rest.*)
LEMMA FitFacts ==
  ASSUME NEW slot \in Nat, NEW kids \in Nat
  PROVE  /\ Fit(slot, kids)[1] \in Nat /\ Fit(slot, kids)[2] \in Nat
         /\ Fit(slot, kids)[2] <= slot /\ Fit(slot, kids)[1] <= Fit(slot, kids)[2]
         /\ Fit(slot, kids)[2] <= Fit(slot, kids)[1] + 1
         /\ Fit(slot, kids)[1] <= kids
         /\ slot >= kids => Fit(slot, kids)[1] = kids /\ Fit(slot, kids)[2] = kids
BY DEF Fit

(* The sizes of the window and of the groups are natural numbers.          *)
LEMMA ShapeFacts ==
  ASSUME Shape
  PROVE  /\ max_rows \in Nat /\ child_budget \in Nat /\ n_roots \in 0 .. R
         /\ R <= max_rows => child_budget = max_rows - R /\ n_roots = R
         /\ R > max_rows => child_budget = 0 /\ n_roots = max_rows
         /\ height >= 5 => max_rows = height - 4
         /\ \A j \in 1 .. R : /\ kids_in(j) \in Nat /\ Above(j) \in Int
                              /\ Above(j + 1) = Above(j) + kids_in(j)
         /\ Above(1) = 0 /\ Above(R + 1) = len - R /\ Above(R + 1) \in Int
<1>1. /\ max_rows \in Nat /\ child_budget \in Nat /\ n_roots \in 0 .. R
      /\ R <= max_rows => child_budget = max_rows - R /\ n_roots = R
      /\ R > max_rows => child_budget = 0 /\ n_roots = max_rows
      /\ height >= 5 => max_rows = height - 4
  BY DEF Shape, max_rows, child_budget, n_roots, Monus
<1>2. ASSUME NEW j \in 1 .. R
      PROVE  /\ kids_in(j) \in Nat /\ Above(j) \in Int
             /\ Above(j + 1) = Above(j) + kids_in(j)
  <2>1. /\ R \in Nat /\ len \in Nat /\ roots[j] \in Nat /\ roots[j] < len
        /\ j < R => roots[j + 1] \in Nat /\ roots[j] < roots[j + 1]
    BY <1>2 DEF Shape
  <2> QED BY <2>1 DEF kids_in, End, Above, Start
<1>3. Above(1) = 0 /\ Above(R + 1) = len - R /\ Above(R + 1) \in Int
  BY DEF Shape, Above, Start
<1> QED BY <1>1, <1>2, <1>3

(* One more group summed.                                                  *)
LEMMA SumInv ==
  ASSUME RInv, Sum
  PROVE  RInv'
<1>1. /\ Shape /\ Summing /\ stage = "sum" /\ k \in 1 .. R /\ R \in Nat
      /\ total_children' = total_children + kids_in(k) /\ k' = k + 1
      /\ UNCHANGED <<height, len, roots, empty, stage, allocated, groups, lines>>
  BY DEF RInv, Sum, Summing, Shape, input
<1>2. Shape' /\ R' = R
  BY <1>1 DEF Shape, Start, R
<1>3. \A j : Above(j)' = Above(j)
  BY <1>1 DEF Above, Start, R
<1>4. kids_in(k) \in Nat /\ Above(k) \in Int /\ Above(k + 1) = Above(k) + kids_in(k)
  BY <1>1, ShapeFacts
<1>5. \A j \in 1 .. k + 1 : 0 <= Above(j) /\ Above(j) <= Above(k + 1)
  <2> SUFFICES ASSUME NEW j \in 1 .. k + 1
               PROVE  0 <= Above(j) /\ Above(j) <= Above(k + 1)
    OBVIOUS
  <2>1. CASE j = k + 1
    <3>1. 0 <= Above(k)
      BY <1>1 DEF Summing
    <3> QED BY <1>4, <2>1, <3>1
  <2>2. CASE j \in 1 .. k
    <3>1. 0 <= Above(j) /\ Above(j) <= Above(k)
      BY <1>1, <2>2 DEF Summing
    <3>2. j \in 1 .. R
      BY <1>1, <2>2
    <3>3. Above(j) \in Int
      BY <1>1, <3>2, ShapeFacts
    <3> QED BY <1>4, <3>1, <3>3
  <2> QED BY <1>1, <2>1, <2>2
<1>6. Summing'
  BY <1>1, <1>2, <1>3, <1>4, <1>5 DEF Summing, Base
<1>7. MarkerExact'
  BY <1>1 DEF RInv, MarkerExact
<1> QED BY <1>1, <1>2, <1>6, <1>7 DEF RInv

(* All groups are summed: the parts above each group are within the total. *)
LEMMA SummedInv ==
  ASSUME RInv, Summed
  PROVE  RInv'
<1>1. /\ Shape /\ Summing /\ stage = "sum" /\ k = R + 1 /\ R \in Nat
      /\ stage' = "emit" /\ k' = 1
      /\ UNCHANGED <<height, len, roots, empty, total_children, allocated, groups, lines>>
  BY DEF RInv, Summed, Summing, Shape, input
<1>2. Shape' /\ R' = R /\ n_roots' = n_roots /\ child_budget' = child_budget
      /\ max_rows' = max_rows
  BY <1>1 DEF Shape, Start, R, n_roots, child_budget, max_rows
<1>3. \A j : Above(j)' = Above(j)
  BY <1>1 DEF Above, Start, R
<1>4. /\ n_roots \in Nat /\ child_budget \in Nat /\ Above(1) = 0
      /\ Above(R + 1) = len - R /\ len - R \in Int
  BY <1>1, ShapeFacts DEF Shape
<1>5. Emitting'
  <2>1. \A j \in 1 .. R : 0 <= Above(j) /\ Above(j) <= len - R
    BY <1>1, <1>4 DEF Summing
  <2>2. len - R \in Nat
    BY <1>1, <1>4 DEF Summing
  <2> QED BY <1>1, <1>2, <1>3, <1>4, <2>1, <2>2 DEF Emitting, Summing, Base
<1>6. Whole'
  BY <1>1, <1>3, <1>4 DEF Whole, Summing
<1>7. MarkerExact'
  BY <1>1 DEF RInv, MarkerExact
<1> QED BY <1>1, <1>2, <1>5, <1>6, <1>7 DEF RInv

(* What group k is given, in whichever way its slot is computed: it stays  *)
(* within the budget, keeps the running share, and is all of the group     *)
(* when the whole tree fits.                                               *)
LEMMA SlotFacts ==
  ASSUME Shape, Emitting, k <= n_roots
  PROVE  /\ Slot(k) \in Nat
         /\ \A u \in Nat : u <= Slot(k) =>
              /\ allocated + u <= child_budget
              /\ k + 1 <= R => (allocated + u) * total_children <= child_budget * Above(k + 1)
         /\ len <= max_rows /\ R <= max_rows /\ allocated = Above(k) => Slot(k) >= kids_in(k)
<1> DEFINE T == total_children
           cb == child_budget
           K == kids_in(k)
           A == Above(k)
<1>1. /\ k \in 1 .. R /\ R \in Nat /\ cb \in Nat /\ T \in Nat /\ allocated \in Nat
      /\ T = len - R /\ allocated <= cb /\ K \in Nat /\ A \in Int
      /\ Above(k + 1) = A + K /\ max_rows \in Nat
      /\ R <= max_rows => cb = max_rows - R
  <2>1. k \in 1 .. R /\ R \in Nat
    BY ShapeFacts DEF Shape, Emitting
  <2> QED BY <2>1, ShapeFacts DEF Emitting
<1>2. 0 <= A /\ A <= T /\ allocated * T <= cb * A
  BY <1>1 DEF Emitting
<1>3. A + K <= T
  <2>1. CASE k < R
    <3>1. k + 1 \in 1 .. R
      BY <1>1, <2>1
    <3> QED BY <1>1, <3>1 DEF Emitting
  <2>2. CASE k = R
    BY <1>1, <2>2, ShapeFacts
  <2> QED BY <1>1, <2>1, <2>2
<1>4. CASE k = R
  <2>1. Slot(k) = cb - allocated
    BY <1>1, <1>4 DEF Slot, Monus
  <2>2. len \in Nat
    BY DEF Shape
  <2> HIDE DEF T, cb, K, A
  <2> QED BY <1>1, <1>3, <1>4, <2>1, <2>2 DEF cb, T, K, A
<1>5. CASE k < R /\ T = 0
  <2>1. Slot(k) = 0
    BY <1>1, <1>5 DEF Slot
  <2>2. K = 0 /\ A = 0
    BY <1>1, <1>2, <1>3, <1>5
  <2> QED BY <1>1, <1>2, <1>5, <2>1, <2>2
<1>6. CASE k < R /\ T > 0
  <2> DEFINE s == Slot(k)
  <2>1. s = (cb * K) \div T
    BY <1>1, <1>6 DEF Slot
  <2>2. s \in Nat /\ s * T <= cb * K
    <3>1. cb * K \in Nat
      BY <1>1
    <3> QED BY <1>1, <1>6, <2>1, <3>1, ShareDown
  <2> HIDE DEF s
  <2>3. ASSUME NEW u \in Nat, u <= s
        PROVE  /\ (allocated + u) * T <= cb * (A + K)
               /\ allocated + u <= cb
    <3> HIDE DEF T, cb, K, A
    <3>1. u * T <= s * T
      BY <1>1, <2>2, <2>3
    <3>2. (allocated + u) * T = allocated * T + u * T /\ cb * (A + K) = cb * A + cb * K
      BY <1>1, <2>3
    <3>3. (allocated + u) * T <= cb * (A + K)
      <4>1. /\ u * T \in Int /\ s * T \in Int /\ allocated * T \in Int
            /\ cb * A \in Int /\ cb * K \in Int
        BY <1>1, <2>2, <2>3
      <4> QED BY <1>2, <2>2, <3>1, <3>2, <4>1
    <3>4. cb * (A + K) <= cb * T
      BY <1>1, <1>3
    <3>5. allocated + u <= cb
      <4>1. SUFFICES ASSUME allocated + u > cb PROVE FALSE
        BY <1>1, <2>3
      <4>2. (allocated + u) * T > cb * T
        BY <1>1, <1>6, <2>3, <4>1
      <4>3. (allocated + u) * T \in Int /\ cb * (A + K) \in Int /\ cb * T \in Int
        BY <1>1, <2>3
      <4> QED BY <3>3, <3>4, <4>2, <4>3
    <3> QED BY <3>3, <3>5
  <2>4. len <= max_rows /\ R <= max_rows => s >= K
    <3>1. SUFFICES ASSUME len <= max_rows, R <= max_rows PROVE s >= K
      OBVIOUS
    <3>2. T <= cb
      BY <1>1, <3>1 DEF Shape
    <3> HIDE DEF T, cb, K, A
    <3>3. K <= (cb * K) \div T
      BY <1>1, <1>6, <3>2, ShareCovers
    <3> QED BY <1>1, <2>1, <2>2, <3>3
  <2> QED BY <1>1, <2>2, <2>3, <2>4 DEF s
<1> QED BY <1>1, <1>4, <1>5, <1>6

(* One more group drawn.                                                   *)
LEMMA EmitInv ==
  ASSUME RInv, Emit
  PROVE  RInv'
<1> DEFINE K == kids_in(k)
           f == Fit(Slot(k), K)
           m == IF f[2] > f[1] THEN K - f[1] ELSE 0
           g == [kids |-> K, drawn |-> f[1], more |-> m]
<1>1. /\ Shape /\ Emitting /\ Whole /\ MarkerExact /\ stage = "emit" /\ k <= n_roots
      /\ allocated' = allocated + f[2]
      /\ groups' = Append(groups, g)
      /\ lines' = lines + 1 + f[1] + (IF f[2] > f[1] THEN 1 ELSE 0)
      /\ k' = k + 1
      /\ UNCHANGED <<height, len, roots, empty, stage, total_children>>
  BY DEF RInv, Emit, More, input
<1>2. Shape' /\ R' = R /\ n_roots' = n_roots /\ child_budget' = child_budget
      /\ max_rows' = max_rows
  BY <1>1 DEF Shape, Start, R, n_roots, child_budget, max_rows
<1>3. \A j : Above(j)' = Above(j)
  BY <1>1 DEF Above, Start, R
<1>4. /\ k \in 1 .. R /\ k \in 1 .. n_roots /\ n_roots \in Nat /\ n_roots <= R /\ R \in Nat
      /\ K \in Nat /\ Above(k) \in Int /\ Above(k + 1) = Above(k) + K
  <2>1. k \in 1 .. R /\ k \in 1 .. n_roots /\ n_roots \in Nat /\ n_roots <= R /\ R \in Nat
    BY SMTT(60), <1>1, ShapeFacts DEF Shape, Emitting
  <2> QED BY <1>1, <2>1, ShapeFacts
<1>5. /\ Slot(k) \in Nat
      /\ \A u \in Nat : u <= Slot(k) =>
           /\ allocated + u <= child_budget
           /\ k + 1 <= R => (allocated + u) * total_children <= child_budget * Above(k + 1)
      /\ len <= max_rows /\ R <= max_rows /\ allocated = Above(k) => Slot(k) >= K
  BY <1>1, SlotFacts
<1>6. /\ f[1] \in Nat /\ f[2] \in Nat /\ f[2] <= Slot(k) /\ f[1] <= f[2]
      /\ f[2] <= f[1] + 1 /\ f[1] <= K
      /\ Slot(k) >= K => f[1] = K /\ f[2] = K
  BY <1>4, <1>5, FitFacts
<1>7. m \in Nat /\ (m > 0 => f[1] + m = K)
  BY <1>4, <1>6
<1> HIDE DEF K, f, m
<1>8. /\ groups \in Seq([kids : Nat, drawn : Nat, more : Nat]) /\ Len(groups) = k - 1
      /\ g \in [kids : Nat, drawn : Nat, more : Nat]
      /\ lines = Base + (k - 1) + allocated /\ allocated \in Nat
  BY <1>1, <1>4, <1>6, <1>7 DEF Emitting
<1>9. /\ groups' \in Seq([kids : Nat, drawn : Nat, more : Nat]) /\ Len(groups') = k
      /\ \A j \in DOMAIN groups' : \/ j \in DOMAIN groups /\ groups'[j] = groups[j]
                                   \/ groups'[j] = g
  <2> DEFINE G == [kids : Nat, drawn : Nat, more : Nat]
  <2>1. groups \in Seq(G) /\ g \in G /\ groups' = Append(groups, g)
    BY <1>1, <1>8
  <2> HIDE DEF G, g
  <2>2. /\ Append(groups, g) \in Seq(G)
        /\ Len(Append(groups, g)) = Len(groups) + 1
        /\ \A j \in 1 .. Len(groups) : Append(groups, g)[j] = groups[j]
        /\ Append(groups, g)[Len(groups) + 1] = g
    BY <2>1, AppendProperties
  <2>3. DOMAIN groups = 1 .. k - 1 /\ DOMAIN groups' = 1 .. k
    BY <1>4, <1>8, <2>1, <2>2
  <2> QED BY SMTT(60), <1>4, <1>8, <2>1, <2>2, <2>3 DEF G
<1>10. Emitting'
  <2>1. Base \in Nat /\ Base' = Base
    BY <1>1 DEF Base
  <2>2. lines' = Base + k + (allocated + f[2])
    <3>1. lines' = lines + 1 + f[2]
      <4>1. f[1] \in Int /\ f[2] \in Int /\ (f[2] = f[1] \/ f[2] = f[1] + 1)
        BY <1>6
      <4>2. lines = Base + (k - 1) + allocated /\ allocated \in Nat
        BY <1>8
      <4>3. lines \in Int
        BY <1>4, <2>1, <4>2
      <4>4. lines' = lines + 1 + f[1] + (IF f[2] > f[1] THEN 1 ELSE 0)
        BY <1>1
      <4> QED BY <4>1, <4>3, <4>4
    <3>2. k \in Int /\ f[2] \in Int /\ lines = Base + (k - 1) + allocated /\ allocated \in Int
      BY <1>4, <1>6, <1>8
    <3> QED BY <2>1, <3>1, <3>2
  <2>3. /\ allocated + f[2] \in Nat /\ allocated + f[2] <= child_budget
        /\ k + 1 <= R =>
             (allocated + f[2]) * total_children <= child_budget * Above(k + 1)
    BY <1>5, <1>6, <1>8
  <2>4. \A j \in 1 .. R : 0 <= Above(j) /\ Above(j) <= total_children
    BY <1>1 DEF Emitting
  <2>5. total_children = len - R /\ total_children \in Nat
    BY <1>1 DEF Emitting
  <2>6. k' \in 1 .. n_roots + 1 /\ k' - 1 = k
    BY <1>1, <1>4
  <2> QED BY <1>1, <1>2, <1>3, <1>9, <2>1, <2>2, <2>3, <2>4, <2>5, <2>6 DEF Emitting
<1>11. Whole'
  <2>1. SUFFICES ASSUME len <= max_rows, R <= max_rows
                 PROVE  /\ allocated' = Above(k + 1)
                        /\ \A j \in DOMAIN groups' :
                             groups'[j].drawn = groups'[j].kids /\ groups'[j].more = 0
    BY <1>1, <1>2, <1>3 DEF Whole
  <2>2. /\ allocated = Above(k)
        /\ \A j \in DOMAIN groups : groups[j].drawn = groups[j].kids /\ groups[j].more = 0
    BY <1>1, <2>1 DEF Whole
  <2>3. f[1] = K /\ f[2] = K
    BY <1>5, <1>6, <2>1, <2>2
  <2>4. g.drawn = g.kids /\ g.more = 0
    BY <1>4, <2>3 DEF m
  <2> QED BY <1>1, <1>4, <1>9, <2>2, <2>3, <2>4
<1>12. MarkerExact'
  <2>1. \A j \in DOMAIN groups :
          /\ groups[j].drawn <= groups[j].kids
          /\ groups[j].more > 0 => groups[j].drawn + groups[j].more = groups[j].kids
    BY <1>1 DEF MarkerExact
  <2>2. g.drawn <= g.kids /\ (g.more > 0 => g.drawn + g.more = g.kids)
    BY <1>6, <1>7
  <2> HIDE DEF g
  <2> QED BY <1>9, <2>1, <2>2 DEF MarkerExact
<1> QED BY <1>1, <1>2, <1>10, <1>11, <1>12 DEF RInv

(* The loop has run out of groups or of rows.                              *)
LEMMA EmittedInv ==
  ASSUME RInv, Emitted
  PROVE  RInv'
<1>1. /\ Shape /\ Emitting /\ Whole /\ MarkerExact /\ k > n_roots /\ stage' = "done"
      /\ UNCHANGED <<height, len, roots, empty, k, total_children, allocated, groups, lines>>
  BY DEF RInv, Emitted, input
<1>2. Shape' /\ R' = R /\ n_roots' = n_roots /\ child_budget' = child_budget
      /\ max_rows' = max_rows
  BY <1>1 DEF Shape, Start, R, n_roots, child_budget, max_rows
<1>3. \A j : Above(j)' = Above(j)
  BY <1>1 DEF Above, Start, R
<1>4. Emitting' /\ k' = n_roots' + 1
  <2>1. n_roots \in Nat
    BY <1>1, ShapeFacts DEF Shape
  <2> QED BY <1>1, <1>2, <1>3, <2>1 DEF Emitting, Base
<1>5. Whole' /\ MarkerExact'
  BY <1>1, <1>2, <1>3 DEF Whole, MarkerExact
<1> QED BY <1>1, <1>2, <1>4, <1>5 DEF RInv

(* The roots of any tree are as Shape says.                                *)
LEMMA InitInv == Init => RInv
<1> SUFFICES ASSUME Init PROVE RInv
  OBVIOUS
<1>1. /\ height \in Nat /\ len \in Nat /\ roots \in RootLists(len) /\ empty \in BOOLEAN
      /\ (len > 0 => ~empty) /\ stage = "sum" /\ k = 1 /\ total_children = 0
      /\ allocated = 0 /\ groups = <<>> /\ lines = Base
  BY RenderAssumption DEF Init, Base
<1>2. CASE len = 0
  <2>1. roots = <<>>
    BY <1>1, <1>2 DEF RootLists
  <2>2. Shape
    BY <1>1, <1>2, <2>1 DEF Shape, R, Start
  <2> QED BY <1>1, <2>1, <2>2 DEF RInv, Summing, MarkerExact, Above, Start, R, Shape
<1>3. CASE len > 0
  <2>1. PICK n \in 1 .. len : roots \in [1 .. n -> 0 .. len - 1]
    BY <1>1, <1>3 DEF RootLists
  <2>2. roots[1] = 0 /\ \A a, b \in DOMAIN roots : a < b => roots[a] < roots[b]
    BY <1>1, <1>3 DEF RootLists
  <2>3. roots \in Seq(Nat) /\ R = n /\ DOMAIN roots = 1 .. n
    BY <1>1, <2>1 DEF R
  <2>4. Shape
    <3>1. \A j \in 1 .. R : roots[j] \in Nat /\ roots[j] < len
      BY <1>1, <2>1, <2>3
    <3>2. \A j \in 1 .. R - 1 : roots[j] < roots[j + 1]
      BY <2>1, <2>2, <2>3
    <3> QED BY <1>1, <1>3, <2>1, <2>2, <2>3, <3>1, <3>2 DEF Shape, Start
  <2>5. Above(1) = 0
    BY <2>4, ShapeFacts
  <2> QED BY <1>1, <2>1, <2>3, <2>4, <2>5 DEF RInv, Summing, MarkerExact
<1> QED BY <1>1, <1>2, <1>3

(* RInv holds in every state of render_tree.                               *)
THEOREM RenderInductive == Spec => []RInv
<1>1. RInv /\ [Next]_vars => RInv'
  <2> SUFFICES ASSUME RInv, [Next]_vars PROVE RInv'
    OBVIOUS
  <2>1. CASE UNCHANGED vars
    BY <2>1 DEF RInv, vars, input, Shape, Start, R, Summing, Emitting, Whole, Above, Base,
                MarkerExact, n_roots, max_rows, child_budget
  <2> QED BY <2>1, SumInv, SummedInv, EmitInv, EmittedInv DEF Next
<1> QED BY <1>1, InitInv, PTL DEF Spec

(* The frame fits every terminal with a line below the header.             *)
THEOREM RenderFits == Spec => []FrameFits
<1>1. RInv => FrameFits
  <2> SUFFICES ASSUME RInv, height >= 5 PROVE lines <= height
    BY DEF FrameFits
  <2>1. /\ Shape /\ max_rows \in Nat /\ child_budget \in Nat /\ n_roots \in 0 .. R
        /\ R <= max_rows => child_budget = max_rows - R /\ n_roots = R
        /\ R > max_rows => child_budget = 0 /\ n_roots = max_rows
        /\ max_rows = height - 4 /\ height \in Nat /\ len \in Nat /\ R \in Nat
    BY ShapeFacts DEF RInv, Shape
  <2>2. n_roots + child_budget <= max_rows
    BY <2>1
  <2>3. CASE stage = "sum"
    BY <2>1, <2>3 DEF RInv, Summing, Base
  <2>4. CASE stage # "sum" /\ ~empty
    BY <2>1, <2>2, <2>4 DEF RInv, Emitting, Base
  <2>5. CASE stage # "sum" /\ empty
    <3>1. len = 0 /\ R = 0
      BY <2>1, <2>5 DEF Shape
    <3>2. k = 1
      BY <2>1, <2>5, <3>1 DEF RInv, Emitting
    <3>3. allocated = 0
      BY <2>1, <2>5, <3>1, <3>2, ShapeFacts DEF RInv, Whole
    <3> QED BY <2>1, <2>5, <3>2, <3>3 DEF RInv, Emitting, Base
  <2> QED BY <2>3, <2>4, <2>5
<1> QED BY <1>1, RenderInductive, PTL

(* Every marker counts the rows that are missing.                          *)
THEOREM RenderMarkerExact == Spec => []MarkerExact
<1>1. RInv => MarkerExact
  BY DEF RInv
<1> QED BY <1>1, RenderInductive, PTL

(* A tree that fits is drawn whole.                                        *)
THEOREM RenderNoNeedlessElision == Spec => []NoNeedlessElision
<1>1. RInv => NoNeedlessElision
  <2> SUFFICES ASSUME RInv, stage = "done", len <= max_rows
               PROVE  /\ Len(groups) = R
                      /\ \A j \in 1 .. R : groups[j].drawn = groups[j].kids /\ groups[j].more = 0
    BY DEF NoNeedlessElision
  <2>1. /\ Shape /\ Emitting /\ Whole /\ k = n_roots + 1 /\ R \in Nat /\ len \in Nat
        /\ max_rows \in Nat
    BY ShapeFacts DEF RInv, Shape
  <2>2. R <= len
    BY <2>1 DEF Emitting
  <2>3. R <= max_rows
    BY <2>1, <2>2
  <2>4. n_roots = R
    BY <2>1, <2>3, ShapeFacts
  <2>5. Len(groups) = R /\ DOMAIN groups = 1 .. R
    BY <2>1, <2>4 DEF Emitting
  <2> QED BY <2>1, <2>3, <2>5 DEF Whole
<1> QED BY <1>1, RenderInductive, PTL

=============================================================================
