------------------------------- MODULE Render -------------------------------
(***************************************************************************)
(* render_tree in src/main.rs: how the rows of the tree are fitted into    *)
(* the terminal.  Four lines of header come first; every root gets a row   *)
(* while there are any, and what is left is shared among the root groups   *)
(* in proportion to their sizes, a group that does not fit giving up one   *)
(* of its rows to a "N more..." marker.  The frame is redrawn from the     *)
(* top, so one line too many scrolls the header away on every tick.        *)
(***************************************************************************)
EXTENDS Integers, Sequences

CONSTANTS
  MaxHeight,   (* bound: rows of the terminal                             *)
  MaxTree      (* bound: rows of the tree                                 *)

ASSUME RenderAssumption == MaxHeight \in Nat /\ MaxTree \in Nat

VARIABLES
  height,      (* rows of the terminal                                    *)
  len,         (* tree.len()                                              *)
  roots,       (* positions of the roots in the tree, counted from 0      *)
  empty,       (* procs.is_empty()                                        *)
  stage,       (* "sum", "emit", "done"                                   *)
  k,           (* cursor of the two loops over the groups                 *)
  total_children,
  allocated,
  groups,      (* per root drawn: its kids, those drawn, the marker's N   *)
  lines        (* lines written                                           *)

input == <<height, len, roots, empty>>
vars  == <<input, stage, k, total_children, allocated, groups, lines>>

(* usize::saturating_sub.  Mutant: a plain subtraction.                    *)
Minus(a, b) == a - b
Monus(a, b) == IF a > b THEN a - b ELSE 0

R == Len(roots)

(* Where group j ends, and kids_in(j).                                     *)
End(j)     == IF j < R THEN roots[j + 1] ELSE len
kids_in(j) == End(j) - roots[j] - 1

max_rows     == Monus(height, 4)
n_roots      == IF R < max_rows THEN R ELSE max_rows

child_budget == Monus(max_rows, R)

(* (0..roots.len()).map(kids_in).sum()                                     *)
Sum ==
  /\ stage = "sum" /\ k <= R
  /\ total_children' = total_children + kids_in(k)
  /\ k' = k + 1
  /\ UNCHANGED <<input, stage, allocated, groups, lines>>

Summed ==
  /\ stage = "sum" /\ k > R
  /\ stage' = "emit" /\ k' = 1
  /\ UNCHANGED <<input, total_children, allocated, groups, lines>>

(* Mutant of Slot: rounded up.                                             *)
SlotUp(j) ==
  IF j = R THEN Monus(child_budget, allocated)
  ELSE IF total_children > 0
    THEN (child_budget * kids_in(j) + total_children - 1) \div total_children ELSE 0

(* The lines group j may use: a rounded-down share; the last takes what is *)
(* left.                                                                   *)
Slot(j) ==
  IF j = R THEN Monus(child_budget, allocated)
  ELSE IF total_children > 0 THEN (child_budget * kids_in(j)) \div total_children ELSE 0

(* Kids drawn and lines used by a group with this many kids.  Mutant: a    *)
(* group that just fits is cut.                                            *)
FitStrict(slot, kids) ==
  IF slot > kids THEN <<kids, kids>> ELSE IF slot > 0 THEN <<slot - 1, slot>> ELSE <<0, 0>>
Fit(slot, kids) ==
  IF slot >= kids THEN <<kids, kids>> ELSE IF slot > 0 THEN <<slot - 1, slot>> ELSE <<0, 0>>

(* The marker's N, 0 for no marker.  Mutant: the marker's own line counts  *)
(* as one of the rows drawn.                                               *)
MoreUsed(kids, limit, used) == IF used > limit THEN kids - used ELSE 0
More(kids, limit, used) == IF used > limit THEN kids - limit ELSE 0

(* One root group: the root, its kids, and the marker when a line is kept  *)
(* for it.                                                                 *)
Emit ==
  /\ stage = "emit" /\ k <= n_roots
  /\ LET kids == kids_in(k)
         limit == Fit(Slot(k), kids)[1]
         used == Fit(Slot(k), kids)[2]
     IN /\ allocated' = allocated + used
        /\ groups' = Append(groups, [kids |-> kids, drawn |-> limit,
                                     more |-> More(kids, limit, used)])
        /\ lines' = lines + 1 + limit + (IF used > limit THEN 1 ELSE 0)
  /\ k' = k + 1
  /\ UNCHANGED <<input, stage, total_children>>

Emitted ==
  /\ stage = "emit" /\ k > n_roots
  /\ stage' = "done"
  /\ UNCHANGED <<input, k, total_children, allocated, groups, lines>>

----------------------------------------------------------------------------
(* The positions of depth 0 in a tree of n rows; the first row is one.     *)
RootLists(n) ==
  IF n = 0 THEN {<<>>}
  ELSE {s \in UNION {[1 .. m -> 0 .. n - 1] : m \in 1 .. n} :
          /\ s[1] = 0
          /\ \A a, b \in DOMAIN s : a < b => s[a] < s[b]}

(* Four header lines, and one that says there is nothing to show.  The     *)
(* tree may be empty although procs is not: a parent cycle has no root.    *)
Init ==
  /\ len \in 0 .. MaxTree /\ roots \in RootLists(len) /\ height \in 0 .. MaxHeight
  /\ empty \in BOOLEAN /\ (len > 0 => ~empty)
  /\ stage = "sum" /\ k = 1
  /\ total_children = 0 /\ allocated = 0 /\ groups = <<>>
  /\ lines = IF empty THEN 5 ELSE 4

Next == Sum \/ Summed \/ Emit \/ Emitted

Spec == Init /\ [][Next]_vars

----------------------------------------------------------------------------
(* Properties                                                              *)

(* Types; the rows left over are never negative, however small the window. *)
TypeOK ==
  /\ {max_rows, child_budget} \subseteq Nat
  /\ height \in Nat /\ len \in Nat /\ empty \in BOOLEAN
  /\ roots \in Seq(0 .. MaxTree) /\ stage \in {"sum", "emit", "done"}
  /\ k \in 1 .. R + 1 /\ total_children \in Nat /\ allocated \in Nat /\ lines \in Nat
  /\ groups \in Seq([kids : Nat, drawn : Nat, more : Nat])

(* The frame never outgrows a terminal that has a line below the header,   *)
(* however many roots and kids there are and however the shares round.     *)
FrameFits == height >= 5 => lines <= height

(* When the whole tree fits, every row of it is drawn: rounding the shares *)
(* down leaves no group short.                                             *)
NoNeedlessElision ==
  stage = "done" /\ len <= max_rows =>
    /\ Len(groups) = R
    /\ \A j \in 1 .. R : groups[j].drawn = groups[j].kids /\ groups[j].more = 0

(* A marker counts exactly the rows of its group that are missing, and is  *)
(* never written for a group that is complete.                             *)
MarkerExact ==
  \A j \in DOMAIN groups :
    /\ groups[j].drawn <= groups[j].kids
    /\ groups[j].more > 0 => groups[j].drawn + groups[j].more = groups[j].kids

============================================================================
