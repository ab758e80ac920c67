----------------------------- MODULE ProcFilter -----------------------------
(***************************************************************************)
(* From the process table of one tick to the rows of the tree, src/main.rs:*)
(* coalesce_helpers folds an app's service processes into the app's row,   *)
(* filter_with_children decides which rows are shown and hangs each of     *)
(* them off its nearest shown ancestor, and tree_layout flattens the rest  *)
(* into display order.  Parents come from a sequential scan of /proc in    *)
(* which pids may be reused, so the table may hold parent cycles.          *)
(*                                                                         *)
(* A process is its position in the scan.  cpu is in tenths of a percent   *)
(* and stands for everything that is folded (cpu, rss and gpu alike).      *)
(***************************************************************************)
EXTENDS Integers, Sequences, FiniteSets, SequencesExt

CONSTANTS
  Pid,        (* the pids in scan order; on macOS they do not ascend      *)
  Ppids,      (* what a ppid may be; no process has pid 0                 *)
  Names,      (* display names                                            *)
  Inputs,     (* the tables considered, as a sequence of sets; the field  *)
              (* mac of a table is cfg!(target_os = "macos")              *)
  Helper,     (* is_helper_of: "X Helper..." to "X", by name              *)
  Shard,      (* is_shard_name: ends with " (Renderer)" or " (Service)"   *)
  Levels,     (* cpu readings                                             *)
  Hops        (* hop cap of coalesce_root: 64                             *)

N == Len(Pid)
Procs == 1 .. N

Input == [ppid : [Procs -> Ppids], name : [Procs -> Names], cpu : [Procs -> Levels],
          vis : [Procs -> BOOLEAN], prev : [Procs -> BOOLEAN], mac : BOOLEAN]

ASSUME FilterAssumption ==
  /\ Pid \in Seq(Nat \ {0}) /\ \A i, k \in Procs : Pid[i] = Pid[k] => i = k
  /\ Ppids \subseteq Nat /\ Levels \subseteq Nat /\ Hops \in Nat
  /\ Helper \subseteq Names \X Names /\ Shard \subseteq Names
  /\ \A n \in DOMAIN Inputs : Inputs[n] \subseteq Input

CHILD_CPU_THRESH      == 10
CHILD_CPU_KEEP_THRESH == 3

VARIABLES
  in,         (* the table as collected: ppid, name, cpu, vis, and        *)
              (* prev, whether the pid was shown last tick                *)
  ppid, cpu, vis,             (* the fields of procs that change          *)
  pc,         (* "coalesce", "bfs", "layout", "done"                      *)
  scan,       (* cursor of the loop over procs                            *)
  queue,      (* pending <<process, last visible ancestor>>, LIFO         *)
  enqueued,
  seeds,      (* what qualified on its own                                *)
  procs,      (* the surviving rows, sorted by pid                        *)
  stack,      (* pending <<process, depth>> of tree_walk                  *)
  out         (* the tree: <<process, depth>> in display order            *)

fields == <<ppid, cpu, vis>>
search == <<queue, enqueued, seeds>>
layout == <<procs, stack, out>>
vars   == <<in, fields, pc, scan, search, layout>>

----------------------------------------------------------------------------
(* pid_to_idx and children, both built before anything is changed          *)

(* pid_to_idx: 0 when the pid is not in the table.                         *)
pid_to_idx ==
  [q \in Ppids \cup {Pid[k] : k \in Procs} |->
     IF \E k \in Procs : Pid[k] = q THEN CHOOSE k \in Procs : Pid[k] = q ELSE 0]

Up(k) == pid_to_idx[in.ppid[k]]

KidSet(i) == {k \in Procs : Up(k) = i}

(* The members of a set, ascending by key: a bucket of children, the       *)
(* sorted table.                                                           *)
InOrder(S, key) ==
  [n \in 1 .. Cardinality(S) |->
     CHOOSE k \in S : Cardinality({j \in S : key[j] <= key[k]}) = n]

ScanOrder == [k \in Procs |-> k]

(* FVec::push on a vector of this capacity: what does not fit is dropped.  *)
Capped(s, cap) == SubSeq(s, 1, IF Len(s) < cap THEN Len(s) ELSE cap)

----------------------------------------------------------------------------
(* coalesce_helpers                                                        *)

(* A process named kid folds into an ancestor named root.                  *)
FoldsInto(kid, root) ==
  \/ kid \in Shard
  \/ <<kid, root>> \in Helper
  \/ in.mac /\ root = "launchd_sim"
  \/ root = "lake serve" /\ kid = "lean --server"
  \/ root = "lean-mcp" /\ kid = "lake serve"

(* Mutant: the walk ends at the first match.                               *)
CoalesceNearest(i) ==
  LET walk[h \in 0 .. Hops] ==
        IF h = 0 THEN [root |-> 0, a |-> Up(i)]
        ELSE LET w == walk[h - 1]
             IN IF w.a = 0 \/ w.root # 0 THEN w
                ELSE [root |-> IF FoldsInto(in.name[i], in.name[w.a]) THEN w.a ELSE 0,
                      a |-> Up(w.a)]
  IN walk[Hops].root

(* The outermost process i folds into, or 0: one walk up the ppid chain    *)
(* that goes on under the name of each match.                              *)
coalesce_root(i) ==
  LET walk[h \in 0 .. Hops] ==
        IF h = 0 THEN [root |-> 0, name |-> in.name[i], a |-> Up(i)]
        ELSE LET w == walk[h - 1]
             IN IF w.a = 0 THEN w
                ELSE IF FoldsInto(w.name, in.name[w.a])
                       THEN [root |-> w.a, name |-> in.name[w.a], a |-> Up(w.a)]
                       ELSE [w EXCEPT !.a = Up(w.a)]
  IN walk[Hops].root

(* The processes the scan has still to fold.                               *)
ToFold == {i \in scan .. N : coalesce_root(i) # 0}

(* The next of them: hide it, then add what it had to its root.            *)
Coalesce ==
  /\ pc = "coalesce" /\ ToFold # {}
  /\ LET i == Min(ToFold)
         r == coalesce_root(i)
         surface == vis[i] \/ (in.mac /\ in.name[r] = "launchd_sim")
         hidden == [vis EXCEPT ![i] = FALSE]
         zeroed == [cpu EXCEPT ![i] = 0]
     IN /\ vis' = [hidden EXCEPT ![r] = @ \/ surface]
        /\ cpu' = [zeroed EXCEPT ![r] = @ + cpu[i]]
        /\ scan' = i + 1
  /\ UNCHANGED <<in, ppid, pc, search, layout>>

----------------------------------------------------------------------------
(* filter_with_children                                                    *)

(* The processes that qualify on their own seed the queue.                 *)
Seed ==
  /\ pc = "coalesce" /\ ToFold = {}
  /\ seeds' = {k \in Procs : vis[k]}
  /\ enqueued' = seeds'
  /\ LET ks == InOrder(seeds', ScanOrder)
     IN queue' = [n \in DOMAIN ks |-> <<ks[n], ks[n]>>]
  /\ pc' = "bfs"
  /\ UNCHANGED <<in, fields, scan, layout>>

Thresh(k) == IF in.prev[k] THEN CHILD_CPU_KEEP_THRESH ELSE CHILD_CPU_THRESH

(* The last visible ancestor that a kid hands on.  Mutant: never renewed.  *)
LastKept(k, last, shown) == last
NewLast(k, last, shown) == IF shown THEN k ELSE last

(* Which kids still have to be enqueued.  Mutants: no guard; only those    *)
(* that are shown.                                                         *)
ToQueueAll(kids, shown) == kids
ToQueueShown(kids, shown) == {k \in kids \ enqueued : shown[k]}
ToQueue(kids, shown) == kids \ enqueued

(* One entry popped and all its kids treated.                              *)
Visit ==
  /\ pc = "bfs" /\ queue # <<>>
  /\ LET i == Last(queue)[1]
         last == Last(queue)[2]
         shown == [k \in Procs |-> vis[k] \/ (k \in KidSet(i) /\ cpu[k] >= Thresh(k))]
         new == InOrder(ToQueue(KidSet(i), shown), ScanOrder)
     IN /\ vis' = shown
        /\ ppid' = [k \in Procs |-> IF k \in KidSet(i) /\ shown[k] /\ ~vis[i]
                                      THEN Pid[last] ELSE ppid[k]]
        /\ enqueued' = enqueued \cup KidSet(i)
        /\ queue' = Capped(Front(queue) \o
                      [n \in 1 .. Len(new) |-> <<new[n], NewLast(new[n], last, shown[new[n]])>>],
                      N)
  /\ UNCHANGED <<in, cpu, pc, scan, seeds, layout>>

(* retain_in_place, then sort_by_u32_key on the pids.                      *)
Retain ==
  /\ pc = "bfs" /\ queue = <<>>
  /\ procs' = InOrder({k \in Procs : vis[k]}, Pid)
  /\ pc' = "layout" /\ scan' = 1
  /\ UNCHANGED <<in, fields, search, stack, out>>

----------------------------------------------------------------------------
(* tree_layout                                                             *)

Rows == {procs[n] : n \in 1 .. Len(procs)}

(* pid_to_idx over the survivors has no entry for the ppid.  Mutant: the   *)
(* table of the whole scan is asked.                                       *)
IsRootOfScan(p) == pid_to_idx[ppid[p]] = 0
IsRoot(p) == \A k \in Rows : Pid[k] # ppid[p]

RootsLeft == {n \in scan .. Len(procs) : IsRoot(procs[n])}

(* The walk from the next root.                                            *)
NextRoot ==
  /\ pc = "layout" /\ stack = <<>> /\ RootsLeft # {}
  /\ stack' = <<<<procs[Min(RootsLeft)], 0>>>>
  /\ scan' = Min(RootsLeft) + 1
  /\ UNCHANGED <<in, fields, pc, search, procs, out>>

(* children.bucket(p) over the survivors, in pid order.                    *)
RowKids(p) == InOrder({k \in Rows : ppid[k] = Pid[p]}, Pid)

(* Mutant: the kids are pushed in forward order.                           *)
PendingForward(p, d) == LET ks == RowKids(p) IN [n \in DOMAIN ks |-> <<ks[n], d>>]

(* A row's kids with their depth, pushed in reverse so that they pop in    *)
(* order.                                                                  *)
Pending(p, d) == LET ks == RowKids(p) IN Reverse([n \in DOMAIN ks |-> <<ks[n], d>>])

(* u8::saturating_add(1).                                                  *)
Deeper(d) == IF d < 255 THEN d + 1 ELSE 255

(* One iteration of tree_walk.                                             *)
Walk ==
  /\ pc = "layout" /\ stack # <<>>
  /\ LET p == Last(stack)[1]
         d == Last(stack)[2]
     IN /\ out' = Capped(Append(out, <<p, d>>), Len(procs))
        /\ stack' = Capped(Front(stack) \o Pending(p, Deeper(d)), Len(procs))
  /\ UNCHANGED <<in, fields, pc, scan, search, procs>>

Finish ==
  /\ pc = "layout" /\ stack = <<>> /\ RootsLeft = {}
  /\ pc' = "done"
  /\ UNCHANGED <<in, fields, scan, search, layout>>

----------------------------------------------------------------------------
Begin ==
  /\ ppid = in.ppid /\ cpu = in.cpu /\ vis = in.vis
  /\ pc = "coalesce" /\ scan = 1
  /\ queue = <<>> /\ enqueued = {} /\ seeds = {}
  /\ procs = <<>> /\ stack = <<>> /\ out = <<>>

Init == (\E n \in DOMAIN Inputs : in \in Inputs[n]) /\ Begin

Next == Coalesce \/ Seed \/ Visit \/ Retain \/ NextRoot \/ Walk \/ Finish

Spec == Init /\ [][Next]_vars

----------------------------------------------------------------------------
(* Properties                                                              *)

(* Types, and that the queue never holds more entries than processes were  *)
(* enqueued: its capacity is N and a push beyond it would be lost silently.*)
TypeOK ==
  /\ in \in Input /\ ppid \in [Procs -> Nat] /\ cpu \in [Procs -> Nat]
  /\ vis \in [Procs -> BOOLEAN]
  /\ pc \in {"coalesce", "bfs", "layout", "done"} /\ scan \in 1 .. N + 1
  /\ queue \in Seq(Procs \X Procs) /\ Len(queue) <= Cardinality(enqueued)
  /\ enqueued \subseteq Procs /\ seeds \subseteq enqueued
  /\ procs \in Seq(Procs) /\ stack \in Seq(Procs \X (0 .. 255))
  /\ out \in Seq(Procs \X (0 .. 255))

(* The n-th ancestor of k in the table as collected, or 0.                 *)
Nth(k, n) ==
  LET f[m \in 0 .. N] == IF m = 0 THEN k
                         ELSE LET a == f[m - 1] IN IF a = 0 THEN 0 ELSE Up(a)
  IN f[n]

Ancestors(k) == {Nth(k, n) : n \in 1 .. N} \ {0}

Acyclic == \A k \in Procs : k \notin Ancestors(k)

(* The nearest ancestor of k that satisfies P, or 0.                       *)
Nearest(k, P(_)) ==
  LET ns == {n \in 1 .. N : Nth(k, n) # 0 /\ P(Nth(k, n))}
  IN IF ns = {} THEN 0 ELSE Nth(k, Min(ns))

(* Where k folds to, one match at a time and in the end.                   *)
Target(k) == Nearest(k, LAMBDA q : FoldsInto(in.name[k], in.name[q]))
Outermost(k) ==
  LET f[m \in 0 .. N] ==
        IF m = 0 THEN k
        ELSE LET q == f[m - 1]
                 t == Target(q)
             IN IF t = 0 THEN q ELSE t
  IN f[N]
Members(r) == {k \in Procs : Outermost(k) = r}

(* coalesce_helpers, whatever the scan order: every process's load is in   *)
(* exactly one row, the outermost one it folds into; that row shows when a *)
(* member did (a launchd_sim row whenever it has any); and a folded row is *)
(* empty and stays hidden to the end, also through the search below.       *)
FoldedOnce ==
  Acyclic =>
    /\ pc = "coalesce" /\ ToFold = {} =>
         \A r \in Procs :
           /\ cpu[r] = IF Target(r) # 0 THEN 0
                       ELSE MapThenSumSet(LAMBDA k : in.cpu[k], Members(r))
           /\ vis[r] <=> /\ Target(r) = 0
                         /\ \/ \E k \in Members(r) : in.vis[k]
                            \/ in.mac /\ in.name[r] = "launchd_sim" /\ Members(r) # {r}
    /\ pc = "done" => \A r \in Procs : Target(r) # 0 => ~vis[r]

(* The search finds what the documentation of CHILD_CPU_THRESH promises,   *)
(* parent cycles included: a process is shown when it qualified on its own *)
(* or has a qualifying ancestor, at any distance, and enough cpu.          *)
ShownExactly ==
  pc \in {"layout", "done"} =>
    \A k \in Procs :
      vis[k] <=> \/ k \in seeds
                 \/ Ancestors(k) \cap seeds # {} /\ cpu[k] >= Thresh(k)

(* Every shown process hangs off its nearest shown ancestor; without one   *)
(* it keeps its own ppid and becomes a root.                               *)
NearestShown ==
  pc \in {"layout", "done"} =>
    \A k \in Procs : vis[k] =>
      LET q == Nearest(k, LAMBDA a : vis[a])
      IN ppid[k] = IF q = 0 THEN in.ppid[k] ELSE Pid[q]

(* The rows of the tree at the end: without parent cycles every shown      *)
(* process is drawn, exactly once; with cycles still at most once.         *)
DrawnOnce ==
  /\ \A m, n \in 1 .. Len(out) : out[m][1] = out[n][1] => m = n
  /\ pc = "done" /\ Acyclic =>
       {out[n][1] : n \in 1 .. Len(out)} = {k \in Procs : vis[k]}

(* The display order is a pre-order: the row above a row, at the depth     *)
(* before its own, is its parent; siblings and roots ascend by pid.        *)
Preorder ==
  \A n \in 1 .. Len(out) :
    LET p == out[n][1]
        d == out[n][2]
        above == {m \in 1 .. n - 1 : out[m][2] < d}
        peers == {m \in 1 .. n - 1 : /\ out[m][2] = d
                                     /\ \A x \in m .. n : out[x][2] >= d}
    IN /\ IF d = 0 THEN IsRoot(p)
          ELSE /\ above # {} /\ out[Max(above)][2] = d - 1
               /\ Pid[out[Max(above)][1]] = ppid[p]
       /\ \A m \in peers : Pid[out[m][1]] < Pid[p]

Phase == CASE pc = "coalesce" -> 1 [] pc = "bfs" -> 2 [] pc = "layout" -> 3 [] OTHER -> 4

(* What a phase has still to do: processes to scan, to enqueue and to pop, *)
(* rows to draw.                                                           *)
Left ==
  CASE pc = "coalesce" -> N + 1 - scan
    [] pc = "bfs"      -> 2 * (N - Cardinality(enqueued)) + Len(queue)
    [] pc = "layout"   -> N + 1 - scan + Len(procs) - Len(out)
    [] OTHER           -> 0

(* The tick ends, whatever cycles the scan produced: every step leaves a   *)
(* phase or leaves it less to do, and no row is drawn in excess.           *)
Progress ==
  [][Phase' > Phase \/ (Phase' = Phase /\ 0 <= Left' /\ Left' < Left)]_vars

============================================================================
