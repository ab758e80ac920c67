------------------------------ MODULE Collect ------------------------------
(***************************************************************************)
(* What the two collect_procs make of a scanned process: whether it        *)
(* qualifies for a row on its own, and the name that coalesce_helpers and  *)
(* the row go by.  On Linux the arguments are only read of a process that  *)
(* may come to be shown.  The table that results goes through ProcFilter.  *)
(***************************************************************************)
EXTENDS ProcFilter

CONSTANTS
  Scans,       (* see Scan                                                 *)
  Noise,       (* is_noise, by name                                        *)
  IdleNoise,   (* is_idle_noise, by name                                   *)
  Lean         (* the names is_lean_or_lake looks for                      *)

(* Of a process: whether its stat could be read, its parent, its reading,  *)
(* whether its memory is over MEM_MB_THRESH and its GPU use over the       *)
(* threshold, its comm, the base of its first argument ("" without         *)
(* arguments), the label that build_display_into makes of all of them, and *)
(* whether is_lean_related finds a keyword.                                *)
Process == [read : BOOLEAN, ppid : Ppids, cpu : Levels, big : BOOLEAN, gpu : BOOLEAN,
            comm : Names, arg : Names, label : Names, related : BOOLEAN]

Scan == [of : [Procs -> Process], prev : [Procs -> BOOLEAN], mac : BOOLEAN]

ASSUME CollectAssumption ==
  /\ {"", "?"} \subseteq Names /\ 0 \in Ppids \cap Levels
  /\ Noise \cup IdleNoise \cup Lean \subseteq Names
  /\ Scans \subseteq Scan

CPU_THRESH == 50

VARIABLE
  scanned      (* as found this tick, or none for a table that is given    *)

cvars == <<scanned, vars>>

Unscanned == [of |-> <<>>, prev |-> <<>>, mac |-> FALSE]

name(p) == IF p.arg = "" THEN p.comm ELSE p.arg

is_noise(p) == name(p) \in Noise
is_idle_noise(p) == scanned.mac /\ name(p) \in IdleNoise
is_lean_or_lake(p) == {p.comm, p.arg} \cap Lean # {}

(* Without arguments lean_label has nothing to go by.                      *)
build_display(p) ==
  LET related == is_lean_or_lake(p) \/ p.related
  IN IF p.arg # "" THEN p.label ELSE IF related THEN "?" ELSE p.comm

(* Mutant: the band in which a row is kept is forgotten.                   *)
MayAppear(p, shown) ==
  p.cpu >= CHILD_CPU_THRESH \/ p.big \/ p.gpu \/ p.comm \in Lean
may_qualify(p, shown) ==
  \/ p.cpu >= (IF shown THEN CHILD_CPU_KEEP_THRESH ELSE CHILD_CPU_THRESH)
  \/ p.big \/ p.gpu \/ p.comm \in Lean

qualifies(p) ==
  \/ is_lean_or_lake(p) \/ p.cpu >= CPU_THRESH \/ p.gpu
  \/ p.big /\ ~is_idle_noise(p)

Row(parent, cpus, display, visible) ==
  [ppid |-> parent, cpu |-> cpus, name |-> display, vis |-> visible]

(* procs[i]: the placeholder that was pushed first, the fast path, a row   *)
(* that is only there for its ppid, or a row of its own.                   *)
row(i) ==
  LET p == scanned.of[i]
  IN CASE ~p.read -> Row(0, 0, "", FALSE)
       [] p.read /\ ~scanned.mac /\ ~may_qualify(p, scanned.prev[i]) ->
            Row(p.ppid, p.cpu, p.comm, FALSE)
       [] p.read /\ (scanned.mac \/ may_qualify(p, scanned.prev[i])) /\ is_noise(p) ->
            Row(p.ppid, 0, "", FALSE)
       [] OTHER -> Row(p.ppid, p.cpu, build_display(p), qualifies(p))

collect_procs ==
  [ppid |-> [i \in Procs |-> row(i).ppid], name |-> [i \in Procs |-> row(i).name],
   cpu |-> [i \in Procs |-> row(i).cpu], vis |-> [i \in Procs |-> row(i).vis],
   prev |-> scanned.prev, mac |-> scanned.mac]

CollectInit ==
  \/ scanned = Unscanned /\ Init
  \/ scanned \in Scans /\ in = collect_procs /\ Begin

CollectSpec == CollectInit /\ [][Next /\ UNCHANGED scanned]_cvars

----------------------------------------------------------------------------
(* Properties                                                              *)

(* A row that is drawn goes by its process's arguments, not by the bare    *)
(* comm of the fast path, also while hysteresis alone keeps it on screen;  *)
(* and neither noise nor a process that could not be read is drawn.        *)
(* Rows that others fold into are exempt: their load is not their own, so  *)
(* the fast path cannot foresee that they are shown.                       *)
RowsNamed ==
  pc = "done" /\ scanned # Unscanned =>
    \A k \in Procs : vis[k] /\ (\A i \in Procs : coalesce_root(i) # k) =>
      LET p == scanned.of[k]
      IN /\ p.read /\ ~is_noise(p)
         /\ p.arg # "" => in.name[k] = p.label

=============================================================================
