------------------------------ MODULE MCFilter ------------------------------
(* Small process tables.  Pids do not ascend with the scan, as on macOS,   *)
(* so that the sort before the layout has something to do.                 *)
EXTENDS Collect

Pids4 == <<4, 2, 3, 1>>

(* Code and its helper, ChatGPT's shard, the Lean chain, the Simulator.    *)
AppNames == {"Code", "Code Helper", "Codex (Service)", "lean --server",
             "lake serve", "lean-mcp", "launchd_sim"}
ScanNames == {"", "?", "Code", "code", "lake", "chrome", "mds"}
AllNames == AppNames \cup {"sh"} \cup ScanNames
AppHelper == {<<"Code Helper", "Code">>}
AppShard == {"Codex (Service)"}

(* Every parent relation, parent cycles included, among plain processes.   *)
(* prev is not read of a process that is visible on its own.               *)
TreeTables ==
  {t \in [ppid : [Procs -> 0 .. 4], name : [Procs -> {"sh"}], cpu : [Procs -> {3}],
          vis : [Procs -> BOOLEAN], prev : [Procs -> BOOLEAN], mac : {FALSE}] :
     \A k \in Procs : ~(t.vis[k] /\ t.prev[k])}

(* Every forest of three processes with any names beside an idle one.      *)
Forests ==
  {f \in [Procs -> {0, 2, 3, 4}] :
     /\ f[4] = 0
     /\ \A k \in 1 .. 3 :
          LET up(p) == IF p = 0 THEN 0 ELSE f[CHOOSE j \in Procs : Pids4[j] = p]
          IN up(up(f[k])) = 0}

None == [k \in Procs |-> FALSE]

FoldTables ==
  [ppid : Forests, name : {n \in [Procs -> AppNames \cup {"sh"}] :
                             n[4] = "sh" /\ "sh" \notin {n[1], n[2], n[3]}},
   cpu : {[k \in Procs |-> 4]}, vis : {v \in [Procs -> BOOLEAN] : ~v[4]}, prev : {None},
   mac : {TRUE}]

----------------------------------------------------------------------------
(* A scan of a Lean process, of a process by name, reading and all else,   *)
(* and of a child of it, on either system, beside a process that is gone.  *)
P(read, parent, cpus, big, gpu, comm, arg, label) ==
  [read |-> read, ppid |-> parent, cpu |-> cpus, big |-> big, gpu |-> gpu, comm |-> comm,
   arg |-> arg, label |-> label, related |-> FALSE]

Idents == {<<"code", "Code", "Code">>, <<"code", "", "">>, <<"code", "chrome", "chrome">>,
           <<"code", "mds", "mds">>, <<"lake", "", "">>, <<"sh", "lake", "lake serve">>,
           <<"sh", "Codex (Service)", "Codex (Service)">>, <<"sh", "sh", "Code Helper">>}

Some(parent, heavy) ==
  {P(TRUE, parent, c, h = "mem", h = "gpu", w[1], w[2], w[3]) :
     c \in {2, 3, 10, 50}, h \in heavy, w \in Idents}

MCScans ==
  {[of |-> <<P(TRUE, 0, 2, FALSE, FALSE, "lake", "lake", "lake serve"), top,
             kid, P(FALSE, 0, 0, FALSE, FALSE, "sh", "", "")>>,
    prev |-> [k \in Procs |-> k \in {2, 3} /\ shown], mac |-> mac] :
     top \in Some(4, {"mem", "gpu", "none"}), kid \in Some(2, {"none"}), shown \in BOOLEAN, mac \in BOOLEAN}

AllTables == <<TreeTables, FoldTables>>

=============================================================================
