-------------------------------- MODULE Agx --------------------------------
(***************************************************************************)
(* The Apple GPU backend, src/gpu/agx.rs on top of the Mach calls of       *)
(* src/mac_sys.rs.  Each tick walks the accelerators and their user        *)
(* clients by remote calls, any of which may fail; every right and every   *)
(* out-of-line buffer that a reply brings must be given back, and the      *)
(* kernel may refuse to take it: that error is ignored, and what was       *)
(* refused stays with the process for good.  The GPU time of the clients   *)
(* is summed per pid and compared with the last tick's.  Meanwhile         *)
(* processes use the GPU, open and close clients.                          *)
(***************************************************************************)
EXTENDS SortMap

CONSTANTS
  Slots,     (* clients that can be open at once                          *)
  GpuPids,   (* pids of the processes that use the GPU                    *)
  Accelerators,
  Rooms,     (* values of MAX_TRACKED_PIDS: clients that one walk keeps   *)
  MaxClock,  (* bound: the clock                                          *)
  MaxOpened, (* bound: clients opened one after another                   *)
  Leaky,     (* bound: kinds of which the kernel may refuse some          *)
  MaxLeaked  (* bound: rights or buffers of a kind that are refused       *)

ASSUME AgxAssumption ==
  /\ GpuPids \subseteq Nat \ {0}
  /\ Accelerators \in Nat \ {0} /\ Rooms \subseteq Nat \ {0}
  /\ {MaxClock, MaxOpened, MaxLeaked} \subseteq Nat

VARIABLES
  clock,
  clients,   (* slot -> the user client open there                        *)
  opened,    (* clients opened so far                                     *)
  held,      (* rights and buffers the process holds, of each kind        *)
  leaked,    (* of these, the ones that the kernel did not take back      *)
  walk,      (* the tick's walk: see NoWalk                               *)
  reads,     (* now: what was read of the clients in this tick            *)
  prev,      (* the last tick's map of pid to GPU time                    *)
  prev_reads,(* what it was frozen from                                   *)
  entries    (* the result: pid and percentage                            *)

kernel == <<clock, clients, opened>>
rights == <<held, leaked>>
avars  == <<kernel, rights, walk, reads, prev, prev_reads, entries>>

Free == [id |-> 0, pid |-> 0, since |-> 0, ns |-> 0]

(* pc: off, then init, count and counted (count_agx_devices), idle between *)
(* ticks, next_agx, stats, children, next_child, props, freeze, done.      *)
NoWalk == [pc |-> "idle", agx |-> 0, todo |-> {}, slot |-> 0, at |-> 0, dt |-> 0,
           n_gpus |-> 0, room |-> 1]
Afresh == [NoWalk EXCEPT !.at = walk.at, !.n_gpus = walk.n_gpus, !.room = walk.room]

Kinds == {"reply", "master", "iter", "agx", "child_iter", "child", "buf"}

(* The two that are asked for until they are known, then cached for good.  *)
Ports   == {"reply", "master"}
Missing == {p \in Ports : held[p] = 0}

----------------------------------------------------------------------------
(* The machine                                                             *)

(* A unit of time, in which a client uses the GPU or not.                  *)
Compute ==
  /\ clock < MaxClock
  /\ clock' = clock + 1
  /\ \E busy \in SUBSET {s \in Slots : clients[s] # Free} :
       clients' = [s \in Slots |-> IF s \in busy THEN [clients[s] EXCEPT !.ns = @ + 1]
                                   ELSE clients[s]]
  /\ UNCHANGED <<opened, rights, walk, reads, prev, prev_reads, entries>>

OpenClient(s, pid) ==
  /\ clients[s] = Free /\ opened < MaxOpened
  /\ opened' = opened + 1
  /\ clients' = [clients EXCEPT ![s] = [id |-> opened + 1, pid |-> pid,
                                        since |-> clock, ns |-> 0]]
  /\ UNCHANGED <<clock, rights, walk, reads, prev, prev_reads, entries>>

CloseClient(s) ==
  /\ clients[s] # Free
  /\ clients' = [clients EXCEPT ![s] = Free]
  /\ UNCHANGED <<clock, opened, rights, walk, reads, prev, prev_reads, entries>>

----------------------------------------------------------------------------
(* Remote calls                                                            *)

At(pc) == walk.pc = pc
Goto(pc) == walk' = [walk EXCEPT !.pc = pc]

One(yes) == IF yes THEN 1 ELSE 0

(* A reply brings the rights and buffers gained.  Those lost are given     *)
(* back (mach_port_deallocate, OolBuffer::drop); nobody looks at the       *)
(* result, and the process is left with those that the kernel refuses.     *)
Exchange(gained, lost) ==
  \E left \in SUBSET lost :
    /\ \A k \in left : k \in Leaky /\ leaked[k] < MaxLeaked
    /\ held' = [k \in Kinds |-> held[k] + One(k \in gained) - One(k \in lost \ left)]
    /\ leaked' = [k \in Kinds |-> leaked[k] + One(k \in left)]

Gain(names) == Exchange(names, {})
Lose(names) == Exchange({}, names)

(* Of the ports still missing, those that come before a call fails.        *)
SomePorts == \E got \in {{}, {"reply"}, Ports} : Gain(got \cap Missing)

Rest == <<kernel, reads, prev, prev_reads, entries>>

----------------------------------------------------------------------------
(* count_agx_devices, once                                                 *)

CountBegin ==
  /\ At("init")
  /\ Gain(Missing \cup {"iter"}) /\ Goto("count")
  /\ UNCHANGED Rest

(* The master port or the iterator was refused.                            *)
CountFails ==
  /\ At("init")
  /\ SomePorts /\ Goto("idle")
  /\ UNCHANGED Rest

CountNext ==
  /\ At("count") /\ walk.n_gpus < Accelerators
  /\ Gain({"agx"}) /\ Goto("counted")
  /\ UNCHANGED Rest

CountOne ==
  /\ At("counted")
  /\ Lose({"agx"}) /\ walk' = [walk EXCEPT !.pc = "count", !.n_gpus = @ + 1]
  /\ UNCHANGED Rest

(* The last service, or a call that fails and looks the same.              *)
CountEnd ==
  /\ At("count")
  /\ Lose({"iter"}) /\ Goto("idle")
  /\ UNCHANGED Rest

Count == CountBegin \/ CountFails \/ CountNext \/ CountOne \/ CountEnd

----------------------------------------------------------------------------
(* populate                                                                *)

Elapsed == clock - walk.at

(* No GPU, or no time has passed: nothing is kept for the next tick.       *)
EmptyTick ==
  /\ At("idle") /\ (walk.n_gpus = 0 \/ Elapsed = 0)
  /\ prev' = <<>> /\ prev_reads' = <<>> /\ entries' = <<>>
  /\ walk' = [walk EXCEPT !.at = clock]
  /\ UNCHANGED <<kernel, rights, reads>>

Begin ==
  /\ At("idle") /\ walk.n_gpus > 0 /\ Elapsed > 0
  /\ Gain(Missing \cup {"iter"})
  /\ walk' = [walk EXCEPT !.pc = "next_agx", !.agx = 0, !.at = clock, !.dt = Elapsed]
  /\ reads' = <<>> /\ entries' = <<>>
  /\ UNCHANGED <<kernel, prev, prev_reads>>

(* io_master_port or the matching fails: the next tick has no predecessor. *)
BeginFails ==
  /\ At("idle") /\ walk.n_gpus > 0 /\ Elapsed > 0
  /\ SomePorts
  /\ walk' = [walk EXCEPT !.at = clock]
  /\ reads' = <<>> /\ prev' = <<>> /\ prev_reads' = <<>> /\ entries' = <<>>
  /\ UNCHANGED kernel

NextAgx ==
  /\ At("next_agx") /\ walk.agx < Accelerators
  /\ Gain({"agx"})
  /\ walk' = [walk EXCEPT !.pc = "stats", !.agx = @ + 1]
  /\ UNCHANGED Rest

(* The last service, or a call that fails and looks the same.              *)
LastAgx ==
  /\ At("next_agx")
  /\ Lose({"iter"}) /\ Goto("freeze")
  /\ UNCHANGED Rest

(* PerformanceStatistics comes in a buffer that is dropped once parsed,    *)
(* whether it parses or not; or the call fails.                            *)
Stats ==
  /\ At("stats")
  /\ Exchange({"buf"}, {"buf"}) \/ UNCHANGED rights
  /\ Goto("children")
  /\ UNCHANGED Rest

(* The child iterator holds the clients open now, all under the first      *)
(* accelerator.                                                            *)
Children ==
  /\ At("children")
  /\ Gain({"child_iter"})
  /\ walk' = [walk EXCEPT !.pc = "next_child",
                !.todo = IF walk.agx = 1 THEN {s \in Slots : clients[s] # Free} ELSE {}]
  /\ UNCHANGED Rest

(* Mutant: the entry is kept when it has no iterator.                      *)
KeepEntry == {}
DropEntry == {"agx"}

NoChildren ==
  /\ At("children")
  /\ Lose(DropEntry) /\ Goto("next_agx")
  /\ UNCHANGED Rest

NextChild ==
  /\ At("next_child")
  /\ \E s \in walk.todo :
       walk' = [walk EXCEPT !.pc = "props", !.slot = s, !.todo = @ \ {s}]
  /\ Gain({"child"})
  /\ UNCHANGED Rest

LastChild ==
  /\ At("next_child")
  /\ Lose({"child_iter", "agx"}) /\ walk' = [walk EXCEPT !.pc = "next_agx", !.todo = {}]
  /\ UNCHANGED Rest

NextToRead == walk' = [walk EXCEPT !.pc = "next_child", !.slot = 0]

(* The properties parse: the client's pid and GPU time are pushed, while   *)
(* there is room.  The buffer they came in is dropped, then the client.    *)
ReadChild ==
  LET c == clients[walk.slot]
  IN /\ At("props") /\ c # Free
     /\ reads' = IF Len(reads) < walk.room
                   THEN Append(reads, [pid |-> c.pid, ns |-> c.ns, id |-> c.id, since |-> c.since])
                   ELSE reads
     /\ Exchange({"buf"}, {"buf", "child"}) /\ NextToRead
     /\ UNCHANGED <<kernel, prev, prev_reads, entries>>

(* The client is gone, the call fails, or the blob does not parse.         *)
SkipChild ==
  /\ At("props")
  /\ Exchange({"buf"}, {"buf", "child"}) \/ Lose({"child"})
  /\ NextToRead
  /\ UNCHANGED Rest

Least(a, b) == IF a < b THEN a ELSE b

(* Mutant: a counter that fell, or was not there, counts from zero.        *)
PctFromZero(prev_ns, now_ns, dt) ==
  Least(100, ((IF now_ns <= prev_ns THEN now_ns ELSE now_ns - prev_ns) * 100) \div dt)
compute_pct(prev_ns, now_ns, dt) ==
  IF prev_ns = 0 \/ now_ns <= prev_ns \/ dt = 0 THEN 0
  ELSE Least(100, ((now_ns - prev_ns) * 100) \div dt)

PrevNs(pid) == LET i == IndexOf(prev, pid) IN IF i = 0 THEN 0 ELSE prev[i].ns

Freeze ==
  /\ At("freeze")
  /\ LET new_prev == freeze_map(reads, {"ns"})
         rows == [i \in DOMAIN new_prev |->
                    [pid |-> new_prev[i].pid,
                     pct |-> compute_pct(PrevNs(new_prev[i].pid), new_prev[i].ns, walk.dt)]]
     IN /\ entries' = Pushed(rows, {i \in DOMAIN rows : rows[i].pct # 0})
        /\ Goto("done")
  /\ UNCHANGED <<kernel, rights, reads, prev, prev_reads>>

(* replace2 puts the new map in the old one's place.                       *)
Rotate ==
  /\ At("done")
  /\ prev' = freeze_map(reads, {"ns"}) /\ prev_reads' = reads
  /\ reads' = <<>> /\ entries' = <<>>
  /\ walk' = Afresh
  /\ UNCHANGED <<kernel, rights>>

Machine ==
  \/ Compute
  \/ \E s \in Slots : CloseClient(s) \/ \E pid \in GpuPids : OpenClient(s, pid)

Populate == EmptyTick \/ Begin \/ BeginFails \/ NextAgx \/ LastAgx \/ Stats \/ Children
            \/ NoChildren \/ NextChild \/ LastChild \/ ReadChild \/ SkipChild
            \/ Freeze \/ Rotate

AInit(pc) ==
  /\ clock = 0 /\ clients = [s \in Slots |-> Free] /\ opened = 0
  /\ held = [k \in Kinds |-> 0] /\ leaked = held
  /\ \E room \in Rooms : walk = [NoWalk EXCEPT !.pc = pc, !.room = room]
  /\ reads = <<>> /\ prev = <<>> /\ prev_reads = <<>> /\ entries = <<>>

ANext == (~At("off") /\ Machine) \/ Count \/ Populate

ASpec == AInit("init") /\ [][ANext]_avars

----------------------------------------------------------------------------
(* Properties                                                              *)

(* Between ticks, and once the walk is over, the process holds the cached  *)
(* ports, once, and of everything else exactly what the kernel refused to  *)
(* take back, whichever calls have failed on the way.                      *)
RightsBalanced ==
  At("idle") \/ At("freeze") =>
    /\ \A p \in Ports : held[p] <= 1
    /\ \A k \in Kinds \ Ports : held[k] = leaked[k]

Ids(r) == {r[i].id : i \in DOMAIN r}
IdsOf(pid, r) == {r[i].id : i \in {k \in DOMAIN r : r[k].pid = pid}}

(* Every client read for this pid was read last time, or is new since.     *)
Followed(pid) ==
  \A i \in DOMAIN reads :
    reads[i].pid = pid => reads[i].id \in Ids(prev_reads)
                          \/ reads[i].since >= walk.at - walk.dt

(* The last readings of the clients that were read now, too.               *)
Before ==
  [i \in DOMAIN prev_reads |->
     IF prev_reads[i].id \in Ids(reads) THEN prev_reads[i] ELSE [prev_reads[i] EXCEPT !.ns = 0]]

(* What the clients read for this pid used between their two readings.     *)
Used(pid) == SumFor(reads, pid, "ns") - SumFor(Before, pid, "ns")

Shown(pid) == SumFor(entries, pid, "pct")

(* A percentage is what the process used, in a tick that follows another;  *)
(* where a client was closed or could not be read it is less.  It is more  *)
(* only after a tick that missed one of several clients of the process.    *)
(* The map that is kept for the next tick is sorted, without duplicates.   *)
UsageHonest ==
  /\ IsMap(prev)
  /\ At("done") => IsMap(entries) /\ \A pid \in GpuPids :
       LET used == Least(100, (Used(pid) * 100) \div walk.dt)
       IN Followed(pid) =>
            /\ Shown(pid) <= used
            /\ PrevNs(pid) > 0 /\ IdsOf(pid, prev_reads) \subseteq Ids(reads) => Shown(pid) = used

============================================================================
