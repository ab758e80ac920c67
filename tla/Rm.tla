--------------------------------- MODULE Rm ---------------------------------
(***************************************************************************)
(* The NVIDIA backend, src/gpu/rm.rs, and the lookups of src/gpu/mod.rs.   *)
(* init opens the control node and each attached card's own node and gives *)
(* up entirely when one step fails; populate asks every card for its       *)
(* memory, its last utilisation sample and its processes, any of which may *)
(* fail, and freezes what it got into one map by pid.                      *)
(***************************************************************************)
EXTENDS SortMap

CONSTANTS
  Cards,     (* entries of the CARD_INFO reply, some of them not valid    *)
  RmPids,    (* pids the driver reports                                   *)
  MaxPids,   (* NV2080_CTRL_GPU_GET_PID_INFO_MAX_COUNT                    *)
  MaxMib,    (* bound: MiB of one process on one card                     *)
  MaxPct     (* bound: percent of one sample                              *)

ASSUME RmAssumption ==
  /\ RmPids \subseteq Nat \ {0}
  /\ {Cards, MaxPids, MaxMib, MaxPct} \subseteq Nat

VARIABLES
  rpc,       (* off, ctl, cards, open, idle, memory, pids, freeze, done   *)
  fds,       (* descriptors the process holds                             *)
  gpus,      (* the minors of the cards in State                          *)
  attached,  (* minors of the attached cards: CARD_INFO's valid entries   *)
  i,         (* the card in hand                                          *)
  valid,     (* cards whose memory was read, in this tick                 *)
  samples,   (* their samples                                             *)
  buf,       (* gpu/procs/raw                                             *)
  told,      (* for the properties: all that the driver said of pids      *)
  procs      (* the frozen map                                            *)

dvars == <<fds, gpus, attached>>
tvars == <<i, valid, samples, buf, told, procs>>
rvars == <<rpc, dvars, tvars>>

Ctl == -1

RGoto(pc) == rpc' = pc

----------------------------------------------------------------------------
(* init                                                                    *)

(* The control node opens, and the driver has our version.                 *)
OpenCtl ==
  /\ rpc = "ctl"
  /\ fds' = {Ctl} /\ RGoto("cards")
  /\ UNCHANGED <<gpus, attached, tvars>>

(* Whatever fails, the reserve and the guards are dropped: an empty State. *)
GiveUp ==
  /\ rpc \in {"ctl", "cards", "open"}
  /\ fds' = {} /\ gpus' = <<>> /\ RGoto("idle")
  /\ UNCHANGED <<attached, tvars>>

(* attached_gpu_minors: holes are closed up, numbers stay.                 *)
Ascending(list) == \A a, b \in DOMAIN list : a < b => list[a] < list[b]

CardInfo ==
  /\ rpc = "cards"
  /\ \E n \in 0 .. Cards : \E minors \in [1 .. n -> 0 .. Cards - 1] :
       Ascending(minors) /\ attached' = minors
  /\ RGoto("open")
  /\ UNCHANGED <<fds, gpus, tvars>>

(* Mutant: the node is named after the place in the reply.                 *)
ByIndex(n) == n - 1
Minor(n) == attached[n]

OpenCard ==
  LET n == Len(gpus) + 1
  IN /\ rpc = "open" /\ n <= Len(attached)
     /\ fds' = fds \cup {Minor(n)} /\ gpus' = Append(gpus, Minor(n))
     /\ UNCHANGED <<rpc, attached, tvars>>

Opened ==
  /\ rpc = "open" /\ Len(gpus) = Len(attached)
  /\ RGoto("idle")
  /\ UNCHANGED <<dvars, tvars>>

----------------------------------------------------------------------------
(* populate                                                                *)

N == Len(gpus)

RBegin ==
  /\ rpc = "idle" /\ fds # {}
  /\ i' = 1 /\ valid' = {} /\ samples' = <<>> /\ buf' = <<>> /\ told' = <<>> /\ procs' = <<>>
  /\ RGoto("memory")
  /\ UNCHANGED dvars

Row(pid, sm_pct, mem_mib) == [pid |-> pid, sm_pct |-> sm_pct, mem_mib |-> mem_mib]

(* FB_GET_INFO and the samples of one card; a sample may name no process,  *)
(* or fail.                                                                *)
Sampled(rows) ==
  /\ rpc = "memory" /\ i <= N
  /\ valid' = valid \cup {i}
  /\ samples' = samples \o rows /\ told' = told \o rows
  /\ i' = i + 1
  /\ UNCHANGED <<rpc, dvars, buf, procs>>

(* The memory is not told: the card is left out of this tick.              *)
NoMemory ==
  /\ rpc = "memory" /\ i <= N
  /\ i' = i + 1
  /\ UNCHANGED <<rpc, dvars, valid, samples, buf, told, procs>>

Room == Cardinality(valid) * (1 + MaxPids)

PushAll(s, rows) == SubSeq(s \o rows, 1, IF Len(s \o rows) < Room THEN Len(s \o rows) ELSE Room)

(* Phase 2: the samples go in first.                                       *)
Stage ==
  /\ rpc = "memory" /\ i > N
  /\ buf' = PushAll(<<>>, samples)
  /\ i' = 1 /\ RGoto("pids")
  /\ UNCHANGED <<dvars, valid, samples, told, procs>>

(* GET_PIDS and GET_PID_INFO: at most MaxPids of the pids, of which those  *)
(* with a MiB are entered.                                                 *)
Reported(rows) == Pushed(rows, {k \in DOMAIN rows : rows[k].mem_mib > 0})

Processes(rows) ==
  /\ rpc = "pids" /\ i \in valid
  /\ buf' = PushAll(buf, Reported(rows)) /\ told' = told \o rows
  /\ i' = i + 1
  /\ UNCHANGED <<rpc, dvars, valid, samples, procs>>

(* A card without memory, or whose processes are not told.                 *)
NoProcesses ==
  /\ rpc = "pids" /\ i <= N
  /\ i' = i + 1
  /\ UNCHANGED <<rpc, dvars, valid, samples, buf, told, procs>>

RFreeze ==
  /\ rpc = "pids" /\ i > N
  /\ procs' = freeze_map(buf, {"mem_mib", "sm_pct"})
  /\ RGoto("done")
  /\ UNCHANGED <<dvars, i, valid, samples, buf, told>>

REnd ==
  /\ rpc = "done"
  /\ i' = 1 /\ valid' = {} /\ samples' = <<>> /\ buf' = <<>> /\ told' = <<>> /\ procs' = <<>>
  /\ RGoto("idle")
  /\ UNCHANGED dvars

(* GpuInfo::usage: a row for a process with memory.                        *)
usage(pid) ==
  LET n == IndexOf(procs, pid)
  IN IF n = 0 \/ procs[n].mem_mib = 0 THEN <<>> ELSE <<procs[n]>>

Samples == {<<>>} \cup {<<Row(pid, pct, 0)>> : pid \in RmPids, pct \in 0 .. MaxPct}

(* A card's answer: some pids, each once, in any order.                    *)
Lists ==
  UNION {{[k \in 1 .. n |-> Row(order[k], 0, mib[k])] :
            order \in {o \in [1 .. n -> RmPids] : \A a, b \in 1 .. n : a # b => o[a] # o[b]},
            mib \in [1 .. n -> 0 .. MaxMib]} : n \in 0 .. MaxPids}

RInit(pc) ==
  /\ rpc = pc /\ fds = {} /\ gpus = <<>> /\ attached = <<>>
  /\ i = 1 /\ valid = {} /\ samples = <<>> /\ buf = <<>> /\ told = <<>> /\ procs = <<>>

RNext ==
  \/ OpenCtl \/ GiveUp \/ CardInfo \/ OpenCard \/ Opened
  \/ RBegin \/ (\E rows \in Samples : Sampled(rows)) \/ NoMemory \/ Stage
  \/ (\E rows \in Lists : Processes(rows)) \/ NoProcesses \/ RFreeze \/ REnd

RSpec == RInit("ctl") /\ [][RNext]_rvars

----------------------------------------------------------------------------
(* Properties                                                              *)

(* The map shows of a process the memory and the load of all cards added   *)
(* up, whichever cards failed: nothing the driver said of a pid is lost to *)
(* the capacity, the sort or the merge, and no pid comes twice.            *)
TableExact ==
  rpc = "done" =>
    /\ IsMap(procs)
    /\ \A pid \in RmPids :
         LET mem == SumFor(told, pid, "mem_mib")
         IN usage(pid) = IF mem = 0 THEN <<>>
                         ELSE <<Row(pid, SumFor(told, pid, "sm_pct"), mem)>>

(* The descriptors held are those of the State: the control node and the   *)
(* attached cards' own nodes, or none at all after a failure.              *)
FdsOwned ==
  rpc = "idle" =>
    fds = IF fds = {} THEN {} ELSE {Ctl} \cup Range(attached)

============================================================================
