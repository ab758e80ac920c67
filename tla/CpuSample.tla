----------------------------- MODULE CpuSample -----------------------------
(***************************************************************************)
(* CPU sampling from tick to tick, src/main.rs: collect_procs lists the    *)
(* processes and then reads one after the other, in one file each on Linux *)
(* and by two calls each on macOS, while they fork, run and exit around    *)
(* it; compute_cpu turns two cumulative counters into a reading; Packed    *)
(* keeps the counter's low bits and the shown bit of each pid for the next *)
(* tick; retain_in_place sets the shown bits.                              *)
(*                                                                         *)
(* Time runs in clock ticks since boot, Sec of them in a second.  A        *)
(* reading is the counter delta; the percentage is delta / dt.             *)
(***************************************************************************)
EXTENDS Integers, Sequences, FiniteSets, SequencesExt

CONSTANTS
  Systems,   (* of linux and macos                                        *)
  Pids,      (* the pids that processes get                               *)
  Sec,       (* clock ticks per second                                    *)
  Modulus,   (* 2^31 : Packed keeps this many values of the counter       *)
  Grain,     (* 2^SHIFT                                                   *)
  Rate,      (* cores: what one process can accrue in one clock tick      *)
  Flaky,     (* stat reads of a live process may fail                     *)
  MaxTime,   (* bound: clock ticks                                        *)
  MaxGen     (* bound: processes that get the same pid, one after another *)

ASSUME CpuAssumption ==
  /\ Systems \subseteq {"linux", "macos"}
  /\ Pids \subseteq Nat \ {0} /\ IsFiniteSet(Pids)
  /\ {Sec, Modulus, Grain} \subseteq Nat \ {0}
  /\ {Rate, MaxTime, MaxGen} \subseteq Nat
  /\ Flaky \in BOOLEAN

VARIABLES
  now,       (* the clock                                                 *)
  proc,      (* pid -> its process: gen (0 when dead), born, total        *)
  gen,       (* pid -> processes that have had it                         *)
  phase,     (* wall clock at boot, in clock ticks past a whole second    *)
  boot,      (* boot_time(): whole seconds                                *)
  os,        (* the system ltop was built for                             *)
  prev,      (* pid -> entry of the previous tick                         *)
  prev_tick_time,
  tick,      (* the running tick: its clocks, stage, the row i to be read *)
  procs,     (* rows of this tick, in scan order                          *)
  next,      (* entries of this tick, pushed in lockstep with procs       *)
  shown      (* pids on the screen since the last tick                    *)

world == <<proc, gen, phase, boot, os>>
vars  == <<now, world, prev, prev_tick_time, tick, procs, next, shown>>

(* An entry of prev: the packed bits and flag, and, for the properties,    *)
(* which process was read (0: none, the placeholder) and its counter then. *)
Absent == [pid |-> 0, bits |-> 0, vis |-> FALSE, of |-> 0, total |-> 0]

Dead == [gen |-> 0, born |-> 0, total |-> 0]

Idle == [at |-> 0, wall_now |-> 0, dt |-> 0, i |-> 0, stage |-> "idle"]

----------------------------------------------------------------------------
(* The machine                                                             *)

(* One clock tick, in which each process accrues what it likes.            *)
Elapse ==
  /\ now < MaxTime
  /\ now' = now + 1
  /\ \E used \in [Pids -> 0 .. Rate] :
       proc' = [p \in Pids |-> IF proc[p].gen = 0 THEN proc[p]
                               ELSE [proc[p] EXCEPT !.total = @ + used[p]]]
  /\ UNCHANGED <<gen, phase, boot, os, prev, prev_tick_time, tick, procs, next, shown>>

Fork(p) ==
  /\ proc[p].gen = 0 /\ gen[p] < MaxGen
  /\ gen' = [gen EXCEPT ![p] = @ + 1]
  /\ proc' = [proc EXCEPT ![p] = [gen |-> gen[p] + 1, born |-> now, total |-> 0]]
  /\ UNCHANGED <<now, phase, boot, os, prev, prev_tick_time, tick, procs, next, shown>>

Exit(p) ==
  /\ proc[p].gen # 0
  /\ proc' = [proc EXCEPT ![p] = Dead]
  /\ UNCHANGED <<now, gen, phase, boot, os, prev, prev_tick_time, tick, procs, next, shown>>

----------------------------------------------------------------------------
(* The tick                                                                *)

(* A process listed but not read yet.                                      *)
Stub(p) == [pid |-> p, stat |-> FALSE, reading |-> 0, of |-> 0, total |-> 0, age |-> 0,
            aged |-> 0]

(* The clocks are read and the processes are listed, in whatever order the *)
(* system has them.                                                        *)
BeginTick ==
  /\ tick.stage = "idle"
  /\ tick' = [at |-> now, wall_now |-> (phase + now) \div Sec,
              dt |-> now - prev_tick_time, i |-> 1, stage |-> "scan"]
  /\ \E order \in SetToSeqs({p \in Pids : proc[p].gen # 0}) :
       procs' = [n \in DOMAIN order |-> Stub(order[n])]
  /\ next' = <<>>
  /\ UNCHANGED <<now, world, prev, prev_tick_time, shown>>

(* Packed::new.  Mutant: the mask is forgotten.                            *)
BitsFull(total) == total \div Grain
Bits(total) == (total \div Grain) % Modulus

(* age_secs: on Linux three clocks, each cut to whole seconds.             *)
AgeSecs(born) ==
  LET start_epoch == IF os = "linux" THEN boot + born \div Sec ELSE (phase + born) \div Sec
  IN IF tick.wall_now > start_epoch THEN tick.wall_now - start_epoch ELSE 0

(* Mutant of Delta: saturating_sub in place of the masked wrapping_sub.    *)
DeltaSaturating(new, old) == IF new > old THEN (new - old) * Grain ELSE 0
Delta(new, old) == ((new - old) % Modulus) * Grain

(* compute_cpu; a clock tick is more than its 0.01 s.                      *)
Suppressed(age_secs) == tick.dt = 0 \/ age_secs * Sec < tick.dt
compute_cpu(p, age_secs, total) ==
  IF Suppressed(age_secs) \/ prev[p] = Absent THEN 0
  ELSE Delta(Bits(total), prev[p].bits)

Entry(p, bits, of, total) ==
  [pid |-> p, bits |-> bits, vis |-> FALSE, of |-> of, total |-> total]

I == tick.i

Scanning == tick.stage = "scan"

NextRow == tick' = [tick EXCEPT !.i = I + 1]

(* A failed stat leaves the stub and the placeholder.  Mutant: the         *)
(* placeholder is pushed only once the read has succeeded.                 *)
Skip(p) == <<>>
Placeholder(p) == <<Entry(p, 0, 0, 0)>>

StatFails ==
  /\ Scanning /\ I <= Len(procs)
  /\ Flaky \/ proc[procs[I].pid].gen = 0
  /\ next' = next \o Placeholder(procs[I].pid)
  /\ NextRow
  /\ UNCHANGED <<now, world, prev, prev_tick_time, procs, shown>>

Stat ==
  /\ Scanning /\ I <= Len(procs) /\ os = "linux"
  /\ LET p == procs[I].pid
         q == proc[p]
     IN /\ q.gen # 0
        /\ next' = Append(next, Entry(p, Bits(q.total), q.gen, q.total))
        /\ procs' = [procs EXCEPT ![I] =
             [pid |-> p, stat |-> TRUE, of |-> q.gen, total |-> q.total,
              reading |-> compute_cpu(p, AgeSecs(q.born), q.total),
              age |-> tick.at - q.born, aged |-> q.gen]]
  /\ NextRow
  /\ UNCHANGED <<now, world, prev, prev_tick_time, shown>>

(* macOS: PROC_PIDTASKINFO tells the times.                                *)
ReadTimes ==
  /\ Scanning /\ I <= Len(procs) /\ os = "macos"
  /\ LET p == procs[I].pid
         q == proc[p]
     IN /\ q.gen # 0
        /\ next' = Append(next, Entry(p, Bits(q.total), q.gen, q.total))
        /\ procs' = [procs EXCEPT ![I] =
             [@ EXCEPT !.stat = TRUE, !.of = q.gen, !.total = q.total,
                       !.age = tick.at - q.born]]
  /\ tick' = [tick EXCEPT !.stage = "times"]
  /\ UNCHANGED <<now, world, prev, prev_tick_time, shown>>

(* macos_proc_age_ppid: PROC_PIDTBSDINFO tells when the process that has   *)
(* the pid by now was started; an age of 0 when there is none.             *)
ReadAge ==
  /\ tick.stage = "times"
  /\ LET p == procs[I].pid
         age_secs == IF proc[p].gen = 0 THEN 0 ELSE AgeSecs(proc[p].born)
     IN procs' = [procs EXCEPT ![I] =
          [@ EXCEPT !.reading = compute_cpu(p, age_secs, procs[I].total),
                    !.aged = proc[p].gen]]
  /\ tick' = [tick EXCEPT !.stage = "scan", !.i = I + 1]
  /\ UNCHANGED <<now, world, prev, prev_tick_time, next, shown>>

(* The indices of the rows that are kept, in order.                        *)
Retained ==
  {kept \in UNION {[1 .. k -> DOMAIN procs] : k \in 0 .. Len(procs)} :
     \A m, n \in DOMAIN kept : m < n => kept[m] < kept[n]}

(* filter_with_children keeps some rows and sets their bit in next.        *)
Filter ==
  /\ Scanning /\ I > Len(procs)
  /\ \E kept \in Retained :
       /\ next' = [i \in DOMAIN next |-> [next[i] EXCEPT !.vis = i \in Range(kept)]]
       /\ procs' = [n \in DOMAIN kept |-> procs[kept[n]]]
  /\ tick' = [tick EXCEPT !.stage = "filtered"]
  /\ UNCHANGED <<now, world, prev, prev_tick_time, shown>>

(* The frame is written, and next, sorted by pid, becomes prev.            *)
EndTick ==
  /\ tick.stage = "filtered"
  /\ shown' = {procs[i].pid : i \in DOMAIN procs}
  /\ prev' = [p \in Pids |->
                IF \E i \in DOMAIN next : next[i].pid = p
                  THEN next[CHOOSE i \in DOMAIN next : next[i].pid = p]
                  ELSE Absent]
  /\ prev_tick_time' = tick.at
  /\ tick' = Idle /\ procs' = <<>> /\ next' = <<>>
  /\ UNCHANGED <<now, world>>

----------------------------------------------------------------------------
(* ltop starts in the first second after boot.                             *)
Init ==
  /\ now \in 0 .. Sec - 1 /\ phase \in 0 .. Sec - 1
  /\ boot = (phase + now) \div Sec - now \div Sec /\ os \in Systems
  /\ proc = [p \in Pids |-> Dead] /\ gen = [p \in Pids |-> 0]
  /\ prev = [p \in Pids |-> Absent] /\ prev_tick_time = now
  /\ tick = Idle /\ procs = <<>> /\ next = <<>> /\ shown = {}

Machine == Elapse \/ (\E p \in Pids : Fork(p)) \/ (\E p \in Pids : Exit(p))

Next == Machine \/ BeginTick \/ StatFails \/ Stat \/ ReadTimes \/ ReadAge \/ Filter \/ EndTick

Spec == Init /\ [][Next]_vars

----------------------------------------------------------------------------
(* Properties                                                              *)

Row   == [pid : Pids, stat : BOOLEAN, reading : Nat, of : Nat, total : Nat, age : Int,
          aged : Nat]
Kept  == [pid : Pids \cup {0}, bits : 0 .. Modulus - 1, vis : BOOLEAN, of : Nat, total : Nat]

(* Types, that a kept counter has 31 bits and that no clock runs ahead.    *)
TypeOK ==
  /\ now \in Nat /\ phase \in 0 .. Sec - 1 /\ boot \in 0 .. 1 /\ os \in Systems
  /\ proc \in [Pids -> [gen : Nat, born : 0 .. now, total : Nat]] /\ gen \in [Pids -> Nat]
  /\ prev \in [Pids -> Kept] /\ prev_tick_time \in 0 .. now
  /\ tick \in [at : 0 .. now, wall_now : Nat, dt : Nat, i : Nat,
                stage : {"idle", "scan", "times", "filtered"}]
  /\ procs \in Seq(Row) /\ next \in Seq(Kept) /\ shown \subseteq Pids

(* The previous sample of row r's pid was of the very process in row r.    *)
SameProcess(r) == r.stat /\ prev[r.pid].of = r.of

(* A process seen last tick and two seconds older than the interval is     *)
(* never suppressed, and its reading is what it accrued since, up to the   *)
(* grain, although the kept counter has wrapped and ages come from three   *)
(* clocks that are cut to whole seconds.  Where the times and the age are  *)
(* of different processes there is no reading.                             *)
Settled(r) ==
  LET q == prev[r.pid]
      accrued == (r.total \div Grain - q.total \div Grain) * Grain
  IN /\ r.aged # r.of => r.reading = 0
     /\ SameProcess(r) /\ r.aged = r.of /\ tick.dt > 0 /\ r.age >= tick.dt + 2 * Sec
          /\ r.total - q.total < (Modulus - 1) * Grain
          => r.reading = accrued

(* Every row of the frame is settled so, whichever rows the filter kept.   *)
SettledExact == \A i \in DOMAIN procs : Settled(procs[i])

(* The filter matches rows and entries by index: whatever fails in         *)
(* between, the entries pushed so far are those of the first rows, and the *)
(* bit that decides which threshold a row gets next time is the one of its *)
(* own pid, set exactly for the pids on the screen since the last tick.    *)
Lockstep ==
  /\ Scanning => \A i \in DOMAIN next : next[i].pid = procs[i].pid
  /\ \A p \in Pids : prev[p].vis <=> p \in shown

(* compute_cpu's comment: the age test "catches every reuse".  A reading   *)
(* is never taken against another process's counter.                       *)
ReuseCaught ==
  \A i \in DOMAIN procs :
    procs[i].stat /\ prev[procs[i].pid].of # 0 /\ procs[i].reading > 0
      => SameProcess(procs[i])

----------------------------------------------------------------------------
(* The strengthening that makes SettledExact and Lockstep inductive        *)

(* A kept counter is that of a process that exists or existed, and has not *)
(* run backwards since.                                                    *)
Sound(e) ==
  /\ e.bits = Bits(e.total)
  /\ e.pid # 0 => /\ e.of <= gen[e.pid]
                  /\ e.of # 0 /\ e.of = proc[e.pid].gen => e.total <= proc[e.pid].total

(* A pid's processes are numbered, and each entry is of its own pid.       *)
CountersAt ==
  /\ \A p \in Pids : proc[p].gen \in {0, gen[p]}
  /\ \A p \in Pids : prev[p] = Absent \/ prev[p].pid = p
  /\ \A p \in Pids : Sound(prev[p]) /\ (prev[p].vis <=> p \in shown)
  /\ \A i \in DOMAIN next : Sound(next[i])

(* Entries follow rows one by one until the filter, and after it have the  *)
(* bit exactly where the row is still there.                               *)
ScanAt ==
  /\ tick.stage = "idle" => procs = <<>> /\ next = <<>>
  /\ tick.stage # "idle" => tick.wall_now = (phase + tick.at) \div Sec
  /\ \A i, j \in DOMAIN procs : procs[i].pid = procs[j].pid => i = j
  /\ tick.stage = "scan" =>
       /\ I \in 1 .. Len(procs) + 1 /\ Len(next) = I - 1
       /\ \A i \in DOMAIN procs : I <= i => procs[i] = Stub(procs[i].pid)
  /\ tick.stage = "times" =>
       /\ I \in 1 .. Len(procs) /\ Len(next) = I
       /\ \A i \in DOMAIN procs : I < i => procs[i] = Stub(procs[i].pid)
  /\ tick.stage \in {"scan", "times"} =>
       \A i \in DOMAIN next : next[i].pid = procs[i].pid /\ ~next[i].vis
  /\ tick.stage = "filtered" =>
       /\ \A i, j \in DOMAIN next : next[i].pid = next[j].pid => i = j
       /\ \A n \in DOMAIN procs : \E i \in DOMAIN next : next[i].pid = procs[n].pid
       /\ \A i \in DOMAIN next :
            next[i].pid # 0 /\ (next[i].vis <=> \E n \in DOMAIN procs : procs[n].pid = next[i].pid)

(* Between the two calls of macOS the process may exit, and its pid go to  *)
(* one that is younger than the tick.                                      *)
TimesAt ==
  tick.stage = "times" =>
    LET r == procs[I]
        q == proc[r.pid]
    IN /\ os = "macos" /\ r.reading = 0 /\ r.aged = 0 /\ r.of \in 1 .. gen[r.pid]
       /\ q.gen = r.of => r.age = tick.at - q.born
       /\ q.gen \notin {0, r.of} => tick.at <= q.born
       /\ prev[r.pid].of = r.of => prev[r.pid].total <= r.total

(* The inductive invariant of sampling.                                    *)
CpuInv == TypeOK /\ CountersAt /\ ScanAt /\ TimesAt /\ SettledExact

============================================================================
