--------------------------- MODULE SamplingProofs --------------------------
(***************************************************************************)
(* Sampling, for every set of pids, clock rate, counter width and number   *)
(* of cores: entries stay in step with rows, and the reading of a settled  *)
(* process is what it accrued.  CpuInv is inductive; the arithmetic of     *)
(* cut clocks and wrapped counters is in the first section.  Labels, for   *)
(* every set of writers and buffer size, are laid over it: LabelsInv.      *)
(***************************************************************************)
EXTENDS Labels, TLAPS, FiniteSetTheorems, SequenceTheorems

----------------------------------------------------------------------------
(* Cut clocks and wrapped counters                                         *)

(* Division rounds down.                                                   *)
LEMMA DivFacts ==
  ASSUME NEW x \in Int, NEW n \in Nat \ {0}
  PROVE  /\ x \div n \in Int /\ x % n \in 0 .. n - 1
         /\ n * (x \div n) <= x /\ x < n * (x \div n) + n
         /\ x % n = x - n * (x \div n)
         /\ (x \in Nat => x \div n \in Nat)
OBVIOUS

(* A remainder is known by any quotient.                                   *)
LEMMA ModIs ==
  ASSUME NEW n \in Nat \ {0}, NEW q \in Int, NEW r \in 0 .. n - 1
  PROVE  (n * q + r) % n = r /\ (n * q + r) \div n = q
OBVIOUS

(* Multiples of n that are less than one multiple apart.                   *)
LEMMA MulLess ==
  ASSUME NEW d \in Int, NEW c \in Int, NEW n \in Nat \ {0}, n * d < n * c
  PROVE  d < c
OBVIOUS

(* Multiples of a natural number are in order.                             *)
LEMMA MulLeq ==
  ASSUME NEW d \in Int, NEW c \in Int, NEW n \in Nat, d <= c
  PROVE  n * d <= n * c
<1>1. n * (c - d) \in Nat
  <2>1. ASSUME NEW e \in Nat PROVE n * e \in Nat
    OBVIOUS
  <2> QED BY <2>1
<1>2. n * c = n * d + n * (c - d)
  OBVIOUS
<1>3. n * d \in Int /\ n * c \in Int
  OBVIOUS
<1> QED BY <1>1, <1>2, <1>3

(* The masked difference of two masked counters is their difference as     *)
(* long as that fits the mask, wherever the counter wraps.                 *)
LEMMA MaskedDifference ==
  ASSUME NEW x \in Int, NEW y \in Int, NEW m \in Nat \ {0}, 0 <= x - y, x - y < m
  PROVE  ((x % m) - (y % m)) % m = x - y
<1> DEFINE a == x \div m
           b == y \div m
           d == x - y
<1>1. /\ a \in Int /\ b \in Int /\ x % m = x - m * a /\ y % m = y - m * b
      /\ d \in 0 .. m - 1
  BY DivFacts
<1>2. (x % m) - (y % m) = m * (b - a) + d
  <2>1. m * (b - a) = m * b - m * a /\ m * a \in Int /\ m * b \in Int
    BY <1>1
  <2> HIDE DEF a, b
  <2> QED BY <1>1, <2>1
<1> HIDE DEF a, b, d
<1>3. b - a \in Int
  BY <1>1
<1>4. (m * (b - a) + d) % m = d
  BY <1>1, <1>3, ModIs
<1> QED BY <1>2, <1>4 DEF d

(* Counters less than m - 1 grains apart are less than m apart in grains.  *)
LEMMA GrainsApart ==
  ASSUME NEW s \in Nat, NEW t \in Nat, NEW g \in Nat \ {0}, NEW m \in Nat \ {0},
         t <= s, s - t < (m - 1) * g
  PROVE  0 <= (s \div g) - (t \div g) /\ (s \div g) - (t \div g) < m
<1> DEFINE x == s \div g
           y == t \div g
<1>1. /\ x \in Int /\ y \in Int /\ g * x <= s /\ s < g * x + g
      /\ g * y <= t /\ t < g * y + g
  BY DivFacts
<1>2. g * x \in Int /\ g * y \in Int /\ (m - 1) * g = g * (m - 1) /\ g * (m - 1) \in Int
  BY <1>1
<1> HIDE DEF x, y
<1>3. y < x + 1
  <2>1. g * y < g * x + g
    BY <1>1, <1>2
  <2>2. g * (x + 1) = g * x + g
    BY <1>1
  <2> QED BY <1>1, <2>1, <2>2, MulLess
<1>4. x < y + m
  <2>1. g * x < g * y + g + g * (m - 1)
    BY <1>1, <1>2
  <2>2. g * (y + m) = g * y + g + g * (m - 1)
    BY <1>1
  <2> QED BY <1>1, <2>1, <2>2, MulLess
<1> QED BY <1>1, <1>3, <1>4 DEF x, y

(* What the assumptions say of single constants.                           *)
LEMMA Constants ==
  /\ Sec \in Nat \ {0} /\ Modulus \in Nat \ {0} /\ Grain \in Nat \ {0}
  /\ Systems \subseteq {"linux", "macos"} /\ Pids \subseteq Nat /\ 0 \notin Pids
BY CpuAssumption

(* A packed counter has its mask's bits.                                   *)
LEMMA BitsFacts ==
  ASSUME NEW t \in Nat
  PROVE  Bits(t) \in 0 .. Modulus - 1
<1>1. t \div Grain \in Int
  BY Constants, DivFacts
<1> QED BY <1>1, Constants, DivFacts DEF Bits

(* The bits of two samples tell how many grains lie between them.          *)
LEMMA DeltaExact ==
  ASSUME NEW s \in Nat, NEW t \in Nat, t <= s, s - t < (Modulus - 1) * Grain
  PROVE  Delta(Bits(s), Bits(t)) = (s \div Grain - t \div Grain) * Grain
<1> USE Constants
<1>1. s \div Grain \in Int /\ t \div Grain \in Int
  BY DivFacts
<1>2. 0 <= s \div Grain - t \div Grain /\ s \div Grain - t \div Grain < Modulus
  BY GrainsApart
<1>3. (Bits(s) - Bits(t)) % Modulus = s \div Grain - t \div Grain
  BY <1>1, <1>2, MaskedDifference DEF Bits
<1> QED BY <1>3 DEF Delta

(* A reading is a natural number.                                          *)
LEMMA ReadingType ==
  ASSUME NEW p \in Pids, NEW a, NEW t \in Nat, prev \in [Pids -> Kept]
  PROVE  compute_cpu(p, a, t) \in Nat
<1> USE Constants
<1>1. Bits(t) \in Int /\ prev[p].bits \in Int
  BY BitsFacts DEF Kept
<1>a. Bits(t) - prev[p].bits \in Int
  BY <1>1
<1>2. (Bits(t) - prev[p].bits) % Modulus \in Nat
  BY <1>a, DivFacts
<1>3. Delta(Bits(t), prev[p].bits) \in Nat
  BY <1>2 DEF Delta
<1> QED BY <1>3 DEF compute_cpu

(* Three clocks cut to whole seconds take less than two seconds off an age.*)
LEMMA AgeLoss ==
  ASSUME NEW at \in Nat, NEW born \in Nat, NEW age \in Nat, NEW ph \in Nat, NEW b \in 0 .. 1,
         NEW s \in Nat \ {0}, born + age = at
  PROVE  /\ age < s * ((ph + at) \div s - (b + born \div s)) + 2 * s
         /\ age < s * ((ph + at) \div s - ((ph + born) \div s)) + 2 * s
<1> DEFINE w == (ph + at) \div s
           k == born \div s
           v == (ph + born) \div s
<1>1. /\ w \in Int /\ s * w <= ph + at /\ ph + at < s * w + s
      /\ k \in Int /\ s * k <= born /\ v \in Int /\ s * v <= ph + born
  BY DivFacts
<1>2. s * b \in Int /\ s * b <= s
  <2>1. CASE b = 0
    BY <2>1
  <2>2. CASE b = 1
    BY <2>2
  <2> QED BY <2>1, <2>2
<1> HIDE DEF w, k, v
<1>3. s * w \in Int /\ s * k \in Int /\ s * v \in Int
  BY <1>1
<1>4. s * (w - (b + k)) = s * w - s * b - s * k /\ s * (w - v) = s * w - s * v
  BY <1>1
<1>5. age < (s * w - s * b - s * k) + 2 * s
  BY <1>1, <1>2, <1>3
<1>6. age < (s * w - s * v) + 2 * s
  BY <1>1, <1>3
<1> QED BY <1>4, <1>5, <1>6 DEF w, k, v

(* A process two seconds older than the interval is never suppressed.      *)
LEMMA NotSuppressed ==
  ASSUME TypeOK, tick.wall_now = (phase + tick.at) \div Sec,
         NEW born \in Nat, NEW age \in Nat, born + age = tick.at, age >= tick.dt + 2 * Sec,
         tick.dt > 0
  PROVE  ~Suppressed(AgeSecs(born))
<1> USE Constants
<1>1. /\ tick.at \in Nat /\ tick.dt \in Nat /\ phase \in Nat /\ boot \in 0 .. 1
      /\ tick.wall_now \in Nat
  BY DEF TypeOK
<1> DEFINE start == IF os = "linux" THEN boot + born \div Sec ELSE (phase + born) \div Sec
           secs == IF tick.wall_now > start THEN tick.wall_now - start ELSE 0
<1>2. secs = AgeSecs(born)
  BY DEF AgeSecs
<1>3. born \div Sec \in Int /\ (phase + born) \div Sec \in Int
  <2>1. born \in Int /\ phase + born \in Int
    BY <1>1
  <2> QED BY <2>1, DivFacts
<1>4. start \in Int
  BY <1>1, <1>3
<1>5. age < Sec * (tick.wall_now - start) + 2 * Sec
  BY <1>1, AgeLoss
<1> HIDE DEF start
<1>6. secs \in Nat /\ tick.wall_now - start <= secs /\ tick.wall_now - start \in Int
  BY <1>1, <1>4
<1> HIDE DEF secs
<1>7. Sec * (tick.wall_now - start) <= Sec * secs
  BY <1>6, MulLeq
<1>8. Sec * (tick.wall_now - start) \in Int /\ Sec * secs \in Int /\ secs * Sec = Sec * secs
  BY <1>6
<1>9. tick.dt < secs * Sec
  BY <1>1, <1>5, <1>7, <1>8
<1> QED BY <1>1, <1>2, <1>8, <1>9 DEF Suppressed

(* One that is younger than the tick always is, on macOS.                  *)
LEMMA YoungSuppressed ==
  ASSUME TypeOK, tick.wall_now = (phase + tick.at) \div Sec, os = "macos",
         NEW born \in Nat, tick.at <= born
  PROVE  Suppressed(AgeSecs(born))
<1> USE Constants
<1> DEFINE w == (phase + tick.at) \div Sec
           v == (phase + born) \div Sec
<1>1. tick.at \in Nat /\ tick.dt \in Nat /\ phase \in Nat
  BY DEF TypeOK
<1>2. /\ w \in Int /\ Sec * w <= phase + tick.at
      /\ v \in Int /\ phase + born < Sec * v + Sec
  <2>1. phase + tick.at \in Int /\ phase + born \in Int
    BY <1>1
  <2> QED BY <2>1, DivFacts
<1>3. w = tick.wall_now /\ AgeSecs(born) = IF w > v THEN w - v ELSE 0
  BY DEF AgeSecs
<1> HIDE DEF w, v
<1>4. Sec * w < Sec * (v + 1)
  <2>1. Sec * (v + 1) = Sec * v + Sec /\ Sec * v \in Int /\ Sec * w \in Int
    BY <1>2
  <2> QED BY <1>1, <1>2, <2>1
<1>5. w < v + 1
  BY <1>2, <1>4, MulLess
<1>6. AgeSecs(born) = 0
  BY <1>2, <1>3, <1>5
<1> QED BY <1>1, <1>6 DEF Suppressed

(* A row read from one process, whose sample of last tick, if any, was no  *)
(* further than this one, satisfies Settled.                               *)
LEMMA RowSettled ==
  ASSUME TypeOK, tick.wall_now = (phase + tick.at) \div Sec, NEW r \in Row,
         NEW born \in Nat, r.reading = compute_cpu(r.pid, AgeSecs(born), r.total),
         r.aged = r.of, r.of # 0, r.age = tick.at - born,
         prev[r.pid].bits = Bits(prev[r.pid].total),
         prev[r.pid].of = r.of => prev[r.pid].total <= r.total
  PROVE  Settled(r)
<1> DEFINE q == prev[r.pid]
<1> SUFFICES ASSUME SameProcess(r), tick.dt > 0, r.age >= tick.dt + 2 * Sec,
                    r.total - q.total < (Modulus - 1) * Grain
             PROVE  r.reading = (r.total \div Grain - q.total \div Grain) * Grain
  BY DEF Settled
<1>1. /\ q \in Kept /\ q.total \in Nat /\ r.total \in Nat /\ r.age \in Int /\ q.of = r.of
      /\ tick.at \in Nat /\ tick.dt \in Nat
  BY DEF TypeOK, Kept, Row, SameProcess
<1>2. q # Absent
  BY <1>1 DEF Absent
<1>3. r.age \in Nat /\ born + r.age = tick.at
  BY <1>1, Constants
<1>4. ~Suppressed(AgeSecs(born))
  BY <1>3, NotSuppressed
<1>5. r.reading = Delta(Bits(r.total), Bits(q.total))
  BY <1>2, <1>4 DEF compute_cpu
<1> QED BY <1>1, <1>5, DeltaExact

(* A row whose age came from no process or a younger one has no reading.   *)
LEMMA OtherSuppressed ==
  ASSUME NEW p, NEW t, NEW a, Suppressed(a)
  PROVE  compute_cpu(p, a, t) = 0
BY DEF compute_cpu

(* An age of no process suppresses the reading.                            *)
LEMMA NobodySuppressed ==
  ASSUME TypeOK
  PROVE  Suppressed(0)
<1>1. tick.dt \in Nat
  BY DEF TypeOK
<1> QED BY <1>1, Constants DEF Suppressed

----------------------------------------------------------------------------
(* The machine                                                             *)

(* What the typing of a sampling state gives.                              *)
LEMMA CpuTypes ==
  ASSUME TypeOK
  PROVE  /\ now \in Nat /\ tick.at \in Nat /\ tick.at <= now /\ tick.dt \in Nat /\ I \in Nat
         /\ tick.stage \in {"idle", "scan", "times", "filtered"}
         /\ Len(procs) \in Nat /\ DOMAIN procs = 1 .. Len(procs)
         /\ Len(next) \in Nat /\ DOMAIN next = 1 .. Len(next)
         /\ \A i \in DOMAIN procs : procs[i] \in Row /\ procs[i].pid \in Pids
         /\ \A i \in DOMAIN next : next[i] \in Kept
         /\ \A p \in Pids : /\ proc[p].gen \in Nat /\ proc[p].born \in Nat
                            /\ proc[p].total \in Nat /\ gen[p] \in Nat /\ prev[p] \in Kept
<1>1. /\ now \in Nat /\ tick.at \in Nat /\ tick.at <= now /\ tick.dt \in Nat /\ I \in Nat
      /\ tick.stage \in {"idle", "scan", "times", "filtered"}
  BY DEF TypeOK, I
<1>2. /\ Len(procs) \in Nat /\ DOMAIN procs = 1 .. Len(procs)
      /\ Len(next) \in Nat /\ DOMAIN next = 1 .. Len(next)
      /\ \A i \in DOMAIN procs : procs[i] \in Row
      /\ \A i \in DOMAIN next : next[i] \in Kept
  BY DEF TypeOK
<1>3. \A i \in DOMAIN procs : procs[i].pid \in Pids
  BY <1>2 DEF Row
<1>4. \A p \in Pids : /\ proc[p].gen \in Nat /\ proc[p].born \in Nat
                       /\ proc[p].total \in Nat /\ gen[p] \in Nat /\ prev[p] \in Kept
  <2>1. \A p \in Pids : proc[p] \in [gen : Nat, born : 0 .. now, total : Nat]
    BY DEF TypeOK
  <2> QED BY <1>1, <2>1 DEF TypeOK
<1> QED BY <1>1, <1>2, <1>3, <1>4

(* Whatever the processes do during a tick: their counters and generations *)
(* only grow, and a new process is younger than the tick.                  *)
LEMMA WorldMoves ==
  ASSUME CpuInv, TypeOK', now \in 0 .. now',
         UNCHANGED <<phase, boot, os, prev, prev_tick_time, tick, procs, next, shown>>,
         \A p \in Pids :
           /\ gen[p] <= gen'[p] /\ proc'[p].gen \in {0, gen'[p]}
           /\ \/ proc'[p].gen = 0
              \/ /\ proc'[p].gen = proc[p].gen /\ proc'[p].born = proc[p].born
                 /\ proc[p].total <= proc'[p].total
              \/ gen[p] < proc'[p].gen /\ proc'[p].born = now
  PROVE  CpuInv'
<1> USE CpuTypes, Constants DEF CpuInv
<1>1. \A p \in Pids : /\ gen'[p] \in Nat /\ proc'[p].gen \in Nat /\ proc'[p].born \in Nat
                      /\ proc'[p].total \in Nat
  BY DEF TypeOK
<1>2. ASSUME NEW e \in Kept, Sound(e) PROVE Sound(e)'
  <2>1. e.bits = Bits(e.total)
    BY <1>2 DEF Sound
  <2>2. ASSUME e.pid # 0
        PROVE  /\ e.of <= gen'[e.pid]
               /\ e.of # 0 /\ e.of = proc'[e.pid].gen => e.total <= proc'[e.pid].total
    <3>1. /\ e.pid \in Pids /\ e.of \in Nat /\ e.total \in Nat /\ e.of <= gen[e.pid]
          /\ e.of # 0 /\ e.of = proc[e.pid].gen => e.total <= proc[e.pid].total
      BY <1>2, <2>2 DEF Sound, Kept
    <3>2. /\ gen[e.pid] \in Nat /\ gen[e.pid] <= gen'[e.pid] /\ gen'[e.pid] \in Nat
          /\ proc[e.pid].total \in Nat /\ proc'[e.pid].gen \in Nat
          /\ proc'[e.pid].total \in Nat
          /\ \/ proc'[e.pid].gen = 0
             \/ /\ proc'[e.pid].gen = proc[e.pid].gen
                /\ proc[e.pid].total <= proc'[e.pid].total
             \/ gen[e.pid] < proc'[e.pid].gen
      BY <1>1, <3>1
    <3> QED BY ONLY <3>1, <3>2
  <2> QED BY <2>1, <2>2 DEF Sound, Bits
<1>3. CountersAt'
  <2>1. /\ \A p \in Pids : Sound(prev[p])' /\ (prev[p].vis <=> p \in shown)
        /\ \A i \in DOMAIN next : Sound(next[i])'
    BY <1>2 DEF CountersAt
  <2>2. \A p \in Pids : prev[p] = Absent \/ prev[p].pid = p
    BY DEF CountersAt
  <2> QED BY <2>1, <2>2 DEF CountersAt, Sound, Bits
<1>4. ScanAt'
  BY DEF ScanAt, I
<1>5. TimesAt'
  <2> SUFFICES ASSUME tick.stage = "times"
               PROVE  TimesAt'
    BY DEF TimesAt
  <2> DEFINE r == procs[I]
             q == proc[r.pid]
             s == proc'[r.pid]
  <2>1. I \in DOMAIN procs
    BY DEF ScanAt
  <2>2. /\ os = "macos" /\ r.reading = 0 /\ r.aged = 0 /\ r.of \in 1 .. gen[r.pid]
        /\ q.gen = r.of => r.age = tick.at - q.born
        /\ q.gen \notin {0, r.of} => tick.at <= q.born
        /\ prev[r.pid].of = r.of => prev[r.pid].total <= r.total
    BY DEF TimesAt
  <2>3. r.pid \in Pids
    BY <2>1
  <2> DEFINE p == r.pid
  <2>4. r.of \in 1 .. gen'[p]
    <3>1. gen[p] \in Nat /\ gen'[p] \in Nat /\ gen[p] <= gen'[p]
      BY <1>1, <2>3
    <3> QED BY ONLY <2>2, <3>1
  <2>5. \/ s.gen = 0
        \/ s.gen = q.gen /\ s.born = q.born
        \/ gen[p] < s.gen /\ s.born = now
    BY <2>3
  <2>6. s.gen = r.of => r.age = tick.at - s.born
    <3>1. ~(gen[p] < r.of) /\ r.of # 0
      <4>1. gen[p] \in Nat
        BY <2>3
      <4> QED BY ONLY <2>2, <4>1
    <3> HIDE DEF r, q, s, p
    <3> QED BY <2>2, <2>5, <3>1
  <2>7. s.gen \notin {0, r.of} => tick.at <= s.born
    <3> HIDE DEF r, q, s, p
    <3> QED BY <2>2, <2>5
  <2> HIDE DEF q, s
  <2> QED BY <2>2, <2>4, <2>6, <2>7 DEF TimesAt, I, s
<1>6. SettledExact'
  BY DEF SettledExact, Settled, SameProcess
<1> QED BY <1>3, <1>4, <1>5, <1>6

(* Elapse, Fork and Exit are such moves.                                   *)
LEMMA ElapseInv ==
  ASSUME CpuInv, Elapse
  PROVE  CpuInv'
<1> USE CpuTypes DEF CpuInv
<1>1. PICK used \in [Pids -> 0 .. Rate] :
        proc' = [p \in Pids |-> IF proc[p].gen = 0 THEN proc[p]
                                ELSE [proc[p] EXCEPT !.total = @ + used[p]]]
  BY DEF Elapse
<1>2. now' = now + 1 /\ UNCHANGED <<gen, phase, boot, os, prev, prev_tick_time, tick, procs,
                                     next, shown>>
  BY DEF Elapse
<1>3. \A p \in Pids : used[p] \in Nat
  BY CpuAssumption
<1>4. ASSUME NEW p \in Pids
      PROVE  /\ proc'[p] \in [gen : Nat, born : 0 .. now', total : Nat]
             /\ proc'[p].gen = proc[p].gen /\ proc'[p].born = proc[p].born
             /\ proc[p].total <= proc'[p].total
  <2>1. proc[p] \in [gen : Nat, born : 0 .. now, total : Nat]
    BY DEF TypeOK
  <2>2. CASE proc[p].gen = 0
    BY <1>1, <1>2, <2>1, <2>2
  <2>3. CASE proc[p].gen # 0
    <3>1. proc'[p] = [proc[p] EXCEPT !.total = @ + used[p]]
      BY <1>1, <2>3
    <3>2. proc[p].total + used[p] \in Nat
      BY <1>3
    <3>3. /\ proc'[p].gen = proc[p].gen /\ proc'[p].born = proc[p].born
          /\ proc'[p].total = proc[p].total + used[p]
          /\ proc'[p] = [gen |-> proc[p].gen, born |-> proc[p].born,
                         total |-> proc[p].total + used[p]]
      BY <2>1, <3>1
    <3>4. proc[p].born \in 0 .. now'
      BY <1>2, <2>1
    <3>5. proc[p].total <= proc[p].total + used[p]
      BY <1>3
    <3> QED BY <3>2, <3>3, <3>4, <3>5
  <2> QED BY <2>2, <2>3
<1>5. TypeOK'
  <2>1. proc' \in [Pids -> [gen : Nat, born : 0 .. now', total : Nat]]
    BY <1>1, <1>4
  <2>2. tick' \in [at : 0 .. now', wall_now : Nat, dt : Nat, i : Nat,
                  stage : {"idle", "scan", "times", "filtered"}]
    BY <1>2 DEF TypeOK
  <2>3. now' \in Nat /\ prev_tick_time' \in 0 .. now'
    BY <1>2 DEF TypeOK
  <2> QED BY <1>2, <2>1, <2>2, <2>3 DEF TypeOK
<1>6. \A p \in Pids : gen[p] <= gen'[p] /\ proc'[p].gen \in {0, gen'[p]}
  BY <1>2, <1>4 DEF CountersAt
<1>7. now \in 0 .. now'
  BY <1>2
<1> QED BY <1>2, <1>4, <1>5, <1>6, <1>7, WorldMoves

(* A pid goes to the next process.                                         *)
LEMMA ForkInv ==
  ASSUME CpuInv, NEW p \in Pids, Fork(p)
  PROVE  CpuInv'
<1> USE CpuTypes DEF CpuInv
<1>1. /\ now' = now /\ gen' = [gen EXCEPT ![p] = @ + 1]
      /\ proc' = [proc EXCEPT ![p] = [gen |-> gen[p] + 1, born |-> now, total |-> 0]]
      /\ UNCHANGED <<phase, boot, os, prev, prev_tick_time, tick, procs, next, shown>>
  BY DEF Fork
<1>2. TypeOK'
  <2>1. [gen |-> gen[p] + 1, born |-> now, total |-> 0]
          \in [gen : Nat, born : 0 .. now, total : Nat]
    OBVIOUS
  <2>2. /\ proc' \in [Pids -> [gen : Nat, born : 0 .. now', total : Nat]]
        /\ gen' \in [Pids -> Nat]
    BY <1>1, <2>1 DEF TypeOK
  <2> QED BY <1>1, <2>2 DEF TypeOK
<1>3. ASSUME NEW q \in Pids
      PROVE  /\ gen[q] <= gen'[q] /\ proc'[q].gen \in {0, gen'[q]}
             /\ \/ /\ proc'[q].gen = proc[q].gen /\ proc'[q].born = proc[q].born
                   /\ proc[q].total <= proc'[q].total
                \/ gen[q] < proc'[q].gen /\ proc'[q].born = now
  <2>1. CASE q = p
    <3>1. gen'[q] = gen[q] + 1 /\ proc'[q] = [gen |-> gen[p] + 1, born |-> now, total |-> 0]
      BY <1>1, <2>1 DEF TypeOK
    <3> QED BY <2>1, <3>1
  <2>2. CASE q # p
    <3>1. gen'[q] = gen[q] /\ proc'[q] = proc[q]
      BY <1>1, <2>2 DEF TypeOK
    <3> QED BY <3>1 DEF CountersAt
  <2> QED BY <2>1, <2>2
<1>4. now \in 0 .. now'
  BY <1>1
<1> QED BY <1>1, <1>2, <1>3, <1>4, WorldMoves

(* A pid is free again, and its counters are not the next one's.           *)
LEMMA ExitInv ==
  ASSUME CpuInv, NEW p \in Pids, Exit(p)
  PROVE  CpuInv'
<1> USE CpuTypes DEF CpuInv
<1>1. /\ now' = now /\ gen' = gen /\ proc' = [proc EXCEPT ![p] = Dead]
      /\ UNCHANGED <<phase, boot, os, prev, prev_tick_time, tick, procs, next, shown>>
  BY DEF Exit
<1>2. TypeOK'
  <2>1. Dead \in [gen : Nat, born : 0 .. now, total : Nat]
    BY DEF Dead
  <2>2. proc' \in [Pids -> [gen : Nat, born : 0 .. now', total : Nat]]
    BY <1>1, <2>1 DEF TypeOK
  <2> QED BY <1>1, <2>2 DEF TypeOK
<1>3. ASSUME NEW q \in Pids
      PROVE  /\ gen[q] <= gen'[q] /\ proc'[q].gen \in {0, gen'[q]}
             /\ \/ proc'[q].gen = 0
                \/ /\ proc'[q].gen = proc[q].gen /\ proc'[q].born = proc[q].born
                   /\ proc[q].total <= proc'[q].total
  <2>1. CASE q = p
    <3>1. proc'[q] = Dead
      BY <1>1, <2>1 DEF TypeOK
    <3> QED BY <1>1, <3>1 DEF Dead
  <2>2. CASE q # p
    <3>1. proc'[q] = proc[q]
      BY <1>1, <2>2 DEF TypeOK
    <3> QED BY <1>1, <3>1 DEF CountersAt
  <2> QED BY <2>1, <2>2
<1>4. now \in 0 .. now'
  BY <1>1
<1> QED BY <1>1, <1>2, <1>3, <1>4, WorldMoves

----------------------------------------------------------------------------
(* The tick                                                                *)

(* A function on 1..n is a sequence of length n.                           *)
LEMMA FunctionSeq ==
  ASSUME NEW n \in Nat, NEW S, NEW f \in [1 .. n -> S]
  PROVE  f \in Seq(S) /\ Len(f) = n /\ DOMAIN f = 1 .. n
BY SeqDef

(* What a step of the tick does not touch stays sound.                     *)
LEMMA CountersKept ==
  ASSUME CpuInv, gen' = gen, proc' = proc, prev' = prev, shown' = shown,
         \A i \in DOMAIN next' : Sound(next'[i])
  PROVE  CountersAt'
<1> USE DEF CpuInv
<1>1. \A e : Sound(e)' <=> Sound(e)
  BY DEF Sound, Bits
<1>2. \A p \in Pids : Sound(prev[p])'
  BY DEF CountersAt, Sound, Bits
<1>3. \A i \in DOMAIN next' : Sound(next[i])'
  BY DEF Sound, Bits
<1> QED BY <1>2, <1>3 DEF CountersAt

(* Rows that are settled and rows that are taken over make settled rows.   *)
LEMMA RowsSettled ==
  ASSUME SettledExact, prev' = prev, tick'.dt = tick.dt,
         \A n \in DOMAIN procs' : \/ \E i \in DOMAIN procs : procs'[n] = procs[i]
                                  \/ Settled(procs'[n])
  PROVE  SettledExact'
<1>1. ASSUME NEW n \in DOMAIN procs' PROVE Settled(procs[n])'
  <2>1. Settled(procs'[n])
    BY <1>1 DEF SettledExact
  <2> QED BY <2>1 DEF Settled, SameProcess
<1> QED BY <1>1 DEF SettledExact

(* The listing: one stub for each pid that has a process.                  *)
LEMMA BeginTickInv ==
  ASSUME CpuInv, BeginTick
  PROVE  CpuInv'
<1> USE CpuTypes, Constants DEF CpuInv
<1> DEFINE S == {p \in Pids : proc[p].gen # 0}
           N == Cardinality(S)
<1>1. /\ tick' = [at |-> now, wall_now |-> (phase + now) \div Sec,
                  dt |-> now - prev_tick_time, i |-> 1, stage |-> "scan"]
      /\ next' = <<>> /\ now' = now /\ gen' = gen /\ proc' = proc /\ phase' = phase
      /\ boot' = boot /\ os' = os /\ prev' = prev /\ shown' = shown
      /\ prev_tick_time' = prev_tick_time
  BY DEF BeginTick, world
<1>2. PICK order \in SetToSeqs(S) : procs' = [n \in DOMAIN order |-> Stub(order[n])]
  BY DEF BeginTick
<1>3. N \in Nat
  BY CpuAssumption, FS_Subset, FS_CardinalityType
<1>4. /\ order \in [1 .. N -> S] /\ DOMAIN order = 1 .. N
      /\ \A i, j \in 1 .. N : i # j => order[i] # order[j]
  BY <1>2 DEF SetToSeqs
<1> HIDE DEF N
<1>5. ASSUME NEW n \in 1 .. N
      PROVE  procs'[n] = Stub(order[n]) /\ procs'[n] \in Row /\ procs'[n].pid = order[n]
  <2>1. procs'[n] = Stub(order[n]) /\ order[n] \in Pids
    BY <1>2, <1>4
  <2> QED BY <2>1 DEF Stub, Row
<1>6. procs' \in [1 .. N -> Row]
  BY <1>2, <1>4, <1>5
<1>7. procs' \in Seq(Row) /\ Len(procs') = N /\ DOMAIN procs' = 1 .. N
  BY <1>3, <1>6, FunctionSeq
<1>8. TypeOK'
  <2>1. (phase + now) \div Sec \in Nat /\ now - prev_tick_time \in Nat /\ now \in 0 .. now
    <3>1. phase + now \in Nat /\ phase + now \in Int /\ now - prev_tick_time \in Nat
      BY DEF TypeOK
    <3>2. (phase + now) \div Sec \in Nat
      BY <3>1, DivFacts
    <3> QED BY <3>1, <3>2
  <2>2. tick' \in [at : 0 .. now', wall_now : Nat, dt : Nat, i : Nat,
                  stage : {"idle", "scan", "times", "filtered"}]
    BY <1>1, <2>1
  <2>3. next' \in Seq(Kept)
    BY <1>1
  <2> QED BY <1>1, <1>7, <2>2, <2>3 DEF TypeOK
<1>9. CountersAt'
  BY <1>1, CountersKept
<1>10. ScanAt'
  <2>1. /\ tick'.stage = "scan" /\ I' = 1 /\ Len(next') = 0 /\ DOMAIN next' = {}
        /\ tick'.wall_now = (phase' + tick'.at) \div Sec
    BY <1>1 DEF I
  <2>2. \A i, j \in DOMAIN procs' : procs'[i].pid = procs'[j].pid => i = j
    BY <1>4, <1>5, <1>7
  <2>3. \A i \in DOMAIN procs' : procs'[i] = Stub(procs'[i].pid)
    BY <1>5, <1>7
  <2>4. 1 \in 1 .. Len(procs') + 1
    BY <1>3, <1>7
  <2> QED BY <2>1, <2>2, <2>3, <2>4 DEF ScanAt, Stub
<1>11. TimesAt'
  BY <1>1 DEF TimesAt
<1>12. SettledExact'
  <2>1. \A n \in DOMAIN procs' : Settled(procs[n])'
    BY <1>5, <1>7 DEF Settled, SameProcess, Stub
  <2> QED BY <2>1 DEF SettledExact
<1> QED BY <1>8, <1>9, <1>10, <1>11, <1>12

(* The entry pushed for row I keeps the entries in step with the rows.     *)
LEMMA EntryPushed ==
  ASSUME CpuInv, Scanning, I <= Len(procs), NEW e \in Kept, e.pid = procs[I].pid, ~e.vis,
         Sound(e), next' = Append(next, e),
         DOMAIN procs' = DOMAIN procs, \A i \in DOMAIN procs : procs'[i].pid = procs[i].pid
  PROVE  /\ next' \in Seq(Kept) /\ Len(next') = I
         /\ \A i \in DOMAIN next' : Sound(next'[i])
         /\ \A i \in DOMAIN next' : next'[i].pid = procs'[i].pid /\ ~next'[i].vis
<1> USE CpuTypes DEF CpuInv
<1>1. /\ Len(next) = I - 1 /\ I \in DOMAIN procs /\ next \in Seq(Kept)
      /\ \A i \in DOMAIN next : next[i].pid = procs[i].pid /\ ~next[i].vis
      /\ \A i \in DOMAIN next : Sound(next[i])
  BY DEF ScanAt, Scanning, CountersAt, TypeOK
<1>2. /\ next' \in Seq(Kept) /\ Len(next') = I /\ DOMAIN next' = 1 .. I
      /\ next'[I] = e /\ \A i \in 1 .. I - 1 : next'[i] = next[i]
  BY <1>1
<1>3. \A i \in 1 .. I : i = I \/ (i \in DOMAIN next /\ i \in DOMAIN procs)
  BY <1>1
<1> QED BY <1>1, <1>2, <1>3

(* The row after I is still a stub.                                        *)
LEMMA ScanAdvances ==
  ASSUME CpuInv, tick.stage \in {"scan", "times"}, I <= Len(procs),
         tick' = [tick EXCEPT !.stage = "scan", !.i = I + 1], phase' = phase,
         DOMAIN procs' = DOMAIN procs, Len(procs') = Len(procs),
         \A i \in DOMAIN procs : procs'[i].pid = procs[i].pid,
         \A i \in DOMAIN procs : I < i => procs[i] = Stub(procs[i].pid) /\ procs'[i] = procs[i],
         Len(next') = I,
         \A i \in DOMAIN next' : next'[i].pid = procs'[i].pid /\ ~next'[i].vis
  PROVE  ScanAt' /\ TimesAt'
<1> USE CpuTypes DEF CpuInv
<1>1. /\ tick'.stage = "scan" /\ tick'.i = I + 1 /\ tick'.at = tick.at
      /\ tick'.wall_now = tick.wall_now /\ I' = I + 1
  BY DEF TypeOK, I
<1>2. tick.wall_now = (phase + tick.at) \div Sec
  BY DEF ScanAt
<1>3. I + 1 \in 1 .. Len(procs') + 1 /\ Len(next') = (I + 1) - 1
  OBVIOUS
<1>4. \A i, j \in DOMAIN procs' : procs'[i].pid = procs'[j].pid => i = j
  BY DEF ScanAt
<1>5. \A i \in DOMAIN procs' : I + 1 <= i => procs'[i] = Stub(procs'[i].pid)
  <2>1. \A i \in DOMAIN procs' : I + 1 <= i => I < i
    OBVIOUS
  <2> QED BY <2>1
<1>6. TimesAt'
  BY <1>1 DEF TimesAt
<1> QED BY <1>1, <1>2, <1>3, <1>4, <1>5, <1>6 DEF ScanAt, Stub

(* What a read leaves alone.                                               *)
LEMMA ReadTypes ==
  ASSUME TypeOK, UNCHANGED <<now, world, prev, prev_tick_time, shown>>,
         tick' \in [at : {tick.at}, wall_now : {tick.wall_now}, dt : {tick.dt}, i : Nat,
                    stage : {"idle", "scan", "times", "filtered"}],
         procs' \in Seq(Row), next' \in Seq(Kept)
  PROVE  TypeOK'
<1>1. tick' \in [at : 0 .. now, wall_now : Nat, dt : Nat, i : Nat,
                stage : {"idle", "scan", "times", "filtered"}]
  <2>1. tick.at \in 0 .. now /\ tick.wall_now \in Nat /\ tick.dt \in Nat
    BY DEF TypeOK
  <2> QED BY <2>1
<1> QED BY <1>1 DEF TypeOK, world

(* The step to the next row.                                               *)
LEMMA TickMoves ==
  ASSUME TypeOK,
         \/ tick.stage = "scan" /\ tick' = [tick EXCEPT !.i = I + 1]
         \/ tick' = [tick EXCEPT !.stage = "scan", !.i = I + 1]
  PROVE  /\ tick'.at = tick.at /\ tick'.wall_now = tick.wall_now /\ tick'.dt = tick.dt
         /\ tick' = [tick EXCEPT !.stage = "scan", !.i = I + 1]
         /\ tick' \in [at : {tick.at}, wall_now : {tick.wall_now}, dt : {tick.dt}, i : Nat,
                       stage : {"idle", "scan", "times", "filtered"}]
<1>1. tick = [at |-> tick.at, wall_now |-> tick.wall_now, dt |-> tick.dt, i |-> I,
              stage |-> tick.stage]
  BY DEF TypeOK, I
<1>2. I + 1 \in Nat
  BY CpuTypes
<1> DEFINE t == [at |-> tick.at, wall_now |-> tick.wall_now, dt |-> tick.dt, i |-> I + 1,
                 stage |-> "scan"]
<1>3. [tick EXCEPT !.stage = "scan", !.i = I + 1] = t
  BY <1>1
<1>4. ASSUME tick.stage = "scan" PROVE [tick EXCEPT !.i = I + 1] = t
  BY <1>1, <1>4
<1>5. tick' = t
  BY <1>3, <1>4
<1> QED BY <1>2, <1>3, <1>5

(* The row in hand is a stub.                                              *)
LEMMA RowInHand ==
  ASSUME CpuInv, Scanning, I <= Len(procs)
  PROVE  /\ I \in DOMAIN procs /\ procs[I].pid \in Pids /\ procs[I] = Stub(procs[I].pid)
         /\ \A i \in DOMAIN procs : I < i => procs[i] = Stub(procs[i].pid)
         /\ tick.wall_now = (phase + tick.at) \div Sec
<1> USE CpuTypes DEF CpuInv
<1>1. I \in DOMAIN procs /\ tick.wall_now = (phase + tick.at) \div Sec
  BY DEF ScanAt, Scanning
<1>2. \A i \in DOMAIN procs : I <= i => procs[i] = Stub(procs[i].pid)
  BY DEF ScanAt, Scanning
<1> QED BY <1>1, <1>2

(* A failed stat: the placeholder keeps the row's place.                   *)
LEMMA StatFailsInv ==
  ASSUME CpuInv, StatFails
  PROVE  CpuInv'
<1> USE CpuTypes, Constants DEF CpuInv
<1> DEFINE p == procs[I].pid
           e == Entry(p, 0, 0, 0)
<1>1. /\ Scanning /\ I <= Len(procs) /\ next' = next \o <<e>>
      /\ tick' = [tick EXCEPT !.i = I + 1] /\ procs' = procs
      /\ UNCHANGED <<now, world, prev, prev_tick_time, shown>>
  BY DEF StatFails, Placeholder, NextRow
<1>2. /\ I \in DOMAIN procs /\ p \in Pids
      /\ \A i \in DOMAIN procs : I < i => procs[i] = Stub(procs[i].pid)
  BY <1>1, RowInHand
<1>3. e \in Kept /\ e.pid = p /\ ~e.vis /\ Sound(e)
  <2>1. 0 \in 0 .. Modulus - 1 /\ Bits(0) = 0
    <3>1. 0 \div Grain = 0 /\ 0 % Modulus = 0
      <4>1. Grain * 0 + 0 = 0 /\ Modulus * 0 + 0 = 0
        OBVIOUS
      <4> QED BY <4>1, ModIs
    <3> QED BY <3>1 DEF Bits
  <2>2. /\ e = [pid |-> p, bits |-> 0, vis |-> FALSE, of |-> 0, total |-> 0]
        /\ gen[p] \in Nat
    BY <1>2 DEF Entry
  <2> HIDE DEF e
  <2>3. /\ e.pid = p /\ e.bits = 0 /\ e.vis = FALSE /\ e.of = 0 /\ e.total = 0
    BY <2>2
  <2>4. e \in Kept
    BY <1>2, <2>1, <2>2 DEF Kept
  <2>5. Sound(e)
    BY <2>1, <2>2, <2>3 DEF Sound
  <2> QED BY <2>3, <2>4, <2>5
<1>4. next' = Append(next, e)
  <2> HIDE DEF e
  <2>1. next \in Seq(Kept)
    BY DEF TypeOK
  <2> QED BY <1>1, <2>1, <1>3
<1> HIDE DEF e
<1>5. /\ next' \in Seq(Kept) /\ Len(next') = I
      /\ \A i \in DOMAIN next' : Sound(next'[i])
      /\ \A i \in DOMAIN next' : next'[i].pid = procs'[i].pid /\ ~next'[i].vis
  BY <1>1, <1>3, <1>4, EntryPushed
<1>6. /\ tick'.at = tick.at /\ tick'.wall_now = tick.wall_now /\ tick'.dt = tick.dt
      /\ tick' = [tick EXCEPT !.stage = "scan", !.i = I + 1]
      /\ tick' \in [at : {tick.at}, wall_now : {tick.wall_now}, dt : {tick.dt}, i : Nat,
                    stage : {"idle", "scan", "times", "filtered"}]
  BY <1>1, TickMoves DEF Scanning
<1>7. TypeOK'
  BY <1>1, <1>5, <1>6, ReadTypes DEF TypeOK
<1>8. CountersAt'
  BY <1>1, <1>5, CountersKept DEF world
<1>9. ScanAt' /\ TimesAt'
  BY <1>1, <1>2, <1>5, <1>6, ScanAdvances DEF world, Scanning
<1>10. SettledExact'
  BY <1>1, <1>6, RowsSettled
<1> QED BY <1>7, <1>8, <1>9, <1>10

(* What a successful read of pid p's counter gives.                        *)
LEMMA Sampled ==
  ASSUME CpuInv, NEW p \in Pids, proc[p].gen # 0
  PROVE  /\ Entry(p, Bits(proc[p].total), proc[p].gen, proc[p].total) \in Kept
         /\ Entry(p, Bits(proc[p].total), proc[p].gen, proc[p].total).pid = p
         /\ ~Entry(p, Bits(proc[p].total), proc[p].gen, proc[p].total).vis
         /\ Sound(Entry(p, Bits(proc[p].total), proc[p].gen, proc[p].total))
         /\ prev[p].bits = Bits(prev[p].total)
         /\ prev[p].of = proc[p].gen => prev[p].total <= proc[p].total
         /\ proc[p].gen \in 1 .. gen[p]
<1> USE CpuTypes, Constants DEF CpuInv
<1>1. proc[p].gen = gen[p]
  BY DEF CountersAt
<1>2. Bits(proc[p].total) \in 0 .. Modulus - 1
  BY BitsFacts
<1>3. /\ Sound(prev[p]) /\ (prev[p] = Absent \/ prev[p].pid = p)
  BY DEF CountersAt
<1>4. prev[p].of = proc[p].gen => prev[p].total <= proc[p].total
  BY <1>3 DEF Sound, Absent
<1>5. Sound(Entry(p, Bits(proc[p].total), proc[p].gen, proc[p].total))
  BY <1>1 DEF Sound, Entry
<1> QED BY <1>1, <1>2, <1>3, <1>4, <1>5 DEF Entry, Kept, Sound

(* Linux: the whole row in one read.                                       *)
LEMMA StatInv ==
  ASSUME CpuInv, Stat
  PROVE  CpuInv'
<1> USE CpuTypes, Constants DEF CpuInv
<1> DEFINE p == procs[I].pid
           q == proc[p]
           e == Entry(p, Bits(q.total), q.gen, q.total)
           r == [pid |-> p, stat |-> TRUE, of |-> q.gen, total |-> q.total,
                 reading |-> compute_cpu(p, AgeSecs(q.born), q.total),
                 age |-> tick.at - q.born, aged |-> q.gen]
<1>1. /\ Scanning /\ I <= Len(procs) /\ q.gen # 0 /\ next' = Append(next, e)
      /\ tick' = [tick EXCEPT !.i = I + 1] /\ procs' = [procs EXCEPT ![I] = r]
      /\ UNCHANGED <<now, world, prev, prev_tick_time, shown>>
  BY DEF Stat, NextRow
<1>2. /\ I \in DOMAIN procs /\ p \in Pids /\ tick.wall_now = (phase + tick.at) \div Sec
      /\ \A i \in DOMAIN procs : I < i => procs[i] = Stub(procs[i].pid)
  BY <1>1, RowInHand
<1>3. /\ e \in Kept /\ e.pid = p /\ ~e.vis /\ Sound(e)
      /\ prev[p].bits = Bits(prev[p].total)
      /\ prev[p].of = q.gen => prev[p].total <= q.total
  BY <1>1, <1>2, Sampled
<1>4. r \in Row
  <2>1. compute_cpu(p, AgeSecs(q.born), q.total) \in Nat
    BY <1>2, ReadingType DEF TypeOK
  <2>2. tick.at - q.born \in Int
    <3>1. tick.at \in Nat /\ q.born \in Nat
      BY <1>2
    <3> QED BY ONLY <3>1
  <2> QED BY <1>2, <2>1, <2>2 DEF Row
<1>5. Settled(r)
  <2>1. /\ r.pid = p /\ r.reading = compute_cpu(p, AgeSecs(q.born), q.total)
        /\ r.aged = q.gen /\ r.of = q.gen /\ r.age = tick.at - q.born /\ r.total = q.total
    OBVIOUS
  <2>2. q.born \in Nat
    BY <1>2
  <2> HIDE DEF r, q
  <2> QED BY <1>1, <1>2, <1>3, <1>4, <2>1, <2>2, RowSettled
<1>6. r.pid = p
  OBVIOUS
<1> HIDE DEF e, r, q
<1>7. /\ procs' \in Seq(Row) /\ Len(procs') = Len(procs) /\ DOMAIN procs' = DOMAIN procs
      /\ procs'[I] = r /\ \A i \in DOMAIN procs : i # I => procs'[i] = procs[i]
  <2>1. procs \in Seq(Row) /\ I \in 1 .. Len(procs)
    BY <1>2 DEF TypeOK
  <2> QED BY ONLY <1>1, <1>4, <2>1, ExceptSeq
<1>8. \A i \in DOMAIN procs : procs'[i].pid = procs[i].pid
  BY <1>6, <1>7
<1>9. /\ next' \in Seq(Kept) /\ Len(next') = I
      /\ \A i \in DOMAIN next' : Sound(next'[i])
      /\ \A i \in DOMAIN next' : next'[i].pid = procs'[i].pid /\ ~next'[i].vis
  BY <1>1, <1>3, <1>7, <1>8, EntryPushed
<1>10. /\ tick'.at = tick.at /\ tick'.wall_now = tick.wall_now /\ tick'.dt = tick.dt
       /\ tick' = [tick EXCEPT !.stage = "scan", !.i = I + 1]
       /\ tick' \in [at : {tick.at}, wall_now : {tick.wall_now}, dt : {tick.dt}, i : Nat,
                     stage : {"idle", "scan", "times", "filtered"}]
  BY <1>1, TickMoves DEF Scanning
<1>11. TypeOK'
  BY <1>1, <1>7, <1>9, <1>10, ReadTypes
<1>12. CountersAt'
  BY <1>1, <1>9, CountersKept DEF world
<1>13. ScanAt' /\ TimesAt'
  <2>1. \A i \in DOMAIN procs : I < i => procs[i] = Stub(procs[i].pid) /\ procs'[i] = procs[i]
    BY <1>2, <1>7
  <2>2. phase' = phase /\ tick.stage = "scan"
    BY <1>1 DEF world, Scanning
  <2> QED BY <1>1, <1>7, <1>8, <1>9, <1>10, <2>1, <2>2, ScanAdvances
<1>14. SettledExact'
  <2>1. \A n \in DOMAIN procs' : \/ \E i \in DOMAIN procs : procs'[n] = procs[i]
                                 \/ Settled(procs'[n])
    BY <1>5, <1>7
  <2> QED BY <1>1, <1>10, <2>1, RowsSettled
<1> QED BY <1>11, <1>12, <1>13, <1>14

(* macOS: the times, and the age of a process that was there for them.     *)
LEMMA ReadTimesInv ==
  ASSUME CpuInv, ReadTimes
  PROVE  CpuInv'
<1> USE CpuTypes, Constants DEF CpuInv
<1> DEFINE p == procs[I].pid
           q == proc[p]
           e == Entry(p, Bits(q.total), q.gen, q.total)
           r == [procs[I] EXCEPT !.stat = TRUE, !.of = q.gen, !.total = q.total,
                                 !.age = tick.at - q.born]
<1>1. /\ Scanning /\ I <= Len(procs) /\ q.gen # 0 /\ next' = Append(next, e)
      /\ tick' = [tick EXCEPT !.stage = "times"] /\ procs' = [procs EXCEPT ![I] = r]
      /\ os = "macos" /\ UNCHANGED <<now, world, prev, prev_tick_time, shown>>
  BY DEF ReadTimes
<1>2. /\ I \in DOMAIN procs /\ p \in Pids /\ procs[I] = Stub(p)
      /\ tick.wall_now = (phase + tick.at) \div Sec
  BY <1>1, RowInHand
<1>3. /\ e \in Kept /\ e.pid = p /\ ~e.vis /\ Sound(e)
      /\ prev[p].of = q.gen => prev[p].total <= q.total
      /\ q.gen \in 1 .. gen[p]
  BY <1>1, <1>2, Sampled
<1>4. /\ r.pid = p /\ r.stat = TRUE /\ r.reading = 0 /\ r.of = q.gen /\ r.total = q.total
      /\ r.age = tick.at - q.born /\ r.aged = 0
  BY <1>2 DEF Stub
<1>5. r \in Row
  <2>1. ASSUME NEW w \in Row, NEW g \in Nat, NEW t \in Nat, NEW a \in Int
        PROVE  [w EXCEPT !.stat = TRUE, !.of = g, !.total = t, !.age = a] \in Row
    BY DEF Row
  <2>2. q.gen \in Nat /\ q.total \in Nat /\ tick.at - q.born \in Int
    <3>1. q.gen \in Nat /\ q.total \in Nat /\ tick.at \in Nat /\ q.born \in Nat
      BY <1>2
    <3> QED BY ONLY <3>1
  <2>3. procs[I] \in Row
    BY <1>2
  <2> QED BY ONLY <2>1, <2>2, <2>3
<1> HIDE DEF e, r, q
<1>6. Settled(r)
  <2>1. r.aged # r.of
    <3>1. gen[p] \in Nat
      BY <1>2
    <3> QED BY ONLY <1>3, <1>4, <3>1
  <2> QED BY <1>4, <2>1 DEF Settled
<1>7. /\ procs' \in Seq(Row) /\ Len(procs') = Len(procs) /\ DOMAIN procs' = DOMAIN procs
      /\ procs'[I] = r /\ \A i \in DOMAIN procs : i # I => procs'[i] = procs[i]
  <2>1. procs \in Seq(Row) /\ I \in 1 .. Len(procs)
    BY <1>2 DEF TypeOK
  <2> QED BY ONLY <1>1, <1>5, <2>1, ExceptSeq
<1>8. \A i \in DOMAIN procs : procs'[i].pid = procs[i].pid
  BY <1>4, <1>7
<1>9. /\ next' \in Seq(Kept) /\ Len(next') = I
      /\ \A i \in DOMAIN next' : Sound(next'[i])
      /\ \A i \in DOMAIN next' : next'[i].pid = procs'[i].pid /\ ~next'[i].vis
  BY <1>1, <1>3, <1>7, <1>8, EntryPushed
<1>10. /\ tick'.at = tick.at /\ tick'.wall_now = tick.wall_now /\ tick'.dt = tick.dt
       /\ tick'.i = tick.i /\ tick'.stage = "times"
       /\ tick' \in [at : {tick.at}, wall_now : {tick.wall_now}, dt : {tick.dt}, i : Nat,
                     stage : {"idle", "scan", "times", "filtered"}]
  <2>1. tick = [at |-> tick.at, wall_now |-> tick.wall_now, dt |-> tick.dt, i |-> I,
                stage |-> tick.stage]
    BY DEF TypeOK, I
  <2>2. tick' = [at |-> tick.at, wall_now |-> tick.wall_now, dt |-> tick.dt, i |-> I,
                 stage |-> "times"]
    BY <1>1, <2>1
  <2> QED BY <2>2 DEF I
<1>11. TypeOK'
  BY <1>1, <1>7, <1>9, <1>10, ReadTypes
<1>12. CountersAt'
  BY <1>1, <1>9, CountersKept DEF world
<1>13. ScanAt'
  <2>1. tick'.stage = "times" /\ I' = I /\ phase' = phase /\ I \in 1 .. Len(procs')
    BY <1>1, <1>2, <1>7, <1>10 DEF I, world
  <2>2. tick'.wall_now = (phase' + tick'.at) \div Sec
    BY <1>2, <1>10, <2>1
  <2>3. \A i, j \in DOMAIN procs' : procs'[i].pid = procs'[j].pid => i = j
    BY <1>7, <1>8 DEF ScanAt
  <2>4. Len(next') = I /\ \A i \in DOMAIN next' : next'[i].pid = procs'[i].pid /\ ~next'[i].vis
    BY <1>9
  <2>5. \A i \in DOMAIN procs' : I < i => procs'[i] = Stub(procs'[i].pid)
    <3>1. \A i \in DOMAIN procs : I < i => i # I /\ procs[i] = Stub(procs[i].pid)
      BY <1>1, RowInHand
    <3> QED BY <1>7, <3>1
  <2> QED BY <2>1, <2>2, <2>3, <2>4, <2>5 DEF ScanAt, Stub
<1>14. TimesAt'
  <2>1. /\ procs'[I'] = r /\ os' = "macos" /\ prev' = prev /\ gen' = gen /\ proc' = proc
        /\ tick'.at = tick.at
    BY <1>1, <1>7, <1>10 DEF I, world
  <2>2. proc[r.pid] = q /\ prev[r.pid] = prev[p] /\ gen[r.pid] = gen[p]
    BY <1>4 DEF q
  <2>3. /\ os' = "macos" /\ r.reading = 0 /\ r.aged = 0 /\ r.of \in 1 .. gen'[r.pid]
        /\ proc'[r.pid].gen = r.of => r.age = tick'.at - proc'[r.pid].born
        /\ proc'[r.pid].gen = r.of
        /\ prev'[r.pid].of = r.of => prev'[r.pid].total <= r.total
    BY <1>3, <1>4, <2>1, <2>2
  <2> QED BY <2>1, <2>3 DEF TimesAt
<1>15. SettledExact'
  <2>1. \A n \in DOMAIN procs' : \/ \E i \in DOMAIN procs : procs'[n] = procs[i]
                                 \/ Settled(procs'[n])
    BY <1>6, <1>7
  <2> QED BY <1>1, <1>10, <2>1, RowsSettled
<1> QED BY <1>11, <1>12, <1>13, <1>14, <1>15

(* macOS: the age, of the process that has the pid by now.                 *)
LEMMA ReadAgeInv ==
  ASSUME CpuInv, ReadAge
  PROVE  CpuInv'
<1> USE CpuTypes, Constants DEF CpuInv
<1> DEFINE p == procs[I].pid
           q == proc[p]
           age_secs == IF q.gen = 0 THEN 0 ELSE AgeSecs(q.born)
           s == procs[I]
           r == [s EXCEPT !.reading = compute_cpu(p, age_secs, s.total), !.aged = q.gen]
<1>1. /\ tick.stage = "times" /\ procs' = [procs EXCEPT ![I] = r]
      /\ tick' = [tick EXCEPT !.stage = "scan", !.i = I + 1] /\ next' = next
      /\ UNCHANGED <<now, world, prev, prev_tick_time, shown>>
  BY DEF ReadAge
<1>2. /\ I \in DOMAIN procs /\ p \in Pids /\ s \in Row /\ I <= Len(procs) /\ Len(next) = I
      /\ tick.wall_now = (phase + tick.at) \div Sec
  BY <1>1 DEF ScanAt
<1>3. /\ os = "macos" /\ s.reading = 0 /\ s.aged = 0 /\ s.of \in 1 .. gen[p]
      /\ q.gen = s.of => s.age = tick.at - q.born
      /\ q.gen \notin {0, s.of} => tick.at <= q.born
      /\ prev[p].of = s.of => prev[p].total <= s.total
  BY <1>1 DEF TimesAt
<1>4. /\ s.pid \in Pids /\ s.stat \in BOOLEAN /\ s.of \in Nat /\ s.total \in Nat
      /\ s.age \in Int /\ q.gen \in Nat /\ q.born \in Nat /\ gen[p] \in Nat
  BY <1>2 DEF Row
<1>5. /\ r.pid = p /\ r.stat = s.stat /\ r.reading = compute_cpu(p, age_secs, s.total)
      /\ r.of = s.of /\ r.total = s.total /\ r.age = s.age /\ r.aged = q.gen
  BY <1>2 DEF Row
<1>6. r \in Row
  <2>1. ASSUME NEW w \in Row, NEW x \in Nat, NEW g \in Nat
        PROVE  [w EXCEPT !.reading = x, !.aged = g] \in Row
    BY DEF Row
  <2>2. compute_cpu(p, age_secs, s.total) \in Nat
    BY <1>2, <1>4, ReadingType DEF TypeOK
  <2> QED BY ONLY <1>2, <1>4, <2>1, <2>2
<1>7. Settled(r)
  <2>1. prev[p].bits = Bits(prev[p].total)
    BY <1>2 DEF CountersAt, Sound
  <2>2. CASE q.gen = s.of
    <3>1. s.of # 0 /\ age_secs = AgeSecs(q.born)
      BY <1>3, <1>4, <2>2
    <3>2. /\ r.reading = compute_cpu(r.pid, AgeSecs(q.born), r.total) /\ r.aged = r.of
          /\ r.of # 0 /\ r.age = tick.at - q.born
          /\ prev[r.pid].bits = Bits(prev[r.pid].total)
          /\ prev[r.pid].of = r.of => prev[r.pid].total <= r.total
      BY <1>3, <1>5, <2>1, <2>2, <3>1
    <3> HIDE DEF r, q, s, p, age_secs
    <3> QED BY <1>2, <1>4, <1>6, <3>2, RowSettled
  <2>3. CASE q.gen # s.of
    <3>1. Suppressed(age_secs)
      <4>1. CASE q.gen = 0
        BY <4>1, NobodySuppressed
      <4>2. CASE q.gen # 0
        BY <1>2, <1>3, <1>4, <2>3, <4>2, YoungSuppressed
      <4> QED BY <4>1, <4>2
    <3>2. r.reading = 0 /\ r.aged # r.of
      BY <1>5, <2>3, <3>1, OtherSuppressed
    <3> QED BY <3>2 DEF Settled
  <2> QED BY <2>2, <2>3
<1> HIDE DEF r, q, s
<1>8. /\ procs' \in Seq(Row) /\ Len(procs') = Len(procs) /\ DOMAIN procs' = DOMAIN procs
      /\ procs'[I] = r /\ \A i \in DOMAIN procs : i # I => procs'[i] = procs[i]
  <2>1. procs \in Seq(Row) /\ I \in 1 .. Len(procs)
    BY <1>2 DEF TypeOK
  <2> QED BY ONLY <1>1, <1>6, <2>1, ExceptSeq
<1>9. \A i \in DOMAIN procs : procs'[i].pid = procs[i].pid
  BY <1>5, <1>8
<1>10. /\ tick'.at = tick.at /\ tick'.wall_now = tick.wall_now /\ tick'.dt = tick.dt
       /\ tick' \in [at : {tick.at}, wall_now : {tick.wall_now}, dt : {tick.dt}, i : Nat,
                     stage : {"idle", "scan", "times", "filtered"}]
  BY <1>1, TickMoves
<1>11. TypeOK'
  BY <1>1, <1>8, <1>10, ReadTypes DEF TypeOK
<1>12. CountersAt'
  <2>1. \A i \in DOMAIN next' : Sound(next'[i])
    BY <1>1 DEF CountersAt
  <2> QED BY <1>1, <2>1, CountersKept DEF world
<1>13. ScanAt' /\ TimesAt'
  <2>1. \A i \in DOMAIN procs : I < i => procs[i] = Stub(procs[i].pid) /\ procs'[i] = procs[i]
    BY <1>1, <1>2, <1>8 DEF ScanAt
  <2>2. \A i \in DOMAIN next' : next'[i].pid = procs'[i].pid /\ ~next'[i].vis
    BY <1>1, <1>2, <1>8, <1>9 DEF ScanAt
  <2>3. phase' = phase /\ tick.stage = "times"
    BY <1>1 DEF world
  <2> QED BY <1>1, <1>2, <1>8, <1>9, <2>1, <2>2, <2>3, ScanAdvances
<1>14. SettledExact'
  <2>1. \A n \in DOMAIN procs' : \/ \E i \in DOMAIN procs : procs'[n] = procs[i]
                                 \/ Settled(procs'[n])
    BY <1>7, <1>8
  <2> QED BY <1>1, <1>10, <2>1, RowsSettled
<1> QED BY <1>11, <1>12, <1>13, <1>14

(* The filter: the bit of an entry is set exactly where its row is kept.   *)
LEMMA FilterInv ==
  ASSUME CpuInv, Filter
  PROVE  CpuInv'
<1> USE CpuTypes, Constants DEF CpuInv
<1>1. /\ Scanning /\ I > Len(procs) /\ tick' = [tick EXCEPT !.stage = "filtered"]
      /\ now' = now /\ gen' = gen /\ proc' = proc /\ phase' = phase /\ boot' = boot
      /\ os' = os /\ prev' = prev /\ shown' = shown /\ prev_tick_time' = prev_tick_time
  BY DEF Filter, world
<1>2. PICK kept \in Retained :
        /\ next' = [i \in DOMAIN next |-> [next[i] EXCEPT !.vis = i \in Range(kept)]]
        /\ procs' = [n \in DOMAIN kept |-> procs[kept[n]]]
  BY DEF Filter
<1>3. PICK k \in 0 .. Len(procs) : kept \in [1 .. k -> DOMAIN procs]
  BY DEF Retained
<1>4. /\ DOMAIN kept = 1 .. k /\ \A n \in 1 .. k : kept[n] \in DOMAIN procs
      /\ \A m, n \in 1 .. k : m # n => kept[m] # kept[n]
  <2>1. \A m, n \in DOMAIN kept : m < n => kept[m] < kept[n]
    BY DEF Retained
  <2>2. DOMAIN kept = 1 .. k /\ \A n \in 1 .. k : kept[n] \in DOMAIN procs
    BY <1>3
  <2>3. ASSUME NEW m \in 1 .. k, NEW n \in 1 .. k, m # n PROVE kept[m] # kept[n]
    <3>1. m < n \/ n < m
      BY <2>3
    <3>2. kept[m] \in Int /\ kept[n] \in Int
      BY <2>2
    <3>3. kept[m] < kept[n] \/ kept[n] < kept[m]
      BY <2>1, <2>2, <3>1
    <3> QED BY <3>2, <3>3
  <2> QED BY <2>2, <2>3
<1>5. DOMAIN next = DOMAIN procs /\ \A i \in DOMAIN next : next[i].pid = procs[i].pid
  BY <1>1 DEF ScanAt, Scanning
<1>6. ASSUME NEW i \in DOMAIN next
      PROVE  /\ next'[i] \in Kept /\ next'[i].pid = next[i].pid
             /\ next'[i].bits = next[i].bits /\ next'[i].of = next[i].of
             /\ next'[i].total = next[i].total /\ next'[i].vis = (i \in Range(kept))
  <2>1. ASSUME NEW e \in Kept, NEW v \in BOOLEAN
        PROVE  /\ [e EXCEPT !.vis = v] \in Kept /\ [e EXCEPT !.vis = v].pid = e.pid
               /\ [e EXCEPT !.vis = v].bits = e.bits /\ [e EXCEPT !.vis = v].of = e.of
               /\ [e EXCEPT !.vis = v].total = e.total /\ [e EXCEPT !.vis = v].vis = v
    BY DEF Kept
  <2>2. next[i] \in Kept /\ (i \in Range(kept)) \in BOOLEAN
    BY <1>6
  <2>3. next'[i] = [next[i] EXCEPT !.vis = i \in Range(kept)]
    BY <1>2, <1>6
  <2> DEFINE w == [next[i] EXCEPT !.vis = i \in Range(kept)]
  <2>4. /\ w \in Kept /\ w.pid = next[i].pid /\ w.bits = next[i].bits /\ w.of = next[i].of
        /\ w.total = next[i].total /\ w.vis = (i \in Range(kept))
    BY ONLY <2>1, <2>2, Zenon
  <2>5. next'[i] = w
    BY <2>3
  <2> HIDE DEF w
  <2> QED BY ONLY <2>4, <2>5, Zenon
<1>7. next' \in Seq(Kept) /\ DOMAIN next' = DOMAIN next
  <2>1. next' \in [1 .. Len(next) -> Kept]
    BY <1>2, <1>6
  <2> QED BY <2>1, FunctionSeq
<1>8. /\ procs' \in Seq(Row) /\ DOMAIN procs' = 1 .. k
      /\ \A n \in 1 .. k : procs'[n] = procs[kept[n]]
  <2>1. procs' \in [1 .. k -> Row]
    BY <1>2, <1>4
  <2> QED BY <1>2, <1>4, <2>1, FunctionSeq
<1>9. /\ tick'.at = tick.at /\ tick'.wall_now = tick.wall_now /\ tick'.dt = tick.dt
      /\ tick'.stage = "filtered"
      /\ tick' \in [at : {tick.at}, wall_now : {tick.wall_now}, dt : {tick.dt}, i : Nat,
                    stage : {"idle", "scan", "times", "filtered"}]
  <2>1. tick = [at |-> tick.at, wall_now |-> tick.wall_now, dt |-> tick.dt, i |-> I,
                stage |-> tick.stage]
    BY DEF TypeOK, I
  <2>2. tick' = [at |-> tick.at, wall_now |-> tick.wall_now, dt |-> tick.dt, i |-> I,
                 stage |-> "filtered"]
    BY <1>1, <2>1
  <2> QED BY <2>2
<1>10. TypeOK'
  BY <1>1, <1>7, <1>8, <1>9, ReadTypes DEF world
<1>11. CountersAt'
  <2>1. \A i \in DOMAIN next : Sound(next'[i])
    BY <1>6 DEF CountersAt, Sound
  <2> QED BY <1>1, <1>7, <2>1, CountersKept
<1>12. ScanAt'
  <2>1. \A i, j \in DOMAIN procs : procs[i].pid = procs[j].pid => i = j
    BY DEF ScanAt
  <2>2. \A m, n \in DOMAIN procs' : procs'[m].pid = procs'[n].pid => m = n
    BY <1>4, <1>8, <2>1
  <2>3. \A i, j \in DOMAIN next' : next'[i].pid = next'[j].pid => i = j
    BY <1>5, <1>6, <1>7, <2>1
  <2>4. \A n \in DOMAIN procs' : \E i \in DOMAIN next' : next'[i].pid = procs'[n].pid
    BY <1>4, <1>5, <1>6, <1>7, <1>8
  <2>5. ASSUME NEW i \in DOMAIN next'
        PROVE  /\ next'[i].pid # 0
               /\ next'[i].vis <=> \E n \in DOMAIN procs' : procs'[n].pid = next'[i].pid
    <3>1. i \in DOMAIN procs /\ next'[i].pid = procs[i].pid /\ procs[i].pid \in Pids
      BY <1>5, <1>6, <1>7, <2>5
    <3>2. next'[i].vis = (i \in Range(kept))
      BY <1>6, <1>7, <2>5
    <3>3. i \in Range(kept) <=> \E n \in 1 .. k : kept[n] = i
      BY <1>4 DEF Range
    <3>4. ASSUME NEW n \in 1 .. k
          PROVE  kept[n] = i <=> procs'[n].pid = procs[i].pid
      BY <1>4, <1>8, <2>1, <3>1
    <3> QED BY <1>8, <3>1, <3>2, <3>3, <3>4
  <2>6. tick'.wall_now = (phase' + tick'.at) \div Sec
    BY <1>1, <1>9 DEF ScanAt, Scanning
  <2> QED BY <1>9, <2>2, <2>3, <2>4, <2>5, <2>6 DEF ScanAt
<1>13. TimesAt'
  BY <1>9 DEF TimesAt
<1>14. SettledExact'
  <2>1. \A n \in DOMAIN procs' : \E i \in DOMAIN procs : procs'[n] = procs[i]
    BY <1>4, <1>8
  <2> QED BY <1>1, <1>9, <2>1, RowsSettled
<1> QED BY <1>10, <1>11, <1>12, <1>13, <1>14

(* The next tick finds what this one pushed, each entry under its own pid. *)
LEMMA EndTickInv ==
  ASSUME CpuInv, EndTick
  PROVE  CpuInv'
<1> USE CpuTypes, Constants DEF CpuInv
<1> DEFINE Has(p) == \E i \in DOMAIN next : next[i].pid = p
<1>1. /\ tick.stage = "filtered" /\ shown' = {procs[i].pid : i \in DOMAIN procs}
      /\ prev_tick_time' = tick.at /\ tick' = Idle /\ procs' = <<>> /\ next' = <<>>
      /\ now' = now /\ gen' = gen /\ proc' = proc /\ phase' = phase /\ boot' = boot
      /\ os' = os
  BY DEF EndTick, world
<1>2. prev' = [p \in Pids |-> IF Has(p) THEN next[CHOOSE i \in DOMAIN next : next[i].pid = p]
                              ELSE Absent]
  BY DEF EndTick
<1>3. ASSUME NEW p \in Pids
      PROVE  \/ ~Has(p) /\ prev'[p] = Absent
             \/ \E i \in DOMAIN next : next[i].pid = p /\ prev'[p] = next[i]
  BY <1>2
<1>4. Absent \in Kept /\ Sound(Absent)
  <2>1. Bits(0) = 0
    <3>1. 0 \div Grain = 0 /\ 0 % Modulus = 0
      <4>1. Grain * 0 + 0 = 0 /\ Modulus * 0 + 0 = 0
        OBVIOUS
      <4> QED BY <4>1, ModIs
    <3> QED BY <3>1 DEF Bits
  <2>2. /\ Absent.pid = 0 /\ Absent.bits = 0 /\ Absent.total = 0
    BY DEF Absent
  <2>3. Absent \in Kept
    BY DEF Absent, Kept
  <2> QED BY <2>1, <2>2, <2>3 DEF Sound
<1>5. prev' \in [Pids -> Kept]
  <2>1. \A p \in Pids : prev'[p] \in Kept
    BY <1>3, <1>4
  <2> QED BY <1>2, <2>1
<1>6. TypeOK'
  <2>1. shown' \subseteq Pids
    BY <1>1
  <2>2. prev_tick_time' \in 0 .. now'
    BY <1>1
  <2>3. tick' \in [at : 0 .. now', wall_now : Nat, dt : Nat, i : Nat,
                  stage : {"idle", "scan", "times", "filtered"}]
    BY <1>1 DEF Idle
  <2>4. procs' \in Seq(Row) /\ next' \in Seq(Kept)
    BY <1>1
  <2>5. /\ now' \in Nat /\ phase' \in 0 .. Sec - 1 /\ boot' \in 0 .. 1 /\ os' \in Systems
        /\ proc' \in [Pids -> [gen : Nat, born : 0 .. now', total : Nat]]
        /\ gen' \in [Pids -> Nat]
    BY <1>1 DEF TypeOK
  <2> HIDE DEF CpuInv
  <2> QED BY ONLY <1>5, <2>1, <2>2, <2>3, <2>4, <2>5 DEF TypeOK
<1>7. CountersAt'
  <2>1. \A e : Sound(e)' <=> Sound(e)
    BY <1>1 DEF Sound, Bits
  <2>2. ASSUME NEW p \in Pids
        PROVE  /\ prev'[p] = Absent \/ prev'[p].pid = p
               /\ Sound(prev'[p]) /\ (prev'[p].vis <=> p \in shown')
    <3>1. CASE ~Has(p) /\ prev'[p] = Absent
      <4>1. ASSUME NEW n \in DOMAIN procs, procs[n].pid = p PROVE FALSE
        <5>1. \E i \in DOMAIN next : next[i].pid = procs[n].pid
          BY <1>1, <4>1 DEF ScanAt
        <5> QED BY <3>1, <4>1, <5>1
      <4>2. p \notin shown'
        BY <1>1, <4>1
      <4> QED BY <1>4, <3>1, <4>2 DEF Absent
    <3>2. CASE \E i \in DOMAIN next : next[i].pid = p /\ prev'[p] = next[i]
      <4>1. PICK i \in DOMAIN next : next[i].pid = p /\ prev'[p] = next[i]
        BY <3>2
      <4>2. next[i].vis <=> \E n \in DOMAIN procs : procs[n].pid = next[i].pid
        BY <1>1 DEF ScanAt
      <4> QED BY <1>1, <4>1, <4>2 DEF CountersAt
    <3> QED BY <1>3, <3>1, <3>2
  <2>3. \A p \in Pids : Sound(prev[p])'
    BY <1>1, <2>2 DEF Sound, Bits
  <2>4. DOMAIN next' = {}
    BY <1>1
  <2> QED BY <1>1, <2>2, <2>3, <2>4 DEF CountersAt
<1>8. ScanAt' /\ TimesAt' /\ SettledExact'
  <2>1. tick'.stage = "idle" /\ DOMAIN procs' = {} /\ DOMAIN next' = {}
    BY <1>1 DEF Idle
  <2> QED BY <1>1, <2>1 DEF ScanAt, TimesAt, SettledExact
<1> QED BY <1>6, <1>7, <1>8

----------------------------------------------------------------------------
(* The theorems                                                            *)

(* Every step of the processes and of the tick keeps the invariant.        *)
LEMMA CpuStepInv ==
  ASSUME CpuInv, [Next]_vars
  PROVE  CpuInv'
<1>1. CASE Elapse
  BY <1>1, ElapseInv
<1>2. CASE \E p \in Pids : Fork(p)
  BY <1>2, ForkInv
<1>3. CASE \E p \in Pids : Exit(p)
  BY <1>3, ExitInv
<1>4. CASE BeginTick
  BY <1>4, BeginTickInv
<1>5. CASE StatFails
  BY <1>5, StatFailsInv
<1>6. CASE Stat
  BY <1>6, StatInv
<1>7. CASE ReadTimes
  BY <1>7, ReadTimesInv
<1>8. CASE ReadAge
  BY <1>8, ReadAgeInv
<1>9. CASE Filter
  BY <1>9, FilterInv
<1>10. CASE EndTick
  BY <1>10, EndTickInv
<1>11. CASE UNCHANGED vars
  BY <1>11 DEF CpuInv, TypeOK, CountersAt, ScanAt, TimesAt, SettledExact, Settled, Sound, Bits,
               SameProcess, I, vars, world
<1> QED BY <1>1, <1>2, <1>3, <1>4, <1>5, <1>6, <1>7, <1>8, <1>9, <1>10, <1>11
        DEF Next, Machine

(* ltop starts in the first second after boot, with nothing sampled.       *)
LEMMA CpuStart ==
  ASSUME Init
  PROVE  CpuInv
<1> USE Constants
<1>1. /\ now \in 0 .. Sec - 1 /\ phase \in 0 .. Sec - 1
      /\ boot = (phase + now) \div Sec - now \div Sec /\ os \in Systems
      /\ proc = [p \in Pids |-> Dead] /\ gen = [p \in Pids |-> 0]
      /\ prev = [p \in Pids |-> Absent] /\ prev_tick_time = now
      /\ tick = Idle /\ procs = <<>> /\ next = <<>> /\ shown = {}
  BY DEF Init
<1>2. boot \in 0 .. 1
  <2>1. now \div Sec = 0
    <3>1. Sec * 0 + now = now /\ now \in 0 .. Sec - 1
      BY <1>1
    <3> QED BY <3>1, ModIs
  <2>2. (phase + now) \div Sec \in 0 .. 1
    <3> DEFINE d == (phase + now) \div Sec
    <3>1. phase + now \in Nat /\ phase + now \in Int /\ phase + now < Sec * 2
      BY <1>1
    <3>2. d \in Nat /\ Sec * d <= phase + now
      BY <3>1, DivFacts
    <3> HIDE DEF d
    <3>3. Sec * d < Sec * 2
      <4>1. Sec * d \in Int
        BY <3>2
      <4> QED BY <3>1, <3>2, <4>1
    <3>4. d < 2
      BY <3>2, <3>3, MulLess
    <3> QED BY <3>2, <3>4 DEF d
  <2> QED BY <1>1, <2>1, <2>2
<1>3. Absent \in Kept /\ Sound(Absent)
  <2>1. Bits(0) = 0
    <3>1. 0 \div Grain = 0 /\ 0 % Modulus = 0
      <4>1. Grain * 0 + 0 = 0 /\ Modulus * 0 + 0 = 0
        OBVIOUS
      <4> QED BY <4>1, ModIs
    <3> QED BY <3>1 DEF Bits
  <2>2. Absent.pid = 0 /\ Absent.bits = 0 /\ Absent.total = 0 /\ Absent.vis = FALSE
    BY DEF Absent
  <2>3. Absent \in Kept
    BY DEF Absent, Kept
  <2> QED BY <2>1, <2>2, <2>3 DEF Sound
<1>4. TypeOK
  <2>1. Dead \in [gen : Nat, born : 0 .. now, total : Nat]
    BY <1>1 DEF Dead
  <2>2. proc \in [Pids -> [gen : Nat, born : 0 .. now, total : Nat]]
    BY <1>1, <2>1
  <2>3. tick \in [at : 0 .. now, wall_now : Nat, dt : Nat, i : Nat,
                 stage : {"idle", "scan", "times", "filtered"}]
    BY <1>1 DEF Idle
  <2>4. prev_tick_time \in 0 .. now /\ now \in Nat
    BY <1>1
  <2> QED BY <1>1, <1>2, <1>3, <2>2, <2>3, <2>4 DEF TypeOK
<1>5. CountersAt
  <2>1. \A p \in Pids : proc[p].gen = 0 /\ prev[p] = Absent /\ p \notin shown
    BY <1>1 DEF Dead
  <2>2. DOMAIN next = {}
    BY <1>1
  <2> QED BY <1>3, <2>1, <2>2 DEF CountersAt, Absent
<1>6. ScanAt /\ TimesAt /\ SettledExact
  <2>1. tick.stage = "idle" /\ DOMAIN procs = {} /\ DOMAIN next = {}
    BY <1>1 DEF Idle
  <2> QED BY <1>1, <2>1 DEF ScanAt, TimesAt, SettledExact
<1> QED BY <1>4, <1>5, <1>6 DEF CpuInv

(* The invariant of sampling, for every set of pids, second, counter width *)
(* and number of cores: compute_cpu and the code that lists, reads and     *)
(* filters the processes never leave it.                                   *)
THEOREM CpuInductive == Spec => []CpuInv
<1>1. Init => CpuInv
  BY CpuStart
<1>2. CpuInv /\ [Next]_vars => CpuInv'
  BY CpuStepInv
<1> QED BY <1>1, <1>2, PTL DEF Spec

(* SettledExact of the run cpu_settled: what compute_cpu says of a settled *)
(* process is what it accrued, wherever its counter wraps and however the  *)
(* three clocks are cut; where the two calls of macOS met two processes it *)
(* says nothing.                                                           *)
THEOREM SettledAlwaysExact == Spec => []SettledExact
<1>1. CpuInv => SettledExact
  BY DEF CpuInv
<1> QED BY <1>1, CpuInductive, PTL

(* Lockstep of the run labels: a failed stat cannot shift the entries      *)
(* against the rows, and the shown bits are those of the last frame.       *)
THEOREM AlwaysInLockstep == Spec => []Lockstep
<1>1. CpuInv => Lockstep
  BY DEF CpuInv, ScanAt, CountersAt, Lockstep, Scanning
<1> QED BY <1>1, CpuInductive, PTL

----------------------------------------------------------------------------
(* Labels                                                                  *)

(* The label pass and the writers leave sampling alone, a process that     *)
(* leaves exits, and the pass is over before the tick is.                  *)
LEMMA LabelsSample ==
  ASSUME [LNext]_lvars
  PROVE  [Next]_vars
<1>1. CASE Sampling
  BY <1>1 DEF Sampling, Leave, Next, Machine
<1>2. CASE Writer
  BY <1>2 DEF Writer, CleanUp, TidyUp, Publish
<1>3. CASE LabelPass
  BY <1>3 DEF LabelPass, OpenDir, NoDir, Refill, EndOfDir, CutShort, SkipName, CheckStart, Unlink,
              UnlinkFails, Show, PassOver, NextName
<1>4. CASE LabelledTick
  BY <1>4 DEF LabelledTick, Next
<1> QED BY <1>1, <1>2, <1>3, <1>4 DEF LNext, lvars

(* What the processes may do in one step: a pid's process changes only     *)
(* from one that is older than now to none, or from none to one born now.  *)
Lives(p) ==
  /\ gen'[p] \in Nat /\ gen[p] <= gen'[p] /\ proc'[p].gen \in Nat /\ proc'[p].born \in Nat
  /\ \/ proc'[p].gen = proc[p].gen /\ proc'[p].born = proc[p].born
     \/ proc[p].gen # 0 /\ proc[p].born < now /\ proc'[p].gen = 0
     \/ proc[p].gen = 0 /\ proc'[p].gen = gen[p] + 1 /\ proc'[p].born = now

(* Every step of sampling is one in which processes live so.               *)
LEMMA SamplingLives ==
  ASSUME CpuInv, CpuInv', Sampling
  PROVE  now' \in Nat /\ now <= now' /\ \A p \in Pids : Lives(p)
<1> USE CpuTypes DEF CpuInv
<1>1. \A p \in Pids : gen'[p] \in Nat /\ proc'[p].gen \in Nat /\ proc'[p].born \in Nat
  <2>1. TypeOK'
    BY DEF CpuInv
  <2>2. now' \in Nat /\ gen' \in [Pids -> Nat]
        /\ proc' \in [Pids -> [gen : Nat, born : 0 .. now', total : Nat]]
    BY <2>1 DEF TypeOK
  <2>3. \A p \in Pids : proc'[p] \in [gen : Nat, born : 0 .. now', total : Nat]
    BY <2>2
  <2> QED BY ONLY <2>2, <2>3
<1>2. CASE Elapse
  <2>1. PICK used \in [Pids -> 0 .. Rate] :
          proc' = [p \in Pids |-> IF proc[p].gen = 0 THEN proc[p]
                                  ELSE [proc[p] EXCEPT !.total = @ + used[p]]]
    BY <1>2 DEF Elapse
  <2>2. ASSUME NEW p \in Pids PROVE proc'[p].gen = proc[p].gen /\ proc'[p].born = proc[p].born
    <3>1. proc[p] \in [gen : Nat, born : 0 .. now, total : Nat]
      BY DEF TypeOK
    <3> QED BY <2>1, <3>1
  <2>3. now' = now + 1 /\ gen' = gen
    BY <1>2 DEF Elapse
  <2> QED BY <1>1, <2>2, <2>3 DEF Lives
<1>3. ASSUME NEW q \in Pids, Fork(q)
      PROVE  now' = now /\ \A p \in Pids : Lives(p)
  <2>1. /\ now' = now /\ proc[q].gen = 0 /\ gen' = [gen EXCEPT ![q] = @ + 1]
        /\ proc' = [proc EXCEPT ![q] = [gen |-> gen[q] + 1, born |-> now, total |-> 0]]
    BY <1>3 DEF Fork
  <2>2. ASSUME NEW p \in Pids
        PROVE  \/ p = q /\ gen'[p] = gen[p] + 1 /\ proc'[p].gen = gen[p] + 1 /\ proc'[p].born = now
               \/ p # q /\ gen'[p] = gen[p] /\ proc'[p] = proc[p]
    BY <2>1 DEF TypeOK
  <2> QED BY <1>1, <2>1, <2>2 DEF Lives
<1>4. ASSUME NEW q \in Pids, Leave(q)
      PROVE  now' = now /\ \A p \in Pids : Lives(p)
  <2>1. /\ now' = now /\ proc[q].gen # 0 /\ gen' = gen /\ proc[q].born < now
        /\ proc' = [proc EXCEPT ![q] = Dead]
    BY <1>4 DEF Leave, Exit
  <2>2. ASSUME NEW p \in Pids
        PROVE  \/ p = q /\ proc'[p].gen = 0
               \/ p # q /\ proc'[p] = proc[p]
    BY <2>1 DEF TypeOK, Dead
  <2> QED BY <1>1, <2>1, <2>2 DEF Lives
<1>5. CASE BeginTick \/ StatFails \/ Stat \/ Filter
  <2>1. now' = now /\ gen' = gen /\ proc' = proc
    BY <1>5 DEF BeginTick, StatFails, Stat, Filter, world
  <2> QED BY <1>1, <2>1 DEF Lives
<1> QED BY <1>2, <1>3, <1>4, <1>5 DEF Sampling

(* A spent name stays spent.                                               *)
LEMMA SpentStays ==
  ASSUME CpuInv, now' \in Nat, now <= now', NEW name \in Names, Lives(name.pid), Spent(name)
  PROVE  Spent(name)'
<1> DEFINE p == name.pid
<1>1. now \in Nat /\ now' \in Int /\ name.start \in Int /\ p \in Pids
  BY CpuTypes DEF CpuInv, Names
<1>2. /\ name.start # NO_START /\ name.start < now
      /\ ~(proc[p].gen # 0 /\ proc[p].born = name.start)
  BY DEF Spent, SameStart, Owner
<1>3. \/ proc'[p].gen = proc[p].gen /\ proc'[p].born = proc[p].born
      \/ proc'[p].gen = 0
      \/ proc'[p].born = now
  BY DEF Lives
<1> HIDE DEF p
<1>4. ~(proc'[p].gen # 0 /\ proc'[p].born = name.start)
  BY ONLY <1>1, <1>2, <1>3
<1>5. name.start < now'
  BY <1>1, <1>2
<1> QED BY <1>2, <1>4, <1>5 DEF Spent, SameStart, Owner, p, NO_START

(* The name of a living process names it until it is spent.                *)
LEMMA NameStays ==
  ASSUME CpuInv, now' \in Nat, now <= now', NEW name \in Names, Lives(name.pid),
         name.start # NO_START, SameStart(name)
  PROVE  \/ SameStart(name)' /\ proc'[name.pid].gen = proc[name.pid].gen
         \/ Spent(name)' /\ proc'[name.pid].gen = 0
<1> DEFINE p == name.pid
<1>1. now \in Nat /\ now' \in Int /\ name.start \in Int /\ p \in Pids
  BY CpuTypes DEF CpuInv, Names
<1>2. proc[p].gen # 0 /\ proc[p].born = name.start
  BY DEF SameStart, Owner
<1>3. \/ proc'[p].gen = proc[p].gen /\ proc'[p].born = proc[p].born
      \/ proc[p].born < now /\ proc'[p].gen = 0
  BY <1>2 DEF Lives
<1> HIDE DEF p
<1>4. CASE proc'[p].gen = proc[p].gen /\ proc'[p].born = proc[p].born
  BY <1>2, <1>4 DEF SameStart, Owner, p
<1>5. CASE proc[p].born < now /\ proc'[p].gen = 0
  <2>1. name.start < now'
    BY <1>1, <1>2, <1>5
  <2> QED BY <1>5, <2>1 DEF Spent, SameStart, Owner, p, NO_START
<1> QED BY <1>3, <1>4, <1>5

(* What the typing of labels gives.                                        *)
LEMMA LabelTypes ==
  ASSUME LabelsInv
  PROVE  /\ DOMAIN files \subseteq Names /\ dir.batch \subseteq Names
         /\ dir.seen \subseteq Names /\ dir.stale \subseteq Names /\ dir.due \subseteq Names
         /\ dir.kept \subseteq Names /\ dir.cut \in BOOLEAN
         /\ \A name \in Names : name.pid \in Pids /\ name.start \in Int
         /\ \A name \in DOMAIN files : files[name] \in Nat
BY DEF LabelsInv, LabelsType, DirType, Names

(* A label stays its writer's while processes live.                        *)
LEMMA FileStays ==
  ASSUME CpuInv, now' \in Nat, now <= now', NEW name \in Names, Lives(name.pid),
         name.start # NO_START, NEW of \in 1 .. gen[name.pid],
         \/ of = proc[name.pid].gen /\ SameStart(name)
         \/ of # proc[name.pid].gen /\ Spent(name)
  PROVE  /\ of \in 1 .. gen'[name.pid]
         /\ \/ of = proc'[name.pid].gen /\ SameStart(name)'
            \/ of # proc'[name.pid].gen /\ Spent(name)'
<1>1. name.pid \in Pids /\ gen[name.pid] \in Nat /\ proc[name.pid].gen \in Nat
  BY CpuTypes DEF CpuInv, Names
<1>2. of \in 1 .. gen'[name.pid]
  BY <1>1 DEF Lives
<1>3. CASE of = proc[name.pid].gen /\ SameStart(name)
  BY <1>1, <1>2, <1>3, NameStays
<1>4. CASE of # proc[name.pid].gen /\ Spent(name)
  <2>1. Spent(name)'
    BY <1>4, SpentStays
  <2>2. of # proc'[name.pid].gen
    BY <1>1, <1>4 DEF Lives
  <2> QED BY <1>2, <2>1, <2>2
<1> QED BY <1>3, <1>4

(* Rows are of processes that were there, whatever is read.                *)
LEMMA RowsStay ==
  ASSUME CpuInv, CpuInv', Sampling, \A i \in DOMAIN procs : procs[i].of <= gen[procs[i].pid]
  PROVE  \A i \in DOMAIN procs' : procs'[i].of <= gen'[procs'[i].pid]
<1> USE CpuTypes DEF CpuInv
<1>1. \A p \in Pids : gen'[p] \in Nat /\ gen[p] <= gen'[p]
  BY SamplingLives DEF Lives
<1>2. \A i \in DOMAIN procs' : procs'[i].pid \in Pids
  <2>1. procs' \in Seq(Row)
    BY DEF TypeOK
  <2>2. \A i \in DOMAIN procs' : procs'[i] \in Row
    BY <2>1
  <2> QED BY <2>2 DEF Row
<1>3. ASSUME NEW i \in DOMAIN procs'
      PROVE  \/ procs'[i].of = 0
             \/ \E j \in DOMAIN procs : procs'[i] = procs[j]
             \/ procs'[i].of = proc[procs'[i].pid].gen
  <2>1. CASE procs' = procs
    BY <1>3, <2>1
  <2>2. CASE BeginTick
    BY <1>3, <2>2 DEF BeginTick, Stub
  <2>3. CASE Stat
    <3>1. procs \in Seq(Row) /\ I \in DOMAIN procs
      BY <2>3, RowInHand DEF TypeOK, Stat
    <3>2. \/ i = I /\ procs'[i].of = proc[procs[I].pid].gen /\ procs'[i].pid = procs[I].pid
          \/ i # I /\ i \in DOMAIN procs /\ procs'[i] = procs[i]
      BY <1>3, <2>3, <3>1 DEF Stat
    <3> QED BY <3>2
  <2>4. CASE Filter
    <3>1. PICK kept \in Retained : procs' = [n \in DOMAIN kept |-> procs[kept[n]]]
      BY <2>4 DEF Filter
    <3>2. \A n \in DOMAIN kept : kept[n] \in DOMAIN procs
      BY DEF Retained
    <3> QED BY <1>3, <3>1, <3>2
  <2> QED BY <2>1, <2>2, <2>3, <2>4
          DEF Sampling, Elapse, Fork, Leave, Exit, StatFails
<1>4. ASSUME NEW i \in DOMAIN procs' PROVE procs'[i].of <= gen'[procs'[i].pid]
  <2>1. CASE procs'[i].of = 0
    BY <1>1, <1>2, <1>4, <2>1
  <2>2. CASE \E j \in DOMAIN procs : procs'[i] = procs[j]
    <3>1. PICK j \in DOMAIN procs : procs'[i] = procs[j]
      BY <2>2
    <3>2. procs[j].of <= gen[procs[j].pid] /\ procs[j].pid \in Pids /\ procs[j].of \in Nat
      BY DEF Row
    <3> QED BY <1>1, <3>1, <3>2
  <2>3. CASE procs'[i].of = proc[procs'[i].pid].gen
    <3>1. proc[procs'[i].pid].gen \in {0, gen[procs'[i].pid]}
      BY <1>2, <1>4 DEF CountersAt
    <3>2. procs'[i].pid \in Pids /\ gen[procs'[i].pid] \in Nat
      BY <1>2, <1>4
    <3> QED BY <1>1, <2>3, <3>1, <3>2
  <2> QED BY <1>3, <1>4, <2>1, <2>2, <2>3
<1> QED BY <1>4

(* Processes and the scan leave the labels as they are.                    *)
LEMMA SamplingLabels ==
  ASSUME LabelsInv, CpuInv', Sampling, UNCHANGED <<files, dir, display>>
  PROVE  LabelsInv'
<1> USE LabelTypes DEF LabelsInv
<1>1. now' \in Nat /\ now <= now' /\ \A p \in Pids : Lives(p)
  BY SamplingLives
<1>2. \/ tick.stage = "filtered" /\ procs' = procs /\ tick' = tick
      \/ tick.stage # "filtered" /\ dir = Closed /\ \A p \in Pids : display[p] = 0
  BY DEF Sampling, Elapse, Fork, Leave, Exit, BeginTick, StatFails, Stat, Filter, Scanning, RowsAt
<1>3. LabelsType'
  BY DEF LabelsType, DirType
<1>4. FilesAt'
  <2>1. ASSUME NEW name \in DOMAIN files, name.start # NO_START
        PROVE  /\ files[name] \in 1 .. gen'[name.pid]
               /\ \/ files[name] = proc'[name.pid].gen /\ SameStart(name)'
                  \/ files[name] # proc'[name.pid].gen /\ Spent(name)'
    <3>1. /\ files[name] \in 1 .. gen[name.pid]
          /\ \/ files[name] = proc[name.pid].gen /\ SameStart(name)
             \/ files[name] # proc[name.pid].gen /\ Spent(name)
      BY <2>1 DEF FilesAt, Owner
    <3>2. name \in Names /\ Lives(name.pid)
      BY <1>1
    <3> QED BY <1>1, <2>1, <3>1, <3>2, FileStays
  <2> QED BY <2>1 DEF FilesAt, Owner
<1>5. RowsAt'
  <2>1. \A i \in DOMAIN procs' : procs'[i].of <= gen'[procs'[i].pid]
    BY RowsStay DEF RowsAt
  <2> QED BY <1>2, <2>1 DEF RowsAt
<1>6. HandAt'
  <2>1. \A name \in dir.batch : name.start # NO_START => SameStart(name)' \/ Spent(name)'
    BY <1>1, SpentStays, NameStays DEF HandAt
  <2>2. ASSUME dir.pc = "checked"
        PROVE  /\ dir.at \in Names /\ dir.at.start # NO_START
               /\ dir.matches => \A i \in DOMAIN procs' :
                    procs'[i].pid = dir.at.pid /\ dir.at \in DOMAIN files
                      => procs'[i].of <= files[dir.at]
               /\ ~dir.matches /\ ~Flaky => Spent(dir.at)'
    <3>1. procs' = procs
      BY <1>2, <2>2 DEF Closed
    <3>2. dir.at \in Names /\ Lives(dir.at.pid)
      BY <1>1, <2>2 DEF HandAt
    <3>3. Spent(dir.at) => Spent(dir.at)'
      <4>1. ASSUME NEW name \in Names, name = dir.at, Spent(name) PROVE Spent(name)'
        BY <1>1, <4>1, SpentStays
      <4> QED BY <3>2, <4>1 DEF Spent, SameStart, Owner
    <3> QED BY <2>2, <3>1, <3>2, <3>3 DEF HandAt
  <2> QED BY <2>1, <2>2 DEF HandAt, Spent, SameStart, Owner
<1>7. StaleAt'
  <2>1. \A name \in dir.stale : Spent(name)'
    BY <1>1, SpentStays DEF StaleAt
  <2> QED BY <2>1 DEF StaleAt
<1>8. NotInherited'
  <2>1. CASE procs' = procs
    BY <2>1 DEF NotInherited
  <2>2. CASE \A p \in Pids : display[p] = 0
    BY <2>2 DEF NotInherited
  <2> QED BY <1>2, <2>1, <2>2
<1> QED BY <1>3, <1>4, <1>5, <1>6, <1>7, <1>8

(* Where no process moves, names mean what they did.                       *)
LEMMA NamesStill ==
  ASSUME CpuInv, UNCHANGED vars
  PROVE  /\ CpuInv' /\ \A name : (Spent(name)' <=> Spent(name))
         /\ \A name : (SameStart(name)' <=> SameStart(name)) /\ Owner(name)' = Owner(name)
         /\ now' = now /\ proc' = proc /\ gen' = gen /\ procs' = procs /\ tick' = tick
<1>1. CpuInv'
  BY CpuStepInv
<1> QED BY <1>1 DEF Spent, SameStart, Owner, vars, world

(* Labels that are written name the process that writes them.              *)
LEMMA WriterInv ==
  ASSUME LabelsInv, Writer
  PROVE  LabelsInv'
<1> USE LabelTypes DEF LabelsInv
<1>1. UNCHANGED <<vars, dir, display>>
  BY DEF Writer, CleanUp, TidyUp, Publish
<1>2. /\ CpuInv' /\ \A name : (Spent(name)' <=> Spent(name))
      /\ \A name : (SameStart(name)' <=> SameStart(name)) /\ Owner(name)' = Owner(name)
      /\ proc' = proc /\ gen' = gen /\ procs' = procs /\ tick' = tick
  BY <1>1, NamesStill
<1> DEFINE Written ==
      /\ files' \in [DOMAIN files' -> Nat]
      /\ \A name \in DOMAIN files' :
           \/ name \in DOMAIN files /\ files'[name] = files[name]
           \/ name \in Names /\ SameStart(name) /\ files'[name] = Owner(name).gen
<1>3. Written
  <2>1. ASSUME NEW names, files' = Without(names)
        PROVE  Written
    BY <2>1 DEF Without, LabelsType
  <2>2. ASSUME NEW p \in Pids, Publish(p)
        PROVE  Written
    <3> DEFINE new == Name(p, proc[p].born)
    <3>1. /\ proc[p].gen # 0
          /\ files' = [n \in DOMAIN files \cup {new} |->
                        IF n = new THEN proc[p].gen ELSE files[n]]
      BY <2>2 DEF Publish
    <3>2. proc[p].gen \in Nat /\ proc[p].born \in Int
      BY CpuTypes DEF CpuInv
    <3>3. new \in Names /\ SameStart(new) /\ Owner(new).gen = proc[p].gen
      BY <3>1, <3>2 DEF Name, Names, SameStart, Owner
    <3> HIDE DEF new
    <3>4. DOMAIN files' = DOMAIN files \cup {new}
      BY <3>1
    <3>5. proc[p].gen \in Nat
      BY <3>2
    <3>6. files' \in [DOMAIN files' -> Nat]
      BY <3>1, <3>4, <3>5
    <3> QED BY <3>1, <3>3, <3>4, <3>6
  <2> QED BY <2>1, <2>2, LabelsAssumption DEF Writer, CleanUp, TidyUp
<1>4. LabelsType'
  BY <1>1, <1>3 DEF LabelsType, DirType
<1>5. FilesAt'
  <2>1. ASSUME NEW name \in Names, SameStart(name)
        PROVE  Owner(name).gen \in 1 .. gen[name.pid]
    <3>1. /\ proc[name.pid].gen \in {0, gen[name.pid]} /\ proc[name.pid].gen # 0
          /\ gen[name.pid] \in Nat
      BY <2>1, CpuTypes DEF CpuInv, CountersAt, SameStart, Owner
    <3> QED BY <3>1 DEF Owner
  <2>2. ASSUME NEW name \in DOMAIN files', name.start # NO_START
        PROVE  /\ files'[name] \in 1 .. gen[name.pid]
               /\ \/ files'[name] = Owner(name).gen /\ SameStart(name)
                  \/ files'[name] # Owner(name).gen /\ Spent(name)
    BY <1>3, <2>1, <2>2 DEF FilesAt
  <2> QED BY <1>2, <2>2 DEF FilesAt
<1>6. RowsAt'
  BY <1>1, <1>2 DEF RowsAt
<1>7. HandAt'
  <2>1. ASSUME dir.pc = "checked", dir.matches, dir.at \in DOMAIN files',
               NEW i \in DOMAIN procs, procs[i].pid = dir.at.pid
        PROVE  procs[i].of <= files'[dir.at]
    <3>1. CASE dir.at \in DOMAIN files /\ files'[dir.at] = files[dir.at]
      BY <2>1, <3>1 DEF HandAt
    <3>2. CASE /\ dir.at \in Names /\ SameStart(dir.at)
               /\ files'[dir.at] = Owner(dir.at).gen
      <4>1. proc[dir.at.pid].gen = gen[dir.at.pid]
        BY <3>2 DEF CpuInv, CountersAt, SameStart, Owner
      <4> QED BY <2>1, <3>2, <4>1 DEF RowsAt, Owner
    <3> QED BY <1>3, <2>1, <3>1, <3>2
  <2>2. \A name \in dir.batch : name.start # NO_START => SameStart(name) \/ Spent(name)
    BY DEF HandAt
  <2>3. dir.pc = "checked" =>
          /\ dir.at \in Names /\ dir.at.start # NO_START
          /\ ~dir.matches /\ ~Flaky => Spent(dir.at)
    BY DEF HandAt
  <2>4. dir' = dir
    BY <1>1
  <2> QED BY <1>2, <2>1, <2>2, <2>3, <2>4 DEF HandAt, Spent, SameStart, Owner
<1>8. StaleAt'
  <2>1. \A name \in dir.stale : name \in DOMAIN files' => name \in DOMAIN files
    BY <1>3 DEF StaleAt, Spent
  <2> QED BY <1>1, <1>2, <2>1 DEF StaleAt
<1>9. NotInherited'
  BY <1>1, <1>2 DEF NotInherited
<1> QED BY <1>2, <1>4, <1>5, <1>6, <1>7, <1>8, <1>9

(* A step of the pass that touches no file and no row.                     *)
LEMMA PassInv ==
  ASSUME LabelsInv, UNCHANGED <<vars, files, display>>, tick.stage = "filtered",
         LabelsType', HandAt', StaleAt'
  PROVE  LabelsInv'
<1> USE DEF LabelsInv
<1>1. /\ CpuInv' /\ \A name : (Spent(name)' <=> Spent(name))
      /\ \A name : (SameStart(name)' <=> SameStart(name)) /\ Owner(name)' = Owner(name)
      /\ gen' = gen /\ procs' = procs /\ tick' = tick
  BY NamesStill
<1>2. FilesAt'
  BY <1>1 DEF FilesAt
<1>3. RowsAt'
  BY <1>1 DEF RowsAt
<1>4. NotInherited'
  BY <1>1 DEF NotInherited
<1> QED BY <1>1, <1>2, <1>3, <1>4

(* A pass runs after the filter.                                           *)
LEMMA PassFiltered ==
  ASSUME LabelsInv, dir.pc # "closed"
  PROVE  tick.stage = "filtered"
BY DEF LabelsInv, RowsAt, Closed

(* The stale labels are all still to come when the directory is opened.    *)
LEMMA OpenDirInv ==
  ASSUME LabelsInv, OpenDir
  PROVE  LabelsInv'
<1> USE LabelTypes DEF LabelsInv
<1>1. /\ UNCHANGED <<vars, files, display>> /\ tick.stage = "filtered"
      /\ dir' = [pc |-> "open", due |-> DOMAIN files, batch |-> {}, seen |-> {},
                 at |-> Closed.at, matches |-> FALSE,
                 stale |-> {n \in DOMAIN files : Orphan(n)}, kept |-> {}, cut |-> FALSE]
  BY DEF OpenDir, Closed
<1>2. \A name : Spent(name)' <=> Spent(name)
  BY <1>1, NamesStill
<1>3. LabelsType'
  BY <1>1 DEF LabelsType, DirType
<1>4. HandAt'
  BY <1>1 DEF HandAt
<1>5. StaleAt'
  <2>1. \A name \in dir'.stale : /\ Spent(name) /\ dir'.pc = "open"
                                   /\ name \in dir'.due \ dir'.seen
    BY <1>1 DEF FilesAt, Orphan
  <2> QED BY <1>2, <2>1 DEF StaleAt
<1> QED BY <1>1, <1>3, <1>4, <1>5, PassInv

(* Without a directory no label is stale.                                  *)
LEMMA NoDirInv ==
  ASSUME LabelsInv, NoDir
  PROVE  LabelsInv'
<1> USE LabelTypes DEF LabelsInv
<1>1. /\ UNCHANGED <<vars, files, display>> /\ tick.stage = "filtered"
      /\ dir' = [pc |-> "done", due |-> {}, batch |-> {}, seen |-> {}, at |-> Closed.at,
                 matches |-> FALSE, stale |-> {}, kept |-> {}, cut |-> FALSE]
  BY DEF NoDir, Closed
<1>2. LabelsType'
  BY <1>1 DEF LabelsType, DirType
<1>3. HandAt'
  BY <1>1 DEF HandAt
<1>4. StaleAt'
  BY <1>1 DEF StaleAt
<1> QED BY <1>1, <1>2, <1>3, <1>4, PassInv

(* The names read are of processes that live or of none that will.         *)
LEMMA RefillInv ==
  ASSUME LabelsInv, Refill
  PROVE  LabelsInv'
<1> USE LabelTypes DEF LabelsInv
<1>1. UNCHANGED <<vars, files, display>> /\ dir.pc = "open" /\ dir.batch = {}
  BY DEF Refill
<1>2. PICK names \in SUBSET Unread :
        dir' = [dir EXCEPT !.batch = names, !.seen = @ \cup names, !.due = @ \ names]
  BY DEF Refill
<1>3. names \subseteq DOMAIN files /\ names \subseteq Names
  BY DEF Unread
<1>4. /\ dir'.pc = "open" /\ dir'.batch = names /\ dir'.seen = dir.seen \cup names
      /\ dir'.due = dir.due \ names /\ dir'.stale = dir.stale /\ dir'.kept = dir.kept
      /\ dir'.cut = dir.cut /\ LabelsType'
  BY <1>1, <1>2, <1>3 DEF LabelsType, DirType
<1>5. /\ \A name : (Spent(name)' <=> Spent(name))
      /\ \A name : (SameStart(name)' <=> SameStart(name))
  BY <1>1, NamesStill
<1>6. HandAt'
  <2>1. \A name \in names : name.start # NO_START => SameStart(name) \/ Spent(name)
    BY <1>3 DEF FilesAt
  <2> QED BY <1>4, <1>5, <2>1 DEF HandAt
<1>7. StaleAt'
  <2>1. ASSUME NEW name \in dir.stale
        PROVE  /\ Spent(name)
               /\ name \in DOMAIN files =>
                    \/ name \in dir'.due \ dir'.seen \/ name \in dir'.batch
                    \/ name \in dir'.kept \/ (dir'.cut /\ name \notin dir'.seen)
    BY <1>1, <1>4 DEF StaleAt
  <2> QED BY <1>1, <1>4, <1>5, <2>1 DEF StaleAt
<1>8. tick.stage = "filtered"
  BY <1>1, PassFiltered
<1> QED BY <1>1, <1>4, <1>6, <1>7, <1>8, PassInv

(* Every name that was there at the opening has come, or its file is gone. *)
LEMMA EndOfDirInv ==
  ASSUME LabelsInv, EndOfDir
  PROVE  LabelsInv'
<1> USE LabelTypes DEF LabelsInv
<1>1. /\ UNCHANGED <<vars, files, display>> /\ dir.pc = "open" /\ dir.batch = {}
      /\ (DOMAIN files \ dir.seen) \cap dir.due = {}
      /\ dir' = [dir EXCEPT !.pc = "done", !.due = {}]
  BY DEF EndOfDir, Unread
<1>2. /\ dir'.pc = "done" /\ dir'.batch = {} /\ dir'.seen = dir.seen /\ LabelsType'
      /\ dir'.stale = dir.stale /\ dir'.kept = dir.kept /\ dir'.cut = dir.cut
  BY <1>1 DEF LabelsType, DirType
<1>3. \A name : Spent(name)' <=> Spent(name)
  BY <1>1, NamesStill
<1>4. HandAt'
  BY <1>2 DEF HandAt
<1>5. StaleAt'
  <2>1. ASSUME NEW name \in dir.stale
        PROVE  /\ Spent(name)
               /\ name \in DOMAIN files => name \in dir.kept \/ (dir.cut /\ name \notin dir.seen)
    BY <1>1 DEF StaleAt
  <2> QED BY <1>1, <1>2, <1>3, <2>1 DEF StaleAt
<1>6. tick.stage = "filtered"
  BY <1>1, PassFiltered
<1> QED BY <1>1, <1>2, <1>4, <1>5, <1>6, PassInv

(* A listing that ends early has returned all names it had begun to.       *)
LEMMA CutShortInv ==
  ASSUME LabelsInv, CutShort
  PROVE  LabelsInv'
<1> USE LabelTypes DEF LabelsInv
<1>1. /\ UNCHANGED <<vars, files, display>> /\ dir.pc = "open" /\ dir.batch = {}
      /\ dir' = [dir EXCEPT !.pc = "done", !.due = {}, !.cut = TRUE]
  BY DEF CutShort
<1>2. /\ dir'.pc = "done" /\ dir'.batch = {} /\ dir'.seen = dir.seen /\ LabelsType'
      /\ dir'.stale = dir.stale /\ dir'.kept = dir.kept /\ dir'.cut
  BY <1>1 DEF LabelsType, DirType
<1>3. \A name : Spent(name)' <=> Spent(name)
  BY <1>1, NamesStill
<1>4. HandAt'
  BY <1>2 DEF HandAt
<1>5. StaleAt'
  <2>1. ASSUME NEW name \in dir.stale
        PROVE  Spent(name) /\ (name \in DOMAIN files => name \in dir.kept \/ name \notin dir.seen)
    BY <1>1 DEF StaleAt
  <2> QED BY <1>1, <1>2, <1>3, <2>1 DEF StaleAt
<1>6. tick.stage = "filtered"
  BY <1>1, PassFiltered
<1> QED BY <1>1, <1>2, <1>4, <1>5, <1>6, PassInv

(* A name without a start is not a label, stale or otherwise.              *)
LEMMA SkipNameInv ==
  ASSUME LabelsInv, SkipName
  PROVE  LabelsInv'
<1> USE LabelTypes DEF LabelsInv
<1>1. PICK name \in dir.batch :
        name.start = NO_START /\ dir' = [dir EXCEPT !.batch = @ \ {name}]
  BY DEF SkipName, HasStart
<1>2. UNCHANGED <<vars, files, display>> /\ dir.pc = "open"
  BY DEF SkipName
<1>3. /\ dir'.pc = "open" /\ dir'.batch = dir.batch \ {name} /\ dir'.stale = dir.stale
      /\ dir'.seen = dir.seen /\ dir'.due = dir.due /\ dir'.kept = dir.kept
      /\ dir'.cut = dir.cut /\ LabelsType'
  BY <1>1, <1>2 DEF LabelsType, DirType
<1>4. /\ \A n : (Spent(n)' <=> Spent(n))
      /\ \A n : (SameStart(n)' <=> SameStart(n))
  BY <1>2, NamesStill
<1>5. HandAt'
  BY <1>3, <1>4 DEF HandAt
<1>6. StaleAt'
  <2>1. ASSUME NEW n \in dir.stale
        PROVE  /\ Spent(n)
               /\ n \in DOMAIN files =>
                    \/ n \in dir'.due \ dir'.seen \/ n \in dir'.batch
                    \/ n \in dir'.kept \/ (dir'.cut /\ n \notin dir'.seen)
    BY <1>1, <1>2, <1>3 DEF StaleAt, Spent
  <2> QED BY <1>2, <1>3, <1>4, <2>1 DEF StaleAt
<1>7. tick.stage = "filtered"
  BY <1>2, PassFiltered
<1> QED BY <1>2, <1>3, <1>5, <1>6, <1>7, PassInv

(* A name that matches is of the process that has the pid, and so of none  *)
(* older than the row's.                                                   *)
LEMMA CheckStartInv ==
  ASSUME LabelsInv, CheckStart
  PROVE  LabelsInv'
<1> USE LabelTypes DEF LabelsInv
<1>1. PICK name \in dir.batch, read \in IF Flaky THEN BOOLEAN ELSE {TRUE} :
        /\ name.start # NO_START
        /\ dir' = [dir EXCEPT !.pc = "checked", !.batch = @ \ {name}, !.at = name,
                              !.matches = read /\ SameStart(name)]
  BY DEF CheckStart, HasStart
<1>2. UNCHANGED <<vars, files, display>> /\ dir.pc = "open"
  BY DEF CheckStart
<1>3. /\ dir'.pc = "checked" /\ dir'.batch = dir.batch \ {name} /\ dir'.stale = dir.stale
      /\ dir'.seen = dir.seen /\ dir'.due = dir.due /\ dir'.kept = dir.kept
      /\ dir'.cut = dir.cut /\ dir'.at = name
      /\ dir'.matches = (read /\ SameStart(name)) /\ LabelsType'
  BY <1>1, <1>2 DEF LabelsType, DirType
<1>4. /\ \A n : (Spent(n)' <=> Spent(n))
      /\ \A n : (SameStart(n)' <=> SameStart(n))
      /\ procs' = procs
  BY <1>2, NamesStill
<1>5. name \in Names
  OBVIOUS
<1>6. dir'.matches => SameStart(name)
  BY <1>3
<1>7. ~dir'.matches /\ ~Flaky => Spent(name)
  <2>1. ~Flaky => read = TRUE
    OBVIOUS
  <2> QED BY <1>1, <1>3, <2>1 DEF HandAt
<1>8. HandAt'
  <2>1. ASSUME SameStart(name), name \in DOMAIN files, NEW i \in DOMAIN procs,
               procs[i].pid = name.pid
        PROVE  procs[i].of <= files[name]
    <3>1. files[name] = proc[name.pid].gen
      BY <1>1, <2>1 DEF FilesAt, Owner, Spent
    <3>2. proc[name.pid].gen = gen[name.pid]
      BY <1>5, <2>1 DEF CpuInv, CountersAt, SameStart, Owner
    <3> QED BY <2>1, <3>1, <3>2 DEF RowsAt
  <2>2. \A n \in dir'.batch : n.start # NO_START => SameStart(n) \/ Spent(n)
    BY <1>3 DEF HandAt
  <2> QED BY <1>1, <1>2, <1>3, <1>4, <1>5, <1>6, <1>7, <2>1, <2>2 DEF HandAt
<1>9. StaleAt'
  <2>1. ASSUME NEW n \in dir.stale
        PROVE  /\ Spent(n)
               /\ n \in DOMAIN files =>
                    \/ n \in dir'.due \ dir'.seen \/ n \in dir'.batch
                    \/ n \in dir'.kept \/ (dir'.cut /\ n \notin dir'.seen)
                    \/ dir'.at = n /\ ~dir'.matches
    BY <1>2, <1>3, <1>6 DEF StaleAt, Spent
  <2> QED BY <1>2, <1>3, <1>4, <2>1 DEF StaleAt
<1>10. tick.stage = "filtered"
  BY <1>2, PassFiltered
<1> QED BY <1>2, <1>3, <1>8, <1>9, <1>10, PassInv

(* The entry in hand is dealt with.                                        *)
LEMMA NameDone ==
  ASSUME LabelsInv, dir.pc = "checked", NEW kept \in SUBSET Names, dir.kept \subseteq kept,
         NextName(kept), dir.matches \/ dir.at \notin DOMAIN files' \/ dir.at \in kept,
         DOMAIN files' \subseteq DOMAIN files, UNCHANGED vars
  PROVE  /\ HandAt' /\ StaleAt' /\ dir' \in DirType
<1> USE LabelTypes DEF LabelsInv
<1>1. dir' = [dir EXCEPT !.pc = "open", !.at = Closed.at, !.matches = FALSE, !.kept = kept]
  BY DEF NextName
<1>2. /\ dir'.pc = "open" /\ dir'.batch = dir.batch /\ dir'.stale = dir.stale
      /\ dir'.seen = dir.seen /\ dir'.due = dir.due /\ dir'.kept = kept /\ dir'.cut = dir.cut
      /\ dir' \in DirType
  BY <1>1 DEF LabelsType, DirType
<1>3. /\ \A n : (Spent(n)' <=> Spent(n))
      /\ \A n : (SameStart(n)' <=> SameStart(n))
  BY NamesStill
<1>4. HandAt'
  BY <1>2, <1>3 DEF HandAt
<1>5. StaleAt'
  <2>1. ASSUME NEW n \in dir.stale
        PROVE  /\ Spent(n)
               /\ n \in DOMAIN files' =>
                    \/ n \in dir'.due \ dir'.seen \/ n \in dir'.batch
                    \/ n \in dir'.kept \/ (dir'.cut /\ n \notin dir'.seen)
    BY <1>2 DEF StaleAt, Spent
  <2> QED BY <1>2, <1>3, <2>1 DEF StaleAt
<1> QED BY <1>2, <1>4, <1>5

(* The name in hand, which does not match, is removed.                     *)
LEMMA UnlinkInv ==
  ASSUME LabelsInv, Unlink
  PROVE  LabelsInv'
<1> USE LabelTypes DEF LabelsInv
<1>1. /\ UNCHANGED <<vars, display>> /\ dir.pc = "checked" /\ ~dir.matches /\ NextName(dir.kept)
      /\ files' = [n \in DOMAIN files \ {dir.at} |-> files[n]]
  BY DEF Unlink, Without
<1>2. /\ CpuInv' /\ \A name : (Spent(name)' <=> Spent(name))
      /\ \A name : (SameStart(name)' <=> SameStart(name)) /\ Owner(name)' = Owner(name)
      /\ gen' = gen /\ procs' = procs /\ tick' = tick
  BY <1>1, NamesStill
<1>3. DOMAIN files' = DOMAIN files \ {dir.at} /\ \A n \in DOMAIN files' : files'[n] = files[n]
  BY <1>1
<1>4. HandAt' /\ StaleAt'
  BY <1>1, <1>3, NameDone
<1>5. LabelsType'
  <2>1. dir' \in DirType
    BY <1>1, <1>3, NameDone
  <2>2. files' \in [DOMAIN files' -> Nat]
    BY <1>1, <1>3
  <2> QED BY <1>1, <1>3, <2>1, <2>2 DEF LabelsType, DirType
<1>6. FilesAt'
  BY <1>2, <1>3 DEF FilesAt
<1>7. tick.stage = "filtered"
  BY <1>1, PassFiltered
<1>8. RowsAt'
  BY <1>2, <1>7 DEF RowsAt
<1>9. NotInherited'
  BY <1>1, <1>2 DEF NotInherited
<1> QED BY <1>2, <1>4, <1>5, <1>6, <1>8, <1>9

(* A name that stays although it does not match is remembered as kept.     *)
LEMMA UnlinkFailsInv ==
  ASSUME LabelsInv, UnlinkFails
  PROVE  LabelsInv'
<1> USE LabelTypes DEF LabelsInv
<1>1. /\ UNCHANGED <<vars, files, display>> /\ dir.pc = "checked"
      /\ NextName(dir.kept \cup {dir.at})
  BY DEF UnlinkFails
<1>2. dir.kept \cup {dir.at} \in SUBSET Names
  BY <1>1 DEF HandAt
<1>3. HandAt' /\ StaleAt' /\ dir' \in DirType
  <2> DEFINE kept == dir.kept \cup {dir.at}
  <2>1. kept \in SUBSET Names /\ dir.kept \subseteq kept /\ NextName(kept) /\ dir.at \in kept
    BY <1>1, <1>2
  <2> HIDE DEF kept
  <2> QED BY <1>1, <2>1, NameDone
<1>4. LabelsType'
  BY <1>1, <1>3 DEF LabelsType
<1>5. tick.stage = "filtered"
  BY <1>1, PassFiltered
<1> QED BY <1>1, <1>3, <1>4, <1>5, PassInv

(* The label of a name that matched goes into a row that is there.         *)
LEMMA ShowInv ==
  ASSUME LabelsInv, Show
  PROVE  LabelsInv'
<1> USE LabelTypes DEF LabelsInv
<1>1. /\ UNCHANGED <<vars, files>> /\ dir.pc = "checked" /\ dir.matches /\ NextName(dir.kept)
      /\ display' = [display EXCEPT ![dir.at.pid] = files[dir.at]]
      /\ dir.at \in DOMAIN files
  BY DEF Show, Readable
<1>2. PICK i \in DOMAIN procs : procs[i].pid = dir.at.pid
  BY DEF Show, Readable
<1>3. /\ CpuInv' /\ \A name : (Spent(name)' <=> Spent(name))
      /\ \A name : (SameStart(name)' <=> SameStart(name)) /\ Owner(name)' = Owner(name)
      /\ gen' = gen /\ procs' = procs /\ tick' = tick
  BY <1>1, NamesStill
<1>4. HandAt' /\ StaleAt'
  BY <1>1, NameDone
<1>5. files[dir.at] \in Nat /\ dir.at.pid \in Pids
  BY <1>1
<1>6. LabelsType'
  <2>1. dir' \in DirType
    BY <1>1, NameDone
  <2>2. display' \in [Pids -> Nat]
    BY <1>1, <1>5 DEF LabelsType, DirType
  <2> QED BY <1>1, <2>1, <2>2 DEF LabelsType, DirType
<1>7. FilesAt'
  BY <1>1, <1>3 DEF FilesAt
<1>8. tick.stage = "filtered"
  BY <1>1, PassFiltered
<1>9. RowsAt'
  BY <1>3, <1>8 DEF RowsAt
<1>10. NotInherited'
  <2>1. procs[i].of <= files[dir.at]
    BY <1>1, <1>2 DEF HandAt
  <2>2. \A p \in Pids : display'[p] = IF p = dir.at.pid THEN files[dir.at] ELSE display[p]
    BY <1>1 DEF LabelsType, DirType
  <2>3. ASSUME NEW p \in Pids, display'[p] # 0
        PROVE  \E j \in DOMAIN procs : procs[j].pid = p /\ procs[j].of <= display'[p]
    BY <1>2, <2>1, <2>2, <2>3 DEF NotInherited
  <2> QED BY <1>3, <2>3 DEF NotInherited
<1> QED BY <1>3, <1>4, <1>6, <1>7, <1>9, <1>10

(* A name that matches is left where there is no row or no reading it.     *)
LEMMA PassOverInv ==
  ASSUME LabelsInv, PassOver
  PROVE  LabelsInv'
<1> USE LabelTypes DEF LabelsInv
<1>1. UNCHANGED <<vars, files, display>> /\ dir.pc = "checked" /\ dir.matches /\ NextName(dir.kept)
  BY DEF PassOver
<1>2. /\ HandAt' /\ StaleAt'
      /\ dir' \in DirType
  BY <1>1, NameDone
<1>3. LabelsType'
  BY <1>1, <1>2 DEF LabelsType, DirType
<1>4. tick.stage = "filtered"
  BY <1>1, PassFiltered
<1> QED BY <1>1, <1>2, <1>3, <1>4, PassInv

(* The next tick begins with no label and no row.                          *)
LEMMA LabelledTickInv ==
  ASSUME LabelsInv, LabelledTick
  PROVE  LabelsInv'
<1> USE LabelTypes DEF LabelsInv
<1>1. /\ EndTick /\ dir' = Closed /\ display' = [p \in Pids |-> 0] /\ files' = files
      /\ now' = now /\ proc' = proc /\ gen' = gen /\ procs' = <<>>
  BY DEF LabelledTick, EndTick, world
<1>2. CpuInv'
  BY <1>1, EndTickInv
<1>3. LabelsType'
  <2>1. Closed \in DirType
    BY DEF Closed, DirType
  <2> QED BY <1>1, <2>1 DEF LabelsType, DirType
<1>4. FilesAt'
  BY <1>1 DEF FilesAt, Spent, SameStart, Owner
<1>5. RowsAt' /\ NotInherited'
  <2>1. \A p \in Pids : display'[p] = 0
    BY <1>1
  <2>2. DOMAIN procs' = {}
    BY <1>1
  <2> QED BY <1>1, <2>1, <2>2 DEF RowsAt, NotInherited
<1>6. HandAt' /\ StaleAt'
  BY <1>1 DEF HandAt, StaleAt, Closed
<1> QED BY <1>2, <1>3, <1>4, <1>5, <1>6

(* ltop starts with no row; the directory may hold a bystander.            *)
LEMMA LabelsStart ==
  ASSUME LInit
  PROVE  LabelsInv
<1>1. CpuInv
  BY CpuStart DEF LInit
<1>2. /\ display = [p \in Pids |-> 0] /\ dir = Closed /\ procs = <<>>
  BY DEF LInit, Init
<1> DEFINE Bystander ==
      /\ DOMAIN files \subseteq Names /\ files \in [DOMAIN files -> Nat]
      /\ \A name \in DOMAIN files : name.start = NO_START
<1>3. Bystander
  <2>1. CASE files = <<>>
    BY <2>1
  <2>2. ASSUME NEW p \in Writers,
               files = [n \in {Name(p, NO_START)} |-> 0]
        PROVE  Bystander
    <3>1. Name(p, NO_START) \in Names /\ Name(p, NO_START).start = NO_START
      BY LabelsAssumption DEF Name, Names, NO_START
    <3> QED BY <2>2, <3>1
  <2> QED BY <2>1, <2>2 DEF LInit
<1>4. LabelsType
  <2>1. Closed \in DirType
    BY DEF Closed, DirType
  <2> QED BY <1>2, <1>3, <2>1 DEF LabelsType, DirType
<1>5. FilesAt
  BY <1>3 DEF FilesAt
<1>6. RowsAt /\ HandAt /\ StaleAt /\ NotInherited
  <2>1. \A p \in Pids : display[p] = 0
    BY <1>2
  <2>2. DOMAIN procs = {}
    BY <1>2
  <2> QED BY <1>2, <2>1, <2>2 DEF RowsAt, HandAt, StaleAt, NotInherited, Closed
<1> QED BY <1>1, <1>4, <1>5, <1>6 DEF LabelsInv

(* Every step of the composition keeps the invariant of labels.            *)
LEMMA LabelsStepInv ==
  ASSUME LabelsInv, [LNext]_lvars
  PROVE  LabelsInv'
<1>1. CASE Sampling /\ UNCHANGED <<files, dir, display>>
  <2>1. CpuInv'
    BY LabelsSample, CpuStepInv DEF LabelsInv
  <2> QED BY <1>1, <2>1, SamplingLabels
<1>2. CASE Writer
  BY <1>2, WriterInv
<1>3. CASE LabelPass
  BY <1>3, OpenDirInv, NoDirInv, RefillInv, EndOfDirInv, CutShortInv, SkipNameInv,
     CheckStartInv, UnlinkInv, UnlinkFailsInv, ShowInv, PassOverInv DEF LabelPass
<1>4. CASE LabelledTick
  BY <1>4, LabelledTickInv
<1>5. CASE UNCHANGED lvars
  <2>1. UNCHANGED <<vars, files, dir, display>>
    BY <1>5 DEF lvars
  <2>2. /\ CpuInv' /\ \A name : (Spent(name)' <=> Spent(name))
        /\ \A name : (SameStart(name)' <=> SameStart(name)) /\ Owner(name)' = Owner(name)
        /\ gen' = gen /\ procs' = procs /\ tick' = tick
    BY <2>1, NamesStill DEF LabelsInv
  <2> QED BY <2>1, <2>2
          DEF LabelsInv, LabelsType, FilesAt, RowsAt, HandAt, StaleAt, NotInherited
<1> QED BY <1>1, <1>2, <1>3, <1>4, <1>5 DEF LNext

(* Labels are laid over sampling: every step of the composition is a step  *)
(* of sampling or leaves it alone.                                         *)
THEOREM LabelsRefineSampling == LSpec => Spec
<1>1. LInit => Init
  BY DEF LInit
<1>2. [LNext]_lvars => [Next]_vars
  BY LabelsSample
<1> QED BY <1>1, <1>2, PTL DEF LSpec, Spec

(* Lockstep as the run labels checks it, with the directory pass between   *)
(* the filter and the end of the tick.                                     *)
THEOREM LabelsLockstep == LSpec => []Lockstep
BY LabelsRefineSampling, AlwaysInLockstep, PTL

(* The invariant of labels, for every set of pids and of writers, buffer   *)
(* size and clock.                                                         *)
THEOREM LabelsInductive == LSpec => []LabelsInv
<1>1. LInit => LabelsInv
  BY LabelsStart
<1>2. LabelsInv /\ [LNext]_lvars => LabelsInv'
  BY LabelsStepInv
<1> QED BY <1>1, <1>2, PTL DEF LSpec

(* NotInherited of the run labels, README "Labels": a label of a dead      *)
(* process never gets into the row of whoever has its pid next, whenever   *)
(* between check and read the processes change.                            *)
THEOREM NeverInherited == LSpec => []NotInherited
<1>1. LabelsInv => NotInherited
  BY DEF LabelsInv
<1> QED BY <1>1, LabelsInductive, PTL

(* Swept of the run labels: a label that was stale when apply opened the   *)
(* directory outlives the pass only if its own unlink failed or the        *)
(* listing failed before it came, however the entries are split over       *)
(* buffers, whatever other reads fail and whatever the writers do.         *)
THEOREM AlwaysSwept == LSpec => []Swept
<1>1. LabelsInv => Swept
  BY DEF LabelsInv, StaleAt, Swept
<1> QED BY <1>1, LabelsInductive, PTL

(* LiveLabelsStay of the run labels: where a start time can be read of     *)
(* every living process, apply unlinks no label but of dead ones.  The run *)
(* labels_unread shows that it has to be readable.                         *)
THEOREM LiveLabelsAlwaysStay ==
  ASSUME ~Flaky
  PROVE  LSpec => LiveLabelsStay
<1>1. ASSUME LabelsInv, [LNext]_lvars, dir' # dir, NEW name \in DOMAIN files \ DOMAIN files'
      PROVE  Orphan(name)
  <2>1. Unlink
    BY <1>1 DEF LNext, lvars, Writer, CleanUp, TidyUp, Publish, LabelPass, OpenDir, NoDir, Refill,
                EndOfDir, CutShort, SkipName, CheckStart, UnlinkFails, Show, PassOver, LabelledTick
  <2>2. name = dir.at /\ dir.pc = "checked" /\ ~dir.matches
    BY <1>1, <2>1 DEF Unlink, Without
  <2>3. Spent(name)
    BY <1>1, <2>2 DEF LabelsInv, HandAt
  <2> QED BY <1>1, <2>3 DEF LabelsInv, FilesAt, Spent, Orphan
<1>2. LabelsInv /\ [LNext]_lvars
        => [dir' # dir => \A name \in DOMAIN files \ DOMAIN files' : Orphan(name)]_lvars
  BY <1>1
<1> QED BY <1>2, LabelsInductive, PTL DEF LSpec, LiveLabelsStay

============================================================================
