-------------------------- MODULE TickArenaProofs --------------------------
(* run() issues only operations of the allocator, so everything proved of  *)
(* the allocator holds of every tick of every run; and it issues them in   *)
(* an order that meets replace2's undocumented obligations in every tick   *)
(* and lets nothing pile up in the init scope.                             *)
EXTENDS TickArena, ArenaProofs, FiniteSetTheorems

(* While a handle name is left, Fresh is one that no live handle has.      *)
LEMMA FreshFacts ==
  ASSUME NEW n \in Nat, n > 0, Room(n)
  PROVE  Fresh \in Ids
<1>1. Ids \ live # {}
  BY FS_EmptySet DEF Room
<1> QED BY <1>1 DEF Fresh

LEMMA GElemFacts == GElem \in Elems
  BY TickAssumption DEF GElem

(* Each step of start-up is one of the allocator's, or none.               *)
LEMMA StartUpStep ==
  ASSUME IInv, StartUp, ~aborted
  PROVE  [Next]_vars
<1> USE TickAssumption, ArenaAssumption
<1>1. CASE EnterInit
  BY <1>1 DEF EnterInit, Next, FrameStep
<1>2. CASE ReserveGpus
  <2>1. Fresh \in Ids
    BY <1>2, FreshFacts DEF ReserveGpus
  <2> QED BY <1>2, <2>1 DEF ReserveGpus, Next, ReserveStep
<1>3. CASE PushGpu
  <2>1. 1 \in 1 .. MaxCap
    OBVIOUS
  <2> QED BY <1>3, <2>1 DEF PushGpu, Next, ReserveStep
<1>4. CASE FreezeGpus
  BY <1>4 DEF FreezeGpus, Next, ReserveStep
<1>5. CASE DropGpus
  BY <1>5 DEF DropGpus, Next, ReserveStep
<1>6. CASE BeginNoGpus
  <2>1. Fresh \in Ids
    BY <1>6, FreshFacts DEF BeginNoGpus
  <2> QED BY <1>6, <2>1 DEF BeginNoGpus, Next, BuilderStep
<1>7. CASE EndNoGpus
  BY <1>7 DEF EndNoGpus, Next, BuilderStep
<1>8. CASE EmptyGpuPrev
  <2>1. Fresh \in Ids
    BY <1>8, FreshFacts DEF EmptyGpuPrev
  <2> QED BY <1>8, <2>1, GElemFacts DEF EmptyGpuPrev, Next, FrameStep
<1>9. CASE EmptyPrev
  <2>1. Fresh \in Ids
    BY <1>9, FreshFacts DEF EmptyPrev
  <2> QED BY <1>9, <2>1 DEF EmptyPrev, Next, FrameStep
<1> QED BY <1>1, <1>2, <1>3, <1>4, <1>5, <1>6, <1>7, <1>8, <1>9 DEF StartUp

(* So is each step of gpu::collect on either platform.                     *)
LEMMA GpuStep ==
  ASSUME IInv, Gpu, ~aborted
  PROVE  [Next]_vars
<1> USE TickAssumption, ArenaAssumption
<1>0. /\ live \subseteq Ids /\ 1 \in 1 .. MaxCap /\ Building \in Elems
      /\ MaxGpu \in 0 .. MaxCap /\ MaxTable \in 0 .. MaxCap
  BY GElemFacts DEF IInv, TypeOK, Building
<1>1. CASE NoEntries
  <2>1. Fresh \in Ids
    BY <1>1, FreshFacts DEF NoEntries
  <2> QED BY <1>1, <2>1 DEF NoEntries, Next, FrameStep
<1>2. CASE NewPrev
  <2>1. Fresh \in Ids
    BY <1>2, FreshFacts DEF NewPrev
  <2> QED BY <1>2, <2>1, GElemFacts DEF NewPrev, Next, FrameStep
<1>3. CASE BeginTable
  BY <1>3 DEF BeginTable, Next, SlideStep
<1>4. CASE TableVec
  <2>1. Fresh \in Ids
    BY <1>4, FreshFacts DEF TableVec
  <2>2. PICK n \in 0 .. MaxCap : Vec(Fresh, Building, n)
    BY <1>0, <1>4 DEF TableVec
  <2> QED BY <1>0, <1>4, <2>1, <2>2 DEF TableVec, Next, FrameStep
<1>5. CASE TableFail
  <2>1. Fresh \in Ids
    BY <1>5, FreshFacts DEF TableFail
  <2> QED BY <1>5, <2>1, GElemFacts DEF TableFail, Next, FrameStep
<1>6. CASE TablePush
  <2>1. table \in Ids
    BY <1>0, <1>6 DEF TablePush, VecPush
  <2> QED BY <1>0, <1>6, <2>1 DEF TablePush, Next, HandleStep
<1>7. CASE TableDedup
  <2> DEFINE u == span[table].lo + Building.size
  <2>1. VecTruncate(table, u) /\ UNCHANGED aborted
    BY <1>7 DEF TableDedup
  <2>2. table \in live /\ table \in Ids /\ u < span[table].used
    BY <1>0, <2>1 DEF VecTruncate, TruncateSlots
  <2>3. span[table].used <= Size
    BY <2>2, BoundsFromInv, Types DEF InBounds
  <2>4. u \in Offsets
    <3>1. span[table].lo \in Nat /\ Building.size \in Nat /\ span[table].used \in Nat
      BY <1>0, <2>2, Types DEF Elem
    <3> QED BY <2>2, <2>3, <3>1 DEF Offsets
  <2> HIDE DEF u
  <2> QED BY <2>1, <2>2, <2>4 DEF Next, HandleStep
<1>8. CASE TableSpan
  <2>1. table \in Ids
    BY <1>0, <1>8 DEF TableSpan, IntoFSpan
  <2> QED BY <1>8, <2>1 DEF TableSpan, Next, HandleStep
<1>9. CASE EndTable
  <2>1. table \in Ids
    BY <1>0, <1>9 DEF EndTable, EndCompact, Owned
  <2> QED BY <1>9, <2>1 DEF EndTable, Next, SlideStep
<1> QED BY <1>1, <1>2, <1>3, <1>4, <1>5, <1>6, <1>7, <1>8, <1>9 DEF Gpu

(* So is each step of collect_procs.                                       *)
LEMMA ProcsStep ==
  ASSUME IInv, Procs, ~aborted
  PROVE  [Next]_vars
<1> USE TickAssumption, ArenaAssumption
<1>0. live \subseteq Ids /\ 1 \in 1 .. MaxCap /\ \A n \in 0 .. MaxProc : n \in 0 .. MaxCap
  BY DEF IInv, TypeOK
<1>1. CASE TickAlloc
  <2>1. Fresh \in Ids
    BY <1>1, FreshFacts DEF TickAlloc
  <2> QED BY <1>1, <2>1 DEF TickAlloc, Next, FrameStep
<1>2. CASE AllocNext
  <2>1. Fresh \in Ids
    BY <1>2, FreshFacts DEF AllocNext
  <2> QED BY <1>0, <1>2, <2>1 DEF AllocNext, Next, FrameStep
<1>3. CASE PushNext
  <2>1. next \in Ids
    BY <1>0, <1>3 DEF PushNext, VecPush
  <2> QED BY <1>0, <1>3, <2>1 DEF PushNext, Next, HandleStep
<1>4. CASE OpenStat
  BY <1>4 DEF OpenStat, Next, FrameStep
<1>5. CASE StatRaw
  <2>1. Fresh \in Ids
    BY <1>5, FreshFacts DEF StatRaw
  <2> QED BY <1>5, <2>1 DEF StatRaw, Next, FrameStep
<1>6. CASE CloseStat
  BY <1>6 DEF CloseStat, Next, FrameStep
<1>7. CASE EndCollect
  BY <1>7 DEF EndCollect
<1> QED BY <1>1, <1>2, <1>3, <1>4, <1>5, <1>6, <1>7 DEF Procs

(* So is each step of rendering the frame.                                 *)
LEMMA RenderStep ==
  ASSUME IInv, Render, ~aborted
  PROVE  [Next]_vars
<1> USE TickAssumption, ArenaAssumption
<1>0. live \subseteq Ids /\ 1 \in 1 .. MaxCap
  BY DEF IInv, TypeOK
<1>1. CASE BeginStdout
  <2>1. Fresh \in Ids
    BY <1>1, FreshFacts DEF BeginStdout
  <2> QED BY <1>1, <2>1 DEF BeginStdout, Next, BuilderStep
<1>2. CASE PutStdout
  BY <1>0, <1>2 DEF PutStdout, Next, BuilderStep
<1>3. CASE EndStdout
  BY <1>3 DEF EndStdout, Next, BuilderStep
<1>4. CASE FreezeNext
  <2>1. next \in Ids
    BY <1>0, <1>4 DEF FreezeNext, IntoFSpan
  <2> QED BY <1>4, <2>1 DEF FreezeNext, Next, HandleStep
<1> QED BY <1>1, <1>2, <1>3, <1>4 DEF Render

(* Every step of run() is a step of the allocator or leaves it alone.      *)
LEMMA TickStep ==
  ASSUME IInv, [TickNext]_tickVars
  PROVE  [Next]_vars
<1>0. live \subseteq Ids
  BY DEF IInv, TypeOK
<1>1. CASE ~aborted /\ BeginTick
  <2>1. gpu_prev \in Ids /\ prev \in Ids
    BY <1>0, <1>1 DEF BeginTick, BeginReplace2, Owned
  <2> QED BY <1>1, <2>1 DEF BeginTick, Next, SlideStep
<1>2. CASE ~aborted /\ EndTick
  <2>1. new_gpu_prev \in Ids /\ next \in Ids
    BY <1>0, <1>2 DEF EndTick, EndReplace2, Owned
  <2> QED BY <1>2, <2>1 DEF EndTick, Next, SlideStep
<1>3. CASE ~aborted /\ EndLoop
  BY <1>3 DEF EndLoop, Next
<1>4. CASE ~aborted /\ Exit
  BY <1>4 DEF Exit, Next, FrameStep
<1>5. CASE ~aborted /\ Panic
  BY <1>5 DEF Panic, Next
<1>6. CASE Done \/ UNCHANGED tickVars
  BY <1>6 DEF Done, tickVars
<1> QED BY <1>1, <1>2, <1>3, <1>4, <1>5, <1>6, StartUpStep, GpuStep, ProcsStep, RenderStep
        DEF TickNext

(* The tick loop implements the allocator: run() never asks the arena for  *)
(* anything outside its interface, in any tick, on either platform.        *)
THEOREM TickRefinesArena == TickSpec => Spec
<1>1. TickInit => Init /\ IInv
  BY EmptyState DEF TickInit, Init
<1>2. IInv /\ [TickNext]_tickVars => [Next]_vars
  BY TickStep
<1>3. IInv /\ [TickNext]_tickVars => IInv'
  BY TickStep, StepInv
<1> QED BY <1>1, <1>2, <1>3, PTL DEF TickSpec, Spec

(* Nothing run() holds (gpu_prev, prev, the GPU table, the tick's own      *)
(* buffers) ever overlaps anything else it holds.                          *)
THEOREM TickDisjoint == TickSpec => []Disjoint
BY TickRefinesArena, ArenaDisjoint, PTL

(* Nor does anything it holds change under it: gpu_prev and prev read back *)
(* in the next tick what this one wrote, after the slide and uncommit_tail.*)
THEOREM TickContentsIntact == TickSpec => []ContentsIntact
BY TickRefinesArena, ArenaContentsIntact, PTL

----------------------------------------------------------------------------
(* The invariant of the tick loop                                          *)

(* Handle k is still there, where it was and no longer than it was.        *)
Same(k) == /\ k \in live' /\ span'[k].owner = span[k].owner /\ span'[k].lo = span[k].lo
           /\ span'[k].elem = span[k].elem /\ span'[k].hi <= span[k].hi

(* The longest a successor of gpu_prev and of prev can be.                 *)
LEMMA TickSizes ==
  /\ MaxGpu \in Nat /\ MaxProc \in Nat /\ GElem \in Elem /\ PElem \in Elem
  /\ GElem.size \in Nat /\ PElem.size \in Nat
  /\ GElem.align \in {1, 2, 4, 8, 16} /\ PElem.align \in {1, 2, 4, 8, 16}
  /\ MaxGpu * GElem.size \in Nat /\ MaxProc * PElem.size \in Nat
<1>1. MaxGpu \in Nat /\ MaxProc \in Nat /\ GElem \in Elem /\ PElem \in Elem
  BY TickAssumption, ArenaAssumption, GElemFacts
<1>2. /\ GElem.size \in Nat /\ PElem.size \in Nat
      /\ GElem.align \in {1, 2, 4, 8, 16} /\ PElem.align \in {1, 2, 4, 8, 16}
  BY <1>1 DEF Elem
<1> QED BY <1>1, <1>2, MulNat

(* n elements take no more room than m >= n.                              *)
LEMMA MulMono ==
  ASSUME NEW m \in Nat, NEW n \in 0 .. m, NEW b \in Nat
  PROVE  n * b <= m * b
<1>1. (m - n) * b \in Nat
  BY MulNat
<1>2. m * b = n * b + (m - n) * b
  OBVIOUS
<1>3. n * b \in Nat
  BY MulNat
<1> QED BY <1>1, <1>2, <1>3

(* A step inside a tick that keeps the rotation and the handles of the     *)
(* init scope and the tick, whatever it does above them.                   *)
LEMMA TickKeeps ==
  ASSUME IInv, TickInv, pc \in InTick, pc' \in InTick, mac' = mac, IInv',
         gpu_prev' = gpu_prev, prev' = prev, low' = low,
         Depth' = IF pc' \in InTick3 THEN 3 ELSE 2, stack'[2] = stack[2],
         \A k \in live : span[k].owner = 1 => Same(k),
         {new_gpu_prev', next', table'} \subseteq live' \cup {NoId}
  PROVE  TickTypeOK' /\ ShapeAt' /\ SetupAt' /\ KeptAt' /\ ReadyAt'
<1> USE DEF TickInv, InTick, InTick2, InTick3
<1>1. /\ gpu_prev \in live /\ prev \in live /\ prev # gpu_prev
      /\ span[gpu_prev].owner = 1 /\ span[gpu_prev].elem = GElem /\ span[gpu_prev].lo = low
      /\ span[prev].owner = 1 /\ span[prev].elem = PElem
  BY DEF KeptAt
<1>2. GElem' = GElem
  BY DEF GElem
<1>3. Same(gpu_prev) /\ Same(prev)
  BY <1>1
<1>4. KeptAt'
  BY <1>1, <1>2, <1>3 DEF KeptAt, Same
<1>5. ShapeAt'
  BY DEF ShapeAt, Alone
<1>6. SetupAt' /\ ReadyAt'
  BY DEF SetupAt, ReadyAt
<1>7. TickTypeOK'
  BY <1>1, <1>3 DEF TickTypeOK, Roles, Same
<1> QED BY <1>4, <1>5, <1>6, <1>7

(* If in addition the handles of table keep what they had, the successors  *)
(* keep their bounds.                                                      *)
LEMMA NewKept ==
  ASSUME IInv, IInv', TickInv, pc \in InTick, pc' \in InTick, mac' = mac,
         new_gpu_prev' = new_gpu_prev, next' = next, table' = table,
         \A k \in {new_gpu_prev, next, table} : k \in live => Same(k),
         table # NoId => pc' \in {"push", "dedup", "result"}
  PROVE  NewAt'
<1> USE TickSizes
<1>1. GElem' = GElem
  BY DEF GElem
<1>2. ASSUME NEW k \in live, NEW b \in Nat, Same(k), span[k].hi <= span[k].lo + b
      PROVE  span'[k].hi <= span'[k].lo + b
  <2>1. /\ span[k].hi \in Nat /\ span[k].lo \in Nat
    BY Types
  <2>2. span' \in [Ids -> Handle] /\ k \in Ids
    BY Types DEF IInv, TypeOK
  <2>3. span'[k].hi \in Nat
    BY <2>2 DEF Handle
  <2> QED BY <1>2, <2>1, <2>3 DEF Same
<1>3. ASSUME new_gpu_prev # NoId
      PROVE  /\ pc' \in InTick /\ new_gpu_prev \in live' /\ span'[new_gpu_prev].owner = 2
             /\ span'[new_gpu_prev].hi <= span'[new_gpu_prev].lo + MaxGpu * GElem.size
  <2>1. /\ new_gpu_prev \in live /\ span[new_gpu_prev].owner = 2
        /\ span[new_gpu_prev].hi <= span[new_gpu_prev].lo + MaxGpu * GElem.size
    BY <1>3 DEF TickInv, NewAt
  <2>2. Same(new_gpu_prev)
    BY <2>1
  <2> QED BY <1>2, <2>1, <2>2 DEF Same
<1>4. ASSUME next # NoId
      PROVE  /\ pc' \in InTick /\ next \in live' /\ span'[next].owner = 2
             /\ span'[next].hi <= span'[next].lo + MaxProc * PElem.size
  <2>1. /\ next \in live /\ span[next].owner = 2
        /\ span[next].hi <= span[next].lo + MaxProc * PElem.size
    BY <1>4 DEF TickInv, NewAt
  <2>2. Same(next)
    BY <2>1
  <2> QED BY <1>2, <2>1, <2>2 DEF Same
<1>5. ASSUME table # NoId
      PROVE  /\ pc' \in {"push", "dedup", "result"} /\ table \in live' /\ span'[table].owner = 3
             /\ mac /\ new_gpu_prev = NoId =>
                  span'[table].hi <= span'[table].lo + MaxGpu * GElem.size
  <2>1. /\ table \in live /\ span[table].owner = 3
        /\ mac /\ new_gpu_prev = NoId =>
             span[table].hi <= span[table].lo + MaxGpu * GElem.size
    BY <1>5 DEF TickInv, NewAt
  <2>2. Same(table)
    BY <2>1
  <2> QED BY <1>2, <1>5, <2>1, <2>2 DEF Same
<1> QED BY <1>1, <1>3, <1>4, <1>5 DEF NewAt

(* While no role is filled only the open closures and what start-up left   *)
(* behind matter.                                                          *)
LEMMA NoRoles ==
  ASSUME pc' \in {"boot", "gpus", "fill", "nogpus", "nospan", "empty1", "done"},
         gpu_prev' = NoId, prev' = NoId, new_gpu_prev' = NoId, next' = NoId, table' = NoId,
         low' \in Offsets, mac' \in BOOLEAN
  PROVE  TickTypeOK' /\ KeptAt' /\ NewAt' /\ ReadyAt'
BY DEF TickTypeOK, Roles, KeptAt, NewAt, ReadyAt, InTick, InTick2, InTick3

(* The stack after an activation begins, and after one ends.               *)
LEMMA Pushed ==
  ASSUME IInv, NEW r \in Activation, stack' = Append(stack, r)
  PROVE  /\ Depth' = Depth + 1 /\ Top' = r /\ Depth \in Nat
         /\ \A d \in 1 .. Depth : stack'[d] = stack[d]
BY Types, PushFacts DEF Depth, Top

LEMMA PoppedOne ==
  ASSUME IInv, Depth > 0, stack' = Pop
  PROVE  /\ Depth' = Depth - 1 /\ Depth \in Nat
         /\ \A d \in 1 .. Depth - 1 : stack'[d] = stack[d]
BY Types, PopFacts DEF Depth

(* Start-up establishes the two spans of the init frame.                   *)
LEMMA StartUpInv ==
  ASSUME IInv, IInv', TickInv, StartUp, mac' = mac
  PROVE  TickInv'
<1> USE DEF TickInv
<1>0. /\ low \in Offsets /\ mac \in BOOLEAN /\ live \subseteq Ids /\ NoId \notin Ids
      /\ offset \in Nat /\ \A k \in live : span[k].hi \in Nat
  BY Types, ArenaAssumption DEF TickTypeOK
<1>a. pc \in {"boot", "gpus", "fill", "nogpus", "nospan", "empty1"} =>
        /\ gpu_prev = NoId /\ prev = NoId /\ new_gpu_prev = NoId /\ next = NoId /\ table = NoId
  BY DEF KeptAt, NewAt, InTick, InTick2, InTick3
<1>1. CASE EnterInit
  <2> DEFINE r == [kind |-> "scope", saved |-> offset, i |-> NoId, j |-> NoId]
  <2>1. /\ pc = "boot" /\ Depth = 0 /\ live = {} /\ offset = 0
        /\ pc' = IF mac THEN "empty1" ELSE "gpus"
        /\ live' = live /\ offset' = offset /\ stack' = Append(stack, r) /\ roles' = roles
    BY <1>1 DEF EnterInit, OpenScope, ShapeAt, SetupAt, Goto
  <2>2. r \in Activation
    BY <1>0 DEF Activation
  <2>3. Depth' = 1
    BY <2>1, <2>2, Pushed
  <2>4. ShapeAt' /\ SetupAt'
    BY <2>1, <2>3 DEF ShapeAt, SetupAt, Alone, InTick, InTick2, InTick3
  <2> QED BY <1>0, <1>a, <2>1, <2>4, NoRoles DEF roles
<1>2. CASE ReserveGpus
  <2> DEFINE i == Fresh
             r == [kind |-> "reserve", saved |-> offset, i |-> i, j |-> NoId]
  <2>1. /\ pc = "gpus" /\ pc' = "fill" /\ Depth = 1 /\ live = {} /\ ~mac /\ roles' = roles
        /\ live' = {i} /\ stack' = Append(stack, r) /\ i \in Ids
    BY <1>2, FreshFacts DEF ReserveGpus, Reserve, NewHandle, ShapeAt, SetupAt, Goto, Alone
  <2>2. r \in Activation
    BY <1>0, <2>1 DEF Activation
  <2> HIDE DEF i
  <2>3. Depth' = 2 /\ Top' = r
    BY <2>1, <2>2, Pushed
  <2>4. ShapeAt' /\ SetupAt'
    BY <2>1, <2>3 DEF ShapeAt, SetupAt, Alone, InTick, InTick2, InTick3
  <2> QED BY <1>0, <1>a, <2>1, <2>4, NoRoles DEF roles
<1>3. CASE PushGpu
  <2>1. /\ pc = "fill" /\ pc' = "fill" /\ Depth = 2 /\ live = {Top.i} /\ ~mac /\ roles' = roles
        /\ live' = live /\ stack' = stack
    BY <1>3 DEF PushGpu, ReservePush, PushSlots, ShapeAt, SetupAt, Goto
  <2>2. Depth' = 2 /\ Top' = Top
    BY <2>1 DEF Depth, Top
  <2>4. ShapeAt' /\ SetupAt'
    BY <2>1, <2>2 DEF ShapeAt, SetupAt, Alone, InTick, InTick2, InTick3
  <2> QED BY <1>0, <1>a, <2>1, <2>4, NoRoles DEF roles
<1>4. CASE FreezeGpus
  <2>1. /\ pc = "fill" /\ pc' = "empty1" /\ Depth = 2 /\ live = {Top.i} /\ ~mac /\ roles' = roles
        /\ live' = live /\ stack' = Pop /\ offset' = span[Top.i].used
        /\ span' = [span EXCEPT ![Top.i].kind = "span", ![Top.i].hi = span[Top.i].used,
                                ![Top.i].owner = Depth - 1]
    BY <1>4 DEF FreezeGpus, Freeze, ShapeAt, SetupAt, Goto
  <2>2. Depth' = 1
    BY <2>1, PoppedOne
  <2>3. \A k \in live' : span'[k].hi <= offset'
    <3>1. Top.i \in Ids /\ span[Top.i].used \in Nat
      BY <1>0, <2>1, Types
    <3>2. span'[Top.i].hi = span[Top.i].used
      BY <2>1, <3>1, Types
    <3>3. span'[Top.i].hi <= offset'
      BY <2>1, <3>1, <3>2
    <3> QED BY <2>1, <3>3
  <2>4. ShapeAt' /\ SetupAt'
    BY <2>1, <2>2, <2>3 DEF ShapeAt, SetupAt, Alone, InTick, InTick2, InTick3
  <2> QED BY <1>0, <1>a, <2>1, <2>4, NoRoles DEF roles
<1>5. CASE DropGpus
  <2>1. /\ pc = "fill" /\ pc' = "nogpus" /\ Depth = 2 /\ live = {Top.i} /\ ~mac /\ roles' = roles
        /\ live' = {} /\ stack' = Pop
    BY <1>5 DEF DropGpus, DropReserve, ShapeAt, SetupAt, Goto
  <2>2. Depth' = 1
    BY <2>1, PoppedOne
  <2>4. ShapeAt' /\ SetupAt'
    BY <2>1, <2>2 DEF ShapeAt, SetupAt, Alone, InTick, InTick2, InTick3
  <2> QED BY <1>0, <1>a, <2>1, <2>4, NoRoles DEF roles
<1>6. CASE BeginNoGpus
  <2> DEFINE i == Fresh
             r == [kind |-> "builder", saved |-> offset, i |-> i, j |-> NoId]
  <2>1. /\ pc \in {"gpus", "nogpus"} /\ pc' = "nospan" /\ Depth = 1 /\ live = {} /\ ~mac
        /\ roles' = roles /\ live' = {i} /\ stack' = Append(stack, r) /\ i \in Ids
        /\ offset' = Bump(XElem) /\ span'[i].hi = Bump(XElem)
    BY <1>6, FreshFacts, Types
       DEF BeginNoGpus, BeginSpan, NewHandle, ShapeAt, SetupAt, Goto, Alone
  <2>2. r \in Activation
    BY <1>0, <2>1 DEF Activation
  <2> HIDE DEF i
  <2>3. Depth' = 2 /\ Top' = r
    BY <2>1, <2>2, Pushed
  <2>4. ShapeAt' /\ SetupAt'
    BY <2>1, <2>3 DEF ShapeAt, SetupAt, Alone, InTick, InTick2, InTick3
  <2> QED BY <1>0, <1>a, <2>1, <2>4, NoRoles DEF roles
<1>7. CASE EndNoGpus
  <2>1. /\ pc = "nospan" /\ pc' = "empty1" /\ Depth = 2 /\ live = {Top.i} /\ ~mac /\ roles' = roles
        /\ live' = live /\ stack' = Pop /\ offset' = offset /\ span[Top.i].hi = offset
        /\ span' = [span EXCEPT ![Top.i].kind = "span", ![Top.i].owner = Depth - 1]
    BY <1>7 DEF EndNoGpus, EndSpan, ShapeAt, SetupAt, Goto
  <2>2. Depth' = 1
    BY <2>1, PoppedOne
  <2>3. \A k \in live' : span'[k].hi <= offset'
    <3>1. Top.i \in Ids
      BY <1>0, <2>1
    <3>2. span'[Top.i].hi = span[Top.i].hi
      BY <2>1, <3>1, Types
    <3>3. span'[Top.i].hi <= offset'
      BY <1>0, <2>1, <3>2
    <3> QED BY <2>1, <3>3
  <2>4. ShapeAt' /\ SetupAt'
    BY <2>1, <2>2, <2>3 DEF ShapeAt, SetupAt, Alone, InTick, InTick2, InTick3
  <2> QED BY <1>0, <1>a, <2>1, <2>4, NoRoles DEF roles
<1>8. CASE EmptyGpuPrev
  <2> DEFINE i == Fresh
  <2>1. /\ pc = "empty1" /\ pc' = "empty2" /\ Depth = 1 /\ i \in Ids /\ i \notin live
        /\ (mac => offset = 0) /\ \A k \in live : span[k].hi <= offset
        /\ live' = live \cup {i} /\ stack' = stack /\ offset' = offset
        /\ gpu_prev' = i /\ low' = Bump(GElem)
        /\ prev' = prev /\ new_gpu_prev' = new_gpu_prev /\ next' = next /\ table' = table
    BY <1>8, FreshFacts DEF EmptyGpuPrev, Empty, NewHandle, ShapeAt, SetupAt, Goto, Alone
  <2>2. span' = [span EXCEPT ![i] = [kind |-> "span", owner |-> Depth, lo |-> Bump(GElem),
                   hi |-> Bump(GElem), used |-> Bump(GElem), elem |-> GElem]]
    BY <1>8 DEF EmptyGpuPrev, Empty, NewHandle
  <2>3. Bump(GElem) = offset
    <3>1. CASE mac
      BY <2>1, <3>1, TickSizes DEF Bump, AlignUp
    <3>2. CASE ~mac
      BY <1>0, <3>2, TickAssumption DEF Bump, AlignUp, GElem
    <3> QED BY <3>1, <3>2
  <2> HIDE DEF i
  <2>4. /\ span'[i].owner = 1 /\ span'[i].lo = offset /\ span'[i].hi = offset
        /\ span'[i].elem = GElem /\ \A k \in live : span'[k] = span[k]
    BY <2>1, <2>2, <2>3, Types
  <2>5. GElem' = GElem /\ Depth' = 1 /\ offset \in Offsets
    BY <2>1 DEF GElem, Depth, IInv, TypeOK
  <2>6. SetupAt'
    BY <2>1, <2>3, <2>4 DEF SetupAt
  <2>7. ShapeAt'
    BY <2>1, <2>5 DEF ShapeAt, Alone, InTick, InTick2, InTick3
  <2>8. KeptAt' /\ NewAt' /\ ReadyAt'
    BY <1>a, <2>1, <2>3, <2>4, <2>5 DEF KeptAt, NewAt, ReadyAt, InTick, InTick2, InTick3
  <2>9. TickTypeOK'
    BY <1>0, <1>a, <2>1, <2>3, <2>5 DEF TickTypeOK, Roles
  <2> QED BY <2>6, <2>7, <2>8, <2>9
<1>9. CASE EmptyPrev
  <2> DEFINE i == Fresh
             a == PElem.align
  <2>1. /\ pc = "empty2" /\ pc' = "idle" /\ Depth = 1 /\ i \in Ids /\ i \notin live
        /\ live' = live \cup {i} /\ stack' = stack /\ offset' = offset /\ prev' = i
        /\ gpu_prev' = gpu_prev /\ low' = low
        /\ new_gpu_prev' = new_gpu_prev /\ next' = next /\ table' = table
    BY <1>9, FreshFacts DEF EmptyPrev, Empty, NewHandle, ShapeAt, Goto, Alone
  <2>2. span' = [span EXCEPT ![i] = [kind |-> "span", owner |-> Depth, lo |-> Bump(PElem),
                   hi |-> Bump(PElem), used |-> Bump(PElem), elem |-> PElem]]
    BY <1>9 DEF EmptyPrev, Empty, NewHandle
  <2>3. /\ low = offset /\ span[gpu_prev].hi = low
        /\ \A k \in live \ {gpu_prev} : span[k].hi <= low
    BY <2>1 DEF SetupAt
  <2>4. /\ gpu_prev \in live /\ span[gpu_prev].owner = 1 /\ gpu_prev # NoId
        /\ span[gpu_prev].elem = GElem /\ span[gpu_prev].lo = low
        /\ prev = NoId /\ new_gpu_prev = NoId /\ next = NoId /\ table = NoId
    BY <1>0, <2>1 DEF KeptAt, NewAt, InTick, InTick2, InTick3
  <2>5. /\ Bump(PElem) \in Nat /\ offset <= Bump(PElem) /\ Bump(PElem) < offset + a
    BY <1>0, TickSizes, AlignUpFacts DEF Bump
  <2> HIDE DEF i
  <2>6. /\ span'[i].owner = 1 /\ span'[i].lo = Bump(PElem) /\ span'[i].hi = Bump(PElem)
        /\ span'[i].elem = PElem /\ \A k \in live : span'[k] = span[k]
    BY <2>1, <2>2, Types
  <2>7. GElem' = GElem /\ Depth' = 1
    BY <2>1 DEF GElem, Depth
  <2>8. offset <= AlignUp(low + MaxGpu * GElem.size, a) + MaxProc * PElem.size
    <3> DEFINE b == MaxGpu * GElem.size
               c == MaxProc * PElem.size
    <3>1. b \in Nat /\ c \in Nat /\ low \in Nat /\ a \in {1, 2, 4, 8, 16}
      BY <1>0, <2>3, TickSizes
    <3> HIDE DEF a, b, c
    <3>2. low + b \in Nat /\ low <= low + b
      BY <3>1
    <3>3. AlignUp(low + b, a) \in Nat /\ low + b <= AlignUp(low + b, a)
      BY <3>1, <3>2, AlignUpFacts
    <3>4. offset <= AlignUp(low + b, a) + c
      BY <2>3, <3>1, <3>2, <3>3
    <3> QED BY <3>4 DEF a, b, c
  <2>9. ReadyAt'
    <3>1. Bump(PElem) - offset < a
      <4>1. a \in Nat
        BY TickSizes
      <4> QED BY <1>0, <2>5, <4>1
    <3>2. \A o \in live' \ {gpu_prev, i} : span'[o].hi <= span'[gpu_prev].lo
      BY <2>1, <2>3, <2>4, <2>6
    <3> HIDE DEF a
    <3>3. /\ span'[gpu_prev].hi <= span'[i].lo
          /\ offset <= span'[i].hi /\ span'[i].hi - offset < a
      BY <1>0, <2>3, <2>4, <2>5, <2>6, <3>1
    <3> QED BY <2>1, <2>7, <2>8, <3>2, <3>3 DEF ReadyAt, a
  <2>10. ShapeAt' /\ SetupAt'
    BY <2>1, <2>7 DEF ShapeAt, SetupAt, Alone, InTick, InTick2, InTick3
  <2>11. KeptAt' /\ NewAt'
    BY <2>1, <2>4, <2>6, <2>7 DEF KeptAt, NewAt, InTick, InTick2, InTick3
  <2>12. TickTypeOK'
    BY <1>0, <2>1, <2>4 DEF TickTypeOK, Roles
  <2> QED BY <2>9, <2>10, <2>11, <2>12
<1> QED BY <1>1, <1>2, <1>3, <1>4, <1>5, <1>6, <1>7, <1>8, <1>9 DEF StartUp

(* A step inside a tick that opens and closes nothing.                     *)
LEMMA TickSteady ==
  ASSUME IInv, IInv', TickInv, pc \in InTick, mac' = mac,
         pc' \in IF pc \in InTick3 THEN InTick3 ELSE InTick2,
         roles' = roles, stack' = stack,
         \A k \in live : span[k].owner # 3 \/ k = table => Same(k),
         table # NoId => pc' \in {"push", "dedup", "result"}
  PROVE  TickInv'
<1>1. /\ gpu_prev' = gpu_prev /\ prev' = prev /\ new_gpu_prev' = new_gpu_prev
      /\ next' = next /\ table' = table /\ low' = low
  BY DEF roles
<1>2. pc' \in InTick /\ Depth' = IF pc' \in InTick3 THEN 3 ELSE 2
  BY DEF TickInv, ShapeAt, Depth, InTick, InTick2, InTick3
<1>a. \A k \in {new_gpu_prev, next, table} : k # NoId => k \in live /\ Same(k)
  BY DEF TickInv, NewAt
<1>3. {new_gpu_prev', next', table'} \subseteq live' \cup {NoId}
  BY <1>1, <1>a DEF Same
<1>b. NoId \notin live
  BY ArenaAssumption DEF IInv, TypeOK
<1>4. NewAt'
  BY <1>1, <1>2, <1>a, <1>b, NewKept
<1> QED BY <1>1, <1>2, <1>3, <1>4, TickKeeps DEF TickInv

(* A step that opens a closure or a builder inside the tick.               *)
LEMMA TickOpens ==
  ASSUME IInv, IInv', TickInv, pc \in InTick2, pc' \in InTick3, mac' = mac, roles' = roles,
         NEW r \in Activation, stack' = Append(stack, r), \A k \in live : Same(k)
  PROVE  TickInv'
<1>1. /\ gpu_prev' = gpu_prev /\ prev' = prev /\ new_gpu_prev' = new_gpu_prev
      /\ next' = next /\ table' = table /\ low' = low
  BY DEF roles
<1>2. Depth = 2 /\ pc \in InTick /\ pc' \in InTick
  BY DEF TickInv, ShapeAt, InTick
<1>3. Depth' = 3 /\ stack'[2] = stack[2]
  <2>1. Depth' = Depth + 1 /\ \A d \in 1 .. Depth : stack'[d] = stack[d]
    BY Pushed
  <2>2. 2 \in 1 .. Depth
    BY <1>2
  <2>3. stack'[2] = stack[2]
    BY <2>1, <2>2
  <2>4. Depth' = 3
    BY <1>2, <2>1
  <2> QED BY <2>3, <2>4
<1>4. table = NoId
  BY DEF TickInv, NewAt, InTick2
<1>5. {new_gpu_prev', next', table'} \subseteq live' \cup {NoId}
  BY <1>1 DEF TickInv, NewAt, Same
<1>6. NewAt'
  BY <1>1, <1>2, <1>4, NewKept
<1> QED BY <1>1, <1>2, <1>3, <1>5, <1>6, TickKeeps DEF TickInv

(* A step that closes it again, with the handles of it alone.              *)
LEMMA TickCloses ==
  ASSUME IInv, IInv', TickInv, pc \in InTick3, pc' \in InTick2, mac' = mac, roles' = roles,
         stack' = Pop, table = NoId, \A k \in live : span[k].owner # 3 => Same(k)
  PROVE  TickInv'
<1>1. /\ gpu_prev' = gpu_prev /\ prev' = prev /\ new_gpu_prev' = new_gpu_prev
      /\ next' = next /\ table' = table /\ low' = low
  BY DEF roles
<1>2. Depth = 3 /\ pc \in InTick /\ pc' \in InTick
  BY DEF TickInv, ShapeAt, InTick
<1>3. Depth' = 2 /\ stack'[2] = stack[2]
  BY <1>2, PoppedOne
<1>4. pc' \notin InTick3
  BY DEF InTick2, InTick3
<1>5. NoId \notin live /\ (new_gpu_prev # NoId => Same(new_gpu_prev)) /\ (next # NoId => Same(next))
  BY ArenaAssumption DEF TickInv, NewAt, IInv, TypeOK
<1>6. {new_gpu_prev', next', table'} \subseteq live' \cup {NoId}
  BY <1>1, <1>5 DEF Same
<1>7. NewAt'
  BY <1>1, <1>2, <1>5, NewKept
<1> QED BY <1>1, <1>2, <1>3, <1>4, <1>6, <1>7, TickKeeps DEF TickInv

(* A new handle leaves all others alone.                                   *)
LEMMA NewSame ==
  ASSUME IInv, NEW i, NEW h, NewHandle(i, h)
  PROVE  \A k \in live : Same(k)
<1> USE Types
<1>1. \A k \in live : k \in Ids /\ k # i /\ span[k].hi \in Nat
  BY DEF NewHandle
<1> QED BY <1>1 DEF NewHandle, Same

(* So does working in the slots of one, and that one stays in its range.   *)
LEMMA SlotsSame ==
  ASSUME IInv, NEW i \in live,
         \/ \E n \in 1 .. MaxCap : PushSlots(i, n)
         \/ \E u \in Offsets : TruncateSlots(i, u)
         \/ IntoFSpan(i)
  PROVE  /\ stack' = stack /\ live' = live /\ \A k \in live : Same(k)
<1> USE Types
<1>0. i \in Ids /\ span[i].hi \in Nat /\ span[i].used \in Nat /\ span[i].used <= span[i].hi
  BY DEF IInv, HandleOK, HandleAt
<1>1. \A k \in live : k \in Ids /\ span[k].hi \in Nat
  OBVIOUS
<1>2. CASE \E n \in 1 .. MaxCap : PushSlots(i, n)
  BY <1>1, <1>2 DEF PushSlots, Same
<1>3. CASE \E u \in Offsets : TruncateSlots(i, u)
  BY <1>1, <1>3 DEF TruncateSlots, Same
<1>4. CASE IntoFSpan(i)
  BY <1>0, <1>1, <1>4 DEF IntoFSpan, Same
<1> QED BY <1>2, <1>3, <1>4

(* gpu::collect keeps the invariant: what becomes new_gpu_prev belongs to  *)
(* the tick and holds no more than its table's capacity.                   *)
LEMMA GpuInv ==
  ASSUME IInv, IInv', TickInv, Gpu, mac' = mac
  PROVE  TickInv'
<1> USE Types DEF InTick, InTick2, InTick3
<1>0. live \subseteq Ids /\ NoId \notin Ids /\ GElem' = GElem /\ 1 \in 1 .. MaxCap
  BY ArenaAssumption, TickAssumption DEF GElem
<1>1. CASE NoEntries
  <2>1. /\ pc \in {"gpu", "entries"} /\ pc' = IF pc = "gpu" THEN "newprev" ELSE "collect"
        /\ Room(1) /\ Empty(Fresh, XElem) /\ roles' = roles
    BY <1>1 DEF NoEntries, Goto
  <2>2. stack' = stack /\ \A k \in live : Same(k)
    BY <2>1, FreshFacts, NewSame DEF Empty
  <2>3. table = NoId
    BY <2>1 DEF TickInv, NewAt
  <2> QED BY <2>1, <2>2, <2>3, TickSteady
<1>2. CASE NewPrev
  <2> DEFINE i == Fresh
  <2>1. /\ pc = "newprev" /\ pc' = "collect" /\ Room(1) /\ Empty(i, GElem) /\ i \in Ids
        /\ new_gpu_prev' = i /\ gpu_prev' = gpu_prev /\ prev' = prev /\ next' = next
        /\ table' = table /\ low' = low
    BY <1>2, FreshFacts DEF NewPrev, Goto
  <2>2. /\ i \notin live /\ live' = live \cup {i} /\ stack' = stack
        /\ span' = [span EXCEPT ![i] = [kind |-> "span", owner |-> Depth, lo |-> Bump(GElem),
                      hi |-> Bump(GElem), used |-> Bump(GElem), elem |-> GElem]]
    BY <2>1 DEF Empty, NewHandle
  <2> HIDE DEF i
  <2>3. \A k \in live : Same(k)
    BY <2>1, NewSame DEF Empty
  <2>4. Depth = 2 /\ Depth' = 2
    BY <2>1, <2>2 DEF TickInv, ShapeAt, Depth
  <2>5. table = NoId /\ (next # NoId => next \in live)
    BY <2>1 DEF TickInv, NewAt
  <2>6. span'[i].owner = 2 /\ span'[i].hi = Bump(GElem) /\ span'[i].lo = Bump(GElem)
        /\ Bump(GElem) \in Nat
    <3>1. GElem.align \in {1, 2, 4, 8, 16} /\ offset \in Nat
      BY TickSizes
    <3>2. Bump(GElem) \in Nat
      BY <3>1, AlignUpFacts DEF Bump
    <3> QED BY <2>1, <2>2, <2>4, <3>2
  <2>7. NewAt'
    <3>1. next # NoId => /\ Same(next) /\ span[next].owner = 2
                         /\ span'[next].hi <= span'[next].lo + MaxProc * PElem.size
      <4>1. ASSUME next # NoId PROVE span'[next] = span[next]
        BY <2>1, <2>2, <2>5, <4>1
      <4> QED BY <2>3, <2>5, <4>1 DEF TickInv, NewAt
    <3>2. span'[i].hi <= span'[i].lo + MaxGpu * GElem.size
      BY <2>6, TickSizes
    <3>3. i \in live' /\ pc' \in InTick
      BY <2>1, <2>2
    <3> QED BY <1>0, <2>1, <2>5, <2>6, <3>1, <3>2, <3>3 DEF NewAt, Same
  <2>8. {new_gpu_prev', next', table'} \subseteq live' \cup {NoId}
    BY <2>1, <2>2, <2>5
  <2> QED BY <2>1, <2>2, <2>3, <2>4, <2>7, <2>8, TickKeeps DEF TickInv
<1>3. CASE BeginTable
  <2> DEFINE r == [kind |-> "compact", saved |-> offset, i |-> NoId, j |-> NoId]
  <2>1. /\ pc \in {"gpu", "entries"} /\ pc' = "table" /\ roles' = roles
        /\ stack' = Append(stack, r) /\ live' = live /\ span' = span
    BY <1>3 DEF BeginTable, BeginCompact, Goto
  <2>2. r \in Activation
    BY DEF Activation
  <2>3. \A k \in live : Same(k)
    BY <1>0, <2>1 DEF Same
  <2> QED BY <2>1, <2>2, <2>3, TickOpens
<1>4. CASE TableVec
  <2> DEFINE i == Fresh
             n == IF Building = GElem THEN MaxGpu ELSE MaxTable
             b == n * Building.size
  <2>1. /\ pc = "table" /\ pc' = "push" /\ Room(1) /\ Vec(i, Building, n) /\ i \in Ids
        /\ table' = i /\ gpu_prev' = gpu_prev /\ prev' = prev /\ next' = next
        /\ new_gpu_prev' = new_gpu_prev /\ low' = low
    BY <1>4, FreshFacts DEF TableVec, Goto
  <2>2. /\ i \notin live /\ live' = live \cup {i} /\ stack' = stack
        /\ span' = [span EXCEPT ![i] = [kind |-> "vec", owner |-> Depth, lo |-> Bump(Building),
                      hi |-> Bump(Building) + b, used |-> Bump(Building), elem |-> Building]]
    BY <2>1 DEF Vec, NewHandle
  <2>3. \A k \in live : Same(k)
    BY <2>1, NewSame DEF Vec
  <2>4. mac /\ new_gpu_prev = NoId => b = MaxGpu * GElem.size
    BY DEF Building
  <2> HIDE DEF i, b
  <2>5. Depth = 3 /\ Depth' = 3
    BY <2>1, <2>2 DEF TickInv, ShapeAt, Depth
  <2>6. span'[i].owner = 3 /\ span'[i].hi = Bump(Building) + b /\ span'[i].lo = Bump(Building)
    BY <2>1, <2>2, <2>5
  <2>7. NewAt'
    <3>1. \A k \in live : span'[k] = span[k] /\ k \in live'
      BY <2>1, <2>2
    <3>2. next # NoId => /\ next \in live' /\ span'[next].owner = 2
                         /\ span'[next].hi <= span'[next].lo + MaxProc * PElem.size
      BY <3>1 DEF TickInv, NewAt
    <3>3. new_gpu_prev # NoId =>
            /\ new_gpu_prev \in live' /\ span'[new_gpu_prev].owner = 2
            /\ span'[new_gpu_prev].hi <= span'[new_gpu_prev].lo + MaxGpu * GElem.size
      BY <3>1 DEF TickInv, NewAt
    <3>4. mac /\ new_gpu_prev = NoId => span'[i].hi <= span'[i].lo + MaxGpu * GElem.size
      <4> DEFINE g == MaxGpu * GElem.size
      <4>1. ASSUME mac, new_gpu_prev = NoId PROVE span'[i].hi <= span'[i].lo + g
        <5>1. span'[i].hi = span'[i].lo + g
          BY <2>4, <2>6, <4>1
        <5>2. span'[i].lo \in Nat /\ span'[i].hi \in Nat
          <6>1. span' \in [Ids -> Handle]
            BY DEF IInv, TypeOK
          <6> QED BY <2>1, <6>1 DEF Handle
        <5>3. g \in Nat
          BY TickSizes
        <5> HIDE DEF g
        <5> QED BY <5>1, <5>2, <5>3
      <4> QED BY <4>1
    <3> QED BY <1>0, <2>1, <2>2, <2>6, <3>2, <3>3, <3>4 DEF NewAt
  <2>8. {new_gpu_prev', next', table'} \subseteq live' \cup {NoId}
    BY <2>1, <2>2 DEF TickInv, NewAt
  <2> QED BY <2>1, <2>2, <2>3, <2>5, <2>7, <2>8, TickKeeps DEF TickInv
<1>5. CASE TableFail
  <2> DEFINE i == Fresh
  <2>1. /\ pc = "push" /\ pc' = "result" /\ Room(1) /\ Empty(i, GElem) /\ i \in Ids
        /\ table' = i /\ gpu_prev' = gpu_prev /\ prev' = prev /\ next' = next
        /\ new_gpu_prev' = new_gpu_prev /\ low' = low /\ new_gpu_prev = NoId
    BY <1>5, FreshFacts DEF TableFail, Goto
  <2>2. /\ i \notin live /\ live' = live \cup {i} /\ stack' = stack
        /\ span' = [span EXCEPT ![i] = [kind |-> "span", owner |-> Depth, lo |-> Bump(GElem),
                      hi |-> Bump(GElem), used |-> Bump(GElem), elem |-> GElem]]
    BY <2>1 DEF Empty, NewHandle
  <2> HIDE DEF i
  <2>3. \A k \in live : Same(k)
    BY <2>1, NewSame DEF Empty
  <2>4. Depth = 3 /\ Depth' = 3
    BY <2>1, <2>2 DEF TickInv, ShapeAt, Depth
  <2>5. next # NoId => next \in live
    BY DEF TickInv, NewAt
  <2>6. span'[i].owner = 3 /\ span'[i].hi = Bump(GElem) /\ span'[i].lo = Bump(GElem)
        /\ Bump(GElem) \in Nat
    <3>1. GElem.align \in {1, 2, 4, 8, 16} /\ offset \in Nat
      BY TickSizes
    <3>2. Bump(GElem) \in Nat
      BY <3>1, AlignUpFacts DEF Bump
    <3> QED BY <2>1, <2>2, <2>4, <3>2
  <2>7. NewAt'
    <3>1. next # NoId => /\ next \in live' /\ span'[next].owner = 2
                         /\ span'[next].hi <= span'[next].lo + MaxProc * PElem.size
      <4>1. ASSUME next # NoId PROVE span'[next] = span[next] /\ next \in live'
        BY <2>1, <2>2, <2>5, <4>1
      <4> QED BY <4>1 DEF TickInv, NewAt
    <3>2. span'[i].hi <= span'[i].lo + MaxGpu * GElem.size
      BY <2>6, TickSizes
    <3>3. i \in live' /\ pc' \in InTick
      BY <2>1, <2>2
    <3> QED BY <1>0, <2>1, <2>6, <3>1, <3>2, <3>3 DEF NewAt
  <2>8. {new_gpu_prev', next', table'} \subseteq live' \cup {NoId}
    BY <2>1, <2>2, <2>5
  <2> QED BY <2>1, <2>2, <2>3, <2>4, <2>7, <2>8, TickKeeps DEF TickInv
<1>6. CASE TablePush
  <2>1. pc = "push" /\ pc' = "push" /\ roles' = roles /\ table \in live /\ PushSlots(table, 1)
    BY <1>6 DEF TablePush, VecPush, roles
  <2>2. stack' = stack /\ \A k \in live : Same(k)
    BY <1>0, <2>1, SlotsSame
  <2> QED BY <2>1, <2>2, TickSteady
<1>7. CASE TableDedup
  <2> DEFINE u == span[table].lo + Building.size
  <2>1. /\ pc = "push" /\ pc' = "dedup" /\ roles' = roles /\ table \in live
        /\ TruncateSlots(table, u)
    BY <1>7 DEF TableDedup, VecTruncate, roles, Goto
  <2>2. u \in Offsets
    <3>1. Building \in Elem
      BY GElemFacts, TickAssumption, ArenaAssumption DEF Building
    <3>2. Building.size \in Nat /\ table \in Ids
      BY <1>0, <2>1, <3>1 DEF Elem
    <3>3. span[table].used <= Size /\ u < span[table].used
      BY <2>1, BoundsFromInv DEF InBounds, TruncateSlots
    <3> QED BY <3>2, <3>3 DEF Offsets
  <2> HIDE DEF u
  <2>3. stack' = stack /\ \A k \in live : Same(k)
    BY <2>1, <2>2, SlotsSame
  <2> QED BY <2>1, <2>3, TickSteady
<1>8. CASE TableSpan
  <2>1. /\ pc \in {"push", "dedup"} /\ pc' = "result" /\ roles' = roles /\ table \in live
        /\ IntoFSpan(table)
    BY <1>8 DEF TableSpan, IntoFSpan, roles, Goto
  <2>2. stack' = stack /\ \A k \in live : Same(k)
    BY <2>1, SlotsSame
  <2> QED BY <2>1, <2>2, TickSteady
<1>9. CASE EndTable
  <2> DEFINE h == span[table]
             b == h.used - h.lo
             dst == AlignUp(Top.saved, h.elem.align)
  <2>1. /\ pc = "result" /\ EndCompact(table) /\ table' = NoId
        /\ IF mac /\ new_gpu_prev = NoId
             THEN new_gpu_prev' = table /\ pc' = "entries"
             ELSE pc' \in {"collect", "newprev"} /\ new_gpu_prev' = new_gpu_prev
        /\ gpu_prev' = gpu_prev /\ prev' = prev /\ next' = next /\ low' = low
    BY <1>9 DEF EndTable, Goto
  <2>2. /\ Depth = 3 /\ stack' = Pop /\ table \in live /\ h.owner = 3
        /\ live' = live \ (Owned(3) \ {table})
        /\ span' = [Blanked(span, Owned(3) \ {table}) EXCEPT ![table] = Slid(h, dst, b)]
    BY <2>1 DEF EndCompact, Owned, Release, TickInv, ShapeAt
  <2>3. Depth' = 2 /\ stack'[2] = stack[2]
    BY <2>2, PoppedOne
  <2>4. ASSUME NEW k \in live, span[k].owner # 3
        PROVE  k \in live' /\ span'[k] = span[k] /\ Same(k)
    <3>1. k # table /\ k \in Ids /\ span[k].hi \in Nat
      BY <2>2, <2>4
    <3>2. k \in live' /\ span'[k] = span[k]
      BY <2>2, <2>4, <3>1 DEF Owned, Blanked
    <3> QED BY <3>1, <3>2 DEF Same
  <2>5. /\ span'[table].owner = 2 /\ span'[table].lo = dst /\ span'[table].hi = dst + b
    BY <2>2 DEF Slid, Blanked
  <2>6. mac /\ new_gpu_prev = NoId =>
          span'[table].hi <= span'[table].lo + MaxGpu * GElem.size
    <3> DEFINE g == MaxGpu * GElem.size
    <3>1. ASSUME mac, new_gpu_prev = NoId PROVE span'[table].hi <= span'[table].lo + g
      <4>1. h.hi <= h.lo + g
        BY <1>0, <2>2, <3>1 DEF TickInv, NewAt
      <4>2. h.used <= h.hi /\ h.lo \in Nat /\ h.hi \in Nat /\ h.used \in Nat
        BY <2>2, BoundsFromInv DEF InBounds
      <4>3. g \in Nat
        BY TickSizes
      <4>4. b <= g
        <5> HIDE DEF h, g
        <5> QED BY <4>1, <4>2, <4>3
      <4>5. dst \in Nat
        <5>1. Top.saved \in Nat /\ h.elem.align \in {1, 2, 4, 8, 16}
          BY <2>2, PopFloor
        <5> QED BY <5>1, AlignUpFacts
      <4> HIDE DEF h, dst, g
      <4> QED BY <2>5, <4>2, <4>3, <4>4, <4>5
    <3> QED BY <3>1
  <2> HIDE DEF h, b, dst
  <2>7. table \in live' /\ pc' \in InTick2 /\ pc \in InTick /\ pc' \notin InTick3
    BY <2>1, <2>2
  <2>8. next # NoId => /\ next \in live' /\ span'[next].owner = 2
                       /\ span'[next].hi <= span'[next].lo + MaxProc * PElem.size
    BY <2>4 DEF TickInv, NewAt
  <2>9. new_gpu_prev # NoId =>
          /\ new_gpu_prev \in live' /\ span'[new_gpu_prev].owner = 2
          /\ span'[new_gpu_prev].hi <= span'[new_gpu_prev].lo + MaxGpu * GElem.size
    BY <2>4 DEF TickInv, NewAt
  <2>10. NewAt'
    BY <1>0, <2>1, <2>5, <2>6, <2>7, <2>8, <2>9 DEF NewAt
  <2>11. {new_gpu_prev', next', table'} \subseteq live' \cup {NoId}
    BY <2>1, <2>7, <2>8, <2>9
  <2> QED BY <2>1, <2>3, <2>4, <2>7, <2>10, <2>11, TickKeeps DEF TickInv
<1> QED BY <1>1, <1>2, <1>3, <1>4, <1>5, <1>6, <1>7, <1>8, <1>9 DEF Gpu

(* collect_procs keeps the invariant: next belongs to the tick and has     *)
(* room for one element per listed process.                                *)
LEMMA ProcsInv ==
  ASSUME IInv, IInv', TickInv, Procs, mac' = mac
  PROVE  TickInv'
<1> USE Types DEF InTick, InTick2, InTick3
<1>0. live \subseteq Ids /\ NoId \notin Ids /\ GElem' = GElem /\ 1 \in 1 .. MaxCap
  BY ArenaAssumption, TickAssumption DEF GElem
<1>1. CASE TickAlloc
  <2>1. /\ pc \in {"table", "collect", "stat", "render"} /\ pc' = pc /\ roles' = roles
        /\ Alloc(Fresh, XElem)
    BY <1>1 DEF TickAlloc, roles
  <2>2. stack' = stack /\ \A k \in live : Same(k)
    BY <2>1, NewSame DEF Alloc
  <2>3. table = NoId
    BY <2>1 DEF TickInv, NewAt
  <2> QED BY <2>1, <2>2, <2>3, TickSteady
<1>2. CASE AllocNext
  <2> DEFINE i == Fresh
             g == MaxProc * PElem.size
  <2>1. /\ pc = "collect" /\ pc' = "stat" /\ Room(1) /\ i \in Ids
        /\ next' = i /\ gpu_prev' = gpu_prev /\ prev' = prev /\ table' = table
        /\ new_gpu_prev' = new_gpu_prev /\ low' = low
    BY <1>2, FreshFacts DEF AllocNext, Goto
  <2>2. PICK n \in 0 .. MaxProc : Vec(i, PElem, n)
    BY <1>2 DEF AllocNext
  <2> DEFINE b == n * PElem.size
  <2>3. /\ i \notin live /\ live' = live \cup {i} /\ stack' = stack
        /\ span' = [span EXCEPT ![i] = [kind |-> "vec", owner |-> Depth, lo |-> Bump(PElem),
                      hi |-> Bump(PElem) + b, used |-> Bump(PElem), elem |-> PElem]]
    BY <2>2 DEF Vec, NewHandle
  <2>4. \A k \in live : Same(k)
    BY <2>1, <2>2, NewSame DEF Vec
  <2>5. b <= g /\ b \in Nat /\ g \in Nat
    BY TickSizes, MulMono, MulNat
  <2> HIDE DEF i, b, g
  <2>6. Depth = 2 /\ Depth' = 2 /\ table = NoId
    BY <2>1, <2>3 DEF TickInv, ShapeAt, NewAt, Depth
  <2>7. span'[i].owner = 2 /\ span'[i].hi = Bump(PElem) + b /\ span'[i].lo = Bump(PElem)
        /\ Bump(PElem) \in Nat
    <3>1. Bump(PElem) \in Nat
      BY TickSizes, AlignUpFacts DEF Bump
    <3> QED BY <2>1, <2>3, <2>6, <3>1
  <2>8. span'[i].hi <= span'[i].lo + g
    BY <2>5, <2>7
  <2>9. NewAt'
    <3>1. \A k \in live : span'[k] = span[k] /\ k \in live'
      BY <2>1, <2>3
    <3>2. new_gpu_prev # NoId =>
            /\ new_gpu_prev \in live' /\ span'[new_gpu_prev].owner = 2
            /\ span'[new_gpu_prev].hi <= span'[new_gpu_prev].lo + MaxGpu * GElem.size
      BY <3>1 DEF TickInv, NewAt
    <3> QED BY <1>0, <2>1, <2>3, <2>6, <2>7, <2>8, <3>2 DEF NewAt, g
  <2>10. {new_gpu_prev', next', table'} \subseteq live' \cup {NoId}
    BY <2>1, <2>3, <2>6 DEF TickInv, NewAt
  <2> QED BY <2>1, <2>3, <2>4, <2>6, <2>9, <2>10, TickKeeps DEF TickInv
<1>3. CASE PushNext
  <2>1. pc = "stat" /\ pc' = "open" /\ roles' = roles /\ next \in live /\ PushSlots(next, 1)
    BY <1>3 DEF PushNext, VecPush, roles, Goto
  <2>2. stack' = stack /\ \A k \in live : Same(k)
    BY <1>0, <2>1, SlotsSame
  <2>3. table = NoId
    BY <2>1 DEF TickInv, NewAt
  <2> QED BY <2>1, <2>2, <2>3, TickSteady
<1>4. CASE OpenStat
  <2> DEFINE r == [kind |-> "scope", saved |-> offset, i |-> NoId, j |-> NoId]
  <2>1. /\ pc = "open" /\ pc' = "read" /\ roles' = roles
        /\ stack' = Append(stack, r) /\ live' = live /\ span' = span
    BY <1>4 DEF OpenStat, OpenScope, Goto
  <2>2. r \in Activation
    BY DEF Activation
  <2>3. \A k \in live : Same(k)
    BY <1>0, <2>1 DEF Same
  <2> QED BY <2>1, <2>2, <2>3, TickOpens
<1>5. CASE StatRaw
  <2>1. pc = "read" /\ pc' = "close" /\ roles' = roles /\ Alloc(Fresh, XElem)
    BY <1>5 DEF StatRaw, roles, Goto
  <2>2. stack' = stack /\ \A k \in live : Same(k)
    BY <2>1, NewSame DEF Alloc
  <2>3. table = NoId
    BY <2>1 DEF TickInv, NewAt
  <2> QED BY <2>1, <2>2, <2>3, TickSteady
<1>6. CASE CloseStat
  <2>1. /\ pc = "close" /\ pc' = "stat" /\ roles' = roles /\ stack' = Pop
        /\ live' = live \ Owned(Depth) /\ span' = Blanked(span, Owned(Depth))
    BY <1>6 DEF CloseStat, CloseScope, Release, Goto
  <2>2. Depth = 3 /\ table = NoId
    BY <2>1 DEF TickInv, ShapeAt, NewAt
  <2>3. ASSUME NEW k \in live, span[k].owner # 3 PROVE Same(k)
    <3>1. k \in Ids /\ k \notin Owned(Depth) /\ span[k].hi \in Nat
      BY <1>0, <2>2, <2>3 DEF Owned
    <3>2. k \in live' /\ span'[k] = span[k]
      BY <2>1, <2>3, <3>1 DEF Blanked
    <3> QED BY <3>1, <3>2 DEF Same
  <2> QED BY <2>1, <2>2, <2>3, TickCloses
<1>7. CASE EndCollect
  <2>1. /\ pc = "stat" /\ pc' = "render" /\ roles' = roles /\ stack' = stack
        /\ live' = live /\ span' = span
    BY <1>7 DEF EndCollect, vars, Goto
  <2>2. \A k \in live : Same(k)
    BY <1>0, <2>1 DEF Same
  <2>3. table = NoId
    BY <2>1 DEF TickInv, NewAt
  <2> QED BY <2>1, <2>2, <2>3, TickSteady
<1> QED BY <1>1, <1>2, <1>3, <1>4, <1>5, <1>6, <1>7 DEF Procs

(* Rendering keeps the invariant: it writes only to the builder of stdout. *)
LEMMA RenderInv ==
  ASSUME IInv, IInv', TickInv, Render, mac' = mac
  PROVE  TickInv'
<1> USE Types DEF InTick, InTick2, InTick3
<1>0. live \subseteq Ids /\ NoId \notin Ids /\ 1 \in 1 .. MaxCap
  BY ArenaAssumption, TickAssumption
<1>1. CASE BeginStdout
  <2> DEFINE i == Fresh
             r == [kind |-> "builder", saved |-> offset, i |-> i, j |-> NoId]
  <2>1. /\ pc = "render" /\ pc' = "stdout" /\ roles' = roles /\ Room(1) /\ i \in Ids
        /\ BeginSpan(i, XElem) /\ stack' = Append(stack, r)
    BY <1>1, FreshFacts DEF BeginStdout, BeginSpan, Goto
  <2>2. r \in Activation
    BY <2>1 DEF Activation
  <2>3. \A k \in live : Same(k)
    BY <2>1, NewSame DEF BeginSpan
  <2> HIDE DEF r
  <2> QED BY <2>1, <2>2, <2>3, TickOpens
<1>2. CASE PutStdout
  <2>1. /\ pc = "stdout" /\ pc' = pc /\ roles' = roles /\ stack' = stack /\ live' = live
        /\ Inside({"builder"}) /\ \A k \in Ids : k # Top.i => span'[k] = span[k]
    BY <1>2 DEF PutStdout, BuilderPush, BuilderPop, roles
  <2>2. Depth = 3 /\ table = NoId
    BY <2>1 DEF TickInv, ShapeAt, NewAt
  <2>3. span[Top.i].owner = 3
    BY <2>1, <2>2, OpenFacts DEF Inside
  <2>4. ASSUME NEW k \in live, span[k].owner # 3 PROVE Same(k)
    <3>1. k \in Ids /\ span[k].hi \in Nat /\ span'[k] = span[k]
      BY <1>0, <2>1, <2>3, <2>4
    <3> QED BY <2>1, <3>1 DEF Same
  <2>5. table \notin live
    BY <1>0, <2>2
  <2> QED BY <2>1, <2>2, <2>4, <2>5, TickSteady
<1>3. CASE EndStdout
  <2>1. /\ pc = "stdout" /\ pc' = "freeze" /\ roles' = roles /\ stack' = Pop /\ live' = live
        /\ Inside({"builder"}) /\ \A k \in Ids : k # Top.i => span'[k] = span[k]
    BY <1>3 DEF EndStdout, EndSpan, Goto
  <2>2. Depth = 3 /\ table = NoId
    BY <2>1 DEF TickInv, ShapeAt, NewAt
  <2>3. span[Top.i].owner = 3
    BY <2>1, <2>2, OpenFacts DEF Inside
  <2>4. ASSUME NEW k \in live, span[k].owner # 3 PROVE Same(k)
    <3>1. k \in Ids /\ span[k].hi \in Nat /\ span'[k] = span[k]
      BY <1>0, <2>1, <2>3, <2>4
    <3> QED BY <2>1, <3>1 DEF Same
  <2> QED BY <2>1, <2>2, <2>4, TickCloses
<1>4. CASE FreezeNext
  <2>1. pc = "freeze" /\ pc' = pc /\ roles' = roles /\ next \in live /\ IntoFSpan(next)
    BY <1>4 DEF FreezeNext, IntoFSpan, roles
  <2>2. stack' = stack /\ \A k \in live : Same(k)
    BY <2>1, SlotsSame
  <2>3. table = NoId
    BY <2>1 DEF TickInv, NewAt
  <2> QED BY <2>1, <2>2, <2>3, TickSteady
<1> QED BY <1>1, <1>2, <1>3, <1>4 DEF Render

(* replace2 begins: the two spans are lent, and stay where they are.       *)
LEMMA BeginTickInv ==
  ASSUME IInv, IInv', TickInv, BeginTick, mac' = mac
  PROVE  TickInv'
<1> USE Types DEF InTick, InTick2, InTick3
<1> DEFINE r == [kind |-> "replace2", saved |-> offset, i |-> gpu_prev, j |-> prev]
<1>1. /\ pc = "idle" /\ pc' = "gpu" /\ gpu_prev' = gpu_prev /\ prev' = prev
      /\ new_gpu_prev' = new_gpu_prev /\ next' = next /\ table' = table /\ low' = low
      /\ live' = live /\ stack' = Append(stack, r) /\ Depth = 1
      /\ span' = [span EXCEPT ![gpu_prev].kind = "lent", ![prev].kind = "lent"]
  BY DEF BeginTick, BeginReplace2, Goto, roles, TickInv, ShapeAt, Alone
<1>2. /\ gpu_prev \in live /\ prev \in live /\ prev # gpu_prev /\ live \subseteq Ids
      /\ span[gpu_prev].owner = 1 /\ span[gpu_prev].elem = GElem /\ span[gpu_prev].lo = low
      /\ span[prev].owner = 1 /\ span[prev].elem = PElem
  BY <1>1 DEF TickInv, KeptAt
<1>3. /\ new_gpu_prev = NoId /\ next = NoId /\ table = NoId /\ GElem' = GElem
      /\ TickTypeOK
  BY <1>1 DEF TickInv, NewAt, GElem
<1>4. r \in Activation
  BY <1>2 DEF Activation
<1>5. Depth' = 2 /\ stack'[2].kind = "replace2" /\ stack'[2].i = gpu_prev /\ stack'[2].j = prev
  <2>1. Depth' = Depth + 1 /\ Top' = r
    BY <1>1, <1>4, Pushed
  <2>2. Depth' = 2 /\ stack'[2] = r
    BY <1>1, <2>1 DEF Top, Depth
  <2> QED BY <2>2
<1>6. /\ span'[gpu_prev].owner = 1 /\ span'[gpu_prev].elem = GElem /\ span'[gpu_prev].lo = low
      /\ span'[prev].owner = 1 /\ span'[prev].elem = PElem
  <2>1. span' = [k \in Ids |-> IF k \in {gpu_prev, prev}
                                 THEN [span[k] EXCEPT !.kind = "lent"] ELSE span[k]]
    BY <1>1, <1>2
  <2>2. /\ span'[gpu_prev] = [span[gpu_prev] EXCEPT !.kind = "lent"]
        /\ span'[prev] = [span[prev] EXCEPT !.kind = "lent"]
    BY <1>2, <2>1
  <2>3. span[gpu_prev] \in Handle /\ span[prev] \in Handle
    BY <1>2
  <2> QED BY <1>2, <2>2, <2>3, SMTT(60) DEF Handle
<1>7. ShapeAt' /\ SetupAt' /\ ReadyAt'
  BY <1>1, <1>5 DEF ShapeAt, SetupAt, ReadyAt, Alone
<1>8. KeptAt' /\ NewAt'
  BY <1>1, <1>2, <1>3, <1>6 DEF KeptAt, NewAt
<1>9. TickTypeOK'
  BY <1>1, <1>2, <1>3 DEF TickTypeOK, Roles
<1> QED BY <1>7, <1>8, <1>9 DEF TickInv

(* replace2 ends: new_gpu_prev has slid to where gpu_prev was, next to     *)
(* just past it, and both are as short as one tick makes them.             *)
LEMMA EndTickInv ==
  ASSUME IInv, IInv', TickInv, EndTick, mac' = mac
  PROVE  TickInv'
<1> USE Types DEF InTick, InTick2, InTick3
<1> DEFINE n1 == new_gpu_prev
           n2 == next
           h1 == span[n1]
           h2 == span[n2]
           start == span[Top.i].lo
           b1 == h1.used - h1.lo
           b2 == h2.used - h2.lo
           dst == AlignUp(start + b1, h2.elem.align)
           end == dst + b2
           g1 == MaxGpu * GElem.size
           g2 == MaxProc * PElem.size
           a == PElem.align
<1>1. /\ pc = "freeze" /\ pc' \in {"exit", "uncommit"} /\ gpu_prev' = n1 /\ prev' = n2
      /\ new_gpu_prev' = NoId /\ next' = NoId /\ table' = table /\ low' = low
      /\ Depth = 2 /\ Top = stack[2] /\ Top.i = gpu_prev /\ Top.j = prev
      /\ table = NoId
  BY DEF EndTick, Goto, TickInv, ShapeAt, NewAt, Top, Depth
<1>2. /\ Inside({"replace2"}) /\ n1 # n2 /\ n1 \in live /\ n2 \in live
      /\ h1.owner = 2 /\ h2.owner = 2
      /\ h1.elem = span[Top.i].elem /\ h2.elem = span[Top.j].elem
  BY <1>1 DEF EndTick, EndReplace2, Owned
<1>3. /\ stack' = Pop /\ offset' = end
      /\ live' = (live \ (Owned(Depth) \ {n1, n2})) \ {Top.i, Top.j}
      /\ span' = [Blanked(span, (Owned(Depth) \ {n1, n2}) \cup {Top.i, Top.j}) EXCEPT
                     ![n1] = Slid(h1, start, b1), ![n2] = Slid(h2, dst, b2)]
  BY DEF EndTick, EndReplace2, Release, RotateStart
<1>4. /\ gpu_prev \in live /\ prev \in live /\ prev # gpu_prev
      /\ span[gpu_prev].owner = 1 /\ span[gpu_prev].elem = GElem /\ span[gpu_prev].lo = low
      /\ span[prev].owner = 1 /\ span[prev].elem = PElem /\ live \subseteq Ids
      /\ NoId \notin Ids /\ GElem' = GElem /\ TickTypeOK
  BY <1>1, ArenaAssumption DEF TickInv, KeptAt, GElem
<1>5. h1.elem = GElem /\ h2.elem = PElem /\ start = low /\ dst = AlignUp(low + b1, a)
  BY <1>1, <1>2, <1>4
<1>6. /\ h1.hi <= h1.lo + g1 /\ h2.hi <= h2.lo + g2
  <2>1. n1 # NoId /\ n2 # NoId
    BY <1>2, <1>4
  <2> QED BY <2>1 DEF TickInv, NewAt
<1>7. /\ h1.lo <= h1.used /\ h1.used <= h1.hi /\ h2.lo <= h2.used /\ h2.used <= h2.hi
      /\ h1.lo \in Nat /\ h1.used \in Nat /\ h1.hi \in Nat
      /\ h2.lo \in Nat /\ h2.used \in Nat /\ h2.hi \in Nat
  BY <1>2, BoundsFromInv DEF InBounds
<1>8. g1 \in Nat /\ g2 \in Nat /\ low \in Nat /\ a \in {1, 2, 4, 8, 16} /\ a \in Nat
  <2>1. low \in Nat
    BY <1>4 DEF TickTypeOK, Offsets
  <2> QED BY ONLY <2>1, TickSizes
<1>9. b1 \in Nat /\ b2 \in Nat /\ b1 <= g1 /\ b2 <= g2
  <2>1. ASSUME NEW lo \in Nat, NEW used \in Nat, NEW hi \in Nat, NEW g \in Nat,
               lo <= used, used <= hi, hi <= lo + g
        PROVE  used - lo \in Nat /\ used - lo <= g
    BY ONLY <2>1
  <2>2. b1 \in Nat /\ b1 <= g1
    BY ONLY <1>6, <1>7, <1>8, <2>1
  <2>3. b2 \in Nat /\ b2 <= g2
    BY ONLY <1>6, <1>7, <1>8, <2>1
  <2> QED BY <2>2, <2>3
<1>10. /\ dst \in Nat /\ low + b1 <= dst /\ end \in Nat /\ AlignUp(low + g1, a) \in Nat
       /\ end <= AlignUp(low + g1, a) + g2
  <2> HIDE DEF b1, b2, g1, g2, a, dst
  <2>1. low + b1 \in Nat /\ low + g1 \in Nat /\ low + b1 <= low + g1
    BY <1>8, <1>9
  <2>2. dst \in Nat /\ low + b1 <= dst /\ AlignUp(low + g1, a) \in Nat
    BY <1>5, <1>8, <2>1, AlignUpFacts
  <2>3. dst <= AlignUp(low + g1, a)
    BY <1>5, <1>8, <2>1, AlignUpMono
  <2> QED BY <1>8, <1>9, <2>2, <2>3
<1>11. /\ Depth' = 1
  BY <1>1, <1>3, PoppedOne
<1>12. /\ n1 \in live' /\ n2 \in live' /\ Slid(h1, start, b1) = span'[n1]
       /\ Slid(h2, dst, b2) = span'[n2]
  <2>1. n1 \notin {Top.i, Top.j} /\ n2 \notin {Top.i, Top.j}
    BY <1>1, <1>2, <1>4
  <2>2. n1 \in live' /\ n2 \in live'
    BY <1>2, <1>3, <2>1
  <2>3. n1 \in Ids /\ n2 \in Ids /\ n1 # n2
    BY <1>2
  <2> HIDE DEF n1, n2, h1, h2, start, b1, b2, dst
  <2>4. Slid(h1, start, b1) = span'[n1] /\ Slid(h2, dst, b2) = span'[n2]
    BY <1>3, <2>3 DEF Blanked
  <2> QED BY <2>2, <2>4
<1>13. /\ span'[n1].owner = 1 /\ span'[n1].elem = GElem /\ span'[n1].lo = low
       /\ span'[n1].hi = low + b1
       /\ span'[n2].owner = 1 /\ span'[n2].elem = PElem /\ span'[n2].lo = dst
       /\ span'[n2].hi = end
  BY <1>1, <1>5, <1>12 DEF Slid
<1>14. ASSUME NEW o \in live', o # n1, o # n2
       PROVE  span'[o].hi <= low
  <2>1. o \in live /\ o \notin Owned(Depth) /\ o # Top.i /\ o # Top.j /\ o \in Ids
    BY <1>3, <1>4, <1>14
  <2>2. span'[o] = span[o]
    <3> HIDE DEF n1, n2, h1, h2, start, b1, b2, dst
    <3> QED BY <1>3, <1>14, <2>1 DEF Blanked
  <2>3. span[o].owner = 1
    <3>1. span[o].owner # 2 /\ span[o].owner \in 1 .. Depth
      BY <1>1, <2>1, BelowTop DEF Owned
    <3> QED BY <1>1, <3>1
  <2>4. span[o].hi <= span[Top.i].lo
    BY <1>1, <1>2, <2>1, <2>3, RotationFacts
  <2> QED BY <1>1, <1>4, <2>2, <2>4
<1> HIDE DEF n1, n2, h1, h2, start, b1, b2, dst, end
<1>15. ShapeAt' /\ SetupAt'
  BY <1>1, <1>11 DEF ShapeAt, SetupAt, Alone
<1>16. KeptAt' /\ NewAt'
  BY <1>1, <1>2, <1>4, <1>12, <1>13 DEF KeptAt, NewAt
<1>17. ReadyAt'
  <2>1. /\ span'[gpu_prev'].hi <= span'[prev'].lo
    BY <1>1, <1>10, <1>13
  <2>2. /\ offset' <= span'[prev'].hi /\ span'[prev'].hi - offset' < a
    <3>1. span'[prev'].hi = offset' /\ offset' \in Nat
      BY <1>1, <1>3, <1>10, <1>13
    <3>2. 0 < a /\ a \in Nat
      BY ONLY <1>8
    <3>3. \A q \in Nat : q <= q /\ q - q < a
      BY ONLY <3>2
    <3> QED BY <3>1, <3>3
  <2>3. /\ offset' <= AlignUp(low' + g1, a) + g2
    BY <1>1, <1>3, <1>10
  <2>4. \A o \in live' \ {gpu_prev', prev'} : span'[o].hi <= span'[gpu_prev'].lo
    BY <1>1, <1>13, <1>14
  <2>5. GElem' = GElem
    BY <1>4
  <2> QED BY <2>1, <2>2, <2>3, <2>4, <2>5 DEF ReadyAt
<1>18. TickTypeOK'
  BY <1>1, <1>4, <1>12 DEF TickTypeOK, Roles
<1> QED BY <1>15, <1>16, <1>17, <1>18 DEF TickInv

(* uncommit_tail changes neither the offset nor a handle.                  *)
LEMMA EndLoopInv ==
  ASSUME IInv, IInv', TickInv, EndLoop, mac' = mac
  PROVE  TickInv'
<1> USE DEF InTick, InTick2, InTick3
<1>1. /\ pc = "uncommit" /\ pc' \in {"idle", "exit"} /\ roles' = roles
      /\ offset' = offset /\ stack' = stack /\ live' = live /\ span' = span
  BY TailFacts DEF EndLoop, UncommitTail, Goto, roles
<1>2. /\ gpu_prev' = gpu_prev /\ prev' = prev /\ new_gpu_prev' = new_gpu_prev
      /\ next' = next /\ table' = table /\ low' = low /\ GElem' = GElem /\ Depth' = Depth
  BY <1>1 DEF roles, GElem, Depth
<1>3. ShapeAt' /\ SetupAt'
  BY <1>1, <1>2 DEF TickInv, ShapeAt, SetupAt, Alone
<1>4. KeptAt' /\ NewAt'
  BY <1>1, <1>2 DEF TickInv, KeptAt, NewAt
<1>5. ReadyAt'
  BY <1>1, <1>2 DEF TickInv, ReadyAt
<1>6. TickTypeOK'
  BY <1>1, <1>2 DEF TickInv, TickTypeOK, Roles
<1> QED BY <1>3, <1>4, <1>5, <1>6 DEF TickInv

(* Leaving the init scope, or the process.                                 *)
LEMMA LeaveInv ==
  ASSUME IInv, IInv', TickInv, Exit \/ Panic, mac' = mac
  PROVE  TickInv'
<1>1. /\ pc' = "done" /\ gpu_prev' = NoId /\ prev' = NoId /\ new_gpu_prev' = NoId
      /\ next' = NoId /\ table' = NoId /\ low' = low
  BY DEF Exit, Panic, Goto, TickInv, NewAt, InTick, InTick2, InTick3
<1>2. Depth' = 0
  <2>1. CASE Exit
    <3>1. stack' = Pop /\ Depth = 1
      BY <2>1 DEF Exit, CloseScope, TickInv, ShapeAt, Alone
    <3> QED BY <3>1, PoppedOne
  <2>2. CASE Panic
    BY <2>2 DEF Panic, Overflow, Depth
  <2> QED BY <2>1, <2>2
<1>3. ShapeAt' /\ SetupAt'
  BY <1>1, <1>2 DEF ShapeAt, SetupAt, Alone, InTick, InTick2, InTick3
<1>4. low' \in Offsets /\ mac' \in BOOLEAN
  BY <1>1 DEF TickInv, TickTypeOK
<1> QED BY <1>1, <1>3, <1>4, NoRoles DEF TickInv

(* Every step of run() preserves the invariant.                            *)
LEMMA TickStepInv ==
  ASSUME IInv, IInv', TickInv, [TickNext]_tickVars
  PROVE  TickInv'
<1>1. CASE TickNext /\ ~Done
  <2>1. mac' = mac
    BY <1>1 DEF TickNext
  <2> QED BY <1>1, <2>1, StartUpInv, BeginTickInv, GpuInv, ProcsInv, RenderInv, EndTickInv,
             EndLoopInv, LeaveInv DEF TickNext
<1>2. CASE (Done /\ mac' = mac) \/ UNCHANGED tickVars
  <2>1. /\ pc' = pc /\ gpu_prev' = gpu_prev /\ prev' = prev /\ new_gpu_prev' = new_gpu_prev
        /\ next' = next /\ table' = table /\ low' = low /\ mac' = mac
        /\ offset' = offset /\ stack' = stack /\ live' = live /\ span' = span
    BY <1>2 DEF Done, tickVars, vars, roles
  <2>2. Depth' = Depth /\ Top' = Top /\ GElem' = GElem
    BY <2>1 DEF Depth, Top, GElem
  <2>3. TickTypeOK' /\ ShapeAt'
    BY <2>1, <2>2 DEF TickInv, TickTypeOK, Roles, ShapeAt
  <2>4. SetupAt' /\ KeptAt'
    BY <2>1, <2>2 DEF TickInv, SetupAt, KeptAt
  <2>5. NewAt' /\ ReadyAt'
    BY <2>1, <2>2 DEF TickInv, NewAt, ReadyAt
  <2> QED BY <2>3, <2>4, <2>5 DEF TickInv
<1> QED BY <1>1, <1>2 DEF TickNext

(* run() starts in it.                                                     *)
LEMMA TickStart == TickInit => IInv /\ TickInv
<1> SUFFICES ASSUME TickInit PROVE IInv /\ TickInv
  OBVIOUS
<1>1. IInv
  BY EmptyState DEF TickInit, Init
<1>2. /\ pc = "boot" /\ gpu_prev = NoId /\ prev = NoId /\ new_gpu_prev = NoId /\ next = NoId
      /\ table = NoId /\ low = 0 /\ mac \in BOOLEAN /\ live = {} /\ offset = 0 /\ Depth = 0
  BY DEF TickInit, Init, Depth
<1>3. 0 \in Offsets
  BY ArenaAssumption DEF Offsets
<1>4. TickTypeOK /\ ShapeAt /\ SetupAt
  BY <1>2, <1>3 DEF TickTypeOK, Roles, ShapeAt, SetupAt, Alone, InTick, InTick2, InTick3
<1>5. KeptAt /\ NewAt /\ ReadyAt
  BY <1>2 DEF KeptAt, NewAt, ReadyAt, InTick, InTick2, InTick3
<1> QED BY <1>1, <1>4, <1>5 DEF TickInv

(* At every label of run() the closures open, the handles held and their   *)
(* owners are the ones its text says, in every tick on both platforms.     *)
THEOREM TickInductive == TickSpec => [](IInv /\ TickInv)
<1>1. TickInit => IInv /\ TickInv
  BY TickStart
<1>2. IInv /\ TickInv /\ [TickNext]_tickVars => (IInv /\ TickInv)'
  BY TickStep, StepInv, TickStepInv
<1> QED BY <1>1, <1>2, PTL DEF TickSpec

(* The obligations of replace2 that its documentation leaves to the caller *)
(* hold whenever run() calls it: the two spans are the topmost handles of  *)
(* the init frame, in order, and prev ends at the offset.                  *)
THEOREM TickRotationReady == TickSpec => []RotationReady
<1>1. IInv /\ TickInv => RotationReady
  <2> SUFFICES ASSUME IInv, TickInv, pc = "idle"
               PROVE  /\ Depth = 1 /\ {gpu_prev, prev} \subseteq Owned(1) /\ gpu_prev # prev
                      /\ span[gpu_prev].hi <= span[prev].lo
                      /\ \A o \in Owned(1) \ {gpu_prev, prev} :
                           span[o].hi <= span[gpu_prev].lo
                      /\ offset <= span[prev].hi /\ span[prev].hi - offset < PElem.align
    BY DEF RotationReady
  <2>1. Depth = 1
    BY DEF TickInv, ShapeAt, Alone
  <2>2. {gpu_prev, prev} \subseteq Owned(1) /\ gpu_prev # prev
    BY DEF TickInv, KeptAt, Owned
  <2>3. \A o \in Owned(1) : o \in live /\ span[o].owner = 1
    BY DEF Owned
  <2> QED BY <2>1, <2>2, <2>3 DEF TickInv, ReadyAt
<1> QED BY <1>1, TickInductive, PTL

(* However many ticks run, the init frame holds the same two spans at the  *)
(* same place, and no more bytes than one tick's spans can have.           *)
THEOREM TickNoCreep == TickSpec => []NoCreep
<1>1. TickInv => NoCreep
  BY DEF TickInv, KeptAt, ReadyAt, NoCreep
<1> QED BY <1>1, TickInductive, PTL

============================================================================
