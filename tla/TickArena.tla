----------------------------- MODULE TickArena -----------------------------
(***************************************************************************)
(* How run() in src/main.rs uses the arena: an init scope with the GPU     *)
(* table, two spans (gpu_prev, prev) that survive from tick to tick, and   *)
(* one replace2 per tick whose closure collects, renders and returns their *)
(* successors.  Every step is an operation of Arena; this module fixes the *)
(* order in which run() issues them and which handle plays which part.     *)
(***************************************************************************)
EXTENDS Arena, FiniteSets

CONSTANTS
  GUnit,     (* GpuPrevElem on Linux: ()                                  *)
  GMac,      (* GpuPrevElem on macOS: (u32, u64)                          *)
  PElem,     (* (u32, Packed)                                             *)
  XElem,     (* any other thing a tick or rm::init allocates              *)
  MaxGpu,    (* bound: entries of gpu_prev                                *)
  MaxProc,   (* bound: entries of prev                                    *)
  MaxTable   (* bound: GPUs, and entries of their table                   *)

(* Three element types are enough: only those of the two rotated spans     *)
(* matter, everything else a tick allocates is freed with the tick.  A ()  *)
(* takes no room and fits anywhere, so on Linux gpu_prev sits at the       *)
(* offset itself, wherever the GPU table ends.                             *)
ASSUME TickAssumption ==
  /\ {GUnit, GMac, PElem, XElem} \subseteq Elems
  /\ GUnit.size = 0 /\ GUnit.align = 1
  /\ MaxGpu \in 0 .. MaxCap /\ MaxProc \in 0 .. MaxCap /\ MaxTable \in 0 .. MaxCap /\ MaxCap > 0
  /\ MaxDepth >= 3

VARIABLES
  mac,           (* which build runs: agx::populate, or rm's; never changes *)
  pc,            (* where run() is                                        *)
  gpu_prev,      (* the handle in each role, or NoId                      *)
  prev,
  new_gpu_prev,
  next,
  table,         (* what gpu::collect is building                         *)
  low            (* where gpu_prev was first placed                       *)

roles    == <<gpu_prev, prev, new_gpu_prev, next, table, low>>
tickVars == <<vars, pc, roles, mac>>

GElem == IF mac THEN GMac ELSE GUnit

(* A name no live handle has, and whether n of them are left.              *)
Fresh   == CHOOSE i \in Ids : i \notin live
Room(n) == Cardinality(Ids \ live) >= n

Goto(l) == pc' = l

----------------------------------------------------------------------------
(* Start-up                                                                *)

(* arena::scope(|init| ...).  agx::init keeps nothing in the arena.        *)
EnterInit ==
  /\ pc = "boot"
  /\ OpenScope
  /\ Goto(IF mac THEN "empty1" ELSE "gpus")
  /\ UNCHANGED <<roles, aborted>>

(* rm::try_init: a table for n GPUs filled one by one; a failure on the    *)
(* way, or no driver, drops it and leaves init to build an empty one.      *)
ReserveGpus ==
  /\ pc = "gpus" /\ Room(1)
  /\ \E n \in 0 .. MaxTable : Reserve(Fresh, XElem, n)
  /\ Goto("fill")
  /\ UNCHANGED <<roles, aborted>>

PushGpu ==
  /\ pc = "fill"
  /\ ReservePush(1)
  /\ UNCHANGED <<pc, roles, aborted>>

FreezeGpus ==
  /\ pc = "fill"
  /\ span[Top.i].used = span[Top.i].hi
  /\ Freeze
  /\ Goto("empty1")
  /\ UNCHANGED <<roles, aborted>>

DropGpus ==
  /\ pc = "fill"
  /\ DropReserve
  /\ Goto("nogpus")
  /\ UNCHANGED <<roles, aborted>>

(* frame.span("gpu/gpus", |_| {})                                          *)
BeginNoGpus ==
  /\ pc \in {"gpus", "nogpus"} /\ Room(1)
  /\ BeginSpan(Fresh, XElem)
  /\ Goto("nospan")
  /\ UNCHANGED <<roles, aborted>>

EndNoGpus ==
  /\ pc = "nospan"
  /\ EndSpan
  /\ Goto("empty1")
  /\ UNCHANGED <<roles, aborted>>

(* let mut gpu_prev = init.empty(); let mut prev = init.empty();           *)
EmptyGpuPrev ==
  /\ pc = "empty1" /\ Room(1)
  /\ Empty(Fresh, GElem)
  /\ gpu_prev' = Fresh /\ low' = Bump(GElem)
  /\ Goto("empty2")
  /\ UNCHANGED <<prev, new_gpu_prev, next, table, aborted>>

EmptyPrev ==
  /\ pc = "empty2" /\ Room(1)
  /\ Empty(Fresh, PElem)
  /\ prev' = Fresh
  /\ Goto("idle")
  /\ UNCHANGED <<gpu_prev, new_gpu_prev, next, table, low, aborted>>

----------------------------------------------------------------------------
(* One tick                                                                *)

BeginTick ==
  /\ pc = "idle"
  /\ BeginReplace2(gpu_prev, prev)
  /\ Goto("gpu")
  /\ UNCHANGED <<roles, aborted>>

(* gpu::collect, without a GPU (or, on macOS, in an interval of length     *)
(* zero): entries and then new_prev are empty.  On Linux new_prev always   *)
(* is; on macOS entries also are when IOKit failed.                        *)
NoEntries ==
  /\ pc \in {"gpu", "entries"} /\ Room(1)
  /\ Empty(Fresh, XElem)
  /\ Goto(IF pc = "gpu" THEN "newprev" ELSE "collect")
  /\ UNCHANGED <<roles, aborted>>

NewPrev ==
  /\ pc = "newprev" /\ Room(1)
  /\ Empty(Fresh, GElem)
  /\ new_gpu_prev' = Fresh
  /\ Goto("collect")
  /\ UNCHANGED <<gpu_prev, prev, next, table, low, aborted>>

(* rm::populate and agx::populate compact a table of fixed capacity.  On   *)
(* macOS the first of two is new_prev, all others are entries.             *)
Building == IF mac /\ new_gpu_prev = NoId THEN GElem ELSE XElem

BeginTable ==
  /\ pc \in {"gpu", "entries"}
  /\ BeginCompact
  /\ Goto("table")
  /\ UNCHANGED <<roles, aborted>>

TableVec ==
  /\ pc = "table" /\ Room(1)
  /\ Vec(Fresh, Building, IF Building = GElem THEN MaxGpu ELSE MaxTable)
  /\ table' = Fresh
  /\ Goto("push")
  /\ UNCHANGED <<gpu_prev, prev, new_gpu_prev, next, low, aborted>>

(* IOKit is not there.                                                     *)
TableFail ==
  /\ pc = "push" /\ mac /\ new_gpu_prev = NoId /\ Room(1)
  /\ span[table].used = span[table].lo
  /\ Empty(Fresh, GElem)
  /\ table' = Fresh
  /\ Goto("result")
  /\ UNCHANGED <<gpu_prev, prev, new_gpu_prev, next, low, aborted>>

(* A full table drops what does not fit silently (let _ = now.push(..)).   *)
TablePush ==
  /\ pc = "push"
  /\ VecPush(table, 1)
  /\ UNCHANGED <<pc, roles, aborted>>

(* freeze_map truncates to the distinct pids; then into_fspan.             *)
TableDedup ==
  /\ pc = "push"
  /\ VecTruncate(table, span[table].lo + Building.size)
  /\ Goto("dedup")
  /\ UNCHANGED <<roles, aborted>>

TableSpan ==
  /\ pc \in {"push", "dedup"}
  /\ IntoFSpan(table)
  /\ Goto("result")
  /\ UNCHANGED <<roles, aborted>>

EndTable ==
  /\ pc = "result"
  /\ EndCompact(table)
  /\ table' = NoId
  /\ IF mac /\ new_gpu_prev = NoId
       THEN new_gpu_prev' = table /\ Goto("entries")
       ELSE Goto(IF mac THEN "collect" ELSE "newprev") /\ UNCHANGED new_gpu_prev
  /\ UNCHANGED <<gpu_prev, prev, next, low, aborted>>

(* zeros, gpu_pids, dirent_buf, procs, path, displays, tree, roots: what   *)
(* else the closure allocates, below and above next, compact's scratch too.*)
TickAlloc ==
  /\ pc \in {"table", "collect", "stat", "render"} /\ Room(4)
  /\ Alloc(Fresh, XElem)
  /\ UNCHANGED <<pc, roles, aborted>>

(* next: sized by the number of procs stubs, filled one per pid.           *)
AllocNext ==
  /\ pc = "collect" /\ Room(1)
  /\ \E n \in 0 .. MaxProc : Vec(Fresh, PElem, n)
  /\ next' = Fresh
  /\ Goto("stat")
  /\ UNCHANGED <<gpu_prev, prev, new_gpu_prev, table, low, aborted>>

(* One pid of pass 2: the placeholder, then a scope around stat_raw.       *)
PushNext ==
  /\ pc = "stat"
  /\ VecPush(next, 1)
  /\ Goto("open")
  /\ UNCHANGED <<roles, aborted>>

OpenStat ==
  /\ pc = "open"
  /\ OpenScope
  /\ Goto("read")
  /\ UNCHANGED <<roles, aborted>>

StatRaw ==
  /\ pc = "read" /\ Room(1)
  /\ Alloc(Fresh, XElem)
  /\ Goto("close")
  /\ UNCHANGED <<roles, aborted>>

CloseStat ==
  /\ pc = "close"
  /\ CloseScope
  /\ Goto("stat")
  /\ UNCHANGED <<roles, aborted>>

EndCollect ==
  /\ pc = "stat"
  /\ span[next].used = span[next].hi
  /\ Goto("render")
  /\ UNCHANGED <<vars, roles>>

(* tick.span("tty/stdout"): bytes in, one byte popped, bytes in.           *)
BeginStdout ==
  /\ pc = "render" /\ Room(1)
  /\ BeginSpan(Fresh, XElem)
  /\ Goto("stdout")
  /\ UNCHANGED <<roles, aborted>>

PutStdout ==
  /\ pc = "stdout"
  /\ BuilderPush(1) \/ BuilderPop
  /\ UNCHANGED <<pc, roles, aborted>>

EndStdout ==
  /\ pc = "stdout"
  /\ EndSpan
  /\ Goto("freeze")
  /\ UNCHANGED <<roles, aborted>>

FreezeNext ==
  /\ pc = "freeze" /\ span[next].kind = "vec"
  /\ IntoFSpan(next)
  /\ UNCHANGED <<pc, roles, aborted>>

(* The closure returns (new_gpu_prev, next.into_fspan()).                  *)
EndTick ==
  /\ pc = "freeze"
  /\ EndReplace2(new_gpu_prev, next)
  /\ gpu_prev' = new_gpu_prev /\ prev' = next
  /\ new_gpu_prev' = NoId /\ next' = NoId
  /\ \E once \in BOOLEAN : Goto(IF once THEN "exit" ELSE "uncommit")
  /\ UNCHANGED <<table, low, aborted>>

(* Mutant of EndLoop: something is kept in the init frame between ticks.   *)
EndLoopKeeps ==
  /\ pc = "uncommit" /\ Room(1)
  /\ Alloc(Fresh, XElem)
  /\ Goto("idle")
  /\ UNCHANGED <<roles, aborted>>

(* Back to the kernel, then the poll loop: the next tick or a quit key.    *)
EndLoop ==
  /\ pc = "uncommit"
  /\ UncommitTail
  /\ Goto("idle") \/ Goto("exit")
  /\ UNCHANGED <<roles, aborted>>

Exit ==
  /\ pc = "exit"
  /\ CloseScope
  /\ Goto("done")
  /\ gpu_prev' = NoId /\ prev' = NoId
  /\ UNCHANGED <<new_gpu_prev, next, table, low, aborted>>

(* An allocation the arena cannot hold.                                    *)
Panic ==
  /\ pc \notin {"boot", "idle", "uncommit", "exit", "done"}
  /\ Overflow
  /\ Goto("done")
  /\ gpu_prev' = NoId /\ prev' = NoId /\ new_gpu_prev' = NoId /\ next' = NoId
  /\ table' = NoId
  /\ UNCHANGED low

(* exit_group.                                                             *)
Done == pc = "done" /\ UNCHANGED <<vars, pc, roles>>

TickInit ==
  /\ Init
  /\ pc = "boot"
  /\ gpu_prev = NoId /\ prev = NoId /\ new_gpu_prev = NoId /\ next = NoId
  /\ table = NoId /\ low = 0
  /\ mac \in BOOLEAN

StartUp == EnterInit \/ ReserveGpus \/ PushGpu \/ FreezeGpus \/ DropGpus \/ BeginNoGpus
             \/ EndNoGpus \/ EmptyGpuPrev \/ EmptyPrev
Gpu     == NoEntries \/ NewPrev \/ BeginTable \/ TableVec \/ TableFail \/ TablePush
             \/ TableDedup \/ TableSpan \/ EndTable
Procs   == TickAlloc \/ AllocNext \/ PushNext \/ OpenStat \/ StatRaw \/ CloseStat
             \/ EndCollect
Render  == BeginStdout \/ PutStdout \/ EndStdout \/ FreezeNext

TickNext ==
  /\ \/ /\ ~aborted
        /\ StartUp \/ BeginTick \/ Gpu \/ Procs \/ Render \/ EndTick \/ EndLoop \/ Exit \/ Panic
     \/ Done
  /\ UNCHANGED mac

TickSpec == TickInit /\ [][TickNext]_tickVars

----------------------------------------------------------------------------
(* Properties                                                              *)

Roles == {gpu_prev, prev, new_gpu_prev, next, table} \ {NoId}

(* pc is a label of run() and every role names a live handle.              *)
TickTypeOK ==
  /\ pc \in {"boot", "gpus", "fill", "nogpus", "nospan", "empty1", "empty2", "idle", "gpu",
              "entries", "newprev", "table", "push", "dedup", "result", "collect", "stat",
              "open", "read", "close", "render", "stdout", "freeze", "uncommit", "exit",
              "done"}
  /\ Roles \subseteq live /\ low \in Offsets /\ mac \in BOOLEAN

(* Whenever run() is about to call replace2, the obligations the code only *)
(* documents are met: the two spans are the topmost allocations of the     *)
(* init scope, gpu_prev below prev, and prev ends at the top of the bump.  *)
RotationReady ==
  pc = "idle" =>
    /\ Depth = 1 /\ {gpu_prev, prev} \subseteq Owned(1) /\ gpu_prev # prev
    /\ span[gpu_prev].hi <= span[prev].lo
    /\ \A o \in Owned(1) \ {gpu_prev, prev} : span[o].hi <= span[gpu_prev].lo
    /\ offset <= span[prev].hi /\ span[prev].hi - offset < PElem.align

(* The init scope does not creep: however many ticks have run, gpu_prev is *)
(* where it started and the offset is bounded by one tick's two spans.     *)
NoCreep ==
  pc \in {"uncommit", "idle"} =>
    /\ span[gpu_prev].lo = low
    /\ offset <= AlignUp(low + MaxGpu * GElem.size, PElem.align) + MaxProc * PElem.size

----------------------------------------------------------------------------
(* The strengthening that makes the properties inductive                   *)

Alone   == {"gpus", "nogpus", "empty1", "empty2", "idle", "uncommit", "exit"}
InTick2 == {"gpu", "newprev", "entries", "collect", "stat", "open", "render", "freeze"}
InTick3 == {"table", "push", "dedup", "result", "read", "close", "stdout"}
InTick  == InTick2 \cup InTick3

(* Which closures are open at each label of run().                         *)
ShapeAt ==
  /\ pc \in {"boot", "done"} => Depth = 0
  /\ pc \in Alone => Depth = 1
  /\ pc \in {"fill", "nospan"} \cup InTick2 => Depth = 2
  /\ pc \in InTick3 => Depth = 3
  /\ pc \in InTick => /\ stack[2].kind = "replace2"
                      /\ stack[2].i = gpu_prev /\ stack[2].j = prev

(* Start-up leaves nothing above the offset, and on macOS nothing at all:  *)
(* gpu_prev is placed at the offset itself.                                *)
SetupAt ==
  /\ pc \in {"boot", "gpus", "nogpus"} => live = {}
  /\ pc = "boot" => offset = 0
  /\ pc \in {"gpus", "fill", "nogpus", "nospan"} => ~mac
  /\ pc \in {"fill", "nospan"} => live = {Top.i}
  /\ pc = "nospan" => span[Top.i].hi = offset
  /\ pc = "empty1" => /\ mac => offset = 0
                     /\ \A k \in live : span[k].hi <= offset
  /\ pc = "empty2" => /\ low = offset /\ span[gpu_prev].hi = low
                     /\ \A k \in live \ {gpu_prev} : span[k].hi <= low

(* The two spans of the init frame, and where the first of them stays.     *)
KeptAt ==
  /\ IF pc \in {"empty2", "idle", "uncommit", "exit"} \cup InTick
       THEN /\ gpu_prev \in live /\ span[gpu_prev].owner = 1
            /\ span[gpu_prev].elem = GElem /\ span[gpu_prev].lo = low
       ELSE gpu_prev = NoId
  /\ IF pc \in {"idle", "uncommit", "exit"} \cup InTick
       THEN /\ prev \in live /\ prev # gpu_prev
            /\ span[prev].owner = 1 /\ span[prev].elem = PElem
       ELSE prev = NoId

(* Their successors belong to the tick and are no longer than one tick's   *)
(* spans may be.                                                           *)
NewAt ==
  /\ new_gpu_prev # NoId =>
       /\ pc \in InTick /\ new_gpu_prev \in live /\ span[new_gpu_prev].owner = 2
       /\ span[new_gpu_prev].hi <= span[new_gpu_prev].lo + MaxGpu * GElem.size
  /\ next # NoId =>
       /\ pc \in InTick /\ next \in live /\ span[next].owner = 2
       /\ span[next].hi <= span[next].lo + MaxProc * PElem.size
  /\ table # NoId =>
       /\ pc \in {"push", "dedup", "result"} /\ table \in live /\ span[table].owner = 3
       /\ mac /\ new_gpu_prev = NoId =>
            span[table].hi <= span[table].lo + MaxGpu * GElem.size

(* What RotationReady and NoCreep say holds from the end of one tick to    *)
(* the start of the next.                                                  *)
ReadyAt ==
  pc \in {"uncommit", "idle"} =>
    /\ span[gpu_prev].hi <= span[prev].lo
    /\ \A o \in live \ {gpu_prev, prev} : span[o].owner = 1 => span[o].hi <= span[gpu_prev].lo
    /\ offset <= span[prev].hi /\ span[prev].hi - offset < PElem.align
    /\ offset <= AlignUp(low + MaxGpu * GElem.size, PElem.align) + MaxProc * PElem.size

(* The inductive invariant of the tick loop, beside IInv.                  *)
TickInv == TickTypeOK /\ ShapeAt /\ SetupAt /\ KeptAt /\ NewAt /\ ReadyAt

============================================================================
