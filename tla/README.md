# TLA+ specifications of ltop

ltop is a process monitor for one terminal: every two seconds it lists the
processes, samples their CPU, memory and GPU use, hides what is idle, draws the
rest as a tree, and polls the keyboard in between.  It has no threads and no
heap: all memory comes from one static bump arena, and on Linux the process
puts itself under Landlock and seccomp before the first frame.

Paths below are relative to the repository (`src/main.rs` and so on).

## Inventory

| part | source | state | operations | interacts with |
|---|---|---|---|---|
| arena allocator | `src/arena.rs` | one byte buffer, one offset | scope, alloc, vec, empty, span (FBuilder), reserve (FReserve), FVec, compact, replace2, uncommit_tail | everyone allocates from it; the kernel takes the tail's pages back |
| tick loop's use of it | `src/main.rs` run(), `src/gpu/*` | init scope, `gpu_prev`, `prev` | gpu::init, one replace2 per tick, uncommit_tail | arena; the two spans carry the samples from tick to tick |
| CPU sampling | `src/main.rs` | `prev`, `prev_tick_time` | collect_procs (two of them), compute_cpu, Packed | the kernel's process table, which changes during the scan |
| reading of arguments | `src/main.rs`, `src/mac_sys.rs` | a buffer | /proc/<pid>/cmdline in chunks, KERN_PROCARGS2 in two calls | processes that exec and exit |
| classification | `src/main.rs` | rows of the tick | may_qualify, is_noise, is_idle_noise, names of rows | arguments and sampling; feeds the next |
| coalescing, search, layout | `src/main.rs` | the process table of a tick | coalesce_helpers, filter_with_children, tree_layout | reads `prev`'s shown bits, writes `next`'s; feeds render_tree |
| labels | `src/label.rs`, `src/platform.rs` | files of other processes | apply: list, check the start time, read or unlink | rows that are shown; processes that come and go |
| row budget | `src/main.rs` render_tree | none kept | sums, shares, markers | terminal size, the tree |
| session | `src/main.rs`, `src/tty.rs`, `src/sandbox.rs`, `src/platform.rs` | terminal mode, cursor, filter, countdown | enter_raw_mode, sandbox::install, poll loop, RawModeGuard::drop, exits | terminal, shell, kernel |
| seccomp program | `src/sandbox.rs` | constant program | build_prog, the SIGSYS handler | kernel; is the filter of the session |
| maps, heapsort | `src/map.rs`, `src/sort.rs` | sorted spans | sort_by_u32_key, freeze_map, get | used by both GPU backends and the table's passes |
| OSSerializeBinary decoder | `src/osbinary.rs` | checkpoint table | parse, nth_object, dictionary and array cursors | replies of the Apple driver |
| NVIDIA driver | `src/gpu/rm.rs`, `src/gpu/nvml.rs` | descriptors, list of cards | init, populate, lookups | kernel driver, map |
| Apple driver | `src/gpu/agx.rs`, `src/mac_sys.rs` | ports, buffers, `gpu_prev` | init, populate, compute_pct | kernel by remote calls, decoder, map |
| reclaim at start-up | `src/start.rs`, `src/main.rs`, `src/mac_sys.rs` | the address space | move to the top page, drop pages below and above, unmap idle regions | kernel, stack, arena |
| stack-svg | `tools/stack-svg/src/main.rs` | call graph, sizes, events | scan, join, walk, draw | binary and listing; its peak is what the stack is judged by |
| arena-svg, build scripts | `tools/arena-svg`, build files | none | drawing a debug trace | none at run time |
| text, bytes, call wrappers | `src/twrite.rs`, `src/bytes.rs`, `src/syscall.rs` | none | formatting, one call each | all |
| load, memory and command display | `src/main.rs` | none | one-line readouts | header, rows |

What is hard here, although nothing runs in parallel inside ltop:

* Ordering of allocations.  `replace2` and `compact` move bytes under live
  handles with a forward byte loop.  Their SAFETY comments lean on the order
  in which the caller allocated, which only the caller knows.
* Other processes run during a tick.  They exit, exec and fork between the
  listing, each stat read, the two calls per process on macOS, the chunks of
  their arguments, the start-time check of a label and its unlink; pids are
  reused; a parent cycle may be observed.
* Rows and samples are matched by index through two passes, failed reads, a
  filter and a sort, and a cheap rule decides early whose arguments are worth
  reading, which a later rule must agree with.
* Clocks are cut to whole seconds in three places and the counter that is kept
  has 31 bits.
* Calls to two drivers fail in the middle of a walk that holds rights,
  buffers and descriptors, every two seconds for as long as ltop runs.
* The terminal outlives the process: every way out must leave it as it was,
  with a signal key or a Ctrl-Z between any two calls and a filter that kills.
* The filter is a program whose jumps are single bytes and whose layout
  depends on the length of a list.
* Before the first tick the process takes away its own stack and libraries.

What makes each part correct: live handles are aligned, disjoint and keep
their bytes (arena); the obligations of replace2 hold before every tick and
nothing creeps (tick loop); a reading is what the process accrued, and the
shown bit belongs to its pid (sampling); arguments are whole (arguments); rows
are named from them (classification); exactly the promised processes are shown,
each once, under its nearest shown ancestor, with the load of a folded process
counted once (table passes); a label never passes to the next owner of a pid
(labels); the frame fits and no row is hidden for nothing (budget); a quit
restores the terminal, the filter never kills the program that installed it, a
quit key is heard (session); the program is the policy (seccomp); references
and keys resolve to what the kernel serialised (decoder); tables are exact,
rights and descriptors balanced, percentages honest (drivers); what is in use
stays (reclaim); the peak is the deepest chain of calls (stack-svg).

## Modules

How they build on each other: `TickArena` EXTENDS `Arena`; `Collect` EXTENDS
`ProcFilter` and hands it the tables that a scan produces; `Labels` EXTENDS
`CpuSample` and adds the label pass to its ticks; `Seccomp` EXTENDS
`SeccompPolicy`, which it implements; `Agx` and `Rm` EXTEND `SortMap`.
`Session`, `Render`, `Args`, `OsBinary`, `Reclaim` and `StackSvg` stand alone.
Modules named `MC...` give constants to TLC.  Modules named `...Proofs` hold
the theorems: ArenaProofs, TickArenaProofs, SamplingProofs (CpuSample and
Labels), FilterProofs (ProcFilter and Collect), PartsProofs (OsBinary, Reclaim,
SortMap, Rm, Agx, Args), SessionProofs, RenderProofs, SeccompProofs.

### Arena

`offset` is `ARENA.offset`; `mem` says of every byte of `ARENA.buf` which
handle wrote it and as which of its bytes; `stack` holds the open closures,
builders and reserves, each with the offset it saved; `live` and `span` are the
handles safe code holds (start, end of the reserved range, end of the
initialised prefix, element).  One action per operation.  What the borrow
checker enforces is the guard `FrameFree`: an operation needs the innermost
closure's frame.  `EndReplace2` and `EndCompact` run the source's forward copy
(`CopyDown`), whose result repeats with period dst - src when the ranges
overlap the wrong way; bytes above the rewound offset become junk, so a handle
that still pointed there would read junk.  `UncommitTail` zeroes whole pages as
madvise does, including the offset cell behind the buffer when the length is
wrong.  A request that does not fit ends the process (`Overflow`).
The caller obligations that `replace2` documents and cannot check are guards of
`BeginReplace2` and `EndReplace2`; that run() meets them is `RotationReady` of
TickArena.

Left out: `nest` (FNest), FSmall's packing into 32 bits, the debug tracer, and
a free-standing `arena::scope` opened inside a builder, which the source warns
of and no caller does.

### TickArena

`pc` is the place in run(); `gpu_prev`, `prev`, `new_gpu_prev`,
`next` and `table` name the handle in each role.  Every step is one Arena
operation with its role assignments: `gpu::init` with a failure half-way,
the two `empty()` spans, one replace2 whose closure runs gpu::collect (one or
two compacts), the two passes of collect_procs, the frame's span and
`into_fspan`, then `uncommit_tail`.  The system is chosen at the start: on
Linux gpu_prev holds units, on macOS pairs with an alignment of their own.  On
macOS the scratch of one pid is a compact in the source and a scope here, and
what else a tick allocates (displays, the tree, roots) is `TickAlloc`, at any
of four places.

### CpuSample and Labels

The machine (`Elapse`, `Fork`, `Exit`) runs between any two steps of the tick:
`BeginTick`; for each listed pid `Stat` or `StatFails` on Linux, `ReadTimes`
and then `ReadAge` on macOS, where the pid may be reused in between; `Filter`;
`EndTick`.  `prev` and `next` are the source's, an entry additionally
remembering which process was read and its whole counter, for the properties
only.  Time is in clock ticks.  The kernel lists its pids in any order, and the
filter may retain any rows: which ones is ProcFilter's matter.

Labels puts apply between the filter and the end of the tick.  A file is a pid,
a start time and who wrote it; `dir` is the reader's buffer of entries and its
place.  Writers may write, replace and remove files between any two steps, and
entries that come or go while the directory is read may be returned or not.
The reads of a start time and of a label, the unlink and getdents may each fail;
`dir` remembers, for the properties, which unlinks did and whether getdents did.
What a label says is left out: one without text is passed over like one that
cannot be read.

### Args

`image` is what the process runs at the moment, `call` the reader's place.
Memory is a sequence of cells, NUL being 0.  `Exec` and `Exit` happen between
any two calls.  `Joined` is how the kernel lays strings out; `Runs`, a recursive
function over the cells, is how ltop takes them apart, the empty ones left out.

### ProcFilter and Collect

A process is its position in the scan; `in` is the table as collected, any
parent relation included; `ppid`, `cpu`, `vis` are the fields that change.
`Coalesce` folds the next process into `coalesce_root`, `Seed` and `Visit` are
the search with its LIFO queue of <<process, last visible ancestor>>, `Retain`
the in-place retain and the sort, `NextRoot` and `Walk` the layout with its
explicit stack.  The queue, the stack and the output have the capacities of the
source, and a push beyond them is lost, as `let _ = push(..)` loses it.
Names matter only by the predicates Helper and Shard and the four fixed names.
`InOrder` is a set of processes in ascending order of a key: a bucket of
children by scan, the table by pid.

Collect makes the table from a scan: what was read of each process, whether
its arguments were worth reading, whether it is noise, and the names it goes
by in coalescing and on the row.  The lists of noise names are constants.

### Render

`render_tree`'s loops over the root groups: `Sum` adds up the kids, `Emit`
draws one group with its share, and `lines` counts what was written, header
included.

### Session

`pc` walks run() from the arguments to the exit.  `Calls` lists the system
calls of each step, `ALLOW_DIRECT` and `ALLOW_CHECKED` what the seccomp program
lets through.  `Type`, `Stop` and `Continue` are the user: a byte typed, Ctrl-Z
and fg.  In cooked mode Ctrl-C and Ctrl-\ kill.  A sleep that a stop
interrupted goes on as `restart_syscall`.  How the shell itself treats the
terminal around Ctrl-Z is not modelled.

### SeccompPolicy and Seccomp

The policy answers a call in one step, by what the comments of `sandbox.rs`
promise.  Seccomp lays out the program as build_prog does, jump offsets cut to
a byte, and runs one instruction a step (`Load`, `Mask`, `Jump`, `Return`); the
SIGSYS handler of the sandbox-trap build runs under the same filter.  Words are
sets of bits.  `Implements` is `PolicySpec` of the policy under the identity
mapping of the shared variables, so that every instruction but the return is a
stutter.

### SortMap, Rm, Agx

SortMap has the heapsort with its sift, the merge of equal keys, the freeze
and the bisection, each loop a recursive function of its counter or bounds; the
library's folds would hide the rounds that the proofs go through.  Rm runs init (control node, list of cards,
one descriptor each) and populate (per card memory, samples, processes) with
each ioctl failing; card minors have holes.  Agx runs the walk over
accelerators and their clients as remote calls, each of which may fail.  `held`
counts the port rights and out-of-line buffers of each kind that the process
holds, `leaked` those among them that the kernel did not take back: giving up a
right or a buffer may fail as well, and neither the callers of
mach_port_deallocate (`src/mac_sys.rs:573` to 661) nor OolBuffer::drop (786 to
804) look at the result outside tests.  Every step that brings or returns
something is an `Exchange` of both.  Processes open and close clients and use
the GPU between any two calls.

### OsBinary

`blob` is the stream the kernel emits, one item per offset, made up while the
decoder's first walk reads it; `ckpts` is the table with its stride, `scan` the
search for an object by number.  `Malformed` is a stream that ends early.  The
cursors of dictionaries and arrays, which skip whole values by counting the
items they still owe, are functions over the stream.

### Reclaim

A region is a range of pages.  `DropUp`, `Jump`, `DropDown` are the assembly
entry of Linux, `Relocate`, `KeepRegion`, `Unmap`, `Refuse` the sweep of macOS.
`dirty` are the pages with contents.  `ReclaimAssumption` says what address
spaces the code meets: one stack and one text region, nothing next to the stack
that madvise would drop (the comment of ltop_entry), an arena without gaps,
guard and pool regions of at least `Huge`, zones smaller than that.

### StackSvg

The tool's phases as a machine: the scan of the listing line by line, the join
of frame sizes by name (two formats), the walk of the call graph with its limits
on depth, recursion and events, and the drawing, in which the frame ranges of inlined calls
are gathered from the tree of debug entries.  A jump or call to an address inside
a function (`<f+0xN>`) is a line of its own, `IntoLine`, which the code drops.
So `PeakExact` is about calls of a function's entry: it says that the tool's
peak is the deepest chain of the calls that the scan keeps.  `MiddleCalls` says
what the doc comment says of the others, and fails.

## Runs

Passing:

| run | instance | what it shows |
|---|---|---|
| arena_nesting | 4 bytes, u8 and u16-like elements, 3 handles, depth 3, page 4, buffer at address 2 | every order of operations keeps handles aligned, disjoint and intact; `IInv` of the proofs holds |
| tick | 28 bytes, both systems, gpu_prev of at most 1 entry and prev of at most 2 | replace2's obligations hold at every tick while gpu_prev comes, goes and moves prev; the init scope does not creep over any number of ticks; contents survive; no step is stuck |
| filter | 4 processes with any ppid of 0..4, visible and shown bits; 3 processes with any of 7 names; scans of 4 on both systems | exactly the documented processes are shown, under the nearest shown ancestor, drawn once, in pre-order; load is folded once, into the outermost row; rows are named from their arguments; every step leaves less to do, so the tick ends; cycles included |
| cpu_settled | 1 pid, 2 owners, 2 clock ticks a second, counter modulo 3, grain 2, 7 clock ticks, both systems | a settled process's reading is what it accrued |
| labels | 2 pids, 2 owners each, one writer, a buffer of one entry | rows and entries stay aligned, shown bits land on their pids, labels are not inherited, stale ones are swept unless their unlink or the listing fails, live ones stay |
| session | sandboxed, 4 keys, 2 bytes waiting | FilterSuffices, QuitRestores, FramePeriod, QuitHeard |
| seccomp | 3 builds and a program of the greatest length the tests accept, calls on both sides of every rule | the program implements the policy; the handler's report passes |
| parts | one of seven parts per behaviour, see below | SeekExact and LookupExact (decoder), RightsBalanced (between ticks the process holds the cached ports and what the kernel refused to take back, nothing else) and UsageHonest (percentages, and the map kept for the next tick sorted; Apple), TableExact and FdsOwned (NVIDIA, map, sort), OneStackPage and KeptInUse (reclaim), ArgsWhole (arguments), FrameFits, NoNeedlessElision and MarkerExact (row budget: the frame fits, a tree that fits is whole, markers are exact), PeakExact, FramesStack and InlinedOwn (stack-svg) |

`MCParts` runs parts that share no state, each alone in its behaviours (`PInit`
starts one and leaves the others at "off"): small machines that are quick to
explore and are read better beside each other than as seven runs of a few
seconds.  Nothing is claimed about two of them together.  The two slots for GPU
clients are symmetric: no definition tells them apart, and the run checks
invariants only.

Violations, each one sentence of the repository that the code does not keep
(quoted under "findings" in PROJECT.json):

| run | what happens |
|---|---|
| cpu_reuse | the age test of compute_cpu misses a reuse inside a short interval, because an age can come out up to two seconds too high |
| session_restore | sandbox::install fails after raw mode was entered and leaves without the guard |
| labels_unread | the stat of a living process cannot be read (no descriptor, no memory) and its label is unlinked as a stale one |
| stack_svg_into | a function is reached by a jump to an address inside it: the doc comment of objdump_calls (`tools/stack-svg/src/main.rs:736`) keeps such a target as a call to that function, the code (798 to 805) drops it, and the function is missing among the callees and from the peak; the reason given at 798, a branch inside one function, is only one of the ways such a line comes about |

Met on the way and kept out of the runs:

* A stat read that fails for a live process leaves the placeholder counter 0 in
  `prev` (`src/main.rs:1520`).  The next reading is then the process's lifetime
  CPU over one interval.
* `render_tree`'s doc comment promises a "... (N more)" line for whatever
  overflows; a group whose share rounds to 0 has none (`src/main.rs:405`), for
  the reason given at `src/main.rs:401`.
* RawModeGuard::drop gives the terminal its signal keys back before it shows the
  cursor (`src/tty.rs:144`); a Ctrl-C in between ends ltop with a hidden cursor.
  A write that fails half-way (`src/tty.rs:182`) drops the rest of the frame; the next one repairs it.
* `src/main.rs:788` speaks of a first interval of 500 ms; it is six polls of
  50 ms, as `src/main.rs:626` says.
* On macOS empty arguments are skipped but counted, so a process that has some
  gets as many strings of its environment listed as arguments
  (`src/main.rs:1376`; the comment at 1405 says argv entries only).  `ArgsWhole` states
  what is listed.
* A process that execs or exits between two chunks of its cmdline leaves a
  partial last argument (`src/main.rs:1621`, 1640).
* A row that is shown only for the load of its helpers was not foreseen by the
  fast path, and goes by its bare comm (`src/main.rs:1582`); the root that
  helpers fold into is then looked up by that name too, so a helper may match on one
  tick and not on the next, as its root's own CPU crosses the threshold.
* A process with a shard's name folds into its parent even when that is noise,
  and its load can then surface a row whose display is empty, which `src/main.rs:1655`
  says is never rendered.
* A Lean-related process whose arguments cannot be read goes by "?", where
  `src/main.rs:1308` says by its comm.
* The label of a pid's newcomer can appear on the row of the owner that died
  during the tick: `NotInherited` forbids the other direction only.
* A GPU client that one walk misses makes the next reading of its process too
  high, up to 100 %; the same can happen beyond MAX_TRACKED_PIDS
  (`src/gpu/agx.rs:214`), where the order of the walk decides who is kept.
* The reference that mach_host_self brings is never released; one is taken at
  each attempt, until the master port is known.
* Of rights and buffers that the kernel refuses to take back, ltop keeps no
  record; the comments at `src/mac_sys.rs:614` and 790 say that this has happened.
* stack-svg clamps only the upper end of an inlined call to the frame
  (`tools/stack-svg/src/main.rs:1190`), so locals beyond the frame give a
  rectangle with its ends swapped; and of several functions with one demangled
  name the order of a HashMap decides whose size is used.
* The comment at `tools/stack-svg/src/main.rs:399` to 401 is stale: 418 to 423 say
  the opposite, and the code does what they say.  `InlinedOwn` follows the code
  and the newer comments.
* The page walk takes AT_PAGESZ for the kernel's page, as Reclaim does.

Deadlock is checked where the module says how it ends (Session: `Ended`,
TickArena: `Done`, Seccomp: `Gone`).  The configurations of Arena (a panic, or
a full set of handles), ProcFilter and Collect (a finished tick), CpuSample and
Labels (the clock's bound) and the parts (each ends) switch it off, because these
really stop.

### Bounds

* Arena: `MaxDepth` and `Ids` bound nesting and handles, `MaxCap` one request.
  Two handles and one byte more than an element's alignment are what an overlap
  or a misaligned slide needs; three handles and depth three put a nested scope
  under a builder's frame and a bystander next to it.  The rotation of two old
  and two new spans needs four handles, which TickArena's run has.  The buffer
  starts in the middle of a page, so that both roundings of uncommit_tail happen.
* TickArena: sizes and alignments of run()'s elements are halved, which keeps
  their ratios; `XElem` is 3 bytes so that padding differs.  `MaxGpu` and
  `MaxProc` leave both spans empty, partly and fully filled.  There is no bound
  on the number of ticks: the state recurs because nothing creeps.
* ProcFilter: four processes give chains, siblings, every cycle, a chain
  hanging off a cycle, and hidden rows between shown ones.  All have a cpu of 3,
  exactly the lower of the two thresholds, so that the shown bit of the last
  tick decides which kids are shown; the folding, which has seven names to try,
  takes three processes.  Pids do not ascend with the scan, so the sort matters.
  `Hops` is 4 in place of 64 and is never reached by an acyclic table of that size.
  Collect's readings stand on both sides of and between every threshold.
* Render: windows of 0 to 10 rows, trees of 0 to 6 rows with any roots; ten rows
  leave six below the header, as many as the largest tree has rows.
* CpuSample: the counter is cut by `Grain` and wraps at `Modulus` inside the run;
  `Sec` = 2 makes the truncation of clocks visible; `MaxGen` = 2 is one reuse;
  seven clock ticks hold several ticks of ltop.  `Rate` = 0 where only the matching matters.
* Labels: a buffer of one entry puts a fork, an exit or a rewrite between any two
  entries; one clock tick already tells two owners of a pid apart.
* Session: 2 waiting bytes put a quit key behind another one.  `frames` counts
  to 2 ("more") and the countdown has its real values 6 and 40.
* Seccomp: the real lists of both architectures with and without sandbox-trap,
  and one of 236 direct calls; words of 32 bits.
* OsBinary: streams of up to five items, containers of up to two, tables of one and
  three entries, so that the stride doubles up to three times.
* Agx: two slots, two pids, up to two clients one after another, one or two kept; a
  client opened in another's place after a tick is what a wrong sum needs.
  `Leaky` and `MaxLeaked` let the kernel refuse one client's right; the
  theorem is for every kind and any number of refusals.
  Rm: three cards of which any may be absent or fail, two pids, two processes a card.
* Reclaim: every stack of one to five pages with every position of the entry
  frame and what may lie above; on macOS zones right above and below what is
  kept, an arena in two regions, and more regions than the sweep looks at.
* Args: up to three arguments, some empty, chunks of two cells and a cap of four, so that
  chunk ends and the cut fall everywhere in an argument.
* StackSvg: every call graph of three functions and an external one, the entry
  and the second with up to two calls, the third with one, with and without a
  frame and a recursion bound; one where a function is reached by a jump into its
  middle only; 36 trees of debug entries, and five binaries whose names or sizes
  are missing or double.

### Fairness

Session: WF(Program), for the kernel runs a process that is not stopped; typing,
Ctrl-Z and fg are never assumed to happen.  The other specifications state
safety only; that a tick of ProcFilter ends is the action property Progress, a
measure that every step lowers, and needs no fairness beyond the thread's running on.

## Proofs

All theorems hold for every value of the constants that the module's named
assumption allows.  An inductive invariant stands in its component's module or
at the head of the section of its proof; IInv is also checked by arena_nesting.

`ArenaProofs` proves `IInv == TypeOK /\ StackOK /\ HandleOK /\ RotationOK /\
Disjoint` inductive for every buffer size, element set, page size, base address and
bounds allowed by `ArenaAssumption`; InBounds, Aligned, Disjoint and TypeOK follow.  Disjoint alone is
not inductive: a rewind is harmless only because the handles of outer closures
lie below the saved offset (`HandleOK`), saved offsets climb with the stack (`StackOK`), and
during a replace2 the two old spans are still where they were, above everything else of
their frame (`RotationOK`).  An empty span may sit one alignment step above the
offset, which is why HandleOK treats empty handles apart.  `ArenaAssumption` asks
what Rust guarantees: powers of two as alignments, sizes that are multiples of
them, and a buffer length that is a multiple of every alignment.
ContentsIntact is proved by `CInv == IInv /\ BuilderTight /\ ContentsIntact`: a
step that writes, slides or hands back pages touches only bytes outside every
handle that survives it, and the forward copy of `CopyDown` reads each source
byte before it overwrites it, because nothing ever moves up.  `BuilderTight` says that a builder ends exactly at the
offset, so that its next push writes the byte its handle will claim.

`TickArenaProofs` proves that TickSpec implements Spec of Arena
(`TickRefinesArena`: initial states map to initial states, every step is a step
of the allocator or leaves its variables alone), so the allocator's theorems
hold of run()'s handles (`TickDisjoint`, `TickContentsIntact`).  `TickInv` says
of every place in run() which closures are open (`ShapeAt`), what start-up has
left (`SetupAt`), that gpu_prev and prev are handles of the init scope, the first
still at `low` (`KeptAt`), how long their successors can be (`NewAt`), and that
between ticks the two lie in this order above everything else of the scope and
end at the offset (`ReadyAt`).  RotationReady and NoCreep follow.
`TickAssumption` has what the source has: on Linux gpu_prev is a span of `()`.

`SamplingProofs` proves SettledExact and Lockstep by `CpuInv` of CpuSample: what
an entry keeps of a counter never exceeds the counter of the process it was read
from (`CountersAt`), entries and rows have the same pids as far as the scan has
come (`ScanAt`), and between the two calls of macOS the pid is either still the
process whose times were read or one born after the tick began (`TimesAt`),
whose age gives it away.  The rest is arithmetic: two readings of a counter that
wraps once differ by what was accrued, and the age that three clocks cut to whole
seconds make up is within two seconds of the real one, so that a process two
seconds older than the interval is never taken for a new one.  Labels implements
sampling (`LabelsRefineSampling`), which hands it CpuInv; `LabelsInv` adds
that the name of every file belongs to its living writer or is spent, that is,
no process will have that pid and start time again (`FilesAt`), and what the
pass knows between the check and the unlink or read (`RowsAt`, `HandAt`,
`StaleAt`).  NotInherited holds whatever fails.  Swept
names the two failures that leave a stale label behind: its own unlink
(`UnlinkFails`; `label.rs:85` ignores the result) and the listing, before the
name has come (`CutShort`; `platform.rs:112` takes an error for the end).  Any
other failure, and any move of the writers, leaves none.  LiveLabelsStay holds
only where start times of living processes can be read (`~Flaky`), and
labels_unread shows that it needs to.

`FilterProofs` proves all seven properties of the run filter, for any
table: any number of processes and any parent relation, cycles included.  Its
invariant `FInv` has these parts.

* `Sourced`: the table is one of the inputs or made from one of the scans.
  `Early`: nothing of a later phase is touched ahead of it.
* `Unfolded`: a row that nothing folded into keeps its own cpu and is visible
  only if collect_procs made it so.  With the thresholds this gives RowsNamed.
* `Searched`: a kid was enqueued exactly if it was a seed or its parent has been
  visited (enqueued and off the queue); a queue entry carries the nearest shown
  ancestor of its process's kids (`Leads`); whatever is enqueued has a seed
  above it (`Reached`).  When the queue is empty this is
  ShownExactly, and NearestShown holds all along.
* `LaidOut`: what is drawn and what waits on the stack are disjoint, and
  together are the roots passed and the shown kids of what is drawn.  No process
  is in a list twice, so lengths are bounded by the number of processes and no
  push beyond a capacity is ever lost.  DrawnOnce follows, by induction on the
  height of a row above the roots, which a table without cycles has.
* `Ordered`, for Preorder: whatever is on the stack would fit as the next row,
  and still will when what is above it has been drawn; the stack is no deeper
  below than above, and of two peers the lower has the greater pid.  It says so
  of trees in which no depth is at the limit of its type (`Unsaturated`), as
  `AlwaysPreorder` does: in a chain of more than 256 processes the depths
  saturate and Preorder, which reads them, is false.
* `Folded`, for FoldedOnce: a row holds the load of those of its members that
  the scan has passed (`Taken`).  That what coalesce_root returns is the
  outermost row a process folds into needs its walk to have reached the end:
  `Shallow` says that no process has more than 64 ancestors, and
  `AlwaysFoldedOnce` is about such tables, without parent cycles.  The sum over
  a set grows by what is added, in whatever order (`LoadGrows`).

Ancestors are an infinite path that stays at 0 once it has left the table
(`Path`); that no more than N steps of it matter is the pigeonhole principle
(`FirstHit`).  The induction itself is on a set: a set of numbers that holds 0
and is closed under the successor is Nat (`Induct`), from Nat being well-founded.
Progress takes from FInv
that no process is queued twice.

`SeccompProofs` proves the refinement `ProgramImplementsPolicy` (every answer of
the program is the policy's) and `SeccompHandlerReports`, for every list of
direct calls that leaves the program shorter than 256 instructions, every set
of calls and every pair of architectures.  The invariant says of each
instruction what the ones before it have established of the call: which
numbers of the list it is not, which section it was dispatched to, what the
accumulator holds.  That jumps fit a byte is where the bound comes in, as in
the test jump_distances_fit_in_u8.

`PartsProofs` has six parts.

* The decoder: `DecoderSeekExact` and `DecoderCkptsExact` for streams of any
  length, any table size and any order of lookups.  Exactness of the table is not
  enough: items lie end to end in the stream (`Tiled`), the table's last entry
  together with the stride reaches the end (`Covers`), and a search in progress
  lies between the object it has passed and the one it seeks (`ScanOK`), with
  only references to skip in between.
  `DecoderLookupExact` is about the dictionaries, containers and all.  What a
  walk from the root still owes is a number at every offset (`Owing`), and the
  items of a container are the first offsets behind it at which one less is
  owed each time (`ItemsAt`); the containers that are still open enclose one
  another (`Nested`), and each has as many items behind it as were written
  (`Counted`).  This is `TInv`.  A skip that counts the items it owes down to
  zero therefore stops at the next such offset (`WalkEnds`), whatever lies in
  between, and a lookup steps from key to key.
* Reclaim: `MInv` says that everything between the entry frame and the walk is
  stack and, on the way down, clean but for the new page (`OnWay`), that what is
  in use has its contents (`Contents`), that only zones ever go (`Stays`) and
  that every zone the sweep has passed is gone or refused (`SweptSoFar`).
  OneStackPage and KeptInUse follow for every address space that
  `ReclaimAssumption` describes.
* SortMap, for sequences of any length.  `HeapsortSorts`: each swap keeps the
  entries (`Moves`, and what is added up over them, `SumMoves`); a sift-down
  makes a heap of one that is broken at one place, so that what is past the heap
  is sorted and above all of it (`Settled`).  `FreezeMapFreezes`: merging equal
  neighbours of a sorted sequence gives ascending keys without duplicates and
  the same sum for every key.  `IndexOfFinds`: the bisection keeps the key it
  looks for within its bounds.  What a recursive function computes comes from
  one lemma on loops: a loop of any number of rounds has a value (`LoopExists`),
  by induction on a set of numbers.
* Rm: while cards are opened the state holds the first ones of the reply
  (`RInv`), so that whichever open fails, the descriptors are those of the cards
  attached and the control node, or none.
  `TableAlwaysExact`: what is in `buf` adds up to what the cards have told so
  far, for every process and field, and `buf` is never longer than the samples
  and MaxPids for each card asked (`TableInv`), so that the room reserved for it
  cuts nothing off; the freeze keeps the sums.
* Agx: `RightsAlwaysBalanced`, whichever calls fail and whatever the kernel
  refuses.  `AInv` accounts for every kind (`Accounted`): what is held of it is
  what the walk carries at that place (`Carries`) and what was refused before,
  and a port is held at most once; between ticks the walk carries nothing.
  One lemma on `Exchange` serves every step (`ExchangeKeeps`).
  `UsageAlwaysHonest`: clients are numbered once, a walk reads each at most once
  (`ReadOnce`), a client read in two ticks is of the same process and its
  counter has not fallen (`GoodReads`, `GoesOn`), and `prev` is frozen from the
  last readings: together `UInv`.  The sum of a process's readings is then no
  less than that of the same clients last time, and rounding down keeps the
  order.  The proof does not need the precondition `Followed`: a client missed
  in the tick before counts as zero in `Used`, which only adds to the bound.
* Args: `ArgsAlwaysWhole`, for every program, chunk, limit and number of slots.
  Strings without a NUL, laid end to end, have places (`Lays`), so after any
  number of cells the runs are the strings that have ended and at most the
  beginning of the next (`Stands`, an induction over the cells).  A reading that
  stops early therefore ends in one string (`Broken`), the one that is dropped; on
  macOS the first run is the path, never empty, and the rest are those of the
  arguments followed by those of the environment (`FilledConcat`).  The
  invariant `GInv` says that while the process has not changed what has been
  read begins its region, or that the buffer has the region's size.

`RenderProofs` proves FrameFits, NoNeedlessElision and MarkerExact for every
height and every tree.  The invariant `RInv` keeps the running total
of lines below the share of the kids above the cursor, `allocated *
total_children <= child_budget * (kids of the groups before k)`: rounding down
preserves it, and it gives the last group, which takes what is left, at least
its own share.

`SessionProofs` proves FilterSuffices, QuitRestores and FramePeriod for any other
keys, any number of bytes waiting, with and without the sandbox.  The invariant
`SInv` ties the state to the place in run(): the filter is off during start-up
(`Places`), mode and cursor are the shell's outside the guard's life
(`Terminal`), and sleeps done and polls left add up to the period (`Period`).

Only model-checked:

* Preorder where a depth saturates is false, and FoldedOnce beyond 64 ancestors
  is too (coalesce_root stops there): the theorems say for which tables they hold.
* PeakExact, FramesStack and InlinedOwn of StackSvg, which are about RECURSIVE
  operators: no module with a theorem reaches one.
* QuitHeard, which is liveness and out of the prover's reach.

## Not modelled

FNest and FSmall's packing, the debug tracer; the rails of the tree; the bytes
of ioctl structures, Mach messages, ELF and DWARF, and the creator string; the
totals of the header line; macOS's own order of allocations in collect_procs,
which is the one of Linux with a scratch per pid.  Call wrappers, formatting,
one-line readouts, command-line wording, arena-svg and the build scripts are
out of scope: they have no state of their own, or only that of a trace.

## Plan

What is left to prove: StackSvg's three properties, once its walks are recursive
functions.

And of the model: FNest in Arena; a free-standing scope inside a builder; an
abstract session (terminal restored on exit) that Session implements.
