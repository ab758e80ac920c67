------------------------------- MODULE Arena -------------------------------
(***************************************************************************)
(* The bump allocator of src/arena.rs: one static byte buffer, one offset, *)
(* scopes that save and restore the offset, and the collections built on   *)
(* top of it (FBox, FSpan through FBuilder, FReserve, FVec, compact,       *)
(* replace2) together with uncommit_tail, which hands the tail's pages     *)
(* back to the kernel.                                                     *)
(*                                                                         *)
(* All offsets and lengths are bytes.  What the borrow checker enforces    *)
(* (a frame is unusable while a builder, a reserve or a nested closure     *)
(* borrows it; a brand keeps an allocation inside its closure) appears as  *)
(* the stack discipline of the variable stack.  The caller's obligations   *)
(* that the code only documents (replace2) are guards, marked as such.     *)
(***************************************************************************)
EXTENDS Integers, Sequences

CONSTANTS
  Size,      (* bytes of ARENA.buf                                        *)
  Elems,     (* element types: records [size, align]                      *)
  Ids,       (* names of allocation handles                               *)
  NoId,      (* "no handle"                                               *)
  Base,      (* address of ARENA.buf; align(16) only, not page aligned    *)
  PageSize,  (* kernel page size                                          *)
  MaxCap,    (* bound: elements asked for in one reserve / vec / extend   *)
  MaxDepth   (* bound: nested closures, builders and reserves             *)

Elem == [size : Nat, align : {1, 2, 4, 8, 16}]

(* AT_PAGESZ: a power of two, 4 K, 16 K or 64 K on real kernels.           *)
PageSizes == {1, 2, 4, 8, 16, 4096, 16384, 65536}

(* MAX_ALIGN is 16, every align_of is a power of two, and SIZE is a        *)
(* multiple of each, as every size_of is of its align_of.                  *)
ASSUME ArenaAssumption ==
  /\ Size \in Nat /\ Base \in Nat /\ PageSize \in PageSizes
  /\ MaxCap \in Nat /\ MaxDepth \in Nat
  /\ Elems \subseteq Elem
  /\ \A e \in Elems : Size % e.align = 0 /\ e.size % e.align = 0
  /\ NoId \notin Ids

VARIABLES
  offset,    (* ARENA.offset                                              *)
  mem,       (* ARENA.buf: which byte of which allocation was written     *)
  stack,     (* open closures, builders and reserves, outermost first     *)
  live,      (* ids of the handles that safe code still holds             *)
  span,      (* the handles: id -> record                                 *)
  aborted    (* a panic: exit_group(134), nothing runs afterwards         *)

vars == <<offset, mem, stack, live, span, aborted>>

----------------------------------------------------------------------------
(* Handles and activations                                                 *)

Offsets == 0 .. Size
Addrs   == 0 .. Size - 1

(* A byte is known by the handle that wrote it and its index there.  Junk  *)
(* is what a read of unwritten or reclaimed memory may return.             *)
Bytes == [by : Ids \cup {NoId}, at : Nat]
Junk  == [by |-> NoId, at |-> 0]

(* lo..hi is the reserved range, lo..used the initialised one.  "open" is  *)
(* held by a running FBuilder or FReserve, "lent" by a running replace2.   *)
Handle == [kind : {"box", "span", "vec", "open", "lent"}, owner : Nat,
           lo : Nat, hi : Nat, used : Nat, elem : Elem]

Blank == [kind |-> "box", owner |-> 0, lo |-> 0, hi |-> 0, used |-> 0,
          elem |-> [size |-> 0, align |-> 1]]

(* An activation: saved is the offset its entry saw, i and j the handles   *)
(* it holds.                                                               *)
Activation == [kind : {"scope", "compact", "replace2", "builder", "reserve"},
               saved : Nat, i : Ids \cup {NoId}, j : Ids \cup {NoId}]

Depth == Len(stack)
Top   == stack[Len(stack)]

(* Closures that hand out a Frame.                                         *)
Frames == {"scope", "compact", "replace2"}

(* The innermost activation is of one of these kinds.                      *)
Inside(kinds) == Depth > 0 /\ Top.kind \in kinds

(* The frame of the innermost closure, when nothing borrows it mutably.    *)
FrameFree == Inside(Frames)

(* Mutant of AlignUp: the mask is forgotten.                               *)
AlignNot(x, a) == x

(* (x + (align - 1)) & !(align - 1)                                        *)
AlignUp(x, a) == IF x % a = 0 THEN x ELSE x + (a - (x % a))

(* Bytes of m from..to-1 forgotten: dropped, or above a rewound offset.    *)
Forget(m, from, to) ==
  [x \in Addrs |-> IF from <= x /\ x < to THEN Junk ELSE m[x]]

Rewind(m, o) == Forget(m, o, Size)

(* n bytes written at address a as the bytes at.. of handle i.             *)
Store(m, i, a, at, n) ==
  [x \in Addrs |-> IF a <= x /\ x < a + n
                     THEN [by |-> i, at |-> at + (x - a)] ELSE m[x]]

(* Mutant of CopyDown: the loop runs from the last byte to the first.      *)
CopyBackward(m, src, dst, n) ==
  [x \in Addrs |-> IF dst <= x /\ x < dst + n
                     THEN IF src <= dst THEN m[src + (x - dst)]
                          ELSE m[src + n - 1 - ((dst + n - 1 - x) % (src - dst))]
                     ELSE m[x]]

(* The forward byte loop of copy_down.  For dst > src it reads bytes it    *)
(* has already overwritten, with period dst - src.                         *)
CopyDown(m, src, dst, n) ==
  [x \in Addrs |-> IF dst <= x /\ x < dst + n
                     THEN IF dst <= src THEN m[src + (x - dst)]
                          ELSE m[src + ((x - dst) % (dst - src))]
                     ELSE m[x]]

(* bump(size, align): the aligned offset; it fits or the program panics.   *)
Bump(e) == AlignUp(offset, e.align)

(* Mutant of Fits: the bound is off by one.                                *)
FitsLoose(n, e) == Bump(e) + n <= Size + 1

Fits(n, e) == Bump(e) + n <= Size

NewHandle(i, h) ==
  /\ i \notin live
  /\ live' = live \cup {i}
  /\ span' = [span EXCEPT ![i] = h]

Owned(d) == {i \in live : span[i].owner = d}

(* The handles of the closing closure die, except keep.  Mutant: the       *)
(* closure's result dies with them.                                        *)
ReleaseAll(keep) == live \ Owned(Depth)
Release(keep) == live \ (Owned(Depth) \ keep)

Blanked(f, dead) == [i \in Ids |-> IF i \in dead THEN Blank ELSE f[i]]

Pop == SubSeq(stack, 1, Depth - 1)

(* Span h after a slide: its b bytes start at a, one frame further out.    *)
Slid(h, a, b) ==
  [kind |-> "span", owner |-> Depth - 1, lo |-> a, hi |-> a + b,
   used |-> a + b, elem |-> h.elem]

----------------------------------------------------------------------------
(* Scopes                                                                  *)

(* arena::scope, Frame::scope, FReserve::scope: ScopeGuard(offset).        *)
OpenScope ==
  /\ Depth < MaxDepth
  /\ Depth = 0 \/ Inside(Frames \cup {"reserve"})
  /\ stack' = Append(stack, [kind |-> "scope", saved |-> offset,
                             i |-> NoId, j |-> NoId])
  /\ UNCHANGED <<offset, mem, live, span>>

(* ScopeGuard::drop.                                                       *)
CloseScope ==
  /\ Inside({"scope"})
  /\ offset' = Top.saved
  /\ mem' = Rewind(mem, Top.saved)
  /\ live' = Release({})
  /\ span' = Blanked(span, Owned(Depth))
  /\ stack' = Pop

----------------------------------------------------------------------------
(* Allocations straight from a frame                                       *)

(* alloc, alloc_zeroed: one initialised T.                                 *)
Alloc(i, e) ==
  /\ FrameFree /\ Fits(e.size, e)
  /\ NewHandle(i, [kind |-> "box", owner |-> Depth, lo |-> Bump(e),
                   hi |-> Bump(e) + e.size, used |-> Bump(e) + e.size,
                   elem |-> e])
  /\ offset' = Bump(e) + e.size
  /\ mem' = Store(mem, i, Bump(e), 0, e.size)
  /\ UNCHANGED stack

(* vec: capacity n, nothing initialised.                                   *)
Vec(i, e, n) ==
  /\ FrameFree /\ Fits(n * e.size, e)
  /\ NewHandle(i, [kind |-> "vec", owner |-> Depth, lo |-> Bump(e),
                   hi |-> Bump(e) + n * e.size, used |-> Bump(e), elem |-> e])
  /\ offset' = Bump(e) + n * e.size
  /\ UNCHANGED <<mem, stack>>

(* empty: an aligned position, no bump.                                    *)
Empty(i, e) ==
  /\ FrameFree
  /\ NewHandle(i, [kind |-> "span", owner |-> Depth, lo |-> Bump(e),
                   hi |-> Bump(e), used |-> Bump(e), elem |-> e])
  /\ UNCHANGED <<offset, mem, stack>>

----------------------------------------------------------------------------
(* span: FBuilder                                                          *)

(* span: the offset is aligned up front, without a bound check.            *)
BeginSpan(i, e) ==
  /\ FrameFree /\ Depth < MaxDepth
  /\ NewHandle(i, [kind |-> "open", owner |-> Depth + 1, lo |-> Bump(e),
                   hi |-> Bump(e), used |-> Bump(e), elem |-> e])
  /\ offset' = Bump(e)
  /\ stack' = Append(stack, [kind |-> "builder", saved |-> offset,
                             i |-> i, j |-> NoId])
  /\ UNCHANGED mem

(* FBuilder::push, extend_from_slice: n elements at the bumped offset.     *)
BuilderPush(n) ==
  /\ Inside({"builder"})
  /\ LET h == span[Top.i]
         b == n * h.elem.size
     IN /\ Fits(b, h.elem)
        /\ offset' = Bump(h.elem) + b
        /\ mem' = Store(mem, Top.i, Bump(h.elem), h.used - h.lo, b)
        /\ span' = [span EXCEPT ![Top.i].hi = h.hi + b, ![Top.i].used = h.used + b]
  /\ UNCHANGED <<stack, live>>

(* FBuilder::pop.                                                          *)
BuilderPop ==
  /\ Inside({"builder"})
  /\ LET h == span[Top.i]
         o == offset - h.elem.size
     IN /\ h.lo + h.elem.size <= h.used
        /\ offset' = o
        /\ mem' = Rewind(mem, o)
        /\ span' = [span EXCEPT ![Top.i].hi = h.hi - h.elem.size,
                                ![Top.i].used = h.used - h.elem.size]
  /\ UNCHANGED <<stack, live>>

(* The build closure returns: the builder freezes into an FSpan.           *)
EndSpan ==
  /\ Inside({"builder"})
  /\ span' = [span EXCEPT ![Top.i].kind = "span", ![Top.i].owner = Depth - 1]
  /\ stack' = Pop
  /\ UNCHANGED <<offset, mem, live>>

----------------------------------------------------------------------------
(* reserve: FReserve                                                       *)

Reserve(i, e, n) ==
  /\ FrameFree /\ Depth < MaxDepth /\ Fits(n * e.size, e)
  /\ NewHandle(i, [kind |-> "open", owner |-> Depth + 1, lo |-> Bump(e),
                   hi |-> Bump(e) + n * e.size, used |-> Bump(e), elem |-> e])
  /\ offset' = Bump(e) + n * e.size
  /\ stack' = Append(stack, [kind |-> "reserve", saved |-> offset,
                             i |-> i, j |-> NoId])
  /\ UNCHANGED mem

(* Appending n elements to the slots of handle i: FReserve and FVec push   *)
(* (Err when full changes nothing), extend_from_slice, fill_zeroed.        *)
PushSlots(i, n) ==
  LET h == span[i]
      b == n * h.elem.size
  IN /\ h.used + b <= h.hi
     /\ mem' = Store(mem, i, h.used, h.used - h.lo, b)
     /\ span' = [span EXCEPT ![i].used = h.used + b]
     /\ UNCHANGED <<offset, stack, live>>

(* Dropping handle i's elements down to address u: pop, truncate, clear.   *)
TruncateSlots(i, u) ==
  /\ span[i].lo <= u /\ u < span[i].used
  /\ (u - span[i].lo) % span[i].elem.size = 0
  /\ mem' = Forget(mem, u, span[i].used)
  /\ span' = [span EXCEPT ![i].used = u]
  /\ UNCHANGED <<offset, stack, live>>

ReservePush(n) == Inside({"reserve"}) /\ PushSlots(Top.i, n)

ReserveTruncate(u) ==
  Inside({"reserve"}) /\ TruncateSlots(Top.i, u)

(* FReserve::freeze: the exact prefix survives, the tail is reclaimed.     *)
Freeze ==
  /\ Inside({"reserve"})
  /\ LET u == span[Top.i].used
     IN /\ offset' = u
        /\ mem' = Rewind(mem, u)
        /\ span' = [span EXCEPT ![Top.i].kind = "span", ![Top.i].hi = u,
                                ![Top.i].owner = Depth - 1]
  /\ stack' = Pop
  /\ UNCHANGED live

(* FReserve::drop without freeze: rewinds to the reserve's own start.      *)
DropReserve ==
  /\ Inside({"reserve"})
  /\ offset' = span[Top.i].lo
  /\ mem' = Rewind(mem, span[Top.i].lo)
  /\ live' = live \ {Top.i}
  /\ span' = Blanked(span, {Top.i})
  /\ stack' = Pop

----------------------------------------------------------------------------
(* FVec, and what a handle's owner may do with it at any time              *)

VecPush(i, n) == i \in live /\ span[i].kind = "vec" /\ PushSlots(i, n)

VecTruncate(i, u) == i \in live /\ span[i].kind = "vec" /\ TruncateSlots(i, u)

(* FVec::into_fspan keeps only the initialised prefix; the tail stays      *)
(* reserved in the arena, unreachable.                                     *)
IntoFSpan(i) ==
  /\ i \in live /\ span[i].kind = "vec"
  /\ span' = [span EXCEPT ![i].kind = "span", ![i].hi = span[i].used]
  /\ UNCHANGED <<offset, mem, stack, live>>

(* FSpan::into_fvec: capacity = len.                                       *)
IntoFVec(i) ==
  /\ i \in live /\ span[i].kind = "span"
  /\ span' = [span EXCEPT ![i].kind = "vec"]
  /\ UNCHANGED <<offset, mem, stack, live>>

----------------------------------------------------------------------------
(* compact                                                                 *)

BeginCompact ==
  /\ FrameFree /\ Depth < MaxDepth
  /\ stack' = Append(stack, [kind |-> "compact", saved |-> offset,
                             i |-> NoId, j |-> NoId])
  /\ UNCHANGED <<offset, mem, live, span>>

(* The closure returns span r, branded with the closure's own frame: r     *)
(* slides down to the aligned entry offset and all the rest is reclaimed.  *)
EndCompact(r) ==
  /\ Inside({"compact"})
  /\ r \in Owned(Depth) /\ span[r].kind = "span"
  /\ LET h == span[r]
         b == h.used - h.lo
         dst == AlignUp(Top.saved, h.elem.align)
     IN /\ offset' = dst + b
        /\ mem' = Rewind(CopyDown(mem, h.lo, dst, b), dst + b)
        /\ live' = Release({r})
        /\ span' = [Blanked(span, Owned(Depth) \ {r}) EXCEPT ![r] = Slid(h, dst, b)]
  /\ stack' = Pop

----------------------------------------------------------------------------
(* replace2                                                                *)

(* The caller's side: i and j are the two topmost allocations of the frame *)
(* (nothing else sits above i's start), i below j.  The code checks that j *)
(* ends at the top of the bump, up to the alignment of an empty span.      *)
BeginReplace2(i, j) ==
  /\ FrameFree /\ Depth < MaxDepth
  /\ i # j /\ {i, j} \subseteq Owned(Depth)
  /\ span[i].kind = "span" /\ span[j].kind = "span"
  /\ span[i].hi <= span[j].lo
  /\ \A o \in Owned(Depth) \ {i, j} : span[o].hi <= span[i].lo
  /\ offset <= span[j].hi /\ span[j].hi - offset < span[j].elem.align
  /\ span' = [span EXCEPT ![i].kind = "lent", ![j].kind = "lent"]
  /\ stack' = Append(stack, [kind |-> "replace2", saved |-> offset,
                             i |-> i, j |-> j])
  /\ UNCHANGED <<offset, mem, live>>

(* old1_start.  Mutant: the top of the bump the closure entered with.      *)
RotateTop   == Top.saved
RotateStart == span[Top.i].lo

(* The closure returns (new1, new2), new1's bytes below new2's (caller's   *)
(* obligation).  new1 slides to span1's start, then new2 to just past it.  *)
EndReplace2(n1, n2) ==
  /\ Inside({"replace2"})
  /\ n1 # n2 /\ {n1, n2} \subseteq Owned(Depth)
  /\ span[n1].kind = "span" /\ span[n2].kind = "span"
  /\ span[n1].elem = span[Top.i].elem /\ span[n2].elem = span[Top.j].elem
  /\ \/ span[n1].used = span[n1].lo
     \/ span[n2].used = span[n2].lo
     \/ span[n1].used <= span[n2].lo
  /\ LET h1 == span[n1]
         h2 == span[n2]
         start == RotateStart
         b1 == h1.used - h1.lo
         b2 == h2.used - h2.lo
         dst == AlignUp(start + b1, h2.elem.align)
         end == dst + b2
     IN /\ offset' = end
        /\ mem' = Rewind(CopyDown(CopyDown(mem, h1.lo, start, b1), h2.lo, dst, b2), end)
        /\ live' = Release({n1, n2}) \ {Top.i, Top.j}
        /\ span' = [Blanked(span, (Owned(Depth) \ {n1, n2}) \cup {Top.i, Top.j}) EXCEPT
                      ![n1] = Slid(h1, start, b1), ![n2] = Slid(h2, dst, b2)]
  /\ stack' = Pop

----------------------------------------------------------------------------
(* uncommit_tail and panics                                                *)

RoundUp(x)   == AlignUp(x, PageSize)
RoundDown(x) == x - (x % PageSize)

(* Mutants: the start rounded the wrong way, the length not rounded.       *)
TailStartDown == RoundDown(Base + offset)
TailStart == RoundUp(Base + offset)

TailLenRaw == IF TailStart < Base + Size THEN Base + Size - TailStart ELSE 0
TailLen   == IF TailStart < Base + Size THEN RoundDown(Base + Size - TailStart) ELSE 0

(* madvise rounds the length up to whole pages and zeroes them.  The cell  *)
(* ARENA.offset is the word after the buffer and would be zeroed with it.  *)
UncommitTail ==
  LET end == TailStart + RoundUp(TailLen)
  IN /\ mem' = Forget(mem, TailStart - Base, end - Base)
     /\ offset' = IF TailStart <= Base + Size /\ Base + Size < end THEN 0 ELSE offset
     /\ UNCHANGED <<stack, live, span>>

(* Any request that does not fit: the assert of bump, or of extend on an   *)
(* FReserve or FVec.  The process exits with status 134 and is gone.      *)
Overflow ==
  /\ \/ FrameFree /\ \E e \in Elems, n \in 1 .. MaxCap : ~Fits(n * e.size, e)
     \/ /\ Inside({"builder"})
        /\ \E n \in 1 .. MaxCap : ~Fits(n * span[Top.i].elem.size, span[Top.i].elem)
     \/ \E i \in live, n \in 1 .. MaxCap :
          /\ span[i].kind = "vec" \/ (Inside({"reserve"}) /\ Top.i = i)
          /\ span[i].used + n * span[i].elem.size > span[i].hi
  /\ aborted' = TRUE
  /\ offset' = 0 /\ stack' = <<>> /\ live' = {}
  /\ mem' = [x \in Addrs |-> Junk]
  /\ span' = [i \in Ids |-> Blank]

----------------------------------------------------------------------------
Init ==
  /\ offset = 0
  /\ mem = [x \in Addrs |-> Junk]
  /\ stack = <<>>
  /\ live = {}
  /\ span = [i \in Ids |-> Blank]
  /\ aborted = FALSE

FrameStep ==
  \/ OpenScope
  \/ CloseScope
  \/ \E i \in Ids, e \in Elems : Alloc(i, e)
  \/ \E i \in Ids, e \in Elems, n \in 0 .. MaxCap : Vec(i, e, n)
  \/ \E i \in Ids, e \in Elems : Empty(i, e)

BuilderStep ==
  \/ \E i \in Ids, e \in Elems : BeginSpan(i, e)
  \/ \E n \in 1 .. MaxCap : BuilderPush(n)
  \/ BuilderPop
  \/ EndSpan

ReserveStep ==
  \/ \E i \in Ids, e \in Elems, n \in 0 .. MaxCap : Reserve(i, e, n)
  \/ \E n \in 1 .. MaxCap : ReservePush(n)
  \/ \E u \in Offsets : ReserveTruncate(u)
  \/ Freeze
  \/ DropReserve

HandleStep ==
  \/ \E i \in Ids, n \in 1 .. MaxCap : VecPush(i, n)
  \/ \E i \in Ids, u \in Offsets : VecTruncate(i, u)
  \/ \E i \in Ids : IntoFSpan(i)
  \/ \E i \in Ids : IntoFVec(i)

SlideStep ==
  \/ BeginCompact
  \/ \E r \in Ids : EndCompact(r)
  \/ \E i, j \in Ids : BeginReplace2(i, j)
  \/ \E n1, n2 \in Ids : EndReplace2(n1, n2)

Next ==
  /\ ~aborted
  /\ \/ /\ \/ FrameStep \/ BuilderStep \/ ReserveStep
           \/ HandleStep \/ SlideStep \/ UncommitTail
        /\ UNCHANGED aborted
     \/ Overflow

Spec == Init /\ [][Next]_vars

----------------------------------------------------------------------------
(* Properties                                                              *)

TypeOK ==
  /\ offset \in Offsets
  /\ mem \in [Addrs -> Bytes]
  /\ stack \in Seq(Activation)
  /\ live \subseteq Ids
  /\ span \in [Ids -> Handle]
  /\ aborted \in BOOLEAN

(* Every live range lies inside the buffer and holds what it claims: the   *)
(* initialised prefix never outgrows the reserved range, although span and *)
(* empty round the offset up without a bound check.                        *)
InBounds ==
  \A i \in live : /\ 0 <= span[i].lo /\ span[i].lo <= span[i].used
                  /\ span[i].used <= span[i].hi /\ span[i].hi <= Size

(* No byte belongs to two handles: what every SAFETY comment on            *)
(* slice::from_raw_parts_mut relies on.                                    *)
Disjoint ==
  \A i, k \in live : i # k /\ span[i].lo < span[i].hi /\ span[k].lo < span[k].hi
                       => span[i].hi <= span[k].lo \/ span[k].hi <= span[i].lo

(* Each handle reads back exactly what was written through it, in order,   *)
(* whatever was pushed, slid, rewound, frozen or given back to the kernel  *)
(* in between.                                                             *)
ContentsIntact ==
  \A i \in live : \A x \in Addrs :
    span[i].lo <= x /\ x < span[i].used
      => mem[x] = [by |-> i, at |-> x - span[i].lo]

(* Every element slice is aligned for its type, also after a slide.        *)
Aligned == \A i \in live : span[i].lo % span[i].elem.align = 0

----------------------------------------------------------------------------
(* The strengthening that makes the properties inductive                   *)

(* The offset that bounds what activation d has allocated so far.          *)
Ceil(d) == IF d = Depth THEN offset ELSE stack[d + 1].saved

(* Saved offsets climb with the stack, only a scope may be opened on a     *)
(* reserve, and a builder or a reserve holds an open handle of its own.    *)
StackAt(d) ==
  /\ stack[d].saved <= offset
  /\ \A e \in d .. Depth : stack[d].saved <= stack[e].saved
  /\ stack[d].kind = "builder" => d = Depth
  /\ stack[d].kind # "scope" => d > 1 /\ stack[d - 1].kind \in Frames
  /\ stack[d].kind \in {"builder", "reserve"} =>
       /\ stack[d].i \in live
       /\ span[stack[d].i].kind = "open" /\ span[stack[d].i].owner = d
       /\ span[stack[d].i].hi <= Ceil(d)

StackOK == \A d \in 1 .. Depth : StackAt(d)

(* A handle lies between the offset its closure entered with and the       *)
(* closure's ceiling; an empty one may sit one alignment step above it.    *)
HandleAt(i) ==
  /\ span[i].owner \in 1 .. Depth
  /\ stack[span[i].owner].saved <= span[i].lo
  /\ span[i].lo <= span[i].used /\ span[i].used <= span[i].hi
  /\ span[i].lo < span[i].hi => span[i].hi <= Ceil(span[i].owner)
  /\ span[i].lo <= AlignUp(Ceil(span[i].owner), span[i].elem.align)
  /\ span[i].lo % span[i].elem.align = 0
  /\ span[i].elem \in Elems
  /\ IF span[i].kind = "open"
       THEN /\ stack[span[i].owner].kind \in {"builder", "reserve"}
            /\ stack[span[i].owner].i = i
       ELSE stack[span[i].owner].kind \in Frames

HandleOK == \A i \in live : HandleAt(i)

(* While a replace2 runs, its two old spans stay lent, the first below the *)
(* second, and nothing else of their frame sits above the first.           *)
RotationAt(d) ==
  LET i == stack[d].i
      j == stack[d].j
  IN /\ i # j /\ i \in live /\ j \in live
     /\ span[i].owner = d - 1 /\ span[j].owner = d - 1
     /\ span[i].kind = "lent" /\ span[j].kind = "lent"
     /\ span[i].hi <= span[j].lo
     /\ \A o \in live : span[o].owner = d - 1 /\ o # i /\ o # j
                          => span[o].hi <= span[i].lo

LentAt(o) ==
  /\ span[o].owner < Depth
  /\ stack[span[o].owner + 1].kind = "replace2"
  /\ o \in {stack[span[o].owner + 1].i, stack[span[o].owner + 1].j}

RotationOK ==
  /\ \A d \in 1 .. Depth : stack[d].kind = "replace2" => RotationAt(d)
  /\ \A o \in live : span[o].kind = "lent" => LentAt(o)

(* The inductive invariant of the allocator.                               *)
IInv == TypeOK /\ StackOK /\ HandleOK /\ RotationOK /\ Disjoint

============================================================================
