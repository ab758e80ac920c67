---------------------------- MODULE ArenaProofs ----------------------------
(* Proofs about Arena for every size of the buffer, every set of element   *)
(* types, every page size and any depth of nesting.  The inductive         *)
(* invariant is IInv of Arena; each action is shown to preserve it by one  *)
(* of a few lemmas about what it does to the stack of activations (push,   *)
(* pop, resize the top, create on top), and the properties follow from it. *)
EXTENDS Arena, SequenceTheorems, TLAPS

(* Bump's rounding: up, by less than one alignment, to a multiple of it.   *)
LEMMA AlignUpFacts ==
  ASSUME NEW x \in Nat, NEW a \in {1, 2, 4, 8, 16}
  PROVE  /\ AlignUp(x, a) \in Nat
         /\ x <= AlignUp(x, a)
         /\ AlignUp(x, a) < x + a
         /\ AlignUp(x, a) % a = 0
BY DEF AlignUp

(* No aligned offset lies between an offset and its rounding.              *)
LEMMA AlignUpLeast ==
  ASSUME NEW x \in Nat, NEW y \in Nat, NEW a \in {1, 2, 4, 8, 16},
         x <= y, y % a = 0
  PROVE  AlignUp(x, a) <= y
BY DEF AlignUp

(* Rounding keeps the order of offsets.                                    *)
LEMMA AlignUpMono ==
  ASSUME NEW x \in Nat, NEW y \in Nat, NEW a \in {1, 2, 4, 8, 16}, x <= y
  PROVE  AlignUp(x, a) <= AlignUp(y, a)
BY DEF AlignUp

(* A length in whole pages stays what it is when the kernel rounds it.     *)
LEMMA RoundFacts ==
  ASSUME NEW x \in Nat
  PROVE /\ RoundUp(x) \in Nat /\ x <= RoundUp(x)
        /\ RoundDown(x) \in Nat /\ RoundDown(x) <= x
        /\ RoundUp(RoundDown(x)) = RoundDown(x)
BY ArenaAssumption DEF RoundUp, RoundDown, AlignUp, PageSizes

(* Forgetting bytes of the buffer leaves a buffer.                         *)
LEMMA MemTyping ==
  ASSUME NEW m \in [Addrs -> Bytes], NEW from \in Int, NEW to \in Int
  PROVE  Forget(m, from, to) \in [Addrs -> Bytes]
BY DEF Forget, Bytes, Junk

(* So does rewinding the offset.                                           *)
LEMMA RewindTyping ==
  ASSUME NEW m \in [Addrs -> Bytes], NEW o \in Int
  PROVE  Rewind(m, o) \in [Addrs -> Bytes]
BY MemTyping, ArenaAssumption DEF Rewind

(* So does a write, wherever it lands.                                     *)
LEMMA StoreTyping ==
  ASSUME NEW m \in [Addrs -> Bytes], NEW i \in Ids, NEW a \in Int,
         NEW at \in Nat, NEW n \in Int
  PROVE  Store(m, i, a, at, n) \in [Addrs -> Bytes]
BY ArenaAssumption DEF Store, Bytes, Addrs

(* So does copy_down between two ranges of the buffer.                     *)
LEMMA CopyTyping ==
  ASSUME NEW m \in [Addrs -> Bytes], NEW src \in Nat, NEW dst \in Nat,
         NEW n \in Nat, dst <= src \/ n = 0, src + n <= Size
  PROVE  CopyDown(m, src, dst, n) \in [Addrs -> Bytes]
BY ArenaAssumption DEF CopyDown, Addrs

(* What is left when the innermost activation ends.                        *)
LEMMA PopFacts ==
  ASSUME stack \in Seq(Activation), Depth > 0
  PROVE  /\ Pop \in Seq(Activation)
         /\ Len(Pop) = Depth - 1
         /\ \A d \in 1 .. Depth - 1 : Pop[d] = stack[d]
         /\ Top \in Activation
<1>1. Len(stack) \in Nat /\ Depth = Len(stack)
  BY LenProperties DEF Depth
<1>2. /\ Pop \in Seq(Activation)
      /\ Len(Pop) = Depth - 1
      /\ \A d \in 1 .. Depth - 1 : Pop[d] = stack[d]
  BY <1>1, SubSeqProperties DEF Pop
<1>3. Top \in Activation
  BY <1>1, ElementOfSeq DEF Top
<1> QED BY <1>2, <1>3

(* What the stack looks like when an activation begins.                    *)
LEMMA PushFacts ==
  ASSUME stack \in Seq(Activation), NEW r \in Activation
  PROVE  /\ Append(stack, r) \in Seq(Activation)
         /\ Len(Append(stack, r)) = Depth + 1
         /\ \A d \in 1 .. Depth : Append(stack, r)[d] = stack[d]
         /\ Append(stack, r)[Depth + 1] = r
BY DEF Depth

(* A nonempty handle ends below every activation opened after its own, and *)
(* below the offset.                                                       *)
LEMMA BelowTop ==
  ASSUME IInv, NEW k \in live
  PROVE  /\ span[k] \in Handle /\ span[k].owner \in 1 .. Depth
         /\ span[k].elem.align \in {1, 2, 4, 8, 16}
         /\ \A d \in 1 .. Depth : span[k].lo < span[k].hi /\ span[k].owner < d
              => span[k].hi <= stack[d].saved
         /\ span[k].lo < span[k].hi => span[k].hi <= offset
<1>1. span[k] \in Handle /\ span[k].owner \in 1 .. Depth
  BY DEF IInv, TypeOK, HandleOK, HandleAt
<1>2. span[k].elem.align \in {1, 2, 4, 8, 16}
  BY <1>1 DEF Handle, Elem
<1>3. stack \in Seq(Activation) /\ Depth \in Nat /\ offset \in Nat
  BY ArenaAssumption DEF IInv, TypeOK, Depth, Offsets
<1>4. \A d \in 1 .. Depth : stack[d] \in Activation /\ stack[d].saved \in Nat
  <2>1. \A d \in 1 .. Depth : stack[d] \in Activation
    BY <1>3, ElementOfSeq DEF Depth
  <2> QED BY <2>1 DEF Activation
<1>5. span[k].lo < span[k].hi => span[k].hi <= Ceil(span[k].owner)
  BY DEF IInv, HandleOK, HandleAt
<1>6. ASSUME NEW d \in 1 .. Depth, span[k].lo < span[k].hi, span[k].owner < d
      PROVE  span[k].hi <= stack[d].saved
  <2>1. Ceil(span[k].owner) = stack[span[k].owner + 1].saved
    BY <1>1, <1>3, <1>6 DEF Ceil, Handle
  <2>2. stack[span[k].owner + 1].saved <= stack[d].saved
    BY <1>1, <1>3, <1>6 DEF IInv, StackOK, StackAt, Handle
  <2> QED BY SMTT(60), <1>1, <1>3, <1>4, <1>5, <1>6, <2>1, <2>2 DEF Handle
<1>7. ASSUME span[k].lo < span[k].hi PROVE span[k].hi <= offset
  <2>1. CASE span[k].owner = Depth
    BY <1>5, <1>7, <2>1 DEF Ceil
  <2>2. CASE span[k].owner < Depth
    BY SMTT(60), <1>1, <1>3, <1>4, <1>6, <1>7, <2>2 DEF IInv, StackOK, StackAt, Handle
  <2> QED BY <1>1, <1>3, <2>1, <2>2
<1> QED BY <1>1, <1>2, <1>6, <1>7

(* The plain types hidden in IInv.                                         *)
LEMMA Types ==
  ASSUME IInv
  PROVE  /\ offset \in Nat /\ Size \in Nat /\ offset <= Size
         /\ stack \in Seq(Activation) /\ Depth \in Nat /\ Depth = Len(stack)
         /\ \A d \in 1 .. Depth : stack[d] \in Activation /\ stack[d].saved \in Nat
         /\ span \in [Ids -> Handle] /\ live \subseteq Ids
         /\ \A k \in Ids : /\ span[k].owner \in Nat /\ span[k].lo \in Nat
                           /\ span[k].hi \in Nat /\ span[k].used \in Nat
                           /\ span[k].elem \in Elem /\ span[k].elem.size \in Nat
                           /\ span[k].elem.align \in {1, 2, 4, 8, 16}
<1>1. offset \in Nat /\ Size \in Nat /\ offset <= Size
  BY ArenaAssumption DEF IInv, TypeOK, Offsets
<1>2. stack \in Seq(Activation) /\ Depth \in Nat /\ Depth = Len(stack)
  BY LenProperties DEF IInv, TypeOK, Depth
<1>3. \A d \in 1 .. Depth : stack[d] \in Activation
  BY <1>2, ElementOfSeq
<1>4. \A d \in 1 .. Depth : stack[d].saved \in Nat
  BY <1>3 DEF Activation
<1>5. span \in [Ids -> Handle] /\ live \subseteq Ids
  BY DEF IInv, TypeOK
<1>6. \A k \in Ids : span[k] \in Handle
  BY <1>5
<1>7. \A k \in Ids : /\ span[k].owner \in Nat /\ span[k].lo \in Nat
                     /\ span[k].hi \in Nat /\ span[k].used \in Nat
                     /\ span[k].elem \in Elem
  BY <1>6 DEF Handle
<1>8. \A k \in Ids : /\ span[k].elem.size \in Nat
                     /\ span[k].elem.align \in {1, 2, 4, 8, 16}
  BY <1>7 DEF Elem
<1> QED BY <1>1, <1>2, <1>3, <1>4, <1>5, <1>7, <1>8

(* A handle created by the innermost frame at the aligned offset.          *)
LEMMA NewOnTop ==
  ASSUME IInv, FrameFree, NEW i \in Ids, NEW h \in Handle, i \notin live,
         h.owner = Depth, h.kind \in {"box", "vec", "span"}, h.elem \in Elems,
         h.lo = AlignUp(offset, h.elem.align), h.lo <= h.used, h.used <= h.hi,
         offset' \in Offsets, offset <= offset', h.lo < h.hi => h.hi <= offset',
         live' = live \cup {i}, span' = [span EXCEPT ![i] = h],
         stack' = stack, mem' \in [Addrs -> Bytes], aborted' \in BOOLEAN
  PROVE  IInv'
<1> USE Types
<1>0. /\ h.lo \in Nat /\ h.hi \in Nat /\ h.used \in Nat /\ h.elem.align \in {1, 2, 4, 8, 16}
      /\ offset' \in Nat /\ Depth > 0
  BY ArenaAssumption DEF Handle, Elem, Offsets, FrameFree, Inside
<1>1. /\ Depth' = Depth
      /\ \A d \in 1 .. Depth : d # Depth => Ceil(d)' = Ceil(d)
      /\ Ceil(Depth)' = offset' /\ Ceil(Depth) = offset
  BY DEF Ceil, Depth
<1>2. span'[i] = h /\ \A k \in live : span'[k] = span[k] /\ k # i
  OBVIOUS
<1>3. offset <= h.lo /\ h.lo % h.elem.align = 0
  <2>1. offset \in Nat
    OBVIOUS
  <2>2. /\ offset <= AlignUp(offset, h.elem.align)
        /\ AlignUp(offset, h.elem.align) % h.elem.align = 0
    BY <1>0, <2>1, AlignUpFacts
  <2> QED BY <2>2
<1>4. TypeOK'
  BY DEF TypeOK, IInv
<1>5. StackOK'
  <2> SUFFICES ASSUME NEW d \in 1 .. Depth PROVE StackAt(d)'
    BY <1>1 DEF StackOK
  <2>1. StackAt(d)
    BY DEF IInv, StackOK
  <2> QED BY SMTT(60), <1>0, <1>1, <1>2, <2>1 DEF StackAt, Ceil
<1>6. HandleOK'
  <2> SUFFICES ASSUME NEW k \in live' PROVE HandleAt(k)'
    BY DEF HandleOK
  <2>1. CASE k = i
    <3>1. Depth \in 1 .. Depth /\ stack[Depth].saved <= offset /\ stack[Depth].kind \in Frames
      BY <1>0 DEF IInv, StackOK, StackAt, FrameFree, Inside, Top, Depth
    <3>2. h.lo <= AlignUp(offset', h.elem.align)
      BY SMTT(60), <1>0, AlignUpMono
    <3> QED BY <1>0, <1>1, <1>2, <1>3, <2>1, <3>1, <3>2 DEF HandleAt
  <2>2. CASE k \in live
    <3>1. HandleAt(k) /\ span[k].owner \in 1 .. Depth
      BY <2>2 DEF IInv, HandleOK, HandleAt
    <3>2. CASE span[k].owner # Depth
      BY <1>1, <1>2, <2>2, <3>1, <3>2 DEF HandleAt
    <3>3. CASE span[k].owner = Depth
      <4>1. AlignUp(offset, span[k].elem.align) <= AlignUp(offset', span[k].elem.align)
        BY <1>0, <2>2, AlignUpMono
      <4>2. /\ AlignUp(offset, span[k].elem.align) \in Nat
            /\ AlignUp(offset', span[k].elem.align) \in Nat
        BY <1>0, <2>2, AlignUpFacts
      <4> QED BY SMTT(60), <1>0, <1>1, <1>2, <2>2, <3>1, <3>3, <4>1, <4>2 DEF HandleAt
    <3> QED BY <3>2, <3>3
  <2> QED BY <2>1, <2>2
<1>7. RotationOK'
  <2>1. ASSUME NEW d \in 1 .. Depth, stack[d].kind = "replace2"
        PROVE  RotationAt(d)'
    <3>1. RotationAt(d)
      BY <2>1 DEF IInv, RotationOK
    <3> QED BY <1>0, <1>2, <2>1, <3>1 DEF RotationAt
  <2>2. ASSUME NEW o \in live', span'[o].kind = "lent"
        PROVE  LentAt(o)'
    <3>1. o \in live /\ span[o].kind = "lent"
      BY <1>2, <2>2
    <3>2. LentAt(o)
      BY <3>1 DEF IInv, RotationOK
    <3> QED BY <1>1, <1>2, <3>1, <3>2 DEF LentAt
  <2> QED BY <1>1, <2>1, <2>2 DEF RotationOK
<1>8. Disjoint'
  <2>1. \A k \in live : span[k].lo < span[k].hi => span[k].hi <= h.lo
    BY <1>0, <1>3, BelowTop
  <2> QED BY <1>2, <2>1, <1>0 DEF Disjoint, IInv
<1> QED BY <1>4, <1>5, <1>6, <1>7, <1>8 DEF IInv

(* A closure entered on the current offset, with no handle of its own.     *)
LEMMA PushFrame ==
  ASSUME IInv, NEW r \in Activation, r.saved = offset,
         r.kind \in {"scope", "compact"},
         r.kind = "compact" => FrameFree,
         Depth = 0 \/ Inside(Frames \cup {"reserve"}),
         stack' = Append(stack, r), offset' = offset, mem' = mem,
         live' = live, span' = span, aborted' = aborted
  PROVE  IInv'
<1> USE Types
<1>1. /\ stack' \in Seq(Activation) /\ Depth' = Depth + 1
      /\ \A d \in 1 .. Depth : stack'[d] = stack[d]
      /\ stack'[Depth + 1] = r
  BY PushFacts DEF Depth
<1>2. \A d \in 1 .. Depth : Ceil(d)' = Ceil(d)
  BY <1>1 DEF Ceil
<1>3. \A d \in Nat : d = Depth + 1 => Ceil(d)' = offset
  BY <1>1 DEF Ceil
<1>4. TypeOK'
  BY <1>1 DEF TypeOK, IInv
<1>5. StackOK'
  <2>1. ASSUME NEW d \in 1 .. Depth PROVE StackAt(d)'
    <3>1. StackAt(d) /\ stack[d].kind # "builder"
      BY DEF IInv, StackOK, StackAt, Inside, Top, Depth, Frames
    <3> QED BY <1>1, <1>2, <3>1 DEF StackAt
  <2>2. ASSUME NEW d \in Nat, d = Depth + 1 PROVE StackAt(d)'
    <3>1. r.kind # "scope" => d > 1 /\ stack'[d - 1].kind \in Frames
      BY <1>1, <2>2 DEF FrameFree, Inside, Top, Depth
    <3> QED BY <1>1, <2>2, <3>1 DEF StackAt
  <2> QED BY <1>1, <2>1, <2>2 DEF StackOK
<1>6. HandleOK'
  <2> SUFFICES ASSUME NEW k \in live PROVE HandleAt(k)'
    BY DEF HandleOK
  <2>1. HandleAt(k)
    BY DEF IInv, HandleOK
  <2> QED BY <1>1, <1>2, <2>1 DEF HandleAt
<1>7. RotationOK'
  <2>1. ASSUME NEW d \in 1 .. Depth, stack[d].kind = "replace2"
        PROVE  RotationAt(d)'
    BY <1>1, <2>1 DEF IInv, RotationOK, RotationAt
  <2>2. ASSUME NEW o \in live, span[o].kind = "lent"
        PROVE  LentAt(o)'
    <3>1. LentAt(o) /\ span[o].owner \in 1 .. Depth
      BY <2>2 DEF IInv, RotationOK, HandleOK, HandleAt
    <3> QED BY <1>1, <3>1 DEF LentAt
  <2> QED BY <1>1, <2>1, <2>2 DEF RotationOK
<1>8. Disjoint'
  BY DEF Disjoint, IInv
<1> QED BY <1>4, <1>5, <1>6, <1>7, <1>8 DEF IInv

(* A builder or a reserve: an activation with an open handle on top.       *)
LEMMA PushOpen ==
  ASSUME IInv, FrameFree, NEW i \in Ids, NEW h \in Handle, i \notin live,
         NEW r \in Activation, r.saved = offset, r.i = i,
         r.kind \in {"builder", "reserve"},
         h.owner = Depth + 1, h.kind = "open", h.elem \in Elems,
         h.lo = AlignUp(offset, h.elem.align), h.lo <= h.used, h.used <= h.hi,
         offset' = h.hi, h.hi <= Size,
         live' = live \cup {i}, span' = [span EXCEPT ![i] = h],
         stack' = Append(stack, r), mem' = mem, aborted' = aborted
  PROVE  IInv'
<1> USE Types
<1>0. /\ h.lo \in Nat /\ h.hi \in Nat /\ h.used \in Nat /\ h.elem.align \in {1, 2, 4, 8, 16}
      /\ Depth > 0 /\ Top = stack[Depth] /\ Top.kind \in Frames
  BY ArenaAssumption DEF Handle, Elem, FrameFree, Inside, Top, Depth
<1>1. /\ stack' \in Seq(Activation) /\ Depth' = Depth + 1
      /\ \A d \in 1 .. Depth : stack'[d] = stack[d]
      /\ stack'[Depth + 1] = r
  BY PushFacts DEF Depth
<1>2. \A d \in 1 .. Depth : Ceil(d)' = Ceil(d)
  BY <1>1 DEF Ceil
<1>3. \A d \in Nat : d = Depth + 1 => Ceil(d)' = h.hi
  BY <1>1 DEF Ceil
<1>a. span'[i] = h /\ \A k \in live : span'[k] = span[k] /\ k # i
  OBVIOUS
<1>b. offset <= h.lo /\ h.lo % h.elem.align = 0
  <2>1. offset \in Nat
    OBVIOUS
  <2>2. /\ offset <= AlignUp(offset, h.elem.align)
        /\ AlignUp(offset, h.elem.align) % h.elem.align = 0
    BY <1>0, <2>1, AlignUpFacts
  <2> QED BY <2>2
<1>4. TypeOK'
  BY <1>0, <1>1 DEF TypeOK, IInv, Offsets
<1>5. StackOK'
  <2>1. ASSUME NEW d \in 1 .. Depth PROVE StackAt(d)'
    <3>1. StackAt(d) /\ stack[d].kind # "builder"
      BY <1>0 DEF IInv, StackOK, StackAt, Frames
    <3>2. stack[d].saved <= offset /\ stack[d].saved <= offset'
      BY <1>0, <1>b, <3>1 DEF StackAt
    <3>3. \A e \in d .. Depth + 1 : stack'[d].saved <= stack'[e].saved
      BY <1>1, <3>1, <3>2 DEF StackAt
    <3> QED BY <1>1, <1>2, <1>a, <3>1, <3>2, <3>3 DEF StackAt
  <2>2. ASSUME NEW d \in Nat, d = Depth + 1 PROVE StackAt(d)'
    <3>1. d > 1 /\ stack'[d - 1].kind \in Frames
      BY <1>0, <1>1, <2>2
    <3> QED BY <1>0, <1>1, <1>3, <1>a, <1>b, <2>2, <3>1 DEF StackAt
  <2> QED BY <1>1, <2>1, <2>2 DEF StackOK
<1>6. HandleOK'
  <2> SUFFICES ASSUME NEW k \in live' PROVE HandleAt(k)'
    BY DEF HandleOK
  <2>1. CASE k = i
    <3>1. h.hi <= AlignUp(h.hi, h.elem.align) /\ AlignUp(h.hi, h.elem.align) \in Nat
      BY <1>0, AlignUpFacts
    <3> QED BY <1>0, <1>1, <1>3, <1>a, <1>b, <2>1, <3>1 DEF HandleAt
  <2>2. CASE k \in live
    <3>1. HandleAt(k)
      BY <2>2 DEF IInv, HandleOK
    <3> QED BY <1>1, <1>2, <1>a, <2>2, <3>1 DEF HandleAt
  <2> QED BY <2>1, <2>2
<1>7. RotationOK'
  <2>1. ASSUME NEW d \in 1 .. Depth, stack[d].kind = "replace2"
        PROVE  RotationAt(d)'
    <3>1. RotationAt(d)
      BY <2>1 DEF IInv, RotationOK
    <3> QED BY <1>0, <1>1, <1>a, <2>1, <3>1 DEF RotationAt
  <2>2. ASSUME NEW o \in live', span'[o].kind = "lent"
        PROVE  LentAt(o)'
    <3>1. o \in live /\ span[o].kind = "lent"
      BY <1>a, <2>2
    <3>2. LentAt(o) /\ span[o].owner \in 1 .. Depth
      BY <3>1 DEF IInv, RotationOK, HandleOK, HandleAt
    <3> QED BY <1>1, <1>a, <3>1, <3>2 DEF LentAt
  <2> QED BY <1>1, <2>1, <2>2 DEF RotationOK
<1>8. Disjoint'
  <2>1. \A k \in live : span[k].lo < span[k].hi => span[k].hi <= h.lo
    BY <1>0, <1>b, BelowTop
  <2> SUFFICES ASSUME NEW p \in live', NEW q \in live', p # q,
                      span'[p].lo < span'[p].hi, span'[q].lo < span'[q].hi
               PROVE  span'[p].hi <= span'[q].lo \/ span'[q].hi <= span'[p].lo
    BY DEF Disjoint
  <2>2. CASE p = i
    BY <1>a, <2>1, <2>2
  <2>3. CASE q = i
    BY <1>a, <2>1, <2>3
  <2>4. CASE p \in live /\ q \in live
    BY <1>a, <2>4 DEF IInv, Disjoint
  <2> QED BY <2>2, <2>3, <2>4
<1> QED BY <1>4, <1>5, <1>6, <1>7, <1>8 DEF IInv

(* One handle changes its kind or its bounds within the range it had.      *)
LEMMA Resize ==
  ASSUME IInv, NEW i \in live, NEW h \in Handle,
         h.owner = span[i].owner, h.lo = span[i].lo, h.elem = span[i].elem,
         h.lo <= h.used, h.used <= h.hi, h.hi <= span[i].hi,
         \/ h.kind = span[i].kind /\ h.kind # "lent"
         \/ {h.kind, span[i].kind} \subseteq {"vec", "span"},
         span' = [span EXCEPT ![i] = h], live' = live, stack' = stack,
         offset' = offset, mem' \in [Addrs -> Bytes], aborted' = aborted
  PROVE  IInv'
<1> USE Types
<1>0. h.lo \in Nat /\ h.hi \in Nat /\ h.used \in Nat
  BY DEF Handle
<1>1. Depth' = Depth /\ \A d \in 1 .. Depth : Ceil(d)' = Ceil(d)
  BY DEF Ceil, Depth
<1>2. span'[i] = h /\ \A k \in live : k # i => span'[k] = span[k]
  OBVIOUS
<1>3. TypeOK'
  BY DEF TypeOK, IInv
<1>4. StackOK'
  <2> SUFFICES ASSUME NEW d \in 1 .. Depth PROVE StackAt(d)'
    BY <1>1 DEF StackOK
  <2>1. StackAt(d)
    BY DEF IInv, StackOK
  <2>2. ASSUME stack[d].kind \in {"builder", "reserve"}
        PROVE  /\ span'[stack[d].i].kind = "open" /\ span'[stack[d].i].owner = d
               /\ span'[stack[d].i].hi <= Ceil(d)
    <3>1. CASE stack[d].i = i
      <4>1. Ceil(d) \in Nat
        BY DEF Ceil, Depth
      <4> QED BY <1>0, <1>2, <2>1, <2>2, <3>1, <4>1 DEF StackAt
    <3>2. CASE stack[d].i # i
      BY <1>2, <2>1, <2>2, <3>2 DEF StackAt
    <3> QED BY <3>1, <3>2
  <2> QED BY <1>1, <2>1, <2>2 DEF StackAt
<1>5. HandleOK'
  <2> SUFFICES ASSUME NEW k \in live PROVE HandleAt(k)'
    BY DEF HandleOK
  <2>1. HandleAt(k) /\ span[k].owner \in 1 .. Depth
    BY DEF IInv, HandleOK, HandleAt
  <2>2. CASE k # i
    BY <1>1, <1>2, <2>1, <2>2 DEF HandleAt
  <2>3. CASE k = i
    <3>1. Ceil(span[k].owner) \in Nat
      BY <2>1 DEF Ceil, Depth
    <3> QED BY SMTT(60), <1>0, <1>1, <1>2, <2>1, <2>3, <3>1 DEF HandleAt
  <2> QED BY <2>2, <2>3
<1>6. RotationOK'
  <2>1. ASSUME NEW d \in 1 .. Depth, stack[d].kind = "replace2"
        PROVE  RotationAt(d)'
    <3>1. RotationAt(d)
      BY <2>1 DEF IInv, RotationOK
    <3>2. stack[d].i # i /\ stack[d].j # i
      BY <3>1 DEF RotationAt
    <3>3. /\ span'[stack[d].i] = span[stack[d].i]
          /\ span'[stack[d].j] = span[stack[d].j]
      BY <1>2, <3>1, <3>2 DEF RotationAt
    <3>4. \A o \in live : span'[o].owner = span[o].owner /\ span'[o].hi <= span[o].hi
      BY <1>0, <1>2
    <3>5. ASSUME NEW o \in live, span'[o].owner = d - 1, o # stack[d].i, o # stack[d].j
          PROVE  span'[o].hi <= span[stack[d].i].lo
      <4>1. span[o].hi <= span[stack[d].i].lo
        BY <3>1, <3>4, <3>5 DEF RotationAt
      <4>2. span'[o].hi \in Nat /\ stack[d].i \in Ids
        BY <1>0, <1>2, <3>1 DEF RotationAt
      <4> QED BY <3>4, <4>1, <4>2
    <3> QED BY <3>1, <3>3, <3>5 DEF RotationAt
  <2>2. ASSUME NEW o \in live, span'[o].kind = "lent"
        PROVE  LentAt(o)'
    <3>1. o # i
      BY <1>2, <2>2
    <3>2. LentAt(o)
      BY <1>2, <2>2, <3>1 DEF IInv, RotationOK
    <3> QED BY <1>1, <1>2, <3>1, <3>2 DEF LentAt
  <2> QED BY <1>1, <2>1, <2>2 DEF RotationOK
<1>7. Disjoint'
  <2> SUFFICES ASSUME NEW p \in live, NEW q \in live, p # q,
                      span'[p].lo < span'[p].hi, span'[q].lo < span'[q].hi
               PROVE  span'[p].hi <= span'[q].lo \/ span'[q].hi <= span'[p].lo
    BY DEF Disjoint
  <2>1. \A k \in live : span'[k].lo = span[k].lo /\ span'[k].hi <= span[k].hi /\ span'[k].hi \in Nat
    BY <1>0, <1>2
  <2> QED BY SMTT(60), <2>1 DEF IInv, Disjoint
<1> QED BY <1>3, <1>4, <1>5, <1>6, <1>7 DEF IInv

(* The builder on top grows or shrinks together with the offset.           *)
LEMMA BuilderResize ==
  ASSUME IInv, Inside({"builder"}), NEW h \in Handle,
         h.owner = span[Top.i].owner, h.lo = span[Top.i].lo,
         h.elem = span[Top.i].elem, h.kind = "open",
         h.lo <= h.used, h.used <= h.hi, h.hi <= offset', offset' \in Offsets,
         span' = [span EXCEPT ![Top.i] = h], live' = live, stack' = stack,
         mem' \in [Addrs -> Bytes], aborted' = aborted
  PROVE  IInv'
<1> USE Types
<1>0. /\ h.lo \in Nat /\ h.hi \in Nat /\ h.used \in Nat /\ offset' \in Nat
      /\ Depth > 0 /\ Top = stack[Depth] /\ Top.kind = "builder"
  BY ArenaAssumption DEF Handle, Offsets, Inside, Top, Depth
<1>1. /\ Depth' = Depth /\ Ceil(Depth)' = offset'
      /\ \A d \in 1 .. Depth : d # Depth => Ceil(d)' = Ceil(d)
  BY DEF Ceil, Depth
<1>2. /\ Top.i \in live /\ span[Top.i].kind = "open" /\ span[Top.i].owner = Depth
  BY <1>0 DEF IInv, StackOK, StackAt
<1>3. span'[Top.i] = h /\ \A k \in live : k # Top.i => span'[k] = span[k]
  BY <1>2
<1>4. \A k \in live : k # Top.i => span[k].owner \in 1 .. Depth /\ span[k].owner # Depth
  BY <1>0, <1>2 DEF IInv, HandleOK, HandleAt, Frames
<1>5. /\ stack[Depth].saved <= h.lo
      /\ h.lo % h.elem.align = 0 /\ h.elem \in Elems
  BY <1>0, <1>2 DEF IInv, HandleOK, HandleAt
<1>6. TypeOK'
  BY <1>2 DEF TypeOK, IInv
<1>7. StackOK'
  <2> SUFFICES ASSUME NEW d \in 1 .. Depth PROVE StackAt(d)'
    BY <1>1 DEF StackOK
  <2>1. StackAt(d)
    BY DEF IInv, StackOK
  <2>2. stack[d].saved <= offset'
    <3>1. stack[d].saved <= stack[Depth].saved
      BY <2>1 DEF StackAt
    <3> QED BY SMTT(60), <1>0, <1>5, <3>1
  <2>3. CASE d = Depth
    BY <1>0, <1>1, <1>2, <1>3, <2>1, <2>2, <2>3 DEF StackAt
  <2>4. CASE d # Depth
    <3>1. stack[d].kind \in {"builder", "reserve"} => stack[d].i # Top.i
      BY <1>2, <2>1, <2>4 DEF StackAt
    <3> QED BY <1>1, <1>3, <2>1, <2>2, <2>4, <3>1 DEF StackAt
  <2> QED BY <2>3, <2>4
<1>8. HandleOK'
  <2> SUFFICES ASSUME NEW k \in live PROVE HandleAt(k)'
    BY DEF HandleOK
  <2>1. HandleAt(k)
    BY DEF IInv, HandleOK
  <2>2. CASE k # Top.i
    BY <1>1, <1>3, <1>4, <2>1, <2>2 DEF HandleAt
  <2>3. CASE k = Top.i
    <3>1. h.elem.align \in {1, 2, 4, 8, 16}
      BY DEF Handle, Elem
    <3>2. offset' <= AlignUp(offset', h.elem.align) /\ AlignUp(offset', h.elem.align) \in Nat
      BY <1>0, <3>1, AlignUpFacts
    <3>3. Depth \in 1 .. Depth
      BY <1>0
    <3> QED BY SMTT(60), <1>0, <1>1, <1>2, <1>3, <1>5, <2>3, <3>2, <3>3 DEF HandleAt
  <2> QED BY <2>2, <2>3
<1>9. RotationOK'
  <2>1. ASSUME NEW d \in 1 .. Depth, stack[d].kind = "replace2"
        PROVE  RotationAt(d)'
    <3>1. RotationAt(d) /\ d # Depth
      BY <1>0, <2>1 DEF IInv, RotationOK
    <3>2. stack[d].i # Top.i /\ stack[d].j # Top.i
      BY <1>2, <3>1 DEF RotationAt
    <3> QED BY <1>2, <1>3, <3>1, <3>2 DEF RotationAt
  <2>2. ASSUME NEW o \in live, span'[o].kind = "lent"
        PROVE  LentAt(o)'
    <3>1. o # Top.i
      BY <1>3, <2>2
    <3>2. LentAt(o)
      BY <1>3, <2>2, <3>1 DEF IInv, RotationOK
    <3> QED BY <1>1, <1>3, <3>1, <3>2 DEF LentAt
  <2> QED BY <1>1, <2>1, <2>2 DEF RotationOK
<1>10. Disjoint'
  <2>1. ASSUME NEW k \in live, k # Top.i, span[k].lo < span[k].hi
        PROVE  span[k].hi <= h.lo
    <3>1. span[k].owner < Depth /\ Depth \in 1 .. Depth
      BY <1>0, <1>4, <2>1
    <3>2. span[k].hi <= stack[Depth].saved
      BY <2>1, <3>1, BelowTop
    <3>3. span[k].hi \in Nat /\ stack[Depth].saved \in Nat
      BY <3>1
    <3> QED BY <1>0, <1>5, <3>2, <3>3
  <2> SUFFICES ASSUME NEW p \in live, NEW q \in live, p # q,
                      span'[p].lo < span'[p].hi, span'[q].lo < span'[q].hi
               PROVE  span'[p].hi <= span'[q].lo \/ span'[q].hi <= span'[p].lo
    BY DEF Disjoint
  <2>2. CASE p = Top.i
    BY <1>3, <2>1, <2>2
  <2>3. CASE q = Top.i
    BY <1>3, <2>1, <2>3
  <2>4. CASE p # Top.i /\ q # Top.i
    BY <1>3, <2>4 DEF IInv, Disjoint
  <2> QED BY <2>2, <2>3, <2>4
<1> QED BY <1>6, <1>7, <1>8, <1>9, <1>10 DEF IInv

(* The innermost activation ends.  Its handles and those in D (the old     *)
(* spans of a replace2) die, except those in K, which pass to the frame    *)
(* below.  floor separates what survives from what is passed down.         *)
Popped(K, D, floor) ==
  /\ stack' = Pop /\ offset' \in Offsets /\ floor <= offset'
  /\ mem' \in [Addrs -> Bytes] /\ span' \in [Ids -> Handle]
  /\ live' \subseteq Ids /\ aborted' = aborted
  /\ \A k \in live' : k \notin K => /\ k \in live /\ span'[k] = span[k]
                                   /\ span[k].owner # Depth /\ k \notin D
  /\ \A k \in live : span[k].owner # Depth /\ k \notin D => k \in live'

(* The two old spans of a replace2 go, and only those.                     *)
Dropped(D) == D = IF Top.kind = "replace2" THEN {Top.i, Top.j} ELSE {}

(* What stays behind lies below floor.                                     *)
Remains(D, floor) ==
  /\ \A d \in 1 .. Depth - 1 : stack[d].saved <= floor
  /\ \A k \in live : span[k].owner # Depth /\ k \notin D =>
       /\ span[k].lo < span[k].hi => span[k].hi <= floor
       /\ span[k].owner = Depth - 1 =>
            /\ span[k].lo <= AlignUp(offset', span[k].elem.align)
            /\ span[k].kind = "open" => span[k].hi <= floor

(* What is passed down lies between floor and the new offset.              *)
Passed(K, floor) ==
  /\ \A k \in K : /\ k \in live' /\ Depth > 1 /\ stack[Depth - 1].kind \in Frames
                  /\ k \in live => span[k].owner = Depth
                  /\ span'[k].owner = Depth - 1 /\ span'[k].kind = "span"
                  /\ span'[k].elem \in Elems
                  /\ span'[k].lo % span'[k].elem.align = 0
                  /\ floor <= span'[k].lo /\ span'[k].lo <= span'[k].used
                  /\ span'[k].used <= span'[k].hi /\ span'[k].hi <= offset'
  /\ \A p, q \in K : p # q => span'[p].hi <= span'[q].lo \/ span'[q].hi <= span'[p].lo

(* An activation ends: whatever K it passes down and whatever else of D    *)
(* dies with it, the invariant holds if the rest lies below floor.         *)
LEMMA PopTo ==
  ASSUME IInv, Depth > 0, NEW K, NEW D, NEW floor \in Nat,
         Popped(K, D, floor), Dropped(D), Remains(D, floor), Passed(K, floor)
  PROVE  IInv'
<1> USE DEF Popped, Dropped, Remains, Passed
<1> USE Types
<1>0. /\ Depth \in Nat /\ Depth > 0 /\ offset' \in Nat /\ Top = stack[Depth]
      /\ Depth - 1 \in Nat
  BY ArenaAssumption DEF Offsets, Top, Depth
<1>1. /\ stack' \in Seq(Activation) /\ Depth' = Depth - 1
      /\ \A d \in 1 .. Depth - 1 : stack'[d] = stack[d]
  BY PopFacts DEF Depth
<1>2. /\ \A d \in Nat : d = Depth - 1 => Ceil(d)' = offset'
      /\ \A d \in 1 .. Depth - 1 : d # Depth - 1 => Ceil(d)' = Ceil(d)
  <2>1. ASSUME NEW d \in Nat, d = Depth - 1 PROVE Ceil(d)' = offset'
    BY <1>1, <2>1 DEF Ceil
  <2>2. ASSUME NEW d \in 1 .. Depth - 1, d # Depth - 1 PROVE Ceil(d)' = Ceil(d)
    <3>1. d # Depth /\ d + 1 \in 1 .. Depth - 1
      BY <1>0, <2>2
    <3> QED BY <1>1, <2>2, <3>1 DEF Ceil
  <2> QED BY <2>1, <2>2
<1>3. \A k \in live' : /\ span'[k].lo \in Nat /\ span'[k].hi \in Nat /\ span'[k].used \in Nat
                       /\ span'[k].elem \in Elem /\ span'[k].elem.align \in {1, 2, 4, 8, 16}
  BY DEF Handle, Elem
<1>4. TypeOK'
  BY <1>1 DEF TypeOK, IInv
<1>5. StackOK'
  <2> SUFFICES ASSUME NEW d \in 1 .. Depth - 1 PROVE StackAt(d)'
    BY <1>1 DEF StackOK
  <2>1. d \in 1 .. Depth /\ StackAt(d) /\ stack'[d] = stack[d]
    BY <1>0, <1>1 DEF IInv, StackOK
  <2>2. stack'[d].saved <= offset'
    BY <1>0, <2>1
  <2>3. \A e \in d .. Depth - 1 : stack'[d].saved <= stack'[e].saved
    BY <1>0, <1>1, <2>1 DEF StackAt
  <2>4. stack[d].kind # "builder"
    BY <1>0, <2>1 DEF StackAt
  <2>5. stack[d].kind # "scope" => d > 1 /\ stack'[d - 1].kind \in Frames
    BY SMTT(60), <1>0, <1>1, <2>1 DEF StackAt
  <2>6. ASSUME stack[d].kind \in {"builder", "reserve"}
        PROVE  /\ stack[d].i \in live' /\ span'[stack[d].i].kind = "open"
               /\ span'[stack[d].i].owner = d /\ span'[stack[d].i].hi <= Ceil(d)'
    <3> DEFINE k == stack[d].i
    <3>1. k \in live /\ span[k].kind = "open" /\ span[k].owner = d /\ span[k].hi <= Ceil(d)
      BY <2>1, <2>6 DEF StackAt
    <3>2. k \notin D
      <4>1. Top.kind = "replace2" => span[Top.i].kind = "lent" /\ span[Top.j].kind = "lent"
        BY <1>0 DEF IInv, RotationOK, RotationAt
      <4> QED BY <3>1, <4>1
    <3>3. k \in live' /\ span'[k] = span[k]
      BY <1>0, <3>1, <3>2
    <3>4. CASE d = Depth - 1
      <4>1. span[k].hi <= floor
        BY SMTT(60), <1>0, <3>1, <3>2, <3>4
      <4> QED BY <1>0, <1>2, <3>1, <3>3, <3>4, <4>1
    <3>5. CASE d # Depth - 1
      BY <1>2, <3>1, <3>3, <3>5
    <3> QED BY <3>4, <3>5
  <2> QED BY <1>1, <2>1, <2>2, <2>3, <2>4, <2>5, <2>6 DEF StackAt
<1>6. HandleOK'
  <2> SUFFICES ASSUME NEW k \in live' PROVE HandleAt(k)'
    BY DEF HandleOK
  <2>1. CASE k \in K
    <3>1. Depth - 1 \in 1 .. Depth - 1 /\ stack'[Depth - 1] = stack[Depth - 1]
      BY SMTT(60), <1>0, <1>1, <2>1
    <3>2. span'[k].owner = Depth - 1 /\ Ceil(span[k].owner)' = offset'
      BY <1>0, <1>1, <2>1 DEF Ceil
    <3>3. offset' <= AlignUp(offset', span'[k].elem.align)
          /\ AlignUp(offset', span'[k].elem.align) \in Nat
      BY <1>0, <1>3, AlignUpFacts
    <3>4. stack'[Depth - 1].saved <= span'[k].lo
      <4>1. stack[Depth - 1].saved <= floor /\ stack[Depth - 1].saved \in Nat
        BY <3>1, <1>0
      <4> QED BY <1>3, <2>1, <3>1, <4>1
    <3> QED BY SMTT(60), <1>0, <1>1, <1>3, <2>1, <3>1, <3>2, <3>3, <3>4 DEF HandleAt
  <2>2. CASE k \notin K
    <3>1. /\ k \in live /\ span'[k] = span[k] /\ HandleAt(k) /\ k \notin D
          /\ span[k].owner \in 1 .. Depth - 1
      BY <1>0, <2>2 DEF IInv, HandleOK, HandleAt
    <3>2. CASE span[k].owner = Depth - 1
      <4>1. Ceil(span[k].owner)' = offset'
        BY <1>0, <1>1, <3>1, <3>2 DEF Ceil
      <4>2. span[k].lo < span[k].hi => span[k].hi <= offset'
        BY <1>0, <3>1
      <4> QED BY <1>1, <3>1, <3>2, <4>1, <4>2 DEF HandleAt
    <3>3. CASE span[k].owner # Depth - 1
      BY <1>1, <1>2, <3>1, <3>3 DEF HandleAt
    <3> QED BY <3>2, <3>3
  <2> QED BY <2>1, <2>2
<1>7. RotationOK'
  <2>1. ASSUME NEW d \in 1 .. Depth - 1, stack[d].kind = "replace2"
        PROVE  RotationAt(d)'
    <3> DEFINE i == stack[d].i
               j == stack[d].j
    <3>1. RotationAt(d) /\ d \in 1 .. Depth /\ stack'[d] = stack[d]
      BY <1>0, <1>1, <2>1 DEF IInv, RotationOK
    <3>2. /\ i \in live /\ j \in live /\ span[i].owner = d - 1 /\ span[j].owner = d - 1
      BY <3>1 DEF RotationAt
    <3>3. i \notin D /\ j \notin D
      <4>1. Top.kind = "replace2" => /\ span[Top.i].owner = Depth - 1
                                     /\ span[Top.j].owner = Depth - 1
        BY <1>0 DEF IInv, RotationOK, RotationAt
      <4>2. d - 1 # Depth - 1
        BY <1>0
      <4> QED BY <3>2, <4>1, <4>2
    <3>4. /\ i \in live' /\ j \in live' /\ span'[i] = span[i] /\ span'[j] = span[j]
      BY <1>0, <3>2, <3>3
    <3>5. ASSUME NEW o \in live', span'[o].owner = d - 1, o # i, o # j
          PROVE  span'[o].hi <= span'[i].lo
      <4>1. o \notin K
        BY <1>0, <3>5
      <4>2. o \in live /\ span'[o] = span[o]
        BY <4>1
      <4> QED BY <3>1, <3>4, <3>5, <4>2 DEF RotationAt
    <3> QED BY <3>1, <3>4, <3>5 DEF RotationAt
  <2>2. ASSUME NEW o \in live', span'[o].kind = "lent"
        PROVE  LentAt(o)'
    <3>1. o \in live /\ span'[o] = span[o] /\ o \notin D /\ span[o].owner # Depth
      BY <2>2
    <3>2. LentAt(o) /\ span[o].owner \in 1 .. Depth
      BY <2>2, <3>1 DEF IInv, RotationOK, HandleOK, HandleAt
    <3>3. span[o].owner + 1 # Depth
      BY <1>0, <3>1, <3>2 DEF LentAt
    <3>4. span[o].owner + 1 \in 1 .. Depth - 1
      <4>1. span[o].owner < Depth
        BY <1>0, <3>1, <3>2
      <4> QED BY <1>0, <3>2, <3>3, <4>1
    <3> QED BY <1>0, <1>1, <3>1, <3>2, <3>4 DEF LentAt
  <2> QED BY <1>1, <2>1, <2>2 DEF RotationOK
<1>8. Disjoint'
  <2> SUFFICES ASSUME NEW p \in live', NEW q \in live', p # q,
                      span'[p].lo < span'[p].hi, span'[q].lo < span'[q].hi
               PROVE  span'[p].hi <= span'[q].lo \/ span'[q].hi <= span'[p].lo
    BY DEF Disjoint
  <2>1. \A k \in live' : k \notin K /\ span'[k].lo < span'[k].hi => span'[k].hi <= floor
    OBVIOUS
  <2>2. CASE p \in K /\ q \in K
    BY <2>2
  <2>3. CASE p \in K /\ q \notin K
    BY <1>3, <2>1, <2>3
  <2>4. CASE p \notin K /\ q \in K
    BY <1>3, <2>1, <2>4
  <2>5. CASE p \notin K /\ q \notin K
    BY <2>5 DEF IInv, Disjoint
  <2> QED BY <2>2, <2>3, <2>4, <2>5
<1> QED BY <1>4, <1>5, <1>6, <1>7, <1>8 DEF IInv

(* What survives an activation lies below the offset its entry saw.        *)
LEMMA PopFloor ==
  ASSUME IInv, Depth > 0
  PROVE  /\ Top = stack[Depth] /\ Top.saved \in Nat /\ Top.saved <= offset
         /\ \A d \in 1 .. Depth - 1 : stack[d].saved <= Top.saved
         /\ \A k \in live : span[k].owner # Depth =>
              /\ span[k].lo < span[k].hi => span[k].hi <= Top.saved
              /\ span[k].owner = Depth - 1 =>
                   /\ span[k].lo <= AlignUp(Top.saved, span[k].elem.align)
                   /\ span[k].kind = "open" => span[k].hi <= Top.saved
<1> USE Types
<1>1. Depth \in 1 .. Depth /\ Top = stack[Depth] /\ Depth \in Nat
  BY DEF Top, Depth
<1>2. Top.saved \in Nat /\ Top.saved <= offset
  BY <1>1 DEF IInv, StackOK, StackAt
<1>3. \A d \in 1 .. Depth - 1 : stack[d].saved <= Top.saved
  BY <1>1 DEF IInv, StackOK, StackAt
<1>4. ASSUME NEW k \in live, span[k].owner # Depth
      PROVE  /\ span[k].lo < span[k].hi => span[k].hi <= Top.saved
             /\ span[k].owner = Depth - 1 =>
                  /\ span[k].lo <= AlignUp(Top.saved, span[k].elem.align)
                  /\ span[k].kind = "open" => span[k].hi <= Top.saved
  <2>1. HandleAt(k) /\ span[k].owner \in 1 .. Depth
    BY DEF IInv, HandleOK, HandleAt
  <2>2. span[k].lo < span[k].hi => span[k].hi <= Top.saved
    BY <1>1, <1>4, <2>1, BelowTop
  <2>3. span[k].owner = Depth - 1 => Ceil(span[k].owner) = Top.saved
    BY <1>1 DEF Ceil
  <2>4. ASSUME span[k].owner = Depth - 1, span[k].kind = "open"
        PROVE  span[k].hi <= Top.saved
    <3>1. /\ stack[span[k].owner].kind \in {"builder", "reserve"}
          /\ stack[span[k].owner].i = k
      BY <2>1, <2>4 DEF HandleAt
    <3>2. span[k].hi <= Ceil(span[k].owner)
      BY <2>1, <3>1 DEF IInv, StackOK, StackAt
    <3> QED BY <2>3, <2>4, <3>2
  <2> QED BY <2>1, <2>2, <2>3, <2>4 DEF HandleAt
<1> QED BY <1>1, <1>2, <1>3, <1>4

(* A builder or a reserve owns exactly the handle it is filling.           *)
LEMMA OpenFacts ==
  ASSUME IInv, Inside({"builder", "reserve"})
  PROVE  /\ Depth > 1 /\ Top = stack[Depth] /\ stack[Depth - 1].kind \in Frames
         /\ Top.i \in live /\ Top.i \in Ids /\ Top.kind # "replace2"
         /\ span[Top.i].kind = "open" /\ span[Top.i].owner = Depth
         /\ span[Top.i].elem \in Elems
         /\ span[Top.i].lo % span[Top.i].elem.align = 0
         /\ Top.saved <= span[Top.i].lo
         /\ span[Top.i].lo <= span[Top.i].used
         /\ span[Top.i].used <= span[Top.i].hi /\ span[Top.i].hi <= offset
         /\ \A k \in live : span[k].owner = Depth => k = Top.i
<1> USE Types
<1>1. /\ Depth \in 1 .. Depth /\ Top = stack[Depth] /\ Depth \in Nat
      /\ Top.kind \in {"builder", "reserve"} /\ StackAt(Depth)
  BY DEF Inside, Top, Depth, IInv, StackOK
<1>2. /\ Top.i \in live /\ span[Top.i].kind = "open" /\ span[Top.i].owner = Depth
      /\ span[Top.i].hi <= offset /\ Depth > 1 /\ stack[Depth - 1].kind \in Frames
  BY <1>1 DEF StackAt, Ceil
<1>3. HandleAt(Top.i)
  BY <1>2 DEF IInv, HandleOK
<1>4. \A k \in live : span[k].owner = Depth => k = Top.i
  BY <1>1 DEF IInv, HandleOK, HandleAt, Frames
<1> QED BY <1>1, <1>2, <1>3, <1>4 DEF HandleAt

(* The floor of an activation that is no replace2 is its saved offset.     *)
LEMMA RemainsBelow ==
  ASSUME IInv, Depth > 0, offset' \in Nat, Top.saved <= offset'
  PROVE  Top.saved \in Nat /\ Remains({}, Top.saved)
<1> USE Types
<1>1. Top.saved \in Nat /\ \A d \in 1 .. Depth - 1 : stack[d].saved <= Top.saved
  BY PopFloor
<1>2. ASSUME NEW k \in live, span[k].owner # Depth
      PROVE  /\ span[k].lo < span[k].hi => span[k].hi <= Top.saved
             /\ span[k].owner = Depth - 1 =>
                  /\ span[k].lo <= AlignUp(offset', span[k].elem.align)
                  /\ span[k].kind = "open" => span[k].hi <= Top.saved
  <2>1. /\ AlignUp(Top.saved, span[k].elem.align) <= AlignUp(offset', span[k].elem.align)
        /\ AlignUp(Top.saved, span[k].elem.align) \in Nat
        /\ AlignUp(offset', span[k].elem.align) \in Nat
    BY <1>1, AlignUpMono, AlignUpFacts
  <2> QED BY <1>2, <2>1, PopFloor
<1> QED BY <1>1, <1>2 DEF Remains

(* The bytes of n elements are a natural number.                           *)
LEMMA MulNat ==
  ASSUME NEW n \in Nat, NEW b \in Nat
  PROVE  n * b \in Nat
OBVIOUS

----------------------------------------------------------------------------
(* One lemma per group of actions                                          *)

(* ScopeGuard::drop preserves the invariant.                               *)
LEMMA CloseScopeInv ==
  ASSUME IInv, CloseScope, aborted' = aborted
  PROVE  IInv'
<1> USE Types
<1>1. Depth > 0 /\ Top.kind = "scope"
  BY DEF CloseScope, Inside
<1>2. /\ stack' = Pop /\ offset' = Top.saved
      /\ live' = live \ Owned(Depth) /\ span' = Blanked(span, Owned(Depth))
      /\ mem' = Rewind(mem, Top.saved)
  BY DEF CloseScope, Release
<1>3. /\ offset' \in Offsets /\ Top.saved \in Nat /\ offset' \in Nat
      /\ Top.saved <= offset'
  BY <1>1, <1>2, PopFloor DEF Offsets
<1>4. mem' \in [Addrs -> Bytes]
  BY <1>2, <1>3, RewindTyping DEF IInv, TypeOK
<1>5. span' \in [Ids -> Handle]
  BY <1>2 DEF Blanked, Blank, Handle, Elem
<1>6. Popped({}, {}, Top.saved)
  BY <1>2, <1>3, <1>4, <1>5 DEF Popped, Owned, Blanked
<1>7. Dropped({}) /\ Passed({}, Top.saved)
  BY <1>1 DEF Dropped, Passed
<1> QED BY <1>1, <1>3, <1>6, <1>7, RemainsBelow, PopTo

(* So does the end of span, where the builder becomes an FSpan.            *)
LEMMA EndSpanInv ==
  ASSUME IInv, EndSpan, aborted' = aborted
  PROVE  IInv'
<1> USE Types
<1>1. Depth > 0 /\ Inside({"builder", "reserve"}) /\ Top.kind # "replace2"
  BY DEF EndSpan, Inside
<1>a. Top.i \in Ids /\ Top.i \in live
  BY <1>1, OpenFacts
<1>2. /\ stack' = Pop /\ offset' = offset /\ live' = live /\ mem' = mem
      /\ span' = [span EXCEPT ![Top.i].kind = "span", ![Top.i].owner = Depth - 1]
  BY DEF EndSpan
<1>3. /\ offset' \in Offsets /\ mem' \in [Addrs -> Bytes] /\ offset' \in Nat
      /\ Top.saved <= offset'
  BY <1>1, <1>2, PopFloor DEF IInv, TypeOK
<1>4. /\ \A k \in Ids : k # Top.i => span'[k] = span[k]
      /\ span[Top.i] \in Handle /\ Depth - 1 \in Nat
  BY <1>1, <1>2, <1>a
<1>5. span' \in [Ids -> Handle]
  BY <1>a, <1>2, <1>4 DEF Handle
<1>6. Popped({Top.i}, {}, Top.saved)
  BY <1>1, <1>2, <1>3, <1>4, <1>5, OpenFacts DEF Popped
<1>7. /\ span'[Top.i].kind = "span" /\ span'[Top.i].owner = Depth - 1
      /\ span'[Top.i].lo = span[Top.i].lo /\ span'[Top.i].hi = span[Top.i].hi
      /\ span'[Top.i].used = span[Top.i].used /\ span'[Top.i].elem = span[Top.i].elem
  BY <1>a, <1>2, <1>4 DEF Handle
<1>8. Dropped({}) /\ Passed({Top.i}, Top.saved)
  BY <1>1, <1>2, <1>7, OpenFacts DEF Dropped, Passed
<1> QED BY <1>1, <1>3, <1>6, <1>8, RemainsBelow, PopTo

(* So does FReserve::freeze, which gives its tail back.                    *)
LEMMA FreezeInv ==
  ASSUME IInv, Freeze, aborted' = aborted
  PROVE  IInv'
<1> USE Types
<1> DEFINE u == span[Top.i].used
<1>1. Depth > 0 /\ Inside({"builder", "reserve"}) /\ Top.kind # "replace2"
  BY DEF Freeze, Inside
<1>a. Top.i \in Ids /\ Top.i \in live /\ u \in Nat
  BY <1>1, OpenFacts
<1>2. /\ stack' = Pop /\ offset' = u /\ live' = live /\ mem' = Rewind(mem, u)
      /\ span' = [span EXCEPT ![Top.i].kind = "span", ![Top.i].hi = u,
                              ![Top.i].owner = Depth - 1]
  BY DEF Freeze
<1>3. offset' \in Offsets /\ offset' \in Nat /\ Top.saved <= offset'
  BY SMTT(60), <1>1, <1>2, <1>a, PopFloor, OpenFacts DEF Offsets
<1>b. mem' \in [Addrs -> Bytes]
  BY <1>2, <1>a, RewindTyping DEF IInv, TypeOK
<1>4. /\ \A k \in Ids : k # Top.i => span'[k] = span[k]
      /\ span[Top.i] \in Handle /\ Depth - 1 \in Nat
  BY <1>1, <1>2, <1>a
<1>5. span' \in [Ids -> Handle]
  BY <1>a, <1>2, <1>4 DEF Handle
<1>6. Popped({Top.i}, {}, Top.saved)
  BY <1>1, <1>2, <1>3, <1>b, <1>4, <1>5, OpenFacts DEF Popped
<1>7. /\ span'[Top.i].kind = "span" /\ span'[Top.i].owner = Depth - 1
      /\ span'[Top.i].lo = span[Top.i].lo /\ span'[Top.i].hi = u
      /\ span'[Top.i].used = u /\ span'[Top.i].elem = span[Top.i].elem
  BY <1>a, <1>2, <1>4 DEF Handle
<1>8. Dropped({}) /\ Passed({Top.i}, Top.saved)
  <2>1. Dropped({})
    BY <1>1 DEF Dropped
  <2>2. /\ Top.i \in live' /\ Depth > 1 /\ stack[Depth - 1].kind \in Frames
        /\ span[Top.i].owner = Depth
    BY <1>2, <1>1, OpenFacts
  <2>3. /\ span'[Top.i].elem \in Elems
        /\ span'[Top.i].lo % span'[Top.i].elem.align = 0
        /\ Top.saved <= span'[Top.i].lo /\ span'[Top.i].lo <= span'[Top.i].used
    BY <1>1, <1>7, OpenFacts
  <2>4. span'[Top.i].used <= span'[Top.i].hi /\ span'[Top.i].hi <= offset'
    BY <1>2, <1>7, <1>a
  <2>5. Passed({Top.i}, Top.saved)
    BY <1>7, <2>2, <2>3, <2>4 DEF Passed
  <2> QED BY <2>1, <2>5
<1> QED BY <1>1, <1>3, <1>6, <1>8, RemainsBelow, PopTo

(* So does dropping an FReserve that was not frozen.                       *)
LEMMA DropReserveInv ==
  ASSUME IInv, DropReserve, aborted' = aborted
  PROVE  IInv'
<1> USE Types
<1> DEFINE o == span[Top.i].lo
<1>1. Depth > 0 /\ Inside({"builder", "reserve"}) /\ Top.kind # "replace2"
  BY DEF DropReserve, Inside
<1>a. Top.i \in Ids /\ Top.i \in live /\ o \in Nat
  BY <1>1, OpenFacts
<1>2. /\ stack' = Pop /\ offset' = o /\ live' = live \ {Top.i} /\ mem' = Rewind(mem, o)
      /\ span' = Blanked(span, {Top.i})
  BY DEF DropReserve
<1>3. offset' \in Offsets /\ offset' \in Nat /\ Top.saved <= offset'
  BY <1>1, <1>2, <1>a, PopFloor, OpenFacts DEF Offsets
<1>4. mem' \in [Addrs -> Bytes]
  BY <1>2, <1>a, RewindTyping DEF IInv, TypeOK
<1>5. span' \in [Ids -> Handle]
  BY <1>2 DEF Blanked, Blank, Handle, Elem
<1>6. Popped({}, {}, Top.saved)
  BY <1>1, <1>2, <1>3, <1>4, <1>5, OpenFacts DEF Popped, Blanked
<1>7. Dropped({}) /\ Passed({}, Top.saved)
  BY <1>1 DEF Dropped, Passed
<1> QED BY <1>1, <1>3, <1>6, <1>7, RemainsBelow, PopTo

(* So does compact: the slid result stays above everything older.          *)
LEMMA EndCompactInv ==
  ASSUME IInv, NEW r \in Ids, EndCompact(r), aborted' = aborted
  PROVE  IInv'
<1> USE Types
<1> DEFINE h == span[r]
           b == h.used - h.lo
           dst == AlignUp(Top.saved, h.elem.align)
<1>1. /\ Depth > 0 /\ Depth \in 1 .. Depth /\ Top = stack[Depth] /\ Top.kind = "compact"
      /\ r \in live /\ h.owner = Depth /\ h.kind = "span"
  BY DEF EndCompact, Inside, Owned, Top, Depth
<1>2. /\ Depth > 1 /\ stack[Depth - 1].kind \in Frames /\ Depth - 1 \in Nat
  BY <1>1 DEF IInv, StackOK, StackAt
<1>3. /\ HandleAt(r) /\ h \in Handle /\ Top.saved <= h.lo /\ h.lo <= h.used
      /\ h.used <= h.hi /\ h.elem \in Elems /\ h.lo % h.elem.align = 0
  BY <1>1 DEF IInv, HandleOK, HandleAt
<1>4. Top.saved \in Nat /\ Top.saved <= offset
  BY <1>1, PopFloor
<1>5. /\ b \in Nat /\ dst \in Nat /\ Top.saved <= dst /\ dst % h.elem.align = 0
      /\ dst <= h.lo
  <2>1. h.lo \in Nat /\ h.used \in Nat /\ h.elem.align \in {1, 2, 4, 8, 16}
    BY <1>1
  <2>2. b \in Nat
    BY <1>3, <2>1
  <2>3. dst \in Nat /\ Top.saved <= dst /\ dst % h.elem.align = 0
    <3>1. ASSUME NEW x \in Nat, NEW a \in {1, 2, 4, 8, 16}, NEW w, w = AlignUp(x, a)
          PROVE  w \in Nat /\ x <= w /\ w % a = 0
      BY <3>1, AlignUpFacts
    <3>2. Top.saved \in Nat /\ dst = AlignUp(Top.saved, h.elem.align)
      BY <1>4
    <3> HIDE DEF dst, h
    <3> QED BY ONLY <2>1, <3>1, <3>2
  <2>4. dst <= h.lo
    BY <1>3, <1>4, <2>1, AlignUpLeast
  <2> QED BY <2>2, <2>3, <2>4
<1>6. b > 0 => h.hi <= offset
  BY <1>1, <1>3, BelowTop
<1>7. dst <= Size
  <2>1. h.elem.align \in {1, 2, 4, 8, 16} /\ Size % h.elem.align = 0
    BY <1>3, ArenaAssumption
  <2> QED BY <1>4, <2>1, AlignUpLeast
<1>8. dst + b <= Size
  <2>1. CASE b = 0
    BY <1>5, <1>7, <2>1
  <2>2. CASE b > 0
    BY <1>3, <1>5, <1>6, <2>2
  <2> QED BY <1>5, <2>1, <2>2
<1>9. /\ stack' = Pop /\ offset' = dst + b
      /\ live' = live \ (Owned(Depth) \ {r})
      /\ mem' = Rewind(CopyDown(mem, h.lo, dst, b), dst + b)
      /\ span' = [Blanked(span, Owned(Depth) \ {r}) EXCEPT ![r] = Slid(h, dst, b)]
  BY DEF EndCompact, Release
<1>10. /\ offset' \in Nat /\ offset' \in Offsets /\ Top.saved <= offset'
  BY <1>4, <1>5, <1>8, <1>9 DEF Offsets
<1>11. mem' \in [Addrs -> Bytes]
  <2>1. mem \in [Addrs -> Bytes]
    BY DEF IInv, TypeOK
  <2>2. CASE b = 0
    <3>1. CopyDown(mem, h.lo, dst, b) = mem
      BY <1>5, <2>1, <2>2 DEF CopyDown, Addrs
    <3> QED BY <1>5, <1>9, <2>1, <3>1, RewindTyping
  <2>3. CASE b > 0
    <3>1. h.lo + b <= Size
      BY <1>3, <1>6, <2>3
    <3>2. CopyDown(mem, h.lo, dst, b) \in [Addrs -> Bytes]
      BY <1>5, <2>1, <3>1, CopyTyping
    <3>3. dst + b \in Int
      BY <1>5
    <3> HIDE DEF b, dst
    <3> QED BY <1>9, <3>2, <3>3, RewindTyping
  <2> QED BY <1>5, <2>2, <2>3
<1>12. /\ span'[r] = Slid(h, dst, b)
       /\ \A k \in Ids : k # r => span'[k] = IF k \in Owned(Depth) THEN Blank ELSE span[k]
  BY <1>9 DEF Blanked
<1>13. /\ span'[r].kind = "span" /\ span'[r].owner = Depth - 1
       /\ span'[r].lo = dst /\ span'[r].hi = dst + b
       /\ span'[r].used = dst + b /\ span'[r].elem = h.elem /\ span'[r] \in Handle
  BY SMTT(60), <1>1, <1>2, <1>3, <1>5, <1>12 DEF Handle, Slid
<1>14. span' \in [Ids -> Handle]
  <2>1. Blank \in Handle
    BY DEF Blank, Handle, Elem
  <2> QED BY <1>9, <1>12, <1>13, <2>1 DEF Blanked
<1>15. Popped({r}, {}, Top.saved)
  BY <1>9, <1>10, <1>11, <1>12, <1>14 DEF Popped, Owned
<1>16. Dropped({}) /\ Passed({r}, Top.saved)
  <2>1. r \in live' /\ dst <= dst + b /\ offset' = dst + b
    BY <1>1, <1>5, <1>9
  <2> HIDE DEF b, dst
  <2> QED BY <1>1, <1>2, <1>3, <1>5, <1>13, <2>1 DEF Dropped, Passed
<1> QED BY <1>1, <1>10, <1>15, <1>16, RemainsBelow, PopTo

(* Every range lies in the buffer: a nonempty one below the offset, an     *)
(* empty one at most at the next aligned position, which SIZE bounds.      *)
LEMMA BoundsFromInv ==
  ASSUME IInv
  PROVE  InBounds
<1> USE Types
<1> SUFFICES ASSUME NEW k \in live
             PROVE  /\ 0 <= span[k].lo /\ span[k].lo <= span[k].used
                    /\ span[k].used <= span[k].hi /\ span[k].hi <= Size
  BY DEF InBounds
<1>1. /\ HandleAt(k) /\ span[k].owner \in 1 .. Depth /\ span[k].elem \in Elems
      /\ span[k].lo \in Nat /\ span[k].hi \in Nat /\ span[k].used \in Nat
      /\ span[k].elem.align \in {1, 2, 4, 8, 16}
  BY DEF IInv, HandleOK, HandleAt
<1>2. CASE span[k].lo < span[k].hi
  BY <1>1, <1>2, BelowTop DEF HandleAt
<1>3. CASE ~(span[k].lo < span[k].hi)
  <2>1. Ceil(span[k].owner) \in Nat /\ Ceil(span[k].owner) <= Size
    <3>1. CASE span[k].owner = Depth
      BY <3>1 DEF Ceil
    <3>2. CASE span[k].owner # Depth
      <4>1. span[k].owner + 1 \in 1 .. Depth
        BY <1>1, <3>2
      <4>2. stack[span[k].owner + 1].saved <= offset
        BY <4>1 DEF IInv, StackOK, StackAt
      <4> QED BY <3>2, <4>1, <4>2 DEF Ceil
    <3> QED BY <3>1, <3>2
  <2>2. Size % span[k].elem.align = 0
    BY <1>1, ArenaAssumption
  <2>3. AlignUp(Ceil(span[k].owner), span[k].elem.align) <= Size
    BY <1>1, <2>1, <2>2, AlignUpLeast
  <2>4. AlignUp(Ceil(span[k].owner), span[k].elem.align) \in Nat
    BY <1>1, <2>1, AlignUpFacts
  <2> QED BY <1>1, <1>3, <2>3, <2>4 DEF HandleAt
<1> QED BY <1>2, <1>3

(* Where the two old spans of the innermost replace2 sit.                  *)
LEMMA RotationFacts ==
  ASSUME IInv, Inside({"replace2"})
  PROVE  /\ Depth > 1 /\ Depth - 1 \in Nat /\ Top = stack[Depth] /\ Depth \in 1 .. Depth
         /\ Top.kind = "replace2" /\ stack[Depth - 1].kind \in Frames
         /\ Top.i \in live /\ Top.j \in live /\ Top.i \in Ids /\ Top.j \in Ids
         /\ span[Top.i].owner = Depth - 1 /\ span[Top.j].owner = Depth - 1
         /\ stack[Depth - 1].saved <= span[Top.i].lo
         /\ span[Top.i].lo % span[Top.i].elem.align = 0
         /\ span[Top.i].lo <= AlignUp(Top.saved, span[Top.i].elem.align)
         /\ span[Top.i].lo <= AlignUp(Top.saved, span[Top.j].elem.align)
         /\ \A k \in live : span[k].owner = Depth - 1 /\ k # Top.i /\ k # Top.j
                             => span[k].hi <= span[Top.i].lo
<1> USE Types
<1>1. /\ Depth \in 1 .. Depth /\ Top = stack[Depth] /\ Top.kind = "replace2"
      /\ StackAt(Depth) /\ RotationAt(Depth)
  BY DEF Inside, Top, Depth, IInv, StackOK, RotationOK
<1>2. Depth > 1 /\ Depth - 1 \in Nat /\ stack[Depth - 1].kind \in Frames
  BY <1>1 DEF StackAt
<1>3. /\ Top.i \in live /\ Top.j \in live
      /\ span[Top.i].owner = Depth - 1 /\ span[Top.j].owner = Depth - 1
      /\ span[Top.i].hi <= span[Top.j].lo
      /\ \A k \in live : span[k].owner = Depth - 1 /\ k # Top.i /\ k # Top.j
                             => span[k].hi <= span[Top.i].lo
  BY <1>1 DEF RotationAt
<1>4. HandleAt(Top.i) /\ HandleAt(Top.j)
  BY <1>3 DEF IInv, HandleOK
<1>5. Ceil(span[Top.i].owner) = Top.saved /\ Ceil(span[Top.j].owner) = Top.saved
  BY <1>1, <1>2, <1>3 DEF Ceil
<1>6. /\ span[Top.i].lo <= AlignUp(Top.saved, span[Top.i].elem.align)
      /\ span[Top.j].lo <= AlignUp(Top.saved, span[Top.j].elem.align)
      /\ span[Top.i].lo <= span[Top.i].hi
      /\ stack[Depth - 1].saved <= span[Top.i].lo
      /\ span[Top.i].lo % span[Top.i].elem.align = 0
  BY <1>3, <1>4, <1>5 DEF HandleAt
<1>7. span[Top.i].lo <= AlignUp(Top.saved, span[Top.j].elem.align)
  <2>1. AlignUp(Top.saved, span[Top.j].elem.align) \in Nat
    BY <1>1, <1>3, AlignUpFacts
  <2> QED BY <1>3, <1>6, <2>1
<1> QED BY <1>1, <1>2, <1>3, <1>6, <1>7

(* So does replace2: both results land above what stays and beside each    *)
(* other, whatever their alignments are.                                   *)
LEMMA EndReplace2Inv ==
  ASSUME IInv, NEW n1 \in Ids, NEW n2 \in Ids, EndReplace2(n1, n2), aborted' = aborted
  PROVE  IInv'
<1> USE Types
<1> DEFINE h1 == span[n1]
           h2 == span[n2]
           start == span[Top.i].lo
           b1 == h1.used - h1.lo
           b2 == h2.used - h2.lo
           dst == AlignUp(start + b1, h2.elem.align)
           end == dst + b2
           D == {Top.i, Top.j}
<1>1. /\ Inside({"replace2"}) /\ Depth > 0
      /\ n1 # n2 /\ n1 \in live /\ n2 \in live /\ h1.owner = Depth /\ h2.owner = Depth
      /\ h1.elem = span[Top.i].elem /\ h2.elem = span[Top.j].elem
      /\ h1.used = h1.lo \/ h2.used = h2.lo \/ h1.used <= h2.lo
  BY DEF EndReplace2, Inside, Owned
<1>2. /\ stack' = Pop /\ offset' = end
      /\ mem' = Rewind(CopyDown(CopyDown(mem, h1.lo, start, b1), h2.lo, dst, b2), end)
      /\ live' = (live \ (Owned(Depth) \ {n1, n2})) \ {Top.i, Top.j}
      /\ span' = [Blanked(span, (Owned(Depth) \ {n1, n2}) \cup {Top.i, Top.j}) EXCEPT
                     ![n1] = Slid(h1, start, b1), ![n2] = Slid(h2, dst, b2)]
  BY DEF EndReplace2, Release, RotateStart
<1>3. /\ h1.lo \in Nat /\ h1.used \in Nat /\ h2.lo \in Nat /\ h2.used \in Nat
      /\ h1.elem.align \in {1, 2, 4, 8, 16} /\ h2.elem.align \in {1, 2, 4, 8, 16}
      /\ start \in Nat /\ h1 \in Handle /\ h2 \in Handle /\ Top.saved \in Nat
  BY <1>1, RotationFacts, PopFloor
<1>4. /\ Top.saved <= h1.lo /\ Top.saved <= h2.lo /\ h1.lo <= h1.used /\ h2.lo <= h2.used
      /\ h1.lo % h1.elem.align = 0 /\ h2.lo % h2.elem.align = 0
      /\ h1.elem \in Elems /\ h2.elem \in Elems
  BY <1>1, RotationFacts DEF IInv, HandleOK, HandleAt
<1>5. b1 \in Nat /\ b2 \in Nat /\ h1.used <= Size /\ h2.used <= Size
  <2>1. InBounds
    BY BoundsFromInv
  <2>2. /\ h1.used <= h1.hi /\ h1.hi <= Size /\ h2.used <= h2.hi /\ h2.hi <= Size
        /\ h1.hi \in Nat /\ h2.hi \in Nat
    BY <1>1, <2>1 DEF InBounds
  <2> QED BY SMTT(60), <1>3, <1>4, <2>2
<1>6. start <= h1.lo /\ start <= h2.lo
  <2>1. AlignUp(Top.saved, h1.elem.align) <= h1.lo /\ AlignUp(Top.saved, h2.elem.align) <= h2.lo
    BY <1>3, <1>4, AlignUpLeast
  <2>2. AlignUp(Top.saved, h1.elem.align) \in Nat /\ AlignUp(Top.saved, h2.elem.align) \in Nat
    BY <1>3, AlignUpFacts
  <2>3. /\ start <= AlignUp(Top.saved, h1.elem.align)
        /\ start <= AlignUp(Top.saved, h2.elem.align)
    BY <1>1, RotationFacts
  <2> QED BY <1>3, <2>1, <2>2, <2>3
<1>7. start + b1 \in Nat /\ start + b1 <= Size
  <2>1. b1 = h1.used - h1.lo
    OBVIOUS
  <2> HIDE DEF b1, h1, h2, start
  <2>2. /\ b1 \in Nat /\ h1.lo \in Nat /\ h1.used \in Nat /\ start \in Nat
        /\ start <= h1.lo /\ h1.used <= Size
    BY <1>3, <1>5, <1>6
  <2>3. Size \in Nat
    BY ArenaAssumption
  <2> QED BY ONLY <2>1, <2>2, <2>3
<1>8. dst \in Nat /\ start + b1 <= dst /\ dst % h2.elem.align = 0
  <2> HIDE DEF b1, h1, h2, start
  <2>1. ASSUME NEW x \in Nat, NEW a \in {1, 2, 4, 8, 16}, NEW w, w = AlignUp(x, a)
        PROVE  w \in Nat /\ x <= w /\ w % a = 0
    BY <2>1, AlignUpFacts
  <2>2. h2.elem.align \in {1, 2, 4, 8, 16} /\ dst = AlignUp(start + b1, h2.elem.align)
    BY <1>3
  <2> HIDE DEF dst
  <2> QED BY ONLY <1>7, <2>1, <2>2
<1>9. b2 = 0 \/ dst <= h2.lo
  <2>1. CASE b2 # 0
    <3>1. start + b1 <= h2.lo
      <4>1. h1.used = h1.lo \/ h1.used <= h2.lo
        BY <1>1, <1>3, <2>1
      <4> QED BY <1>3, <1>6, <4>1
    <3> QED BY <1>3, <1>4, <1>7, <3>1, AlignUpLeast
  <2> QED BY <2>1
<1>10. end \in Nat /\ end <= Size
  <2>1. CASE b2 = 0
    <3>1. Size % h2.elem.align = 0
      BY <1>4, ArenaAssumption
    <3>2. dst <= Size
      BY <1>3, <1>7, <3>1, AlignUpLeast
    <3> QED BY <1>8, <2>1, <3>2
  <2>2. CASE b2 # 0
    <3>1. dst <= h2.lo
      BY <1>9, <2>2
    <3>2. h2.lo + b2 = h2.used
      BY <1>3
    <3> HIDE DEF dst, b1, b2, h1, h2, start
    <3> QED BY SMTT(60), <1>3, <1>5, <1>8, <3>1, <3>2
  <2> QED BY <2>1, <2>2
<1>11. /\ offset' \in Nat /\ offset' \in Offsets /\ start <= offset'
  <2> HIDE DEF dst, b1, b2
  <2> QED BY <1>2, <1>3, <1>5, <1>8, <1>10 DEF Offsets
<1>12. mem' \in [Addrs -> Bytes]
  <2>1. mem \in [Addrs -> Bytes]
    BY DEF IInv, TypeOK
  <2>2. h1.lo + b1 <= Size /\ h2.lo + b2 <= Size
    BY SMTT(60), <1>3, <1>5
  <2> HIDE DEF dst, b1, b2, h1, h2, start
  <2>3. CopyDown(mem, h1.lo, start, b1) \in [Addrs -> Bytes]
    BY <1>3, <1>5, <1>6, <2>1, <2>2, CopyTyping
  <2>4. CopyDown(CopyDown(mem, h1.lo, start, b1), h2.lo, dst, b2) \in [Addrs -> Bytes]
    BY <1>3, <1>5, <1>8, <1>9, <2>2, <2>3, CopyTyping
  <2>5. end \in Int
    BY <1>10
  <2> HIDE DEF end
  <2> QED BY <1>2, <2>4, <2>5, RewindTyping
<1>13. /\ span'[n1] = Slid(h1, start, b1) /\ span'[n2] = Slid(h2, dst, b2)
       /\ \A k \in Ids : k # n1 /\ k # n2 =>
            span'[k] = IF k \in Owned(Depth) \cup D THEN Blank ELSE span[k]
  <2> HIDE DEF dst, b1, b2, h1, h2, start
  <2> QED BY <1>1, <1>2 DEF Blanked
<1>14. /\ span'[n1].kind = "span" /\ span'[n1].owner = Depth - 1
       /\ span'[n1].lo = start /\ span'[n1].hi = start + b1
       /\ span'[n1].used = start + b1 /\ span'[n1].elem = h1.elem
       /\ span'[n2].kind = "span" /\ span'[n2].owner = Depth - 1
       /\ span'[n2].lo = dst /\ span'[n2].hi = end
       /\ span'[n2].used = end /\ span'[n2].elem = h2.elem
  <2> HIDE DEF dst, b1, b2, h1, h2, start
  <2> QED BY <1>13 DEF Slid
<1>15. span'[n1] \in Handle /\ span'[n2] \in Handle
  <2>1. Depth - 1 \in Nat /\ h1.elem \in Elem /\ h2.elem \in Elem
    BY <1>1, RotationFacts
  <2> HIDE DEF dst, b1, b2, h1, h2, start
  <2> QED BY <1>3, <1>5, <1>7, <1>8, <1>10, <1>13, <2>1 DEF Slid, Handle
<1>16. span' \in [Ids -> Handle]
  <2>1. Blank \in Handle
    BY DEF Blank, Handle, Elem
  <2>2. \A k \in Ids : span'[k] \in Handle
    BY <1>13, <1>15, <2>1
  <2>3. span' = [k \in Ids |-> span'[k]]
    BY <1>2 DEF Blanked
  <2> QED BY <2>2, <2>3
<1>17. n1 \notin D /\ n2 \notin D
  BY <1>1, RotationFacts
<1>18. Popped({n1, n2}, D, start)
  <2>1. \A k \in live' : k \notin {n1, n2} => /\ k \in live /\ span'[k] = span[k]
                                   /\ span[k].owner # Depth /\ k \notin D
    BY <1>2, <1>13 DEF Owned
  <2>2. \A k \in live : span[k].owner # Depth /\ k \notin D => k \in live'
    BY <1>2 DEF Owned
  <2>3. live' \subseteq Ids
    BY <1>2
  <2> QED BY <1>2, <1>11, <1>12, <1>16, <2>1, <2>2, <2>3 DEF Popped
<1>19. Dropped(D)
  BY <1>1, RotationFacts DEF Dropped
<1>20. Remains(D, start)
  <2>1. \A d \in 1 .. Depth - 1 : stack[d].saved <= start
    <3> TAKE d \in 1 .. Depth - 1
    <3>1. /\ d \in 1 .. Depth /\ Depth - 1 \in d .. Depth /\ Depth - 1 \in 1 .. Depth
      BY <1>1, RotationFacts
    <3>2. stack[d].saved <= stack[Depth - 1].saved
      BY <3>1 DEF IInv, StackOK, StackAt
    <3>3. stack[Depth - 1].saved <= start
      BY <1>1, RotationFacts
    <3> QED BY SMTT(60), <1>3, <3>1, <3>2, <3>3
  <2>2. ASSUME NEW k \in live, span[k].owner # Depth, k \notin D
        PROVE  /\ span[k].lo < span[k].hi => span[k].hi <= start
               /\ span[k].owner = Depth - 1 =>
                    /\ span[k].lo <= AlignUp(offset', span[k].elem.align)
                    /\ span[k].kind = "open" => span[k].hi <= start
    <3>1. span[k].owner \in 1 .. Depth /\ span[k].lo <= span[k].hi
      BY DEF IInv, HandleOK, HandleAt, InBounds
    <3>2. CASE span[k].owner = Depth - 1
      <4>1. span[k].hi <= start
        BY <1>1, <2>2, <3>2, RotationFacts
      <4>2. /\ offset' <= AlignUp(offset', span[k].elem.align)
            /\ AlignUp(offset', span[k].elem.align) \in Nat
        BY <1>11, AlignUpFacts
      <4> QED BY SMTT(60), <1>3, <1>11, <3>1, <4>1, <4>2
    <3>3. CASE span[k].owner # Depth - 1
      <4>1. Depth - 1 \in 1 .. Depth /\ span[k].owner < Depth - 1
        BY SMTT(60), <1>1, <2>2, <3>1, <3>3, RotationFacts
      <4>2. stack[Depth - 1].saved <= start
        BY <1>1, RotationFacts
      <4>3. span[k].lo < span[k].hi => span[k].hi <= stack[Depth - 1].saved
        BY <4>1, BelowTop
      <4> QED BY SMTT(60), <1>3, <3>3, <4>1, <4>2, <4>3
    <3> QED BY <3>2, <3>3
  <2> HIDE DEF D, start
  <2> QED BY <2>1, <2>2 DEF Remains
<1>21. Passed({n1, n2}, start)
  <2>1. /\ start <= dst /\ dst <= end /\ start <= start + b1 /\ start + b1 <= end
        /\ start + b1 <= dst /\ offset' = end
    <3> HIDE DEF dst, b1, b2, h1, h2, start
    <3> QED BY <1>2, <1>3, <1>5, <1>8
  <2>2. start % h1.elem.align = 0
    BY <1>1, RotationFacts
  <2>3. n1 \in live' /\ n2 \in live'
    BY <1>1, <1>2, <1>17
  <2>4. Depth > 1 /\ stack[Depth - 1].kind \in Frames
    BY <1>1, RotationFacts
  <2>5. end <= end /\ dst <= dst
    BY <1>8, <1>10
  <2>6. start \in Nat /\ start + b1 \in Nat /\ start <= start
    BY <1>3, <1>7
  <2> HIDE DEF dst, b1, b2, start, end, h1, h2
  <2>7. ASSUME NEW k \in {n1, n2}
        PROVE  /\ k \in live' /\ span[k].owner = Depth
               /\ span'[k].owner = Depth - 1 /\ span'[k].kind = "span"
               /\ span'[k].elem \in Elems
               /\ span'[k].lo % span'[k].elem.align = 0
               /\ start <= span'[k].lo /\ span'[k].lo <= span'[k].used
               /\ span'[k].used <= span'[k].hi /\ span'[k].hi <= offset'
    <3>1. CASE k = n1
      BY <1>1, <1>4, <1>14, <2>1, <2>2, <2>3, <2>6, <3>1 DEF h1
    <3>2. CASE k = n2
      BY <1>1, <1>4, <1>8, <1>14, <2>1, <2>3, <2>5, <3>2 DEF h2
    <3> QED BY <3>1, <3>2
  <2>8. span'[n1].hi <= span'[n2].lo
    BY <1>14, <2>1
  <2> QED BY <2>4, <2>7, <2>8 DEF Passed
<1> QED BY <1>1, <1>3, <1>18, <1>19, <1>20, <1>21, PopTo

(* Entering replace2 preserves the invariant: the lent spans stay put.     *)
LEMMA BeginReplace2Inv ==
  ASSUME IInv, NEW i \in Ids, NEW j \in Ids, BeginReplace2(i, j), aborted' = aborted
  PROVE  IInv'
<1> USE Types
<1> DEFINE r == [kind |-> "replace2", saved |-> offset, i |-> i, j |-> j]
<1>1. /\ Depth > 0 /\ Top = stack[Depth] /\ Top.kind \in Frames
      /\ i # j /\ i \in live /\ j \in live
      /\ span[i].owner = Depth /\ span[j].owner = Depth
      /\ span[i].kind = "span" /\ span[j].kind = "span" /\ span[i].hi <= span[j].lo
      /\ \A o \in live : span[o].owner = Depth /\ o # i /\ o # j => span[o].hi <= span[i].lo
      /\ span' = [span EXCEPT ![i].kind = "lent", ![j].kind = "lent"]
      /\ stack' = Append(stack, r) /\ offset' = offset /\ mem' = mem /\ live' = live
  BY DEF BeginReplace2, FrameFree, Inside, Owned, Top, Depth
<1>2. r \in Activation
  BY DEF Activation
<1>3. /\ stack' \in Seq(Activation) /\ Depth' = Depth + 1
      /\ \A d \in 1 .. Depth : stack'[d] = stack[d]
      /\ stack'[Depth + 1] = r
  BY <1>1, <1>2, PushFacts DEF Depth
<1>4. \A d \in 1 .. Depth : Ceil(d)' = Ceil(d)
  BY <1>1, <1>3 DEF Ceil
<1>5. \A k \in Ids : /\ span'[k].owner = span[k].owner /\ span'[k].lo = span[k].lo
                     /\ span'[k].hi = span[k].hi /\ span'[k].used = span[k].used
                     /\ span'[k].elem = span[k].elem
                     /\ span'[k].kind = IF k = i \/ k = j THEN "lent" ELSE span[k].kind
                     /\ span'[k] \in Handle
  BY SMTT(60), <1>1 DEF Handle
<1>6. TypeOK'
  <2>1. span' \in [Ids -> Handle]
    BY <1>1, <1>5
  <2> QED BY <1>1, <1>3, <2>1 DEF TypeOK, IInv
<1>7. StackOK'
  <2>1. ASSUME NEW d \in 1 .. Depth PROVE StackAt(d)'
    <3>1. StackAt(d) /\ stack[d].kind # "builder"
      BY <1>1 DEF IInv, StackOK, StackAt, Frames
    <3>2. ASSUME stack[d].kind = "reserve"
          PROVE  /\ stack[d].i \in live' /\ span'[stack[d].i].kind = "open"
                 /\ span'[stack[d].i].owner = d /\ span'[stack[d].i].hi <= Ceil(d)'
      <4>1. /\ stack[d].i \in live /\ stack[d].i \in Ids /\ span[stack[d].i].kind = "open"
            /\ span[stack[d].i].owner = d /\ span[stack[d].i].hi <= Ceil(d)
        BY <3>1, <3>2 DEF StackAt
      <4> QED BY <1>1, <1>4, <1>5, <4>1
    <3>3. ASSUME NEW e \in d .. Depth + 1 PROVE stack'[d].saved <= stack'[e].saved
      <4>1. CASE e \in d .. Depth
        BY <1>3, <3>1, <4>1 DEF StackAt
      <4>2. CASE e = Depth + 1
        BY <1>3, <3>1, <4>2 DEF StackAt
      <4>3. e \in d .. Depth \/ e = Depth + 1
        <5>1. Depth \in Nat /\ d \in 1 .. Depth /\ e \in d .. Depth + 1
          OBVIOUS
        <5> HIDE DEF r
        <5> QED BY ONLY <5>1
      <4> HIDE DEF r
      <4> QED BY ONLY <4>1, <4>2, <4>3
    <3>4. stack'[d].saved <= offset' /\ stack'[d] = stack[d]
      BY <1>1, <1>3, <3>1 DEF StackAt
    <3>5. stack[d].kind # "scope" => d > 1 /\ stack'[d - 1].kind \in Frames
      <4>1. CASE stack[d].kind # "scope"
        <5>1. d > 1 /\ stack[d - 1].kind \in Frames /\ d - 1 \in 1 .. Depth
          BY <3>1, <4>1 DEF StackAt
        <5> QED BY <1>3, <5>1
      <4> QED BY <4>1
    <3>6. \A e \in d .. Depth' : stack'[d].saved <= stack'[e].saved
      BY <1>3, <3>3
    <3> QED BY <3>1, <3>2, <3>4, <3>5, <3>6 DEF StackAt
  <2>2. ASSUME NEW d \in Nat, d = Depth + 1 PROVE StackAt(d)'
    <3>1. d > 1 /\ stack'[d - 1].kind \in Frames
      BY <1>1, <1>3, <2>2
    <3> QED BY <1>1, <1>3, <2>2, <3>1 DEF StackAt
  <2> QED BY <1>3, <2>1, <2>2 DEF StackOK
<1>8. HandleOK'
  <2> SUFFICES ASSUME NEW k \in live PROVE HandleAt(k)'
    BY <1>1 DEF HandleOK
  <2>1. HandleAt(k) /\ span[k].owner \in 1 .. Depth /\ k \in Ids
    BY DEF IInv, HandleOK, HandleAt
  <2>2. stack'[span[k].owner] = stack[span[k].owner] /\ span'[k].owner = span[k].owner
    BY <1>3, <1>5, <2>1
  <2>3. Ceil(span[k].owner)' = Ceil(span[k].owner)
    <3> DEFINE w == span[k].owner
    <3>1. \A d \in 1 .. Depth : d = span'[k].owner => Ceil(span[k].owner)' = Ceil(d)
      BY <1>1, <1>3 DEF Ceil
    <3> QED BY <2>1, <2>2, <3>1
  <2>4. span'[k].kind = "open" <=> span[k].kind = "open"
    <3>1. CASE k = i \/ k = j
      <4>1. span'[k].kind = "lent" /\ span[k].kind = "span"
        BY <1>1, <1>5, <2>1, <3>1
      <4> QED BY <4>1
    <3>2. CASE k # i /\ k # j
      <4>1. span'[k].kind = span[k].kind
        BY <1>5, <2>1, <3>2
      <4> QED BY <4>1
    <3> QED BY <3>1, <3>2
  <2> QED BY <1>3, <1>5, <2>1, <2>2, <2>3, <2>4 DEF HandleAt
<1>9. RotationOK'
  <2>1. ASSUME NEW d \in 1 .. Depth, stack[d].kind = "replace2"
        PROVE  RotationAt(d)'
    <3>1. RotationAt(d) /\ stack'[d] = stack[d]
      BY <1>3, <2>1 DEF IInv, RotationOK
    <3> DEFINE x == stack[d].i
               y == stack[d].j
    <3>2. /\ x # y /\ x \in live /\ y \in live /\ x \in Ids /\ y \in Ids
          /\ span[x].owner = d - 1 /\ span[y].owner = d - 1
          /\ span[x].kind = "lent" /\ span[y].kind = "lent"
          /\ span[x].hi <= span[y].lo
          /\ \A o \in live : span[o].owner = d - 1 /\ o # x /\ o # y => span[o].hi <= span[x].lo
      BY <3>1 DEF RotationAt
    <3>3. /\ span'[x].owner = d - 1 /\ span'[y].owner = d - 1
          /\ span'[x].kind = "lent" /\ span'[y].kind = "lent"
          /\ span'[x].hi <= span'[y].lo
      BY <1>5, <3>2
    <3>4. \A o \in live : span'[o].owner = d - 1 /\ o # x /\ o # y => span'[o].hi <= span'[x].lo
      BY <1>5, <3>2
    <3> QED BY ZenonT(60), <1>1, <3>1, <3>2, <3>3, <3>4 DEF RotationAt
  <2>2. ASSUME NEW d \in Nat, d = Depth + 1 PROVE RotationAt(d)'
    <3>1. stack'[d].i = i /\ stack'[d].j = j /\ d - 1 = Depth
      BY <1>3, <2>2
    <3>2. /\ span'[i].owner = Depth /\ span'[j].owner = Depth
          /\ span'[i].kind = "lent" /\ span'[j].kind = "lent"
          /\ span'[i].hi <= span'[j].lo
      BY <1>1, <1>5
    <3>3. \A o \in live : span'[o].owner = Depth /\ o # i /\ o # j => span'[o].hi <= span'[i].lo
      BY <1>1, <1>5
    <3> QED BY ZenonT(60), <1>1, <3>1, <3>2, <3>3 DEF RotationAt
  <2>3. ASSUME NEW o \in live, span'[o].kind = "lent"
        PROVE  LentAt(o)'
    <3>1. CASE o = i \/ o = j
      <4>1. span'[o].owner = Depth /\ stack'[Depth + 1] = r
        BY <1>1, <1>3, <1>5, <3>1
      <4> QED BY <1>3, <3>1, <4>1 DEF LentAt
    <3>2. CASE o # i /\ o # j
      <4>1. span[o].kind = "lent" /\ span'[o].owner = span[o].owner
        BY <1>5, <2>3, <3>2
      <4>2. LentAt(o) /\ span[o].owner \in 1 .. Depth
        BY <4>1 DEF IInv, RotationOK, HandleOK, HandleAt
      <4> QED BY <1>3, <4>1, <4>2 DEF LentAt
    <3> QED BY <3>1, <3>2
  <2>4. ASSUME NEW d \in 1 .. Depth + 1, stack'[d].kind = "replace2" PROVE RotationAt(d)'
    <3>1. CASE d \in 1 .. Depth
      <4>1. stack[d].kind = "replace2"
        BY <1>3, <2>4, <3>1
      <4> QED BY <2>1, <3>1, <4>1
    <3>2. CASE d = Depth + 1
      <4>1. d \in Nat
        OBVIOUS
      <4> QED BY <2>2, <3>2, <4>1
    <3>3. d \in 1 .. Depth \/ d = Depth + 1
      OBVIOUS
    <3> QED BY <3>1, <3>2, <3>3
  <2> QED BY <1>1, <1>3, <2>3, <2>4 DEF RotationOK
<1>10. Disjoint'
  <2> SUFFICES ASSUME NEW p \in live, NEW q \in live, p # q,
                      span'[p].lo < span'[p].hi, span'[q].lo < span'[q].hi
               PROVE  span'[p].hi <= span'[q].lo \/ span'[q].hi <= span'[p].lo
    BY <1>1 DEF Disjoint
  <2> QED BY <1>5 DEF IInv, Disjoint
<1> QED BY <1>6, <1>7, <1>8, <1>9, <1>10 DEF IInv

(* Scopes and direct allocations preserve the invariant.                   *)
LEMMA FrameStepInv ==
  ASSUME IInv, FrameStep, aborted' = aborted
  PROVE  IInv'
<1> USE Types
<1>0. /\ FrameFree => Depth \in Nat /\ Depth > 0
      /\ \A e \in Elems : e \in Elem /\ e.size \in Nat /\ e.align \in {1, 2, 4, 8, 16}
      /\ \A n \in 0 .. MaxCap : n \in Nat
      /\ mem \in [Addrs -> Bytes] /\ aborted' \in BOOLEAN
  BY ArenaAssumption DEF FrameFree, Inside, Elem, IInv, TypeOK
<1>a. ASSUME NEW e \in Elems
      PROVE  Bump(e) \in Nat /\ offset <= Bump(e) /\ Bump(e) = AlignUp(offset, e.align)
  <2>1. e.align \in {1, 2, 4, 8, 16} /\ offset \in Nat
    BY <1>0
  <2> QED BY <2>1, AlignUpFacts DEF Bump
<1>1. CASE OpenScope
  <2> DEFINE r == [kind |-> "scope", saved |-> offset, i |-> NoId, j |-> NoId]
  <2>1. r \in Activation
    BY DEF Activation
  <2> QED BY <1>1, <2>1, PushFrame DEF OpenScope
<1>2. CASE CloseScope
  BY <1>2, CloseScopeInv
<1>3. ASSUME NEW i \in Ids, NEW e \in Elems, Alloc(i, e) PROVE IInv'
  <2> DEFINE h == [kind |-> "box", owner |-> Depth, lo |-> Bump(e), hi |-> Bump(e) + e.size,
                   used |-> Bump(e) + e.size, elem |-> e]
  <2>1. /\ FrameFree /\ i \notin live /\ live' = live \cup {i} /\ span' = [span EXCEPT ![i] = h]
        /\ offset' = Bump(e) + e.size /\ offset' <= Size /\ stack' = stack
        /\ mem' = Store(mem, i, Bump(e), 0, e.size)
    BY <1>3 DEF Alloc, NewHandle, Fits
  <2>2. h \in Handle /\ offset' \in Offsets /\ offset <= offset'
    BY <1>0, <1>a, <2>1 DEF Handle, Offsets
  <2>3. mem' \in [Addrs -> Bytes]
    <3>1. Bump(e) \in Int /\ 0 \in Nat /\ e.size \in Int
      BY <1>0, <1>a
    <3> QED BY <1>0, <2>1, <3>1, StoreTyping
  <2>4. /\ h.owner = Depth /\ h.kind \in {"box", "vec", "span"} /\ h.elem \in Elems
        /\ h.lo = AlignUp(offset, h.elem.align) /\ h.lo <= h.used /\ h.used <= h.hi
        /\ h.hi <= offset'
    BY <1>0, <1>a, <2>1
  <2> HIDE DEF h
  <2> QED BY <1>0, <2>1, <2>2, <2>3, <2>4, NewOnTop
<1>4. ASSUME NEW i \in Ids, NEW e \in Elems, NEW n \in 0 .. MaxCap, Vec(i, e, n) PROVE IInv'
  <2> DEFINE b == n * e.size
             h == [kind |-> "vec", owner |-> Depth, lo |-> Bump(e), hi |-> Bump(e) + b,
                   used |-> Bump(e), elem |-> e]
  <2>0. b \in Nat
    BY <1>0, MulNat
  <2>1. /\ FrameFree /\ i \notin live /\ live' = live \cup {i} /\ span' = [span EXCEPT ![i] = h]
        /\ offset' = Bump(e) + b /\ offset' <= Size /\ stack' = stack /\ mem' = mem
    BY <1>4 DEF Vec, NewHandle, Fits
  <2> HIDE DEF b
  <2>2. h \in Handle /\ offset' \in Offsets /\ offset <= offset'
    BY <1>0, <1>a, <2>0, <2>1 DEF Handle, Offsets
  <2>4. /\ h.owner = Depth /\ h.kind \in {"box", "vec", "span"} /\ h.elem \in Elems
        /\ h.lo = AlignUp(offset, h.elem.align) /\ h.lo <= h.used /\ h.used <= h.hi
        /\ h.hi <= offset'
    BY <1>0, <1>a, <2>0, <2>1
  <2> HIDE DEF h
  <2> QED BY <1>0, <2>1, <2>2, <2>4, NewOnTop
<1>5. ASSUME NEW i \in Ids, NEW e \in Elems, Empty(i, e) PROVE IInv'
  <2> DEFINE h == [kind |-> "span", owner |-> Depth, lo |-> Bump(e), hi |-> Bump(e),
                   used |-> Bump(e), elem |-> e]
  <2>1. /\ FrameFree /\ i \notin live /\ live' = live \cup {i} /\ span' = [span EXCEPT ![i] = h]
        /\ offset' = offset /\ stack' = stack /\ mem' = mem
    BY <1>5 DEF Empty, NewHandle
  <2>2. h \in Handle /\ offset' \in Offsets /\ offset <= offset'
    BY <1>0, <1>a, <2>1 DEF Handle, Offsets
  <2>4. /\ h.owner = Depth /\ h.kind \in {"box", "vec", "span"} /\ h.elem \in Elems
        /\ h.lo = AlignUp(offset, h.elem.align) /\ h.lo <= h.used /\ h.used <= h.hi
        /\ ~(h.lo < h.hi)
    BY <1>0, <1>a, <2>1
  <2> HIDE DEF h
  <2> QED BY <1>0, <2>1, <2>2, <2>4, NewOnTop
<1> QED BY <1>1, <1>2, <1>3, <1>4, <1>5 DEF FrameStep

(* The operations of FBuilder preserve the invariant.                      *)
LEMMA BuilderStepInv ==
  ASSUME IInv, BuilderStep, aborted' = aborted
  PROVE  IInv'
<1> USE Types
<1>0. mem \in [Addrs -> Bytes]
  BY DEF IInv, TypeOK
<1>1. ASSUME NEW i \in Ids, NEW e \in Elems, BeginSpan(i, e) PROVE IInv'
  <2> DEFINE h == [kind |-> "open", owner |-> Depth + 1, lo |-> Bump(e), hi |-> Bump(e),
                   used |-> Bump(e), elem |-> e]
             r == [kind |-> "builder", saved |-> offset, i |-> i, j |-> NoId]
  <2>1. /\ FrameFree /\ i \notin live /\ live' = live \cup {i} /\ span' = [span EXCEPT ![i] = h]
        /\ offset' = Bump(e) /\ mem' = mem /\ stack' = Append(stack, r)
    BY <1>1 DEF BeginSpan, NewHandle
  <2>2. e \in Elem /\ e.align \in {1, 2, 4, 8, 16} /\ Size % e.align = 0
    BY ArenaAssumption DEF Elem
  <2>3. offset \in Nat /\ Size \in Nat /\ offset <= Size
    OBVIOUS
  <2>4. Bump(e) \in Nat /\ Bump(e) <= Size /\ Bump(e) = AlignUp(offset, e.align)
    BY <2>2, <2>3, AlignUpFacts, AlignUpLeast DEF Bump
  <2>5. h \in Handle /\ r \in Activation
    BY <2>2, <2>4 DEF Handle, Activation
  <2>6. /\ h.owner = Depth + 1 /\ h.kind = "open" /\ h.elem \in Elems
        /\ h.lo = AlignUp(offset, h.elem.align) /\ h.lo <= h.used /\ h.used <= h.hi
        /\ offset' = h.hi /\ h.hi <= Size /\ r.saved = offset /\ r.i = i
        /\ r.kind \in {"builder", "reserve"}
    BY <2>1, <2>4
  <2> HIDE DEF h, r
  <2> QED BY <2>1, <2>5, <2>6, PushOpen
<1>2. ASSUME NEW n \in 1 .. MaxCap, BuilderPush(n) PROVE IInv'
  <2> DEFINE g == span[Top.i]
             b == n * g.elem.size
             o == Bump(g.elem)
             h == [g EXCEPT !.hi = g.hi + b, !.used = g.used + b]
  <2>1. Inside({"builder"}) /\ Inside({"builder", "reserve"}) /\ n \in Nat
    BY <1>2, ArenaAssumption DEF BuilderPush, Inside
  <2>2. /\ Top.i \in Ids /\ g \in Handle /\ g.elem.align \in {1, 2, 4, 8, 16}
        /\ g.lo \in Nat /\ g.used \in Nat /\ g.hi \in Nat /\ g.elem.size \in Nat
        /\ g.lo <= g.used /\ g.used <= g.hi /\ g.hi <= offset /\ g.kind = "open"
    BY <2>1, OpenFacts
  <2>3. b \in Nat
    BY <2>1, <2>2, MulNat
  <2>4. o \in Nat /\ offset <= o
    <3>1. offset \in Nat
      OBVIOUS
    <3> QED BY <2>2, <3>1, AlignUpFacts DEF Bump
  <2>5. /\ offset' = o + b /\ offset' <= Size /\ stack' = stack /\ live' = live
        /\ mem' = Store(mem, Top.i, o, g.used - g.lo, b)
    BY <1>2 DEF BuilderPush, Fits
  <2>6. span' = [span EXCEPT ![Top.i] = h]
    BY <1>2, <2>2 DEF BuilderPush
  <2> HIDE DEF b, o
  <2>7. offset' \in Offsets /\ g.hi + b <= offset'
    BY <2>2, <2>3, <2>4, <2>5 DEF Offsets
  <2>8. mem' \in [Addrs -> Bytes]
    <3>1. g.used - g.lo \in Nat /\ o \in Int /\ b \in Int
      BY <2>2, <2>3, <2>4
    <3> HIDE DEF g
    <3> QED BY <1>0, <2>2, <2>5, <3>1, StoreTyping
  <2>9. /\ h \in Handle /\ h.owner = g.owner /\ h.lo = g.lo /\ h.elem = g.elem
        /\ h.kind = "open" /\ h.used = g.used + b /\ h.hi = g.hi + b
    <3>1. g.hi + b \in Nat /\ g.used + b \in Nat
      BY SMTT(60), <2>2, <2>3
    <3> HIDE DEF g
    <3> QED BY <2>2, <3>1 DEF Handle
  <2>10. h.lo <= h.used /\ h.used <= h.hi /\ h.hi <= offset'
    BY SMTT(60), <2>2, <2>3, <2>7, <2>9
  <2> HIDE DEF h
  <2> QED BY <2>1, <2>5, <2>6, <2>7, <2>8, <2>9, <2>10, BuilderResize
<1>3. ASSUME BuilderPop PROVE IInv'
  <2> DEFINE g == span[Top.i]
             z == g.elem.size
             h == [g EXCEPT !.hi = g.hi - z, !.used = g.used - z]
  <2>1. Inside({"builder"}) /\ Inside({"builder", "reserve"})
    BY <1>3 DEF BuilderPop, Inside
  <2>2. /\ Top.i \in Ids /\ g \in Handle /\ z \in Nat
        /\ g.lo \in Nat /\ g.used \in Nat /\ g.hi \in Nat
        /\ g.lo <= g.used /\ g.used <= g.hi /\ g.hi <= offset /\ g.kind = "open"
    BY <2>1, OpenFacts
  <2>3. /\ g.lo + z <= g.used /\ offset' = offset - z /\ stack' = stack /\ live' = live
        /\ mem' = Rewind(mem, offset - z)
    BY <1>3 DEF BuilderPop
  <2>4. span' = [span EXCEPT ![Top.i] = h]
    BY <1>3, <2>2 DEF BuilderPop
  <2>5. offset' \in Offsets /\ g.hi - z <= offset' /\ g.hi - z \in Nat /\ g.used - z \in Nat
    <3>1. /\ offset \in Nat /\ offset <= Size /\ Size \in Nat
      OBVIOUS
    <3>2. offset - z \in Nat /\ g.hi - z \in Nat /\ g.used - z \in Nat
      <4>1. z <= g.used
        BY <2>2, <2>3
      <4>2. z <= g.hi /\ z <= offset
        BY <2>2, <3>1, <4>1
      <4> QED BY SMTT(60), <2>2, <3>1, <4>1, <4>2
    <3>3. offset - z <= Size /\ g.hi - z <= offset - z
      BY <2>2, <3>1
    <3> QED BY <2>3, <3>1, <3>2, <3>3 DEF Offsets
  <2>6. mem' \in [Addrs -> Bytes]
    <3>1. offset - z \in Int
      BY <2>2
    <3> QED BY <1>0, <2>3, <3>1, RewindTyping
  <2>7. /\ h \in Handle /\ h.owner = g.owner /\ h.lo = g.lo /\ h.elem = g.elem
        /\ h.kind = "open" /\ h.used = g.used - z /\ h.hi = g.hi - z
    <3> HIDE DEF g, z
    <3> QED BY <2>2, <2>5 DEF Handle
  <2>8. h.lo <= h.used /\ h.used <= h.hi /\ h.hi <= offset'
    <3> HIDE DEF g, z, h
    <3> QED BY SMTT(60), <2>2, <2>3, <2>5, <2>7
  <2> HIDE DEF h
  <2> QED BY <2>1, <2>3, <2>4, <2>5, <2>6, <2>7, <2>8, BuilderResize
<1>4. CASE EndSpan
  BY <1>4, EndSpanInv
<1> QED BY <1>1, <1>2, <1>3, <1>4 DEF BuilderStep

(* Filling or emptying the slots of a reserve or a vec stays in its range. *)
LEMMA SlotsInv ==
  ASSUME IInv, NEW i \in live, span[i].kind \in {"open", "vec"}, aborted' = aborted,
         \/ \E n \in 1 .. MaxCap : PushSlots(i, n)
         \/ \E u \in Offsets : TruncateSlots(i, u)
  PROVE  IInv'
<1> USE Types
<1> DEFINE g == span[i]
<1>0. /\ mem \in [Addrs -> Bytes] /\ g \in Handle /\ i \in Ids /\ g.lo \in Nat
      /\ g.used \in Nat /\ g.hi \in Nat /\ g.elem.size \in Nat
      /\ g.lo <= g.used /\ g.used <= g.hi
  BY DEF IInv, TypeOK, HandleOK, HandleAt
<1>1. ASSUME NEW w \in Nat, g.lo <= w, w <= g.hi, mem' \in [Addrs -> Bytes],
             span' = [span EXCEPT ![i].used = w], UNCHANGED <<offset, stack, live>>
      PROVE  IInv'
  <2> DEFINE h == [g EXCEPT !.used = w]
  <2>1. span' = [span EXCEPT ![i] = h] /\ offset' = offset /\ stack' = stack /\ live' = live
    BY <1>0, <1>1
  <2>2. /\ h \in Handle /\ h.owner = g.owner /\ h.lo = g.lo /\ h.elem = g.elem
        /\ h.kind = g.kind /\ h.used = w /\ h.hi = g.hi
    <3> HIDE DEF g
    <3> QED BY <1>0, <1>1 DEF Handle
  <2>3. h.lo <= h.used /\ h.used <= h.hi /\ h.hi <= g.hi /\ h.kind # "lent"
    BY <1>0, <1>1, <2>2
  <2> HIDE DEF h
  <2> QED BY <1>1, <2>1, <2>2, <2>3, Resize
<1>2. ASSUME NEW n \in 1 .. MaxCap, PushSlots(i, n) PROVE IInv'
  <2> DEFINE b == n * g.elem.size
  <2>1. n \in Nat /\ b \in Nat
    BY SMTT(60), <1>0, MulNat, ArenaAssumption
  <2>2. /\ g.used + b <= g.hi /\ mem' = Store(mem, i, g.used, g.used - g.lo, b)
        /\ span' = [span EXCEPT ![i].used = g.used + b] /\ UNCHANGED <<offset, stack, live>>
    BY <1>2 DEF PushSlots
  <2> HIDE DEF b
  <2>3. /\ g.used - g.lo \in Nat /\ g.used \in Int /\ b \in Int
        /\ g.used + b \in Nat /\ g.lo <= g.used + b
    BY <1>0, <2>1
  <2>4. mem' \in [Addrs -> Bytes]
    <3> HIDE DEF g
    <3> QED BY <1>0, <2>2, <2>3, StoreTyping
  <2> HIDE DEF g
  <2> QED BY <1>1, <2>2, <2>3, <2>4
<1>3. ASSUME NEW u \in Offsets, TruncateSlots(i, u) PROVE IInv'
  <2>1. /\ g.lo <= u /\ u < g.used /\ mem' = Forget(mem, u, g.used)
        /\ span' = [span EXCEPT ![i].used = u] /\ UNCHANGED <<offset, stack, live>>
    BY <1>3 DEF TruncateSlots
  <2>2. u \in Nat /\ u \in Int /\ g.used \in Int /\ u <= g.hi
    BY <1>0, <2>1, ArenaAssumption DEF Offsets
  <2>3. mem' \in [Addrs -> Bytes]
    <3> HIDE DEF g
    <3> QED BY <1>0, <2>1, <2>2, MemTyping
  <2> HIDE DEF g
  <2> QED BY <1>1, <2>1, <2>2, <2>3
<1> QED BY <1>2, <1>3

(* The operations of FReserve preserve the invariant.                      *)
LEMMA ReserveStepInv ==
  ASSUME IInv, ReserveStep, aborted' = aborted
  PROVE  IInv'
<1> USE Types
<1>1. ASSUME NEW i \in Ids, NEW e \in Elems, NEW n \in 0 .. MaxCap, Reserve(i, e, n)
      PROVE  IInv'
  <2> DEFINE b == n * e.size
             h == [kind |-> "open", owner |-> Depth + 1, lo |-> Bump(e), hi |-> Bump(e) + b,
                   used |-> Bump(e), elem |-> e]
             r == [kind |-> "reserve", saved |-> offset, i |-> i, j |-> NoId]
  <2>1. /\ FrameFree /\ i \notin live /\ live' = live \cup {i} /\ span' = [span EXCEPT ![i] = h]
        /\ offset' = Bump(e) + b /\ Bump(e) + b <= Size /\ mem' = mem
        /\ stack' = Append(stack, r)
    BY <1>1 DEF Reserve, NewHandle, Fits
  <2>2. e \in Elem /\ e.align \in {1, 2, 4, 8, 16} /\ e.size \in Nat /\ n \in Nat
    BY ArenaAssumption DEF Elem
  <2>3. b \in Nat
    BY <2>2, MulNat
  <2>4. Bump(e) \in Nat /\ Bump(e) = AlignUp(offset, e.align)
    <3>1. offset \in Nat
      OBVIOUS
    <3> QED BY <2>2, <3>1, AlignUpFacts DEF Bump
  <2> HIDE DEF b
  <2>5. h \in Handle /\ r \in Activation
    BY SMTT(60), <2>2, <2>3, <2>4 DEF Handle, Activation
  <2>6. /\ h.owner = Depth + 1 /\ h.kind = "open" /\ h.elem \in Elems
        /\ h.lo = AlignUp(offset, h.elem.align) /\ h.lo <= h.used /\ h.used <= h.hi
        /\ offset' = h.hi /\ h.hi <= Size /\ r.saved = offset /\ r.i = i
        /\ r.kind \in {"builder", "reserve"}
    BY <2>1, <2>3, <2>4
  <2> HIDE DEF h, r
  <2> QED BY <2>1, <2>5, <2>6, PushOpen
<1>2. ASSUME NEW n \in 1 .. MaxCap, ReservePush(n) PROVE IInv'
  <2>1. Inside({"builder", "reserve"}) /\ PushSlots(Top.i, n)
    BY <1>2 DEF ReservePush, Inside
  <2>2. Top.i \in live /\ span[Top.i].kind \in {"open", "vec"}
    BY <2>1, OpenFacts
  <2> QED BY <2>1, <2>2, SlotsInv
<1>3. ASSUME NEW u \in Offsets, ReserveTruncate(u) PROVE IInv'
  <2>1. Inside({"builder", "reserve"}) /\ TruncateSlots(Top.i, u)
    BY <1>3 DEF ReserveTruncate, Inside
  <2>2. Top.i \in live /\ span[Top.i].kind \in {"open", "vec"}
    BY <2>1, OpenFacts
  <2> QED BY <2>1, <2>2, SlotsInv
<1>4. CASE Freeze
  BY <1>4, FreezeInv
<1>5. CASE DropReserve
  BY <1>5, DropReserveInv
<1> QED BY <1>1, <1>2, <1>3, <1>4, <1>5 DEF ReserveStep

(* What a handle's owner may do with it preserves the invariant.           *)
LEMMA HandleStepInv ==
  ASSUME IInv, HandleStep, aborted' = aborted
  PROVE  IInv'
<1> USE Types
<1>1. ASSUME NEW i \in Ids, NEW n \in 1 .. MaxCap, VecPush(i, n) PROVE IInv'
  <2>1. i \in live /\ span[i].kind \in {"open", "vec"} /\ PushSlots(i, n)
    BY <1>1 DEF VecPush
  <2> QED BY <2>1, SlotsInv
<1>2. ASSUME NEW i \in Ids, NEW u \in Offsets, VecTruncate(i, u) PROVE IInv'
  <2>1. i \in live /\ span[i].kind \in {"open", "vec"} /\ TruncateSlots(i, u)
    BY <1>2 DEF VecTruncate
  <2> QED BY <2>1, SlotsInv
<1>3. ASSUME NEW i \in Ids, IntoFSpan(i) \/ IntoFVec(i) PROVE IInv'
  <2> DEFINE g == span[i]
             h == [g EXCEPT !.kind = IF g.kind = "vec" THEN "span" ELSE "vec",
                            !.hi = IF g.kind = "vec" THEN g.used ELSE g.hi]
  <2>1. /\ i \in live /\ g.kind \in {"vec", "span"} /\ offset' = offset /\ mem' = mem
        /\ stack' = stack /\ live' = live
    BY <1>3 DEF IntoFSpan, IntoFVec
  <2>2. /\ g \in Handle /\ g.lo \in Nat /\ g.used \in Nat /\ g.hi \in Nat
        /\ g.lo <= g.used /\ g.used <= g.hi /\ mem \in [Addrs -> Bytes]
    BY <2>1 DEF IInv, TypeOK, HandleOK, HandleAt
  <2>3. span' = [span EXCEPT ![i] = h]
    <3>1. CASE IntoFSpan(i)
      BY <3>1 DEF IntoFSpan
    <3>2. CASE IntoFVec(i)
      <4>1. g.kind # "vec" /\ span' = [span EXCEPT ![i].kind = "vec"]
        BY <3>2 DEF IntoFVec
      <4>2. [g EXCEPT !.kind = "vec"] = [g EXCEPT !.kind = "vec", !.hi = g.hi]
        <5> HIDE DEF g
        <5> QED BY <2>2 DEF Handle
      <4> QED BY <4>1, <4>2
    <3> QED BY <1>3, <3>1, <3>2
  <2>4. /\ h \in Handle /\ h.owner = g.owner /\ h.lo = g.lo /\ h.elem = g.elem
        /\ h.kind \in {"vec", "span"} /\ h.used = g.used
        /\ h.hi = IF g.kind = "vec" THEN g.used ELSE g.hi
    <3> HIDE DEF g
    <3> QED BY <2>2 DEF Handle
  <2>5. h.lo <= h.used /\ h.used <= h.hi /\ h.hi <= g.hi
    <3> HIDE DEF g, h
    <3> QED BY <2>2, <2>4
  <2> HIDE DEF h
  <2> QED BY <2>1, <2>2, <2>3, <2>4, <2>5, Resize
<1> QED BY <1>1, <1>2, <1>3 DEF HandleStep

(* compact and replace2 preserve the invariant.                            *)
LEMMA SlideStepInv ==
  ASSUME IInv, SlideStep, aborted' = aborted
  PROVE  IInv'
<1>1. CASE BeginCompact
  <2> DEFINE r == [kind |-> "compact", saved |-> offset, i |-> NoId, j |-> NoId]
  <2>1. r \in Activation
    BY Types DEF Activation
  <2>2. FrameFree /\ Inside(Frames \cup {"reserve"})
    BY <1>1 DEF BeginCompact, FrameFree, Inside
  <2> QED BY <1>1, <2>1, <2>2, PushFrame DEF BeginCompact
<1>2. ASSUME NEW r \in Ids, EndCompact(r) PROVE IInv'
  BY <1>2, EndCompactInv
<1>3. ASSUME NEW i \in Ids, NEW j \in Ids, BeginReplace2(i, j) PROVE IInv'
  BY <1>3, BeginReplace2Inv
<1>4. ASSUME NEW n1 \in Ids, NEW n2 \in Ids, EndReplace2(n1, n2) PROVE IInv'
  BY <1>4, EndReplace2Inv
<1> QED BY <1>1, <1>2, <1>3, <1>4 DEF SlideStep

(* The tail handed back starts at or above the offset and ends within the  *)
(* arena.                                                                  *)
LEMMA TailFacts ==
  ASSUME IInv
  PROVE  /\ Base \in Nat /\ TailStart \in Nat /\ Base + offset <= TailStart
         /\ TailStart + RoundUp(TailLen) \in Nat
         /\ ~(TailStart <= Base + Size /\ Base + Size < TailStart + RoundUp(TailLen))
<1> USE Types
<1> DEFINE end == TailStart + RoundUp(TailLen)
<1>1. Base \in Nat /\ Base + offset \in Nat /\ Base + Size \in Nat
  BY ArenaAssumption
<1>2. TailStart \in Nat /\ Base + offset <= TailStart
  BY <1>1, RoundFacts DEF TailStart
<1>3. end \in Nat /\ ~(TailStart <= Base + Size /\ Base + Size < end)
  <2>1. CASE TailStart < Base + Size
    <3> DEFINE z == Base + Size - TailStart
    <3>1. z \in Nat
      BY <1>1, <1>2, <2>1
    <3>2. TailLen = RoundDown(z)
      BY <2>1 DEF TailLen
    <3>3. RoundDown(z) \in Nat /\ RoundDown(z) <= z /\ RoundUp(TailLen) = RoundDown(z)
      <4> HIDE DEF z
      <4> QED BY <3>1, <3>2, RoundFacts
    <3>4. TailStart + z = Base + Size
      BY <1>1, <1>2
    <3> HIDE DEF z
    <3> QED BY <1>1, <1>2, <3>1, <3>3, <3>4
  <2>2. CASE ~(TailStart < Base + Size)
    <3>1. RoundUp(TailLen) = 0
      BY <2>2, ArenaAssumption DEF TailLen, RoundUp, AlignUp, PageSizes
    <3> QED BY <1>1, <1>2, <2>2, <3>1
  <2> QED BY <2>1, <2>2
<1> QED BY <1>1, <1>2, <1>3

(* The pages given back end inside the buffer, so the cell behind it stays *)
(* as it is: the length is rounded down to whole pages first.              *)
LEMMA UncommitTailInv ==
  ASSUME IInv, UncommitTail, aborted' = aborted
  PROVE  IInv'
<1> USE Types
<1> DEFINE end == TailStart + RoundUp(TailLen)
<1>4. /\ offset' = offset /\ stack' = stack /\ live' = live /\ span' = span
      /\ mem' = Forget(mem, TailStart - Base, end - Base)
  BY TailFacts DEF UncommitTail
<1>5. mem' \in [Addrs -> Bytes]
  <2>1. TailStart - Base \in Int /\ end - Base \in Int /\ mem \in [Addrs -> Bytes]
    BY TailFacts DEF IInv, TypeOK
  <2> HIDE DEF end
  <2> QED BY <1>4, <2>1, MemTyping
<1>6. /\ TypeOK' /\ Depth' = Depth /\ \A d \in 1 .. Depth : Ceil(d)' = Ceil(d)
  BY <1>4, <1>5 DEF IInv, TypeOK, Ceil, Depth
<1>7. StackOK' /\ RotationOK' /\ Disjoint'
  BY <1>4 DEF IInv, StackOK, StackAt, Ceil, Depth, RotationOK, RotationAt, LentAt, Disjoint
<1>8. HandleOK'
  BY <1>4 DEF IInv, HandleOK, HandleAt, Ceil, Depth
<1> QED BY <1>6, <1>7, <1>8 DEF IInv

(* With no handle and no activation the invariant is its type part.        *)
LEMMA EmptyState ==
  ASSUME offset = 0, stack = << >>, live = {}, aborted \in BOOLEAN,
         mem = [x \in Addrs |-> Junk], span = [i \in Ids |-> Blank]
  PROVE  IInv
<1>1. TypeOK
  BY ArenaAssumption DEF TypeOK, Offsets, Bytes, Junk, Blank, Handle, Elem
<1>2. Depth = 0
  BY DEF Depth
<1> QED BY <1>1, <1>2 DEF IInv, StackOK, HandleOK, RotationOK, Disjoint

----------------------------------------------------------------------------
(* The theorems                                                            *)

(* Every step of the allocator preserves the invariant.                    *)
LEMMA StepInv ==
  ASSUME IInv, [Next]_vars
  PROVE  IInv'
<1>1. CASE Overflow
  <2>1. /\ offset' = 0 /\ stack' = << >> /\ live' = {} /\ aborted' \in BOOLEAN
        /\ mem' = [x \in Addrs |-> Junk] /\ span' = [i \in Ids |-> Blank]
    BY <1>1 DEF Overflow
  <2>2. TypeOK'
    BY <2>1, ArenaAssumption DEF TypeOK, Offsets, Bytes, Junk, Blank, Handle, Elem
  <2>3. Depth' = 0
    BY <2>1 DEF Depth
  <2> QED BY <2>1, <2>2, <2>3 DEF IInv, StackOK, HandleOK, RotationOK, Disjoint
<1>2. CASE /\ FrameStep \/ BuilderStep \/ ReserveStep \/ HandleStep
              \/ SlideStep \/ UncommitTail
           /\ UNCHANGED aborted
  <2>1. aborted' = aborted
    BY <1>2
  <2> QED BY <1>2, <2>1, FrameStepInv, BuilderStepInv, ReserveStepInv, HandleStepInv,
             SlideStepInv, UncommitTailInv
<1>3. CASE UNCHANGED vars
  BY <1>3 DEF vars, IInv, TypeOK, StackOK, StackAt, HandleOK, HandleAt, RotationOK,
              RotationAt, LentAt, Disjoint, Ceil, Depth
<1> QED BY <1>1, <1>2, <1>3 DEF Next

(* The stack discipline of scopes, builders, reserves, compact and         *)
(* replace2 keeps every allocation between the offset its closure entered  *)
(* with and the closure's ceiling, whatever the program does with them.    *)
THEOREM ArenaInductive == Spec => []IInv
<1>1. Init => IInv
  BY EmptyState DEF Init
<1>2. IInv /\ [Next]_vars => IInv'
  BY StepInv
<1> QED BY <1>1, <1>2, PTL DEF Spec

(* ARENA.offset never leaves the buffer, although span, empty and the      *)
(* slides of compact and replace2 round it up without asking bump.         *)
THEOREM ArenaTypes == Spec => []TypeOK
<1>1. IInv => TypeOK
  BY DEF IInv
<1> QED BY <1>1, ArenaInductive, PTL

(* Every slice the arena hands out lies inside ARENA.buf.                  *)
THEOREM ArenaInBounds == Spec => []InBounds
<1>1. IInv => InBounds
  BY BoundsFromInv
<1> QED BY <1>1, ArenaInductive, PTL

(* No two live allocations share a byte: the claim behind the unsafe       *)
(* slice::from_raw_parts_mut of FSpan, FVec and FReserve.                  *)
THEOREM ArenaDisjoint == Spec => []Disjoint
<1>1. IInv => Disjoint
  BY DEF IInv
<1> QED BY <1>1, ArenaInductive, PTL

(* Every allocation is aligned for its element, also after a slide.        *)
THEOREM ArenaAligned == Spec => []Aligned
<1>1. IInv => Aligned
  BY DEF IInv, HandleOK, HandleAt, Aligned
<1> QED BY <1>1, ArenaInductive, PTL

----------------------------------------------------------------------------
(* What was written through a handle is what reads back.  This rests on    *)
(* IInv, which keeps the ranges apart and below the offset that bounds     *)
(* them, and needs one fact about a running FBuilder besides.              *)

(* The bytes of one handle are as they were written.                       *)
IntactAt(k) ==
  \A x \in Addrs : span[k].lo <= x /\ x < span[k].used
                     => mem[x] = [by |-> k, at |-> x - span[k].lo]

(* A running FBuilder ends exactly at the offset, and at an aligned one:   *)
(* bump neither skips bytes before the next push nor rewinds too few.      *)
BuilderTight ==
  Inside({"builder"}) =>
    /\ span[Top.i].used = span[Top.i].hi /\ span[Top.i].hi = offset
    /\ offset % span[Top.i].elem.align = 0

(* The inductive invariant of the contents.                                *)
CInv == IInv /\ BuilderTight /\ ContentsIntact

----------------------------------------------------------------------------
(* What the writes leave alone and what they leave behind                  *)

(* A byte outside the forgotten range keeps its value.                     *)
LEMMA ForgetKeeps ==
  ASSUME NEW m, NEW from \in Int, NEW to \in Int, NEW x \in Addrs,
         ~(from <= x /\ x < to)
  PROVE  Forget(m, from, to)[x] = m[x]
BY DEF Forget

(* So does a byte below a rewound offset.                                  *)
LEMMA RewindKeeps ==
  ASSUME NEW m, NEW o \in Int, NEW x \in Addrs, x < o
  PROVE  Rewind(m, o)[x] = m[x]
BY ForgetKeeps, ArenaAssumption DEF Rewind, Addrs

(* A store writes its range.                                               *)
LEMMA StoreHits ==
  ASSUME NEW m, NEW i, NEW a \in Int, NEW at \in Int, NEW n \in Int, NEW x \in Addrs,
         a <= x, x < a + n
  PROVE  Store(m, i, a, at, n)[x] = [by |-> i, at |-> at + (x - a)]
BY DEF Store

(* And nothing else.                                                       *)
LEMMA StoreKeeps ==
  ASSUME NEW m, NEW i, NEW a \in Int, NEW at \in Int, NEW n \in Int, NEW x \in Addrs,
         x < a \/ a + n <= x
  PROVE  Store(m, i, a, at, n)[x] = m[x]
BY ArenaAssumption DEF Store, Addrs

(* copy_down towards lower addresses moves its range and nothing else.     *)
LEMMA CopyAt ==
  ASSUME NEW m, NEW src \in Int, NEW dst \in Int, NEW n \in Int, NEW x \in Addrs,
         n = 0 \/ dst <= src
  PROVE  /\ dst <= x /\ x < dst + n => CopyDown(m, src, dst, n)[x] = m[src + (x - dst)]
         /\ ~(dst <= x /\ x < dst + n) => CopyDown(m, src, dst, n)[x] = m[x]
<1>1. ASSUME dst <= x, x < dst + n PROVE CopyDown(m, src, dst, n)[x] = m[src + (x - dst)]
  <2>1. dst <= src
    BY <1>1, ArenaAssumption DEF Addrs
  <2> QED BY <1>1, <2>1 DEF CopyDown
<1>2. ASSUME ~(dst <= x /\ x < dst + n) PROVE CopyDown(m, src, dst, n)[x] = m[x]
  BY <1>2 DEF CopyDown
<1> QED BY <1>1, <1>2

(* Elements end where the next one may start.                              *)
LEMMA SizeAligned ==
  ASSUME NEW n \in Nat, NEW e \in Elems
  PROVE  (n * e.size) % e.align = 0
<1>1. e.size \in Nat /\ e.align \in {1, 2, 4, 8, 16} /\ e.size % e.align = 0
  BY ArenaAssumption DEF Elem
<1>2. PICK q \in Nat : e.size = q * e.align
  <2>1. ASSUME NEW s \in Nat, NEW a \in {1, 2, 4, 8, 16}, s % a = 0
        PROVE  s \div a \in Nat /\ s = (s \div a) * a
    BY <2>1
  <2>2. e.size \div e.align \in Nat /\ e.size = (e.size \div e.align) * e.align
    BY ONLY <1>1, <2>1
  <2> QED BY <2>2
<1>3. n * q \in Nat /\ n * e.size = (n * q) * e.align
  BY <1>1, <1>2
<1>4. ASSUME NEW p \in Nat, NEW a \in {1, 2, 4, 8, 16} PROVE (p * a) % a = 0
  OBVIOUS
<1> QED BY <1>1, <1>3, <1>4

(* Aligned offsets stay aligned under aligned lengths.                     *)
LEMMA AlignedSum ==
  ASSUME NEW x \in Nat, NEW y \in Nat, NEW a \in {1, 2, 4, 8, 16},
         x % a = 0, y % a = 0
  PROVE  (x + y) % a = 0 /\ (y <= x => (x - y) % a = 0)
OBVIOUS

(* A handle whose range shrinks or stays, over bytes that stay, is intact. *)
LEMMA KeepsBytes ==
  ASSUME IInv, NEW k \in live, IntactAt(k), span'[k].lo = span[k].lo,
         span'[k].used \in Int, span'[k].used <= span[k].used,
         \A x \in Addrs : span[k].lo <= x /\ x < span'[k].used => mem'[x] = mem[x]
  PROVE  IntactAt(k)'
<1> SUFFICES ASSUME NEW x \in Addrs, span[k].lo <= x, x < span'[k].used
             PROVE  mem'[x] = [by |-> k, at |-> x - span[k].lo]
  BY DEF IntactAt
<1>1. x < span[k].used
  BY Types, ArenaAssumption DEF Addrs
<1> QED BY <1>1 DEF IntactAt

----------------------------------------------------------------------------
(* The builder's end                                                       *)

(* When an activation ends, the one below it is no builder.                *)
LEMMA PopTight ==
  ASSUME IInv, Depth > 0, stack' = Pop
  PROVE  BuilderTight'
<1> USE Types
<1>1. /\ stack' \in Seq(Activation) /\ Len(stack') = Depth - 1
      /\ \A d \in 1 .. Depth - 1 : stack'[d] = stack[d]
  BY PopFacts
<1>2. ASSUME Inside({"builder"})' PROVE FALSE
  <2>1. Depth' = Depth - 1 /\ Depth - 1 > 0 /\ Top' = stack'[Depth - 1]
    BY <1>1, <1>2 DEF Inside, Top, Depth
  <2>2. Depth - 1 \in 1 .. Depth /\ stack[Depth - 1].kind = "builder"
    BY <1>1, <1>2, <2>1 DEF Inside
  <2> QED BY <2>2 DEF IInv, StackOK, StackAt
<1> QED BY <1>2 DEF BuilderTight

(* What is opened on top is no builder, unless it is one.                  *)
LEMMA PushTight ==
  ASSUME IInv, NEW r \in Activation, r.kind # "builder", stack' = Append(stack, r)
  PROVE  BuilderTight'
<1>1. Top' = r
  BY Types, PushFacts DEF Top, Depth
<1> QED BY <1>1 DEF BuilderTight, Inside

(* A builder that no step touches stays tight.                             *)
LEMMA SameTight ==
  ASSUME IInv, BuilderTight, stack' = stack, offset' = offset,
         Inside({"builder"}) => span'[Top.i] = span[Top.i]
  PROVE  BuilderTight'
BY DEF BuilderTight, Inside, Top, Depth

(* Outside the innermost activation every byte lies below its entry.       *)
LEMMA OlderBelow ==
  ASSUME IInv, Depth > 0, NEW k \in live, span[k].owner # Depth,
         span[k].lo < span[k].used
  PROVE  span[k].used <= Top.saved
<1> USE Types
<1>1. span[k].lo < span[k].hi /\ span[k].used <= span[k].hi
  BY DEF IInv, HandleOK, HandleAt
<1>2. span[k].hi <= Top.saved /\ Top.saved \in Nat
  BY <1>1, PopFloor
<1> QED BY <1>1, <1>2

(* And every byte lies below the offset.                                   *)
LEMMA AllBelow ==
  ASSUME IInv, NEW k \in live, span[k].lo < span[k].used
  PROVE  span[k].used <= offset
<1> USE Types
<1>1. span[k].lo < span[k].hi /\ span[k].used <= span[k].hi
  BY DEF IInv, HandleOK, HandleAt
<1> QED BY <1>1, BelowTop

(* Two handles do not share an initialised byte.                           *)
LEMMA Apart ==
  ASSUME IInv, NEW k \in live, NEW i \in live, k # i,
         span[k].lo < span[k].used, span[i].lo < span[i].hi
  PROVE  span[k].used <= span[i].lo \/ span[i].hi <= span[k].lo
<1> USE Types
<1>1. span[k].lo < span[k].hi /\ span[k].used <= span[k].hi
  BY DEF IInv, HandleOK, HandleAt
<1>2. span[k].hi <= span[i].lo \/ span[i].hi <= span[k].lo
  BY <1>1 DEF IInv, Disjoint
<1> QED BY <1>1, <1>2

(* Every address is a natural number.                                      *)
LEMMA AddrsNat == \A x \in Addrs : x \in Nat /\ x \in Int /\ x < Size
BY ArenaAssumption DEF Addrs

----------------------------------------------------------------------------
(* One lemma per group of actions                                          *)

(* A step that writes nothing and at most adds an empty handle.            *)
LEMMA NothingWritten ==
  ASSUME CInv, mem' = mem,
         \A k \in live' : \/ k \in live /\ span'[k].lo = span[k].lo
                                        /\ span'[k].used = span[k].used
                          \/ span'[k].used = span'[k].lo /\ span'[k].lo \in Int
  PROVE  ContentsIntact'
<1> SUFFICES ASSUME NEW k \in live' PROVE IntactAt(k)'
  BY DEF ContentsIntact, IntactAt
<1>1. CASE k \in live /\ span'[k].lo = span[k].lo /\ span'[k].used = span[k].used
  BY <1>1 DEF CInv, ContentsIntact, IntactAt
<1>2. CASE span'[k].used = span'[k].lo /\ span'[k].lo \in Int
  BY <1>2, AddrsNat DEF IntactAt
<1> QED BY <1>1, <1>2

(* An activation ends and its handles die with it: scope, drop of a        *)
(* reserve.  What remains lies below the offset it returns to.             *)
LEMMA RewindOnly ==
  ASSUME CInv, Depth > 0, NEW o \in Int, Top.saved <= o, mem' = Rewind(mem, o),
         \A k \in live' : k \in live /\ span[k].owner # Depth /\ span'[k] = span[k]
  PROVE  ContentsIntact'
<1> USE Types, AddrsNat DEF CInv
<1> SUFFICES ASSUME NEW k \in live' PROVE IntactAt(k)'
  BY DEF ContentsIntact, IntactAt
<1>1. k \in live /\ span[k].owner # Depth /\ span'[k] = span[k] /\ IntactAt(k)
  BY DEF ContentsIntact, IntactAt
<1>2. ASSUME NEW x \in Addrs, span[k].lo <= x, x < span'[k].used PROVE mem'[x] = mem[x]
  <2>1. span[k].used <= Top.saved /\ Top.saved \in Nat
    BY <1>1, <1>2, OlderBelow, PopFloor
  <2>2. x < o
    BY <1>1, <1>2, <2>1
  <2> QED BY <2>2, RewindKeeps
<1> QED BY <1>1, <1>2, KeepsBytes

(* Scopes and direct allocations keep the contents.                        *)
LEMMA FrameStepContents ==
  ASSUME CInv, FrameStep
  PROVE  BuilderTight' /\ ContentsIntact'
<1> USE Types, AddrsNat DEF CInv
<1>0. \A e \in Elems : e.size \in Nat /\ e.align \in {1, 2, 4, 8, 16}
  BY ArenaAssumption DEF Elem
<1>a. ASSUME NEW e \in Elems PROVE Bump(e) \in Nat /\ offset <= Bump(e)
  <2>1. e.align \in {1, 2, 4, 8, 16} /\ offset \in Nat
    BY <1>0
  <2> QED BY <2>1, AlignUpFacts DEF Bump
<1>b. FrameFree /\ stack' = stack => BuilderTight'
  BY DEF FrameFree, Inside, Frames, BuilderTight, Top, Depth
<1>1. CASE OpenScope
  <2> DEFINE r == [kind |-> "scope", saved |-> offset, i |-> NoId, j |-> NoId]
  <2>1. r \in Activation /\ r.kind # "builder"
    BY DEF Activation
  <2>2. BuilderTight'
    BY <1>1, <2>1, PushTight DEF OpenScope
  <2> QED BY <1>1, <2>2, NothingWritten DEF OpenScope
<1>2. CASE CloseScope
  <2>1. /\ Depth > 0 /\ stack' = Pop /\ mem' = Rewind(mem, Top.saved)
        /\ live' = live \ Owned(Depth) /\ span' = Blanked(span, Owned(Depth))
    BY <1>2 DEF CloseScope, Inside, Release
  <2>2. \A k \in live' : k \in live /\ span[k].owner # Depth /\ span'[k] = span[k]
    BY <2>1 DEF Owned, Blanked
  <2>3. Top.saved \in Nat /\ Top.saved \in Int /\ Top.saved <= Top.saved
    BY <2>1, PopFloor
  <2> QED BY <2>1, <2>2, <2>3, PopTight, RewindOnly
<1>3. ASSUME NEW i \in Ids, NEW e \in Elems, Alloc(i, e)
      PROVE  BuilderTight' /\ ContentsIntact'
  <2> DEFINE a == Bump(e)
  <2>1. /\ FrameFree /\ i \notin live /\ live' = live \cup {i} /\ stack' = stack
        /\ mem' = Store(mem, i, a, 0, e.size)
        /\ span'[i].lo = a /\ span'[i].used = a + e.size
        /\ \A k \in live : span'[k] = span[k]
    BY <1>3 DEF Alloc, NewHandle
  <2>2. a \in Nat /\ offset <= a /\ e.size \in Nat
    BY <1>0, <1>a
  <2> HIDE DEF a
  <2>3. IntactAt(i)'
    <3> SUFFICES ASSUME NEW x \in Addrs, a <= x, x < a + e.size
                 PROVE  mem'[x] = [by |-> i, at |-> x - a]
      BY <2>1 DEF IntactAt
    <3>1. mem'[x] = [by |-> i, at |-> 0 + (x - a)]
      BY <2>1, <2>2, StoreHits
    <3> QED BY <2>2, <3>1
  <2>4. ASSUME NEW k \in live PROVE IntactAt(k)'
    <3>1. IntactAt(k) /\ span'[k] = span[k]
      BY <2>1 DEF ContentsIntact, IntactAt
    <3>2. ASSUME NEW x \in Addrs, span[k].lo <= x, x < span'[k].used PROVE mem'[x] = mem[x]
      <4>1. span[k].used <= offset
        BY <3>1, <3>2, AllBelow
      <4>2. x < a
        BY <2>2, <3>1, <3>2, <4>1
      <4>3. a \in Int /\ e.size \in Int /\ 0 \in Int
        BY <2>2
      <4>4. Store(mem, i, a, 0, e.size)[x] = mem[x]
        BY ONLY <4>2, <4>3, StoreKeeps, x \in Addrs
      <4> QED BY <2>1, <4>4
    <3> QED BY <3>1, <3>2, KeepsBytes
  <2> QED BY <1>b, <2>1, <2>3, <2>4 DEF ContentsIntact, IntactAt
<1>4. ASSUME NEW i \in Ids, NEW e \in Elems,
             Empty(i, e) \/ \E n \in 0 .. MaxCap : Vec(i, e, n)
      PROVE  BuilderTight' /\ ContentsIntact'
  <2>1. /\ FrameFree /\ live' = live \cup {i} /\ i \notin live /\ stack' = stack /\ mem' = mem
        /\ span'[i].lo = Bump(e) /\ span'[i].used = Bump(e)
        /\ \A k \in live : span'[k] = span[k]
    <3>1. CASE Empty(i, e)
      BY <3>1 DEF Empty, NewHandle
    <3>2. ASSUME NEW n \in 0 .. MaxCap, Vec(i, e, n)
          PROVE  /\ FrameFree /\ live' = live \cup {i} /\ i \notin live /\ stack' = stack /\ mem' = mem
                 /\ span'[i].lo = Bump(e) /\ span'[i].used = Bump(e)
                 /\ \A k \in live : span'[k] = span[k]
      BY <3>2 DEF Vec, NewHandle
    <3> QED BY <1>4, <3>1, <3>2
  <2> QED BY <1>a, <1>b, <2>1, NothingWritten
<1> QED BY <1>1, <1>2, <1>3, <1>4 DEF FrameStep

(* The operations of FBuilder keep the contents, and the builder tight.    *)
LEMMA BuilderStepContents ==
  ASSUME CInv, BuilderStep
  PROVE  BuilderTight' /\ ContentsIntact'
<1> USE Types, AddrsNat DEF CInv
<1>1. ASSUME NEW i \in Ids, NEW e \in Elems, BeginSpan(i, e)
      PROVE  BuilderTight' /\ ContentsIntact'
  <2> DEFINE r == [kind |-> "builder", saved |-> offset, i |-> i, j |-> NoId]
  <2>1. /\ i \notin live /\ live' = live \cup {i} /\ mem' = mem /\ offset' = Bump(e)
        /\ stack' = Append(stack, r)
        /\ span'[i].lo = Bump(e) /\ span'[i].used = Bump(e) /\ span'[i].hi = Bump(e)
        /\ span'[i].elem = e /\ \A k \in live : span'[k] = span[k]
    BY <1>1 DEF BeginSpan, NewHandle
  <2>2. e.align \in {1, 2, 4, 8, 16} /\ offset \in Nat
    BY ArenaAssumption DEF Elem
  <2>3. Bump(e) \in Nat /\ Bump(e) % e.align = 0
    BY <2>2, AlignUpFacts DEF Bump
  <2>4. Top' = r
    <3>1. r \in Activation
      BY DEF Activation
    <3> QED BY <2>1, <3>1, PushFacts DEF Top, Depth
  <2>5. BuilderTight'
    BY <2>1, <2>3, <2>4 DEF BuilderTight
  <2> QED BY <2>1, <2>3, <2>5, NothingWritten
<1>2. ASSUME NEW n \in 1 .. MaxCap, BuilderPush(n)
      PROVE  BuilderTight' /\ ContentsIntact'
  <2> DEFINE i == Top.i
             h == span[i]
             b == n * h.elem.size
  <2>1. Inside({"builder"}) /\ Inside({"builder", "reserve"}) /\ n \in Nat /\ Depth > 0
    BY <1>2, ArenaAssumption DEF BuilderPush, Inside
  <2>2. /\ i \in Ids /\ i \in live /\ h.elem \in Elems /\ h.elem.align \in {1, 2, 4, 8, 16}
        /\ h.lo \in Nat /\ h.used \in Nat /\ h.hi \in Nat /\ h.elem.size \in Nat
        /\ h.lo <= h.used /\ Top.saved <= h.lo /\ h.owner = Depth
        /\ \A k \in live : span[k].owner = Depth => k = i
    BY <2>1, OpenFacts
  <2>3. b \in Nat /\ b % h.elem.align = 0
    BY <2>1, <2>2, MulNat, SizeAligned
  <2>4. h.used = offset /\ h.hi = offset /\ offset % h.elem.align = 0
    BY <2>1 DEF BuilderTight
  <2>5. Bump(h.elem) = offset
    BY <2>4 DEF Bump, AlignUp
  <2>6. /\ offset' = offset + b /\ stack' = stack /\ live' = live
        /\ mem' = Store(mem, i, h.used, h.used - h.lo, b)
        /\ span'[i].lo = h.lo /\ span'[i].hi = h.hi + b /\ span'[i].used = h.used + b
        /\ span'[i].elem = h.elem /\ \A k \in live : k # i => span'[k] = span[k]
    BY <1>2, <2>2, <2>4, <2>5 DEF BuilderPush
  <2>7. Top' = Top
    BY <2>6 DEF Top
  <2>8. (offset + b) % h.elem.align = 0
    <3>1. offset \in Nat
      OBVIOUS
    <3> HIDE DEF h, b
    <3> QED BY ONLY <2>2, <2>3, <2>4, <3>1, AlignedSum
  <2> HIDE DEF b, h
  <2>a. /\ h.used - h.lo \in Int /\ h.used \in Int /\ b \in Int
    BY <2>2, <2>3
  <2>9. BuilderTight'
    BY <2>4, <2>6, <2>7, <2>8 DEF BuilderTight
  <2>10. IntactAt(i)'
    <3> SUFFICES ASSUME NEW x \in Addrs, h.lo <= x, x < h.used + b
                 PROVE  mem'[x] = [by |-> i, at |-> x - h.lo]
      BY <2>6, <2>7 DEF IntactAt
    <3>1. CASE x < h.used
      <4>1. mem[x] = [by |-> i, at |-> x - h.lo]
        BY <2>2, <3>1 DEF ContentsIntact, h
      <4>2. Store(mem, i, h.used, h.used - h.lo, b)[x] = mem[x]
        BY ONLY <2>a, <3>1, StoreKeeps, x \in Addrs
      <4> QED BY <2>6, <4>1, <4>2
    <3>2. CASE h.used <= x
      <4>1. Store(mem, i, h.used, h.used - h.lo, b)[x]
              = [by |-> i, at |-> (h.used - h.lo) + (x - h.used)]
        BY ONLY <2>a, <3>2, StoreHits, x < h.used + b, x \in Addrs
      <4>2. (h.used - h.lo) + (x - h.used) = x - h.lo
        BY <2>2
      <4> QED BY <2>6, <4>1, <4>2
    <3> QED BY <2>2, <3>1, <3>2
  <2>11. ASSUME NEW k \in live, k # i PROVE IntactAt(k)'
    <3>1. IntactAt(k) /\ span'[k] = span[k] /\ span[k].owner # Depth
      BY <2>2, <2>6, <2>11 DEF ContentsIntact, IntactAt
    <3>2. ASSUME NEW x \in Addrs, span[k].lo <= x, x < span'[k].used PROVE mem'[x] = mem[x]
      <4>1. span[k].used <= Top.saved /\ Top.saved \in Nat
        BY <2>1, <3>1, <3>2, OlderBelow, PopFloor
      <4>2. x < h.used
        BY <2>2, <3>1, <3>2, <4>1
      <4>3. Store(mem, i, h.used, h.used - h.lo, b)[x] = mem[x]
        BY ONLY <2>a, <4>2, StoreKeeps, x \in Addrs
      <4> QED BY <2>6, <4>3
    <3> QED BY <3>1, <3>2, KeepsBytes
  <2>12. ASSUME NEW k \in live' PROVE IntactAt(k)'
    <3>1. CASE k = i
      BY <2>7, <2>10, <3>1 DEF IntactAt
    <3>2. CASE k # i
      <4>1. k \in live
        BY <2>6
      <4> QED BY <2>11, <3>2, <4>1
    <3> QED BY <3>1, <3>2
  <2> QED BY <2>9, <2>12 DEF ContentsIntact, IntactAt
<1>3. CASE BuilderPop
  <2> DEFINE i == Top.i
             h == span[i]
             z == h.elem.size
  <2>1. Inside({"builder"}) /\ Inside({"builder", "reserve"}) /\ Depth > 0
    BY <1>3 DEF BuilderPop, Inside
  <2>2. /\ i \in Ids /\ i \in live /\ h.elem \in Elems /\ h.elem.align \in {1, 2, 4, 8, 16}
        /\ h.lo \in Nat /\ h.used \in Nat /\ h.hi \in Nat /\ z \in Nat
        /\ h.lo <= h.used /\ Top.saved <= h.lo /\ h.owner = Depth
        /\ \A k \in live : span[k].owner = Depth => k = i
    BY <2>1, OpenFacts
  <2>3. h.used = offset /\ h.hi = offset /\ offset % h.elem.align = 0
    BY <2>1 DEF BuilderTight
  <2>4. /\ h.lo + z <= h.used /\ offset' = offset - z /\ stack' = stack /\ live' = live
        /\ mem' = Rewind(mem, offset - z)
        /\ span'[i].lo = h.lo /\ span'[i].hi = h.hi - z /\ span'[i].used = h.used - z
        /\ span'[i].elem = h.elem /\ \A k \in live : k # i => span'[k] = span[k]
    BY <1>3, <2>2 DEF BuilderPop
  <2>5. Top' = Top
    BY <2>4 DEF Top
  <2>6. (offset - z) % h.elem.align = 0
    <3>1. z % h.elem.align = 0 /\ z <= offset
      BY <2>2, <2>3, <2>4, ArenaAssumption
    <3>2. offset \in Nat
      OBVIOUS
    <3> HIDE DEF h, z
    <3> QED BY ONLY <2>2, <3>1, <3>2, <2>3, AlignedSum
  <2> HIDE DEF z, h
  <2>7. BuilderTight'
    BY <2>3, <2>4, <2>5, <2>6 DEF BuilderTight
  <2>8. ASSUME NEW k \in live PROVE IntactAt(k)'
    <3>1. /\ IntactAt(k) /\ span'[k].lo = span[k].lo /\ span'[k].used \in Int
          /\ span'[k].used <= span[k].used
          /\ k = i => span[k].used - z = span'[k].used /\ span[k].used = offset
          /\ k # i => span[k].owner # Depth /\ span'[k] = span[k]
      <4>1. IntactAt(k)
        BY DEF ContentsIntact, IntactAt
      <4>2. CASE k = i
        BY <2>2, <2>3, <2>4, <4>1, <4>2 DEF h
      <4>3. CASE k # i
        BY <2>2, <2>4, <4>1, <4>3
      <4> QED BY <4>2, <4>3
    <3>2. ASSUME NEW x \in Addrs, span[k].lo <= x, x < span'[k].used PROVE mem'[x] = mem[x]
      <4>1. x < offset - z
        <5>1. CASE k = i
          BY <3>1, <3>2, <5>1
        <5>2. CASE k # i
          <6>1. span[k].used <= Top.saved /\ Top.saved \in Nat
            BY <2>1, <3>1, <3>2, <5>2, OlderBelow, PopFloor
          <6>2. x < h.lo /\ h.lo <= offset - z
            BY <2>2, <2>3, <2>4, <3>1, <3>2, <5>2, <6>1
          <6> QED BY <2>2, <6>2
        <5> QED BY <5>1, <5>2
      <4> QED BY <2>2, <2>4, <4>1, RewindKeeps
    <3> QED BY <3>1, <3>2, KeepsBytes
  <2> QED BY <2>4, <2>7, <2>8 DEF ContentsIntact, IntactAt
<1>4. CASE EndSpan
  <2>1. Depth > 0 /\ Inside({"builder", "reserve"}) /\ stack' = Pop /\ mem' = mem /\ live' = live
    BY <1>4 DEF EndSpan, Inside
  <2>2. \A k \in live : span'[k].lo = span[k].lo /\ span'[k].used = span[k].used
    BY <1>4, <2>1, OpenFacts DEF EndSpan
  <2> QED BY <2>1, <2>2, PopTight, NothingWritten
<1> QED BY <1>1, <1>2, <1>3, <1>4 DEF BuilderStep

(* Filling or emptying slots writes inside the handle's own range.         *)
LEMMA SlotsContents ==
  ASSUME CInv, NEW i \in live,
         \/ \E n \in 1 .. MaxCap : PushSlots(i, n)
         \/ \E u \in Offsets : TruncateSlots(i, u)
  PROVE  ContentsIntact'
<1> USE Types, AddrsNat DEF CInv
<1> DEFINE h == span[i]
<1>0. /\ i \in Ids /\ h.lo \in Nat /\ h.used \in Nat /\ h.hi \in Nat /\ h.elem.size \in Nat
      /\ h.lo <= h.used /\ h.used <= h.hi
  BY DEF IInv, HandleOK, HandleAt
<1>1. ASSUME NEW n \in 1 .. MaxCap, PushSlots(i, n) PROVE ContentsIntact'
  <2> DEFINE b == n * h.elem.size
  <2>1. n \in Nat /\ b \in Nat
    BY SMTT(60), <1>0, MulNat, ArenaAssumption
  <2>2. /\ h.used + b <= h.hi /\ live' = live
        /\ mem' = Store(mem, i, h.used, h.used - h.lo, b)
        /\ span'[i].lo = h.lo /\ span'[i].used = h.used + b
        /\ \A k \in live : k # i => span'[k] = span[k]
    BY <1>0, <1>1 DEF PushSlots
  <2> HIDE DEF b, h
  <2>3. h.used - h.lo \in Int /\ h.used \in Int /\ b \in Int
    BY <1>0, <2>1
  <2>4. IntactAt(i)'
    <3> SUFFICES ASSUME NEW x \in Addrs, h.lo <= x, x < h.used + b
                 PROVE  mem'[x] = [by |-> i, at |-> x - h.lo]
      BY <2>2 DEF IntactAt
    <3>1. CASE x < h.used
      <4>1. mem[x] = [by |-> i, at |-> x - h.lo]
        BY <1>0, <3>1 DEF ContentsIntact, h
      <4>2. Store(mem, i, h.used, h.used - h.lo, b)[x] = mem[x]
        BY ONLY <2>3, <3>1, StoreKeeps, x \in Addrs
      <4> QED BY <2>2, <4>1, <4>2
    <3>2. CASE h.used <= x
      <4>1. Store(mem, i, h.used, h.used - h.lo, b)[x]
              = [by |-> i, at |-> (h.used - h.lo) + (x - h.used)]
        BY ONLY <2>3, <3>2, StoreHits, x < h.used + b, x \in Addrs
      <4>2. (h.used - h.lo) + (x - h.used) = x - h.lo
        BY <1>0
      <4> QED BY <2>2, <4>1, <4>2
    <3> QED BY <1>0, <3>1, <3>2
  <2>5. ASSUME NEW k \in live, k # i PROVE IntactAt(k)'
    <3>1. IntactAt(k) /\ span'[k] = span[k] /\ span[k].used \in Nat /\ span[k].lo \in Nat
      BY <2>2, <2>5 DEF ContentsIntact, IntactAt
    <3>2. ASSUME NEW x \in Addrs, span[k].lo <= x, x < span'[k].used PROVE mem'[x] = mem[x]
      <4>1. x < h.used \/ h.used + b <= x
        <5>1. CASE b = 0
          BY <1>0, <5>1
        <5>2. CASE b # 0
          <6>1. h.lo < h.hi
            BY <1>0, <2>1, <2>2, <5>2
          <6>2. span[k].lo < span[k].used
            BY <3>1, <3>2
          <6>3. span[k].used <= h.lo \/ h.hi <= span[k].lo
            BY <2>5, <6>1, <6>2, Apart DEF h
          <6> QED BY <1>0, <2>1, <2>2, <3>1, <3>2, <6>3
        <5> QED BY <5>1, <5>2
      <4>2. Store(mem, i, h.used, h.used - h.lo, b)[x] = mem[x]
        BY ONLY <2>3, <4>1, StoreKeeps, x \in Addrs
      <4> QED BY <2>2, <4>2
    <3> QED BY <3>1, <3>2, KeepsBytes
  <2> QED BY <2>2, <2>4, <2>5 DEF ContentsIntact, IntactAt
<1>2. ASSUME NEW u \in Offsets, TruncateSlots(i, u) PROVE ContentsIntact'
  <2>1. /\ h.lo <= u /\ u < h.used /\ live' = live /\ mem' = Forget(mem, u, h.used)
        /\ span'[i].lo = h.lo /\ span'[i].used = u
        /\ \A k \in live : k # i => span'[k] = span[k]
    BY <1>0, <1>2 DEF TruncateSlots
  <2>2. u \in Nat /\ u \in Int /\ h.used \in Int
    BY <1>0, ArenaAssumption DEF Offsets
  <2> HIDE DEF h
  <2>3. ASSUME NEW k \in live PROVE IntactAt(k)'
    <3>1. /\ IntactAt(k) /\ span'[k].lo = span[k].lo /\ span'[k].used \in Int
          /\ span'[k].used <= span[k].used /\ span[k].used \in Nat /\ span[k].lo \in Nat
      <4>1. IntactAt(k)
        BY DEF ContentsIntact, IntactAt
      <4>2. CASE k = i
        BY <1>0, <2>1, <2>2, <4>1, <4>2 DEF h
      <4>3. CASE k # i
        BY <2>1, <4>1, <4>3
      <4> QED BY <4>2, <4>3
    <3>2. ASSUME NEW x \in Addrs, span[k].lo <= x, x < span'[k].used PROVE mem'[x] = mem[x]
      <4>1. ~(u <= x /\ x < h.used)
        <5>1. CASE k = i
          BY <2>1, <2>2, <3>2, <5>1
        <5>2. CASE k # i
          <6>1. h.lo < h.hi /\ span[k].lo < span[k].used /\ span'[k].used = span[k].used
            BY <1>0, <2>1, <2>2, <3>1, <3>2, <5>2
          <6>2. span[k].used <= h.lo \/ h.hi <= span[k].lo
            BY <5>2, <6>1, Apart DEF h
          <6> QED BY <1>0, <2>1, <2>2, <3>1, <3>2, <6>1, <6>2
        <5> QED BY <5>1, <5>2
      <4> QED BY <2>1, <2>2, <4>1, ForgetKeeps
    <3> QED BY <3>1, <3>2, KeepsBytes
  <2> QED BY <2>1, <2>3 DEF ContentsIntact, IntactAt
<1> QED BY <1>1, <1>2

(* The operations of FReserve keep the contents.                           *)
LEMMA ReserveStepContents ==
  ASSUME CInv, ReserveStep
  PROVE  BuilderTight' /\ ContentsIntact'
<1> USE Types, AddrsNat DEF CInv
<1>1. ASSUME NEW i \in Ids, NEW e \in Elems, NEW n \in 0 .. MaxCap, Reserve(i, e, n)
      PROVE  BuilderTight' /\ ContentsIntact'
  <2> DEFINE r == [kind |-> "reserve", saved |-> offset, i |-> i, j |-> NoId]
  <2>1. /\ i \notin live /\ live' = live \cup {i} /\ mem' = mem /\ stack' = Append(stack, r)
        /\ span'[i].lo = Bump(e) /\ span'[i].used = Bump(e)
        /\ \A k \in live : span'[k] = span[k]
    BY <1>1 DEF Reserve, NewHandle
  <2>2. e.align \in {1, 2, 4, 8, 16} /\ offset \in Nat
    BY ArenaAssumption DEF Elem
  <2>3. Bump(e) \in Nat
    BY <2>2, AlignUpFacts DEF Bump
  <2>4. r \in Activation /\ r.kind # "builder"
    BY DEF Activation
  <2>5. BuilderTight'
    BY <2>1, <2>4, PushTight
  <2> QED BY <2>1, <2>3, <2>5, NothingWritten
<1>2. ASSUME NEW i \in live, Inside({"reserve"}), i = Top.i,
             \/ \E n \in 1 .. MaxCap : PushSlots(i, n)
             \/ \E u \in Offsets : TruncateSlots(i, u)
      PROVE  BuilderTight' /\ ContentsIntact'
  <2>1. stack' = stack /\ offset' = offset /\ ~Inside({"builder"})
    BY <1>2 DEF PushSlots, TruncateSlots, Inside
  <2> QED BY <1>2, <2>1, SlotsContents, SameTight
<1>3. ASSUME NEW n \in 1 .. MaxCap, ReservePush(n) PROVE BuilderTight' /\ ContentsIntact'
  <2>1. Inside({"reserve"}) /\ Inside({"builder", "reserve"}) /\ PushSlots(Top.i, n)
    BY <1>3 DEF ReservePush, Inside
  <2>2. Top.i \in live
    BY <2>1, OpenFacts
  <2> QED BY <1>2, <2>1, <2>2
<1>4. ASSUME NEW u \in Offsets, ReserveTruncate(u) PROVE BuilderTight' /\ ContentsIntact'
  <2>1. Inside({"reserve"}) /\ Inside({"builder", "reserve"}) /\ TruncateSlots(Top.i, u)
    BY <1>4 DEF ReserveTruncate, Inside
  <2>2. Top.i \in live
    BY <2>1, OpenFacts
  <2> QED BY <1>2, <2>1, <2>2
<1>5. CASE Freeze
  <2> DEFINE h == span[Top.i]
  <2>1. /\ Depth > 0 /\ Inside({"builder", "reserve"}) /\ stack' = Pop /\ live' = live
        /\ mem' = Rewind(mem, h.used)
    BY <1>5 DEF Freeze, Inside
  <2>2. /\ Top.i \in live /\ Top.i \in Ids /\ Top.saved <= h.lo /\ h.lo <= h.used
        /\ h.lo \in Nat /\ h.used \in Nat /\ Top.saved \in Nat
        /\ \A k \in live : span[k].owner = Depth => k = Top.i
    BY <2>1, OpenFacts, PopFloor
  <2>3. \A k \in live : span'[k].lo = span[k].lo /\ span'[k].used = span[k].used
    BY <1>5, <2>2 DEF Freeze
  <2>4. ASSUME NEW k \in live PROVE IntactAt(k)'
    <3>1. IntactAt(k) /\ span[k].used \in Int /\ span[k].used <= span[k].used
      <4>1. span[k].used \in Nat
        OBVIOUS
      <4>2. IntactAt(k)
        BY DEF ContentsIntact, IntactAt
      <4> QED BY <4>1, <4>2
    <3>2. ASSUME NEW x \in Addrs, span[k].lo <= x, x < span'[k].used PROVE mem'[x] = mem[x]
      <4>1. x < h.used
        <5>1. CASE k = Top.i
          BY <2>3, <3>2, <5>1
        <5>2. CASE k # Top.i
          <6>1. span[k].used <= Top.saved
            BY <2>1, <2>2, <2>3, <3>2, <5>2, OlderBelow
          <6> QED BY <2>2, <2>3, <3>2, <6>1
        <5> QED BY <5>1, <5>2
      <4> QED BY <2>1, <2>2, <4>1, RewindKeeps
    <3> QED BY <2>3, <3>1, <3>2, KeepsBytes
  <2> QED BY <2>1, <2>4, PopTight DEF ContentsIntact, IntactAt
<1>6. CASE DropReserve
  <2> DEFINE o == span[Top.i].lo
  <2>1. /\ Depth > 0 /\ Inside({"builder", "reserve"}) /\ stack' = Pop
        /\ live' = live \ {Top.i} /\ mem' = Rewind(mem, o) /\ span' = Blanked(span, {Top.i})
    BY <1>6 DEF DropReserve, Inside
  <2>2. o \in Int /\ Top.saved <= o
    BY <2>1, OpenFacts
  <2>3. \A k \in live' : k \in live /\ span[k].owner # Depth /\ span'[k] = span[k]
    BY <2>1, OpenFacts DEF Blanked
  <2> HIDE DEF o
  <2> QED BY <2>1, <2>2, <2>3, PopTight, RewindOnly
<1> QED BY <1>1, <1>3, <1>4, <1>5, <1>6 DEF ReserveStep

(* What a handle's owner may do with it keeps the contents.                *)
LEMMA HandleStepContents ==
  ASSUME CInv, HandleStep
  PROVE  BuilderTight' /\ ContentsIntact'
<1> USE Types DEF CInv
<1>0. ASSUME NEW i \in live, span[i].kind \in {"vec", "span"}, stack' = stack, offset' = offset,
             \A k \in live : k # i => span'[k] = span[k]
      PROVE  BuilderTight'
  <2>1. ASSUME Inside({"builder"}) PROVE span'[Top.i] = span[Top.i]
    <3>1. Inside({"builder", "reserve"})
      BY <2>1 DEF Inside
    <3> QED BY <1>0, <3>1, OpenFacts
  <2> QED BY <1>0, <2>1, SameTight
<1>1. ASSUME NEW i \in Ids,
             \/ \E n \in 1 .. MaxCap : VecPush(i, n)
             \/ \E u \in Offsets : VecTruncate(i, u)
      PROVE  BuilderTight' /\ ContentsIntact'
  <2>1. /\ i \in live /\ span[i].kind \in {"vec", "span"}
        /\ \/ \E n \in 1 .. MaxCap : PushSlots(i, n)
           \/ \E u \in Offsets : TruncateSlots(i, u)
    BY <1>1 DEF VecPush, VecTruncate
  <2>2. /\ stack' = stack /\ offset' = offset
        /\ \A k \in live : k # i => span'[k] = span[k]
    BY <2>1 DEF PushSlots, TruncateSlots
  <2> QED BY <1>0, <2>1, <2>2, SlotsContents
<1>2. ASSUME NEW i \in Ids, IntoFSpan(i) \/ IntoFVec(i)
      PROVE  BuilderTight' /\ ContentsIntact'
  <2>1. /\ i \in live /\ span[i].kind \in {"vec", "span"} /\ stack' = stack
        /\ offset' = offset /\ live' = live /\ mem' = mem
        /\ \A k \in live : /\ span'[k].lo = span[k].lo /\ span'[k].used = span[k].used
                           /\ k # i => span'[k] = span[k]
    <3>1. CASE IntoFSpan(i)
      BY <3>1 DEF IntoFSpan
    <3>2. CASE IntoFVec(i)
      BY <3>2 DEF IntoFVec
    <3> QED BY <1>2, <3>1, <3>2
  <2> QED BY <1>0, <2>1, NothingWritten
<1> QED BY <1>1, <1>2 DEF HandleStep

(* compact keeps the contents: its result slides down, forward.            *)
LEMMA EndCompactContents ==
  ASSUME CInv, NEW r \in Ids, EndCompact(r)
  PROVE  BuilderTight' /\ ContentsIntact'
<1> USE Types, AddrsNat DEF CInv
<1> DEFINE h == span[r]
           b == h.used - h.lo
           dst == AlignUp(Top.saved, h.elem.align)
<1>1. /\ Depth > 0 /\ stack' = Pop /\ r \in live /\ h.owner = Depth
      /\ live' = live \ (Owned(Depth) \ {r})
      /\ mem' = Rewind(CopyDown(mem, h.lo, dst, b), dst + b)
      /\ span' = [Blanked(span, Owned(Depth) \ {r}) EXCEPT ![r] = Slid(h, dst, b)]
  BY DEF EndCompact, Inside, Owned, Release
<1>2. /\ h.lo \in Nat /\ h.used \in Nat /\ h.elem.align \in {1, 2, 4, 8, 16}
      /\ Top.saved \in Nat
  BY <1>1, PopFloor
<1>3. h.lo <= h.used /\ Top.saved <= h.lo /\ h.lo % h.elem.align = 0
  BY <1>1 DEF IInv, HandleOK, HandleAt, Top, Depth
<1>4. b \in Nat
  BY <1>2, <1>3
<1>5. dst \in Nat /\ Top.saved <= dst /\ dst <= h.lo
  <2>1. /\ AlignUp(Top.saved, h.elem.align) \in Nat
        /\ Top.saved <= AlignUp(Top.saved, h.elem.align)
    BY <1>2, AlignUpFacts
  <2>2. AlignUp(Top.saved, h.elem.align) <= h.lo
    BY <1>2, <1>3, AlignUpLeast
  <2> QED BY <2>1, <2>2
<1>6. /\ span'[r].lo = dst /\ span'[r].used = dst + b
      /\ \A k \in live' : k # r => k \in live /\ span[k].owner # Depth /\ span'[k] = span[k]
  BY <1>1 DEF Blanked, Slid, Owned
<1>7. h.lo \in Int /\ dst \in Int /\ b \in Int /\ dst + b \in Int /\ (b = 0 \/ dst <= h.lo)
  BY <1>2, <1>4, <1>5
<1>a. h.used = h.lo + b
  BY <1>2
<1> HIDE DEF h, b, dst
<1>8. IntactAt(r)'
  <2> SUFFICES ASSUME NEW x \in Addrs, dst <= x, x < dst + b
               PROVE  mem'[x] = [by |-> r, at |-> x - dst]
    BY <1>6 DEF IntactAt
  <2> DEFINE y == h.lo + (x - dst)
  <2>1. mem'[x] = CopyDown(mem, h.lo, dst, b)[x]
    BY <1>1, <1>7, RewindKeeps
  <2>2. CopyDown(mem, h.lo, dst, b)[x] = mem[y]
    BY <1>7, CopyAt
  <2>3. h.lo <= y /\ y < h.used /\ y - h.lo = x - dst /\ y \in Nat
    <3>1. x \in Nat
      OBVIOUS
    <3> QED BY ONLY <1>2, <1>4, <1>5, <1>a, <3>1, dst <= x, x < dst + b
  <2>4. y \in Addrs
    <3>1. h.used <= offset
      BY <1>1, <1>2, <2>3, AllBelow DEF h
    <3> HIDE DEF y
    <3> QED BY <1>2, <2>3, <3>1 DEF Addrs
  <2> HIDE DEF y
  <2>5. mem[y] = [by |-> r, at |-> y - h.lo]
    BY <1>1, <2>3, <2>4 DEF ContentsIntact, h
  <2> QED BY <2>1, <2>2, <2>3, <2>5
<1>9. ASSUME NEW k \in live', k # r PROVE IntactAt(k)'
  <2>1. /\ k \in live /\ IntactAt(k) /\ span'[k] = span[k] /\ span[k].owner # Depth
    BY <1>6, <1>9 DEF ContentsIntact, IntactAt
  <2>2. span[k].used \in Nat /\ span[k].lo \in Nat
    BY <2>1
  <2>3. ASSUME NEW x \in Addrs, span[k].lo <= x, x < span'[k].used PROVE mem'[x] = mem[x]
    <3>1. span[k].used <= Top.saved
      BY <1>1, <2>1, <2>2, <2>3, OlderBelow
    <3>2. x < dst
      BY <1>2, <1>5, <2>1, <2>2, <2>3, <3>1
    <3>3. x < dst + b
      BY <1>4, <1>5, <3>2
    <3>4. mem'[x] = CopyDown(mem, h.lo, dst, b)[x]
      BY <1>1, <1>7, <3>3, RewindKeeps
    <3>5. ~(dst <= x /\ x < dst + b)
      BY <1>5, <3>2
    <3> QED BY <1>7, <3>4, <3>5, CopyAt
  <2> QED BY <2>1, <2>2, <2>3, KeepsBytes
<1>10. ContentsIntact'
  <2>1. \A k \in live' : IntactAt(k)'
    BY <1>8, <1>9
  <2> QED BY <2>1 DEF ContentsIntact, IntactAt
<1> QED BY <1>1, <1>10, PopTight

(* So does replace2: the second copy never reads what the first one wrote. *)
LEMMA EndReplace2Contents ==
  ASSUME CInv, NEW n1 \in Ids, NEW n2 \in Ids, EndReplace2(n1, n2)
  PROVE  BuilderTight' /\ ContentsIntact'
<1> USE Types, AddrsNat DEF CInv
<1> DEFINE h1 == span[n1]
           h2 == span[n2]
           start == span[Top.i].lo
           b1 == h1.used - h1.lo
           b2 == h2.used - h2.lo
           dst == AlignUp(start + b1, h2.elem.align)
           end == dst + b2
           m1 == CopyDown(mem, h1.lo, start, b1)
           m2 == CopyDown(m1, h2.lo, dst, b2)
<1>1. /\ Inside({"replace2"}) /\ Depth > 0 /\ stack' = Pop
      /\ n1 # n2 /\ n1 \in live /\ n2 \in live /\ h1.owner = Depth /\ h2.owner = Depth
      /\ h1.elem = span[Top.i].elem /\ h2.elem = span[Top.j].elem
      /\ h1.used = h1.lo \/ h2.used = h2.lo \/ h1.used <= h2.lo
  BY DEF EndReplace2, Inside, Owned
<1>2. /\ mem' = Rewind(m2, end)
      /\ live' = (live \ (Owned(Depth) \ {n1, n2})) \ {Top.i, Top.j}
      /\ span' = [Blanked(span, (Owned(Depth) \ {n1, n2}) \cup {Top.i, Top.j}) EXCEPT
                     ![n1] = Slid(h1, start, b1), ![n2] = Slid(h2, dst, b2)]
  BY DEF EndReplace2, Release, RotateStart
<1>3. /\ h1.lo \in Nat /\ h1.used \in Nat /\ h2.lo \in Nat /\ h2.used \in Nat
      /\ h1.elem.align \in {1, 2, 4, 8, 16} /\ h2.elem.align \in {1, 2, 4, 8, 16}
      /\ start \in Nat /\ Top.saved \in Nat
  BY <1>1, RotationFacts, PopFloor
<1>4. /\ Top.saved <= h1.lo /\ Top.saved <= h2.lo /\ h1.lo <= h1.used /\ h2.lo <= h2.used
      /\ h1.lo % h1.elem.align = 0 /\ h2.lo % h2.elem.align = 0
  BY <1>1, RotationFacts DEF IInv, HandleOK, HandleAt
<1>5. b1 \in Nat /\ b2 \in Nat
  BY <1>3, <1>4
<1>6. start <= h1.lo /\ start <= h2.lo
  <2>1. AlignUp(Top.saved, h1.elem.align) <= h1.lo /\ AlignUp(Top.saved, h2.elem.align) <= h2.lo
    BY <1>3, <1>4, AlignUpLeast
  <2>2. AlignUp(Top.saved, h1.elem.align) \in Nat /\ AlignUp(Top.saved, h2.elem.align) \in Nat
    BY <1>3, AlignUpFacts
  <2>3. /\ start <= AlignUp(Top.saved, h1.elem.align)
        /\ start <= AlignUp(Top.saved, h2.elem.align)
    BY <1>1, RotationFacts
  <2> QED BY <1>3, <2>1, <2>2, <2>3
<1>7. /\ start + b1 \in Nat /\ dst \in Nat /\ start + b1 <= dst
  <2>1. start + b1 \in Nat
    BY <1>3, <1>5
  <2>2. /\ AlignUp(start + b1, h2.elem.align) \in Nat
        /\ start + b1 <= AlignUp(start + b1, h2.elem.align)
    BY <1>3, <2>1, AlignUpFacts
  <2> QED BY <2>1, <2>2
<1>8. b2 = 0 \/ dst <= h2.lo
  <2>1. CASE b2 # 0
    <3>1. h1.used = h1.lo \/ h1.used <= h2.lo
      BY <1>1, <1>3, <2>1
    <3>2. start + b1 <= h2.lo
      BY <1>3, <1>6, <3>1
    <3> QED BY <1>3, <1>4, <1>7, <3>2, AlignUpLeast
  <2> QED BY <2>1
<1>9. /\ n1 \notin {Top.i, Top.j} /\ n2 \notin {Top.i, Top.j}
      /\ span'[n1].lo = start /\ span'[n1].used = start + b1
      /\ span'[n2].lo = dst /\ span'[n2].used = end
  <2>1. n1 \notin {Top.i, Top.j} /\ n2 \notin {Top.i, Top.j}
    BY <1>1, RotationFacts
  <2> HIDE DEF dst, b1, b2, h1, h2, start, end, m1, m2
  <2>2. span'[n1] = Slid(h1, start, b1) /\ span'[n2] = Slid(h2, dst, b2)
    BY <1>1, <1>2 DEF Blanked
  <2> QED BY <2>1, <2>2 DEF Slid, end
<1>10. \A k \in live' : k \notin {n1, n2} => /\ k \in live /\ span[k].owner # Depth
                                            /\ span'[k] = span[k] /\ k \notin {Top.i, Top.j}
  <2> HIDE DEF dst, b1, b2, h1, h2, start, end, m1, m2
  <2> QED BY <1>2 DEF Owned, Blanked
<1>11. ASSUME NEW k \in live, span[k].owner # Depth, k \notin {Top.i, Top.j},
              span[k].lo < span[k].used
       PROVE  span[k].used <= start
  <2>1. /\ span[k].owner \in 1 .. Depth /\ span[k].lo < span[k].hi /\ span[k].used <= span[k].hi
    BY <1>11 DEF IInv, HandleOK, HandleAt
  <2>2. CASE span[k].owner = Depth - 1
    <3>1. span[k].hi <= start
      BY <1>1, <1>11, <2>2, RotationFacts
    <3> QED BY <1>3, <2>1, <3>1
  <2>3. CASE span[k].owner # Depth - 1
    <3>1. Depth - 1 \in 1 .. Depth /\ span[k].owner < Depth - 1
      BY SMTT(60), <1>1, <1>11, <2>1, <2>3, RotationFacts
    <3>2. stack[Depth - 1].saved <= start /\ stack[Depth - 1].saved \in Nat
      BY <1>1, <3>1, RotationFacts
    <3>3. span[k].hi <= stack[Depth - 1].saved
      BY <2>1, <3>1, BelowTop
    <3> QED BY <1>3, <2>1, <3>2, <3>3
  <2> QED BY <2>2, <2>3
<1>12. /\ h1.lo \in Int /\ h2.lo \in Int /\ start \in Int /\ dst \in Int /\ b1 \in Int /\ b2 \in Int
       /\ end \in Int /\ end = dst + b2 /\ dst <= end
  <2>1. end = dst + b2
    OBVIOUS
  <2> HIDE DEF dst, b1, b2, h1, h2, start, end
  <2> QED BY <1>3, <1>5, <1>7, <2>1
<1>13. h1.used = h1.lo + b1 /\ h2.used = h2.lo + b2
  BY <1>3
<1> HIDE DEF dst, b1, b2, h1, h2, start, end
(* What the first copy leaves.                                             *)
<1>14. ASSUME NEW x \in Addrs
       PROVE  /\ start <= x /\ x < start + b1 => m1[x] = mem[h1.lo + (x - start)]
              /\ ~(start <= x /\ x < start + b1) => m1[x] = mem[x]
  BY <1>6, <1>12, CopyAt
<1> HIDE DEF m1
(* What the second copy leaves.                                            *)
<1>15. ASSUME NEW x \in Addrs
       PROVE  /\ dst <= x /\ x < dst + b2 => m2[x] = m1[h2.lo + (x - dst)]
              /\ ~(dst <= x /\ x < dst + b2) => m2[x] = m1[x]
  BY <1>8, <1>12, CopyAt
<1> HIDE DEF m2
<1>16. IntactAt(n1)'
  <2> SUFFICES ASSUME NEW x \in Addrs, start <= x, x < start + b1
               PROVE  mem'[x] = [by |-> n1, at |-> x - start]
    BY <1>9 DEF IntactAt
  <2> DEFINE y == h1.lo + (x - start)
  <2>1. x < dst /\ x < end
    BY <1>3, <1>7, <1>12
  <2>2. mem'[x] = m2[x]
    BY <1>2, <1>12, <2>1, RewindKeeps
  <2>3. m2[x] = m1[x]
    BY <1>12, <1>15, <2>1
  <2>4. m1[x] = mem[y]
    BY <1>14
  <2>5. h1.lo <= y /\ y < h1.used /\ y - h1.lo = x - start /\ y \in Nat
    <3>1. x \in Nat
      OBVIOUS
    <3> QED BY ONLY <1>3, <1>5, <1>13, <3>1, start <= x, x < start + b1
  <2> HIDE DEF y
  <2>6. y \in Addrs
    <3>1. h1.used <= offset
      BY <1>1, <1>3, <2>5, AllBelow DEF h1
    <3> QED BY <1>3, <2>5, <3>1 DEF Addrs
  <2>7. mem[y] = [by |-> n1, at |-> y - h1.lo]
    BY <1>1, <2>5, <2>6 DEF ContentsIntact, h1
  <2> QED BY <2>2, <2>3, <2>4, <2>5, <2>7
<1>17. IntactAt(n2)'
  <2> SUFFICES ASSUME NEW x \in Addrs, dst <= x, x < end
               PROVE  mem'[x] = [by |-> n2, at |-> x - dst]
    BY <1>9 DEF IntactAt
  <2> DEFINE y == h2.lo + (x - dst)
  <2>1. mem'[x] = m2[x]
    BY <1>2, <1>12, RewindKeeps
  <2>2. m2[x] = m1[y]
    BY <1>12, <1>15
  <2>3. h2.lo <= y /\ y < h2.used /\ y - h2.lo = x - dst /\ y \in Nat /\ b2 # 0
    <3>1. x \in Nat
      OBVIOUS
    <3> QED BY ONLY <1>3, <1>5, <1>7, <1>12, <1>13, <3>1, dst <= x, x < end
  <2>4. ~(start <= y /\ y < start + b1)
    BY <1>3, <1>7, <1>8, <1>12, <2>3
  <2> HIDE DEF y
  <2>5. y \in Addrs
    <3>1. h2.used <= offset
      BY <1>1, <1>3, <2>3, AllBelow DEF h2
    <3> QED BY <1>3, <2>3, <3>1 DEF Addrs
  <2>6. m1[y] = mem[y]
    BY <1>14, <2>4, <2>5
  <2>7. mem[y] = [by |-> n2, at |-> y - h2.lo]
    BY <1>1, <2>3, <2>5 DEF ContentsIntact, h2
  <2> QED BY <2>1, <2>2, <2>3, <2>6, <2>7
<1>18. ASSUME NEW k \in live', k \notin {n1, n2} PROVE IntactAt(k)'
  <2>1. /\ k \in live /\ IntactAt(k) /\ span'[k] = span[k] /\ span[k].owner # Depth
        /\ k \notin {Top.i, Top.j}
    BY <1>10, <1>18 DEF ContentsIntact, IntactAt
  <2>2. span[k].used \in Nat /\ span[k].lo \in Nat
    BY <2>1
  <2>3. ASSUME NEW x \in Addrs, span[k].lo <= x, x < span'[k].used PROVE mem'[x] = mem[x]
    <3>1. span[k].used <= start
      BY <1>11, <2>1, <2>2, <2>3
    <3>2. x < start
      BY <1>12, <2>1, <2>2, <2>3, <3>1
    <3>3. x < dst /\ x < end
      BY <1>5, <1>7, <1>12, <3>2
    <3>4. mem'[x] = m2[x]
      BY <1>2, <1>12, <3>3, RewindKeeps
    <3> QED BY <1>12, <1>14, <1>15, <3>2, <3>3, <3>4
  <2> QED BY <2>1, <2>2, <2>3, KeepsBytes
<1>19. ContentsIntact'
  <2>1. \A k \in live' : IntactAt(k)'
    BY <1>16, <1>17, <1>18
  <2> QED BY <2>1 DEF ContentsIntact, IntactAt
<1> QED BY <1>1, <1>19, PopTight

(* Entering compact or replace2 writes nothing, and leaving them keeps     *)
(* what they pass on.                                                      *)
LEMMA SlideStepContents ==
  ASSUME CInv, SlideStep
  PROVE  BuilderTight' /\ ContentsIntact'
<1> USE Types DEF CInv
<1>1. CASE BeginCompact
  <2> DEFINE r == [kind |-> "compact", saved |-> offset, i |-> NoId, j |-> NoId]
  <2>1. r \in Activation /\ r.kind # "builder"
    BY DEF Activation
  <2>2. BuilderTight'
    BY <1>1, <2>1, PushTight DEF BeginCompact
  <2> QED BY <1>1, <2>2, NothingWritten DEF BeginCompact
<1>2. ASSUME NEW i \in Ids, NEW j \in Ids, BeginReplace2(i, j)
      PROVE  BuilderTight' /\ ContentsIntact'
  <2> DEFINE r == [kind |-> "replace2", saved |-> offset, i |-> i, j |-> j]
  <2>1. r \in Activation /\ r.kind # "builder"
    BY DEF Activation
  <2>2. BuilderTight'
    BY <1>2, <2>1, PushTight DEF BeginReplace2
  <2>3. /\ mem' = mem /\ live' = live
        /\ \A k \in live : span'[k].lo = span[k].lo /\ span'[k].used = span[k].used
    <3>1. i # j /\ span' = [span EXCEPT ![i].kind = "lent", ![j].kind = "lent"]
      BY <1>2 DEF BeginReplace2
    <3>2. \A k \in Ids : span'[k].lo = span[k].lo /\ span'[k].used = span[k].used
      BY SMTT(60), <3>1 DEF Handle
    <3> QED BY <1>2, <3>2 DEF BeginReplace2
  <2> QED BY <2>2, <2>3, NothingWritten
<1> QED BY <1>1, <1>2, EndCompactContents, EndReplace2Contents DEF SlideStep

(* The pages given back to the kernel start at or above the offset.        *)
LEMMA UncommitTailContents ==
  ASSUME CInv, UncommitTail
  PROVE  BuilderTight' /\ ContentsIntact'
<1> USE Types, AddrsNat DEF CInv
<1> DEFINE end == TailStart + RoundUp(TailLen)
           from == TailStart - Base
           to == end - Base
<1>1. /\ Base \in Nat /\ TailStart \in Nat /\ Base + offset <= TailStart /\ end \in Nat
      /\ ~(TailStart <= Base + Size /\ Base + Size < end)
  BY TailFacts
<1>3. from \in Int /\ to \in Int /\ offset <= from
  BY <1>1
<1>4. /\ mem' = Forget(mem, from, to) /\ live' = live /\ span' = span /\ stack' = stack
  BY DEF UncommitTail
<1>5. offset' = offset
  BY <1>1 DEF UncommitTail
<1>6. BuilderTight'
  BY <1>4, <1>5, SameTight
<1> HIDE DEF end, from, to
<1>7. ASSUME NEW k \in live PROVE IntactAt(k)'
  <2>1. IntactAt(k)
    BY DEF ContentsIntact, IntactAt
  <2>2. span[k].used \in Nat /\ span[k].lo \in Nat /\ span[k].used <= span[k].used
    <3>1. span[k].used \in Nat /\ span[k].lo \in Nat
      OBVIOUS
    <3> QED BY <3>1
  <2>3. ASSUME NEW x \in Addrs, span[k].lo <= x, x < span'[k].used PROVE mem'[x] = mem[x]
    <3>1. span[k].used <= offset
      BY <1>4, <2>2, <2>3, AllBelow
    <3>2. ~(from <= x /\ x < to)
      BY <1>3, <1>4, <2>2, <2>3, <3>1
    <3> QED BY <1>3, <1>4, <3>2, ForgetKeeps
  <2> QED BY <1>4, <2>1, <2>2, <2>3, KeepsBytes
<1> QED BY <1>4, <1>6, <1>7 DEF ContentsIntact, IntactAt

----------------------------------------------------------------------------
(* The theorems                                                            *)

(* Every step of the allocator preserves the invariant of the contents.    *)
LEMMA StepContents ==
  ASSUME CInv, [Next]_vars
  PROVE  CInv'
<1> USE DEF CInv
<1>1. IInv'
  BY StepInv
<1>2. CASE Overflow
  <2>1. stack' = << >> /\ live' = {}
    BY <1>2 DEF Overflow
  <2>2. ~Inside({"builder"})'
    BY <2>1 DEF Inside, Depth
  <2> QED BY <1>1, <2>1, <2>2 DEF BuilderTight, ContentsIntact
<1>3. CASE /\ FrameStep \/ BuilderStep \/ ReserveStep \/ HandleStep
              \/ SlideStep \/ UncommitTail
           /\ UNCHANGED aborted
  BY <1>1, <1>3, FrameStepContents, BuilderStepContents, ReserveStepContents,
     HandleStepContents, SlideStepContents, UncommitTailContents
<1>4. CASE UNCHANGED vars
  BY <1>1, <1>4 DEF vars, BuilderTight, ContentsIntact, Inside, Top, Depth
<1> QED BY <1>2, <1>3, <1>4 DEF Next

(* The ranges of IInv and the builder's exact end carry the contents       *)
(* through every slide, rewind, freeze and page handed back.               *)
THEOREM ContentsInductive == Spec => []CInv
<1>1. Init => CInv
  <2> SUFFICES ASSUME Init PROVE CInv
    OBVIOUS
  <2>1. IInv
    BY EmptyState DEF Init
  <2>2. live = {} /\ ~Inside({"builder"})
    BY DEF Init, Inside, Depth
  <2> QED BY <2>1, <2>2 DEF CInv, BuilderTight, ContentsIntact
<1>2. CInv /\ [Next]_vars => CInv'
  BY StepContents
<1> QED BY <1>1, <1>2, PTL DEF Spec

(* What was written through a box, span, vec, builder or reserve is what   *)
(* it reads back, whatever was pushed, slid by compact or replace2,        *)
(* rewound, frozen or given to the kernel by uncommit_tail in between.     *)
THEOREM ArenaContentsIntact == Spec => []ContentsIntact
<1>1. CInv => ContentsIntact
  BY DEF CInv
<1> QED BY <1>1, ContentsInductive, PTL

=============================================================================
