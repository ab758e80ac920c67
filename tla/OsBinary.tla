------------------------------ MODULE OsBinary ------------------------------
(***************************************************************************)
(* The OSSerializeBinary decoder, src/osbinary.rs.  The kernel serialises  *)
(* a tree of items in pre-order and numbers every item it emits; an item   *)
(* it has emitted before is written as a reference to that number.  parse  *)
(* walks the stream once with a counter of owed items instead of a stack,  *)
(* and keeps the offset of every stride-th object in a table of fixed      *)
(* size.  A reference is resolved by scanning on from the checkpoint       *)
(* before it.                                                              *)
(*                                                                         *)
(* The walk reads a tag as the kernel wrote it: the model chooses the tag  *)
(* then, and notes what the kernel knew, its numbered objects and who is   *)
(* whose child.                                                            *)
(***************************************************************************)
EXTENDS Integers, Sequences, FiniteSets

CONSTANTS
  Caps,      (* lengths of ckpts_buf                                      *)
  Keys,      (* the texts of symbols                                      *)
  MaxKids,   (* bound: items of one container                             *)
  MaxItems   (* bound: items of one blob                                  *)

ASSUME OsBinaryAssumption == Caps \subseteq Nat \ {0} /\ {MaxKids, MaxItems} \subseteq Nat

VARIABLES
  blob,      (* offset -> the tag there                                   *)
  objsArray, (* the kernel's: offsets of the objects in emission order    *)
  tree,      (* the kernel's: containers still open, and the items of all *)
  pc,        (* off, walk, parsed, None, seek, found                      *)
  cursor, remaining, count,    (* of walk                                 *)
  ckpts,     (* Ckpts: buf of n entries, room for cap, and stride         *)
  scan       (* of nth_object: idx, offset, i                             *)

walking == <<blob, objsArray, tree, cursor, remaining, count, ckpts>>
ovars   == <<walking, pc, scan>>

----------------------------------------------------------------------------
(* Tags                                                                    *)

Tag(ty, operand, key) == [ty |-> ty, operand |-> operand, key |-> key]

NoKey == "none"

Tags ==
  {Tag(ty, n, NoKey) : ty \in {"dict", "array", "object"}, n \in Nat}
  \cup {Tag("number", 64, NoKey)} \cup {Tag("symbol", 2, k) : k \in Keys}

IsRef(tag) == tag.ty = "object"

Pairs(tag) == IF tag.ty = "dict" THEN 2 ELSE 1

(* Items that a tag brings with it.                                        *)
Kids(tag) == IF tag.ty \in {"dict", "array"} THEN Pairs(tag) * tag.operand ELSE 0

(* scalar_step, in bytes; four for a reference.                            *)
Padded(len) == 4 * ((len + 3) \div 4)
scalar_step(tag) ==
  CASE tag.ty = "number" -> 12
    [] tag.ty = "symbol" -> 4 + Padded(tag.operand)
    [] OTHER -> 4

----------------------------------------------------------------------------
(* Checkpoints                                                             *)

(* Half the density: the entries at even indices, counted from 0.          *)
(* Mutant: the odd ones.                                                   *)
HalvedOdd(c) ==
  [c EXCEPT !.stride = 2 * @, !.buf = [k \in 1 .. Len(@) \div 2 |-> @[2 * k]]]
Halved(c) ==
  [c EXCEPT !.stride = 2 * @,
            !.buf = [k \in 1 .. (Len(@) + 1) \div 2 |-> @[2 * k - 1]]]

Due(c, n) == n % c.stride = 0

Push(c, offset) == [c EXCEPT !.buf = Append(@, offset)]

(* Ckpts::record.  Mutant: the object is entered without a second look at  *)
(* its number when the stride has just doubled.                            *)
RecordOnce(c, n, offset) ==
  IF ~Due(c, n) THEN c
  ELSE Push(IF Len(c.buf) < c.cap THEN c ELSE Halved(c), offset)
record(c, n, offset) ==
  IF ~Due(c, n) THEN c
  ELSE IF Len(c.buf) < c.cap THEN Push(c, offset)
  ELSE IF Due(Halved(c), n) THEN Push(Halved(c), offset)
  ELSE Halved(c)

----------------------------------------------------------------------------
(* parse                                                                   *)

Extend(f, x, y) == [z \in DOMAIN f \cup {x} |-> IF z = x THEN y ELSE f[z]]

(* The kernel's view of an item at cursor: the innermost container that    *)
(* still wants items gets it, and a container is opened.                   *)
Plant(tag) ==
  LET open == tree.open
      rest == IF open = <<>> THEN <<>>
              ELSE IF Head(open).wants = 1 THEN Tail(open)
              ELSE <<[Head(open) EXCEPT !.wants = @ - 1]>> \o Tail(open)
      mine == [at |-> cursor, wants |-> Kids(tag)]
  IN [open  |-> IF Kids(tag) = 0 THEN rest ELSE <<mine>> \o rest,
      items |-> [o \in DOMAIN tree.items \cup {cursor} |->
                   IF o = cursor THEN <<>>
                   ELSE IF open # <<>> /\ Head(open).at = o
                     THEN Append(tree.items[o], cursor)
                   ELSE tree.items[o]]]

Consume(tag) ==
  /\ blob' = Extend(blob, cursor, tag)
  /\ tree' = Plant(tag)
  /\ cursor' = cursor + scalar_step(tag)
  /\ remaining' = remaining - 1 + Kids(tag)
  /\ UNCHANGED <<pc, scan>>

Walking == pc = "walk" /\ remaining > 0

(* A tag that is an object of its own.                                     *)
WalkObject(tag) ==
  /\ Walking /\ ~IsRef(tag)
  /\ Consume(tag)
  /\ objsArray' = Append(objsArray, cursor)
  /\ ckpts' = record(ckpts, count, cursor)
  /\ count' = count + 1

(* A reference emits nothing, and may only point back.                     *)
WalkRef(tag) ==
  /\ Walking /\ IsRef(tag) /\ tag.operand < count
  /\ Consume(tag)
  /\ UNCHANGED <<objsArray, ckpts, count>>

(* The blob ends, a tag is unknown, or a reference points ahead.           *)
Malformed ==
  /\ Walking
  /\ pc' = "None"
  /\ UNCHANGED <<walking, scan>>

Parsed ==
  /\ pc = "walk" /\ remaining = 0
  /\ pc' = "parsed"
  /\ UNCHANGED <<walking, scan>>

----------------------------------------------------------------------------
(* nth_object                                                              *)

NoScan == [idx |-> 0, offset |-> 0, i |-> 0]

(* Jump to the checkpoint at or below idx.                                 *)
Seek(idx) ==
  /\ pc = "parsed" /\ idx < count
  /\ LET ck == idx \div ckpts.stride
     IN scan' = [idx |-> idx, offset |-> ckpts.buf[ck + 1], i |-> ck * ckpts.stride]
  /\ pc' = "seek"
  /\ UNCHANGED walking

Here == blob[scan.offset]

SkipRef ==
  /\ pc = "seek" /\ IsRef(Here)
  /\ scan' = [scan EXCEPT !.offset = @ + 4]
  /\ UNCHANGED <<walking, pc>>

PassObject ==
  /\ pc = "seek" /\ ~IsRef(Here) /\ scan.i # scan.idx
  /\ scan' = [scan EXCEPT !.offset = @ + scalar_step(Here), !.i = @ + 1]
  /\ UNCHANGED <<walking, pc>>

Arrive ==
  /\ pc = "seek" /\ ~IsRef(Here) /\ scan.i = scan.idx
  /\ pc' = "found"
  /\ UNCHANGED <<walking, scan>>

Return ==
  /\ pc = "found"
  /\ pc' = "parsed" /\ scan' = NoScan
  /\ UNCHANGED walking

----------------------------------------------------------------------------
(* Lookups by key, in terms of what nth_object answers                     *)

resolve(offset) ==
  IF IsRef(blob[offset]) THEN objsArray[blob[offset].operand + 1] ELSE offset

(* walk without a table: the end of the item at start, subtree and all.    *)
(* No walk reads more tags than the stream has words.                      *)
(* Mutant: the items of a container are not counted in.                    *)
TagEnd(start) == start + scalar_step(blob[start])
ItemEnd(start) ==
  LET after[tags \in 0 .. cursor \div 4] ==
        IF tags = 0 THEN [at |-> start, owed |-> 1]
        ELSE LET w == after[tags - 1]
             IN IF w.owed = 0 THEN w
                ELSE [at   |-> w.at + scalar_step(blob[w.at]),
                      owed |-> w.owed - 1 + Kids(blob[w.at])]
  IN after[cursor \div 4].at

(* The cursor of a lookup that has skipped n items.                        *)
ItemAfter(first, n) ==
  LET at[k \in 0 .. n] == IF k = 0 THEN first ELSE ItemEnd(at[k - 1])
  IN at[n]

KeyAt(offset) == blob[resolve(offset)].key

(* The offset of the value, or 0.                                          *)
find_dict(dict, key) ==
  LET at == resolve(dict)
      pairs == blob[at].operand
      search[left \in 0 .. pairs] ==
        IF left = 0 THEN 0
        ELSE LET o == ItemAfter(at + 4, 2 * (pairs - left))
             IN IF KeyAt(o) = key THEN ItemEnd(o) ELSE search[left - 1]
  IN IF blob[at].ty = "dict" THEN search[pairs] ELSE 0

(* for_each_array: the offsets it calls f with.                            *)
for_each_array(arr) ==
  LET at == resolve(arr)
  IN IF blob[at].ty = "array"
     THEN [n \in 1 .. blob[at].operand |-> ItemAfter(at + 4, n - 1)]
     ELSE <<>>

----------------------------------------------------------------------------
OInit(start) ==
  /\ blob = <<>> /\ objsArray = <<>> /\ tree = [open |-> <<>>, items |-> <<>>]
  /\ pc = start /\ cursor = 4 /\ remaining = 1 /\ count = 0
  /\ ckpts \in {[buf |-> <<>>, cap |-> n, stride |-> 1] : n \in Caps}
  /\ scan = NoScan

(* Tags within the bounds.                                                 *)
Fitting ==
  {tag \in {Tag(ty, n, NoKey) : ty \in {"dict", "array"}, n \in 0 .. MaxKids}
           \cup {Tag("object", n, NoKey) : n \in 0 .. count}
           \cup {Tag("number", 64, NoKey)} \cup {Tag("symbol", 2, k) : k \in Keys} :
     Cardinality(DOMAIN blob) + remaining + Kids(tag) <= MaxItems}

ONext ==
  \/ \E tag \in Fitting : WalkObject(tag) \/ WalkRef(tag)
  \/ Malformed \/ Parsed
  \/ \E idx \in 0 .. count - 1 : Seek(idx)
  \/ SkipRef \/ PassObject \/ Arrive \/ Return

OSpec == OInit("walk") /\ [][ONext]_ovars

----------------------------------------------------------------------------
(* Properties                                                              *)

(* The struct's comment: ckpts[i] is the offset of emitted object number   *)
(* i * stride, and every multiple of stride below count is present.        *)
CkptsExact ==
  /\ \A k \in 1 .. Len(ckpts.buf) :
       /\ (k - 1) * ckpts.stride < count
       /\ ckpts.buf[k] = objsArray[(k - 1) * ckpts.stride + 1]
  /\ count <= Len(ckpts.buf) * ckpts.stride

(* A reference resolves to the object the kernel gave that number, through *)
(* however many doublings of the stride and references in between.         *)
SeekExact == pc = "found" => scan.offset = objsArray[scan.idx + 1]

(* A lookup that skips values by counting owed items finds what the        *)
(* kernel's tree holds: the value of the first pair with that key, and the *)
(* elements of an array, also through references.                          *)
LookupExact ==
  pc = "parsed" => \A o \in DOMAIN blob :
    LET at == resolve(o)
        items == tree.items[at]
        KeyHits(key) == {n \in 1 .. blob[at].operand : KeyAt(items[2 * n - 1]) = key}
    IN /\ blob[at].ty = "array" => for_each_array(o) = items
       /\ blob[at].ty = "dict" => \A key \in Keys :
            find_dict(o, key) =
              IF KeyHits(key) = {} THEN 0
              ELSE items[2 * (CHOOSE n \in KeyHits(key) : \A m \in KeyHits(key) : n <= m)]

============================================================================
