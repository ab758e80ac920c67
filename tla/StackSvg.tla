------------------------------ MODULE StackSvg ------------------------------
(***************************************************************************)
(* tools/stack-svg, which tells how much stack ltop may need: the call     *)
(* graph and the frame sizes are read from a disassembly and from the      *)
(* binary's sections, the calls are walked from the entry, and the events  *)
(* of the walk become rectangles: the frames of functions, and in them     *)
(* the frames' parts that belong to inlined calls.                         *)
(***************************************************************************)
EXTENDS Integers, Sequences, SequencesExt

CONSTANTS
  Names,        (* of functions, the entry "main" among them               *)
  Binaries,     (* see the assumption                                      *)
  MAX_DEPTH,
  MAX_EVENTS,
  INLINED_MIN_BYTES

ASSUME StackAssumption ==
  /\ {MAX_DEPTH, MAX_EVENTS, INLINED_MIN_BYTES} \subseteq Nat \ {0}
  /\ \A b \in Binaries :
       /\ b.format \in {"elf", "macho"}
       /\ \A n \in DOMAIN b.listing : b.listing[n].to \in Names
       /\ \A n \in DOMAIN b.symbols : b.symbols[n].name \in Names
       /\ DOMAIN b.frames \cup DOMAIN b.dies \subseteq {s.addr : s \in Range(b.symbols)}

VARIABLES
  bin,
  phase,           (* off, scan, join, walk, draw, done, error             *)
  line,            (* of the listing, or the event that is next            *)
  current,         (* the function whose body the line is in, or "none"    *)
  found_size,
  calls,           (* name -> targets, in the order first seen             *)
  sizes,           (* name -> frame size by its prologue                   *)
  stack_by_name,
  addr_by_name,
  path,            (* open calls: the function and the targets left        *)
  ev,
  cur, peak,
  open_real, open_inlined,
  rects, markers

scanning == <<line, current, found_size, calls, sizes>>
joined   == <<stack_by_name, addr_by_name>>
drawing  == <<cur, peak, open_real, open_inlined, rects, markers>>
svars    == <<bin, phase, scanning, joined, path, ev, drawing>>

----------------------------------------------------------------------------
(* The listing, as objdump_calls and objdump_frame_sizes read it           *)

Read(kind) ==
  /\ phase = "scan" /\ line <= Len(bin.listing)
  /\ bin.listing[line].is = kind
  /\ line' = line + 1
  /\ UNCHANGED <<bin, phase, joined, path, ev, drawing>>

(* The body that ends here had no prologue.                                *)
Sized == IF current = "none" \/ found_size THEN sizes ELSE (current :> 0) @@ sizes

Header ==
  /\ Read("header")
  /\ current' = bin.listing[line].to /\ found_size' = FALSE
  /\ sizes' = Sized
  /\ UNCHANGED calls

(* A direct call, or a jump to the entry of a function.                    *)
CallLine ==
  /\ Read("call")
  /\ LET to == bin.listing[line].to
     IN calls' = IF current = "none" \/ to \in Range(calls[current]) THEN calls
                 ELSE [calls EXCEPT ![current] = Append(@, to)]
  /\ UNCHANGED <<current, found_size, sizes>>

(* sub sp, or stp with a writeback: the first counts.                      *)
Prologue ==
  /\ Read("sub")
  /\ IF current = "none" \/ found_size
       THEN UNCHANGED <<found_size, sizes>>
       ELSE sizes' = (current :> bin.listing[line].size) @@ sizes /\ found_size' = TRUE
  /\ UNCHANGED <<current, calls>>

(* A call or a jump into the middle of a function (fn+0xN) is dropped,     *)
(* whether it is the function that the line is in or another one.          *)
IntoLine == Read("into") /\ UNCHANGED <<current, found_size, calls, sizes>>

(* What is neither a call, nor a jump, nor a prologue.                     *)
OtherLine == Read("other") /\ UNCHANGED <<current, found_size, calls, sizes>>

EndListing ==
  /\ phase = "scan" /\ line > Len(bin.listing)
  /\ sizes' = Sized
  /\ phase' = "join"
  /\ UNCHANGED <<bin, line, current, found_size, calls, joined, path, ev, drawing>>

----------------------------------------------------------------------------
(* run: sizes and addresses by name                                        *)

Addrs == {s.addr : s \in Range(bin.symbols)}

(* objdump_symtab: of the names of an address, the last one.               *)
demangled == [a \in Addrs |-> SelectLastInSeq(bin.symbols, LAMBDA s : s.addr = a)]
AddrsOf(n) == {a \in Addrs : bin.symbols[demangled[a]].name = n}

(* The symbols of the section itself, for names that demangling keeps.     *)
Plain(n) == SelectSeq(bin.symbols, LAMBDA s : s.name = n /\ s.plain)

Known == {n \in Names : AddrsOf(n) # {} \/ (bin.format = "elf" /\ Plain(n) # <<>>)}

(* Several functions may have one demangled name.  The order in which they *)
(* come out of the hash map decides which address the name gets, and which *)
(* size.                                                                   *)
AddrChoices(n) == IF AddrsOf(n) # {} THEN AddrsOf(n) ELSE {Plain(n)[1].addr}
SizeChoices(n, addr) ==
  LET with == AddrsOf(n) \cap DOMAIN bin.frames
      plain == SelectSeq(Plain(n), LAMBDA s : s.addr \in DOMAIN bin.frames)
  IN IF addr \in with THEN {bin.frames[addr]}
     ELSE IF with # {} THEN {bin.frames[a] : a \in with}
     ELSE IF plain # <<>> THEN {bin.frames[plain[1].addr]} ELSE {}

NoSizes == IF bin.format = "elf" THEN bin.frames = <<>> ELSE sizes = <<>>

StartWalk ==
  /\ phase' = "walk"
  /\ path' = <<[name |-> "none", left |-> <<"main">>]>>
  /\ UNCHANGED <<bin, scanning, ev, drawing>>

JoinElf ==
  /\ phase = "join" /\ bin.format = "elf" /\ ~NoSizes /\ "main" \in Known
  /\ addr_by_name' \in {f \in [Known -> Addrs] : \A n \in Known : f[n] \in AddrChoices(n)}
  /\ LET named == {n \in Known : SizeChoices(n, addr_by_name'[n]) # {}}
     IN stack_by_name' \in {f \in [named -> Range(bin.frames)] :
                              \A n \in named : f[n] \in SizeChoices(n, addr_by_name'[n])}
  /\ StartWalk

JoinMachO ==
  /\ phase = "join" /\ bin.format = "macho" /\ ~NoSizes /\ "main" \in Known
  /\ addr_by_name' \in {f \in [Known -> Addrs] : \A n \in Known : f[n] \in AddrChoices(n)}
  /\ stack_by_name' = sizes
  /\ StartWalk

(* run returns an error: no sizes, or no entry.                            *)
JoinFails ==
  /\ phase = "join" /\ (NoSizes \/ "main" \notin Known)
  /\ phase' = "error"
  /\ UNCHANGED <<bin, scanning, joined, path, ev, drawing>>

----------------------------------------------------------------------------
(* The inlined calls of a function, from the tree of its debug entries:    *)
(* calls ("inlined", with a name), scopes ("block"), locals at an offset   *)
(* of the frame ("local", with a size), and other locals ("elsewhere").    *)

RECURSIVE Locals(_), Inlined(_), EveryLocal(_)

(* local_frame_range: the bytes lo .. hi - 1 of the frame, eight of them   *)
(* if the type's size is not known (here -1).                              *)
FrameRange(v) ==
  [of |-> v.of, lo |-> v.at, hi |-> v.at + IF v.size < 0 THEN 8 ELSE v.size]

(* Mutant of Locals: those of the calls inlined in turn are counted too,   *)
(* as they once were.                                                      *)
EveryLocal(die) ==
  UNION {IF kid.tag = "local" THEN {FrameRange(kid)} ELSE EveryLocal(kid) :
           kid \in Range(die.kids)}

(* A call's own locals: in its body and the body's blocks.                 *)
Locals(die) ==
  UNION {CASE kid.tag = "local" -> {FrameRange(kid)} [] kid.tag = "block" -> Locals(kid) [] OTHER -> {} :
           kid \in Range(die.kids)}

Lowest(S) == CHOOSE n \in S : \A m \in S : n <= m
Highest(S)  == CHOOSE n \in S : \A m \in S : m <= n

(* collect_inlined, build_inlined: a range of one byte stands for none.    *)
Inlined(die) ==
  FlattenSeq([n \in DOMAIN die.kids |->
    LET kid == die.kids[n]
        lo == Lowest({v.lo : v \in Locals(kid)})
        hi == Highest({v.hi : v \in Locals(kid)})
        none == Locals(kid) = {} \/ hi <= lo
    IN CASE kid.tag = "block" -> Inlined(kid)
         [] kid.tag = "inlined" -> <<[name |-> kid.name, lo |-> IF none THEN 0 ELSE lo,
                                      hi |-> IF none THEN 1 ELSE hi, kids |-> Inlined(kid)]>>
         [] OTHER -> <<>>])

Inlines(n) ==
  IF bin.format = "elf" /\ n \in Known /\ addr_by_name[n] \in DOMAIN bin.dies
    THEN Inlined(bin.dies[addr_by_name[n]]) ELSE <<>>

Event(kind, name, lo, hi) == [is |-> kind, name |-> name, lo |-> lo, hi |-> hi]

RECURSIVE emit_inlined(_, _)
emit_inlined(events, ic) ==
  IF Len(events) >= MAX_EVENTS THEN events
  ELSE IF ic.hi - ic.lo < INLINED_MIN_BYTES THEN FoldLeft(emit_inlined, events, ic.kids)
  ELSE Append(FoldLeft(emit_inlined,
                       Append(events, Event("inlined", ic.name, ic.lo, ic.hi)), ic.kids),
              Event("end", ic.name, 0, 0))

----------------------------------------------------------------------------
(* walk_r                                                                  *)

InCall == phase = "walk" /\ path # <<>>
here == path[Len(path)]
depth == Len(path) - 1

(* The visit of the next target, without the path's change by a push.      *)
Visit(name) ==
  /\ InCall /\ here.left # <<>> /\ name = Head(here.left)
  /\ UNCHANGED <<bin, phase, scanning, joined, drawing>>
Passed == [path EXCEPT ![Len(path)].left = Tail(@)]

Cut == Len(ev) >= MAX_EVENTS \/ depth > MAX_DEPTH

(* on_path.  Mutant: a function is counted once it has been entered at all.*)
EverEntered(name) == Cardinality({n \in DOMAIN ev : ev[n].is = "push" /\ ev[n].name = name})
OnPath(name) == Cardinality({n \in DOMAIN path : path[n].name = name})

Bound(name) ==
  LET n == IF name \in DOMAIN bin.bound THEN bin.bound[name] ELSE bin.default
  IN IF n > 1 THEN n ELSE 1

SkipVisit ==
  \E name \in Names : Visit(name) /\ Cut /\ path' = Passed /\ UNCHANGED ev

Loop ==
  \E name \in Names :
    /\ Visit(name) /\ ~Cut /\ OnPath(name) >= Bound(name)
    /\ path' = Passed /\ ev' = Append(ev, Event("loop", name, 0, 0))

Unknown ==
  \E name \in Names :
    /\ Visit(name) /\ ~Cut /\ OnPath(name) < Bound(name)
    /\ name \notin DOMAIN stack_by_name
    /\ path' = Passed /\ ev' = Append(ev, Event("unknown", name, 0, 0))

Enter ==
  \E name \in DOMAIN stack_by_name :
    /\ Visit(name) /\ ~Cut /\ OnPath(name) < Bound(name)
    /\ path' = Append(Passed, [name |-> name, left |-> calls[name]])
    /\ ev' = FoldLeft(emit_inlined, Append(ev, Event("push", name, 0, stack_by_name[name])),
                      Inlines(name))

Leave ==
  /\ InCall /\ here.left = <<>> /\ depth > 0
  /\ path' = Front(path) /\ ev' = Append(ev, Event("pop", here.name, 0, 0))
  /\ UNCHANGED <<bin, phase, scanning, joined, drawing>>

EndWalk ==
  /\ InCall /\ here.left = <<>> /\ depth = 0
  /\ path' = <<>> /\ phase' = "draw" /\ line' = 1
  /\ UNCHANGED <<bin, current, found_size, calls, sizes, joined, ev, drawing>>

----------------------------------------------------------------------------
(* build_rects                                                             *)

Draw(kind) ==
  /\ phase = "draw" /\ line <= Len(ev) /\ ev[line].is = kind
  /\ line' = line + 1
  /\ UNCHANGED <<bin, phase, current, found_size, calls, sizes, joined, path, ev>>

Opening(lo, hi, kind) == [name |-> ev[line].name, start |-> line, lo |-> lo, hi |-> hi, kind |-> kind]
Rect(open, at) == [name |-> open.name, start |-> open.start, end |-> at,
                     lo |-> open.lo, hi |-> open.hi, kind |-> open.kind]

OpenReal ==
  /\ Draw("push")
  /\ cur' = cur + ev[line].hi
  /\ peak' = IF cur' > peak THEN cur' ELSE peak
  /\ open_real' = Append(open_real, Opening(cur, cur', "real"))
  /\ UNCHANGED <<open_inlined, rects, markers>>

(* Mutant of Back: the frame of a function that has returned is kept.      *)
Stay(open) == open.hi
Back(open) == open.lo

CloseReal ==
  /\ Draw("pop")
  /\ open_real # <<>> /\ open_real' = Front(open_real)
  /\ rects' = rects \cup {Rect(Last(open_real), line)}
  /\ cur' = Back(Last(open_real))
  /\ UNCHANGED <<peak, open_inlined, markers>>

(* Clipped to the frame, below by its start and above by its end.          *)
OpenInlined ==
  /\ Draw("inlined")
  /\ LET parent == Last(open_real)
         lo == IF ev[line].lo > 0 THEN parent.lo + ev[line].lo ELSE parent.lo
         to == IF parent.lo + ev[line].hi > lo THEN parent.lo + ev[line].hi ELSE lo + 1
         hi == IF to < parent.hi THEN to ELSE parent.hi
     IN open_inlined' = Append(open_inlined, Opening(lo, hi, "inlined"))
  /\ UNCHANGED <<cur, peak, open_real, rects, markers>>

CloseInlined ==
  /\ Draw("end")
  /\ open_inlined # <<>> /\ open_inlined' = Front(open_inlined)
  /\ rects' = rects \cup {Rect(Last(open_inlined), line)}
  /\ UNCHANGED <<cur, peak, open_real, markers>>

Mark(kind) ==
  /\ Draw(kind)
  /\ markers' = markers \cup {[name |-> ev[line].name, at |-> line, offset |-> cur, kind |-> kind]}
  /\ UNCHANGED <<cur, peak, open_real, open_inlined, rects>>

(* What is still open ends with the last event.                            *)
EndDraw ==
  /\ phase = "draw" /\ line > Len(ev)
  /\ phase' = "done"
  /\ rects' = rects \cup {Rect(open, line) : open \in Range(open_real \o open_inlined)}
  /\ open_real' = <<>> /\ open_inlined' = <<>>
  /\ UNCHANGED <<bin, scanning, joined, path, ev, cur, peak, markers>>

----------------------------------------------------------------------------
SInit(first) ==
  /\ phase = first /\ bin \in Binaries
  /\ line = 1 /\ current = "none" /\ found_size = FALSE
  /\ calls = [n \in Names |-> <<>>] /\ sizes = <<>>
  /\ stack_by_name = <<>> /\ addr_by_name = <<>>
  /\ path = <<>> /\ ev = <<>>
  /\ cur = 0 /\ peak = 0 /\ open_real = <<>> /\ open_inlined = <<>>
  /\ rects = {} /\ markers = {}

SNext ==
  \/ Header \/ CallLine \/ Prologue \/ IntoLine \/ OtherLine \/ EndListing
  \/ JoinElf \/ JoinMachO \/ JoinFails
  \/ SkipVisit \/ Loop \/ Unknown \/ Enter \/ Leave \/ EndWalk
  \/ OpenReal \/ CloseReal \/ OpenInlined \/ CloseInlined
  \/ Mark("loop") \/ Mark("unknown") \/ EndDraw

----------------------------------------------------------------------------
(* Properties                                                              *)

(* The function a line of the listing is in, and the functions it calls:   *)
(* at their entry, for that is all that the code keeps (see MiddleCalls).  *)
BodyOf(n) == LET heads == {m \in 1 .. n : bin.listing[m].is = "header"}
             IN IF heads = {} THEN "none" ELSE bin.listing[Highest(heads)].to
Callees(name) == {bin.listing[n].to : n \in {m \in DOMAIN bin.listing :
                    bin.listing[m].is = "call" /\ BodyOf(m) = name}}

(* Chains of calls from the entry, by their length: of functions of known  *)
(* size, each as often as its bound lets it recurse.                       *)
Chain(c) ==
  /\ Range(c) \subseteq DOMAIN stack_by_name
  /\ \A name \in Range(c) : Cardinality({n \in DOMAIN c : c[n] = name}) <= Bound(name)
Chains[n \in 1 .. MAX_DEPTH + 1] ==
  IF n = 1 THEN {c \in {<<"main">>} : Chain(c)}
  ELSE {c \in UNION {{Append(c, name) : name \in Callees(Last(c))} : c \in Chains[n - 1]} :
          Chain(c)}
Stack(c) == FoldLeft(LAMBDA sum, name : sum + stack_by_name[name], 0, c)
Deepest == Highest({0} \cup {Stack(c) : c \in UNION {Chains[n] : n \in 1 .. MAX_DEPTH + 1}})

(* The peak that the tool reports, which the stack of ltop is judged by,   *)
(* is what the deepest chain of calls to entries of functions needs: no    *)
(* path to a function hides another, deeper one, and returns are taken     *)
(* off.  Only a walk that the limit on events cut short may report less.   *)
PeakExact ==
  phase = "done" =>
    /\ peak <= Deepest
    /\ Len(ev) < MAX_EVENTS => peak = Deepest

(* Of the doc of objdump_calls, a call into the middle of a function is    *)
(* still a call to that function.  The code drops it, so that neither the  *)
(* walk nor the peak knows of it.                                          *)
MiddleCalls ==
  phase = "done" => \A n \in DOMAIN bin.listing :
    LET to == bin.listing[n].to
    IN bin.listing[n].is = "into" /\ BodyOf(n) \notin {"none", to} => to \in Range(calls[BodyOf(n)])

Real == {r \in rects : r.kind = "real"}
Around(r) == {s \in Real : s.start < r.start /\ r.start < s.end}
Innermost(r) == CHOOSE s \in Around(r) : \A t \in Around(r) : t.start <= s.start

(* The drawing is a stack at every event: a frame sits on its caller's,    *)
(* the entry's on the ground, and closes before its caller's does.         *)
FramesStack ==
  phase = "done" => \A r \in Real :
    IF Around(r) = {} THEN r.lo = 0
    ELSE r.lo = Innermost(r).hi /\ r.end < Innermost(r).end

(* An inlined call is drawn from the first to the last byte of the locals  *)
(* of its own body (`of`, which only this property reads), not of calls    *)
(* inlined in it, and never past the frame that they are in.               *)
OwnBytes(r) == {v \in UNION {EveryLocal(bin.dies[a]) : a \in DOMAIN bin.dies} : v.of = r.name}
InlinedOwn ==
  phase = "done" => \A r \in rects \ Real :
    LET frame == Innermost(r)
        lo == Lowest({v.lo : v \in OwnBytes(r)})
        hi == Highest({v.hi : v \in OwnBytes(r)})
    IN /\ frame.lo <= r.lo /\ r.hi <= frame.hi /\ r.end < frame.end
       /\ 0 <= lo /\ hi <= frame.hi - frame.lo => r.lo = frame.lo + lo /\ r.hi = frame.lo + hi

=============================================================================
