------------------------------ MODULE Reclaim ------------------------------
(***************************************************************************)
(* What ltop gives back to the kernel before its first tick: src/start.rs  *)
(* on Linux, main and mac_run_then_exit of src/main.rs with                *)
(* unmap_idle_state of src/mac_sys.rs on macOS.  Both move the stack       *)
(* pointer to the top page of the stack's region, by what a probe tells of *)
(* its bounds, and drop the pages below; macOS then walks the regions of   *)
(* the process from address 0 and unmaps those that hold nothing it needs. *)
(*                                                                         *)
(* Addresses are counted in pages of the kernel's size, which AT_PAGESZ    *)
(* and the constant PAGE state; a region is a range of pages.              *)
(***************************************************************************)
EXTENDS Integers

CONSTANTS
  Spaces,    (* address spaces at entry, as sets of regions               *)
  Huge,      (* pages of 32 MiB: a reservation dyld goes on using         *)
  MaxRegions (* regions that unmap_idle_state looks at                    *)

Apart(r, s) == r.hi <= s.lo \/ s.hi <= r.lo
Adjoin(r, s) == r.hi = s.lo
Kind(space, what) == {r \in space : r.what = what}

(* Regions are apart and none is at page 0; the stack is one region, and   *)
(* so is the text.                                                         *)
Distinct(space) ==
  /\ \A r, s \in space :
       /\ r.lo \in Nat \ {0} /\ r.hi \in Nat /\ r.lo < r.hi
       /\ r = s \/ Apart(r, s)
  /\ \A what \in {"stack", "text"} : \A r, s \in Kind(space, what) : r = s

(* Nothing within reach of the stack but what madvise does not drop, as    *)
(* the comment of ltop_entry has it; on macOS the walk only goes down.     *)
Fenced(space) ==
  \A r \in Kind(space, "stack"), s \in space :
    /\ Adjoin(s, r) => s.what = "guard"
    /\ Adjoin(r, s) => s.what = "guard" \/ Kind(space, "text") # {}

(* On macOS there is an arena, without a gap; guard and pool are what Huge *)
(* is for, and the zones are none of these.                                *)
Furnished(space) ==
  Kind(space, "text") # {} =>
    /\ \E first, last \in Kind(space, "arena") : \A r \in Kind(space, "arena") :
         first.lo <= r.lo /\ r.hi <= last.hi
    /\ \A r, s \in Kind(space, "arena"), q \in Kind(space, "zone") :
         ~(r.hi <= q.lo /\ q.hi <= s.lo)
    /\ \A r \in space :
         /\ r.what \in {"stack", "text", "arena", "pool", "guard", "zone"}
         /\ r.what \in {"pool", "guard"} => Huge <= r.hi - r.lo
         /\ r.what = "zone" => r.hi - r.lo < Huge

ReclaimAssumption ==
  /\ {Huge, MaxRegions} \subseteq Nat \ {0}
  /\ \A space \in Spaces : Distinct(space) /\ Fenced(space) /\ Furnished(space)
ASSUME ReclaimAssumption

VARIABLES
  os,        (* "linux" or "macos"                                        *)
  regions,   (* of [lo, hi, what]; what is for the properties and the     *)
             (* kernel's answers: stack, text, arena, pool, guard, zone   *)
  given,     (* the regions at entry                                      *)
  dirty,     (* pages with contents of their own                          *)
  sp,        (* the page of the stack pointer                             *)
  at,        (* off, entry, up, down, sweep, run                          *)
  p,         (* the page the walk is at, or the sweep's address           *)
  last_mapped,
  moved,     (* the stack pointer is on the top page                      *)
  looked,    (* regions the sweep has looked at                           *)
  refused    (* regions the kernel did not unmap                          *)

places == <<os, given, p, last_mapped, moved, looked, refused>>
mvars  == <<regions, dirty, sp, at, places>>

Pages(r) == r.lo .. r.hi - 1
Named(what) == UNION {Pages(r) : r \in Kind(given, what)}
Mapped == UNION {Pages(r) : r \in regions}

(* madvise fails on a page that is not mapped, and on those of a guard or  *)
(* of the kernel's own.                                                    *)
Droppable(page) == page \in Mapped \ Named("guard")

----------------------------------------------------------------------------
(* Linux: ltop_entry and ltop_main                                         *)

Entry ==
  /\ at = "entry" /\ os = "linux"
  /\ at' = "up" /\ p' = sp + 1 /\ last_mapped' = sp
  /\ UNCHANGED <<regions, dirty, sp, os, given, moved, looked, refused>>

DropUp ==
  /\ at = "up" /\ Droppable(p)
  /\ dirty' = dirty \ {p}
  /\ last_mapped' = p /\ p' = p + 1
  /\ UNCHANGED <<regions, sp, at, os, given, moved, looked, refused>>

(* The walk down starts below the page of the stack pointer.  Mutant: on   *)
(* that page.                                                              *)
FromHere(page) == page
Below(page) == page - 1

(* The jump writes to the new page, sixteen bytes below its end.           *)
MoveTo(page) ==
  /\ sp' = page /\ dirty' = dirty \cup {page}
  /\ moved' = TRUE
  /\ at' = "down" /\ p' = Below(page)

Jump ==
  /\ at = "up" /\ ~Droppable(p)
  /\ MoveTo(last_mapped)
  /\ UNCHANGED <<regions, os, given, last_mapped, looked, refused>>

DropDown ==
  /\ at = "down" /\ p # 0 /\ Droppable(p)
  /\ dirty' = dirty \ {p} /\ p' = p - 1
  /\ UNCHANGED <<regions, sp, at, os, given, last_mapped, moved, looked, refused>>

EndDown ==
  /\ at = "down" /\ (p = 0 \/ ~Droppable(p))
  /\ at' = IF os = "linux" THEN "run" ELSE "sweep"
  /\ p' = 0
  /\ UNCHANGED <<regions, dirty, sp, os, given, last_mapped, moved, looked, refused>>

----------------------------------------------------------------------------
(* macOS                                                                   *)

(* proc_pidregioninfo: the region of an address, or the next one above.    *)
RegionInfo(page) ==
  LET above == {r \in regions : page < r.hi}
  IN {r \in above : \A s \in above : r.lo <= s.lo}

(* region_containing, which rejects a region above the address.            *)
region_containing(page) == {r \in RegionInfo(page) : page \in Pages(r)}

Relocate ==
  /\ at = "entry" /\ os = "macos"
  /\ \E r \in region_containing(sp) : MoveTo(r.hi - 1)
  /\ UNCHANGED <<regions, os, given, last_mapped, looked, refused>>

(* The lookup fails: main goes on where it is.                             *)
StayHere ==
  /\ at = "entry" /\ os = "macos"
  /\ at' = "sweep" /\ p' = 0
  /\ UNCHANGED <<regions, dirty, sp, os, given, last_mapped, moved, looked, refused>>

(* arena::extent, in pages: storage that may span several regions.         *)
ArenaLo == CHOOSE n \in Named("arena") : \A k \in Named("arena") : n <= k
ArenaHi == CHOOSE n \in {k + 1 : k \in Named("arena")} : \A k \in Named("arena") : k < n

(* The keep filter.  Mutants: a region that only touches the arena is      *)
(* kept; one that merely starts in it is.                                  *)
Touches(r) == ArenaLo <= r.hi /\ r.lo <= ArenaHi
StartsIn(r) == ArenaLo = r.lo
Overlaps(r) == ArenaLo < r.hi /\ r.lo < ArenaHi

(* The code's own address: the text is one region.                         *)
code_anchor == CHOOSE n \in Named("text") : TRUE

Keep(r) == Overlaps(r) \/ code_anchor \in Pages(r) \/ sp \in Pages(r) \/ r.hi - r.lo >= Huge

(* One region: kept, unmapped, or the kernel refuses.                      *)
Looking == at = "sweep" /\ looked < MaxRegions

Look(r, gone) ==
  /\ looked' = looked + 1 /\ p' = r.hi
  /\ regions' = regions \ gone
  /\ dirty' = dirty \ UNION {Pages(q) : q \in gone}
  /\ UNCHANGED <<sp, at, os, given, last_mapped, moved>>

KeepRegion == Looking /\ \E r \in RegionInfo(p) : Keep(r) /\ Look(r, {}) /\ UNCHANGED refused
Unmap  == Looking /\ \E r \in RegionInfo(p) : ~Keep(r) /\ Look(r, {r}) /\ UNCHANGED refused
Refuse == Looking /\ \E r \in RegionInfo(p) :
                       ~Keep(r) /\ Look(r, {}) /\ refused' = refused \cup {r}

(* No region above, the call fails, or the last allowed look is done.      *)
EndSweep ==
  /\ at = "sweep"
  /\ at' = "run"
  /\ UNCHANGED <<regions, dirty, sp, places>>

----------------------------------------------------------------------------
(* The stack holds the arguments and the frame, from the stack pointer up; *)
(* what is dirty below is of frames that have returned.                    *)
MInit(pc) ==
  /\ at = pc
  /\ given \in Spaces /\ regions = given
  /\ os = IF Named("text") = {} THEN "linux" ELSE "macos"
  /\ sp \in Named("stack")
  /\ dirty \in {(Mapped \ Named("stack")) \cup {sp} \cup more : more \in SUBSET Named("stack")}
  /\ p = 0 /\ last_mapped = 0 /\ moved = FALSE /\ looked = 0 /\ refused = {}

MNext == Entry \/ DropUp \/ Jump \/ DropDown \/ EndDown
         \/ Relocate \/ StayHere \/ KeepRegion \/ Unmap \/ Refuse \/ EndSweep

MSpec == MInit("entry") /\ [][MNext]_mvars

----------------------------------------------------------------------------
(* Properties                                                              *)

(* The promise of start.rs's and main.rs's comments: the tick loop runs on *)
(* one page of stack.  The page that the frame is on is never dropped on   *)
(* the way, nor anything beside the stack, wherever the stack pointer was  *)
(* and whatever lies around; and where the stack pointer was moved no      *)
(* other page of the stack has contents left.                              *)
OneStackPage ==
  /\ (Mapped \ Named("stack")) \cup {sp} \subseteq dirty
  /\ at = "run" /\ moved => dirty \cap Named("stack") = {sp}

(* unmap_idle_state leaves mapped what ltop and dyld go on using, the      *)
(* arena however many regions it spans, and of what it has looked at       *)
(* nothing else but what the kernel refused to unmap.                      *)
KeptInUse ==
  /\ \A r \in given : r.what # "zone" => r \in regions
  /\ os = "macos" /\ at \in {"sweep", "run"} =>
       \A r \in regions : r.what = "zone" /\ r.hi <= p => r \in refused

============================================================================
