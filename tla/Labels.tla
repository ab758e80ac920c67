------------------------------ MODULE Labels ------------------------------
(***************************************************************************)
(* Labels, src/label.rs and the directory reader of src/platform.rs: a     *)
(* process writes a file named <pid>.<start> whose text replaces its       *)
(* COMMAND cell.  Once in every tick, after the filter, apply lists the    *)
(* directory, reads the start time of the process each name claims, and    *)
(* either unlinks the file or reads it into the row of that pid, while     *)
(* processes come and go and rewrite their files.                          *)
(***************************************************************************)
EXTENDS CpuSample

CONSTANTS
  Writers,   (* the pids whose processes write labels                     *)
  Batch      (* directory entries that fit the 512-byte buffer            *)

ASSUME LabelsAssumption == Writers \subseteq Pids /\ Batch \in Nat \ {0}

VARIABLES
  files,     (* name -> the process that wrote it                         *)
  dir,       (* apply's PidDir: see Closed                                *)
  display    (* pid -> the process whose label its row shows, 0 if none   *)

lvars == <<vars, files, dir, display>>

NO_START == -1

(* A name PidDir yields: a number, and a start unless there is no suffix.  *)
Name(pid, start) == [pid |-> pid, start |-> start]

(* pc: closed, open (between entries), checked (start time read), done;    *)
(* the names from the opening of the directory that are still to come, the *)
(* entries in the buffer, all names that have come, the entry in hand and  *)
(* what start_time said; and, for the properties: the files whose process  *)
(* was dead at the opening, those that could not be unlinked, and whether  *)
(* the listing was cut short.                                              *)
Closed == [pc |-> "closed", due |-> {}, batch |-> {}, seen |-> {},
           at |-> Name(0, NO_START), matches |-> FALSE,
           stale |-> {}, kept |-> {}, cut |-> FALSE]

Owner(name) == proc[name.pid]

(* A label whose writer is dead.                                           *)
Orphan(name) == name.start # NO_START /\ files[name] # Owner(name).gen

----------------------------------------------------------------------------
(* The writers, README "Labels"                                            *)

(* A label is written aside and renamed: it appears, or changes, at once.  *)
Publish(p) ==
  LET name == Name(p, proc[p].born)
  IN /\ proc[p].gen # 0
     /\ files' = [n \in DOMAIN files \cup {name} |->
                    IF n = name THEN proc[p].gen ELSE files[n]]
     /\ UNCHANGED <<vars, dir, display>>

(* A process deletes its label on its way out, or dies and leaves it.      *)
Without(names) == [n \in DOMAIN files \ names |-> files[n]]

CleanUp(p) ==
  LET name == Name(p, proc[p].born)
  IN /\ proc[p].gen # 0 /\ name \in DOMAIN files
     /\ files' = Without({name})
     /\ UNCHANGED <<vars, dir, display>>

(* A writer that starts deletes the files that dead processes left.        *)
TidyUp(p) ==
  /\ proc[p].gen # 0
  /\ files' = Without({n \in DOMAIN files : Orphan(n)})
  /\ UNCHANGED <<vars, dir, display>>

(* A pid and a start time name one process for good: none lives and dies   *)
(* and has its pid given away within one clock tick.                       *)
Leave(p) == proc[p].born < now /\ Exit(p)

----------------------------------------------------------------------------
(* apply                                                                   *)

(* PidDir::at, if there is a directory.                                    *)
OpenDir ==
  /\ tick.stage = "filtered" /\ dir.pc = "closed"
  /\ dir' = [Closed EXCEPT !.pc = "open", !.due = DOMAIN files,
                          !.stale = {n \in DOMAIN files : Orphan(n)}]
  /\ UNCHANGED <<vars, files, display>>

(* There was no directory when ltop started, or it does not open.          *)
NoDir ==
  /\ tick.stage = "filtered" /\ dir.pc = "closed"
  /\ dir' = [Closed EXCEPT !.pc = "done"]
  /\ UNCHANGED <<vars, files, display>>

(* Mutant: the buffer is filled once.                                      *)
UnreadOnce == IF dir.seen = {} THEN DOMAIN files ELSE {}
Unread == DOMAIN files \ dir.seen

(* getdents: any entries it has not returned yet, as many as fit.          *)
Refill ==
  /\ dir.pc = "open" /\ dir.batch = {} /\ Unread # {}
  /\ \E names \in SUBSET Unread :
       /\ names # {} /\ (Cardinality(names) = Batch \/ names = Unread)
       /\ Cardinality(names) <= Batch
       /\ dir' = [dir EXCEPT !.batch = names, !.seen = @ \cup names, !.due = @ \ names]
  /\ UNCHANGED <<vars, files, display>>

(* No more entries; those of files that came meanwhile may be left out.    *)
EndOfDir ==
  /\ dir.pc = "open" /\ dir.batch = {} /\ Unread \cap dir.due = {}
  /\ dir' = [dir EXCEPT !.pc = "done", !.due = {}]
  /\ UNCHANGED <<vars, files, display>>

(* getdents fails, which ends the pass like the end of the directory.      *)
CutShort ==
  /\ dir.pc = "open" /\ dir.batch = {}
  /\ dir' = [dir EXCEPT !.pc = "done", !.due = {}, !.cut = TRUE]
  /\ UNCHANGED <<vars, files, display>>

(* A name without a start is left alone.  Mutant: the suffix is optional.  *)
AnyName(name) == TRUE
HasStart(name) == name.start # NO_START

(* start_time(pid) = Some(start).  Mutant: any process will do.            *)
SomeProcess(name) == Owner(name).gen # 0
SameStart(name) == Owner(name).gen # 0 /\ Owner(name).born = name.start

SkipName ==
  /\ dir.pc = "open"
  /\ \E name \in dir.batch :
       /\ ~HasStart(name)
       /\ dir' = [dir EXCEPT !.batch = @ \ {name}]
  /\ UNCHANGED <<vars, files, display>>

(* The read of /proc/<pid>/stat may fail although the process is there.    *)
CheckStart ==
  /\ dir.pc = "open"
  /\ \E name \in dir.batch, read \in IF Flaky THEN BOOLEAN ELSE {TRUE} :
       /\ HasStart(name)
       /\ dir' = [dir EXCEPT !.pc = "checked", !.batch = @ \ {name}, !.at = name,
                             !.matches = read /\ SameStart(name)]
  /\ UNCHANGED <<vars, files, display>>

NextName(kept) ==
  dir' = [dir EXCEPT !.pc = "open", !.at = Closed.at, !.matches = FALSE, !.kept = kept]

Unlink ==
  /\ dir.pc = "checked" /\ ~dir.matches
  /\ files' = Without({dir.at})
  /\ NextName(dir.kept)
  /\ UNCHANGED <<vars, display>>

(* unlinkat fails, as in a directory that may not be written: its result   *)
(* is ignored, and the next pass will try again.                           *)
UnlinkFails ==
  /\ dir.pc = "checked" /\ ~dir.matches
  /\ NextName(dir.kept \cup {dir.at})
  /\ UNCHANGED <<vars, files, display>>

(* A row for this pid, and a file.                                         *)
Readable ==
  /\ \E i \in DOMAIN procs : procs[i].pid = dir.at.pid
  /\ dir.at \in DOMAIN files

Show ==
  /\ dir.pc = "checked" /\ dir.matches /\ Readable
  /\ display' = [display EXCEPT ![dir.at.pid] = files[dir.at]]
  /\ NextName(dir.kept)
  /\ UNCHANGED <<vars, files>>

(* There is none, or it cannot be opened or read, or it says nothing.      *)
PassOver ==
  /\ dir.pc = "checked" /\ dir.matches
  /\ NextName(dir.kept)
  /\ UNCHANGED <<vars, files, display>>

LabelPass == OpenDir \/ NoDir \/ Refill \/ EndOfDir \/ CutShort \/ SkipName \/ CheckStart
             \/ Unlink \/ UnlinkFails \/ Show \/ PassOver

(* The frame is written with the labels, and its rows are forgotten.       *)
LabelledTick ==
  /\ dir.pc = "done" /\ EndTick
  /\ dir' = Closed /\ display' = [p \in Pids |-> 0]
  /\ UNCHANGED files

----------------------------------------------------------------------------
Writer == \E p \in Writers : Publish(p) \/ CleanUp(p) \/ TidyUp(p)

Sampling == Elapse \/ (\E p \in Pids : Fork(p)) \/ (\E p \in Pids : Leave(p))
            \/ BeginTick \/ StatFails \/ Stat \/ Filter

(* A file that is nobody's label, as a bystander.                          *)
LInit ==
  /\ Init /\ display = [p \in Pids |-> 0] /\ dir = Closed
  /\ files \in {<<>>} \cup {[n \in {Name(p, NO_START)} |-> 0] : p \in Writers}

LNext == \/ Sampling /\ UNCHANGED <<files, dir, display>>
         \/ Writer
         \/ LabelPass
         \/ LabelledTick

LSpec == LInit /\ [][LNext]_lvars

----------------------------------------------------------------------------
(* Properties                                                              *)

(* README: "a file left behind by a dead process can't label whoever gets  *)
(* its pid next", and a label makes no quiet process visible.  The label   *)
(* of a row is never older than the process the row was read from.         *)
NotInherited ==
  \A p \in Pids : display[p] # 0 =>
    \E i \in DOMAIN procs : procs[i].pid = p /\ procs[i].of <= display[p]

(* When a pass is over, a label whose process was dead when it began is    *)
(* still there only if its unlink failed, or if the listing was cut short  *)
(* before its name came: no buffer's end, no reading error of another      *)
(* name, and nothing the writers do to the directory meanwhile hides one.  *)
Swept ==
  dir.pc = "done" => \A name \in dir.stale \cap DOMAIN files :
    name \in dir.kept \/ (dir.cut /\ name \notin dir.seen)

(* apply's comment: it unlinks the labels whose process is gone or whose   *)
(* start time differs, and leaves other names alone.  No pass ever removes *)
(* the label of a living process or a file that is not a label.            *)
LiveLabelsStay ==
  [][dir' # dir => \A name \in DOMAIN files \ DOMAIN files' : Orphan(name)]_lvars

----------------------------------------------------------------------------
(* The strengthening that makes them inductive, beside CpuInv              *)

Names == [pid : Pids, start : Int]

DirType == [pc : {"closed", "open", "checked", "done"}, due : SUBSET Names,
            batch : SUBSET Names, seen : SUBSET Names, at : Names \cup {Closed.at},
            matches : BOOLEAN, stale : SUBSET Names, kept : SUBSET Names, cut : BOOLEAN]

LabelsType ==
  /\ DOMAIN files \subseteq Names /\ files \in [DOMAIN files -> Nat]
  /\ dir \in DirType /\ display \in [Pids -> Nat]

(* No process that ever starts will have this name.                        *)
Spent(name) == name.start # NO_START /\ name.start < now /\ ~SameStart(name)

(* A label is its writer's: that of the living process, or spent.          *)
FilesAt ==
  \A name \in DOMAIN files : name.start # NO_START =>
    /\ files[name] \in 1 .. gen[name.pid]
    /\ \/ files[name] = Owner(name).gen /\ SameStart(name)
       \/ files[name] # Owner(name).gen /\ Spent(name)

(* A row is of a process that was there.                                   *)
RowsAt ==
  /\ \A i \in DOMAIN procs : procs[i].of <= gen[procs[i].pid]
  /\ tick.stage # "filtered" => dir = Closed /\ \A p \in Pids : display[p] = 0

(* The entry in hand: a name that matched is that of no older process than *)
(* the row's, and one that did not, unless the read failed, will not.      *)
HandAt ==
  /\ \A name \in dir.batch : name.start # NO_START => SameStart(name) \/ Spent(name)
  /\ dir.pc = "checked" =>
       /\ dir.at \in Names /\ dir.at.start # NO_START
       /\ dir.matches => \A i \in DOMAIN procs :
            procs[i].pid = dir.at.pid /\ dir.at \in DOMAIN files
              => procs[i].of <= files[dir.at]
       /\ ~dir.matches /\ ~Flaky => Spent(dir.at)

(* A stale label is spent, and until it is gone it is still to come, or    *)
(* something has failed.                                                   *)
StaleAt ==
  \A name \in dir.stale :
    /\ Spent(name)
    /\ name \in DOMAIN files =>
         \/ dir.pc \in {"open", "checked"} /\ (name \in dir.due \ dir.seen \/ name \in dir.batch)
         \/ dir.pc = "checked" /\ dir.at = name /\ ~dir.matches
         \/ name \in dir.kept
         \/ dir.cut /\ name \notin dir.seen

(* The inductive invariant of labels.                                      *)
LabelsInv == CpuInv /\ LabelsType /\ FilesAt /\ RowsAt /\ HandAt /\ StaleAt /\ NotInherited

============================================================================
