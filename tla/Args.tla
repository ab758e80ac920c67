-------------------------------- MODULE Args --------------------------------
(***************************************************************************)
(* How ltop reads the arguments of a process, which decide whether it is   *)
(* listed and under what name: from /proc/<pid>/cmdline in chunks on       *)
(* Linux, from KERN_PROCARGS2 in a buffer sized by an earlier call on      *)
(* macOS.  The process goes on meanwhile: it may exec another program or   *)
(* exit between any two calls.                                             *)
(*                                                                         *)
(* Memory is a sequence of cells, 0 for NUL; argc takes one.               *)
(***************************************************************************)
EXTENDS Integers, Sequences, SequencesExt

CONSTANTS
  Programs,      (* of [path, argv, env], without a NUL in any string      *)
  Chunk,         (* length of cmdline_chunk                                *)
  CMDLINE_MAX,   (* what is read at most, rounded up to chunks             *)
  MACOS_ARG_MAX,
  MAX_ARGS       (* slots for the arguments                                *)

ASSUME ArgsAssumption ==
  /\ {Chunk, CMDLINE_MAX, MACOS_ARG_MAX, MAX_ARGS} \subseteq Nat \ {0}
  /\ \A prog \in Programs :
       /\ prog.path \in Seq(Nat \ {0}) \ {<<>>}
       /\ {prog.argv, prog.env} \subseteq Seq(Seq(Nat \ {0}))

VARIABLES
  unix,      (* "linux" or "macos"                                         *)
  image,     (* what the process is running                                *)
  torn,      (* that has changed since the first call, or a read failed    *)
  cmdline,   (* Linux: what has been read                                  *)
  room,      (* macOS: the size of the buffer                              *)
  args,
  call       (* off, first, next, done                                     *)

gvars == <<unix, image, torn, cmdline, room, args, call>>

(* A process that has exited: reads find nothing.                          *)
Gone == [path |-> <<>>, argv |-> <<>>, env |-> <<>>]

(* The strings one after another, each with the NUL that ends it.          *)
Joined(strings) ==
  LET joined[n \in 0 .. Len(strings)] ==
        IF n = 0 THEN <<>> ELSE Append(joined[n - 1] \o strings[n], 0)
  IN joined[Len(strings)]

First(s, n) == SubSeq(s, 1, IF n < Len(s) THEN n ELSE Len(s))

Filled(strings) ==
  LET filled[n \in 0 .. Len(strings)] ==
        IF n = 0 THEN <<>> ELSE IF strings[n] = <<>> THEN filled[n - 1]
        ELSE Append(filled[n - 1], strings[n])
  IN filled[Len(strings)]

(* The runs of cells between NULs: a cell starts one behind a NUL, and is  *)
(* added to the last one behind another cell.                              *)
Extended(runs, before, cell) ==
  IF cell = 0 THEN runs
  ELSE IF before = 0 THEN Append(runs, <<cell>>)
  ELSE [runs EXCEPT ![Len(runs)] = Append(@, cell)]

Runs(cells) ==
  LET runs[n \in 0 .. Len(cells)] ==
        IF n = 0 THEN <<>>
        ELSE Extended(runs[n - 1], IF n = 1 THEN 0 ELSE cells[n - 1], cells[n])
  IN runs[Len(cells)]

Become(program) ==
  image' = program /\ torn' = TRUE /\ UNCHANGED <<unix, cmdline, room, args, call>>

(* The process: between the two calls, or two of the chunks.               *)
Exec == call = "next" /\ \E program \in Programs : Become(program)
Exit == call = "next" /\ Become(Gone)

(* Without arguments the process goes by its comm.                         *)
List(these) == args' = these /\ call' = "done" /\ UNCHANGED <<unix, image>>

----------------------------------------------------------------------------
(* Linux                                                                   *)

file == Joined(image.argv)

Open ==
  /\ unix = "linux" /\ call = "first"
  /\ call' = "next"
  /\ UNCHANGED <<unix, image, torn, cmdline, room, args>>

OpenFails ==
  /\ unix = "linux" /\ call = "first"
  /\ List(<<>>)
  /\ UNCHANGED <<torn, cmdline, room>>

(* The rest of the argument at which the reading was cut off is missing:   *)
(* that argument is dropped.  Mutant: it is not.                           *)
KeepCut(list, cells) == list
DropCut(list, cells) ==
  IF Len(cells) >= CMDLINE_MAX /\ Last(cells) # 0 /\ list # <<>> THEN Front(list) ELSE list

Listed(cells) == DropCut(First(Runs(cells), MAX_ARGS), cells)

(* A full chunk may not be the last one; a short one is.                   *)
ReadChunk ==
  /\ unix = "linux" /\ call = "next"
  /\ LET chunk == First(SubSeq(file, Len(cmdline) + 1, Len(file)), Chunk)
         read == cmdline \o chunk
     IN /\ cmdline' = read
        /\ IF Len(chunk) < Chunk \/ Len(read) >= CMDLINE_MAX
             THEN List(Listed(read))
             ELSE UNCHANGED <<unix, image, args, call>>
  /\ UNCHANGED <<torn, room>>

(* What has been read by then is taken for all there is.                   *)
ReadFails ==
  /\ unix = "linux" /\ call = "next"
  /\ torn' = TRUE
  /\ List(Listed(cmdline))
  /\ UNCHANGED <<cmdline, room>>

----------------------------------------------------------------------------
(* macOS                                                                   *)

(* What the kernel has of a process: the path, padding, and the strings.   *)
region == Joined(<<image.path, <<>>>> \o image.argv \o image.env)

(* macos_args_blob_size, its answer in range or not.                       *)
Ask ==
  /\ unix = "macos" /\ call = "first"
  /\ 1 + Len(region) <= MACOS_ARG_MAX
  /\ room' = 1 + Len(region) /\ call' = "next"
  /\ UNCHANGED <<unix, image, torn, cmdline, args>>

TooLong ==
  /\ unix = "macos" /\ call = "first"
  /\ 1 + Len(region) > MACOS_ARG_MAX
  /\ List(<<>>)
  /\ UNCHANGED <<torn, cmdline, room>>

(* macos_proc_args_into.  A buffer that has become too short gets argc and *)
(* the end of the region; the first run of cells, if the buffer starts     *)
(* with one, is taken for the path.                                        *)
ReadBlob ==
  /\ unix = "macos" /\ call = "next" /\ image # Gone
  /\ LET most == IF Len(image.argv) < MAX_ARGS THEN Len(image.argv) ELSE MAX_ARGS
         left == Len(region) - (room - 1)
         got == SubSeq(region, IF left > 0 THEN left + 1 ELSE 1, Len(region))
         strings == IF got # <<>> /\ got[1] # 0 THEN Tail(Runs(got)) ELSE Runs(got)
     IN List(First(strings, most))
  /\ UNCHANGED <<torn, cmdline, room>>

(* Either sysctl fails, as the second does for a process that is gone.     *)
SysctlFails ==
  /\ unix = "macos" /\ call \in {"first", "next"}
  /\ List(<<>>)
  /\ UNCHANGED <<torn, cmdline, room>>

----------------------------------------------------------------------------
GInit(first) ==
  /\ call = first
  /\ unix \in {"linux", "macos"} /\ image \in Programs
  /\ cmdline = <<>> /\ room = 0
  /\ torn = FALSE /\ args = <<>>

GNext == Exec \/ Exit \/ Open \/ OpenFails \/ ReadChunk \/ ReadFails
         \/ Ask \/ TooLong \/ ReadBlob \/ SysctlFails

GSpec == GInit("first") /\ [][GNext]_gvars

----------------------------------------------------------------------------
(* Properties                                                              *)

(* Of a process that runs one program throughout, the arguments listed are *)
(* whole ones and the leading ones, however chunks and the cut fall in     *)
(* them: no end of one passes for a script's name.  They are argv's, but   *)
(* that macOS makes up for empty arguments with the environment, and as    *)
(* many as there are slots for unless the reading was cut off.             *)
ArgsWhole ==
  call = "done" /\ ~torn /\ args # <<>> =>
    LET argv == Filled(image.argv)
        full == IF unix = "linux" THEN First(argv, MAX_ARGS)
                ELSE First(First(argv \o Filled(image.env), Len(image.argv)), MAX_ARGS)
    IN /\ IsPrefix(args, full)
       /\ unix = "macos" \/ Len(file) <= CMDLINE_MAX => args = full

============================================================================
