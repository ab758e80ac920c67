------------------------------ MODULE Session ------------------------------
(***************************************************************************)
(* The life of one ltop process, src/main.rs: start-up, raw terminal mode  *)
(* under a guard (tty.rs), the sandbox (sandbox.rs), the tick loop with    *)
(* its 50 ms key polls, and the ways out: a quit key, --once, a panic, a   *)
(* failed sandbox, Ctrl-C.                                                 *)
(*                                                                         *)
(* Calls lists the system calls of each step.  Once seccomp is on, a call  *)
(* that its program does not allow kills the process (SIGSYS); that the    *)
(* filter lets every call through is the invariant FilterSuffices.         *)
(***************************************************************************)
EXTENDS Integers, Sequences

CONSTANTS
  Sandbox,    (* built libc-free for Linux: the sandbox is installed      *)
  OtherKeys,  (* bytes that mean nothing to ltop                          *)
  MaxKeys     (* bound: bytes waiting on stdin                            *)

QuitKeys == {"q", "ctrl-c", "ctrl-backslash"}
Keys     == QuitKeys \cup OtherKeys

ASSUME SessionAssumption ==
  Sandbox \in BOOLEAN /\ MaxKeys \in Nat /\ OtherKeys \cap QuitKeys = {}

VARIABLES
  pc,        (* where run() is                                            *)
  once,      (* --once                                                    *)
  isatty,    (* stdin is a terminal                                       *)
  tty,       (* its mode: "cooked", or "raw" as enter_raw_mode sets it    *)
  cursor,    (* "shown" or "hidden"                                       *)
  keys,      (* bytes that wait on stdin                                  *)
  seccomp,   (* the filter is on                                          *)
  next_steps,(* polls between two ticks                                   *)
  steps,     (* polls left before the next tick                           *)
  slept,     (* 50 ms sleeps since the last frame                         *)
  frames,    (* frames written: 0, 1 or more                              *)
  stopped,   (* Ctrl-Z, and in which call                                 *)
  exit       (* how the process ended, "no" while it runs                 *)

terminal == <<isatty, tty, cursor, keys>>
loop     == <<next_steps, steps, slept, frames>>
vars     == <<pc, once, terminal, seccomp, loop, stopped, exit>>

----------------------------------------------------------------------------
(* The seccomp program: what it allows, by call and argument class         *)

ALLOW_DIRECT == {"read", "close", "madvise", "nanosleep", "getpid", "getdents64",
                 "restart_syscall", "unlinkat", "clock_gettime", "exit_group"}

(* write to 1 and 2, read-only opens, three kinds of ioctl.                *)
ALLOW_CHECKED == {"write 1", "write 2", "open read-only",
                  "ioctl TIOCGWINSZ", "ioctl TCSETS", "ioctl RM"}

(* Mutant: the list before restart_syscall was added to it.                *)
AllowedUninterrupted(calls) ==
  calls \subseteq (ALLOW_DIRECT \ {"restart_syscall"}) \cup ALLOW_CHECKED
Allowed(calls) == calls \subseteq ALLOW_DIRECT \cup ALLOW_CHECKED

Goto(l)   == pc' = l
Die(how)  == pc' = "end" /\ exit' = how

(* The calls each step makes.                                              *)
Calls == [
  start    |-> {"write 1", "open read-only", "exit_group"},
  raw      |-> {"ioctl TCGETS", "ioctl TCSETS"},
  hide     |-> {"write 1"},
  init     |-> {"open read-only", "open read-write", "ioctl RM", "read", "close"},
  privs    |-> {"prctl", "write 2", "exit_group"},
  landlock |-> {"landlock", "open read-only", "close", "write 2", "exit_group"},
  seccomp  |-> {"seccomp", "write 2", "exit_group"},
  tick     |-> {"clock_gettime", "ioctl TIOCGWINSZ", "ioctl RM", "getpid", "getdents64",
                "open read-only", "read", "close", "unlinkat", "exit_group"},
  write    |-> {"write 1"},
  uncommit |-> {"madvise"},
  poll     |-> {"read"},
  sleep    |-> {"nanosleep"},
  newline  |-> {"write 1"},
  restore  |-> {"ioctl TCSETS"},
  show     |-> {"write 1"},
  exit     |-> {"exit_group"}]

Runs == exit = "no" /\ stopped = "no"

Step(l) == Runs /\ pc = l

----------------------------------------------------------------------------
(* Start-up                                                                *)

(* --check answers and leaves; everything else goes on to run().           *)
ParseArgs ==
  /\ Step("start")
  /\ \/ Goto(IF once THEN "init" ELSE "raw") /\ UNCHANGED exit
     \/ Die("0")
  /\ UNCHANGED <<once, terminal, seccomp, loop, stopped>>

(* enter_raw_mode: TCGETS and TCSETS, then the cursor.  Both ioctls fail   *)
(* when stdin is no terminal, and their results are not looked at.         *)
EnterRaw ==
  /\ Step("raw")
  /\ tty' = IF isatty THEN "raw" ELSE tty
  /\ Goto("hide")
  /\ UNCHANGED <<once, isatty, cursor, keys, seccomp, loop, stopped, exit>>

HideCursor ==
  /\ Step("hide")
  /\ cursor' = "hidden"
  /\ Goto("init")
  /\ UNCHANGED <<once, isatty, tty, keys, seccomp, loop, stopped, exit>>

(* boot_time and gpu::init: files and device nodes are opened read-write.  *)
InitGpu ==
  /\ Step("init")
  /\ Goto(IF Sandbox THEN "privs" ELSE "tick")
  /\ UNCHANGED <<once, terminal, seccomp, loop, stopped, exit>>

(* sandbox::install: no_new_privs, Landlock, seccomp; each can fail.       *)
Privs ==
  /\ Step("privs")
  /\ Goto("landlock")
  /\ UNCHANGED <<once, terminal, seccomp, loop, stopped, exit>>

Landlock ==
  /\ Step("landlock")
  /\ Goto("seccomp")
  /\ UNCHANGED <<once, terminal, seccomp, loop, stopped, exit>>

Seccomp ==
  /\ Step("seccomp")
  /\ seccomp' = TRUE
  /\ Goto("tick")
  /\ UNCHANGED <<once, terminal, loop, stopped, exit>>

(* fail(): a line on stderr, then exit_group(2).                           *)
SandboxFails ==
  /\ pc \in {"privs", "landlock", "seccomp"}
  /\ Step(pc)
  /\ Die("2")
  /\ UNCHANGED <<once, terminal, seccomp, loop, stopped>>

----------------------------------------------------------------------------
(* The loop                                                                *)

(* Collect and render.                                                     *)
Tick ==
  /\ Step("tick")
  /\ Goto("write")
  /\ UNCHANGED <<once, terminal, seccomp, loop, stopped, exit>>

(* A full arena or any other panic: exit_group(134).                       *)
Panic ==
  /\ Step("tick")
  /\ Die("134")
  /\ UNCHANGED <<once, terminal, seccomp, loop, stopped>>

(* tty::write_stdout loops over partial writes and gives up on an error.   *)
WriteFrame ==
  /\ Step("write")
  /\ frames' = IF frames < 2 THEN frames + 1 ELSE frames
  /\ slept' = 0
  /\ Goto(IF once THEN "newline" ELSE "uncommit")
  /\ UNCHANGED <<once, terminal, seccomp, next_steps, steps, stopped, exit>>

Uncommit ==
  /\ Step("uncommit")
  /\ steps' = next_steps
  /\ Goto("poll")
  /\ UNCHANGED <<once, terminal, seccomp, next_steps, slept, frames, stopped, exit>>

(* Mutant: Ctrl-C and Ctrl-\ are forgotten among the quit keys.            *)
QuitsOnQ(key) == key = "q"
Quits(key) == key \in QuitKeys

(* The countdown of polls.  Mutant: one poll too many.                     *)
OneMore   == steps >= 0
PollsLeft == steps > 0

(* One poll: the first byte that waits, if any, is taken.                  *)
Poll ==
  /\ Step("poll")
  /\ PollsLeft
  /\ IF keys = <<>> THEN Goto("sleep") /\ UNCHANGED keys
     ELSE /\ keys' = Tail(keys)
          /\ Goto(IF Quits(Head(keys)) THEN "newline" ELSE "sleep")
  /\ UNCHANGED <<once, isatty, tty, cursor, seccomp, loop, stopped, exit>>

Sleep ==
  /\ Step("sleep")
  /\ steps' = steps - 1 /\ slept' = slept + 1
  /\ Goto("poll")
  /\ UNCHANGED <<once, terminal, seccomp, next_steps, frames, stopped, exit>>

(* next_steps = 40 after the first interval.  Mutant: it is kept.          *)
SameSteps  == next_steps
LaterSteps == 40

NextTick ==
  /\ Step("poll")
  /\ steps = 0
  /\ next_steps' = LaterSteps
  /\ Goto("tick")
  /\ UNCHANGED <<once, terminal, seccomp, steps, slept, frames, stopped, exit>>

----------------------------------------------------------------------------
(* The way out                                                             *)

(* The newline after the last frame; then the guard drops, if there is one.*)
Newline ==
  /\ Step("newline")
  /\ Goto(IF once THEN "exit" ELSE "restore")
  /\ UNCHANGED <<once, terminal, seccomp, loop, stopped, exit>>

(* RawModeGuard::drop: the mode first, the cursor second.  Mutant: the     *)
(* guard only shows the cursor.                                            *)
RestoredMode == "cooked"
KeptMode     == tty
SavedMode    == RestoredMode

Restore ==
  /\ Step("restore")
  /\ tty' = SavedMode
  /\ Goto("show")
  /\ UNCHANGED <<once, isatty, cursor, keys, seccomp, loop, stopped, exit>>

ShowCursor ==
  /\ Step("show")
  /\ cursor' = "shown"
  /\ Goto("exit")
  /\ UNCHANGED <<once, isatty, tty, keys, seccomp, loop, stopped, exit>>

Exit ==
  /\ Step("exit")
  /\ Die("0")
  /\ UNCHANGED <<once, terminal, seccomp, loop, stopped>>

Program ==
  \/ ParseArgs \/ EnterRaw \/ HideCursor \/ InitGpu \/ Privs \/ Landlock \/ Seccomp
  \/ SandboxFails \/ Tick \/ Panic \/ WriteFrame \/ Uncommit \/ Poll \/ Sleep \/ NextTick
  \/ Newline \/ Restore \/ ShowCursor \/ Exit

----------------------------------------------------------------------------
(* The terminal and the shell                                              *)

(* A byte typed.  With VINTR and VQUIT on, Ctrl-C and Ctrl-\ are signals,  *)
(* and no handler is installed: the process is gone.                       *)
Type(key) ==
  /\ exit = "no" /\ isatty
  /\ IF tty = "cooked" /\ key \in {"ctrl-c", "ctrl-backslash"}
       THEN Die("signal") /\ UNCHANGED keys
       ELSE /\ Len(keys) < MaxKeys
            /\ keys' = Append(keys, key)
            /\ UNCHANGED <<pc, exit>>
  /\ UNCHANGED <<once, isatty, tty, cursor, seccomp, loop, stopped>>

(* Ctrl-Z stops the process in either mode.                                *)
Stop ==
  /\ exit = "no" /\ stopped = "no" /\ isatty
  /\ stopped' = IF pc = "sleep" THEN "in nanosleep" ELSE "in between"
  /\ UNCHANGED <<pc, once, terminal, seccomp, loop, exit>>

(* fg.                                                                     *)
Continue ==
  /\ exit = "no" /\ stopped # "no"
  /\ stopped' = "no"
  /\ UNCHANGED <<pc, once, terminal, seccomp, loop, exit>>

Shell == (\E key \in Keys : Type(key)) \/ Stop \/ Continue

Ended == exit # "no" /\ UNCHANGED vars

----------------------------------------------------------------------------
Init ==
  /\ pc = "start" /\ once \in BOOLEAN /\ isatty \in BOOLEAN
  /\ tty = "cooked" /\ cursor = "shown" /\ keys = <<>>
  /\ seccomp = FALSE
  /\ next_steps = 6 /\ steps = 0 /\ slept = 0 /\ frames = 0
  /\ stopped = "no" /\ exit = "no"

Next == Program \/ Shell \/ Ended

(* The kernel schedules a process that is not stopped.                     *)
Spec == Init /\ [][Next]_vars /\ WF_vars(Program)

----------------------------------------------------------------------------
(* Properties                                                              *)

TypeOK ==
  /\ pc \in DOMAIN Calls \cup {"end"}
  /\ {once, isatty, seccomp} \subseteq BOOLEAN
  /\ tty \in {"cooked", "raw"} /\ cursor \in {"shown", "hidden"}
  /\ keys \in Seq(Keys) /\ Len(keys) <= MaxKeys
  /\ next_steps \in {6, 40} /\ steps \in 0 .. 40 /\ slept \in 0 .. 40
  /\ frames \in 0 .. 2
  /\ stopped \in {"no", "in nanosleep", "in between"}
  /\ exit \in {"no", "0", "2", "134", "signal"}
  /\ (pc = "end") = (exit # "no")

(* What the process calls next; a nanosleep that a stop interrupted goes   *)
(* on as restart_syscall.                                                  *)
NextCalls == IF stopped = "in nanosleep" THEN {"restart_syscall"} ELSE Calls[pc]

(* Whatever the loop, the quit path and a resumed sleep call once the      *)
(* sandbox is on, the filter allows: ltop does not die of its own filter.  *)
FilterSuffices == seccomp /\ exit = "no" => Allowed(NextCalls)

(* When a quit key, --check or --once ends the program, the terminal is as *)
(* the shell left it: in its own mode and with a cursor.                   *)
QuitRestores == exit = "0" => tty = "cooked" /\ cursor = "shown"

(* A frame is 40 sleeps after the one before it, the second frame six.     *)
FramePeriod ==
  [][pc = "write" /\ pc' # "write" /\ pc' # "end" =>
       slept = CASE frames = 0 -> 0 [] frames = 1 -> 6 [] OTHER -> 40]_vars

(* A quit key that waits on stdin ends the program, whatever was typed     *)
(* before it, unless the user keeps the process stopped.                   *)
QuitHeard ==
  (exit = "no" /\ \E n \in DOMAIN keys : keys[n] \in QuitKeys)
    ~> (exit # "no" \/ stopped # "no")

(* "raw termios + hidden cursor, restored on exit via guard".              *)
RestoredOnExit ==
  isatty /\ exit \in {"0", "2"} => tty = "cooked" /\ cursor = "shown"

============================================================================
