--------------------------- MODULE SessionProofs ---------------------------
(***************************************************************************)
(* A quit restores the terminal, the filter lets every call of the loop    *)
(* and of the exit through, and frames keep their period, for any keys and *)
(* any number of bytes waiting, with and without the sandbox.              *)
(***************************************************************************)
EXTENDS Session, TLAPS

StartUp == {"start", "raw", "hide", "init", "privs", "landlock", "seccomp"}
Loop    == {"tick", "write", "uncommit", "poll", "sleep"}
WayOut  == {"newline", "restore", "show", "exit"}

(* Where the process is, and that the filter comes last of the start-up.   *)
Places ==
  /\ pc \in StartUp \cup Loop \cup WayOut \cup {"end"}
  /\ pc = "end" <=> exit # "no"
  /\ seccomp => pc \notin StartUp
  /\ seccomp \in BOOLEAN /\ once \in BOOLEAN

(* --once touches neither mode nor cursor; else both are as they were      *)
(* before the guard is made, and again after it has dropped.               *)
Terminal ==
  /\ once => pc \notin {"raw", "hide", "uncommit", "poll", "sleep", "restore", "show"}
  /\ pc = "start" \/ once \/ pc = "exit" \/ exit = "0" => tty = "cooked" /\ cursor = "shown"
  /\ pc = "show" => tty = "cooked"

(* Sleeps that lie between the frame last written and the one before it,   *)
(* or the next one.                                                        *)
Due == CASE frames = 0 -> 0 [] frames = 1 -> 6 [] OTHER -> 40

(* The countdown and the sleeps done add up to the period.                 *)
Period ==
  /\ next_steps \in {6, 40} /\ steps \in Nat /\ slept \in Nat /\ frames \in 0 .. 2
  /\ pc \in StartUp => frames = 0 /\ slept = 0 /\ next_steps = 6
  /\ pc \in {"tick", "write"} => slept = Due /\ next_steps = (IF frames = 0 THEN 6 ELSE 40)
  /\ pc \in {"uncommit", "poll", "sleep"} => frames # 0 /\ next_steps = Due
  /\ pc = "uncommit" => slept = 0
  /\ pc \in {"poll", "sleep"} => steps + slept = next_steps
  /\ pc = "sleep" => steps > 0

SInv == Places /\ Terminal /\ Period

----------------------------------------------------------------------------
(* Each step of the program and of the user keeps the invariant.           *)
LEMMA StartUpKeeps ==
  ASSUME SInv,
         ParseArgs \/ EnterRaw \/ HideCursor \/ InitGpu \/ Privs \/ Landlock \/ Seccomp
           \/ SandboxFails
  PROVE  SInv'
<1> USE DEF SInv, Places, Terminal, Period, Due, StartUp, Loop, WayOut, Step, Runs, Goto,
            Die, terminal, loop
<1>1. CASE ParseArgs     BY <1>1 DEF ParseArgs
<1>2. CASE EnterRaw      BY <1>2 DEF EnterRaw
<1>3. CASE HideCursor    BY <1>3 DEF HideCursor
<1>4. CASE InitGpu       BY <1>4 DEF InitGpu
<1>5. CASE Privs         BY <1>5 DEF Privs
<1>6. CASE Landlock      BY <1>6 DEF Landlock
<1>7. CASE Seccomp       BY <1>7 DEF Seccomp
<1>8. CASE SandboxFails  BY <1>8 DEF SandboxFails
<1> QED BY <1>1, <1>2, <1>3, <1>4, <1>5, <1>6, <1>7, <1>8

LEMMA LoopKeeps ==
  ASSUME SInv, Tick \/ Panic \/ WriteFrame \/ Uncommit \/ Poll \/ Sleep \/ NextTick
  PROVE  SInv'
<1> USE DEF SInv, Places, Terminal, Period, Due, StartUp, Loop, WayOut, Step, Runs, Goto,
            Die, terminal, loop
<1>1. CASE Tick        BY <1>1 DEF Tick
<1>2. CASE Panic       BY <1>2 DEF Panic
<1>3. CASE WriteFrame  BY <1>3 DEF WriteFrame
<1>4. CASE Uncommit    BY <1>4 DEF Uncommit
<1>5. CASE Poll        BY <1>5 DEF Poll, PollsLeft
<1>6. CASE Sleep       BY <1>6 DEF Sleep
<1>7. CASE NextTick    BY <1>7 DEF NextTick, LaterSteps
<1> QED BY <1>1, <1>2, <1>3, <1>4, <1>5, <1>6, <1>7

LEMMA WayOutKeeps ==
  ASSUME SInv, Newline \/ Restore \/ ShowCursor \/ Exit
  PROVE  SInv'
<1> USE DEF SInv, Places, Terminal, Period, Due, StartUp, Loop, WayOut, Step, Runs, Goto,
            Die, terminal, loop
<1>1. CASE Newline     BY <1>1 DEF Newline
<1>2. CASE Restore     BY <1>2 DEF Restore, SavedMode, RestoredMode
<1>3. CASE ShowCursor  BY <1>3 DEF ShowCursor
<1>4. CASE Exit        BY <1>4 DEF Exit
<1> QED BY <1>1, <1>2, <1>3, <1>4

(* The user's keys move the program only by a signal in cooked mode.       *)
LEMMA ShellKeeps ==
  ASSUME SInv, Shell
  PROVE  SInv'
<1> USE DEF SInv, Places, Terminal, Period, Due, StartUp, Loop, WayOut, Die, terminal, loop
<1>1. ASSUME NEW key \in Keys, Type(key) PROVE SInv'  BY <1>1 DEF Type
<1>2. CASE Stop      BY <1>2 DEF Stop
<1>3. CASE Continue  BY <1>3 DEF Continue
<1> QED BY <1>1, <1>2, <1>3 DEF Shell

(* In every reachable state of run() the terminal, the filter and the      *)
(* countdown are as the place in the code makes them.                      *)
THEOREM SessionInductive == Spec => []SInv
<1>1. Init => SInv
  <2> SUFFICES ASSUME Init PROVE SInv
    OBVIOUS
  <2>1. Places
    BY DEF Init, Places, StartUp
  <2>2. Terminal
    BY DEF Init, Terminal
  <2>3. Period
    BY DEF Init, Period, StartUp
  <2> QED BY <2>1, <2>2, <2>3 DEF SInv
<1>2. SInv /\ [Next]_vars => SInv'
  <2> SUFFICES ASSUME SInv, [Next]_vars PROVE SInv'
    OBVIOUS
  <2>1. CASE Program
    BY <2>1, StartUpKeeps, LoopKeeps, WayOutKeeps DEF Program
  <2>2. CASE Shell
    BY <2>2, ShellKeeps
  <2>3. CASE UNCHANGED vars
    BY <2>3 DEF vars, terminal, loop, SInv, Places, Terminal, Period, Due
  <2> QED BY <2>1, <2>2, <2>3 DEF Next, Ended
<1> QED BY <1>1, <1>2, PTL DEF Spec

(* FilterSuffices: once seccomp is on, neither the loop nor the way out    *)
(* nor a sleep resumed by the kernel makes a call that it kills for.       *)
THEOREM SessionFilterSuffices == Spec => []FilterSuffices
<1>1. SInv => FilterSuffices
  <2> SUFFICES ASSUME SInv, seccomp, exit = "no" PROVE Allowed(NextCalls)
    BY DEF FilterSuffices
  <2>1. pc \in Loop \cup WayOut
    BY DEF SInv, Places
  <2>2. Allowed(Calls[pc])
    <3> USE <2>1 DEF Loop, WayOut, Allowed, Calls, ALLOW_DIRECT, ALLOW_CHECKED
    <3>1. CASE pc = "tick"      BY <3>1
    <3>2. CASE pc = "write"     BY <3>2
    <3>3. CASE pc = "uncommit"  BY <3>3
    <3>4. CASE pc = "poll"      BY <3>4
    <3>5. CASE pc = "sleep"     BY <3>5
    <3>6. CASE pc = "newline"   BY <3>6
    <3>7. CASE pc = "restore"   BY <3>7
    <3>8. CASE pc = "show"      BY <3>8
    <3>9. CASE pc = "exit"      BY <3>9
    <3> QED BY <3>1, <3>2, <3>3, <3>4, <3>5, <3>6, <3>7, <3>8, <3>9
  <2>3. Allowed({"restart_syscall"})
    BY DEF Allowed, ALLOW_DIRECT
  <2> QED BY <2>2, <2>3 DEF NextCalls
<1> QED BY <1>1, SessionInductive, PTL

(* QuitRestores: a quit key, --check and --once leave the terminal in the  *)
(* shell's mode with a cursor, whatever was typed or stopped on the way.   *)
THEOREM SessionQuitRestores == Spec => []QuitRestores
<1>1. SInv => QuitRestores
  BY DEF SInv, Terminal, QuitRestores
<1> QED BY <1>1, SessionInductive, PTL

(* FramePeriod: no frame is early or late by a poll, the second comes      *)
(* after six and every later one after forty.                              *)
THEOREM SessionFramePeriod == Spec => FramePeriod
<1>1. SInv /\ [Next]_vars =>
        [pc = "write" /\ pc' # "write" /\ pc' # "end" =>
           slept = CASE frames = 0 -> 0 [] frames = 1 -> 6 [] OTHER -> 40]_vars
  BY DEF SInv, Period, Due
<1> QED BY <1>1, SessionInductive, PTL DEF Spec, FramePeriod

=============================================================================
