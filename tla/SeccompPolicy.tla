--------------------------- MODULE SeccompPolicy ----------------------------
(***************************************************************************)
(* What src/sandbox.rs says of the system call filter, one step a call: a  *)
(* call of the native architecture passes when it is in ALLOW_DIRECT or is *)
(* write, openat or ioctl with the arguments the comments allow; any other *)
(* meets the deny action.  Seccomp is the BPF program that does it.        *)
(*                                                                         *)
(* A 32-bit word is the set of its one bits: masking is intersection and   *)
(* the zero word is {}.                                                    *)
(***************************************************************************)
EXTENDS Naturals, Sequences

CONSTANTS
  Builds,    (* what cfg selects: syscall numbers, architecture, feature  *)
  Calls,     (* the calls considered                                      *)
  NoCall     (* the process is not in the kernel                          *)

VARIABLES
  build,     (* the build that runs; never changes                        *)
  call,      (* seccomp_data of the call being filtered, or NoCall        *)
  verdict,   (* "none" until the filter has answered                      *)
  mode       (* "process"; "handler" inside the SIGSYS handler; "dead"    *)

Bit  == 0 .. 31
Word == SUBSET Bit

StdOut     == {0}
StdErr     == {1}
DenyFlags  == {0, 1, 6, 9, 10, 22}
TIOCGWINSZ == {14, 12, 10, 4, 1, 0}
TCSETS     == {14, 12, 10, 1}
RmMask     == {31, 30} \cup 8 .. 15
RmValue    == {31, 30, 14, 10, 9}

(* One seccomp_data: of each argument the low half is all that is loaded.  *)
Call == [nr : Word, arch : Word, arg0 : Word, arg1 : Word, arg2 : Word]

(* deny is DENY_ACTION: RET_TRAP under the feature sandbox-trap.           *)
Build == [direct : Seq(Word), write : Word, openat : Word, ioctl : Word,
          exit_group : Word, arch : Word, deny : {"kill", "trap"}]

(* The three filtered calls differ, and the program keeps the length that  *)
(* the test jump_distances_fit_in_u8 asserts (19 instructions are fixed).  *)
BuildOK(b) ==
  /\ b \in Build
  /\ Len(b.direct) + 19 < 256
  /\ b.write # b.openat /\ b.write # b.ioctl /\ b.openat # b.ioctl
  /\ \E i \in DOMAIN b.direct : b.direct[i] = b.exit_group

ASSUME SeccompAssumption ==
  /\ \A b \in Builds : BuildOK(b)
  /\ Calls \subseteq Call
  /\ NoCall \notin Call

Direct(b, c) == \E i \in DOMAIN b.direct : c.nr = b.direct[i]

Permitted(b, c) ==
  /\ c.arch = b.arch
  /\ \/ Direct(b, c)
     \/ c.nr = b.write /\ c.arg0 \in {StdOut, StdErr}
     \/ c.nr = b.openat /\ c.arg2 \cap DenyFlags = {}
     \/ /\ c.nr = b.ioctl
        /\ c.arg1 \in {TIOCGWINSZ, TCSETS} \/ c.arg1 \cap RmMask = RmValue

Answer(b, c) == IF Permitted(b, c) THEN "allow" ELSE b.deny

(* The two calls of sigsys_trampoline: the report on stderr and the exit.  *)
Report(b) == [nr |-> b.write, arch |-> b.arch, arg0 |-> StdErr, arg1 |-> {}, arg2 |-> {}]
Leave(b)  == [nr |-> b.exit_group, arch |-> b.arch, arg0 |-> {}, arg1 |-> {}, arg2 |-> {}]

(* Any code of the process enters the kernel.                              *)
Enter(c) ==
  /\ mode = "process" /\ call = NoCall
  /\ call' = c
  /\ UNCHANGED <<build, verdict, mode>>

(* The filter answers.                                                     *)
Decide ==
  /\ call # NoCall /\ verdict = "none"
  /\ verdict' = Answer(build, call)
  /\ UNCHANGED <<build, call, mode>>

(* The call runs; the handler's report is followed by its exit, which does *)
(* not return.                                                             *)
Proceed ==
  /\ verdict = "allow"
  /\ verdict' = "none"
  /\ IF mode = "handler" /\ call = Report(build)
       THEN call' = Leave(build) /\ mode' = mode
       ELSE /\ call' = NoCall
            /\ mode' = IF call.nr = build.exit_group THEN "dead" ELSE mode
  /\ UNCHANGED build

(* RET_TRAP outside the handler runs it; inside, SIGSYS is blocked and the *)
(* kernel kills as RET_KILL_PROCESS does.                                  *)
Trap ==
  /\ verdict = "trap" /\ mode = "process"
  /\ verdict' = "none" /\ call' = Report(build) /\ mode' = "handler"
  /\ UNCHANGED build

Kill ==
  /\ verdict \in {"kill", "trap"} /\ mode # "dead"
  /\ verdict = "trap" => mode = "handler"
  /\ mode' = "dead"
  /\ UNCHANGED <<build, call, verdict>>

PolicyInit ==
  /\ build \in Builds
  /\ call = NoCall /\ verdict = "none" /\ mode = "process"

PolicyNext == (\E c \in Calls : Enter(c)) \/ Decide \/ Proceed \/ Trap \/ Kill

policyVars == <<build, call, verdict, mode>>

PolicySpec == PolicyInit /\ [][PolicyNext]_policyVars

=============================================================================
