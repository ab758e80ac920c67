------------------------------ MODULE Seccomp -------------------------------
(***************************************************************************)
(* The classic BPF program of src/sandbox.rs, built by build_prog and run  *)
(* by the kernel one instruction a step on every call of the process.      *)
(* It implements SeccompPolicy.                                            *)
(***************************************************************************)
EXTENDS SeccompPolicy

VARIABLES
  pc,        (* the instruction to run                                    *)
  A          (* the accumulator                                           *)

vars == <<build, call, verdict, mode, pc, A>>

----------------------------------------------------------------------------
(* Layout (the I_* constants); positions of the direct section depend on   *)
(* the length of the list.                                                 *)

I_LD_ARCH            == 0
I_JEQ_ARCH           == 1
I_LD_NR              == 2
I_DIRECT_START       == 3
I_DISPATCH_WRITE(b)  == I_DIRECT_START + Len(b.direct)
I_DISPATCH_OPENAT(b) == I_DISPATCH_WRITE(b) + 1
I_DISPATCH_IOCTL(b)  == I_DISPATCH_OPENAT(b) + 1
I_CHECK_WRITE(b)     == I_DISPATCH_IOCTL(b) + 1
I_CHECK_OPENAT(b)    == I_CHECK_WRITE(b) + 3
I_CHECK_IOCTL(b)     == I_CHECK_OPENAT(b) + 3
I_RET_DENY(b)        == I_CHECK_IOCTL(b) + 5
I_RET_ALLOW(b)       == I_RET_DENY(b) + 1
PROG_LEN(b)          == I_RET_ALLOW(b) + 1

(* const fn jmp: the distance, cast to u8.  Mutant: counted from the jump  *)
(* itself.                                                                 *)
JmpFromSelf(from, to) == (to - from) % 256
jmp(from, to) == (to - from - 1) % 256

Ld(f)          == [code |-> "ld",  k |-> f, jt |-> 0, jf |-> 0]
Jeq(k, jt, jf) == [code |-> "jeq", k |-> k, jt |-> jt, jf |-> jf]
And(k)         == [code |-> "and", k |-> k, jt |-> 0, jf |-> 0]
Ret(v)         == [code |-> "ret", k |-> v, jt |-> 0, jf |-> 0]

(* A comparison that ends the program in ALLOW when it holds, and else     *)
(* goes on, or in DENY.                                                    *)
AllowIf(b, i, k)     == Jeq(k, jmp(i, I_RET_ALLOW(b)), 0)

(* Mutants: the deny jump is forgotten; the two targets are swapped.       *)
AllowElseNext(b, i, k) == Jeq(k, jmp(i, I_RET_ALLOW(b)), 0)
DenyIf(b, i, k)        == Jeq(k, jmp(i, I_RET_DENY(b)), jmp(i, I_RET_ALLOW(b)))

AllowOnlyIf(b, i, k) == Jeq(k, jmp(i, I_RET_ALLOW(b)), jmp(i, I_RET_DENY(b)))

(* build_prog, section by section: the instructions of a section in order. *)
Setup(b) == <<Ld("arch"), Jeq(b.arch, 0, jmp(I_JEQ_ARCH, I_RET_DENY(b))), Ld("nr")>>

DirectAt(b, i) == AllowIf(b, i, b.direct[i - I_DIRECT_START + 1])

Dispatch(b) ==
  <<Jeq(b.write, jmp(I_DISPATCH_WRITE(b), I_CHECK_WRITE(b)), 0),
    Jeq(b.openat, jmp(I_DISPATCH_OPENAT(b), I_CHECK_OPENAT(b)), 0),
    Jeq(b.ioctl, jmp(I_DISPATCH_IOCTL(b), I_CHECK_IOCTL(b)),
                 jmp(I_DISPATCH_IOCTL(b), I_RET_DENY(b)))>>

CheckWrite(b) ==
  <<Ld("arg0"),
    AllowIf(b, I_CHECK_WRITE(b) + 1, StdOut),
    AllowOnlyIf(b, I_CHECK_WRITE(b) + 2, StdErr)>>

CheckOpenat(b) ==
  <<Ld("arg2"),
    And(DenyFlags),
    AllowOnlyIf(b, I_CHECK_OPENAT(b) + 2, {})>>

CheckIoctl(b) ==
  <<Ld("arg1"),
    AllowIf(b, I_CHECK_IOCTL(b) + 1, TIOCGWINSZ),
    AllowIf(b, I_CHECK_IOCTL(b) + 2, TCSETS),
    And(RmMask),
    AllowOnlyIf(b, I_CHECK_IOCTL(b) + 4, RmValue)>>

Returns(b) == <<Ret(b.deny), Ret("allow")>>

(* Instruction i of the program.                                           *)
Prog(b, i) ==
  IF i < I_DIRECT_START THEN Setup(b)[i + 1]
  ELSE IF i < I_DISPATCH_WRITE(b) THEN DirectAt(b, i)
  ELSE IF i < I_CHECK_WRITE(b) THEN Dispatch(b)[i - I_DISPATCH_WRITE(b) + 1]
  ELSE IF i < I_CHECK_OPENAT(b) THEN CheckWrite(b)[i - I_CHECK_WRITE(b) + 1]
  ELSE IF i < I_CHECK_IOCTL(b) THEN CheckOpenat(b)[i - I_CHECK_OPENAT(b) + 1]
  ELSE IF i < I_RET_DENY(b) THEN CheckIoctl(b)[i - I_CHECK_IOCTL(b) + 1]
  ELSE Returns(b)[i - I_RET_DENY(b) + 1]

----------------------------------------------------------------------------
(* One call                                                                *)

(* A call of the process starts the program from its first instruction.    *)
EnterKernel(c) == Enter(c) /\ pc' = 0 /\ A' = {}

Running == call # NoCall /\ verdict = "none"

(* One instruction, as the tests' interpreter run_bpf does it.             *)
Load ==
  LET ins == Prog(build, pc) IN
  /\ Running /\ ins.code = "ld"
  /\ A' = call[ins.k]
  /\ pc' = pc + 1
  /\ UNCHANGED policyVars

Mask ==
  LET ins == Prog(build, pc) IN
  /\ Running /\ ins.code = "and"
  /\ A' = A \cap ins.k
  /\ pc' = pc + 1
  /\ UNCHANGED policyVars

Jump ==
  LET ins == Prog(build, pc) IN
  /\ Running /\ ins.code = "jeq"
  /\ pc' = pc + 1 + (IF A = ins.k THEN ins.jt ELSE ins.jf)
  /\ UNCHANGED <<policyVars, A>>

Return ==
  LET ins == Prog(build, pc) IN
  /\ Running /\ ins.code = "ret"
  /\ verdict' = ins.k
  /\ UNCHANGED <<build, call, mode, pc, A>>

(* What follows is the policy's; a new call starts the program afresh.     *)
Resume == (Proceed \/ Trap) /\ pc' = 0 /\ A' = {}
Die    == Kill /\ UNCHANGED <<pc, A>>

(* The process is gone.                                                    *)
Gone == mode = "dead" /\ UNCHANGED vars

Init == PolicyInit /\ pc = 0 /\ A = {}

Next == (\E c \in Calls : EnterKernel(c)) \/ Load \/ Mask \/ Jump \/ Return \/ Resume
          \/ Die \/ Gone

Spec == Init /\ [][Next]_vars

----------------------------------------------------------------------------
(* Properties                                                              *)

(* pc stays inside the program and A holds a word.                         *)
TypeOK ==
  /\ build \in Builds /\ call \in Call \cup {NoCall}
  /\ verdict \in {"none", "allow", "kill", "trap"}
  /\ mode \in {"process", "handler", "dead"}
  /\ pc \in 0 .. PROG_LEN(build) - 1 /\ A \in Word

(* The program implements the policy: whatever the list of direct calls,   *)
(* up to the length the tests allow, its jumps (cast to u8) land where     *)
(* build_prog means them to, and every call gets the answer the comments   *)
(* of sandbox.rs promise for it.                                           *)
Policy     == INSTANCE SeccompPolicy WITH verdict <- verdict
Implements == Policy!PolicySpec

(* The SIGSYS handler of the sandbox-trap build gets its report out: its   *)
(* own write and exit are not trapped in their turn.                       *)
HandlerReports == mode = "handler" => verdict # "trap"

=============================================================================
