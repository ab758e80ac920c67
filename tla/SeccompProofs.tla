--------------------------- MODULE SeccompProofs ----------------------------
(***************************************************************************)
(* The BPF program implements the policy, for every list of direct calls   *)
(* that keeps the program below 256 instructions.  The invariant says what *)
(* is known of the call at each instruction; the sections of the program   *)
(* give it its cases.                                                      *)
(***************************************************************************)
EXTENDS Seccomp, TLAPS

(* What the instructions before pc have established.                       *)
InDirect(b, c, p, a) ==
  /\ c.arch = b.arch /\ a = c.nr
  /\ \A i \in DOMAIN b.direct : i <= p - I_DIRECT_START => c.nr # b.direct[i]
  /\ p > I_DISPATCH_WRITE(b) => c.nr # b.write
  /\ p > I_DISPATCH_OPENAT(b) => c.nr # b.openat

InCheck(b, c, nr) == c.arch = b.arch /\ ~Direct(b, c) /\ c.nr = nr

InWrite(b, c, p, a) ==
  /\ InCheck(b, c, b.write)
  /\ p > I_CHECK_WRITE(b) => a = c.arg0
  /\ p > I_CHECK_WRITE(b) + 1 => c.arg0 # StdOut

InOpenat(b, c, p, a) ==
  /\ InCheck(b, c, b.openat)
  /\ p = I_CHECK_OPENAT(b) + 1 => a = c.arg2
  /\ p = I_CHECK_OPENAT(b) + 2 => a = c.arg2 \cap DenyFlags

InIoctl(b, c, p, a) ==
  /\ InCheck(b, c, b.ioctl)
  /\ p \in I_CHECK_IOCTL(b) + 1 .. I_CHECK_IOCTL(b) + 3 => a = c.arg1
  /\ p > I_CHECK_IOCTL(b) + 1 => c.arg1 # TIOCGWINSZ
  /\ p > I_CHECK_IOCTL(b) + 2 => c.arg1 # TCSETS
  /\ p = I_CHECK_IOCTL(b) + 4 => a = c.arg1 \cap RmMask

Known(b, c, p, a) ==
  /\ p = 1 => a = c.arch
  /\ p = 2 => c.arch = b.arch
  /\ p \in I_DIRECT_START .. I_DISPATCH_IOCTL(b) => InDirect(b, c, p, a)
  /\ p \in I_CHECK_WRITE(b) .. I_CHECK_WRITE(b) + 2 => InWrite(b, c, p, a)
  /\ p \in I_CHECK_OPENAT(b) .. I_CHECK_OPENAT(b) + 2 => InOpenat(b, c, p, a)
  /\ p \in I_CHECK_IOCTL(b) .. I_CHECK_IOCTL(b) + 4 => InIoctl(b, c, p, a)
  /\ p = I_RET_DENY(b) => ~Permitted(b, c)
  /\ p = I_RET_ALLOW(b) => Permitted(b, c)

(* The handler only makes its two calls, and neither is denied.            *)
HandlerCalls ==
  mode = "handler" => call \in {Report(build), Leave(build)} /\ verdict \in {"none", "allow"}

IInv ==
  /\ TypeOK
  /\ Running => Known(build, call, pc, A)
  /\ HandlerCalls

----------------------------------------------------------------------------

LEMMA JmpExact ==
  ASSUME NEW from \in Nat, NEW to \in Nat, from < to, to - from - 1 < 256
  PROVE  jmp(from, to) = to - from - 1
  BY DEF jmp

(* Positions, as distances from the end of the direct section.             *)
LEMMA DirectList ==
  ASSUME NEW b \in Builds
  PROVE  /\ b.direct \in Seq(Word)
         /\ I_DISPATCH_WRITE(b) \in 3 .. 239
         /\ DOMAIN b.direct = 1 .. I_DISPATCH_WRITE(b) - 3
  <1>1. b.direct \in Seq(Word)
    BY SeccompAssumption DEF BuildOK, Build
  <1>2. Len(b.direct) + 19 < 256
    BY SeccompAssumption DEF BuildOK
  <1>3. Len(b.direct) \in Nat /\ DOMAIN b.direct = 1 .. Len(b.direct)
    BY <1>1
  <1>4. \A n \in Nat : n + 19 < 256 => n + 3 \in 3 .. 239 /\ n = (n + 3) - 3
    OBVIOUS
  <1>5. I_DISPATCH_WRITE(b) = Len(b.direct) + 3
    BY <1>3 DEF I_DIRECT_START, I_DISPATCH_WRITE
  <1>6. I_DISPATCH_WRITE(b) \in 3 .. 239 /\ Len(b.direct) = I_DISPATCH_WRITE(b) - 3
    BY <1>2, <1>3, <1>4, <1>5
  <1> QED BY <1>1, <1>3, <1>6

LEMMA Positions ==
  ASSUME NEW b \in Builds
  PROVE  /\ I_DISPATCH_WRITE(b) \in 3 .. 239
         /\ I_DISPATCH_OPENAT(b) = I_DISPATCH_WRITE(b) + 1
         /\ I_DISPATCH_IOCTL(b) = I_DISPATCH_WRITE(b) + 2
         /\ I_CHECK_WRITE(b) = I_DISPATCH_WRITE(b) + 3
         /\ I_CHECK_OPENAT(b) = I_DISPATCH_WRITE(b) + 6
         /\ I_CHECK_IOCTL(b) = I_DISPATCH_WRITE(b) + 9
         /\ I_RET_DENY(b) = I_DISPATCH_WRITE(b) + 14
         /\ I_RET_ALLOW(b) = I_DISPATCH_WRITE(b) + 15
         /\ PROG_LEN(b) = I_DISPATCH_WRITE(b) + 16
  <1> DEFINE d == I_DISPATCH_WRITE(b)
  <1>1. d \in 3 .. 239                   BY DirectList
  <1>2. I_DISPATCH_OPENAT(b) = d + 1     BY <1>1 DEF I_DISPATCH_OPENAT
  <1>3. I_DISPATCH_IOCTL(b) = d + 2      BY <1>1, <1>2 DEF I_DISPATCH_IOCTL
  <1>4. I_CHECK_WRITE(b) = d + 3         BY <1>1, <1>3 DEF I_CHECK_WRITE
  <1>5. I_CHECK_OPENAT(b) = d + 6        BY <1>1, <1>4 DEF I_CHECK_OPENAT
  <1>6. I_CHECK_IOCTL(b) = d + 9         BY <1>1, <1>5 DEF I_CHECK_IOCTL
  <1>7. I_RET_DENY(b) = d + 14           BY <1>1, <1>6 DEF I_RET_DENY
  <1>8. I_RET_ALLOW(b) = d + 15          BY <1>1, <1>7 DEF I_RET_ALLOW
  <1>9. PROG_LEN(b) = d + 16             BY <1>1, <1>8 DEF PROG_LEN
  <1> QED BY <1>1, <1>2, <1>3, <1>4, <1>5, <1>6, <1>7, <1>8, <1>9

LEMMA ProgSetup ==
  ASSUME NEW b \in Builds
  PROVE  /\ Prog(b, 0) = Ld("arch")
         /\ Prog(b, 1) = Jeq(b.arch, 0, I_RET_DENY(b) - 2)
         /\ Prog(b, 2) = Ld("nr")
  <1>1. jmp(1, I_RET_DENY(b)) = I_RET_DENY(b) - 2
    BY Positions, JmpExact
  <1> QED BY <1>1, Positions DEF Prog, Setup, I_JEQ_ARCH, I_DIRECT_START

LEMMA ProgDirect ==
  ASSUME NEW b \in Builds, NEW i \in 3 .. I_DISPATCH_WRITE(b) - 1
  PROVE  Prog(b, i) = Jeq(b.direct[i - 2], I_RET_ALLOW(b) - i - 1, 0)
  <1>1. jmp(i, I_RET_ALLOW(b)) = I_RET_ALLOW(b) - i - 1
    <2>1. i \in Nat /\ I_RET_ALLOW(b) \in Nat /\ i < I_RET_ALLOW(b)
      BY Positions
    <2>2. I_RET_ALLOW(b) - i - 1 < 256
      BY Positions
    <2> QED BY <2>1, <2>2, JmpExact
  <1>2. Prog(b, i) = DirectAt(b, i)
    BY Positions DEF Prog, I_DIRECT_START
  <1>3. i - I_DIRECT_START + 1 = i - 2
    BY Positions DEF I_DIRECT_START
  <1> QED BY <1>1, <1>2, <1>3 DEF DirectAt, AllowIf

LEMMA ProgDispatch ==
  ASSUME NEW b \in Builds, NEW d, d = I_DISPATCH_WRITE(b)
  PROVE  /\ Prog(b, d) = Jeq(b.write, 2, 0)
         /\ Prog(b, d + 1) = Jeq(b.openat, 4, 0)
         /\ Prog(b, d + 2) = Jeq(b.ioctl, 6, 11)
  <1>1. /\ jmp(d, I_CHECK_WRITE(b)) = 2 /\ jmp(d + 1, I_CHECK_OPENAT(b)) = 4
        /\ jmp(d + 2, I_CHECK_IOCTL(b)) = 6 /\ jmp(d + 2, I_RET_DENY(b)) = 11
    <2> d \in Nat /\ d <= 239 /\ d + 1 \in Nat /\ d + 2 \in Nat
      BY Positions
    <2>1. jmp(d, d + 3) = 2          BY DEF jmp
    <2>2. jmp(d + 1, d + 6) = 4      BY DEF jmp
    <2>3. jmp(d + 2, d + 9) = 6      BY DEF jmp
    <2>4. jmp(d + 2, d + 14) = 11    BY DEF jmp
    <2> QED BY <2>1, <2>2, <2>3, <2>4, Positions
  <1>2. Dispatch(b) = <<Jeq(b.write, 2, 0), Jeq(b.openat, 4, 0), Jeq(b.ioctl, 6, 11)>>
    BY <1>1, Positions DEF Dispatch
  <1>3. \A k \in 0 .. 2 : Prog(b, d + k) = Dispatch(b)[k + 1]
    BY Positions DEF Prog, I_DIRECT_START
  <1> QED BY <1>2, <1>3, Positions

LEMMA ProgWrite ==
  ASSUME NEW b \in Builds, NEW w, w = I_CHECK_WRITE(b)
  PROVE  /\ Prog(b, w) = Ld("arg0")
         /\ Prog(b, w + 1) = Jeq(StdOut, 10, 0)
         /\ Prog(b, w + 2) = Jeq(StdErr, 9, 8)
  <1>1. /\ jmp(w + 1, I_RET_ALLOW(b)) = 10 /\ jmp(w + 2, I_RET_ALLOW(b)) = 9
        /\ jmp(w + 2, I_RET_DENY(b)) = 8
    <2> w \in Nat /\ w + 1 \in Nat /\ w + 2 \in Nat
      BY Positions
    <2>1. I_RET_ALLOW(b) = w + 12 /\ I_RET_DENY(b) = w + 11
      BY Positions
    <2>2. jmp(w + 1, w + 12) = 10    BY DEF jmp
    <2>3. jmp(w + 2, w + 12) = 9     BY DEF jmp
    <2>4. jmp(w + 2, w + 11) = 8     BY DEF jmp
    <2> QED BY <2>1, <2>2, <2>3, <2>4
  <1>2. CheckWrite(b) = <<Ld("arg0"), Jeq(StdOut, 10, 0), Jeq(StdErr, 9, 8)>>
    BY <1>1 DEF CheckWrite, AllowIf, AllowOnlyIf
  <1>3. \A k \in 0 .. 2 : Prog(b, w + k) = CheckWrite(b)[k + 1]
    BY Positions DEF Prog, I_DIRECT_START
  <1> QED BY <1>2, <1>3, Positions

LEMMA ProgOpenat ==
  ASSUME NEW b \in Builds, NEW o, o = I_CHECK_OPENAT(b)
  PROVE  /\ Prog(b, o) = Ld("arg2")
         /\ Prog(b, o + 1) = And(DenyFlags)
         /\ Prog(b, o + 2) = Jeq({}, 6, 5)
  <1>1. jmp(o + 2, I_RET_ALLOW(b)) = 6 /\ jmp(o + 2, I_RET_DENY(b)) = 5
    BY Positions, JmpExact
  <1>2. CheckOpenat(b) = <<Ld("arg2"), And(DenyFlags), Jeq({}, 6, 5)>>
    BY <1>1 DEF CheckOpenat, AllowOnlyIf
  <1>3. \A k \in 0 .. 2 : Prog(b, o + k) = CheckOpenat(b)[k + 1]
    BY Positions DEF Prog, I_DIRECT_START
  <1> QED BY <1>2, <1>3, Positions

LEMMA ProgIoctl ==
  ASSUME NEW b \in Builds, NEW o, o = I_CHECK_IOCTL(b)
  PROVE  /\ Prog(b, o) = Ld("arg1")
         /\ Prog(b, o + 1) = Jeq(TIOCGWINSZ, 4, 0)
         /\ Prog(b, o + 2) = Jeq(TCSETS, 3, 0)
         /\ Prog(b, o + 3) = And(RmMask)
         /\ Prog(b, o + 4) = Jeq(RmValue, 1, 0)
  <1>1. /\ jmp(o + 1, I_RET_ALLOW(b)) = 4 /\ jmp(o + 2, I_RET_ALLOW(b)) = 3
        /\ jmp(o + 4, I_RET_ALLOW(b)) = 1 /\ jmp(o + 4, I_RET_DENY(b)) = 0
    <2> o \in Nat /\ o + 1 \in Nat /\ o + 2 \in Nat /\ o + 4 \in Nat
      BY Positions
    <2>1. I_RET_ALLOW(b) = o + 6 /\ I_RET_DENY(b) = o + 5
      BY Positions
    <2>2. jmp(o + 1, o + 6) = 4      BY DEF jmp
    <2>3. jmp(o + 2, o + 6) = 3      BY DEF jmp
    <2>4. jmp(o + 4, o + 6) = 1      BY DEF jmp
    <2>5. jmp(o + 4, o + 5) = 0      BY DEF jmp
    <2> QED BY <2>1, <2>2, <2>3, <2>4, <2>5
  <1>2. CheckIoctl(b) = <<Ld("arg1"), Jeq(TIOCGWINSZ, 4, 0), Jeq(TCSETS, 3, 0),
                          And(RmMask), Jeq(RmValue, 1, 0)>>
    BY <1>1 DEF CheckIoctl, AllowIf, AllowOnlyIf
  <1>3. \A k \in 0 .. 4 : Prog(b, o + k) = CheckIoctl(b)[k + 1]
    BY Positions DEF Prog, I_DIRECT_START
  <1> QED BY <1>2, <1>3, Positions

LEMMA ProgReturns ==
  ASSUME NEW b \in Builds
  PROVE  /\ Prog(b, I_RET_DENY(b)) = Ret(b.deny)
         /\ Prog(b, I_RET_ALLOW(b)) = Ret("allow")
  BY Positions DEF Prog, Returns, I_DIRECT_START

----------------------------------------------------------------------------
(* What is known at an instruction depends on its section alone.           *)

LEMMA KnownAt ==
  ASSUME NEW b \in Builds, NEW c, NEW p \in Nat, NEW a, NEW d, d = I_DISPATCH_WRITE(b)
  PROVE  /\ p = 0 => Known(b, c, p, a)
         /\ p = 1 => (Known(b, c, p, a) <=> a = c.arch)
         /\ p = 2 => (Known(b, c, p, a) <=> c.arch = b.arch)
         /\ p \in 3 .. d + 2 => (Known(b, c, p, a) <=> InDirect(b, c, p, a))
         /\ p \in d + 3 .. d + 5 => (Known(b, c, p, a) <=> InWrite(b, c, p, a))
         /\ p \in d + 6 .. d + 8 => (Known(b, c, p, a) <=> InOpenat(b, c, p, a))
         /\ p \in d + 9 .. d + 13 => (Known(b, c, p, a) <=> InIoctl(b, c, p, a))
         /\ p = d + 14 => (Known(b, c, p, a) <=> ~Permitted(b, c))
         /\ p = d + 15 => (Known(b, c, p, a) <=> Permitted(b, c))
  <1>1. d \in 3 .. 239
    BY Positions
  <1>2. Known(b, c, p, a) <=>
          /\ p = 1 => a = c.arch
          /\ p = 2 => c.arch = b.arch
          /\ p \in 3 .. d + 2 => InDirect(b, c, p, a)
          /\ p \in d + 3 .. d + 5 => InWrite(b, c, p, a)
          /\ p \in d + 6 .. d + 8 => InOpenat(b, c, p, a)
          /\ p \in d + 9 .. d + 13 => InIoctl(b, c, p, a)
          /\ p = d + 14 => ~Permitted(b, c)
          /\ p = d + 15 => Permitted(b, c)
    <2>1. /\ I_DISPATCH_IOCTL(b) = d + 2
          /\ I_CHECK_WRITE(b) = d + 3 /\ I_CHECK_WRITE(b) + 2 = d + 5
          /\ I_CHECK_OPENAT(b) = d + 6 /\ I_CHECK_OPENAT(b) + 2 = d + 8
          /\ I_CHECK_IOCTL(b) = d + 9 /\ I_CHECK_IOCTL(b) + 4 = d + 13
          /\ I_RET_DENY(b) = d + 14 /\ I_RET_ALLOW(b) = d + 15
      BY <1>1, Positions
    <2> QED BY <2>1 DEF Known, I_DIRECT_START
  <1>3. CASE p \in 0 .. 2
    BY <1>1, <1>2, <1>3
  <1>4. CASE p \in 3 .. d + 5
    BY <1>1, <1>2, <1>4
  <1>5. CASE p \in d + 6 .. d + 13
    BY <1>1, <1>2, <1>5
  <1>6. CASE p \in d + 14 .. d + 15
    BY <1>1, <1>2, <1>6
  <1>7. CASE p > d + 15
    BY <1>1, <1>7
  <1> QED BY <1>1, <1>3, <1>4, <1>5, <1>6, <1>7

LEMMA AtSetup ==
  ASSUME NEW b \in Builds, NEW c, NEW a
  PROVE  /\ Known(b, c, 0, a)
         /\ Known(b, c, 1, a) <=> a = c.arch
         /\ Known(b, c, 2, a) <=> c.arch = b.arch
  BY KnownAt, 0 \in Nat, 1 \in Nat, 2 \in Nat

LEMMA AtDirect ==
  ASSUME NEW b \in Builds, NEW c, NEW a, NEW p \in 3 .. I_DISPATCH_WRITE(b) + 2
  PROVE  Known(b, c, p, a) <=> InDirect(b, c, p, a)
  BY KnownAt, Positions, p \in Nat

LEMMA AtWrite ==
  ASSUME NEW b \in Builds, NEW c, NEW a,
         NEW p \in I_DISPATCH_WRITE(b) + 3 .. I_DISPATCH_WRITE(b) + 5
  PROVE  Known(b, c, p, a) <=> InWrite(b, c, p, a)
  BY KnownAt, Positions, p \in Nat

LEMMA AtOpenat ==
  ASSUME NEW b \in Builds, NEW c, NEW a,
         NEW p \in I_DISPATCH_WRITE(b) + 6 .. I_DISPATCH_WRITE(b) + 8
  PROVE  Known(b, c, p, a) <=> InOpenat(b, c, p, a)
  BY KnownAt, Positions, p \in Nat

LEMMA AtIoctl ==
  ASSUME NEW b \in Builds, NEW c, NEW a,
         NEW p \in I_DISPATCH_WRITE(b) + 9 .. I_DISPATCH_WRITE(b) + 13
  PROVE  Known(b, c, p, a) <=> InIoctl(b, c, p, a)
  BY KnownAt, Positions, p \in Nat

(* One instruction but the returns takes p, a to q, x.                     *)
Exec(b, c, p, a, q, x) ==
  LET ins == Prog(b, p) IN
  \/ ins.code = "ld" /\ x = c[ins.k] /\ q = p + 1
  \/ ins.code = "and" /\ x = a \cap ins.k /\ q = p + 1
  \/ ins.code = "jeq" /\ x = a /\ q = p + 1 + (IF a = ins.k THEN ins.jt ELSE ins.jf)

LEMMA ExecLd ==
  ASSUME NEW b, NEW c, NEW p, NEW a, NEW q, NEW x, Exec(b, c, p, a, q, x),
         NEW f, Prog(b, p) = Ld(f)
  PROVE  x = c[f] /\ q = p + 1
  BY DEF Exec, Ld

LEMMA ExecAnd ==
  ASSUME NEW b, NEW c, NEW p, NEW a, NEW q, NEW x, Exec(b, c, p, a, q, x),
         NEW k, Prog(b, p) = And(k)
  PROVE  x = a \cap k /\ q = p + 1
  BY DEF Exec, And

LEMMA ExecJeq ==
  ASSUME NEW b, NEW c, NEW p, NEW a, NEW q, NEW x, Exec(b, c, p, a, q, x),
         NEW k, NEW jt, NEW jf, Prog(b, p) = Jeq(k, jt, jf)
  PROVE  x = a /\ q = p + 1 + (IF a = k THEN jt ELSE jf)
  BY DEF Exec, Jeq

(* The two ways a comparison in a check block can leave the block.         *)
LEMMA Ends ==
  ASSUME NEW b \in Builds, NEW c, NEW a, NEW q \in Nat,
         \/ q = I_RET_DENY(b) /\ ~Permitted(b, c)
         \/ q = I_RET_ALLOW(b) /\ Permitted(b, c)
  PROVE  Known(b, c, q, a) /\ q < PROG_LEN(b)
  <1> DEFINE d == I_DISPATCH_WRITE(b)
  <1>1. /\ d \in 3 .. 239 /\ I_RET_DENY(b) = d + 14 /\ I_RET_ALLOW(b) = d + 15
        /\ PROG_LEN(b) = d + 16
    BY Positions
  <1> QED BY <1>1, KnownAt

(* From one instruction to the next, section by section.                   *)
LEMMA StepSetup ==
  ASSUME NEW b \in Builds, NEW c \in Call, NEW p \in Nat, NEW a, NEW q, NEW x,
         Known(b, c, p, a), Exec(b, c, p, a, q, x),
         p \in 0 .. 2
  PROVE  q \in Nat /\ q < PROG_LEN(b) /\ Known(b, c, q, x)
  <1> DEFINE d == I_DISPATCH_WRITE(b)
  <1>1. d \in 3 .. 239 /\ I_RET_DENY(b) = d + 14 /\ PROG_LEN(b) = d + 16
    BY Positions
  <1>2. CASE p = 0
    <2>1. x = c["arch"] /\ q = 1
      BY <1>2, ProgSetup, ExecLd
    <2> QED BY <2>1, <1>1, AtSetup
  <1>3. CASE p = 1
    <2>1. a = c.arch
      BY <1>3, AtSetup
    <2>2. x = a /\ q = 2 + (IF a = b.arch THEN 0 ELSE d + 12)
      BY <1>1, <1>3, ProgSetup, ExecJeq
    <2>3. CASE a = b.arch
      <3>1. q = 2 /\ c.arch = b.arch
        BY <2>1, <2>2, <2>3
      <3> QED BY <3>1, <1>1, AtSetup
    <2>4. CASE a # b.arch
      <3>1. q = d + 14 /\ ~Permitted(b, c)
        BY <2>1, <2>2, <2>4, <1>1 DEF Permitted
      <3> QED BY <3>1, <1>1, Ends
    <2> QED BY <2>3, <2>4
  <1>4. CASE p = 2
    <2>1. c.arch = b.arch
      BY <1>4, AtSetup
    <2>2. x = c["nr"] /\ q = 3
      BY <1>4, ProgSetup, ExecLd
    <2>3. InDirect(b, c, 3, x)
      <3>1. \A i \in DOMAIN b.direct : ~(i <= 0)
        BY DirectList
      <3>2. ~(3 > d) /\ ~(3 > I_DISPATCH_OPENAT(b))
        BY Positions
      <3> QED BY <2>1, <2>2, <3>1, <3>2 DEF InDirect, I_DIRECT_START
    <2>4. 3 \in 3 .. d + 2
      BY <1>1
    <2>5. Known(b, c, 3, x)
      BY <2>3, <2>4, AtDirect
    <2> QED BY <2>2, <2>5, <1>1
  <1> QED BY <1>2, <1>3, <1>4

LEMMA StepDirect ==
  ASSUME NEW b \in Builds, NEW c \in Call, NEW p \in Nat, NEW a, NEW q, NEW x,
         Known(b, c, p, a), Exec(b, c, p, a, q, x),
         p \in 3 .. I_DISPATCH_WRITE(b) - 1
  PROVE  q \in Nat /\ q < PROG_LEN(b) /\ Known(b, c, q, x)
  <1> DEFINE d == I_DISPATCH_WRITE(b)
  <1>1. /\ d \in 3 .. 239 /\ I_DISPATCH_OPENAT(b) = d + 1 /\ I_RET_ALLOW(b) = d + 15
        /\ PROG_LEN(b) = d + 16 /\ p \in 3 .. d + 2
    BY Positions
  <1>2. InDirect(b, c, p, a)
    BY <1>1, AtDirect
  <1>3. x = a /\ q = p + 1 + (IF a = b.direct[p - 2] THEN d + 15 - p - 1 ELSE 0)
    BY <1>1, ProgDirect, ExecJeq
  <1>4. p - 2 \in DOMAIN b.direct
    <2>1. DOMAIN b.direct = 1 .. d - 3
      BY DirectList
    <2>2. p - 2 \in 1 .. d - 3
      BY <1>1
    <2> QED BY <2>1, <2>2
  <1>5. CASE a = b.direct[p - 2]
    <2>1. Permitted(b, c)
      BY <1>2, <1>4, <1>5 DEF InDirect, Permitted, Direct
    <2>2. q = d + 15
      BY <1>1, <1>3, <1>5
    <2> QED BY <2>1, <2>2, <1>1, Ends
  <1>6. CASE a # b.direct[p - 2]
    <2>1. q = p + 1
      BY <1>3, <1>6
    <2>2. \A i \in DOMAIN b.direct : i <= q - 3 => c.nr # b.direct[i]
      <3>1. \A i \in DOMAIN b.direct : i <= q - 3 => i <= p - 3 \/ i = p - 2
        BY <2>1, DirectList
      <3> QED BY <3>1, <1>2, <1>6 DEF InDirect, I_DIRECT_START
    <2>3. ~(q > d) /\ ~(q > I_DISPATCH_OPENAT(b))
      BY <1>1, <2>1
    <2>4. InDirect(b, c, q, x)
      BY <1>2, <1>3, <2>2, <2>3 DEF InDirect, I_DIRECT_START
    <2>5. q \in 3 .. d + 2 /\ q < PROG_LEN(b)
      BY <1>1, <2>1
    <2> QED BY <2>4, <2>5, AtDirect
  <1> QED BY <1>5, <1>6

LEMMA StepDispatch ==
  ASSUME NEW b \in Builds, NEW c \in Call, NEW p \in Nat, NEW a, NEW q, NEW x,
         Known(b, c, p, a), Exec(b, c, p, a, q, x),
         p \in I_DISPATCH_WRITE(b) .. I_DISPATCH_WRITE(b) + 2
  PROVE  q \in Nat /\ q < PROG_LEN(b) /\ Known(b, c, q, x)
  <1> DEFINE d == I_DISPATCH_WRITE(b)
  <1>1. /\ d \in 3 .. 239 /\ I_DISPATCH_OPENAT(b) = d + 1 /\ I_RET_DENY(b) = d + 14
        /\ I_CHECK_WRITE(b) = d + 3 /\ I_CHECK_OPENAT(b) = d + 6
        /\ I_CHECK_IOCTL(b) = d + 9 /\ PROG_LEN(b) = d + 16
    BY Positions
  <1>2. InDirect(b, c, p, a)
    BY <1>1, AtDirect
  <1>3. ~Direct(b, c) /\ c.arch = b.arch /\ a = c.nr
    <2>1. DOMAIN b.direct = 1 .. d - 3
      BY DirectList
    <2>2. \A i \in 1 .. d - 3 : i <= p - 3
      BY <1>1
    <2> QED BY <2>1, <2>2, <1>2 DEF InDirect, Direct, I_DIRECT_START
  <1>4. /\ p = d => x = a /\ q = d + 1 + (IF a = b.write THEN 2 ELSE 0)
        /\ p = d + 1 => x = a /\ q = d + 1 + 1 + (IF a = b.openat THEN 4 ELSE 0)
        /\ p = d + 2 => x = a /\ q = d + 2 + 1 + (IF a = b.ioctl THEN 6 ELSE 11)
    BY ProgDispatch, ExecJeq
  <1>5. CASE p = d /\ a = b.write
    <2>1. q = d + 3 /\ x = a
      BY <1>1, <1>4, <1>5
    <2>2. InWrite(b, c, d + 3, x)
      BY <1>1, <1>3, <1>5 DEF InWrite, InCheck
    <2>3. Known(b, c, d + 3, x)
      BY <1>1, <2>2, AtWrite
    <2> QED BY <1>1, <2>1, <2>3
  <1>6. CASE p = d + 1 /\ a = b.openat
    <2>1. q = d + 6 /\ x = a
      BY <1>1, <1>4, <1>6
    <2>2. InOpenat(b, c, d + 6, x)
      BY <1>1, <1>3, <1>6 DEF InOpenat, InCheck
    <2>3. Known(b, c, d + 6, x)
      BY <1>1, <2>2, AtOpenat
    <2> QED BY <1>1, <2>1, <2>3
  <1>7. CASE p = d + 2 /\ a = b.ioctl
    <2>1. q = d + 9 /\ x = a
      BY <1>1, <1>4, <1>7
    <2>2. InIoctl(b, c, d + 9, x)
      BY <1>1, <1>3, <1>7 DEF InIoctl, InCheck
    <2>3. Known(b, c, d + 9, x)
      BY <1>1, <2>2, AtIoctl
    <2> QED BY <1>1, <2>1, <2>3
  <1>8. CASE p = d + 2 /\ a # b.ioctl
    <2>1. q = d + 14
      BY <1>1, <1>4, <1>8
    <2>2. c.nr # b.write /\ c.nr # b.openat
      BY <1>1, <1>2, <1>8 DEF InDirect
    <2>3. ~Permitted(b, c)
      BY <1>3, <1>8, <2>2 DEF Permitted
    <2> QED BY <1>1, <2>1, <2>3, Ends
  <1>9. CASE (p = d /\ a # b.write) \/ (p = d + 1 /\ a # b.openat)
    <2>1. q = p + 1 /\ x = a
      BY <1>1, <1>4, <1>9
    <2>2. q > d => c.nr # b.write
      BY <1>1, <1>2, <1>3, <1>9 DEF InDirect
    <2>3. q > I_DISPATCH_OPENAT(b) => c.nr # b.openat
      BY <1>1, <1>3, <1>9, <2>1
    <2>4. InDirect(b, c, q, x)
      BY <1>3, <2>1, <2>2, <2>3 DEF InDirect, Direct
    <2>5. q \in 3 .. d + 2 /\ q < PROG_LEN(b)
      BY <1>1, <1>9, <2>1
    <2> QED BY <2>4, <2>5, AtDirect
  <1> QED BY <1>1, <1>5, <1>6, <1>7, <1>8, <1>9

(* A filtered call is permitted exactly when its own clause says so.       *)
LEMMA PermittedCheck ==
  ASSUME NEW b \in Builds, NEW c, NEW nr, InCheck(b, c, nr)
  PROVE  /\ nr = b.write => (Permitted(b, c) <=> c.arg0 \in {StdOut, StdErr})
         /\ nr = b.openat => (Permitted(b, c) <=> c.arg2 \cap DenyFlags = {})
         /\ nr = b.ioctl => (Permitted(b, c) <=>
              c.arg1 \in {TIOCGWINSZ, TCSETS} \/ c.arg1 \cap RmMask = RmValue)
  <1>1. b.write # b.openat /\ b.write # b.ioctl /\ b.openat # b.ioctl
    BY SeccompAssumption DEF BuildOK
  <1> QED BY <1>1 DEF InCheck, Permitted

LEMMA StepWrite ==
  ASSUME NEW b \in Builds, NEW c \in Call, NEW p \in Nat, NEW a, NEW q, NEW x,
         Known(b, c, p, a), Exec(b, c, p, a, q, x),
         p \in I_DISPATCH_WRITE(b) + 3 .. I_DISPATCH_WRITE(b) + 5
  PROVE  q \in Nat /\ q < PROG_LEN(b) /\ Known(b, c, q, x)
  <1> DEFINE d == I_DISPATCH_WRITE(b)
  <1>1. /\ d \in 3 .. 239 /\ I_RET_DENY(b) = d + 14 /\ I_RET_ALLOW(b) = d + 15
        /\ I_CHECK_WRITE(b) = d + 3 /\ PROG_LEN(b) = d + 16
    BY Positions
  <1>2. InWrite(b, c, p, a)
    BY AtWrite
  <1>3. InCheck(b, c, b.write)
    BY <1>2 DEF InWrite
  <1>4. Permitted(b, c) <=> c.arg0 \in {StdOut, StdErr}
    BY <1>3, PermittedCheck
  <1>5. CASE p = d + 3
    <2>1. x = c["arg0"] /\ q = d + 3 + 1
      BY <1>1, <1>5, ProgWrite, ExecLd
    <2>2. q = d + 4 /\ q \in Nat /\ q \in d + 3 .. d + 5 /\ q < PROG_LEN(b)
      BY <1>1, <2>1
    <2>3. InWrite(b, c, q, x)
      BY <1>1, <1>3, <2>1, <2>2 DEF InWrite
    <2> QED BY <2>2, <2>3, AtWrite
  <1>6. CASE p = d + 4
    <2>1. a = c.arg0
      BY <1>1, <1>2, <1>6 DEF InWrite
    <2>2. x = a /\ q = d + 3 + 1 + 1 + (IF a = StdOut THEN 10 ELSE 0)
      <3>1. p = d + 3 + 1
        BY <1>1, <1>6
      <3> QED BY <1>1, <3>1, ProgWrite, ExecJeq
    <2>3. CASE a = StdOut
      <3>1. q = d + 15 /\ q \in Nat /\ Permitted(b, c)
        BY <1>1, <1>4, <2>1, <2>2, <2>3
      <3> QED BY <1>1, <3>1, Ends
    <2>4. CASE a # StdOut
      <3>1. q = d + 5 /\ q \in Nat /\ q \in d + 3 .. d + 5 /\ q < PROG_LEN(b)
        BY <1>1, <2>2, <2>4
      <3>2. InWrite(b, c, q, x)
        BY <1>1, <1>3, <2>1, <2>2, <2>4, <3>1 DEF InWrite
      <3> QED BY <3>1, <3>2, AtWrite
    <2> QED BY <2>3, <2>4
  <1>7. CASE p = d + 5
    <2>1. a = c.arg0 /\ c.arg0 # StdOut
      BY <1>1, <1>2, <1>7 DEF InWrite
    <2>2. x = a /\ q = d + 3 + 2 + 1 + (IF a = StdErr THEN 9 ELSE 8)
      <3>1. p = d + 3 + 2
        BY <1>1, <1>7
      <3> QED BY <1>1, <3>1, ProgWrite, ExecJeq
    <2>3. q \in Nat /\ IF a = StdErr THEN q = d + 15 ELSE q = d + 14
      BY <1>1, <2>2
    <2> QED BY <1>1, <1>4, <2>1, <2>3, Ends
  <1> QED BY <1>1, <1>5, <1>6, <1>7

LEMMA StepOpenat ==
  ASSUME NEW b \in Builds, NEW c \in Call, NEW p \in Nat, NEW a, NEW q, NEW x,
         Known(b, c, p, a), Exec(b, c, p, a, q, x),
         p \in I_DISPATCH_WRITE(b) + 6 .. I_DISPATCH_WRITE(b) + 8
  PROVE  q \in Nat /\ q < PROG_LEN(b) /\ Known(b, c, q, x)
  <1> DEFINE d == I_DISPATCH_WRITE(b)
  <1>1. /\ d \in 3 .. 239 /\ I_RET_DENY(b) = d + 14 /\ I_RET_ALLOW(b) = d + 15
        /\ I_CHECK_OPENAT(b) = d + 6 /\ PROG_LEN(b) = d + 16
    BY Positions
  <1>2. InOpenat(b, c, p, a)
    BY AtOpenat
  <1>3. InCheck(b, c, b.openat)
    BY <1>2 DEF InOpenat
  <1>4. Permitted(b, c) <=> c.arg2 \cap DenyFlags = {}
    BY <1>3, PermittedCheck
  <1>5. CASE p = d + 6
    <2>1. x = c["arg2"] /\ q = d + 6 + 1
      BY <1>1, <1>5, ProgOpenat, ExecLd
    <2>2. q = d + 7 /\ q \in Nat /\ q \in d + 6 .. d + 8 /\ q < PROG_LEN(b)
      BY <1>1, <2>1
    <2>3. InOpenat(b, c, q, x)
      BY <1>1, <1>3, <2>1, <2>2 DEF InOpenat
    <2> QED BY <2>2, <2>3, AtOpenat
  <1>6. CASE p = d + 7
    <2>1. a = c.arg2
      BY <1>1, <1>2, <1>6 DEF InOpenat
    <2>2. x = a \cap DenyFlags /\ q = d + 6 + 1 + 1
      <3>1. p = d + 6 + 1
        BY <1>1, <1>6
      <3> QED BY <1>1, <3>1, ProgOpenat, ExecAnd
    <2>3. q = d + 8 /\ q \in Nat /\ q \in d + 6 .. d + 8 /\ q < PROG_LEN(b)
      BY <1>1, <2>2
    <2>4. InOpenat(b, c, q, x)
      BY <1>1, <1>3, <2>1, <2>2, <2>3 DEF InOpenat
    <2> QED BY <2>3, <2>4, AtOpenat
  <1>7. CASE p = d + 8
    <2>1. a = c.arg2 \cap DenyFlags
      BY <1>1, <1>2, <1>7 DEF InOpenat
    <2>2. x = a /\ q = d + 6 + 2 + 1 + (IF a = {} THEN 6 ELSE 5)
      <3>1. p = d + 6 + 2
        BY <1>1, <1>7
      <3> QED BY <1>1, <3>1, ProgOpenat, ExecJeq
    <2>3. q \in Nat /\ IF a = {} THEN q = d + 15 ELSE q = d + 14
      BY <1>1, <2>2
    <2> QED BY <1>1, <1>4, <2>1, <2>3, Ends
  <1> QED BY <1>1, <1>5, <1>6, <1>7

LEMMA StepIoctl ==
  ASSUME NEW b \in Builds, NEW c \in Call, NEW p \in Nat, NEW a, NEW q, NEW x,
         Known(b, c, p, a), Exec(b, c, p, a, q, x),
         p \in I_DISPATCH_WRITE(b) + 9 .. I_DISPATCH_WRITE(b) + 13
  PROVE  q \in Nat /\ q < PROG_LEN(b) /\ Known(b, c, q, x)
  <1> DEFINE d == I_DISPATCH_WRITE(b)
             o == I_CHECK_IOCTL(b)
  <1>1. /\ d \in 3 .. 239 /\ I_RET_DENY(b) = d + 14 /\ I_RET_ALLOW(b) = d + 15
        /\ o = d + 9 /\ PROG_LEN(b) = d + 16
    BY Positions
  <1>2. InIoctl(b, c, p, a)
    BY AtIoctl
  <1>3. InCheck(b, c, b.ioctl)
    BY <1>2 DEF InIoctl
  <1>4. Permitted(b, c) <=>
          c.arg1 \in {TIOCGWINSZ, TCSETS} \/ c.arg1 \cap RmMask = RmValue
    BY <1>3, PermittedCheck
  <1>5. o \in Nat /\ p \in {o, o + 1, o + 2, o + 3, o + 4}
    BY <1>1
  (* Inside the block.                                                     *)
  <1>6. ASSUME q \in o + 1 .. o + 4, InIoctl(b, c, q, x)
        PROVE  q \in Nat /\ q < PROG_LEN(b) /\ Known(b, c, q, x)
    <2>1. q \in Nat /\ q < PROG_LEN(b) /\ q \in d + 9 .. d + 13
      BY <1>1, <1>6
    <2> QED BY <1>6, <2>1, AtIoctl
  <1>7. CASE p = o
    <2>1. x = c["arg1"] /\ q = o + 1
      BY <1>7, ProgIoctl, ExecLd
    <2>2. InIoctl(b, c, q, x)
      BY <1>3, <1>5, <2>1 DEF InIoctl
    <2> QED BY <1>5, <1>6, <2>1, <2>2
  <1>8. CASE p = o + 1
    <2>1. a = c.arg1
      BY <1>2, <1>5, <1>8 DEF InIoctl
    <2>2. x = a /\ q = o + 1 + 1 + (IF a = TIOCGWINSZ THEN 4 ELSE 0)
      BY <1>8, ProgIoctl, ExecJeq
    <2>3. CASE a = TIOCGWINSZ
      <3>1. q = d + 15 /\ q \in Nat /\ Permitted(b, c)
        BY <1>1, <1>4, <2>1, <2>2, <2>3
      <3> QED BY <1>1, <3>1, Ends
    <2>4. CASE a # TIOCGWINSZ
      <3>1. q = o + 2 /\ q \in o + 1 .. o + 4
        BY <1>5, <2>2, <2>4
      <3>2. InIoctl(b, c, q, x)
        BY <1>3, <1>5, <2>1, <2>2, <2>4, <3>1 DEF InIoctl
      <3> QED BY <1>6, <3>1, <3>2
    <2> QED BY <2>3, <2>4
  <1>9. CASE p = o + 2
    <2>1. a = c.arg1 /\ c.arg1 # TIOCGWINSZ
      BY <1>2, <1>5, <1>9 DEF InIoctl
    <2>2. x = a /\ q = o + 2 + 1 + (IF a = TCSETS THEN 3 ELSE 0)
      BY <1>9, ProgIoctl, ExecJeq
    <2>3. CASE a = TCSETS
      <3>1. q = d + 15 /\ q \in Nat /\ Permitted(b, c)
        BY <1>1, <1>4, <2>1, <2>2, <2>3
      <3> QED BY <1>1, <3>1, Ends
    <2>4. CASE a # TCSETS
      <3>1. q = o + 3 /\ q \in o + 1 .. o + 4
        BY <1>5, <2>2, <2>4
      <3>2. InIoctl(b, c, q, x)
        BY <1>3, <1>5, <2>1, <2>2, <2>4, <3>1 DEF InIoctl
      <3> QED BY <1>6, <3>1, <3>2
    <2> QED BY <2>3, <2>4
  <1>10. CASE p = o + 3
    <2>1. a = c.arg1 /\ c.arg1 # TIOCGWINSZ /\ c.arg1 # TCSETS
      BY <1>2, <1>5, <1>10 DEF InIoctl
    <2>2. x = a \cap RmMask /\ q = o + 3 + 1
      BY <1>10, ProgIoctl, ExecAnd
    <2>3. q = o + 4 /\ q \in o + 1 .. o + 4
      BY <1>5, <2>2
    <2>4. InIoctl(b, c, q, x)
      BY <1>3, <1>5, <2>1, <2>2, <2>3 DEF InIoctl
    <2> QED BY <1>6, <2>3, <2>4
  <1>11. CASE p = o + 4
    <2>1. a = c.arg1 \cap RmMask /\ c.arg1 # TIOCGWINSZ /\ c.arg1 # TCSETS
      BY <1>2, <1>5, <1>11 DEF InIoctl
    <2>2. x = a /\ q = o + 4 + 1 + (IF a = RmValue THEN 1 ELSE 0)
      BY <1>11, ProgIoctl, ExecJeq
    <2>3. q \in Nat /\ IF a = RmValue THEN q = d + 15 ELSE q = d + 14
      BY <1>1, <2>2
    <2> QED BY <1>1, <1>4, <2>1, <2>3, Ends
  <1> QED BY <1>5, <1>7, <1>8, <1>9, <1>10, <1>11

----------------------------------------------------------------------------
(* The whole program                                                       *)

Fields == {"nr", "arch", "arg0", "arg1", "arg2"}

(* Only the last two instructions return, and loads name fields.           *)
LEMMA Codes ==
  ASSUME NEW b \in Builds, NEW p \in 0 .. PROG_LEN(b) - 1
  PROVE  /\ Prog(b, p).code = "ret" => p \in {I_RET_DENY(b), I_RET_ALLOW(b)}
         /\ Prog(b, p).code = "ld" => Prog(b, p).k \in Fields
  <1> DEFINE d == I_DISPATCH_WRITE(b)
  <1>1. /\ d \in 3 .. 239 /\ I_RET_DENY(b) = d + 14 /\ I_RET_ALLOW(b) = d + 15
        /\ I_CHECK_WRITE(b) = d + 3 /\ I_CHECK_OPENAT(b) = d + 6
        /\ I_CHECK_IOCTL(b) = d + 9 /\ PROG_LEN(b) = d + 16
    BY Positions
  <1>2. CASE p \in 0 .. 2
    BY <1>2, ProgSetup DEF Ld, Jeq, Fields
  <1>3. CASE p \in 3 .. d - 1
    BY <1>3, ProgDirect DEF Jeq
  <1>4. CASE p \in {d, d + 1, d + 2}
    <2>1. /\ Prog(b, d) = Jeq(b.write, 2, 0) /\ Prog(b, d + 1) = Jeq(b.openat, 4, 0)
          /\ Prog(b, d + 2) = Jeq(b.ioctl, 6, 11)
      BY ProgDispatch
    <2> QED BY <1>4, <2>1 DEF Jeq
  <1>5. CASE p \in {d + 3, d + 4, d + 5}
    <2>1. Prog(b, d + 3) = Ld("arg0")
      BY <1>1, ProgWrite
    <2>2. d + 3 + 1 = d + 4 /\ d + 3 + 2 = d + 5
      BY <1>1
    <2>3. Prog(b, d + 4) = Jeq(StdOut, 10, 0) /\ Prog(b, d + 5) = Jeq(StdErr, 9, 8)
      BY <1>1, <2>2, ProgWrite
    <2> QED BY <1>5, <2>1, <2>3 DEF Ld, Jeq, Fields
  <1>6. CASE p \in {d + 6, d + 7, d + 8}
    <2>1. Prog(b, d + 6) = Ld("arg2")
      BY <1>1, ProgOpenat
    <2>2. d + 6 + 1 = d + 7 /\ d + 6 + 2 = d + 8
      BY <1>1
    <2>3. Prog(b, d + 7) = And(DenyFlags) /\ Prog(b, d + 8) = Jeq({}, 6, 5)
      BY <1>1, <2>2, ProgOpenat
    <2> QED BY <1>6, <2>1, <2>3 DEF Ld, Jeq, And, Fields
  <1>7. CASE p \in {d + 9, d + 10, d + 11, d + 12, d + 13}
    <2>1. Prog(b, d + 9) = Ld("arg1")
      BY <1>1, ProgIoctl
    <2>2. d + 9 + 1 = d + 10 /\ d + 9 + 2 = d + 11 /\ d + 9 + 3 = d + 12 /\ d + 9 + 4 = d + 13
      BY <1>1
    <2>3. /\ Prog(b, d + 10) = Jeq(TIOCGWINSZ, 4, 0) /\ Prog(b, d + 11) = Jeq(TCSETS, 3, 0)
          /\ Prog(b, d + 12) = And(RmMask) /\ Prog(b, d + 13) = Jeq(RmValue, 1, 0)
      BY <1>1, <2>2, ProgIoctl
    <2> QED BY <1>7, <2>1, <2>3 DEF Ld, Jeq, And, Fields
  <1>8. CASE p \in {d + 14, d + 15}
    <2>1. p \in {I_RET_DENY(b), I_RET_ALLOW(b)}
      BY <1>1, <1>8
    <2>2. Prog(b, p).code = "ret"
      BY <2>1, ProgReturns DEF Ret
    <2> QED BY <2>1, <2>2
  <1> QED BY <1>1, <1>2, <1>3, <1>4, <1>5, <1>6, <1>7, <1>8

LEMMA StepProgram ==
  ASSUME NEW b \in Builds, NEW c \in Call, NEW p \in 0 .. PROG_LEN(b) - 1, NEW a,
         NEW q, NEW x, Known(b, c, p, a), Exec(b, c, p, a, q, x)
  PROVE  q \in 0 .. PROG_LEN(b) - 1 /\ Known(b, c, q, x)
  <1> DEFINE d == I_DISPATCH_WRITE(b)
  <1>1. /\ d \in 3 .. 239 /\ I_RET_DENY(b) = d + 14 /\ I_RET_ALLOW(b) = d + 15
        /\ PROG_LEN(b) = d + 16
    BY Positions
  <1>2. p \in Nat
    BY <1>1
  <1>3. p \notin {d + 14, d + 15}
    <2>1. Prog(b, p).code \in {"ld", "and", "jeq"}
      BY DEF Exec
    <2> QED BY <2>1, <1>1, ProgReturns DEF Ret
  <1>4. q \in Nat /\ q < PROG_LEN(b) /\ Known(b, c, q, x)
    <2>1. \/ p \in 0 .. 2 \/ p \in 3 .. d - 1 \/ p \in d .. d + 2
          \/ p \in d + 3 .. d + 5 \/ p \in d + 6 .. d + 8 \/ p \in d + 9 .. d + 13
      BY <1>1, <1>3
    <2> QED BY <1>2, <2>1, StepSetup, StepDirect, StepDispatch, StepWrite, StepOpenat, StepIoctl
  <1> QED BY <1>1, <1>4

LEMMA ReturnAnswers ==
  ASSUME NEW b \in Builds, NEW c \in Call, NEW p \in 0 .. PROG_LEN(b) - 1, NEW a,
         Known(b, c, p, a), Prog(b, p).code = "ret"
  PROVE  Prog(b, p).k = Answer(b, c)
  <1>1. CASE p = I_RET_DENY(b)
    <2>1. ~Permitted(b, c)
      BY <1>1 DEF Known
    <2> QED BY <1>1, <2>1, ProgReturns DEF Ret, Answer
  <1>2. CASE p = I_RET_ALLOW(b)
    <2>1. Permitted(b, c)
      BY <1>2 DEF Known
    <2> QED BY <1>2, <2>1, ProgReturns DEF Ret, Answer
  <1> QED BY <1>1, <1>2, Codes

LEMMA HandlerPermitted ==
  ASSUME NEW b \in Builds
  PROVE  /\ Report(b) \in Call /\ Permitted(b, Report(b))
         /\ Leave(b) \in Call /\ Permitted(b, Leave(b))
  <1>1. b \in Build /\ \E i \in DOMAIN b.direct : b.direct[i] = b.exit_group
    BY SeccompAssumption DEF BuildOK
  <1>2. b.write \in Word /\ b.arch \in Word /\ b.exit_group \in Word
    BY <1>1 DEF Build
  <1>3. StdErr \in Word /\ {} \in Word
    BY DEF StdErr, Word, Bit
  <1>4. Report(b) \in Call /\ Leave(b) \in Call
    BY <1>2, <1>3 DEF Report, Leave, Call
  <1>5. Permitted(b, Report(b))
    BY DEF Permitted, Report
  <1>6. Permitted(b, Leave(b))
    BY <1>1 DEF Permitted, Leave, Direct
  <1> QED BY <1>4, <1>5, <1>6

----------------------------------------------------------------------------
(* Invariance                                                              *)

LEMMA Start ==
  ASSUME NEW b \in Builds, NEW c, NEW a
  PROVE  0 \in 0 .. PROG_LEN(b) - 1 /\ Known(b, c, 0, a)
  <1>1. PROG_LEN(b) - 1 \in Nat
    BY Positions
  <1> QED BY <1>1, AtSetup

LEMMA InitIInv == Init => IInv
  <1> SUFFICES ASSUME Init PROVE IInv
    OBVIOUS
  <1> USE DEF Init, PolicyInit
  <1>1. 0 \in 0 .. PROG_LEN(build) - 1
    BY Start
  <1>2. TypeOK
    BY <1>1 DEF TypeOK, Word
  <1> QED BY <1>2 DEF IInv, Running, HandlerCalls

(* The three instructions that go on, as one.                              *)
LEMMA RunIInv ==
  ASSUME IInv, Running, UNCHANGED policyVars, A' \in Word,
         Exec(build, call, pc, A, pc', A')
  PROVE  IInv'
  <1> USE DEF IInv, policyVars
  <1>1. build \in Builds /\ call \in Call /\ pc \in 0 .. PROG_LEN(build) - 1
    BY DEF TypeOK, Running
  <1>2. pc' \in 0 .. PROG_LEN(build) - 1 /\ Known(build, call, pc', A')
    BY <1>1, StepProgram
  <1>3. TypeOK'
    BY <1>2 DEF TypeOK
  <1>4. Known(build, call, pc, A)'
    BY <1>2
  <1> QED BY <1>3, <1>4 DEF HandlerCalls

LEMMA NextIInv == IInv /\ [Next]_vars => IInv'
  <1> SUFFICES ASSUME IInv, [Next]_vars PROVE IInv'
    OBVIOUS
  <1>1. /\ build \in Builds /\ call \in Call \cup {NoCall} /\ pc \in 0 .. PROG_LEN(build) - 1
        /\ A \in Word /\ verdict \in {"none", "allow", "kill", "trap"}
        /\ mode \in {"process", "handler", "dead"}
    BY DEF IInv, TypeOK
  <1>2. Running => call \in Call
    BY <1>1 DEF Running
  <1>3. ASSUME NEW c \in Calls, EnterKernel(c) PROVE IInv'
    <2> USE DEF EnterKernel, Enter
    <2>1. c \in Call
      BY <1>3, SeccompAssumption
    <2>2. build' = build /\ call' = c /\ pc' = 0 /\ A' = {} /\ mode' = "process"
      BY <1>3
    <2>3. TypeOK'
      BY <1>1, <1>3, <2>1, <2>2, Start DEF TypeOK, Word
    <2>4. Known(build, call, pc, A)'
      BY <1>1, <2>2, Start
    <2> QED BY <2>2, <2>3, <2>4 DEF IInv, HandlerCalls
  <1>4. CASE Load
    <2>1. Exec(build, call, pc, A, pc', A')
      BY <1>4 DEF Load, Exec
    <2>2. A' \in Word
      <3>1. Prog(build, pc).k \in Fields
        BY <1>1, <1>4, Codes DEF Load
      <3>2. \A f \in Fields : call[f] \in Word
        BY <1>2, <1>4 DEF Load, Call, Fields
      <3> QED BY <1>4, <3>1, <3>2 DEF Load
    <2> QED BY <1>4, <2>1, <2>2, RunIInv DEF Load
  <1>5. CASE Mask
    <2>1. Exec(build, call, pc, A, pc', A')
      BY <1>5 DEF Mask, Exec
    <2>2. A' \in Word
      BY <1>1, <1>5 DEF Mask, Word
    <2> QED BY <1>5, <2>1, <2>2, RunIInv DEF Mask
  <1>6. CASE Jump
    <2>1. Exec(build, call, pc, A, pc', A')
      BY <1>6 DEF Jump, Exec
    <2> QED BY <1>1, <1>6, <2>1, RunIInv DEF Jump
  <1>7. CASE Return
    <2> USE DEF Return
    <2>1. verdict' = Answer(build, call)
      BY <1>1, <1>2, <1>7, ReturnAnswers DEF IInv
    <2>2. build.deny \in {"kill", "trap"}
      BY <1>1, SeccompAssumption DEF BuildOK, Build
    <2>3. verdict' \in {"allow", "kill", "trap"}
      BY <2>1, <2>2 DEF Answer
    <2>4. TypeOK'
      BY <1>1, <1>7, <2>3 DEF TypeOK
    <2>5. ~Running'
      BY <2>3 DEF Running
    <2>6. HandlerCalls'
      <3> SUFFICES ASSUME mode' = "handler"
                   PROVE  call' \in {Report(build'), Leave(build')} /\ verdict' \in {"none", "allow"}
        BY DEF HandlerCalls
      <3>1. call \in {Report(build), Leave(build)}
        BY <1>7 DEF IInv, HandlerCalls
      <3>2. Permitted(build, call)
        BY <1>1, <3>1, HandlerPermitted
      <3> QED BY <1>7, <2>1, <3>1, <3>2 DEF Answer
    <2> QED BY <2>4, <2>5, <2>6 DEF IInv
  <1>8. CASE Resume
    <2>1. build' = build /\ verdict' = "none" /\ pc' = 0 /\ A' = {}
      BY <1>8 DEF Resume, Proceed, Trap
    <2>2. /\ call' \in {NoCall, Leave(build), Report(build)}
          /\ mode' \in {"process", "handler", "dead"}
      BY <1>1, <1>8 DEF Resume, Proceed, Trap
    <2>3. mode' = "handler" => call' \in {Report(build), Leave(build)}
      <3>1. CASE Trap
        BY <3>1 DEF Trap
      <3>2. CASE Proceed
        <4>1. CASE mode = "handler" /\ call = Report(build)
          BY <3>2, <4>1 DEF Proceed
        <4>2. CASE mode = "handler" /\ call # Report(build)
          <5>1. call = Leave(build)
            BY <4>2 DEF IInv, HandlerCalls
          <5>2. call.nr = build.exit_group
            BY <5>1 DEF Leave
          <5> QED BY <3>2, <4>2, <5>2 DEF Proceed
        <4>3. CASE mode # "handler"
          BY <3>2, <4>3 DEF Proceed
        <4> QED BY <4>1, <4>2, <4>3
      <3> QED BY <1>8, <3>1, <3>2 DEF Resume
    <2>4. TypeOK'
      BY <1>1, <2>1, <2>2, HandlerPermitted, Start DEF TypeOK, Word
    <2>5. Known(build, call, pc, A)'
      BY <1>1, <2>1, Start
    <2> QED BY <2>1, <2>3, <2>4, <2>5 DEF IInv, HandlerCalls
  <1>9. CASE Die
    <2> USE DEF Die, Kill
    <2>1. TypeOK'
      BY <1>1, <1>9 DEF TypeOK
    <2>2. ~Running'
      BY <1>9 DEF Running
    <2>3. mode' = "dead"
      BY <1>9
    <2> QED BY <2>1, <2>2, <2>3 DEF IInv, HandlerCalls
  <1>10. CASE UNCHANGED vars
    BY <1>10 DEF vars, IInv, TypeOK, Running, HandlerCalls
  <1>11. CASE Gone
    BY <1>10, <1>11 DEF Gone
  <1> QED BY <1>3, <1>4, <1>5, <1>6, <1>7, <1>8, <1>9, <1>10, <1>11 DEF Next

(* The invariant of the program: what each instruction may rely on.        *)
THEOREM SeccompInductive == Spec => []IInv
  BY InitIInv, NextIInv, PTL DEF Spec

(* The program counter never leaves the program and A is a word, for every *)
(* list of direct calls: build_prog's jumps all land inside.               *)
THEOREM SeccompTypes == Spec => []TypeOK
  <1>1. IInv => TypeOK
    BY DEF IInv
  <1> QED BY <1>1, SeccompInductive, PTL

(* sigsys_trampoline's write and exit_group pass the filter it reports on. *)
THEOREM SeccompHandlerReports == Spec => []HandlerReports
  <1>1. IInv => HandlerReports
    BY DEF IInv, HandlerCalls, HandlerReports
  <1> QED BY <1>1, SeccompInductive, PTL

----------------------------------------------------------------------------
(* Refinement                                                              *)

LEMMA StepPolicy == IInv /\ [Next]_vars => [PolicyNext]_policyVars
  <1> SUFFICES ASSUME IInv, [Next]_vars PROVE [PolicyNext]_policyVars
    OBVIOUS
  <1>1. ASSUME NEW c \in Calls, EnterKernel(c) PROVE PolicyNext
    BY <1>1 DEF EnterKernel, PolicyNext
  <1>2. CASE Load \/ Mask \/ Jump
    BY <1>2 DEF Load, Mask, Jump
  <1>3. CASE Return
    <2>1. build \in Builds /\ call \in Call /\ pc \in 0 .. PROG_LEN(build) - 1
      BY <1>3 DEF IInv, TypeOK, Return, Running
    <2>2. verdict' = Answer(build, call)
      BY <1>3, <2>1, ReturnAnswers DEF IInv, Return
    <2>3. Decide
      BY <1>3, <2>2 DEF Return, Running, Decide
    <2> QED BY <2>3 DEF PolicyNext
  <1>4. CASE Resume \/ Die
    BY <1>4 DEF Resume, Die, PolicyNext
  <1>5. CASE UNCHANGED vars
    BY <1>5 DEF vars, policyVars
  <1>6. CASE Gone
    BY <1>5, <1>6 DEF Gone
  <1> QED BY <1>1, <1>2, <1>3, <1>4, <1>5, <1>6 DEF Next

(* build_prog is right: run by the kernel, the program answers every call  *)
(* as the comments of sandbox.rs promise, for every build.                 *)
THEOREM ProgramImplementsPolicy == Spec => Implements
  <1>1. Init => Policy!PolicyInit
    BY DEF Init, PolicyInit, Policy!PolicyInit
  <1>2. [PolicyNext]_policyVars => [Policy!PolicyNext]_(Policy!policyVars)
    BY DEF PolicyNext, policyVars, Enter, Decide, Proceed, Trap, Kill, Answer, Permitted,
       Direct, Report, Leave, StdOut, StdErr, DenyFlags, TIOCGWINSZ, TCSETS, RmMask, RmValue,
       Policy!PolicyNext, Policy!policyVars, Policy!Enter, Policy!Decide, Policy!Proceed,
       Policy!Trap, Policy!Kill, Policy!Answer, Policy!Permitted, Policy!Direct,
       Policy!Report, Policy!Leave, Policy!StdOut, Policy!StdErr, Policy!DenyFlags,
       Policy!TIOCGWINSZ, Policy!TCSETS, Policy!RmMask, Policy!RmValue
  <1>3. IInv /\ [Next]_vars => [Policy!PolicyNext]_(Policy!policyVars)
    BY <1>2, StepPolicy
  <1> QED BY <1>1, <1>3, SeccompInductive, PTL DEF Spec, Implements, Policy!PolicySpec

=============================================================================
