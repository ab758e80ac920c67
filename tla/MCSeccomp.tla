----------------------------- MODULE MCSeccomp ------------------------------
(* The builds of sandbox.rs and one whose list of direct calls has grown   *)
(* to the length at which jump_distances_fit_in_u8 still passes.           *)
EXTENDS Seccomp, FiniteSets

Bits(n) == {b \in 0 .. 15 : (n \div 2 ^ b) % 2 = 1}

List(s) == [i \in DOMAIN s |-> Bits(s[i])]

X86 == [direct |-> List(<<0, 3, 28, 35, 39, 217, 219, 263, 228, 231>>),
        write |-> Bits(1), openat |-> Bits(257), ioctl |-> Bits(16),
        exit_group |-> Bits(231), arch |-> Bits(62), deny |-> "kill"]
X86Trap == [X86 EXCEPT !.direct = Append(@, Bits(15)), !.deny = "trap"]
Arm == [direct |-> List(<<63, 57, 233, 101, 172, 61, 128, 35, 113, 94>>),
        write |-> Bits(64), openat |-> Bits(56), ioctl |-> Bits(29),
        exit_group |-> Bits(94), arch |-> Bits(183), deny |-> "kill"]
Grown == [X86Trap EXCEPT !.direct = @ \o List([i \in 1 .. 225 |-> 300 + i])]

AllBuilds == {X86, X86Trap, Arm, Grown}

(* Numbers on both sides of every list: execve, ptrace, mmap, socket.      *)
Numbers == (UNION {{b.direct[i] : i \in DOMAIN b.direct} : b \in AllBuilds})
             \cup {Bits(n) : n \in {59, 101, 9, 41, 300, 526}}

Zero == [nr |-> {}, arch |-> {}, arg0 |-> {}, arg1 |-> {}, arg2 |-> {}]

(* Every number in either architecture; for the filtered calls file        *)
(* descriptors 0 to 3, open flags, and terminal and driver commands, some  *)
(* one bit off (TIOCSTI, a direction bit missing, a neighbouring magic).   *)
AllCalls ==
  {[Zero EXCEPT !.nr = n, !.arch = a] : n \in Numbers, a \in {X86.arch, Arm.arch}}
  \cup {[Zero EXCEPT !.nr = b.write, !.arch = b.arch, !.arg0 = Bits(f)] :
           b \in AllBuilds, f \in 0 .. 3}
  \cup {[Zero EXCEPT !.nr = b.openat, !.arch = b.arch, !.arg2 = f] :
           b \in AllBuilds, f \in {{}, {0}, {1}, {6}, {9}, {10}, {19}, {22}, {6, 19}}}
  \cup {[Zero EXCEPT !.nr = b.ioctl, !.arch = b.arch, !.arg1 = c] :
           b \in AllBuilds,
           c \in {TIOCGWINSZ, TCSETS, {14, 12, 10, 4, 1}, RmValue, RmValue \cup {3, 20},
                  RmValue \ {31}, RmValue \cup {8}}}

=============================================================================
