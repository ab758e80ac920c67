------------------------------ MODULE MCArena ------------------------------
(* Small instances of Arena.  T0 is the zero-sized GpuPrevElem of Linux.   *)
EXTENDS Arena, TLC

T0 == [size |-> 0, align |-> 1]
T1 == [size |-> 1, align |-> 1]
T2 == [size |-> 2, align |-> 2]

MCBytes == {T1}
MCElems == {T1, T2}

IdSymmetry == Permutations(Ids)

============================================================================
