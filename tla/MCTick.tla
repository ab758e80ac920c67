------------------------------- MODULE MCTick -------------------------------
(* The sizes of run()'s spans, halved (alignments too): (u32, u64) is 16   *)
(* bytes aligned to 8, (u32, Packed) 8 bytes aligned to 4.                 *)
EXTENDS TickArena

Unit   == [size |-> 0, align |-> 1]
AgxPrev == [size |-> 8, align |-> 4]
PidPrev == [size |-> 4, align |-> 2]
Scrap  == [size |-> 3, align |-> 1]

TickElems == {Unit, AgxPrev, PidPrev, Scrap}

=============================================================================
