------------------------------ MODULE MCParts ------------------------------
(***************************************************************************)
(* Seven parts of ltop that share no state, each on its own in one         *)
(* behaviour: the page reclaim at start-up, the two GPU backends, the      *)
(* decoder of the replies that one of them gets, the reading of a          *)
(* process's arguments, the row budget of the frame, and the tool that     *)
(* sizes the stack.                                                        *)
(***************************************************************************)
EXTENDS OsBinary, Agx, Rm, Reclaim, Args, Render, StackSvg

Region(lo, hi, what) == [lo |-> lo, hi |-> hi, what |-> what]

(* Any stack, with a hole or the kernel's own pages above it.              *)
Linux == {{Region(lo, hi, "stack")} \cup above :
            lo \in 1 .. 2, hi \in 3 .. 6, above \in {{}, {Region(6, 7, "guard")}}}

(* Zones right above and right below what is kept, an arena in two         *)
(* regions, and more regions than the sweep looks at.                      *)
Mac(zone) ==
  {Region(1, 2, "zone"), Region(2, 4, "text"), Region(4, 5, "arena"), Region(5, 6, "arena"),
   zone, Region(12, 15, "guard"), Region(15, 18, "stack"), Region(18, 19, "zone"),
   Region(20, 25, "pool")}
Small == {Region(1, 3, "stack"), Region(3, 4, "zone"), Region(5, 7, "arena"),
          Region(7, 8, "zone"), Region(8, 9, "text")}

MCSpaces == Linux \cup {Small} \cup {Mac(Region(lo, lo + 2, "zone")) : lo \in 6 .. 7}

----------------------------------------------------------------------------
(* Up to three arguments, some of them empty, and an environment or none.  *)
MCPrograms == {[path |-> <<9>>, argv |-> argv, env |-> env] :
                 argv \in SeqOf({<<>>, <<1>>, <<2, 3>>}, 3), env \in {<<>>, <<<<4, 5>>>>}}

----------------------------------------------------------------------------
(* Disassemblies and sections.                                             *)

L(is, to, size) == [is |-> is, to |-> to, size |-> size]
Fn(name, size, targets) ==
  <<L("header", name, 0)>> \o (IF size = 0 THEN <<>> ELSE <<L("sub", name, size), L("sub", name, 1)>>)
    \o [n \in DOMAIN targets |-> L("call", targets[n], 0)]
    \o <<L("into", name, 0), L("other", name, 0)>>

Sym(addr, name) == [addr |-> addr, name |-> name, plain |-> FALSE]
NoMap == <<>>

(* Every call graph of this shape, with recursion and a function without a *)
(* body, under two bounds; h has a frame or none.                          *)
Graphs ==
  {[format |-> "macho",
    listing |-> <<L("call", "g", 0)>> \o Fn("main", 2, main) \o Fn("g", 3, g) \o Fn("h", size, h),
    symbols |-> <<Sym(1, "main"), Sym(2, "g"), Sym(3, "h")>>, frames |-> NoMap, dies |-> NoMap,
    bound |-> bound, default |-> 1] :
     main \in SeqOf({"g", "h"}, 2), g \in SeqOf(Names, 2), h \in SeqOf({"main", "g", "ext"}, 1),
     size \in {0, 7}, bound \in {NoMap, "g" :> 2}}

(* A function that is reached by a jump into its middle only.              *)
Middle ==
  [format |-> "macho",
   listing |-> Fn("main", 1, <<"h">>) \o <<L("into", "g", 0)>> \o Fn("g", 3, <<>>) \o Fn("h", 2, <<>>),
   symbols |-> <<Sym(1, "main"), Sym(2, "g"), Sym(3, "h")>>, frames |-> NoMap, dies |-> NoMap,
   bound |-> NoMap, default |-> 1]

Die(tag, name, kids) ==
  [tag |-> tag, name |-> name, of |-> name, at |-> 0, size |-> 0, kids |-> kids]
Local(of, where, size) == [Die("local", of, <<>>) EXCEPT !.at = where, !.size = size]

(* Inlined calls in blocks and in each other, with locals that reach out   *)
(* of the frame on either side, and calls without locals.                  *)
Trees ==
  {Die("sub", "main",
      <<Local("main", 0, 9),
        Die("block", "", <<Die("inlined", "a",
          <<Local("a", lo, w), Die("elsewhere", "a", <<>>), Die("inlined", "b", <<Local("b", 2, 1)>>),
            Die("block", "", <<Local("a", 5, 1),
              Die("inlined", "c", <<Local("c", lc, sc)>>)>>)>>)>>),
        Die("inlined", "d", <<>>)>>) :
     lo \in {-2, 0, 3}, w \in {1, 4}, lc \in {0, 8, 12}, sc \in {-1, 4}}

Elf(frames, dies, symbols) ==
  [format |-> "elf",
   listing |-> Fn("main", 0, <<"g", "h">>) \o Fn("g", 0, <<"h">>) \o Fn("h", 0, <<>>),
   symbols |-> symbols, frames |-> frames, dies |-> dies, bound |-> NoMap, default |-> 2]

NoEntry == Elf(1 :> 2, NoMap, <<Sym(1, "g")>>)

(* Two functions of one name, some without a size; an address with two     *)
(* names; no sizes at all; no entry.                                       *)
Elfs ==
  {Elf(1 :> 10 @@ 2 :> 4 @@ 3 :> 5, 1 :> die, <<Sym(1, "main"), Sym(2, "g"), Sym(3, "h")>>) :
     die \in Trees}
  \cup {Elf(frames, NoMap, <<Sym(1, "main"), Sym(2, "g"), Sym(3, "g"),
                             [Sym(4, "h") EXCEPT !.plain = TRUE], Sym(4, "ext")>>) :
     frames \in {NoMap, 1 :> 2 @@ 2 :> 3, 1 :> 2 @@ 2 :> 3 @@ 3 :> 4 @@ 4 :> 1, 1 :> 2 @@ 4 :> 5}}
  \cup {NoEntry}

MCBinaries == Graphs \cup {Middle} \cup Elfs

----------------------------------------------------------------------------
(* The places for user clients are alike.                                  *)
SlotSymmetry == Permutations(Slots)

----------------------------------------------------------------------------
Start(mine, job, from) == IF mine = job THEN from ELSE "off"

(* The frame that nobody draws.                                            *)
NoFrame ==
  /\ height = 0 /\ len = 0 /\ roots = <<>> /\ empty = TRUE
  /\ stage = "off" /\ k = 1
  /\ total_children = 0 /\ allocated = 0 /\ groups = <<>> /\ lines = 5

PInit ==
  \E job \in {"decode", "agx", "rm", "reclaim", "args", "render", "svg"} :
    /\ OInit(Start("decode", job, "walk"))
    /\ job # "decode" => ckpts.cap = 1
    /\ AInit(Start("agx", job, "init"))
    /\ job # "agx" => walk.room = 1
    /\ RInit(Start("rm", job, "ctl"))
    /\ MInit(Start("reclaim", job, "entry"))
    /\ job # "reclaim" => given = {Region(1, 3, "stack")} /\ dirty = {1}
    /\ GInit(Start("args", job, "first"))
    /\ job # "args" => unix = "linux" /\ image.argv = <<>> /\ image.env = <<>>
    /\ IF job = "render" THEN Init ELSE NoFrame
    /\ job # "svg" => bin = NoEntry
    /\ SInit(Start("svg", job, "scan"))

(* The part that is on moves.                                              *)
PNext ==
  \/ pc # "off" /\ ONext /\ UNCHANGED <<avars, rvars, mvars, gvars, vars, svars>>
  \/ ~At("off") /\ ANext /\ UNCHANGED <<ovars, rvars, mvars, gvars, vars, svars>>
  \/ rpc # "off" /\ RNext /\ UNCHANGED <<ovars, avars, mvars, gvars, vars, svars>>
  \/ at # "off" /\ MNext /\ UNCHANGED <<ovars, avars, rvars, gvars, vars, svars>>
  \/ call # "off" /\ GNext /\ UNCHANGED <<ovars, avars, rvars, mvars, vars, svars>>
  \/ stage # "off" /\ Next /\ UNCHANGED <<ovars, avars, rvars, mvars, gvars, svars>>
  \/ phase # "off" /\ SNext /\ UNCHANGED <<ovars, avars, rvars, mvars, gvars, vars>>

PSpec == PInit /\ [][PNext]_<<ovars, avars, rvars, mvars, gvars, vars, svars>>

============================================================================
