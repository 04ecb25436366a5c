----------------------------- MODULE FunctionCfg -----------------------------
(***************************************************************************)
(* The control-flow graph of one decoded function                          *)
(* (features/analysis/cfg.ts).  The code is a sequence of instructions,    *)
(* the index standing for the address; a block is named by the address of  *)
(* its first instruction.  An instruction has a field flow (none, jump,    *)
(* jcc, call, syscall, return) and a target, 0 when it has no direct one.   *)
(***************************************************************************)
EXTENDS Integers, Sequences, FiniteSets, FiniteSetsExt

Addresses(code) == 1..Len(code)

(* The leaders: the first instruction, every direct target inside the      *)
(* function, and what follows a jump or a return.                          *)
Starts(code) ==
    {1} \cup {code[i].target : i \in {j \in Addresses(code) : code[j].target \in Addresses(code)}}
        \cup {i + 1 : i \in {j \in Addresses(code) :
                                 j < Len(code) /\ code[j].flow \in {"jump", "jcc", "return"}}}

BlockOf(code, i) == Max({s \in Starts(code) : s <= i})

BlockBody(code, s) == {i \in Addresses(code) : BlockOf(code, i) = s}

NextBlocks(code, s) ==
    LET after == {t \in Starts(code) : t > s} IN IF after = {} THEN {} ELSE {Min(after)}

Successors(code, s) ==
    LET final == Max(BlockBody(code, s))
        ins  == code[final]
        hit  == IF ins.target \in Addresses(code) THEN {BlockOf(code, ins.target)} ELSE {}
    IN  IF ins.flow = "jump" /\ ins.target # 0 THEN hit
        ELSE IF ins.flow = "jcc" /\ ins.target # 0 THEN hit \cup NextBlocks(code, s)
        ELSE IF ins.flow = "return" THEN {}
        ELSE NextBlocks(code, s)

Edges(code) == {<<s, t>> \in Starts(code) \X Starts(code) : t \in Successors(code, s)}

Predecessors(code, s) == {t \in Starts(code) : s \in Successors(code, t)}

(* What the search from the entry block visits.                            *)
Reachable(code, entry) ==
    LET spread(blocks) == blocks \cup UNION {Successors(code, s) : s \in blocks}
        grow[n \in 0..Len(code)] == IF n = 0 THEN {entry} ELSE spread(grow[n - 1])
    IN  grow[Len(code)]

BackEdges(code) == {e \in Edges(code) : e[2] <= e[1]}
=============================================================================
