------------------------------ MODULE Dataflow ------------------------------
(***************************************************************************)
(* The static dataflow of one function (features/analysis/dataflow): the   *)
(* fixed point over the blocks, the pass that attaches a value to every    *)
(* use, the views projected from them, and, beside them, one concrete run  *)
(* of the same code to hold the analysis against.                          *)
(*                                                                         *)
(* A location is a register or a memory key; one name space serves both.   *)
(* A memory operand has two keys: the text key of the transfer functions   *)
(* ("m") and, in a decoded binary, the canonical key of Capstone's detail  *)
(* ("M").  The ABI's register lists are cut to the registers of the model. *)
(***************************************************************************)
EXTENDS FunctionCfg, TLC
LOCAL INSTANCE SequencesExt

CONSTANTS Programs,         \* records [mode, code]: mode "source" or "binary"
          MaxSteps          \* how many instructions a concrete run takes

Unknown == -1                  \* no constant is known
Opaque == -2                \* a concrete value no constant of the analysis equals
Foreign == -3               \* what a callee or the kernel left in memory
Initial == -4               \* what the function was entered with

Keys == {"m", "M", "stack"}
CallArguments == <<"rdi", "rsi">>                     \* SYSV_ARGUMENT_REGS
CallerSaved == {"rax", "rcx", "rdi", "rsi"}           \* SYSV_CALLER_SAVED
SyscallArguments == <<"rdi", "rsi">>                  \* LINUX_SYSCALL_ARGUMENT_REGS
SyscallClobbers == {"rcx"}
Registers == CallerSaved \cup {"rbx", "rsp"}
Syscalls == 60 :> 1                                   \* exit takes one argument

FirstOf(seq, n) == {seq[k] : k \in 1..n}
AllArguments == FirstOf(SyscallArguments, Len(SyscallArguments))

VARIABLES program, cfg, phase, at, changed, rounds,
          entries, exits,   \* block -> [location -> value id], where known
          values,           \* the values with an entry of their own: definitions and merges
          uses, shown,      \* <<value id, instruction, location>>, and the instructions with an info
          views,            \* the projected graphs: what the calls view keeps, what the raw view draws
          pc, store, writer, deep, steps, crossed

analysis == <<program, cfg, phase, at, changed, rounds, entries, exits, values, uses, shown, views>>
concrete == <<pc, store, writer, deep, steps, crossed>>
vars == <<analysis, concrete>>

Code == program.code
Binary == program.mode = "binary"
Line == 1..Len(Code)

-----------------------------------------------------------------------------
(* Operands and what an instruction is said to read and write               *)

IsReg(o) == o.k = "reg"
IsMem(o) == o.k = "mem"
Reg(o) == IF IsReg(o) THEN {o.r} ELSE {}
OperandRegs(o) == IF IsMem(o) THEN {} ELSE Reg(o)     \* the base of "m" is never written
Text(o) == IF IsMem(o) THEN {"m"} ELSE {}
Detail(o) == IF IsMem(o) THEN {IF Binary THEN "M" ELSE "m"} ELSE {}

Access(r, w, mr, mw) == [reads |-> r, writes |-> w, memReads |-> mr, memWrites |-> mw]

(* An assembler source states nothing about its accesses: they are read    *)
(* off the mnemonic, and one that is not listed writes nothing.             *)
SourceAccess(ins) ==
    LET d == ins.dst
        s == ins.src
    IN  CASE ins.op = "mov"  -> Access(OperandRegs(s), Reg(d), Text(s), Text(d))
          [] ins.op = "lea"  -> Access(OperandRegs(s), Reg(d), {}, {})
          [] ins.op = "cmp"  -> Access(OperandRegs(d) \cup OperandRegs(s), {}, Text(d) \cup Text(s), {})
          [] ins.op \in {"add", "xor"} ->
                Access(OperandRegs(s) \cup Reg(d), Reg(d), Text(d), Text(d))
          [] ins.op = "push" -> Access(OperandRegs(d) \cup {"rsp"}, {"rsp"}, {}, {"stack"})
          [] ins.op = "pop"  -> Access({"rsp"}, {"rsp"} \cup Reg(d), {"stack"}, {})
          [] ins.op = "call" -> Access(FirstOf(CallArguments, Len(CallArguments)), CallerSaved, {}, {})
          [] ins.op = "syscall" -> Access({"rax"} \cup AllArguments, {"rax"} \cup SyscallClobbers, {}, {})
          [] ins.op = "ret"  -> Access({"rsp", "rax"}, {"rsp"}, {}, {})
          [] OTHER -> Access(OperandRegs(d) \cup OperandRegs(s), {}, Text(d) \cup Text(s), {})

(* What Capstone's operand detail states (external): the registers and     *)
(* explicit memory operands the instruction really touches.                *)
CapstoneAccess(ins) ==
    LET d == ins.dst
        s == ins.src
    IN  CASE ins.op = "mov"  -> Access(OperandRegs(s), Reg(d), Detail(s), Detail(d))
          [] ins.op = "lea"  -> Access(OperandRegs(s), Reg(d), {}, {})
          [] ins.op = "cmp"  -> Access(OperandRegs(d) \cup OperandRegs(s), {}, Detail(d) \cup Detail(s), {})
          [] ins.op \in {"add", "xor"} ->
                Access(OperandRegs(s) \cup Reg(d), Reg(d), Detail(d) \cup Detail(s), Detail(d))
          [] ins.op = "inc"  -> Access(Reg(d), Reg(d), Detail(d), Detail(d))
          [] ins.op = "push" -> Access(OperandRegs(d) \cup {"rsp"}, {"rsp"}, {}, {})
          [] ins.op = "pop"  -> Access({"rsp"}, {"rsp"} \cup Reg(d), {}, {})
          [] ins.op \in {"call", "ret"} -> Access({"rsp"}, {"rsp"}, {}, {})
          [] ins.op = "syscall" -> Access({}, SyscallClobbers, {}, {})
          [] OTHER -> Access({}, {}, {}, {})

Touches(i) == IF Binary THEN CapstoneAccess(Code[i]) ELSE SourceAccess(Code[i])

-----------------------------------------------------------------------------
(* Values.  Entry values, constants and unknown operands are made on        *)
(* demand and never change, so their ids alone say what they are.           *)

Value(kind, constant, site, inputs) ==
    [kind |-> kind, constant |-> constant, site |-> site, inputs |-> inputs]

ValueAt(vals, id) ==
    CASE id[1] = "entry"   -> Value("entry", Unknown, 0, {})
      [] id[1] = "const"   -> Value("constant", id[3], 0, {})
      [] id[1] = "unknown" -> Value("unknown", Unknown, 0, {})
      [] OTHER             -> vals[id]

At(state, l) == IF l \in DOMAIN state THEN state[l] ELSE <<"entry", l>>

(* A state of the walk: the ids of the locations, and the values so far.   *)
Walk(state, vals) == [state |-> state, vals |-> vals]
Ensure(w, locs) == Walk([l \in locs |-> At(w.state, l)] @@ w.state, w.vals)
Define(w, i, made) ==
    Walk([l \in DOMAIN made |-> <<"def", i, l>>] @@ w.state,
         [id \in {<<"def", i, l>> : l \in DOMAIN made} |-> made[id[3]]] @@ w.vals)

(* The value of an operand; reading a location ensures it has one.         *)
OperandLocs(o) == Reg(o) \cup Text(o)
OperandId(w, i, o) ==
    CASE o.k = "imm" -> <<"const", i, o.v>>
      [] IsReg(o)    -> At(w.state, o.r)
      [] IsMem(o)    -> At(w.state, "m")
      [] OTHER       -> <<"unknown", i>>

-----------------------------------------------------------------------------
(* processInstruction: the transfer function of one instruction             *)

Move(w, i) ==
    LET ins  == Code[i]
        from == Ensure(w, OperandLocs(ins.src))
        id   == OperandId(w, i, ins.src)
        v    == ValueAt(w.vals, id)
        kind == IF v.kind = "constant" THEN "constant"
                ELSE IF IsMem(ins.src) THEN "memory-load" ELSE "copy"
    IN  IF IsReg(ins.dst) THEN Define(from, i, ins.dst.r :> Value(kind, v.constant, i, {id}))
        ELSE Define(from, i, "m" :> Value("memory-store", v.constant, i, {id}))

Lea(w, i) ==
    LET ins == Code[i] IN
    Define(Ensure(w, OperandRegs(ins.src)), i,
           ins.dst.r :> Value("address", Unknown, i, {At(w.state, r) : r \in OperandRegs(ins.src)}))

Zeroing(ins) == ins.op = "xor" /\ IsReg(ins.dst) /\ ins.dst = ins.src
Zero(w, i) == Define(w, i, Code[i].dst.r :> Value("constant", 0, i, {}))

(* Arithmetic into memory returns before anything is recorded.             *)
Arithmetic(w, i) ==
    LET ins == Code[i] IN
    IF IsReg(ins.dst)
      THEN Define(Ensure(w, {ins.dst.r} \cup OperandLocs(ins.src)), i,
                  ins.dst.r :> Value("expression", Unknown, i,
                                     {At(w.state, ins.dst.r), OperandId(w, i, ins.src)}))
      ELSE w

Push(w, i) ==
    LET id == OperandId(w, i, Code[i].dst) IN
    Define(Ensure(w, OperandLocs(Code[i].dst)), i,
           "stack" :> Value("memory-store", ValueAt(w.vals, id).constant, i, {id}))

Pop(w, i) ==
    LET id == At(w.state, "stack") IN
    Define(Ensure(w, {"stack"}), i,
           Code[i].dst.r :> Value("memory-load", ValueAt(w.vals, id).constant, i, {id}))

StackEffect(w, i) ==
    CASE Code[i].op = "push" -> Push(w, i)
      [] Code[i].op = "pop"  -> Pop(w, i)
      [] OTHER -> w

Clobbered(w, i, locs) == Define(w, i, [l \in locs |-> Value("clobber", Unknown, i, {})])

CallEffect(w, i) ==
    Define(w, i, [r \in CallerSaved |->
                     Value(IF r = "rax" THEN "call-result" ELSE "clobber", Unknown, i, {})])

SyscallEffect(w, i) ==
    Clobbered(Define(w, i, "rax" :> Value("call-result", Unknown, i, {})), i, SyscallClobbers)

Transfer(w, i) ==
    LET ins == Code[i] IN
    CASE ins.op = "mov" -> Move(w, i)
      [] ins.op = "lea" -> Lea(w, i)
      [] Zeroing(ins)   -> Zero(w, i)
      [] ins.op \in {"add", "xor"} /\ ~Zeroing(ins) -> Arithmetic(w, i)
      [] ins.op = "call" -> CallEffect(w, i)
      [] ins.op = "syscall" -> SyscallEffect(w, i)
      [] OTHER -> Clobbered(StackEffect(w, i), i, Touches(i).memWrites \cup Touches(i).writes)

-----------------------------------------------------------------------------
(* The blocks: the function's graph, or one straight line for a source.    *)

(* Both are made once, before the search.                                  *)
BlocksOf(p) == IF p.mode = "binary" THEN Starts(p.code) ELSE {1}
BuildBlocks(p) ==
    LET blocks == BlocksOf(p) IN
    [order |-> SetToSortSeq(blocks, <),
     body  |-> [s \in blocks |-> IF p.mode = "binary" THEN BlockBody(p.code, s) ELSE 1..Len(p.code)],
     preds |-> [s \in blocks |-> IF p.mode = "binary" THEN Predecessors(p.code, s) ELSE {}],
     edges |-> Edges(p.code), back |-> BackEdges(p.code), reachable |-> Reachable(p.code, 1)]

Block == cfg.order
Blocks == DOMAIN cfg.body
Body(s) == cfg.body[s]
Before(s) == cfg.preds[s]
Rounds == Max({4, Min({32, 4 * Len(Block)})})

RECURSIVE WalkFrom(_, _, _)
WalkFrom(w, i, last) == IF i > last THEN w ELSE WalkFrom(Transfer(w, i), i + 1, last)
WalkBlock(w, s) == WalkFrom(w, s, Max(Body(s)))

(* A mistake: several predecessors are not merged, one is taken. *)
MergeFirstOnly(s) ==
    LET known == {exits[p] : p \in Before(s) \cap DOMAIN exits}
        first == CHOOSE e \in known : TRUE
    IN  IF known = {} THEN Walk(<<>>, values) ELSE Walk(first, values)

(* mergeBlockEntry: nothing known before the first block, a copy of one    *)
(* predecessor's exit, or a merge of several.                              *)
MergeEntry(s) ==
    LET known == {exits[p] : p \in Before(s) \cap DOMAIN exits}
        inputs(l) == {At(e, l) : e \in known}
        locs == UNION {DOMAIN e : e \in known}
        phis == {l \in locs : Cardinality(inputs(l)) > 1}
    IN  Walk([l \in locs |-> IF l \in phis THEN <<"phi", s, l>> ELSE CHOOSE id \in inputs(l) : TRUE],
             [id \in {<<"phi", s, l>> : l \in phis} |-> Value("phi", Unknown, 0, inputs(id[3]))] @@ values)

-----------------------------------------------------------------------------
Init ==
    /\ program \in Programs
    /\ cfg = BuildBlocks(program)
    /\ phase = "fixing" /\ at = 1 /\ changed = FALSE /\ rounds = 0
    /\ entries = <<>> /\ exits = <<>> /\ values = <<>> /\ uses = {} /\ shown = {}
    /\ views = [calls |-> {}, drawn |-> {}, sources |-> <<>>]
    /\ pc = 1 /\ steps = 0 /\ crossed = 0 /\ deep = <<>>
    /\ store = [l \in Registers \cup {"m"} |-> Initial]
    /\ writer = [l \in Registers \cup {"m"} |-> 0]

(* One block of one round of the fixed point; the round ends with the last *)
(* block, and the search with a round that changed no exit or the budget.  *)
FixBlock ==
    LET s == Block[at]
        entry == MergeEntry(s)
        exit == WalkBlock(entry, s)
        moves == s \notin DOMAIN exits \/ exits[s] # exit.state
        last == at = Len(Block)
        again == (changed \/ moves) /\ rounds + 1 < Rounds
    IN  /\ phase = "fixing"
        /\ entries' = (s :> entry.state) @@ entries
        /\ exits' = (s :> exit.state) @@ exits
        /\ values' = exit.vals
        /\ at' = IF last THEN 1 ELSE at + 1
        /\ changed' = IF last /\ again THEN FALSE ELSE changed \/ moves
        /\ rounds' = IF last THEN rounds + 1 ELSE rounds
        /\ phase' = IF last /\ ~again THEN "using" ELSE "fixing"
        /\ UNCHANGED <<program, cfg, uses, shown, views, concrete>>

Converged == ~changed

(* The register reads that count as uses of an instruction: a system call  *)
(* whose number is known reads only the arguments that number takes.       *)
Number(w) == ValueAt(w.vals, At(w.state, "rax")).constant
EffectiveReads(w, i) ==
    IF Code[i].flow = "syscall"
      THEN {"rax"} \cup (IF Number(w) \in DOMAIN Syscalls
                           THEN FirstOf(SyscallArguments, Syscalls[Number(w)]) ELSE AllArguments)
      ELSE Touches(i).reads \cup
             (IF Code[i].flow = "call" THEN FirstOf(CallArguments, Len(CallArguments)) ELSE {})

Used(w, i) ==
    {<<At(w.state, l), i, l>> : l \in EffectiveReads(w, i) \cup Touches(i).memReads}

RECURSIVE UsesFrom(_, _, _)
UsesFrom(w, i, last) ==
    IF i > last THEN [uses |-> {}, vals |-> w.vals]
    ELSE LET rest == UsesFrom(Transfer(Ensure(w, EffectiveReads(w, i) \cup Touches(i).memReads), i),
                              i + 1, last)
         IN  [uses |-> Used(w, i) \cup rest.uses, vals |-> rest.vals]

(* The second pass: each block once more from its entry, recording uses.   *)
UseBlock ==
    LET s == Block[at]
        found == UsesFrom(Walk(entries[s], values), s, Max(Body(s)))
    IN  /\ phase = "using"
        /\ uses' = uses \cup found.uses
        /\ values' = found.vals
        /\ shown' = shown \cup Body(s)
        /\ at' = at + 1
        /\ phase' = IF at = Len(Block) THEN "projecting" ELSE "using"
        /\ UNCHANGED <<program, cfg, changed, rounds, entries, exits, views, concrete>>

-----------------------------------------------------------------------------
(* The projections: which instructions a view keeps, and how they connect. *)

ValueIds == DOMAIN values \cup {u[1] : u \in uses}
                \cup UNION {values[id].inputs : id \in DOMAIN values}
IsUsed(id) == \E u \in uses : u[1] = id
Inputs(ids) == UNION {ValueAt(values, id).inputs : id \in ids}

(* The calls view follows the inputs of what calls use, eight deep.        *)
SelectedForCalls ==
    LET calls == {i \in shown : Code[i].flow \in {"call", "syscall"}}
        further(ids) == ids \cup Inputs(ids)
        visited[n \in 0..8] ==
            IF n = 0 THEN {u[1] : u \in {x \in uses : x[2] \in calls}}
            ELSE further(visited[n - 1])
    IN  calls \cup ({ValueAt(values, id).site : id \in visited[8]} \ {0})

(* The raw view draws every value but the clobbers nothing uses, an edge   *)
(* from each definition, from each input and to each use.                  *)
RawValues == {id \in ValueIds : ~(ValueAt(values, id).kind = "clobber" /\ ~IsUsed(id))}

RawFeeds(id) == {<<"value", x>> : x \in ValueAt(values, id).inputs \cap RawValues}
                   \cup {<<"inst", j>> : j \in {ValueAt(values, id).site} \ {0}}
RawSources(i) ==
    LET step(nodes) == nodes \cup UNION {RawFeeds(n[2]) : n \in {x \in nodes : x[1] = "value"}}
        grow[k \in 0..Cardinality(RawValues)] ==
            IF k = 0 THEN {<<"value", id>> : id \in {u[1] : u \in {x \in uses : x[2] = i}}}
            ELSE step(grow[k - 1])
    IN  {n[2] : n \in {x \in grow[Cardinality(RawValues)] : x[1] = "inst"}}

Project ==
    /\ phase = "projecting"
    /\ views' = [calls |-> SelectedForCalls, drawn |-> RawValues,
                 sources |-> [i \in shown |-> RawSources(i)]]
    /\ phase' = "running"
    /\ UNCHANGED <<program, cfg, at, changed, rounds, entries, exits, values, uses, shown, concrete>>

-----------------------------------------------------------------------------
(* The concrete run (external: the processor, the callees, the kernel).    *)
(* A conditional jump goes either way; a callee, or a system call that      *)
(* delivers data, may overwrite the memory and what lies on the stack.      *)

Concrete(o) ==
    CASE o.k = "imm" -> o.v [] IsReg(o) -> store[o.r] [] IsMem(o) -> store["m"] [] OTHER -> Opaque
Sum(a, b) == IF {a, b} \cap {Opaque, Foreign, Initial} # {} THEN Opaque ELSE a + b
Place(o) == IF IsReg(o) THEN o.r ELSE "m"
Leaves(i) == Code[i].flow \in {"call", "syscall"}

Written(i, overwrites) ==
    LET ins == Code[i]
        d == Place(ins.dst)
        memory == IF overwrites THEN "m" :> Foreign ELSE <<>>
    IN  CASE ins.op = "mov" -> d :> Concrete(ins.src)
          [] ins.op = "lea" -> d :> Opaque
          [] ins.op = "xor" -> d :> (IF Zeroing(ins) THEN 0 ELSE Opaque)
          [] ins.op = "add" -> d :> Sum(store[d], Concrete(ins.src))
          [] ins.op = "inc" -> d :> Sum(store[d], 1)
          [] ins.op = "push" -> "rsp" :> Opaque
          [] ins.op = "pop" -> (d :> (IF deep = <<>> THEN Initial ELSE Head(deep))) @@ ("rsp" :> Opaque)
          [] ins.op = "call" -> [r \in CallerSaved |-> Opaque] @@ memory
          [] ins.op = "syscall" -> [r \in {"rax"} \cup SyscallClobbers |-> Opaque] @@ memory
          [] OTHER -> <<>>

Goes(i) ==
    CASE Code[i].flow = "jump" -> {Code[i].target}
      [] Code[i].flow = "jcc" -> {Code[i].target, i + 1}
      [] Code[i].flow = "return" -> {}
      [] OTHER -> {i + 1}

Execute ==
    /\ phase = "running"
    /\ steps < MaxSteps
    /\ \E next \in Goes(pc), overwrites \in (IF Leaves(pc) THEN BOOLEAN ELSE {FALSE}) :
        LET written == Written(pc, overwrites) IN
        /\ next \in Line
        /\ store' = written @@ store
        /\ writer' = [l \in DOMAIN written |-> pc] @@ writer
        /\ deep' = CASE Code[pc].op = "push" -> <<Concrete(Code[pc].dst)>> \o deep
                     [] Code[pc].op = "pop" /\ deep # <<>> -> Tail(deep)
                     [] overwrites -> [k \in DOMAIN deep |-> Foreign]
                     [] OTHER -> deep
        /\ crossed' = pc
        /\ pc' = next
        /\ steps' = steps + 1
    /\ UNCHANGED analysis

Next == FixBlock \/ UseBlock \/ Project \/ Execute

Spec == Init /\ [][Next]_vars

-----------------------------------------------------------------------------
(* Properties                                                               *)

TypeOK ==
    /\ phase \in {"fixing", "using", "projecting", "running"}
    /\ at \in 1..Len(Block) + (IF phase \in {"fixing", "using"} THEN 0 ELSE 1)
    /\ views.calls \subseteq Line
    /\ changed \in BOOLEAN /\ rounds \in 0..Rounds
    /\ DOMAIN exits \subseteq Blocks /\ DOMAIN entries = DOMAIN exits
    /\ \A s \in DOMAIN exits : DOMAIN exits[s] \subseteq Registers \cup Keys
    /\ \A u \in uses : u[2] \in Line /\ u[3] \in Registers \cup Keys
    /\ pc \in Line /\ steps \in 0..MaxSteps

Running == phase = "running"

(* What the analysis does not follow: memory that a callee or the kernel    *)
(* overwrote, and, where a loop leads back to the function's first block,   *)
(* what the function was entered with.                                      *)
EntryIsLoopHead == Before(1) # {}
NotFollowed == {Foreign} \cup (IF EntryIsLoopHead THEN {Initial} ELSE {})

(* What the processor reads from registers at pc: the arguments a call     *)
(* passes, those the kernel takes for the number that is really in rax.    *)
ReadsNow ==
    CASE Code[pc].flow = "call" -> FirstOf(CallArguments, Len(CallArguments))
      [] Code[pc].flow = "syscall" ->
            {"rax"} \cup (IF store["rax"] \in NotFollowed THEN {}
                          ELSE IF store["rax"] \in DOMAIN Syscalls
                            THEN FirstOf(SyscallArguments, Syscalls[store["rax"]]) ELSE AllArguments)
      [] OTHER -> CapstoneAccess(Code[pc]).reads

(* The instructions a value may come from: its own, or those of the values *)
(* its merges join.                                                         *)
Sites(id) ==
    LET widen(ids) == ids \cup Inputs({x \in ids : x[1] = "phi"})
        grow[n \in 0..Cardinality(DOMAIN values)] ==
            IF n = 0 THEN {id} ELSE widen(grow[n - 1])
    IN  {ValueAt(values, x).site : x \in
            {y \in grow[Cardinality(DOMAIN values)] : y[1] # "phi"}}

(* A constant the analysis gives to something an instruction uses is what  *)
(* a run finds there, the number of a system call included, on every path   *)
(* into a merge and after any number of rounds of a loop, unless the run    *)
(* finds a value the analysis does not follow.  Arithmetic into memory      *)
(* leaves the old constant standing, so programs that do it are outside     *)
(* this claim.                                                              *)
MemoryOnlyMoved == \A i \in Line : IsMem(Code[i].dst) => Code[i].op \in {"mov", "cmp", "push"}
ConstantsHold ==
    Running /\ MemoryOnlyMoved =>
        \A u \in uses :
            LET constant == ValueAt(values, u[1]).constant IN
            u[2] = pc /\ u[3] \in DOMAIN store /\ constant # Unknown
                => store[u[3]] \in {constant} \cup NotFollowed

(* Every register an instruction reads on a run is among its uses, and the *)
(* instruction that last wrote it is among the sites of the used value; a   *)
(* register nothing wrote yet may be missed where the entry is a loop head. *)
ReachingCovered ==
    Running =>
        \A r \in ReadsNow : \E u \in uses :
            /\ u[2] = pc /\ u[3] = r
            /\ writer[r] \in Sites(u[1]) \/ (writer[r] = 0 /\ EntryIsLoopHead)

(* The fixed point is reached before the budget of rounds is spent.        *)
Converges == phase # "fixing" => Converged

(* A run stays in its block or follows an edge of the graph, visits only   *)
(* blocks that count as reachable, and goes back only over a back edge.    *)
RunsFollowEdges ==
    Running /\ Binary /\ crossed # 0 =>
        LET step == <<BlockOf(Code, crossed), BlockOf(Code, pc)>> IN
        /\ (pc = crossed + 1 /\ step[1] = step[2]) \/ step \in cfg.edges
        /\ pc <= crossed => step \in cfg.back
        /\ step[2] \in cfg.reachable

(* Whoever last wrote an argument of a call or a system call on a run is   *)
(* drawn in the calls view.                                                 *)
CallsShowSources ==
    Running /\ Code[pc].flow \in {"call", "syscall"} =>
        \A r \in ReadsNow : writer[r] # 0 => writer[r] \in views.calls

(* In the raw view a path of edges leads from the instruction that last    *)
(* wrote a register on a run to the one that reads it; a clobber that is    *)
(* used only through a merge is not drawn, and is outside this claim.       *)
DrawnWriter(r) ==
    /\ writer[r] # 0
    /\ LET id == <<"def", writer[r], r>> IN id \in views.drawn
RawShowsFlow ==
    Running => \A r \in ReadsNow : DrawnWriter(r) => writer[r] \in views.sources[pc]

=============================================================================
