------------------------------ MODULE MCAnalysis ------------------------------
(***************************************************************************)
(* The analysis of programs: what App asks for and shows                   *)
(* (AnalysisRequests), the dataflow of one function (Dataflow), where the   *)
(* functions of an image are (FunctionDiscovery), the dock that shows it    *)
(* (AnalysisDock) and the trace of a process in it (ExecutionFollow).  They *)
(* share no state: one of them moves in a behaviour, "part" is which.       *)
(***************************************************************************)
EXTENDS AnalysisRequests, AnalysisDock, ExecutionFollow, TLC

Setup(sourceIds, binaryIds, happens, contents, asks) ==
  [sources |-> sourceIds, binaries |-> binaryIds, does |-> happens, versions |-> contents, requests |-> asks]
SetupsMC ==
  {Setup({"first", "second"}, {}, {"edit", "delete"}, 3, 0),
   Setup({"first"}, {"binary"}, {"select", "registry", "delete", "fail", "folder"}, 1, 3),
   Setup({}, {"binary"}, {"step", "rebuild", "import", "fail", "execute"}, 1, 1),
   Setup({}, {"binary"}, {"rebuild", "fail", "execute"}, 1, 2), Setup({}, {"binary"}, {"step", "fail", "execute"}, 1, 2)}
FunctionsMC == {"main", "callee"}
EntryMC == "main"
Resting == Setup({"first", "second"}, {}, {"edit", "delete"}, 3, 0)

-------------------------------------------------------------------------------
(* Programs for Dataflow: five shapes of control flow around a definition, *)
(* a first use, something in between and a last use.                       *)
R(r) == [k |-> "reg", r |-> r]
I(v) == [k |-> "imm", v |-> v]
M == [k |-> "mem"]
N == [k |-> "none"]
Ins(op, d, s) == [op |-> op, dst |-> d, src |-> s, target |-> 0,
                  flow |-> CASE op = "call" -> "call" [] op = "syscall" -> "syscall" [] op = "ret" -> "return" [] OTHER -> "none"]
Jump(t) == [op |-> "jmp", dst |-> N, src |-> N, target |-> t, flow |-> "jump"]
Jcc(t) == [op |-> "jcc", dst |-> N, src |-> N, target |-> t, flow |-> "jcc"]
Ret == Ins("ret", N, N)

Setters == {Ins("mov", R("rax"), I(60)), Ins("mov", M, I(60)), Ins("mov", R("rbx"), I(7)), Ins("push", I(60), N)}
Middles == {Ins("mov", R("rax"), I(7)), Ins("mov", R("rbx"), R("rax")), Ins("mov", R("rax"), M), Ins("xor", R("rax"), R("rax")),
            Ins("add", R("rax"), R("rbx")), Ins("call", N, N), Ins("inc", R("rax"), N), Ins("add", M, I(1)), Ins("pop", R("rdi"), N)}
Firsts == {Ins("mov", M, R("rax")), Ins("lea", R("rdi"), R("rax")), Ins("syscall", N, N), Ins("cmp", R("rax"), R("rbx"))}
Lasts == {Ins("mov", R("rdi"), R("rax")), Ins("syscall", N, N), Ins("call", N, N), Ins("mov", R("rax"), M)}
Diamond(a, b, c, d) == <<a, Jcc(5), b, Jump(6), c, d, Ret>>
Loop(a, b, c, d) == <<a, b, c, Jcc(2), d, Ret>>
Backward(a, b, c, d) == <<a, Jump(6), c, d, Ret, b, Jcc(3), Jump(3)>>
While(a, b, c, d) == <<a, b, Jcc(6), c, Jump(2), d, Ret>>
Whole(a, b, c, d) == <<a, b, c, Jcc(1), d, Ret>>
Chains(a, b, c, d) == {Diamond(a, b, c, d), Loop(a, b, c, d), Backward(a, b, c, d), While(a, b, c, d), Whole(a, b, c, d)}
ProgramsMC ==
    {[mode |-> "binary", code |-> x] : x \in UNION {Chains(a, b, c, d) : a \in Setters, b \in Firsts, c \in Middles, d \in Lasts}}
    \cup {[mode |-> "source", code |-> <<a, b, c, d, Ret>>] : a \in Setters, b \in Firsts, c \in Middles \ {Ins("inc", R("rax"), N)}, d \in Lasts}
ProgramResting == [mode |-> "source", code |-> <<Ret>>]

-------------------------------------------------------------------------------
(* Images for FunctionDiscovery: stripped ones, ones with symbols or a     *)
(* start routine, and ones that the scan budget decodes in part.           *)
Plain(op) == [op |-> op, flow |-> "none", target |-> 0, imm |-> 0]
Flow(flow, t) == [op |-> "op", flow |-> flow, target |-> t, imm |-> 0]
Load(a) == [op |-> "rdi", flow |-> "none", target |-> 0, imm |-> a]
Returns == Flow("return", 0)
Libc == [op |-> "libc", flow |-> "call", target |-> 0, imm |-> 0]
Frange(lo, hi, src) == [lo |-> lo, hi |-> hi, source |-> src]
Text(n) == {[name |-> ".text", lo |-> 1, hi |-> n + 1]}
Stripped ==
  {[code |-> <<a, b, Returns, c, d, e, Plain("nop"), f, Plain("mov"), Returns>>, sections |-> s, fdes |-> u, symbols |-> {}, entry |-> 1, plt |-> {90}] :
     a \in {Plain("op"), Flow("call", 4), Flow("jcc", 8), Flow("jcc", 5)}, b \in {Flow("call", 4), Flow("jump", 4), Flow("call", 90)},
     c \in {Plain("nop"), Plain("endbr")}, d \in {Flow("call", 8), Flow("jump", 8), Plain("op"), Flow("jcc", 8)}, e \in {Returns, Flow("jump", 4), Plain("ud2")},
     f \in {Plain("push"), Plain("endbr"), Plain("op")},
     s \in {Text(10), {[name |-> ".init", lo |-> 1, hi |-> 4], [name |-> ".text", lo |-> 4, hi |-> 11]}},
     u \in {{}, {Frange(4, 7, "eh_frame")}, {Frange(4, 8, "eh_frame"), Frange(8, 11, "debug_frame")}, {Frange(4, 7, "eh_frame"), Frange(4, 8, "debug_frame")}, {Frange(4, 8, "eh_frame"), Frange(5, 8, "debug_frame")}, {Frange(7, 8, "eh_frame")}}}
Symbol(lo, hi) == [lo |-> lo, hi |-> hi]
Starting ==
  {[code |-> <<a, b, Libc, Plain("ud2"), c, d, Returns, e, Returns>>, sections |-> Text(9), fdes |-> {}, symbols |-> y, entry |-> 1, plt |-> {90}] :
     a \in {Load(5), Load(8)}, b \in {Load(5), Load(6), Plain("op"), Load(8)}, c \in {Flow("call", 8), Flow("call", 90), Flow("jcc", 7)},
     d \in {Flow("jump", 8), Plain("op"), Flow("call", 8), Flow("jump", 7)}, e \in {Plain("op"), Flow("call", 5), Flow("call", 8)},
     y \in {{}, {Symbol(1, 5), Symbol(5, 8), Symbol(8, 10)}, {Symbol(1, 0), Symbol(5, 0), Symbol(8, 10)}, {Symbol(1, 5), Symbol(5, 10), Symbol(8, 10)}}}
Partial ==
  {[m EXCEPT !.code = @ \o <<Returns, Returns, Returns>>, !.sections = {[name |-> ".text", lo |-> 1, hi |-> 8], [name |-> ".cold", lo |-> 8, hi |-> 14]}] :
     m \in {x \in Stripped : x.sections = Text(10) /\ x.code[8].op = "endbr"}}
(* What a compiler emits: jumps and calls never enter the middle of an unwind   *)
(* range from outside, nor another section by a jump, and no range is left by  *)
(* running off its end.                                                         *)
AsCompiled(m) ==
    \A i \in 1..Len(m.code) :
        LET t == m.code[i].target
            within(f, a) == f.lo <= a /\ a < f.hi
        IN  /\ \A f \in m.fdes : f.lo < t /\ t < f.hi => within(f, i)
            /\ m.code[i].flow \in {"jump", "jcc"} => \A s \in m.sections : within(s, i) <=> within(s, t)
            /\ \A f \in m.fdes : i = f.hi - 1 => m.code[i].flow \in {"return", "jump"} \/ m.code[i].op \in {"ud2", "nop"}
ImagesMC == {m \in Stripped \cup Starting \cup Partial : AsCompiled(m)}
ImageResting == [code |-> <<Returns>>, sections |-> Text(1), fdes |-> {}, symbols |-> {}, entry |-> 1, plt |-> {90}]

-------------------------------------------------------------------------------
(* For AnalysisDock: a tool of two functions in two namespaces and a stub,  *)
(* a binary whose only function has the address of one of its own, and a    *)
(* source.  "jump" at 7 is known once its function was inspected.           *)
Fn(name, end) == [name |-> name, end |-> end]
Site(at, flow, target) == [at |-> at, flow |-> flow, target |-> target]
Proved(at, from, to, kind) == [at |-> at, from |-> from, to |-> to, kind |-> kind]
BlockNode(lo, hi) == [id |-> <<"block", lo>>, lo |-> lo, hi |-> hi, address |-> lo]
Reference(a) == [id |-> <<"target", a>>, lo |-> 0, hi |-> 0, address |-> a]
Tool ==
  [functions |-> (1 :> Fn(<<"main">>, 5) @@ 5 :> Fn(<<"net", "send">>, 9)), plts |-> {12},
   code |-> (1 :> {Site(2, "call", 5), Site(3, "call", 12), Site(4, "jump", 2)}
             @@ 5 :> {Site(6, "call", 1), Site(7, "jump", 12), Site(8, "jump", 3)}),
   static |-> {Proved(2, 1, 5, "call"), Proved(3, 1, 12, "call"), Proved(3, 1, 5, "startup"),
               Proved(6, 5, 1, "call"), Proved(8, 5, 1, "tail-call")},
   blocks |-> (1 :> <<BlockNode(1, 3), BlockNode(3, 5), Reference(5), Reference(12)>> @@ 5 :> <<BlockNode(5, 9), Reference(12)>>),
   pauses |-> {6, 12}]
Small ==
  [functions |-> (1 :> Fn(<<"main">>, 5)), plts |-> {}, code |-> (1 :> {}), static |-> {},
   blocks |-> (1 :> <<BlockNode(1, 5)>>), pauses |-> {3}]
BinariesMC == "tool" :> Tool @@ "small" :> Small
TextsMC == "text" :> <<[id |-> <<"line", 1>>, lo |-> 0, hi |-> 0, address |-> 0]>>
DockSetupsMC ==
  {[files |-> {"tool"}, does |-> {"toolbar", "select"}, groups |-> 0],
   [files |-> {"tool"}, does |-> {"toolbar"}, groups |-> 1],
   [files |-> {"tool", "text"}, does |-> {"open", "pause", "select", "fail"}, groups |-> 0],
   [files |-> {"tool", "small"}, does |-> {"open", "pause", "fail"}, groups |-> 0],
   [files |-> {"tool", "text"}, does |-> {"pause", "select", "clear"}, groups |-> 0],
   [files |-> {"tool", "small"}, does |-> {"open", "toolbar"}, groups |-> 0]}
DockEntryMC == "tool" :> 1 @@ "small" :> 1
(* For ExecutionFollow: a function of three blocks and a call of another,   *)
(* and a library whose addresses are those of the function's blocks.        *)
InProgram(x) == <<"program", x>>
InLibrary(x) == <<"library", x>>
RoutesMC ==
  {[nodes |-> <<[BlockNode(1, 3) EXCEPT !.id = "a"], [BlockNode(3, 4) EXCEPT !.id = "b"], [BlockNode(4, 5) EXCEPT !.id = "c"],
                [Reference(7) EXCEPT !.id = "f"]>>,
    edges |-> {<<"a", "b">>, <<"a", "c">>, <<"b", "c">>, <<"c", "b">>, <<"a", "f">>, <<"c", "c">>},
    next |-> (InLibrary(0) :> {InProgram(1)} @@ InProgram(1) :> {InProgram(2), InLibrary(3), InProgram(7)}
              @@ InProgram(2) :> {InProgram(3), InProgram(4)} @@ InProgram(3) :> {InProgram(4)}
              @@ InProgram(4) :> {InProgram(3), InProgram(4), InLibrary(4)} @@ InLibrary(3) :> {InLibrary(4)}
              @@ InLibrary(4) :> {InProgram(2), InProgram(4)} @@ InProgram(7) :> {InProgram(8)} @@ InProgram(8) :> {InProgram(2)})]}
DockResting == [files |-> {"text"}, does |-> {}, groups |-> 0]

DockSetupsAll == DockSetupsMC \cup {DockResting}

-------------------------------------------------------------------------------
VARIABLES
  part,
  program, cfg, flowPhase, at, flowChanged, rounds, entries, exits, values, uses, annotated, views,
  flowPc, store, writer, deep, flowSteps, flowCrossed,
  image, phase, seeds, traces, queue, changed, passes, functions, transfers, imagePc, calls, rdi, steps

Flows == INSTANCE Dataflow WITH
           Programs <- ProgramsMC \cup {ProgramResting}, MaxSteps <- 10,
           phase <- flowPhase, changed <- flowChanged, shown <- annotated, pc <- flowPc, steps <- flowSteps,
           crossed <- flowCrossed
Found == INSTANCE FunctionDiscovery WITH
           Images <- ImagesMC \cup {ImageResting}, Alignment <- 4, MaxPasses <- 4, MaxFunctions <- 6,
           MaxScan <- 10, MaxSteps <- 12, pc <- imagePc

flowVars == <<program, cfg, flowPhase, at, flowChanged, rounds, entries, exits, values, uses, annotated, views,
              flowPc, store, writer, deep, flowSteps, flowCrossed>>
foundVars == <<image, phase, seeds, traces, queue, changed, passes, functions, transfers, imagePc, calls, rdi, steps>>
all == <<vars, flowVars, foundVars, dockVars, followVars, part>>

OneMoves ==
  /\ part \in {"requests", "dataflow", "discovery", "dock", "follow"}
  /\ setup \in (IF part = "requests" THEN Setups ELSE {Resting}) /\ Init
  /\ program \in (IF part = "dataflow" THEN ProgramsMC ELSE {ProgramResting}) /\ Flows!Init
  /\ image \in (IF part = "discovery" THEN ImagesMC ELSE {ImageResting}) /\ Found!Init
  /\ dockSetup \in (IF part = "dock" THEN DockSetupsMC ELSE {DockResting}) /\ DockInit
  /\ FollowInit
Moves ==
  /\ UNCHANGED part
  /\ \/ part = "requests" /\ Next /\ UNCHANGED <<flowVars, foundVars, dockVars, followVars>>
     \/ part = "dataflow" /\ Flows!Next /\ UNCHANGED <<vars, foundVars, dockVars, followVars>>
     \/ part = "discovery" /\ Found!Next /\ UNCHANGED <<vars, flowVars, dockVars, followVars>>
     \/ part = "dock" /\ DockNext /\ UNCHANGED <<vars, flowVars, foundVars, followVars>>
     \/ part = "follow" /\ FollowNext /\ UNCHANGED <<vars, flowVars, foundVars, dockVars>>
Analysis == OneMoves /\ [][Moves]_all

(* What the parts promise, by the question it answers.                     *)
\* The dataflow holds for a concrete run: a constant it states is what the run finds
\* (or memory that a callee overwrote, or what a looping entry was entered with),
\* the definition the run reads from is among those that reach the use, the run goes
\* along edges of the control-flow graph, and the fixed point ends in its budget; calls
\* and system calls may overwrite the memory, and a loop may begin at the entry; the
\* calls view keeps where the arguments of a run's calls come from, and the raw view
\* draws every direct flow of the run.
FlowIsTrue ==
  part = "dataflow" =>
    /\ Flows!TypeOK /\ Flows!ConstantsHold /\ Flows!ReachingCovered /\ Flows!Converges /\ Flows!RunsFollowEdges
    /\ Flows!CallsShowSources /\ Flows!RawShowsFlow
\* The functions found do not overlap, keep the ranges the unwind entries give, and
\* start where a run's calls land; those calls, and the one that enters main, are
\* edges of the call graph; a seed is only replaced by one of a better kind.
FunctionsAreFound ==
  /\ [](part = "discovery" =>
          /\ Found!TypeOK /\ Found!RangesApart /\ Found!UnwindIsKept /\ Found!CallsLandOnStarts
          /\ Found!CallsAreDrawn /\ Found!StartupIsDrawn)
  /\ Found!SeedsOnlyImprove
=============================================================================
