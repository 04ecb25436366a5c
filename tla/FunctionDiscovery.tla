-------------------------- MODULE FunctionDiscovery --------------------------
(***************************************************************************)
(* Where the functions of an executable start and end, found from symbols  *)
(* or, in a stripped one, from unwind entries, the entry point, patterns   *)
(* and the calls of what was found already (features/binary/               *)
(* functionDiscovery.ts), and the call graph between them                  *)
(* (features/analysis/programCallGraph.ts).  A concrete run of the image   *)
(* stands beside both.                                                      *)
(*                                                                         *)
(* Every instruction is one address long; an instruction is [op, flow,     *)
(* target], flow as in FunctionCfg, target 0 when it is indirect.  An       *)
(* image has one executable section per record of sections.                *)
(***************************************************************************)
EXTENDS Integers, Sequences, FiniteSets, FiniteSetsExt, TLC
LOCAL INSTANCE SequencesExt

CONSTANTS Images,       \* [code, sections, fdes, symbols, entry]
          Alignment,    \* what "aligned after a return" asks of an address
          MaxPasses, MaxFunctions, MaxScan,
          MaxSteps

VARIABLES image, phase, seeds, traces, queue, changed, passes, functions, transfers,
          pc, calls, rdi, steps

search == <<image, phase, seeds, traces, queue, changed, passes, functions, transfers>>
machine == <<pc, calls, rdi, steps>>
vars == <<search, machine>>

Nowhere == 0               \* no address: they start at 1

At(a) == image.code[a]
Places == 1..Len(image.code)
SectionOf(a) == {s \in image.sections : s.lo <= a /\ a < s.hi}
Named(name) == {s \in image.sections : s.name = name}

(* Sections are decoded in order while the scan budget lasts.              *)
Scanned ==
    LET take(done, s) == IF done.used + s.hi - s.lo > MaxScan THEN done
                         ELSE [used |-> done.used + s.hi - s.lo, taken |-> done.taken \cup {s}]
    IN  FoldLeft(take, [used |-> 0, taken |-> {}],
                 SetToSortSeq(image.sections, LAMBDA s, t : s.lo < t.lo)).taken
Decoded(a) == \E s \in Scanned : s.lo <= a /\ a < s.hi

Rank(kind) ==
    CASE kind = "unwind-fde" -> 1 [] kind = "entrypoint" -> 2 [] kind = "section-entry" -> 3
      [] kind = "direct-call" -> 4 [] kind = "tail-call" -> 5 [] kind = "prologue" -> 6
      [] kind = "cet-landing-pad" -> 7 [] kind = "aligned-after-return" -> 8

-----------------------------------------------------------------------------
(* Unwind entries: one per start, .debug_frame before .eh_frame and the     *)
(* longer of two, then no two that overlap, the lower start winning.        *)

SourceRank(f) == IF f.source = "debug_frame" THEN 0 ELSE 1
Better(f, g) == \/ SourceRank(f) < SourceRank(g)
                \/ SourceRank(f) = SourceRank(g) /\ f.hi > g.hi
Preferred ==
    LET sound == {f \in image.fdes : f.hi > f.lo /\ SectionOf(f.lo) # {}}
        best == {f \in sound : \A g \in sound : g.lo = f.lo => ~Better(g, f)}
        apart(f, taken) == \A g \in taken : f.lo >= g.hi \/ f.hi <= g.lo
    IN  FoldLeft(LAMBDA taken, f : IF apart(f, taken) THEN taken \cup {f} ELSE taken,
                 {}, SetToSortSeq(best, LAMBDA f, g : f.lo < g.lo))

Covered(a) == \E f \in Preferred : f.lo < a /\ a < f.hi        \* strictFdeCoverage

(* An entry may begin with padding: the function starts behind it, unless   *)
(* nothing else is left of the range.                                       *)
Unpadded(f) ==
    LET real == {a \in f.lo..f.hi - 1 : ~(At(a).op = "nop" /\ Decoded(a))} IN
    IF real = {} \/ ~Decoded(f.lo) THEN f.lo ELSE Min(real)

Seed(kind, end) == [kind |-> kind, end |-> end]

AddSeed(known, a, seed) ==
    IF a \in DOMAIN known /\ Rank(known[a].kind) <= Rank(seed.kind) THEN known
    ELSE (a :> seed) @@ known

(* Patterns in the decoded code, never strictly inside an unwind entry.     *)
AfterReturn(a) ==
    LET later == {b \in Places : b > a /\ SectionOf(b) = SectionOf(a) /\ At(b).op # "nop"} IN
    IF later = {} THEN {} ELSE {b \in {Min(later)} : b % Alignment = 0}

Heuristics ==
    LET seen == {a \in Places : Decoded(a)}
        frame(a) == a + 1 \in seen /\ At(a).op = "push" /\ At(a + 1).op = "mov"
        pads == {a \in seen : At(a).op = "endbr"}
        prologues == {a \in seen : frame(a) \/ (a \in pads /\ a + 1 \in seen /\ frame(a + 1))}
        aligned == UNION {AfterReturn(a) : a \in {b \in seen : At(b).flow = "return"}}
    IN  {<<a, "cet-landing-pad">> : a \in pads} \cup {<<a, "prologue">> : a \in prologues}
            \cup {<<a, "aligned-after-return">> : a \in aligned}

AddAll(known, found) ==
    FoldSet(LAMBDA x, now : AddSeed(now, x[1], x[2]), known, found)

FirstSeeds ==
    LET unwind == {<<Unpadded(f), Seed("unwind-fde", f.hi)>> : f \in Preferred}
        entry == {<<image.entry, Seed("entrypoint", Nowhere)>> : s \in SectionOf(image.entry)}
        ends == {<<s.lo, Seed("section-entry", s.hi)>> : s \in Named(".init") \cup Named(".fini")}
        hints == {<<x[1], Seed(x[2], Nowhere)>> : x \in {y \in Heuristics : ~Covered(y[1])}}
    IN  AddAll(<<>>, unwind \cup entry \cup ends \cup hints)

-----------------------------------------------------------------------------
(* traceSeed: recursive descent inside the section, or the unwind range.    *)

Terminal(a) == At(a).flow = "return" \/ At(a).op = "ud2"
HardEnd(a, known) ==
    IF known[a].end # Nowhere THEN known[a].end ELSE (CHOOSE s \in SectionOf(a) : TRUE).hi
Supported(t, known) ==
    t \in DOMAIN known \/ (\E f \in Preferred : f.lo = t) \/ At(t).op = "endbr"

(* A jump to a supported entry outside the range leaves the function.       *)
IsTail(a, start, known) ==
    /\ At(a).flow = "jump" /\ Decoded(At(a).target)
    /\ Supported(At(a).target, known)
    /\ (At(a).target < start \/ At(a).target >= HardEnd(start, known))

Follows(a, start, known) ==
    LET s == CHOOSE x \in SectionOf(start) : TRUE
        next == IF (At(a).flow = "jump" /\ Decoded(At(a).target)) \/ Terminal(a) THEN {} ELSE {a + 1}
        jumps == IF At(a).flow \in {"jump", "jcc"} /\ Decoded(At(a).target) /\ ~IsTail(a, start, known)
                   THEN {At(a).target} ELSE {}
    IN  {b \in next \cup jumps : s.lo <= b /\ b < HardEnd(start, known) /\ Decoded(b)
                                   /\ SectionOf(b) = {s}}

Reached(start, known) ==
    LET spread(seen) == seen \cup UNION {Follows(a, start, known) : a \in seen}
        grow[n \in 0..Len(image.code)] ==
            IF n = 0 THEN {start} \cap {a \in Places : Decoded(a)} ELSE spread(grow[n - 1])
    IN  grow[Len(image.code)]

Traced(start, known, keeps(_)) ==
    LET seen == Reached(start, known) IN
    [seen  |-> seen,
     calls |-> {t \in {At(a).target : a \in {b \in seen : At(b).flow = "call"}} : keeps(t)},
     tails |-> {At(a).target : a \in {b \in seen : IsTail(b, start, known)}}]
Trace(start, known) == Traced(start, known, Decoded)

InOrder(known) ==
    SetToSortSeq(DOMAIN known, LAMBDA a, b : \/ Rank(known[a].kind) < Rank(known[b].kind)
                                             \/ known[a].kind = known[b].kind /\ a < b)
FirstN(seq, n) == SubSeq(seq, 1, Min({n, Len(seq)}))

-----------------------------------------------------------------------------
Init ==
    /\ image \in Images
    /\ phase = "seeding"
    /\ seeds = <<>> /\ traces = <<>> /\ queue = <<>> /\ changed = TRUE /\ passes = 0
    /\ functions = {} /\ transfers = {}
    /\ pc = image.entry /\ calls = <<>> /\ rdi = Nowhere /\ steps = 0

(* Symbols, where there are any, are the functions and nothing is searched. *)
FromSymbols ==
    /\ phase = "seeding" /\ image.symbols # {}
    /\ functions' = {[lo |-> y.lo, hi |-> y.hi, kind |-> "symbol"] : y \in image.symbols}
    /\ phase' = "linking"
    /\ UNCHANGED <<image, seeds, traces, queue, changed, passes, transfers, machine>>

Search ==
    /\ phase = "seeding" /\ image.symbols = {}
    /\ seeds' = FirstSeeds
    /\ phase' = IF Cardinality(DOMAIN seeds') < MaxFunctions THEN "passing" ELSE "accepting"
    /\ UNCHANGED <<image, traces, queue, changed, passes, functions, transfers, machine>>

(* A pass takes the seeds known at its start, strongest kind first; there is *)
(* another while the last one found something and the budgets last.         *)
StartPass ==
    /\ phase = "passing" /\ queue = <<>>
    /\ queue' = FirstN(InOrder(seeds), MaxFunctions)
    /\ changed' = FALSE /\ passes' = passes + 1
    /\ phase' = IF queue' = <<>> THEN "accepting" ELSE "passing"
    /\ UNCHANGED <<image, seeds, traces, functions, transfers, machine>>

TraceOne ==
    /\ phase = "passing" /\ queue # <<>>
    /\ LET a == Head(queue)
           skipped == seeds[a].kind # "unwind-fde" /\ Covered(a)
           trace == Trace(a, seeds)
           free(t) == ~Covered(t) \/ t \in DOMAIN seeds
           found == {<<t, Seed("direct-call", Nowhere)>> : t \in {x \in trace.calls : free(x)}}
                      \cup {<<t, Seed("tail-call", Nowhere)>> : t \in {x \in trace.tails : free(x)}}
       IN  /\ traces' = IF skipped THEN traces ELSE (a :> trace) @@ traces
           /\ seeds' = IF skipped THEN seeds ELSE AddAll(seeds, found)
           /\ changed' = (changed \/ seeds' # seeds)
           /\ queue' = Tail(queue)
           /\ phase' = IF queue' = <<>>
                          /\ (~changed' \/ passes >= MaxPasses \/ Cardinality(DOMAIN seeds') >= MaxFunctions)
                         THEN "accepting" ELSE "passing"
    /\ UNCHANGED <<image, passes, functions, transfers, machine>>

(* A function ends with its unwind range, or with the last instruction its  *)
(* trace reached before the next start.                                     *)
Extent(a, accepted) ==
    LET trace == IF a \in DOMAIN traces THEN traces[a] ELSE Trace(a, seeds)
        section == CHOOSE s \in SectionOf(a) : TRUE
        starts == {b \in accepted : b > a /\ SectionOf(b) = {section}}
        hard == IF seeds[a].end # Nowhere THEN seeds[a].end
                ELSE IF starts # {} THEN Min(starts) ELSE section.hi
        seen == {b + 1 : b \in {x \in trace.seen : a <= x /\ x < hard}}
    IN  [lo |-> a, kind |-> seeds[a].kind,
         hi |-> IF seeds[a].end # Nowhere THEN seeds[a].end
                ELSE IF seen # {} THEN Min({hard, Max(seen)}) ELSE hard]

Accept ==
    /\ phase = "accepting"
    /\ LET kept == {a \in DOMAIN seeds : seeds[a].kind = "unwind-fde" \/ ~Covered(a)}
           accepted == ToSet(FirstN(SetToSortSeq(kept, <), MaxFunctions))
       IN  functions' = {f \in {Extent(a, accepted) : a \in accepted} : f.hi > f.lo}
    /\ phase' = "linking"
    /\ UNCHANGED <<image, seeds, traces, queue, changed, passes, transfers, machine>>

-----------------------------------------------------------------------------
(* The call graph (discoverProgramCallGraph): each function decoded in a    *)
(* straight line, its direct calls, and the first direct jump that leaves   *)
(* it, which ends the reading of that function.                             *)

Containing(a) == {f \in functions : f.hi # Nowhere /\ f.lo <= a /\ a < f.hi}
Starting(a) == {f \in functions : f.lo = a}
(* The function at an address: one that starts there, else the smallest.    *)
FunctionAt(a) ==
    IF Starting(a) # {} THEN Starting(a)
    ELSE {f \in Containing(a) : \A g \in Containing(a) : f.hi - f.lo <= g.hi - g.lo}

(* What decodeFunctionCandidate yields; without a size it ends at a return. *)
BodyOf(f) ==
    LET section == CHOOSE s \in SectionOf(f.lo) : TRUE
        returns == {a \in f.lo..section.hi - 1 : At(a).flow = "return"}
    IN  IF f.hi # Nowhere THEN f.lo..Min({f.hi, section.hi}) - 1
        ELSE IF returns # {} THEN f.lo..Min(returns) ELSE f.lo..section.hi - 1

Leaves(f, a) == At(a).flow = "jump" /\ \E g \in FunctionAt(At(a).target) : g.lo # f.lo

(* A mistake: any jump ends the reading of a function. *)
ReadAnyJump(f) ==
    LET jumps == {a \in BodyOf(f) : At(a).flow = "jump"} IN
    IF jumps = {} THEN BodyOf(f) ELSE {a \in BodyOf(f) : a <= Min(jumps)}
Read(f) ==
    LET jumps == {a \in BodyOf(f) : Leaves(f, a)} IN
    IF jumps = {} THEN BodyOf(f) ELSE {a \in BodyOf(f) : a <= Min(jumps)}

Transfer(from, to, kind, site) == [from |-> from, to |-> to, kind |-> kind, site |-> site]
CallsOf(f) ==
    UNION {{Transfer(f.lo, t, "call", a) :
              t \in {x \in {At(a).target} : x \in image.plt} \cup
                   {g.lo : g \in {h \in FunctionAt(At(a).target) : At(a).target \notin image.plt}}}
           : a \in {b \in Read(f) : At(b).flow = "call" /\ At(b).target # Nowhere}}
TailsOf(f) ==
    UNION {{Transfer(f.lo, g.lo, "tail-call", a) : g \in FunctionAt(At(a).target)}
           : a \in {b \in Read(f) : Leaves(f, b)}}

(* inferLibcStartupMain: what the entry last loaded into rdi, at most twelve *)
(* instructions before the call of __libc_start_main, if a function starts   *)
(* there.                                                                    *)
LoadsBefore(f, a) ==
    {b \in BodyOf(f) : b < a /\ b >= a - 12 /\ At(b).op = "rdi" /\ Starting(At(b).imm) # {}}
StartupOf(f) ==
    {Transfer(f.lo, At(Max(LoadsBefore(f, a))).imm, "startup", a) :
        a \in {b \in BodyOf(f) : At(b).op = "libc" /\ f.lo = image.entry /\ LoadsBefore(f, b) # {}}}

Link ==
    /\ phase = "linking"
    /\ transfers' = {t \in UNION {CallsOf(f) \cup TailsOf(f) \cup StartupOf(f) : f \in functions} :
                        t.from # t.to \/ t.kind = "call"}
    /\ phase' = "running"
    /\ UNCHANGED <<image, seeds, traces, queue, changed, passes, functions, machine>>

-----------------------------------------------------------------------------
(* The run (external: the processor).  A stub returns at once; the C        *)
(* library calls what rdi holds; a conditional jump goes either way.        *)

Enters(a) == IF At(a).op = "libc" THEN rdi ELSE At(a).target
Goes(a) ==
    CASE At(a).flow = "jump" -> {At(a).target}
      [] At(a).flow = "jcc" -> {At(a).target, a + 1}
      [] At(a).flow = "call" -> {IF Enters(a) \in Places THEN Enters(a) ELSE a + 1}
      [] At(a).flow = "return" -> IF calls = <<>> THEN {} ELSE {Head(calls)}
      [] OTHER -> IF At(a).op = "ud2" THEN {} ELSE {a + 1}

Execute ==
    /\ phase = "running" /\ steps < MaxSteps
    /\ \E next \in Goes(pc) : next \in Places /\ pc' = next
    /\ calls' = CASE At(pc).flow = "call" /\ Enters(pc) \in Places -> <<pc + 1>> \o calls
                  [] At(pc).flow = "return" -> Tail(calls)
                  [] OTHER -> calls
    /\ rdi' = IF At(pc).op = "rdi" THEN At(pc).imm ELSE rdi
    /\ steps' = steps + 1
    /\ UNCHANGED search

Next == FromSymbols \/ Search \/ StartPass \/ TraceOne \/ Accept \/ Link \/ Execute

Spec == Init /\ [][Next]_vars

-----------------------------------------------------------------------------
(* Properties                                                               *)

TypeOK ==
    /\ phase \in {"seeding", "passing", "accepting", "linking", "running"}
    /\ DOMAIN seeds \subseteq Places /\ DOMAIN traces \subseteq DOMAIN seeds
    /\ ToSet(queue) \subseteq DOMAIN seeds
    /\ passes \in 0..MaxPasses
    /\ \A f \in functions : f.lo \in Places
    /\ \A t \in transfers : t.site \in Places
    /\ pc \in Places /\ steps \in 0..MaxSteps

Stripped == image.symbols = {}
Running == phase = "running"

(* The functions found in a stripped image do not overlap, so an address    *)
(* belongs to one at most.                                                   *)
RangesApart ==
    Running /\ Stripped =>
        \A f, g \in functions : f # g => f.hi <= g.lo \/ g.hi <= f.lo

(* Every unwind range kept after the overlaps are settled is the end of a   *)
(* function that starts inside it.                                           *)
UnwindIsKept ==
    Running /\ Stripped /\ Cardinality(DOMAIN seeds) < MaxFunctions =>
        \A f \in Preferred : \E g \in functions : f.lo <= g.lo /\ g.lo < f.hi /\ g.hi = f.hi

(* Recursive descent misses no call: whenever a run of the image makes a    *)
(* direct call into decoded code, a function starts at its target, unless   *)
(* an unwind range says that this is the middle of one.  The search has to  *)
(* have ended by itself, not by a budget.                                    *)
CallsLandOnStarts ==
    Running /\ Stripped /\ ~changed /\ At(pc).flow = "call" /\ Decoded(At(pc).target) =>
        Starting(At(pc).target) # {} \/ Covered(At(pc).target)

(* A call a run makes is in the call graph, from the function it is made in *)
(* to the stub or the function it reaches, where no jump out of the same     *)
(* function stands before it.                                                *)
CallsAreDrawn ==
    Running /\ At(pc).flow = "call" /\ At(pc).target # Nowhere =>
        \A f \in FunctionAt(pc) :
            (\A a \in BodyOf(f) : a < pc => ~Leaves(f, a)) =>
                \A to \in ({At(pc).target} \cap image.plt) \cup {g.lo : g \in FunctionAt(At(pc).target)} :
                    Transfer(f.lo, to, "call", pc) \in transfers

(* When the entry hands a function to the C library, the graph has that     *)
(* handoff.                                                                  *)
StartupIsDrawn ==
    Running /\ At(pc).op = "libc" /\ Starting(image.entry) # {} /\ pc - image.entry \in 1..12
            /\ Starting(rdi) # {} /\ rdi # image.entry =>
        \E t \in transfers : t.kind = "startup" /\ t.from = image.entry /\ t.to = rdi

(* The search never forgets an address and only ever replaces a finding by  *)
(* stronger evidence.                                                        *)
SeedsOnlyImprove ==
    [][\A a \in DOMAIN seeds : a \in DOMAIN seeds' /\ Rank(seeds'[a].kind) <= Rank(seeds[a].kind)]_vars
=============================================================================
