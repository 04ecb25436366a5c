------------------------------ MODULE ProgramFlow ------------------------------
(***************************************************************************)
(* The graph of the calls between the functions of a binary                 *)
(* (programFlow.ts).  A question q says what is drawn:                      *)
(*   functions  address -> [name, end], the functions found; a name is the  *)
(*              sequence of its parts, end is 0 when it is not known        *)
(*   plts       addresses of the PLT stubs                                  *)
(*   static     transfers the call graph proved: [at, from, to, kind]       *)
(*   summaries  inspected function -> its instructions [at, flow, target]   *)
(*   active     the function shown; scope, hidden and expanded, the toolbar *)
(* A node is <<"group", group>> or <<"function", address>> or               *)
(* <<"plt", address>>.                                                      *)
(***************************************************************************)
EXTENDS Naturals, FiniteSets, Sequences

CONSTANT Absent   \* no function, file or node

Plt == <<"plt">>
Root == <<"root">>

(* topLevelGroup: a name without a dot is in the root, any other in the     *)
(* namespace of its first part that is not empty.                           *)
TopLevelGroup(name) ==
  LET heads == {i \in 1..Len(name) : name[i] # ""}
  IN  IF Len(name) = 1 \/ heads = {} THEN Root
      ELSE <<"ns", name[CHOOSE i \in heads : \A j \in heads : i <= j]>>

\* entityByAddress: a stub replaces a function at its address.
Entities(q) == DOMAIN q.functions \cup q.plts
TypeOf(q, a) == IF a \in q.plts THEN "plt" ELSE "function"
GroupOf(q, a) == IF a \in q.plts THEN Plt ELSE TopLevelGroup(q.functions[a].name)
Groups(q) == {GroupOf(q, a) : a \in Entities(q)}

(* candidateContaining: the function that starts at the address, or the     *)
(* smallest one that reaches over it.                                       *)
CandidateContaining(functions, a) ==
  LET over == {f \in DOMAIN functions : f <= a /\ a < functions[f].end}
      size(f) == functions[f].end - f
  IN  IF a \in DOMAIN functions THEN a
      ELSE IF over = {} THEN Absent
      ELSE CHOOSE f \in over : \A g \in over : size(f) < size(g) \/ (size(f) = size(g) /\ f <= g)

TargetOf(q, a) == IF a \in q.plts THEN a ELSE CandidateContaining(q.functions, a)

Transfer(at, from, to, flow, label) == [at |-> at, from |-> from, to |-> to, flow |-> flow, label |-> label]
StaticTransfers(q) ==
  {Transfer(t.at, t.from, t.to, IF t.kind = "tail-call" THEN "branch" ELSE "call", t.kind) : t \in q.static}

InspectedTransfers(q) ==
  UNION {{Transfer(i.at, f, TargetOf(q, i.target), IF i.flow = "call" THEN "call" ELSE "branch", i.flow) :
            i \in {x \in q.summaries[f] : x.flow \in {"call", "jump"} /\ TargetOf(q, x.target) # Absent}} :
         f \in DOMAIN q.summaries}


\* What an inspected function adds to the pairs the call graph knows.
Transfers(q) ==
  StaticTransfers(q) \cup
  {t \in InspectedTransfers(q) : ~\E s \in StaticTransfers(q) : s.from = t.from /\ s.to = t.to /\ s.flow = t.flow}

Touched(q) ==
  {q.active} \cup DOMAIN q.summaries
    \cup UNION {{t.from, t.to} : t \in StaticTransfers(q) \cup InspectedTransfers(q)}
Focus(q) == {q.active} \cup UNION {{t.from, t.to} : t \in {x \in Transfers(q) : q.active \in {x.from, x.to}}}

\* scopedAddresses, as far as they are entities.
Scoped(q) == Entities(q) \cap CASE q.scope = "focus" -> Focus(q) [] q.scope = "visited" -> Touched(q) [] OTHER -> Entities(q)

\* The groups that are not hidden and have something in scope, and what is in them.
Drawn(q) == {a \in Scoped(q) : GroupOf(q, a) \notin q.hidden}

(* ensureEntityNode: the node an entity is drawn as; only the whole program *)
(* is drawn with compact groups.                                            *)
NodeOf(q, a) ==
  IF q.scope = "all" /\ GroupOf(q, a) \notin q.expanded THEN <<"group", GroupOf(q, a)>> ELSE <<TypeOf(q, a), a>>

FlowNodes(q) == {NodeOf(q, a) : a \in Drawn(q)}

ActionOf(q, node) ==
  CASE node[1] = "group" -> [kind |-> "group", at |-> node[2]]
    [] node[1] = "function" -> [kind |-> "function", at |-> node[2]]
    [] OTHER -> [kind |-> "navigate", at |-> node[2]]

\* aggregated: one edge from a node to another, with what it stands for.
FlowEdges(q) ==
  LET drawn == Drawn(q)
      joins == {t \in Transfers(q) : {t.from, t.to} \subseteq drawn /\ NodeOf(q, t.from) # NodeOf(q, t.to)}
      ends(t) == <<NodeOf(q, t.from), NodeOf(q, t.to)>>
      number(p, flow) == Cardinality({t \in joins : ends(t) = p /\ t.flow = flow})
  IN  {[from |-> p[1], to |-> p[2], calls |-> number(p, "call"), branches |-> number(p, "branch")] :
         p \in {ends(t) : t \in joins}}

-------------------------------------------------------------------------------
(* The call sites a question knows: those the call graph saw and those of   *)
(* the functions inspected.                                                 *)
SiteOf(t) == <<t.from, t.at, t.to>>
Sites(q) == {SiteOf(t) : t \in StaticTransfers(q) \cup InspectedTransfers(q)}

\* What the edges count, one by one.
Counts(e, flow) == IF flow = "call" THEN e.calls ELSE e.branches
Counted(q) ==
  {c \in FlowEdges(q) \X {"call", "branch"} \X (1..Cardinality(Transfers(q))) : c[3] <= Counts(c[1], c[2])}

(* Every edge joins two nodes that are shown, and stands for no more call   *)
(* sites than there are: a function that was inspected after the call graph *)
(* was built counts none of them again.                                     *)
EdgesAreSites(q) ==
  /\ \A e \in FlowEdges(q) : {e.from, e.to} \subseteq FlowNodes(q) /\ e.calls + e.branches > 0
  /\ Cardinality(Counted(q)) <= Cardinality(Sites(q))
=============================================================================
