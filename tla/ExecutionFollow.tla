---------------------------- MODULE ExecutionFollow ----------------------------
(***************************************************************************)
(* What the graph of a function shows of a process that runs (follow.ts):   *)
(* how often each node and each edge was run, and the node that is run now. *)
(*                                                                          *)
(* A route is a function and what it runs with: the nodes of its graph,     *)
(* [id, lo, hi, address] in order, the edges between them, and the places   *)
(* that follow each place of the process.  A place is <<image, address>>:   *)
(* a library has addresses of its own, those of the function among them.    *)
(***************************************************************************)
EXTENDS Naturals, FiniteSets, Sequences

CONSTANTS
  Routes,
  Nothing,    \* no node or address; an image that is not resolved
  MaxEvents   \* bound on the events recorded

Gap == 0
MaxDepth == 3

VARIABLES
  route,
  place,     \* the instruction run last
  role,      \* lastInstructionRole: of its image, None when it is not resolved
  status,    \* of the snapshot
  events,    \* of the snapshot: addresses of the program, Gap
  crossed    \* the steps from a node to another, both instructions resolved

followVars == <<route, place, role, status, events, crossed>>

\* graphNodeForAddress: the first node that reaches over the address or has it.
NodeIn(nodes, a) ==
  LET at == {i \in DOMAIN nodes : (nodes[i].lo <= a /\ a < nodes[i].hi) \/ nodes[i].address = a}
  IN  IF at = {} THEN Nothing ELSE nodes[CHOOSE i \in at : \A j \in at : i <= j].id
NodeFor(a) == NodeIn(route.nodes, a)

\* A process goes from a node to another along an edge of the graph, or through code
\* outside the function.
ASSUME RoutesAssumption ==
  /\ MaxEvents \in Nat /\ Nothing \notin {"program", "library"}
  /\ \A r \in Routes :
       /\ \A e \in r.edges : e = <<e[1], e[2]>>
       /\ DOMAIN r.next \subseteq {"program", "library"} \X Nat
       /\ \A p \in DOMAIN r.next : \A n \in r.next[p] :
            /\ n \in DOMAIN r.next /\ n # <<"program", Gap>>
            /\ LET from == NodeIn(r.nodes, p[2])
                   to == NodeIn(r.nodes, n[2])
               IN  p[1] = "program" /\ n[1] = "program" /\ Nothing \notin {from, to} /\ from # to =>
                     <<from, to>> \in r.edges

\* edgePath: a shortest path from a node to another, of three edges at most.
Paths(from, to, n) ==
  {p \in [1..n -> route.edges] : /\ p[1][1] = from /\ p[n][2] = to
                                 /\ \A i \in 1..(n - 1) : p[i][2] = p[i + 1][1]}
EdgePath(from, to) ==
  LET lengths == {n \in 1..MaxDepth : Paths(from, to, n) # {}}
      least == CHOOSE n \in lengths : \A m \in lengths : n <= m
  IN  IF from = to \/ lengths = {} THEN <<>> ELSE CHOOSE p \in Paths(from, to, least) : TRUE

(* projectExecutionTrace: an event lights its node, and the path from the   *)
(* node of the event before; a gap or an event elsewhere breaks the trace.  *)
EventNode(i) == IF events[i] = Gap THEN Nothing ELSE NodeFor(events[i])
PathTo(i) ==
  IF i > 1 /\ EventNode(i) # Nothing /\ EventNode(i - 1) # Nothing THEN EdgePath(EventNode(i - 1), EventNode(i)) ELSE <<>>
EdgeCounts ==
  [e \in route.edges |->
     Cardinality({s \in (DOMAIN events) \X (1..MaxDepth) : s[2] \in DOMAIN PathTo(s[1]) /\ PathTo(s[1])[s[2]] = e})]

\* executionAddressFromSnapshot: without proof that the image is the program's there
\* is no address to show.
ExecutionAddress == IF status = "paused" /\ role = "program" THEN place[2] ELSE Nothing
CurrentNode == IF ExecutionAddress = Nothing THEN Nothing ELSE NodeFor(ExecutionAddress)

-------------------------------------------------------------------------------
FollowInit ==
  /\ route \in Routes /\ place = <<"library", 0>> /\ role = Nothing /\ status = "paused"
  /\ events = <<>> /\ crossed = <<>>

\* Mutant: no gap where the program is left.
RecordSeamless(seen, address) ==
  events' = events \o (IF seen = "program" THEN <<address>> ELSE <<>>)

\* The trace of a session: the program's instructions, and a gap where it is left
\* and entered.
Record(seen, address) ==
  events' = events \o (IF seen = "program" THEN (IF role # "program" THEN <<Gap>> ELSE <<>>) \o <<address>>
                       ELSE IF role = "program" THEN <<Gap>> ELSE <<>>)

Crosses(from, to) == role = "program" /\ Nothing \notin {NodeFor(from), NodeFor(to)} /\ NodeFor(from) # NodeFor(to)

\* An instruction is run; its image may not be resolved.
Run(next, resolved) ==
  LET seen == IF resolved THEN next[1] ELSE Nothing
  IN  /\ status = "paused" /\ Len(events) < MaxEvents
      /\ next \in route.next[place]
      /\ Record(seen, next[2])
      /\ crossed' = IF seen = "program" /\ Crosses(place[2], next[2])
                    THEN Append(crossed, <<NodeFor(place[2]), NodeFor(next[2])>>) ELSE crossed
      /\ place' = next /\ role' = seen
      /\ UNCHANGED <<route, status>>

Exit == status = "paused" /\ status' = "exited" /\ UNCHANGED <<route, place, role, events, crossed>>

FollowNext == Exit \/ \E next \in UNION {route.next[p] : p \in DOMAIN route.next}, resolved \in BOOLEAN : Run(next, resolved)
FollowSpec == FollowInit /\ [][FollowNext]_followVars

-------------------------------------------------------------------------------
FollowTypeOK == status \in {"paused", "exited"} /\ Len(events) <= MaxEvents + 1

\* follow.ts lights the edges the process went along, each as often as it did, and no
\* other: none is lit across an instruction of another image or one that was not
\* resolved, whatever address it has there.
LitIsRun ==
  \A e \in route.edges : EdgeCounts[e] = Cardinality({i \in DOMAIN crossed : crossed[i] = e})

\* The node shown as the current one is that of an instruction of the program.
CurrentIsTrue == CurrentNode # Nothing => place[1] = "program" /\ status = "paused"

\* The graph shows what the process did: the edges lit are those it went along, and
\* the current node is that of an instruction of the program.
TraceIsShown == FollowTypeOK /\ LitIsRun /\ CurrentIsTrue
=============================================================================
