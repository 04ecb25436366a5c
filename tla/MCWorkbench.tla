------------------------------ MODULE MCWorkbench ------------------------------
(***************************************************************************)
(* Small instances of the workbench: three of the workspace, three of the  *)
(* handlers and one of the tools.                                          *)
(***************************************************************************)
EXTENDS Workbench, TLC

CONSTANTS a, b, c, p1, p2, s1, s2, program

Instances ==
  {[segments |-> {a, b}, depth |-> 2, ids |-> 3, groups |-> 0, imports |-> 1, reImports |-> FALSE],
   [segments |-> {a, b}, depth |-> 1, ids |-> 2, groups |-> 2, imports |-> 1, reImports |-> TRUE],
   [segments |-> {a, b, c}, depth |-> 1, ids |-> 3, groups |-> 1, imports |-> 1, reImports |-> FALSE]}
Smallest == CHOOSE s \in Instances : s.reImports

\* Two sources of the same stem in one project, and one source in each of two.
TasksMC ==
  {[projects |-> {p1}, owner |-> [s \in {s1, s2} |-> p1], rearranged |-> FALSE, switches |-> TRUE],
   [projects |-> {p1, p2}, owner |-> (s1 :> p1 @@ s2 :> p2), rearranged |-> FALSE, switches |-> FALSE],
   [projects |-> {p1}, owner |-> [s \in {s1} |-> p1], rearranged |-> TRUE, switches |-> TRUE]}
Short == CHOOSE s \in TasksMC : s.rearranged
OutputMC == [s \in {s1, s2} |-> program]
TextsMC == {0, 1}
SizesMC == {0, 2, 3}
=============================================================================
