------------------------------- MODULE OneGuest -------------------------------
(***************************************************************************)
(* What the execution controller promises its caller: at most one guest is *)
(* alive, a new one is opened only when the last is closed, a guest keeps  *)
(* its identity and target while it moves, and a guest that ended stays as *)
(* it is until it is closed.                                               *)
(***************************************************************************)
EXTENDS Naturals

CONSTANTS Targets, Statuses, Terminal

VARIABLE guests  \* the guests alive: records [id, target, status]

Guest == [id : Nat, target : Targets, status : Statuses]

Init == guests = {}

Open == guests = {} /\ guests' \subseteq Guest /\ \E g \in guests' : guests' = {g}

Advance ==
  \E g \in guests, s \in Statuses :
    /\ guests = {g} /\ g.status \notin Terminal
    /\ guests' = {[g EXCEPT !.status = s]}

Close == guests' = {}

Next == Open \/ Advance \/ Close

Spec == Init /\ [][Next]_guests

===============================================================================
