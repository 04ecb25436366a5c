--------------------------- MODULE ExecutionSession ---------------------------
(***************************************************************************)
(* The interface every execution provider offers the controller (pause,    *)
(* markRunning, step, runSlice), as operators on a session record.  What   *)
(* the guest does inside a step or a slice is a choice among the outcomes  *)
(* the provider can report.                                                *)
(*                                                                         *)
(* "linux" is UnicornLinuxProcessSession, "machine" UnicornMachineSession, *)
(* "blink" BlinkProcessSession (the diagnostic Probe's provider).          *)
(***************************************************************************)
EXTENDS Naturals

CONSTANTS
  Limit,  \* policy.maxInstructions, in units of one step
  Slice,  \* the instructions of one runSlice, in the same unit
  Ends    \* how a guest can end by itself: "exited", "halted", "trapped"

Terminal == {"exited", "halted", "trapped"}
Statuses == {"ready", "running", "paused"} \cup Terminal
Providers == {"linux", "machine", "blink"}

ASSUME LimitAssumption == Limit \in Nat \ {0} /\ Slice \in Nat \ {0} /\ Ends \subseteq Terminal

\* "mode" is Blink's processMode; the Unicorn providers leave it "none".
SessionType(Targets) ==
  [target : Targets, provider : Providers, status : Statuses,
   mode : {"none", "debug", "headless"}, used : 0 .. Limit, live : BOOLEAN]

NewSession(t, provider) ==
  [target |-> t, provider |-> provider, status |-> "ready", mode |-> "none",
   used |-> 0, live |-> TRUE]

SameTarget(x, t) == x.target = t

\* Mutant: a slice that ignores what remains of the budget.
CappedNever(n) == n

Capped(n) == IF n > Limit THEN Limit ELSE n

Paused(x) == IF x.status = "running" THEN [x EXCEPT !.status = "paused"] ELSE x

MarkedRunning(x) == IF x.status \in {"ready", "paused"} THEN [x EXCEPT !.status = "running"] ELSE x

\* Blink's debugger mode and its headless mode exclude each other; a debugger
\* that cannot start is a trap too.
BlinkSteps(x) ==
  {[x EXCEPT !.status = "trapped"]} \cup
  (IF x.mode = "headless" THEN {}
   ELSE {[x EXCEPT !.mode = "debug", !.status = s] : s \in Ends \cup {"paused"}})

\* A trap before the instruction counts nothing.  Only the machine session
\* checks the instruction budget after a single step as well.
UnicornSteps(x) ==
  LET trapped == [x EXCEPT !.status = "trapped"]
      resting == IF x.provider = "machine" /\ x.used + 1 = Limit THEN "trapped" ELSE "paused"
  IN {trapped} \cup (IF x.used = Limit THEN {}
                     ELSE {[x EXCEPT !.used = Capped(x.used + 1), !.status = s] : s \in Ends \cup {resting}})

\* Mutant: a step that does not look at the terminal statuses first.
StepOutcomesUnguarded(x) == IF x.provider = "blink" THEN BlinkSteps(x) ELSE UnicornSteps(x)

StepOutcomes(x) ==
  IF x.status \in Terminal THEN {x}
  ELSE IF x.provider = "blink" THEN BlinkSteps(x) ELSE UnicornSteps(x)

\* Blink rests in "paused" when its fake terminal waits for stdin, and has no
\* instruction budget.
BlinkSlices(y) ==
  IF y.mode = "debug"
  THEN {[y EXCEPT !.status = "trapped"]}
  ELSE {[y EXCEPT !.mode = "headless", !.status = s] : s \in Ends \cup {"running", "paused"}}

\* Mutant: the count starts again with every slice.
UnicornSlicesRestarted(y) ==
  IF y.used = Limit THEN {[y EXCEPT !.status = "trapped"]}
  ELSE UNION {{[y EXCEPT !.used = Capped(n), !.status = s] : s \in Ends \cup {"running"}} : n \in 1 .. Slice}

\* A slice ends early at a system call, and with a trap before its first
\* instruction when that one cannot be fetched.
UnicornSlices(y) ==
  LET Ran(used) == {[y EXCEPT !.used = used, !.status = s] :
                      s \in Ends \cup {IF used = Limit THEN "trapped" ELSE "running"}}
  IN {[y EXCEPT !.status = "trapped"]} \cup
     (IF y.used = Limit THEN {} ELSE UNION {Ran(Capped(y.used + n)) : n \in 1 .. Slice})

SliceOutcomes(x) ==
  LET y == MarkedRunning(x)
  IN IF y.status # "running" THEN {y}
     ELSE IF y.provider = "blink" THEN BlinkSlices(y) ELSE UnicornSlices(y)

===============================================================================
