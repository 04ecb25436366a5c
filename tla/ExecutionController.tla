------------------------- MODULE ExecutionController -------------------------
(***************************************************************************)
(* useExecutionController: the hook that owns the one execution session of *)
(* the page.  Its calls are asynchronous and unguarded: the F6, F10 and    *)
(* Shift+F5 shortcuts, the menu, the terminal and the debug console may    *)
(* call any of them while others wait for an environment, an engine or the *)
(* next frame.  Every wait is tagged with the value runGeneration had when *)
(* it began, and its continuation acts only if the tag is still current.   *)
(*                                                                         *)
(* One action is one task of the browser's event loop with the microtasks  *)
(* it drains: a call runs up to its first real wait, a continuation up to  *)
(* the next one.  Awaiting an already settled promise is no wait.          *)
(*                                                                         *)
(* Targets are analyzed binaries: the interface constructs no other kind.  *)
(***************************************************************************)
EXTENDS ExecutionSession, FiniteSets

CONSTANTS
  Targets,
  Supported,      \* Supported[t]: the provider binaryExecutionSupport selects, or "none"
  None,
  MaxGeneration   \* bound on runGeneration

ASSUME TargetAssumption ==
  /\ None \notin Targets /\ None \notin Nat
  /\ Supported \in [Targets -> {"linux", "machine", "none"}]
  /\ MaxGeneration \in Nat

VARIABLES
  generation,  \* runGeneration
  sessions,    \* every session constructed, by the generation it was created under
  current,     \* sessionRef, or None
  lastTarget,  \* lastTargetRef, or None
  snapshot,    \* the React state the interface renders: status and target
  preflight,   \* the Blink preflight's status
  tasks        \* the continuations waiting for the event loop

vars == <<generation, sessions, current, lastTarget, snapshot, preflight, tasks>>

Idle == [status |-> "idle", target |-> None]
Failed(t) == [status |-> "trapped", target |-> t]
Shown(x) == [status |-> x.status, target |-> x.target]

Task(kind, stage, t, g, s) == [kind |-> kind, stage |-> stage, target |-> t, tag |-> g, session |-> s]
Current(k) == k.tag = generation

Disposed == IF current = None THEN sessions ELSE [sessions EXCEPT ![current].live = FALSE]

\* The sessions with x constructed or moved as session s.
With(s, x) == [i \in DOMAIN sessions \cup {s} |-> IF i = s THEN x ELSE sessions[i]]

Reusable(t) == current # None /\ SameTarget(sessions[current], t)

-----------------------------------------------------------------------------
(***************************************************************************)
(* createSession, up to its first wait.  "bumps" is what runGeneration has *)
(* gained by then; the provider decides how many waits there are.          *)
(***************************************************************************)

\* Mutant: a creation that does not take a generation of its own.
CreateUntagged(kind, t, bumps) ==
  /\ generation' = generation + bumps - 1
  /\ lastTarget' = t
  /\ sessions' = Disposed
  /\ current' = None
  /\ Supported[t] # "none"
  /\ tasks' = tasks \cup {Task(kind, "module", t, generation + bumps - 1, None)}
  /\ UNCHANGED <<snapshot, preflight>>

Create(kind, t, bumps) ==
  LET g == generation + bumps
  IN /\ generation' = g
     /\ lastTarget' = t
     /\ sessions' = Disposed
     /\ current' = None
     /\ \/ /\ Supported[t] = "none"
           /\ snapshot' = Failed(t)
           /\ UNCHANGED <<preflight, tasks>>
        \/ /\ Supported[t] # "none"
           /\ preflight' = "idle"
           /\ tasks' = tasks \cup
                {Task(kind, IF Supported[t] = "linux" THEN "environment" ELSE "module", t, g, None)}
           /\ UNCHANGED snapshot

\* driveRun on session s, whose record is x: it is marked running and runs its
\* first slice before the first frame is awaited.  No caller passes a terminal
\* session, so the early return for one is never taken.
DriveRun(s, x, others) ==
  /\ generation' = generation + 1
  /\ \E y \in SliceOutcomes(MarkedRunning(x)) :
       /\ sessions' = With(s, y)
       /\ snapshot' = Shown(y)
       /\ tasks' = IF y.status = "running"
                   THEN others \cup {Task("loop", "frame", y.target, generation + 1, s)}
                   ELSE others

-----------------------------------------------------------------------------
(***************************************************************************)
(* The calls                                                               *)
(***************************************************************************)

\* prepare and reset are the same call: a session created whatever there was.
Reset(t) == Create("reset", t, 1)

\* step raises the generation before it asks for a session, which stops a
\* run loop on the session it is about to step.
StepCurrent(t) ==
  /\ Reusable(t)
  /\ generation' = generation + 1
  /\ lastTarget' = t
  /\ \E y \in StepOutcomes(Paused(sessions[current])) :
       /\ sessions' = [sessions EXCEPT ![current] = y]
       /\ snapshot' = Shown(y)
  /\ UNCHANGED <<current, preflight, tasks>>

Step(t) == StepCurrent(t) \/ (~Reusable(t) /\ Create("step", t, 2))

RunCurrent(t) ==
  /\ Reusable(t) /\ sessions[current].status \notin Terminal
  /\ lastTarget' = t
  /\ DriveRun(current, sessions[current], tasks)
  /\ UNCHANGED <<current, preflight>>

\* A terminal session is not continued: Run creates a new one.
Run(t) ==
  \/ RunCurrent(t)
  \/ /\ Reusable(t) => sessions[current].status \in Terminal
     /\ Create("run", t, 1)

Probe(t) ==
  /\ generation' = generation + 1
  /\ lastTarget' = t
  /\ sessions' = Disposed
  /\ current' = None
  /\ preflight' = "scanning"
  /\ tasks' = tasks \cup {Task("probe", "audit", t, generation + 1, None)}
  /\ UNCHANGED snapshot

\* The debug console's probe repeats the last target.
ProbeLast == lastTarget # None /\ Probe(lastTarget)

\* Mutants: a pause the interface is not told of, and one that stops the loop
\* but not the session.
PauseUnshown ==
  /\ generation' = generation + 1
  /\ current # None
  /\ sessions' = [sessions EXCEPT ![current] = Paused(@)]
  /\ UNCHANGED <<snapshot, current, lastTarget, preflight, tasks>>

PauseLoopOnly ==
  /\ generation' = generation + 1
  /\ UNCHANGED <<sessions, snapshot, current, lastTarget, preflight, tasks>>

Pause ==
  /\ generation' = generation + 1
  /\ \/ current = None /\ UNCHANGED <<sessions, snapshot>>
     \/ /\ current # None
        /\ sessions' = [sessions EXCEPT ![current] = Paused(@)]
        /\ snapshot' = Shown(Paused(sessions[current]))
  /\ UNCHANGED <<current, lastTarget, preflight, tasks>>

Clear ==
  /\ generation' = generation + 1
  /\ sessions' = Disposed
  /\ current' = None
  /\ lastTarget' = None
  /\ snapshot' = Idle
  /\ preflight' = "idle"
  /\ UNCHANGED tasks

-----------------------------------------------------------------------------
(***************************************************************************)
(* The continuations.  A stale one returns; if it was waiting for a        *)
(* session, the session it receives is disposed of at once.                *)
(***************************************************************************)
Creations == {"reset", "step", "run", "probe"}
ProviderOf(k) == IF k.kind = "probe" THEN "blink" ELSE Supported[k.target]


\* Mutant: the overtaken creation keeps its engine open.
StaleUndisposed(k) ==
  /\ k.kind \in Creations /\ ~Current(k)
  /\ tasks' = tasks \ {k}
  /\ \/ UNCHANGED sessions
     \/ k.stage = "module" /\ sessions' = With(k.tag, NewSession(k.target, ProviderOf(k)))
  /\ UNCHANGED <<generation, current, lastTarget, snapshot, preflight>>

Stale(k) ==
  /\ k.kind \in Creations /\ ~Current(k)
  /\ tasks' = tasks \ {k}
  /\ \/ UNCHANGED sessions
     \/ /\ k.stage = "module"
        /\ sessions' = With(k.tag, [NewSession(k.target, ProviderOf(k)) EXCEPT !.live = FALSE])
  /\ UNCHANGED <<generation, current, lastTarget, snapshot, preflight>>

\* Mutant: an error that is swallowed.
CreationFailsSilently(k) ==
  /\ k.kind \in Creations /\ Current(k)
  /\ tasks' = tasks \ {k}
  /\ UNCHANGED <<generation, sessions, current, lastTarget, snapshot, preflight>>

\* The environment, its symbol versions, the audit or the engine failed.
CreationFails(k) ==
  /\ k.kind \in Creations /\ Current(k)
  /\ tasks' = tasks \ {k}
  /\ current' = None
  /\ snapshot' = Failed(k.target)
  /\ UNCHANGED <<generation, sessions, lastTarget, preflight>>

AuditDone(k) ==
  /\ k.stage = "audit" /\ Current(k)
  /\ preflight' \in {"compatible", "incompatible"}
  /\ tasks' = (tasks \ {k}) \cup {[k EXCEPT !.stage = "environment"]}
  /\ UNCHANGED <<generation, sessions, current, lastTarget, snapshot>>

EnvironmentReady(k) ==
  /\ k.stage = "environment" /\ Current(k)
  /\ tasks' = (tasks \ {k}) \cup {[k EXCEPT !.stage = "module"]}
  /\ UNCHANGED <<generation, sessions, current, lastTarget, snapshot, preflight>>

\* The session is installed, and the call that asked for it carries on.
SessionReady(k) ==
  /\ k.stage = "module" /\ Current(k)
  /\ current' = k.tag
  /\ LET new == NewSession(k.target, ProviderOf(k))
     IN \/ /\ k.kind = "reset"
           /\ sessions' = With(k.tag, new)
           /\ snapshot' = Shown(new)
           /\ tasks' = tasks \ {k}
           /\ UNCHANGED generation
        \/ /\ k.kind = "step"
           /\ \E y \in StepOutcomes(new) :
                sessions' = With(k.tag, y) /\ snapshot' = Shown(y)
           /\ tasks' = tasks \ {k}
           /\ UNCHANGED generation
        \/ /\ k.kind \in {"run", "probe"}
           /\ DriveRun(k.tag, new, tasks \ {k})
  /\ UNCHANGED <<lastTarget, preflight>>

\* Mutant: a loop that trusts the status alone.
FrameUntagged(k) ==
  /\ k.kind = "loop" /\ sessions[k.session].status = "running"
  /\ \E y \in SliceOutcomes(sessions[k.session]) :
       /\ sessions' = [sessions EXCEPT ![k.session] = y]
       /\ snapshot' = Shown(y)
       /\ tasks' = IF y.status = "running" THEN tasks ELSE tasks \ {k}
  /\ UNCHANGED <<generation, current, lastTarget, preflight>>

\* The run loop after a frame: it ends, or runs one more slice.
Frame(k) ==
  /\ k.kind = "loop"
  /\ \/ /\ ~Current(k) \/ sessions[k.session].status # "running"
        /\ tasks' = tasks \ {k}
        /\ UNCHANGED <<sessions, snapshot>>
     \/ /\ Current(k) /\ sessions[k.session].status = "running"
        /\ \E y \in SliceOutcomes(sessions[k.session]) :
             /\ sessions' = [sessions EXCEPT ![k.session] = y]
             /\ snapshot' = Shown(y)
             /\ tasks' = IF y.status = "running" THEN tasks ELSE tasks \ {k}
  /\ UNCHANGED <<generation, current, lastTarget, preflight>>

-----------------------------------------------------------------------------
Init ==
  /\ generation = 0
  /\ sessions = <<>>
  /\ current = None /\ lastTarget = None
  /\ snapshot = Idle
  /\ preflight = "idle"
  /\ tasks = {}

Call ==
  /\ generation < MaxGeneration
  /\ \/ \E t \in Targets : Reset(t) \/ Step(t) \/ Run(t) \/ Probe(t)
     \/ ProbeLast \/ Pause \/ Clear

Continuation(k) ==
  Stale(k) \/ CreationFails(k) \/ AuditDone(k) \/ EnvironmentReady(k) \/ SessionReady(k) \/ Frame(k)

Next == Call \/ \E k \in tasks : Continuation(k)

Spec == Init /\ [][Next]_vars

\* The event loop settles every wait and, while the page is visible, grants
\* every requested frame; nothing obliges the user to call.
Fairness == \A g \in 1 .. MaxGeneration + 2 : WF_vars(\E k \in tasks : k.tag = g /\ Continuation(k))

FairSpec == Spec /\ Fairness

-----------------------------------------------------------------------------
(***************************************************************************)
(* Properties                                                              *)
(***************************************************************************)
TaskType ==
  [kind : Creations \cup {"loop"}, stage : {"audit", "environment", "module", "frame"},
   target : Targets, tag : Nat, session : Nat \cup {None}]

TypeOK ==
  /\ generation \in Nat
  /\ DOMAIN sessions \subseteq 1 .. generation
  /\ sessions \in [DOMAIN sessions -> SessionType(Targets)]
  /\ current \in DOMAIN sessions \cup {None}
  /\ lastTarget \in Targets \cup {None}
  /\ snapshot \in [status : Statuses \cup {"idle"}, target : Targets \cup {None}]
  /\ preflight \in {"idle", "scanning", "compatible", "incompatible"}
  /\ tasks \subseteq TaskType

\* No engine leaks and none is closed under the interface: of all the sessions
\* ever constructed, the one not disposed of is the one sessionRef holds,
\* however the creations of several calls overtake each other.
OneLiveSession == \A s \in DOMAIN sessions : sessions[s].live <=> s = current

\* The continuation that may still act is at most one, and it will act on what
\* sessionRef holds: a run loop on the session it drives, a creation on an
\* empty slot (so installing never drops a live session).
CurrentTaskOwnsTheSlot ==
  \A k \in tasks : Current(k) =>
    /\ \A other \in tasks : Current(other) => other = k
    /\ k.session = current

\* The interface renders the session it has: status and target.
SnapshotShowsTheSession == current # None => snapshot = Shown(sessions[current])

\* A session is never left "running" with no loop to run it, whichever call
\* stopped or replaced the loop that marked it.
RunningIsDriven ==
  (current # None /\ sessions[current].status = "running")
    => \E k \in tasks : k.kind = "loop" /\ Current(k) /\ k.session = current

\* A disposed session is never paused, stepped or run again: its engine is closed.
DisposedIsFinal ==
  [][\A s \in DOMAIN sessions : ~sessions[s].live => sessions'[s] = sessions[s]]_vars

\* The controller is one guest at a time.
Guests == {[id |-> s, target |-> sessions[s].target, status |-> sessions[s].status] :
             s \in {s \in DOMAIN sessions : sessions[s].live}}
OneGuestAtATime == INSTANCE OneGuest WITH guests <- Guests
RefinesOneGuest == OneGuestAtATime!Spec

\* A call that waits for a session is answered unless a later call takes its
\* place: it gets the session, or the interface shows why not.
StartsAreAnswered ==
  \A g \in 1 .. MaxGeneration + 2 :
    (generation = g /\ \E k \in tasks : k.kind \in Creations /\ Current(k))
      ~> (\/ generation # g \/ current = g
          \/ snapshot.status = "trapped" /\ ~\E k \in tasks : Current(k))

\* A Unicorn guest that is run and left alone reaches a terminal status: the
\* instruction budget ends it if it does not end by itself.
RunsEnd ==
  \A g \in 1 .. MaxGeneration + 2 :
    (generation = g /\ current # None /\ sessions[current].provider # "blink"
       /\ sessions[current].status = "running")
      ~> (generation # g \/ snapshot.status \in Terminal)

\* "Pause remains meaningful": after Pause the interface does not show a
\* running program.
PauseStops == [][Pause => snapshot'.status # "running"]_vars

\* Blink "is not selected by normal Run/Step": the session they move is not
\* one the diagnostic Probe created.
NormalRunAvoidsBlink ==
  [][\A t \in Targets : (StepCurrent(t) \/ RunCurrent(t)) /\ sessions' # sessions
        => sessions[current].provider # "blink"]_vars

=============================================================================
