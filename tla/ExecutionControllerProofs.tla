---------------------- MODULE ExecutionControllerProofs ----------------------
(***************************************************************************)
(* Proofs about the execution controller, for every set of targets, every  *)
(* routing and budget, and any number of overlapping calls: one live       *)
(* session, owned by the continuation that is current, shown by the        *)
(* snapshot and driven by a loop while it runs; and the controller         *)
(* implements OneGuest.                                                    *)
(***************************************************************************)
EXTENDS ExecutionController, TLAPS

-----------------------------------------------------------------------------
(***************************************************************************)
(* The inductive invariant                                                 *)
(***************************************************************************)

\* A creation: its session does not exist, and a provider will construct it.
Waits(k) ==
  /\ k.session = None /\ k.tag \notin DOMAIN sessions
  /\ k.kind = "probe" \/ Supported[k.target] # "none"

\* A continuation is named by its tag; a loop holds a session that exists, a
\* creation waits for one.
TasksOK ==
  /\ \A k \in tasks : k.tag \in 1 .. generation /\ (k.kind = "loop" <=> k.stage = "frame")
  /\ \A k \in tasks : k.kind = "loop" => k.session \in DOMAIN sessions
  /\ \A k \in tasks : k.kind # "loop" => Waits(k)
  /\ \A k, other \in tasks : k.tag = other.tag => k = other

IInv ==
  /\ TypeOK
  /\ TasksOK
  /\ OneLiveSession
  /\ CurrentTaskOwnsTheSlot
  /\ SnapshotShowsTheSession
  /\ RunningIsDriven

-----------------------------------------------------------------------------
(***************************************************************************)
(* What the operations of a session preserve                               *)
(***************************************************************************)
Moved(x, y) == y \in SessionType(Targets) /\ y.target = x.target /\ y.live = x.live

\* A session whose status changes is otherwise the same session.
LEMMA NewStatus ==
  ASSUME NEW x \in SessionType(Targets), NEW s \in Statuses
  PROVE  Moved(x, [x EXCEPT !.status = s]) /\ [x EXCEPT !.status = s].status = s
  BY DEF SessionType, Moved

\* The same when the instruction count changes with it.
LEMMA NewCount ==
  ASSUME NEW x \in SessionType(Targets), NEW s \in Statuses, NEW n \in 0 .. Limit
  PROVE  /\ Moved(x, [x EXCEPT !.used = n, !.status = s])
         /\ [x EXCEPT !.used = n, !.status = s].status = s
  BY DEF SessionType, Moved

\* The same when Blink's mode changes with it.
LEMMA NewMode ==
  ASSUME NEW x \in SessionType(Targets), NEW s \in Statuses, NEW m \in {"debug", "headless"}
  PROVE  /\ Moved(x, [x EXCEPT !.mode = m, !.status = s])
         /\ [x EXCEPT !.mode = m, !.status = s].status = s
  BY DEF SessionType, Moved

\* pause leaves no session running.
LEMMA PausedMoves ==
  ASSUME NEW x \in SessionType(Targets)
  PROVE  Moved(x, Paused(x)) /\ Paused(x).status # "running"
<1>1. "paused" \in Statuses
  BY DEF Statuses
<1> QED BY <1>1, NewStatus DEF Paused, Moved

\* markRunning is a move.
LEMMA MarkedMoves ==
  ASSUME NEW x \in SessionType(Targets)
  PROVE  Moved(x, MarkedRunning(x))
<1>1. "running" \in Statuses
  BY DEF Statuses
<1> QED BY <1>1, NewStatus DEF MarkedRunning, Moved

\* The budget caps the count.
LEMMA CappedType == ASSUME NEW n \in Nat PROVE Capped(n) \in 0 .. Limit
  BY LimitAssumption DEF Capped

\* A step is a move and never rests in "running".
LEMMA StepMoves ==
  ASSUME NEW x \in SessionType(Targets), x.status # "running", NEW y \in StepOutcomes(x)
  PROVE  Moved(x, y) /\ y.status # "running"
<1>1. /\ {"paused", "trapped"} \subseteq Statuses
      /\ Ends \subseteq Statuses /\ "running" \notin Ends
  BY LimitAssumption DEF Statuses, Terminal
<1>2. CASE x.status \in Terminal
  BY <1>2 DEF StepOutcomes, Moved
<1>3. CASE x.status \notin Terminal /\ x.provider = "blink"
  <2>1. y \in BlinkSteps(x)
    BY <1>3 DEF StepOutcomes
  <2>2. CASE y = [x EXCEPT !.status = "trapped"]
    BY <2>2, <1>1, NewStatus
  <2>3. CASE y # [x EXCEPT !.status = "trapped"]
    <3>1. PICK s \in Ends \cup {"paused"} : y = [x EXCEPT !.mode = "debug", !.status = s]
      BY <2>1, <2>3 DEF BlinkSteps
    <3> QED BY <3>1, <1>1, NewMode
  <2> QED BY <2>2, <2>3
<1>4. CASE x.status \notin Terminal /\ x.provider # "blink"
  <2>1. y \in UnicornSteps(x)
    BY <1>4 DEF StepOutcomes
  <2>2. CASE y = [x EXCEPT !.status = "trapped"]
    BY <2>2, <1>1, NewStatus
  <2>3. CASE y # [x EXCEPT !.status = "trapped"]
    <3>1. PICK s \in Ends \cup {"paused", "trapped"} :
            y = [x EXCEPT !.used = Capped(x.used + 1), !.status = s]
      BY <2>1, <2>3 DEF UnicornSteps
    <3>2. x.used + 1 \in Nat
      BY LimitAssumption DEF SessionType
    <3> QED BY <3>1, <3>2, CappedType, <1>1, NewCount
  <2> QED BY <2>2, <2>3
<1> QED BY <1>2, <1>3, <1>4

\* A slice is a move.
LEMMA SliceMoves ==
  ASSUME NEW x \in SessionType(Targets), NEW y \in SliceOutcomes(x)
  PROVE  Moved(x, y)
<1> DEFINE r == MarkedRunning(x)
<1>1. /\ {"paused", "trapped", "running"} \subseteq Statuses
      /\ Ends \subseteq Statuses
  BY LimitAssumption DEF Statuses, Terminal
<1>2. Moved(x, r) /\ r \in SessionType(Targets)
  BY MarkedMoves DEF Moved
<1>3. SUFFICES ASSUME r.status = "running" PROVE Moved(r, y)
  BY <1>2 DEF SliceOutcomes, Moved
<1>4. CASE r.provider = "blink"
  <2>1. y \in BlinkSlices(r)
    BY <1>3, <1>4 DEF SliceOutcomes
  <2>2. CASE r.mode = "debug"
    BY <2>1, <2>2, <1>1, <1>2, NewStatus DEF BlinkSlices
  <2>3. CASE r.mode # "debug"
    <3>1. PICK s \in Ends \cup {"running", "paused"} :
            y = [r EXCEPT !.mode = "headless", !.status = s]
      BY <2>1, <2>3 DEF BlinkSlices
    <3> QED BY <3>1, <1>1, <1>2, NewMode
  <2> QED BY <2>2, <2>3
<1>5. CASE r.provider # "blink"
  <2>1. y \in UnicornSlices(r)
    BY <1>3, <1>5 DEF SliceOutcomes
  <2>2. CASE y = [r EXCEPT !.status = "trapped"]
    BY <2>2, <1>1, <1>2, NewStatus
  <2>3. CASE y # [r EXCEPT !.status = "trapped"]
    <3> HIDE DEF r
    <3> DEFINE Ran(used) == {[r EXCEPT !.used = used, !.status = s] :
                               s \in Ends \cup {IF used = Limit THEN "trapped" ELSE "running"}}
    <3>1. y \in UNION {Ran(Capped(r.used + n)) : n \in 1 .. Slice}
      BY <2>1, <2>3 DEF UnicornSlices
    <3>2. PICK n \in 1 .. Slice : y \in Ran(Capped(r.used + n))
      BY <3>1
    <3>3. PICK s \in Ends \cup {"trapped", "running"} :
            y = [r EXCEPT !.used = Capped(r.used + n), !.status = s]
      BY <3>2
    <3>4. r.used + n \in Nat
      BY <1>2, LimitAssumption DEF SessionType
    <3> QED BY <3>3, <3>4, <1>1, <1>2, CappedType, NewCount
  <2> QED BY <2>2, <2>3
<1> QED BY <1>4, <1>5

\* A constructed session is ready and live.
LEMMA NewSessionType ==
  ASSUME NEW t \in Targets, NEW p \in Providers
  PROVE  /\ NewSession(t, p) \in SessionType(Targets)
         /\ NewSession(t, p).status = "ready" /\ NewSession(t, p).live = TRUE
         /\ NewSession(t, p).target = t
  BY LimitAssumption DEF NewSession, SessionType, Statuses

-----------------------------------------------------------------------------
(***************************************************************************)
(* What happens to the sessions                                            *)
(***************************************************************************)

\* dispose closes the live session, and no other was live.
LEMMA DisposedSessions ==
  ASSUME IInv
  PROVE  /\ DOMAIN Disposed = DOMAIN sessions
         /\ Disposed \in [DOMAIN sessions -> SessionType(Targets)]
         /\ \A s \in DOMAIN sessions : Disposed[s].live = FALSE
<1>1. /\ sessions \in [DOMAIN sessions -> SessionType(Targets)]
      /\ current \in DOMAIN sessions \cup {None}
      /\ \A s \in DOMAIN sessions : s # None
      /\ \A s \in DOMAIN sessions : sessions[s].live <=> s = current
  BY TargetAssumption DEF IInv, TypeOK, OneLiveSession
<1>2. \A s \in DOMAIN sessions : sessions[s].live \in BOOLEAN
  BY <1>1 DEF SessionType
<1>3. CASE current = None
  BY <1>1, <1>2, <1>3 DEF Disposed
<1>4. CASE current # None
  <2>1. [sessions[current] EXCEPT !.live = FALSE] \in SessionType(Targets)
    BY <1>1, <1>4 DEF SessionType
  <2>2. [sessions[current] EXCEPT !.live = FALSE].live = FALSE
    BY <1>1, <1>4 DEF SessionType
  <2>3. Disposed = [sessions EXCEPT ![current] = [sessions[current] EXCEPT !.live = FALSE]]
    BY <1>1, <1>4 DEF Disposed
  <2> QED BY <1>1, <1>2, <1>4, <2>1, <2>2, <2>3
<1> QED BY <1>3, <1>4

\* The current session moves and nothing else changes.
LEMMA CurrentMoves ==
  ASSUME IInv, current # None, NEW y, Moved(sessions[current], y),
         NEW after, after = [sessions EXCEPT ![current] = y]
  PROVE  /\ DOMAIN after = DOMAIN sessions
         /\ after \in [DOMAIN sessions -> SessionType(Targets)]
         /\ after[current] = y
         /\ \A s \in DOMAIN sessions : after[s].live <=> s = current
         /\ \A s \in DOMAIN sessions : s # current => after[s] = sessions[s]
<1>1. /\ sessions \in [DOMAIN sessions -> SessionType(Targets)]
      /\ current \in DOMAIN sessions
      /\ \A s \in DOMAIN sessions : sessions[s].live <=> s = current
  BY DEF IInv, TypeOK, OneLiveSession
<1>2. y \in SessionType(Targets) /\ (y.live <=> sessions[current].live)
  BY DEF Moved
<1> QED BY <1>1, <1>2

\* A session constructed under a generation that had none.
LEMMA OneMoreSession ==
  ASSUME IInv, NEW g \in 1 .. generation, g \notin DOMAIN sessions,
         NEW x \in SessionType(Targets), NEW after, after = With(g, x)
  PROVE  /\ DOMAIN after = DOMAIN sessions \cup {g}
         /\ DOMAIN after \subseteq 1 .. generation
         /\ after \in [DOMAIN after -> SessionType(Targets)]
         /\ after[g] = x
         /\ \A s \in DOMAIN sessions : after[s] = sessions[s]
  BY DEF IInv, TypeOK, With

\* What the interface shows of a session is a snapshot.
LEMMA ShownType ==
  ASSUME NEW x \in SessionType(Targets)
  PROVE  Shown(x) \in [status : Statuses \cup {"idle"}, target : Targets \cup {None}]
  BY DEF Shown, SessionType

-----------------------------------------------------------------------------
(***************************************************************************)
(* The calls                                                               *)
(***************************************************************************)

\* The parts of the invariant the calls start from.
LEMMA Parts ==
  ASSUME IInv
  PROVE  /\ generation \in Nat
         /\ DOMAIN sessions \subseteq 1 .. generation
         /\ sessions \in [DOMAIN sessions -> SessionType(Targets)]
         /\ current \in DOMAIN sessions \cup {None}
         /\ \A s \in DOMAIN sessions : s # None
         /\ \A s \in DOMAIN sessions : sessions[s].live <=> s = current
         /\ \A k \in tasks : k.tag \in 1 .. generation
  BY TargetAssumption DEF IInv, TypeOK, OneLiveSession, TasksOK

\* When the generation rises and no continuation is added, none is current.
LEMMA AllOvertaken ==
  ASSUME IInv, NEW g \in Nat, g > generation
  PROVE  \A k \in tasks : k.tag # g
  BY Parts

\* createSession disposes of the session it replaces before it waits.
LEMMA CreateKeeps ==
  ASSUME IInv, NEW kind \in Creations, NEW t \in Targets, NEW bumps \in {1, 2},
         Create(kind, t, bumps)
  PROVE  IInv'
<1>1. /\ generation' = generation + bumps /\ generation' \in Nat /\ generation' > generation
      /\ lastTarget' = t /\ sessions' = Disposed /\ current' = None
  BY Parts DEF Create
<1>2. /\ DOMAIN sessions' = DOMAIN sessions
      /\ sessions' \in [DOMAIN sessions -> SessionType(Targets)]
      /\ \A s \in DOMAIN sessions : sessions'[s].live = FALSE
  BY <1>1, DisposedSessions
<1>3. \A k \in tasks : k.tag # generation'
  BY <1>1, AllOvertaken
<1> DEFINE new == Task(kind, IF Supported[t] = "linux" THEN "environment" ELSE "module",
                       t, generation + bumps, None)
<1>4. /\ new \in TaskType /\ new.tag = generation' /\ new.session = None
      /\ new.kind # "loop" /\ new.stage # "frame" /\ new.target = t
  BY <1>1 DEF Task, TaskType, Creations
<1>5. tasks' = tasks \/ (tasks' = tasks \cup {new} /\ Supported[t] # "none")
  BY DEF Create
<1> HIDE DEF new
<1>6. TypeOK'
  <2>1. snapshot' \in [status : Statuses \cup {"idle"}, target : Targets \cup {None}]
    BY DEF Create, Failed, IInv, TypeOK, Statuses, Terminal
  <2>2. preflight' \in {"idle", "scanning", "compatible", "incompatible"}
    BY DEF Create, IInv, TypeOK
  <2>3. tasks' \subseteq TaskType
    BY <1>4, <1>5 DEF IInv, TypeOK
  <2>4. DOMAIN sessions' \subseteq 1 .. generation'
    BY <1>1, <1>2, Parts
  <2> QED BY <1>1, <1>2, <2>1, <2>2, <2>3, <2>4 DEF TypeOK
<1>7. TasksOK'
  <2>1. \A k \in tasks' : k.tag \in 1 .. generation' /\ (k.kind = "loop" <=> k.stage = "frame")
    BY <1>1, <1>4, <1>5, Parts DEF IInv, TasksOK
  <2>2. \A k \in tasks' : k.kind = "loop" => k.session \in DOMAIN sessions'
    BY <1>2, <1>4, <1>5 DEF IInv, TasksOK
  <2>3. \A k \in tasks' : k.kind # "loop" => Waits(k)'
    BY <1>1, <1>2, <1>4, <1>5, Parts DEF IInv, TasksOK, Waits
  <2>4. \A k, other \in tasks' : k.tag = other.tag => k = other
    BY <1>3, <1>4, <1>5 DEF IInv, TasksOK
  <2> QED BY <2>1, <2>2, <2>3, <2>4 DEF TasksOK
<1>8. OneLiveSession'
  BY <1>1, <1>2, Parts DEF OneLiveSession
<1>9. CurrentTaskOwnsTheSlot'
  BY <1>1, <1>3, <1>4, <1>5 DEF CurrentTaskOwnsTheSlot, Current
<1> QED BY <1>1, <1>6, <1>7, <1>8, <1>9 DEF IInv, SnapshotShowsTheSession, RunningIsDriven

\* Probe disposes and waits like a creation.
LEMMA ProbeKeeps ==
  ASSUME IInv, NEW t \in Targets, Probe(t)
  PROVE  IInv'
<1>1. /\ generation' = generation + 1 /\ generation' \in Nat /\ generation' > generation
      /\ lastTarget' = t /\ sessions' = Disposed /\ current' = None
      /\ preflight' = "scanning" /\ snapshot' = snapshot
  BY Parts DEF Probe
<1>2. /\ DOMAIN sessions' = DOMAIN sessions
      /\ sessions' \in [DOMAIN sessions -> SessionType(Targets)]
      /\ \A s \in DOMAIN sessions : sessions'[s].live = FALSE
  BY <1>1, DisposedSessions
<1>3. \A k \in tasks : k.tag # generation'
  BY <1>1, AllOvertaken
<1> DEFINE new == Task("probe", "audit", t, generation + 1, None)
<1>4. /\ new \in TaskType /\ new.tag = generation' /\ new.session = None
      /\ new.kind = "probe" /\ new.stage # "frame"
  BY <1>1 DEF Task, TaskType, Creations
<1>5. tasks' = tasks \cup {new}
  BY DEF Probe
<1> HIDE DEF new
<1>6. TypeOK'
  <2>1. tasks' \subseteq TaskType
    BY <1>4, <1>5 DEF IInv, TypeOK
  <2>2. DOMAIN sessions' \subseteq 1 .. generation'
    BY <1>1, <1>2, Parts
  <2> QED BY <1>1, <1>2, <2>1, <2>2 DEF TypeOK, IInv
<1>7. TasksOK'
  <2>1. \A k \in tasks' : k.tag \in 1 .. generation' /\ (k.kind = "loop" <=> k.stage = "frame")
    BY <1>1, <1>4, <1>5, Parts DEF IInv, TasksOK
  <2>2. \A k \in tasks' : k.kind = "loop" => k.session \in DOMAIN sessions'
    BY <1>2, <1>4, <1>5 DEF IInv, TasksOK
  <2>3. \A k \in tasks' : k.kind # "loop" => Waits(k)'
    BY <1>1, <1>2, <1>4, <1>5, Parts DEF IInv, TasksOK, Waits
  <2>4. \A k, other \in tasks' : k.tag = other.tag => k = other
    BY <1>3, <1>4, <1>5 DEF IInv, TasksOK
  <2> QED BY <2>1, <2>2, <2>3, <2>4 DEF TasksOK
<1>8. OneLiveSession'
  BY <1>1, <1>2, Parts DEF OneLiveSession
<1>9. CurrentTaskOwnsTheSlot'
  BY <1>1, <1>3, <1>4, <1>5 DEF CurrentTaskOwnsTheSlot, Current
<1> QED BY <1>1, <1>6, <1>7, <1>8, <1>9 DEF IInv, SnapshotShowsTheSession, RunningIsDriven

\* clear overtakes every continuation and closes the session.
LEMMA ClearKeeps == ASSUME IInv, Clear PROVE IInv'
<1>1. /\ generation' = generation + 1 /\ generation' \in Nat /\ generation' > generation
      /\ lastTarget' = None /\ sessions' = Disposed /\ current' = None
      /\ preflight' = "idle" /\ snapshot' = Idle /\ tasks' = tasks
  BY Parts DEF Clear
<1>2. /\ DOMAIN sessions' = DOMAIN sessions
      /\ sessions' \in [DOMAIN sessions -> SessionType(Targets)]
      /\ \A s \in DOMAIN sessions : sessions'[s].live = FALSE
  BY <1>1, DisposedSessions
<1>3. \A k \in tasks : k.tag # generation'
  BY <1>1, AllOvertaken
<1>4. TypeOK'
  <2>1. DOMAIN sessions' \subseteq 1 .. generation'
    BY <1>1, <1>2, Parts
  <2> QED BY <1>1, <1>2, <2>1 DEF TypeOK, IInv, Idle
<1>5. TasksOK'
  BY <1>1, <1>2, Parts DEF IInv, TasksOK, Waits
<1>6. OneLiveSession'
  BY <1>1, <1>2, Parts DEF OneLiveSession
<1>7. CurrentTaskOwnsTheSlot'
  BY <1>1, <1>3 DEF CurrentTaskOwnsTheSlot, Current
<1> QED BY <1>1, <1>4, <1>5, <1>6, <1>7 DEF IInv, SnapshotShowsTheSession, RunningIsDriven

\* A call that overtakes every continuation, moves the current session and
\* leaves it resting keeps the invariant; pause and step are such calls.
LEMMA RestKeeps ==
  ASSUME IInv, current # None, NEW y, Moved(sessions[current], y), y.status # "running",
         generation' = generation + 1, sessions' = [sessions EXCEPT ![current] = y],
         snapshot' = Shown(y), lastTarget' \in Targets \cup {None},
         UNCHANGED <<current, preflight, tasks>>
  PROVE  IInv'
<1>1. generation' \in Nat /\ generation' > generation
  BY Parts
<1>2. /\ DOMAIN sessions' = DOMAIN sessions
      /\ sessions' \in [DOMAIN sessions -> SessionType(Targets)]
      /\ sessions'[current] = y
      /\ \A s \in DOMAIN sessions : sessions'[s].live <=> s = current
  BY CurrentMoves
<1>3. \A k \in tasks : k.tag # generation'
  BY <1>1, AllOvertaken
<1>4. TypeOK'
  <2>1. DOMAIN sessions' \subseteq 1 .. generation'
    BY <1>1, <1>2, Parts
  <2>2. snapshot' \in [status : Statuses \cup {"idle"}, target : Targets \cup {None}]
    BY ShownType DEF Moved
  <2> QED BY <1>1, <1>2, <2>1, <2>2 DEF TypeOK, IInv
<1>5. TasksOK'
  BY <1>1, <1>2, Parts DEF IInv, TasksOK, Waits
<1>6. OneLiveSession'
  BY <1>2 DEF OneLiveSession
<1>7. CurrentTaskOwnsTheSlot'
  BY <1>1, <1>3 DEF CurrentTaskOwnsTheSlot, Current
<1> QED BY <1>2, <1>4, <1>5, <1>6, <1>7 DEF IInv, SnapshotShowsTheSession, RunningIsDriven

\* Pause keeps the invariant.
LEMMA PauseKeeps == ASSUME IInv, Pause PROVE IInv'
<1>1. CASE current = None
  <2>1. /\ generation' = generation + 1 /\ generation' \in Nat /\ generation' > generation
        /\ UNCHANGED <<sessions, snapshot, current, lastTarget, preflight, tasks>>
    BY <1>1, Parts DEF Pause
  <2>2. \A k \in tasks : k.tag # generation'
    BY <2>1, AllOvertaken
  <2>3. TypeOK'
    <3>1. DOMAIN sessions' \subseteq 1 .. generation'
      BY <2>1, Parts
    <3> QED BY <2>1, <3>1 DEF TypeOK, IInv
  <2>4. TasksOK'
    BY <2>1, Parts DEF IInv, TasksOK, Waits
  <2>5. CurrentTaskOwnsTheSlot'
    BY <2>1, <2>2 DEF CurrentTaskOwnsTheSlot, Current
  <2> QED BY <1>1, <2>1, <2>3, <2>4, <2>5
          DEF IInv, OneLiveSession, SnapshotShowsTheSession, RunningIsDriven
<1>2. CASE current # None
  <2>1. sessions[current] \in SessionType(Targets)
    BY <1>2, Parts
  <2>2. /\ Moved(sessions[current], Paused(sessions[current]))
        /\ Paused(sessions[current]).status # "running"
    BY <2>1, PausedMoves
  <2>3. /\ generation' = generation + 1
        /\ sessions' = [sessions EXCEPT ![current] = Paused(sessions[current])]
        /\ snapshot' = Shown(Paused(sessions[current]))
        /\ lastTarget' \in Targets \cup {None}
        /\ UNCHANGED <<current, preflight, tasks>>
    BY <1>2, Parts DEF Pause, IInv, TypeOK
  <2> QED BY <1>2, <2>2, <2>3, RestKeeps
<1> QED BY <1>1, <1>2

\* So does a step of the session that is current.
LEMMA StepKeeps == ASSUME IInv, NEW t \in Targets, StepCurrent(t) PROVE IInv'
<1>1. current # None /\ sessions[current] \in SessionType(Targets)
  BY Parts DEF StepCurrent, Reusable
<1> DEFINE x == Paused(sessions[current])
<1>2. Moved(sessions[current], x) /\ x \in SessionType(Targets) /\ x.status # "running"
  BY <1>1, PausedMoves DEF Moved
<1>3. PICK y \in StepOutcomes(x) :
        sessions' = [sessions EXCEPT ![current] = y] /\ snapshot' = Shown(y)
  BY DEF StepCurrent
<1>4. Moved(sessions[current], y) /\ y.status # "running"
  BY <1>2, <1>3, StepMoves DEF Moved
<1>5. /\ generation' = generation + 1 /\ lastTarget' \in Targets \cup {None}
      /\ UNCHANGED <<current, preflight, tasks>>
  BY DEF StepCurrent
<1> QED BY <1>1, <1>3, <1>4, <1>5, RestKeeps

\* Run on the current session takes its place in the event loop.
LEMMA RunKeeps == ASSUME IInv, NEW t \in Targets, RunCurrent(t) PROVE IInv'
<1>1. /\ current # None /\ current \in DOMAIN sessions
      /\ sessions[current] \in SessionType(Targets)
  BY Parts DEF RunCurrent, Reusable
<1> DEFINE x == MarkedRunning(sessions[current])
           loop(y) == Task("loop", "frame", y.target, generation + 1, current)
<1>2. Moved(sessions[current], x) /\ x \in SessionType(Targets)
  BY <1>1, MarkedMoves DEF Moved
<1>3. PICK y \in SliceOutcomes(x) :
        /\ sessions' = With(current, y) /\ snapshot' = Shown(y)
        /\ tasks' = IF y.status = "running" THEN tasks \cup {loop(y)} ELSE tasks
  BY DEF RunCurrent, DriveRun
<1>4. Moved(sessions[current], y)
  BY <1>2, SliceMoves DEF Moved
<1>5. /\ generation' = generation + 1 /\ generation' \in Nat /\ generation' > generation
      /\ lastTarget' = t /\ current' = current /\ preflight' = preflight
  BY Parts DEF RunCurrent, DriveRun
<1>6. sessions' = [sessions EXCEPT ![current] = y]
  BY <1>1, <1>3, Parts DEF With
<1>7. /\ DOMAIN sessions' = DOMAIN sessions
      /\ sessions' \in [DOMAIN sessions -> SessionType(Targets)]
      /\ sessions'[current] = y
      /\ \A s \in DOMAIN sessions : sessions'[s].live <=> s = current
  BY <1>1, <1>4, <1>6, CurrentMoves
<1>8. \A k \in tasks : k.tag # generation'
  BY <1>5, AllOvertaken
<1>9. /\ loop(y) \in TaskType /\ loop(y).tag = generation' /\ loop(y).session = current
      /\ loop(y).kind = "loop" /\ loop(y).stage = "frame"
  BY <1>1, <1>4, <1>5, Parts DEF Task, TaskType, Moved, SessionType
<1> HIDE DEF loop
<1>10. TypeOK'
  <2>1. DOMAIN sessions' \subseteq 1 .. generation'
    BY <1>5, <1>7, Parts
  <2>2. snapshot' \in [status : Statuses \cup {"idle"}, target : Targets \cup {None}]
    BY <1>3, <1>4, ShownType DEF Moved
  <2>3. tasks' \subseteq TaskType
    BY <1>3, <1>9 DEF IInv, TypeOK
  <2> QED BY <1>5, <1>7, <2>1, <2>2, <2>3 DEF TypeOK, IInv
<1>11. TasksOK'
  <2>1. \A k \in tasks' : k.tag \in 1 .. generation' /\ (k.kind = "loop" <=> k.stage = "frame")
    BY <1>3, <1>5, <1>9, Parts DEF IInv, TasksOK
  <2>2. \A k \in tasks' : k.kind = "loop" => k.session \in DOMAIN sessions'
    BY <1>1, <1>3, <1>7, <1>9 DEF IInv, TasksOK
  <2>3. \A k \in tasks' : k.kind # "loop" => Waits(k)'
    BY <1>3, <1>7, <1>9 DEF IInv, TasksOK, Waits
  <2>4. \A k, other \in tasks' : k.tag = other.tag => k = other
    BY <1>3, <1>8, <1>9 DEF IInv, TasksOK
  <2> QED BY <2>1, <2>2, <2>3, <2>4 DEF TasksOK
<1>12. OneLiveSession'
  BY <1>5, <1>7 DEF OneLiveSession
<1>13. CurrentTaskOwnsTheSlot'
  BY <1>3, <1>5, <1>8, <1>9 DEF CurrentTaskOwnsTheSlot, Current
<1>14. RunningIsDriven'
  BY <1>3, <1>5, <1>7, <1>9 DEF RunningIsDriven, Current
<1> QED BY <1>3, <1>5, <1>7, <1>10, <1>11, <1>12, <1>13, <1>14 DEF IInv, SnapshotShowsTheSession

-----------------------------------------------------------------------------
(***************************************************************************)
(* The continuations                                                       *)
(***************************************************************************)

\* What the invariant says of one continuation.
LEMMA TaskParts ==
  ASSUME IInv, NEW k \in tasks
  PROVE  /\ k \in TaskType /\ k.tag \in 1 .. generation /\ k.target \in Targets
         /\ k.kind # "loop" => Waits(k)
         /\ k.kind = "loop" => k.session \in DOMAIN sessions
         /\ \A other \in tasks : k.tag = other.tag => k = other
         /\ Current(k) => k.session = current /\ \A other \in tasks \ {k} : ~Current(other)
  BY DEF IInv, TypeOK, TasksOK, TaskType, CurrentTaskOwnsTheSlot

\* The provider of a creation is one of the three.
LEMMA ProviderType ==
  ASSUME IInv, NEW k \in tasks, k.kind # "loop"
  PROVE  ProviderOf(k) \in Providers
  BY TaskParts, TargetAssumption DEF ProviderOf, Providers, Waits

\* A continuation that ends and changes nothing else but the sessions that
\* are not current.
LEMMA EndedKeeps ==
  ASSUME IInv, NEW k \in tasks, tasks' = tasks \ {k},
         ~Current(k),
         DOMAIN sessions' \subseteq DOMAIN sessions \cup {k.tag},
         DOMAIN sessions \subseteq DOMAIN sessions',
         sessions' \in [DOMAIN sessions' -> SessionType(Targets)],
         \A s \in DOMAIN sessions : sessions'[s] = sessions[s],
         \A s \in DOMAIN sessions' \ DOMAIN sessions : sessions'[s].live = FALSE,
         UNCHANGED <<generation, current, lastTarget, snapshot, preflight>>
  PROVE  IInv'
<1>1. k.tag \in 1 .. generation /\ \A other \in tasks : k.tag = other.tag => k = other
  BY TaskParts
<1>2. TypeOK'
  <2>1. DOMAIN sessions' \subseteq 1 .. generation'
    BY <1>1, Parts
  <2>2. tasks' \subseteq TaskType /\ current' \in DOMAIN sessions' \cup {None}
    BY Parts DEF IInv, TypeOK
  <2> QED BY <2>1, <2>2 DEF TypeOK, IInv
<1>3. TasksOK'
  <2>1. \A o \in tasks' : o.tag \in 1 .. generation' /\ (o.kind = "loop" <=> o.stage = "frame")
    BY DEF IInv, TasksOK
  <2>2. \A o \in tasks' : o.kind = "loop" => o.session \in DOMAIN sessions'
    BY DEF IInv, TasksOK
  <2>3. \A o \in tasks' : o.kind # "loop" => Waits(o)'
    BY <1>1 DEF IInv, TasksOK, Waits
  <2>4. \A o, other \in tasks' : o.tag = other.tag => o = other
    BY DEF IInv, TasksOK
  <2> QED BY <2>1, <2>2, <2>3, <2>4 DEF TasksOK
<1>4. OneLiveSession'
  <2>1. \A s \in DOMAIN sessions' \ DOMAIN sessions : s # current /\ ~sessions'[s].live
    BY <1>1, Parts, TargetAssumption
  <2>2. \A s \in DOMAIN sessions : sessions'[s].live <=> s = current
    BY Parts
  <2> QED BY <2>1, <2>2 DEF OneLiveSession
<1>5. CurrentTaskOwnsTheSlot'
  BY DEF IInv, CurrentTaskOwnsTheSlot, Current
<1>6. SnapshotShowsTheSession'
  BY Parts DEF IInv, SnapshotShowsTheSession
<1>7. RunningIsDriven'
  BY Parts DEF IInv, RunningIsDriven, Current
<1> QED BY <1>2, <1>3, <1>4, <1>5, <1>6, <1>7 DEF IInv

\* A stale creation never touches the current session.
LEMMA StaleKeeps == ASSUME IInv, NEW k \in tasks, Stale(k) PROVE IInv'
<1>1. /\ k.kind \in Creations /\ ~Current(k) /\ tasks' = tasks \ {k}
      /\ UNCHANGED <<generation, current, lastTarget, snapshot, preflight>>
  BY DEF Stale
<1>2. k.kind # "loop" /\ k.tag \notin DOMAIN sessions /\ k.tag \in 1 .. generation /\ k.target \in Targets
  BY <1>1, TaskParts DEF Creations, Waits
<1>3. CASE UNCHANGED sessions
  BY <1>1, <1>3, EndedKeeps, Parts
<1>4. CASE sessions' = With(k.tag, [NewSession(k.target, ProviderOf(k)) EXCEPT !.live = FALSE])
  <2> DEFINE new == [NewSession(k.target, ProviderOf(k)) EXCEPT !.live = FALSE]
  <2>1. NewSession(k.target, ProviderOf(k)) \in SessionType(Targets)
    BY <1>2, ProviderType, NewSessionType
  <2>2. new \in SessionType(Targets) /\ new.live = FALSE
    BY <2>1 DEF SessionType
  <2> sessions' = With(k.tag, new)
    BY <1>4
  <2> HIDE DEF new
  <2>3. /\ DOMAIN sessions' = DOMAIN sessions \cup {k.tag}
        /\ sessions' \in [DOMAIN sessions' -> SessionType(Targets)]
        /\ sessions'[k.tag] = new
        /\ \A s \in DOMAIN sessions : sessions'[s] = sessions[s]
    BY <1>2, <2>2, OneMoreSession
  <2> QED BY <1>1, <2>2, <2>3, EndedKeeps
<1> QED BY <1>3, <1>4 DEF Stale

\* A current creation holds the empty slot, and no other is current.
LEMMA CreationParts ==
  ASSUME IInv, NEW k \in tasks, k.kind # "loop", Current(k)
  PROVE  /\ current = None /\ k.tag \notin DOMAIN sessions /\ k.target \in Targets
         /\ \A s \in DOMAIN sessions : ~sessions[s].live
         /\ \A other \in tasks \ {k} : other.tag # k.tag /\ ~Current(other)
<1>1. /\ Waits(k) /\ k.session = current /\ k.target \in Targets
      /\ \A other \in tasks \ {k} : other.tag # k.tag /\ ~Current(other)
  BY TaskParts
<1>2. current = None /\ k.tag \notin DOMAIN sessions
  BY <1>1 DEF Waits
<1> QED BY <1>1, <1>2, Parts

\* A failed creation leaves the slot empty and the failure on the interface.
LEMMA FailsKeeps == ASSUME IInv, NEW k \in tasks, CreationFails(k) PROVE IInv'
<1>1. /\ k.kind # "loop" /\ Current(k) /\ tasks' = tasks \ {k} /\ current' = None
      /\ snapshot' = Failed(k.target)
      /\ UNCHANGED <<generation, sessions, lastTarget, preflight>>
  BY DEF CreationFails, Creations
<1>2. /\ current = None /\ k.target \in Targets
      /\ \A other \in tasks' : ~Current(other)
  BY <1>1, CreationParts
<1>3. TypeOK'
  BY <1>1, <1>2 DEF IInv, TypeOK, Failed, Statuses, Terminal
<1>4. TasksOK'
  BY <1>1 DEF IInv, TasksOK, Waits
<1>5. OneLiveSession'
  BY <1>1, <1>2 DEF IInv, OneLiveSession
<1>6. CurrentTaskOwnsTheSlot'
  BY <1>1, <1>2 DEF CurrentTaskOwnsTheSlot, Current
<1> QED BY <1>1, <1>3, <1>4, <1>5, <1>6 DEF IInv, SnapshotShowsTheSession, RunningIsDriven

\* A creation that goes on to its next wait is the same continuation.
LEMMA WaitsOnKeeps ==
  ASSUME IInv, NEW k \in tasks, k.kind # "loop", Current(k),
         NEW stage \in {"environment", "module"},
         tasks' = (tasks \ {k}) \cup {[k EXCEPT !.stage = stage]},
         preflight' \in {"idle", "scanning", "compatible", "incompatible"},
         UNCHANGED <<generation, sessions, current, lastTarget, snapshot>>
  PROVE  IInv'
<1> DEFINE new == [k EXCEPT !.stage = stage]
<1>1. /\ new \in TaskType /\ new.tag = k.tag /\ new.kind = k.kind /\ new.target = k.target
      /\ new.session = k.session /\ new.stage # "frame"
  BY TaskParts DEF TaskType
<1>2. tasks' = (tasks \ {k}) \cup {new}
  OBVIOUS
<1> HIDE DEF new
<1>3. TypeOK'
  BY <1>1, <1>2 DEF IInv, TypeOK
<1>4. /\ current = None /\ k.session = None
      /\ \A other \in tasks \ {k} : other.tag # k.tag /\ ~Current(other)
  BY CreationParts, TaskParts
<1>5. TasksOK'
  <2>1. \A o \in tasks' : o.tag \in 1 .. generation' /\ (o.kind = "loop" <=> o.stage = "frame")
    BY <1>1, <1>2 DEF IInv, TasksOK
  <2>2. \A o \in tasks' : o.kind = "loop" => o.session \in DOMAIN sessions'
    BY <1>1, <1>2 DEF IInv, TasksOK
  <2>3. \A o \in tasks' : o.kind # "loop" => Waits(o)'
    BY <1>1, <1>2 DEF IInv, TasksOK, Waits
  <2>4. \A o, other \in tasks' : o.tag = other.tag => o = other
    BY <1>1, <1>2, <1>4 DEF IInv, TasksOK
  <2> QED BY <2>1, <2>2, <2>3, <2>4 DEF TasksOK
<1>6. OneLiveSession'
  BY DEF IInv, OneLiveSession
<1>7. CurrentTaskOwnsTheSlot'
  BY <1>1, <1>2, <1>4 DEF CurrentTaskOwnsTheSlot, Current
<1> QED BY <1>3, <1>4, <1>5, <1>6, <1>7 DEF IInv, SnapshotShowsTheSession, RunningIsDriven

\* A session y installed by the creation that asked for it, with the loop that
\* drives it when it runs.
LEMMA InstalledKeeps ==
  ASSUME IInv, NEW k \in tasks, k.kind # "loop", Current(k),
         NEW y \in SessionType(Targets), y.live = TRUE,
         sessions' = With(k.tag, y), snapshot' = Shown(y), current' = k.tag,
         generation' \in {generation, generation + 1},
         NEW more, tasks' = (tasks \ {k}) \cup more,
         more # {} => generation' = generation + 1 /\
                      more = {Task("loop", "frame", y.target, generation + 1, k.tag)},
         y.status = "running" => more # {},
         UNCHANGED <<lastTarget, preflight>>
  PROVE  IInv'
<1>1. /\ current = None /\ k.tag \notin DOMAIN sessions /\ k.tag \in 1 .. generation
      /\ \A s \in DOMAIN sessions : ~sessions[s].live
      /\ \A other \in tasks \ {k} : other.tag # k.tag /\ ~Current(other)
      /\ generation \in Nat /\ generation' \in Nat /\ generation' >= generation
  BY CreationParts, TaskParts, Parts
<1>2. /\ DOMAIN sessions' = DOMAIN sessions \cup {k.tag}
      /\ DOMAIN sessions' \subseteq 1 .. generation
      /\ sessions' \in [DOMAIN sessions' -> SessionType(Targets)]
      /\ sessions'[k.tag] = y
      /\ \A s \in DOMAIN sessions : sessions'[s] = sessions[s]
  <2>1. k.tag \in 1 .. generation /\ k.tag \notin DOMAIN sessions
    BY <1>1
  <2>2. sessions' = With(k.tag, y)
    OBVIOUS
  <2> QED BY <2>1, <2>2, Parts DEF With
<1>3. \A other \in tasks \ {k} : other.tag # generation'
  BY <1>1, AllOvertaken, Parts DEF Current
<1>4. \A o \in more : /\ more = {o} /\ o \in TaskType /\ o.tag = generation' /\ o.session = k.tag
                       /\ o.kind = "loop" /\ o.stage = "frame"
  BY <1>1 DEF Task, TaskType, SessionType
<1>5. TypeOK'
  <2>1. snapshot' \in [status : Statuses \cup {"idle"}, target : Targets \cup {None}]
    BY ShownType
  <2>2. tasks' \subseteq TaskType
    BY <1>4 DEF IInv, TypeOK
  <2>3. DOMAIN sessions' \subseteq 1 .. generation'
    BY <1>1, <1>2
  <2> QED BY <1>1, <1>2, <2>1, <2>2, <2>3 DEF TypeOK, IInv
<1>6. TasksOK'
  <2>1. \A o \in tasks' : o.tag \in 1 .. generation' /\ (o.kind = "loop" <=> o.stage = "frame")
    <3>1. generation' \in 1 .. generation'
      BY <1>1
    <3> QED BY <1>1, <1>4, <3>1, Parts DEF IInv, TasksOK
  <2>2. \A o \in tasks' : o.kind = "loop" => o.session \in DOMAIN sessions'
    BY <1>2, <1>4 DEF IInv, TasksOK
  <2>3. \A o \in tasks' : o.kind # "loop" => Waits(o)'
    BY <1>1, <1>2, <1>4 DEF IInv, TasksOK, Waits
  <2>4. \A o, other \in tasks' : o.tag = other.tag => o = other
    BY <1>3, <1>4 DEF IInv, TasksOK
  <2> QED BY <2>1, <2>2, <2>3, <2>4 DEF TasksOK
<1>7. OneLiveSession'
  BY <1>1, <1>2 DEF OneLiveSession
<1>8. CurrentTaskOwnsTheSlot'
  BY <1>3, <1>4 DEF CurrentTaskOwnsTheSlot, Current
<1>9. SnapshotShowsTheSession'
  BY <1>2 DEF SnapshotShowsTheSession
<1>10. RunningIsDriven'
  BY <1>2, <1>4 DEF RunningIsDriven, Current
<1> QED BY <1>5, <1>6, <1>7, <1>8, <1>9, <1>10 DEF IInv

\* The call that asked for the session carries on with it.
LEMMA ReadyKeeps == ASSUME IInv, NEW k \in tasks, SessionReady(k) PROVE IInv'
<1> DEFINE new == NewSession(k.target, ProviderOf(k))
<1>1. /\ Current(k) /\ k.stage = "module" /\ k.kind # "loop"
      /\ current' = k.tag /\ UNCHANGED <<lastTarget, preflight>>
  BY DEF SessionReady, IInv, TasksOK
<1>2. /\ new \in SessionType(Targets) /\ new.status = "ready" /\ new.live = TRUE
  BY <1>1, CreationParts, ProviderType, NewSessionType
<1>3. CASE k.kind = "reset"
  <2>1. /\ sessions' = With(k.tag, new) /\ snapshot' = Shown(new)
        /\ tasks' = (tasks \ {k}) \cup {} /\ generation' \in {generation, generation + 1}
    BY <1>3 DEF SessionReady
  <2> HIDE DEF new
  <2> QED BY <1>1, <1>2, <2>1, InstalledKeeps
<1>4. CASE k.kind = "step"
  <2>1. PICK y \in StepOutcomes(new) : sessions' = With(k.tag, y) /\ snapshot' = Shown(y)
    BY <1>4 DEF SessionReady
  <2>2. tasks' = (tasks \ {k}) \cup {} /\ generation' \in {generation, generation + 1}
    BY <1>4 DEF SessionReady
  <2> HIDE DEF new
  <2>3. y \in SessionType(Targets) /\ y.live = TRUE /\ y.status # "running"
    BY <1>2, StepMoves DEF Moved
  <2> QED BY <1>1, <2>1, <2>2, <2>3, InstalledKeeps
<1>5. CASE k.kind \in {"run", "probe"}
  <2>1. DriveRun(k.tag, new, tasks \ {k})
    BY <1>5 DEF SessionReady
  <2> HIDE DEF new
  <2> DEFINE loop(y) == Task("loop", "frame", y.target, generation + 1, k.tag)
             more(y) == IF y.status = "running" THEN {loop(y)} ELSE {}
  <2>2. PICK y \in SliceOutcomes(MarkedRunning(new)) :
          /\ sessions' = With(k.tag, y) /\ snapshot' = Shown(y)
          /\ tasks' = (tasks \ {k}) \cup more(y)
    BY <2>1 DEF DriveRun
  <2>3. generation' = generation + 1
    BY <2>1 DEF DriveRun
  <2>4. y \in SessionType(Targets) /\ y.live = TRUE
    <3>1. Moved(new, MarkedRunning(new)) /\ MarkedRunning(new) \in SessionType(Targets)
      BY <1>2, MarkedMoves DEF Moved
    <3>2. Moved(MarkedRunning(new), y)
      BY <3>1, SliceMoves
    <3> QED BY <1>2, <3>1, <3>2 DEF Moved
  <2>5. /\ more(y) # {} => more(y) = {loop(y)}
        /\ y.status = "running" => more(y) # {}
    OBVIOUS
  <2> QED BY <1>1, <2>2, <2>3, <2>4, <2>5, InstalledKeeps
<1> QED BY <1>3, <1>4, <1>5 DEF SessionReady

\* A frame ends a loop that is stale, or whose session rests, or moves the
\* session sessionRef holds.
LEMMA FrameKeeps == ASSUME IInv, NEW k \in tasks, Frame(k) PROVE IInv'
<1>1. /\ k.kind = "loop" /\ UNCHANGED <<generation, current, lastTarget, preflight>>
      /\ k.session \in DOMAIN sessions
  BY TaskParts DEF Frame
<1>2. CASE (~Current(k) \/ sessions[k.session].status # "running") /\ tasks' = tasks \ {k}
           /\ UNCHANGED <<sessions, snapshot>>
  <2>1. TypeOK'
    BY <1>1, <1>2 DEF IInv, TypeOK
  <2>2. TasksOK'
    BY <1>1, <1>2 DEF IInv, TasksOK, Waits
  <2>3. OneLiveSession' /\ SnapshotShowsTheSession'
    BY <1>1, <1>2 DEF IInv, OneLiveSession, SnapshotShowsTheSession
  <2>4. CurrentTaskOwnsTheSlot'
    BY <1>1, <1>2 DEF IInv, CurrentTaskOwnsTheSlot, Current
  <2>5. RunningIsDriven'
    BY <1>1, <1>2, TaskParts DEF IInv, RunningIsDriven, Current
  <2> QED BY <2>1, <2>2, <2>3, <2>4, <2>5 DEF IInv
<1>3. CASE Current(k) /\ sessions[k.session].status = "running"
           /\ \E y \in SliceOutcomes(sessions[k.session]) :
                /\ sessions' = [sessions EXCEPT ![k.session] = y]
                /\ snapshot' = Shown(y)
                /\ tasks' = IF y.status = "running" THEN tasks ELSE tasks \ {k}
  <2>1. /\ k.session = current /\ current \in DOMAIN sessions /\ current # None
        /\ sessions[current] \in SessionType(Targets)
    BY <1>1, <1>3, TaskParts, Parts
  <2>2. PICK y \in SliceOutcomes(sessions[current]) :
          /\ sessions' = [sessions EXCEPT ![current] = y]
          /\ snapshot' = Shown(y)
          /\ tasks' = IF y.status = "running" THEN tasks ELSE tasks \ {k}
    BY <1>3, <2>1
  <2>3. Moved(sessions[current], y)
    BY <2>1, <2>2, SliceMoves
  <2>4. /\ DOMAIN sessions' = DOMAIN sessions
        /\ sessions' \in [DOMAIN sessions -> SessionType(Targets)]
        /\ sessions'[current] = y
        /\ \A s \in DOMAIN sessions : sessions'[s].live <=> s = current
    BY <2>1, <2>2, <2>3, CurrentMoves, ZenonT(40)
  <2>5. tasks' \subseteq tasks /\ (y.status = "running" => k \in tasks')
    BY <2>2
  <2>6. TypeOK'
    <3>1. snapshot' \in [status : Statuses \cup {"idle"}, target : Targets \cup {None}]
      BY <2>2, <2>3, ShownType DEF Moved
    <3> QED BY <1>1, <2>4, <2>5, <3>1 DEF IInv, TypeOK
  <2>7. TasksOK'
    BY <1>1, <2>4, <2>5 DEF IInv, TasksOK, Waits
  <2>8. OneLiveSession' /\ SnapshotShowsTheSession'
    BY <1>1, <2>2, <2>4 DEF OneLiveSession, SnapshotShowsTheSession
  <2>9. CurrentTaskOwnsTheSlot'
    BY <1>1, <2>5 DEF IInv, CurrentTaskOwnsTheSlot, Current
  <2>10. RunningIsDriven'
    BY <1>1, <1>3, <2>1, <2>4, <2>5 DEF RunningIsDriven, Current
  <2> QED BY <2>6, <2>7, <2>8, <2>9, <2>10 DEF IInv
<1> QED BY <1>2, <1>3 DEF Frame

-----------------------------------------------------------------------------
(***************************************************************************)
(* The theorems                                                            *)
(***************************************************************************)

LEMMA InitEstablishes == Init => IInv
  BY DEF Init, IInv, TypeOK, TasksOK, OneLiveSession, CurrentTaskOwnsTheSlot,
         SnapshotShowsTheSession, RunningIsDriven, Idle

\* Every step keeps the invariant.
LEMMA NextPreserves == IInv /\ [Next]_vars => IInv'
<1> SUFFICES ASSUME IInv, [Next]_vars PROVE IInv'
  OBVIOUS
<1>1. CASE Call
  <2>1. ASSUME NEW t \in Targets, Reset(t) PROVE IInv'
    BY <2>1, CreateKeeps DEF Reset, Creations
  <2>2. ASSUME NEW t \in Targets, Step(t) PROVE IInv'
    BY <2>2, StepKeeps, CreateKeeps DEF Step, Creations
  <2>3. ASSUME NEW t \in Targets, Run(t) PROVE IInv'
    BY <2>3, RunKeeps, CreateKeeps DEF Run, Creations
  <2>4. ASSUME NEW t \in Targets, Probe(t) PROVE IInv'
    BY <2>4, ProbeKeeps
  <2>5. CASE ProbeLast
    <3>1. lastTarget \in Targets
      BY <2>5 DEF ProbeLast, IInv, TypeOK
    <3> QED BY <2>5, <3>1, ProbeKeeps DEF ProbeLast
  <2> QED BY <1>1, <2>1, <2>2, <2>3, <2>4, <2>5, PauseKeeps, ClearKeeps DEF Call
<1>2. ASSUME NEW k \in tasks, Continuation(k) PROVE IInv'
  <2>1. CASE AuditDone(k)
    <3>1. k.kind # "loop"
      BY <2>1 DEF AuditDone, IInv, TasksOK
    <3> QED BY <2>1, <3>1, WaitsOnKeeps DEF AuditDone
  <2>2. CASE EnvironmentReady(k)
    <3>1. k.kind # "loop" /\ preflight \in {"idle", "scanning", "compatible", "incompatible"}
      BY <2>2 DEF EnvironmentReady, IInv, TasksOK, TypeOK
    <3> QED BY <2>2, <3>1, WaitsOnKeeps DEF EnvironmentReady
  <2> QED BY <1>2, <2>1, <2>2, StaleKeeps, FailsKeeps, ReadyKeeps, FrameKeeps DEF Continuation
<1>3. CASE UNCHANGED vars
  BY <1>3 DEF vars, IInv, TypeOK, TasksOK, Waits, OneLiveSession, CurrentTaskOwnsTheSlot,
              SnapshotShowsTheSession, RunningIsDriven, Current
<1> QED BY <1>1, <1>2, <1>3 DEF Next

\* Everything the proofs need holds however the calls overlap.
THEOREM ControllerInvariance == Spec => []IInv
<1>1. Init => IInv
  BY InitEstablishes
<1>2. IInv /\ [Next]_vars => IInv'
  BY NextPreserves
<1> QED BY <1>1, <1>2, PTL DEF Spec

\* The hook's state keeps its types however the calls overlap: a slot names a
\* session that was created, a tag is one that was given.
THEOREM ControllerTypeCorrect == Spec => []TypeOK
<1>1. IInv => TypeOK
  BY DEF IInv
<1> QED BY <1>1, ControllerInvariance, PTL

\* However creations overtake each other, the session sessionRef holds is the
\* only one whose engine is open.
THEOREM ControllerLeaksNothing == Spec => []OneLiveSession
<1>1. IInv => OneLiveSession
  BY DEF IInv
<1> QED BY <1>1, ControllerInvariance, PTL

\* At most one continuation may still act, and it owns what sessionRef holds.
THEOREM ControllerSlotOwned == Spec => []CurrentTaskOwnsTheSlot
<1>1. IInv => CurrentTaskOwnsTheSlot
  BY DEF IInv
<1> QED BY <1>1, ControllerInvariance, PTL

\* The interface shows the status and target of the session it has.
THEOREM ControllerShowsItsSession == Spec => []SnapshotShowsTheSession
<1>1. IInv => SnapshotShowsTheSession
  BY DEF IInv
<1> QED BY <1>1, ControllerInvariance, PTL

\* A session left running has a current loop that runs it.
THEOREM ControllerDrivesWhatRuns == Spec => []RunningIsDriven
<1>1. IInv => RunningIsDriven
  BY DEF IInv
<1> QED BY <1>1, ControllerInvariance, PTL

-----------------------------------------------------------------------------
(***************************************************************************)
(* What a step does to the sessions, and the refinement of OneGuest        *)
(***************************************************************************)

\* Every session but the current one stays as it is.
OthersKept ==
  \A s \in DOMAIN sessions :
    s \in DOMAIN sessions' /\ (s # current => sessions'[s] = sessions[s])

\* The current session keeps its target, and stays as it is if it has ended.
CurrentCarried ==
  /\ current' = current /\ sessions'[current].target = sessions[current].target
  /\ sessions[current].status \in Terminal => sessions'[current] = sessions[current]

\* The slot is emptied, filled, or keeps its session.
SlotStep == OthersKept /\ (current' = None \/ current = None \/ CurrentCarried)

\* Emptying the slot touches the current session only.
LEMMA DisposedSlot == ASSUME IInv, sessions' = Disposed, current' = None PROVE SlotStep
<1>1. DOMAIN Disposed = DOMAIN sessions
  BY DisposedSessions
<1>2. \A s \in DOMAIN sessions : s # current => Disposed[s] = sessions[s]
  BY Parts DEF Disposed
<1> QED BY <1>1, <1>2 DEF SlotStep, OthersKept

\* So does moving it.
LEMMA MovedSlot ==
  ASSUME IInv, current # None, current' = current,
         NEW y, Moved(sessions[current], y), sessions' = [sessions EXCEPT ![current] = y],
         sessions[current].status \in Terminal => y = sessions[current]
  PROVE  SlotStep
<1>1. /\ DOMAIN sessions' = DOMAIN sessions /\ sessions'[current] = y
      /\ \A s \in DOMAIN sessions : s # current => sessions'[s] = sessions[s]
  BY CurrentMoves
<1> QED BY <1>1 DEF SlotStep, OthersKept, CurrentCarried, Moved

\* Constructing a session touches none that exists.
LEMMA AddedSlot ==
  ASSUME IInv, NEW g, g \notin DOMAIN sessions, NEW x, sessions' = With(g, x),
         current = None \/ current' = current
  PROVE  SlotStep
<1>1. \A s \in DOMAIN sessions : s \in DOMAIN sessions' /\ sessions'[s] = sessions[s]
  BY DEF With
<1> QED BY <1>1, Parts DEF SlotStep, OthersKept, CurrentCarried

\* A step that leaves sessions and slot alone moves no other session.
LEMMA KeptSlot == ASSUME IInv, UNCHANGED <<sessions, current>> PROVE SlotStep
  BY DEF SlotStep, OthersKept, CurrentCarried

\* Pause moves the session in the slot only.
LEMMA PauseSlot == ASSUME IInv, Pause PROVE SlotStep
<1>1. CASE current = None
  BY <1>1, KeptSlot DEF Pause
<1>2. CASE current # None
  <2>1. sessions[current] \in SessionType(Targets)
    BY <1>2, Parts
  <2>2. Moved(sessions[current], Paused(sessions[current]))
    BY <2>1, PausedMoves
  <2>3. sessions[current].status \in Terminal => Paused(sessions[current]) = sessions[current]
    BY DEF Paused, Terminal
  <2>4. sessions' = [sessions EXCEPT ![current] = Paused(sessions[current])] /\ current' = current
    BY <1>2, Parts DEF Pause
  <2> QED BY <1>2, <2>2, <2>3, <2>4, MovedSlot
<1> QED BY <1>1, <1>2

\* So does a step.
LEMMA StepSlot == ASSUME IInv, NEW t \in Targets, StepCurrent(t) PROVE SlotStep
<1>1. /\ current # None /\ sessions[current] \in SessionType(Targets) /\ current' = current
  BY Parts DEF StepCurrent, Reusable
<1> DEFINE x == Paused(sessions[current])
<1>2. Moved(sessions[current], x) /\ x \in SessionType(Targets) /\ x.status # "running"
  BY <1>1, PausedMoves DEF Moved
<1>3. PICK y \in StepOutcomes(x) : sessions' = [sessions EXCEPT ![current] = y]
  BY DEF StepCurrent
<1>4. Moved(sessions[current], y)
  BY <1>2, <1>3, StepMoves DEF Moved
<1>5. sessions[current].status \in Terminal => y = sessions[current]
  BY <1>3 DEF Paused, StepOutcomes, Terminal
<1> QED BY <1>1, <1>3, <1>4, <1>5, MovedSlot

\* So does a run.
LEMMA RunSlot == ASSUME IInv, NEW t \in Targets, RunCurrent(t) PROVE SlotStep
<1>1. /\ current # None /\ current \in DOMAIN sessions /\ current' = current
      /\ sessions[current] \in SessionType(Targets) /\ sessions[current].status \notin Terminal
  BY Parts DEF RunCurrent, Reusable
<1>2. PICK y \in SliceOutcomes(MarkedRunning(sessions[current])) : sessions' = With(current, y)
  BY DEF RunCurrent, DriveRun
<1>3. Moved(sessions[current], y)
  <2>1. /\ Moved(sessions[current], MarkedRunning(sessions[current]))
        /\ MarkedRunning(sessions[current]) \in SessionType(Targets)
    BY <1>1, MarkedMoves DEF Moved
  <2>2. Moved(MarkedRunning(sessions[current]), y)
    BY <1>2, <2>1, SliceMoves
  <2> QED BY <2>1, <2>2 DEF Moved
<1>4. sessions' = [sessions EXCEPT ![current] = y]
  BY <1>1, <1>2, Parts DEF With
<1> QED BY <1>1, <1>3, <1>4, MovedSlot

\* A creation that is out of date adds a session and moves none.
LEMMA StaleSlot == ASSUME IInv, NEW k \in tasks, Stale(k) PROVE SlotStep
<1>1. k.kind # "loop" /\ current' = current
  BY DEF Stale, Creations
<1>2. k.tag \notin DOMAIN sessions
  BY <1>1, TaskParts DEF Waits
<1> QED BY <1>1, <1>2, KeptSlot, AddedSlot DEF Stale

\* A creation that is current adds its session to an empty slot.
LEMMA ReadySlot == ASSUME IInv, NEW k \in tasks, SessionReady(k) PROVE SlotStep
<1>1. k.kind # "loop" /\ Current(k)
  BY DEF SessionReady, IInv, TasksOK
<1>2. current = None /\ k.tag \notin DOMAIN sessions
  BY <1>1, CreationParts
<1>3. PICK x : sessions' = With(k.tag, x)
  BY DEF SessionReady, DriveRun
<1> QED BY <1>2, <1>3, AddedSlot

\* A frame moves the session in the slot only.
LEMMA FrameSlot == ASSUME IInv, NEW k \in tasks, Frame(k) PROVE SlotStep
<1>1. CASE UNCHANGED sessions
  BY <1>1, KeptSlot DEF Frame
<1>2. CASE Current(k) /\ sessions[k.session].status = "running"
           /\ \E y \in SliceOutcomes(sessions[k.session]) :
                sessions' = [sessions EXCEPT ![k.session] = y]
  <2>1. /\ k.session = current /\ current # None
        /\ sessions[current] \in SessionType(Targets) /\ current' = current
    BY <1>2, TaskParts, Parts DEF Frame
  <2>2. PICK y \in SliceOutcomes(sessions[current]) : sessions' = [sessions EXCEPT ![current] = y]
    BY <1>2, <2>1
  <2>3. Moved(sessions[current], y)
    BY <2>1, <2>2, SliceMoves
  <2>4. sessions[current].status \notin Terminal
    BY <1>2, <2>1 DEF Terminal
  <2> QED BY <2>1, <2>2, <2>3, <2>4, MovedSlot
<1> QED BY <1>1, <1>2 DEF Frame

\* Every step empties, fills or keeps the slot.
LEMMA NextSlot == ASSUME IInv, [Next]_vars PROVE SlotStep
<1>1. ASSUME NEW kind, NEW t, NEW bumps, Create(kind, t, bumps) PROVE SlotStep
  BY <1>1, DisposedSlot DEF Create
<1>2. ASSUME NEW t, Probe(t) PROVE SlotStep
  BY <1>2, DisposedSlot DEF Probe
<1>3. CASE Call
  <2>1. CASE Clear
    BY <2>1, DisposedSlot DEF Clear
  <2> QED BY <1>1, <1>2, <1>3, <2>1, StepSlot, RunSlot, PauseSlot
          DEF Call, Reset, Step, Run, ProbeLast
<1>4. ASSUME NEW k \in tasks, Continuation(k) PROVE SlotStep
  <2>1. CASE CreationFails(k)
    BY <2>1 DEF CreationFails, SlotStep, OthersKept
  <2>2. CASE AuditDone(k) \/ EnvironmentReady(k)
    BY <2>2, KeptSlot DEF AuditDone, EnvironmentReady
  <2> QED BY <1>4, <2>1, <2>2, StaleSlot, ReadySlot, FrameSlot DEF Continuation
<1>5. CASE UNCHANGED vars
  BY <1>5, KeptSlot DEF vars
<1> QED BY <1>3, <1>4, <1>5 DEF Next

\* A disposed session is never paused, stepped or run again.
THEOREM ControllerDisposedIsFinal == Spec => DisposedIsFinal
<1>1. IInv /\ [Next]_vars => [\A s \in DOMAIN sessions : ~sessions[s].live => sessions'[s] = sessions[s]]_vars
  <2> SUFFICES ASSUME IInv, [Next]_vars
               PROVE  \A s \in DOMAIN sessions : ~sessions[s].live => sessions'[s] = sessions[s]
    OBVIOUS
  <2> QED BY NextSlot, Parts DEF SlotStep, OthersKept
<1> QED BY <1>1, ControllerInvariance, PTL DEF Spec, DisposedIsFinal

-----------------------------------------------------------------------------
GuestOf(s) == [id |-> s, target |-> sessions[s].target, status |-> sessions[s].status]

\* The guests alive are the one sessionRef holds, if any.
LEMMA GuestsAre ==
  ASSUME IInv
  PROVE  Guests = IF current = None THEN {} ELSE {GuestOf(current)}
<1>1. {s \in DOMAIN sessions : sessions[s].live} = IF current = None THEN {} ELSE {current}
  BY Parts
<1> QED BY <1>1 DEF Guests, GuestOf

\* The guests of OneGuest are the session in the slot, or none.
LEMMA GuestsAreNext ==
  ASSUME IInv'
  PROVE  Guests' = IF current' = None THEN {} ELSE {GuestOf(current)'}
<1>1. /\ current' \in DOMAIN sessions' \cup {None}
      /\ \A s \in DOMAIN sessions' : s # None /\ (sessions'[s].live <=> s = current')
  BY TargetAssumption DEF IInv, TypeOK, OneLiveSession
<1>2. {s \in DOMAIN sessions' : sessions'[s].live} = IF current' = None THEN {} ELSE {current'}
  BY <1>1
<1> QED BY <1>2 DEF Guests, GuestOf

\* The controller implements OneGuest: emptying the slot closes the guest,
\* filling it opens one, and a session that moves advances.
THEOREM ControllerRefinesOneGuest == Spec => RefinesOneGuest
<1>1. Init => OneGuestAtATime!Init
  BY DEF Init, Guests, OneGuestAtATime!Init
<1>2. IInv /\ IInv' /\ [Next]_vars => [OneGuestAtATime!Next]_Guests
  <2> SUFFICES ASSUME IInv, IInv', [Next]_vars
               PROVE  OneGuestAtATime!Next \/ Guests' = Guests
    OBVIOUS
  <2>1. SlotStep
    BY NextSlot
  <2>2. CASE current' = None
    BY <2>2, GuestsAreNext DEF OneGuestAtATime!Next, OneGuestAtATime!Close
  <2>3. CASE current' # None /\ current = None
    <3>1. Guests = {} /\ Guests' = {GuestOf(current)'}
      BY <2>3, GuestsAre, GuestsAreNext
    <3>2. GuestOf(current)' \in OneGuestAtATime!Guest
      <4>1. current' \in Nat /\ sessions'[current'] \in SessionType(Targets)
        BY <2>3 DEF IInv, TypeOK
      <4> QED BY <4>1 DEF GuestOf, OneGuestAtATime!Guest, SessionType
    <3> QED BY <3>1, <3>2 DEF OneGuestAtATime!Next, OneGuestAtATime!Open
  <2>4. CASE current' # None /\ current # None
    <3>1. CurrentCarried
      BY <2>1, <2>4 DEF SlotStep
    <3>2. Guests = {GuestOf(current)} /\ Guests' = {GuestOf(current)'}
      BY <2>4, GuestsAre, GuestsAreNext
    <3>3. CASE sessions[current].status \in Terminal
      BY <3>1, <3>2, <3>3 DEF CurrentCarried, GuestOf
    <3>4. CASE sessions[current].status \notin Terminal
      <4>1. GuestOf(current)' = [GuestOf(current) EXCEPT !.status = sessions'[current].status]
        BY <3>1 DEF CurrentCarried, GuestOf
      <4>2. sessions'[current].status \in Statuses
        <5>1. sessions'[current] \in SessionType(Targets)
          BY <2>4, <3>1 DEF IInv, TypeOK, CurrentCarried
        <5> QED BY <5>1 DEF SessionType
      <4>3. GuestOf(current).status \notin Terminal
        BY <3>4 DEF GuestOf
      <4> QED BY <3>2, <4>1, <4>2, <4>3 DEF OneGuestAtATime!Next, OneGuestAtATime!Advance
    <3> QED BY <3>3, <3>4
  <2> QED BY <2>2, <2>3, <2>4
<1> QED BY <1>1, <1>2, ControllerInvariance, PTL DEF Spec, RefinesOneGuest, OneGuestAtATime!Spec

============================================================================
