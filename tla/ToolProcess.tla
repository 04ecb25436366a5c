----------------------------- MODULE ToolProcess -----------------------------
(***************************************************************************)
(* BlinkToolProcessRunner.run: one tool (NASM, GNU ld) in a Blink machine   *)
(* of its own, under a policy that bounds what is mounted, written,         *)
(* captured, how long it runs and how often it is preempted.                *)
(*                                                                          *)
(* The guest runs on the page's thread: it gives way when it is preempted   *)
(* and goes on when a timer resumes it.  Blink calls back for every byte    *)
(* written, for signals and for the exit, and may do so after the promise   *)
(* was settled.  Bytes are counted, paths and contents left out; the size   *)
(* of the file that is captured is chosen when the guest leaves it behind.  *)
(***************************************************************************)
EXTENDS Naturals

CONSTANTS
  MaxRuntime, MaxOutput, MaxPreemptions, MaxMounted, MaxCaptured, \* the policy
  Sizes,     \* sizes of what is mounted and captured
  MaxClock,  \* bound on the clock
  MaxWrites, \* bound on the bytes the tool writes
  None

ToolAssumption ==
  /\ MaxRuntime \in Nat /\ MaxOutput \in Nat /\ MaxPreemptions \in Nat
  /\ MaxMounted \in Nat /\ MaxCaptured \in Nat
  /\ Sizes \subseteq Nat /\ MaxClock \in Nat /\ MaxWrites \in Nat

VARIABLES
  phase,       \* "idle", "loading", "mounting", "running", "preempted" or "stopped"
  output,      \* bytes kept of stdout and stderr
  written,     \* bytes the tool wrote after the mount
  overflowed,  \* policyFailure: a byte was dropped
  preemptions,
  clock,       \* since the process started
  captured,    \* size of the file to capture, None while there is none
  result       \* None while the promise is pending

vars == <<phase, output, written, overflowed, preemptions, clock, captured, result>>

settled == result # None
Rejected == [ok |-> FALSE]
Completed(code, files) ==
  [ok |-> TRUE, exitCode |-> code, files |-> files, output |-> output]

-----------------------------------------------------------------------------
(***************************************************************************)
(* The promise is settled once: fail and finish return when it has been.   *)
(***************************************************************************)

Fail == result' = IF settled THEN result ELSE Rejected

\* Mutant: dropped bytes are not a violation.
ViolatesTimeOnly(n) == clock > MaxRuntime \/ n > MaxPreemptions

\* checkPolicy, with n preemptions.
Violates(n) == overflowed \/ clock > MaxRuntime \/ n > MaxPreemptions

\* A file that is missing is left out of the result; one that is too large, or
\* that cannot be read as bytes, rejects it.
Finish(code) ==
  IF settled THEN UNCHANGED result
  ELSE IF Violates(preemptions) \/ (captured # None /\ captured > MaxCaptured) THEN Fail
  ELSE result' = Completed(code, captured)

-----------------------------------------------------------------------------
\* run validates the request (paths inside their namespaces, printable tokens,
\* no environment, an executable of the toolchain) before anything is loaded.
Run(valid, mounted) ==
  /\ phase = "idle"
  /\ IF valid /\ mounted <= MaxMounted
     THEN phase' = "loading" /\ UNCHANGED result
     ELSE phase' = "stopped" /\ Fail
  /\ UNCHANGED <<output, written, overflowed, preemptions, clock, captured>>

\* The profile, the module and the factory; the clock starts after them.
LoadRuntime(loaded) ==
  /\ phase = "loading"
  /\ IF loaded THEN phase' = "mounting" /\ UNCHANGED result ELSE phase' = "stopped" /\ Fail
  /\ UNCHANGED <<output, written, overflowed, preemptions, clock, captured>>

\* main, the files, the command line; then the guest starts.  The boot messages
\* of Blink are not kept, and an exception on the way rejects the promise.
Mount(thrown) ==
  /\ phase = "mounting"
  /\ IF thrown THEN phase' = "stopped" /\ Fail ELSE phase' = "running" /\ UNCHANGED result
  /\ UNCHANGED <<output, written, overflowed, preemptions, clock, captured>>

-----------------------------------------------------------------------------

\* appendOutput: the first byte over the budget is remembered, not reported.
Write ==
  /\ phase = "running" /\ written < MaxWrites
  /\ written' = written + 1
  /\ IF output >= MaxOutput THEN overflowed' = TRUE /\ UNCHANGED output
     ELSE output' = output + 1 /\ UNCHANGED overflowed
  /\ UNCHANGED <<phase, preemptions, clock, captured, result>>

\* The guest leaves the output file behind.
Produce(size) ==
  /\ phase = "running"
  /\ captured' = size
  /\ UNCHANGED <<phase, output, written, overflowed, preemptions, clock, result>>

\* Mutant: the counter of preemptions is not raised.
PreemptUncounted ==
  /\ phase = "running"
  /\ IF Violates(preemptions) THEN phase' = "stopped" /\ Fail
     ELSE phase' = "preempted" /\ UNCHANGED result
  /\ UNCHANGED <<output, written, overflowed, preemptions, clock, captured>>

\* SIGTRAP/PREEMPT: count, check the policy, resume from a timer.
Preempt ==
  /\ phase = "running"
  /\ preemptions' = preemptions + 1
  /\ IF Violates(preemptions + 1) THEN phase' = "stopped" /\ Fail
     ELSE phase' = "preempted" /\ UNCHANGED result
  /\ UNCHANGED <<output, written, overflowed, clock, captured>>

\* The timer; an exception of the guest is a failure.
Resume(thrown) ==
  /\ phase = "preempted"
  /\ IF thrown THEN phase' = "stopped" /\ Fail ELSE phase' = "running" /\ UNCHANGED result
  /\ UNCHANGED <<output, written, overflowed, preemptions, clock, captured>>

\* The guest wants a terminal, or stops on another trap.
Trap ==
  /\ phase = "running"
  /\ phase' = "stopped" /\ Fail
  /\ UNCHANGED <<output, written, overflowed, preemptions, clock, captured>>

\* The exit callback, and a signal that ends the guest: 128 + signal.
Exit(code) ==
  /\ phase = "running"
  /\ phase' = "stopped" /\ Finish(code)
  /\ UNCHANGED <<output, written, overflowed, preemptions, clock, captured>>

\* The callbacks stay registered: an exit may follow the signal that caused it.
LateCallback(code) ==
  /\ phase = "stopped" /\ settled
  /\ Finish(code) \/ Fail
  /\ UNCHANGED <<phase, output, written, overflowed, preemptions, clock, captured>>

Tick ==
  /\ phase \in {"running", "preempted"} /\ clock < MaxClock
  /\ clock' = clock + 1
  /\ UNCHANGED <<phase, output, written, overflowed, preemptions, captured, result>>

Init ==
  /\ phase = "idle" /\ result = None /\ captured = None
  /\ output = 0 /\ written = 0 /\ overflowed = FALSE /\ preemptions = 0 /\ clock = 0

Codes == {0, 1, 139}

Next ==
  \/ \E valid \in BOOLEAN, mounted \in Sizes : Run(valid, mounted)
  \/ \E ok \in BOOLEAN : LoadRuntime(ok) \/ Mount(ok) \/ Resume(ok)
  \/ Write \/ Preempt \/ Trap \/ Tick
  \/ \E size \in Sizes : Produce(size)
  \/ \E code \in Codes : Exit(code) \/ LateCallback(code)

\* The runner calls run; the page's event loop runs its callbacks and timers; a
\* guest that runs gives way or ends, for Blink preempts it every so many
\* instructions.
Fairness ==
  /\ WF_vars(\E valid \in BOOLEAN, mounted \in Sizes : Run(valid, mounted))
  /\ WF_vars(\E ok \in BOOLEAN : LoadRuntime(ok))
  /\ WF_vars(\E ok \in BOOLEAN : Mount(ok))
  /\ WF_vars(\E ok \in BOOLEAN : Resume(ok))
  /\ WF_vars(Preempt \/ Trap \/ \E code \in Codes : Exit(code))

Spec == Init /\ [][Next]_vars
FairSpec == Spec /\ Fairness

-----------------------------------------------------------------------------
\* The type of the local state of run.
TypeOK ==
  /\ phase \in {"idle", "loading", "mounting", "running", "preempted", "stopped"}
  /\ output \in 0..MaxOutput /\ written \in 0..MaxWrites
  /\ overflowed \in BOOLEAN /\ preemptions \in 0..MaxPreemptions + 1
  /\ clock \in 0..MaxClock /\ captured \in Sizes \cup {None}
  /\ settled => result.ok \in BOOLEAN

\* A result that is delivered lacks nothing: every byte the tool wrote is in it,
\* so a truncated listing or diagnostic is never taken for the whole one.
ResultIsComplete == settled /\ result.ok => result.output = written

\* A result that is delivered kept to the policy, the file included.
ResultWithinPolicy == settled /\ result.ok =>
  /\ result.output <= MaxOutput /\ clock <= MaxRuntime /\ preemptions <= MaxPreemptions
  /\ result.files = None \/ result.files <= MaxCaptured

\* The promise is settled by the first callback that ends the process; the ones
\* that come after change nothing, and nothing resumes the guest.
SettledForGood == [][settled => UNCHANGED <<result, phase, output>>]_vars

\* A tool that never exits is still answered: its preemptions run out.
Settles == <>settled
=============================================================================
