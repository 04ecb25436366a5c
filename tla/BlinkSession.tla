----------------------------- MODULE BlinkSession -----------------------------
(***************************************************************************)
(* BlinkProcessSession from the inside.  A call of step or runSlice enters *)
(* the Blink engine, which prints bytes and stops with a callback          *)
(* (onSignal, onExit), with an exception or with nothing.  The engine is   *)
(* outside the repository: "engine" is where it rests, and what it does    *)
(* next is a choice.  The session prefers the headless mode (run_fast,     *)
(* preempt_resume) for Run and the debugger mode (starti, stepi) for Step. *)
(*                                                                         *)
(* A byte of output is a number; Prompt is the line the session expects    *)
(* the engine's own loader to print, printed the one it does print.        *)
(***************************************************************************)
EXTENDS Integers, Sequences

CONSTANTS
  Prompt, Prompts,  \* a sequence of bytes, a set of them
  Bytes,            \* what the guest prints
  MaxOutput,        \* bound on the bytes printed
  MaxSteps,         \* bound on the instructions stepped
  MaxEvents,        \* events kept, 300 in the code
  None

\* A call is its entry point and the session it found, as the controller sees it.
Entries == {"starti", "stepi", "run_fast", "preempt_resume", "faketty_resume"}
CallType ==
  [entry : Entries,
   found : [target : {"program"}, provider : {"blink"}, status : {"ready", "running", "paused"},
            mode : {"none", "debug", "headless"}, used : {0}, live : {TRUE}]]

\* A loader prints one line, so that no prompt is the beginning of another.
Differ(p, q) == \E i \in 1..Len(p) : i <= Len(q) /\ p[i] # q[i]

BlinkAssumption ==
  /\ Prompt \in Seq(Bytes) /\ Prompt # <<>> /\ Prompts \subseteq Seq(Bytes)
  /\ \A p \in Prompts \ {Prompt} : Differ(p, Prompt)
  /\ MaxOutput \in Nat /\ MaxSteps \in Nat /\ MaxEvents \in Nat \ {0}
  /\ None \notin CallType /\ None \notin Nat /\ None \notin {"trap", "crash", "wait", "guest", "signal"}

VARIABLES
  printed,
  status,
  mode,     \* processMode
  tty,      \* fakeTtyPaused
  report,   \* what the snapshot explains: a trap, a crash, a wait, or None
  exitCode, \* None, "guest" or "signal"
  count,    \* instructionCount
  last,     \* lastInstruction: the number of the instruction, or None
  events,   \* instructions by number, 0 for a gap, -1 for any other event
  discard, cursor, stdout,  \* the output, and how much of the prompt was taken off
  call,     \* None, or the call under way: entry point and the session it found
  engine,   \* where the engine rests: "new", "loaded", "preempted", "tty", "over"
  loading,  \* bytes of printed the loader has still to print
  guest     \* what the engine printed since it was entered

output == <<discard, cursor, stdout, loading, guest>>
explained == <<report, exitCode>>
vars == <<printed, status, mode, tty, explained, count, last, events, output, call, engine>>

Terminal == {"exited", "halted", "trapped"}

Interface == INSTANCE ExecutionSession WITH Ends <- {"exited", "trapped"}, Limit <- 1, Slice <- 1
Seen == [target |-> "program", provider |-> "blink", status |-> status,
         mode |-> mode, used |-> 0, live |-> TRUE]

Init ==
  /\ printed \in Prompts
  /\ status = "ready" /\ mode = "none" /\ tty = FALSE
  /\ report = None /\ exitCode = None
  /\ count = 0 /\ last = None /\ events = <<-1>>
  /\ discard = FALSE /\ cursor = 0 /\ stdout = <<>>
  /\ call = None /\ engine = "new" /\ loading = <<>> /\ guest = <<>>

LastOf(s, n) == IF Len(s) <= n THEN s ELSE SubSeq(s, Len(s) - n + 1, Len(s))

\* appendEvent drops the oldest events.
Recorded(more) == LastOf(events \o more, MaxEvents)

-----------------------------------------------------------------------------
(***************************************************************************)
(* Calls of the controller; they are synchronous, and nothing comes between *)
(* a call and its return but the callbacks of the engine.                   *)
(***************************************************************************)

MarkRunning ==
  /\ call = None /\ status \in {"ready", "paused"}
  /\ status' = "running" /\ report' = None
  /\ UNCHANGED <<mode, tty, exitCode, count, last, events, output, call, engine>>

Pause ==
  /\ call = None /\ status = "running"
  /\ status' = "paused"
  /\ UNCHANGED <<mode, tty, explained, count, last, events, output, call, engine>>

\* A refusal: the session traps and the call returns.
Refuses ==
  /\ status' = "trapped" /\ report' = "trap"
  /\ events' = Recorded(<<-1>>)
  /\ UNCHANGED <<mode, exitCode, count, last, output, call, engine>>

\* beginProcessOutput
BeginsOutput ==
  /\ discard' = TRUE /\ cursor' = 0
  /\ loading' = printed
  /\ UNCHANGED <<stdout, guest>>

\* A step of a session that ran headless.
StepRefused ==
  /\ call = None /\ status \notin Terminal /\ mode = "headless"
  /\ tty' = FALSE
  /\ Refuses

Step ==
  /\ call = None /\ status \notin Terminal /\ mode # "headless"
  /\ count < MaxSteps
  /\ call' = [entry |-> IF mode = "none" THEN "starti" ELSE "stepi", found |-> Seen]
  /\ status' = "running" /\ tty' = FALSE /\ report' = None
  /\ IF mode = "none" THEN BeginsOutput ELSE UNCHANGED output
  /\ UNCHANGED <<mode, exitCode, count, last, events, engine>>

\* A slice of a session that was stepped.
SliceRefused ==
  /\ call = None /\ status \notin Terminal /\ mode = "debug"
  /\ UNCHANGED tty
  /\ Refuses

SliceEntry ==
  IF tty THEN "faketty_resume" ELSE IF mode = "none" THEN "run_fast" ELSE "preempt_resume"

RunSlice ==
  /\ call = None /\ status \notin Terminal /\ mode # "debug"
  /\ call' = [entry |-> SliceEntry, found |-> Seen]
  /\ status' = "running" /\ mode' = "headless" /\ tty' = FALSE
  /\ report' = IF status \in {"ready", "paused"} THEN None ELSE report
  /\ events' = IF mode = "none" THEN Recorded(<<-1>>) ELSE events
  /\ IF mode = "none" THEN BeginsOutput ELSE UNCHANGED output
  /\ UNCHANGED <<exitCode, count, last, engine>>

-----------------------------------------------------------------------------
(***************************************************************************)
(* Output.                                                                 *)
(***************************************************************************)

\* captureOutput: the loader's prompt is taken off; when the bytes turn out not
\* to be the prompt, those already taken off are put back.
Capture(b) ==
  IF discard /\ Prompt[cursor + 1] = b
  THEN /\ cursor' = cursor + 1
       /\ discard' = (cursor + 1 < Len(Prompt))
       /\ UNCHANGED <<stdout, events>>
  ELSE LET taken == IF discard THEN SubSeq(Prompt, 1, cursor) ELSE <<>>
       IN /\ stdout' = stdout \o Append(taken, b)
          /\ discard' = FALSE /\ cursor' = IF discard THEN 0 ELSE cursor
          /\ events' = Recorded(IF taken = <<>> THEN <<-1>> ELSE <<-1, -1>>)

\* The loader prints before the guest does; stepi prints as well.
Prints ==
  /\ call # None
  /\ \/ loading # <<>> /\ Capture(Head(loading)) /\ loading' = Tail(loading) /\ UNCHANGED guest
     \/ /\ loading = <<>> /\ Len(guest) < MaxOutput
        /\ \E b \in Bytes : Capture(b) /\ guest' = Append(guest, b)
        /\ UNCHANGED loading
  /\ UNCHANGED <<status, mode, tty, explained, count, last, call, engine>>

\* stderr is never searched for the prompt.
PrintsError ==
  /\ call # None /\ loading = <<>>
  /\ events' = Recorded(<<-1>>)
  /\ UNCHANGED <<status, mode, tty, explained, count, last, output, call, engine>>

-----------------------------------------------------------------------------
(***************************************************************************)
(* The engine stops.  Each callback is told apart by its signal and code.  *)
(***************************************************************************)

\* Mutant: only a library breaks the trace.
StepRecordedLax(image) ==
  IF image = "program" THEN last' = count + 1 /\ events' = Recorded(<<count + 1>>)
  ELSE /\ events' = IF last # None /\ image = "dependency" THEN Recorded(<<0>>) ELSE events
       /\ last' = IF image = "dependency" THEN None ELSE last

\* recordSteppedProgramInstruction, where the instruction lies: "program",
\* "dependency" or "unresolved".  A gap is recorded only where the trace was in the program.
StepRecorded(image) ==
  IF image = "program" THEN last' = count + 1 /\ events' = Recorded(<<count + 1>>)
  ELSE /\ events' = IF last # None THEN Recorded(<<0>>) ELSE events
       /\ last' = None

\* onExit
OnExit == status' = "exited" /\ exitCode' = "guest" /\ report' = None /\ UNCHANGED tty

\* onSignal: a fatal signal, a wait for stdin, another SIGTRAP code, and the
\* codes of a step and of a preemption.
OnFatal == status' = "trapped" /\ exitCode' = "signal" /\ report' = "crash" /\ UNCHANGED tty
OnTty == status' = "paused" /\ tty' = TRUE /\ report' = "wait" /\ UNCHANGED exitCode
OnTrap == status' = "trapped" /\ report' = "trap" /\ UNCHANGED <<tty, exitCode>>
OnStep == status' = "paused" /\ UNCHANGED <<tty, explained>>
OnNothing == UNCHANGED <<status, tty, explained>>

Stops == call # None /\ loading = <<>>

\* A slice ends: the guest is over, waits, or was preempted.  An exit may follow a fatal
\* signal in the same call; it is the exit that is shown, and both are events.
SliceStops ==
  /\ Stops /\ mode = "headless"
  /\ \/ OnExit /\ events' \in {Recorded(<<-1>>), Recorded(<<-1, -1>>)} /\ engine' = "over"
     \/ OnFatal /\ events' = Recorded(<<-1>>) /\ engine' = "over"
     \/ OnTrap /\ events' = Recorded(<<-1>>) /\ engine' = "over"
     \/ OnTty /\ UNCHANGED events /\ engine' = "tty"
     \/ OnNothing /\ UNCHANGED events /\ engine' = "preempted"
  /\ call' = None
  /\ UNCHANGED <<mode, count, last, output>>

\* starti has loaded the program and stops at its first instruction, with or
\* without a callback; stepi follows in the same call.
Started ==
  /\ Stops /\ call.entry = "starti" /\ mode = "none"
  /\ \/ OnStep
     \/ OnNothing
  /\ mode' = "debug" /\ engine' = "loaded" /\ call' = [call EXCEPT !.entry = "stepi"]
  /\ events' = Recorded(<<-1>>)
  /\ UNCHANGED <<count, last, output>>

\* stepi returns: the instruction is counted and recorded whatever it did.  Here too an
\* exit supersedes a fatal signal.
Stepped ==
  /\ Stops /\ call.entry = "stepi" /\ mode = "debug"
  /\ \/ OnExit /\ engine' = "over"
     \/ OnFatal /\ engine' = "over"
     \/ OnTrap /\ engine' = "over"
     \/ OnTty /\ engine' = "tty"
     \/ OnStep /\ engine' = "loaded"
     \/ /\ status' = IF status = "running" THEN "paused" ELSE status
        /\ UNCHANGED <<tty, explained>> /\ engine' = "loaded"
  /\ count' = count + 1
  /\ \E image \in {"program", "dependency", "unresolved"} : StepRecorded(image)
  /\ call' = None
  /\ UNCHANGED <<mode, output>>

\* The engine throws before a callback: trapFromError.
Throws ==
  /\ call # None
  /\ status' = "trapped" /\ report' = "trap" /\ engine' = "over"
  /\ events' = Recorded(<<-1>>) /\ call' = None
  /\ UNCHANGED <<mode, tty, exitCode, count, last, output>>

Next == UNCHANGED printed /\
  (\/ MarkRunning \/ Pause
  \/ StepRefused \/ Step \/ SliceRefused \/ RunSlice
  \/ Prints \/ PrintsError
  \/ SliceStops \/ Started \/ Stepped \/ Throws)

Spec == Init /\ [][Next]_vars

-----------------------------------------------------------------------------
TypeOK ==
  /\ status \in Interface!Statuses /\ mode \in {"none", "debug", "headless"} /\ tty \in BOOLEAN
  /\ report \in {None, "trap", "crash", "wait"} /\ exitCode \in {None, "guest", "signal"}
  /\ count \in 0..MaxSteps /\ last \in 1..MaxSteps \cup {None}
  /\ events \in Seq(-1..MaxSteps) /\ Len(events) <= MaxEvents
  /\ discard \in BOOLEAN /\ cursor \in 0..Len(Prompt) /\ stdout \in Seq(Bytes) /\ guest \in Seq(Bytes)
  /\ call \in CallType \cup {None} /\ engine \in {"new", "loaded", "preempted", "tty", "over"}

\* The end of a step or of a slice is one that ExecutionSession allows the
\* provider to report: the modes exclude each other and an end is final
\* (step, runSlice and the callbacks together).
Contract ==
  [][/\ call # None /\ call' = None =>
          Seen' \in (IF call.entry \in {"starti", "stepi"} THEN Interface!StepOutcomes(call.found)
                     ELSE Interface!SliceOutcomes(call.found))
     /\ call = None /\ call' = None /\ status' # status =>
          Seen' \in {Interface!Paused(Seen), Interface!MarkedRunning(Seen)}
                      \cup Interface!StepOutcomes(Seen) \cup Interface!SliceOutcomes(Seen)]_vars

\* What runSlice calls is what the engine's last stop asks for: a guest that
\* waits for stdin is not resumed as if it had been preempted, and a program is
\* started once, however Pause and Run alternate in between.
ResumesWhereItStopped ==
  [][call = None /\ call' # None =>
       CASE call'.entry \in {"starti", "run_fast"} -> engine = "new"
         [] call'.entry = "preempt_resume" -> engine = "preempted"
         [] call'.entry = "faketty_resume" -> engine = "tty"
         [] call'.entry = "stepi" -> engine \in {"loaded", "tty"}]_vars

\* The snapshot's explanation agrees with its status and exit code: a wait is
\* only shown while the guest waits, a crash only with the code of its signal,
\* and a process that exited shows neither.
ReportFits ==
  call = None =>
    /\ report = "wait" => status = "paused" /\ tty /\ engine = "tty"
    /\ report = "crash" <=> exitCode = "signal"
    /\ status = "exited" <=> exitCode = "guest"
    /\ status = "exited" => report = None
    /\ status = "trapped" => report \in {"trap", "crash"}

\* Two instructions next to each other in the events ran one after the other,
\* or an edge would be drawn that was not taken.
TraceIsContiguous ==
  \A i, j \in 1..Len(events) :
    /\ i < j /\ events[i] > 0 /\ events[j] > 0
    /\ \A k \in i + 1..j - 1 : events[k] = -1
    => events[j] = events[i] + 1

\* The instruction the interface follows is the last one that ran.
LastIsCurrent == last # None => last = count

\* The guest's output is shown whole and in order: without the loader's prompt
\* when it is the expected one, and with it when it is another.
OutputIsKept ==
  loading = <<>> /\ mode # "none" /\ call = None /\ status # "trapped" =>
    stdout = (IF printed = Prompt THEN guest ELSE printed \o guest)
===============================================================================
