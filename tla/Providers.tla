------------------------------- MODULE Providers -------------------------------
(***************************************************************************)
(* The providers' sessions and the machine session's address space.  They  *)
(* share no state: "active" says which of them moves, the others rest in   *)
(* one of their initial states.                                            *)
(***************************************************************************)
EXTENDS UnicornSession

CONSTANTS
  Resting,                                            \* the setup of a Unicorn session that rests
  Prompt, Prompts, Bytes, MaxOutput, MaxSteps, Kept,  \* the parameters of BlinkSession
  Pages, MmapBase, StackTop, Stack, Gap, Budget, Segments, MaxCalls  \* those of MachineMemory

VARIABLES active,
          printed, blinkStatus, mode, tty, report, exitCode, blinkCount, last, blinkEvents,
          discard, cursor, stdout, blinkCall, engine, loading, guest,
          image, mem, mapped, heapBase, programBreak, mmapCursor, records, memoryStatus, calls

Blink == INSTANCE BlinkSession WITH
           MaxEvents <- Kept, status <- blinkStatus, count <- blinkCount, events <- blinkEvents, call <- blinkCall
Memory == INSTANCE MachineMemory WITH cursor <- mmapCursor, status <- memoryStatus

ProvidersAssumption ==
  /\ Blink!BlinkAssumption /\ Memory!MemoryAssumption
  /\ Resting \in Setups /\ Prompt \in Prompts /\ Memory!Accepted(Segments)
ASSUME ProvidersAssumption

blinkVars == <<printed, blinkStatus, mode, tty, report, exitCode, blinkCount, last, blinkEvents,
               discard, cursor, stdout, blinkCall, engine, loading, guest>>
memoryVars == <<image, mem, mapped, heapBase, programBreak, mmapCursor, records, memoryStatus, calls>>
all == <<vars, blinkVars, memoryVars, active>>

OneMoves ==
  /\ active \in {"unicorn", "blink", "memory"}
  /\ Init /\ (active # "unicorn" => setup = Resting)
  /\ Blink!Init /\ (active # "blink" => printed = Prompt)
  /\ Memory!Init /\ (active # "memory" => image = Segments)
Moves ==
  /\ UNCHANGED active
  /\ \/ active = "unicorn" /\ Next /\ UNCHANGED <<blinkVars, memoryVars>>
     \/ active = "blink" /\ Blink!Next /\ UNCHANGED <<vars, memoryVars>>
     \/ active = "memory" /\ Memory!Next /\ UNCHANGED <<vars, blinkVars>>
Providers == OneMoves /\ [][Moves]_all

-----------------------------------------------------------------------------
(* What the parts promise, by the question it answers; UnicornIsFollowed   *)
(* and CallsAreHonest are of UnicornSession.                               *)
\* What it is shown of a Blink guest: the explanation agrees with status and exit
\* code, neighbours in the trace ran one after the other, the instruction followed
\* is the last one, and the output is whole but for the expected prompt.
BlinkIsFollowed ==
  Blink!TypeOK /\ Blink!ReportFits /\ Blink!TraceIsContiguous /\ Blink!LastIsCurrent /\ Blink!OutputIsKept
\* The machine session's books: the budget's counter is what the engine has mapped,
\* and program, heap and mappings share no page and are all there is.
MemoryIsCounted == Memory!TypeOK /\ Memory!CounterIsMapped /\ Memory!Partition
\* A Blink session over its life: a call reports what ExecutionSession says it may,
\* and the guest is resumed by the entry point its last stop asks for.  The
\* addresses of mappings are not reused.
OthersAreHonest == Blink!Contract /\ Blink!ResumesWhereItStopped /\ Memory!MmapIsFresh
=============================================================================
