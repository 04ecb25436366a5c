------------------------- MODULE UnicornSessionProofs -------------------------
(***************************************************************************)
(* Proofs about the two Unicorn sessions, for every policy, every bound and *)
(* every set of system calls: what the trace and the input say is what      *)
(* happened, and a call reports what ExecutionSession lets it report, on    *)
(* which the proofs about the controller rest.                              *)
(***************************************************************************)
EXTENDS UnicornSession, SequenceTheorems, TLAPS

-----------------------------------------------------------------------------
(***************************************************************************)
(* The inductive invariant                                                 *)
(***************************************************************************)
\* What the session was when the call under way was made.
FoundOK ==
  /\ call.name \in {"step", "slice"}
  /\ call.found.used \in 0 .. Limit
  /\ call.found.status \in {"ready", "running", "paused"}
  /\ call.found = [target |-> "program", provider |-> Provider, status |-> call.found.status,
                   mode |-> "none", used |-> call.found.used, live |-> TRUE]

\* How far it came: at most one instruction in a step, a slice of them in a slice,
\* and none at all only if it trapped.
Ran == count - call.found.used
CallOK ==
  /\ call = None => left = 0
  /\ call # None =>
       /\ FoundOK
       /\ Ran >= 0
       /\ Ran = 0 /\ left = 0 => status = "trapped"
       /\ left > 0 => status = (IF call.name = "step" THEN "paused" ELSE "running")
       /\ call.name = "step" => status \in {"paused", "exited", "trapped"} /\ Ran + left <= 1
       /\ call.name = "slice" =>
            status \in {"running", "exited", "trapped"} /\ Ran + left <= Slice

\* The program's last instruction ends the trace while the guest is in the program.
Event == [kind : {"instruction", "gap"}, n : Nat]
TraceOK ==
  /\ events \in Seq(Event)
  /\ role = "program" /\ events # <<>> => events[Len(events)] = [kind |-> "instruction", n |-> count]

ProcessOK ==
  /\ stdin = [bytes |-> stdin.bytes, cursor |-> stdin.cursor]
  /\ stdin.bytes \in Seq(Nat) /\ received \in Seq(Nat)
  /\ nextFd \in Nat /\ nextFd >= 3
  /\ fds \in [DOMAIN fds -> 0 .. FileSize + 1]

IInv ==
  /\ setup \in Setups
  /\ TypeOK
  /\ CallOK
  /\ TraceOK
  /\ ProcessOK
  /\ TraceIsContiguous
  /\ StdinInOrder

-----------------------------------------------------------------------------
(***************************************************************************)
(* What the constants and the steps are                                    *)
(***************************************************************************)
\* The bounds of a setup.
LEMMA Bounds ==
  ASSUME IInv
  PROVE  /\ Limit \in Nat /\ Limit >= 1 /\ Slice \in Nat /\ Slice >= 1
         /\ MaxEvents \in Nat /\ MaxIO \in Nat /\ FileSize \in Nat /\ Typed \in Nat /\ MaxFds \in Nat
         /\ Provider \in {"linux", "machine"}
  BY UnicornAssumption DEF IInv, UnicornAssumption, Limit, Slice, MaxEvents, MaxIO, FileSize, Typed, MaxFds, Provider

Numbers ==
  /\ Limit \in Nat /\ Slice \in Nat /\ MaxEvents \in Nat /\ Limit >= 1 /\ Slice >= 1
  /\ count \in 0 .. Limit /\ left \in 0 .. Slice

\* What the proofs use of the numbers.
LEMMA NumbersOK ==
  ASSUME IInv PROVE Numbers
  BY Bounds DEF IInv, TypeOK, Numbers

Same == setup' = setup

\* The parameters do not change with the state.
LEMMA ParametersStay ==
  ASSUME Same
  PROVE  /\ Limit' = Limit /\ Slice' = Slice /\ MaxEvents' = MaxEvents /\ Provider' = Provider
         /\ FileSize' = FileSize /\ Typed' = Typed
  BY DEF Same, Limit, Slice, MaxEvents, Provider, FileSize, Typed

\* A system call is an instruction, after which the engine rests.
Served1 ==
  /\ \E r \in Roles : Hook(r)
  /\ left' = 0 /\ status' \in {status, "exited", "trapped"}

\* The counter and the trace move as in any instruction.
LEMMA SystemCallShape ==
  ASSUME SystemCall PROVE Served1
<1> USE DEF Syscall, Served1, Fails, Answers, Trapped, Returns
<1>1. CASE Exit \/ Unserved \/ Immediate \/ Refuse \/ MachineRead
  BY <1>1 DEF Exit, Unserved, Immediate, Refuse, MachineRead
<1>2. ASSUME NEW fd, NEW n, NEW fault,
             LinuxWrite(fd, n, fault) \/ MachineWrite(fd, n, fault) \/ ReadFile(fd, n, fault)
      PROVE  Served1
  BY <1>2 DEF LinuxWrite, MachineWrite, ReadFile
<1>3. ASSUME NEW fd, NEW counts, NEW fault, Writev(fd, counts, fault)
      PROVE  Served1
  BY <1>3 DEF Writev
<1>4. ASSUME NEW fd, NEW n, NEW offset, NEW fault, Pread(fd, n, offset, fault)
      PROVE  Served1
  BY <1>4 DEF Pread
<1>5. ASSUME NEW n, NEW fault, ReadStdin(n, fault)
      PROVE  Served1
  BY <1>5 DEF ReadStdin
<1>6. ASSUME NEW found, NEW other, NEW fault,
             Open(found) \/ Futex(found, other, fault) \/ Access(found, other) \/ Stat(found, fault)
      PROVE  Served1
  BY <1>6 DEF Open, Futex, Access, Stat
<1>7. ASSUME NEW fd, NEW offset, NEW whence, Close(fd) \/ Lseek(fd, offset, whence)
      PROVE  Served1
  BY <1>7 DEF Close, Lseek
<1> QED BY <1>1, <1>2, <1>3, <1>4, <1>5, <1>6, <1>7 DEF SystemCall

Between == MarkRunning \/ Pause \/ Type
Stopped == OutOfBudget \/ Undecodable
Executed(r) == Instruction(r) \/ Faulting(r)

-----------------------------------------------------------------------------
(***************************************************************************)
(* Status, budget and the call under way                                   *)
(***************************************************************************)
ControlOK ==
  /\ status \in {"ready", "running", "paused"} \cup Terminal
  /\ count \in 0 .. Limit /\ left \in 0 .. Slice
  /\ CallOK

\* The call under way stays, with what it found.
LEMMA FoundStays ==
  ASSUME IInv, Same, call # None, call' = call
  PROVE  FoundOK' /\ call.found.used \in 0 .. Limit /\ call.name \in {"step", "slice"}
<1>1. FoundOK
  BY DEF IInv, CallOK
<1> QED BY <1>1, ParametersStay DEF FoundOK

\* A call finds the session as it is.
LEMMA FoundNow ==
  ASSUME IInv, Same, status \notin Terminal, NEW name \in {"step", "slice"},
         call' = [name |-> name, found |-> Seen]
  PROVE  FoundOK' /\ call'.found.used = count /\ call'.name = name /\ call' # None
<1>1. count \in 0 .. Limit /\ count \in Nat /\ status \in {"ready", "running", "paused"}
  BY NumbersOK DEF Numbers, IInv, TypeOK
<1>2. call' \in CallType
  BY <1>1, Bounds DEF Seen, CallType
<1> QED BY <1>1, <1>2, ParametersStay, NoneAssumption DEF FoundOK, Seen

\* Every step keeps status, budget and call in order.
LEMMA ControlPreserved ==
  ASSUME IInv, Same, Next \/ UNCHANGED vars
  PROVE  ControlOK'
<1> USE DEF ControlOK, CallOK, Ran
<1>1. Numbers /\ ControlOK
  BY NumbersOK DEF IInv, TypeOK
<1>2. Limit' = Limit /\ Slice' = Slice
  BY ParametersStay
<1>3. CASE call = None /\ call' = None /\ UNCHANGED <<count, left>> /\ status' \in {"ready", "running", "paused"} \cup Terminal
  BY <1>1, <1>2, <1>3
<1>4. CASE MarkRunning \/ Pause \/ Type
  BY <1>1, <1>3, <1>4 DEF MarkRunning, Pause, Type
<1>5. CASE UNCHANGED <<call, count, left, status>>
  BY <1>1, <1>2, <1>5, FoundStays
<1>6. CASE Step
  BY <1>1, <1>2, <1>6, FoundNow DEF Step, Numbers
<1>7. CASE RunSlice
  BY <1>1, <1>2, <1>7, FoundNow DEF RunSlice, Numbers, Smallest, Terminal
<1>8. CASE Return
  BY <1>1, <1>2, <1>8 DEF Return, Terminal, Numbers
<1>9. CASE Stopped
  BY <1>1, <1>2, <1>9, FoundStays DEF Stopped, OutOfBudget, Undecodable, Running, Stops, Terminal, Numbers
<1>10. ASSUME NEW r \in Roles, Executed(r)
      PROVE  ControlOK'
  BY <1>1, <1>2, <1>10, FoundStays DEF Executed, Instruction, Faulting, Hook, Running, Stops, Terminal, Numbers
<1>11. CASE SystemCall
  BY <1>1, <1>2, <1>11, FoundStays, SystemCallShape DEF Served1, Hook, Running, Terminal, Numbers
<1>12. CASE UNCHANGED vars
  BY <1>5, <1>12 DEF vars
<1> QED BY <1>4, <1>6, <1>7, <1>8, <1>9, <1>10, <1>11, <1>12 DEF Next, Stopped, Executed

-----------------------------------------------------------------------------
(***************************************************************************)
(* The trace                                                               *)
(***************************************************************************)
\* What is kept of a sequence is its end.
LEMMA LastOfProperties ==
  ASSUME NEW S, NEW s \in Seq(S), NEW n \in Nat
  PROVE  /\ LastOf(s, n) \in Seq(S) /\ Len(LastOf(s, n)) <= n
         /\ \E d \in Nat : /\ Len(LastOf(s, n)) = Len(s) - d
                           /\ \A i \in 1 .. Len(s) - d : LastOf(s, n)[i] = s[i + d]
<1>1. CASE Len(s) <= n
  <2>1. LastOf(s, n) = s
    BY <1>1 DEF LastOf
  <2>2. \E d \in Nat : Len(s) = Len(s) - d /\ \A i \in 1 .. Len(s) - d : s[i] = s[i + d]
    <3>1. ASSUME NEW d \in Nat, d = 0
          PROVE  Len(s) = Len(s) - d /\ \A i \in 1 .. Len(s) - d : s[i] = s[i + d]
      BY <3>1
    <3> QED BY <3>1
  <2> QED BY <1>1, <2>1, <2>2
<1>2. CASE Len(s) > n
  <2> DEFINE d == Len(s) - n
             t == SubSeq(s, d + 1, Len(s))
  <2>1. LastOf(s, n) = t /\ d \in Nat
    BY <1>2 DEF LastOf
  <2>2. t \in Seq(S) /\ Len(t) = Len(s) - d /\ \A i \in 1 .. Len(s) - d : t[i] = s[i + d]
    BY <1>2
  <2>3. Len(t) <= n
    BY <1>2, <2>2
  <2> HIDE DEF d, t
  <2> QED BY <2>1, <2>2, <2>3
<1>3. Len(s) <= n \/ Len(s) > n
  OBVIOUS
<1> QED BY <1>1, <1>2, <1>3, Zenon

Contiguous(s) == \A i \in 1 .. Len(s) - 1 :
  s[i].kind = "instruction" /\ s[i + 1].kind = "instruction" => s[i + 1].n = s[i].n + 1

\* The end of a trace without jumps has none, and the same last event.
LEMMA KeptIsContiguous ==
  ASSUME NEW s \in Seq(Event), NEW n \in Nat, Contiguous(s)
  PROVE  /\ LastOf(s, n) \in Seq(Event) /\ Len(LastOf(s, n)) <= n /\ Contiguous(LastOf(s, n))
         /\ LastOf(s, n) # <<>> => LastOf(s, n)[Len(LastOf(s, n))] = s[Len(s)]
<1> DEFINE t == LastOf(s, n)
<1>1. t \in Seq(Event) /\ Len(t) <= n
  BY LastOfProperties
<1>2. PICK d \in Nat : Len(t) = Len(s) - d /\ \A i \in 1 .. Len(s) - d : t[i] = s[i + d]
  BY LastOfProperties
<1> HIDE DEF t
<1>3. Contiguous(t)
  <2> SUFFICES ASSUME NEW i \in 1 .. Len(t) - 1, t[i].kind = "instruction", t[i + 1].kind = "instruction"
               PROVE  t[i + 1].n = t[i].n + 1
    BY DEF Contiguous
  <2>1. i \in 1 .. Len(s) - d /\ i + 1 \in 1 .. Len(s) - d /\ i + d \in 1 .. Len(s) - 1
    BY <1>2
  <2>2. t[i] = s[i + d] /\ t[i + 1] = s[(i + 1) + d] /\ (i + 1) + d = (i + d) + 1
    BY <1>2, <2>1
  <2> QED BY <2>1, <2>2 DEF Contiguous
<1>4. t # <<>> => t[Len(t)] = s[Len(s)]
  <2> SUFFICES ASSUME t # <<>> PROVE t[Len(t)] = s[Len(s)]
    OBVIOUS
  <2>1. Len(t) \in 1 .. Len(s) - d /\ Len(t) + d = Len(s)
    BY <1>1, <1>2
  <2> QED BY <1>2, <2>1
<1> QED BY <1>1, <1>3, <1>4 DEF t

GapEvent == [kind |-> "gap", n |-> 0]
InstructionEvent == [kind |-> "instruction", n |-> count + 1]

\* An event continues a trace if it is a gap, comes first or after a gap, or is
\* the instruction after the last one.
LEMMA AppendContiguous ==
  ASSUME NEW s \in Seq(Event), NEW e \in Event, Contiguous(s),
         s # <<>> /\ e.kind = "instruction" /\ s[Len(s)].kind = "instruction" => e.n = s[Len(s)].n + 1
  PROVE  /\ Append(s, e) \in Seq(Event) /\ Contiguous(Append(s, e))
         /\ Append(s, e) # <<>> /\ Append(s, e)[Len(Append(s, e))] = e
<1> DEFINE t == Append(s, e)
<1>1. t \in Seq(Event) /\ Len(t) = Len(s) + 1 /\ t[Len(s) + 1] = e /\ \A i \in 1 .. Len(s) : t[i] = s[i]
  OBVIOUS
<1>2. t # <<>>
  BY <1>1
<1> HIDE DEF t
<1>3. Contiguous(t)
  <2> SUFFICES ASSUME NEW i \in 1 .. Len(t) - 1, t[i].kind = "instruction", t[i + 1].kind = "instruction"
               PROVE  t[i + 1].n = t[i].n + 1
    BY DEF Contiguous
  <2>1. CASE i < Len(s)
    BY <1>1, <2>1 DEF Contiguous
  <2>2. CASE i = Len(s)
    BY <1>1, <2>2
  <2> QED BY <1>1, <2>1, <2>2
<1> QED BY <1>1, <1>2, <1>3 DEF t

\* The hook extends the trace without a jump.
LEMMA HookTraces ==
  ASSUME IInv, NEW r \in Roles, Hook(r)
  PROVE  /\ events' \in Seq(Event) /\ Len(events') <= MaxEvents /\ Contiguous(events')
         /\ role' = "program" /\ events' # <<>> =>
              events'[Len(events')] = [kind |-> "instruction", n |-> count']
<1>1. /\ count \in Nat /\ MaxEvents \in Nat /\ count' = count + 1 /\ role' = r /\ events' = Trace(r)
      /\ GapEvent \in Event /\ InstructionEvent \in Event
  BY NumbersOK DEF Numbers, Hook, Event, GapEvent, InstructionEvent
<1>2. events \in Seq(Event) /\ Contiguous(events)
  BY DEF IInv, TraceOK, TraceIsContiguous, Contiguous
<1>3. /\ Append(events, GapEvent) \in Seq(Event) /\ Contiguous(Append(events, GapEvent))
      /\ Append(events, GapEvent) # <<>>
      /\ Append(events, GapEvent)[Len(Append(events, GapEvent))] = GapEvent
  <2>1. GapEvent.kind = "gap"
    BY DEF GapEvent
  <2> QED BY <1>1, <1>2, <2>1, AppendContiguous
<1>4. CASE r = "program" /\ role = "program"
  <2> DEFINE s == Append(events, InstructionEvent)
  <2>1. events' = LastOf(s, MaxEvents)
    <3>1. events \o (<<>> \o <<InstructionEvent>>) = Append(events, InstructionEvent)
      BY <1>1, <1>2
    <3> QED BY <1>1, <1>4, <3>1 DEF Trace, InstructionEvent
  <2>2. /\ s \in Seq(Event) /\ Contiguous(s) /\ s[Len(s)] = InstructionEvent
    <3>1. InstructionEvent.n = count + 1
      BY DEF InstructionEvent
    <3>2. events # <<>> => events[Len(events)] = [kind |-> "instruction", n |-> count]
      BY <1>4 DEF IInv, TraceOK
    <3> QED BY <1>1, <1>2, <3>1, <3>2, AppendContiguous
  <2> HIDE DEF s
  <2> QED BY <1>1, <2>1, <2>2, KeptIsContiguous DEF InstructionEvent
<1>5. CASE r = "program" /\ role # "program"
  <2> DEFINE s == Append(Append(events, GapEvent), InstructionEvent)
  <2>1. events' = LastOf(s, MaxEvents)
    <3>1. events \o (<<GapEvent>> \o <<InstructionEvent>>) = Append(Append(events, GapEvent), InstructionEvent)
      BY <1>1, <1>2
    <3> QED BY <1>1, <1>5, <3>1 DEF Trace, InstructionEvent, GapEvent
  <2>2. s \in Seq(Event) /\ Contiguous(s) /\ s[Len(s)] = InstructionEvent
    <3>1. GapEvent.kind = "gap"
      BY DEF GapEvent
    <3> QED BY <1>1, <1>3, <3>1, AppendContiguous
  <2> HIDE DEF s
  <2> QED BY <1>1, <2>1, <2>2, KeptIsContiguous DEF InstructionEvent
<1>6. CASE r # "program" /\ role = "program"
  <2>1. events' = LastOf(Append(events, GapEvent), MaxEvents)
    <3>1. events \o <<GapEvent>> = Append(events, GapEvent)
      BY <1>1, <1>2
    <3> QED BY <1>1, <1>6, <3>1 DEF Trace, GapEvent
  <2> QED BY <1>1, <1>3, <1>6, <2>1, KeptIsContiguous
<1>7. CASE r # "program" /\ role # "program"
  <2>1. events' = LastOf(events, MaxEvents)
    <3>1. events \o <<>> = events
      BY <1>2
    <3> QED BY <1>1, <1>7, <3>1 DEF Trace
  <2> QED BY <1>1, <1>2, <1>7, <2>1, KeptIsContiguous
<1> QED BY <1>4, <1>5, <1>6, <1>7

TraceInv == role \in Roles /\ Len(events) <= MaxEvents /\ TraceOK /\ TraceIsContiguous

\* Every step keeps the trace.
LEMMA TracePreserved ==
  ASSUME IInv, Same, Next \/ UNCHANGED vars
  PROVE  TraceInv'
<1>1. MaxEvents' = MaxEvents
  BY ParametersStay
<1>2. CASE UNCHANGED <<count, role, events>>
  BY <1>1, <1>2 DEF IInv, TypeOK, TraceInv, TraceOK, TraceIsContiguous, Roles
<1>3. ASSUME NEW r \in Roles, Hook(r)
      PROVE  TraceInv'
  <2>1. role' = r
    BY <1>3 DEF Hook
  <2> QED BY <1>1, <1>3, <2>1, HookTraces DEF TraceInv, TraceOK, TraceIsContiguous, Contiguous, Roles
<1>4. CASE Between \/ Stopped \/ Step \/ RunSlice \/ Return \/ UNCHANGED vars
  BY <1>2, <1>4 DEF Between, Stopped, MarkRunning, Pause, Type, OutOfBudget, Undecodable, Step, RunSlice,
                    Return, vars
<1>5. ASSUME NEW r \in Roles, Executed(r)
      PROVE  TraceInv'
  BY <1>3, <1>5 DEF Executed, Instruction, Faulting
<1>6. CASE SystemCall
  BY <1>3, <1>6, SystemCallShape DEF Served1
<1> QED BY <1>4, <1>5, <1>6 DEF Next, Between, Stopped, Executed
-----------------------------------------------------------------------------
(***************************************************************************)
(* What the process keeps of the system calls                              *)
(***************************************************************************)
Reads == \E n \in Counts, fault \in BOOLEAN : ReadStdin(n, fault)
MovesDescriptors ==
  \/ \E fd \in Descriptors, n \in Counts, fault \in BOOLEAN : ReadFile(fd, n, fault)
  \/ \E found \in BOOLEAN : Open(found)
  \/ \E fd \in Descriptors : Close(fd)
  \/ \E fd \in Descriptors, offset \in -1 .. FileSize, whence \in {"set", "cur", "end"} : Lseek(fd, offset, whence)
Writes ==
  \E fd \in Descriptors, n \in Counts, fault \in BOOLEAN :
    LinuxWrite(fd, n, fault) \/ MachineWrite(fd, n, fault) \/ \E m \in Counts : Writev(fd, <<n, m>>, fault)

input == <<stdin, typed, received>>
table == <<fds, nextFd>>

\* A system call reads stdin, moves a descriptor, writes, or leaves all of these alone.
LEMMA SystemCallTouches ==
  ASSUME SystemCall
  PROVE  /\ Reads \/ UNCHANGED input
         /\ MovesDescriptors \/ UNCHANGED table
         /\ Writes \/ UNCHANGED output
<1> DEFINE Goal == /\ Reads \/ UNCHANGED input
                   /\ MovesDescriptors \/ UNCHANGED table
                   /\ Writes \/ UNCHANGED output
<1> USE DEF Fails, Answers, Trapped, Returns, process, input, table
<1>1. CASE Exit \/ Unserved \/ Immediate \/ Refuse \/ MachineRead
  BY <1>1 DEF Exit, Unserved, Immediate, Refuse, MachineRead
<1>2. ASSUME NEW fd \in Descriptors, NEW n \in Counts, NEW fault \in BOOLEAN,
             LinuxWrite(fd, n, fault) \/ MachineWrite(fd, n, fault)
      PROVE  Goal
  <2>1. Writes
    BY <1>2 DEF Writes
  <2>2. UNCHANGED <<input, table>>
    BY <1>2 DEF LinuxWrite, MachineWrite
  <2> QED BY <2>1, <2>2
<1>3. ASSUME NEW fd \in Descriptors, NEW n \in Counts, NEW m \in Counts, NEW fault \in BOOLEAN,
             Writev(fd, <<n, m>>, fault)
      PROVE  Goal
  <2>1. Writes
    BY <1>3 DEF Writes
  <2>2. UNCHANGED <<input, table>>
    BY <1>3 DEF Writev
  <2> QED BY <2>1, <2>2
<1>4. ASSUME NEW fd \in Descriptors, NEW n \in Counts, NEW fault \in BOOLEAN, ReadFile(fd, n, fault)
      PROVE  Goal
  <2>1. MovesDescriptors
    BY <1>4 DEF MovesDescriptors
  <2>2. UNCHANGED <<input, output>>
    BY <1>4 DEF ReadFile
  <2> QED BY <2>1, <2>2
<1>5. ASSUME NEW fd, NEW n, NEW offset, NEW fault, Pread(fd, n, offset, fault)
      PROVE  Goal
  BY <1>5 DEF Pread
<1>6. ASSUME NEW n \in Counts, NEW fault \in BOOLEAN, ReadStdin(n, fault)
      PROVE  Goal
  <2>1. Reads
    BY <1>6 DEF Reads
  <2>2. UNCHANGED <<table, output>>
    BY <1>6 DEF ReadStdin
  <2> QED BY <2>1, <2>2
<1>7. ASSUME NEW found \in BOOLEAN, Open(found)
      PROVE  Goal
  <2>1. MovesDescriptors
    BY <1>7 DEF MovesDescriptors
  <2>2. UNCHANGED <<input, output>>
    BY <1>7 DEF Open
  <2> QED BY <2>1, <2>2
<1>8. ASSUME NEW found, NEW other, NEW fault,
             Futex(found, other, fault) \/ Access(found, other) \/ Stat(found, fault)
      PROVE  Goal
  BY <1>8 DEF Futex, Access, Stat
<1>9. ASSUME NEW fd \in Descriptors, Close(fd)
      PROVE  Goal
  <2>1. MovesDescriptors
    BY <1>9 DEF MovesDescriptors
  <2>2. UNCHANGED <<input, output>>
    BY <1>9 DEF Close
  <2> QED BY <2>1, <2>2
<1>10. ASSUME NEW fd \in Descriptors, NEW offset \in -1 .. FileSize, NEW whence \in {"set", "cur", "end"},
              Lseek(fd, offset, whence)
       PROVE  Goal
  <2>1. MovesDescriptors
    BY <1>10 DEF MovesDescriptors
  <2>2. UNCHANGED <<input, output>>
    BY <1>10 DEF Lseek
  <2> QED BY <2>1, <2>2
<1> HIDE DEF Goal
<1>11. Goal
  BY <1>1, <1>2, <1>3, <1>4, <1>5, <1>6, <1>7, <1>8, <1>9, <1>10 DEF SystemCall, Goal
<1> QED BY <1>11 DEF Goal

Unread == SubSeq(stdin.bytes, stdin.cursor + 1, Len(stdin.bytes))
InputOK ==
  /\ stdin = [bytes |-> stdin.bytes, cursor |-> stdin.cursor]
  /\ stdin.bytes \in Seq(Nat) /\ received \in Seq(Nat)
  /\ stdin.cursor \in 0 .. Len(stdin.bytes) /\ typed \in 0 .. Typed
  /\ StdinInOrder

\* A byte typed is appended to what the guest has not read.
LEMMA TypingKeepsOrder ==
  ASSUME IInv, Same, Type
  PROVE  InputOK'
<1> DEFINE next == Append(Unread, typed + 1)
<1>1. InputOK /\ Typed \in Nat /\ Typed' = Typed
  BY Bounds, ParametersStay DEF IInv, TypeOK, ProcessOK, InputOK
<1>2. Unread \in Seq(Nat) /\ typed + 1 \in Nat /\ typed + 1 \in 0 .. Typed
  BY <1>1, SMTT(40) DEF InputOK, Unread, Type
<1>3. next \in Seq(Nat) /\ SubSeq(next, 1, Len(next)) = next
  BY <1>2, SubSeqFull
<1>4. received \o next = Append(received \o Unread, typed + 1)
  BY <1>1, <1>2 DEF InputOK
<1>5. Append([i \in 1 .. typed |-> i], typed + 1) = [i \in 1 .. typed + 1 |-> i]
  BY <1>1 DEF InputOK
<1>6. received \o Unread = [i \in 1 .. typed |-> i]
  BY <1>1 DEF InputOK, StdinInOrder, Unread
<1>7. stdin' = [bytes |-> next, cursor |-> 0] /\ received' = received /\ typed' = typed + 1
  BY DEF Type, Unread
<1> HIDE DEF next
<1>8. SubSeq(stdin'.bytes, stdin'.cursor + 1, Len(stdin'.bytes)) = next
  BY <1>3, <1>7
<1>9. StdinInOrder'
  BY <1>4, <1>5, <1>6, <1>7, <1>8 DEF StdinInOrder
<1>10. stdin' = [bytes |-> stdin'.bytes, cursor |-> stdin'.cursor] /\ stdin'.cursor \in 0 .. Len(stdin'.bytes)
  BY <1>3, <1>7
<1> QED BY <1>1, <1>2, <1>3, <1>7, <1>9, <1>10 DEF InputOK

\* A sequence cut in two, behind another one.
LEMMA CutBehind ==
  ASSUME NEW r \in Seq(Nat), NEW b \in Seq(Nat), NEW c \in 0 .. Len(b), NEW a \in 0 .. Len(b) - c
  PROVE  /\ SubSeq(b, c + 1, c + a) \in Seq(Nat) /\ r \o SubSeq(b, c + 1, c + a) \in Seq(Nat)
         /\ (r \o SubSeq(b, c + 1, c + a)) \o SubSeq(b, c + a + 1, Len(b)) = r \o SubSeq(b, c + 1, Len(b))
<1> DEFINE front == SubSeq(b, c + 1, c + a)
           rest == SubSeq(b, c + a + 1, Len(b))
<1>1. front \in Seq(Nat) /\ rest \in Seq(Nat)
  <2>1. c + 1 \in Int /\ c + a \in Int /\ c + a + 1 \in Int /\ Len(b) \in Int
    OBVIOUS
  <2>2. (\A i \in c + 1 .. c + a : b[i] \in Nat) /\ (\A i \in c + a + 1 .. Len(b) : b[i] \in Nat)
    OBVIOUS
  <2> QED BY <2>1, <2>2, SubSeqProperties
<1>2. front \o rest = SubSeq(b, c + 1, Len(b))
  <2>1. c + 1 \in 1 .. Len(b) + 1 /\ c + a \in (c + 1) - 1 .. Len(b) /\ Len(b) \in c + a .. Len(b)
    OBVIOUS
  <2> QED BY <2>1, ConcatAdjacentSubSeq
<1> HIDE DEF front, rest
<1>3. (r \o front) \o rest = r \o (front \o rest) /\ r \o front \in Seq(Nat)
  <2>1. (r \o front) \o rest = r \o (front \o rest)
    BY <1>1, ConcatAssociative, SMTT(40)
  <2>2. r \o front \in Seq(Nat)
    BY <1>1, ConcatProperties
  <2> QED BY <2>1, <2>2
<1> QED BY <1>1, <1>2, <1>3 DEF front, rest

\* What a read delivers is the front of what the guest has not read.
LEMMA ReadingKeepsOrder ==
  ASSUME IInv, Same, NEW n \in Counts, NEW fault \in BOOLEAN, ReadStdin(n, fault)
  PROVE  InputOK'
<1>1. InputOK /\ Typed' = Typed /\ n \in Nat
  BY Bounds, ParametersStay DEF IInv, TypeOK, ProcessOK, InputOK, Counts
<1>2. CASE UNCHANGED input
  BY <1>1, <1>2 DEF InputOK, StdinInOrder, input
<1>3. ASSUME ~ UNCHANGED input
      PROVE  InputOK'
  <2> DEFINE b == stdin.bytes
             c == stdin.cursor
             available == Smallest(n, Len(b) - c)
  <2>1. b \in Seq(Nat) /\ c \in 0 .. Len(b) /\ received \in Seq(Nat) /\ available \in 0 .. Len(b) - c
    BY <1>1 DEF InputOK, Smallest
  <2>2. /\ stdin' = [stdin EXCEPT !.cursor = c + available]
        /\ received' = received \o SubSeq(b, c + 1, c + available) /\ typed' = typed
    BY <1>3 DEF ReadStdin, Trapped, process, input
  <2>3. stdin' = [bytes |-> b, cursor |-> c + available]
    BY <1>1, <2>2 DEF InputOK
  <2> HIDE DEF available
  <2>4. /\ received' \in Seq(Nat)
        /\ received' \o SubSeq(b, c + available + 1, Len(b)) = received \o SubSeq(b, c + 1, Len(b))
    BY <2>1, <2>2, CutBehind
  <2>5. stdin'.bytes = b /\ stdin'.cursor = c + available /\ c + available \in 0 .. Len(b)
    BY <2>1, <2>3
  <2>6. StdinInOrder'
    <3>1. StdinInOrder
      BY <1>1 DEF InputOK
    <3> QED BY <2>2, <2>4, <2>5, <3>1 DEF StdinInOrder
  <2> QED BY <1>1, <2>1, <2>2, <2>3, <2>4, <2>5, <2>6 DEF InputOK
<1> QED BY <1>2, <1>3

DescriptorsOK ==
  /\ nextFd \in Nat /\ nextFd >= 3
  /\ fds \in [DOMAIN fds -> 0 .. FileSize + 1] /\ DOMAIN fds \subseteq 3 .. nextFd - 1

\* What moving a descriptor does to its position: it advances by what was read,
\* or is where lseek says, and stays within the file and one byte.
LEMMA DescriptorMoves ==
  ASSUME IInv, Same, MovesDescriptors
  PROVE  /\ DescriptorsOK'
         /\ DOMAIN fds' \ DOMAIN fds \subseteq {nextFd}
         /\ \A fd \in DOMAIN fds \cap DOMAIN fds' :
              fds'[fd] # fds[fd] => result' \in {fds'[fd] - fds[fd], fds'[fd]} /\ fds'[fd] <= FileSize + 1
<1> DEFINE Moved == /\ DescriptorsOK'
                    /\ DOMAIN fds' \ DOMAIN fds \subseteq {nextFd}
                    /\ \A fd \in DOMAIN fds \cap DOMAIN fds' :
                         fds'[fd] # fds[fd] =>
                           result' \in {fds'[fd] - fds[fd], fds'[fd]} /\ fds'[fd] <= FileSize + 1
<1>1. /\ nextFd \in Nat /\ nextFd >= 3 /\ fds \in [DOMAIN fds -> 0 .. FileSize + 1]
      /\ DOMAIN fds \subseteq 3 .. nextFd - 1 /\ FileSize \in Nat /\ MaxIO \in Nat /\ FileSize' = FileSize
  BY Bounds, ParametersStay DEF IInv, TypeOK, ProcessOK
<1>2. CASE UNCHANGED table
  BY <1>1, <1>2 DEF table, DescriptorsOK
<1>3. ASSUME NEW fd \in Descriptors, NEW n \in Counts, NEW fault \in BOOLEAN, ReadFile(fd, n, fault), ~ UNCHANGED table
      PROVE  Moved
  <2> DEFINE a == Smallest(n, Remaining(fds[fd]))
  <2>1. fd \in DOMAIN fds /\ fds' = [fds EXCEPT ![fd] = @ + a] /\ result' = a /\ nextFd' = nextFd
    BY <1>3 DEF ReadFile, Fails, Trapped, Returns, process, table
  <2>2. a \in Nat /\ fds[fd] \in 0 .. FileSize + 1 /\ fds[fd] + a \in 0 .. FileSize + 1
    BY <1>1, <2>1 DEF Smallest, Remaining, Counts
  <2> HIDE DEF a
  <2>3. /\ DOMAIN fds' = DOMAIN fds /\ fds' \in [DOMAIN fds -> 0 .. FileSize + 1] /\ fds'[fd] = fds[fd] + a
        /\ \A d \in DOMAIN fds : d # fd => fds'[d] = fds[d]
    BY <1>1, <2>1, <2>2
  <2> QED BY <1>1, <2>1, <2>2, <2>3 DEF DescriptorsOK
<1>4. ASSUME NEW found \in BOOLEAN, Open(found), ~ UNCHANGED table
      PROVE  Moved
  <2>1. /\ nextFd' = nextFd + 1 /\ DOMAIN fds' = DOMAIN fds \cup {nextFd}
        /\ \A d \in DOMAIN fds \cup {nextFd} : fds'[d] = IF d = nextFd THEN 0 ELSE fds[d]
        /\ fds' = [d \in DOMAIN fds' |-> fds'[d]]
    BY <1>4 DEF Open, Fails, Returns, table
  <2>2. nextFd \notin DOMAIN fds
    BY <1>1
  <2>3. fds' \in [DOMAIN fds' -> 0 .. FileSize + 1]
    BY <1>1, <2>1
  <2> QED BY <1>1, <2>1, <2>2, <2>3 DEF DescriptorsOK
<1>5. ASSUME NEW fd \in Descriptors, Close(fd), ~ UNCHANGED table
      PROVE  Moved
  <2>1. nextFd' = nextFd /\ fds' = [d \in DOMAIN fds \ {fd} |-> fds[d]]
    BY <1>5 DEF Close, Fails, Returns, table
  <2> QED BY <1>1, <2>1 DEF DescriptorsOK
<1>6. ASSUME NEW fd \in Descriptors, NEW offset \in -1 .. FileSize, NEW whence \in {"set", "cur", "end"},
             Lseek(fd, offset, whence), ~ UNCHANGED table
      PROVE  Moved
  <2> DEFINE next == CASE whence = "set" -> offset
                       [] whence = "cur" -> fds[fd] + offset
                       [] whence = "end" -> FileSize + offset
  <2>1. /\ fd \in DOMAIN fds /\ ~ next < 0 /\ next <= FileSize + 1
        /\ fds' = [fds EXCEPT ![fd] = next] /\ result' = next /\ nextFd' = nextFd
    BY <1>6 DEF Lseek, Fails, Returns, table
  <2>2. fds[fd] \in Nat /\ offset \in Int
    BY <1>1, <2>1
  <2>3. next \in Int
    BY <1>1, <2>2
  <2> HIDE DEF next
  <2>4. /\ DOMAIN fds' = DOMAIN fds /\ fds' \in [DOMAIN fds -> 0 .. FileSize + 1] /\ fds'[fd] = next
        /\ \A d \in DOMAIN fds : d # fd => fds'[d] = fds[d]
    BY <1>1, <2>1, <2>3
  <2> QED BY <1>1, <2>1, <2>3, <2>4 DEF DescriptorsOK
<1> HIDE DEF Moved
<1>7. Moved
  BY <1>2, <1>3, <1>4, <1>5, <1>6 DEF MovesDescriptors, Moved
<1> QED BY <1>7 DEF Moved

ProcessInv == InputOK /\ DescriptorsOK

\* Input and descriptors are kept by every step.
LEMMA ProcessPreserved ==
  ASSUME IInv, Same, Next \/ UNCHANGED vars
  PROVE  ProcessInv'
<1>1. InputOK /\ DescriptorsOK /\ Typed' = Typed /\ FileSize' = FileSize
  BY Bounds, ParametersStay DEF IInv, TypeOK, ProcessOK, InputOK, DescriptorsOK
<1>2. UNCHANGED input => InputOK'
  BY <1>1 DEF InputOK, StdinInOrder, input
<1>3. UNCHANGED table => DescriptorsOK'
  BY <1>1 DEF DescriptorsOK, table
<1>4. CASE Type
  <2>1. UNCHANGED table
    BY <1>4 DEF Type, table
  <2> QED BY <1>3, <1>4, <2>1, TypingKeepsOrder DEF ProcessInv
<1>5. CASE SystemCall
  BY <1>2, <1>3, <1>5, SystemCallTouches, ReadingKeepsOrder, DescriptorMoves DEF ProcessInv, Reads
<1>6. CASE UNCHANGED process
  BY <1>2, <1>3, <1>6 DEF ProcessInv, process, input, table
<1>7. CASE MarkRunning \/ Pause \/ Stopped \/ Step \/ RunSlice \/ Return \/ UNCHANGED vars
  BY <1>6, <1>7 DEF Stopped, MarkRunning, Pause, OutOfBudget, Undecodable, Step, RunSlice, Return, vars
<1>8. ASSUME NEW r \in Roles, Executed(r)
      PROVE  ProcessInv'
  BY <1>6, <1>8 DEF Executed, Instruction, Faulting
<1> QED BY <1>4, <1>5, <1>7, <1>8 DEF Next, Stopped, Executed

-----------------------------------------------------------------------------
(***************************************************************************)
(* The invariant                                                           *)
(***************************************************************************)
\* The parts are the invariant.
LEMMA PartsAreInvariant ==
  /\ setup \in Setups /\ ControlOK /\ TraceInv /\ ProcessInv => IInv
  /\ IInv => UnicornIsFollowed
<1>1. ASSUME setup \in Setups, ControlOK, TraceInv, ProcessInv
      PROVE  IInv
  BY <1>1 DEF IInv, ControlOK, TraceInv, ProcessInv, InputOK, DescriptorsOK, TypeOK, ProcessOK
<1>2. IInv => UnicornIsFollowed
  BY DEF IInv, UnicornIsFollowed
<1> QED BY <1>1, <1>2

\* Every session starts in it.
LEMMA InitInvariant == Init => IInv
<1> SUFFICES ASSUME Init PROVE IInv
  OBVIOUS
<1>1. /\ setup \in Setups /\ status = "ready" /\ count = 0 /\ call = None /\ left = 0 /\ role = None
      /\ events = <<>> /\ stdin = [bytes |-> <<>>, cursor |-> 0] /\ typed = 0 /\ received = <<>>
      /\ fds = <<>> /\ nextFd = 3
  BY DEF Init
<1>2. Limit \in Nat /\ Slice \in Nat /\ MaxEvents \in Nat /\ FileSize \in Nat /\ Typed \in Nat
  BY <1>1, UnicornAssumption DEF UnicornAssumption, Limit, Slice, MaxEvents, FileSize, Typed
<1>3. ControlOK
  BY <1>1, <1>2 DEF ControlOK, CallOK
<1>4. TraceInv
  BY <1>1, <1>2 DEF TraceInv, TraceOK, TraceIsContiguous, Roles
<1>5. InputOK
  <2>1. stdin.bytes = <<>> /\ stdin.cursor = 0 /\ Len(<<>>) = 0
    BY <1>1
  <2>2. received \o SubSeq(<<>>, 1, 0) = [i \in 1 .. typed |-> i]
    BY <1>1
  <2>3. StdinInOrder
    BY <2>1, <2>2 DEF StdinInOrder
  <2> QED BY <1>1, <1>2, <2>1, <2>3 DEF InputOK
<1>6. DescriptorsOK
  BY <1>1, <1>2 DEF DescriptorsOK
<1> QED BY <1>1, <1>3, <1>4, <1>5, <1>6, PartsAreInvariant DEF ProcessInv

\* Every step keeps it.
LEMMA StepInvariant == IInv /\ [Next]_vars => IInv'
<1> SUFFICES ASSUME IInv, [Next]_vars PROVE IInv'
  OBVIOUS
<1>1. Next \/ UNCHANGED vars
  OBVIOUS
<1>2. Same /\ setup' \in Setups
  BY <1>1 DEF Next, Same, vars, IInv
<1>3. ControlOK' /\ TraceInv' /\ ProcessInv'
  BY <1>1, <1>2, ControlPreserved, TracePreserved, ProcessPreserved
<1> QED BY <1>2, <1>3 DEF IInv, ControlOK, TraceInv, ProcessInv, InputOK, DescriptorsOK, TypeOK, ProcessOK

\* The invariant holds in every state of every behaviour.
LEMMA Invariance == Spec => []IInv
<1>1. Init => IInv
  BY InitInvariant
<1>2. IInv /\ [Next]_vars => IInv'
  BY StepInvariant
<1> QED BY <1>1, <1>2, PTL DEF Spec

\* Whatever the policy and whatever the guest does, instructions next to each other
\* in the trace ran one after the other, and the guest reads the bytes in the order
\* they were typed, each of them once.
THEOREM GuestIsFollowed == Spec => []UnicornIsFollowed
<1>1. IInv => UnicornIsFollowed
  BY PartsAreInvariant
<1> QED BY <1>1, Invariance, PTL

-----------------------------------------------------------------------------
(***************************************************************************)
(* What a call reports                                                     *)
(***************************************************************************)
Reported == IF call.name = "step" THEN Interface!StepOutcomes(call.found) ELSE Interface!SliceOutcomes(call.found)

\* The records of the interface.
GuestStatuses == {"ready", "running", "paused"} \cup Terminal
GuestProviders == {"linux", "machine"}
Guest(p, s, used) ==
  [target |-> "program", provider |-> p, status |-> s, mode |-> "none", used |-> used, live |-> TRUE]
GuestType ==
  [target : {"program"}, provider : GuestProviders, status : GuestStatuses,
   mode : {"none"}, used : Nat, live : {TRUE}]

\* Records with the same fields are the same.
LEMMA GuestExtensionality ==
  ASSUME NEW x \in GuestType, NEW y \in GuestType,
         x.provider = y.provider, x.status = y.status, x.used = y.used
  PROVE  x = y
<1>1. x.target = y.target /\ x.mode = y.mode /\ x.live = y.live
  BY DEF GuestType
<1>2. ASSUME NEW A, NEW B, NEW C, NEW D, NEW E, NEW F,
             NEW v \in [target : A, provider : B, status : C, mode : D, used : E, live : F],
             NEW w \in [target : A, provider : B, status : C, mode : D, used : E, live : F],
             v.target = w.target, v.provider = w.provider, v.status = w.status, v.mode = w.mode,
             v.used = w.used, v.live = w.live
      PROVE  v = w
  BY <1>2
<1> DEFINE Ts == {"program"}
           Ps == GuestProviders
           Ss == GuestStatuses
           Ms == {"none"}
           Ls == {TRUE}
<1>3. /\ x \in [target : Ts, provider : Ps, status : Ss, mode : Ms, used : Nat, live : Ls]
      /\ y \in [target : Ts, provider : Ps, status : Ss, mode : Ms, used : Nat, live : Ls]
  BY DEF GuestType
<1> HIDE DEF Ts, Ps, Ss, Ms, Ls
<1> QED BY <1>1, <1>2, <1>3

\* The fields of such a record.
LEMMA GuestFields ==
  ASSUME NEW p \in GuestProviders, NEW s \in GuestStatuses, NEW used \in Nat
  PROVE  /\ Guest(p, s, used) \in GuestType
         /\ Guest(p, s, used).provider = p /\ Guest(p, s, used).status = s /\ Guest(p, s, used).used = used
  BY DEF Guest, GuestType

\* The interface lists what a step comes to: a trap that counts nothing, or one
\* instruction and an end or a rest.
LEMMA StepOutcomesListed ==
  ASSUME Limit \in Nat, NEW p \in GuestProviders, NEW s \in {"ready", "running", "paused"},
         NEW used \in 0 .. Limit, NEW x, x = Guest(p, s, used),
         NEW n \in {used, used + 1}, n <= Limit,
         NEW t, n = used => t = "trapped",
         n # used => t \in {"exited", "trapped", IF p = "machine" /\ n = Limit THEN "trapped" ELSE "paused"}
  PROVE  Guest(p, t, n) \in Interface!StepOutcomes(x)
<1>1. /\ s \in GuestStatuses /\ t \in GuestStatuses
      /\ used \in Nat /\ n \in Nat
  BY DEF GuestStatuses, Terminal
<1>2. x \in GuestType /\ x.provider = p /\ x.status = s /\ x.used = used
  BY <1>1, GuestFields
<1>3. Guest(p, t, n) \in Interface!UnicornSteps(x)
  <2>1. CASE n = used
    <3>1. t = "trapped" /\ n = used
      BY <2>1
    <3>2. ASSUME NEW z, z = [x EXCEPT !.status = "trapped"]
          PROVE  Guest(p, t, used) = z
      <4>1. z \in GuestType /\ z.provider = p /\ z.status = t /\ z.used = used
        BY <1>1, <1>2, <3>1, <3>2 DEF GuestType
      <4> QED BY <1>1, <4>1, GuestFields, GuestExtensionality
    <3>3. [x EXCEPT !.status = "trapped"] \in Interface!UnicornSteps(x)
      BY Zenon DEF Interface!UnicornSteps
    <3> QED BY <3>1, <3>2, <3>3, Zenon
  <2>2. CASE n # used
    <3>1. x.used # Limit /\ Interface!Capped(x.used + 1) = n
      BY <1>2, <2>2 DEF Interface!Capped
    <3>2. ASSUME NEW z, z = [x EXCEPT !.used = Interface!Capped(x.used + 1), !.status = t]
          PROVE  Guest(p, t, n) = z
      <4>1. z \in GuestType /\ z.provider = p /\ z.status = t /\ z.used = n
        BY <1>1, <1>2, <3>2, <3>1 DEF GuestType
      <4> QED BY <1>1, <4>1, GuestFields, GuestExtensionality
    <3>3. t \in {"exited", "trapped"} \cup
                {IF x.provider = "machine" /\ x.used + 1 = Limit THEN "trapped" ELSE "paused"}
      BY <1>2, <2>2
    <3>4. [x EXCEPT !.used = Interface!Capped(x.used + 1), !.status = t] \in Interface!UnicornSteps(x)
      BY <3>1, <3>3, Zenon DEF Interface!UnicornSteps
    <3> QED BY <3>2, <3>4, Zenon
  <2> QED BY <2>1, <2>2
<1> QED BY <1>2, <1>3 DEF Interface!StepOutcomes, Interface!Terminal, GuestProviders

\* And what a slice comes to: up to Slice instructions, or none and a trap.
LEMMA SliceOutcomesListed ==
  ASSUME Limit \in Nat, Slice \in Nat, NEW p \in GuestProviders, NEW s \in {"ready", "running", "paused"},
         NEW used \in 0 .. Limit, NEW x, x = Guest(p, s, used),
         NEW n \in used .. used + Slice, n <= Limit,
         NEW t, n = used => t = "trapped",
         n # used => t \in {"exited", "trapped", IF n = Limit THEN "trapped" ELSE "running"}
  PROVE  Guest(p, t, n) \in Interface!SliceOutcomes(x)
<1> DEFINE y == Interface!MarkedRunning(x)
<1>1. /\ s \in GuestStatuses /\ t \in GuestStatuses
      /\ used \in Nat /\ n \in Nat /\ "running" \in GuestStatuses
  BY DEF GuestStatuses, Terminal
<1>2. x \in GuestType /\ x.provider = p /\ x.status = s /\ x.used = used
  BY <1>1, GuestFields
<1>3. y = Guest(p, "running", used)
  <2>1. CASE s = "running"
    BY <1>2, <2>1 DEF Interface!MarkedRunning
  <2>2. CASE s # "running"
    <3>1. Interface!MarkedRunning(x) = [x EXCEPT !.status = "running"]
      BY <1>2, <2>2 DEF Interface!MarkedRunning
    <3>2. ASSUME NEW z, z = [x EXCEPT !.status = "running"]
          PROVE  Guest(p, "running", used) = z
      <4>1. z \in GuestType /\ z.provider = p /\ z.status = "running" /\ z.used = used
        BY <1>1, <1>2, <3>2 DEF GuestType
      <4> QED BY <1>1, <4>1, GuestFields, GuestExtensionality
    <3> QED BY <3>1, <3>2, Zenon
  <2> QED BY <2>1, <2>2
<1> HIDE DEF y
<1>4. y \in GuestType /\ y.provider = p /\ y.status = "running" /\ y.used = used
  BY <1>1, <1>3, GuestFields
<1>5. Guest(p, t, n) \in Interface!UnicornSlices(y)
  <2>1. CASE n = used
    <3>1. t = "trapped" /\ n = used
      BY <2>1
    <3>2. ASSUME NEW z, z = [y EXCEPT !.status = "trapped"]
          PROVE  Guest(p, t, used) = z
      <4>1. z \in GuestType /\ z.provider = p /\ z.status = t /\ z.used = used
        BY <1>1, <1>4, <3>1, <3>2 DEF GuestType
      <4> QED BY <1>1, <4>1, GuestFields, GuestExtensionality
    <3>3. [y EXCEPT !.status = "trapped"] \in Interface!UnicornSlices(y)
      BY Zenon DEF Interface!UnicornSlices
    <3> QED BY <3>1, <3>2, <3>3, Zenon
  <2>2. CASE n # used
    <3> DEFINE m == n - used
    <3>1. m \in 1 .. Slice /\ y.used # Limit /\ Interface!Capped(y.used + m) = n
      BY <1>4, <2>2 DEF Interface!Capped
    <3>2. ASSUME NEW z, z = [y EXCEPT !.used = Interface!Capped(y.used + m), !.status = t]
          PROVE  Guest(p, t, n) = z
      <4>1. z \in GuestType /\ z.provider = p /\ z.status = t /\ z.used = n
        BY <1>1, <1>4, <3>2, <3>1 DEF GuestType
      <4> QED BY <1>1, <4>1, GuestFields, GuestExtensionality
    <3>3. t \in {"exited", "trapped"} \cup
                {IF Interface!Capped(y.used + m) = Limit THEN "trapped" ELSE "running"}
      BY <2>2, <3>1
    <3> HIDE DEF m
    <3> DEFINE Ends(k) == {[y EXCEPT !.used = k, !.status = e] :
                            e \in {"exited", "trapped"} \cup {IF k = Limit THEN "trapped" ELSE "running"}}
    <3>4. [y EXCEPT !.used = Interface!Capped(y.used + m), !.status = t] \in Ends(Interface!Capped(y.used + m))
      BY <3>3, Zenon
    <3>5. Interface!UnicornSlices(y) =
            {[y EXCEPT !.status = "trapped"]} \cup UNION {Ends(Interface!Capped(y.used + k)) : k \in 1 .. Slice}
      BY <3>1, Zenon DEF Interface!UnicornSlices
    <3> HIDE DEF Ends
    <3>6. [y EXCEPT !.used = Interface!Capped(y.used + m), !.status = t] \in Interface!UnicornSlices(y)
      BY <3>1, <3>4, <3>5, Zenon
    <3> QED BY <3>2, <3>6, Zenon
  <2> QED BY <2>1, <2>2
<1>6. Guest(p, t, n) \in Interface!SliceOutcomes(x)
  BY <1>4, <1>5 DEF Interface!SliceOutcomes, y, GuestProviders
<1> QED BY <1>6

\* A call reports what it comes to.
LEMMA ReturnReports ==
  ASSUME IInv, Same, Return
  PROVE  Seen' \in Reported
<1> DEFINE s == call.found.status
           used == call.found.used
<1>1. /\ Limit \in Nat /\ Slice \in Nat /\ count \in 0 .. Limit /\ used \in 0 .. Limit
      /\ s \in {"ready", "running", "paused"} /\ Provider \in {"linux", "machine"}
      /\ call.found = Guest(Provider, s, used)
  BY NumbersOK, Bounds DEF Numbers, IInv, CallOK, FoundOK, Return, Guest
<1>2. Seen' = Guest(Provider, status', count)
  <2>1. Provider' = Provider /\ count' = count
    BY ParametersStay DEF Return
  <2> QED BY <2>1 DEF Seen, Guest
<1>3. CASE call.name = "step"
  <2>1. /\ count - used \in 0 .. 1 /\ (count = used => status = "trapped")
        /\ status \in {"paused", "exited", "trapped"}
    BY <1>1, <1>3 DEF IInv, CallOK, Return, Ran
  <2>2. status' = IF status # "paused" THEN status
                  ELSE IF count = Limit /\ Provider = "machine" THEN "trapped" ELSE "paused"
    BY <1>1, <1>3, <2>1 DEF Return, Terminal
  <2>3. count \in {used, used + 1}
    BY <1>1, <2>1
  <2> HIDE DEF s, used
  <2> QED BY <1>1, <1>2, <1>3, <2>1, <2>2, <2>3, StepOutcomesListed DEF Reported, GuestProviders
<1>4. CASE call.name = "slice"
  <2>1. /\ count - used \in 0 .. Slice /\ (count = used => status = "trapped")
        /\ status \in {"running", "exited", "trapped"}
    BY <1>1, <1>4 DEF IInv, CallOK, Return, Ran
  <2>2. status' = IF status # "running" THEN status ELSE IF count = Limit THEN "trapped" ELSE "running"
    BY <1>1, <1>4, <2>1 DEF Return, Terminal
  <2>3. count \in used .. used + Slice
    BY <1>1, <2>1
  <2> HIDE DEF s, used
  <2> QED BY <1>1, <1>2, <1>4, <2>1, <2>2, <2>3, SliceOutcomesListed DEF Reported, GuestProviders
<1>5. call.name \in {"step", "slice"}
  BY DEF IInv, CallOK, FoundOK, Return
<1> QED BY <1>3, <1>4, <1>5

\* Only a return ends a call.
LEMMA ReturnsEndCalls ==
  ASSUME IInv, Next, call # None, call' = None
  PROVE  Return
<1>1. ASSUME NEW r, Hook(r)
      PROVE  FALSE
  BY <1>1 DEF Hook
<1>2. ASSUME NEW r, Executed(r)
      PROVE  FALSE
  BY <1>1, <1>2 DEF Executed, Instruction, Faulting
<1>3. ~ SystemCall
  BY <1>1, SystemCallShape DEF Served1
<1>4. ~ (Between \/ Stopped \/ Step \/ RunSlice)
  BY DEF Between, Stopped, MarkRunning, Pause, Type, OutOfBudget, Undecodable, Step, RunSlice
<1> QED BY <1>2, <1>3, <1>4 DEF Next, Between, Stopped, Executed

\* While no call is under way the guest does not move.
LEMMA NothingRunsBetween ==
  ASSUME Next, call = None, status \in Terminal
  PROVE  Evidence' = Evidence
<1>1. ASSUME NEW r, Hook(r)
      PROVE  FALSE
  BY <1>1 DEF Hook, Running
<1>2. ASSUME NEW r, Executed(r)
      PROVE  FALSE
  BY <1>1, <1>2 DEF Executed, Instruction, Faulting
<1>3. ~ SystemCall
  BY <1>1, SystemCallShape DEF Served1
<1>4. ~ (Stopped \/ Step \/ RunSlice \/ Return)
  BY DEF Stopped, OutOfBudget, Undecodable, Running, Step, RunSlice, Return
<1>5. CASE Between
  BY <1>5 DEF Between, MarkRunning, Pause, Type, Evidence, process, Terminal
<1> QED BY <1>2, <1>3, <1>4, <1>5 DEF Next, Between, Stopped, Executed

\* What the three writes have in common.
LEMMA WritesReturnThem ==
  ASSUME SystemCall, output' # output
  PROVE  output' = output + result' /\ status' = status
<1> USE DEF Fails, Answers, Trapped, Returns, process
<1>1. ASSUME NEW fd, NEW n, NEW fault, LinuxWrite(fd, n, fault) \/ MachineWrite(fd, n, fault)
      PROVE  output' = output + result' /\ status' = status
  BY <1>1 DEF LinuxWrite, MachineWrite
<1>2. ASSUME NEW fd, NEW counts, NEW fault, Writev(fd, counts, fault)
      PROVE  output' = output + result' /\ status' = status
  <2>1. output' = output + Total(counts) /\ Returns(Total(counts))
    BY <1>2 DEF Writev
  <2> QED BY <2>1
<1> QED BY <1>1, <1>2, SystemCallTouches DEF Writes

\* What the five action properties say of a step.
Honest ==
  /\ call # None /\ call' = None => Seen' \in Reported
  /\ call = None /\ status \in Terminal => Evidence' = Evidence
  /\ output' # output => output' = output + result' /\ status' = status
  /\ \A fd \in DOMAIN fds \cap DOMAIN fds' :
       fds'[fd] # fds[fd] => result' \in {fds'[fd] - fds[fd], fds'[fd]} /\ fds'[fd] <= FileSize + 1
  /\ DOMAIN fds' \ DOMAIN fds \subseteq {nextFd}

\* Every step is honest.
LEMMA StepsAreHonest ==
  ASSUME IInv, Next
  PROVE  Honest
<1>1. Same
  BY DEF Next, Same
<1>2. CASE SystemCall
  <2>1. call # None /\ call' = call
    BY <1>2, SystemCallShape DEF Served1, Hook, Running
  <2>2. output' # output => output' = output + result' /\ status' = status
    BY <1>2, WritesReturnThem
  <2> QED BY <1>1, <1>2, <2>1, <2>2, SystemCallTouches, DescriptorMoves DEF Honest, table
<1>3. CASE ~ SystemCall
  <2>1. ASSUME NEW r \in Roles, Executed(r)
        PROVE  UNCHANGED <<output, fds, nextFd>>
    BY <2>1 DEF Executed, Instruction, Faulting, process
  <2>2. UNCHANGED <<output, fds, nextFd>>
    BY <1>3, <2>1 DEF Next, Executed, MarkRunning, Pause, Type, OutOfBudget, Undecodable, Step, RunSlice,
                      Return, process
  <2> QED BY <1>1, <2>2, ReturnsEndCalls, ReturnReports, NothingRunsBetween DEF Honest
<1> QED BY <1>2, <1>3

\* Whatever the guest does, a call of step or runSlice reports what the controller
\* was proved for; an end is final; a write returns what it wrote and a trap writes
\* nothing; a read moves its own position by what it delivered; and a descriptor
\* that was closed does not name another file.
THEOREM SessionsAreHonest == Spec => CallsAreHonest
<1>1. IInv /\ [Next]_vars => [Honest]_vars
  BY StepsAreHonest
<1>2. [Honest]_vars => [call # None /\ call' = None =>
                          Seen' \in (IF call.name = "step" THEN Interface!StepOutcomes(call.found)
                                     ELSE Interface!SliceOutcomes(call.found))]_vars
  BY DEF Honest, Reported
<1>3. [Honest]_vars => [call = None /\ status \in Terminal => Evidence' = Evidence]_vars
  BY DEF Honest
<1>4. [Honest]_vars => [output' # output => output' = output + result' /\ status' = status]_vars
  BY DEF Honest
<1>5. [Honest]_vars =>
        [\A fd \in DOMAIN fds \cap DOMAIN fds' :
           fds'[fd] # fds[fd] => result' \in {fds'[fd] - fds[fd], fds'[fd]} /\ fds'[fd] <= FileSize + 1]_vars
  BY DEF Honest
<1>6. [Honest]_vars => [DOMAIN fds' \ DOMAIN fds \subseteq {nextFd}]_vars
  BY DEF Honest
<1>7. Spec => [][Honest]_vars
  BY <1>1, Invariance, PTL DEF Spec
<1>8. [][Honest]_vars => Contract
  BY <1>2, PTL DEF Contract
<1>9. [][Honest]_vars => EndIsFinal
  BY <1>3, PTL DEF EndIsFinal
<1>10. [][Honest]_vars => WritesWhatItReturns
  BY <1>4, PTL DEF WritesWhatItReturns
<1>11. [][Honest]_vars => PositionIsTrue
  BY <1>5, PTL DEF PositionIsTrue
<1>12. [][Honest]_vars => DescriptorsNotReused
  BY <1>6, PTL DEF DescriptorsNotReused
<1> QED BY <1>7, <1>8, <1>9, <1>10, <1>11, <1>12, PTL DEF CallsAreHonest
===============================================================================
