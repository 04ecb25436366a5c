---------------------------- MODULE UnicornSession ----------------------------
(***************************************************************************)
(* The two Unicorn providers from the inside: UnicornLinuxProcessSession    *)
(* ("linux") and UnicornMachineSession ("machine").  A call of step or      *)
(* runSlice starts the engine for a number of instructions; a hook runs     *)
(* before each of them, counts it, records it and serves system calls.      *)
(* ExecutionSession describes the same providers by what a call may report. *)
(*                                                                          *)
(* Calls are synchronous: pause, markRunning and typed input come between   *)
(* them.  An instruction is the image it belongs to; a system call is its   *)
(* arguments.  Guest memory is left out: an access is good or faults.  The  *)
(* address space is that of LinuxAddressSpace and of MachineMemory.         *)
(***************************************************************************)
EXTENDS Integers, Sequences, FiniteSets, SequencesExt

CONSTANTS Setups, None

\* A setup is a provider with the bounds of an instance; it never changes.
UnicornAssumption ==
  \A s \in Setups :
    /\ s.provider \in {"linux", "machine"} /\ s.limit \in Nat \ {0} /\ s.slice \in Nat \ {0}
    /\ \A n \in {s.events, s.io, s.file, s.typed, s.fds} : n \in Nat
ASSUME UnicornAssumption

\* A call is its name and the session it found, as the controller sees it.
CallType ==
  [name : {"step", "slice"},
   found : [target : {"program"}, provider : {"linux", "machine"}, status : {"ready", "running", "paused"},
            mode : {"none"}, used : Nat, live : {TRUE}]]
ASSUME NoneAssumption == None \notin CallType

VARIABLES
  setup,
  status, count,
  call,     \* None, or the call under way: its name and the session it found
  left,     \* instructions the engine may still start
  role,     \* image of the last instruction recorded
  events,   \* trace: instructions, by number, and gaps
  stdin,    \* [bytes, cursor]
  typed,    \* bytes typed so far
  received, \* bytes the guest read from stdin
  output,   \* bytes of stdout and stderr
  fds,      \* open descriptors: file position
  nextFd,
  result    \* what the last system call returned

process == <<stdin, typed, received, output, fds, nextFd, result>>
vars == <<setup, status, count, call, left, role, events, process>>

Provider == setup.provider   \* "linux" or "machine"
Limit == setup.limit         \* policy.maxInstructions
Slice == setup.slice         \* instructions of one runSlice
MaxEvents == setup.events    \* events kept, 600 in the code
MaxIO == setup.io            \* MAX_IO_BYTES
FileSize == setup.file       \* bytes of a file of the process
Typed == setup.typed         \* bound on the bytes typed
MaxFds == setup.fds          \* bound on the descriptors opened
Served == setup.served       \* the system calls the guest makes

Terminal == {"exited", "halted", "trapped"}
Roles == {"program", "dependency", None}

\* The interface as the controller sees it.
Interface == INSTANCE ExecutionSession WITH Ends <- {"exited", "trapped"}
Seen == [target |-> "program", provider |-> Provider, status |-> status, mode |-> "none",
         used |-> count, live |-> TRUE]

Smallest(a, b) == IF a < b THEN a ELSE b
LastOf(s, n) == IF Len(s) <= n THEN s ELSE SubSeq(s, Len(s) - n + 1, Len(s))

-----------------------------------------------------------------------------
(***************************************************************************)
(* Calls of the controller.                                                *)
(***************************************************************************)
MarkRunning ==
  /\ call = None
  /\ status' = IF status \in {"ready", "paused"} THEN "running" ELSE status
  /\ UNCHANGED <<count, call, left, role, events, process>>

Pause ==
  /\ call = None
  /\ status' = IF status = "running" THEN "paused" ELSE status
  /\ UNCHANGED <<count, call, left, role, events, process>>

Step ==
  /\ call = None /\ status \notin Terminal
  /\ call' = [name |-> "step", found |-> Seen]
  /\ status' = "paused" /\ left' = 1
  /\ UNCHANGED <<count, role, events, process>>

RunSlice ==
  /\ call = None /\ status \notin Terminal
  /\ call' = [name |-> "slice", found |-> Seen]
  /\ IF count >= Limit THEN status' = "trapped" /\ left' = 0
     ELSE status' = "running" /\ left' = Smallest(Slice, Limit - count)
  /\ UNCHANGED <<count, role, events, process>>

\* Mutant: a slice that is over rests in paused.
ReturnPaused ==
  /\ call # None /\ left = 0
  /\ status' = IF status \in Terminal THEN status ELSE IF count >= Limit THEN "trapped" ELSE "paused"
  /\ call' = None
  /\ UNCHANGED <<count, left, role, events, process>>

\* The engine has stopped: the call settles the status and returns.  Only the
\* machine session looks at the budget after a step.
Return ==
  /\ call # None /\ left = 0
  /\ status' = IF status \in Terminal THEN status
               ELSE IF count >= Limit /\ (call.name = "slice" \/ Provider = "machine") THEN "trapped"
               ELSE IF call.name = "step" THEN "paused" ELSE status
  /\ call' = None
  /\ UNCHANGED <<count, left, role, events, process>>

\* appendExecutionStdin keeps the unread bytes and starts over at the front.
Type ==
  /\ call = None /\ typed < Typed
  /\ typed' = typed + 1
  /\ stdin' = [bytes |-> Append(SubSeq(stdin.bytes, stdin.cursor + 1, Len(stdin.bytes)), typed + 1),
               cursor |-> 0]
  /\ UNCHANGED <<status, count, call, left, role, events, received, output, fds, nextFd, result>>

-----------------------------------------------------------------------------
(***************************************************************************)
(* The hook.                                                               *)
(***************************************************************************)
\* Mutant: leaving and entering the program leaves no gap.
TraceSeamless(r) ==
  IF r = "program" THEN LastOf(Append(events, [kind |-> "instruction", n |-> count + 1]), MaxEvents)
  ELSE events

\* The Linux session records the program only, and marks where it leaves and
\* where it comes back; the machine session has one image.
Trace(r) ==
  LET gap == <<[kind |-> "gap", n |-> 0]>>
      instruction == <<[kind |-> "instruction", n |-> count + 1]>>
  IN LastOf(events \o (IF r = "program" THEN (IF role # "program" THEN gap ELSE <<>>) \o instruction
                       ELSE IF role = "program" THEN gap ELSE <<>>), MaxEvents)

Stops(s) == left' = 0 /\ status' = s
Running == call # None /\ left > 0 /\ status \notin Terminal

\* The budget is exhausted before the instruction, which is not executed.
OutOfBudget ==
  /\ Running /\ count >= Limit
  /\ Stops("trapped")
  /\ UNCHANGED <<count, call, role, events, process>>

\* The bytes at RIP cannot be read or decoded.
Undecodable ==
  /\ Running /\ count < Limit
  /\ Stops("trapped")
  /\ UNCHANGED <<count, call, role, events, process>>

\* The hook counts and records the instruction, r its image.
Hook(r) ==
  /\ Running /\ count < Limit
  /\ r = "program" \/ Provider = "linux"
  /\ count' = count + 1
  /\ events' = Trace(r)
  /\ role' = r
  /\ UNCHANGED call

Instruction(r) ==
  /\ Hook(r)
  /\ left' = left - 1
  /\ UNCHANGED <<status, process>>

\* The engine throws after the hook: trapUnicorn.
Faulting(r) ==
  /\ Hook(r)
  /\ Stops("trapped")
  /\ UNCHANGED process

-----------------------------------------------------------------------------
(***************************************************************************)
(* System calls.  The engine is stopped after each of them; an exception   *)
(* of the handler is a trap and leaves no result.                          *)
(***************************************************************************)
Syscall(name) ==
  /\ name \in Served
  /\ \E r \in Roles : Hook(r)
  /\ left' = 0

Trapped == status' = "trapped" /\ UNCHANGED process
Returns(value) == result' = value /\ UNCHANGED status
Fails == Returns(-1) /\ UNCHANGED <<stdin, typed, received, output, fds, nextFd>>
Answers == Returns(0) /\ UNCHANGED <<stdin, typed, received, output, fds, nextFd>>

\* exit and exit_group.
Exit ==
  /\ Syscall("exit")
  /\ status' = "exited"
  /\ UNCHANGED process

\* Disabled system calls and calls that are not implemented.
Unserved == Syscall("unserved") /\ Trapped

\* brk, time, ids, uname, random bytes, signal actions and limits.
Immediate == Syscall("immediate") /\ Answers

\* write on the Linux session: the limit first, then the descriptor.
LinuxWrite(fd, n, fault) ==
  /\ Provider = "linux" /\ Syscall("write")
  /\ \/ (n > MaxIO \/ (fd \in {1, 2} /\ fault)) /\ Trapped
     \/ n <= MaxIO /\ fd \notin {1, 2} /\ Fails
     \/ /\ n <= MaxIO /\ fd \in {1, 2} /\ ~fault
        /\ output' = output + n /\ Returns(n)
        /\ UNCHANGED <<stdin, typed, received, fds, nextFd>>

MachineWrite(fd, n, fault) ==
  /\ Provider = "machine" /\ Syscall("write")
  /\ IF n > MaxIO \/ fd \notin {1, 2} \/ fault THEN Trapped
     ELSE /\ output' = output + n /\ Returns(n)
          /\ UNCHANGED <<stdin, typed, received, fds, nextFd>>

Total(counts) == FoldSeq(+, 0, counts)

\* The vector is read to its end before anything is written.
Writev(fd, counts, fault) ==
  /\ Provider = "linux" /\ Syscall("writev")
  /\ \/ fd \notin {1, 2} /\ Fails
     \/ fd \in {1, 2} /\ (Total(counts) > MaxIO \/ fault) /\ Trapped
     \/ /\ fd \in {1, 2} /\ Total(counts) <= MaxIO /\ ~fault
        /\ output' = output + Total(counts) /\ Returns(Total(counts))
        /\ UNCHANGED <<stdin, typed, received, fds, nextFd>>

\* read of descriptor 0: what is there, never blocking; nothing is consumed when
\* the buffer faults.
ReadStdin(n, fault) ==
  LET available == Smallest(n, Len(stdin.bytes) - stdin.cursor)
  IN /\ Syscall("read")
     /\ IF n > MaxIO \/ (fault /\ available > 0) THEN Trapped
        ELSE /\ stdin' = [stdin EXCEPT !.cursor = @ + available]
             /\ received' = received \o SubSeq(stdin.bytes, stdin.cursor + 1, stdin.cursor + available)
             /\ Returns(available)
             /\ UNCHANGED <<typed, output, fds, nextFd>>

\* The machine session reads descriptor 0 only.
MachineRead == Provider = "machine" /\ Syscall("read") /\ Trapped

Remaining(position) == IF position < FileSize THEN FileSize - position ELSE 0

\* copyFileBytes without an offset.
ReadFile(fd, n, fault) ==
  /\ Provider = "linux" /\ Syscall("read") /\ fd # 0
  /\ \/ n > MaxIO /\ Trapped
     \/ n <= MaxIO /\ fd \notin DOMAIN fds /\ Fails
     \/ /\ n <= MaxIO /\ fd \in DOMAIN fds
        /\ LET available == Smallest(n, Remaining(fds[fd]))
           IN IF fault /\ available > 0 THEN Trapped
              ELSE /\ fds' = [fds EXCEPT ![fd] = @ + available] /\ Returns(available)
                   /\ UNCHANGED <<stdin, typed, received, output, nextFd>>

\* copyFileBytes at an offset; the limit on transfers is not checked here.
Pread(fd, n, offset, fault) ==
  /\ Provider = "linux" /\ Syscall("pread")
  /\ \/ fd \notin DOMAIN fds /\ Fails
     \/ /\ fd \in DOMAIN fds
        /\ LET available == Smallest(n, Remaining(offset))
           IN IF fault /\ available > 0 THEN Trapped
              ELSE Returns(available) /\ UNCHANGED <<stdin, typed, received, output, fds, nextFd>>

\* openVirtual: descriptors are numbered upwards and not reused.
Open(found) ==
  /\ Provider = "linux" /\ Syscall("open")
  /\ IF ~found THEN Fails
     ELSE /\ nextFd < 3 + MaxFds
          /\ fds' = [d \in DOMAIN fds \cup {nextFd} |-> IF d = nextFd THEN 0 ELSE fds[d]]
          /\ nextFd' = nextFd + 1 /\ Returns(nextFd)
          /\ UNCHANGED <<stdin, typed, received, output>>

\* The standard descriptors close without effect.
Close(fd) ==
  /\ Provider = "linux" /\ Syscall("close")
  /\ IF fd > 2 /\ fd \notin DOMAIN fds THEN Fails
     ELSE /\ fds' = [d \in DOMAIN fds \ {fd} |-> fds[d]]
          /\ Returns(0)
          /\ UNCHANGED <<stdin, typed, received, output, nextFd>>

\* From the start, from the position, or from the end of the file.
Lseek(fd, offset, whence) ==
  /\ Provider = "linux" /\ Syscall("lseek")
  /\ \/ fd \notin DOMAIN fds /\ Fails
     \/ /\ fd \in DOMAIN fds
        /\ LET next == CASE whence = "set" -> offset
                         [] whence = "cur" -> fds[fd] + offset
                         [] whence = "end" -> FileSize + offset
           IN IF next < 0 THEN Fails
              ELSE /\ next <= FileSize + 1
                   /\ fds' = [fds EXCEPT ![fd] = next] /\ Returns(next)
                   /\ UNCHANGED <<stdin, typed, received, output, nextFd>>

\* FUTEX_WAIT on a value that has changed returns at once; on the value expected
\* it would block the only thread, which ends the session.
Futex(waits, equal, fault) ==
  /\ Provider = "linux" /\ Syscall("futex")
  /\ \/ waits /\ (equal \/ fault) /\ Trapped
     \/ waits /\ ~equal /\ ~fault /\ Fails
     \/ ~waits /\ Answers

\* access: files exist and are not writable.
Access(found, writes) ==
  /\ Provider = "linux" /\ Syscall("path")
  /\ IF ~found \/ writes THEN Fails ELSE Answers

\* stat, fstat and newfstatat.
Stat(found, fault) ==
  /\ Provider = "linux" /\ Syscall("path")
  /\ \/ ~found /\ Fails
     \/ found /\ IF fault THEN Trapped ELSE Answers

\* ioctl, rseq, readlink of another file, getcwd into too small a buffer.
Refuse == Provider = "linux" /\ Syscall("refuse") /\ Fails

-----------------------------------------------------------------------------
Init ==
  /\ setup \in Setups
  /\ status = "ready" /\ count = 0 /\ call = None /\ left = 0
  /\ role = None /\ events = <<>>
  /\ stdin = [bytes |-> <<>>, cursor |-> 0] /\ typed = 0 /\ received = <<>>
  /\ output = 0 /\ fds = <<>> /\ nextFd = 3 /\ result = 0

Counts == 0..MaxIO + 1
Descriptors == {0, 1} \cup 3..nextFd

SystemCall ==
  \/ Exit \/ Unserved \/ Immediate \/ Refuse \/ MachineRead
  \/ \E fd \in Descriptors, n \in Counts, fault \in BOOLEAN :
       \/ LinuxWrite(fd, n, fault) \/ MachineWrite(fd, n, fault)
       \/ ReadFile(fd, n, fault)
       \/ \E m \in Counts : Writev(fd, <<n, m>>, fault)
       \/ \E offset \in 0..FileSize + 1 : Pread(fd, n, offset, fault)
  \/ \E n \in Counts, fault \in BOOLEAN : ReadStdin(n, fault)
  \/ \E found \in BOOLEAN : Open(found)
  \/ \E found, other, fault \in BOOLEAN : Futex(found, other, fault) \/ Access(found, other) \/ Stat(found, fault)
  \/ \E fd \in Descriptors : Close(fd)
  \/ \E fd \in Descriptors, offset \in -1..FileSize, whence \in {"set", "cur", "end"} : Lseek(fd, offset, whence)

Next == UNCHANGED setup /\
  (\/ MarkRunning \/ Pause \/ Step \/ RunSlice \/ Return \/ Type
  \/ OutOfBudget \/ Undecodable
  \/ \E r \in Roles : Instruction(r) \/ Faulting(r)
  \/ SystemCall)

Spec == Init /\ [][Next]_vars

-----------------------------------------------------------------------------
\* The type of the state of a session.
TypeOK ==
  /\ status \in {"ready", "running", "paused"} \cup Terminal
  /\ count \in 0..Limit /\ left \in 0..Slice /\ role \in Roles
  /\ Len(events) <= MaxEvents
  /\ stdin.cursor \in 0..Len(stdin.bytes) /\ typed \in 0..Typed
  /\ DOMAIN fds \subseteq 3..nextFd - 1 /\ \A fd \in DOMAIN fds : fds[fd] \in 0..FileSize + 1

\* What a call reports to the controller is among what ExecutionSession says a
\* provider may report: the controller's properties, checked against that
\* interface, hold of the real sessions.
Contract ==
  [][call # None /\ call' = None =>
       Seen' \in (IF call.name = "step" THEN Interface!StepOutcomes(call.found)
                  ELSE Interface!SliceOutcomes(call.found))]_vars

\* Two instructions that follow each other in the trace were executed one after
\* the other: wherever something else ran in between there is a gap, also when
\* the oldest events are dropped.  The projection onto the graph counts an edge
\* for such a pair.
TraceIsContiguous == \A i \in 1..Len(events) - 1 :
  events[i].kind = "instruction" /\ events[i + 1].kind = "instruction" => events[i + 1].n = events[i].n + 1

\* Every byte typed reaches the guest once and in order, whatever is typed while
\* earlier bytes are still unread and whichever read faults.
StdinInOrder ==
  received \o SubSeq(stdin.bytes, stdin.cursor + 1, Len(stdin.bytes)) = [i \in 1..typed |-> i]

\* What the interface is shown of a Unicorn guest: instructions next to each other
\* in the trace ran one after the other, and the guest read what was typed in the
\* order it was typed.
UnicornIsFollowed == TypeOK /\ TraceIsContiguous /\ StdinInOrder

\* A call that writes writes what it returns, and a call that traps writes nothing.
WritesWhatItReturns == [][output' # output => output' = output + result' /\ status' = status]_vars

\* A position moves by the bytes that were delivered, or to where lseek says it is.
PositionIsTrue ==
  [][\A fd \in DOMAIN fds \cap DOMAIN fds' :
       fds'[fd] # fds[fd] => result' \in {fds'[fd] - fds[fd], fds'[fd]} /\ fds'[fd] <= FileSize + 1]_vars

\* A descriptor that was closed does not name another file later.
DescriptorsNotReused == [][DOMAIN fds' \ DOMAIN fds \subseteq {nextFd}]_vars

\* After an exit or a trap nothing runs and nothing is recorded.
Evidence == <<status, count, events, output, fds, received>>
EndIsFinal == [][call = None /\ status \in Terminal => Evidence' = Evidence]_vars

\* A Unicorn session over its life: a call reports to the controller what the
\* interface says it may, the end is final, a write returns what it wrote, a read
\* moves its own position by what it delivered, and descriptors are not reused.
CallsAreHonest == Contract /\ EndIsFinal /\ WritesWhatItReturns /\ PositionIsTrue /\ DescriptorsNotReused
===============================================================================
