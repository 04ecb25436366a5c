----------------------------- MODULE MachineMemory -----------------------------
(***************************************************************************)
(* The address space of UnicornMachineSession: the image and the stack that *)
(* its constructor maps, and brk, mmap, munmap and mprotect.                *)
(*                                                                          *)
(* A page is a number, the engine's table a function from the pages mapped  *)
(* to their permissions.  Addresses are counted in half pages, so that an   *)
(* address and its page differ; page p holds the addresses 2p and 2p + 1.   *)
(***************************************************************************)
EXTENDS Integers, FiniteSets, FiniteSetsExt, Functions

CONSTANTS
  Pages,     \* the pages of the small address space are 0 .. Pages - 1
  MmapBase,  \* MMAP_BASE
  StackTop,  \* STACK_TOP
  Stack,     \* pages of the stack, policy.stackBytes
  Gap,       \* pages between the program and the first mmap, 16 in the code
  Budget,    \* pages of policy.maxMappedBytes
  Segments,  \* the segments an image may have: [from, to, perm]
  MaxCalls   \* bound on the system calls

Perms == SUBSET {"r", "w", "x"}
MemoryAssumption ==
  /\ {Pages, MmapBase, StackTop, Stack, Gap, Budget, MaxCalls} \subseteq Nat
  /\ Stack <= StackTop /\ StackTop <= Pages
  /\ \A s \in Segments : s.from \in Nat /\ s.to \in 1 .. 2 * Pages /\ s.from < s.to /\ s.perm \in Perms

VARIABLES
  image,    \* the segments of the program
  mem,      \* the engine's page table
  mapped,   \* mappedBytesValue, in pages
  heapBase, programBreak,  \* addresses
  cursor,   \* mmapCursorValue, a page
  records,  \* dynamicMappings: page -> [size, kind]
  status, calls

vars == <<image, mem, mapped, heapBase, programBreak, cursor, records, status, calls>>

Up(address) == (address + 1) \div 2
Down(address) == address \div 2
Span(page, size) == page .. page + size - 1
Without(f, s) == [x \in DOMAIN f \ s |-> f[x]]
StackPages == Span(StackTop - Stack, Stack)

-----------------------------------------------------------------------------
(***************************************************************************)
(* mapImageAndStack.  Pages that segments share get the permissions of all; *)
(* the stack replaces what it covers.                                       *)
(***************************************************************************)
PagesOf(s) == Down(s.from) .. Up(s.to) - 1

Loaded(segments) ==
  [p \in (UNION {PagesOf(s) : s \in segments}) \cup StackPages |->
     IF p \in StackPages THEN {"r", "w"} ELSE UNION {s.perm : s \in {t \in segments : p \in PagesOf(t)}}]

ProgramEnd(segments) == Max({s.to : s \in segments})

\* Other images are refused by validateTarget or exceed the budget: no session.
Accepted(segments) ==
  /\ \E s \in segments : "x" \in s.perm
  /\ Cardinality(DOMAIN Loaded(segments)) <= Budget

Init ==
  /\ image \in {segments \in SUBSET Segments : segments # {} /\ Accepted(segments)}
  /\ mem = Loaded(image)
  /\ mapped = Cardinality(DOMAIN mem)
  /\ heapBase = 2 * Up(ProgramEnd(image)) /\ programBreak = heapBase
  /\ cursor = Max({MmapBase, Up(heapBase) + Gap})
  /\ records = <<>>
  /\ status = "running" /\ calls = 0

-----------------------------------------------------------------------------
Call == status = "running" /\ calls < MaxCalls /\ calls' = calls + 1 /\ UNCHANGED image
Trap == status' = "trapped" /\ UNCHANGED <<mem, mapped, heapBase, programBreak, cursor, records>>

\* What mem_map, mem_unmap and mem_protect of the engine need; they do all or nothing.
Free(pages) == pages \cap DOMAIN mem = {} /\ pages \subseteq 0 .. Pages - 1
Present(pages) == pages \subseteq DOMAIN mem
Affordable(size) == mapped + size <= Budget

\* syscallBrk beyond the last page: reserve, map, record; the reservation is
\* given back when the engine refuses.
BrkGrow(address) ==
  LET from == Up(programBreak)
      size == Up(address) - from
      pages == Span(from, size)
  IN /\ Call /\ address >= heapBase /\ size > 0
     /\ IF ~Affordable(size) \/ ~Free(pages) THEN Trap
        ELSE /\ mapped' = mapped + size
             /\ mem' = [p \in DOMAIN mem \cup pages |-> IF p \in pages THEN {"r", "w"} ELSE mem[p]]
             /\ records' = [p \in DOMAIN records \cup {from} |->
                              IF p = from THEN [size |-> size, kind |-> "brk"] ELSE records[p]]
             /\ programBreak' = address
             /\ UNCHANGED <<heapBase, cursor, status>>

\* Mutant: the page the new break lies in is unmapped as well.
BrkShrinkFar(address) ==
  LET pages == Span(Down(address), Up(programBreak) - Down(address))
  IN /\ Call /\ address >= heapBase /\ Up(address) < Up(programBreak) /\ Present(pages)
     /\ mem' = Without(mem, pages) /\ mapped' = mapped - Cardinality(pages)
     /\ records' = Without(records, {p \in DOMAIN records : records[p].kind = "brk" /\ p >= Up(address)})
     /\ programBreak' = address
     /\ UNCHANGED <<heapBase, cursor, status>>

\* Below the last page: the pages above go, and the records that start there.
BrkShrink(address) ==
  LET size == Up(programBreak) - Up(address)
      pages == Span(Up(address), size)
  IN /\ Call /\ address >= heapBase /\ size > 0
     /\ IF ~Present(pages) THEN Trap
        ELSE /\ mem' = Without(mem, pages) /\ mapped' = Max({0, mapped - size})
             /\ records' = Without(records, {p \in DOMAIN records : records[p].kind = "brk" /\ p >= Up(address)})
             /\ programBreak' = address
             /\ UNCHANGED <<heapBase, cursor, status>>

\* Within a page; a query (0) and an address below the heap change nothing.
BrkStays(address) ==
  /\ Call
  /\ address < heapBase \/ Up(address) = Up(programBreak)
  /\ programBreak' = IF address < heapBase THEN programBreak ELSE address
  /\ UNCHANGED <<mem, mapped, heapBase, cursor, records, status>>

\* syscallMmap: anonymous and not fixed, at the cursor, which leaves a page free
\* and never comes back.  File mappings and MAP_FIXED are refused.
Mmap(length, perm, supported) ==
  LET size == Up(length)
      pages == Span(cursor, size)
  IN /\ Call
     /\ IF length = 0 \/ ~supported \/ ~Affordable(size) \/ ~Free(pages) THEN Trap
        ELSE /\ mem' = [p \in DOMAIN mem \cup pages |-> IF p \in pages THEN perm ELSE mem[p]]
             /\ mapped' = mapped + size
             /\ records' = [p \in DOMAIN records \cup {cursor} |->
                              IF p = cursor THEN [size |-> size, kind |-> "mmap"] ELSE records[p]]
             /\ cursor' = cursor + size + 1
             /\ UNCHANGED <<heapBase, programBreak, status>>

\* Mutant: what was given back is handed out again.
MunmapRewinds(address, length) ==
  LET page == Down(address)
  IN /\ Call /\ length > 0 /\ page \in DOMAIN records /\ records[page] = [size |-> Up(length), kind |-> "mmap"]
     /\ mem' = Without(mem, Span(page, Up(length))) /\ records' = Without(records, {page})
     /\ mapped' = mapped - Up(length) /\ cursor' = page
     /\ UNCHANGED <<heapBase, programBreak, status>>

\* syscallMunmap takes back exactly one mmap.
Munmap(address, length) ==
  LET size == Up(length)
      page == Down(address)
  IN /\ Call
     /\ IF \/ length = 0 \/ address % 2 # 0
           \/ page \notin DOMAIN records
           \/ records[page] # [size |-> size, kind |-> "mmap"]
           \/ ~Present(Span(page, size))
        THEN Trap
        ELSE /\ mem' = Without(mem, Span(page, size)) /\ records' = Without(records, {page})
             /\ mapped' = Max({0, mapped - size})
             /\ UNCHANGED <<heapBase, programBreak, cursor, status>>

\* syscallMprotect: any pages that are mapped.
Mprotect(address, length, perm) ==
  LET pages == Span(Down(address), Up(length))
  IN /\ Call
     /\ IF length = 0 \/ address % 2 # 0 \/ ~Present(pages) THEN Trap
        ELSE /\ mem' = [p \in DOMAIN mem |-> IF p \in pages THEN perm ELSE mem[p]]
             /\ UNCHANGED <<mapped, heapBase, programBreak, cursor, records, status>>

Addresses == 0 .. 2 * Pages
Next ==
  \/ \E address \in Addresses : BrkGrow(address) \/ BrkShrink(address) \/ BrkStays(address)
  \/ \E length \in 0 .. 4, perm \in {{}, {"r", "w"}}, supported \in BOOLEAN : Mmap(length, perm, supported)
  \/ \E address \in Addresses, length \in 0 .. 4 : Munmap(address, length)
  \/ \E address \in Addresses, length \in 0 .. 4 : Mprotect(address, length, {"r"})

Spec == Init /\ [][Next]_vars

-----------------------------------------------------------------------------
Mmaps == {p \in DOMAIN records : records[p].kind = "mmap"}
Heap == Span(Up(heapBase), Up(programBreak) - Up(heapBase))
Program == (UNION {PagesOf(s) : s \in image}) \cup StackPages

TypeOK ==
  /\ mem \in [DOMAIN mem -> Perms] /\ DOMAIN mem \subseteq 0 .. Pages - 1
  /\ mapped \in Nat /\ heapBase \in Nat /\ programBreak \in Nat /\ programBreak >= heapBase /\ cursor \in Nat
  /\ status \in {"running", "trapped"} /\ calls \in 0 .. MaxCalls

\* The counter the budget is compared with is what the engine has mapped, also
\* after a call that failed halfway.
CounterIsMapped == mapped = Cardinality(DOMAIN mem) /\ mapped <= Budget

\* The program, the heap and the mappings share no page and are all there is.
Partition ==
  /\ DOMAIN mem = Program \cup Heap \cup UNION {Span(p, records[p].size) : p \in Mmaps}
  /\ Heap \cap Program = {}
  /\ \A p \in Mmaps : /\ Span(p, records[p].size) \cap (Program \cup Heap) = {}
                      /\ \A q \in Mmaps \ {p} : Span(p, records[p].size) \cap Span(q, records[q].size) = {}

\* An address that mmap returned is not returned again: what a program kept of a
\* mapping it gave back never names another one.
MmapIsFresh == [][cursor' >= cursor /\ \A p \in Mmaps' \ Mmaps : p >= cursor /\ p < cursor']_vars
=============================================================================
