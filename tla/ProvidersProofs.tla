---------------------------- MODULE ProvidersProofs ----------------------------
(***************************************************************************)
(* Proofs about the machine session's address space and about the Blink    *)
(* session, for every image, budget and sequence of calls, and for every   *)
(* prompt, output and trace of the engine.                                 *)
(***************************************************************************)
EXTENDS Providers, FiniteSetTheorems, SequenceTheorems, WellFoundedInduction, TLAPS

-----------------------------------------------------------------------------
(***************************************************************************)
(* The invariants                                                          *)
(***************************************************************************)
\* A mapping is recorded under its first page.  Pieces of the heap are recorded in
\* the same table, with their own kind.
RecordsOK ==
  /\ DOMAIN records \subseteq Nat
  /\ records \in [DOMAIN records -> [size : Nat, kind : {"brk", "mmap"}]]
  /\ \A p \in Memory!Mmaps : records[p].size > 0

\* The books of the machine session.
MemoryInv ==
  /\ image \in SUBSET Segments /\ image # {}
  /\ Memory!TypeOK /\ RecordsOK /\ Memory!CounterIsMapped /\ Memory!Partition

\* A call under way goes with the mode, and so does the session that it found.
Live == {"ready", "running", "paused"}
BlinkCallOK ==
  blinkCall # None =>
    /\ blinkCall.entry = "starti" => blinkCall.found.mode = "none" /\ mode = "none"
    /\ blinkCall.entry = "stepi" => blinkCall.found.mode # "headless" /\ mode = "debug"
    /\ blinkCall.entry \notin {"starti", "stepi"} => blinkCall.found.mode # "debug" /\ mode = "headless"

\* The engine rests where the mode and the fake terminal say, and a call enters it there.
EngineOK ==
  /\ blinkCall = None /\ blinkStatus \in Live =>
       /\ mode = "none" => engine = "new"
       /\ mode = "debug" => engine \in {"loaded", "tty"}
       /\ mode = "headless" => engine \in {"preempted", "tty"}
       /\ tty <=> engine = "tty"
  /\ blinkCall # None /\ blinkCall.entry = "starti" => engine = "new"
  /\ blinkCall # None /\ blinkCall.entry = "stepi" => engine \in {"loaded", "tty"}

\* What is explained goes with the status at every moment: nothing while the guest
\* runs, and a code of exit or signal only at the end.
ExplanationOK ==
  /\ blinkCall # None => blinkStatus \in {"running", "paused"} /\ report = None /\ ~tty
  /\ blinkStatus \in {"ready", "running"} => report = None
  /\ blinkStatus = "paused" => report \in {None, "wait"}
  /\ blinkStatus = "exited" => report = None /\ exitCode = "guest"
  /\ blinkStatus = "trapped" => (report = "crash" /\ exitCode = "signal") \/ (report = "trap" /\ exitCode = None)
  /\ blinkStatus \in Live => exitCode = None
  /\ report = "wait" => tty /\ engine = "tty"

\* The newest instruction or gap among the events is the instruction that is
\* followed, or a gap when none is.
NewestIsLast ==
  \A i \in 1 .. Len(blinkEvents) :
    /\ blinkEvents[i] >= 0
    /\ \A k \in i + 1 .. Len(blinkEvents) : blinkEvents[k] = -1
    => blinkEvents[i] = (IF last = None THEN 0 ELSE last)

\* The bytes the loader has printed.
Loaded == Len(printed) - Len(loading)

\* What was printed is withheld, as long as it may be the prompt, or is shown.
OutputOK ==
  /\ printed \in Prompts
  /\ loading \in Seq(Bytes) /\ Len(loading) <= Len(printed)
  /\ \A i \in 1 .. Len(loading) : loading[i] = printed[Loaded + i]
  /\ loading # <<>> => guest = <<>>
  /\ blinkCall = None /\ mode = "none" /\ blinkStatus # "trapped" => loading = <<>> /\ stdout = <<>> /\ guest = <<>>
  /\ discard =>
       /\ cursor = Loaded /\ cursor < Len(Prompt) /\ stdout = <<>> /\ guest = <<>>
       /\ \A i \in 1 .. cursor : printed[i] = Prompt[i]
  /\ ~discard /\ (mode # "none" \/ blinkCall # None) =>
       IF printed = Prompt THEN loading = <<>> /\ stdout = guest
       ELSE /\ Len(stdout) = Loaded + Len(guest)
            /\ \A i \in 1 .. Loaded : stdout[i] = printed[i]
            /\ \A i \in 1 .. Len(guest) : stdout[Loaded + i] = guest[i]

\* What the session is doing, what it has recorded, and what it shows.
ControlInv ==
  /\ blinkStatus \in Live \cup {"exited", "trapped"} /\ mode \in {"none", "debug", "headless"} /\ tty \in BOOLEAN
  /\ report \in {None, "trap", "crash", "wait"} /\ exitCode \in {None, "guest", "signal"}
  /\ blinkCall \in Blink!CallType \cup {None} /\ engine \in {"new", "loaded", "preempted", "tty", "over"}
  /\ BlinkCallOK /\ EngineOK /\ ExplanationOK
TraceInv ==
  /\ blinkEvents \in Seq(-1 .. MaxSteps) /\ Len(blinkEvents) <= Kept
  /\ blinkCount \in 0 .. MaxSteps /\ last \in (1 .. MaxSteps) \cup {None}
  /\ blinkCall # None /\ blinkCall.entry \in {"starti", "stepi"} => blinkCount < MaxSteps
  /\ Blink!LastIsCurrent /\ Blink!TraceIsContiguous /\ NewestIsLast
OutputInv ==
  /\ discard \in BOOLEAN /\ cursor \in 0 .. Len(Prompt) /\ stdout \in Seq(Bytes) /\ guest \in Seq(Bytes)
  /\ OutputOK

BlinkInv == ControlInv /\ TraceInv /\ OutputInv

-----------------------------------------------------------------------------
(***************************************************************************)
(* The machine session's books                                             *)
(***************************************************************************)
\* The pairs of numbers in their order.
Less == {p \in Nat \X Nat : p[1] < p[2]}

\* A set of numbers has a least one.
LEMMA LeastNumber ==
  ASSUME NEW S, S \subseteq Nat, S # {}
  PROVE  \E m \in S : \A n \in S : m <= n
<1>1. IsWellFoundedOn(Less, Nat)
  BY NatLessThanWellFounded, Zenon DEF OpToRel, Less
<1>2. PICK m \in S : \A n \in S : <<n, m>> \notin Less
  BY <1>1, WFMin
<1>3. ASSUME NEW n \in S PROVE m <= n
  <2>1. n < m => <<n, m>> \in Less
    BY DEF Less
  <2> QED BY <1>2, <2>1
<1> QED BY <1>3

\* A set of numbers below a bound has a greatest one.
LEMMA GreatestNumber ==
  ASSUME NEW n \in Nat, NEW S, S \subseteq 0 .. n, S # {}
  PROVE  \E m \in S : \A x \in S : x <= m
<1> DEFINE below == {k \in 0 .. n : n - k \in S}
<1>1. below \subseteq Nat /\ below # {}
  <2>1. PICK x \in S : x \in 0 .. n
    OBVIOUS
  <2>2. PICK k \in 0 .. n : k = n - x
    BY <2>1
  <2>3. n - k = x
    BY <2>1, <2>2
  <2>4. k \in below
    BY <2>3
  <2> QED BY <2>4
<1>2. PICK k \in below : \A j \in below : k <= j
  <2> HIDE DEF below
  <2> QED BY <1>1, LeastNumber
<1>3. ASSUME NEW x \in S PROVE x <= n - k
  <2>1. x \in 0 .. n /\ k \in 0 .. n
    OBVIOUS
  <2>2. PICK j \in 0 .. n : j = n - x
    BY <2>1
  <2>3. n - j = x
    BY <2>1, <2>2
  <2>4. j \in below
    BY <2>3
  <2> QED BY <1>2, <2>1, <2>2, <2>4
<1> QED BY <1>2, <1>3

\* The constants of the machine session.
LEMMA MemoryConstants == Memory!MemoryAssumption
  BY ProvidersAssumption DEF ProvidersAssumption

\* The counting of the instance is the counting of the library's theorems.
LEMMA SameCardinality == \A S : Memory!Cardinality(S) = Cardinality(S)
  BY DEF Memory!Cardinality, Cardinality

\* The pages of an image and of the stack are those of the small address space.
LEMMA ProgramFits ==
  ASSUME NEW segments \in SUBSET Segments
  PROVE  /\ Memory!Loaded(segments) \in [DOMAIN Memory!Loaded(segments) -> Memory!Perms]
         /\ DOMAIN Memory!Loaded(segments) = (UNION {Memory!PagesOf(s) : s \in segments}) \cup Memory!StackPages
         /\ DOMAIN Memory!Loaded(segments) \subseteq 0 .. Pages - 1
<1>1. Memory!StackPages \subseteq 0 .. Pages - 1
  BY MemoryConstants DEF Memory!MemoryAssumption, Memory!StackPages, Memory!Span
<1>2. ASSUME NEW s \in segments PROVE Memory!PagesOf(s) \subseteq 0 .. Pages - 1 /\ s.perm \in Memory!Perms
  <2>1. s.from \in Nat /\ s.to \in Nat /\ s.to <= 2 * Pages /\ s.from < s.to /\ Pages \in Nat /\ s.perm \in Memory!Perms
    BY MemoryConstants DEF Memory!MemoryAssumption
  <2>2. s.from \div 2 >= 0 /\ (s.to + 1) \div 2 <= Pages /\ s.from \div 2 \in Int /\ (s.to + 1) \div 2 \in Int
    BY <2>1
  <2> QED BY <2>1, <2>2 DEF Memory!PagesOf, Memory!Down, Memory!Up
<1>3. UNION {Memory!PagesOf(s) : s \in segments} \subseteq 0 .. Pages - 1
  BY <1>2
<1>4. ASSUME NEW p PROVE UNION {s.perm : s \in {t \in segments : p \in Memory!PagesOf(t)}} \in Memory!Perms
  BY <1>2 DEF Memory!Perms
<1>5. {"r", "w"} \in Memory!Perms
  BY DEF Memory!Perms
<1> DEFINE pages == (UNION {Memory!PagesOf(s) : s \in segments}) \cup Memory!StackPages
           perm(p) == IF p \in Memory!StackPages THEN {"r", "w"}
                      ELSE UNION {s.perm : s \in {t \in segments : p \in Memory!PagesOf(t)}}
<1>6. Memory!Loaded(segments) = [p \in pages |-> perm(p)]
  BY DEF Memory!Loaded
<1>7. \A p : perm(p) \in Memory!Perms
  BY <1>4, <1>5
<1>8. pages \subseteq 0 .. Pages - 1
  BY <1>1, <1>3
<1> HIDE DEF pages, perm
<1>9. /\ Memory!Loaded(segments) \in [DOMAIN Memory!Loaded(segments) -> Memory!Perms]
      /\ DOMAIN Memory!Loaded(segments) = pages
  BY <1>6, <1>7
<1> QED BY <1>8, <1>9 DEF pages

\* The end of the program is an address.
LEMMA ProgramEnds ==
  ASSUME NEW segments \in SUBSET Segments, segments # {}
  PROVE  Memory!ProgramEnd(segments) \in Nat
<1> DEFINE ends == {s.to : s \in segments}
<1>1. ends \subseteq 0 .. 2 * Pages /\ ends # {} /\ 2 * Pages \in Nat
  BY MemoryConstants DEF Memory!MemoryAssumption
<1>2. PICK greatest \in ends : \A x \in ends : x <= greatest
  <2> HIDE DEF ends
  <2> QED BY <1>1, GreatestNumber
<1>3. \E y \in ends : \A x \in ends : y >= x
  BY <1>1, <1>2
<1>4. Memory!ProgramEnd(segments) \in ends
  BY <1>3 DEF Memory!ProgramEnd, Memory!Max
<1> QED BY <1>1, <1>4

\* A session starts with the program and the stack, with no heap and no mappings.
LEMMA MemoryStarts ==
  ASSUME Memory!Init
  PROVE  MemoryInv
<1>1. image \in SUBSET Segments /\ image # {} /\ Memory!Accepted(image)
  BY DEF Memory!Init
<1>2. /\ mem \in [DOMAIN mem -> Memory!Perms] /\ DOMAIN mem = Memory!Program /\ DOMAIN mem \subseteq 0 .. Pages - 1
  BY <1>1, ProgramFits DEF Memory!Init, Memory!Program
<1>3. Memory!ProgramEnd(image) \in Nat
  BY <1>1, ProgramEnds
<1>4. heapBase \in Nat /\ programBreak = heapBase /\ mmapCursor \in Nat
  <2>1. (Memory!ProgramEnd(image) + 1) \div 2 \in Nat
    BY <1>3
  <2>2. heapBase \in Nat /\ programBreak = heapBase
    BY <2>1 DEF Memory!Init, Memory!Up
  <2>3. (heapBase + 1) \div 2 \in Nat
    BY <2>2
  <2>4. ASSUME NEW a \in Nat, NEW b \in Nat PROVE Memory!Max({a, b}) \in Nat
    <3>1. \E x \in {a, b} : \A y \in {a, b} : x >= y
      OBVIOUS
    <3> QED BY <3>1 DEF Memory!Max
  <2>5. (heapBase + 1) \div 2 + Gap \in Nat /\ MmapBase \in Nat
    BY <2>3, MemoryConstants DEF Memory!MemoryAssumption
  <2> QED BY <2>2, <2>4, <2>5 DEF Memory!Init, Memory!Up
<1>5. IsFiniteSet(DOMAIN mem) /\ mapped = Cardinality(DOMAIN mem) /\ mapped \in Nat /\ mapped <= Budget
  <2>1. Pages - 1 \in Int
    BY MemoryConstants DEF Memory!MemoryAssumption
  <2>2. IsFiniteSet(0 .. Pages - 1)
    BY <2>1, FS_Interval
  <2> QED BY <1>1, <1>2, <2>2, FS_Subset, FS_CardinalityType, SameCardinality DEF Memory!Init, Memory!Accepted
<1>6. records = <<>> /\ DOMAIN records = {}
  BY DEF Memory!Init
<1>7. Memory!Heap = {}
  <2>1. (heapBase + 1) \div 2 \in Int
    BY <1>4
  <2> QED BY <1>4, <2>1 DEF Memory!Heap, Memory!Span, Memory!Up
<1>8. Memory!Mmaps = {}
  BY <1>6 DEF Memory!Mmaps
<1>9. Memory!TypeOK
  BY <1>2, <1>4, <1>5, MemoryConstants DEF Memory!TypeOK, Memory!Init, Memory!MemoryAssumption
<1>10. Memory!Partition
  BY <1>2, <1>7, <1>8 DEF Memory!Partition
<1>11. RecordsOK
  BY <1>6, <1>8 DEF RecordsOK
<1> QED BY <1>1, <1>5, <1>9, <1>10, <1>11, SameCardinality DEF MemoryInv, Memory!CounterIsMapped

\* Addresses and their pages.
LEMMA Pagewise ==
  ASSUME NEW a \in Nat, NEW b \in Nat
  PROVE  /\ Memory!Up(a) \in Nat /\ Memory!Down(a) \in Nat
         /\ a <= b => Memory!Up(a) <= Memory!Up(b)
         /\ a > 0 => Memory!Up(a) > 0
         /\ Memory!Span(a, b) = a .. a + b - 1 /\ Memory!Span(a, b) \subseteq Nat
         /\ b > 0 => a \in Memory!Span(a, b)
         /\ IsFiniteSet(Memory!Span(a, b)) /\ Cardinality(Memory!Span(a, b)) = b
<1>1. Memory!Up(a) \in Nat /\ Memory!Down(a) \in Nat /\ (a <= b => Memory!Up(a) <= Memory!Up(b))
        /\ (a > 0 => Memory!Up(a) > 0)
  BY DEF Memory!Up, Memory!Down
<1>2. Memory!Span(a, b) = a .. a + b - 1
  BY DEF Memory!Span
<1>3. a \in Int /\ a + b - 1 \in Int /\ (a > a + b - 1 => b = 0) /\ a + b - 1 - a + 1 = b
  OBVIOUS
<1>4. IsFiniteSet(a .. a + b - 1) /\ Cardinality(a .. a + b - 1) = b
  BY <1>3, FS_Interval
<1> QED BY <1>1, <1>2, <1>4

\* Rounding up to pages keeps the order.
LEMMA Rounding == \A a, b \in Nat : Memory!Up(a) \in Nat /\ (a <= b => Memory!Up(a) <= Memory!Up(b))
  BY Pagewise, Zenon

\* The page table is finite, and small enough.
LEMMA TableIsFinite ==
  ASSUME MemoryInv
  PROVE  /\ IsFiniteSet(DOMAIN mem) /\ Cardinality(DOMAIN mem) = mapped /\ mapped \in Nat /\ mapped <= Budget
         /\ DOMAIN mem \subseteq 0 .. Pages - 1 /\ Budget \in Nat /\ MaxCalls \in Nat
<1>1. Pages \in Nat /\ Budget \in Nat /\ MaxCalls \in Nat
  BY MemoryConstants DEF Memory!MemoryAssumption
<1>2. IsFiniteSet(0 .. Pages - 1)
  BY <1>1, FS_Interval
<1>3. DOMAIN mem \subseteq 0 .. Pages - 1 /\ mapped \in Nat /\ mapped <= Budget /\ mapped = Memory!Cardinality(DOMAIN mem)
  BY <1>1 DEF MemoryInv, Memory!TypeOK, Memory!CounterIsMapped
<1> QED BY <1>1, <1>2, <1>3, FS_Subset, SameCardinality

\* What disjoint sets, and what a part and its rest, amount to.
LEMMA Counting ==
  ASSUME NEW S, NEW T, IsFiniteSet(S), IsFiniteSet(T)
  PROVE  /\ Cardinality(S) \in Nat /\ Cardinality(T) \in Nat
         /\ S \cap T = {} => Cardinality(S \cup T) = Cardinality(S) + Cardinality(T)
         /\ T \subseteq S => Cardinality(S \ T) = Cardinality(S) - Cardinality(T) /\ Cardinality(S \ T) \in Nat
<1>1. Cardinality(S) \in Nat /\ Cardinality(T) \in Nat /\ IsFiniteSet(S \ T) /\ Cardinality(S \ T) \in Nat
  BY FS_CardinalityType, FS_Subset
<1>2. ASSUME NEW A, NEW B, IsFiniteSet(A), IsFiniteSet(B), A \cap B = {}
      PROVE  Cardinality(A \cup B) = Cardinality(A) + Cardinality(B)
  <2>1. Cardinality(A) \in Nat /\ Cardinality(B) \in Nat
    BY <1>2, FS_CardinalityType
  <2>2. Cardinality(A \cup B) = Cardinality(A) + Cardinality(B) - Cardinality(A \cap B)
    BY <1>2, FS_Union
  <2>3. Cardinality(A \cap B) = 0
    BY <1>2, FS_EmptySet, Zenon
  <2> QED BY <2>1, <2>2, <2>3
<1>3. ASSUME T \subseteq S PROVE Cardinality(S) = Cardinality(S \ T) + Cardinality(T)
  <2>1. S = (S \ T) \cup T /\ (S \ T) \cap T = {}
    BY <1>3
  <2>2. Cardinality((S \ T) \cup T) = Cardinality(S \ T) + Cardinality(T)
    BY <1>1, <1>2, <2>1
  <2> QED BY <2>1, <2>2, Zenon
<1> QED BY <1>1, <1>2, <1>3

\* Pages that were free are added, and are counted.
LEMMA Adds ==
  ASSUME MemoryInv, NEW pages, IsFiniteSet(pages), Memory!Free(pages), Memory!Affordable(Cardinality(pages)),
         mapped' = mapped + Cardinality(pages), DOMAIN mem' = DOMAIN mem \cup pages
  PROVE  Memory!CounterIsMapped' /\ DOMAIN mem' \subseteq 0 .. Pages - 1 /\ mapped' \in Nat
<1>1. DOMAIN mem \cap pages = {} /\ pages \subseteq 0 .. Pages - 1
  BY DEF Memory!Free
<1>2. Cardinality(pages) \in Nat /\ Cardinality(DOMAIN mem \cup pages) = mapped + Cardinality(pages)
  BY <1>1, TableIsFinite, Counting
<1>3. mapped + Cardinality(pages) <= Budget
  BY DEF Memory!Affordable
<1>4. mapped' \in Nat /\ mapped' <= Budget /\ mapped' = Cardinality(DOMAIN mem')
  BY <1>2, <1>3, TableIsFinite
<1>5. DOMAIN mem' \subseteq 0 .. Pages - 1
  BY <1>1, TableIsFinite
<1> QED BY <1>4, <1>5, SameCardinality DEF Memory!CounterIsMapped

\* Pages that were mapped are taken, and are counted.
LEMMA Takes ==
  ASSUME MemoryInv, NEW pages, IsFiniteSet(pages), Memory!Present(pages),
         mapped' = Memory!Max({0, mapped - Cardinality(pages)}), DOMAIN mem' = DOMAIN mem \ pages
  PROVE  Memory!CounterIsMapped' /\ DOMAIN mem' \subseteq 0 .. Pages - 1 /\ mapped' \in Nat
<1>1. pages \subseteq DOMAIN mem
  BY DEF Memory!Present
<1>2. /\ Cardinality(pages) \in Nat /\ Cardinality(DOMAIN mem \ pages) \in Nat
      /\ Cardinality(DOMAIN mem \ pages) = mapped - Cardinality(pages)
  BY <1>1, TableIsFinite, Counting
<1>3. ASSUME NEW n \in Nat PROVE Memory!Max({0, n}) = n
  <2>1. \A x \in {0, n} : (\A y \in {0, n} : x >= y) <=> x = n
    OBVIOUS
  <2> QED BY <2>1 DEF Memory!Max
<1>4. mapped' = mapped - Cardinality(pages)
  BY <1>2, <1>3
<1>5. mapped' \in Nat /\ mapped' <= Budget /\ mapped' = Cardinality(DOMAIN mem')
  BY <1>2, <1>4, TableIsFinite
<1>6. DOMAIN mem' \subseteq 0 .. Pages - 1
  BY TableIsFinite
<1> QED BY <1>5, <1>6, SameCardinality DEF Memory!CounterIsMapped

\* A mapping lies in the table, and is never where free pages are.
LEMMA MappingsAreMapped ==
  ASSUME MemoryInv, NEW p \in Memory!Mmaps
  PROVE  /\ p \in Nat /\ records[p].size \in Nat /\ p \in Memory!Span(p, records[p].size)
         /\ Memory!Span(p, records[p].size) \subseteq DOMAIN mem
<1>1. p \in Nat /\ records[p].size \in Nat /\ records[p].size > 0
  BY DEF MemoryInv, RecordsOK, Memory!Mmaps
<1>2. p \in Memory!Span(p, records[p].size)
  BY <1>1, Pagewise
<1>3. DOMAIN mem = Memory!Program \cup Memory!Heap \cup UNION {Memory!Span(q, records[q].size) : q \in Memory!Mmaps}
  BY DEF MemoryInv, Memory!Partition
<1>4. Memory!Span(p, records[p].size) \subseteq DOMAIN mem
  BY <1>3, Zenon
<1> QED BY <1>1, <1>2, <1>4

\* The books are kept by a step that keeps the mappings and takes from the heap
\* what it takes from the table, or adds to both.
LEMMA HeapMoves ==
  ASSUME MemoryInv, UNCHANGED image,
         Memory!TypeOK', RecordsOK', Memory!CounterIsMapped',
         Memory!Mmaps' = Memory!Mmaps, \A p \in Memory!Mmaps : records'[p].size = records[p].size,
         NEW pages, \/ pages \cap DOMAIN mem = {} /\ DOMAIN mem' = DOMAIN mem \cup pages /\ Memory!Heap' = Memory!Heap \cup pages
                    \/ pages \subseteq Memory!Heap /\ DOMAIN mem' = DOMAIN mem \ pages /\ Memory!Heap' = Memory!Heap \ pages
  PROVE  MemoryInv'
<1>1. Memory!Program' = Memory!Program
  BY DEF Memory!Program
<1> DEFINE span(p) == Memory!Span(p, records[p].size)
           taken == UNION {span(p) : p \in Memory!Mmaps}
<1>2. /\ \A p \in Memory!Mmaps : Memory!Span(p, records'[p].size) = span(p)
      /\ UNION {Memory!Span(p, records'[p].size) : p \in Memory!Mmaps'} = taken
  BY Zenon
<1>3. /\ DOMAIN mem = Memory!Program \cup Memory!Heap \cup taken
      /\ Memory!Heap \cap Memory!Program = {}
      /\ \A p \in Memory!Mmaps : span(p) \cap (Memory!Program \cup Memory!Heap) = {}
      /\ \A p \in Memory!Mmaps : \A q \in Memory!Mmaps \ {p} : span(p) \cap span(q) = {}
      /\ \A p \in Memory!Mmaps : span(p) \subseteq taken
  BY DEF MemoryInv, Memory!Partition
<1> HIDE DEF taken, span
<1>4. taken \cap (Memory!Program \cup Memory!Heap) = {}
  BY <1>3 DEF taken
<1>5. /\ DOMAIN mem' = Memory!Program \cup Memory!Heap' \cup taken
      /\ Memory!Heap' \cap Memory!Program = {}
      /\ \A p \in Memory!Mmaps : span(p) \cap (Memory!Program \cup Memory!Heap') = {}
  BY <1>3, <1>4
<1>6. Memory!Partition'
  BY <1>1, <1>2, <1>3, <1>5 DEF Memory!Partition
<1> QED BY <1>6 DEF MemoryInv

\* A system call is counted.
LEMMA Called ==
  ASSUME MemoryInv, Memory!Call
  PROVE  calls' \in 0 .. MaxCalls /\ image' = image
  BY TableIsFinite DEF MemoryInv, Memory!TypeOK, Memory!Call

\* A call that changes no books, but perhaps permissions or the break in its page.
LEMMA MemoryRests ==
  ASSUME MemoryInv, calls' \in 0 .. MaxCalls, memoryStatus' \in {"running", "trapped"},
         mem' \in [DOMAIN mem -> Memory!Perms], programBreak' \in Nat, programBreak' >= heapBase,
         Memory!Up(programBreak') = Memory!Up(programBreak),
         UNCHANGED <<image, mapped, heapBase, mmapCursor, records>>
  PROVE  MemoryInv'
<1>1. DOMAIN mem' = DOMAIN mem /\ Memory!Heap' = Memory!Heap
  BY DEF Memory!Heap
<1>2. Memory!TypeOK' /\ RecordsOK' /\ Memory!CounterIsMapped' /\ Memory!Mmaps' = Memory!Mmaps
  BY <1>1 DEF MemoryInv, Memory!TypeOK, RecordsOK, Memory!CounterIsMapped, Memory!Mmaps
<1>3. \A p \in Memory!Mmaps : records'[p].size = records[p].size
  OBVIOUS
<1>4. {} \cap DOMAIN mem = {} /\ DOMAIN mem' = DOMAIN mem \cup {} /\ Memory!Heap' = Memory!Heap \cup {}
  BY <1>1
<1> QED BY <1>2, <1>3, <1>4, HeapMoves

\* A refusal changes nothing that is counted.
LEMMA MemoryTraps ==
  ASSUME MemoryInv, Memory!Call, Memory!Trap
  PROVE  MemoryInv'
  BY Called, MemoryRests DEF Memory!Trap, MemoryInv, Memory!TypeOK

\* brk beyond the last page of the heap.
LEMMA BrkGrows ==
  ASSUME MemoryInv, NEW address \in Nat, Memory!BrkGrow(address)
  PROVE  MemoryInv'
<1> DEFINE from == Memory!Up(programBreak)
           size == Memory!Up(address) - from
           pages == Memory!Span(from, size)
<1>1. Memory!Call /\ address >= heapBase /\ size > 0
  BY DEF Memory!BrkGrow
<1>2. CASE ~Memory!Affordable(size) \/ ~Memory!Free(pages)
  BY <1>1, <1>2, MemoryTraps DEF Memory!BrkGrow
<1>3. CASE Memory!Affordable(size) /\ Memory!Free(pages)
  <2>1. /\ mapped' = mapped + size
        /\ mem' = [p \in DOMAIN mem \cup pages |-> IF p \in pages THEN {"r", "w"} ELSE mem[p]]
        /\ records' = [p \in DOMAIN records \cup {from} |->
                         IF p = from THEN [size |-> size, kind |-> "brk"] ELSE records[p]]
        /\ programBreak' = address
        /\ UNCHANGED <<heapBase, mmapCursor, memoryStatus>>
    BY <1>1, <1>3 DEF Memory!BrkGrow
  <2>2. /\ heapBase \in Nat /\ programBreak \in Nat /\ programBreak >= heapBase
        /\ mem \in [DOMAIN mem -> Memory!Perms]
        /\ memoryStatus \in {"running", "trapped"} /\ mmapCursor \in Nat
    BY DEF MemoryInv, Memory!TypeOK
  <2>3. /\ from \in Nat /\ size \in Nat /\ Memory!Up(heapBase) \in Nat /\ Memory!Up(heapBase) <= from
        /\ Memory!Up(address) = from + size
    BY <1>1, <2>2, Rounding
  <2>4. /\ IsFiniteSet(pages) /\ Cardinality(pages) = size /\ from \in pages /\ pages = from .. from + size - 1
    BY <1>1, <2>3, Pagewise
  <2>5. pages \cap DOMAIN mem = {} /\ DOMAIN mem' = DOMAIN mem \cup pages
    BY <1>3, <2>1 DEF Memory!Free
  <2>6. Memory!Heap' = Memory!Heap \cup pages
    <3>1. /\ Memory!Heap = Memory!Up(heapBase) .. from - 1
          /\ Memory!Heap' = Memory!Up(heapBase) .. from + size - 1
      BY <2>1, <2>3 DEF Memory!Heap, Memory!Span
    <3> HIDE DEF from, size, pages
    <3> QED BY <2>3, <2>4, <3>1
  <2>7. from \notin Memory!Mmaps
    BY <2>4, <2>5, MappingsAreMapped
  <2> HIDE DEF from, size, pages
  <2>8. Memory!CounterIsMapped' /\ DOMAIN mem' \subseteq 0 .. Pages - 1 /\ mapped' \in Nat
    BY <1>3, <2>1, <2>4, <2>5, Adds
  <2>9. RecordsOK'
    BY <2>1, <2>3 DEF RecordsOK, MemoryInv, Memory!Mmaps
  <2>10. Memory!Mmaps' = Memory!Mmaps /\ \A p \in Memory!Mmaps : records'[p].size = records[p].size
    BY <2>1, <2>7 DEF Memory!Mmaps
  <2>11. Memory!TypeOK'
    <3>1. {"r", "w"} \in Memory!Perms
      BY DEF Memory!Perms
    <3>2. mem' \in [DOMAIN mem' -> Memory!Perms]
      BY <2>1, <2>2, <3>1
    <3> QED BY <1>1, <2>1, <2>2, <2>8, <3>2, Called DEF Memory!TypeOK
  <2> QED BY <1>1, <2>5, <2>6, <2>8, <2>9, <2>10, <2>11, Called, HeapMoves
<1> QED BY <1>2, <1>3

\* brk below the last page: whole pages are given back.
LEMMA BrkShrinks ==
  ASSUME MemoryInv, NEW address \in Nat, Memory!BrkShrink(address)
  PROVE  MemoryInv'
<1> DEFINE upto == Memory!Up(address)
           size == Memory!Up(programBreak) - upto
           pages == Memory!Span(upto, size)
<1>1. Memory!Call /\ address >= heapBase /\ size > 0
  BY DEF Memory!BrkShrink
<1>2. CASE ~Memory!Present(pages)
  BY <1>1, <1>2, MemoryTraps DEF Memory!BrkShrink
<1>3. CASE Memory!Present(pages)
  <2>1. /\ mem' = Memory!Without(mem, pages) /\ mapped' = Memory!Max({0, mapped - size})
        /\ records' = Memory!Without(records, {p \in DOMAIN records : records[p].kind = "brk" /\ p >= upto})
        /\ programBreak' = address
        /\ UNCHANGED <<heapBase, mmapCursor, memoryStatus>>
    BY <1>1, <1>3 DEF Memory!BrkShrink
  <2>2. /\ heapBase \in Nat /\ programBreak \in Nat /\ programBreak >= heapBase
        /\ mem \in [DOMAIN mem -> Memory!Perms]
        /\ memoryStatus \in {"running", "trapped"} /\ mmapCursor \in Nat
    BY DEF MemoryInv, Memory!TypeOK
  <2>3. /\ upto \in Nat /\ size \in Nat /\ Memory!Up(heapBase) \in Nat /\ Memory!Up(heapBase) <= upto
        /\ Memory!Up(programBreak) = upto + size
    BY <1>1, <2>2, Rounding
  <2>4. /\ IsFiniteSet(pages) /\ Cardinality(pages) = size /\ pages = upto .. upto + size - 1
    BY <1>1, <2>3, Pagewise
  <2>5. DOMAIN mem' = DOMAIN mem \ pages
    BY <2>1 DEF Memory!Without
  <2>6. pages \subseteq Memory!Heap /\ Memory!Heap' = Memory!Heap \ pages
    <3>1. /\ Memory!Heap = Memory!Up(heapBase) .. upto + size - 1
          /\ Memory!Heap' = Memory!Up(heapBase) .. upto - 1
      BY <2>1, <2>3 DEF Memory!Heap, Memory!Span
    <3> HIDE DEF upto, size, pages
    <3> QED BY <2>3, <2>4, <3>1
  <2> HIDE DEF upto, size, pages
  <2>7. Memory!CounterIsMapped' /\ DOMAIN mem' \subseteq 0 .. Pages - 1 /\ mapped' \in Nat
    BY <1>3, <2>1, <2>4, <2>5, Takes
  <2>8. RecordsOK'
    BY <2>1 DEF RecordsOK, MemoryInv, Memory!Mmaps, Memory!Without
  <2>9. Memory!Mmaps' = Memory!Mmaps /\ \A p \in Memory!Mmaps : records'[p].size = records[p].size
    <3>1. \A p \in DOMAIN records : records[p].kind = "mmap" => records[p].kind # "brk"
      OBVIOUS
    <3> QED BY <2>1, <3>1 DEF Memory!Mmaps, Memory!Without
  <2>10. Memory!TypeOK'
    <3>1. mem' \in [DOMAIN mem' -> Memory!Perms]
      BY <2>1, <2>2 DEF Memory!Without
    <3> QED BY <1>1, <2>1, <2>2, <2>7, <3>1, Called DEF Memory!TypeOK
  <2> QED BY <1>1, <2>5, <2>6, <2>7, <2>8, <2>9, <2>10, Called, HeapMoves
<1> QED BY <1>2, <1>3

\* brk within a page, below the heap, or as a query.
LEMMA BrkRests ==
  ASSUME MemoryInv, NEW address \in Nat, Memory!BrkStays(address)
  PROVE  MemoryInv'
  BY Called, MemoryRests DEF Memory!BrkStays, MemoryInv, Memory!TypeOK

\* mprotect changes permissions only.
LEMMA Protects ==
  ASSUME MemoryInv, NEW address, NEW length, NEW perm \in Memory!Perms, Memory!Mprotect(address, length, perm)
  PROVE  MemoryInv'
<1> DEFINE pages == Memory!Span(Memory!Down(address), Memory!Up(length))
<1>1. Memory!Call
  BY DEF Memory!Mprotect
<1>2. CASE Memory!Trap
  BY <1>1, <1>2, MemoryTraps
<1>3. CASE /\ mem' = [p \in DOMAIN mem |-> IF p \in pages THEN perm ELSE mem[p]]
           /\ UNCHANGED <<mapped, heapBase, programBreak, mmapCursor, records, memoryStatus>>
  <2>1. mem' \in [DOMAIN mem -> Memory!Perms]
    BY <1>3 DEF MemoryInv, Memory!TypeOK
  <2> QED BY <1>1, <1>3, <2>1, Called, MemoryRests DEF MemoryInv, Memory!TypeOK
<1> QED BY <1>2, <1>3 DEF Memory!Mprotect

\* The pages a mapping has.
Mapping(p) == Memory!Span(p, records[p].size)

\* What Partition says, mapping by mapping.
LEMMA PartitionListed ==
  Memory!Partition <=>
    /\ \A x : x \in DOMAIN mem <=> x \in Memory!Program \/ x \in Memory!Heap \/ \E p \in Memory!Mmaps : x \in Mapping(p)
    /\ Memory!Heap \cap Memory!Program = {}
    /\ \A p \in Memory!Mmaps : Mapping(p) \cap (Memory!Program \cup Memory!Heap) = {}
    /\ \A p, q \in Memory!Mmaps : p # q => Mapping(p) \cap Mapping(q) = {}
<1>1. (DOMAIN mem = Memory!Program \cup Memory!Heap \cup UNION {Mapping(p) : p \in Memory!Mmaps}) <=>
      \A x : x \in DOMAIN mem <=> x \in Memory!Program \/ x \in Memory!Heap \/ \E p \in Memory!Mmaps : x \in Mapping(p)
  OBVIOUS
<1>2. Memory!Partition <=>
        /\ DOMAIN mem = Memory!Program \cup Memory!Heap \cup UNION {Mapping(p) : p \in Memory!Mmaps}
        /\ Memory!Heap \cap Memory!Program = {}
        /\ \A p \in Memory!Mmaps : /\ Mapping(p) \cap (Memory!Program \cup Memory!Heap) = {}
                                   /\ \A q \in Memory!Mmaps \ {p} : Mapping(p) \cap Mapping(q) = {}
  BY Zenon DEF Memory!Partition, Mapping
<1>3. (\A p \in Memory!Mmaps : \A q \in Memory!Mmaps \ {p} : Mapping(p) \cap Mapping(q) = {}) <=>
      (\A p, q \in Memory!Mmaps : p # q => Mapping(p) \cap Mapping(q) = {})
  OBVIOUS
<1> QED BY <1>1, <1>2, <1>3, Zenon

\* mmap at the cursor.
LEMMA Maps ==
  ASSUME MemoryInv, NEW length \in Nat, NEW perm \in Memory!Perms, NEW supported, Memory!Mmap(length, perm, supported)
  PROVE  MemoryInv'
<1> DEFINE size == Memory!Up(length)
           pages == Memory!Span(mmapCursor, size)
<1>1. Memory!Call
  BY DEF Memory!Mmap
<1>2. CASE Memory!Trap
  BY <1>1, <1>2, MemoryTraps
<1>3. CASE ~(length = 0 \/ ~supported \/ ~Memory!Affordable(size) \/ ~Memory!Free(pages))
  <2>1. /\ mem' = [p \in DOMAIN mem \cup pages |-> IF p \in pages THEN perm ELSE mem[p]]
        /\ mapped' = mapped + size
        /\ records' = [p \in DOMAIN records \cup {mmapCursor} |->
                         IF p = mmapCursor THEN [size |-> size, kind |-> "mmap"] ELSE records[p]]
        /\ mmapCursor' = mmapCursor + size + 1
        /\ UNCHANGED <<heapBase, programBreak, memoryStatus>>
    BY <1>3 DEF Memory!Mmap
  <2>2. /\ heapBase \in Nat /\ programBreak \in Nat /\ programBreak >= heapBase
        /\ mem \in [DOMAIN mem -> Memory!Perms]
        /\ memoryStatus \in {"running", "trapped"} /\ mmapCursor \in Nat
    BY DEF MemoryInv, Memory!TypeOK
  <2>3. size \in Nat /\ size > 0
    <3>1. length > 0
      BY <1>3
    <3> QED BY <3>1, Pagewise
  <2> HIDE DEF size
  <2>4. IsFiniteSet(pages) /\ Cardinality(pages) = size /\ mmapCursor \in pages
    BY <2>2, <2>3, Pagewise
  <2>5. pages \cap DOMAIN mem = {} /\ DOMAIN mem' = DOMAIN mem \cup pages
    BY <1>3, <2>1 DEF Memory!Free
  <2>6. Memory!Program' = Memory!Program /\ Memory!Heap' = Memory!Heap
    BY <1>1, <2>1, Called DEF Memory!Program, Memory!Heap
  <2>7. Memory!Mmaps' = Memory!Mmaps \cup {mmapCursor} /\ mmapCursor \notin Memory!Mmaps
    <3>1. mmapCursor \notin Memory!Mmaps
      BY <2>4, <2>5, MappingsAreMapped
    <3> QED BY <2>1, <3>1 DEF Memory!Mmaps
  <2>9. records'[mmapCursor].size = size /\ \A p \in Memory!Mmaps : records'[p] = records[p]
    BY <2>1, <2>7 DEF Memory!Mmaps
  <2> DEFINE M == Memory!Mmaps
             Mapping2(p) == Memory!Span(p, records'[p].size)
  <2>10. Mapping2(mmapCursor) = pages /\ \A p \in M : Mapping2(p) = Mapping(p)
    BY <2>9, Zenon DEF Mapping
  <2>11. /\ \A x : x \in DOMAIN mem <=> x \in Memory!Program \/ x \in Memory!Heap \/ \E p \in M : x \in Mapping(p)
         /\ Memory!Heap \cap Memory!Program = {}
         /\ \A p \in M : Mapping(p) \cap (Memory!Program \cup Memory!Heap) = {}
         /\ \A p, q \in M : p # q => Mapping(p) \cap Mapping(q) = {}
    BY PartitionListed DEF MemoryInv
  <2>12. /\ \A p \in M : Mapping(p) \cap pages = {}
         /\ pages \cap (Memory!Program \cup Memory!Heap) = {}
    BY <2>5, <2>11
  <2> HIDE DEF pages, M, Mapping2
  <2>13. /\ \A x : x \in DOMAIN mem' <=>
              x \in Memory!Program \/ x \in Memory!Heap \/ \E p \in M \cup {mmapCursor} : x \in Mapping2(p)
         /\ \A p \in M \cup {mmapCursor} : Mapping2(p) \cap (Memory!Program \cup Memory!Heap) = {}
         /\ \A p, q \in M \cup {mmapCursor} : p # q => Mapping2(p) \cap Mapping2(q) = {}
    BY <2>5, <2>10, <2>11, <2>12
  <2>14. Memory!Partition'
    <3>1. DOMAIN mem' = Memory!Program \cup Memory!Heap \cup UNION {Mapping2(p) : p \in M \cup {mmapCursor}}
      BY <2>13
    <3>2. \A p \in M \cup {mmapCursor} :
            /\ Mapping2(p) \cap (Memory!Program \cup Memory!Heap) = {}
            /\ \A q \in (M \cup {mmapCursor}) \ {p} : Mapping2(p) \cap Mapping2(q) = {}
      BY <2>13
    <3> QED BY <2>6, <2>7, <2>11, <3>1, <3>2, Zenon DEF M, Mapping2, Memory!Partition
  <2>15. Memory!CounterIsMapped' /\ DOMAIN mem' \subseteq 0 .. Pages - 1 /\ mapped' \in Nat
    BY <1>3, <2>1, <2>4, <2>5, Adds DEF pages
  <2>16. RecordsOK'
    BY <2>1, <2>2, <2>3 DEF RecordsOK, MemoryInv, Memory!Mmaps
  <2>17. Memory!TypeOK'
    <3>1. mem' \in [DOMAIN mem' -> Memory!Perms]
      BY <2>1, <2>2
    <3> QED BY <1>1, <2>1, <2>2, <2>3, <2>15, <3>1, Called DEF Memory!TypeOK
  <2> QED BY <1>1, <2>14, <2>15, <2>16, <2>17, Called DEF MemoryInv
<1> QED BY <1>2, <1>3 DEF Memory!Mmap

\* munmap of a whole mapping.
LEMMA Unmaps ==
  ASSUME MemoryInv, NEW address \in Nat, NEW length \in Nat, Memory!Munmap(address, length)
  PROVE  MemoryInv'
<1> DEFINE size == Memory!Up(length)
           page == Memory!Down(address)
           pages == Memory!Span(page, size)
<1>1. Memory!Call
  BY DEF Memory!Munmap
<1>2. CASE Memory!Trap
  BY <1>1, <1>2, MemoryTraps
<1>3. CASE /\ page \in DOMAIN records /\ records[page] = [size |-> size, kind |-> "mmap"]
           /\ Memory!Present(pages)
           /\ mem' = Memory!Without(mem, pages) /\ records' = Memory!Without(records, {page})
           /\ mapped' = Memory!Max({0, mapped - size})
           /\ UNCHANGED <<heapBase, programBreak, mmapCursor, memoryStatus>>
  <2>1. /\ heapBase \in Nat /\ programBreak \in Nat /\ programBreak >= heapBase
        /\ mem \in [DOMAIN mem -> Memory!Perms]
        /\ memoryStatus \in {"running", "trapped"} /\ mmapCursor \in Nat
    BY DEF MemoryInv, Memory!TypeOK
  <2>2. size \in Nat /\ page \in Nat
    BY Pagewise
  <2>3. page \in Memory!Mmaps /\ records[page].size = size
    BY <1>3 DEF Memory!Mmaps
  <2> HIDE DEF size, page
  <2>4. IsFiniteSet(pages) /\ Cardinality(pages) = size
    BY <2>2, Pagewise
  <2>5. pages = Mapping(page) /\ DOMAIN mem' = DOMAIN mem \ pages
    BY <1>3, <2>3 DEF Mapping, Memory!Without
  <2>6. Memory!Program' = Memory!Program /\ Memory!Heap' = Memory!Heap
    BY <1>1, <1>3, Called DEF Memory!Program, Memory!Heap
  <2>7. Memory!Mmaps' = Memory!Mmaps \ {page} /\ \A p \in Memory!Mmaps \ {page} : records'[p] = records[p]
    BY <1>3 DEF Memory!Mmaps, Memory!Without
  <2> DEFINE M == Memory!Mmaps
             Mapping2(p) == Memory!Span(p, records'[p].size)
  <2>8. \A p \in M \ {page} : Mapping2(p) = Mapping(p)
    BY <2>7, Zenon DEF Mapping
  <2>9. /\ \A x : x \in DOMAIN mem <=> x \in Memory!Program \/ x \in Memory!Heap \/ \E p \in M : x \in Mapping(p)
        /\ Memory!Heap \cap Memory!Program = {}
        /\ \A p \in M : Mapping(p) \cap (Memory!Program \cup Memory!Heap) = {}
        /\ \A p, q \in M : p # q => Mapping(p) \cap Mapping(q) = {}
    BY PartitionListed DEF MemoryInv
  <2> HIDE DEF pages, M, Mapping2
  <2>10. /\ \A x : x \in DOMAIN mem' <=>
              x \in Memory!Program \/ x \in Memory!Heap \/ \E p \in M \ {page} : x \in Mapping2(p)
         /\ \A p \in M \ {page} : Mapping2(p) \cap (Memory!Program \cup Memory!Heap) = {}
         /\ \A p, q \in M \ {page} : p # q => Mapping2(p) \cap Mapping2(q) = {}
    <3>1. page \in M
      BY <2>3 DEF M
    <3> QED BY <2>5, <2>8, <2>9, <3>1
  <2>11. Memory!Partition'
    <3>1. DOMAIN mem' = Memory!Program \cup Memory!Heap \cup UNION {Mapping2(p) : p \in M \ {page}}
      BY <2>10
    <3>2. \A p \in M \ {page} :
            /\ Mapping2(p) \cap (Memory!Program \cup Memory!Heap) = {}
            /\ \A q \in (M \ {page}) \ {p} : Mapping2(p) \cap Mapping2(q) = {}
      BY <2>10
    <3> QED BY <2>6, <2>7, <2>9, <3>1, <3>2, Zenon DEF M, Mapping2, Memory!Partition
  <2>12. Memory!CounterIsMapped' /\ DOMAIN mem' \subseteq 0 .. Pages - 1 /\ mapped' \in Nat
    BY <1>3, <2>4, <2>5, Takes DEF pages
  <2>13. RecordsOK'
    BY <1>3 DEF RecordsOK, MemoryInv, Memory!Mmaps, Memory!Without
  <2>14. Memory!TypeOK'
    <3>1. mem' \in [DOMAIN mem' -> Memory!Perms]
      BY <1>3, <2>1 DEF Memory!Without, pages
    <3> QED BY <1>1, <1>3, <2>1, <2>12, <3>1, Called DEF Memory!TypeOK
  <2> QED BY <1>1, <2>11, <2>12, <2>13, <2>14, Called DEF MemoryInv
<1> QED BY <1>2, <1>3 DEF Memory!Munmap

\* Every system call keeps the books.
LEMMA MemoryMoves ==
  ASSUME MemoryInv, Memory!Next
  PROVE  MemoryInv'
<1>1. \A address \in Memory!Addresses : address \in Nat
  BY MemoryConstants DEF Memory!Addresses, Memory!MemoryAssumption
<1>2. {} \in Memory!Perms /\ {"r", "w"} \in Memory!Perms /\ {"r"} \in Memory!Perms
  BY DEF Memory!Perms
<1>3. ASSUME NEW address \in Memory!Addresses, Memory!BrkGrow(address) \/ Memory!BrkShrink(address) \/ Memory!BrkStays(address)
      PROVE  MemoryInv'
  BY <1>1, <1>3, BrkGrows, BrkShrinks, BrkRests
<1>4. ASSUME NEW length \in 0 .. 4, NEW perm \in {{}, {"r", "w"}}, NEW supported \in BOOLEAN, Memory!Mmap(length, perm, supported)
      PROVE  MemoryInv'
  BY <1>2, <1>4, Maps
<1>5. ASSUME NEW address \in Memory!Addresses, NEW length \in 0 .. 4,
             Memory!Munmap(address, length) \/ Memory!Mprotect(address, length, {"r"})
      PROVE  MemoryInv'
  BY <1>1, <1>2, <1>5, Unmaps, Protects
<1> QED BY <1>3, <1>4, <1>5 DEF Memory!Next

\* The books of the machine session are kept through every sequence of calls.
THEOREM MemoryInvariance == Providers => []MemoryInv
<1>1. OneMoves => MemoryInv
  BY MemoryStarts DEF OneMoves
<1>2. MemoryInv /\ [Moves]_all => MemoryInv'
  <2>1. CASE Memory!Next /\ MemoryInv
    BY <2>1, MemoryMoves
  <2>2. CASE UNCHANGED memoryVars /\ MemoryInv
    <3>1. UNCHANGED <<image, mem, mapped, heapBase, programBreak, mmapCursor, records, memoryStatus, calls>>
      BY <2>2 DEF memoryVars
    <3>2. /\ mem \in [DOMAIN mem -> Memory!Perms] /\ programBreak \in Nat /\ programBreak >= heapBase
          /\ calls \in 0 .. MaxCalls /\ memoryStatus \in {"running", "trapped"}
      BY <2>2 DEF MemoryInv, Memory!TypeOK
    <3> QED BY <2>2, <3>1, <3>2, MemoryRests
  <2>3. MemoryInv /\ [Moves]_all => (Memory!Next \/ UNCHANGED memoryVars)
    BY DEF Moves, all, memoryVars
  <2> QED BY <2>1, <2>2, <2>3
<1> QED BY <1>1, <1>2, PTL DEF Providers

\* The budget is compared with what the engine has mapped, and program, heap and
\* mappings share no page and are all there is.
THEOREM MemoryStaysCounted == Providers => []MemoryIsCounted
<1>1. MemoryInv => MemoryIsCounted
  BY DEF MemoryInv, MemoryIsCounted
<1> QED BY <1>1, MemoryInvariance, PTL

\* An address that mmap returned is not returned again.
THEOREM MappingsAreFresh == Providers => Memory!MmapIsFresh
<1> DEFINE Fresh == mmapCursor' >= mmapCursor /\ \A p \in Memory!Mmaps' \ Memory!Mmaps : p >= mmapCursor /\ p < mmapCursor'
<1>1. MemoryInv /\ [Moves]_all => [Fresh]_(Memory!vars)
  <2> SUFFICES ASSUME MemoryInv, Memory!Next
               PROVE  Fresh
    BY DEF Moves, all, memoryVars, Memory!vars
  <2>1. mmapCursor \in Nat
    BY DEF MemoryInv, Memory!TypeOK
  <2>2. CASE UNCHANGED <<mmapCursor, records>>
    BY <2>1, <2>2 DEF Memory!Mmaps
  <2>3. ASSUME NEW address, Memory!BrkGrow(address) PROVE Fresh
    BY <2>1, <2>2, <2>3 DEF Memory!BrkGrow, Memory!Trap, Memory!Mmaps
  <2>4. ASSUME NEW address, Memory!BrkShrink(address) PROVE Fresh
    BY <2>1, <2>2, <2>4 DEF Memory!BrkShrink, Memory!Trap, Memory!Mmaps, Memory!Without
  <2>5. ASSUME NEW length \in 0 .. 4, NEW perm, NEW supported, Memory!Mmap(length, perm, supported) PROVE Fresh
    <3>1. Memory!Up(length) \in Nat
      BY Rounding
    <3> QED BY <2>1, <2>2, <2>5, <3>1 DEF Memory!Mmap, Memory!Trap, Memory!Mmaps
  <2>6. ASSUME NEW address, NEW length, Memory!Munmap(address, length) PROVE Fresh
    BY <2>1, <2>2, <2>6 DEF Memory!Munmap, Memory!Trap, Memory!Mmaps, Memory!Without
  <2>7. ASSUME NEW address, NEW length, Memory!Mprotect(address, length, {"r"}) PROVE Fresh
    BY <2>2, <2>7 DEF Memory!Mprotect, Memory!Trap
  <2>8. ASSUME NEW address, Memory!BrkStays(address) PROVE Fresh
    BY <2>2, <2>8 DEF Memory!BrkStays
  <2> QED BY <2>3, <2>4, <2>5, <2>6, <2>7, <2>8 DEF Memory!Next
<1> QED BY <1>1, MemoryInvariance, PTL DEF Providers, Memory!MmapIsFresh

-----------------------------------------------------------------------------
(***************************************************************************)
(* The Blink session: status, mode and explanation                         *)
(***************************************************************************)
\* The constants of the Blink session.
LEMMA BlinkConstants == Blink!BlinkAssumption
  BY ProvidersAssumption DEF ProvidersAssumption

\* What a call finds.
LEMMA CallMade ==
  ASSUME ControlInv, NEW entry \in Blink!Entries, NEW c, c = [entry |-> entry, found |-> Blink!Seen], blinkStatus \in Live
  PROVE  /\ c \in Blink!CallType /\ c # None /\ c.entry = entry /\ c.found.mode = mode /\ c.found = Blink!Seen
         /\ c.found.status = blinkStatus
<1>1. Blink!Seen \in [target : {"program"}, provider : {"blink"}, status : Live,
                      mode : {"none", "debug", "headless"}, used : {0}, live : {TRUE}]
      /\ Blink!Seen.mode = mode /\ Blink!Seen.status = blinkStatus
  BY DEF ControlInv, Blink!Seen
<1> HIDE DEF Blink!Seen
<1>2. c \in Blink!CallType /\ c.entry = entry /\ c.found = Blink!Seen
  BY <1>1 DEF Blink!CallType, Live
<1> QED BY <1>1, <1>2, BlinkConstants DEF Blink!BlinkAssumption

\* A session starts in no mode and with nothing to explain.
LEMMA ControlStarts ==
  ASSUME Blink!Init
  PROVE  ControlInv
  BY BlinkConstants DEF Blink!BlinkAssumption, Blink!Init, ControlInv, BlinkCallOK, EngineOK, ExplanationOK, Live

\* Calls that return at once.
LEMMA ControlRests ==
  ASSUME ControlInv, Blink!MarkRunning \/ Blink!Pause \/ Blink!StepRefused \/ Blink!SliceRefused
  PROVE  ControlInv'
<1> USE BlinkConstants DEF Blink!BlinkAssumption, ControlInv, BlinkCallOK, EngineOK, ExplanationOK, Live, Blink!explained
<1>1. CASE Blink!MarkRunning
  BY <1>1 DEF Blink!MarkRunning
<1>2. CASE Blink!Pause
  BY <1>2 DEF Blink!Pause
<1>3. CASE Blink!StepRefused
  BY <1>3 DEF Blink!StepRefused, Blink!Refuses, Blink!Terminal
<1>4. CASE Blink!SliceRefused
  BY <1>4 DEF Blink!SliceRefused, Blink!Refuses, Blink!Terminal
<1> QED BY <1>1, <1>2, <1>3, <1>4

\* A step enters the debugger, a slice the headless engine.
LEMMA ControlEnters ==
  ASSUME ControlInv, Blink!Step \/ Blink!RunSlice
  PROVE  ControlInv'
<1>1. blinkStatus \in Live /\ blinkCall = None
  BY DEF Blink!Step, Blink!RunSlice, Blink!Terminal, ControlInv, Live
<1>2. CASE Blink!Step
  <2> DEFINE entry == IF mode = "none" THEN "starti" ELSE "stepi"
  <2>1. /\ blinkCall' = [entry |-> entry, found |-> Blink!Seen] /\ mode # "headless"
        /\ blinkStatus' = "running" /\ tty' = FALSE /\ report' = None
        /\ UNCHANGED <<mode, exitCode, engine>>
    BY <1>2 DEF Blink!Step
  <2>2. entry \in Blink!Entries
    BY DEF Blink!Entries
  <2>3. /\ blinkCall' \in Blink!CallType /\ blinkCall' # None /\ blinkCall'.entry = entry /\ blinkCall'.found.mode = mode
    BY <1>1, <2>1, <2>2, CallMade
  <2> QED BY <1>1, <2>1, <2>3, BlinkConstants
          DEF Blink!BlinkAssumption, ControlInv, BlinkCallOK, EngineOK, ExplanationOK, Live
<1>3. CASE Blink!RunSlice
  <2>1. /\ blinkCall' = [entry |-> Blink!SliceEntry, found |-> Blink!Seen] /\ mode # "debug"
        /\ blinkStatus' = "running" /\ mode' = "headless" /\ tty' = FALSE
        /\ report' = (IF blinkStatus \in {"ready", "paused"} THEN None ELSE report)
        /\ UNCHANGED <<exitCode, engine>>
    BY <1>3 DEF Blink!RunSlice
  <2>2. Blink!SliceEntry \in Blink!Entries \ {"starti", "stepi"}
    BY DEF Blink!Entries, Blink!SliceEntry
  <2>3. /\ blinkCall' \in Blink!CallType /\ blinkCall' # None /\ blinkCall'.entry = Blink!SliceEntry
        /\ blinkCall'.found.mode = mode
    BY <1>1, <2>1, <2>2, CallMade
  <2> QED BY <1>1, <2>1, <2>2, <2>3, BlinkConstants
          DEF Blink!BlinkAssumption, ControlInv, BlinkCallOK, EngineOK, ExplanationOK, Live
<1> QED BY <1>2, <1>3

\* The engine starts the program, and goes on to step in the same call.
LEMMA ControlStarted ==
  ASSUME ControlInv, Blink!Started
  PROVE  ControlInv'
<1>1. /\ blinkCall \in Blink!CallType /\ blinkCall # None /\ blinkCall.entry = "starti"
      /\ blinkCall.found.mode = "none" /\ mode = "none"
      /\ mode' = "debug" /\ engine' = "loaded" /\ blinkCall' = [blinkCall EXCEPT !.entry = "stepi"]
  BY DEF Blink!Started, Blink!Stops, ControlInv, BlinkCallOK
<1>2. /\ blinkCall' \in Blink!CallType /\ blinkCall' # None /\ blinkCall'.entry = "stepi"
      /\ blinkCall'.found.mode = "none"
  BY <1>1, BlinkConstants DEF Blink!BlinkAssumption, Blink!CallType, Blink!Entries
<1>3. blinkStatus' \in {blinkStatus, "paused"} /\ UNCHANGED <<tty, report, exitCode>>
  BY DEF Blink!Started, Blink!OnStep, Blink!OnNothing, Blink!explained
<1> QED BY <1>1, <1>2, <1>3, BlinkConstants
        DEF Blink!BlinkAssumption, ControlInv, BlinkCallOK, EngineOK, ExplanationOK, Live

\* A stop: what the callback explains, and where the engine comes to rest.
LEMMA StopsWell ==
  ASSUME ControlInv, blinkCall # None, blinkCall' = None, mode' = mode,
         \/ Blink!OnExit /\ engine' = "over"
         \/ Blink!OnFatal /\ engine' = "over"
         \/ Blink!OnTrap /\ engine' = "over"
         \/ Blink!OnTty /\ engine' = "tty" /\ mode \in {"debug", "headless"}
         \/ /\ blinkStatus' \in {blinkStatus, "paused"} /\ UNCHANGED <<tty, report, exitCode>>
            /\ (mode = "debug" /\ engine' = "loaded") \/ (mode = "headless" /\ engine' = "preempted")
  PROVE  ControlInv'
<1>1. /\ blinkStatus \in {"running", "paused"} /\ report = None /\ tty = FALSE /\ exitCode = None
      /\ mode \in {"none", "debug", "headless"}
  BY DEF ControlInv, ExplanationOK, Live
<1>2. BlinkCallOK' /\ (blinkCall \in Blink!CallType \cup {None})'
  BY DEF BlinkCallOK
<1>3. None \notin {"trap", "crash", "wait", "guest", "signal"}
  BY BlinkConstants DEF Blink!BlinkAssumption
<1> USE DEF ControlInv, EngineOK, ExplanationOK, Live
<1>4. CASE Blink!OnExit /\ engine' = "over"
  BY <1>1, <1>2, <1>3, <1>4 DEF Blink!OnExit
<1>5. CASE Blink!OnFatal /\ engine' = "over"
  BY <1>1, <1>2, <1>3, <1>5 DEF Blink!OnFatal
<1>6. CASE Blink!OnTrap /\ engine' = "over"
  BY <1>1, <1>2, <1>3, <1>6 DEF Blink!OnTrap
<1>7. CASE Blink!OnTty /\ engine' = "tty" /\ mode \in {"debug", "headless"}
  BY <1>1, <1>2, <1>3, <1>7 DEF Blink!OnTty
<1>8. CASE /\ blinkStatus' \in {blinkStatus, "paused"} /\ UNCHANGED <<tty, report, exitCode>>
           /\ (mode = "debug" /\ engine' = "loaded") \/ (mode = "headless" /\ engine' = "preempted")
  BY <1>1, <1>2, <1>3, <1>8
<1> HIDE DEF ControlInv, EngineOK, ExplanationOK, Live
<1> QED BY <1>4, <1>5, <1>6, <1>7, <1>8

\* The engine stops: the callbacks agree with the status they leave.
LEMMA ControlStops ==
  ASSUME ControlInv, Blink!SliceStops \/ Blink!Stepped \/ Blink!Throws
  PROVE  ControlInv'
<1>1. CASE Blink!SliceStops
  <2>1. blinkCall # None /\ blinkCall' = None /\ mode' = mode /\ mode = "headless"
    BY <1>1 DEF Blink!SliceStops, Blink!Stops
  <2>2. \/ Blink!OnExit /\ engine' = "over"
        \/ Blink!OnFatal /\ engine' = "over"
        \/ Blink!OnTrap /\ engine' = "over"
        \/ Blink!OnTty /\ engine' = "tty"
        \/ blinkStatus' = blinkStatus /\ UNCHANGED <<tty, report, exitCode>> /\ engine' = "preempted"
    BY <1>1 DEF Blink!SliceStops, Blink!OnNothing, Blink!explained
  <2> QED BY <2>1, <2>2, StopsWell
<1>2. CASE Blink!Stepped
  <2>1. blinkCall # None /\ blinkCall' = None /\ mode' = mode /\ mode = "debug"
    BY <1>2 DEF Blink!Stepped, Blink!Stops
  <2>2. \/ Blink!OnExit /\ engine' = "over"
        \/ Blink!OnFatal /\ engine' = "over"
        \/ Blink!OnTrap /\ engine' = "over"
        \/ Blink!OnTty /\ engine' = "tty"
        \/ blinkStatus' \in {blinkStatus, "paused"} /\ UNCHANGED <<tty, report, exitCode>> /\ engine' = "loaded"
    BY <1>2 DEF Blink!Stepped, Blink!OnStep, Blink!explained
  <2> QED BY <2>1, <2>2, StopsWell
<1>3. CASE Blink!Throws
  <2>1. /\ blinkCall # None /\ blinkCall' = None /\ mode' = mode
        /\ Blink!OnTrap /\ engine' = "over"
    BY <1>3 DEF Blink!Throws, Blink!OnTrap
  <2> QED BY <2>1, StopsWell
<1> QED BY <1>1, <1>2, <1>3

\* Output changes none of it.
LEMMA ControlPrints ==
  ASSUME ControlInv, Blink!Prints \/ Blink!PrintsError
  PROVE  ControlInv'
<1>1. UNCHANGED <<blinkStatus, mode, tty, report, exitCode, blinkCall, engine>>
  BY DEF Blink!Prints, Blink!PrintsError, Blink!explained
<1> QED BY <1>1 DEF ControlInv, BlinkCallOK, EngineOK, ExplanationOK

\* What is explained fits whenever no call is under way.
LEMMA ReportsFit == ControlInv => Blink!ReportFits
  BY BlinkConstants DEF Blink!BlinkAssumption, Blink!ReportFits, ControlInv, ExplanationOK, Live

\* A call is entered where the engine rests.
LEMMA ResumesRight ==
  ASSUME ControlInv, Blink!Next, blinkCall = None, blinkCall' # None
  PROVE  CASE blinkCall'.entry \in {"starti", "run_fast"} -> engine = "new"
           [] blinkCall'.entry = "preempt_resume" -> engine = "preempted"
           [] blinkCall'.entry = "faketty_resume" -> engine = "tty"
           [] blinkCall'.entry = "stepi" -> engine \in {"loaded", "tty"}
<1>1. Blink!Step \/ Blink!RunSlice
  BY DEF Blink!Next, Blink!MarkRunning, Blink!Pause, Blink!StepRefused, Blink!SliceRefused, Blink!Refuses,
         Blink!Prints, Blink!PrintsError, Blink!SliceStops, Blink!Started, Blink!Stepped, Blink!Throws, Blink!Stops
<1>2. blinkStatus \in Live
  BY <1>1 DEF Blink!Step, Blink!RunSlice, Blink!Terminal, ControlInv, Live
<1>3. /\ mode = "none" => engine = "new"
      /\ mode = "debug" => engine \in {"loaded", "tty"}
      /\ mode = "headless" => engine \in {"preempted", "tty"}
      /\ tty <=> engine = "tty"
      /\ mode \in {"none", "debug", "headless"} /\ tty \in BOOLEAN
  BY <1>2 DEF ControlInv, EngineOK
<1>4. CASE Blink!Step
  <2>1. blinkCall'.entry = (IF mode = "none" THEN "starti" ELSE "stepi") /\ mode # "headless"
    BY <1>4 DEF Blink!Step
  <2>2. (blinkCall'.entry = "starti" /\ engine = "new") \/ (blinkCall'.entry = "stepi" /\ engine \in {"loaded", "tty"})
    BY <1>3, <2>1
  <2> QED BY <2>2
<1>5. CASE Blink!RunSlice
  <2>1. blinkCall'.entry = Blink!SliceEntry /\ mode # "debug"
    BY <1>5 DEF Blink!RunSlice
  <2>2. \/ blinkCall'.entry = "run_fast" /\ engine = "new"
        \/ blinkCall'.entry = "preempt_resume" /\ engine = "preempted"
        \/ blinkCall'.entry = "faketty_resume" /\ engine = "tty"
    BY <1>3, <2>1 DEF Blink!SliceEntry
  <2> QED BY <2>2
<1> QED BY <1>1, <1>4, <1>5

\* The session as the controller sees it.
BlinkGuest(s, m) ==
  [target |-> "program", provider |-> "blink", status |-> s, mode |-> m, used |-> 0, live |-> TRUE]

BlinkType ==
  [target : {"program"}, provider : {"blink"}, status : Live \cup {"exited", "trapped"},
   mode : {"none", "debug", "headless"}, used : {0}, live : {TRUE}]

\* A record with these fields is this session.
LEMMA BlinkGuestIs ==
  ASSUME NEW z \in BlinkType
  PROVE  z = BlinkGuest(z.status, z.mode)
  BY DEF BlinkType, BlinkGuest

\* What the interface makes of it.
LEMMA BlinkGuests ==
  ASSUME NEW s \in Live, NEW m \in {"none", "debug", "headless"}, NEW x, x = BlinkGuest(s, m)
  PROVE  /\ BlinkGuest("trapped", m) \in Blink!Interface!StepOutcomes(x)
         /\ \A t \in {"exited", "trapped", "paused"} :
              m # "headless" => BlinkGuest(t, "debug") \in Blink!Interface!StepOutcomes(x)
         /\ m = "debug" => BlinkGuest("trapped", m) \in Blink!Interface!SliceOutcomes(x)
         /\ \A t \in {"exited", "trapped", "running", "paused"} :
              m # "debug" => BlinkGuest(t, "headless") \in Blink!Interface!SliceOutcomes(x)
         /\ s = "running" => BlinkGuest("paused", m) = Blink!Interface!Paused(x)
         /\ s \in {"ready", "paused"} => BlinkGuest("running", m) = Blink!Interface!MarkedRunning(x)
<1>1. x.status = s /\ x.mode = m /\ x.provider = "blink" /\ x.status \notin Blink!Interface!Terminal
  BY DEF BlinkGuest, Live, Blink!Interface!Terminal
<1> DEFINE y == BlinkGuest("running", m)
<1> USE DEF Live
<1>2. y.status = "running" /\ y.mode = m /\ y.provider = "blink"
  BY DEF BlinkGuest
<1>3. ASSUME NEW t \in Live \cup {"exited", "trapped"}
      PROVE  /\ [x EXCEPT !.status = t] = BlinkGuest(t, m)
             /\ [x EXCEPT !.mode = "debug", !.status = t] = BlinkGuest(t, "debug")
             /\ [y EXCEPT !.status = t] = BlinkGuest(t, m)
             /\ [y EXCEPT !.mode = "headless", !.status = t] = BlinkGuest(t, "headless")
  <2>1. "running" \in Live /\ "debug" \in {"none", "debug", "headless"} /\ "headless" \in {"none", "debug", "headless"}
    BY DEF Live
  <2> HIDE DEF y
  <2>2. y = BlinkGuest("running", m)
    BY DEF y
  <2> HIDE DEF Live
  <2>3. ASSUME NEW b \in Live, NEW z, z = BlinkGuest(b, m), NEW n \in {"none", "debug", "headless"}
        PROVE  [z EXCEPT !.status = t] = BlinkGuest(t, m) /\ [z EXCEPT !.mode = n, !.status = t] = BlinkGuest(t, n)
    <3>1. z \in BlinkType /\ z.mode = m
      BY <2>3 DEF BlinkType, BlinkGuest
    <3>2. ASSUME NEW w, w = [z EXCEPT !.status = t] PROVE w = BlinkGuest(t, m)
      <4>1. w \in BlinkType /\ w.status = t /\ w.mode = m
        BY <3>1, <3>2 DEF BlinkType
      <4> QED BY <4>1, BlinkGuestIs
    <3>3. ASSUME NEW w, w = [z EXCEPT !.mode = n, !.status = t] PROVE w = BlinkGuest(t, n)
      <4>1. w \in BlinkType /\ w.status = t /\ w.mode = n
        BY <3>1, <3>3 DEF BlinkType
      <4> QED BY <4>1, BlinkGuestIs
    <3> QED BY <3>2, <3>3, Zenon
  <2>4. [x EXCEPT !.status = t] = BlinkGuest(t, m)
    BY <2>1, <2>3, Zenon
  <2>5. [x EXCEPT !.mode = "debug", !.status = t] = BlinkGuest(t, "debug")
    BY <2>1, <2>3, Zenon
  <2>6. [y EXCEPT !.status = t] = BlinkGuest(t, m)
    BY <2>1, <2>2, <2>3, Zenon
  <2>7. [y EXCEPT !.mode = "headless", !.status = t] = BlinkGuest(t, "headless")
    BY <2>1, <2>2, <2>3, Zenon
  <2> QED BY <2>4, <2>5, <2>6, <2>7, Zenon
<1>4. Blink!Interface!MarkedRunning(x) = y
  <2>1. [x EXCEPT !.status = "running"] = y
    BY <1>3, Zenon DEF Live
  <2>2. CASE s = "running"
    BY <1>1, <2>2 DEF Blink!Interface!MarkedRunning
  <2>3. CASE s # "running"
    <3>1. x.status \in {"ready", "paused"}
      BY <1>1, <2>3 DEF Live
    <3> QED BY <2>1, <3>1, Zenon DEF Blink!Interface!MarkedRunning
  <2> QED BY <2>2, <2>3
<1>5. s = "running" => Blink!Interface!Paused(x) = BlinkGuest("paused", m)
  <2>1. [x EXCEPT !.status = "paused"] = BlinkGuest("paused", m)
    BY <1>3, Zenon DEF Live
  <2> QED BY <1>1, <2>1, Zenon DEF Blink!Interface!Paused
<1> HIDE DEF y
<1>6. Blink!Interface!StepOutcomes(x) = Blink!Interface!BlinkSteps(x)
  BY <1>1, Zenon DEF Blink!Interface!StepOutcomes
<1>7. Blink!Interface!SliceOutcomes(x) = Blink!Interface!BlinkSlices(y)
  BY <1>2, <1>4, Zenon DEF Blink!Interface!SliceOutcomes
<1>8. BlinkGuest("trapped", m) \in Blink!Interface!BlinkSteps(x)
  <2>1. [x EXCEPT !.status = "trapped"] = BlinkGuest("trapped", m)
    BY <1>3, Zenon DEF Live
  <2>2. [x EXCEPT !.status = "trapped"] \in Blink!Interface!BlinkSteps(x)
    BY Zenon DEF Blink!Interface!BlinkSteps
  <2> QED BY <2>1, <2>2
<1>9. ASSUME NEW t \in {"exited", "trapped", "paused"}, m # "headless"
      PROVE  BlinkGuest(t, "debug") \in Blink!Interface!BlinkSteps(x)
  <2>1. [x EXCEPT !.mode = "debug", !.status = t] = BlinkGuest(t, "debug")
    BY <1>3, Zenon DEF Live
  <2>2. t \in {"exited", "trapped"} \cup {"paused"}
    OBVIOUS
  <2>3. [x EXCEPT !.mode = "debug", !.status = t] \in Blink!Interface!BlinkSteps(x)
    BY <1>1, <1>9, <2>2, Zenon DEF Blink!Interface!BlinkSteps
  <2> QED BY <2>1, <2>3
<1>10. m = "debug" => BlinkGuest("trapped", m) \in Blink!Interface!BlinkSlices(y)
  <2>1. [y EXCEPT !.status = "trapped"] = BlinkGuest("trapped", m)
    BY <1>3, Zenon DEF Live
  <2>2. m = "debug" => [y EXCEPT !.status = "trapped"] \in Blink!Interface!BlinkSlices(y)
    BY <1>2, Zenon DEF Blink!Interface!BlinkSlices
  <2> QED BY <2>1, <2>2
<1>11. ASSUME NEW t \in {"exited", "trapped", "running", "paused"}, m # "debug"
       PROVE  BlinkGuest(t, "headless") \in Blink!Interface!BlinkSlices(y)
  <2>1. [y EXCEPT !.mode = "headless", !.status = t] = BlinkGuest(t, "headless")
    BY <1>3, Zenon DEF Live
  <2>2. t \in {"exited", "trapped"} \cup {"running", "paused"}
    OBVIOUS
  <2>3. [y EXCEPT !.mode = "headless", !.status = t] \in Blink!Interface!BlinkSlices(y)
    BY <1>2, <1>11, <2>2, Zenon DEF Blink!Interface!BlinkSlices
  <2> QED BY <2>1, <2>3
<1> QED BY <1>4, <1>5, <1>6, <1>7, <1>8, <1>9, <1>10, <1>11, Zenon DEF y

\* The end of a call is one that the interface allows the provider to report.
LEMMA ReturnsWhatItMay ==
  ASSUME ControlInv, Blink!Next, blinkCall # None, blinkCall' = None
  PROVE  Blink!Seen' \in (IF blinkCall.entry \in {"starti", "stepi"} THEN Blink!Interface!StepOutcomes(blinkCall.found)
                          ELSE Blink!Interface!SliceOutcomes(blinkCall.found))
<1> DEFINE s == blinkCall.found.status
           m == blinkCall.found.mode
<1>1. /\ blinkCall \in Blink!CallType /\ s \in Live /\ m \in {"none", "debug", "headless"}
      /\ blinkCall.entry \in Blink!Entries
      /\ blinkCall.entry = "starti" => m = "none" /\ mode = "none"
      /\ blinkCall.entry = "stepi" => m # "headless" /\ mode = "debug"
      /\ blinkCall.entry \notin {"starti", "stepi"} => m # "debug" /\ mode = "headless"
      /\ blinkStatus \in {"running", "paused"}
  BY DEF ControlInv, BlinkCallOK, ExplanationOK, Blink!CallType, Live
<1>2. blinkCall.found = BlinkGuest(s, m)
  BY <1>1 DEF Blink!CallType, BlinkGuest
<1>3. Blink!Seen' = BlinkGuest(blinkStatus', mode')
  BY DEF Blink!Seen, BlinkGuest
<1>4. Blink!SliceStops \/ Blink!Stepped \/ Blink!Throws
  <2>1. ~Blink!Started
    <3>1. [blinkCall EXCEPT !.entry = "stepi"] \in Blink!CallType
      BY <1>1 DEF Blink!CallType, Blink!Entries
    <3> QED BY <3>1, BlinkConstants DEF Blink!Started, Blink!BlinkAssumption
  <2> QED BY <2>1 DEF Blink!Next, Blink!MarkRunning, Blink!Pause, Blink!StepRefused, Blink!Step, Blink!SliceRefused,
                      Blink!RunSlice, Blink!Prints, Blink!PrintsError, Blink!Refuses
<1> HIDE DEF s, m
<1>5. CASE Blink!SliceStops
  <2>1. mode = "headless" /\ mode' = "headless" /\ blinkStatus' \in {"exited", "trapped", "running", "paused"}
    BY <1>1, <1>5 DEF Blink!SliceStops, Blink!OnExit, Blink!OnFatal, Blink!OnTrap, Blink!OnTty, Blink!OnNothing
  <2>2. blinkCall.entry \notin {"starti", "stepi"}
    BY <1>1, <2>1
  <2> QED BY <1>1, <1>2, <1>3, <2>1, <2>2, BlinkGuests
<1>6. CASE Blink!Stepped
  <2>1. blinkCall.entry = "stepi" /\ mode' = "debug" /\ blinkStatus' \in {"exited", "trapped", "paused"}
    BY <1>1, <1>6 DEF Blink!Stepped, Blink!OnExit, Blink!OnFatal, Blink!OnTrap, Blink!OnTty, Blink!OnStep
  <2> QED BY <1>1, <1>2, <1>3, <2>1, BlinkGuests
<1>7. CASE Blink!Throws
  <2>1. mode' = mode /\ blinkStatus' = "trapped"
    BY <1>7 DEF Blink!Throws
  <2> QED BY <1>1, <1>2, <1>3, <2>1, BlinkGuests
<1> QED BY <1>4, <1>5, <1>6, <1>7

\* And so is a change of status outside of calls.
LEMMA ChangesAsItMay ==
  ASSUME ControlInv, Blink!Next, blinkCall = None, blinkCall' = None, blinkStatus' # blinkStatus
  PROVE  Blink!Seen' \in {Blink!Interface!Paused(Blink!Seen), Blink!Interface!MarkedRunning(Blink!Seen)}
                           \cup Blink!Interface!StepOutcomes(Blink!Seen) \cup Blink!Interface!SliceOutcomes(Blink!Seen)
<1>1. Blink!Seen = BlinkGuest(blinkStatus, mode) /\ Blink!Seen' = BlinkGuest(blinkStatus', mode')
  BY DEF Blink!Seen, BlinkGuest
<1>2. Blink!MarkRunning \/ Blink!Pause \/ Blink!StepRefused \/ Blink!SliceRefused
  <2>1. ASSUME blinkStatus \in Live, NEW entry \in Blink!Entries PROVE [entry |-> entry, found |-> Blink!Seen] # None
    BY <2>1, CallMade
  <2>2. ~Blink!Step
    BY <2>1 DEF Blink!Step, Blink!Terminal, ControlInv, Live, Blink!Entries
  <2>3. ~Blink!RunSlice
    BY <2>1 DEF Blink!RunSlice, Blink!Terminal, ControlInv, Live, Blink!Entries, Blink!SliceEntry
  <2> QED BY <2>2, <2>3 DEF Blink!Next, Blink!Prints, Blink!PrintsError, Blink!SliceStops,
                 Blink!Started, Blink!Stepped, Blink!Throws, Blink!Stops
<1>3. mode \in {"none", "debug", "headless"} /\ blinkStatus \in Live
  BY <1>2 DEF ControlInv, Live, Blink!MarkRunning, Blink!Pause, Blink!StepRefused, Blink!SliceRefused, Blink!Terminal
<1>4. CASE Blink!MarkRunning
  <2>1. blinkStatus \in {"ready", "paused"} /\ blinkStatus' = "running" /\ mode' = mode
    BY <1>4 DEF Blink!MarkRunning
  <2> QED BY <1>1, <1>3, <2>1, BlinkGuests
<1>5. CASE Blink!Pause
  <2>1. blinkStatus = "running" /\ blinkStatus' = "paused" /\ mode' = mode
    BY <1>5 DEF Blink!Pause
  <2> QED BY <1>1, <1>3, <2>1, BlinkGuests
<1>6. CASE Blink!StepRefused
  <2>1. blinkStatus' = "trapped" /\ mode' = mode
    BY <1>6 DEF Blink!StepRefused, Blink!Refuses
  <2> QED BY <1>1, <1>3, <2>1, BlinkGuests
<1>7. CASE Blink!SliceRefused
  <2>1. blinkStatus' = "trapped" /\ mode' = mode /\ mode = "debug"
    BY <1>7 DEF Blink!SliceRefused, Blink!Refuses
  <2> QED BY <1>1, <1>3, <2>1, BlinkGuests
<1> QED BY <1>2, <1>4, <1>5, <1>6, <1>7

-----------------------------------------------------------------------------
(***************************************************************************)
(* The Blink session: the trace                                            *)
(***************************************************************************)
\* r is s without its first d elements.
Newest(r, s, d) == Len(r) + d = Len(s) /\ \A i \in 1 .. Len(r) : r[i] = s[i + d]

\* r is what is left of s, followed by more, without the first d elements.
Continues(r, s, more, d) ==
  /\ Len(r) + d = Len(s) + Len(more)
  /\ \A i \in 1 .. Len(r) : r[i] = IF i + d <= Len(s) THEN s[i + d] ELSE more[i + d - Len(s)]

\* The last n elements of a sequence: what is left when the oldest, d of them, go.
LEMMA LastElements ==
  ASSUME NEW T, NEW s \in Seq(T), NEW n \in Nat \ {0}, NEW r, r = Blink!LastOf(s, n), Len(s) > 0
  PROVE  /\ r \in Seq(T) /\ Len(r) \in 1 .. n
         /\ \E d \in Nat : Newest(r, s, d)
<1>0. Len(s) \in Nat
  OBVIOUS
<1>1. CASE Len(s) <= n
  <2>1. r = s
    BY <1>1 DEF Blink!LastOf
  <2>2. Newest(r, s, 0)
    BY <1>0, <2>1 DEF Newest
  <2> QED BY <1>0, <1>1, <2>1, <2>2
<1>2. CASE ~(Len(s) <= n)
  <2>1. r = SubSeq(s, Len(s) - n + 1, Len(s)) /\ Len(s) \in Nat /\ Len(s) - n + 1 \in 1 .. Len(s) + 1
    BY <1>2 DEF Blink!LastOf
  <2>2. PICK d \in Nat : d = Len(s) - n
    BY <1>0, <1>2
  <2>3. /\ r \in Seq(T) /\ Len(r) = n
        /\ \A i \in 1 .. n : r[i] = s[i + d]
    BY <2>1, <2>2, SubSeqProperties
  <2>4. Len(r) \in 1 .. n /\ Newest(r, s, d)
    BY <1>0, <2>2, <2>3 DEF Newest
  <2> QED BY <2>2, <2>3, <2>4
<1> QED BY <1>1, <1>2

\* The events after some were recorded: the newest of the old ones, and those.
LEMMA RecordsNewest ==
  ASSUME TraceInv, NEW T, T = -1 .. MaxSteps, NEW more \in Seq(T), Len(more) > 0,
         NEW r, r = Blink!Recorded(more)
  PROVE  /\ r \in Seq(T) /\ Len(r) <= Kept /\ Len(r) > 0
         /\ \E d \in Nat : Continues(r, blinkEvents, more, d)
<1>1. PICK s : s = blinkEvents \o more
  OBVIOUS
<1>2. blinkEvents \in Seq(T) /\ Kept \in Nat \ {0}
  BY BlinkConstants DEF TraceInv, Blink!BlinkAssumption
<1>3. /\ s \in Seq(T) /\ Len(s) = Len(blinkEvents) + Len(more)
      /\ \A i \in 1 .. Len(s) : s[i] = IF i <= Len(blinkEvents) THEN blinkEvents[i] ELSE more[i - Len(blinkEvents)]
  BY <1>1, <1>2, ConcatProperties, Zenon
<1>4. Len(blinkEvents) \in Nat /\ Len(more) \in Nat /\ Len(s) \in Nat /\ Len(s) > 0
  BY <1>2, <1>3
<1>5. r = Blink!LastOf(s, Kept)
  BY <1>1 DEF Blink!Recorded
<1>6. /\ r \in Seq(T) /\ Len(r) \in 1 .. Kept
      /\ \E d \in Nat : Newest(r, s, d)
  BY <1>2, <1>3, <1>4, <1>5, LastElements
<1>7. PICK d \in Nat : Newest(r, s, d)
  BY <1>6
<1>8. ASSUME NEW i \in 1 .. Len(r)
      PROVE  r[i] = IF i + d <= Len(blinkEvents) THEN blinkEvents[i + d] ELSE more[i + d - Len(blinkEvents)]
  <2>1. i + d \in 1 .. Len(s) /\ r[i] = s[i + d]
    BY <1>2, <1>4, <1>6, <1>7 DEF Newest
  <2>2. PICK k \in 1 .. Len(s) : k = i + d
    BY <2>1
  <2> QED BY <1>3, <2>1, <2>2
<1>9. Len(r) + d = Len(blinkEvents) + Len(more) /\ Len(r) <= Kept /\ Len(r) > 0
  BY <1>2, <1>3, <1>6, <1>7 DEF Newest
<1>10. Continues(r, blinkEvents, more, d)
  BY <1>8, <1>9 DEF Continues
<1> QED BY <1>6, <1>9, <1>10

\* Events that are no instructions change nothing of the trace.
LEMMA TraceNoted ==
  ASSUME TraceInv, NEW more \in Seq({-1}), Len(more) > 0,
         blinkEvents' = Blink!Recorded(more), UNCHANGED <<blinkCount, last>>,
         blinkCall' # None /\ blinkCall'.entry \in {"starti", "stepi"} => blinkCount < MaxSteps
  PROVE  TraceInv'
<1>1. MaxSteps \in Nat /\ None \notin Nat
  BY BlinkConstants DEF Blink!BlinkAssumption
<1>2. more \in Seq(-1 .. MaxSteps) /\ \A i \in 1 .. Len(more) : more[i] = -1
  BY <1>1
<1>0. PICK r : r = blinkEvents'
  OBVIOUS
<1>3. /\ r \in Seq(-1 .. MaxSteps) /\ Len(r) <= Kept
      /\ \E d \in Nat : Continues(r, blinkEvents, more, d)
  BY <1>0, <1>2, RecordsNewest
<1>4. PICK d \in Nat :
           /\ Len(r) + d = Len(blinkEvents) + Len(more)
           /\ \A i \in 1 .. Len(r) :
                r[i] = IF i + d <= Len(blinkEvents) THEN blinkEvents[i + d] ELSE more[i + d - Len(blinkEvents)]
  BY <1>3 DEF Continues
<1>5. Len(r) \in Nat /\ Len(blinkEvents) \in Nat /\ Len(more) \in Nat
  BY <1>3 DEF TraceInv
<1>6. \A i \in 1 .. Len(r) :
        \/ i + d \in 1 .. Len(blinkEvents) /\ r[i] = blinkEvents[i + d]
        \/ i + d > Len(blinkEvents) /\ r[i] = -1
  <2> SUFFICES ASSUME NEW i \in 1 .. Len(r)
               PROVE  \/ i + d \in 1 .. Len(blinkEvents) /\ r[i] = blinkEvents[i + d]
                      \/ i + d > Len(blinkEvents) /\ r[i] = -1
    OBVIOUS
  <2>1. CASE i + d <= Len(blinkEvents)
    BY <1>4, <1>5, <2>1
  <2>2. CASE ~(i + d <= Len(blinkEvents))
    <3>1. i + d - Len(blinkEvents) \in 1 .. Len(more)
      BY <1>4, <1>5, <2>2
    <3> QED BY <1>2, <1>4, <1>5, <2>2, <3>1
  <2> QED BY <2>1, <2>2
<1>7. \A k \in 1 .. Len(blinkEvents) : k > d => k - d \in 1 .. Len(r) /\ r[k - d] = blinkEvents[k]
  <2> SUFFICES ASSUME NEW k \in 1 .. Len(blinkEvents), k > d
               PROVE  k - d \in 1 .. Len(r) /\ r[k - d] = blinkEvents[k]
    OBVIOUS
  <2>1. k - d \in 1 .. Len(r) /\ (k - d) + d = k /\ k <= Len(blinkEvents)
    BY <1>4, <1>5
  <2> QED BY <1>4, <2>1
<1>8. Blink!TraceIsContiguous'
  <2> SUFFICES ASSUME NEW i \in 1 .. Len(r), NEW j \in 1 .. Len(r), i < j, r[i] > 0, r[j] > 0,
                      \A k \in i + 1 .. j - 1 : r[k] = -1
               PROVE  r[j] = r[i] + 1
    BY <1>0 DEF Blink!TraceIsContiguous
  <2>1. /\ i + d \in 1 .. Len(blinkEvents) /\ r[i] = blinkEvents[i + d]
        /\ j + d \in 1 .. Len(blinkEvents) /\ r[j] = blinkEvents[j + d]
        /\ i + d < j + d
    BY <1>5, <1>6
  <2>2. ASSUME NEW k \in (i + d) + 1 .. (j + d) - 1 PROVE blinkEvents[k] = -1
    <3>1. k \in 1 .. Len(blinkEvents) /\ k > d /\ k - d \in i + 1 .. j - 1
      BY <1>5, <2>1
    <3> QED BY <1>7, <3>1
  <2> QED BY <2>1, <2>2 DEF TraceInv, Blink!TraceIsContiguous
<1>9. NewestIsLast'
  <2> SUFFICES ASSUME NEW i \in 1 .. Len(r), r[i] >= 0, \A k \in i + 1 .. Len(r) : r[k] = -1
               PROVE  r[i] = (IF last = None THEN 0 ELSE last)
    BY <1>0 DEF NewestIsLast
  <2>1. i + d \in 1 .. Len(blinkEvents) /\ r[i] = blinkEvents[i + d]
    BY <1>5, <1>6
  <2>2. ASSUME NEW k \in (i + d) + 1 .. Len(blinkEvents) PROVE blinkEvents[k] = -1
    <3>1. k \in 1 .. Len(blinkEvents) /\ k > d /\ k - d \in i + 1 .. Len(r)
      BY <1>5, <1>7, <2>1
    <3> QED BY <1>7, <3>1
  <2> QED BY <2>1, <2>2 DEF TraceInv, NewestIsLast
<1> QED BY <1>0, <1>3, <1>8, <1>9 DEF TraceInv, Blink!LastIsCurrent

\* An instruction, or a gap, becomes the newest.
LEMMA TraceExtended ==
  ASSUME TraceInv, NEW n \in 0 .. MaxSteps, blinkEvents' = Blink!Recorded(<<n>>),
         \/ n = blinkCount + 1 /\ last' = n
         \/ n = 0 /\ last' = None,
         blinkCount' = blinkCount + 1, blinkCount < MaxSteps, blinkCall' = None
  PROVE  TraceInv'
<1>1. MaxSteps \in Nat /\ None \notin Nat
  BY BlinkConstants DEF Blink!BlinkAssumption
<1>2. PICK more : more = <<n>>
  OBVIOUS
<1>3. more \in Seq(-1 .. MaxSteps) /\ Len(more) = 1 /\ more[1] = n
  BY <1>1, <1>2
<1>3a. Len(more) > 0
  BY <1>3
<1>0. PICK r : r = blinkEvents'
  OBVIOUS
<1>4. /\ r \in Seq(-1 .. MaxSteps) /\ Len(r) <= Kept /\ Len(r) > 0
      /\ \E d \in Nat : Continues(r, blinkEvents, more, d)
  BY <1>0, <1>2, <1>3, <1>3a, RecordsNewest
<1>5. PICK d \in Nat :
           /\ Len(r) + d = Len(blinkEvents) + Len(more)
           /\ \A i \in 1 .. Len(r) :
                r[i] = IF i + d <= Len(blinkEvents) THEN blinkEvents[i + d] ELSE more[i + d - Len(blinkEvents)]
  BY <1>4 DEF Continues
<1>6. Len(r) \in Nat /\ Len(blinkEvents) \in Nat /\ Len(r) + d = Len(blinkEvents) + 1
  BY <1>3, <1>4, <1>5 DEF TraceInv
<1>7. r[Len(r)] = n
  <2>1. Len(r) \in 1 .. Len(r) /\ ~(Len(r) + d <= Len(blinkEvents)) /\ Len(r) + d - Len(blinkEvents) = 1
    BY <1>4, <1>6
  <2> QED BY <1>3, <1>5, <2>1
<1>8. \A i \in 1 .. Len(r) - 1 : i + d \in 1 .. Len(blinkEvents) /\ r[i] = blinkEvents[i + d]
  <2> SUFFICES ASSUME NEW i \in 1 .. Len(r) - 1
               PROVE  i + d \in 1 .. Len(blinkEvents) /\ r[i] = blinkEvents[i + d]
    OBVIOUS
  <2>1. i \in 1 .. Len(r) /\ i + d <= Len(blinkEvents) /\ i + d \in 1 .. Len(blinkEvents)
    BY <1>6
  <2> QED BY <1>5, <2>1
<1>9. \A k \in 1 .. Len(blinkEvents) : k > d => k - d \in 1 .. Len(r) - 1 /\ r[k - d] = blinkEvents[k]
  <2> SUFFICES ASSUME NEW k \in 1 .. Len(blinkEvents), k > d
               PROVE  k - d \in 1 .. Len(r) - 1 /\ r[k - d] = blinkEvents[k]
    OBVIOUS
  <2>1. k - d \in 1 .. Len(r) - 1 /\ (k - d) + d = k
    BY <1>6
  <2> QED BY <1>8, <2>1
<1>10. Blink!TraceIsContiguous'
  <2> SUFFICES ASSUME NEW i \in 1 .. Len(r), NEW j \in 1 .. Len(r), i < j, r[i] > 0, r[j] > 0,
                      \A k \in i + 1 .. j - 1 : r[k] = -1
               PROVE  r[j] = r[i] + 1
    BY <1>0 DEF Blink!TraceIsContiguous
  <2>1. i + d \in 1 .. Len(blinkEvents) /\ r[i] = blinkEvents[i + d]
    BY <1>6, <1>8
  <2>2. CASE j < Len(r)
    <3>1. j + d \in 1 .. Len(blinkEvents) /\ r[j] = blinkEvents[j + d] /\ i + d < j + d
      BY <1>6, <1>8, <2>2
    <3>2. ASSUME NEW k \in (i + d) + 1 .. (j + d) - 1 PROVE blinkEvents[k] = -1
      <4>1. k \in 1 .. Len(blinkEvents) /\ k > d /\ k - d \in i + 1 .. j - 1
        BY <1>6, <2>1, <3>1
      <4> QED BY <1>9, <4>1
    <3> QED BY <2>1, <3>1, <3>2 DEF TraceInv, Blink!TraceIsContiguous
  <2>3. CASE j = Len(r)
    <3>1. n > 0 /\ n = blinkCount + 1 /\ r[j] = n
      BY <1>1, <1>7, <2>3
    <3>2. ASSUME NEW k \in (i + d) + 1 .. Len(blinkEvents) PROVE blinkEvents[k] = -1
      <4>1. k \in 1 .. Len(blinkEvents) /\ k > d /\ k - d \in i + 1 .. j - 1
        BY <1>6, <1>9, <2>1, <2>3
      <4> QED BY <1>9, <4>1
    <3>3. blinkEvents[i + d] = (IF last = None THEN 0 ELSE last)
      <4>1. PICK h \in 1 .. Len(blinkEvents) : h = i + d
        BY <2>1
      <4>2. blinkEvents[h] > 0 /\ blinkEvents[h] \in -1 .. MaxSteps
        <5>1. r[i] > 0 /\ r[i] = blinkEvents[i + d]
          BY <2>1
        <5>2. blinkEvents \in Seq(-1 .. MaxSteps)
          BY DEF TraceInv
        <5>3. blinkEvents[h] \in -1 .. MaxSteps
          <6>1. PICK T : T = -1 .. MaxSteps
            OBVIOUS
          <6>2. blinkEvents \in Seq(T)
            BY <5>2, <6>1, Zenon
          <6>3. blinkEvents[h] \in T
            BY <4>1, <6>2
          <6> QED BY <6>1, <6>3, Zenon
        <5> QED BY <4>1, <5>1, <5>3
      <4>3. blinkEvents[h] >= 0
        BY <1>1, <4>2
      <4>4. \A k \in h + 1 .. Len(blinkEvents) : blinkEvents[k] = -1
        BY <3>2, <4>1
      <4> QED BY <4>1, <4>3, <4>4 DEF TraceInv, NewestIsLast
    <3>4. last # None /\ last = blinkCount
      BY <2>1, <3>3 DEF TraceInv, Blink!LastIsCurrent
    <3> QED BY <2>1, <3>1, <3>3, <3>4
  <2> QED BY <1>6, <2>2, <2>3
<1>11. NewestIsLast'
  <2> SUFFICES ASSUME NEW i \in 1 .. Len(r), r[i] >= 0, \A k \in i + 1 .. Len(r) : r[k] = -1
               PROVE  r[i] = (IF last' = None THEN 0 ELSE last')
    BY <1>0 DEF NewestIsLast
  <2>1. i = Len(r)
    <3>1. i < Len(r) => Len(r) \in i + 1 .. Len(r)
      BY <1>6
    <3> QED BY <1>1, <1>6, <1>7, <3>1
  <2> QED BY <1>1, <1>7, <2>1
<1> QED BY <1>0, <1>1, <1>4, <1>10, <1>11 DEF TraceInv, Blink!LastIsCurrent

\* Where the trace is not written to, it holds.
LEMMA TraceRests ==
  ASSUME TraceInv, UNCHANGED <<blinkEvents, last>>, blinkCount' \in 0 .. MaxSteps,
         blinkCount' # blinkCount => last = None,
         blinkCall' # None /\ blinkCall'.entry \in {"starti", "stepi"} => blinkCount' < MaxSteps
  PROVE  TraceInv'
<1>1. Blink!LastIsCurrent'
  BY DEF TraceInv, Blink!LastIsCurrent
<1>2. Blink!TraceIsContiguous' /\ NewestIsLast'
  BY DEF TraceInv, Blink!TraceIsContiguous, NewestIsLast
<1> QED BY <1>1, <1>2 DEF TraceInv

\* A step that records no instruction.
LEMMA TraceKept ==
  ASSUME TraceInv, UNCHANGED <<blinkCount, last>>,
         blinkEvents' \in {blinkEvents, Blink!Recorded(<<-1>>), Blink!Recorded(<<-1, -1>>)},
         blinkCall' # None /\ blinkCall'.entry \in {"starti", "stepi"} => blinkCount < MaxSteps
  PROVE  TraceInv'
<1>1. CASE blinkEvents' = blinkEvents
  <2>1. blinkCount' \in 0 .. MaxSteps
    BY DEF TraceInv
  <2> QED BY <1>1, <2>1, TraceRests
<1>2. ASSUME NEW more \in {<<-1>>, <<-1, -1>>}, blinkEvents' = Blink!Recorded(more) PROVE TraceInv'
  <2>1. more \in Seq({-1}) /\ Len(more) > 0
    <3>1. CASE more = <<-1>>
      BY <3>1
    <3>2. CASE more = <<-1, -1>>
      BY <3>2
    <3> QED BY <3>1, <3>2
  <2> QED BY <1>2, <2>1, TraceNoted
<1> QED BY <1>1, <1>2, Zenon

\* The trace starts empty.
LEMMA TraceStarts ==
  ASSUME Blink!Init
  PROVE  TraceInv
<1>1. MaxSteps \in Nat /\ Kept \in Nat \ {0}
  BY BlinkConstants DEF Blink!BlinkAssumption
<1>2. blinkEvents = <<-1>> /\ blinkCount = 0 /\ last = None /\ blinkCall = None
  BY DEF Blink!Init
<1>3. Blink!LastIsCurrent /\ Blink!TraceIsContiguous /\ NewestIsLast
  BY <1>2 DEF Blink!LastIsCurrent, Blink!TraceIsContiguous, NewestIsLast
<1> QED BY <1>1, <1>2, <1>3 DEF TraceInv

\* Every step keeps the trace.
LEMMA TraceMoves ==
  ASSUME ControlInv, TraceInv, Blink!Next
  PROVE  TraceInv'
<1>1. MaxSteps \in Nat /\ None \notin Nat
  BY BlinkConstants DEF Blink!BlinkAssumption
<1>2. CASE Blink!MarkRunning \/ Blink!Pause
  <2>1. UNCHANGED <<blinkCount, last, blinkEvents, blinkCall>>
    BY <1>2 DEF Blink!MarkRunning, Blink!Pause
  <2> QED BY <2>1, TraceKept DEF TraceInv
<1>3. CASE Blink!StepRefused \/ Blink!SliceRefused
  <2>1. UNCHANGED <<blinkCount, last, blinkCall>> /\ blinkCall = None /\ blinkEvents' = Blink!Recorded(<<-1>>)
    BY <1>3 DEF Blink!StepRefused, Blink!SliceRefused, Blink!Refuses
  <2> QED BY <2>1, TraceKept
<1>4. CASE Blink!Step
  <2>1. UNCHANGED <<blinkCount, last, blinkEvents>> /\ blinkCount < MaxSteps
    BY <1>4 DEF Blink!Step
  <2> QED BY <2>1, TraceKept
<1>5. CASE Blink!RunSlice
  <2>1. /\ UNCHANGED <<blinkCount, last>> /\ blinkEvents' \in {blinkEvents, Blink!Recorded(<<-1>>)}
        /\ blinkCall'.entry = Blink!SliceEntry
    BY <1>5 DEF Blink!RunSlice
  <2>2. Blink!SliceEntry \notin {"starti", "stepi"}
    BY DEF Blink!SliceEntry
  <2> QED BY <2>1, <2>2, TraceKept
<1>6. CASE Blink!Prints \/ Blink!PrintsError
  <2>1. ASSUME NEW b, Blink!Capture(b)
        PROVE  blinkEvents' \in {blinkEvents, Blink!Recorded(<<-1>>), Blink!Recorded(<<-1, -1>>)}
    <3>1. CASE discard /\ Prompt[cursor + 1] = b
      BY <2>1, <3>1 DEF Blink!Capture
    <3>2. CASE ~(discard /\ Prompt[cursor + 1] = b)
      <4>1. PICK note \in {<<-1>>, <<-1, -1>>} : blinkEvents' = Blink!Recorded(note)
        BY <2>1, <3>2, Zenon DEF Blink!Capture
      <4> QED BY <4>1
    <3> QED BY <3>1, <3>2
  <2>2. /\ UNCHANGED <<blinkCount, last, blinkCall>>
        /\ blinkEvents' \in {blinkEvents, Blink!Recorded(<<-1>>), Blink!Recorded(<<-1, -1>>)}
    <3>1. CASE Blink!Prints
      <4>1. \E b : Blink!Capture(b)
        BY <3>1, Zenon DEF Blink!Prints
      <4>2. blinkEvents' \in {blinkEvents, Blink!Recorded(<<-1>>), Blink!Recorded(<<-1, -1>>)}
        BY <2>1, <4>1, Zenon
      <4>3. UNCHANGED <<blinkCount, last, blinkCall>>
        BY <3>1, Zenon DEF Blink!Prints
      <4> QED BY <4>2, <4>3
    <3>2. CASE Blink!PrintsError
      BY <3>2 DEF Blink!PrintsError
    <3> QED BY <1>6, <3>1, <3>2
  <2> QED BY <2>2, TraceKept DEF TraceInv
<1>7. CASE Blink!SliceStops \/ Blink!Throws
  <2>1. /\ UNCHANGED <<blinkCount, last>> /\ blinkCall' = None
        /\ blinkEvents' \in {blinkEvents, Blink!Recorded(<<-1>>), Blink!Recorded(<<-1, -1>>)}
    BY <1>7 DEF Blink!SliceStops, Blink!Throws
  <2> QED BY <2>1, TraceKept
<1>8. CASE Blink!Started
  <2>1. /\ UNCHANGED <<blinkCount, last>> /\ blinkEvents' = Blink!Recorded(<<-1>>)
        /\ blinkCall # None /\ blinkCall.entry = "starti"
    BY <1>8 DEF Blink!Started, Blink!Stops
  <2>2. blinkCount < MaxSteps
    BY <2>1 DEF TraceInv
  <2> QED BY <2>1, <2>2, TraceKept
<1>9. CASE Blink!Stepped
  <2>1. /\ blinkCount' = blinkCount + 1 /\ blinkCall' = None
        /\ blinkCall # None /\ blinkCall.entry = "stepi"
    BY <1>9 DEF Blink!Stepped, Blink!Stops
  <2>2. blinkCount < MaxSteps /\ blinkCount \in 0 .. MaxSteps
    BY <2>1 DEF TraceInv
  <2>3. PICK place \in {"program", "dependency", "unresolved"} : Blink!StepRecorded(place)
    BY <1>9, Zenon DEF Blink!Stepped
  <2>4. CASE place = "program"
    <3>1. PICK n \in 0 .. MaxSteps : n = blinkCount + 1
      BY <1>1, <2>2
    <3>2. last' = n /\ blinkEvents' = Blink!Recorded(<<n>>)
      BY <2>3, <2>4, <3>1, Zenon DEF Blink!StepRecorded
    <3> QED BY <2>1, <2>2, <3>1, <3>2, TraceExtended
  <2>5. CASE place # "program" /\ last # None
    <3>1. last' = None /\ blinkEvents' = Blink!Recorded(<<0>>)
      BY <2>3, <2>5, Zenon DEF Blink!StepRecorded
    <3>2. 0 \in 0 .. MaxSteps
      BY <1>1
    <3> QED BY <2>1, <2>2, <3>1, <3>2, TraceExtended
  <2>6. CASE place # "program" /\ last = None
    <3>1. UNCHANGED <<blinkEvents, last>>
      BY <2>3, <2>6, Zenon DEF Blink!StepRecorded
    <3>2. blinkCount' \in 0 .. MaxSteps
      BY <1>1, <2>1, <2>2
    <3> QED BY <2>1, <2>6, <3>1, <3>2, TraceRests
  <2> QED BY <2>4, <2>5, <2>6
<1> QED BY <1>2, <1>3, <1>4, <1>5, <1>6, <1>7, <1>8, <1>9 DEF Blink!Next

-----------------------------------------------------------------------------
(***************************************************************************)
(* The Blink session: the output                                           *)
(***************************************************************************)
\* The session has entered the engine at least once.
Begun == mode # "none" \/ blinkCall # None

\* r is s, followed by t and by b.
Shows(r, s, t, b) ==
  /\ r \in Seq(Bytes) /\ Len(r) = Len(s) + Len(t) + 1
  /\ \A i \in 1 .. Len(s) : r[i] = s[i]
  /\ \A i \in 1 .. Len(t) : r[Len(s) + i] = t[i]
  /\ r[Len(s) + Len(t) + 1] = b

\* Bytes put back and a byte printed, at the end of what is shown.
LEMMA AppendsByte ==
  ASSUME NEW s \in Seq(Bytes), NEW t \in Seq(Bytes), NEW b \in Bytes, NEW r, r = s \o Append(t, b)
  PROVE  Shows(r, s, t, b)
<1>1. PICK u : u = Append(t, b)
  OBVIOUS
<1>2. /\ u \in Seq(Bytes) /\ Len(u) = Len(t) + 1 /\ u[Len(t) + 1] = b
      /\ \A i \in 1 .. Len(t) : u[i] = t[i]
  BY <1>1, AppendProperties
<1>3. /\ r \in Seq(Bytes) /\ Len(r) = Len(s) + Len(u)
      /\ \A i \in 1 .. Len(r) : r[i] = IF i <= Len(s) THEN s[i] ELSE u[i - Len(s)]
  <2>1. r = s \o u /\ u \in Seq(Bytes)
    BY <1>1, <1>2
  <2>2. /\ s \o u \in Seq(Bytes) /\ Len(s \o u) = Len(s) + Len(u)
        /\ \A i \in 1 .. Len(s) + Len(u) : (s \o u)[i] = IF i <= Len(s) THEN s[i] ELSE u[i - Len(s)]
    BY <2>1, ConcatProperties, Zenon
  <2> QED BY <2>1, <2>2
<1>4. Len(s) \in Nat /\ Len(t) \in Nat
  OBVIOUS
<1>5. ASSUME NEW i \in 1 .. Len(t) + 1
      PROVE  r[Len(s) + i] = u[i]
  <2>1. PICK k \in 1 .. Len(r) : k = Len(s) + i
    BY <1>2, <1>3, <1>4
  <2>2. ~(k <= Len(s)) /\ k - Len(s) = i
    BY <1>4, <2>1
  <2>3. r[k] = u[k - Len(s)]
    BY <1>3, <2>2
  <2> QED BY <2>1, <2>2, <2>3
<1>6. r[Len(s) + Len(t) + 1] = b
  <2>1. PICK m \in 1 .. Len(t) + 1 : m = Len(t) + 1
    BY <1>4
  <2>2. Len(s) + m = Len(s) + Len(t) + 1
    BY <1>4, <2>1
  <2> QED BY <1>2, <1>5, <2>1, <2>2
<1>7. \A i \in 1 .. Len(s) : r[i] = s[i]
  BY <1>2, <1>3, <1>4
<1>8. \A i \in 1 .. Len(t) : r[Len(s) + i] = t[i]
  BY <1>2, <1>4, <1>5
<1> QED BY <1>2, <1>3, <1>4, <1>6, <1>7, <1>8 DEF Shows

\* A line that begins like the prompt as far as both go is the prompt.
LEMMA PromptIsMatched ==
  ASSUME printed \in Prompts, NEW n \in Nat,
         n = Len(printed) \/ n = Len(Prompt),
         \A i \in 1 .. n : printed[i] = Prompt[i]
  PROVE  printed = Prompt
<1>1. SUFFICES ASSUME printed # Prompt PROVE FALSE
  OBVIOUS
<1>2. Blink!Differ(printed, Prompt)
  BY <1>1, BlinkConstants DEF Blink!BlinkAssumption
<1>3. PICK i \in 1 .. Len(printed) : i <= Len(Prompt) /\ printed[i] # Prompt[i]
  BY <1>2 DEF Blink!Differ
<1>4. Len(printed) \in Nat /\ Len(Prompt) \in Nat
  BY BlinkConstants DEF Blink!BlinkAssumption
<1>5. i \in 1 .. n
  BY <1>3, <1>4
<1> QED BY <1>3, <1>5

\* The output starts empty.
LEMMA OutputStarts ==
  ASSUME Blink!Init
  PROVE  OutputInv
<1>1. Prompt \in Seq(Bytes) /\ Prompts \subseteq Seq(Bytes)
  BY BlinkConstants DEF Blink!BlinkAssumption
<1>2. /\ printed \in Prompts /\ mode = "none" /\ blinkCall = None
      /\ discard = FALSE /\ cursor = 0 /\ stdout = <<>> /\ loading = <<>> /\ guest = <<>>
  BY DEF Blink!Init
<1>3. Len(printed) \in Nat /\ Len(Prompt) \in Nat
  BY <1>1, <1>2
<1>4. OutputOK
  <2>1. loading \in Seq(Bytes) /\ Len(loading) <= Len(printed)
    BY <1>2, <1>3
  <2>2. \A i \in 1 .. Len(loading) : loading[i] = printed[Loaded + i]
    BY <1>2
  <2> QED BY <1>2, <2>1, <2>2 DEF OutputOK
<1>5. discard \in BOOLEAN /\ cursor \in 0 .. Len(Prompt) /\ stdout \in Seq(Bytes) /\ guest \in Seq(Bytes)
  <2>1. discard \in BOOLEAN
    BY <1>2, Zenon
  <2>3. cursor \in 0 .. Len(Prompt)
    BY <1>2, <1>3
  <2>2. <<>> \in Seq(Bytes)
    BY EmptySeq
  <2> QED BY <1>2, <2>1, <2>2, <2>3
<1> QED BY <1>4, <1>5 DEF OutputInv

\* Where nothing is printed, the output holds.
LEMMA OutputRests ==
  ASSUME OutputInv, UNCHANGED <<printed, discard, cursor, stdout, loading, guest>>,
         Begun' => Begun,
         blinkCall' = None /\ mode' = "none" /\ blinkStatus' # "trapped"
           => blinkCall = None /\ mode = "none" /\ blinkStatus # "trapped"
  PROVE  OutputInv'
<1>1. OutputOK'
  BY DEF OutputInv, OutputOK, Loaded, Begun
<1> QED BY <1>1 DEF OutputInv

\* When the engine is entered for the first time, its loader has everything to print.
LEMMA OutputBegins ==
  ASSUME OutputInv, Blink!BeginsOutput, printed' = printed, blinkCall = None, mode = "none", blinkStatus # "trapped",
         Begun'
  PROVE  OutputInv'
<1>1. /\ Prompt \in Seq(Bytes) /\ Prompt # <<>> /\ Prompts \subseteq Seq(Bytes)
  BY BlinkConstants DEF Blink!BlinkAssumption
<1>2. Len(Prompt) \in Nat /\ Len(Prompt) > 0
  BY <1>1, EmptySeq
<1>3. /\ printed \in Prompts /\ printed \in Seq(Bytes) /\ Len(printed) \in Nat
      /\ stdout = <<>> /\ guest = <<>>
  BY <1>1 DEF OutputInv, OutputOK
<1>4. /\ discard' = TRUE /\ cursor' = 0 /\ loading' = printed /\ stdout' = <<>> /\ guest' = <<>>
      /\ printed' = printed
  BY <1>3 DEF Blink!BeginsOutput
<1>5. Loaded' = 0
  BY <1>3, <1>4 DEF Loaded
<1>6. ~(blinkCall' = None /\ mode' = "none")
  BY DEF Begun
<1>7. OutputOK'
  <2>1. (printed \in Prompts)' /\ (loading \in Seq(Bytes) /\ Len(loading) <= Len(printed))'
    BY <1>3, <1>4
  <2>2. (\A i \in 1 .. Len(loading) : loading[i] = printed[Loaded + i])'
    BY <1>3, <1>4, <1>5
  <2>3. (discard =>
       /\ cursor = Loaded /\ cursor < Len(Prompt) /\ stdout = <<>> /\ guest = <<>>
       /\ \A i \in 1 .. cursor : printed[i] = Prompt[i])'
    BY <1>2, <1>4, <1>5
  <2> QED BY <1>4, <1>6, <2>1, <2>2, <2>3 DEF OutputOK
<1> QED BY <1>2, <1>3, <1>4, <1>7 DEF OutputInv

\* The loader prints a byte: it is withheld, it completes the prompt, or it shows
\* that the line is another, and what was withheld is shown.
LEMMA LoaderPrints ==
  ASSUME OutputInv, printed' = printed, blinkCall # None, UNCHANGED <<blinkCall, mode, guest>>,
         loading # <<>>, Blink!Capture(Head(loading)), loading' = Tail(loading)
  PROVE  OutputInv'
<1>1. /\ Prompt \in Seq(Bytes) /\ Prompts \subseteq Seq(Bytes)
  BY BlinkConstants DEF Blink!BlinkAssumption
<1>2. /\ printed \in Prompts /\ printed \in Seq(Bytes) /\ Len(printed) \in Nat /\ Len(Prompt) \in Nat
      /\ loading \in Seq(Bytes) /\ Len(loading) <= Len(printed) /\ guest = <<>> /\ stdout \in Seq(Bytes)
      /\ discard \in BOOLEAN /\ cursor \in 0 .. Len(Prompt)
      /\ \A i \in 1 .. Len(loading) : loading[i] = printed[Loaded + i]
      /\ discard => cursor = Loaded /\ cursor < Len(Prompt) /\ stdout = <<>>
                    /\ \A i \in 1 .. cursor : printed[i] = Prompt[i]
      /\ ~discard => printed # Prompt /\ Len(stdout) = Loaded /\ \A i \in 1 .. Loaded : stdout[i] = printed[i]
  <2>1. OutputOK /\ discard \in BOOLEAN /\ cursor \in 0 .. Len(Prompt) /\ stdout \in Seq(Bytes)
    BY DEF OutputInv
  <2>2. /\ printed \in Prompts /\ loading \in Seq(Bytes) /\ Len(loading) <= Len(printed) /\ guest = <<>>
        /\ \A i \in 1 .. Len(loading) : loading[i] = printed[Loaded + i]
        /\ discard => cursor = Loaded /\ cursor < Len(Prompt) /\ stdout = <<>>
                      /\ \A i \in 1 .. cursor : printed[i] = Prompt[i]
    BY <2>1 DEF OutputOK
  <2>3. printed \in Seq(Bytes) /\ Len(printed) \in Nat /\ Len(Prompt) \in Nat /\ Len(loading) \in Nat
    BY <1>1, <2>2
  <2>4. ~discard => printed # Prompt /\ Len(stdout) = Loaded /\ \A i \in 1 .. Loaded : stdout[i] = printed[i]
    <3>1. SUFFICES ASSUME ~discard
                   PROVE  printed # Prompt /\ Len(stdout) = Loaded /\ \A i \in 1 .. Loaded : stdout[i] = printed[i]
      OBVIOUS
    <3>2. /\ printed # Prompt /\ Len(stdout) = Loaded + Len(guest)
          /\ \A i \in 1 .. Loaded : stdout[i] = printed[i]
      BY <2>1, <3>1 DEF OutputOK
    <3>3. Len(guest) = 0 /\ Loaded \in Int
      BY <2>2, <2>3 DEF Loaded
    <3> QED BY <3>2, <3>3
  <2> QED BY <2>1, <2>2, <2>3, <2>4
<1>3. PICK b : b = Head(loading)
  OBVIOUS
<1>4. PICK n \in Nat : n = Len(printed) - Len(loading)
  BY <1>2, SMTT(40)
<1>5. /\ Len(loading) \in Nat /\ Len(loading) > 0
      /\ n = Loaded /\ n + 1 <= Len(printed) /\ b \in Bytes /\ b = printed[n + 1]
      /\ loading' \in Seq(Bytes) /\ Len(loading') = Len(loading) - 1
      /\ \A i \in 1 .. Len(loading) - 1 : loading'[i] = loading[i + 1]
  <2>1. Len(loading) \in Nat /\ Len(loading) > 0
    BY <1>2, EmptySeq
  <2>2. b \in Bytes /\ b = loading[1] /\ loading' \in Seq(Bytes) /\ Len(loading') = Len(loading) - 1
        /\ \A i \in 1 .. Len(loading) - 1 : loading'[i] = loading[i + 1]
    BY <1>2, <1>3, <2>1, HeadTailProperties
  <2>3. n = Loaded
    BY <1>4 DEF Loaded
  <2> QED BY <1>2, <1>4, <2>1, <2>2, <2>3
<1>6. /\ Loaded' = n + 1
      /\ \A i \in 1 .. Len(loading') : loading'[i] = printed'[Loaded' + i]
  <2>1. Loaded' = n + 1
    BY <1>2, <1>4, <1>5 DEF Loaded
  <2>2. ASSUME NEW i \in 1 .. Len(loading')
        PROVE  loading'[i] = printed[(n + 1) + i]
    <3>0. Len(loading') = Len(loading) - 1 /\ Len(loading) \in Nat /\ Loaded = n
      BY <1>5
    <3>1. i \in 1 .. Len(loading) - 1 /\ i + 1 \in 1 .. Len(loading) /\ Loaded + (i + 1) = (n + 1) + i
      BY <3>0
    <3>2. loading[i + 1] = printed[Loaded + (i + 1)]
      BY <1>2, <3>1
    <3> QED BY <1>5, <3>1, <3>2
  <2> QED BY <2>1, <2>2
<1>7. /\ (printed \in Prompts)' /\ (loading \in Seq(Bytes) /\ Len(loading) <= Len(printed))'
      /\ (guest = <<>>)' /\ (blinkCall # None)'
  BY <1>2, <1>5
<1>8. CASE discard /\ Prompt[cursor + 1] = b
  <2>1. /\ cursor' = n + 1 /\ discard' = (n + 1 < Len(Prompt)) /\ stdout' = <<>>
    BY <1>2, <1>3, <1>5, <1>8 DEF Blink!Capture
  <2>2. n + 1 <= Len(Prompt) /\ \A i \in 1 .. n + 1 : printed[i] = Prompt[i]
    BY <1>2, <1>5, <1>8
  <2>3. ~discard' => printed = Prompt /\ loading' = <<>>
    <3>1. SUFFICES ASSUME ~discard' PROVE printed = Prompt /\ loading' = <<>>
      OBVIOUS
    <3>2. n + 1 = Len(Prompt)
      <4>1. ~(n + 1 < Len(Prompt))
        BY <2>1, <3>1, Zenon
      <4> QED BY <1>2, <2>2, <4>1
    <3>3. printed = Prompt
      BY <1>2, <2>2, <3>2, PromptIsMatched
    <3>4. Len(loading') = 0
      BY <1>2, <1>4, <1>5, <3>2, <3>3
    <3> QED BY <1>5, <3>3, <3>4, EmptySeq
  <2>4. OutputOK'
    BY <1>2, <1>6, <1>7, <2>1, <2>2, <2>3 DEF OutputOK
  <2> QED BY <1>2, <1>7, <2>1, <2>2, <2>4 DEF OutputInv
<1>9. CASE discard /\ Prompt[cursor + 1] # b
  <2>1. stdout' = stdout \o Append(SubSeq(Prompt, 1, cursor), b) /\ discard' = FALSE /\ cursor' = 0
    BY <1>3, <1>9 DEF Blink!Capture
  <2>2. PICK t : t = SubSeq(Prompt, 1, cursor)
    OBVIOUS
  <2>3. t \in Seq(Bytes) /\ Len(t) = n /\ \A i \in 1 .. n : t[i] = Prompt[i]
    <3>1. cursor = n /\ n < Len(Prompt)
      BY <1>2, <1>5, <1>9
    <3>2. \A i \in 1 .. n : Prompt[i] \in Bytes
      BY <1>1, <3>1, SMTT(40)
    <3>3. /\ SubSeq(Prompt, 1, n) \in Seq(Bytes)
          /\ Len(SubSeq(Prompt, 1, n)) = IF 1 <= n THEN n - 1 + 1 ELSE 0
          /\ \A i \in 1 .. n - 1 + 1 : SubSeq(Prompt, 1, n)[i] = Prompt[1 + i - 1]
      <4>1. 1 \in Int /\ n \in Int
        OBVIOUS
      <4> QED BY <3>2, <4>1, SubSeqProperties, SMTT(40)
    <3>4. t = SubSeq(Prompt, 1, n)
      BY <2>2, <3>1
    <3>5. /\ t \in Seq(Bytes)
          /\ Len(t) = IF 1 <= n THEN n - 1 + 1 ELSE 0
          /\ \A i \in 1 .. n - 1 + 1 : t[i] = Prompt[1 + i - 1]
      BY <3>3, <3>4
    <3>6. n - 1 + 1 = n /\ \A i \in 1 .. n : 1 + i - 1 = i
      OBVIOUS
    <3> HIDE <2>2
    <3> QED BY <3>5, <3>6
  <2>4. /\ stdout' \in Seq(Bytes) /\ Len(stdout') = n + 1 /\ stdout'[n + 1] = b
        /\ \A i \in 1 .. n : stdout'[i] = printed[i]
    <3>1. stdout = <<>> /\ cursor = n /\ \A i \in 1 .. n : printed[i] = Prompt[i]
      BY <1>2, <1>5, <1>9
    <3>2. PICK r : r = stdout'
      OBVIOUS
    <3>3. PICK s \in Seq(Bytes) : s = stdout /\ Len(s) = 0
      BY <1>2, <3>1
    <3>4. r = s \o Append(t, b)
      BY <2>1, <2>2, <3>2, <3>3
    <3>5. /\ r \in Seq(Bytes) /\ Len(r) = Len(s) + Len(t) + 1
          /\ \A i \in 1 .. Len(t) : r[Len(s) + i] = t[i]
          /\ r[Len(s) + Len(t) + 1] = b
      BY <1>5, <2>3, <3>4, AppendsByte DEF Shows
    <3>6. Len(r) = n + 1 /\ r[n + 1] = b /\ \A i \in 1 .. n : r[i] = t[i]
      BY <2>3, <3>3, <3>5
    <3> QED BY <2>3, <3>1, <3>2, <3>5, <3>6
  <2>5. \A i \in 1 .. n + 1 : stdout'[i] = printed[i]
    BY <1>5, <2>4
  <2>6. printed # Prompt
    BY <1>2, <1>5, <1>9
  <2>7. OutputOK'
    <3>1. Len(stdout') = Loaded' + Len(guest') /\ \A i \in 1 .. Len(guest') : stdout'[Loaded' + i] = guest'[i]
      BY <1>2, <1>6, <2>4
    <3> QED BY <1>2, <1>6, <1>7, <2>1, <2>5, <2>6, <3>1 DEF OutputOK
  <2>8. 0 \in 0 .. Len(Prompt) /\ guest' \in Seq(Bytes)
    BY <1>2, <1>7, EmptySeq
  <2> QED BY <2>1, <2>4, <2>7, <2>8 DEF OutputInv
<1>10. CASE ~discard
  <2>1. stdout' = stdout \o Append(<<>>, b) /\ discard' = FALSE /\ cursor' = cursor
    BY <1>3, <1>10 DEF Blink!Capture
  <2>2. /\ stdout' \in Seq(Bytes) /\ Len(stdout') = n + 1 /\ stdout'[n + 1] = b
        /\ \A i \in 1 .. n : stdout'[i] = printed[i]
    <3>1. PICK r : r = stdout'
      OBVIOUS
    <3>2. PICK t \in Seq(Bytes) : t = <<>> /\ Len(t) = 0
      BY EmptySeq
    <3>3. r = stdout \o Append(t, b)
      BY <2>1, <3>1, <3>2
    <3>4. /\ r \in Seq(Bytes) /\ Len(r) = Len(stdout) + Len(t) + 1
          /\ \A i \in 1 .. Len(stdout) : r[i] = stdout[i]
          /\ r[Len(stdout) + Len(t) + 1] = b
      BY <1>2, <1>5, <3>3, AppendsByte DEF Shows
    <3>5. Len(stdout) = n /\ Len(stdout) + Len(t) + 1 = n + 1
      BY <1>2, <1>5, <1>10, <3>2
    <3>6. Len(r) = n + 1 /\ r[n + 1] = b /\ \A i \in 1 .. n : r[i] = stdout[i]
      BY <3>4, <3>5
    <3> QED BY <1>2, <1>5, <1>10, <3>1, <3>4, <3>6
  <2>3. \A i \in 1 .. n + 1 : stdout'[i] = printed[i]
    BY <1>5, <2>2
  <2>4. printed # Prompt
    BY <1>2, <1>10
  <2>5. OutputOK'
    <3>1. Len(stdout') = Loaded' + Len(guest') /\ \A i \in 1 .. Len(guest') : stdout'[Loaded' + i] = guest'[i]
      BY <1>2, <1>6, <2>2
    <3> QED BY <1>2, <1>6, <1>7, <2>1, <2>3, <2>4, <3>1 DEF OutputOK
  <2> QED BY <1>2, <1>7, <2>1, <2>2, <2>5 DEF OutputInv
<1> QED BY <1>2, <1>8, <1>9, <1>10

\* The guest prints a byte: the loader's line is complete, so that the byte is shown.
LEMMA GuestPrints ==
  ASSUME OutputInv, printed' = printed, blinkCall # None, UNCHANGED <<blinkCall, mode, loading>>,
         loading = <<>>, NEW b \in Bytes, Blink!Capture(b), guest' = Append(guest, b)
  PROVE  OutputInv'
<1>1. /\ Prompt \in Seq(Bytes) /\ Prompts \subseteq Seq(Bytes)
  BY BlinkConstants DEF Blink!BlinkAssumption
<1>2. /\ printed \in Prompts /\ printed \in Seq(Bytes) /\ Len(printed) \in Nat /\ Len(Prompt) \in Nat
      /\ guest \in Seq(Bytes) /\ Len(guest) \in Nat /\ stdout \in Seq(Bytes)
      /\ discard \in BOOLEAN /\ cursor \in 0 .. Len(Prompt)
  BY <1>1 DEF OutputInv, OutputOK
<1>3. Loaded = Len(printed) /\ Loaded' = Len(printed)
  BY <1>2 DEF Loaded
<1>4. ~discard
  <2>1. SUFFICES ASSUME discard PROVE FALSE
    OBVIOUS
  <2>2. cursor = Len(printed) /\ cursor < Len(Prompt) /\ \A i \in 1 .. cursor : printed[i] = Prompt[i]
    BY <1>3, <2>1 DEF OutputInv, OutputOK
  <2>3. printed = Prompt
    BY <1>2, <2>2, PromptIsMatched
  <2> QED BY <1>2, <2>2, <2>3
<1>5. IF printed = Prompt THEN stdout = guest
      ELSE /\ Len(stdout) = Len(printed) + Len(guest)
           /\ \A i \in 1 .. Len(printed) : stdout[i] = printed[i]
           /\ \A i \in 1 .. Len(guest) : stdout[Len(printed) + i] = guest[i]
  BY <1>3, <1>4 DEF OutputInv, OutputOK
<1>6. stdout' = stdout \o Append(<<>>, b) /\ discard' = FALSE /\ cursor' = cursor
  BY <1>4 DEF Blink!Capture
<1>7. /\ stdout' \in Seq(Bytes) /\ Len(stdout') = Len(stdout) + 1 /\ stdout'[Len(stdout) + 1] = b
      /\ \A i \in 1 .. Len(stdout) : stdout'[i] = stdout[i]
  <2>1. PICK r : r = stdout'
    OBVIOUS
  <2>2. PICK t \in Seq(Bytes) : t = <<>> /\ Len(t) = 0
    BY EmptySeq
  <2>3. r = stdout \o Append(t, b)
    BY <1>6, <2>1, <2>2
  <2>4. /\ r \in Seq(Bytes) /\ Len(r) = Len(stdout) + Len(t) + 1
        /\ \A i \in 1 .. Len(stdout) : r[i] = stdout[i]
        /\ r[Len(stdout) + Len(t) + 1] = b
    BY <1>2, <2>3, AppendsByte DEF Shows
  <2>5. Len(stdout) + Len(t) + 1 = Len(stdout) + 1
    BY <1>2, <2>2
  <2> QED BY <2>1, <2>4, <2>5
<1>8. /\ guest' \in Seq(Bytes) /\ Len(guest') = Len(guest) + 1 /\ guest'[Len(guest) + 1] = b
      /\ \A i \in 1 .. Len(guest) : guest'[i] = guest[i]
  <2>1. PICK g : g = guest'
    OBVIOUS
  <2> QED BY <1>2, <2>1, AppendProperties
<1>9. IF printed' = Prompt THEN loading' = <<>> /\ stdout' = guest'
      ELSE /\ Len(stdout') = Loaded' + Len(guest')
           /\ \A i \in 1 .. Loaded' : stdout'[i] = printed'[i]
           /\ \A i \in 1 .. Len(guest') : stdout'[Loaded' + i] = guest'[i]
  <2>1. CASE printed = Prompt
    <3>1. stdout = guest
      BY <1>5, <2>1
    <3>2. Len(stdout') = Len(guest') /\ \A i \in 1 .. Len(stdout') : stdout'[i] = guest'[i]
      BY <1>2, <1>7, <1>8, <3>1
    <3>3. stdout' = guest'
      BY <1>7, <1>8, <3>2, SeqEqual
    <3> QED BY <2>1, <3>3
  <2>2. CASE printed # Prompt
    <3>1. /\ Len(stdout) = Len(printed) + Len(guest)
          /\ \A i \in 1 .. Len(printed) : stdout[i] = printed[i]
          /\ \A i \in 1 .. Len(guest) : stdout[Len(printed) + i] = guest[i]
      BY <1>5, <2>2
    <3>2. \A i \in 1 .. Len(printed) : stdout'[i] = printed[i]
      BY <1>2, <1>7, <3>1
    <3>3. ASSUME NEW i \in 1 .. Len(guest') PROVE stdout'[Len(printed) + i] = guest'[i]
      <4>1. CASE i \in 1 .. Len(guest)
        <5>1. Len(printed) + i \in 1 .. Len(stdout)
          BY <1>2, <3>1, <4>1
        <5> QED BY <1>7, <1>8, <3>1, <4>1, <5>1
      <4>2. CASE i = Len(guest) + 1
        <5>1. Len(printed) + i = Len(stdout) + 1
          BY <1>2, <3>1, <4>2
        <5> QED BY <1>7, <1>8, <4>2, <5>1
      <4> QED BY <1>2, <1>8, <4>1, <4>2
    <3> QED BY <1>2, <1>3, <1>7, <1>8, <2>2, <3>1, <3>2, <3>3
  <2> QED BY <2>1, <2>2
<1>10. OutputOK'
  <2>1. printed' \in Prompts /\ loading' \in Seq(Bytes) /\ Len(loading') <= Len(printed') /\ Len(loading') = 0
    BY <1>2, EmptySeq
  <2>2. \A i \in 1 .. Len(loading') : loading'[i] = printed'[Loaded' + i]
    BY <2>1
  <2> QED BY <1>6, <1>9, <2>1, <2>2 DEF OutputOK
<1> QED BY <1>2, <1>6, <1>7, <1>8, <1>10 DEF OutputInv

\* Every step keeps the output.
LEMMA OutputMoves ==
  ASSUME ControlInv, OutputInv, printed' = printed, Blink!Next
  PROVE  OutputInv'
<1>1. blinkStatus \in Live \cup {"exited", "trapped"} /\ mode \in {"none", "debug", "headless"}
  BY DEF ControlInv
<1>2. CASE Blink!MarkRunning \/ Blink!Pause
  <2>1. /\ UNCHANGED <<discard, cursor, stdout, loading, guest, mode, blinkCall>>
        /\ blinkStatus \in {"ready", "paused", "running"}
    BY <1>2 DEF Blink!MarkRunning, Blink!Pause, Blink!output
  <2> QED BY <2>1, OutputRests DEF Begun
<1>3. CASE Blink!StepRefused \/ Blink!SliceRefused
  <2>1. /\ UNCHANGED <<discard, cursor, stdout, loading, guest, mode, blinkCall>>
        /\ blinkStatus' = "trapped"
    BY <1>3 DEF Blink!StepRefused, Blink!SliceRefused, Blink!Refuses, Blink!output
  <2> QED BY <2>1, OutputRests DEF Begun
<1>4. CASE Blink!Step \/ Blink!RunSlice
  <2>1. /\ blinkCall = None /\ blinkStatus \in Live /\ blinkCall' # None
    <3>1. blinkCall = None /\ blinkStatus \in Live
      BY <1>1, <1>4 DEF Blink!Step, Blink!RunSlice, Blink!Terminal
    <3>2. PICK entry \in Blink!Entries : blinkCall' = [entry |-> entry, found |-> Blink!Seen]
      BY <1>4 DEF Blink!Step, Blink!RunSlice, Blink!SliceEntry, Blink!Entries
    <3> QED BY <3>1, <3>2, CallMade
  <2>2. CASE mode = "none"
    <3>1. Blink!BeginsOutput
      BY <1>4, <2>2 DEF Blink!Step, Blink!RunSlice
    <3> QED BY <2>1, <2>2, <3>1, OutputBegins DEF Begun, Live
  <2>3. CASE mode # "none"
    <3>1. UNCHANGED <<discard, cursor, stdout, loading, guest>>
      BY <1>4, <2>3 DEF Blink!Step, Blink!RunSlice, Blink!output
    <3> QED BY <2>1, <2>3, <3>1, OutputRests DEF Begun
  <2> QED BY <2>2, <2>3
<1>5. CASE Blink!Prints
  <2>1. blinkCall # None /\ UNCHANGED <<mode, blinkCall>>
    BY <1>5, Zenon DEF Blink!Prints
  <2>2. CASE loading # <<>> /\ Blink!Capture(Head(loading)) /\ loading' = Tail(loading) /\ UNCHANGED guest
    BY <2>1, <2>2, LoaderPrints
  <2>3. CASE loading = <<>> /\ \E b \in Bytes : Blink!Capture(b) /\ guest' = Append(guest, b) /\ UNCHANGED loading
    <3>1. PICK b \in Bytes : Blink!Capture(b) /\ guest' = Append(guest, b) /\ UNCHANGED loading
      BY <2>3, Zenon
    <3> QED BY <2>1, <2>3, <3>1, GuestPrints
  <2> QED BY <1>5, <2>2, <2>3, Zenon DEF Blink!Prints
<1>6. CASE Blink!PrintsError
  <2>1. UNCHANGED <<discard, cursor, stdout, loading, guest, mode, blinkCall, blinkStatus>>
    BY <1>6 DEF Blink!PrintsError, Blink!output
  <2> QED BY <2>1, OutputRests DEF Begun
<1>7. CASE Blink!SliceStops \/ Blink!Stepped
  <2>1. /\ UNCHANGED <<discard, cursor, stdout, loading, guest, mode>> /\ mode # "none"
    BY <1>7 DEF Blink!SliceStops, Blink!Stepped, Blink!output
  <2> QED BY <2>1, OutputRests DEF Begun
<1>8. CASE Blink!Started
  <2>1. UNCHANGED <<discard, cursor, stdout, loading, guest>> /\ mode' = "debug" /\ blinkCall # None
    BY <1>8 DEF Blink!Started, Blink!Stops, Blink!output
  <2> QED BY <2>1, OutputRests DEF Begun
<1>9. CASE Blink!Throws
  <2>1. /\ UNCHANGED <<discard, cursor, stdout, loading, guest, mode>> /\ blinkCall # None
        /\ blinkCall' = None /\ blinkStatus' = "trapped"
    BY <1>9 DEF Blink!Throws, Blink!output
  <2> QED BY <2>1, OutputRests DEF Begun
<1> QED BY <1>2, <1>3, <1>4, <1>5, <1>6, <1>7, <1>8, <1>9 DEF Blink!Next

\* What is shown between calls is whole.
LEMMA OutputWhole ==
  ASSUME ControlInv, OutputInv
  PROVE  Blink!OutputIsKept
<1>1. SUFFICES ASSUME loading = <<>>, mode # "none", blinkCall = None
               PROVE  stdout = (IF printed = Prompt THEN guest ELSE printed \o guest)
  BY DEF Blink!OutputIsKept
<1>2. Prompt \in Seq(Bytes) /\ Prompts \subseteq Seq(Bytes)
  BY BlinkConstants DEF Blink!BlinkAssumption
<1>3. OutputOK /\ discard \in BOOLEAN /\ stdout \in Seq(Bytes) /\ guest \in Seq(Bytes)
  BY DEF OutputInv
<1>4. printed \in Prompts /\ printed \in Seq(Bytes) /\ Len(printed) \in Nat /\ Len(Prompt) \in Nat
  BY <1>2, <1>3 DEF OutputOK
<1>5. Loaded = Len(printed)
  BY <1>1, <1>4 DEF Loaded
<1>6. ASSUME discard PROVE stdout = (IF printed = Prompt THEN guest ELSE printed \o guest)
  <2>1. cursor = Len(printed) /\ cursor < Len(Prompt) /\ \A i \in 1 .. cursor : printed[i] = Prompt[i]
    BY <1>3, <1>5, <1>6 DEF OutputOK
  <2>2. printed = Prompt
    BY <1>4, <2>1, PromptIsMatched
  <2> QED BY <1>4, <2>1, <2>2
<1>7. ASSUME ~discard, printed = Prompt PROVE stdout = guest
  BY <1>1, <1>3, <1>7 DEF OutputOK
<1>8. ASSUME ~discard, printed # Prompt PROVE stdout = printed \o guest
  <2>1. /\ Len(stdout) = Len(printed) + Len(guest)
        /\ \A i \in 1 .. Len(printed) : stdout[i] = printed[i]
        /\ \A i \in 1 .. Len(guest) : stdout[Len(printed) + i] = guest[i]
    BY <1>1, <1>3, <1>5, <1>8 DEF OutputOK
  <2>2. PICK r : r = printed \o guest
    OBVIOUS
  <2>3. /\ printed \o guest \in Seq(Bytes) /\ Len(printed \o guest) = Len(printed) + Len(guest)
        /\ \A i \in 1 .. Len(printed) + Len(guest) :
             (printed \o guest)[i] = IF i <= Len(printed) THEN printed[i] ELSE guest[i - Len(printed)]
    BY <1>3, <1>4, ConcatProperties, Zenon
  <2>4. /\ r \in Seq(Bytes) /\ Len(r) = Len(printed) + Len(guest)
        /\ \A i \in 1 .. Len(printed) + Len(guest) :
             r[i] = IF i <= Len(printed) THEN printed[i] ELSE guest[i - Len(printed)]
    BY <2>2, <2>3, Zenon
  <2>5. Len(guest) \in Nat
    BY <1>3
  <2>6. ASSUME NEW i \in 1 .. Len(stdout) PROVE stdout[i] = r[i]
    <3>1. CASE i <= Len(printed)
      <4>1. i \in 1 .. Len(printed) /\ i \in 1 .. Len(printed) + Len(guest)
        BY <1>4, <2>1, <3>1
      <4> QED BY <2>1, <2>4, <3>1, <4>1
    <3>2. CASE ~(i <= Len(printed))
      <4>1. PICK j \in 1 .. Len(guest) : j = i - Len(printed) /\ i = Len(printed) + j
        BY <1>4, <2>1, <2>5, <3>2
      <4>2. r[i] = guest[j]
        BY <2>1, <2>4, <3>2, <4>1
      <4> QED BY <2>1, <4>1, <4>2
    <3> QED BY <3>1, <3>2
  <2>7. stdout = r
    BY <1>3, <2>1, <2>4, <2>6, SeqEqual
  <2> QED BY <2>2, <2>7
<1> QED BY <1>3, <1>6, <1>7, <1>8, Zenon

-----------------------------------------------------------------------------
(***************************************************************************)
(* The theorems about the Blink session                                    *)
(***************************************************************************)
\* The session's books hold at its start.
LEMMA BlinkStarts == Blink!Init => BlinkInv
  BY ControlStarts, TraceStarts, OutputStarts DEF BlinkInv

\* Every step of the session keeps them.
LEMMA BlinkMoves ==
  ASSUME BlinkInv, Blink!Next
  PROVE  BlinkInv'
<1>1. printed' = printed
  BY DEF Blink!Next
<1>2. ControlInv'
  BY ControlRests, ControlEnters, ControlStarted, ControlStops, ControlPrints DEF BlinkInv, Blink!Next
<1> QED BY <1>1, <1>2, TraceMoves, OutputMoves DEF BlinkInv

\* The Blink invariant depends on the session alone.
LEMMA BlinkStays ==
  ASSUME BlinkInv, UNCHANGED blinkVars
  PROVE  BlinkInv'
<1> USE DEF blinkVars
<1>1. ControlInv'
  BY DEF BlinkInv, ControlInv, BlinkCallOK, EngineOK, ExplanationOK
<1>2. TraceInv'
  BY DEF BlinkInv, TraceInv, Blink!LastIsCurrent, Blink!TraceIsContiguous, NewestIsLast
<1>3. OutputInv'
  BY DEF BlinkInv, OutputInv, OutputOK, Loaded
<1> QED BY <1>1, <1>2, <1>3 DEF BlinkInv

\* The books of the Blink session hold always, whatever the engine prints and
\* wherever it stops.
THEOREM BlinkInvariance == Providers => []BlinkInv
<1>1. OneMoves => BlinkInv
  BY BlinkStarts DEF OneMoves
<1>2. BlinkInv /\ [Moves]_all => BlinkInv'
  <2>1. SUFFICES ASSUME BlinkInv, [Moves]_all PROVE BlinkInv'
    OBVIOUS
  <2>2. Blink!Next \/ UNCHANGED blinkVars
    BY <2>1 DEF Moves, all
  <2> QED BY <2>1, <2>2, BlinkMoves, BlinkStays
<1> QED BY <1>1, <1>2, PTL DEF Providers

\* Theorem (BlinkProcessSession): the types hold, the explanation agrees with status
\* and exit code, neighbours in the trace ran one after the other, the instruction
\* followed is the last one, and the output is whole but for the expected prompt.
THEOREM BlinkStaysFollowed == Providers => []BlinkIsFollowed
<1>1. BlinkInv => BlinkIsFollowed
  <2>1. SUFFICES ASSUME BlinkInv PROVE BlinkIsFollowed
    OBVIOUS
  <2>2. Blink!TypeOK
    BY <2>1 DEF BlinkInv, ControlInv, TraceInv, OutputInv, Blink!TypeOK, Live,
                Blink!Interface!Statuses, Blink!Interface!Terminal
  <2>3. Blink!ReportFits /\ Blink!OutputIsKept
    BY <2>1, ReportsFit, OutputWhole DEF BlinkInv
  <2> QED BY <2>1, <2>2, <2>3 DEF BlinkIsFollowed, BlinkInv, TraceInv
<1> QED BY <1>1, BlinkInvariance, PTL

\* Theorem (ExecutionSession and BlinkProcessSession): whatever the engine does, a
\* call reports what the interface says it may.
THEOREM BlinkKeepsContract == Providers => Blink!Contract
<1> DEFINE Honest ==
      /\ blinkCall # None /\ blinkCall' = None =>
           Blink!Seen' \in (IF blinkCall.entry \in {"starti", "stepi"} THEN Blink!Interface!StepOutcomes(blinkCall.found)
                            ELSE Blink!Interface!SliceOutcomes(blinkCall.found))
      /\ blinkCall = None /\ blinkCall' = None /\ blinkStatus' # blinkStatus =>
           Blink!Seen' \in {Blink!Interface!Paused(Blink!Seen), Blink!Interface!MarkedRunning(Blink!Seen)}
                             \cup Blink!Interface!StepOutcomes(Blink!Seen) \cup Blink!Interface!SliceOutcomes(Blink!Seen)
<1>1. BlinkInv /\ [Moves]_all => [Honest]_(Blink!vars)
  <2>1. SUFFICES ASSUME BlinkInv, Blink!Next
                 PROVE  Honest
    BY DEF Moves, all, blinkVars, Blink!vars, Blink!explained, Blink!output
  <2>2. ControlInv
    BY <2>1 DEF BlinkInv
  <2> QED BY <2>1, <2>2, ReturnsWhatItMay, ChangesAsItMay
<1> QED BY <1>1, BlinkInvariance, PTL DEF Providers, Blink!Contract

\* Theorem (runSlice, step): the guest is resumed by the entry point that its last
\* stop asks for, and started once.
THEOREM BlinkResumesRight == Providers => Blink!ResumesWhereItStopped
<1> DEFINE Right ==
      blinkCall = None /\ blinkCall' # None =>
        CASE blinkCall'.entry \in {"starti", "run_fast"} -> engine = "new"
          [] blinkCall'.entry = "preempt_resume" -> engine = "preempted"
          [] blinkCall'.entry = "faketty_resume" -> engine = "tty"
          [] blinkCall'.entry = "stepi" -> engine \in {"loaded", "tty"}
<1>1. BlinkInv /\ [Moves]_all => [Right]_(Blink!vars)
  <2>1. SUFFICES ASSUME BlinkInv, Blink!Next
                 PROVE  Right
    BY DEF Moves, all, blinkVars, Blink!vars, Blink!explained, Blink!output
  <2>2. ControlInv
    BY <2>1 DEF BlinkInv
  <2> QED BY <2>1, <2>2, ResumesRight
<1> QED BY <1>1, BlinkInvariance, PTL DEF Providers, Blink!ResumesWhereItStopped

\* Theorem: the Blink session keeps its contract and is resumed where it stopped,
\* and the machine session's mappings are fresh.
THEOREM SessionsStayHonest == Providers => OthersAreHonest
  BY BlinkKeepsContract, BlinkResumesRight, MappingsAreFresh DEF OthersAreHonest
=============================================================================
