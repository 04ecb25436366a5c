-------------------------- MODULE LinuxAddressSpace --------------------------
(***************************************************************************)
(* The virtual address space of the "Linux User" execution provider        *)
(* (unicornLinuxProcessSession.ts): the memory syscalls a guest issues,    *)
(* the page table they edit in the Unicorn engine, and the three books the *)
(* session keeps beside it: the byte counter held against the mapping      *)
(* budget, the list of anonymous mappings mremap consults, and the list of *)
(* file mappings the trace attributes instructions with.                   *)
(*                                                                         *)
(* Addresses and lengths are whole pages.  The engine's page table is a    *)
(* function on the mapped pages, so its domain is the code's mappedPages   *)
(* set.  Page contents are tokens of Data; Zero is the all-zero page.      *)
(***************************************************************************)
EXTENDS Integers, FiniteSets, Sequences, Functions

CONSTANTS
  Budget,     \* policy.maxMappedBytes, in pages
  Image,      \* pages of the program, its interpreter and the stack, as loaded
  HeapBase,   \* first page after the program image
  MmapBase,   \* MMAP_BASE
  Top,        \* bound: no modelled mapping reaches beyond this page
  Addresses,  \* addresses a guest passes to a syscall
  MaxRecords, \* bound: mappings of a kind listed when mmap adds one
  Lengths,    \* lengths and file offsets a guest passes, 0 among them
  Perms,      \* page permissions
  Writable,   \* the permissions that let the guest store
  AllPerm,    \* PROT_ALL, what reservePage maps with
  HeapPerm,   \* PROT_READ | PROT_WRITE
  Data,       \* page contents
  Zero,       \* the content of a page the engine has just mapped
  Files,      \* virtual files an open descriptor can name
  Content,    \* Content[f]: the pages of file f
  NoFile,     \* a descriptor that is not open
  Anonymous   \* the MAP_ANONYMOUS flag, in place of a descriptor

ASSUME AddressAssumption ==
  /\ Budget \in Nat /\ HeapBase \in Nat /\ MmapBase \in Nat /\ Top \in Nat
  /\ IsFiniteSet(DOMAIN Image) /\ Cardinality(DOMAIN Image) <= Budget
  /\ MaxRecords \in Nat /\ Addresses \subseteq Nat \ {0} /\ Lengths \subseteq Nat

ASSUME PageAssumption ==
  /\ Writable \subseteq Perms /\ AllPerm \in Perms /\ HeapPerm \in Perms
  /\ Zero \in Data
  /\ DOMAIN Image \subseteq Nat
  /\ Image \in [DOMAIN Image -> [perm : Perms, data : Data]]
  /\ Content \in [Files -> Seq(Data)]
  /\ NoFile \notin Files /\ Anonymous \notin Files /\ NoFile # Anonymous

VARIABLES
  mem,          \* engine page table: mapped page -> permission and content
  mappedBytes,  \* mappedBytesValue, in pages
  anonymous,    \* anonymousMappings; id orders them as the array does
  fileMappings, \* fileMappings, ordered by id as well
  cursor,       \* mmapCursorValue
  programBreak, \* programBreakValue
  rax,          \* what the last memory syscall returned
  status        \* "running" until a syscall throws, then "trapped"

books == <<mem, mappedBytes, anonymous, fileMappings>>
vars == <<mem, mappedBytes, anonymous, fileMappings, cursor, programBreak, rax, status>>

EBADF == 9
ENOMEM == 12
EFAULT == 14
EINVAL == 22
ENOSYS == 38

Pages(a, n) == a .. (a + n - 1)
End(r) == r.address + r.size
Mapped == DOMAIN mem
Free(a, n) == Pages(a, n) \cap Mapped = {}
NewPages(a, n) == Pages(a, n) \ Mapped
Room == Budget - mappedBytes
Overlaps(r, a, n) == End(r) > a /\ r.address < a + n


(***************************************************************************)
(* The session's private helpers                                           *)
(***************************************************************************)

\* A record's id is its place in the array (the two pieces discardAnonymousRange
\* splits one into share it); Array.find meets the least id first.
Compact(records) ==
  {[r EXCEPT !.id = Cardinality({s.id : s \in {t \in records : t.id < r.id}})] : r \in records}
NextId(records) == Cardinality({r.id : r \in records})
First(records) == CHOOSE r \in records : \A s \in records : r.id <= s.id

Fresh == [perm |-> AllPerm, data |-> Zero]

\* mapRange(a, n, replace) when every page fits: replaced and new pages are
\* fresh, a page that was already mapped is silently shared otherwise.
MapRange(m, a, n, replace) ==
  [p \in DOMAIN m \cup Pages(a, n) |->
     IF p \in Pages(a, n) /\ (replace \/ p \notin DOMAIN m) THEN Fresh ELSE m[p]]

\* Mutant: the budget test of reservePage is off by one page.
FitsOneMore(a, n) == Cardinality(NewPages(a, n)) <= Room + 1

Fits(a, n) == Cardinality(NewPages(a, n)) <= Room

\* reservePage throws at page "stop": the pages below it are already mapped.
StopsAt(a, n, stop) ==
  /\ stop \in Pages(a, n)
  /\ stop \notin Mapped
  /\ Cardinality(NewPages(a, stop - a)) = Room

ProtectRange(m, a, n, perm) ==
  [p \in DOMAIN m |-> IF p \in Pages(a, n) THEN [m[p] EXCEPT !.perm = perm] ELSE m[p]]

UnmapPages(m, a, n) == Restrict(m, DOMAIN m \ Pages(a, n))

\* Mutant: a hole that begins where the record begins leaves an empty piece.
PiecesInclusive(records, a, n) ==
  LET hit == {r \in records : Overlaps(r, a, n)}
  IN (records \ hit)
     \cup {[r EXCEPT !.size = a - r.address] : r \in {h \in hit : h.address <= a}}
     \cup {[r EXCEPT !.address = a + n, !.size = End(r) - (a + n)] :
             r \in {h \in hit : End(h) > a + n}}

\* discardAnonymousRange: the pieces of each record left and right of the hole.
Pieces(records, a, n) ==
  LET hit == {r \in records : Overlaps(r, a, n)}
  IN (records \ hit)
     \cup {[r EXCEPT !.size = a - r.address] : r \in {h \in hit : h.address < a}}
     \cup {[r EXCEPT !.address = a + n, !.size = End(r) - (a + n)] :
             r \in {h \in hit : End(h) > a + n}}

DiscardRange(records, a, n) == Compact(Pieces(records, a, n))

\* Mutant: a file mapping survives unless it is unmapped completely.
DropContainedFiles(records, a, n) ==
  Compact({r \in records : r.address < a \/ End(r) > a + n})

\* unmapRange drops a file mapping whole, even when only a part is unmapped.
DropFiles(records, a, n) == Compact({r \in records : ~Overlaps(r, a, n)})

\* The bytes of file f copied to the start of a mapping of n pages.
LoadFile(m, a, n, f, offset) ==
  [p \in DOMAIN m |->
     IF p \in Pages(a, n) /\ offset + (p - a) < Len(Content[f])
     THEN [m[p] EXCEPT !.data = Content[f][offset + (p - a) + 1]]
     ELSE m[p]]

\* mapRange threw: the syscall's exception traps the session.
TrapInMapRange(a, n, replace) ==
  \E stop \in Pages(a, n) :
    /\ StopsAt(a, n, stop)
    /\ mem' = MapRange(mem, a, stop - a, replace)
    /\ mappedBytes' = mappedBytes + Cardinality(NewPages(a, stop - a))
    /\ status' = "trapped"
    /\ anonymous' = IF replace THEN DiscardRange(anonymous, a, n) ELSE anonymous
    /\ UNCHANGED <<fileMappings, cursor, programBreak, rax>>

Fail(errno) ==
  /\ rax' = -errno
  /\ UNCHANGED <<books, cursor, programBreak, status>>

-----------------------------------------------------------------------------
(***************************************************************************)
(* mmap.  A hint counts only with MAP_FIXED; 0 is NULL.                     *)
(***************************************************************************)
MmapAddress(hint, fixed) == IF fixed /\ hint # 0 THEN hint ELSE cursor

AdvanceCursor(a, n, fixed) == cursor' = IF fixed THEN cursor ELSE a + n + 1

MmapTrap(hint, n, fixed) ==
  LET a == MmapAddress(hint, fixed)
  IN ~Fits(a, n) /\ TrapInMapRange(a, n, fixed)

MmapAnonymous(hint, n, perm, fixed) ==
  LET a == MmapAddress(hint, fixed)
      kept == IF fixed THEN DiscardRange(anonymous, a, n) ELSE anonymous
  IN /\ Fits(a, n)
     /\ Cardinality(kept) < MaxRecords
     /\ mem' = ProtectRange(MapRange(mem, a, n, fixed), a, n, perm)
     /\ mappedBytes' = mappedBytes + Cardinality(NewPages(a, n))
     \* pushed after discardAnonymousRange rewrote the array
     /\ anonymous' = kept \cup {[address |-> a, size |-> n, perm |-> perm, id |-> NextId(kept)]}
     /\ AdvanceCursor(a, n, fixed)
     /\ rax' = a
     /\ UNCHANGED <<fileMappings, programBreak, status>>

MmapFile(hint, n, perm, fixed, f, offset) ==
  LET a == MmapAddress(hint, fixed)
  IN /\ Fits(a, n) /\ Cardinality(fileMappings) < MaxRecords
     /\ mem' = ProtectRange(LoadFile(MapRange(mem, a, n, fixed), a, n, f, offset), a, n, perm)
     /\ mappedBytes' = mappedBytes + Cardinality(NewPages(a, n))
     /\ anonymous' = IF fixed THEN DiscardRange(anonymous, a, n) ELSE anonymous
     /\ fileMappings' = fileMappings \cup
          {[address |-> a, size |-> n, file |-> f, offset |-> offset, id |-> NextId(fileMappings)]}
     /\ AdvanceCursor(a, n, fixed)
     /\ rax' = a
     /\ UNCHANGED <<programBreak, status>>

\* The descriptor is looked up only after the range is mapped: the range is
\* unmapped again, whatever it held before.
MmapBadDescriptor(hint, n, fixed) ==
  LET a == MmapAddress(hint, fixed)
  IN /\ Fits(a, n)
     /\ mem' = UnmapPages(mem, a, n)
     /\ mappedBytes' = mappedBytes - Cardinality(Pages(a, n) \cap Mapped)
     /\ anonymous' = DiscardRange(anonymous, a, n)
     /\ fileMappings' = DropFiles(fileMappings, a, n)
     /\ rax' = -EBADF
     /\ UNCHANGED <<cursor, programBreak, status>>

\* MAP_FIXED and MAP_FIXED_NOREPLACE are one flag to the code: "fixed".
Mmap(hint, n, perm, fixed, fd, offset) ==
  \/ n = 0 /\ Fail(EINVAL)
  \/ /\ n > 0 /\ MmapAddress(hint, fixed) + n <= Top
     /\ \/ MmapTrap(hint, n, fixed)
        \/ fd \in Files /\ MmapFile(hint, n, perm, fixed, fd, offset)
        \/ fd = NoFile /\ MmapBadDescriptor(hint, n, fixed)
        \/ fd = Anonymous /\ MmapAnonymous(hint, n, perm, fixed)

-----------------------------------------------------------------------------
(***************************************************************************)
(* mremap: only a whole anonymous mapping, named by its exact address and  *)
(* size, can be resized.  "flags" is "none", "maymove" or "other".         *)
(***************************************************************************)
Named(a, old) == {r \in anonymous : r.address = a /\ r.size = old}

MremapReject(a, old, new, flags) ==
  \/ (old = 0 \/ new = 0) /\ Fail(EINVAL)
  \/ old > 0 /\ new > 0 /\ flags = "other" /\ Fail(ENOSYS)

MremapUnknown(a, old) ==
  /\ Named(a, old) = {}
  /\ Fail(IF Pages(a, old) \subseteq Mapped THEN ENOSYS ELSE EFAULT)

MremapSame(a, old, new) ==
  /\ new = old
  /\ rax' = a
  /\ UNCHANGED <<books, cursor, programBreak, status>>

Unmap(a, n) ==
  /\ mem' = UnmapPages(mem, a, n)
  /\ mappedBytes' = mappedBytes - Cardinality(Pages(a, n) \cap Mapped)
  /\ anonymous' = DiscardRange(anonymous, a, n)
  /\ fileMappings' = DropFiles(fileMappings, a, n)

MremapShrink(a, old, new) ==
  /\ new < old
  /\ Unmap(a + new, old - new)
  /\ rax' = a
  /\ UNCHANGED <<cursor, programBreak, status>>

\* In-place growth leaves the mmap cursor where it is.
MremapGrow(a, old, new) ==
  LET r == First(Named(a, old))
  IN /\ new > old /\ Free(a + old, new - old)
     /\ \/ mappedBytes + (new - old) > Budget /\ Fail(ENOMEM)
        \/ /\ mappedBytes + (new - old) <= Budget
           /\ mem' = ProtectRange(MapRange(mem, a + old, new - old, FALSE),
                                  a + old, new - old, r.perm)
           /\ mappedBytes' = mappedBytes + Cardinality(NewPages(a + old, new - old))
           /\ anonymous' = (anonymous \ {r}) \cup {[r EXCEPT !.size = new]}
           /\ rax' = a
           /\ UNCHANGED <<fileMappings, cursor, programBreak, status>>

\* findFreeMmapRange: the first free range at or above the cursor.
FindsFree(n, to) ==
  /\ to >= cursor /\ Free(to, n)
  /\ \A a \in cursor .. (to - 1) : ~Free(a, n)

\* Mutant: the copy is one page short.
MoveShort(to, a, old, new) ==
  LET r == First(Named(a, old))
      copied == [p \in Mapped \cup Pages(to, new) |->
                   IF p \in Pages(to, old - 1) THEN [perm |-> r.perm, data |-> mem[a + (p - to)].data]
                   ELSE IF p \in Pages(to, new) THEN [perm |-> r.perm, data |-> Zero]
                   ELSE mem[p]]
      kept == DiscardRange(anonymous, a, old)
  IN /\ mem' = UnmapPages(copied, a, old)
     /\ mappedBytes' = mappedBytes + Cardinality(NewPages(to, new)) - Cardinality(Pages(a, old) \cap Mapped)
     /\ anonymous' = kept \cup {[address |-> to, size |-> new, perm |-> r.perm, id |-> NextId(kept)]}
     /\ fileMappings' = DropFiles(fileMappings, a, old)
     /\ cursor' = to + new + 1
     /\ rax' = to
     /\ UNCHANGED <<programBreak, status>>

\* The new range keeps the permission the mapping was created with.
MoveTo(to, a, old, new) ==
  LET r == First(Named(a, old))
      copied == [p \in Mapped \cup Pages(to, new) |->
                   IF p \in Pages(to, old) THEN [perm |-> r.perm, data |-> mem[a + (p - to)].data]
                   ELSE IF p \in Pages(to, new) THEN [perm |-> r.perm, data |-> Zero]
                   ELSE mem[p]]
      kept == DiscardRange(anonymous, a, old)
  IN /\ mem' = UnmapPages(copied, a, old)
     /\ mappedBytes' = mappedBytes + Cardinality(NewPages(to, new)) 
                      - Cardinality(Pages(a, old) \cap Mapped)
     /\ anonymous' = kept \cup {[address |-> to, size |-> new, perm |-> r.perm, id |-> NextId(kept)]}
     /\ fileMappings' = DropFiles(fileMappings, a, old)
     /\ cursor' = to + new + 1
     /\ rax' = to
     /\ UNCHANGED <<programBreak, status>>

MremapMove(a, old, new, flags) ==
  /\ new > old /\ ~Free(a + old, new - old)
  /\ \/ flags = "none" /\ Fail(ENOMEM)
     \/ flags = "maymove" /\ mappedBytes + new > Budget /\ Fail(ENOMEM)
     \/ /\ flags = "maymove" /\ mappedBytes + new <= Budget
        /\ \E to \in cursor .. (Top - new) : FindsFree(new, to) /\ MoveTo(to, a, old, new)

Mremap(a, old, new, flags) ==
  \/ MremapReject(a, old, new, flags)
  \/ /\ old > 0 /\ new > 0 /\ flags # "other"
     /\ \/ MremapUnknown(a, old)
        \/ /\ Named(a, old) # {} /\ a + new <= Top
           /\ \/ MremapSame(a, old, new)
              \/ MremapShrink(a, old, new)
              \/ MremapGrow(a, old, new)
              \/ MremapMove(a, old, new, flags)

-----------------------------------------------------------------------------
(***************************************************************************)
(* munmap, mprotect, brk, and the guest's own stores                       *)
(***************************************************************************)

\* munmap of zero length unmaps nothing and still edits the two lists.
Munmap(a, n) ==
  /\ Unmap(a, n)
  /\ rax' = 0
  /\ UNCHANGED <<cursor, programBreak, status>>

\* mprotect edits the engine only: the anonymous records keep their permission.
Mprotect(a, n, perm) ==
  /\ mem' = ProtectRange(mem, a, n, perm)
  /\ rax' = 0
  /\ UNCHANGED <<mappedBytes, anonymous, fileMappings, cursor, programBreak, status>>

\* brk of the null address, or below the heap, reports the current break.
BrkQuery(requested) ==
  /\ requested < HeapBase
  /\ rax' = programBreak
  /\ UNCHANGED <<books, cursor, programBreak, status>>

BrkGrow(requested) ==
  LET n == requested - programBreak
  IN /\ requested > programBreak /\ requested <= Top
     /\ \/ ~Fits(programBreak, n) /\ TrapInMapRange(programBreak, n, FALSE)
        \/ /\ Fits(programBreak, n)
           /\ mem' = ProtectRange(MapRange(mem, programBreak, n, FALSE), programBreak, n, HeapPerm)
           /\ mappedBytes' = mappedBytes + Cardinality(NewPages(programBreak, n))
           /\ programBreak' = requested
           /\ rax' = requested
           /\ UNCHANGED <<anonymous, fileMappings, cursor, status>>

BrkShrink(requested) ==
  /\ HeapBase <= requested /\ requested <= programBreak
  /\ IF requested < programBreak THEN Unmap(requested, programBreak - requested) ELSE UNCHANGED books
  /\ programBreak' = requested
  /\ rax' = requested
  /\ UNCHANGED <<cursor, status>>

Brk(requested) == BrkQuery(requested) \/ BrkGrow(requested) \/ BrkShrink(requested)

\* An instruction of the guest stores to a page it may write.
Store(p, d) ==
  /\ p \in Mapped /\ mem[p].perm \in Writable
  /\ mem' = [mem EXCEPT ![p].data = d]
  /\ UNCHANGED <<mappedBytes, anonymous, fileMappings, cursor, programBreak, rax, status>>

-----------------------------------------------------------------------------
\* prepareProcess has mapped the images and the stack.
Init ==
  /\ mem = Image
  /\ mappedBytes = Cardinality(DOMAIN Image)
  /\ anonymous = {} /\ fileMappings = {}
  /\ cursor = MmapBase
  /\ programBreak = HeapBase
  /\ rax = 0
  /\ status = "running"

Flags == {"none", "maymove", "other"}
Descriptors == Files \cup {NoFile, Anonymous}

Next ==
  /\ status = "running"
  /\ \/ \E hint \in Addresses \cup {0}, n \in Lengths, perm \in Perms, fixed \in BOOLEAN,
           fd \in Descriptors, offset \in Lengths : Mmap(hint, n, perm, fixed, fd, offset)
     \/ \E a \in Addresses, old, new \in Lengths, flags \in Flags : Mremap(a, old, new, flags)
     \/ \E a \in Addresses, n \in Lengths : Munmap(a, n)
     \/ \E a \in Addresses, n \in Lengths, perm \in Perms : Mprotect(a, n, perm)
     \/ \E requested \in Addresses \cup {0} : Brk(requested)
     \/ \E p \in Mapped, d \in Data : Store(p, d)

Spec == Init /\ [][Next]_vars

-----------------------------------------------------------------------------
(***************************************************************************)
(* Properties                                                              *)
(***************************************************************************)
PageType == [perm : Perms, data : Data]
AnonymousType == [address : Nat, size : Nat \ {0}, perm : Perms, id : Nat]
FileType == [address : Nat, size : Nat \ {0}, file : Files, offset : Nat, id : Nat]

\* Every book of the session keeps its shape: the counter is a natural number
\* (Math.max(0, ...) in unmapRange never bites) and no record has size 0, the
\* remainders discardAnonymousRange cuts included.
TypeOK ==
  /\ Mapped \subseteq Nat /\ mem \in [Mapped -> PageType]
  /\ mappedBytes \in Nat
  /\ anonymous \subseteq AnonymousType /\ IsFiniteSet(anonymous)
  /\ fileMappings \subseteq FileType /\ IsFiniteSet(fileMappings)
  /\ cursor \in Nat /\ programBreak \in Nat /\ rax \in Int
  /\ status \in {"running", "trapped"}

\* mappedBytesValue, kept by increments and decrements in four functions, is
\* at every moment the size of mappedPages, and within policy.maxMappedBytes,
\* even where a mapping is abandoned half-way by the budget exception.
Accounting ==
  /\ IsFiniteSet(Mapped)
  /\ mappedBytes = Cardinality(Mapped)
  /\ mappedBytes <= Budget

\* Every page of a listed mapping is mapped in the engine: what mremap copies
\* with mem_read can be read, and the trace never names a file for an address
\* that has no memory.  Fixed remappings, holes, moves and shrinks of
\* overlapping mappings keep it.
Backed(r) == Pages(r.address, r.size) \subseteq Mapped
MappingsBacked == \A r \in anonymous \cup fileMappings : Backed(r)

\* A successful mremap hands back the old pages' contents followed by zero
\* pages, and every page outside the old and the new range is untouched.
MremapResult(a, old, new) ==
  LET kept == IF old < new THEN old ELSE new
  IN /\ Pages(rax', new) \subseteq Mapped'
     /\ \A i \in 0 .. (new - 1) :
          mem'[rax' + i].data = IF i < kept THEN mem[a + i].data ELSE Zero
     /\ \A p \in Mapped \ (Pages(a, old) \cup Pages(rax', new)) :
          p \in Mapped' /\ mem'[p] = mem[p]

MremapKeepsContents ==
  [][\A r \in anonymous, new \in Lengths :
       (status = "running" /\ Mremap(r.address, r.size, new, "maymove") /\ rax' >= 0)
         => MremapResult(r.address, r.size, new)]_vars

\* Memory a guest gets from an anonymous mmap reads zero, as the guest fixture
\* and the engine's zero-fill test require of newly mapped memory.
AnonymousMemoryReadsZero ==
  [][\A hint \in Addresses \cup {0}, n \in Lengths \ {0}, perm \in Perms, fixed \in BOOLEAN :
       (status = "running" /\ MmapAnonymous(hint, n, perm, fixed))
         => \A p \in Pages(rax', n) : mem'[p].data = Zero]_vars

=============================================================================
