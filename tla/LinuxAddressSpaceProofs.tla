----------------------- MODULE LinuxAddressSpaceProofs -----------------------
(***************************************************************************)
(* Proofs about the Linux User address space, for every budget, layout,    *)
(* file and request: the books keep their types, the byte counter is the   *)
(* number of mapped pages and never passes the budget, and every listed    *)
(* mapping is backed by mapped pages.                                      *)
(***************************************************************************)
EXTENDS LinuxAddressSpace, FiniteSetTheorems, WellFoundedInduction, TLAPS

-----------------------------------------------------------------------------
(***************************************************************************)
(* Finite sets: what the counter's increments and decrements amount to     *)
(***************************************************************************)

\* The image of a finite set under a function is finite.
LEMMA FiniteImage ==
  ASSUME NEW S, IsFiniteSet(S), NEW f, f = [x \in S |-> f[x]]
  PROVE  IsFiniteSet({f[x] : x \in S})
<1> DEFINE T == {f[x] : x \in S}
<1>1. f \in Surjection(S, T)
  BY DEF Surjection
<1> QED BY <1>1, FS_Surjection

\* mapRange adds to the counter exactly the pages it did not find mapped.
LEMMA CardinalityGrows ==
  ASSUME NEW M, NEW P, IsFiniteSet(M), IsFiniteSet(P)
  PROVE  /\ IsFiniteSet(M \cup P) /\ IsFiniteSet(P \ M)
         /\ Cardinality(P \ M) \in Nat
         /\ Cardinality(M \cup P) = Cardinality(M) + Cardinality(P \ M)
<1>1. IsFiniteSet(P \ M) /\ Cardinality(P \ M) \in Nat /\ Cardinality(M) \in Nat
  BY FS_Subset, FS_CardinalityType
<1>2. M \cup P = M \cup (P \ M) /\ M \cap (P \ M) = {}
  OBVIOUS
<1>3. /\ IsFiniteSet(M \cup (P \ M))
      /\ Cardinality(M \cup (P \ M)) =
           Cardinality(M) + Cardinality(P \ M) - Cardinality(M \cap (P \ M))
  BY <1>1, FS_Union
<1>4. Cardinality(M \cup P) = Cardinality(M \cup (P \ M)) /\ IsFiniteSet(M \cup P)
  BY <1>2, <1>3, Zenon
<1>5. Cardinality(M \cap (P \ M)) = 0
  BY <1>2, FS_EmptySet, Zenon
<1> QED BY <1>1, <1>3, <1>4, <1>5

\* unmapRange takes from the counter exactly the pages it found mapped.
LEMMA CardinalityShrinks ==
  ASSUME NEW M, NEW P, IsFiniteSet(M)
  PROVE  /\ IsFiniteSet(M \ P)
         /\ Cardinality(M \ P) \in Nat /\ Cardinality(P \cap M) \in Nat
         /\ Cardinality(M \ P) = Cardinality(M) - Cardinality(P \cap M)
<1>1. /\ IsFiniteSet(M \ P) /\ IsFiniteSet(P \cap M)
      /\ Cardinality(M \ P) \in Nat /\ Cardinality(P \cap M) \in Nat
  BY FS_Subset, FS_CardinalityType
<1>2. M = (M \ P) \cup (P \cap M) /\ (M \ P) \cap (P \cap M) = {}
  OBVIOUS
<1>3. Cardinality((M \ P) \cup (P \cap M)) =
        Cardinality(M \ P) + Cardinality(P \cap M)
          - Cardinality((M \ P) \cap (P \cap M))
  BY <1>1, FS_Union
<1>4. Cardinality(M) = Cardinality((M \ P) \cup (P \cap M))
  BY <1>2, Zenon
<1>5. Cardinality((M \ P) \cap (P \cap M)) = 0
  BY <1>2, FS_EmptySet, Zenon
<1> QED BY <1>1, <1>3, <1>4, <1>5

-----------------------------------------------------------------------------
(***************************************************************************)
(* The page table operations: the pages they leave mapped, and their type  *)
(***************************************************************************)
Table(m) == DOMAIN m \subseteq Nat /\ m \in [DOMAIN m -> PageType]

\* A range of pages is finite.
LEMMA PagesFinite ==
  ASSUME NEW a \in Nat, NEW n \in Nat
  PROVE  Pages(a, n) \subseteq Nat /\ IsFiniteSet(Pages(a, n))
BY FS_Interval DEF Pages

\* What mem_protect leaves in the table.
LEMMA ProtectTable ==
  ASSUME NEW m, Table(m), NEW a \in Nat, NEW n \in Nat, NEW perm \in Perms
  PROVE  LET m2 == ProtectRange(m, a, n, perm)
         IN Table(m2) /\ DOMAIN m2 = DOMAIN m
BY DEF Table, ProtectRange, PageType

\* What mapping a piece of a file leaves in the table.
LEMMA LoadTable ==
  ASSUME NEW m, Table(m), NEW a \in Nat, NEW n \in Nat, NEW f \in Files, NEW offset \in Nat
  PROVE  LET m2 == LoadFile(m, a, n, f, offset)
         IN Table(m2) /\ DOMAIN m2 = DOMAIN m
<1> DEFINE m2 == LoadFile(m, a, n, f, offset)
<1>1. DOMAIN m2 = DOMAIN m
  BY DEF LoadFile
<1>2. ASSUME NEW p \in DOMAIN m PROVE m2[p] \in PageType
  <2>1. m[p] \in PageType
    BY DEF Table
  <2>2. CASE p \in Pages(a, n) /\ offset + (p - a) < Len(Content[f])
    <3>1. Content[f] \in Seq(Data)
      BY PageAssumption
    <3>2. p \in Nat /\ p - a \in Nat
      BY <2>2 DEF Table, Pages
    <3>3. Content[f][offset + (p - a) + 1] \in Data
      BY <3>1, <3>2, <2>2
    <3>4. m2[p] = [m[p] EXCEPT !.data = Content[f][offset + (p - a) + 1]]
      BY <2>2 DEF LoadFile
    <3> QED BY <2>1, <3>3, <3>4 DEF PageType
  <2>3. CASE ~(p \in Pages(a, n) /\ offset + (p - a) < Len(Content[f]))
    BY <2>1, <2>3 DEF LoadFile
  <2> QED BY <2>2, <2>3
<1>3. m2 = [p \in DOMAIN m |-> m2[p]]
  BY DEF LoadFile
<1> QED BY <1>1, <1>2, <1>3 DEF Table

\* What mem_unmap leaves in the table.
LEMMA UnmapTable ==
  ASSUME NEW m, Table(m), NEW a, NEW n
  PROVE  LET m2 == UnmapPages(m, a, n)
         IN Table(m2) /\ DOMAIN m2 = DOMAIN m \ Pages(a, n)
BY DEF Table, UnmapPages, Restrict

-----------------------------------------------------------------------------
(***************************************************************************)
(* The two record lists                                                    *)
(***************************************************************************)

\* Renumbering a finite list changes nothing but ids, and ids are naturals.
LEMMA CompactRecords ==
  ASSUME NEW records, IsFiniteSet(records)
  PROVE  /\ IsFiniteSet(Compact(records))
         /\ \A q \in Compact(records) :
              \E r \in records, i \in Nat : q = [r EXCEPT !.id = i]
<1> DEFINE below(r) == {t \in records : t.id < r.id}
           ids(r) == {s.id : s \in below(r)}
           place(r) == Cardinality(ids(r))
<1>1. ASSUME NEW r \in records PROVE place(r) \in Nat
  <2> DEFINE f == [s \in below(r) |-> s.id]
  <2>1. IsFiniteSet(below(r))
    BY FS_Subset
  <2>2. IsFiniteSet({f[x] : x \in below(r)})
    BY <2>1, FiniteImage
  <2>3. {f[x] : x \in below(r)} = ids(r)
    OBVIOUS
  <2> QED BY <2>2, <2>3, FS_CardinalityType
<1>2. Compact(records) = {[r EXCEPT !.id = place(r)] : r \in records}
  BY DEF Compact
<1>3. IsFiniteSet(Compact(records))
  <2> DEFINE renumbered(r) == [r EXCEPT !.id = place(r)]
             f == [r \in records |-> renumbered(r)]
  <2>0. Compact(records) = {renumbered(r) : r \in records}
    BY <1>2
  <2> HIDE DEF renumbered
  <2>1. IsFiniteSet({f[x] : x \in records})
    BY FiniteImage
  <2>2. {f[x] : x \in records} = Compact(records)
    BY <2>0
  <2> QED BY <2>1, <2>2
<1> HIDE DEF place
<1> QED BY <1>1, <1>2, <1>3

\* A list in array order gives the pushed record a natural id.
LEMMA NextIdType ==
  ASSUME NEW records, IsFiniteSet(records)
  PROVE  NextId(records) \in Nat
<1> DEFINE f == [r \in records |-> r.id]
<1>1. IsFiniteSet({f[x] : x \in records})
  BY FiniteImage
<1>2. {f[x] : x \in records} = {r.id : r \in records}
  OBVIOUS
<1> QED BY <1>1, <1>2, FS_CardinalityType DEF NextId

\* What discardAnonymousRange leaves lies inside the old records and outside
\* the hole.
LEMMA DiscardLeavesPieces ==
  ASSUME NEW records \in SUBSET AnonymousType, IsFiniteSet(records),
         NEW a \in Nat, NEW n \in Nat
  PROVE  LET kept == DiscardRange(records, a, n)
         IN /\ kept \subseteq AnonymousType /\ IsFiniteSet(kept)
            /\ \A q \in kept : \E r \in records :
                 Pages(q.address, q.size) \subseteq Pages(r.address, r.size) \ Pages(a, n)
<1> DEFINE hit == {r \in records : Overlaps(r, a, n)}
           cutsLeft == {h \in hit : h.address < a}
           cutsRight == {h \in hit : End(h) > a + n}
           left(r) == [r EXCEPT !.size = a - r.address]
           right(r) == [r EXCEPT !.address = a + n, !.size = End(r) - (a + n)]
           Inside(q) == \E r \in records :
             Pages(q.address, q.size) \subseteq Pages(r.address, r.size) \ Pages(a, n)
<1>1. Pieces(records, a, n) =
        (records \ hit) \cup {left(r) : r \in cutsLeft} \cup {right(r) : r \in cutsRight}
  BY DEF Pieces
<1>2. IsFiniteSet(Pieces(records, a, n))
  <2>1. IsFiniteSet(records \ hit) /\ IsFiniteSet(cutsLeft) /\ IsFiniteSet(cutsRight)
    BY FS_Subset
  <2>2. IsFiniteSet({left(r) : r \in cutsLeft})
    <3> DEFINE f == [r \in cutsLeft |-> left(r)]
    <3> HIDE DEF left, cutsLeft
    <3>1. IsFiniteSet({f[x] : x \in cutsLeft}) /\ {f[x] : x \in cutsLeft} = {left(r) : r \in cutsLeft}
      BY <2>1, FiniteImage
    <3> QED BY <3>1
  <2>3. IsFiniteSet({right(r) : r \in cutsRight})
    <3> DEFINE f == [r \in cutsRight |-> right(r)]
    <3> HIDE DEF right, cutsRight
    <3>1. IsFiniteSet({f[x] : x \in cutsRight}) /\ {f[x] : x \in cutsRight} = {right(r) : r \in cutsRight}
      BY <2>1, FiniteImage
    <3> QED BY <3>1
  <2> HIDE DEF left, right, cutsLeft, cutsRight, hit
  <2> QED BY <1>1, <2>1, <2>2, <2>3, FS_Union, ZenonT(40)
<1>3. ASSUME NEW q \in Pieces(records, a, n) PROVE q \in AnonymousType /\ Inside(q)
  <2>1. CASE q \in records \ hit
    BY <2>1 DEF AnonymousType, Overlaps, End, Pages
  <2>2. ASSUME NEW r \in cutsLeft, q = left(r) PROVE q \in AnonymousType /\ Inside(q)
    <3>1. r \in AnonymousType /\ r \in records
      OBVIOUS
    <3>2. a - r.address \in Nat \ {0} /\ r.address + (a - r.address) <= End(r)
      BY <3>1 DEF AnonymousType, Overlaps, End
    <3>3. q.address = r.address /\ q.size = a - r.address /\ q \in AnonymousType
      BY <2>2, <3>1, <3>2 DEF AnonymousType
    <3> QED BY <3>1, <3>2, <3>3 DEF Pages, End, AnonymousType
  <2>3. ASSUME NEW r \in cutsRight, q = right(r) PROVE q \in AnonymousType /\ Inside(q)
    <3>1. r \in AnonymousType /\ r \in records
      OBVIOUS
    <3>2. End(r) - (a + n) \in Nat \ {0} /\ r.address <= a + n
      BY <3>1 DEF AnonymousType, Overlaps, End
    <3>3. q.address = a + n /\ q.size = End(r) - (a + n) /\ q \in AnonymousType
      <4> DEFINE x == a + n
                 y == End(r) - (a + n)
      <4>1. x \in Nat /\ y \in Nat \ {0} /\ q = [r EXCEPT !.address = x, !.size = y]
        BY <2>3, <3>2
      <4> HIDE DEF x, y
      <4>2. q \in AnonymousType /\ q.address = x /\ q.size = y
        BY <3>1, <4>1 DEF AnonymousType
      <4> QED BY <4>2 DEF x, y
    <3> QED BY <3>1, <3>2, <3>3 DEF Pages, End, AnonymousType
  <2> QED BY <1>1, <2>1, <2>2, <2>3
<1>4. ASSUME NEW q \in DiscardRange(records, a, n) PROVE q \in AnonymousType /\ Inside(q)
  <2>1. PICK r \in Pieces(records, a, n), i \in Nat : q = [r EXCEPT !.id = i]
    BY <1>2, CompactRecords DEF DiscardRange
  <2>2. r \in AnonymousType /\ Inside(r)
    BY <1>3
  <2>3. q \in AnonymousType /\ q.address = r.address /\ q.size = r.size
    BY <2>1, <2>2 DEF AnonymousType
  <2> QED BY <2>2, <2>3
<1>5. IsFiniteSet(DiscardRange(records, a, n))
  BY <1>2, CompactRecords DEF DiscardRange
<1> QED BY <1>4, <1>5

\* What unmapRange leaves of the file mappings avoids the hole altogether.
LEMMA DropLeavesDisjoint ==
  ASSUME NEW records \in SUBSET FileType, IsFiniteSet(records),
         NEW a \in Nat, NEW n \in Nat
  PROVE  LET kept == DropFiles(records, a, n)
         IN /\ kept \subseteq FileType /\ IsFiniteSet(kept)
            /\ \A q \in kept : \E r \in records :
                 Pages(q.address, q.size) \subseteq Pages(r.address, r.size) \ Pages(a, n)
<1> DEFINE clear == {r \in records : ~Overlaps(r, a, n)}
<1>1. IsFiniteSet(clear)
  BY FS_Subset
<1>2. ASSUME NEW q \in DropFiles(records, a, n)
      PROVE  /\ q \in FileType
             /\ \E r \in records :
                  Pages(q.address, q.size) \subseteq Pages(r.address, r.size) \ Pages(a, n)
  <2>1. PICK r \in clear, i \in Nat : q = [r EXCEPT !.id = i]
    BY <1>1, CompactRecords DEF DropFiles
  <2>2. r \in FileType /\ ~Overlaps(r, a, n)
    OBVIOUS
  <2>3. q \in FileType /\ q.address = r.address /\ q.size = r.size
    BY <2>1, <2>2 DEF FileType
  <2>4. Pages(r.address, r.size) \cap Pages(a, n) = {}
    BY <2>2 DEF FileType, Overlaps, End, Pages
  <2> QED BY <2>1, <2>3, <2>4
<1>3. IsFiniteSet(DropFiles(records, a, n))
  BY <1>1, CompactRecords DEF DropFiles
<1> QED BY <1>2, <1>3

-----------------------------------------------------------------------------
(***************************************************************************)
(* The inductive invariant.  None of its three parts is inductive alone:   *)
(* the counter stays exact only because decrements count pages that are    *)
(* mapped, and a moved mapping stays backed only because its old pages     *)
(* were.                                                                   *)
(***************************************************************************)
IInv == TypeOK /\ Accounting /\ MappingsBacked

BooksOK ==
  /\ Table(mem) /\ mappedBytes \in Nat
  /\ anonymous \subseteq AnonymousType /\ IsFiniteSet(anonymous)
  /\ fileMappings \subseteq FileType /\ IsFiniteSet(fileMappings)
  /\ Accounting /\ MappingsBacked

RegistersOK ==
  /\ cursor \in Nat /\ programBreak \in Nat /\ rax \in Int
  /\ status \in {"running", "trapped"}

\* The invariant in two parts: the books, and the registers.
LEMMA InvariantParts == IInv <=> BooksOK /\ RegistersOK
BY DEF IInv, BooksOK, RegistersOK, TypeOK, Table, Mapped

\* The counter after mapping the pages of a range that fit.
LEMMA MappedRange ==
  ASSUME BooksOK, NEW a \in Nat, NEW n \in Nat, NEW replace
  PROVE  LET m2 == MapRange(mem, a, n, replace)
             b2 == mappedBytes + Cardinality(NewPages(a, n))
         IN /\ Table(m2) /\ DOMAIN m2 = Mapped \cup Pages(a, n)
            /\ IsFiniteSet(DOMAIN m2) /\ b2 \in Nat /\ b2 = Cardinality(DOMAIN m2)
            /\ Cardinality(NewPages(a, n)) \in Nat
<1>1. Table(mem) /\ IsFiniteSet(Mapped) /\ mappedBytes = Cardinality(Mapped) /\ mappedBytes \in Nat
  BY DEF BooksOK, Accounting
<1>2. Table(MapRange(mem, a, n, replace)) /\ DOMAIN MapRange(mem, a, n, replace) = Mapped \cup Pages(a, n)
  BY <1>1, PagesFinite, PageAssumption DEF Table, MapRange, Fresh, PageType, Mapped
<1>3. /\ IsFiniteSet(Mapped \cup Pages(a, n))
      /\ Cardinality(Pages(a, n) \ Mapped) \in Nat
      /\ Cardinality(Mapped \cup Pages(a, n)) = Cardinality(Mapped) + Cardinality(Pages(a, n) \ Mapped)
  BY <1>1, PagesFinite, CardinalityGrows
<1> QED BY <1>1, <1>2, <1>3 DEF NewPages

\* The counter after unmapping a range.
LEMMA UnmappedRange ==
  ASSUME BooksOK, NEW a \in Nat, NEW n \in Nat
  PROVE  LET m2 == UnmapPages(mem, a, n)
             b2 == mappedBytes - Cardinality(Pages(a, n) \cap Mapped)
         IN /\ Table(m2) /\ DOMAIN m2 = Mapped \ Pages(a, n)
            /\ IsFiniteSet(DOMAIN m2) /\ b2 \in Nat /\ b2 = Cardinality(DOMAIN m2)
            /\ b2 <= Budget
<1>1. /\ Table(mem) /\ IsFiniteSet(Mapped) /\ mappedBytes = Cardinality(Mapped)
      /\ mappedBytes \in Nat /\ mappedBytes <= Budget
  BY DEF BooksOK, Accounting
<1>2. Table(UnmapPages(mem, a, n)) /\ DOMAIN UnmapPages(mem, a, n) = Mapped \ Pages(a, n)
  BY <1>1, UnmapTable DEF Mapped
<1>3. /\ IsFiniteSet(Mapped \ Pages(a, n))
      /\ Cardinality(Mapped \ Pages(a, n)) \in Nat /\ Cardinality(Pages(a, n) \cap Mapped) \in Nat
      /\ Cardinality(Mapped \ Pages(a, n)) = Cardinality(Mapped) - Cardinality(Pages(a, n) \cap Mapped)
  BY <1>1, CardinalityShrinks
<1> QED BY <1>1, <1>2, <1>3, AddressAssumption

\* The anonymous list after discardAnonymousRange, against any page table
\* that lost no page outside the range.
LEMMA AnonymousKept ==
  ASSUME BooksOK, NEW a \in Nat, NEW n \in Nat, NEW M, Mapped \ Pages(a, n) \subseteq M
  PROVE  LET kept == DiscardRange(anonymous, a, n)
         IN /\ kept \subseteq AnonymousType /\ IsFiniteSet(kept)
            /\ \A q \in kept : Pages(q.address, q.size) \subseteq M
<1>1. anonymous \in SUBSET AnonymousType /\ IsFiniteSet(anonymous)
  BY DEF BooksOK
<1>2. \A r \in anonymous : Pages(r.address, r.size) \subseteq Mapped
  BY DEF BooksOK, MappingsBacked, Backed
<1> QED BY <1>1, <1>2, DiscardLeavesPieces

\* The same for the file list after unmapRange.
LEMMA FilesKept ==
  ASSUME BooksOK, NEW a \in Nat, NEW n \in Nat, NEW M, Mapped \ Pages(a, n) \subseteq M
  PROVE  LET kept == DropFiles(fileMappings, a, n)
         IN /\ kept \subseteq FileType /\ IsFiniteSet(kept)
            /\ \A q \in kept : Pages(q.address, q.size) \subseteq M
<1>1. fileMappings \in SUBSET FileType /\ IsFiniteSet(fileMappings)
  BY DEF BooksOK
<1>2. \A r \in fileMappings : Pages(r.address, r.size) \subseteq Mapped
  BY DEF BooksOK, MappingsBacked, Backed
<1> QED BY <1>1, <1>2, DropLeavesDisjoint

\* Both lists are still backed when pages were only added.
LEMMA StillBacked ==
  ASSUME BooksOK, NEW M, Mapped \subseteq M
  PROVE  \A r \in anonymous \cup fileMappings : Pages(r.address, r.size) \subseteq M
BY DEF BooksOK, MappingsBacked, Backed

\* Array.find on a list that holds a match.
LEMMA FirstFound ==
  ASSUME NEW records \in SUBSET AnonymousType, NEW S \in SUBSET records, S # {}
  PROVE  First(S) \in S
<1> DEFINE ids == {r.id : r \in S}
<1>1. ids \subseteq Nat /\ ids # {}
  BY DEF AnonymousType
<1>2. \E i \in ids : \A j \in ids : i <= j
  <2> HIDE DEF ids
  <2> DEFINE less == {ss \in Nat \X Nat : ss[1] < ss[2]}
  <2>1. IsWellFoundedOn(less, Nat)
    BY NatLessThanWellFounded DEF OpToRel
  <2>2. \A i \in ids, j \in ids : <<j, i>> \in less <=> j < i
    BY <1>1
  <2> HIDE DEF less
  <2>3. \E i \in ids : \A j \in ids : ~(<<j, i>> \in less)
    BY <1>1, <2>1, WFMin
  <2>4. PICK i \in ids : \A j \in ids : ~(<<j, i>> \in less)
    BY <2>3
  <2>5. ASSUME NEW j \in ids PROVE i <= j
    <3>1. ~(j < i) /\ i \in Nat /\ j \in Nat
      BY <1>1, <2>2, <2>4
    <3> QED BY <3>1
  <2> QED BY <2>5
<1>3. \E r \in S : \A s \in S : r.id <= s.id
  BY <1>2
<1> QED BY <1>3, Zenon DEF First

\* A list with one more record.
LEMMA OneMore ==
  ASSUME NEW records, IsFiniteSet(records), NEW r
  PROVE  IsFiniteSet(records \cup {r})
BY FS_AddElement

-----------------------------------------------------------------------------
(***************************************************************************)
(* One lemma per way a syscall edits the books                             *)
(***************************************************************************)

\* munmap, the two shrinks, and mmap on a bad descriptor.
LEMMA UnmapStep ==
  ASSUME BooksOK, NEW a \in Nat, NEW n \in Nat, Unmap(a, n)
  PROVE  BooksOK'
<1>1. /\ Table(mem') /\ Mapped' = Mapped \ Pages(a, n) /\ IsFiniteSet(Mapped')
      /\ mappedBytes' \in Nat /\ mappedBytes' = Cardinality(Mapped') /\ mappedBytes' <= Budget
  BY UnmappedRange DEF Unmap, Mapped
<1>2. /\ anonymous' \subseteq AnonymousType /\ IsFiniteSet(anonymous')
      /\ \A q \in anonymous' : Pages(q.address, q.size) \subseteq Mapped'
  BY <1>1, AnonymousKept DEF Unmap
<1>3. /\ fileMappings' \subseteq FileType /\ IsFiniteSet(fileMappings')
      /\ \A q \in fileMappings' : Pages(q.address, q.size) \subseteq Mapped'
  BY <1>1, FilesKept DEF Unmap
<1> QED BY <1>1, <1>2, <1>3 DEF BooksOK, Accounting, MappingsBacked, Backed, Pages

\* The page table and the counter after a range that fits was mapped.
LEMMA GrownTable ==
  ASSUME BooksOK, NEW a \in Nat, NEW n \in Nat,
         Cardinality(NewPages(a, n)) <= Room,
         Table(mem'), Mapped' = Mapped \cup Pages(a, n),
         mappedBytes' = mappedBytes + Cardinality(NewPages(a, n))
  PROVE  /\ mappedBytes' \in Nat /\ Accounting'
         /\ \A r \in anonymous \cup fileMappings : Pages(r.address, r.size) \subseteq Mapped'
<1>1. IsFiniteSet(Mapped') /\ mappedBytes' \in Nat /\ mappedBytes' = Cardinality(Mapped')
  BY MappedRange
<1>2. Cardinality(NewPages(a, n)) \in Nat /\ mappedBytes \in Nat
  BY MappedRange DEF BooksOK
<1>3. mappedBytes' <= Budget
  BY <1>2, AddressAssumption DEF Room
<1>4. \A r \in anonymous \cup fileMappings : Pages(r.address, r.size) \subseteq Mapped'
  BY StillBacked
<1> QED BY <1>1, <1>3, <1>4 DEF Accounting

\* The anonymous list mapRange(..., replace) leaves, when pages were added.
LEMMA ReplacedList ==
  ASSUME BooksOK, NEW a \in Nat, NEW n \in Nat, NEW replace \in BOOLEAN,
         NEW M, Mapped \subseteq M
  PROVE  LET kept == IF replace THEN DiscardRange(anonymous, a, n) ELSE anonymous
         IN /\ kept \subseteq AnonymousType /\ IsFiniteSet(kept)
            /\ \A q \in kept : Pages(q.address, q.size) \subseteq M
<1>1. CASE replace
  BY <1>1, AnonymousKept
<1>2. CASE ~replace
  BY <1>2, StillBacked DEF BooksOK
<1> QED BY <1>1, <1>2

\* An anonymous mmap keeps the books.
LEMMA MmapAnonymousStep ==
  ASSUME BooksOK, NEW hint \in Nat, NEW n \in Nat \ {0}, NEW perm \in Perms, NEW fixed \in BOOLEAN,
         cursor \in Nat, MmapAnonymous(hint, n, perm, fixed)
  PROVE  BooksOK' /\ cursor' \in Nat /\ rax' \in Int
<1> DEFINE a == MmapAddress(hint, fixed)
           kept == IF fixed THEN DiscardRange(anonymous, a, n) ELSE anonymous
           new == [address |-> a, size |-> n, perm |-> perm, id |-> NextId(kept)]
           table == MapRange(mem, a, n, fixed)
<1>0. a \in Nat
  BY DEF MmapAddress
<1>1. /\ Cardinality(NewPages(a, n)) <= Room
      /\ mem' = ProtectRange(table, a, n, perm)
      /\ mappedBytes' = mappedBytes + Cardinality(NewPages(a, n))
      /\ anonymous' = kept \cup {new} /\ fileMappings' = fileMappings
      /\ cursor' \in {cursor, a + n + 1} /\ rax' = a
  BY DEF MmapAnonymous, AdvanceCursor, Fits
<1> HIDE DEF a
<1>2. Table(table) /\ DOMAIN table = Mapped \cup Pages(a, n)
  BY <1>0, MappedRange
<1> HIDE DEF table
<1>3. Table(mem') /\ Mapped' = Mapped \cup Pages(a, n)
  BY <1>0, <1>1, <1>2, ProtectTable DEF Mapped
<1>4. /\ mappedBytes' \in Nat /\ Accounting'
      /\ \A r \in fileMappings : Pages(r.address, r.size) \subseteq Mapped'
  BY <1>0, <1>1, <1>3, GrownTable
<1>5. /\ kept \subseteq AnonymousType /\ IsFiniteSet(kept)
      /\ \A q \in kept : Pages(q.address, q.size) \subseteq Mapped'
  BY <1>0, <1>3, ReplacedList
<1> HIDE DEF kept
<1>6. new \in AnonymousType /\ Pages(new.address, new.size) \subseteq Mapped'
  BY <1>0, <1>3, <1>5, NextIdType DEF AnonymousType
<1>7. IsFiniteSet(anonymous')
  BY <1>1, <1>5, OneMore
<1> HIDE DEF new
<1>8. MappingsBacked'
  BY <1>1, <1>4, <1>5, <1>6 DEF MappingsBacked, Backed, Pages
<1>9. anonymous' \subseteq AnonymousType /\ fileMappings' \subseteq FileType /\ IsFiniteSet(fileMappings')
  BY <1>1, <1>5, <1>6 DEF BooksOK
<1> QED BY <1>0, <1>1, <1>3, <1>4, <1>7, <1>8, <1>9 DEF BooksOK

\* So does an mmap of a file.
LEMMA MmapFileStep ==
  ASSUME BooksOK, NEW hint \in Nat, NEW n \in Nat \ {0}, NEW perm \in Perms, NEW fixed \in BOOLEAN,
         NEW f \in Files, NEW offset \in Nat,
         cursor \in Nat, MmapFile(hint, n, perm, fixed, f, offset)
  PROVE  BooksOK' /\ cursor' \in Nat /\ rax' \in Int
<1> DEFINE a == MmapAddress(hint, fixed)
           kept == IF fixed THEN DiscardRange(anonymous, a, n) ELSE anonymous
           new == [address |-> a, size |-> n, file |-> f, offset |-> offset, id |-> NextId(fileMappings)]
           table == MapRange(mem, a, n, fixed)
           loaded == LoadFile(table, a, n, f, offset)
<1>0. a \in Nat
  BY DEF MmapAddress
<1>1. /\ Cardinality(NewPages(a, n)) <= Room
      /\ mem' = ProtectRange(loaded, a, n, perm)
      /\ mappedBytes' = mappedBytes + Cardinality(NewPages(a, n))
      /\ anonymous' = kept /\ fileMappings' = fileMappings \cup {new}
      /\ cursor' \in {cursor, a + n + 1} /\ rax' = a
  BY DEF MmapFile, AdvanceCursor, Fits
<1> HIDE DEF a
<1>2. Table(table) /\ DOMAIN table = Mapped \cup Pages(a, n)
  BY <1>0, MappedRange
<1> HIDE DEF table
<1>3. Table(loaded) /\ DOMAIN loaded = Mapped \cup Pages(a, n)
  BY <1>0, <1>2, LoadTable
<1> HIDE DEF loaded
<1>4. Table(mem') /\ Mapped' = Mapped \cup Pages(a, n)
  BY <1>0, <1>1, <1>3, ProtectTable DEF Mapped
<1>5. /\ mappedBytes' \in Nat /\ Accounting'
      /\ \A r \in fileMappings : Pages(r.address, r.size) \subseteq Mapped'
  BY <1>0, <1>1, <1>4, GrownTable
<1>6. /\ kept \subseteq AnonymousType /\ IsFiniteSet(kept)
      /\ \A q \in kept : Pages(q.address, q.size) \subseteq Mapped'
  BY <1>0, <1>4, ReplacedList
<1> HIDE DEF kept
<1>7. new \in FileType /\ Pages(new.address, new.size) \subseteq Mapped'
  BY <1>0, <1>4, NextIdType DEF FileType, BooksOK
<1>8. IsFiniteSet(fileMappings')
  BY <1>1, OneMore DEF BooksOK
<1> HIDE DEF new
<1>9. MappingsBacked'
  BY <1>1, <1>5, <1>6, <1>7 DEF MappingsBacked, Backed, Pages
<1>10. anonymous' \subseteq AnonymousType /\ IsFiniteSet(anonymous') /\ fileMappings' \subseteq FileType
  BY <1>1, <1>6, <1>7 DEF BooksOK
<1> QED BY <1>0, <1>1, <1>4, <1>5, <1>8, <1>9, <1>10 DEF BooksOK

\* mmap or brk running into the budget: the pages below the failing one stay.
LEMMA TrapStep ==
  ASSUME BooksOK, NEW a \in Nat, NEW n \in Nat, NEW replace \in BOOLEAN,
         TrapInMapRange(a, n, replace)
  PROVE  BooksOK'
<1> DEFINE kept == IF replace THEN DiscardRange(anonymous, a, n) ELSE anonymous
<1>1. PICK stop \in Pages(a, n) :
        /\ Cardinality(NewPages(a, stop - a)) = Room
        /\ mem' = MapRange(mem, a, stop - a, replace)
        /\ mappedBytes' = mappedBytes + Cardinality(NewPages(a, stop - a))
  BY DEF TrapInMapRange, StopsAt
<1>2. anonymous' = kept /\ fileMappings' = fileMappings
  BY DEF TrapInMapRange
<1>3. stop - a \in Nat
  BY DEF Pages
<1>4. Cardinality(NewPages(a, stop - a)) <= Room
  BY <1>1, AddressAssumption DEF Room, BooksOK
<1>5. Table(mem') /\ Mapped' = Mapped \cup Pages(a, stop - a)
  BY <1>1, <1>3, MappedRange DEF Mapped
<1>6. /\ mappedBytes' \in Nat /\ Accounting'
      /\ \A r \in fileMappings : Pages(r.address, r.size) \subseteq Mapped'
  BY <1>1, <1>3, <1>4, <1>5, GrownTable
<1>7. /\ kept \subseteq AnonymousType /\ IsFiniteSet(kept)
      /\ \A q \in kept : Pages(q.address, q.size) \subseteq Mapped'
  BY <1>5, ReplacedList
<1> HIDE DEF kept
<1>8. MappingsBacked'
  BY <1>2, <1>6, <1>7 DEF MappingsBacked, Backed, Pages
<1> QED BY <1>2, <1>5, <1>6, <1>7, <1>8 DEF BooksOK

\* In-place growth of the mapping mremap found.
LEMMA GrowStep ==
  ASSUME BooksOK, NEW a \in Nat, NEW old \in Nat \ {0}, NEW new \in Nat \ {0},
         NEW r \in anonymous, r.address = a, r.size = old,
         new > old, Free(a + old, new - old), mappedBytes + (new - old) <= Budget,
         mem' = ProtectRange(MapRange(mem, a + old, new - old, FALSE), a + old, new - old, r.perm),
         mappedBytes' = mappedBytes + Cardinality(NewPages(a + old, new - old)),
         anonymous' = (anonymous \ {r}) \cup {[r EXCEPT !.size = new]},
         fileMappings' = fileMappings
  PROVE  BooksOK'
<1> DEFINE grown == [r EXCEPT !.size = new]
           from == a + old
           more == new - old
           table == MapRange(mem, from, more, FALSE)
           perm == r.perm
<1>0. /\ from \in Nat /\ more \in Nat \ {0} /\ r \in AnonymousType /\ perm \in Perms
      /\ mem' = ProtectRange(table, from, more, perm)
      /\ mappedBytes' = mappedBytes + Cardinality(NewPages(from, more))
  BY DEF BooksOK, AnonymousType
<1>1. Cardinality(NewPages(from, more)) <= Room
  <2>1. NewPages(from, more) = from .. (from + more - 1)
    BY DEF NewPages, Free, Pages
  <2> HIDE DEF from, more
  <2>2. Cardinality(from .. (from + more - 1)) = more
    <3>1. from + more - 1 \in Int /\ ~(from > from + more - 1)
      BY <1>0
    <3>2. Cardinality(from .. (from + more - 1)) = (from + more - 1) - from + 1
      BY <1>0, <3>1, FS_Interval
    <3> QED BY <1>0, <3>2
  <2>3. more <= Room
    BY AddressAssumption DEF Room, BooksOK, more
  <2> QED BY <2>1, <2>2, <2>3
<1>1a. grown \in AnonymousType /\ grown.address = a /\ grown.size = new
  BY <1>0 DEF AnonymousType
<1>1b. Pages(grown.address, grown.size) \subseteq Pages(r.address, r.size) \cup Pages(from, more)
  BY <1>1a DEF Pages
<1> HIDE DEF from, more, grown, perm
<1>2. Table(table) /\ DOMAIN table = Mapped \cup Pages(from, more)
  BY <1>0, MappedRange
<1> HIDE DEF table
<1>3. Table(mem') /\ Mapped' = Mapped \cup Pages(from, more)
  <2>1. more \in Nat
    BY <1>0
  <2>2. /\ Table(ProtectRange(table, from, more, perm))
        /\ DOMAIN ProtectRange(table, from, more, perm) = DOMAIN table
    BY <1>0, <1>2, <2>1 DEF ProtectRange, Table, PageType
  <2> QED BY <1>0, <1>2, <2>2, Zenon DEF Mapped
<1>4. /\ mappedBytes' \in Nat /\ Accounting'
      /\ \A q \in anonymous \cup fileMappings : Pages(q.address, q.size) \subseteq Mapped'
  BY <1>0, <1>1, <1>3, GrownTable
<1>5. anonymous' = (anonymous \ {r}) \cup {grown}
  BY DEF grown
<1>6. Pages(grown.address, grown.size) \subseteq Mapped'
  BY <1>1b, <1>3, <1>4
<1>7. MappingsBacked'
  BY <1>4, <1>5, <1>6 DEF MappingsBacked, Backed, Pages
<1>8. IsFiniteSet(anonymous')
  BY <1>5, OneMore, FS_Subset DEF BooksOK
<1>9. anonymous' \subseteq AnonymousType
  BY <1>1a, <1>5 DEF BooksOK
<1> QED BY <1>3, <1>4, <1>7, <1>8, <1>9 DEF BooksOK

\* mremap moving a mapping: the old pages are copied, then unmapped.
LEMMA MoveStep ==
  ASSUME BooksOK, NEW to \in Nat, NEW a \in Nat, NEW old \in Nat \ {0}, NEW new \in Nat \ {0},
         Named(a, old) # {}, new > old, Free(to, new), mappedBytes + new <= Budget,
         MoveTo(to, a, old, new)
  PROVE  BooksOK' /\ cursor' \in Nat /\ rax' \in Int
<1> DEFINE r == First(Named(a, old))
           kept == DiscardRange(anonymous, a, old)
           moved == [address |-> to, size |-> new, perm |-> r.perm, id |-> NextId(kept)]
           copied == [p \in Mapped \cup Pages(to, new) |->
                        IF p \in Pages(to, old) THEN [perm |-> r.perm, data |-> mem[a + (p - to)].data]
                        ELSE IF p \in Pages(to, new) THEN [perm |-> r.perm, data |-> Zero]
                        ELSE mem[p]]
<1>1. r \in anonymous /\ r.address = a /\ r.size = old
  <2>1. r \in Named(a, old)
    BY FirstFound DEF BooksOK, Named
  <2> QED BY <2>1 DEF Named
<1>2. r.perm \in Perms /\ Pages(a, old) \subseteq Mapped
  BY <1>1 DEF BooksOK, AnonymousType, MappingsBacked, Backed
<1>3. /\ mem' = UnmapPages(copied, a, old)
      /\ mappedBytes' = mappedBytes + Cardinality(NewPages(to, new))
                           - Cardinality(Pages(a, old) \cap Mapped)
      /\ anonymous' = kept \cup {moved}
      /\ fileMappings' = DropFiles(fileMappings, a, old)
      /\ cursor' = to + new + 1 /\ rax' = to
  BY DEF MoveTo
<1> HIDE DEF r
<1>4. Table(copied) /\ DOMAIN copied = Mapped \cup Pages(to, new)
  <2>1. DOMAIN copied \subseteq Nat /\ DOMAIN copied = Mapped \cup Pages(to, new)
    BY PagesFinite DEF BooksOK, Table, Mapped
  <2>2. ASSUME NEW p \in Mapped \cup Pages(to, new) PROVE copied[p] \in PageType
    <3>1. CASE p \in Pages(to, old)
      <4>1. a + (p - to) \in Mapped
        BY <1>2, <3>1 DEF Pages
      <4>2. mem[a + (p - to)].data \in Data
        BY <4>1 DEF BooksOK, Table, PageType, Mapped
      <4> QED BY <1>2, <3>1, <4>2 DEF PageType
    <3>2. CASE p \notin Pages(to, old) /\ p \in Pages(to, new)
      BY <1>2, <3>2, PageAssumption DEF PageType
    <3>3. CASE p \notin Pages(to, old) /\ p \notin Pages(to, new)
      BY <3>3 DEF BooksOK, Table, Mapped
    <3> QED BY <3>1, <3>2, <3>3
  <2>3. copied = [p \in Mapped \cup Pages(to, new) |-> copied[p]]
    OBVIOUS
  <2> HIDE DEF copied
  <2> QED BY <2>1, <2>2, <2>3 DEF Table
<1> HIDE DEF copied
<1>5. Table(mem') /\ Mapped' = (Mapped \cup Pages(to, new)) \ Pages(a, old)
  BY <1>3, <1>4, UnmapTable DEF Mapped
<1>6. /\ IsFiniteSet(Mapped') /\ mappedBytes' = Cardinality(Mapped')
      /\ mappedBytes' \in Nat /\ mappedBytes' <= Budget
  <2> DEFINE M == Mapped \cup Pages(to, new)
  <2>1. /\ IsFiniteSet(M) /\ Cardinality(NewPages(to, new)) \in Nat
        /\ Cardinality(M) = mappedBytes + Cardinality(NewPages(to, new))
    BY MappedRange
  <2>2. /\ IsFiniteSet(M \ Pages(a, old)) /\ Cardinality(M \ Pages(a, old)) \in Nat
        /\ Cardinality(Pages(a, old) \cap M) \in Nat
        /\ Cardinality(M \ Pages(a, old)) = Cardinality(M) - Cardinality(Pages(a, old) \cap M)
    BY <2>1, CardinalityShrinks
  <2>3. Pages(a, old) \cap M = Pages(a, old) \cap Mapped
    BY <1>2
  <2>4. Cardinality(Pages(a, old) \cap M) = Cardinality(Pages(a, old) \cap Mapped)
    BY <2>3, Zenon
  <2>5. Cardinality(NewPages(to, new)) = new
    <3>1. NewPages(to, new) = to .. (to + new - 1)
      BY DEF NewPages, Free, Pages
    <3>2. Cardinality(to .. (to + new - 1)) = new
      <4>1. to + new - 1 \in Int /\ ~(to > to + new - 1)
        OBVIOUS
      <4>2. Cardinality(to .. (to + new - 1)) = (to + new - 1) - to + 1
        BY <4>1, FS_Interval
      <4> QED BY <4>2
    <3> QED BY <3>1, <3>2
  <2>6. Cardinality(Mapped') = Cardinality(M \ Pages(a, old))
    BY <1>5, Zenon
  <2>7. IsFiniteSet(Mapped')
    BY <1>5, <2>2, Zenon
  <2> HIDE DEF M
  <2> QED BY <1>3, <2>1, <2>2, <2>4, <2>5, <2>6, <2>7, AddressAssumption DEF BooksOK
<1>7. /\ kept \subseteq AnonymousType /\ IsFiniteSet(kept)
      /\ \A q \in kept : Pages(q.address, q.size) \subseteq Mapped'
  <2>1. Mapped \ Pages(a, old) \subseteq Mapped'
    BY <1>5
  <2> QED BY <2>1, AnonymousKept
<1> HIDE DEF kept
<1>8. /\ fileMappings' \subseteq FileType /\ IsFiniteSet(fileMappings')
      /\ \A q \in fileMappings' : Pages(q.address, q.size) \subseteq Mapped'
  BY <1>3, <1>5, FilesKept
<1>9. Pages(to, new) \subseteq Mapped'
  <2>1. Pages(to, new) \cap Pages(a, old) = {}
    BY <1>2 DEF Free
  <2> QED BY <1>5, <2>1
<1>10. moved \in AnonymousType /\ Pages(moved.address, moved.size) \subseteq Mapped'
  BY <1>2, <1>7, <1>9, NextIdType DEF AnonymousType
<1>11. IsFiniteSet(anonymous')
  BY <1>3, <1>7, OneMore
<1> HIDE DEF moved
<1>12. MappingsBacked'
  BY <1>3, <1>7, <1>8, <1>10 DEF MappingsBacked, Backed, Pages
<1>13. anonymous' \subseteq AnonymousType
  BY <1>3, <1>7, <1>10
<1> QED BY <1>3, <1>5, <1>6, <1>8, <1>11, <1>12, <1>13 DEF BooksOK, Accounting

\* mprotect and the guest's stores: the mapped pages are the same.
LEMMA SamePagesStep ==
  ASSUME BooksOK, Table(mem'), Mapped' = Mapped,
         UNCHANGED <<mappedBytes, anonymous, fileMappings>>
  PROVE  BooksOK'
<1>1. Cardinality(Mapped') = Cardinality(Mapped) /\ IsFiniteSet(Mapped')
  BY Zenon DEF BooksOK, Accounting
<1> QED BY <1>1 DEF BooksOK, Accounting, MappingsBacked, Backed, Pages

\* A syscall that only returns.
LEMMA SameBooks ==
  ASSUME BooksOK, UNCHANGED books
  PROVE  BooksOK'
BY DEF BooksOK, books, Table, Mapped, Accounting, MappingsBacked, Backed, Pages

-----------------------------------------------------------------------------
(***************************************************************************)
(* Every handler keeps the books and the registers                         *)
(***************************************************************************)
LEMMA MmapKeeps ==
  ASSUME BooksOK, RegistersOK, NEW hint \in Nat, NEW n \in Nat, NEW perm \in Perms,
         NEW fixed \in BOOLEAN, NEW fd \in Descriptors, NEW offset \in Nat,
         Mmap(hint, n, perm, fixed, fd, offset)
  PROVE  BooksOK' /\ RegistersOK'
<1> DEFINE a == MmapAddress(hint, fixed)
<1>1. CASE n = 0 /\ Fail(EINVAL)
  <2>1. BooksOK'
    BY <1>1, SameBooks DEF Fail
  <2> QED BY <1>1, <2>1 DEF Fail, EINVAL, RegistersOK
<1>2. ASSUME n > 0 PROVE n \in Nat \ {0} /\ a \in Nat /\ cursor \in Nat
  BY <1>2 DEF MmapAddress, RegistersOK
<1>3. CASE n > 0 /\ MmapTrap(hint, n, fixed)
  <2>1. TrapInMapRange(a, n, fixed)
    BY <1>3 DEF MmapTrap
  <2>2. BooksOK'
    BY <1>2, <1>3, <2>1, TrapStep
  <2> QED BY <2>1, <2>2 DEF TrapInMapRange, RegistersOK
<1>4. CASE n > 0 /\ fd \in Files /\ MmapFile(hint, n, perm, fixed, fd, offset)
  <2>1. BooksOK' /\ cursor' \in Nat /\ rax' \in Int
    BY <1>2, <1>4, MmapFileStep
  <2> QED BY <1>4, <2>1 DEF MmapFile, RegistersOK
<1>5. CASE n > 0 /\ MmapBadDescriptor(hint, n, fixed)
  <2>1. Unmap(a, n)
    BY <1>5 DEF MmapBadDescriptor, Unmap
  <2>2. BooksOK'
    BY <1>2, <1>5, <2>1, UnmapStep
  <2> QED BY <1>5, <2>2 DEF MmapBadDescriptor, EBADF, RegistersOK
<1>6. CASE n > 0 /\ MmapAnonymous(hint, n, perm, fixed)
  <2>1. BooksOK' /\ cursor' \in Nat /\ rax' \in Int
    BY <1>2, <1>6, MmapAnonymousStep
  <2> QED BY <1>6, <2>1 DEF MmapAnonymous, RegistersOK
<1> QED BY <1>1, <1>3, <1>4, <1>5, <1>6 DEF Mmap

\* So does mremap.
LEMMA MremapKeeps ==
  ASSUME BooksOK, RegistersOK, NEW a \in Nat, NEW old \in Nat, NEW new \in Nat,
         NEW flags \in Flags, Mremap(a, old, new, flags)
  PROVE  BooksOK' /\ RegistersOK'
<1>1. ASSUME NEW errno \in Nat, Fail(errno) PROVE BooksOK' /\ RegistersOK'
  BY <1>1, SameBooks DEF Fail, RegistersOK
<1>2. CASE MremapReject(a, old, new, flags)
  BY <1>1, <1>2 DEF MremapReject, EINVAL, ENOSYS
<1>3. CASE MremapUnknown(a, old)
  BY <1>1, <1>3 DEF MremapUnknown, EFAULT, ENOSYS
<1>4. ASSUME old > 0, new > 0, Named(a, old) # {}
      PROVE  LET r == First(Named(a, old))
             IN r \in anonymous /\ r.address = a /\ r.size = old
  <2>1. First(Named(a, old)) \in Named(a, old)
    BY <1>4, FirstFound DEF BooksOK, Named
  <2> QED BY <2>1 DEF Named
<1>5. CASE MremapSame(a, old, new)
  BY <1>5, SameBooks DEF MremapSame, RegistersOK
<1>6. CASE MremapShrink(a, old, new)
  <2>1. a + new \in Nat /\ old - new \in Nat /\ Unmap(a + new, old - new)
    BY <1>6 DEF MremapShrink
  <2>2. BooksOK'
    BY <2>1, UnmapStep
  <2> QED BY <1>6, <2>2 DEF MremapShrink, RegistersOK
<1>7. CASE old > 0 /\ new > 0 /\ Named(a, old) # {} /\ MremapGrow(a, old, new)
  <2> DEFINE r == First(Named(a, old))
  <2>1. r \in anonymous /\ r.address = a /\ r.size = old
    BY <1>4, <1>7
  <2>2. CASE Fail(ENOMEM)
    BY <1>1, <2>2 DEF ENOMEM
  <2>3. CASE /\ mappedBytes + (new - old) <= Budget
             /\ mem' = ProtectRange(MapRange(mem, a + old, new - old, FALSE),
                                    a + old, new - old, r.perm)
             /\ mappedBytes' = mappedBytes + Cardinality(NewPages(a + old, new - old))
             /\ anonymous' = (anonymous \ {r}) \cup {[r EXCEPT !.size = new]}
             /\ rax' = a
             /\ UNCHANGED <<fileMappings, cursor, programBreak, status>>
    <3>1. new > old /\ Free(a + old, new - old)
      BY <1>7 DEF MremapGrow
    <3>2. old \in Nat \ {0} /\ new \in Nat \ {0}
      BY <1>7
    <3> HIDE DEF r
    <3>3. BooksOK'
      BY <2>1, <2>3, <3>1, <3>2, GrowStep
    <3> QED BY <2>3, <3>3 DEF RegistersOK
  <2> QED BY <1>7, <2>2, <2>3 DEF MremapGrow
<1>8. CASE old > 0 /\ new > 0 /\ Named(a, old) # {} /\ MremapMove(a, old, new, flags)
  <2>1. CASE Fail(ENOMEM)
    BY <1>1, <2>1 DEF ENOMEM
  <2>2. ASSUME NEW to \in cursor .. (Top - new), FindsFree(new, to), MoveTo(to, a, old, new),
               mappedBytes + new <= Budget, new > old
        PROVE  BooksOK' /\ RegistersOK'
    <3>1. to \in Nat
      BY AddressAssumption DEF RegistersOK
    <3>2. old \in Nat \ {0} /\ new \in Nat \ {0} /\ Free(to, new)
      BY <1>8, <2>2 DEF FindsFree
    <3>3. BooksOK' /\ cursor' \in Nat /\ rax' \in Int
      BY <1>8, <2>2, <3>1, <3>2, MoveStep
    <3> QED BY <2>2, <3>3 DEF MoveTo, RegistersOK
  <2> QED BY <1>8, <2>1, <2>2 DEF MremapMove
<1> QED BY <1>2, <1>3, <1>5, <1>6, <1>7, <1>8 DEF Mremap

\* So does brk.
LEMMA BrkKeeps ==
  ASSUME BooksOK, RegistersOK, NEW requested \in Nat, Brk(requested)
  PROVE  BooksOK' /\ RegistersOK'
<1>1. CASE BrkQuery(requested)
  BY <1>1, SameBooks DEF BrkQuery, RegistersOK
<1>2. CASE BrkGrow(requested)
  <2> DEFINE n == requested - programBreak
             table == MapRange(mem, programBreak, n, FALSE)
  <2>1. n \in Nat /\ programBreak \in Nat
    BY <1>2 DEF BrkGrow, RegistersOK
  <2>2. CASE TrapInMapRange(programBreak, n, FALSE)
    <3>1. BooksOK'
      BY <2>1, <2>2, TrapStep
    <3> QED BY <2>2, <3>1 DEF TrapInMapRange, RegistersOK
  <2>3. CASE /\ Fits(programBreak, n)
             /\ mem' = ProtectRange(table, programBreak, n, HeapPerm)
             /\ mappedBytes' = mappedBytes + Cardinality(NewPages(programBreak, n))
             /\ programBreak' = requested
             /\ rax' = requested
             /\ UNCHANGED <<anonymous, fileMappings, cursor, status>>
    <3> HIDE DEF n
    <3>1. Table(table) /\ DOMAIN table = Mapped \cup Pages(programBreak, n)
      BY <2>1, MappedRange
    <3> HIDE DEF table
    <3>2. Table(mem') /\ Mapped' = Mapped \cup Pages(programBreak, n)
      BY <2>1, <2>3, <3>1, PageAssumption, ProtectTable DEF Mapped
    <3>3. /\ mappedBytes' \in Nat /\ Accounting'
          /\ \A r \in anonymous \cup fileMappings : Pages(r.address, r.size) \subseteq Mapped'
      BY <2>1, <2>3, <3>2, GrownTable DEF Fits
    <3>4. BooksOK'
      BY <2>3, <3>2, <3>3 DEF BooksOK, MappingsBacked, Backed, Pages
    <3> QED BY <2>3, <3>4 DEF RegistersOK
  <2> QED BY <1>2, <2>2, <2>3 DEF BrkGrow
<1>3. CASE BrkShrink(requested)
  <2>1. CASE requested < programBreak
    <3>1. programBreak - requested \in Nat /\ Unmap(requested, programBreak - requested)
      BY <1>3, <2>1 DEF BrkShrink, RegistersOK
    <3>2. BooksOK'
      BY <3>1, UnmapStep
    <3> QED BY <1>3, <3>2 DEF BrkShrink, RegistersOK
  <2>2. CASE ~(requested < programBreak)
    <3>1. BooksOK'
      BY <1>3, <2>2, SameBooks DEF BrkShrink
    <3> QED BY <1>3, <3>1 DEF BrkShrink, RegistersOK
  <2> QED BY <2>1, <2>2
<1> QED BY <1>1, <1>2, <1>3 DEF Brk

\* A store changes contents only.
LEMMA StoreKeeps ==
  ASSUME BooksOK, RegistersOK, NEW p \in Mapped, NEW d \in Data, Store(p, d)
  PROVE  BooksOK' /\ RegistersOK'
<1>1. Table(mem') /\ Mapped' = Mapped
  BY DEF Store, BooksOK, Table, PageType, Mapped
<1>2. BooksOK'
  BY <1>1, SamePagesStep DEF Store
<1> QED BY <1>2 DEF Store, RegistersOK

\* mprotect changes permissions only.
LEMMA MprotectKeeps ==
  ASSUME BooksOK, RegistersOK, NEW a \in Nat, NEW n \in Nat, NEW perm \in Perms,
         Mprotect(a, n, perm)
  PROVE  BooksOK' /\ RegistersOK'
<1>1. Table(mem) /\ mem' = ProtectRange(mem, a, n, perm)
  BY DEF Mprotect, BooksOK
<1>2. Table(mem') /\ Mapped' = Mapped
  BY <1>1, ProtectTable DEF Mapped
<1>3. BooksOK'
  BY <1>2, SamePagesStep DEF Mprotect
<1> QED BY <1>3 DEF Mprotect, RegistersOK

-----------------------------------------------------------------------------
(***************************************************************************)
(* The theorems                                                            *)
(***************************************************************************)
LEMMA InitEstablishes == Init => IInv
<1> SUFFICES ASSUME Init PROVE IInv
  OBVIOUS
<1>1. Table(mem) /\ Mapped = DOMAIN Image
  BY PageAssumption DEF Init, Table, PageType, Mapped
<1>2. Accounting /\ mappedBytes \in Nat
  BY <1>1, AddressAssumption, FS_CardinalityType, Zenon DEF Init, Accounting
<1>3. IsFiniteSet({})
  BY FS_EmptySet
<1>4. BooksOK
  BY <1>1, <1>2, <1>3 DEF Init, BooksOK, MappingsBacked
<1>5. RegistersOK
  BY AddressAssumption DEF Init, RegistersOK
<1> QED BY <1>4, <1>5, InvariantParts

\* Every step keeps the invariant.
LEMMA NextPreserves == IInv /\ [Next]_vars => IInv'
<1> SUFFICES ASSUME BooksOK, RegistersOK, [Next]_vars PROVE BooksOK' /\ RegistersOK'
  BY InvariantParts, PTL
<1> USE AddressAssumption
<1>1. ASSUME NEW hint \in Addresses \cup {0}, NEW n \in Lengths, NEW perm \in Perms,
             NEW fixed \in BOOLEAN, NEW fd \in Descriptors, NEW offset \in Lengths,
             Mmap(hint, n, perm, fixed, fd, offset)
      PROVE  BooksOK' /\ RegistersOK'
  <2>1. hint \in Nat /\ n \in Nat /\ offset \in Nat
    OBVIOUS
  <2> QED BY <1>1, <2>1, MmapKeeps
<1>2. ASSUME NEW a \in Addresses, NEW old \in Lengths, NEW new \in Lengths, NEW flags \in Flags,
             Mremap(a, old, new, flags)
      PROVE  BooksOK' /\ RegistersOK'
  <2>1. a \in Nat /\ old \in Nat /\ new \in Nat
    OBVIOUS
  <2> QED BY <1>2, <2>1, MremapKeeps
<1>3. ASSUME NEW a \in Addresses, NEW n \in Lengths, Munmap(a, n)
      PROVE  BooksOK' /\ RegistersOK'
  <2>1. a \in Nat /\ n \in Nat /\ Unmap(a, n)
    BY <1>3 DEF Munmap
  <2>2. BooksOK'
    BY <2>1, UnmapStep
  <2> QED BY <1>3, <2>2 DEF Munmap, RegistersOK
<1>4. ASSUME NEW a \in Addresses, NEW n \in Lengths, NEW perm \in Perms, Mprotect(a, n, perm)
      PROVE  BooksOK' /\ RegistersOK'
  <2>1. a \in Nat /\ n \in Nat
    OBVIOUS
  <2> QED BY <1>4, <2>1, MprotectKeeps
<1>5. ASSUME NEW requested \in Addresses \cup {0}, Brk(requested)
      PROVE  BooksOK' /\ RegistersOK'
  <2>1. requested \in Nat
    OBVIOUS
  <2> QED BY <1>5, <2>1, BrkKeeps
<1>6. ASSUME NEW p \in Mapped, NEW d \in Data, Store(p, d)
      PROVE  BooksOK' /\ RegistersOK'
  BY <1>6, StoreKeeps
<1>7. CASE UNCHANGED vars
  BY <1>7, SameBooks DEF vars, books, RegistersOK
<1> QED BY <1>1, <1>2, <1>3, <1>4, <1>5, <1>6, <1>7 DEF Next

-----------------------------------------------------------------------------
(***************************************************************************)
(* What mremap hands back                                                  *)
(***************************************************************************)

\* Shrinking in place: the first new pages stay, the rest is unmapped.
LEMMA ShrinkResult ==
  ASSUME NEW a \in Nat, NEW old \in Nat, NEW new \in Nat, Table(mem),
         Pages(a, old) \subseteq Mapped, MremapShrink(a, old, new)
  PROVE  MremapResult(a, old, new)
<1>1. new < old /\ rax' = a /\ mem' = UnmapPages(mem, a + new, old - new)
  BY DEF MremapShrink, Unmap
<1>2. a + new \in Nat /\ old - new \in Nat
  BY <1>1
<1>3. /\ Mapped' = Mapped \ Pages(a + new, old - new)
      /\ \A p \in Mapped' : mem'[p] = mem[p]
  BY <1>1 DEF UnmapPages, Restrict, Mapped
<1>4. \A i \in 0 .. new - 1 : a + i \in Mapped'
  BY <1>1, <1>3 DEF Pages
<1>5. Pages(a, new) \subseteq Mapped'
  <2>1. \A p \in Pages(a, new) : p \in Pages(a, old) /\ p \notin Pages(a + new, old - new)
    BY <1>1 DEF Pages
  <2> QED BY <1>3, <2>1
<1>6. Pages(a + new, old - new) \subseteq Pages(a, old)
  BY <1>1 DEF Pages
<1>7. \A p \in Mapped \ Pages(a, old) : p \in Mapped' /\ mem'[p] = mem[p]
  BY <1>3, <1>6
<1> QED BY <1>1, <1>3, <1>4, <1>5, <1>7 DEF MremapResult

\* Growing in place: the pages behind the old ones are fresh.
LEMMA GrowResult ==
  ASSUME NEW a \in Nat, NEW old \in Nat, NEW new \in Nat, Table(mem),
         Pages(a, old) \subseteq Mapped, MremapGrow(a, old, new), rax' >= 0
  PROVE  MremapResult(a, old, new)
<1> DEFINE perm == First(Named(a, old)).perm
           table == MapRange(mem, a + old, new - old, FALSE)
<1>1. /\ new > old /\ Free(a + old, new - old) /\ rax' = a
      /\ mem' = ProtectRange(table, a + old, new - old, perm)
  <2>1. ~Fail(ENOMEM)
    BY DEF Fail, ENOMEM
  <2> QED BY <2>1 DEF MremapGrow
<1> HIDE DEF perm
<1>2. /\ DOMAIN table = Mapped \cup Pages(a + old, new - old)
      /\ \A p \in Mapped : table[p] = mem[p]
      /\ \A p \in Pages(a + old, new - old) : table[p] = Fresh
  BY <1>1 DEF MapRange, Free, Mapped
<1> HIDE DEF table
<1>3. /\ Mapped' = Mapped \cup Pages(a + old, new - old)
      /\ \A p \in Mapped : mem'[p] = mem[p]
  BY <1>1, <1>2 DEF ProtectRange, Free, Mapped
<1>4. \A p \in Pages(a + old, new - old) : mem'[p].data = Zero
  <2>1. ASSUME NEW p \in Pages(a + old, new - old) PROVE mem'[p].data = Zero
    <3>1. mem'[p] = [Fresh EXCEPT !.perm = perm]
      BY <1>1, <1>2, <2>1 DEF ProtectRange
    <3> QED BY <3>1 DEF Fresh
  <2> QED BY <2>1
<1>5. Pages(a, new) = Pages(a, old) \cup Pages(a + old, new - old)
  BY <1>1 DEF Pages
<1>6. ASSUME NEW i \in 0 .. new - 1
      PROVE  mem'[a + i].data = IF i < old THEN mem[a + i].data ELSE Zero
  <2>1. CASE i < old
    <3>1. a + i \in Mapped
      BY <2>1 DEF Pages
    <3> QED BY <1>3, <2>1, <3>1
  <2>2. CASE ~(i < old)
    <3>1. a + i \in Pages(a + old, new - old)
      BY <1>1, <2>2 DEF Pages
    <3> QED BY <1>4, <2>2, <3>1
  <2> QED BY <2>1, <2>2
<1>7. Pages(a, new) \subseteq Mapped'
  BY <1>3, <1>5
<1> QED BY <1>1, <1>3, <1>6, <1>7 DEF MremapResult

\* Moving: the old pages are copied before they are unmapped, and the new
\* range, free when it was chosen, overlaps nothing.
LEMMA MoveResult ==
  ASSUME NEW a \in Nat, NEW old \in Nat, NEW new \in Nat, NEW to \in Nat, Table(mem),
         Pages(a, old) \subseteq Mapped, new > old, Free(to, new), MoveTo(to, a, old, new)
  PROVE  MremapResult(a, old, new)
<1> DEFINE perm == First(Named(a, old)).perm
           copied == [p \in Mapped \cup Pages(to, new) |->
                        IF p \in Pages(to, old) THEN [perm |-> perm, data |-> mem[a + (p - to)].data]
                        ELSE IF p \in Pages(to, new) THEN [perm |-> perm, data |-> Zero]
                        ELSE mem[p]]
<1>1. rax' = to /\ mem' = UnmapPages(copied, a, old)
  BY DEF MoveTo
<1> HIDE DEF perm
<1>2. Pages(to, old) \subseteq Pages(to, new)
  BY DEF Pages
<1>3. /\ DOMAIN copied = Mapped \cup Pages(to, new)
      /\ \A p \in Pages(to, old) : copied[p].data = mem[a + (p - to)].data
      /\ \A p \in Pages(to, new) \ Pages(to, old) : copied[p].data = Zero
      /\ \A p \in Mapped : copied[p] = mem[p]
  BY <1>2 DEF Free
<1> HIDE DEF copied
<1>4. /\ Mapped' = (Mapped \cup Pages(to, new)) \ Pages(a, old)
      /\ \A p \in Mapped' : mem'[p] = copied[p]
  BY <1>1, <1>3 DEF UnmapPages, Restrict, Mapped
<1>5. Pages(to, new) \subseteq Mapped'
  BY <1>4 DEF Free
<1>6. ASSUME NEW i \in 0 .. new - 1
      PROVE  mem'[to + i].data = IF i < old THEN mem[a + i].data ELSE Zero
  <2>1. to + i \in Pages(to, new) /\ a + ((to + i) - to) = a + i
    BY DEF Pages
  <2>2. mem'[to + i] = copied[to + i]
    BY <1>4, <1>5, <2>1
  <2>3. to + i \in Pages(to, old) <=> i < old
    BY DEF Pages
  <2> QED BY <1>3, <2>1, <2>2, <2>3
<1>7. \A p \in Mapped \ (Pages(a, old) \cup Pages(to, new)) : p \in Mapped' /\ mem'[p] = mem[p]
  BY <1>3, <1>4
<1> QED BY <1>1, <1>5, <1>6, <1>7 DEF MremapResult

\* A successful mremap of a listed mapping is one of these, or changes nothing.
LEMMA MremapGivesTheResult ==
  ASSUME IInv, NEW r \in anonymous, NEW new \in Lengths,
         Mremap(r.address, r.size, new, "maymove"), rax' >= 0
  PROVE  MremapResult(r.address, r.size, new)
<1> DEFINE a == r.address
           old == r.size
<1>1. /\ a \in Nat /\ old \in Nat \ {0} /\ new \in Nat /\ cursor \in Nat
      /\ Table(mem) /\ Pages(a, old) \subseteq Mapped /\ r \in Named(a, old)
  BY AddressAssumption DEF IInv, TypeOK, Table, Mapped, AnonymousType, MappingsBacked, Backed, Named
<1>2. Mremap(a, old, new, "maymove")
  OBVIOUS
<1> SUFFICES MremapResult(a, old, new)
  OBVIOUS
<1> HIDE DEF a, old
<1>3. ~Fail(EINVAL) /\ ~Fail(ENOSYS) /\ ~Fail(EFAULT) /\ ~Fail(ENOMEM)
  BY DEF Fail, EINVAL, ENOSYS, EFAULT, ENOMEM
<1>4. ~MremapReject(a, old, new, "maymove") /\ ~MremapUnknown(a, old)
  BY <1>1, <1>3 DEF MremapReject, MremapUnknown
<1>5. CASE MremapSame(a, old, new)
  <2>1. new = old /\ rax' = a /\ mem' = mem /\ Mapped' = Mapped
    BY <1>5 DEF MremapSame, books, Mapped
  <2>2. \A i \in 0 .. new - 1 : i < old
    BY <1>1, <2>1
  <2> QED BY <1>1, <2>1, <2>2 DEF MremapResult
<1>6. CASE MremapShrink(a, old, new)
  BY <1>1, <1>6, ShrinkResult
<1>7. CASE MremapGrow(a, old, new)
  BY <1>1, <1>7, GrowResult
<1>8. CASE MremapMove(a, old, new, "maymove")
  <2>1. /\ new > old
        /\ \E to \in cursor .. (Top - new) : FindsFree(new, to) /\ MoveTo(to, a, old, new)
    BY <1>3, <1>8 DEF MremapMove
  <2>2. PICK to \in cursor .. (Top - new) : FindsFree(new, to) /\ MoveTo(to, a, old, new)
    BY <2>1
  <2>3. to \in Nat /\ Free(to, new)
    BY <1>1, <2>2, AddressAssumption DEF FindsFree
  <2> QED BY <1>1, <2>1, <2>2, <2>3, MoveResult
<1> QED BY <1>2, <1>4, <1>5, <1>6, <1>7, <1>8 DEF Mremap

-----------------------------------------------------------------------------
\* The three parts hold together in every reachable state.
THEOREM Invariance == Spec => []IInv
BY InitEstablishes, NextPreserves, PTL DEF Spec

\* The session's books keep their types under every sequence of syscalls.
THEOREM TypeCorrect == Spec => []TypeOK
<1>1. IInv => TypeOK
  BY DEF IInv
<1> QED BY <1>1, Invariance, PTL

\* mappedBytesValue is the number of mapped pages and stays in the budget.
THEOREM AccountingHolds == Spec => []Accounting
<1>1. IInv => Accounting
  BY DEF IInv
<1> QED BY <1>1, Invariance, PTL

\* No listed mapping loses the memory it names.
THEOREM MappingsStayBacked == Spec => []MappingsBacked
<1>1. IInv => MappingsBacked
  BY DEF IInv
<1> QED BY <1>1, Invariance, PTL

\* mremap hands back the contents of the mapping it resizes, and no other page
\* is touched.  It rests on the backing of the listed mappings: the copy reads
\* pages that are there, and the range found free overlaps none of them.
THEOREM MremapKeepsEveryPage == Spec => MremapKeepsContents
<1> DEFINE Kept == \A r \in anonymous, new \in Lengths :
                     (status = "running" /\ Mremap(r.address, r.size, new, "maymove") /\ rax' >= 0)
                       => MremapResult(r.address, r.size, new)
<1>1. IInv => Kept
  BY MremapGivesTheResult
<1> QED BY <1>1, Invariance, PTL DEF MremapKeepsContents, Spec

=============================================================================
