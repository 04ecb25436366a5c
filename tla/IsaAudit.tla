-------------------------------- MODULE IsaAudit --------------------------------
(***************************************************************************)
(* The linear sweeps over executable bytes: the audit of the program       *)
(* (auditBlinkIsaForFile), the inventory of the materialized libraries     *)
(* (auditBlinkRuntimeDependencyIsa) and the listing the editor shows       *)
(* (loadFullBinaryDisassembly), and what a Blink Probe does with them.     *)
(*                                                                         *)
(* An image has executable segments and sections, [start, size], and code: *)
(* what the decoder makes of the bytes at an address, [size, kind], size 0 *)
(* where it finds no instruction.  The bytes are read in chunks, so that   *)
(* an instruction may lie across the end of one.  Regions are swept in the *)
(* order of their addresses, so that what was found is a set of addresses. *)
(***************************************************************************)
EXTENDS Integers, Sequences, FiniteSets, SequencesExt

CONSTANTS
  Targets,         \* [program, modules, interpreter, versions]
  Chunk,           \* bytes read at once: 96 KiB in the code
  MaxInstructions, \* instructions decoded at once: 32768
  MaxEvidence,     \* instructions named as evidence: 12
  Nothing          \* no family, no address, no answer

RegionEnd(r) == r.start + r.size
Within(r, at) == r.start <= at /\ at < RegionEnd(r)
BytesIn(r) == r.start..RegionEnd(r) - 1

\* What an ELF image is: regions with their bytes, executable segments that share
\* none, and instructions that fit in a chunk.
WellFormed(image) ==
  /\ image.segments \in Seq([start : Nat, size : Nat, executable : BOOLEAN])
  /\ image.sections \in Seq([start : Nat, size : Nat])
  /\ image.entry \in Nat
  /\ \A r \in ToSet(image.segments) \cup ToSet(image.sections) : BytesIn(r) \subseteq DOMAIN image.code
  /\ \A a \in DOMAIN image.code : image.code[a].size \in 0..Chunk
  /\ \A i, j \in DOMAIN image.segments :
       LET r == image.segments[i]
           q == image.segments[j]
       IN i # j /\ r.executable /\ q.executable => RegionEnd(r) <= q.start \/ RegionEnd(q) <= r.start

ASSUME AuditAssumption ==
  /\ Chunk \in Nat \ {0} /\ MaxInstructions \in Nat \ {0} /\ MaxEvidence \in Nat /\ Nothing \notin Nat
  /\ \A t \in Targets :
       /\ WellFormed(t.program)
       /\ t.modules \in Seq(ToSet(t.modules)) /\ \A m \in ToSet(t.modules) : WellFormed(m.image)

VARIABLES
  target,
  sweep,    \* "program", "modules", "document"; "launched", "refused" or "listed" at the end
  scan,     \* the sweep under way
  audit,    \* what the audit of the program answered
  audits,   \* what those of the modules answered
  preflight \* what the console shows: its status and the bytes processed

auditVars == <<target, sweep, scan, audit, audits, preflight>>

-----------------------------------------------------------------------------
(***************************************************************************)
(* Instructions Blink does not implement.  A kind is [evex, name].         *)
(***************************************************************************)
Family(kind) ==
  IF kind.evex THEN "avx512-family"
  ELSE CASE kind.name = "vgf2p8" -> "gfni"
         [] kind.name = "vmx" -> "vmx"
         [] kind.name = "v" -> "avx-family"
         [] OTHER -> Nothing

FamiliesOf(image, ats) == {Family(image.code[a].kind) : a \in ats} \ {Nothing}
Unsupported(image, ats) == {a \in ats : Family(image.code[a].kind) # Nothing}

\* The n lowest addresses of a set.
Earliest(n, ats) == {a \in ats : Cardinality({b \in ats : b < a}) < n}

\* Every family is noted, and the first instructions as evidence.
Noted(found, image, ats) ==
  [families |-> found.families \cup FamiliesOf(image, ats),
   evidence |-> Earliest(MaxEvidence, found.evidence \cup Unsupported(image, ats))]

-----------------------------------------------------------------------------
(***************************************************************************)
(* Decoding stops where there is no instruction, at the end of the bytes   *)
(* and after MaxInstructions.                                              *)
(***************************************************************************)
EndOf(image, at) == at + image.code[at].size

\* The addresses decoding comes to, as long as there is an instruction that fits.
Decode(image, from, limit) ==
  LET Fits(a) == a < limit /\ image.code[a].size > 0 /\ EndOf(image, a) <= limit
      at[n \in 0..MaxInstructions] ==
        IF n = 0 THEN from ELSE IF Fits(at[n - 1]) THEN EndOf(image, at[n - 1]) ELSE at[n - 1]
  IN {a \in {at[n] : n \in 0..MaxInstructions - 1} : Fits(a)}

Least(a, b) == IF a < b THEN a ELSE b
Final(ats) == CHOOSE a \in ats : \A b \in ats : b <= a

\* The regions are taken in the order of their addresses.
Lowermost(regions) == CHOOSE r \in regions : \A q \in regions : r.start <= q.start
StartOf(regions) == IF regions = {} THEN 0 ELSE Lowermost(regions).start

Begin(image, regions) ==
  [image |-> image, todo |-> regions, cursor |-> StartOf(regions),
   lines |-> {}, found |-> [families |-> {}, evidence |-> {}], decoded |-> 0, skipped |-> 0]

ProgramRegions(image) == {s \in ToSet(image.segments) : s.executable /\ s.size > 0}
DocumentRegions(image) == {s \in ToSet(image.sections) : s.size > 0}

\* The next region once the cursor is at the end of one.
Onwards(s) ==
  IF s.cursor < RegionEnd(Lowermost(s.todo)) THEN s
  ELSE [s EXCEPT !.todo = @ \ {Lowermost(s.todo)}, !.cursor = StartOf(s.todo \ {Lowermost(s.todo)})]

\* Mutant: the cursor stays.
SkippedStays(s, n) == s

Skipped(s, n) == Onwards([s EXCEPT !.cursor = @ + n, !.skipped = @ + n])

Took(s, lines, end) ==
  Onwards([s EXCEPT !.lines = @ \cup lines, !.found = Noted(@, s.image, lines),
                    !.decoded = @ + (end - s.cursor), !.cursor = end])

\* Mutant: the cursor goes to the end of the chunk.
SweptWhole(s, limit) ==
  LET lines == Decode(s.image, s.cursor, limit)
  IN IF lines = {} THEN Skipped(s, 1) ELSE Took(s, lines, limit)

\* The instructions below a limit are taken, or one byte is skipped.
Swept(s, limit) ==
  LET lines == Decode(s.image, s.cursor, limit)
  IN IF lines = {} THEN Skipped(s, 1)
     ELSE Took(s, lines, Least(RegionEnd(Lowermost(s.todo)), EndOf(s.image, Final(lines))))

ChunkEnd(s) == Least(s.cursor + Chunk, RegionEnd(Lowermost(s.todo)))

-----------------------------------------------------------------------------
AuditInit ==
  /\ target \in Targets
  /\ sweep \in {"program", "document"}
  /\ scan = Begin(target.program, IF sweep = "program" THEN ProgramRegions(target.program)
                                                       ELSE DocumentRegions(target.program))
  /\ audit = Nothing /\ audits = <<>>
  /\ preflight = [status |-> IF sweep = "program" THEN "scanning" ELSE "idle", processed |-> 0]

\* The first executable segment that has the byte at an address.
Backing(image, at) ==
  LET backed == {i \in DOMAIN image.segments : image.segments[i].executable /\ Within(image.segments[i], at)}
  IN IF backed = {} THEN 0 ELSE CHOOSE i \in backed : \A j \in backed : i <= j

ProgramChunk ==
  /\ sweep = "program" /\ scan.todo # {}
  /\ LET mapping == scan.image.segments[Backing(scan.image, scan.cursor)]
     IN scan' = Swept(scan, Least(ChunkEnd(scan), RegionEnd(mapping)))
  /\ preflight' = [preflight EXCEPT !.processed = scan'.decoded + scan'.skipped]
  /\ UNCHANGED <<target, sweep, audit, audits>>

Compatible(s) == s.found.families = {}

\* The libraries follow; a program without an interpreter has none.
ProgramAudited ==
  /\ sweep = "program" /\ scan.todo = {}
  /\ audit' = scan
  /\ sweep' = "modules"
  /\ preflight' = [status |-> IF Compatible(scan) THEN "compatible" ELSE "incompatible",
                   processed |-> scan.decoded + scan.skipped]
  /\ scan' = IF target.modules = <<>> THEN Nothing
             ELSE Begin(target.modules[1].image, ProgramRegions(target.modules[1].image))
  /\ UNCHANGED <<target, audits>>

ModuleChunk ==
  /\ sweep = "modules" /\ Len(audits) < Len(target.modules) /\ scan.todo # {}
  /\ scan' = Swept(scan, ChunkEnd(scan))
  /\ UNCHANGED <<target, sweep, audit, audits, preflight>>

Role(module) ==
  IF target.interpreter # Nothing /\ target.interpreter \in module.names THEN "interpreter" ELSE "dependency"

\* The unsupported instruction at the entry of the interpreter, if there is one.
EntryAudit(module) ==
  LET image == module.image
      at == {s \in {image.segments[i] : i \in DOMAIN image.segments} : s.executable /\ Within(s, image.entry)}
  IN IF image.entry # 0 /\ \E s \in at :
          /\ image.code[image.entry].size > 0 /\ EndOf(image, image.entry) <= RegionEnd(s)
          /\ Family(image.code[image.entry].kind) # Nothing
     THEN image.entry ELSE Nothing

ModuleAudited ==
  LET done == Len(audits)
      module == target.modules[done + 1]
  IN /\ sweep = "modules" /\ done < Len(target.modules) /\ scan.todo = {}
     /\ audits' = Append(audits, [scan |-> scan, role |-> Role(module),
                                  blocking |-> IF Role(module) = "interpreter" THEN EntryAudit(module) ELSE Nothing])
     /\ scan' = IF done + 1 = Len(target.modules) THEN Nothing
                ELSE Begin(target.modules[done + 2].image, ProgramRegions(target.modules[done + 2].image))
     /\ UNCHANGED <<target, sweep, audit, preflight>>

BlockingCount(as) == Cardinality({i \in DOMAIN as : as[i].blocking # Nothing})
AdvisoryCount(as) ==
  Cardinality({i \in DOMAIN as : as[i].blocking = Nothing /\ as[i].scan.found.families # {}})

\* Probe refuses a program only for the versions of its libraries.
Launch ==
  /\ sweep = "modules" /\ Len(audits) = Len(target.modules)
  /\ sweep' = IF target.versions THEN "launched" ELSE "refused"
  /\ UNCHANGED <<target, scan, audit, audits, preflight>>

\* The listing follows the sections: where no segment has the bytes it skips a chunk.
DocumentChunk ==
  /\ sweep = "document" /\ scan.todo # {}
  /\ LET mapping == Backing(scan.image, scan.cursor)
     IN scan' = IF mapping = 0 THEN Skipped(scan, ChunkEnd(scan) - scan.cursor)
                ELSE Swept(scan, Least(ChunkEnd(scan), RegionEnd(scan.image.segments[mapping])))
  /\ UNCHANGED <<target, sweep, audit, audits, preflight>>

Listed ==
  /\ sweep = "document" /\ scan.todo = {}
  /\ sweep' = "listed"
  /\ UNCHANGED <<target, scan, audit, audits, preflight>>

AuditNext ==
  \/ ProgramChunk \/ ProgramAudited
  \/ ModuleChunk \/ ModuleAudited \/ Launch
  \/ DocumentChunk \/ Listed

AuditSpec == AuditInit /\ [][AuditNext]_auditVars

-----------------------------------------------------------------------------
(***************************************************************************)
(* Properties                                                              *)
(***************************************************************************)
AllBytes(regions) == UNION {BytesIn(r) : r \in regions}
Sizes(regions) == Cardinality(AllBytes(regions))

\* The addresses one comes to: the least set with the first one that is closed
\* under going on.
Comes(from, next) ==
  LET places == {from} \cup {next[a] : a \in DOMAIN next}
      Closed(ats) == from \in ats /\ \A a \in ats \cap DOMAIN next : next[a] \in ats
  IN {a \in places : \A ats \in SUBSET places : Closed(ats) => a \in ats}

\* The instructions one sweep over a region meets, without chunks: where there is
\* none it goes on with the next byte.
Decodes(image, r, at) == image.code[at].size > 0 /\ EndOf(image, at) <= RegionEnd(r)
GoesOn(image, r) == [at \in BytesIn(r) |-> IF Decodes(image, r, at) THEN EndOf(image, at) ELSE at + 1]
SweepOf(image, r) == {at \in BytesIn(r) \cap Comes(r.start, GoesOn(image, r)) : Decodes(image, r, at)}

InstructionsOf(image, regions) == UNION {SweepOf(image, r) : r \in regions}

Scans == {audits[i].scan : i \in DOMAIN audits} \cup (IF audit = Nothing THEN {} ELSE {audit})

AuditTypeOK ==
  /\ sweep \in {"program", "modules", "launched", "refused", "document", "listed"}
  /\ scan = Nothing \/ (scan.decoded \in Nat /\ scan.skipped \in Nat)
  /\ Len(audits) <= Len(target.modules)
  /\ preflight.status \in {"idle", "scanning", "compatible", "incompatible"}

\* Reading in chunks does not change what is found: an audit meets every
\* instruction of one sweep over the executable bytes, and no byte belongs to
\* two (auditBlinkIsaForFile, auditRuntimeModuleBytes).
ChunksAreSeamless ==
  \A s \in Scans :
    /\ s.lines = InstructionsOf(s.image, ProgramRegions(s.image))
    /\ \A a, b \in s.lines : a < b => EndOf(s.image, a) <= b

\* Every byte is counted once, as decoded or as skipped, and the progress the
\* console shows ends at the size of the executable segments.
BytesAreCounted ==
  /\ \A s \in Scans : s.decoded + s.skipped = Sizes(ProgramRegions(s.image))
  /\ preflight.status = "scanning" => preflight.processed <= Sizes(ProgramRegions(target.program))
  /\ audit # Nothing => preflight.processed = Sizes(ProgramRegions(target.program))

\* The families name all that is unsupported, however little evidence is kept,
\* and the evidence is the first of it (addEvidence).
FamiliesAreComplete ==
  \A s \in Scans :
    LET all == InstructionsOf(s.image, ProgramRegions(s.image))
    IN /\ s.found.families = FamiliesOf(s.image, all)
       /\ s.found.evidence = Earliest(MaxEvidence, Unsupported(s.image, all))

\* Unsupported instructions of a library are advisory unless the interpreter
\* enters one: no library is both, and a dependency never blocks
\* (auditBlinkRuntimeDependencyIsa).
OnlyTheEntryBlocks ==
  sweep \in {"launched", "refused"} =>
    /\ Len(audits) = Len(target.modules)
    /\ \A i \in DOMAIN audits :
         LET m == target.modules[i]
         IN audits[i].blocking # Nothing <=>
              /\ target.interpreter \in m.names /\ audits[i].blocking = m.image.entry
              /\ Family(m.image.code[m.image.entry].kind) # Nothing
    /\ AdvisoryCount(audits) + BlockingCount(audits) <= Len(target.modules)

\* The listing has every instruction of the sections that lie in one executable segment (loadFullBinaryDisassembly).
ListingIsComplete ==
  sweep = "listed" =>
    \A r \in ToSet(scan.image.sections) :
      (\E g \in ToSet(scan.image.segments) : g.executable /\ g.start <= r.start /\ RegionEnd(r) <= RegionEnd(g))
      => SweepOf(scan.image, r) \subseteq scan.lines

\* A sweep meets every instruction of a program once, in chunks without seams, counts
\* every byte, has every family of unsupported instructions, lists all it promises,
\* and only what a process must enter counts as blocking.
SweepMissesNothing ==
  /\ AuditTypeOK /\ ChunksAreSeamless /\ BytesAreCounted
  /\ FamiliesAreComplete /\ ListingIsComplete /\ OnlyTheEntryBlocks
===============================================================================
