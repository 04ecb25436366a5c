------------------------------- MODULE MCRuntime -------------------------------
(***************************************************************************)
(* What a Blink Probe goes through, over small instances: the closure of   *)
(* the program's libraries, the audits of their instructions, and where    *)
(* the guest is found to be.  "part" says which of them moves; they meet   *)
(* only in the libraries, each module keeping what it needs of them.       *)
(***************************************************************************)
EXTENDS RuntimeClosure, IsaAudit, RuntimeImages, Functions, TLC

VARIABLE part

(* Registries: ordinary ones hold each library under its soname.           *)
Version == [library |-> 2, version |-> "v2"]

Library(soname, needed, defines, requires) ==
  [soname |-> soname, needed |-> needed, size |-> IF soname = None THEN 2 ELSE 1, defines |-> defines, requires |-> requires]

\* Library 1 may need 2 and 3; 2 may define the version that 1 and the program
\* require, and need 1 back.
LibrariesNamed(n) ==
  CASE n = 1 -> {Library(1, <<>>, {}, {}), Library(1, <<2, 3>>, {}, {Version}), Library(None, <<3>>, {}, {})}
    [] n = 2 -> {Library(2, <<1>>, {"v2"}, {}), Library(2, <<3>>, {}, {})}
    [] n = 3 -> {Library(3, <<2>>, {}, {Version}), Library(3, <<>>, {}, {})}

Pick(ns) == {f \in [ns -> UNION {LibrariesNamed(n) : n \in ns}] : \A n \in ns : f[n] \in LibrariesNamed(n)}
Directory(granted, holds) ==
  [granted |-> granted, holds |-> [n \in Names |-> IF n \in DOMAIN holds THEN holds[n] ELSE None]]

\* Some libraries are imported, the others lie in one or two directories.
Undamaged ==
  UNION {UNION {{[files |-> {[name |-> n, image |-> f[n]] : n \in imported},
                  dirs |-> <<Directory(g, [n \in Names \ (imported \cup {3}) |-> f[n]]),
                             Directory(TRUE, [n \in {3} \ imported |-> f[n]])>>] :
                 f \in Pick(Names)} : g \in BOOLEAN} : imported \in SUBSET Names}

Damaged ==
  {[files |-> {[name |-> 1, image |-> i]},
    dirs |-> <<[granted |-> TRUE, holds |-> [n \in Names |-> IF n = 2 THEN Unreadable ELSE None]],
               Directory(g, [n \in {2} |-> Library(2, <<>>, {"v2"}, {})])>>] :
   i \in LibrariesNamed(1), g \in BOOLEAN}

\* Several files of one soname, of which some define the version; and, where library 2
\* is called 3, a file whose name is another's soname.
FilesNamed(n) ==
  CASE n = 1 -> {Library(1, <<3, 2>>, {}, {Version}), Library(2, <<3>>, {}, {Version})}
    [] n = 2 -> {Library(2, <<>>, d, {}) : d \in {{}, {"v2"}}} \cup {Library(3, <<1>>, {"v2"}, {})}
    [] n = 3 -> {Library(2, <<1>>, d, {}) : d \in {{}, {"v2"}}} \cup {Library(3, <<>>, {}, {Version})}

Aliased ==
  UNION {{[files |-> {[name |-> n, image |-> f[n]] : n \in imported},
           dirs |-> <<Directory(TRUE, [n \in Names \ imported |-> f[n]])>>] :
          f \in {f \in [Names -> UNION {FilesNamed(n) : n \in Names}] : \A n \in Names : f[n] \in FilesNamed(n)}} :
         imported \in {{}, {2}, {2, 3}}}

SomeWorlds == Undamaged \cup Damaged \cup Aliased
KnownLibraries ==
  UNION {LibrariesNamed(n) \cup FilesNamed(n) : n \in Names} \cup {Library(2, <<>>, {"v2"}, {})}

SomePrograms ==
  [interp : {None, 3}, needed : {<<1>>, <<2, 1>>}, requires : {{}, {Version}}]

\* Registries that differ in what library 2 defines, in who has library 3, and in
\* whether the file 3 is another file of library 2.
Exchanged ==
  {w \in Undamaged : w.files = {} /\ w.dirs[1].granted /\ w.dirs[1].holds[1].soname = 1} \cup
  {w \in Aliased : w.files = {} /\ \A n \in Names : w.dirs[1].holds[n].soname = IF n = 1 THEN 1 ELSE 2}

(* Images of a few bytes, with instructions of up to two.                  *)
Addresses == 1..5
Plain == [evex |-> FALSE, name |-> "mov"]
Kinds == {Plain, [evex |-> TRUE, name |-> "v"]} \cup [evex : {FALSE}, name : {"vgf2p8", "vmx", "v", "verr"}]

\* Two bytes an instruction at most, and none across the end of the image.
Codes(kinds) ==
  {[a \in Addresses \cup {6} |->
      [size |-> IF a = 6 THEN 0 ELSE sizes[a], kind |-> IF a \in DOMAIN kinds THEN kinds[a] ELSE Plain]] :
   sizes \in [Addresses -> 0..2]}

Segment(start, size, executable) == [start |-> start, size |-> size, executable |-> executable]
Section(start, size) == [start |-> start, size |-> size]

OneSegment == <<Segment(1, 5, TRUE)>>
TwoSegments == <<Segment(4, 2, TRUE), Segment(1, 3, TRUE)>>
HalfExecutable == <<Segment(1, 2, FALSE), Segment(3, 3, TRUE)>>

Program(segments, sections, code) == [segments |-> segments, sections |-> sections, code |-> code, entry |-> 1]

Bare(p) == [program |-> p, modules |-> <<>>, interpreter |-> None, versions |-> TRUE]

Sweeps ==
  {Bare(Program(l[1], l[2], c)) :
     l \in {<<OneSegment, <<Section(1, 5)>>>>, <<TwoSegments, <<Section(4, 2), Section(1, 3)>>>>,
            <<HalfExecutable, <<Section(1, 3), Section(4, 2)>>>>},
     c \in Codes(3 :> [evex |-> FALSE, name |-> "v"] @@ 5 :> [evex |-> TRUE, name |-> "v"])}

\* Modules with one unsupported instruction, at the entry or elsewhere, and a byte that is none.
OneByte(a, kind) == [x \in Addresses \cup {6} |-> [size |-> IF x \in {4, 6} \ {a} THEN 0 ELSE 1, kind |-> IF x = a THEN kind ELSE Plain]]
Module(names, code, entry) ==
  [names |-> names, image |-> [segments |-> HalfExecutable, sections |-> <<>>, code |-> code, entry |-> entry]]

Inventories ==
  {[program |-> Program(OneSegment, <<>>, OneByte(2, k)),
    modules |-> <<Module({"ld"}, OneByte(a, l), e), Module({"libc"}, OneByte(4, l), 4)>>,
    interpreter |-> i, versions |-> v] :
   k \in {Plain, [evex |-> FALSE, name |-> "verr"]}, l \in Kinds, a \in {3, 5}, e \in {0, 1, 3},
   i \in {None, "ld", "libc"}, v \in BOOLEAN}

(* A program and a library of three instructions, at several biases.       *)
Encodings == {<<0>>, <<1>>, <<1, 0>>, <<2, 1>>}
Three == [1..3 -> Encodings]
Code(start, code) ==
  [start |-> start, bytes |-> FlattenSeq(code), from |-> [i \in 1..Len(code) + 1 |-> Len(FlattenSeq(SubSeq(code, 1, i - 1)))]]
TwoFunctions == {[value |-> 11, size |-> 2], [value |-> 13, size |-> 0]}

Guest(p, l, fixed, pb, lb) ==
  [program |-> Code(11, p), library |-> Code(11, l), fixed |-> fixed, functions |-> TwoFunctions,
   biases |-> [program |-> IF fixed THEN 0 ELSE pb, library |-> lb]]

Loaded ==
  {Guest(p, l, f, pb, lb) : p \in Three, l \in {<<a, b, <<2, 1>>>> : a, b \in {<<0>>, <<1, 0>>}},
                                  f \in BOOLEAN, pb \in {20}, lb \in {30}}

AllTargets == Sweeps \cup Inventories
all == <<part, vars, auditVars, imageVars>>

OneLibrary == CHOOSE t \in Inventories : TRUE
OneWorld == CHOOSE w \in Exchanged : TRUE
OneGuest == CHOOSE g \in Loaded : TRUE
OneClosure == store = OneWorld /\ program = [interp |-> 3, needed |-> <<1>>, requires |-> {}] /\ Init
OneAudit == target = OneLibrary /\ AuditInit /\ sweep = "program"
OnePart ==
  \/ part = "closure" /\ Init /\ OneAudit /\ guest = OneGuest /\ ImagesInit
  \/ part = "audit" /\ AuditInit /\ OneClosure /\ guest = OneGuest /\ ImagesInit
  \/ part = "images" /\ ImagesInit /\ OneClosure /\ OneAudit
Auditing == part = "audit" /\ AuditNext /\ UNCHANGED <<part, vars, imageVars>>
Works ==
  \/ Auditing
  \/ part = "closure" /\ Next /\ UNCHANGED <<part, auditVars, imageVars>>
  \/ part = "images" /\ ImagesNext /\ UNCHANGED <<part, vars, auditVars>>
Runtime == OnePart /\ [][Works]_all /\ WF_all(Auditing)

(* What the parts promise, by the question it answers; ClosureIsSound is   *)
(* the closure's own, SweepMissesNothing the audits', ImagesAreTrue and    *)
(* ImagesStayKnown those of the places.                                    *)
\* Every sweep ends, whatever bytes it is given.
AuditsEnd == part = "audit" ~> sweep \in {"launched", "refused", "listed"}
=============================================================================
