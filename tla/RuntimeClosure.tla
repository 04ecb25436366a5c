---------------------------- MODULE RuntimeClosure ----------------------------
(***************************************************************************)
(* What a dynamic program is launched with.  Binary analysis previews the  *)
(* closure of PT_INTERP and DT_NEEDED from the registry of global          *)
(* dependencies (resolveGlobalDependencyClosure); a launch materializes it *)
(* again (materializeRuntimeDependencyClosure), checks the symbol versions *)
(* and mounts the files for the guest.                                     *)
(*                                                                         *)
(* A name is a number, in the order the store lists names.  An image is    *)
(* what its ELF metadata says: soname, needed names, size, the versions it *)
(* defines and those it requires of a library.                             *)
(***************************************************************************)
EXTENDS Integers, Sequences, FiniteSets, SequencesExt

CONSTANTS
  Names,       \* names of libraries, numbers
  ElfImages,   \* the images there are
  Worlds,      \* registries to begin with: imported files, and directories in order
  Programs,    \* [interp, needed, requires]
  MaxModules,  \* 128 in the code
  MaxBytes,    \* 256 MiB
  Changing,    \* the registries the user exchanges for one another during the launch
  MaxChanges,  \* bound on those changes
  Unreadable,  \* a directory entry that cannot be read or parsed
  None

ASSUME ClosureAssumption ==
  /\ Names \subseteq Nat /\ None \notin Names /\ None \notin ElfImages /\ Unreadable \notin ElfImages
  /\ MaxModules \in Nat /\ MaxBytes \in Nat
  /\ \A m \in ElfImages : m.soname \in Names \cup {None} /\ m.needed \in Seq(Names) /\ m.size \in Nat
  /\ \A w \in Worlds \cup Changing :
       /\ w.files \subseteq [name : Names, image : ElfImages]
       /\ w.dirs \in Seq([granted : BOOLEAN, holds : [Names -> ElfImages \cup {None, Unreadable}]])
  /\ \A p \in Programs : p.interp \in Names \cup {None} /\ p.needed \in Seq(Names)

VARIABLES
  store,    \* [files : set of [name, image], dirs : sequence of [granted, holds]]
  program,
  phase,    \* "walking", "failed", "done", "launched" or "refused"
  pending,  \* names to materialize
  identity, \* requestToIdentity
  modules,  \* [requested, name, image], in the order they were found
  totalBytes,
  preview,  \* the preflight: its registry, queue and results
  changes

vars == <<store, program, phase, pending, identity, modules, totalBytes, preview, changes>>

Requested(p) == (IF p.interp = None THEN <<>> ELSE <<p.interp>>) \o p.needed

Init ==
  /\ store \in Worlds /\ program \in Programs
  /\ phase = "walking" /\ pending = Requested(program)
  /\ identity = <<>> /\ modules = <<>> /\ totalBytes = 0
  /\ preview = [entries |-> store, pending |-> Requested(program), results |-> <<>>, over |-> FALSE]
  /\ changes = 0

-----------------------------------------------------------------------------
(***************************************************************************)
(* Resolution: imported DT_SONAME, imported file name, then the exact file *)
(* name in a directory the browser may read.                               *)
(***************************************************************************)
FirstNamed(files) == CHOOSE f \in files : \A g \in files : f.name <= g.name

Imported(st, n) ==
  LET advertised == {f \in st.files : f.image.soname = n}
      named == {f \in st.files : f.name = n}
  IN IF advertised # {} THEN {FirstNamed(advertised)}
     ELSE IF named # {} THEN {FirstNamed(named)} ELSE {}

Found(f) == [kind |-> "module", name |-> f.name, image |-> f.image]
Missing(kind) == [kind |-> kind, name |-> None, image |-> None]

\* What one directory answers.
InDirectory(d, n) ==
  IF ~d.granted THEN Missing("permission")
  ELSE IF d.holds[n] = None THEN Missing("absent")
  ELSE IF d.holds[n] = Unreadable THEN Missing("unreadable")
  ELSE Found([name |-> n, image |-> d.holds[n]])

Lowest(S) == CHOOSE i \in S : \A j \in S : i <= j

\* The first directory that has the file; otherwise the first trouble.  The
\* preview takes an unreadable file for an absent one.
Resolve(st, n, troubles) ==
  LET Answer(i) == InDirectory(st.dirs[i], n)
      having == {i \in DOMAIN st.dirs : Answer(i).kind = "module"}
      troubled == {i \in DOMAIN st.dirs : Answer(i).kind \in troubles}
  IN IF Imported(st, n) # {} THEN Found(CHOOSE f \in Imported(st, n) : TRUE)
     ELSE IF having # {} THEN Answer(Lowest(having))
     ELSE IF troubled # {} THEN Answer(Lowest(troubled))
     ELSE Missing("absent")

-----------------------------------------------------------------------------
(***************************************************************************)
(* Materialization.  The registry is read again for every name.            *)
(***************************************************************************)
\* Mutant: a file is known by its file name.
IdentityByFile(m) == m.name
IdentityOf(m) == IF m.image.soname # None THEN m.image.soname ELSE m.name
With(f, k, v) == [x \in DOMAIN f \cup {k} |-> IF x = k THEN v ELSE f[x]]
TooBig(m) == totalBytes + m.image.size > MaxBytes

Fails ==
  /\ phase' = "failed"
  /\ UNCHANGED <<pending, identity, modules, totalBytes>>

\* A name that was requested before.
Repeated ==
  /\ phase = "walking" /\ pending # <<>> /\ Head(pending) \in DOMAIN identity
  /\ pending' = Tail(pending)
  /\ UNCHANGED <<store, program, phase, identity, modules, totalBytes, preview, changes>>

\* The needed names that were not requested before, in their order.
Children(needed, asked) ==
  LET upTo[k \in 0 .. Len(needed)] ==
        IF k = 0 THEN <<>>
        ELSE IF needed[k] \in asked THEN upTo[k - 1] ELSE Append(upTo[k - 1], needed[k])
  IN upTo[Len(needed)]

Materialize ==
  LET n == Head(pending)
      m == Resolve(store, n, {"permission", "unreadable"})
      id == IdentityOf(m)
      module == [requested |-> n, name |-> m.name, image |-> m.image]
      known == \E i \in DOMAIN modules : IdentityOf(modules[i]) = id
  IN /\ phase = "walking" /\ pending # <<>> /\ n \notin DOMAIN identity
     /\ IF Len(modules) >= MaxModules \/ m.kind # "module" THEN Fails
        ELSE IF known THEN /\ identity' = With(identity, n, id) /\ pending' = Tail(pending)
                           /\ UNCHANGED <<phase, modules, totalBytes>>
        ELSE IF TooBig(m) THEN Fails
        ELSE /\ identity' = With(identity, n, id)
             /\ modules' = Append(modules, module) /\ totalBytes' = totalBytes + m.image.size
             /\ pending' = Tail(pending) \o Children(m.image.needed, DOMAIN identity \cup {n})
             /\ UNCHANGED phase
     /\ UNCHANGED <<store, program, preview, changes>>

Materialized ==
  /\ phase = "walking" /\ pending = <<>>
  /\ phase' = "done"
  /\ UNCHANGED <<store, program, pending, identity, modules, totalBytes, preview, changes>>

-----------------------------------------------------------------------------
(***************************************************************************)
(* The preview of binary analysis, from one reading of the registry.       *)
(***************************************************************************)
Preview ==
  LET n == Head(preview.pending)
      seen == {preview.results[i].requested : i \in DOMAIN preview.results}
      m == Resolve(preview.entries, n, {"permission"})
      result == [requested |-> n, kind |-> m.kind, image |-> m.image]
      children == IF m.kind = "module"
                  THEN Children(m.image.needed, seen \cup {n}) ELSE <<>>
  IN /\ preview.pending # <<>> /\ ~preview.over
     /\ preview' = IF Len(preview.results) >= MaxModules THEN [preview EXCEPT !.over = TRUE]
                   ELSE IF n \in seen THEN [preview EXCEPT !.pending = Tail(@)]
                   ELSE [preview EXCEPT !.pending = Tail(@) \o children, !.results = Append(@, result)]
     /\ UNCHANGED <<store, program, phase, pending, identity, modules, totalBytes, changes>>

-----------------------------------------------------------------------------
(***************************************************************************)
(* Validation and mounting.                                                *)
(***************************************************************************)
NamesOf(m) == {m.requested, m.name, m.image.soname} \ {None}
Naming(n) == {i \in DOMAIN modules : n \in NamesOf(modules[i])}

\* findProvider takes the first module with the name; the files are registered
\* one module after the other, so the guest opens the last.
Provider(n) == modules[Lowest(Naming(n))].image
Opened(n) == modules[CHOOSE i \in Naming(n) : \A j \in Naming(n) : j <= i].image

Requirements == program.requires \cup UNION {modules[i].image.requires : i \in DOMAIN modules}

Satisfied(r) == Naming(r.library) # {} /\ r.version \in Provider(r.library).defines

\* prepareLinuxRuntimeEnvironment and the session that refuses what it found.
\* The interpreter has to be one of the modules.
Validate ==
  /\ phase = "done"
  /\ phase' = IF /\ \A r \in Requirements : Satisfied(r)
                 /\ program.interp # None => Naming(program.interp) # {}
              THEN "launched" ELSE "refused"
  /\ UNCHANGED <<store, program, pending, identity, modules, totalBytes, preview, changes>>

\* The user changes the registry.
Change ==
  /\ phase = "walking" /\ changes < MaxChanges /\ store \in Changing
  /\ store' \in Changing \ {store}
  /\ changes' = changes + 1
  /\ UNCHANGED <<program, phase, pending, identity, modules, totalBytes, preview>>

Next == Repeated \/ Materialize \/ Materialized \/ Preview \/ Validate \/ Change

Spec == Init /\ [][Next]_vars

-----------------------------------------------------------------------------
Prepared == phase \in {"done", "launched", "refused"}
Images == {modules[i].image : i \in DOMAIN modules}

\* The bytes counted are those of the modules.
Counted ==
  \E sum \in [0 .. Len(modules) -> 0 .. MaxBytes] :
    /\ sum[0] = 0 /\ sum[Len(modules)] = totalBytes
    /\ \A i \in DOMAIN modules : sum[i] = sum[i - 1] + modules[i].image.size

TypeOK ==
  /\ phase \in {"walking", "failed", "done", "launched", "refused"}
  /\ Len(modules) <= MaxModules /\ Counted
  /\ \A n \in DOMAIN identity : \E i \in DOMAIN modules : IdentityOf(modules[i]) = identity[n]
  /\ \A i, j \in DOMAIN modules : IdentityOf(modules[i]) = IdentityOf(modules[j]) => i = j

\* A closure that was materialized is closed: whatever its program, its
\* interpreter or one of its modules needs was looked up, and nothing is in it
\* that none of them needs.
Needed == UNION {ToSet(m.needed) : m \in Images}
ClosureIsClosed == Prepared => DOMAIN identity = ToSet(Requested(program)) \cup Needed

\* What the preview shows as resolved can be launched with: no materialization of
\* the same registry fails but for the size of the closure.
PreviewIsSafe ==
  phase = "failed" /\ changes = 0 /\ preview.pending = <<>> =>
    \/ \E i \in DOMAIN preview.results : preview.results[i].kind # "module"
    \/ Len(modules) >= MaxModules
    \/ TooBig(Resolve(store, Head(pending), {}))

\* The files a registry holds, under their file names.
FilesHeld(w) ==
  w.files \cup UNION {{[name |-> n, image |-> d.holds[n]] : n \in {k \in Names : d.holds[k] \notin {None, Unreadable}}} :
                      d \in ToSet(w.dirs)}

\* The registries this launch may read.
ReadFrom == IF store \in Changing THEN Changing ELSE {store}

\* The library a file is of: the soname tells, and the file name where there is none.
\* Each name is the name of one library at most: files that share a name are files of
\* one library, though they need not be the same file.
LibraryOf(f) == CHOOSE n \in Names : n = f.image.soname \/ (f.image.soname = None /\ n = f.name)
FileNames(f) == {f.name, f.image.soname} \ {None}
OneLibraryPerName ==
  \A v, w \in ReadFrom : \A f \in FilesHeld(v), g \in FilesHeld(w) :
    FileNames(f) \cap FileNames(g) # {} => LibraryOf(f) = LibraryOf(g)

\* A process that was launched finds each version it requires in the file it opens
\* under the library's name: the version check looked at the mounted files, also where
\* several files, or the files of two registries, go by one soname.  (Where one
\* library's file name is another's soname findProvider and the mounts disagree, and
\* nothing is promised.)
LaunchIsCompatible ==
  OneLibraryPerName /\ phase = "launched" =>
    \A r \in program.requires \cup UNION {m.requires : m \in Images} :
      Naming(r.library) # {} /\ r.version \in Opened(r.library).defines

\* What is mounted for a guest is closed under what its modules need, within its
\* budgets, with the versions they require; a preview that promises a launch is right.
ClosureIsSound == TypeOK /\ ClosureIsClosed /\ PreviewIsSafe /\ LaunchIsCompatible
===============================================================================
