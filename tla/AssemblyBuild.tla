---------------------------- MODULE AssemblyBuild ----------------------------
(***************************************************************************)
(* Assembling the active source to an ELF and executing it: the handlers   *)
(* resolveActiveAsmExecutionTarget and buildActiveAssembly of App, the     *)
(* reuse of artifacts (assemblyExecutionArtifact), the build of a project  *)
(* (projectAssemblyBuild) and the NASM + ld backend.                       *)
(*                                                                         *)
(* One task runs at a time, through awaits during which the user edits,    *)
(* rearranges files and changes project.  The task works on the project it *)
(* captured; what it adds goes to the project that is open by then.        *)
(*                                                                         *)
(* A source belongs to a project and assembles to an artifact at Output[s].*)
(* Its text is a member of Texts; its stamp, updatedAt, is in milliseconds,*)
(* so two edits may share one.  A tool run is one step: it ends well, with *)
(* an error or without the file asked for, or its promise is rejected (see *)
(* ToolProcess).  The digest of a text is the text.                        *)
(***************************************************************************)
EXTENDS Naturals, Sequences, FiniteSets, SequencesExt

CONSTANTS
  Setups,     \* instances: who owns which source, and what may happen
  Output,     \* source -> path of its artifact (build/<stem of the source>)
  Texts,      \* contents of a source
  MaxStamp,   \* bound on the time
  MaxFiles,   \* bound on the files of a project that are not sources
  None

BuildAssumption ==
  /\ \A s \in Setups :
       /\ DOMAIN s.owner \subseteq DOMAIN Output /\ None \notin s.projects
       /\ \A x \in DOMAIN s.owner : s.owner[x] \in s.projects
       /\ s.rearranged \in BOOLEAN /\ s.switches \in BOOLEAN
  /\ MaxStamp \in Nat /\ MaxFiles \in Nat
  /\ None \notin [source : DOMAIN Output, text : Texts, stamp : 0 .. MaxStamp]

VARIABLES
  setup,    \* the instance; it never changes
  project,  \* the open project, or None
  source,   \* [text, stamp] of every source
  files,    \* per project, its files that are not sources: [id, path, build]
  backend,  \* the cached promise: None, "loading" or "ready"
  task,     \* the task under way (assemblyBusy), or None
  focused   \* id of the file opened last

vars == <<setup, project, source, files, backend, task, focused>>

Projects == setup.projects
Owner == setup.owner            \* source -> its project
Sources == DOMAIN Owner
Rearranged == setup.rearranged  \* whether artifacts are renamed, replaced by imported
                                \* files, or deleted during a task
Switches == setup.switches      \* whether the project is changed during a task

GeneratedId(p, path) == <<p, path>>
WithId(file, id) == [id |-> id, path |-> file.path, build |-> file.build]
Build(s, rev) == [source |-> s, text |-> rev.text, stamp |-> rev.stamp]
IdsOf(p) == {files[p][i].id : i \in DOMAIN files[p]}
Kinds == {"ensure", "build", "buildRun"}

-----------------------------------------------------------------------------
(***************************************************************************)
(* A file is fresh when it was generated from this source and neither the  *)
(* time, nor the contents of the source have changed since.                *)
(***************************************************************************)
\* Mutant: the digest is not compared.
FreshByStamp(file, s, rev) ==
  file.build # None /\ file.build.source = s /\ file.build.stamp = rev.stamp

\* isFreshAssemblyArtifact
Fresh(file, s, rev) == file.build # None /\ file.build = Build(s, rev)

IndexOf(fs, path) == SelectInSeq(fs, LAMBDA f : f.path = path)
IndexOfFresh(fs, s, rev) == SelectInSeq(fs, LAMBDA f : Fresh(f, s, rev))

\* addFiles, in the project that is open now: a path that exists keeps its id.
AddFile(file) ==
  IF project = None THEN UNCHANGED files
  ELSE LET fs == files[project]
           at == IndexOf(fs, file.path)
       IN /\ at # 0 \/ Len(fs) < MaxFiles
          /\ files' = [files EXCEPT ![project] =
                         IF at = 0 THEN Append(@, file) ELSE [@ EXCEPT ![at] = WithId(file, fs[at].id)]]

-----------------------------------------------------------------------------

\* The handler of a menu entry or of a command: it captures the project and its
\* files, and awaits the backend.
Request(s, kind) ==
  /\ task = None /\ project = Owner[s]
  /\ task' = [kind |-> kind, source |-> s, project |-> project, rev |-> source[s], files |-> files[project],
              pc |-> "backend", file |-> None]
  /\ UNCHANGED <<project, source, files, backend, focused>>

\* getAssemblyBackend starts loading the pinned tools unless a load is cached.
LoadBackend ==
  /\ task # None /\ task.pc = "backend" /\ backend = None
  /\ backend' = "loading"
  /\ UNCHANGED <<project, source, files, task, focused>>

\* The catch of the handlers: the error is reported, the finally ends the task.
EndTask == task' = None

\* The assets are fetched and verified, or one is missing or is not the pinned
\* one; a failed load is not cached.
Loaded(ok) ==
  /\ backend = "loading"
  /\ IF ok THEN backend' = "ready" /\ UNCHANGED task ELSE backend' = None /\ EndTask
  /\ UNCHANGED <<project, source, files, focused>>

\* ensureAssemblyExecutable looks for a fresh artifact among the captured files;
\* a build, or a project without one, goes on to the tools.
Begin ==
  /\ task # None /\ task.pc = "backend" /\ backend = "ready"
  /\ LET fresh == IndexOfFresh(task.files, task.source, task.rev)
     IN IF task.kind = "ensure" /\ fresh # 0
        THEN /\ task' = [task EXCEPT !.pc = "analyze", !.file = task.files[fresh]]
             /\ focused' = task.files[fresh].id
        ELSE /\ task' = [task EXCEPT !.pc = "nasm"]
             /\ UNCHANGED focused
  /\ UNCHANGED <<project, source, files, backend>>

\* assemble: NASM on each source, then ld on the objects; any of them may fail.
Nasm(ok) ==
  /\ task # None /\ task.pc = "nasm"
  /\ IF ok THEN task' = [task EXCEPT !.pc = "ld"] ELSE EndTask
  /\ UNCHANGED <<project, source, files, backend, focused>>

\* buildAssemblyProject makes the file: it records the revision of the sources
\* it captured, which are the ones that were assembled.
Link(ok) ==
  /\ task # None /\ task.pc = "ld"
  /\ IF ok THEN task' = [task EXCEPT !.pc = "add",
                           !.file = [id |-> GeneratedId(task.project, Output[task.source]),
                                     path |-> Output[task.source],
                                     build |-> Build(task.source, task.rev)]]
     ELSE EndTask
  /\ UNCHANGED <<project, source, files, backend, focused>>

\* The continuation in App: the file is added and opened.
Add ==
  /\ task # None /\ task.pc = "add"
  /\ AddFile(task.file)
  /\ focused' = task.file.id
  /\ task' = [task EXCEPT !.pc = "analyze"]
  /\ UNCHANGED <<project, source, backend>>

\* analyzeBinaryTarget; a build alone ends here.
Analyze(ok) ==
  /\ task # None /\ task.pc = "analyze"
  /\ IF ok /\ task.kind # "build" THEN task' = [task EXCEPT !.pc = "execute"] ELSE EndTask
  /\ UNCHANGED <<project, source, files, backend, focused>>

\* The target is handed to the execution controller.
Execute ==
  /\ task # None /\ task.pc = "execute"
  /\ EndTask
  /\ UNCHANGED <<project, source, files, backend, focused>>

-----------------------------------------------------------------------------
(***************************************************************************)
(* Meanwhile.                                                              *)
(***************************************************************************)
\* updateFileText, at the same millisecond as the edit before or later.
Edit(s, text, stamp) ==
  /\ project = Owner[s]
  /\ stamp \in source[s].stamp..MaxStamp
  /\ source' = [source EXCEPT ![s] = [text |-> text, stamp |-> stamp]]
  /\ UNCHANGED <<project, files, backend, task, focused>>

\* removeFile; the tab goes with the file.
Delete(i) ==
  /\ Rearranged \/ task = None
  /\ project # None /\ i \in DOMAIN files[project]
  /\ files' = [files EXCEPT ![project] = RemoveAt(@, i)]
  /\ focused' = IF focused = files[project][i].id THEN None ELSE focused
  /\ UNCHANGED <<project, source, backend, task>>

\* renameFile: an artifact moves out of build/.
Rename(i) ==
  /\ Rearranged /\ project # None /\ i \in DOMAIN files[project]
  /\ files[project][i].path # None
  /\ \A j \in DOMAIN files[project] : files[project][j].path # None
  /\ files' = [files EXCEPT ![project][i].path = None]
  /\ UNCHANGED <<project, source, backend, task, focused>>

\* A file is imported to the path of an artifact.
Import(s) ==
  /\ Rearranged /\ project = Owner[s] /\ s \notin IdsOf(project)
  /\ AddFile([id |-> s, path |-> Output[s], build |-> None])
  /\ UNCHANGED <<project, source, backend, task, focused>>

\* The project is closed, or another one opened; the workspace is reset.
SwitchProject(p) ==
  /\ Switches \/ task = None
  /\ p # project
  /\ project' = p
  /\ focused' = None
  /\ UNCHANGED <<source, files, backend, task>>

Init ==
  /\ setup \in Setups
  /\ project \in Projects
  /\ source \in [Sources -> [text : Texts, stamp : {0}]]
  /\ files = [p \in Projects |-> <<>>]
  /\ backend = None /\ task = None /\ focused = None

\* The steps that follow from the awaits of the task.
Step ==
  \/ LoadBackend \/ Begin \/ Add \/ Execute
  \/ \E ok \in BOOLEAN : Loaded(ok) \/ Nasm(ok) \/ Link(ok) \/ Analyze(ok)

Next == UNCHANGED setup /\
 (\/ Step
  \/ \E s \in Sources, kind \in Kinds : Request(s, kind)
  \/ \E s \in Sources, text \in Texts, stamp \in 0..MaxStamp : Edit(s, text, stamp)
  \/ \E i \in 1..MaxFiles : Delete(i) \/ Rename(i)
  \/ \E s \in Sources : Import(s)
  \/ \E p \in Projects \cup {None} : SwitchProject(p))

\* Fetches and tools are answered (ToolProcess settles), timers and promises run.
Spec == Init /\ [][Next]_vars
FairSpec == Spec /\ WF_vars(Step)

-----------------------------------------------------------------------------
\* The type of the state of the handlers.
TypeOK ==
  /\ project \in Projects \cup {None}
  /\ source \in [Sources -> [text : Texts, stamp : 0..MaxStamp]]
  /\ \A p \in Projects : Len(files[p]) <= MaxFiles
  /\ backend \in {None, "loading", "ready"}
  /\ task # None => task.pc \in {"backend", "nasm", "ld", "add", "analyze", "execute"}

\* What is about to be executed was assembled from the text the active source
\* had when the user asked, whether it was built or reused: todo.md promises
\* that "unchanged source reuses the existing ELF while any source-content
\* change forces a rebuild".
ExecutesWhatWasThere ==
  task # None /\ task.pc \in {"analyze", "execute"} =>
    /\ task.file.build # None
    /\ task.file.build.source = task.source /\ task.file.build.text = task.rev.text

\* Rebuilding replaces: the files of a project differ in id and path, as long as
\* nobody renames an artifact or imports a file over it.
ArtifactsDistinct == Rearranged \/ \A p \in Projects : \A i, j \in DOMAIN files[p] :
  files[p][i].id = files[p][j].id \/ files[p][i].path = files[p][j].path => i = j

\* The file that is opened is one of the project, as long as nothing is rearranged
\* or switched meanwhile: the task reuses the files it captured.
FocusInProject ==
  Rearranged \/ Switches \/ (focused # None /\ project # None => focused \in IdsOf(project))

\* An artifact is in the project of its source, as long as no other project is
\* opened during the task: addFiles adds to the one that is open when it runs.
ArtifactsAtHome == Switches \/ \A p \in Projects : \A i \in DOMAIN files[p] :
  files[p][i].build # None => Owner[files[p][i].build.source] = p

\* Every task ends, whatever fails on the way, and the commands are enabled again.
TaskEnds == task # None ~> task = None

\* A task is given up or ends; it is never replaced by another one.
OneTask == [][task # None /\ task' # None => task'.rev = task.rev /\ task'.kind = task.kind]_vars
=============================================================================
