--------------------------- MODULE ProjectWorkspace ---------------------------
(***************************************************************************)
(* The files of the open project and the editor groups that show them: the *)
(* file operations of useProjectController as the handlers of App call     *)
(* them, and the workspace reducer.  A handler and the updates it          *)
(* dispatches are one step: React batches them.  An import awaits the       *)
(* contents of the files it was given, and anything may happen until then. *)
(*                                                                         *)
(* A file is its id and its path, a path the sequence of its segments;     *)
(* contents, sizes and times are left out.  Ids are drawn from a counter.  *)
(***************************************************************************)
EXTENDS Naturals, Sequences, FiniteSets, SequencesExt

CONSTANTS
  Setups,     \* instances, with their bounds
  None

WorkspaceAssumption ==
  /\ None \notin Nat
  /\ \A s \in Setups : s.ids \in Nat /\ s.depth \in Nat \ {0} /\ s.groups \in Nat /\ s.imports \in Nat
                         /\ s.reImports \in BOOLEAN
ASSUME WorkspaceAssumption

VARIABLES
  setup,       \* the instance; it never changes
  open,        \* whether the project is open, or back in the store
  files,       \* the files of the project, in the order it lists them
  groups,      \* the editor groups, left to right
  activeGroup, \* id of the group that has the focus
  importing,   \* imports whose files are still being read
  fileIds,     \* file ids made so far
  groupIds     \* group ids made so far

vars == <<setup, open, files, groups, activeGroup, importing, fileIds, groupIds>>

Segments == setup.segments     \* names of directories and files
MaxDepth == setup.depth        \* bound on the length of a path
MaxIds == setup.ids            \* bound on the file ids made
MaxGroups == setup.groups      \* bound on the group ids made
MaxImports == setup.imports    \* bound on the imports under way
ReImports == setup.reImports   \* whether a path the project has is imported again

Paths == UNION {[1..n -> Segments] : n \in 1..MaxDepth}
File(id, path) == [id |-> id, path |-> path]
Ids(fs) == {fs[i].id : i \in DOMAIN fs}
PathsOf(fs) == {fs[i].path : i \in DOMAIN fs}
PathOf(id) == (CHOOSE f \in ToSet(files) : f.id = id).path
Tabs(g) == ToSet(g.tabs)
Focused == CHOOSE g \in ToSet(groups) : g.id = activeGroup

\* filter: the elements of s that are in kept, in their order.
Filter(s, kept) ==
  LET upTo[n \in 0 .. Len(s)] ==
        IF n = 0 THEN <<>>
        ELSE IF s[n] \in kept THEN Append(upTo[n - 1], s[n]) ELSE upTo[n - 1]
  IN upTo[Len(s)]

-----------------------------------------------------------------------------
(***************************************************************************)
(* The reducer of the workspace, one operator per action that concerns the *)
(* groups.                                                                 *)
(***************************************************************************)
EachGroup(gs, F(_)) == [i \in DOMAIN gs |-> F(gs[i])]

OpenTab(g, id) ==
  [g EXCEPT !.tabs = IF id \in Tabs(g) THEN @ ELSE Append(@, id), !.active = id]

OpenFile(gs, id) == EachGroup(gs, LAMBDA g : IF g.id = activeGroup THEN OpenTab(g, id) ELSE g)

\* The tab to the left takes over, or the first one that is left.
RemoveFileFromGroup(g, id) ==
  LET index == SelectInSeq(g.tabs, LAMBDA t : t = id)
      tabs == Filter(g.tabs, Tabs(g) \ {id})
      left == IF index > 1 THEN index - 1 ELSE 1
  IN [g EXCEPT !.tabs = tabs,
               !.active = IF @ # id THEN @
                          ELSE IF left \in DOMAIN tabs THEN tabs[left]
                          ELSE IF tabs # <<>> THEN tabs[1] ELSE None]

RemoveFile(gs, id) == EachGroup(gs, LAMBDA g : RemoveFileFromGroup(g, id))

RemoveFiles(gs, ids) ==
  LET after[n \in 0 .. Len(ids)] == IF n = 0 THEN gs ELSE RemoveFile(after[n - 1], ids[n])
  IN after[Len(ids)]

ResetGroups == <<[id |-> 0, tabs |-> <<>>, active |-> None]>>

CloseTab(group, id) ==
  /\ open /\ group \in DOMAIN groups /\ id \in Tabs(groups[group])
  /\ groups' = [groups EXCEPT ![group] = RemoveFileFromGroup(@, id)]
  /\ UNCHANGED <<open, files, activeGroup, fileIds, groupIds>>

\* A click on a tab.
ActivateFile(group, id) ==
  /\ open /\ group \in DOMAIN groups /\ id \in Tabs(groups[group])
  /\ activeGroup' = groups[group].id
  /\ groups' = [groups EXCEPT ![group].active = id]
  /\ UNCHANGED <<open, files, fileIds, groupIds>>

ActivateGroup(group) ==
  /\ open /\ group \in DOMAIN groups
  /\ activeGroup' = groups[group].id
  /\ UNCHANGED <<open, files, groups, fileIds, groupIds>>

SplitRight ==
  /\ open /\ groupIds < MaxGroups
  /\ Len(groups) < 3
  /\ groups' = Append(groups, [id |-> groupIds + 1, active |-> Focused.active,
                               tabs |-> IF Focused.active = None THEN <<>> ELSE <<Focused.active>>])
  /\ activeGroup' = groupIds + 1 /\ groupIds' = groupIds + 1
  /\ UNCHANGED <<open, files, fileIds>>

\* The focus goes to the first group, whichever group was closed.
CloseGroup(group) ==
  /\ open /\ Len(groups) > 1 /\ group \in DOMAIN groups
  /\ groups' = RemoveAt(groups, group)
  /\ activeGroup' = groups'[1].id
  /\ UNCHANGED <<open, files, fileIds, groupIds>>

-----------------------------------------------------------------------------
(***************************************************************************)
(* The file operations.  addFiles indexes the files by path: a file at a   *)
(* path the project has replaces the contents and keeps the id.            *)
(***************************************************************************)
IndexOf(fs, path) == SelectInSeq(fs, LAMBDA f : f.path = path)

AddFile(fs, f) ==
  LET at == IndexOf(fs, f.path)
  IN IF at = 0 THEN Append(fs, f) ELSE [fs EXCEPT ![at] = File(@.id, f.path)]

AddFiles(fs, new) ==
  LET after[n \in 0 .. Len(new)] == IF n = 0 THEN fs ELSE AddFile(after[n - 1], new[n])
  IN after[Len(new)]

\* The dialog for a new file; createTextFile returns the file that is there.
CreateFile(path) ==
  /\ open
  /\ IF path \in PathsOf(files)
     THEN /\ groups' = OpenFile(groups, (CHOOSE f \in ToSet(files) : f.path = path).id)
          /\ UNCHANGED <<files, fileIds>>
     ELSE /\ fileIds < MaxIds
          /\ fileIds' = fileIds + 1
          /\ files' = AddFile(files, File(fileIds + 1, path))
          /\ groups' = OpenFile(groups, fileIds + 1)
  /\ UNCHANGED <<open, activeGroup, groupIds>>

\* The files an import was given are read; nothing else of it is known before.
StartImport ==
  /\ open /\ importing < MaxImports
  /\ importing' = importing + 1
  /\ UNCHANGED <<open, files, groups, activeGroup, fileIds, groupIds>>

\* All have been read.  They are added to the project that is open by now, if
\* there is one.  Every file gets a new id, and the tab is opened for the id of the
\* first one, whatever addFiles made of it.
FinishImport(paths) ==
  /\ importing > 0 /\ fileIds + Len(paths) <= MaxIds
  /\ ReImports \/ ~open \/ \A i \in DOMAIN paths : paths[i] \notin PathsOf(files)
  /\ importing' = importing - 1
  /\ LET imported == [i \in DOMAIN paths |-> File(fileIds + i, paths[i])]
     IN files' = IF open THEN AddFiles(files, imported) ELSE files
  /\ fileIds' = fileIds + Len(paths)
  /\ groups' = OpenFile(groups, fileIds + 1)
  /\ UNCHANGED <<open, activeGroup, groupIds>>

DuplicateFile(id, path) ==
  /\ open /\ id \in Ids(files) /\ fileIds < MaxIds
  /\ path \notin PathsOf(files)
  /\ fileIds' = fileIds + 1
  /\ files' = AddFile(files, File(fileIds + 1, path))
  /\ groups' = OpenFile(groups, fileIds + 1)
  /\ UNCHANGED <<open, activeGroup, groupIds>>

SetPath(id, path) == [i \in DOMAIN files |-> IF files[i].id = id THEN File(id, path) ELSE files[i]]

RenameFile(id, path) ==
  /\ open /\ id \in Ids(files)
  /\ path \notin {PathOf(other) : other \in Ids(files) \ {id}}
  /\ files' = SetPath(id, path)
  /\ UNCHANGED <<open, groups, activeGroup, fileIds, groupIds>>

\* The name is kept and the directory replaced; the root is the empty directory.
MoveFile(id, directory) ==
  LET path == Append(directory, Last(PathOf(id)))
  IN id \in Ids(files) /\ RenameFile(id, path)

\* Mutant: the files stay in the tabs.
DeleteFileKeepTabs(id) ==
  /\ open /\ id \in Ids(files)
  /\ files' = Filter(files, {f \in ToSet(files) : f.id # id})
  /\ UNCHANGED <<open, groups, activeGroup, fileIds, groupIds>>

DeleteFile(id) ==
  /\ open /\ id \in Ids(files)
  /\ files' = Filter(files, {f \in ToSet(files) : f.id # id})
  /\ groups' = RemoveFiles(groups, <<id>>)
  /\ UNCHANGED <<open, activeGroup, fileIds, groupIds>>

Under(folder, path) == IsStrictPrefix(folder, path)

\* Mutant: what is at the new paths is replaced, file by file.
RenameFolderReplacing(from, to) ==
  LET affected == {f \in ToSet(files) : IsPrefix(from, f.path)}
      moved(f) == to \o SubSeq(f.path, Len(from) + 1, Len(f.path))
      kept == Filter(files, {f \in ToSet(files) : f \in affected \/ f.path \notin {moved(g) : g \in affected}})
  IN /\ open /\ from # to /\ affected # {}
     /\ \A f \in affected : Len(moved(f)) <= MaxDepth
     /\ files' = [i \in DOMAIN kept |->
                    IF kept[i] \in affected THEN File(kept[i].id, moved(kept[i])) ELSE kept[i]]
     /\ groups' = RemoveFiles(groups, SetToSeq(Ids(files) \ Ids(kept)))
     /\ UNCHANGED <<open, activeGroup, fileIds, groupIds>>

\* A file called like the folder moves with it; a path that is taken, by a file
\* that stays or by one that moves too, stops the whole operation.
RenameFolder(from, to) ==
  LET affected == {f \in ToSet(files) : IsPrefix(from, f.path)}
      moved(f) == to \o SubSeq(f.path, Len(from) + 1, Len(f.path))
      occupied == {f.path : f \in ToSet(files) \ affected}
  IN /\ open /\ from # to /\ affected # {}
     /\ \A f \in affected : Len(moved(f)) <= MaxDepth /\ moved(f) \notin occupied
     /\ \A f, g \in affected : moved(f) = moved(g) => f = g
     /\ files' = [i \in DOMAIN files |->
                    IF files[i] \in affected THEN File(files[i].id, moved(files[i])) ELSE files[i]]
     /\ UNCHANGED <<open, groups, activeGroup, fileIds, groupIds>>

\* Removes what is under the folder, not a file called like it.
DeleteFolder(folder) ==
  LET inside == {f \in ToSet(files) : Under(folder, f.path)}
      removed == Filter(files, inside)
  IN /\ open /\ removed # <<>>
     /\ files' = Filter(files, ToSet(files) \ inside)
     /\ groups' = RemoveFiles(groups, [i \in DOMAIN removed |-> removed[i].id])
     /\ UNCHANGED <<open, activeGroup, fileIds, groupIds>>

-----------------------------------------------------------------------------
(***************************************************************************)
(* A change of project resets the groups; the first file is opened.        *)
(***************************************************************************)
CloseProject ==
  /\ open /\ open' = FALSE
  /\ groups' = ResetGroups /\ activeGroup' = 0
  /\ UNCHANGED <<files, fileIds, groupIds>>

OpenProject ==
  /\ ~open /\ open' = TRUE
  /\ groups' = IF files = <<>> THEN ResetGroups
               ELSE <<OpenTab(ResetGroups[1], files[1].id)>>
  /\ activeGroup' = 0
  /\ UNCHANGED <<files, fileIds, groupIds>>

Init ==
  /\ setup \in Setups
  /\ open = TRUE /\ files = <<>>
  /\ groups = ResetGroups /\ activeGroup = 0
  /\ importing = 0 /\ fileIds = 0 /\ groupIds = 0

\* A file opened from the explorer, or from a problem of the bottom panel.
OpenFromExplorer(id) ==
  /\ open /\ id \in Ids(files)
  /\ groups' = OpenFile(groups, id)
  /\ UNCHANGED <<open, files, activeGroup, fileIds, groupIds>>

Command ==
  \/ \E path \in Paths : CreateFile(path)
  \/ \E id \in Ids(files) :
       \/ OpenFromExplorer(id)
       \/ DeleteFile(id)
       \/ \E path \in Paths : DuplicateFile(id, path) \/ RenameFile(id, path)
       \/ \E path \in Paths : MoveFile(id, Front(path))
  \/ \E from, to \in Paths : RenameFolder(from, to)
  \/ \E folder \in Paths : DeleteFolder(folder)
  \/ \E group \in 1..3 :
       \/ ActivateGroup(group)
       \/ CloseGroup(group)
       \/ \E id \in 1..fileIds : CloseTab(group, id) \/ ActivateFile(group, id)
  \/ SplitRight
  \/ CloseProject
  \/ OpenProject

Import ==
  \/ StartImport
  \/ \E p \in Paths : FinishImport(<<p>>) \/ \E q \in Paths \ {p} : FinishImport(<<p, q>>)

Next ==
  /\ UNCHANGED setup
  /\ \/ Command /\ UNCHANGED importing
     \/ Import

Spec == Init /\ [][Next]_vars

-----------------------------------------------------------------------------
\* The type of the state (model.ts of the project and of the workspace).
TypeOK ==
  /\ open \in BOOLEAN
  /\ \A i \in DOMAIN files : files[i].id \in 1..fileIds /\ files[i].path \in Paths
  /\ \A i \in DOMAIN groups : groups[i].id \in 0..groupIds /\ Tabs(groups[i]) \subseteq 1..fileIds
  /\ importing \in 0..MaxImports /\ fileIds \in 0..MaxIds /\ groupIds \in 0..MaxGroups

\* Two files never share a path or an id.  The controller's renameFile does not
\* check; App's handler, renameFolder and addFiles do, each in its own way, and
\* a collision would make the next addFiles drop one of the two files.
FilesDistinct == \A i, j \in DOMAIN files :
  files[i].path = files[j].path \/ files[i].id = files[j].id => i = j

\* While a project is open, every tab of every group is one of its files: deletions
\* reach every group, and what is opened has been added.  An import that outlives
\* its project leaves a tab for nothing, and the next project starts without it.
\* Importing a path again gives the file another id (addFiles), and the tabs of
\* the old one stay.
TabsNameFiles == ReImports \/ ~open \/ \A i \in DOMAIN groups : Tabs(groups[i]) \subseteq Ids(files)

\* A group shows one of its tabs, and nothing only when it has none; no file has
\* two tabs in a group.
GroupShowsATab == \A i \in DOMAIN groups :
  /\ IF groups[i].tabs = <<>> THEN groups[i].active = None ELSE groups[i].active \in Tabs(groups[i])
  /\ IsInjective(groups[i].tabs)

\* One to three groups (ARCHITECTURE.md), each with an id of its own, and the
\* focus is one of them: App falls back on the first group when it is not, while
\* the reducer would drop what is opened.
FocusExists ==
  /\ Len(groups) \in 1..3
  /\ \A i, j \in DOMAIN groups : groups[i].id = groups[j].id => i = j
  /\ \E i \in DOMAIN groups : groups[i].id = activeGroup

\* A step that takes a file out of the project moves no other file, and one that
\* moves files (a folder with everything in it) loses none.
RenamesLoseNothing ==
  [][Ids(files) \subseteq Ids(files') \/
     \A f \in ToSet(files) : f.id \in Ids(files') => f \in ToSet(files')]_vars
=============================================================================
