--------------------------- MODULE ProjectHistory ---------------------------
(***************************************************************************)
(* The open project and its store (ProjectAutosave) with two history       *)
(* variables, which the code does not have: they single out the two        *)
(* situations the controller does not handle, so that everything it        *)
(* promises outside them can be stated.  Every step of ProjectAutosave is  *)
(* a step here; the histories only follow it.                              *)
(***************************************************************************)
EXTENDS ProjectAutosave

VARIABLES
  overlap,  \* the revision on the screen appeared while a save was under way
  reopened  \* projects read from the store while a save of them was under way

historyVars == <<vars, overlap, reopened>>

SavesOf(id) == {i \in Pending("save") : requests[i].id = id}

\* The store holds the open project as it is on the screen.
Stored == project.id \in DOMAIN store /\ store[project.id] = project.revision

\* The screen shows what the store held before the saves under way.
ReadsBehindASave(id) ==
  /\ edits' = edits /\ project' # project
  /\ project' # None /\ project'.id = id /\ SavesOf(id)' # {}

\* An edit overlaps any save under way, for its completion marks whatever is on the
\* screen then; a project that is opened overlaps the saves of itself.  The overlap
\* ends when the revision is stored and no save of the project remains.
Overlaps ==
  /\ project' # None
  /\ \/ project' = project /\ overlap /\ ~(Stored /\ SavesOf(project.id) = {})'
     \/ project' # project /\ edits' # edits /\ Pending("save") # {}
     \/ \E id \in Projects : ReadsBehindASave(id)

\* A project is opened afresh when nothing shows it and no save of it remains.
Reopens ==
  {id \in Projects :
     /\ id \in reopened \/ ReadsBehindASave(id)
     /\ SavesOf(id)' # {} \/ (project' # None /\ project'.id = id)}

HInit == Init /\ overlap = FALSE /\ reopened = {}

HNext == Next /\ overlap' = Overlaps /\ reopened' = Reopens

HSpec == HInit /\ [][HNext]_historyVars

\* The timer fires and the browser completes its transactions.
FairSpec == HSpec /\ WF_vars(Autosave) /\ WF_vars(Complete)

-----------------------------------------------------------------------------
(***************************************************************************)
(* Properties                                                              *)
(***************************************************************************)
\* The indicator is honest: an open project shown as "saved" is in the store,
\* at the revision on the screen, unless that revision appeared while a save was
\* under way (see EditsAutosave).  Nothing else breaks it: not a save that comes
\* after the overlap, a second open or delete from the chooser, a close, a failure
\* or a reload.
SavedIsStored == (project # None /\ saveState = "saved" /\ ~overlap) => Stored

\* The indicator tells the truth: "saving" only while a save is under way, "saved"
\* only when the store holds the open project as it is.
IndicatorIsTrue ==
  TypeOK /\ overlap \in BOOLEAN /\ reopened \subseteq Projects
         /\ SavingIsPending /\ SavedIsStored

\* The store never goes back to an older revision of a project, though saves are
\* queued by the timer, by SaveNow, by edits between them and by a project since
\* closed and opened again.  Only a project read behind a save of itself, by a second
\* choice in the chooser, shows an older revision than the store will hold, and a
\* save of that takes the store back.
StoreMovesForward ==
  [][\A id \in DOMAIN store \cap DOMAIN store' :
       store'[id] < store[id] => id \in reopened]_historyVars

\* A revision that is not yet stored gets there, or the indicator says why not,
\* unless it overlaps a save, is edited again or left.
DirtyIsResolved ==
  \A id \in Projects, n \in 0 .. MaxEdits :
    (project = [id |-> id, revision |-> n] /\ saveState = "dirty" /\ ~overlap)
      ~> \/ id \in DOMAIN store /\ store[id] >= n
         \/ project # [id |-> id, revision |-> n] \/ saveState = "error"

=============================================================================
