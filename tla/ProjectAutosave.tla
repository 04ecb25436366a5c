--------------------------- MODULE ProjectAutosave ---------------------------
(***************************************************************************)
(* useProjectController and projectStore: the open project, the indicator  *)
(* of the status bar, the debounced autosave, and the IndexedDB store the  *)
(* projects survive in.  Store operations are asynchronous: a call queues  *)
(* its transaction, the interface stays usable, and the continuation runs  *)
(* when the transaction completes.                                         *)
(*                                                                         *)
(* A project is its id and the revision of its files; every edit makes a   *)
(* revision nobody had before.  A state update and the effects it triggers *)
(* are one step.  The debounce effect depends on the project and on the    *)
(* indicator, so every update of either clears the timer and a new one is  *)
(* armed exactly when a project is open and "dirty": the timer is no state *)
(* of its own.                                                             *)
(***************************************************************************)
EXTENDS Naturals, Sequences, FiniteSets, Functions

CONSTANTS
  Projects,     \* project ids
  None,
  MaxEdits,     \* bound on the number of edits
  MaxRequests   \* bound on the transactions under way

ASSUME ProjectAssumption ==
  /\ None \notin Projects /\ None \notin [id : Projects, revision : Nat]
  /\ MaxEdits \in Nat /\ MaxRequests \in Nat

VARIABLES
  project,    \* the open project [id, revision], or None
  saveState,  \* "saved", "dirty", "saving" or "error"
  store,      \* IndexedDB: id -> revision
  requests,   \* transactions in the order the object store serializes them
  edits       \* the last revision made

vars == <<project, saveState, store, requests, edits>>

Request(op, id, revision) == [op |-> op, id |-> id, revision |-> revision]

\* Mutant: a later transaction overtakes the ones under way.
QueueFirst(request) ==
  /\ Len(requests) < MaxRequests
  /\ requests' = <<request>> \o requests

Queue(request) ==
  /\ Len(requests) < MaxRequests
  /\ requests' = Append(requests, request)

Pending(op) == {i \in DOMAIN requests : requests[i].op = op}

-----------------------------------------------------------------------------
(***************************************************************************)
(* The project chooser, shown while no project is open.  Nothing disables  *)
(* it while an earlier choice is under way.                                *)
(***************************************************************************)
CreateProject(id) ==
  /\ project = None
  /\ id \notin DOMAIN store /\ \A i \in DOMAIN requests : requests[i].id # id
  /\ Queue(Request("create", id, 0))
  /\ UNCHANGED <<project, saveState, store, edits>>

OpenProject(id) ==
  /\ project = None
  /\ Queue(Request("open", id, 0))
  /\ UNCHANGED <<project, saveState, store, edits>>

DeleteProject(id) ==
  /\ project = None
  /\ Queue(Request("delete", id, 0))
  /\ UNCHANGED <<project, saveState, store, edits>>

CloseProject ==
  /\ project # None
  /\ project' = None
  /\ saveState' = "saved"
  /\ UNCHANGED <<store, requests, edits>>

-----------------------------------------------------------------------------

\* mutate, under every file operation of the controller, whatever is under way.
\* A build that ends after the project was closed still marks the indicator.
Edit ==
  /\ edits < MaxEdits
  /\ edits' = edits + 1
  /\ project' = IF project = None THEN None ELSE [project EXCEPT !.revision = edits + 1]
  /\ saveState' = "dirty"
  /\ UNCHANGED <<store, requests>>

Save ==
  /\ saveState' = "saving"
  /\ Queue(Request("save", project.id, project.revision))
  /\ UNCHANGED <<project, store, edits>>

\* The 650 ms timer fires.
Autosave == project # None /\ saveState = "dirty" /\ Save

SaveNow == project # None /\ Save

-----------------------------------------------------------------------------
(***************************************************************************)
(* A transaction completes and the continuation that awaited it runs.      *)
(***************************************************************************)
Put(id, revision) == [p \in DOMAIN store \cup {id} |-> IF p = id THEN revision ELSE store[p]]

\* The transaction aborts, for lack of quota for example.
SaveFailed(r) ==
  /\ r.op = "save"
  /\ saveState' = "error"
  /\ UNCHANGED <<project, store>>

\* Mutant: the indicator is told before the transaction is.
SaveDoneUnwritten(r) ==
  /\ r.op = "save"
  /\ saveState' = "saved"
  /\ UNCHANGED <<project, store>>

\* The indicator becomes "saved" whatever happened since the snapshot.
SaveDone(r) ==
  /\ r.op = "save"
  /\ store' = Put(r.id, r.revision)
  /\ saveState' = "saved"
  /\ UNCHANGED project

CreateDone(r) ==
  /\ r.op = "create"
  /\ store' = Put(r.id, r.revision)
  /\ project' = [id |-> r.id, revision |-> r.revision]
  /\ saveState' = "saved"

OpenDone(r) ==
  /\ r.op = "open"
  /\ IF r.id \in DOMAIN store
     THEN project' = [id |-> r.id, revision |-> store[r.id]] /\ saveState' = "saved"
     ELSE UNCHANGED <<project, saveState>>
  /\ UNCHANGED store

\* Mutant: the deleted project stays open.
DeleteDoneKeptOpen(r) ==
  /\ r.op = "delete"
  /\ store' = Restrict(store, DOMAIN store \ {r.id})
  /\ UNCHANGED <<project, saveState>>

DeleteDone(r) ==
  /\ r.op = "delete"
  /\ store' = Restrict(store, DOMAIN store \ {r.id})
  /\ project' = IF project # None /\ project.id = r.id THEN None ELSE project
  /\ UNCHANGED saveState

\* createProject, openProject and deleteProject do not handle a failed transaction.
OtherFailed(r) == r.op # "save" /\ UNCHANGED <<project, saveState, store>>

Complete ==
  /\ requests # <<>>
  /\ LET r == Head(requests)
     IN SaveDone(r) \/ SaveFailed(r) \/ CreateDone(r) \/ OpenDone(r) \/ DeleteDone(r) \/ OtherFailed(r)
  /\ requests' = Tail(requests)
  /\ UNCHANGED edits

\* The page is reloaded or the tab killed: only the store survives.
Reload ==
  /\ project' = None /\ saveState' = "saved" /\ requests' = <<>>
  /\ UNCHANGED <<store, edits>>

-----------------------------------------------------------------------------
Init ==
  /\ project = None /\ saveState = "saved"
  /\ \E stored \in SUBSET Projects : store = [p \in stored |-> 0]
  /\ requests = <<>>
  /\ edits = 0

\* With the timer alone, and with the button too.
NextByTimer ==
  \/ \E id \in Projects : CreateProject(id) \/ OpenProject(id) \/ DeleteProject(id)
  \/ CloseProject \/ Edit \/ Autosave \/ Complete \/ Reload

Next == NextByTimer \/ SaveNow

-----------------------------------------------------------------------------
(***************************************************************************)
(* Properties                                                              *)
(***************************************************************************)
\* The shape of the controller's state; a stored or queued revision is one made.
RequestType == [op : {"create", "open", "delete", "save"}, id : Projects, revision : 0 .. edits]

TypeOK ==
  /\ project \in [id : Projects, revision : 0 .. edits] \cup {None}
  /\ saveState \in {"saved", "dirty", "saving", "error"}
  /\ DOMAIN store \subseteq Projects /\ store \in [DOMAIN store -> 0 .. edits]
  /\ requests \in Seq(RequestType)
  /\ edits \in 0 .. MaxEdits

\* The indicator never says "saving" with nothing under way to end it, whichever
\* of several saves, opens and deletes completes or fails first.
SavingIsPending == saveState = "saving" => Pending("save") # {}

\* As the documentation has it: "Text edits autosave after a short debounce."  Once
\* nothing is under way, a project shown as "saved" is stored as it is on the screen.
EditsAutosave ==
  (project # None /\ saveState = "saved" /\ requests = <<>>)
    => project.id \in DOMAIN store /\ store[project.id] = project.revision

=============================================================================
