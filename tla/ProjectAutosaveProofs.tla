------------------------ MODULE ProjectAutosaveProofs ------------------------
(***************************************************************************)
(* Proofs about the open project and its store, for every set of projects, *)
(* any number of edits and of transactions under way, and files that       *)
(* change at any time: the indicator tells the truth about every revision  *)
(* that did not appear while a save was under way, and the store goes back *)
(* only for a project that was read behind a save of itself.               *)
(***************************************************************************)
EXTENDS ProjectHistory, TLAPS

-----------------------------------------------------------------------------
(***************************************************************************)
(* The inductive invariant: what the transactions under way may still do   *)
(* to the store and to the project on the screen.                          *)
(***************************************************************************)
\* Saves of the project on the screen bring what it shows, and while the store does
\* not hold that, the indicator is not "saved" and no other project is being saved.
Known ==
  project # None =>
    /\ \A i \in SavesOf(project.id) : requests[i].revision = project.revision
    /\ ~Stored => saveState # "saved" /\ \A i \in Pending("save") : requests[i].id = project.id

ScreenIsKnown == ~overlap => Known

\* The saves of a project bring ever newer revisions, none older than the store
\* holds and none newer than the screen shows.
Ordered(id) ==
  /\ \A i, j \in SavesOf(id) : i <= j => requests[i].revision <= requests[j].revision
  /\ \A i \in SavesOf(id) : id \in DOMAIN store => store[id] <= requests[i].revision
  /\ project # None /\ project.id = id =>
       /\ \A i \in SavesOf(id) : requests[i].revision <= project.revision
       /\ id \in DOMAIN store => store[id] <= project.revision

InOrder == \A id \in Projects : id \notin reopened => Ordered(id)

\* Nobody knows the id of a project that is still to be created.
CreationsAreNew ==
  \A i \in Pending("create") :
    /\ requests[i].id \notin DOMAIN store
    /\ project # None => project.id # requests[i].id
    /\ \A j \in Pending("create") \cup Pending("save") :
         requests[j].id = requests[i].id => j = i

IInv ==
  /\ TypeOK /\ overlap \in BOOLEAN /\ reopened \subseteq Projects
  /\ SavingIsPending
  /\ ScreenIsKnown
  /\ InOrder
  /\ CreationsAreNew

-----------------------------------------------------------------------------
(***************************************************************************)
(* The histories                                                           *)
(***************************************************************************)
History == overlap' = Overlaps /\ reopened' = Reopens

\* The histories keep their types.
LEMMA HistoryTypes ==
  ASSUME History
  PROVE  overlap' \in BOOLEAN /\ reopened' \subseteq Projects
<1>1. Overlaps \in BOOLEAN
  BY DEF Overlaps
<1>2. Reopens \subseteq Projects
  BY DEF Reopens
<1> QED BY <1>1, <1>2 DEF History

\* What must hold after a step for the screen to be known.
LEMMA ScreenStaysKnown ==
  ASSUME IInv, History,
         project' = project /\ ~overlap => Known',
         project' # None /\ project' # project =>
           \/ edits' # edits /\ (Pending("save") = {} => Known')
           \/ edits' = edits /\ project'.id \in Projects /\ (SavesOf(project.id)' = {} => Known')
  PROVE  ScreenIsKnown'
<1>1. SUFFICES ASSUME ~overlap' PROVE Known'
  BY DEF ScreenIsKnown
<1>2. ~Overlaps
  BY <1>1 DEF History
<1>3. CASE project' = None
  BY <1>3 DEF Known
<1>4. CASE project' # None /\ project' = project
  <2>1. CASE overlap
    <3>1. Stored' /\ SavesOf(project.id)' = {}
      BY <1>2, <1>4, <2>1 DEF Overlaps
    <3> QED BY <1>4, <3>1 DEF Known
  <2>2. CASE ~overlap
    BY <1>4, <2>2
  <2> QED BY <2>1, <2>2
<1>5. CASE project' # None /\ project' # project
  <2>1. CASE edits' # edits
    BY <1>2, <1>5, <2>1 DEF Overlaps
  <2>2. CASE edits' = edits
    <3>1. project'.id \in Projects /\ (SavesOf(project.id)' = {} => Known')
      BY <1>5, <2>2
    <3>2. \A id \in Projects : ~ReadsBehindASave(id)
      BY <1>2, <1>5 DEF Overlaps
    <3>3. \A id \in Projects : id = project'.id => SavesOf(id)' = {}
      BY <1>5, <2>2, <3>2 DEF ReadsBehindASave
    <3>4. SavesOf(project.id)' = {}
      BY <3>1, <3>3 DEF SavesOf
    <3> QED BY <3>1, <3>4
  <2> QED BY <2>1, <2>2
<1> QED BY <1>3, <1>4, <1>5

\* What must hold after a step for the saves to stay in order.
LEMMA SavesStayOrdered ==
  ASSUME IInv, History,
         \A id \in Projects : Ordered(id) /\ ~ReadsBehindASave(id) => Ordered(id)'
  PROVE  InOrder'
<1> SUFFICES ASSUME NEW id \in Projects, id \notin reopened'
             PROVE  Ordered(id)'
  BY DEF InOrder
<1>1. id \notin Reopens
  BY DEF History
<1>2. CASE id \notin reopened /\ ~ReadsBehindASave(id)
  BY <1>2 DEF IInv, InOrder
<1>3. CASE SavesOf(id)' = {} /\ ~(project' # None /\ project'.id = id)
  BY <1>3 DEF Ordered
<1> QED BY <1>1, <1>2, <1>3 DEF Reopens

-----------------------------------------------------------------------------
(***************************************************************************)
(* The queue of transactions                                               *)
(***************************************************************************)
Grows(r) ==
  /\ requests' \in Seq(RequestType)
  /\ DOMAIN requests' = DOMAIN requests \cup {Len(requests) + 1}
  /\ requests'[Len(requests) + 1] = r
  /\ \A i \in DOMAIN requests : requests'[i] = requests[i] /\ i \in Nat /\ i < Len(requests) + 1

\* A transaction that is queued comes last, and the others stay where they are.
LEMMA QueueGrows ==
  ASSUME TypeOK, NEW r \in RequestType, Queue(r)
  PROVE  Grows(r)
<1>1. requests \in Seq(RequestType)
  BY DEF TypeOK
<1>2. requests' = Append(requests, r)
  BY DEF Queue
<1> QED BY <1>1, <1>2 DEF Grows

Shrinks ==
  /\ requests' \in Seq(RequestType)
  /\ requests[1] \in RequestType /\ Head(requests) = requests[1] /\ 1 \in DOMAIN requests
  /\ \A i \in DOMAIN requests' :
       i \in Nat /\ i >= 1 /\ i + 1 \in DOMAIN requests /\ requests'[i] = requests[i + 1]
  /\ \A i \in DOMAIN requests : i # 1 => i - 1 \in DOMAIN requests' /\ requests'[i - 1] = requests[i]

\* When the first transaction completes, the others move up by one.
LEMMA QueueShrinks ==
  ASSUME TypeOK, requests # <<>>, requests' = Tail(requests)
  PROVE  Shrinks
<1>1. requests \in Seq(RequestType)
  BY DEF TypeOK
<1>2. Len(requests) \in Nat /\ Len(requests) >= 1 /\ DOMAIN requests = 1 .. Len(requests)
  BY <1>1
<1>3. requests' \in Seq(RequestType) /\ Len(requests') = Len(requests) - 1
  BY <1>1, <1>2
<1>4. \A i \in 1 .. Len(requests) - 1 : requests'[i] = requests[i + 1]
  BY <1>1, <1>2
<1>5. Head(requests) = requests[1] /\ requests[1] \in RequestType
  BY <1>1, <1>2
<1>6. DOMAIN requests' = 1 .. Len(requests) - 1
  BY <1>2, <1>3
<1> QED BY <1>2, <1>3, <1>4, <1>5, <1>6 DEF Shrinks

-----------------------------------------------------------------------------
(***************************************************************************)
(* The initial state and the steps that leave the store alone              *)
(***************************************************************************)
\* Nothing is open and nothing is under way.
LEMMA InitEstablishes ==
  ASSUME HInit PROVE IInv
<1>1. TypeOK
  BY ProjectAssumption DEF HInit, Init, TypeOK, RequestType
<1>2. overlap \in BOOLEAN /\ reopened \subseteq Projects
  BY DEF HInit
<1> QED BY <1>1, <1>2 DEF HInit, Init, IInv, SavingIsPending, ScreenIsKnown, Known, InOrder, Ordered,
                    CreationsAreNew, SavesOf, Pending

\* The chooser queues requests while nothing is open.
LEMMA ChooserPreserves ==
  ASSUME IInv, History, NEW id \in Projects, CreateProject(id) \/ OpenProject(id) \/ DeleteProject(id)
  PROVE  IInv'
<1>1. PICK op \in {"create", "open", "delete"} :
        /\ Queue(Request(op, id, 0)) /\ project = None
        /\ UNCHANGED <<project, saveState, store, edits>>
        /\ op = "create" => id \notin DOMAIN store /\ \A i \in DOMAIN requests : requests[i].id # id
  BY DEF CreateProject, OpenProject, DeleteProject
<1> DEFINE r == Request(op, id, 0)
<1>2. r \in RequestType /\ r.op = op /\ r.id = id /\ r.op # "save"
  BY <1>1 DEF IInv, TypeOK, RequestType, Request
<1> HIDE DEF r
<1>3. Grows(r)
  BY <1>1, <1>2, QueueGrows DEF IInv, r
<1>4. TypeOK'
  BY <1>1, <1>3 DEF IInv, TypeOK, Grows, RequestType
<1>5. Pending("save")' = Pending("save")
  BY <1>2, <1>3 DEF Grows, Pending
<1>6. \A i \in DOMAIN requests : requests'[i] = requests[i]
  BY <1>3 DEF Grows
<1>7. SavingIsPending'
  BY <1>1, <1>5 DEF IInv, SavingIsPending
<1>8. ScreenIsKnown'
  BY <1>1 DEF ScreenIsKnown, Known
<1>9. InOrder'
  <2>1. \A p : SavesOf(p)' = SavesOf(p) /\ \A i \in SavesOf(p) : requests'[i] = requests[i]
    BY <1>5, <1>6 DEF SavesOf, Pending
  <2>2. \A p \in Projects : Ordered(p) => Ordered(p)'
    BY <1>1, <2>1 DEF Ordered
  <2> QED BY <2>2, SavesStayOrdered
<1>10. CreationsAreNew'
  BY <1>1, <1>2, <1>3, <1>5, <1>6 DEF IInv, CreationsAreNew, Pending, Grows
<1> QED BY <1>4, <1>7, <1>8, <1>9, <1>10, HistoryTypes DEF IInv

\* A close, or a reload of the page, leaves nothing open.
LEMMA LeavingPreserves ==
  ASSUME IInv, History, CloseProject \/ Reload
  PROVE  IInv'
<1>1. project' = None /\ saveState' = "saved" /\ UNCHANGED <<store, edits>>
      /\ (requests' = requests \/ requests' = <<>>)
  BY DEF CloseProject, Reload
<1>2. TypeOK'
  <2>1. CASE requests' = requests
    BY <1>1, <2>1 DEF IInv, TypeOK, RequestType
  <2>2. CASE requests' = <<>>
    <3>1. requests' \in Seq(RequestType)
      BY <2>2
    <3> QED BY <1>1, <3>1 DEF IInv, TypeOK, RequestType
  <2> QED BY <1>1, <2>1, <2>2
<1>3. SavingIsPending' /\ ScreenIsKnown'
  BY <1>1 DEF SavingIsPending, ScreenIsKnown, Known
<1>4. \A id \in Projects : Ordered(id) => Ordered(id)'
  <2>1. CASE requests' = requests
    BY <1>1, <2>1 DEF Ordered, SavesOf, Pending
  <2>2. CASE requests' = <<>>
    BY <1>1, <2>2 DEF Ordered, SavesOf, Pending
  <2> QED BY <1>1, <2>1, <2>2
<1>5. CreationsAreNew'
  <2>1. CASE requests' = requests
    BY <1>1, <2>1 DEF IInv, CreationsAreNew, Pending
  <2>2. CASE requests' = <<>>
    BY <2>2 DEF CreationsAreNew, Pending
  <2> QED BY <1>1, <2>1, <2>2
<1> QED BY <1>2, <1>3, <1>4, <1>5, SavesStayOrdered, HistoryTypes DEF IInv

\* An edit makes a revision newer than any other. It overlaps what is under way.
LEMMA EditPreserves ==
  ASSUME IInv, History, Edit
  PROVE  IInv'
<1>1. requests' = requests /\ saveState' = "dirty" /\ store' = store
      /\ edits \in Nat /\ edits' = edits + 1 /\ edits' <= MaxEdits /\ edits < MaxEdits
      /\ project' = IF project = None THEN None ELSE [project EXCEPT !.revision = edits + 1]
  BY ProjectAssumption DEF Edit, IInv, TypeOK
<1>2. project # None => /\ project \in [id : Projects, revision : 0 .. edits]
                        /\ project' = [id |-> project.id, revision |-> edits + 1]
  BY <1>1 DEF IInv, TypeOK
<1>3. store \in [DOMAIN store -> 0 .. edits] /\ DOMAIN store \subseteq Projects
  BY DEF IInv, TypeOK
<1>4. requests \in Seq(RequestType)
  BY DEF IInv, TypeOK
<1>5. \A i \in DOMAIN requests : requests[i] \in RequestType
  BY <1>4
<1>6. TypeOK'
  <2>1. project' \in [id : Projects, revision : 0 .. edits + 1] \cup {None}
    BY <1>1, <1>2
  <2>2. store' \in [DOMAIN store -> 0 .. edits + 1]
    BY <1>1, <1>3
  <2>3. requests' \in Seq(RequestType')
    <3>1. RequestType \subseteq RequestType'
      BY <1>1 DEF RequestType
    <3>2. Len(requests) \in Nat /\ DOMAIN requests = 1 .. Len(requests)
          /\ \A i \in 1 .. Len(requests) : requests[i] \in RequestType
      BY <1>4
    <3>3. \A i \in 1 .. Len(requests) : requests[i] \in RequestType'
      BY <3>1, <3>2
    <3> QED BY <1>1, <1>4, <3>2, <3>3
  <2> QED BY <1>1, <1>3, <2>1, <2>2, <2>3, ProjectAssumption DEF TypeOK
<1>7. SavingIsPending'
  BY <1>1 DEF SavingIsPending
<1>8. ScreenIsKnown'
  <2>1. Pending("save") = {} => Known'
    BY <1>1 DEF Known, SavesOf, Pending
  <2>2. project' = project => project' = None
    BY <1>1, <1>2
  <2>3. project' = None => Known'
    BY DEF Known
  <2> QED BY <1>1, <2>1, <2>2, <2>3, ScreenStaysKnown
<1>9. InOrder'
  <2> SUFFICES ASSUME NEW id \in Projects, Ordered(id) PROVE Ordered(id)'
    BY SavesStayOrdered
  <2>1. SavesOf(id)' = SavesOf(id) /\ SavesOf(id) \subseteq DOMAIN requests
    BY <1>1 DEF SavesOf, Pending
  <2>2. \A i \in DOMAIN requests : requests[i].revision <= edits + 1
    BY <1>1, <1>5 DEF RequestType
  <2>3. project' # None => project # None /\ project'.id = project.id /\ project'.revision = edits + 1
    BY <1>1, <1>2
  <2>4. id \in DOMAIN store => store[id] <= edits + 1
    BY <1>1, <1>3
  <2> QED BY <1>1, <2>1, <2>2, <2>3, <2>4 DEF Ordered
<1>10. CreationsAreNew'
  BY <1>1, <1>2 DEF IInv, CreationsAreNew, Pending
<1> QED BY <1>6, <1>7, <1>8, <1>9, <1>10, HistoryTypes DEF IInv

\* A save queues the screen, behind all older revisions.
LEMMA SavePreserves ==
  ASSUME IInv, History, project # None, Save
  PROVE  IInv'
<1> DEFINE r == Request("save", project.id, project.revision)
<1>1. /\ project \in [id : Projects, revision : 0 .. edits] /\ requests \in Seq(RequestType)
      /\ store \in [DOMAIN store -> 0 .. edits] /\ edits \in Nat
  BY ProjectAssumption DEF IInv, TypeOK
<1>2. r \in RequestType /\ r.op = "save" /\ r.id = project.id /\ r.revision = project.revision
  BY <1>1 DEF RequestType, Request
<1>3. Queue(r) /\ saveState' = "saving" /\ UNCHANGED <<project, store, edits>>
  BY DEF Save
<1> HIDE DEF r
<1>4. Grows(r)
  BY <1>2, <1>3, QueueGrows DEF IInv
<1> DEFINE last == Len(requests) + 1
<1>5. /\ \A i \in DOMAIN requests : requests'[i] = requests[i] /\ i \in Nat /\ i < last
      /\ requests'[last] = r /\ last \notin DOMAIN requests /\ last \in Nat
      /\ Pending("save")' = Pending("save") \cup {last}
      /\ Pending("create")' = Pending("create")
      /\ DOMAIN requests' = DOMAIN requests \cup {last}
  BY <1>1, <1>2, <1>4 DEF Grows, Pending
<1> HIDE DEF last
<1>6. TypeOK'
  BY <1>3, <1>4 DEF IInv, TypeOK, Grows, RequestType
<1>7. SavingIsPending'
  BY <1>5 DEF SavingIsPending
<1>8. ScreenIsKnown'
  <2>1. Known => Known'
    BY <1>2, <1>3, <1>5 DEF Known, Stored, SavesOf, Pending
  <2> QED BY <1>3, <2>1, ScreenStaysKnown DEF IInv, ScreenIsKnown
<1>9. InOrder'
  <2> SUFFICES ASSUME NEW id \in Projects, Ordered(id) PROVE Ordered(id)'
    BY SavesStayOrdered
  <2>1. \A i \in SavesOf(id)' :
          \/ i = last /\ id = project.id /\ requests'[i].revision = project.revision
          \/ i \in SavesOf(id) /\ requests'[i] = requests[i] /\ i \in Nat /\ i < last
    BY <1>2, <1>5 DEF SavesOf, Pending
  <2>2. project.revision \in Nat
    BY <1>1
  <2> QED BY <1>3, <1>5, <2>1, <2>2 DEF Ordered
<1>10. CreationsAreNew'
  BY <1>2, <1>3, <1>5 DEF IInv, CreationsAreNew, Pending
<1> QED BY <1>6, <1>7, <1>8, <1>9, <1>10, HistoryTypes DEF IInv

-----------------------------------------------------------------------------
(***************************************************************************)
(* A transaction completes                                                 *)
(***************************************************************************)
Completes == requests # <<>> /\ requests' = Tail(requests) /\ edits' = edits

\* Where a request is now it was one place later before.
LEMMA PendingBefore ==
  ASSUME IInv, Completes
  PROVE  /\ Shrinks
         /\ \A op : \A i \in Pending(op)' :
              i \in Nat /\ i >= 1 /\ i + 1 \in Pending(op) /\ requests'[i] = requests[i + 1]
         /\ \A id : \A i \in SavesOf(id)' :
              i \in Nat /\ i >= 1 /\ i + 1 \in SavesOf(id) /\ requests'[i] = requests[i + 1]
<1>1. Shrinks
  BY QueueShrinks DEF IInv, Completes
<1> QED BY <1>1 DEF Shrinks, Pending, SavesOf

\* Creations stay new while no project appears but the first one created.
LEMMA CreationsStayNew ==
  ASSUME IInv, Completes,
         \A i \in Pending("create") : i # 1 =>
           /\ requests[i].id \notin DOMAIN store'
           /\ project' # None => project'.id # requests[i].id
  PROVE  CreationsAreNew'
<1> SUFFICES ASSUME NEW i \in Pending("create")'
             PROVE  /\ requests'[i].id \notin DOMAIN store'
                    /\ project' # None => project'.id # requests'[i].id
                    /\ \A j \in Pending("create")' \cup Pending("save")' :
                         requests'[j].id = requests'[i].id => j = i
  BY DEF CreationsAreNew
<1>1. i \in Nat /\ i >= 1 /\ i + 1 \in Pending("create") /\ requests'[i] = requests[i + 1]
  BY PendingBefore
<1>2. \A j \in Pending("create")' \cup Pending("save")' :
        /\ j \in Nat /\ requests'[j] = requests[j + 1]
        /\ j + 1 \in Pending("create") \cup Pending("save")
  BY PendingBefore
<1>3. i + 1 # 1
  BY <1>1
<1> QED BY <1>1, <1>2, <1>3 DEF IInv, CreationsAreNew

\* A save that is not the first is still under way.
LEMMA StillSaving ==
  ASSUME IInv, Completes, saveState = "saving", requests[1].op # "save"
  PROVE  Pending("save")' # {}
<1>1. PICK i \in Pending("save") : TRUE
  BY DEF IInv, SavingIsPending
<1>2. i # 1 /\ i \in DOMAIN requests
  BY <1>1 DEF Pending
<1>3. i - 1 \in DOMAIN requests' /\ requests'[i - 1].op = "save"
  BY <1>1, <1>2, PendingBefore DEF Shrinks, Pending
<1> QED BY <1>3 DEF Pending

\* When the first transaction only leaves the queue, and it was not a save that
\* somebody waits for.
LEMMA DropPreserves ==
  ASSUME IInv, History, Completes, UNCHANGED <<project, store>>,
         saveState' \in {"saved", "dirty", "saving", "error"},
         saveState' = "saving" => saveState = "saving" /\ requests[1].op # "save",
         saveState' = "saved" => saveState = "saved"
  PROVE  IInv'
<1>1. Shrinks
  BY PendingBefore
<1>2. TypeOK'
  BY <1>1 DEF IInv, TypeOK, Completes, Shrinks, RequestType
<1>3. SavingIsPending'
  BY StillSaving DEF SavingIsPending
<1>4. ScreenIsKnown'
  <2>1. Known => Known'
    BY PendingBefore DEF Known, Stored
  <2> QED BY <2>1, ScreenStaysKnown DEF IInv, ScreenIsKnown
<1>5. InOrder'
  <2>1. \A id \in Projects : Ordered(id) => Ordered(id)'
    BY PendingBefore DEF Ordered
  <2> QED BY <2>1, SavesStayOrdered
<1>6. CreationsAreNew'
  BY CreationsStayNew DEF IInv, CreationsAreNew
<1> QED BY <1>2, <1>3, <1>4, <1>5, <1>6, HistoryTypes DEF IInv

\* A save of the screen stores it, and the saves behind it are no older.
LEMMA SaveDonePreserves ==
  ASSUME IInv, History, Completes, SaveDone(requests[1])
  PROVE  IInv'
<1> DEFINE r == requests[1]
<1>1. Shrinks /\ 1 \in Pending("save") /\ 1 \in SavesOf(r.id)
  BY PendingBefore DEF Shrinks, Pending, SavesOf, SaveDone
<1>2. /\ r.id \in Projects /\ r.revision \in 0 .. edits
      /\ DOMAIN store' = DOMAIN store \cup {r.id} /\ store'[r.id] = r.revision
      /\ \A p \in DOMAIN store : p # r.id => store'[p] = store[p]
      /\ saveState' = "saved" /\ project' = project /\ edits' = edits
  BY <1>1 DEF SaveDone, Put, Shrinks, RequestType, Completes
<1>3. TypeOK'
  <2>1. store' \in [DOMAIN store' -> 0 .. edits] /\ DOMAIN store' \subseteq Projects
    BY <1>2 DEF IInv, TypeOK, SaveDone, Put
  <2> QED BY <1>1, <1>2, <2>1 DEF IInv, TypeOK, Shrinks, RequestType
<1>4. SavingIsPending'
  BY <1>2 DEF SavingIsPending
<1>5. ScreenIsKnown'
  <2>1. ASSUME Known, project # None PROVE Stored'
    <3>1. CASE project.id = r.id
      BY <1>1, <1>2, <2>1, <3>1 DEF Known, Stored
    <3>2. CASE project.id # r.id
      BY <1>1, <1>2, <2>1, <3>2 DEF Known, Stored
    <3> QED BY <3>1, <3>2
  <2>2. Known => Known'
    BY <1>2, <2>1, PendingBefore DEF Known
  <2> QED BY <1>2, <2>2, ScreenStaysKnown DEF IInv, ScreenIsKnown
<1>6. InOrder'
  <2> SUFFICES ASSUME NEW id \in Projects, Ordered(id) PROVE Ordered(id)'
    BY SavesStayOrdered
  <2>1. \A i \in SavesOf(id)' :
          i \in Nat /\ i >= 1 /\ i + 1 \in SavesOf(id) /\ requests'[i] = requests[i + 1]
    BY PendingBefore
  <2>2. CASE id # r.id
    BY <1>2, <2>1, <2>2 DEF Ordered
  <2>3. CASE id = r.id
    <3>1. \A i \in SavesOf(id)' : 1 <= i + 1 /\ i + 1 \in SavesOf(id) /\ requests'[i] = requests[i + 1]
      BY <2>1
    <3>2. \A i \in SavesOf(id)' : r.revision <= requests'[i].revision
      BY <1>1, <2>3, <3>1 DEF Ordered
    <3> QED BY <1>1, <1>2, <2>1, <2>3, <3>2 DEF Ordered
  <2> QED BY <2>2, <2>3
<1>7. CreationsAreNew'
  <2>1. \A i \in Pending("create") : i # 1 => requests[i].id # r.id
    BY <1>1 DEF IInv, CreationsAreNew
  <2> QED BY <1>2, <2>1, CreationsStayNew DEF IInv, CreationsAreNew
<1> QED BY <1>3, <1>4, <1>5, <1>6, <1>7, HistoryTypes DEF IInv

\* A project that is created was unknown to everybody.
LEMMA CreateDonePreserves ==
  ASSUME IInv, History, Completes, CreateDone(requests[1])
  PROVE  IInv'
<1> DEFINE r == requests[1]
<1>1. Shrinks /\ 1 \in Pending("create")
  BY PendingBefore DEF Shrinks, Pending, CreateDone
<1>2. /\ r.id \in Projects /\ r.revision \in 0 .. edits /\ edits \in Nat
      /\ DOMAIN store' = DOMAIN store \cup {r.id} /\ store'[r.id] = r.revision
      /\ \A p \in DOMAIN store : p # r.id => store'[p] = store[p]
      /\ saveState' = "saved" /\ project' = [id |-> r.id, revision |-> r.revision] /\ edits' = edits
  BY <1>1, ProjectAssumption DEF CreateDone, Put, Shrinks, RequestType, Completes, IInv, TypeOK
<1>3. TypeOK'
  <2>1. store' \in [DOMAIN store' -> 0 .. edits] /\ DOMAIN store' \subseteq Projects
    BY <1>2 DEF IInv, TypeOK, CreateDone, Put
  <2> QED BY <1>1, <1>2, <2>1 DEF IInv, TypeOK, Shrinks, RequestType
<1>4. \A id : id = r.id => SavesOf(id) = {} /\ SavesOf(id)' = {}
  <2>1. r.op = "create"
    BY <1>1 DEF Pending
  <2>2. \A i \in Pending("save") : requests[i].id # r.id
    BY <1>1, <2>1 DEF IInv, CreationsAreNew, Pending
  <2>3. \A id : id = r.id => SavesOf(id) = {}
    BY <2>2 DEF SavesOf
  <2> QED BY <2>3, PendingBefore
<1>5. SavingIsPending' /\ ScreenIsKnown'
  <2>1. SavesOf(project.id)' = {}
    BY <1>2, <1>4 DEF SavesOf
  <2>2. Stored'
    BY <1>2 DEF Stored
  <2> QED BY <1>2, <2>1, <2>2 DEF Known, SavingIsPending, ScreenIsKnown
<1>6. InOrder'
  <2> SUFFICES ASSUME NEW id \in Projects, Ordered(id) PROVE Ordered(id)'
    BY SavesStayOrdered
  <2>1. CASE id # r.id
    BY <1>2, <2>1, PendingBefore DEF Ordered
  <2>2. CASE id = r.id
    BY <1>2, <1>4, <2>2 DEF Ordered
  <2> QED BY <2>1, <2>2
<1>7. CreationsAreNew'
  <2>1. \A i \in Pending("create") : i # 1 => requests[i].id # r.id
    BY <1>1 DEF IInv, CreationsAreNew
  <2> QED BY <1>2, <2>1, CreationsStayNew DEF IInv, CreationsAreNew
<1> QED BY <1>3, <1>5, <1>6, <1>7, HistoryTypes DEF IInv

\* A project that is opened is shown as it is stored; a save of it under way is an overlap.
LEMMA OpenDonePreserves ==
  ASSUME IInv, History, Completes, OpenDone(requests[1])
  PROVE  IInv'
<1> DEFINE r == requests[1]
<1>1. r.op = "open" /\ store' = store /\ edits' = edits /\ Shrinks
  BY PendingBefore DEF OpenDone, Completes
<1>2. CASE r.id \notin DOMAIN store
  <2>1. UNCHANGED <<project, saveState, store>>
    BY <1>2 DEF OpenDone
  <2>2. saveState \in {"saved", "dirty", "saving", "error"}
    BY DEF IInv, TypeOK
  <2> QED BY <1>1, <2>1, <2>2, DropPreserves
<1>3. CASE r.id \in DOMAIN store
  <2>1. project' = [id |-> r.id, revision |-> store[r.id]] /\ saveState' = "saved"
    BY <1>3 DEF OpenDone
  <2>2. r.id \in Projects /\ store[r.id] \in 0 .. edits /\ edits \in Nat
    BY <1>3, ProjectAssumption DEF IInv, TypeOK
  <2>3. project' # None
    <3>1. project' \in [id : Projects, revision : Nat]
      BY <2>1, <2>2
    <3> QED BY <3>1, ProjectAssumption
  <2>4. TypeOK'
    <3>1. project' \in [id : Projects, revision : 0 .. edits]
      BY <2>1, <2>2
    <3> QED BY <1>1, <2>1, <3>1 DEF IInv, TypeOK, Shrinks, RequestType
  <2>5. Stored'
    BY <1>1, <1>3, <2>1 DEF Stored
  <2>6. SavingIsPending'
    BY <2>1 DEF SavingIsPending
  <2>7. ScreenIsKnown'
    <3>1. SavesOf(project.id)' = {} => Known'
      BY <2>5 DEF Known
    <3>2. project' = project /\ ~overlap => Known'
      BY <2>5, PendingBefore DEF IInv, ScreenIsKnown, Known
    <3> QED BY <1>1, <2>1, <2>2, <3>1, <3>2, ScreenStaysKnown
  <2>8. InOrder'
    <3> SUFFICES ASSUME NEW id \in Projects, Ordered(id), ~ReadsBehindASave(id)
                 PROVE  Ordered(id)'
      BY SavesStayOrdered
    <3>1. CASE id # r.id
      BY <1>1, <2>1, <3>1, PendingBefore DEF Ordered
    <3>2. CASE id = r.id /\ project' = project
      BY <1>1, <3>2, PendingBefore DEF Ordered
    <3>3. CASE id = r.id /\ project' # project
      <4>1. SavesOf(id)' = {}
        BY <1>1, <2>1, <2>3, <3>3 DEF ReadsBehindASave
      <4> QED BY <1>1, <2>1, <2>2, <3>3, <4>1 DEF Ordered
    <3> QED BY <3>1, <3>2, <3>3
  <2>9. CreationsAreNew'
    <3>1. \A i \in Pending("create") : requests[i].id # r.id
      BY <1>3 DEF IInv, CreationsAreNew
    <3> QED BY <1>1, <2>1, <3>1, CreationsStayNew DEF IInv, CreationsAreNew
  <2> QED BY <2>4, <2>6, <2>7, <2>8, <2>9, HistoryTypes DEF IInv
<1> QED BY <1>2, <1>3

\* A project that is deleted is not left open.
LEMMA DeleteDonePreserves ==
  ASSUME IInv, History, Completes, DeleteDone(requests[1])
  PROVE  IInv'
<1> DEFINE r == requests[1]
<1>1. /\ Shrinks /\ r.op = "delete" /\ edits' = edits /\ saveState' = saveState
      /\ DOMAIN store' = DOMAIN store \ {r.id} /\ \A p \in DOMAIN store' : store'[p] = store[p]
      /\ project' # None => project' = project /\ project # None /\ project.id # r.id
  BY PendingBefore DEF DeleteDone, Restrict, Completes
<1>2. TypeOK'
  <2>1. store' \in [DOMAIN store' -> 0 .. edits] /\ DOMAIN store' \subseteq Projects
    BY <1>1 DEF IInv, TypeOK, DeleteDone, Restrict
  <2>2. project' \in [id : Projects, revision : 0 .. edits] \cup {None}
    BY <1>1 DEF IInv, TypeOK
  <2> QED BY <1>1, <2>1, <2>2 DEF IInv, TypeOK, Shrinks, RequestType
<1>3. SavingIsPending'
  BY <1>1, StillSaving DEF SavingIsPending
<1>4. ScreenIsKnown'
  <2>1. ASSUME Known PROVE Known'
    <3>1. project' # None /\ Stored => Stored'
      BY <1>1 DEF Stored
    <3>2. project' # None => /\ project' = project /\ project # None /\ saveState' = saveState
      BY <1>1
    <3> QED BY <2>1, <3>1, <3>2, PendingBefore DEF Known
  <2>2. project' # project => project' = None
    BY <1>1
  <2> QED BY <2>1, <2>2, ScreenStaysKnown DEF IInv, ScreenIsKnown
<1>5. InOrder'
  <2>1. \A id \in Projects : Ordered(id) => Ordered(id)'
    BY <1>1, PendingBefore DEF Ordered
  <2> QED BY <2>1, SavesStayOrdered
<1>6. CreationsAreNew'
  BY <1>1, CreationsStayNew DEF IInv, CreationsAreNew
<1> QED BY <1>2, <1>3, <1>4, <1>5, <1>6, HistoryTypes DEF IInv

\* Whichever transaction completes, and however it ends.
LEMMA CompletePreserves ==
  ASSUME IInv, History, Complete
  PROVE  IInv'
<1> DEFINE r == requests[1]
<1>1. Completes /\ (SaveDone(r) \/ SaveFailed(r) \/ CreateDone(r) \/ OpenDone(r) \/ DeleteDone(r) \/ OtherFailed(r))
  <2>1. Completes
    BY DEF Complete, Completes
  <2>2. Head(requests) = requests[1]
    BY <2>1, QueueShrinks DEF IInv, Completes, Shrinks
  <2> QED BY <2>1, <2>2 DEF Complete
<1>2. saveState \in {"saved", "dirty", "saving", "error"}
  BY DEF IInv, TypeOK
<1>3. CASE SaveFailed(r) \/ OtherFailed(r)
  BY <1>1, <1>2, <1>3, DropPreserves DEF SaveFailed, OtherFailed
<1> QED BY <1>1, <1>3, SaveDonePreserves, CreateDonePreserves, OpenDonePreserves, DeleteDonePreserves

-----------------------------------------------------------------------------
(***************************************************************************)
(* The theorems                                                            *)
(***************************************************************************)
\* One lemma for each kind of step.
LEMMA NextPreserves ==
  ASSUME IInv, [HNext]_historyVars
  PROVE  IInv'
<1>1. CASE UNCHANGED historyVars
  BY <1>1 DEF historyVars, vars, IInv, TypeOK, RequestType, SavingIsPending, ScreenIsKnown, Known,
              Stored, InOrder, Ordered, CreationsAreNew, SavesOf, Pending
<1>2. CASE HNext
  <2>1. History /\ Next
    BY <1>2 DEF HNext, History
  <2>2. CASE Autosave \/ SaveNow
    BY <2>1, <2>2, SavePreserves DEF Autosave, SaveNow
  <2> QED BY <2>1, <2>2, ChooserPreserves, LeavingPreserves, EditPreserves, CompletePreserves
          DEF Next, NextByTimer
<1> QED BY <1>1, <1>2

\* The invariant holds throughout.
LEMMA Invariance == HSpec => []IInv
<1>1. HInit => IInv
  BY InitEstablishes
<1>2. IInv /\ [HNext]_historyVars => IInv'
  BY NextPreserves
<1> QED BY <1>1, <1>2, PTL DEF HSpec

\* The indicator tells the truth, whatever is under way: "saving" only while a save
\* is, "saved" only when the store holds the open project as it is on the screen,
\* if that revision did not appear while a save was under way.
THEOREM IndicatorIsHonest == HSpec => []IndicatorIsTrue
<1>1. IInv => IndicatorIsTrue
  BY DEF IInv, IndicatorIsTrue, SavedIsStored, ScreenIsKnown, Known
<1> QED BY <1>1, Invariance, PTL

\* No transaction puts an older revision of a project over a newer one, unless the
\* project was read behind a save of itself.
THEOREM StoreNeverGoesBack == HSpec => StoreMovesForward
<1>1. IInv /\ [HNext]_historyVars =>
        [\A id \in DOMAIN store \cap DOMAIN store' :
           store'[id] < store[id] => id \in reopened]_historyVars
  <2> SUFFICES ASSUME IInv, Next, NEW id \in DOMAIN store \cap DOMAIN store', id \notin reopened
               PROVE  ~(store'[id] < store[id])
    BY DEF HNext
  <2>1. store[id] \in Nat /\ id \in Projects
    BY DEF IInv, TypeOK
  <2>2. CASE store' = store
    BY <2>1, <2>2
  <2>3. CASE Complete
    <3> DEFINE r == requests[1]
    <3>1. Shrinks /\ (SaveDone(r) \/ CreateDone(r) \/ DeleteDone(r) \/ store' = store)
      <4>1. Shrinks
        BY <2>3, QueueShrinks DEF IInv, Complete
      <4> QED BY <2>3, <4>1 DEF Shrinks, Complete, SaveFailed, OpenDone, OtherFailed
    <3>2. CASE SaveDone(r)
      <4>1. 1 \in SavesOf(r.id) /\ r.revision \in Nat
        BY <3>1, <3>2, ProjectAssumption DEF SaveDone, Shrinks, Pending, SavesOf, RequestType, IInv, TypeOK
      <4>2. id # r.id => store'[id] = store[id]
        BY <3>2 DEF SaveDone, Put
      <4>3. id = r.id => store'[id] = r.revision /\ store[id] <= r.revision
        BY <2>1, <3>2, <4>1 DEF SaveDone, Put, IInv, InOrder, Ordered
      <4> QED BY <2>1, <4>1, <4>2, <4>3
    <3>3. CASE CreateDone(r)
      <4>1. 1 \in Pending("create")
        BY <3>1, <3>3 DEF CreateDone, Shrinks, Pending
      <4>2. id # r.id
        BY <4>1 DEF IInv, CreationsAreNew
      <4> QED BY <2>1, <3>3, <4>2 DEF CreateDone, Put
    <3>4. CASE DeleteDone(r)
      BY <2>1, <3>4 DEF DeleteDone, Restrict
    <3> QED BY <2>2, <3>1, <3>2, <3>3, <3>4
  <2> QED BY <2>2, <2>3 DEF Next, NextByTimer, CreateProject, OpenProject, DeleteProject, CloseProject,
                            Edit, Autosave, SaveNow, Save, Reload
<1> QED BY <1>1, Invariance, PTL DEF HSpec, StoreMovesForward
=============================================================================
