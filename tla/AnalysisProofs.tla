------------------------------ MODULE AnalysisProofs ------------------------------
(***************************************************************************)
(* What App shows is current: proved for every set of files, functions and *)
(* happenings, however many versions are written and requests overtake     *)
(* each other.                                                             *)
(***************************************************************************)
EXTENDS AnalysisRequests, AnalysisDock, ExecutionFollow,
        FiniteSetTheorems, NaturalsInduction, WellFoundedInduction, TLAPS
(***************************************************************************)
(* The inductive invariant, in five parts.  The types come first: what a   *)
(* timer, a request and the cache hold came from the project.  A timer     *)
(* holds the text of its file, which is why a source's graph is current    *)
(* when none is left.  The newest request of a file is for the function    *)
(* wanted, which is why it may be the only one shown; and the follow       *)
(* effect's key is set only while the newest request is the one it asked   *)
(* for, which is why asking once is enough.                                *)
(***************************************************************************)
Content == [n : Nat, ok : BOOLEAN]
Analysis == [id : Binaries, n : Nat, root : Functions, kind : {"view", "follow", "target", "build"},
             number : Nat, revision : Nat \cup {None}]

FilesTyped ==
  /\ setup \in Setups /\ last \in Nat /\ revision \in Nat
  /\ Ids \subseteq Sources \cup Binaries
  /\ \A id \in Ids : files[id] \in Content /\ files[id].n <= last
  /\ active \in Ids \cup {None}
  /\ pc \in Functions \cup {None} /\ analysisKey \in Functions \cup {None}
  /\ effects \subseteq {"active", "follow"}
  /\ timers \subseteq [id : Sources, content : Content] /\ \A t \in timers : t.content.n <= last

ShownTyped ==
  /\ problems \subseteq Sources
  /\ \A id \in DOMAIN graphs : graphs[id].n \in 0 .. last
  /\ DOMAIN summaries \subseteq Binaries /\ \A id \in DOMAIN summaries : summaries[id].root \in Functions

RequestsTyped ==
  /\ DOMAIN cache \subseteq Binaries /\ \A id \in DOMAIN cache : cache[id].revision \in Nat
  /\ sequence \in [Binaries -> Nat] /\ wanted \in [Binaries -> Functions \cup {None}]
  /\ requests \subseteq Analysis /\ IsFiniteSet(requests) /\ \A r \in requests : r.n <= last

Typed == FilesTyped /\ ShownTyped /\ RequestsTyped

SourcesOK ==
  /\ "edit" \notin Does => timers = {}
  /\ "folder" \notin Does => \A t \in timers : t.id \in Ids
  /\ "import" \notin Does => \A t \in timers : t.id \in Ids => t.content = files[t.id]
  /\ SourceShown /\ DeletedIsGone

\* Where every analysis takes a number.
NumbersOK ==
  {"execute", "rebuild"} \cap Does = {} =>
  /\ \A r \in requests :
       /\ r.kind \in {"view", "follow"} /\ r.number <= sequence[r.id]
       /\ r.number = sequence[r.id] /\ wanted[r.id] # None => r.root = wanted[r.id]
  /\ \A id \in Binaries \cap Ids :
       \/ \E r \in requests : r.id = id /\ r.number = sequence[id]
       \/ wanted[id] = None
       \/ id \in DOMAIN summaries /\ summaries[id].root = wanted[id]

\* The newest request of the active binary is for the function f.
Pending(f) ==
  \E r \in requests : r.id = active /\ r.kind = "follow" /\ r.number = sequence[active] /\ r.root = f

\* The follow effect's key is set only while its own request is the newest.
KeyOK == analysisKey # None => active \in Binaries /\ Pending(analysisKey)

\* Once the effects have run, the function execution is in is shown or asked for.
PausedOK ==
  Idle /\ active \in Binaries /\ pc # None /\ wanted[active] # None => summaries[active].root = pc \/ Pending(pc)

FollowOK ==
  /\ active \in Binaries /\ pc # None => active \in DOMAIN summaries
  /\ "active" \in effects => pc = None /\ analysisKey = None
  /\ {"select", "registry"} \cap Does = {} => KeyOK /\ PausedOK

IInv == Typed /\ SourcesOK /\ GraphMatchesSummary /\ NumbersOK /\ FollowOK

-----------------------------------------------------------------------------
\* What the setups are.
LEMMA SetupFacts ==
  ASSUME setup \in Setups
  PROVE  /\ None \notin Sources /\ None \notin Binaries /\ Sources \cap Binaries = {}
         /\ MaxVersion \in Nat /\ MaxRequests \in Nat
         /\ None \notin Functions /\ Entry \in Functions
BY AnalysisAssumption DEF AnalysisAssumption, Sources, Binaries, MaxVersion, MaxRequests

\* A file that went.
LEMMA DropFacts ==
  ASSUME NEW f, NEW id
  PROVE  /\ DOMAIN Drop(f, id) = DOMAIN f \ {id}
         /\ \A x \in DOMAIN f \ {id} : Drop(f, id)[x] = f[x]
BY DEF Drop

\* A new version of a file.
LEMMA WrittenFiles ==
  ASSUME FilesTyped, NEW id \in Ids, NEW ok \in BOOLEAN, Written(id, ok)
  PROVE  /\ last' = last + 1 /\ Ids' = Ids /\ files'[id] = [n |-> last + 1, ok |-> ok]
         /\ \A x \in Ids : x # id => files'[x] = files[x]
         /\ \A x \in Ids' : files'[x] \in Content /\ files'[x].n <= last'
<1>1. last' = last + 1 /\ files' = Put(files, id, [n |-> last + 1, ok |-> ok]) /\ last \in Nat
  BY DEF Written, FilesTyped
<1>2. Ids' = Ids /\ files'[id] = [n |-> last + 1, ok |-> ok] /\ \A x \in Ids : x # id => files'[x] = files[x]
  <2>1. PICK content : content = [n |-> last + 1, ok |-> ok]
    OBVIOUS
  <2>2. files' = Put(files, id, content)
    BY <1>1, <2>1
  <2>3. /\ DOMAIN Put(files, id, content) = DOMAIN files \cup {id} /\ Put(files, id, content)[id] = content
        /\ \A x \in DOMAIN files : x # id => Put(files, id, content)[x] = files[x]
    BY DEF Put
  <2> QED BY <2>1, <2>2, <2>3 DEF Ids
<1>3. [n |-> last + 1, ok |-> ok] \in Content
  BY <1>1 DEF Content
<1>4. ASSUME NEW x \in Ids PROVE files'[x] \in Content /\ files'[x].n <= last'
  <2>1. CASE x = id
    BY <1>1, <1>2, <1>3, <2>1
  <2>2. CASE x # id
    <3>1. files'[x] = files[x] /\ files[x] \in Content /\ files[x].n <= last
      BY <1>2, <2>2 DEF FilesTyped
    <3>2. files[x].n \in Nat
      BY <3>1 DEF Content
    <3> QED BY <1>1, <3>1, <3>2
  <2> QED BY <2>1, <2>2
<1> QED BY <1>1, <1>2, <1>4

\* The files, the timers and the registers keep their types.
LEMMA FilesStayTyped ==
  ASSUME FilesTyped, ShownTyped, RequestsTyped, Next
  PROVE  FilesTyped'
<1>1. setup' = setup /\ Act
  BY DEF Next
<1>2. /\ setup \in Setups /\ last \in Nat /\ revision \in Nat /\ Ids \subseteq Sources \cup Binaries
      /\ \A id \in Ids : files[id] \in Content /\ files[id].n <= last
      /\ active \in Ids \cup {None} /\ pc \in Functions \cup {None} /\ analysisKey \in Functions \cup {None}
      /\ effects \subseteq {"active", "follow"}
      /\ timers \subseteq [id : Sources, content : Content] /\ \A t \in timers : t.content.n <= last
  BY DEF FilesTyped
<1>3. /\ None \notin Sources /\ None \notin Binaries /\ Sources \cap Binaries = {} /\ Entry \in Functions /\ None \notin Functions
      /\ Sources' = Sources /\ Binaries' = Binaries
  BY <1>1, <1>2, SetupFacts DEF Sources, Binaries
<1>4. \A t \in timers : t.content.n \in Nat /\ t.content.n <= last + 1
  BY <1>2 DEF Content
<1>5. ASSUME UNCHANGED <<files, last>>, revision' \in Nat, active' \in Ids \cup {None},
             pc' \in Functions \cup {None}, analysisKey' \in Functions \cup {None},
             effects' \subseteq {"active", "follow"}, timers' \subseteq timers
      PROVE  FilesTyped'
  <2>1. Ids' = Ids
    BY <1>5 DEF Ids
  <2> QED BY <1>1, <1>2, <1>3, <1>5, <2>1 DEF FilesTyped
<1>6. ASSUME NEW id \in Ids, NEW ok \in BOOLEAN, Edit(id, ok) PROVE FilesTyped'
  <2>1. /\ last' = last + 1 /\ Ids' = Ids /\ \A x \in Ids' : files'[x] \in Content /\ files'[x].n <= last'
    BY <1>6, WrittenFiles DEF Edit
  <2>2. PICK t : t = [id |-> id, content |-> [n |-> last + 1, ok |-> ok]]
    OBVIOUS
  <2>3. t \in [id : Sources, content : Content] /\ t.content.n = last + 1
    BY <1>2, <1>6, <2>2 DEF Edit, Content
  <2>4. timers' = {u \in timers : u.id # id} \cup {t}
    BY <1>6, <2>2 DEF Edit, Schedule
  <2>5. timers' \subseteq [id : Sources, content : Content] /\ \A u \in timers' : u.content.n <= last'
    BY <1>2, <1>4, <2>1, <2>3, <2>4
  <2>6. UNCHANGED <<revision, active, pc, analysisKey, effects>>
    BY <1>6 DEF Edit
  <2> QED BY <1>1, <1>2, <1>3, <2>1, <2>5, <2>6 DEF FilesTyped
<1>7. ASSUME NEW id \in Ids, NEW ok \in BOOLEAN, Written(id, ok),
             UNCHANGED <<timers, revision>>, active' \in Ids \cup {None},
             pc' \in Functions \cup {None}, analysisKey' \in Functions \cup {None},
             effects' \subseteq {"active", "follow"}
      PROVE  FilesTyped'
  <2>1. /\ last' = last + 1 /\ Ids' = Ids /\ \A x \in Ids' : files'[x] \in Content /\ files'[x].n <= last'
    BY <1>7, WrittenFiles
  <2> QED BY <1>1, <1>2, <1>3, <1>4, <1>7, <2>1 DEF FilesTyped
<1>8. ASSUME NEW id \in Ids, NEW ok \in BOOLEAN, Import(id, ok) PROVE FilesTyped'
  BY <1>2, <1>7, <1>8 DEF Import
<1>9. ASSUME NEW id \in Ids, Rebuild(id) PROVE FilesTyped'
  <2>1. Written(id, TRUE) /\ UNCHANGED <<timers, revision>>
    BY <1>9 DEF Rebuild
  <2>2. active' \in Ids \cup {None} /\ pc' \in Functions \cup {None} /\ analysisKey' \in Functions \cup {None}
        /\ effects' \subseteq {"active", "follow"}
    BY <1>2, <1>9 DEF Rebuild, Activate
  <2> QED BY <1>7, <2>1, <2>2
<1>10. ASSUME NEW id \in Ids, Delete(id) PROVE FilesTyped'
  <2>1. /\ files' = Drop(files, id) /\ timers' \subseteq timers /\ UNCHANGED <<last, revision>>
    BY <1>10 DEF Delete
  <2>2. Ids' = Ids \ {id} /\ \A x \in Ids' : files'[x] = files[x]
    BY <2>1, DropFacts DEF Ids
  <2>3. active' \in Ids' \cup {None} /\ pc' \in Functions \cup {None} /\ analysisKey' \in Functions \cup {None}
        /\ effects' \subseteq {"active", "follow"}
    <3>1. PICK other \in (Ids \ {id}) \cup {None} :
            IF active = id THEN Activate(other) ELSE other = None /\ UNCHANGED <<active, pc, analysisKey, effects>>
      BY <1>10 DEF Delete
    <3> QED BY <1>2, <2>2, <3>1 DEF Activate
  <2> QED BY <1>1, <1>2, <1>3, <2>1, <2>2, <2>3 DEF FilesTyped
<1>11. ASSUME NEW t \in timers, Fire(t) PROVE FilesTyped'
  BY <1>2, <1>5, <1>11 DEF Fire
<1>12. CASE Reanalyze
  BY <1>2, <1>5, <1>12 DEF Reanalyze
<1>13. CASE ClearGraph
  BY <1>2, <1>5, <1>13 DEF ClearGraph
<1>14. CASE RegistryChanges
  BY <1>2, <1>5, <1>14 DEF RegistryChanges
<1>15. CASE Follow
  <2>1. UNCHANGED <<files, last, revision, active, pc, timers>> /\ effects' = {}
    BY <1>15 DEF Follow
  <2>2. analysisKey' \in {analysisKey, pc, None}
    BY <1>15 DEF Follow
  <2> QED BY <1>2, <1>5, <2>1, <2>2
<1>16. CASE ActiveEffect
  BY <1>2, <1>5, <1>16 DEF ActiveEffect
<1>17. ASSUME NEW r \in requests, Resolve(r) \/ Finish(r) \/ Fail(r) PROVE FilesTyped'
  <2>1. analysisKey' \in {analysisKey, None}
    BY <1>17 DEF Resolve, Finish, Fail, Settled
  <2>2. UNCHANGED <<files, last, revision, active, pc, timers>> /\ effects' \in {effects, {"follow"}}
    BY <1>17 DEF Resolve, Finish, Fail, Settled
  <2> QED BY <1>2, <1>5, <2>1, <2>2
<1>18. ASSUME NEW root \in Functions, SelectFunction(root) PROVE FilesTyped'
  BY <1>2, <1>5, <1>18 DEF SelectFunction
<1>19. ASSUME NEW function \in Functions \cup {None}, Step(function) PROVE FilesTyped'
  BY <1>2, <1>5, <1>19 DEF Step
<1>20. ASSUME NEW id \in Ids, Target(id) PROVE FilesTyped'
  BY <1>2, <1>5, <1>20 DEF Target
<1>21. ASSUME NEW id \in Ids, Open(id) PROVE FilesTyped'
  BY <1>2, <1>5, <1>21 DEF Open, Activate
<1> QED BY <1>1, <1>6, <1>8, <1>9, <1>10, <1>11, <1>12, <1>13, <1>14, <1>15, <1>16, <1>17, <1>18, <1>19, <1>20, <1>21 DEF Act

-----------------------------------------------------------------------------
(***************************************************************************)
(* What the parts of the actions do                                        *)
(***************************************************************************)

\* Committing the analysis of a source touches what is shown of this one only.
Committed(id, content) ==
  /\ problems' \subseteq problems \cup {id} /\ DOMAIN graphs' \subseteq DOMAIN graphs \cup {id}
  /\ id \in DOMAIN graphs' => id \in problems' \/ graphs'[id].n = content.n
  /\ id \in DOMAIN graphs' => graphs'[id].n = content.n \/ (id \in DOMAIN graphs /\ graphs'[id] = graphs[id])
  /\ \A x \in DOMAIN graphs' : x # id => x \in DOMAIN graphs /\ graphs'[x] = graphs[x]
  /\ \A x \in DOMAIN graphs : x \in DOMAIN graphs'
  /\ \A x : x # id => (x \in problems' <=> x \in problems)

\* An analysis commits the graph of a text without problems, and lists the
\* problems of another one.
LEMMA SourceAnalyzed ==
  ASSUME NEW id, NEW content, AnalyzeSource(id, content)
  PROVE  Committed(id, content)
<1>1. CASE content.ok
  <2>1. PICK graph : graph = [n |-> content.n, root |-> None]
    OBVIOUS
  <2>2. graphs' = Put(graphs, id, graph) /\ problems' = problems \ {id} /\ graph.n = content.n
    BY <1>1, <2>1 DEF AnalyzeSource
  <2>3. /\ DOMAIN Put(graphs, id, graph) = DOMAIN graphs \cup {id} /\ Put(graphs, id, graph)[id] = graph
        /\ \A x \in DOMAIN graphs : x # id => Put(graphs, id, graph)[x] = graphs[x]
    BY DEF Put
  <2> QED BY <2>2, <2>3 DEF Committed
<1>2. CASE ~content.ok
  BY <1>2 DEF AnalyzeSource, Committed
<1> QED BY <1>1, <1>2

\* A request takes the next number of its file.
Newly(q, id, root, kind) ==
  /\ q \in Analysis /\ q.id = id /\ q.n <= last /\ q.root = root /\ q.kind = kind
  /\ q.number = sequence[id] + 1
  /\ requests' = requests \cup {q}
  /\ sequence' \in [Binaries -> Nat] /\ sequence'[id] = sequence[id] + 1
  /\ \A x \in Binaries : x # id => sequence'[x] = sequence[x] /\ wanted'[x] = wanted[x]
  /\ wanted' \in [Binaries -> Functions \cup {None}] /\ wanted'[id] = root

\* What prepareBinary begins with is an analysis of the file as it is.
LEMMA AskedTyped ==
  ASSUME FilesTyped, RequestsTyped, NEW id \in Binaries \cap Ids, NEW root \in Functions,
         NEW kind \in {"view", "follow", "target", "build"}
  PROVE  LET q == Asked(id, files[id], root, kind)
         IN /\ q \in Analysis /\ q.id = id /\ q.n = files[id].n /\ q.n <= last
            /\ q.root = root /\ q.kind = kind /\ q.number = sequence[id] + 1
<1>1. files[id].n \in Nat /\ files[id].n <= last /\ sequence[id] + 1 \in Nat
  BY DEF FilesTyped, RequestsTyped, Content
<1>2. PICK v : v = IF id \in DOMAIN cache /\ cache[id].n = files[id].n THEN cache[id].revision ELSE None
  OBVIOUS
<1>3. v \in Nat \cup {None}
  BY <1>2 DEF RequestsTyped
<1>4. PICK q : q = Asked(id, files[id], root, kind)
  OBVIOUS
<1>5. q = [id |-> id, n |-> files[id].n, root |-> root, kind |-> kind, number |-> sequence[id] + 1, revision |-> v]
  BY <1>2, <1>4 DEF Asked
<1>6. q \in Analysis
  BY <1>1, <1>3, <1>5 DEF Analysis
<1> QED BY <1>1, <1>4, <1>5, <1>6

\* A request of runBinaryAnalysis is the newest of its file.
LEMMA RequestMade ==
  ASSUME FilesTyped, RequestsTyped, NEW id \in Binaries \cap Ids, NEW root \in Functions,
         NEW kind \in {"view", "follow"}, Request(id, root, kind)
  PROVE  \E q : Newly(q, id, root, kind)
<1>1. PICK q : q = Asked(id, files[id], root, kind)
  OBVIOUS
<1>2. q \in Analysis /\ q.id = id /\ q.n <= last /\ q.root = root /\ q.kind = kind /\ q.number = sequence[id] + 1
  BY <1>1, AskedTyped
<1>3. /\ requests' = requests \cup {q} /\ sequence' = [sequence EXCEPT ![id] = sequence[id] + 1]
      /\ wanted' = [wanted EXCEPT ![id] = root]
  BY <1>1 DEF Request
<1>4. sequence \in [Binaries -> Nat] /\ wanted \in [Binaries -> Functions \cup {None}]
  BY DEF RequestsTyped
<1> QED BY <1>2, <1>3, <1>4 DEF Newly

\* The requests that go on: with the registry read, or without the one that ended.
Same(q, r) == q.id = r.id /\ q.n = r.n /\ q.root = r.root /\ q.kind = r.kind /\ q.number = r.number

\* An analysis that read the registry is the same one.
LEMMA RegistryRead ==
  ASSUME RequestsTyped, revision \in Nat, NEW r \in requests, Resolve(r)
  PROVE  \E q \in Analysis : Same(q, r) /\ requests' = (requests \ {r}) \cup {q}
<1>1. PICK q : q = [r EXCEPT !.revision = revision]
  OBVIOUS
<1>2. r \in Analysis
  BY DEF RequestsTyped
<1>3. q \in Analysis /\ Same(q, r)
  BY <1>1, <1>2 DEF Analysis, Same
<1>4. requests' = (requests \ {r}) \cup {q}
  BY <1>1 DEF Resolve
<1> QED BY <1>3, <1>4

\* A request that takes no number of its file.
LEMMA Unnumbered ==
  ASSUME setup \in Setups, FilesTyped, RequestsTyped, NEW id \in Ids, Target(id) \/ Rebuild(id)
  PROVE  /\ id \in Binaries /\ {"execute", "rebuild"} \cap Does # {}
         /\ \E q \in Analysis : /\ q.id = id /\ q.n <= last' /\ q.kind \in {"target", "build"}
                                /\ requests' = requests \cup {q}
<1>1. CASE Target(id)
  <2>1. id \in Binaries /\ "execute" \in Does /\ last' = last
    BY <1>1 DEF Target
  <2>2. PICK a : a = Asked(id, files[id], Entry, "target")
    OBVIOUS
  <2>3. a \in Analysis /\ a.id = id /\ a.n <= last /\ a.kind = "target"
    BY <2>1, <2>2, AskedTyped, SetupFacts
  <2>4. PICK number \in Nat : number = MaxRequests + Cardinality(requests)
    <3>1. Cardinality(requests) \in Nat
      BY FS_CardinalityType DEF RequestsTyped
    <3> QED BY <3>1, SetupFacts
  <2>5. PICK q : q = [a EXCEPT !.number = number]
    OBVIOUS
  <2>6. q \in Analysis /\ q.id = id /\ q.n <= last /\ q.kind = "target"
    BY <2>3, <2>5 DEF Analysis
  <2>7. requests' = requests \cup {q}
    BY <1>1, <2>2, <2>4, <2>5 DEF Target
  <2> QED BY <2>1, <2>6, <2>7
<1>2. CASE Rebuild(id)
  <2>1. id \in Binaries /\ "rebuild" \in Does /\ last' = last + 1 /\ last \in Nat
    BY <1>2 DEF Rebuild, Written, FilesTyped
  <2>2. PICK q : q = [id |-> id, n |-> last + 1, root |-> Entry, kind |-> "build", number |-> 0, revision |-> None]
    OBVIOUS
  <2>3. q \in Analysis /\ q.id = id /\ q.n <= last' /\ q.kind = "build"
    BY <2>1, <2>2, SetupFacts DEF Analysis
  <2>4. requests' = requests \cup {q}
    BY <1>2, <2>2 DEF Rebuild
  <2> QED BY <2>1, <2>3, <2>4
<1> QED BY <1>1, <1>2

-----------------------------------------------------------------------------
(***************************************************************************)
(* What is shown keeps its types, and so do the requests                   *)
(***************************************************************************)
\* A graph shows a version that was written, a summary a function.
LEMMA ShownStaysTyped ==
  ASSUME FilesTyped, ShownTyped, RequestsTyped, Next
  PROVE  ShownTyped'
<1>1. setup' = setup /\ Act
  BY DEF Next
<1>2. /\ setup \in Setups /\ last \in Nat /\ Ids \subseteq Sources \cup Binaries
      /\ \A id \in Ids : files[id].n \in 0 .. last
      /\ active \in Ids \cup {None}
      /\ \A t \in timers : t.id \in Sources /\ t.content.n \in 0 .. last
  BY DEF FilesTyped, Content
<1>3. /\ problems \subseteq Sources /\ \A id \in DOMAIN graphs : graphs[id].n \in 0 .. last
      /\ DOMAIN summaries \subseteq Binaries /\ \A id \in DOMAIN summaries : summaries[id].root \in Functions
  BY DEF ShownTyped
<1>4. /\ None \notin Sources /\ None \notin Binaries /\ Sources \cap Binaries = {}
      /\ Sources' = Sources /\ Binaries' = Binaries
  BY <1>1, <1>2, SetupFacts DEF Sources, Binaries
<1>5. ASSUME last' \in {last, last + 1}, problems' \subseteq problems,
             DOMAIN graphs' \subseteq DOMAIN graphs, \A id \in DOMAIN graphs' : graphs'[id] = graphs[id],
             DOMAIN summaries' \subseteq DOMAIN summaries, \A id \in DOMAIN summaries' : summaries'[id] = summaries[id]
      PROVE  ShownTyped'
  <2>1. ASSUME NEW id \in DOMAIN graphs' PROVE graphs'[id].n \in 0 .. last'
    <3>1. graphs'[id] = graphs[id] /\ graphs[id].n \in 0 .. last
      BY <1>3, <1>5
    <3> QED BY <1>2, <1>5, <3>1
  <2> QED BY <1>3, <1>4, <1>5, <2>1 DEF ShownTyped
<1>6. ASSUME NEW id \in Sources, NEW content, content.n \in 0 .. last, AnalyzeSource(id, content),
             UNCHANGED <<last, summaries>>
      PROVE  ShownTyped'
  <2>1. Committed(id, content)
    BY <1>6, SourceAnalyzed
  <2>2. ASSUME NEW x \in DOMAIN graphs' PROVE graphs'[x].n \in 0 .. last
    BY <1>3, <1>6, <2>1 DEF Committed
  <2>3. problems' \subseteq Sources
    BY <1>3, <2>1 DEF Committed
  <2> QED BY <1>3, <1>4, <1>6, <2>2, <2>3 DEF ShownTyped
<1>7. ASSUME NEW t \in timers, Fire(t) PROVE ShownTyped'
  <2>1. AnalyzeSource(t.id, t.content) /\ UNCHANGED <<last, summaries>>
    BY <1>7 DEF Fire
  <2> QED BY <1>2, <1>6, <2>1
<1>8. CASE Reanalyze
  <2>1. active \in Sources /\ AnalyzeSource(active, files[active]) /\ UNCHANGED <<last, summaries>>
    BY <1>8 DEF Reanalyze
  <2>2. files[active].n \in 0 .. last
    BY <1>2, <1>4, <2>1
  <2> QED BY <1>6, <2>1, <2>2
<1>9. CASE ActiveEffect
  <2>1. UNCHANGED <<last, summaries>>
    BY <1>9 DEF ActiveEffect
  <2>2. CASE active \in Sources /\ AnalyzeSource(active, files[active])
    <3>1. files[active].n \in 0 .. last
      BY <1>2, <1>4, <2>2
    <3> QED BY <1>6, <2>1, <2>2, <3>1
  <2>3. CASE UNCHANGED <<graphs, problems>>
    BY <1>5, <2>1, <2>3
  <2> QED BY <1>9, <2>2, <2>3 DEF ActiveEffect
<1>10. CASE ClearGraph
  <2>1. graphs' = Drop(graphs, active) /\ UNCHANGED <<last, summaries, problems>>
    BY <1>10 DEF ClearGraph
  <2>2. DOMAIN graphs' \subseteq DOMAIN graphs /\ \A id \in DOMAIN graphs' : graphs'[id] = graphs[id]
    BY <2>1, DropFacts
  <2> QED BY <1>5, <2>1, <2>2
<1>11. ASSUME NEW id \in Ids, Delete(id) PROVE ShownTyped'
  <2>1. graphs' = Drop(graphs, id) /\ summaries' = Drop(summaries, id) /\ problems' = problems \ {id} /\ last' = last
    BY <1>11 DEF Delete
  <2>2. DOMAIN graphs' \subseteq DOMAIN graphs /\ \A x \in DOMAIN graphs' : graphs'[x] = graphs[x]
    BY <2>1, DropFacts
  <2>3. DOMAIN summaries' \subseteq DOMAIN summaries /\ \A x \in DOMAIN summaries' : summaries'[x] = summaries[x]
    BY <2>1, DropFacts
  <2> QED BY <1>5, <2>1, <2>2, <2>3
<1>12. ASSUME NEW r \in requests, Finish(r) PROVE ShownTyped'
  <2>1. UNCHANGED <<last, problems>>
    BY <1>12 DEF Finish, Settled
  <2>2. r \in Analysis /\ r.n \in 0 .. last /\ r.id \in Binaries /\ r.root \in Functions
    BY <1>2 DEF RequestsTyped, Analysis
  <2>3. CASE IsNewest(r)
    <3>1. PICK g : g = [n |-> r.n, root |-> r.root]
      OBVIOUS
    <3>2. PICK m : m = [n |-> r.n, root |-> r.root, revision |-> r.revision]
      OBVIOUS
    <3>3. graphs' = Put(graphs, r.id, g) /\ summaries' = Put(summaries, r.id, m) /\ g.n = r.n /\ m.root = r.root
      BY <1>12, <2>3, <3>1, <3>2 DEF Finish
    <3>4. \A x \in DOMAIN graphs' : graphs'[x].n \in 0 .. last
      BY <1>3, <2>2, <3>3 DEF Put
    <3>5. DOMAIN summaries' \subseteq Binaries /\ \A x \in DOMAIN summaries' : summaries'[x].root \in Functions
      BY <1>3, <2>2, <3>3 DEF Put
    <3> QED BY <1>3, <1>4, <2>1, <3>4, <3>5 DEF ShownTyped
  <2>4. CASE ~IsNewest(r)
    <3>1. UNCHANGED <<graphs, summaries>>
      BY <1>12, <2>4 DEF Finish
    <3> QED BY <1>5, <2>1, <3>1
  <2> QED BY <2>3, <2>4
<1>13. ASSUME UNCHANGED shown, last' \in {last, last + 1} PROVE ShownTyped'
  BY <1>5, <1>13 DEF shown
<1>14. ASSUME NEW id \in Ids, NEW ok \in BOOLEAN, Edit(id, ok) \/ Import(id, ok) PROVE ShownTyped'
  BY <1>13, <1>14 DEF Edit, Import, Written
<1>15. ASSUME NEW id \in Ids, Target(id) \/ Rebuild(id) \/ Open(id) PROVE ShownTyped'
  BY <1>13, <1>15 DEF Target, Rebuild, Written, Open
<1>16. ASSUME NEW r \in requests, Resolve(r) \/ Fail(r) PROVE ShownTyped'
  BY <1>13, <1>16 DEF Resolve, Fail, Settled, shown
<1>17. ASSUME NEW root, SelectFunction(root) \/ Step(root) PROVE ShownTyped'
  BY <1>13, <1>17 DEF SelectFunction, Step
<1>18. CASE RegistryChanges \/ Follow
  BY <1>13, <1>18 DEF RegistryChanges, Follow
<1> QED BY <1>1, <1>7, <1>8, <1>9, <1>10, <1>11, <1>12, <1>14, <1>15, <1>16, <1>17, <1>18 DEF Act

\* The cache, the numbers and the requests keep their types.
LEMMA RequestsStayTyped ==
  ASSUME FilesTyped, ShownTyped, RequestsTyped, Next
  PROVE  RequestsTyped'
<1>1. setup' = setup /\ Act
  BY DEF Next
<1>2. /\ setup \in Setups /\ last \in Nat /\ revision \in Nat /\ Ids \subseteq Sources \cup Binaries
      /\ active \in Ids \cup {None} /\ pc \in Functions \cup {None}
  BY DEF FilesTyped
<1>3. /\ DOMAIN cache \subseteq Binaries /\ \A id \in DOMAIN cache : cache[id].revision \in Nat
      /\ sequence \in [Binaries -> Nat] /\ wanted \in [Binaries -> Functions \cup {None}]
      /\ requests \subseteq Analysis /\ IsFiniteSet(requests) /\ \A r \in requests : r.n <= last /\ r.n \in Nat
  BY DEF RequestsTyped, Analysis
<1>4. /\ None \notin Sources /\ None \notin Binaries /\ Sources \cap Binaries = {} /\ Entry \in Functions
      /\ Sources' = Sources /\ Binaries' = Binaries /\ Analysis' = Analysis
  BY <1>1, <1>2, SetupFacts DEF Sources, Binaries, Analysis
<1>5. ASSUME last' \in {last, last + 1}, IsFiniteSet(requests'), requests' \subseteq Analysis,
             \A r \in requests' : r \in requests \/ r.n <= last',
             DOMAIN cache' \subseteq Binaries, \A id \in DOMAIN cache' : cache'[id].revision \in Nat,
             sequence' \in [Binaries -> Nat], wanted' \in [Binaries -> Functions \cup {None}]
      PROVE  RequestsTyped'
  BY <1>2, <1>3, <1>4, <1>5 DEF RequestsTyped
<1>6. ASSUME UNCHANGED <<requests, sequence, wanted>>, last' \in {last, last + 1},
             DOMAIN cache' \subseteq DOMAIN cache, \A id \in DOMAIN cache' : cache'[id] = cache[id]
      PROVE  RequestsTyped'
  BY <1>3, <1>5, <1>6
<1>7. ASSUME NEW id \in Binaries \cap Ids, NEW root \in Functions, NEW kind \in {"view", "follow"},
             Request(id, root, kind), last' = last, DOMAIN cache' \subseteq DOMAIN cache,
             \A x \in DOMAIN cache' : cache'[x] = cache[x]
      PROVE  RequestsTyped'
  <2>1. PICK q : Newly(q, id, root, kind)
    BY <1>7, RequestMade
  <2>2. /\ requests' = requests \cup {q} /\ q \in Analysis /\ q.n <= last
        /\ sequence' \in [Binaries -> Nat] /\ wanted' \in [Binaries -> Functions \cup {None}]
    BY <2>1 DEF Newly
  <2>3. IsFiniteSet(requests')
    BY <1>3, <2>2, FS_AddElement
  <2> QED BY <1>3, <1>5, <1>7, <2>2, <2>3
<1>8. ASSUME NEW id \in Ids, Target(id) \/ Rebuild(id) PROVE RequestsTyped'
  <2>1. PICK q \in Analysis : q.n <= last' /\ requests' = requests \cup {q}
    BY <1>2, <1>8, Unnumbered
  <2>2. IsFiniteSet(requests')
    BY <1>3, <2>1, FS_AddElement
  <2>3. UNCHANGED <<sequence, wanted>> /\ last' \in {last, last + 1} /\ cache' \in {cache, Drop(cache, id)}
    BY <1>8 DEF Target, Rebuild, Written
  <2>4. DOMAIN cache' \subseteq DOMAIN cache /\ \A x \in DOMAIN cache' : cache'[x] = cache[x]
    <3>1. CASE cache' = cache
      BY <3>1
    <3>2. CASE cache' = Drop(cache, id)
      BY <3>2, DropFacts
    <3> QED BY <2>3, <3>1, <3>2
  <2> QED BY <1>3, <1>5, <2>1, <2>2, <2>3, <2>4
<1>9. ASSUME NEW r \in requests, Resolve(r) PROVE RequestsTyped'
  <2>1. PICK q \in Analysis : Same(q, r) /\ requests' = (requests \ {r}) \cup {q}
    BY <1>2, <1>9, RegistryRead
  <2>2. q.n <= last
    BY <1>3, <2>1 DEF Same
  <2>3. IsFiniteSet(requests')
    BY <1>3, <2>1, FS_AddElement, FS_RemoveElement
  <2>4. UNCHANGED <<last, sequence, cache, wanted>>
    BY <1>9 DEF Resolve
  <2> QED BY <1>3, <1>5, <2>1, <2>2, <2>3, <2>4
<1>10. ASSUME NEW r \in requests, Finish(r) PROVE RequestsTyped'
  <2>1. requests' = requests \ {r} /\ UNCHANGED <<last, sequence, wanted>> /\ r.revision # None
    BY <1>10 DEF Finish, Settled
  <2>2. r.id \in Binaries /\ r.revision \in Nat
    BY <1>3, <2>1 DEF Analysis
  <2>3. PICK v : v = [n |-> r.n, revision |-> r.revision]
    OBVIOUS
  <2>4. cache' = Put(cache, r.id, v) /\ v.revision \in Nat
    BY <1>10, <2>2, <2>3 DEF Finish
  <2>5. DOMAIN cache' \subseteq Binaries /\ \A x \in DOMAIN cache' : cache'[x].revision \in Nat
    BY <1>3, <2>2, <2>4 DEF Put
  <2>6. IsFiniteSet(requests')
    BY <1>3, <2>1, FS_RemoveElement
  <2> QED BY <1>3, <1>5, <2>1, <2>5, <2>6
<1>11. ASSUME NEW r \in requests, Fail(r) PROVE RequestsTyped'
  <2>1. requests' = requests \ {r} /\ UNCHANGED <<last, sequence, cache>>
        /\ wanted' \in {wanted, [wanted EXCEPT ![r.id] = None]}
    BY <1>11 DEF Fail, Settled
  <2>2. wanted' \in [Binaries -> Functions \cup {None}]
    BY <1>3, <2>1
  <2>3. IsFiniteSet(requests')
    BY <1>3, <2>1, FS_RemoveElement
  <2> QED BY <1>3, <1>5, <2>1, <2>2, <2>3
<1>12. CASE RegistryChanges
  <2>1. last' = last /\ cache' = <<>>
    BY <1>12 DEF RegistryChanges
  <2>2. DOMAIN cache' = {}
    BY <2>1
  <2>3. CASE active \in Binaries
    <3>1. PICK root : root = IF active \in DOMAIN summaries THEN summaries[active].root ELSE Entry
      OBVIOUS
    <3>2. root \in Functions /\ Request(active, root, "view") /\ active \in Ids
      BY <1>2, <1>4, <1>12, <2>3, <3>1 DEF ShownTyped, RegistryChanges
    <3> QED BY <1>7, <2>1, <2>2, <2>3, <3>2
  <2>4. CASE active \notin Binaries
    <3>1. UNCHANGED <<sequence, requests, wanted>>
      BY <1>12, <2>4 DEF RegistryChanges
    <3> QED BY <1>6, <2>1, <2>2, <3>1
  <2> QED BY <2>3, <2>4
<1>13. CASE Follow
  <2>1. UNCHANGED <<last, cache>>
    BY <1>13 DEF Follow
  <2>2. CASE UNCHANGED <<sequence, requests, wanted>>
    BY <1>6, <2>1, <2>2
  <2>3. CASE active \in Binaries /\ pc # None /\ Request(active, pc, "follow")
    <3>1. active \in Ids /\ pc \in Functions
      BY <1>2, <1>4, <2>3
    <3> QED BY <1>7, <2>1, <2>3, <3>1
  <2> QED BY <1>13, <2>2, <2>3 DEF Follow
<1>14. CASE ActiveEffect
  <2>1. UNCHANGED <<last, cache>>
    BY <1>14 DEF ActiveEffect
  <2>2. CASE UNCHANGED <<sequence, requests, wanted>>
    BY <1>6, <2>1, <2>2
  <2>3. CASE active \in Binaries /\ Request(active, Entry, "view")
    <3>1. active \in Ids
      BY <1>2, <1>4, <2>3
    <3> QED BY <1>4, <1>7, <2>1, <2>3, <3>1
  <2> QED BY <1>14, <2>2, <2>3 DEF ActiveEffect
<1>15. ASSUME NEW root \in Functions, SelectFunction(root) PROVE RequestsTyped'
  <2>1. active \in Binaries /\ Request(active, root, "view") /\ UNCHANGED <<last, cache>>
    BY <1>15 DEF SelectFunction
  <2>2. active \in Ids
    BY <1>2, <1>4, <2>1
  <2> QED BY <1>7, <2>1, <2>2
<1>16. ASSUME NEW id \in Ids, NEW ok \in BOOLEAN, Edit(id, ok) \/ Import(id, ok) PROVE RequestsTyped'
  BY <1>6, <1>16 DEF Edit, Import, Written
<1>17. ASSUME NEW t \in timers, Fire(t) PROVE RequestsTyped'
  BY <1>6, <1>17 DEF Fire
<1>18. CASE Reanalyze \/ ClearGraph
  BY <1>6, <1>18 DEF Reanalyze, ClearGraph
<1>19. ASSUME NEW function, Step(function) PROVE RequestsTyped'
  BY <1>6, <1>19 DEF Step
<1>20. ASSUME NEW id \in Ids, Open(id) PROVE RequestsTyped'
  BY <1>6, <1>20 DEF Open
<1>21. ASSUME NEW id \in Ids, Delete(id) PROVE RequestsTyped'
  <2>1. UNCHANGED <<last, requests, sequence, wanted>> /\ cache' = Drop(cache, id)
    BY <1>21 DEF Delete
  <2> QED BY <1>6, <2>1, DropFacts
<1> QED BY <1>1, <1>8, <1>9, <1>10, <1>11, <1>12, <1>13, <1>14, <1>15, <1>16, <1>17, <1>18, <1>19, <1>20, <1>21 DEF Act

-----------------------------------------------------------------------------
(***************************************************************************)
(* Sources                                                                 *)
(***************************************************************************)

\* A timer holds the text of its file, so that what it commits is current.
LEMMA SourcesStay ==
  ASSUME FilesTyped, ShownTyped, RequestsTyped, SourcesOK, Next
  PROVE  SourcesOK'
<1>1. setup' = setup /\ Act
  BY DEF Next
<1>2. /\ setup \in Setups /\ last \in Nat /\ Ids \subseteq Sources \cup Binaries
      /\ active \in Ids \cup {None} /\ \A t \in timers : t.id \in Sources
  BY DEF FilesTyped
<1>3. /\ None \notin Sources /\ None \notin Binaries /\ Sources \cap Binaries = {}
      /\ Sources' = Sources /\ Binaries' = Binaries /\ Does' = Does
  BY <1>1, <1>2, SetupFacts DEF Sources, Binaries, Does
<1>4. /\ "edit" \notin Does => timers = {}
      /\ "folder" \notin Does => \A t \in timers : t.id \in Ids
      /\ "import" \notin Does => \A t \in timers : t.id \in Ids => t.content = files[t.id]
      /\ "import" \notin Does => \A id \in Sources \cap Ids \cap DOMAIN graphs :
           id \in problems \/ graphs[id].n = files[id].n \/ \E t \in timers : t.id = id
      /\ ~({"edit", "folder"} \subseteq Does) => (DOMAIN graphs \cup problems) \cap Sources \subseteq Ids
  BY DEF SourcesOK, SourceShown, DeletedIsGone
<1> DEFINE Held == /\ "edit" \notin Does => timers' = {}
                   /\ "folder" \notin Does => \A t \in timers' : t.id \in Ids'
                   /\ "import" \notin Does => \A t \in timers' : t.id \in Ids' => t.content = files'[t.id]
           Current == "import" \notin Does => \A id \in Sources \cap Ids' \cap DOMAIN graphs' :
                        id \in problems' \/ graphs'[id].n = files'[id].n \/ \E t \in timers' : t.id = id
           Gone == ~({"edit", "folder"} \subseteq Does) => (DOMAIN graphs' \cup problems') \cap Sources \subseteq Ids'
<1>5. ASSUME Held, Current, Gone PROVE SourcesOK'
  BY <1>3, <1>5 DEF SourcesOK, SourceShown, DeletedIsGone
<1>6. ASSUME UNCHANGED <<files, timers>>, problems' \subseteq problems, problems \cap Ids \subseteq problems',
             DOMAIN graphs' \cap Sources \subseteq DOMAIN graphs,
             \A id \in DOMAIN graphs' \cap Sources : graphs'[id] = graphs[id]
      PROVE  SourcesOK'
  <2>1. Ids' = Ids
    BY <1>6 DEF Ids
  <2>2. Held
    BY <1>4, <1>6, <2>1
  <2>3. Current
    BY <1>4, <1>6, <2>1
  <2>4. Gone
    BY <1>4, <1>6, <2>1
  <2> QED BY <1>5, <2>2, <2>3, <2>4
<1>7. ASSUME NEW id \in Sources, NEW content, AnalyzeSource(id, content), files' = files,
             timers' \subseteq timers, \A t \in timers \ timers' : t.id = id,
             "import" \notin Does /\ id \in Ids => content = files[id],
             ~({"edit", "folder"} \subseteq Does) => id \in Ids
      PROVE  SourcesOK'
  <2>1. Ids' = Ids /\ Committed(id, content)
    BY <1>7, SourceAnalyzed DEF Ids
  <2>2. Held
    BY <1>4, <1>7, <2>1
  <2>3. ASSUME "import" \notin Does, NEW x \in Sources \cap Ids' \cap DOMAIN graphs'
        PROVE  x \in problems' \/ graphs'[x].n = files'[x].n \/ \E t \in timers' : t.id = x
    <3>1. CASE x = id
      BY <1>7, <2>1, <2>3, <3>1 DEF Committed
    <3>2. CASE x # id
      <4>1. x \in DOMAIN graphs /\ graphs'[x] = graphs[x] /\ (x \in problems' <=> x \in problems) /\ files'[x] = files[x]
        BY <1>7, <2>1, <2>3, <3>2 DEF Committed
      <4>2. x \in problems \/ graphs[x].n = files[x].n \/ \E t \in timers : t.id = x
        BY <1>4, <2>1, <2>3, <4>1
      <4>3. (\E t \in timers : t.id = x) => \E t \in timers' : t.id = x
        BY <1>7, <3>2
      <4> QED BY <4>1, <4>2, <4>3
    <3> QED BY <3>1, <3>2
  <2>4. Gone
    BY <1>4, <1>7, <2>1 DEF Committed
  <2> QED BY <1>5, <2>2, <2>3, <2>4
<1>8. ASSUME NEW id \in Ids, NEW ok \in BOOLEAN, Edit(id, ok) PROVE SourcesOK'
  <2>1. PICK content : content = [n |-> last + 1, ok |-> ok]
    OBVIOUS
  <2>2. PICK t : t = [id |-> id, content |-> content]
    OBVIOUS
  <2>3. /\ "edit" \in Does /\ Written(id, ok) /\ UNCHANGED <<graphs, problems>>
        /\ timers' = {u \in timers : u.id # id} \cup {t} /\ t.id = id /\ t.content = content
    BY <1>8, <2>1, <2>2 DEF Edit, Schedule, shown
  <2>4. Ids' = Ids /\ files'[id] = content /\ \A x \in Ids : x # id => files'[x] = files[x]
    BY <2>1, <2>3, WrittenFiles
  <2>5. Held
    <3>1. "folder" \notin Does => \A u \in timers' : u.id \in Ids'
      BY <1>4, <2>3, <2>4
    <3>2. "import" \notin Does => \A u \in timers' : u.id \in Ids' => u.content = files'[u.id]
      BY <1>4, <2>3, <2>4
    <3> QED BY <2>3, <3>1, <3>2
  <2>6. Current
    <3> SUFFICES ASSUME "import" \notin Does, NEW x \in Sources \cap Ids' \cap DOMAIN graphs'
                 PROVE  x \in problems' \/ graphs'[x].n = files'[x].n \/ \E u \in timers' : u.id = x
      OBVIOUS
    <3>1. CASE x = id
      BY <2>3, <3>1
    <3>2. CASE x # id
      <4>1. x \in problems \/ graphs[x].n = files[x].n \/ \E u \in timers : u.id = x
        BY <1>4, <2>3, <2>4
      <4>2. (\E u \in timers : u.id = x) => \E u \in timers' : u.id = x
        BY <2>3, <3>2
      <4> QED BY <2>3, <2>4, <3>2, <4>1, <4>2
    <3> QED BY <3>1, <3>2
  <2>7. Gone
    BY <1>4, <2>3, <2>4
  <2> QED BY <1>5, <2>5, <2>6, <2>7
<1>9. ASSUME NEW id \in Ids, NEW ok \in BOOLEAN, Written(id, ok), "import" \in Does \/ id \in Binaries,
             UNCHANGED <<graphs, problems, timers>>
      PROVE  SourcesOK'
  <2>1. Ids' = Ids /\ \A x \in Ids : x # id => files'[x] = files[x]
    BY <1>9, WrittenFiles
  <2>2. "import" \notin Does => \A x \in Sources \cap Ids : files'[x] = files[x]
    BY <1>3, <1>9, <2>1
  <2>3. Held
    BY <1>2, <1>4, <1>9, <2>1, <2>2
  <2>4. Current
    BY <1>4, <1>9, <2>1, <2>2
  <2>5. Gone
    BY <1>4, <1>9, <2>1
  <2> QED BY <1>5, <2>3, <2>4, <2>5
<1>10. ASSUME NEW id \in Ids, NEW ok \in BOOLEAN, Import(id, ok) PROVE SourcesOK'
  BY <1>9, <1>10 DEF Import, shown
<1>11. ASSUME NEW id \in Ids, Rebuild(id) PROVE SourcesOK'
  BY <1>9, <1>11 DEF Rebuild, shown
<1>12. ASSUME NEW t \in timers, Fire(t) PROVE SourcesOK'
  <2>1. AnalyzeSource(t.id, t.content) /\ files' = files /\ timers' = timers \ {t}
    BY <1>12 DEF Fire
  <2>2. t.id \in Sources /\ "edit" \in Does
    BY <1>2, <1>4
  <2>3. /\ "import" \notin Does /\ t.id \in Ids => t.content = files[t.id]
        /\ ~({"edit", "folder"} \subseteq Does) => t.id \in Ids
    BY <1>4, <2>2
  <2>4. timers' \subseteq timers /\ \A u \in timers \ timers' : u.id = t.id
    BY <2>1
  <2> HIDE <1>4
  <2> QED BY <1>7, <2>1, <2>2, <2>3, <2>4
<1>13. CASE Reanalyze
  <2>1. active \in Sources /\ AnalyzeSource(active, files[active]) /\ UNCHANGED <<files, timers>>
    BY <1>13 DEF Reanalyze
  <2>2. active \in Ids
    BY <1>2, <1>3, <2>1
  <2> QED BY <1>7, <2>1, <2>2
<1>14. CASE ActiveEffect
  <2>1. UNCHANGED <<files, timers>>
    BY <1>14 DEF ActiveEffect
  <2>2. CASE active \in Sources /\ AnalyzeSource(active, files[active])
    <3>1. active \in Ids
      BY <1>2, <1>3, <2>2
    <3> QED BY <1>7, <2>1, <2>2, <3>1
  <2>3. CASE UNCHANGED <<graphs, problems>>
    BY <1>6, <2>1, <2>3
  <2> QED BY <1>14, <2>2, <2>3 DEF ActiveEffect
<1>15. CASE ClearGraph
  <2>1. graphs' = Drop(graphs, active) /\ UNCHANGED <<files, timers, problems>>
    BY <1>15 DEF ClearGraph
  <2>2. DOMAIN graphs' \subseteq DOMAIN graphs /\ \A id \in DOMAIN graphs' : graphs'[id] = graphs[id]
    BY <2>1, DropFacts
  <2> QED BY <1>6, <2>1, <2>2
<1>16. ASSUME NEW id \in Ids, Delete(id) PROVE SourcesOK'
  <2>1. /\ files' = Drop(files, id) /\ graphs' = Drop(graphs, id) /\ problems' = problems \ {id}
        /\ \/ timers' = {t \in timers : t.id # id}
           \/ "folder" \in Does /\ timers' = timers
    BY <1>16 DEF Delete
  <2>2. Ids' = Ids \ {id} /\ \A x \in Ids' : files'[x] = files[x]
    BY <2>1, DropFacts DEF Ids
  <2>3. DOMAIN graphs' = DOMAIN graphs \ {id} /\ \A x \in DOMAIN graphs' : graphs'[x] = graphs[x]
    BY <2>1, DropFacts
  <2>4. timers' \subseteq timers /\ \A t \in timers : t.id # id => t \in timers'
    BY <2>1
  <2>5. Held
    <3>1. "folder" \notin Does => \A t \in timers' : t.id \in Ids'
      BY <1>4, <2>1, <2>2
    <3> QED BY <1>4, <2>2, <2>4, <3>1
  <2>6. Current
    <3> SUFFICES ASSUME "import" \notin Does, NEW x \in Sources \cap Ids' \cap DOMAIN graphs'
                 PROVE  x \in problems' \/ graphs'[x].n = files'[x].n \/ \E t \in timers' : t.id = x
      OBVIOUS
    <3>1. x # id /\ x \in Ids /\ x \in DOMAIN graphs /\ graphs'[x] = graphs[x] /\ files'[x] = files[x]
      BY <2>2, <2>3
    <3>2. x \in problems \/ graphs[x].n = files[x].n \/ \E t \in timers : t.id = x
      BY <1>4, <3>1
    <3> QED BY <2>1, <2>4, <3>1, <3>2
  <2>7. Gone
    BY <1>4, <2>1, <2>2, <2>3
  <2> QED BY <1>5, <2>5, <2>6, <2>7
<1>17. ASSUME NEW r \in requests, Finish(r) PROVE SourcesOK'
  <2>1. UNCHANGED <<files, timers, problems>>
    BY <1>17 DEF Finish, Settled
  <2>2. r.id \in Binaries
    BY DEF RequestsTyped, Analysis
  <2>3. CASE IsNewest(r)
    <3>1. PICK g : g = [n |-> r.n, root |-> r.root]
      OBVIOUS
    <3>2. graphs' = Put(graphs, r.id, g)
      BY <1>17, <2>3, <3>1 DEF Finish
    <3>3. DOMAIN graphs' \cap Sources \subseteq DOMAIN graphs /\ \A id \in DOMAIN graphs' \cap Sources : graphs'[id] = graphs[id]
      BY <1>3, <2>2, <3>2 DEF Put
    <3> QED BY <1>6, <2>1, <3>3
  <2>4. CASE ~IsNewest(r)
    BY <1>6, <1>17, <2>1, <2>4 DEF Finish
  <2> QED BY <2>3, <2>4
<1>18. ASSUME UNCHANGED <<files, timers, graphs, problems>> PROVE SourcesOK'
  BY <1>6, <1>18
<1>19. ASSUME NEW id \in Ids, Target(id) \/ Open(id) PROVE SourcesOK'
  BY <1>18, <1>19 DEF Target, Open, shown
<1>20. ASSUME NEW r \in requests, Resolve(r) \/ Fail(r) PROVE SourcesOK'
  BY <1>18, <1>20 DEF Resolve, Fail, Settled, shown
<1>21. ASSUME NEW root, SelectFunction(root) \/ Step(root) PROVE SourcesOK'
  BY <1>18, <1>21 DEF SelectFunction, Step, shown
<1>22. CASE RegistryChanges \/ Follow
  BY <1>18, <1>22 DEF RegistryChanges, Follow, shown
<1> QED BY <1>1, <1>8, <1>10, <1>11, <1>12, <1>13, <1>14, <1>15, <1>16, <1>17, <1>19, <1>20, <1>21, <1>22 DEF Act

\* A graph and its summary come and go together, and only ClearGraph takes the
\* graph alone.
LEMMA PairsStay ==
  ASSUME FilesTyped, RequestsTyped, GraphMatchesSummary, Next
  PROVE  GraphMatchesSummary'
<1>1. setup' = setup /\ Act
  BY DEF Next
<1>2. /\ setup \in Setups /\ Binaries' = Binaries /\ Sources \cap Binaries = {}
      /\ \A t \in timers : t.id \in Sources /\ \A r \in requests : r.id \in Binaries
  BY <1>1, SetupFacts DEF FilesTyped, RequestsTyped, Analysis, Binaries, Sources
<1>3. ASSUME \A id \in Binaries \cap DOMAIN graphs' :
               /\ id \in DOMAIN graphs /\ graphs'[id] = graphs[id]
               /\ id \in DOMAIN summaries => id \in DOMAIN summaries' /\ summaries'[id] = summaries[id]
      PROVE  GraphMatchesSummary'
  BY <1>2, <1>3 DEF GraphMatchesSummary
<1>4. ASSUME NEW id \in Sources, NEW content, AnalyzeSource(id, content), summaries' = summaries
      PROVE  GraphMatchesSummary'
  <2>1. Committed(id, content)
    BY <1>4, SourceAnalyzed
  <2> QED BY <1>2, <1>3, <1>4, <2>1 DEF Committed
<1>5. ASSUME UNCHANGED <<graphs, summaries>> PROVE GraphMatchesSummary'
  BY <1>3, <1>5
<1>6. ASSUME NEW t \in timers, Fire(t) PROVE GraphMatchesSummary'
  BY <1>2, <1>4, <1>6 DEF Fire
<1>7. CASE Reanalyze
  BY <1>4, <1>7 DEF Reanalyze
<1>8. CASE ActiveEffect
  BY <1>4, <1>5, <1>8 DEF ActiveEffect
<1>9. CASE ClearGraph
  <2>1. graphs' = Drop(graphs, active) /\ summaries' = summaries
    BY <1>9 DEF ClearGraph
  <2>2. DOMAIN graphs' \subseteq DOMAIN graphs /\ \A id \in DOMAIN graphs' : graphs'[id] = graphs[id]
    BY <2>1, DropFacts
  <2> QED BY <1>3, <2>1, <2>2
<1>10. ASSUME NEW id \in Ids, Delete(id) PROVE GraphMatchesSummary'
  <2>1. graphs' = Drop(graphs, id) /\ summaries' = Drop(summaries, id)
    BY <1>10 DEF Delete
  <2>2. DOMAIN graphs' = DOMAIN graphs \ {id} /\ \A x \in DOMAIN graphs' : graphs'[x] = graphs[x]
    BY <2>1, DropFacts
  <2>3. DOMAIN summaries' = DOMAIN summaries \ {id} /\ \A x \in DOMAIN summaries' : summaries'[x] = summaries[x]
    BY <2>1, DropFacts
  <2> QED BY <1>3, <2>2, <2>3
<1>11. ASSUME NEW r \in requests, Finish(r) PROVE GraphMatchesSummary'
  <2>1. CASE IsNewest(r)
    <3>1. PICK g : g = [n |-> r.n, root |-> r.root]
      OBVIOUS
    <3>2. PICK m : m = [n |-> r.n, root |-> r.root, revision |-> r.revision]
      OBVIOUS
    <3>3. graphs' = Put(graphs, r.id, g) /\ summaries' = Put(summaries, r.id, m) /\ g.n = m.n /\ g.root = m.root
      BY <1>11, <2>1, <3>1, <3>2 DEF Finish
    <3> QED BY <1>2, <3>3 DEF Put, GraphMatchesSummary
  <2>2. CASE ~IsNewest(r)
    BY <1>5, <1>11, <2>2 DEF Finish
  <2> QED BY <2>1, <2>2
<1>12. ASSUME NEW id \in Ids, NEW ok \in BOOLEAN, Edit(id, ok) \/ Import(id, ok) PROVE GraphMatchesSummary'
  BY <1>5, <1>12 DEF Edit, Import, shown
<1>13. ASSUME NEW id \in Ids, Target(id) \/ Rebuild(id) \/ Open(id) PROVE GraphMatchesSummary'
  BY <1>5, <1>13 DEF Target, Rebuild, Open, shown
<1>14. ASSUME NEW r \in requests, Resolve(r) \/ Fail(r) PROVE GraphMatchesSummary'
  BY <1>5, <1>14 DEF Resolve, Fail, shown
<1>15. ASSUME NEW root, SelectFunction(root) \/ Step(root) PROVE GraphMatchesSummary'
  BY <1>5, <1>15 DEF SelectFunction, Step, shown
<1>16. CASE RegistryChanges \/ Follow
  BY <1>5, <1>16 DEF RegistryChanges, Follow, shown
<1> QED BY <1>1, <1>6, <1>7, <1>8, <1>9, <1>10, <1>11, <1>12, <1>13, <1>14, <1>15, <1>16 DEF Act

-----------------------------------------------------------------------------
(***************************************************************************)
(* Requests that overtake each other                                       *)
(***************************************************************************)

\* The request with the last number of a file is for the function wanted, and
\* as long as nothing is shown for it, it is under way.
LEMMA NumbersStay ==
  ASSUME FilesTyped, ShownTyped, RequestsTyped, NumbersOK, Next
  PROVE  NumbersOK'
<1>1. setup' = setup /\ Act
  BY DEF Next
<1>2. /\ setup \in Setups /\ Binaries' = Binaries /\ Does' = Does
      /\ Sources \cap Binaries = {} /\ None \notin Binaries /\ None \notin Functions /\ Entry \in Functions
      /\ active \in Ids \cup {None} /\ Ids \subseteq Sources \cup Binaries /\ pc \in Functions \cup {None}
  BY <1>1, SetupFacts DEF FilesTyped, Binaries, Does
<1> SUFFICES ASSUME {"execute", "rebuild"} \cap Does = {}
             PROVE  NumbersOK'
  BY <1>2 DEF NumbersOK
<1> DEFINE Numbered == \A r \in requests' :
             /\ r.kind \in {"view", "follow"} /\ r.number <= sequence'[r.id]
             /\ r.number = sequence'[r.id] /\ wanted'[r.id] # None => r.root = wanted'[r.id]
           Answered == \A id \in Binaries \cap Ids' :
             \/ \E r \in requests' : r.id = id /\ r.number = sequence'[id]
             \/ wanted'[id] = None
             \/ id \in DOMAIN summaries' /\ summaries'[id].root = wanted'[id]
<1>3. ASSUME Numbered, Answered PROVE NumbersOK'
  BY <1>2, <1>3 DEF NumbersOK
<1>4. /\ sequence \in [Binaries -> Nat] /\ wanted \in [Binaries -> Functions \cup {None}]
      /\ \A r \in requests : r \in Analysis /\ r.id \in Binaries /\ r.number \in Nat
  BY DEF RequestsTyped, Analysis
<1>5. /\ \A r \in requests :
           /\ r.kind \in {"view", "follow"} /\ r.number <= sequence[r.id]
           /\ r.number = sequence[r.id] /\ wanted[r.id] # None => r.root = wanted[r.id]
      /\ \A id \in Binaries \cap Ids :
           \/ \E r \in requests : r.id = id /\ r.number = sequence[id]
           \/ wanted[id] = None
           \/ id \in DOMAIN summaries /\ summaries[id].root = wanted[id]
  BY DEF NumbersOK
<1>6. ASSUME UNCHANGED <<requests, sequence, wanted>>, Ids' \subseteq Ids,
             \A id \in Ids' \cap DOMAIN summaries : id \in DOMAIN summaries' /\ summaries'[id] = summaries[id]
      PROVE  NumbersOK'
  <2>1. Numbered
    BY <1>5, <1>6
  <2>2. Answered
    BY <1>5, <1>6
  <2> QED BY <1>3, <2>1, <2>2
<1>7. ASSUME NEW id \in Binaries \cap Ids, NEW root \in Functions, NEW kind \in {"view", "follow"},
             Request(id, root, kind), UNCHANGED <<files, summaries>>
      PROVE  NumbersOK'
  <2>1. PICK q : Newly(q, id, root, kind)
    BY <1>7, RequestMade
  <2>2. /\ requests' = requests \cup {q} /\ q.id = id /\ q.kind = kind /\ q.root = root /\ q.number = sequence'[id]
        /\ sequence'[id] = sequence[id] + 1 /\ sequence[id] \in Nat /\ wanted'[id] = root
        /\ \A x \in Binaries : x # id => sequence'[x] = sequence[x] /\ wanted'[x] = wanted[x]
        /\ Ids' = Ids
    BY <1>4, <1>7, <2>1 DEF Newly, Ids
  <2>3. ASSUME NEW r \in requests'
        PROVE  /\ r.kind \in {"view", "follow"} /\ r.number <= sequence'[r.id]
               /\ r.number = sequence'[r.id] /\ wanted'[r.id] # None => r.root = wanted'[r.id]
    <3>1. CASE r = q
      BY <2>2, <3>1
    <3>2. CASE r \in requests /\ r.id = id
      <4>1. r.kind \in {"view", "follow"} /\ r.number <= sequence[id] /\ r.number \in Nat
        BY <1>4, <1>5, <3>2
      <4>2. r.number <= sequence'[id] /\ r.number # sequence'[id]
        BY <2>2, <4>1
      <4> QED BY <3>2, <4>1, <4>2
    <3>3. CASE r \in requests /\ r.id # id
      <4>1. sequence'[r.id] = sequence[r.id] /\ wanted'[r.id] = wanted[r.id]
        BY <1>4, <2>2, <3>3
      <4> QED BY <1>5, <3>3, <4>1
    <3> QED BY <2>2, <3>1, <3>2, <3>3
  <2>4. ASSUME NEW x \in Binaries \cap Ids'
        PROVE  \/ \E r \in requests' : r.id = x /\ r.number = sequence'[x]
               \/ wanted'[x] = None
               \/ x \in DOMAIN summaries' /\ summaries'[x].root = wanted'[x]
    <3>1. CASE x = id
      BY <2>2, <3>1
    <3>2. CASE x # id
      BY <1>5, <1>7, <2>2, <3>2
    <3> QED BY <3>1, <3>2
  <2> QED BY <1>3, <2>3, <2>4
<1>8. ASSUME NEW r \in requests, Resolve(r) PROVE NumbersOK'
  <2>1. PICK q \in Analysis : Same(q, r) /\ requests' = (requests \ {r}) \cup {q}
    BY <1>8, RegistryRead DEF FilesTyped
  <2>2. UNCHANGED <<sequence, wanted, summaries>> /\ Ids' = Ids
    BY <1>8 DEF Resolve, shown, Ids
  <2>3. ASSUME NEW p \in requests' PROVE \E o \in requests : Same(p, o)
    BY <2>1, <2>3 DEF Same
  <2>4. Numbered
    BY <1>5, <2>2, <2>3 DEF Same
  <2>5. ASSUME NEW o \in requests PROVE \E p \in requests' : Same(p, o)
    BY <2>1, <2>5 DEF Same
  <2>6. Answered
    BY <1>5, <2>2, <2>5 DEF Same
  <2> QED BY <1>3, <2>4, <2>6
<1>9. ASSUME NEW r \in requests, Finish(r) PROVE NumbersOK'
  <2>1. requests' = requests \ {r} /\ UNCHANGED <<sequence, wanted>> /\ Ids' = Ids
    BY <1>9 DEF Finish, Settled, Ids
  <2>2. Numbered
    BY <1>5, <2>1
  <2>3. CASE IsNewest(r)
    <3>1. r.number = sequence[r.id] /\ (wanted[r.id] # None => r.root = wanted[r.id])
      BY <1>5, <2>3 DEF IsNewest
    <3>2. PICK m : m = [n |-> r.n, root |-> r.root, revision |-> r.revision]
      OBVIOUS
    <3>3. summaries' = Put(summaries, r.id, m) /\ m.root = r.root
      BY <1>9, <2>3, <3>2 DEF Finish
    <3>4. /\ DOMAIN summaries' = DOMAIN summaries \cup {r.id} /\ summaries'[r.id] = m
          /\ \A x \in DOMAIN summaries : x # r.id => summaries'[x] = summaries[x]
      BY <3>3 DEF Put
    <3>5. ASSUME NEW x \in Binaries \cap Ids'
          PROVE  \/ \E o \in requests' : o.id = x /\ o.number = sequence'[x]
                 \/ wanted'[x] = None
                 \/ x \in DOMAIN summaries' /\ summaries'[x].root = wanted'[x]
      <4>1. CASE x = r.id
        BY <2>1, <3>1, <3>3, <3>4, <4>1
      <4>2. CASE x # r.id
        BY <1>5, <2>1, <3>4, <4>2
      <4> QED BY <4>1, <4>2
    <3> QED BY <1>3, <2>2, <3>5
  <2>4. CASE ~IsNewest(r)
    <3>1. r.number # sequence[r.id] /\ summaries' = summaries
      BY <1>9, <2>4 DEF IsNewest, Finish
    <3>2. Answered
      BY <1>5, <2>1, <3>1
    <3> QED BY <1>3, <2>2, <3>2
  <2> QED BY <2>3, <2>4
<1>10. ASSUME NEW r \in requests, Fail(r) PROVE NumbersOK'
  <2>1. requests' = requests \ {r} /\ UNCHANGED <<sequence, summaries>> /\ Ids' = Ids
    BY <1>10 DEF Fail, Settled, Ids
  <2>2. CASE IsNewest(r)
    <3>1. wanted'[r.id] = None /\ \A x \in Binaries : x # r.id => wanted'[x] = wanted[x]
      BY <1>4, <1>10, <2>2 DEF Fail
    <3>2. Numbered
      BY <1>4, <1>5, <2>1, <3>1
    <3>3. Answered
      BY <1>4, <1>5, <2>1, <3>1
    <3> QED BY <1>3, <3>2, <3>3
  <2>3. CASE ~IsNewest(r)
    <3>1. r.number # sequence[r.id] /\ wanted' = wanted
      BY <1>10, <2>3 DEF IsNewest, Fail
    <3>2. Numbered
      BY <1>5, <2>1, <3>1
    <3>3. Answered
      BY <1>5, <2>1, <3>1
    <3> QED BY <1>3, <3>2, <3>3
  <2> QED BY <2>2, <2>3
<1>11. ASSUME NEW id \in Ids, Delete(id) PROVE NumbersOK'
  <2>1. UNCHANGED <<requests, sequence, wanted>> /\ files' = Drop(files, id) /\ summaries' = Drop(summaries, id)
    BY <1>11 DEF Delete
  <2>2. Ids' = Ids \ {id} /\ DOMAIN summaries' = DOMAIN summaries \ {id}
        /\ \A x \in DOMAIN summaries \ {id} : summaries'[x] = summaries[x]
    BY <2>1, DropFacts DEF Ids
  <2> QED BY <1>6, <2>1, <2>2
<1>12. ASSUME NEW id \in Ids, NEW ok \in BOOLEAN, Edit(id, ok) \/ Import(id, ok) PROVE NumbersOK'
  <2>1. Written(id, ok) /\ UNCHANGED <<requests, sequence, wanted, summaries>>
    BY <1>12 DEF Edit, Import, shown
  <2>2. Ids' = Ids
    BY <2>1, WrittenFiles
  <2> QED BY <1>6, <2>1, <2>2
<1>13. ASSUME NEW t \in timers, Fire(t) PROVE NumbersOK'
  BY <1>6, <1>13 DEF Fire, Ids
<1>14. CASE Reanalyze \/ ClearGraph
  BY <1>6, <1>14 DEF Reanalyze, ClearGraph, Ids
<1>15. CASE RegistryChanges
  <2>1. UNCHANGED <<files, summaries>>
    BY <1>15 DEF RegistryChanges, shown
  <2>2. CASE active \in Binaries
    <3>1. Request(active, IF active \in DOMAIN summaries THEN summaries[active].root ELSE Entry, "view")
      BY <1>15, <2>2 DEF RegistryChanges
    <3>2. PICK root : root = IF active \in DOMAIN summaries THEN summaries[active].root ELSE Entry
      OBVIOUS
    <3>3. root \in Functions /\ active \in Ids
      BY <1>2, <2>2, <3>2 DEF ShownTyped
    <3> QED BY <1>7, <2>1, <2>2, <3>1, <3>2, <3>3
  <2>3. CASE active \notin Binaries
    BY <1>6, <1>15, <2>1, <2>3 DEF RegistryChanges, Ids
  <2> QED BY <2>2, <2>3
<1>16. CASE Follow
  <2>1. UNCHANGED <<files, summaries>>
    BY <1>16 DEF Follow, shown
  <2>2. CASE UNCHANGED <<sequence, requests, wanted>>
    BY <1>6, <2>1, <2>2 DEF Ids
  <2>3. CASE active \in Binaries /\ pc # None /\ Request(active, pc, "follow")
    <3>1. active \in Ids /\ pc \in Functions
      BY <1>2, <2>3
    <3> QED BY <1>7, <2>1, <2>3, <3>1
  <2> QED BY <1>16, <2>2, <2>3 DEF Follow
<1>17. CASE ActiveEffect
  <2>1. UNCHANGED <<files, summaries>>
    BY <1>17 DEF ActiveEffect
  <2>2. CASE UNCHANGED <<sequence, requests, wanted>>
    BY <1>6, <2>1, <2>2 DEF Ids
  <2>3. CASE active \in Binaries /\ Request(active, Entry, "view")
    <3>1. active \in Ids
      BY <1>2, <2>3
    <3> QED BY <1>2, <1>7, <2>1, <2>3, <3>1
  <2> QED BY <1>17, <2>2, <2>3 DEF ActiveEffect
<1>18. ASSUME NEW root \in Functions, SelectFunction(root) PROVE NumbersOK'
  <2>1. active \in Binaries /\ Request(active, root, "view") /\ UNCHANGED <<files, summaries>>
    BY <1>18 DEF SelectFunction, shown
  <2>2. active \in Ids
    BY <1>2, <2>1
  <2> QED BY <1>7, <2>1, <2>2
<1>19. ASSUME NEW function, Step(function) PROVE NumbersOK'
  BY <1>6, <1>19 DEF Step, shown, Ids
<1>20. ASSUME NEW id \in Ids, Open(id) PROVE NumbersOK'
  BY <1>6, <1>20 DEF Open, shown, Ids
<1>21. ASSUME NEW id \in Ids, Target(id) \/ Rebuild(id) PROVE NumbersOK'
  BY <1>2, <1>21, Unnumbered
<1> QED BY <1>1, <1>8, <1>9, <1>10, <1>11, <1>12, <1>13, <1>14, <1>15, <1>16, <1>17, <1>18, <1>19, <1>20, <1>21 DEF Act

-----------------------------------------------------------------------------
(***************************************************************************)
(* The view that follows execution                                         *)
(***************************************************************************)

\* Pending(f) of the next state.
PendingNext(f) ==
  \E r \in requests' : r.id = active' /\ r.kind = "follow" /\ r.number = sequence'[active'] /\ r.root = f

\* The key the follow effect keeps has its request under way, and the effect
\* has asked for the function execution is in, if that is not shown.
LEMMA FollowStays ==
  ASSUME FilesTyped, RequestsTyped, FollowOK, Next
  PROVE  FollowOK'
<1>1. setup' = setup /\ Act
  BY DEF Next
<1>2. /\ setup \in Setups /\ Binaries' = Binaries /\ Does' = Does /\ None \notin Binaries
      /\ active \in Ids \cup {None} /\ effects \subseteq {"active", "follow"}
  BY <1>1, SetupFacts DEF FilesTyped, Binaries, Does
<1>3. sequence \in [Binaries -> Nat] /\ wanted \in [Binaries -> Functions \cup {None}]
      /\ \A r \in requests : r.id \in Binaries
  BY DEF RequestsTyped, Analysis
<1>4. /\ active \in Binaries /\ pc # None => active \in DOMAIN summaries
      /\ "active" \in effects => pc = None /\ analysisKey = None
      /\ {"select", "registry"} \cap Does = {} => KeyOK /\ PausedOK
  BY DEF FollowOK
<1> DEFINE Free == {"select", "registry"} \cap Does = {}
           Paused == active' \in Binaries /\ pc' # None => active' \in DOMAIN summaries'
           NewWish == "active" \in effects' => pc' = None /\ analysisKey' = None
           Key == analysisKey' # None => active' \in Binaries /\ PendingNext(analysisKey')
           Asking == effects' = {} /\ active' \in Binaries /\ pc' # None /\ wanted'[active'] # None =>
                       summaries'[active'].root = pc' \/ PendingNext(pc')
<1>5. ASSUME Paused, NewWish, Free => Key /\ Asking PROVE FollowOK'
  <2>1. Key => KeyOK'
    BY <1>2 DEF KeyOK, Pending, PendingNext
  <2>2. Asking => PausedOK'
    BY <1>2 DEF PausedOK, Pending, PendingNext, Idle
  <2> QED BY <1>2, <1>5, <2>1, <2>2 DEF FollowOK
<1>6. ASSUME NEW f, Pending(f), UNCHANGED <<active, sequence>>,
             \A r \in requests : r.id = active /\ r.number = sequence[active] /\ r.kind = "follow" /\ r.root = f =>
               \E q \in requests' : Same(q, r)
      PROVE  PendingNext(f)
  BY <1>6 DEF Pending, PendingNext, Same
\* Another active file, and a change after which the effect is to run.
<1>7. ASSUME pc' = None, analysisKey' = None PROVE FollowOK'
  BY <1>5, <1>7
<1>8. ASSUME UNCHANGED <<active, sequence>>, \A r \in requests : \E q \in requests' : Same(q, r),
             analysisKey' = analysisKey, effects' = {"follow"}, Paused
      PROVE  FollowOK'
  <2>1. Free => Key
    BY <1>4, <1>6, <1>8 DEF KeyOK
  <2> QED BY <1>5, <1>8, <2>1
\* A change of nothing the view follows.
<1>9. ASSUME UNCHANGED <<active, sequence, analysisKey, pc, effects, wanted>>,
             \A r \in requests : \E q \in requests' : Same(q, r),
             active \in DOMAIN summaries =>
               active \in DOMAIN summaries' /\ summaries'[active] = summaries[active]
      PROVE  FollowOK'
  <2>1. Free => Key
    BY <1>4, <1>6, <1>9 DEF KeyOK
  <2>2. ASSUME Free, effects' = {}, active' \in Binaries, pc' # None, wanted'[active'] # None
        PROVE  summaries'[active'].root = pc' \/ PendingNext(pc')
    <3>1. summaries[active].root = pc \/ Pending(pc)
      BY <1>4, <1>9, <2>2 DEF PausedOK, Idle
    <3> QED BY <1>4, <1>6, <1>9, <2>2, <3>1
  <2>3. Paused /\ NewWish
    BY <1>4, <1>9
  <2> QED BY <1>5, <2>1, <2>2, <2>3
<1>10. ASSUME NEW q, requests' = requests \cup {q} PROVE \A r \in requests : \E o \in requests' : Same(o, r)
  BY <1>10 DEF Same
<1>11. ASSUME requests' = requests PROVE \A r \in requests : \E o \in requests' : Same(o, r)
  BY <1>11 DEF Same
<1>12. ASSUME NEW id \in Ids, NEW ok \in BOOLEAN, Edit(id, ok) PROVE FollowOK'
  BY <1>9, <1>11, <1>12 DEF Edit, shown
<1>13. ASSUME NEW id \in Ids, NEW ok \in BOOLEAN, Import(id, ok) PROVE FollowOK'
  BY <1>4, <1>8, <1>11, <1>13 DEF Import, shown
<1>14. ASSUME NEW t \in timers, Fire(t) PROVE FollowOK'
  BY <1>9, <1>11, <1>14 DEF Fire
<1>15. CASE Reanalyze
  BY <1>9, <1>11, <1>15 DEF Reanalyze
<1>16. CASE ClearGraph
  BY <1>4, <1>8, <1>11, <1>16 DEF ClearGraph
<1>17. ASSUME ~Free, UNCHANGED <<active, pc, analysisKey, effects, summaries>> PROVE FollowOK'
  BY <1>4, <1>5, <1>17
<1>18. CASE RegistryChanges
  BY <1>17, <1>18 DEF RegistryChanges, shown
<1>19. ASSUME NEW root, SelectFunction(root) PROVE FollowOK'
  BY <1>17, <1>19 DEF SelectFunction, shown
<1>20. ASSUME NEW function, Step(function) PROVE FollowOK'
  BY <1>8, <1>11, <1>20 DEF Step, shown
<1>21. ASSUME NEW id \in Ids, Open(id) PROVE FollowOK'
  BY <1>7, <1>21 DEF Open, Activate
<1>22. ASSUME NEW id \in Ids, Target(id) PROVE FollowOK'
  BY <1>9, <1>10, <1>22 DEF Target, shown
<1>23. ASSUME NEW id \in Ids, Rebuild(id) PROVE FollowOK'
  <2>1. CASE active # id
    BY <1>7, <1>23, <2>1 DEF Rebuild, Activate
  <2>2. CASE active = id
    BY <1>4, <1>8, <1>10, <1>23, <2>2 DEF Rebuild, shown
  <2> QED BY <2>1, <2>2
<1>24. ASSUME NEW id \in Ids, Delete(id) PROVE FollowOK'
  <2>1. CASE active = id
    BY <1>7, <1>24, <2>1 DEF Delete, Activate
  <2>2. CASE active # id
    <3>1. /\ UNCHANGED <<active, pc, analysisKey, effects, sequence, requests, wanted>>
          /\ summaries' = Drop(summaries, id)
      BY <1>24, <2>2 DEF Delete
    <3>2. active \in DOMAIN summaries => active \in DOMAIN summaries' /\ summaries'[active] = summaries[active]
      BY <2>2, <3>1, DropFacts
    <3> QED BY <1>9, <1>11, <3>1, <3>2
  <2> QED BY <2>1, <2>2
<1>25. ASSUME NEW r \in requests, Resolve(r) PROVE FollowOK'
  <2>1. PICK q \in Analysis : Same(q, r) /\ requests' = (requests \ {r}) \cup {q}
    BY <1>25, RegistryRead DEF FilesTyped
  <2>2. \A p \in requests : \E o \in requests' : Same(o, p)
    BY <2>1 DEF Same
  <2> QED BY <1>9, <1>25, <2>2 DEF Resolve, shown
\* A request that ends takes its key with it.
<1>26. ASSUME NEW r \in requests, Settled(r), effects' \in {effects, {"follow"}},
              active \in DOMAIN summaries => active \in DOMAIN summaries',
              effects' = {} /\ wanted'[active] # None =>
                summaries' = summaries /\ wanted'[active] = wanted[active]
                /\ (r.id = active => r.number # sequence[active] \/ r.kind # "follow"),
              effects = {}
       PROVE  FollowOK'
  <2>1. UNCHANGED <<active, pc, sequence>> /\ requests' = requests \ {r}
        /\ analysisKey' = IF r.kind = "follow" /\ analysisKey = r.root THEN None ELSE analysisKey
    BY <1>26 DEF Settled
  <2>2. Paused /\ NewWish
    BY <1>4, <1>26, <2>1
  <2>3. ASSUME NEW o \in requests, o # r PROVE \E q \in requests' : Same(q, o)
    BY <2>1, <2>3 DEF Same
  <2>4. ASSUME Free, analysisKey' # None PROVE active' \in Binaries /\ PendingNext(analysisKey')
    <3>1. analysisKey' = analysisKey /\ ~(r.kind = "follow" /\ analysisKey = r.root)
      BY <2>1, <2>4
    <3>2. active \in Binaries /\ Pending(analysisKey)
      BY <1>4, <2>4, <3>1 DEF KeyOK
    <3>3. \A o \in requests : o.kind = "follow" /\ o.root = analysisKey => \E q \in requests' : Same(q, o)
      BY <2>3, <3>1
    <3> QED BY <1>6, <2>1, <3>1, <3>2, <3>3
  <2>5. ASSUME Free, effects' = {}, active' \in Binaries, pc' # None, wanted'[active'] # None
        PROVE  summaries'[active'].root = pc' \/ PendingNext(pc')
    <3>1. summaries' = summaries /\ wanted'[active] = wanted[active]
          /\ (r.id = active => r.number # sequence[active] \/ r.kind # "follow")
      BY <1>26, <2>1, <2>5
    <3>2. summaries[active].root = pc \/ Pending(pc)
      BY <1>4, <1>26, <2>1, <2>5, <3>1 DEF PausedOK, Idle
    <3>3. \A o \in requests : o.id = active /\ o.number = sequence[active] /\ o.kind = "follow" => \E q \in requests' : Same(q, o)
      BY <2>3, <3>1
    <3>4. Pending(pc) => PendingNext(pc)
      BY <1>6, <2>1, <3>3
    <3> QED BY <2>1, <3>1, <3>2, <3>4
  <2> QED BY <1>5, <2>2, <2>4, <2>5
<1>27. ASSUME NEW r \in requests, Finish(r) PROVE FollowOK'
  <2>1. Settled(r) /\ wanted' = wanted /\ effects = {}
    BY <1>27 DEF Finish, Idle
  <2>2. CASE IsNewest(r)
    <3>1. PICK m : m = [n |-> r.n, root |-> r.root, revision |-> r.revision]
      OBVIOUS
    <3>2. summaries' = Put(summaries, r.id, m) /\ effects' = {"follow"}
      BY <1>27, <2>2, <3>1 DEF Finish
    <3>3. active \in DOMAIN summaries => active \in DOMAIN summaries'
      BY <3>2 DEF Put
    <3> QED BY <1>26, <2>1, <3>2, <3>3
  <2>3. CASE ~IsNewest(r)
    <3>1. UNCHANGED <<summaries, effects>> /\ r.number # sequence[r.id]
      BY <1>27, <2>3 DEF Finish, IsNewest
    <3> QED BY <1>26, <2>1, <3>1
  <2> QED BY <2>2, <2>3
<1>28. ASSUME NEW r \in requests, Fail(r) PROVE FollowOK'
  <2>1. Settled(r) /\ effects = {} /\ UNCHANGED <<summaries, effects>>
    BY <1>28 DEF Fail, Idle
  <2>2. CASE IsNewest(r)
    <3>1. wanted' = [wanted EXCEPT ![r.id] = None] /\ r.id \in Binaries
      BY <1>3, <1>28, <2>2 DEF Fail
    <3>2. wanted'[r.id] = None /\ (active # r.id => wanted'[active] = wanted[active])
      BY <1>3, <3>1
    <3> QED BY <1>26, <2>1, <3>2
  <2>3. CASE ~IsNewest(r)
    <3>1. wanted' = wanted /\ r.number # sequence[r.id]
      BY <1>28, <2>3 DEF Fail, IsNewest
    <3> QED BY <1>26, <2>1, <3>1
  <2> QED BY <2>2, <2>3
<1>29. ASSUME NEW root, NEW kind, active \in Binaries, Request(active, root, kind), UNCHANGED active
       PROVE  kind = "follow" => PendingNext(root)
  <2>1. PICK q : q = Asked(active, files[active], root, kind)
    OBVIOUS
  <2>2. q.id = active /\ q.kind = kind /\ q.root = root /\ q.number = sequence[active] + 1
    BY <2>1 DEF Asked
  <2>3. q \in requests' /\ sequence'[active] = sequence[active] + 1
    BY <1>3, <1>29, <2>1 DEF Request
  <2> QED BY <1>29, <2>2, <2>3 DEF PendingNext
<1>30. CASE Follow
  <2>1. effects' = {} /\ UNCHANGED <<active, summaries, pc>>
    BY <1>30 DEF Follow, shown
  <2>2. Paused /\ NewWish
    BY <1>4, <2>1
  <2>3. CASE /\ active \in Binaries /\ pc # None /\ analysisKey = pc
             /\ UNCHANGED <<analysisKey, sequence, requests, wanted>>
    <3>1. Free => PendingNext(pc)
      BY <1>4, <1>6, <1>11, <2>1, <2>3 DEF KeyOK
    <3> QED BY <1>5, <2>1, <2>2, <2>3, <3>1
  <2>4. CASE active \in Binaries /\ analysisKey' = pc /\ Request(active, pc, "follow")
    BY <1>5, <1>29, <2>1, <2>2, <2>4
  <2>5. CASE active \in Binaries /\ pc \in {None, summaries[active].root} /\ analysisKey' = None
    BY <1>5, <2>1, <2>2, <2>5
  <2>6. CASE active \notin Binaries \cap DOMAIN summaries /\ UNCHANGED <<analysisKey, sequence, requests, wanted>>
    <3>1. Free => Key
      BY <1>4, <1>6, <1>11, <2>1, <2>6 DEF KeyOK
    <3> QED BY <1>4, <1>5, <2>1, <2>2, <2>6, <3>1
  <2> QED BY <1>30, <2>3, <2>4, <2>5, <2>6 DEF Follow
<1>31. CASE ActiveEffect
  BY <1>4, <1>7, <1>31 DEF ActiveEffect
<1> QED BY <1>1, <1>12, <1>13, <1>14, <1>15, <1>16, <1>18, <1>19, <1>20, <1>21, <1>22, <1>23, <1>24, <1>25, <1>27, <1>28, <1>30, <1>31 DEF Act

-----------------------------------------------------------------------------
(***************************************************************************)
(* The invariant                                                           *)
(***************************************************************************)

\* Nothing is shown, asked for or written at first.
LEMMA InitEstablishes ==
  ASSUME Init
  PROVE  IInv
<1>1. /\ setup \in Setups /\ files = [id \in Sources \cup Binaries |-> [n |-> 0, ok |-> TRUE]]
      /\ active = None /\ graphs = <<>> /\ summaries = <<>> /\ problems = {} /\ timers = {}
      /\ sequence = [id \in Binaries |-> 0] /\ requests = {} /\ cache = <<>> /\ revision = 0
      /\ pc = None /\ analysisKey = None /\ effects = {} /\ last = 0
      /\ wanted = [id \in Binaries |-> None]
  BY DEF Init
<1>2. None \notin Binaries
  BY <1>1, SetupFacts
<1>3. DOMAIN graphs = {} /\ DOMAIN summaries = {} /\ DOMAIN cache = {}
  BY <1>1
<1>4. FilesTyped
  <2>1. Ids = Sources \cup Binaries /\ \A id \in Ids : files[id] = [n |-> 0, ok |-> TRUE]
    BY <1>1 DEF Ids
  <2>2. \A id \in Ids : files[id] \in Content /\ files[id].n <= last
    BY <1>1, <2>1 DEF Content
  <2> QED BY <1>1, <2>1, <2>2 DEF FilesTyped
<1>5. ShownTyped
  BY <1>1, <1>3 DEF ShownTyped
<1>6. RequestsTyped
  BY <1>1, <1>3, FS_EmptySet DEF RequestsTyped
<1>7. SourcesOK
  BY <1>1, <1>3 DEF SourcesOK, SourceShown, DeletedIsGone
<1>8. GraphMatchesSummary
  BY <1>3 DEF GraphMatchesSummary
<1>9. NumbersOK
  BY <1>1 DEF NumbersOK
<1>10. FollowOK
  BY <1>1, <1>2 DEF FollowOK, KeyOK, PausedOK
<1> QED BY <1>4, <1>5, <1>6, <1>7, <1>8, <1>9, <1>10 DEF IInv, Typed

\* Every step keeps every part.
LEMMA NextPreserves ==
  ASSUME IInv, [Next]_vars
  PROVE  IInv'
<1>1. FilesTyped /\ ShownTyped /\ RequestsTyped /\ SourcesOK /\ GraphMatchesSummary /\ NumbersOK /\ FollowOK
  BY DEF IInv, Typed
<1>2. CASE Next
  BY <1>1, <1>2, FilesStayTyped, ShownStaysTyped, RequestsStayTyped, SourcesStay, PairsStay, NumbersStay, FollowStays
  DEF IInv, Typed
<1>3. CASE UNCHANGED vars
  <2>1. /\ UNCHANGED <<setup, files, active, graphs, summaries, problems, timers, sequence, requests>>
        /\ UNCHANGED <<cache, revision, pc, analysisKey, effects, wanted, last>>
    BY <1>3 DEF vars, shown
  <2>2. /\ Sources' = Sources /\ Binaries' = Binaries /\ Does' = Does /\ Ids' = Ids
    BY <2>1 DEF Sources, Binaries, Does, Ids
  <2>3. FilesTyped'
    BY <1>1, <2>1, <2>2 DEF FilesTyped
  <2>4. ShownTyped'
    BY <1>1, <2>1, <2>2 DEF ShownTyped
  <2>5. RequestsTyped'
    BY <1>1, <2>1, <2>2 DEF RequestsTyped, Analysis
  <2>6. SourcesOK'
    BY <1>1, <2>1, <2>2 DEF SourcesOK, SourceShown, DeletedIsGone
  <2>7. GraphMatchesSummary'
    BY <1>1, <2>1, <2>2 DEF GraphMatchesSummary
  <2>8. NumbersOK'
    BY <1>1, <2>1, <2>2 DEF NumbersOK
  <2>9. FollowOK'
    BY <1>1, <2>1, <2>2 DEF FollowOK, KeyOK, PausedOK, Pending, Idle
  <2> QED BY <2>3, <2>4, <2>5, <2>6, <2>7, <2>8, <2>9 DEF IInv, Typed
<1> QED BY <1>2, <1>3

\* With no analysis left, the invariant is what App shows.
LEMMA InvariantShows ==
  ASSUME IInv
  PROVE  ShownIsCurrent
<1>1. FilesTyped /\ ShownTyped /\ RequestsTyped /\ SourcesOK /\ GraphMatchesSummary /\ NumbersOK /\ FollowOK
  BY DEF IInv, Typed
<1>2. TypeOK
  BY <1>1 DEF FilesTyped, ShownTyped, RequestsTyped, Analysis, TypeOK
<1>3. SourceShown /\ DeletedIsGone
  BY <1>1 DEF SourcesOK
<1>4. NewestShown
  BY <1>1 DEF NumbersOK, NewestShown
<1>5. FollowsExecution
  BY <1>1 DEF FollowOK, PausedOK, Pending, FollowsExecution
<1> QED BY <1>1, <1>2, <1>3, <1>4, <1>5 DEF ShownIsCurrent

\* The types, the timers, the numbers and the key are as the invariant says.
THEOREM AnalysisInvariance == Spec => []IInv
<1>1. Init => IInv
  BY InitEstablishes
<1>2. IInv /\ [Next]_vars => IInv'
  BY NextPreserves
<1> QED BY <1>1, <1>2, PTL DEF Spec

\* However edits, analyses, deletions and pauses overtake each other, what App
\* shows is current once nothing is under way, for every set of files and
\* functions and any number of versions and requests.
THEOREM ShownStaysCurrent == Spec => []ShownIsCurrent
<1>1. IInv => ShownIsCurrent
  BY InvariantShows
<1> QED BY <1>1, AnalysisInvariance, PTL

-----------------------------------------------------------------------------
(***************************************************************************)
(* The dock.  A render's effects see what the last render's saw: the        *)
(* summaries are those of the file seen, a pause that is not new is shown   *)
(* unless the user chose another view, and after a first render the         *)
(* effects have nothing left to do but for the selection, after a second    *)
(* one nothing at all.                                                      *)
(***************************************************************************)
Roots == {Absent} \cup UNION {DOMAIN Programs[b].functions : b \in Executables}

DockTyped ==
  /\ DockTypeOK /\ dockSetup \in DockSetups
  /\ viewsOf \in [Files -> [root : Roots, graph : BOOLEAN]]
  /\ \A f \in Files \cap Executables : viewsOf[f].graph => viewsOf[f].root # Absent
  /\ asked # Absent => activeFile \in Executables /\ asked \in DOMAIN Program.functions
  /\ address \in Nat
  /\ seen = [active |-> seen.active, binary |-> seen.binary, follow |-> seen.follow, graph |-> seen.graph]

\* What is selected belongs to the file it was selected in.
SelectedOwn == selected # Absent => \E n : selected = <<IF Opened THEN seen.active ELSE activeFile, n>>

\* What was seen of one file.
SeenOK ==
  /\ seen.follow = <<>> \/ \E r, a, n : /\ seen.follow = <<seen.active, r, a, n>>
                                        /\ seen.binary = IF r # Absent THEN seen.active ELSE Absent
  /\ View.graph /\ ~seen.graph /\ ~Opened => Moved

HistoryOK ==
  IF seen.binary = Absent THEN history = <<>>
  ELSE /\ history = [f \in DOMAIN history |-> seen.binary]
       /\ seen.binary \in Executables /\ DOMAIN history \subseteq DOMAIN Programs[seen.binary].functions

PauseOK == HasSummary /\ address # 0 /\ ~chosen /\ ~Moved => tab = "cfg" /\ cfgView = "function"

\* Nothing is left to do but for the selection.
Calm ==
  /\ ~Opened /\ ~Fresh /\ (Moved => address = 0) /\ seen.graph = View.graph
  /\ ~HasSummary => tab \in SourceTabs
  /\ HasSummary => View.root \in DOMAIN history

Kept ==
  IF ExecutionNode # Absent THEN ExecutionNode
  ELSE IF tab = "disassembly" \/ selected \notin ShownIds THEN Absent ELSE selected

EffectsOK ==
  /\ renders <= 3
  /\ due => /\ renders <= 2
            /\ renders >= 1 => Calm
            /\ renders = 2 => selected = Kept

RestOK == AtRest => ~Opened /\ ~Moved /\ ~Fresh /\ seen.graph = View.graph

DockInv ==
  /\ DockTyped /\ SelectedOwn /\ SeenOK /\ HistoryOK /\ PauseOK /\ EffectsOK /\ RestOK
  /\ SelectionIsShown /\ PauseIsShown /\ HistoryIsOwn

-----------------------------------------------------------------------------
\* The pairs of numbers in their order.
Less == {p \in Nat \X Nat : p[1] < p[2]}

\* A set of numbers that is not empty has a smallest one.
LEMMA LeastNumber ==
  ASSUME NEW S \in SUBSET Nat, S # {}
  PROVE  \E n \in S : \A m \in S : n <= m
<1>1. IsWellFoundedOn(Less, Nat)
  BY NatLessThanWellFounded, Zenon DEF OpToRel, Less
<1>2. PICK n \in S : \A m \in S : <<m, n>> \notin Less
  BY <1>1, WFMin
<1>3. ASSUME NEW m \in S PROVE n <= m
  <2>1. m < n => <<m, n>> \in Less
    BY DEF Less
  <2> QED BY <1>2, <2>1
<1> QED BY <1>3

\* A node that is found is one of the graph.
LEMMA NodeIsFound ==
  ASSUME NEW nodes, NEW a, DOMAIN nodes \subseteq Nat
  PROVE  NodeForAddress(nodes, a) \in IdsOf(nodes) \cup {Absent}
<1> DEFINE at == {i \in DOMAIN nodes : (nodes[i].lo <= a /\ a < nodes[i].hi) \/ nodes[i].address = a}
           least == CHOOSE i \in at : \A j \in at : i <= j
<1>1. CASE at = {}
  BY <1>1 DEF NodeForAddress
<1>2. CASE at # {}
  <2>1. \E i \in at : \A j \in at : i <= j
    BY <1>2, LeastNumber
  <2>2. least \in DOMAIN nodes
    BY <2>1
  <2>3. NodeForAddress(nodes, a) = Id(nodes[least].id)
    BY <1>2 DEF NodeForAddress
  <2> QED BY <2>2, <2>3 DEF IdsOf
<1> QED BY <1>1, <1>2

\* Whatever is shown is of the active file.
LEMMA ShownAreOwn ==
  /\ \A nodes, a : NodeForAddress(nodes, a) # Absent => \E n : NodeForAddress(nodes, a) = <<activeFile, n>>
  /\ \A nodes : FirstOf(nodes) # Absent => \E n : FirstOf(nodes) = <<activeFile, n>>
  /\ \A nodes : \A id \in IdsOf(nodes) : \E n : id = <<activeFile, n>>
  /\ \A id \in ShownIds : \E n : id = <<activeFile, n>>
<1>1. \A nodes, a : NodeForAddress(nodes, a) # Absent => \E n : NodeForAddress(nodes, a) = <<activeFile, n>>
  BY DEF NodeForAddress, Id
<1>2. \A nodes : FirstOf(nodes) # Absent => \E n : FirstOf(nodes) = <<activeFile, n>>
  BY DEF FirstOf, Id
<1>3. \A nodes : \A id \in IdsOf(nodes) : \E n : id = <<activeFile, n>>
  BY DEF IdsOf, Id
<1>4. ASSUME NEW id \in ShownIds PROVE \E n : id = <<activeFile, n>>
  <2>1. id \in StructureIds \cup DataflowIds \cup FlowIds \cup IdsOf(Graph)
    BY <1>4 DEF ShownIds
  <2>2. \A x \in StructureIds : \E n : x = <<activeFile, n>>
    BY DEF StructureIds, Id
  <2>3. \A x \in DataflowIds : \E n : x = <<activeFile, n>>
    BY DEF DataflowIds, Id
  <2>4. \A x \in FlowIds : \E n : x = <<activeFile, n>>
    BY DEF FlowIds, Id
  <2> QED BY <2>1, <2>2, <2>3, <2>4, <1>3
<1> QED BY <1>1, <1>2, <1>3, <1>4

\* A function that is found is one of the program's.
LEMMA FunctionIsFound ==
  ASSUME NEW fs, DOMAIN fs \subseteq Nat, \A f \in DOMAIN fs : fs[f].end \in Nat, NEW a \in Nat
  PROVE  CandidateContaining(fs, a) \in DOMAIN fs \cup {Absent}
<1> DEFINE over == {f \in DOMAIN fs : f <= a /\ a < fs[f].end}
           size(f) == fs[f].end - f
           best == CHOOSE f \in over : \A g \in over : size(f) < size(g) \/ (size(f) = size(g) /\ f <= g)
<1>1. CASE a \in DOMAIN fs \/ over = {}
  BY <1>1 DEF CandidateContaining
<1>2. CASE a \notin DOMAIN fs /\ over # {}
  <2>1. \A f \in over : f \in Nat /\ size(f) \in Nat
    OBVIOUS
  <2>2. PICK n \in {size(f) : f \in over} : \A m \in {size(f) : f \in over} : n <= m
    <3>1. {size(f) : f \in over} \in SUBSET Nat /\ {size(f) : f \in over} # {}
      BY <1>2, <2>1
    <3> HIDE DEF size, over
    <3> QED BY <3>1, LeastNumber
  <2>3. PICK f \in {g \in over : size(g) = n} : \A g \in {h \in over : size(h) = n} : f <= g
    <3>1. {g \in over : size(g) = n} \in SUBSET Nat /\ {g \in over : size(g) = n} # {}
      BY <2>1, <2>2
    <3> HIDE DEF size, over
    <3> QED BY <3>1, LeastNumber
  <2>4. \A g \in over : size(f) < size(g) \/ (size(f) = size(g) /\ f <= g)
    <3> HIDE DEF size, over
    <3>1. n \in Nat
      BY <2>1, <2>2
    <3> QED BY <2>1, <2>2, <2>3, <3>1
  <2>5. best \in over
    <3> HIDE DEF size, over
    <3> QED BY <2>3, <2>4 DEF best
  <2>6. CandidateContaining(fs, a) = best
    BY <1>2 DEF CandidateContaining
  <2> QED BY <2>5, <2>6
<1> QED BY <1>1, <1>2

\* What the assumption says of the active file.
LEMMA DockFacts ==
  ASSUME DockTyped
  PROVE  /\ activeFile \in Files /\ activeFile # Absent /\ Absent \notin Files
         /\ Executables = DOMAIN Programs
         /\ View \in [root : Roots, graph : BOOLEAN] /\ View.graph \in BOOLEAN
         /\ activeFile \in Executables => IsProgram(Program) /\ EntryOf[activeFile] \in DOMAIN Program.functions
         /\ HasSummary => activeFile \in Executables /\ View.root \in DOMAIN Program.functions
         /\ DOMAIN Graph \subseteq Nat
         /\ \A f \in Files : f \notin Executables => f \in DOMAIN Texts
<1>1. dockSetup \in DockSetups /\ activeFile \in Files /\ Absent \notin Files
      /\ Files \subseteq DOMAIN Programs \cup DOMAIN Texts
  BY DockAssumption DEF DockTyped, DockTypeOK, Files
<1>2. View \in [root : Roots, graph : BOOLEAN]
  BY <1>1 DEF DockTyped, View
<1>3. activeFile \in Executables => IsProgram(Program) /\ EntryOf[activeFile] \in DOMAIN Program.functions
  BY DockAssumption DEF Executables, Program
<1>4. View.root \in {Absent} \cup (IF activeFile \in Executables THEN DOMAIN Programs[activeFile].functions ELSE {})
  BY <1>1 DEF DockTyped, DockTypeOK, View
<1>5. HasSummary => activeFile \in Executables /\ View.root \in DOMAIN Program.functions
  BY <1>4 DEF HasSummary, Program
<1>6. DOMAIN Graph \subseteq Nat
  <2>1. CASE ~View.graph
    <3>1. Graph = <<>>
      BY <2>1 DEF Graph
    <3> QED BY <3>1
  <2>2. CASE View.graph /\ activeFile \in Executables
    <3>1. View.root # Absent
      BY <1>1, <2>2 DEF DockTyped, View
    <3>2. View.root \in DOMAIN Program.functions /\ IsProgram(Program)
      BY <1>3, <1>5, <2>2, <3>1 DEF HasSummary
    <3>3. Graph = Program.blocks[View.root]
      BY <2>2 DEF Graph, Nodes, Program
    <3>4. DOMAIN Graph = 1..Len(Graph)
      BY <3>2, <3>3 DEF IsProgram
    <3> QED BY <3>4
  <2>3. CASE View.graph /\ activeFile \notin Executables
    <3>1. Graph = Texts[activeFile] /\ activeFile \in DOMAIN Texts
      BY <1>1, <2>3 DEF Graph, Nodes, Executables
    <3>2. DOMAIN Graph = 1..Len(Graph)
      BY <3>1, DockAssumption
    <3> QED BY <3>2
  <2> QED BY <1>2, <2>1, <2>2, <2>3
<1> QED BY <1>1, <1>2, <1>3, <1>5, <1>6 DEF Executables


\* What does not change while the file and what is shown of it do not.
LEMMA SameFile ==
  ASSUME UNCHANGED <<dockSetup, activeFile, viewsOf>>
  PROVE  /\ Files' = Files /\ View' = View /\ HasSummary' = HasSummary /\ Program' = Program
         /\ BinaryFile' = BinaryFile /\ Graph' = Graph
         /\ address' = address => Following' = Following
<1>1. Files' = Files /\ View' = View /\ Program' = Program
  BY DEF Files, View, Program
<1>2. HasSummary' = HasSummary
  BY <1>1 DEF HasSummary
<1>3. BinaryFile' = BinaryFile
  BY <1>2 DEF BinaryFile
<1>4. Graph' = Graph
  BY <1>1 DEF Graph, Nodes, Executables
<1>5. ASSUME address' = address PROVE Following' = Following
  BY <1>1, <1>4, <1>5 DEF Following, NodeForAddress, Id
<1> QED BY <1>1, <1>2, <1>3, <1>4, <1>5

\* What the effects of a render leave of the file, of what was seen and of the tabs.
LEMMA EffectsSee ==
  ASSUME DockTyped, RunEffects
  PROVE  /\ UNCHANGED <<dockSetup, activeFile, viewsOf, projection, chosen>>
         /\ seen' = [active |-> activeFile, binary |-> BinaryFile, follow |-> Following, graph |-> View.graph]
         /\ ~Opened' /\ ~Fresh' /\ (Moved' => address' = 0)
         /\ address' = IF Opened THEN 0 ELSE address
         /\ tab' \in BinaryTabs /\ cfgView' \in {"program", "function"} /\ (~HasSummary => tab' \in SourceTabs)
<1>1. UNCHANGED <<dockSetup, activeFile, viewsOf, projection, chosen>>
  BY DEF RunEffects
<1>2. seen' = [active |-> activeFile, binary |-> BinaryFile, follow |-> Following, graph |-> View.graph]
  BY DEF RunEffects
<1>3. address' = IF Opened THEN 0 ELSE address
  BY DEF RunEffects
<1>4. ~Opened' /\ ~Fresh'
  BY <1>1, <1>2, SameFile DEF Opened, Fresh
<1>5. Moved' => address' = 0
  BY <1>1, <1>2, <1>3, SameFile DEF Moved
<1>6. tab' \in BinaryTabs /\ cfgView' \in {"program", "function"} /\ (~HasSummary => tab' \in SourceTabs)
  BY DEF RunEffects, SetTab, DockTyped, DockTypeOK, BinaryTabs, SourceTabs
<1> QED BY <1>1, <1>2, <1>3, <1>4, <1>5, <1>6

\* Whatever the effects select is of the active file.
LEMMA EffectsSelect ==
  ASSUME RunEffects
  PROVE  selected' # Absent => \E n : selected' = <<activeFile, n>>
<1> DEFINE fallback == IF ExecutionNode # Absent THEN ExecutionNode
                       ELSE IF (Fresh /\ HasSummary) \/ tab = "disassembly" \/ selected \notin ShownIds THEN Absent
                            ELSE selected
<1>1. selected' = AppSelects(fallback)
  BY DEF RunEffects, Select
<1>2. fallback \in {Absent, ExecutionNode} \cup ShownIds
  OBVIOUS
<1>3. ExecutionNode = Absent \/ ExecutionNode = NodeForAddress(Graph, address)
  BY DEF ExecutionNode
<1> HIDE DEF fallback
<1>4. AppSelects(fallback) \in {FirstOf(Graph), NodeForAddress(Graph, address), fallback}
  BY DEF AppSelects
<1> QED BY <1>1, <1>2, <1>3, <1>4, ShownAreOwn

\* The effects keep the types.
LEMMA EffectsTyped ==
  ASSUME DockTyped, RunEffects
  PROVE  DockTyped'
<1>1. /\ UNCHANGED <<dockSetup, activeFile, viewsOf, projection, chosen>>
      /\ seen' = [active |-> activeFile, binary |-> BinaryFile, follow |-> Following, graph |-> View.graph]
      /\ address' = IF Opened THEN 0 ELSE address
      /\ tab' \in BinaryTabs /\ cfgView' \in {"program", "function"}
  BY EffectsSee
<1>2. Files' = Files /\ Program' = Program
  BY <1>1, SameFile
<1>3. due' \in BOOLEAN /\ renders' \in Nat
  BY DEF RunEffects, DockTyped, DockTypeOK
<1>4. asked' # Absent => activeFile \in Executables /\ asked' \in DOMAIN Program.functions
  <2>1. asked' = IF Opened /\ activeFile \in Executables /\ ~HasSummary THEN EntryOf[activeFile]
                 ELSE IF Follows /\ PausedIn \notin {Absent, View.root} THEN PausedIn ELSE asked
    BY DEF RunEffects, Ask
  <2>2. Follows => HasSummary
    BY DEF Follows
  <2>3. HasSummary => PausedIn \in DOMAIN Program.functions \cup {Absent}
    <3>1. HasSummary => IsProgram(Program)
      BY DockFacts
    <3> QED BY <3>1, FunctionIsFound DEF PausedIn, IsProgram, DockTyped
  <2>4. asked # Absent => activeFile \in Executables /\ asked \in DOMAIN Program.functions
    BY DEF DockTyped
  <2> QED BY <2>1, <2>2, <2>3, <2>4, DockFacts
<1>5. DockTypeOK'
  BY <1>1, <1>2, <1>3 DEF DockTyped, DockTypeOK, Executables
<1>6. (\A f \in Files \cap Executables : viewsOf[f].graph => viewsOf[f].root # Absent)'
  BY <1>1, <1>2 DEF DockTyped, Executables
<1>7. viewsOf' \in [Files' -> [root : Roots', graph : BOOLEAN]] /\ address' \in Nat /\ (dockSetup \in DockSetups)'
  BY <1>1, <1>2 DEF DockTyped, Roots, Executables
<1>8. (asked # Absent => activeFile \in Executables /\ asked \in DOMAIN Program.functions)'
  BY <1>1, <1>2, <1>4 DEF Executables
<1>9. (seen = [active |-> seen.active, binary |-> seen.binary, follow |-> seen.follow, graph |-> seen.graph])'
  BY <1>1
<1> QED BY <1>5, <1>6, <1>7, <1>8, <1>9 DEF DockTyped

\* The effects keep the summaries of the file they see.
LEMMA EffectsRecord ==
  ASSUME DockTyped, HistoryOK, RunEffects
  PROVE  HistoryOK' /\ (HasSummary => View.root \in DOMAIN history')
<1> DEFINE kept == IF Fresh THEN <<>> ELSE history
<1>1. history' = IF HasSummary THEN Recorded(kept, View.root, activeFile) ELSE kept
  BY DEF RunEffects, KeepHistory
<1>2. seen'.binary = BinaryFile
  BY EffectsSee
<1>3. CASE HasSummary
  <2>1. BinaryFile = activeFile /\ activeFile # Absent /\ activeFile \in Executables
        /\ View.root \in DOMAIN Programs[activeFile].functions
    BY <1>3, DockFacts DEF BinaryFile, Program
  <2>2. DOMAIN kept \subseteq DOMAIN Programs[activeFile].functions /\ \A f \in DOMAIN kept : kept[f] = activeFile
    <3>1. CASE Fresh
      <4>1. kept = <<>>
        BY <3>1
      <4>2. DOMAIN kept = {}
        BY <4>1
      <4> QED BY <4>2
    <3>2. CASE ~Fresh
      <4>1. kept = history /\ seen.binary = activeFile
        BY <2>1, <3>2 DEF Fresh
      <4>2. history = [f \in DOMAIN history |-> activeFile] /\ DOMAIN history \subseteq DOMAIN Programs[activeFile].functions
        BY <2>1, <4>1 DEF HistoryOK
      <4> HIDE DEF kept
      <4> QED BY <4>1, <4>2
    <3> QED BY <3>1, <3>2
  <2>3. history' = [f \in DOMAIN kept \cup {View.root} |-> IF f = View.root THEN activeFile ELSE kept[f]]
    BY <1>1, <1>3 DEF Recorded
  <2> HIDE DEF kept
  <2>4. DOMAIN history' = DOMAIN kept \cup {View.root} /\ history' = [f \in DOMAIN history' |-> activeFile]
    BY <2>2, <2>3
  <2> QED BY <1>2, <2>1, <2>2, <2>4 DEF HistoryOK, Executables
<1>4. CASE ~HasSummary
  <2>1. BinaryFile = Absent /\ history' = kept
    BY <1>1, <1>4 DEF BinaryFile
  <2>2. kept = <<>>
    BY <2>1 DEF Fresh, HistoryOK
  <2> QED BY <1>2, <1>4, <2>1, <2>2 DEF HistoryOK
<1> QED BY <1>3, <1>4

\* A file whose summary is new has moved.
LEMMA FreshHasMoved ==
  ASSUME DockTyped, SeenOK, Fresh, HasSummary
  PROVE  Moved
<1>1. BinaryFile = activeFile
  BY DEF BinaryFile
<1> SUFFICES ASSUME Following = seen.follow PROVE FALSE
  BY DEF Moved
<1>2. seen.follow = <<activeFile, View.root, address, IF address = 0 THEN Absent ELSE NodeForAddress(Graph, address)>>
  BY DEF Following
<1>3. seen.follow # <<>>
  BY <1>2
<1>4. PICK r, a, n : seen.follow = <<seen.active, r, a, n>> /\ seen.binary = IF r # Absent THEN seen.active ELSE Absent
  BY <1>3 DEF SeenOK
<1>5. seen.active = activeFile /\ r = View.root
  BY <1>2, <1>4
<1> QED BY <1>1, <1>4, <1>5 DEF Fresh, HasSummary

\* What is shown does not change while nothing it is made of does.
LEMMA ShownSame ==
  ASSUME UNCHANGED <<dockSetup, activeFile, viewsOf, panes, toolbar, history>>
  PROVE  /\ ShownIds' = ShownIds /\ Question' = Question
         /\ address' = address => ExecutionNode' = ExecutionNode
<1>1. View' = View /\ HasSummary' = HasSummary /\ Program' = Program /\ Graph' = Graph
  BY SameFile
<1>2. UNCHANGED <<tab, projection, cfgView, programScope, hiddenGroups, expandedGroups>>
  BY DEF panes, toolbar
<1>3. Question' = Question
  BY <1>1, <1>2 DEF Question
<1>4. FlowIds' = FlowIds
  BY <1>3 DEF FlowIds, Id
<1>5. StructureIds' = StructureIds /\ DataflowIds' = DataflowIds /\ IdsOf(Graph)' = IdsOf(Graph)
  BY <1>1, <1>2 DEF StructureIds, DataflowIds, IdsOf, Id
<1>6. ShownIds' = ShownIds
  BY <1>1, <1>2, <1>4, <1>5 DEF ShownIds
<1>7. ASSUME address' = address PROVE ExecutionNode' = ExecutionNode
  BY <1>1, <1>2, <1>7 DEF ExecutionNode, NodeForAddress, Id
<1> QED BY <1>3, <1>6, <1>7

\* A first render's effects leave nothing to do but for the selection.
LEMMA EffectsCalm ==
  ASSUME DockTyped, HistoryOK, RunEffects
  PROVE  Calm'
<1>1. View' = View /\ HasSummary' = HasSummary
  BY EffectsSee, SameFile
<1>2. seen'.graph = View.graph
  BY EffectsSee
<1> QED BY <1>1, <1>2, EffectsSee, EffectsRecord DEF Calm

\* What the effects do then.
LEMMA CalmEffects ==
  ASSUME DockTyped, HistoryOK, Calm, RunEffects
  PROVE  /\ UNCHANGED <<panes, toolbar, history, address>>
         /\ selected' = Kept /\ due' = (selected' # selected)
<1>1. UNCHANGED <<projection, activeFile>> /\ ~Opened /\ ~Fresh /\ (Moved => address = 0)
  BY EffectsSee DEF Calm
<1>2. UNCHANGED <<tab, cfgView>>
  BY <1>1 DEF RunEffects, SetTab, Calm, SourceTabs
<1>3. UNCHANGED toolbar
  BY <1>1 DEF RunEffects, ResetToolbar
<1>4. UNCHANGED history
  <2>1. history' = IF HasSummary THEN Recorded(history, View.root, activeFile) ELSE history
    BY <1>1 DEF RunEffects, KeepHistory
  <2>2. ASSUME HasSummary PROVE Recorded(history, View.root, activeFile) = history
    <3>1. seen.binary = activeFile /\ activeFile # Absent
      BY <1>1, <2>2, DockFacts DEF Fresh, BinaryFile
    <3>2. history = [f \in DOMAIN history |-> activeFile] /\ View.root \in DOMAIN history
      BY <2>2, <3>1 DEF HistoryOK, Calm
    <3>3. DOMAIN history \cup {View.root} = DOMAIN history
      BY <3>2
    <3>4. Recorded(history, View.root, activeFile) = [y \in DOMAIN history |-> IF y = View.root THEN activeFile ELSE history[y]]
      BY <3>3 DEF Recorded
    <3>5. \A y \in DOMAIN history : history[y] = activeFile
      BY <3>2
    <3> QED BY <3>2, <3>4, <3>5
  <2> QED BY <2>1, <2>2
<1>5. UNCHANGED address
  BY <1>1 DEF RunEffects
<1>6. selected' = Kept
  <2>1. ~Follows
    BY <1>1 DEF Follows, Calm
  <2> QED BY <1>1, <2>1 DEF RunEffects, Select, AppSelects, Kept
<1>7. due' = (selected' # selected)
  BY <1>2, <1>3, <1>4, <1>5 DEF RunEffects
<1> QED BY <1>1, <1>2, <1>3, <1>4, <1>5, <1>6, <1>7 DEF panes

\* The effects come to rest.
LEMMA EffectsCome ==
  ASSUME DockTyped, HistoryOK, EffectsOK, RunEffects
  PROVE  EffectsOK'
<1>1. due /\ renders' = renders + 1 /\ renders \in Nat /\ renders <= 2
  BY DEF RunEffects, EffectsOK, DockTyped, DockTypeOK
<1>2. Calm'
  BY EffectsCalm
<1>3. CASE renders = 0
  BY <1>1, <1>2, <1>3 DEF EffectsOK
<1>4. CASE renders >= 1
  <2>1. Calm
    BY <1>1, <1>4 DEF EffectsOK
  <2>2. UNCHANGED <<panes, toolbar, history, address>> /\ selected' = Kept /\ due' = (selected' # selected)
    BY <2>1, CalmEffects
  <2>3. Kept' = selected'
    <3>1. ShownIds' = ShownIds /\ ExecutionNode' = ExecutionNode /\ tab' = tab
      <4>1. UNCHANGED <<dockSetup, activeFile, viewsOf>>
        BY EffectsSee
      <4> QED BY <4>1, <2>2, ShownSame DEF panes
    <3> QED BY <2>2, <3>1 DEF Kept
  <2>4. CASE renders = 1
    BY <1>1, <1>2, <2>3, <2>4 DEF EffectsOK
  <2>5. CASE renders = 2
    <3>1. selected = Kept
      BY <1>1, <2>5 DEF EffectsOK
    <3>2. due' = FALSE
      BY <2>2, <3>1
    <3> QED BY <1>1, <2>5, <3>2 DEF EffectsOK
  <2> QED BY <1>1, <1>4, <2>4, <2>5
<1> QED BY <1>1, <1>3, <1>4

\* What the effects leave at rest.
LEMMA EffectsRest ==
  ASSUME DockTyped, SelectedOwn, SeenOK, HistoryOK, PauseOK, RunEffects, ~due'
  PROVE  RestOK' /\ SelectionIsShown' /\ PauseIsShown' /\ HistoryIsOwn'
<1> DEFINE fallback == IF ExecutionNode # Absent THEN ExecutionNode
                       ELSE IF (Fresh /\ HasSummary) \/ tab = "disassembly" \/ selected \notin ShownIds THEN Absent
                            ELSE selected
<1>1. UNCHANGED <<dockSetup, activeFile, viewsOf, panes, toolbar, history, address, selected>>
  BY EffectsSee DEF RunEffects, panes
<1>2. /\ View' = View /\ HasSummary' = HasSummary /\ Following' = Following
      /\ ShownIds' = ShownIds /\ ExecutionNode' = ExecutionNode
  BY <1>1, SameFile, ShownSame
<1>3. seen'.follow = Following /\ seen'.graph = View.graph /\ seen'.binary = BinaryFile
  BY EffectsSee
<1>4. RestOK'
  BY <1>2, <1>3, EffectsSee DEF RestOK, Moved
<1>5. HistoryIsOwn'
  <2>1. HistoryOK' /\ (HasSummary => View.root \in DOMAIN history')
    BY EffectsRecord
  <2>2. HasSummary => BinaryFile = activeFile /\ activeFile # Absent
    BY DockFacts DEF BinaryFile
  <2>3. ~HasSummary => BinaryFile = Absent
    BY DEF BinaryFile
  <2>4. ASSUME HasSummary PROVE \A f \in DOMAIN history' : history'[f] = activeFile
    <3>1. history' = [f \in DOMAIN history' |-> activeFile]
      BY <1>3, <2>1, <2>2, <2>4 DEF HistoryOK
    <3> QED BY <3>1
  <2> QED BY <1>1, <1>2, <1>3, <2>1, <2>2, <2>3, <2>4 DEF HistoryIsOwn, HistoryOK
<1>6. selected' = AppSelects(fallback)
  BY DEF RunEffects, Select
<1>7. Moved /\ HasSummary /\ address # 0 => tab = "cfg" /\ cfgView = "function"
  BY <1>1 DEF RunEffects, SetTab, panes
<1>8. ExecutionNode # Absent => /\ tab = "cfg" /\ cfgView = "function" /\ ExecutionNode = NodeForAddress(Graph, address)
                                /\ ExecutionNode \in IdsOf(Graph)
  BY NodeIsFound, DockFacts DEF ExecutionNode
<1>9. tab = "cfg" /\ cfgView = "function" => ShownIds = IdsOf(Graph)
  BY DEF ShownIds
<1>10. ~(Opened /\ FirstOf(Graph) # Absent)
  <2> SUFFICES ASSUME Opened, FirstOf(Graph) # Absent PROVE FALSE
    OBVIOUS
  <2>1. selected = FirstOf(Graph)
    BY <1>1, <1>6 DEF AppSelects
  <2>2. PICK n : FirstOf(Graph) = <<activeFile, n>>
    BY ShownAreOwn
  <2>3. PICK m : selected = <<seen.active, m>>
    BY <2>1 DEF SelectedOwn
  <2>4. seen.active = activeFile
    BY <2>1, <2>2, <2>3
  <2> QED BY <2>4 DEF Opened
<1>11. Opened => address = 0
  BY <1>1 DEF RunEffects
<1>12. Follows /\ NodeForAddress(Graph, address) # Absent /\ ~Opened => Moved
  <2> SUFFICES ASSUME Follows, NodeForAddress(Graph, address) # Absent, ~Opened, ~Moved PROVE FALSE
    OBVIOUS
  <2>1. View.graph # seen.graph
    BY DEF Follows
  <2>2. View.graph \in BOOLEAN
    BY DockFacts
  <2>3. CASE View.graph = FALSE
    <3>1. Graph = <<>>
      BY <2>3 DEF Graph
    <3>2. DOMAIN Graph = {}
      BY <3>1
    <3> QED BY <3>2 DEF NodeForAddress
  <2>4. CASE View.graph = TRUE
    BY <2>1, <2>4 DEF SeenOK
  <2> QED BY <2>2, <2>3, <2>4
<1>13. fallback = Absent \/ (tab # "disassembly" /\ fallback \in ShownIds)
  BY <1>8, <1>9
<1>14. NodeForAddress(Graph, address) \in IdsOf(Graph) \cup {Absent}
  BY NodeIsFound, DockFacts
<1>15. ExecutionNode # Absent => fallback = ExecutionNode
  OBVIOUS
<1> HIDE DEF fallback
<1>16. selected' = Absent \/ (tab' # "disassembly" /\ selected' \in ShownIds')
  <2>1. UNCHANGED tab
    BY <1>1 DEF panes
  <2>2. CASE Opened
    BY <1>6, <1>10, <2>2 DEF AppSelects
  <2>3. CASE ~Opened /\ Follows /\ NodeForAddress(Graph, address) # Absent
    <3>1. tab = "cfg" /\ cfgView = "function"
      BY <1>7, <1>12, <2>3 DEF Follows
    <3> QED BY <1>2, <1>6, <1>9, <1>13, <1>14, <2>1, <2>3, <3>1 DEF AppSelects
  <2>4. CASE ~Opened /\ ~(Follows /\ NodeForAddress(Graph, address) # Absent)
    <3>1. selected' = fallback
      BY <1>6, <2>4 DEF AppSelects
    <3> QED BY <1>2, <1>13, <2>1, <3>1
  <2> QED BY <2>2, <2>3, <2>4
<1>17. SelectionIsShown'
  BY <1>2, <1>16, EffectsSee DEF SelectionIsShown, SourceTabs
<1>18. PauseIsShown'
  <2> SUFFICES ASSUME HasSummary', address' # 0
               PROVE  /\ ~chosen' => tab' = "cfg" /\ cfgView' = "function"
                      /\ ExecutionNode' # Absent => selected' = ExecutionNode'
    BY DEF PauseIsShown
  <2>1. HasSummary /\ address # 0 /\ ~Opened /\ UNCHANGED <<tab, cfgView, chosen>>
    BY <1>1, <1>2, <1>11, EffectsSee DEF panes
  <2>2. ~chosen => tab = "cfg" /\ cfgView = "function"
    BY <1>7, <2>1 DEF PauseOK
  <2>3. ExecutionNode # Absent => selected' = ExecutionNode
    BY <1>6, <1>8, <1>15, <2>1 DEF AppSelects
  <2> QED BY <1>2, <2>1, <2>2, <2>3
<1> QED BY <1>4, <1>5, <1>17, <1>18

\* The effects of a render keep the invariant.
LEMMA EffectsKeep ==
  ASSUME DockInv, RunEffects
  PROVE  DockInv'
<1>1. DockTyped /\ SelectedOwn /\ SeenOK /\ HistoryOK /\ PauseOK /\ EffectsOK
  BY DEF DockInv
<1>2. DockTyped' /\ HistoryOK' /\ EffectsOK'
  BY <1>1, EffectsTyped, EffectsRecord, EffectsCome
<1>3. View' = View /\ HasSummary' = HasSummary /\ ~Opened' /\ activeFile' = activeFile
  BY <1>1, EffectsSee, SameFile
<1>4. SelectedOwn'
  BY <1>3, EffectsSelect DEF SelectedOwn
<1>5. SeenOK'
  <2>1. seen' = [active |-> activeFile, binary |-> BinaryFile, follow |-> Following, graph |-> View.graph]
    BY <1>1, EffectsSee
  <2>2. seen'.follow = <<seen'.active, View.root, address, IF address = 0 THEN Absent ELSE NodeForAddress(Graph, address)>>
    BY <2>1 DEF Following
  <2>3. seen'.binary = IF View.root # Absent THEN seen'.active ELSE Absent
    BY <2>1 DEF BinaryFile, HasSummary
  <2>4. View'.graph = seen'.graph
    BY <1>3, <2>1
  <2> QED BY <2>2, <2>3, <2>4 DEF SeenOK
<1>6. PauseOK'
  <2> SUFFICES ASSUME HasSummary, address' # 0, ~chosen, ~Moved' PROVE tab' = "cfg" /\ cfgView' = "function"
    BY <1>1, <1>3, EffectsSee DEF PauseOK
  <2>1. ~Opened /\ address # 0
    BY <1>1, EffectsSee
  <2>2. CASE Moved
    BY <2>1, <2>2 DEF RunEffects, SetTab
  <2>3. CASE ~Moved
    <3>1. tab = "cfg" /\ cfgView = "function" /\ ~Fresh
      BY <1>1, <2>1, <2>3, FreshHasMoved DEF PauseOK
    <3> QED BY <2>3, <3>1 DEF RunEffects, SetTab
  <2> QED BY <2>2, <2>3
<1>7. CASE due'
  BY <1>2, <1>4, <1>5, <1>6, <1>7 DEF DockInv, AtRest, RestOK, SelectionIsShown, PauseIsShown, HistoryIsOwn
<1>8. CASE ~due'
  BY <1>1, <1>2, <1>4, <1>5, <1>6, <1>8, EffectsRest DEF DockInv
<1> QED BY <1>7, <1>8

-----------------------------------------------------------------------------
\* What an event has to keep: the effects have not run yet.
LEMMA EventKeeps ==
  ASSUME DockInv, Event, UNCHANGED history, seen'.binary = seen.binary, DockTyped', SelectedOwn', SeenOK', PauseOK'
  PROVE  DockInv'
<1>1. due' = TRUE /\ renders' = 0
  BY DEF Event
<1>2. HistoryOK'
  BY DEF DockInv, HistoryOK, Executables
<1>3. EffectsOK'
  BY <1>1 DEF EffectsOK
<1> QED BY <1>1, <1>2, <1>3 DEF DockInv, RestOK, SelectionIsShown, PauseIsShown, HistoryIsOwn, AtRest

\* What is so before an event.
LEMMA BeforeEvent ==
  ASSUME DockInv, Event
  PROVE  /\ DockTyped /\ SeenOK /\ ~Opened /\ ~Moved /\ ~Fresh /\ seen.graph = View.graph /\ seen.active = activeFile
         /\ selected # Absent => \E n : selected = <<activeFile, n>>
         /\ HasSummary /\ address # 0 /\ ~chosen => tab = "cfg" /\ cfgView = "function"
         /\ UNCHANGED dockSetup /\ due' \in BOOLEAN /\ renders' \in Nat
<1>1. ~due /\ due' = TRUE /\ renders' = 0 /\ UNCHANGED dockSetup
  BY DEF Event
<1>2. ~Opened /\ ~Moved /\ ~Fresh /\ seen.graph = View.graph
  BY <1>1 DEF DockInv, RestOK, AtRest
<1>3. DockTyped /\ SeenOK /\ SelectedOwn /\ PauseOK
  BY DEF DockInv
<1> QED BY <1>1, <1>2, <1>3 DEF Opened, SelectedOwn, PauseOK

\* An event that leaves the file, its view and the pause alone.
Light ==
  /\ Event /\ UNCHANGED <<activeFile, viewsOf, seen, address, history>>
  /\ tab' \in BinaryTabs /\ cfgView' \in {"program", "function"} /\ projection' \in Projections
  /\ asked' \in {Absent, asked} \/ (HasSummary /\ asked' \in DOMAIN Program.functions)
  /\ selected' \in {Absent, selected} \cup ShownIds
  /\ chosen' = TRUE \/ UNCHANGED <<tab, cfgView, chosen>>

\* Such an event keeps the invariant.
LEMMA LightKeeps ==
  ASSUME DockInv, Light
  PROVE  DockInv'
<1>1. Event /\ UNCHANGED <<activeFile, viewsOf, seen, address, history>>
  BY DEF Light
<1>2. /\ DockTyped /\ SeenOK /\ ~Opened /\ ~Moved /\ UNCHANGED dockSetup /\ due' \in BOOLEAN /\ renders' \in Nat
      /\ selected # Absent => \E n : selected = <<activeFile, n>>
      /\ HasSummary /\ address # 0 /\ ~chosen => tab = "cfg" /\ cfgView = "function"
  BY <1>1, BeforeEvent
<1>3. /\ Files' = Files /\ View' = View /\ HasSummary' = HasSummary /\ Program' = Program
      /\ Following' = Following
  BY <1>1, <1>2, SameFile
<1>4. Moved' = Moved /\ Opened' = Opened
  BY <1>1, <1>3 DEF Moved, Opened
<1>5. DockTyped'
  <2>1. DockTypeOK'
    BY <1>1, <1>2, <1>3 DEF DockTyped, DockTypeOK, Light, Executables
  <2>2. (\A f \in Files \cap Executables : viewsOf[f].graph => viewsOf[f].root # Absent)'
    BY <1>1, <1>2, <1>3 DEF DockTyped, Executables
  <2>3. viewsOf' \in [Files' -> [root : Roots', graph : BOOLEAN]] /\ address' \in Nat /\ (dockSetup \in DockSetups)'
    BY <1>1, <1>2, <1>3 DEF DockTyped, Roots, Executables
  <2>4. (asked # Absent => activeFile \in Executables /\ asked \in DOMAIN Program.functions)'
    BY <1>1, <1>2, <1>3, DockFacts DEF DockTyped, Light, Executables
  <2>5. (seen = [active |-> seen.active, binary |-> seen.binary, follow |-> seen.follow, graph |-> seen.graph])'
    BY <1>1, <1>2 DEF DockTyped
  <2> QED BY <2>1, <2>2, <2>3, <2>4, <2>5 DEF DockTyped
<1>6. SelectedOwn'
  BY <1>1, <1>2, <1>4, ShownAreOwn DEF Light, SelectedOwn
<1>7. SeenOK'
  BY <1>1, <1>2, <1>3, <1>4 DEF SeenOK
<1>8. PauseOK'
  BY <1>1, <1>2, <1>3, <1>4 DEF PauseOK, Light
<1> QED BY <1>1, <1>5, <1>6, <1>7, <1>8, EventKeeps

\* A function an address is in is one of the program's.
LEMMA EnteredIsFound ==
  ASSUME NEW a, DOMAIN Program.functions \subseteq Nat
  PROVE  FunctionContaining(a) \in DOMAIN Program.functions \cup {Absent}
<1> DEFINE fs == Program.functions
           over == {f \in DOMAIN fs : f <= a /\ a < fs[f].end}
           least == CHOOSE f \in over : \A g \in over : f <= g
<1>1. CASE a \in DOMAIN fs \/ over = {}
  BY <1>1 DEF FunctionContaining
<1>2. CASE a \notin DOMAIN fs /\ over # {}
  <2>1. \E f \in over : \A g \in over : f <= g
    BY <1>2, LeastNumber
  <2>2. least \in DOMAIN fs
    BY <2>1
  <2>3. FunctionContaining(a) = least
    BY <1>2 DEF FunctionContaining
  <2> QED BY <2>2, <2>3
<1> QED BY <1>1, <1>2

\* A node of the flow that is a function's is one of the program's.
LEMMA FlowFunctions ==
  ASSUME NEW node \in FlowNodes(Question), ActionOf(Question, node).kind = "function"
  PROVE  ActionOf(Question, node).at \in DOMAIN Program.functions
<1> DEFINE q == Question
<1>1. q.functions = Program.functions
  BY DEF Question
<1> HIDE DEF q
<1>2. PICK a \in Drawn(q) : node = NodeOf(q, a)
  BY DEF FlowNodes, q
<1>3. a \in Entities(q)
  BY DEF Drawn, Scoped
<1>4. node[1] = "function" /\ ActionOf(q, node).at = node[2]
  BY DEF ActionOf, q
<1>5. node = <<TypeOf(q, a), a>>
  BY <1>2, <1>4 DEF NodeOf
<1>6. TypeOf(q, a) = "function" /\ node[2] = a
  BY <1>4, <1>5
<1>7. a \in DOMAIN q.functions
  BY <1>3, <1>6 DEF TypeOf, Entities
<1> QED BY <1>1, <1>4, <1>6, <1>7 DEF q

\* What the user does leaves the file, its view and the pause alone.
LEMMA UserIsLight ==
  ASSUME DockInv, UserActs
  PROVE  Light
<1>1. DockTyped
  BY DEF DockInv
<1>2. tab \in BinaryTabs /\ cfgView \in {"program", "function"} /\ projection \in Projections
  BY <1>1 DEF DockTyped, DockTypeOK
<1>3. ASSUME NEW t \in BinaryTabs, ClickTab(t) PROVE Light
  BY <1>2, <1>3 DEF ClickTab, Light
<1>4. ASSUME NEW v \in {"program", "function"}, ChooseView(v) PROVE Light
  BY <1>2, <1>4 DEF ChooseView, Light
<1>5. ASSUME NEW p \in Projections, ChooseProjection(p) PROVE Light
  BY <1>2, <1>5 DEF ChooseProjection, Light
<1>6. ASSUME NEW id \in ShownIds \cup {Absent}, SelectNode(id) PROVE Light
  BY <1>2, <1>6 DEF SelectNode, Light, panes
<1>7. ASSUME NEW f \in DOMAIN Program.functions, PickFunction(f) PROVE Light
  BY <1>2, <1>7 DEF PickFunction, Light, panes
<1>8. ASSUME NEW scope, NEW hidden, NEW expanded, Toolbar(scope, hidden, expanded) PROVE Light
  BY <1>2, <1>8 DEF Toolbar, Light, panes
<1>9. ASSUME HasSummary, NEW f \in DOMAIN Program.functions, EnterFunction(f) PROVE Light
  BY <1>2, <1>9 DEF EnterFunction, Light, BinaryTabs
<1>10. ASSUME ChangeScope \/ ToggleGroup \/ ShowAll \/ HideAll \/ CompactAll PROVE Light
  BY <1>8, <1>10 DEF ChangeScope, ToggleGroup, ShowAll, HideAll, CompactAll
<1>11. ASSUME ActivateNode PROVE Light
  <2>1. HasSummary /\ DOMAIN Program.functions \subseteq Nat
    BY <1>1, <1>11, DockFacts DEF ActivateNode, IsProgram
  <2>2. ASSUME NEW node \in FlowNodes(Question), ActivateFlow(node) PROVE Light
    BY <1>8, <1>9, <2>1, <2>2, FlowFunctions DEF ActivateFlow
  <2>3. ASSUME NEW a, FunctionContaining(a) # Absent, EnterFunction(FunctionContaining(a)) PROVE Light
    BY <1>9, <2>1, <2>3, EnteredIsFound
  <2>4. ASSUME NEW f \in DOMAIN Program.functions, EnterFunction(FunctionContaining(f)) PROVE Light
    <3>1. FunctionContaining(f) = f
      BY DEF FunctionContaining
    <3> QED BY <1>9, <2>1, <2>4, <3>1
  <2> QED BY <1>11, <2>2, <2>3, <2>4 DEF ActivateNode
<1> QED BY <1>3, <1>4, <1>5, <1>6, <1>7, <1>10, <1>11 DEF UserActs

\* A file is opened.
LEMMA OpenKeeps ==
  ASSUME DockInv, NEW file \in Files, OpenFile(file)
  PROVE  DockInv'
<1>1. /\ Event /\ file # activeFile /\ activeFile' = file /\ asked' = Absent
      /\ UNCHANGED <<viewsOf, seen, address, selected, panes, toolbar, history>>
  BY DEF OpenFile
<1>2. /\ DockTyped /\ SeenOK /\ seen.active = activeFile /\ UNCHANGED dockSetup /\ due' \in BOOLEAN /\ renders' \in Nat
      /\ selected # Absent => \E n : selected = <<activeFile, n>>
  BY <1>1, BeforeEvent
<1>3. Files' = Files /\ UNCHANGED <<tab, cfgView, projection>>
  BY <1>1, <1>2 DEF Files, panes
<1>4. Opened' /\ Moved'
  <2>1. Opened'
    BY <1>1, <1>2 DEF Opened
  <2>2. Following'[1] = file /\ Following' # <<>>
    BY <1>1 DEF Following
  <2>3. seen.follow # <<>> => seen.follow[1] = activeFile
    BY <1>2 DEF SeenOK
  <2>4. Following' # seen.follow
    BY <1>1, <2>2, <2>3
  <2> QED BY <1>1, <2>1, <2>4 DEF Moved
<1>5. DockTyped'
  <2>1. DockTypeOK'
    BY <1>1, <1>2, <1>3 DEF DockTyped, DockTypeOK, Executables
  <2>2. viewsOf' \in [Files' -> [root : Roots', graph : BOOLEAN]]
    BY <1>1, <1>3 , <1>2 DEF DockTyped, Roots, Executables
  <2>3. (\A f \in Files \cap Executables : viewsOf[f].graph => viewsOf[f].root # Absent)'
    BY <1>1, <1>2, <1>3 DEF DockTyped, Executables
  <2> QED BY <1>1, <1>2, <2>1, <2>2, <2>3 DEF DockTyped
<1>6. SelectedOwn'
  BY <1>1, <1>2, <1>4 DEF SelectedOwn
<1>7. SeenOK'
  BY <1>1, <1>2, <1>4 DEF SeenOK
<1>8. PauseOK'
  BY <1>4 DEF PauseOK
<1> QED BY <1>1, <1>5, <1>6, <1>7, <1>8, EventKeeps

\* A function, or a text, has been analyzed.
LEMMA CommitKeeps ==
  ASSUME DockInv, NEW root, Commit(root),
         root \in IF activeFile \in Executables THEN DOMAIN Program.functions \ {Absent} ELSE {Absent}
  PROVE  DockInv'
<1>1. /\ Event /\ viewsOf' = [viewsOf EXCEPT ![activeFile] = [root |-> root, graph |-> TRUE]]
      /\ seen' = [seen EXCEPT !.follow = <<>>] /\ asked' = Absent
      /\ UNCHANGED <<activeFile, address, panes, toolbar, history>>
  BY DEF Commit
<1>2. /\ DockTyped /\ SeenOK /\ seen.active = activeFile /\ UNCHANGED dockSetup /\ due' \in BOOLEAN /\ renders' \in Nat
      /\ selected # Absent => \E n : selected = <<activeFile, n>>
  BY <1>1, BeforeEvent
<1>3. Files' = Files /\ UNCHANGED <<tab, cfgView, projection>>
  BY <1>1, <1>2 DEF Files, panes
<1>4. seen' = [active |-> seen.active, binary |-> seen.binary, follow |-> <<>>, graph |-> seen.graph]
  <2>1. seen = [active |-> seen.active, binary |-> seen.binary, follow |-> seen.follow, graph |-> seen.graph]
    BY <1>2 DEF DockTyped
  <2>2. DOMAIN seen = {"active", "binary", "follow", "graph"}
    BY <2>1
  <2> QED BY <1>1, <2>2
<1>5. ~Opened' /\ Moved'
  <2>1. Following' # <<>>
    BY DEF Following
  <2> QED BY <1>1, <1>2, <1>4, <2>1 DEF Opened, Moved
<1>6. DockTyped'
  <2>1. root \in Roots /\ viewsOf \in [Files -> [root : Roots, graph : BOOLEAN]] /\ activeFile \in Files
    BY <1>2 DEF DockTyped, DockTypeOK, Roots, Program, Executables
  <2>2. viewsOf' \in [Files -> [root : Roots, graph : BOOLEAN]] /\ viewsOf'[activeFile] = [root |-> root, graph |-> TRUE]
        /\ \A f \in Files \ {activeFile} : viewsOf'[f] = viewsOf[f]
    BY <1>1, <2>1
  <2>3. DockTypeOK'
    BY <1>1, <1>2, <1>3, <2>2 DEF DockTyped, DockTypeOK, Executables, Program
  <2>4. (\A f \in Files \cap Executables : viewsOf[f].graph => viewsOf[f].root # Absent)'
    BY <1>1, <1>2, <1>3, <2>2 DEF DockTyped, Executables
  <2>5. (seen = [active |-> seen.active, binary |-> seen.binary, follow |-> seen.follow, graph |-> seen.graph])'
    BY <1>4
  <2>6. Roots' = Roots
    BY DEF Roots, Executables
  <2>7. address' \in Nat /\ (dockSetup \in DockSetups)' /\ asked' = Absent
    BY <1>1, <1>2 DEF DockTyped
  <2> QED BY <1>3, <2>2, <2>3, <2>4, <2>5, <2>6, <2>7 DEF DockTyped
<1>7. SelectedOwn'
  <2> DEFINE nodes == Nodes(activeFile, root)
             was == {Graph[i] : i \in {j \in DOMAIN Graph : Id(Graph[j].id) = selected}}
             same == {NodeForAddress(nodes, n.address) : n \in was} \ {Absent}
  <2>1. selected' = IF selected \in IdsOf(nodes) THEN selected
                    ELSE IF same # {} THEN CHOOSE x \in same : TRUE ELSE FirstOf(nodes)
    BY DEF Commit
  <2>2. \A x \in same : \E n : x = <<activeFile, n>>
    BY ShownAreOwn
  <2>3. same # {} => (CHOOSE x \in same : TRUE) \in same
    OBVIOUS
  <2> HIDE DEF same, nodes
  <2>4. selected' # Absent => \E n : selected' = <<activeFile, n>>
    BY <1>2, <2>1, <2>2, <2>3, ShownAreOwn
  <2> QED BY <1>1, <1>5, <2>4 DEF SelectedOwn
<1>8. SeenOK'
  BY <1>4, <1>5 DEF SeenOK
<1>9. PauseOK'
  BY <1>5 DEF PauseOK
<1> QED BY <1>1, <1>4, <1>6, <1>7, <1>8, <1>9, EventKeeps

\* The graph that is shown is cleared.
LEMMA ClearKeeps ==
  ASSUME DockInv, ClearShown
  PROVE  DockInv'
<1>1. /\ Event /\ viewsOf' = [viewsOf EXCEPT ![activeFile].graph = FALSE] /\ selected' = Absent
      /\ UNCHANGED <<chosen, activeFile, seen, asked, address, panes, toolbar, history>>
  BY DEF ClearShown
<1>2. /\ DockTyped /\ SeenOK /\ ~Opened /\ ~Moved /\ UNCHANGED dockSetup /\ due' \in BOOLEAN /\ renders' \in Nat
      /\ HasSummary /\ address # 0 /\ ~chosen => tab = "cfg" /\ cfgView = "function"
  BY <1>1, BeforeEvent
<1>3. Files' = Files /\ Program' = Program /\ UNCHANGED <<tab, cfgView, projection>>
  BY <1>1, <1>2 DEF Files, Program, panes
<1>4. viewsOf' \in [Files -> [root : Roots, graph : BOOLEAN]] /\ activeFile \in Files
      /\ viewsOf'[activeFile].graph = FALSE /\ viewsOf'[activeFile].root = viewsOf[activeFile].root
      /\ \A f \in Files \ {activeFile} : viewsOf'[f] = viewsOf[f]
  <2>1. viewsOf \in [Files -> [root : Roots, graph : BOOLEAN]] /\ activeFile \in Files
    BY <1>2 DEF DockTyped, DockTypeOK
  <2>2. viewsOf[activeFile] \in [root : Roots, graph : BOOLEAN]
    BY <2>1
  <2>3. [viewsOf[activeFile] EXCEPT !.graph = FALSE] \in [root : Roots, graph : BOOLEAN]
        /\ [viewsOf[activeFile] EXCEPT !.graph = FALSE].graph = FALSE
        /\ [viewsOf[activeFile] EXCEPT !.graph = FALSE].root = viewsOf[activeFile].root
    BY <2>2
  <2>4. viewsOf' = [viewsOf EXCEPT ![activeFile] = [viewsOf[activeFile] EXCEPT !.graph = FALSE]]
    BY <1>1
  <2> QED BY <2>1, <2>3, <2>4
<1>5. View'.graph = FALSE /\ HasSummary' = HasSummary /\ Opened' = Opened
  BY <1>1, <1>4 DEF View, HasSummary, Opened
<1>6. DockTyped'
  <2>1. DockTypeOK'
    BY <1>1, <1>2, <1>3, <1>4 DEF DockTyped, DockTypeOK, Executables
  <2>2. (\A f \in Files \cap Executables : viewsOf[f].graph => viewsOf[f].root # Absent)'
    BY <1>1, <1>2, <1>3, <1>4 DEF DockTyped, Executables
  <2>3. Roots' = Roots
    BY DEF Roots, Executables
  <2>4. (asked # Absent => activeFile \in Executables /\ asked \in DOMAIN Program.functions)'
    BY <1>1, <1>2, <1>3 DEF DockTyped, Executables
  <2>5. (seen = [active |-> seen.active, binary |-> seen.binary, follow |-> seen.follow, graph |-> seen.graph])'
    BY <1>1, <1>2 DEF DockTyped
  <2>6. address' \in Nat /\ (dockSetup \in DockSetups)'
    BY <1>1, <1>2 DEF DockTyped
  <2> QED BY <1>3, <1>4, <2>1, <2>2, <2>3, <2>4, <2>5, <2>6 DEF DockTyped
<1>7. SelectedOwn'
  BY <1>1 DEF SelectedOwn
<1>8. SeenOK'
  BY <1>1, <1>2, <1>5 DEF SeenOK
<1>9. PauseOK'
  BY <1>1, <1>2, <1>3, <1>5 DEF PauseOK
<1> QED BY <1>1, <1>6, <1>7, <1>8, <1>9, EventKeeps

\* The execution pauses somewhere else, or ends.
LEMMA PauseKeeps ==
  ASSUME DockInv, NEW a \in Nat, Pause(a)
  PROVE  DockInv'
<1>1. /\ Event /\ a # address /\ address' = a
      /\ UNCHANGED <<activeFile, seen, viewsOf, asked, selected, panes, toolbar, history>>
  BY DEF Pause
<1>2. /\ DockTyped /\ SeenOK /\ ~Opened /\ ~Moved /\ UNCHANGED dockSetup /\ due' \in BOOLEAN /\ renders' \in Nat
      /\ seen.graph = View.graph
      /\ selected # Absent => \E n : selected = <<activeFile, n>>
  BY <1>1, BeforeEvent
<1>3. Files' = Files /\ View' = View /\ Program' = Program /\ HasSummary' = HasSummary /\ UNCHANGED <<tab, cfgView, projection>>
  BY <1>1, <1>2, SameFile DEF panes
<1>4. Moved' /\ Opened' = Opened
  <2>1. Following[3] = address /\ Following'[3] = a
    BY <1>1 DEF Following
  <2>2. seen.follow = Following
    BY <1>2 DEF Moved
  <2>3. Following' # seen.follow
    BY <1>1, <2>1, <2>2
  <2> QED BY <1>1, <2>3 DEF Moved, Opened
<1>5. DockTyped'
  <2>1. DockTypeOK'
    BY <1>1, <1>2, <1>3 DEF DockTyped, DockTypeOK, Executables
  <2>2. (\A f \in Files \cap Executables : viewsOf[f].graph => viewsOf[f].root # Absent)'
    BY <1>1, <1>2, <1>3 DEF DockTyped, Executables
  <2>3. viewsOf' \in [Files' -> [root : Roots', graph : BOOLEAN]] /\ address' \in Nat /\ (dockSetup \in DockSetups)'
    BY <1>1, <1>2, <1>3 DEF DockTyped, Roots, Executables
  <2>4. (asked # Absent => activeFile \in Executables /\ asked \in DOMAIN Program.functions)'
    BY <1>1, <1>2, <1>3 DEF DockTyped, Executables
  <2>5. (seen = [active |-> seen.active, binary |-> seen.binary, follow |-> seen.follow, graph |-> seen.graph])'
    BY <1>1, <1>2 DEF DockTyped
  <2> QED BY <2>1, <2>2, <2>3, <2>4, <2>5 DEF DockTyped
<1>6. SelectedOwn'
  BY <1>1, <1>2, <1>4 DEF SelectedOwn
<1>7. SeenOK'
  BY <1>1, <1>2, <1>3, <1>4 DEF SeenOK
<1>8. PauseOK'
  BY <1>4 DEF PauseOK
<1> QED BY <1>1, <1>5, <1>6, <1>7, <1>8, EventKeeps

\* The failure of an analysis leaves the file, its view and the pause alone.
LEMMA FailureIsLight ==
  ASSUME DockInv, AnalysisFails
  PROVE  Light
<1>1. tab \in BinaryTabs /\ cfgView \in {"program", "function"} /\ projection \in Projections
  BY DEF DockInv, DockTyped, DockTypeOK
<1> QED BY <1>1 DEF AnalysisFails, Light, panes

\* The invariant holds at first.
LEMMA DockStarts ==
  ASSUME DockInit
  PROVE  DockInv
<1>1. /\ dockSetup \in DockSetups /\ activeFile \in Files /\ viewsOf = [f \in Files |-> [root |-> Absent, graph |-> FALSE]]
      /\ asked = Absent /\ address = 0 /\ selected = Absent /\ tab = "cfg" /\ projection = "flow" /\ cfgView = "program"
      /\ history = <<>> /\ due = TRUE /\ renders = 0
      /\ seen = [active |-> Absent, binary |-> Absent, follow |-> <<>>, graph |-> FALSE]
  BY DEF DockInit
<1>2. View = [root |-> Absent, graph |-> FALSE]
  BY <1>1 DEF View
<1>3. DockTyped
  BY <1>1, DockAssumption DEF DockTyped, DockTypeOK, Roots, BinaryTabs
<1>4. SelectedOwn /\ SeenOK /\ HistoryOK /\ PauseOK /\ EffectsOK
  BY <1>1, <1>2 DEF SelectedOwn, SeenOK, HistoryOK, PauseOK, EffectsOK
<1> QED BY <1>1, <1>3, <1>4 DEF DockInv, RestOK, SelectionIsShown, PauseIsShown, HistoryIsOwn, AtRest

\* Every step keeps the invariant.
LEMMA DockKeeps ==
  ASSUME DockInv, [DockNext]_dockVars
  PROVE  DockInv'
<1>1. DockTyped
  BY DEF DockInv
<1>2. CASE RunEffects
  BY <1>2, EffectsKeep
<1>3. CASE \E f \in Files : OpenFile(f)
  BY <1>3, OpenKeeps
<1>4. CASE Analyzed
  <2>1. PICK root : /\ activeFile \in Executables /\ root \in {asked, View.root} \ {Absent} /\ Commit(root)
    BY <1>4 DEF Analyzed
  <2>2. root \in DOMAIN Program.functions
    BY <1>1, <2>1, DockFacts DEF DockTyped, HasSummary
  <2> QED BY <2>1, <2>2, CommitKeeps
<1>5. CASE Parsed
  BY <1>5, CommitKeeps DEF Parsed
<1>6. CASE AnalysisFails
  BY <1>6, FailureIsLight, LightKeeps
<1>7. CASE ClearShown
  BY <1>7, ClearKeeps
<1>8. CASE activeFile \in Executables /\ \E a \in Program.pauses \cup {0} : Pause(a)
  <2>1. Program.pauses \subseteq Nat
    BY <1>1, <1>8, DockFacts DEF IsProgram
  <2> QED BY <1>8, <2>1, PauseKeeps
<1>9. CASE UserActs
  BY <1>9, UserIsLight, LightKeeps
<1>10. CASE UNCHANGED dockVars
  <2>1. UNCHANGED <<dockSetup, activeFile, viewsOf, asked, address, selected, panes, toolbar, history, due, seen, renders, chosen>>
    BY <1>10 DEF dockVars
  <2>2. UNCHANGED <<tab, projection, cfgView>>
    BY <2>1 DEF panes
  <2>3. /\ Files' = Files /\ View' = View /\ HasSummary' = HasSummary /\ Program' = Program
        /\ BinaryFile' = BinaryFile /\ Graph' = Graph /\ Following' = Following
        /\ ShownIds' = ShownIds /\ ExecutionNode' = ExecutionNode /\ Executables' = Executables /\ Roots' = Roots
    BY <2>1, SameFile, ShownSame DEF Executables, Roots
  <2>4. Moved' = Moved /\ Opened' = Opened /\ Fresh' = Fresh
    BY <2>1, <2>3 DEF Moved, Opened, Fresh
  <2>5. DockTyped'
    BY <1>1, <2>1, <2>2, <2>3 DEF DockTyped, DockTypeOK
  <2>6. SelectedOwn' /\ SeenOK' /\ HistoryOK' /\ PauseOK'
    BY <2>1, <2>2, <2>3, <2>4 DEF DockInv, SelectedOwn, SeenOK, HistoryOK, PauseOK
  <2>7. Kept' = Kept
    BY <2>1, <2>2, <2>3 DEF Kept
  <2>8. Calm' = Calm
    BY <2>1, <2>2, <2>3, <2>4 DEF Calm, SourceTabs
  <2>9. EffectsOK'
    BY <2>1, <2>7, <2>8 DEF DockInv, EffectsOK
  <2>10. RestOK' /\ SelectionIsShown' /\ PauseIsShown' /\ HistoryIsOwn'
    BY <2>1, <2>2, <2>3, <2>4 DEF DockInv, RestOK, SelectionIsShown, PauseIsShown, HistoryIsOwn, AtRest, SourceTabs
  <2> QED BY <2>5, <2>6, <2>9, <2>10 DEF DockInv
<1> QED BY <1>2, <1>3, <1>4, <1>5, <1>6, <1>7, <1>8, <1>9, <1>10 DEF DockNext

\* Whatever is done, the dock's effects come to rest after three renders, with a
\* selection that is shown, a pause that is followed and no summary of another file.
THEOREM DockInvariance == DockSpec => []DockInv
<1>1. DockInit => DockInv
  BY DockStarts
<1>2. DockInv /\ [DockNext]_dockVars => DockInv'
  BY DockKeeps
<1> QED BY <1>1, <1>2, PTL DEF DockSpec

-----------------------------------------------------------------------------
\* The flow of a program: what is known of the summaries it is drawn from.
FlowQuestion(q) ==
  /\ IsFiniteSet(q.static) /\ IsFiniteSet(DOMAIN q.summaries)
  /\ \A f \in DOMAIN q.summaries :
       IsFiniteSet(q.summaries[f]) /\ \A x, y \in q.summaries[f] : x.at = y.at => x = y
  /\ \A s \in q.static : \A t \in q.static : SiteOf(s) = SiteOf(t) => s = t
  /\ \A s \in q.static : s.from \in DOMAIN q.summaries =>
       \A x \in q.summaries[s.from] :
         x.at = s.at /\ x.flow \in {"call", "jump"} /\ TargetOf(q, x.target) = s.to =>
           (x.flow = "jump" <=> s.kind = "tail-call")

\* What an edge stands for.
EndsOf(q, t) == <<NodeOf(q, t.from), NodeOf(q, t.to)>>
Joins(q) == {t \in Transfers(q) : {t.from, t.to} \subseteq Drawn(q) /\ NodeOf(q, t.from) # NodeOf(q, t.to)}
Joined(q, p, flow) == {t \in Joins(q) : EndsOf(q, t) = p /\ t.flow = flow}

\* An instruction of an inspected function as a transfer.
Inspects(q, f, x) ==
  Transfer(x.at, f, TargetOf(q, x.target), IF x.flow = "call" THEN "call" ELSE "branch", x.flow)

\* What a function takes the elements of a finite set to is finite.
LEMMA ImageIsFinite ==
  ASSUME NEW S, IsFiniteSet(S), NEW T, NEW f \in [S -> T], \A t \in T : \E x \in S : f[x] = t
  PROVE  IsFiniteSet(T)
<1>1. f \in Surjection(S, T)
  BY DEF Surjection
<1> QED BY <1>1, FS_Surjection

\* There are finitely many transfers.
LEMMA TransfersAreFinite ==
  ASSUME NEW q, FlowQuestion(q)
  PROVE  /\ IsFiniteSet(Transfers(q)) /\ IsFiniteSet(Sites(q))
         /\ \A t \in StaticTransfers(q) \cup InspectedTransfers(q) : t.flow \in {"call", "branch"}
<1> DEFINE all == StaticTransfers(q) \cup InspectedTransfers(q)
<1>1. IsFiniteSet(StaticTransfers(q))
  <2> DEFINE g == [t \in q.static |->
                     Transfer(t.at, t.from, t.to, IF t.kind = "tail-call" THEN "branch" ELSE "call", t.kind)]
  <2>1. IsFiniteSet(q.static)
    BY DEF FlowQuestion
  <2>2. g \in [q.static -> StaticTransfers(q)]
    BY DEF StaticTransfers
  <2>3. \A u \in StaticTransfers(q) : \E t \in q.static : g[t] = u
    BY DEF StaticTransfers
  <2> HIDE DEF g
  <2> QED BY <2>1, <2>2, <2>3, ImageIsFinite
<1>2. IsFiniteSet(InspectedTransfers(q))
  <2> DEFINE D == DOMAIN q.summaries
             Of(f) == {x \in q.summaries[f] : x.flow \in {"call", "jump"} /\ TargetOf(q, x.target) # Absent}
             In(f) == {Inspects(q, f, x) : x \in Of(f)}
             g == [f \in D |-> In(f)]
             All == {In(f) : f \in D}
  <2>1. ASSUME NEW f \in D PROVE IsFiniteSet(In(f))
    <3> DEFINE h == [x \in Of(f) |-> Inspects(q, f, x)]
    <3>1. IsFiniteSet(Of(f))
      BY FS_Subset DEF FlowQuestion
    <3>2. h \in [Of(f) -> In(f)] /\ \A u \in In(f) : \E x \in Of(f) : h[x] = u
      OBVIOUS
    <3> HIDE DEF h, Of, In
    <3> QED BY <3>1, <3>2, ImageIsFinite
  <2>2. IsFiniteSet(D)
    BY DEF FlowQuestion
  <2>3. g \in [D -> All] /\ \A u \in All : \E f \in D : g[f] = u
    OBVIOUS
  <2>4. IsFiniteSet(All)
    <3> HIDE DEF g, All, D
    <3> QED BY <2>2, <2>3, ImageIsFinite
  <2>5. \A T \in All : IsFiniteSet(T)
    BY <2>1
  <2>6. InspectedTransfers(q) = UNION All
    BY DEF InspectedTransfers, Inspects
  <2> HIDE DEF All
  <2> QED BY <2>4, <2>5, <2>6, FS_UNION
<1>3. IsFiniteSet(all)
  BY <1>1, <1>2, FS_Union
<1>4. Transfers(q) \in SUBSET all
  BY DEF Transfers
<1>5. IsFiniteSet(Transfers(q))
  <2> HIDE DEF all
  <2> QED BY <1>3, <1>4, FS_Subset
<1>6. IsFiniteSet(Sites(q))
  <2> DEFINE g == [t \in all |-> SiteOf(t)]
  <2>1. g \in [all -> Sites(q)] /\ \A u \in Sites(q) : \E t \in all : g[t] = u
    BY DEF Sites
  <2> HIDE DEF g, all
  <2> QED BY <1>3, <2>1, ImageIsFinite
<1>7. \A t \in all : t.flow \in {"call", "branch"}
  BY DEF StaticTransfers, InspectedTransfers, Transfer
<1> QED BY <1>5, <1>6, <1>7

\* No two transfers are of the same call site: what an inspected function says of one
\* the call graph knows is what the call graph says.
LEMMA SitesAreDistinct ==
  ASSUME NEW q, FlowQuestion(q), NEW t \in Transfers(q), NEW u \in Transfers(q), SiteOf(t) = SiteOf(u)
  PROVE  t = u
<1> DEFINE Own(s) == Transfer(s.at, s.from, s.to, IF s.kind = "tail-call" THEN "branch" ELSE "call", s.kind)
<1>1. ASSUME NEW v \in StaticTransfers(q) PROVE \E s \in q.static : v = Own(s) /\ SiteOf(s) = SiteOf(v)
  BY DEF StaticTransfers, Transfer, SiteOf
<1>2. ASSUME NEW v \in InspectedTransfers(q)
      PROVE  /\ v.from \in DOMAIN q.summaries
             /\ \E x \in q.summaries[v.from] :
                  x.flow \in {"call", "jump"} /\ v = Inspects(q, v.from, x) /\ x.at = v.at /\ TargetOf(q, x.target) = v.to
  <2>1. PICK f \in DOMAIN q.summaries : \E x \in q.summaries[f] : x.flow \in {"call", "jump"} /\ v = Inspects(q, f, x)
    BY <1>2 DEF InspectedTransfers, Inspects
  <2>2. v.from = f
    BY <2>1 DEF Inspects, Transfer
  <2> QED BY <2>1, <2>2 DEF Inspects, Transfer
<1>3. t.from = u.from /\ t.at = u.at /\ t.to = u.to
  BY DEF SiteOf
<1>4. CASE t \in StaticTransfers(q) /\ u \in StaticTransfers(q)
  <2>1. PICK s \in q.static : t = Own(s) /\ SiteOf(s) = SiteOf(t)
    BY <1>1, <1>4
  <2>2. PICK r \in q.static : u = Own(r) /\ SiteOf(r) = SiteOf(u)
    BY <1>1, <1>4
  <2>3. s = r
    BY <2>1, <2>2 DEF FlowQuestion
  <2> QED BY <2>1, <2>2, <2>3
<1>5. CASE t \in InspectedTransfers(q) /\ u \in InspectedTransfers(q)
  <2>1. PICK x \in q.summaries[t.from] : t = Inspects(q, t.from, x) /\ x.at = t.at
    BY <1>2, <1>5
  <2>2. PICK y \in q.summaries[u.from] : u = Inspects(q, u.from, y) /\ y.at = u.at
    BY <1>2, <1>5
  <2>3. x = y
    BY <1>2, <1>3, <1>5, <2>1, <2>2 DEF FlowQuestion
  <2> QED BY <1>3, <2>1, <2>2, <2>3
<1>6. ASSUME NEW v \in StaticTransfers(q), NEW w \in InspectedTransfers(q), w \in Transfers(q),
             v.from = w.from, v.at = w.at, v.to = w.to, w \notin StaticTransfers(q)
      PROVE  FALSE
  <2>1. PICK s \in q.static : v = Own(s) /\ SiteOf(s) = SiteOf(v)
    BY <1>1
  <2>2. w.from \in DOMAIN q.summaries
    BY <1>2
  <2>3. PICK x \in q.summaries[w.from] :
          x.flow \in {"call", "jump"} /\ w = Inspects(q, w.from, x) /\ x.at = w.at /\ TargetOf(q, x.target) = w.to
    BY <1>2
  <2>4. s.from = w.from /\ s.at = w.at /\ s.to = w.to
    BY <1>6, <2>1 DEF SiteOf
  <2>5. x.flow = "jump" <=> s.kind = "tail-call"
    BY <2>2, <2>3, <2>4 DEF FlowQuestion
  <2>6. w.flow = v.flow
    BY <2>1, <2>3, <2>5 DEF Inspects, Transfer
  <2> QED BY <1>6, <2>6 DEF Transfers
<1>7. Transfers(q) \subseteq StaticTransfers(q) \cup InspectedTransfers(q)
  BY DEF Transfers
<1> QED BY <1>3, <1>4, <1>5, <1>6, <1>7

\* An edge is one of two nodes, with the transfers between them.
LEMMA EdgeFacts ==
  ASSUME NEW q, NEW e \in FlowEdges(q)
  PROVE  /\ e = [from |-> e.from, to |-> e.to,
                 calls |-> Cardinality(Joined(q, <<e.from, e.to>>, "call")),
                 branches |-> Cardinality(Joined(q, <<e.from, e.to>>, "branch"))]
         /\ \E t \in Joins(q) : EndsOf(q, t) = <<e.from, e.to>>
<1> DEFINE Edge(p) == [from |-> p[1], to |-> p[2],
                       calls |-> Cardinality(Joined(q, p, "call")), branches |-> Cardinality(Joined(q, p, "branch"))]
<1>1. FlowEdges(q) = {Edge(p) : p \in {EndsOf(q, t) : t \in Joins(q)}}
  BY DEF FlowEdges, EndsOf, Joins, Joined
<1>2. PICK t \in Joins(q) : e = Edge(EndsOf(q, t))
  BY <1>1
<1>3. EndsOf(q, t) = <<e.from, e.to>>
  BY <1>2 DEF EndsOf
<1> QED BY <1>2, <1>3

\* The edges count no call site twice.
LEMMA EdgesCountSites ==
  ASSUME NEW q, FlowQuestion(q)
  PROVE  EdgesAreSites(q)
<1>1. IsFiniteSet(Transfers(q)) /\ IsFiniteSet(Sites(q))
      /\ \A t \in Transfers(q) : t.flow \in {"call", "branch"}
  BY TransfersAreFinite DEF Transfers
<1>2. ASSUME NEW p, NEW flow
      PROVE  /\ IsFiniteSet(Joined(q, p, flow)) /\ Cardinality(Joined(q, p, flow)) \in Nat
             /\ Joined(q, p, flow) # {} => Cardinality(Joined(q, p, flow)) > 0
             /\ ExistsBijection(1..Cardinality(Joined(q, p, flow)), Joined(q, p, flow))
  <2>1. Joined(q, p, flow) \in SUBSET Transfers(q)
    BY DEF Joined, Joins
  <2>2. IsFiniteSet(Joined(q, p, flow))
    BY <1>1, <2>1, FS_Subset
  <2>3. Cardinality(Joined(q, p, flow)) \in Nat /\ ExistsBijection(1..Cardinality(Joined(q, p, flow)), Joined(q, p, flow))
    BY <2>2, FS_CardinalityType
  <2>4. Joined(q, p, flow) # {} => Cardinality(Joined(q, p, flow)) # 0
    BY <2>2, FS_EmptySet
  <2> QED BY <2>2, <2>3, <2>4
<1>3. ASSUME NEW e \in FlowEdges(q) PROVE {e.from, e.to} \subseteq FlowNodes(q) /\ e.calls + e.branches > 0
  <2>1. PICK t \in Joins(q) : EndsOf(q, t) = <<e.from, e.to>>
    BY EdgeFacts
  <2>2. e.from = NodeOf(q, t.from) /\ e.to = NodeOf(q, t.to) /\ {t.from, t.to} \subseteq Drawn(q)
    BY <2>1 DEF EndsOf, Joins
  <2>3. {e.from, e.to} \subseteq FlowNodes(q)
    BY <2>2 DEF FlowNodes
  <2>4. t \in Joined(q, <<e.from, e.to>>, "call") \/ t \in Joined(q, <<e.from, e.to>>, "branch")
    BY <1>1, <2>1 DEF Joined, Joins
  <2>5. /\ e.calls = Cardinality(Joined(q, <<e.from, e.to>>, "call"))
        /\ e.branches = Cardinality(Joined(q, <<e.from, e.to>>, "branch"))
    BY EdgeFacts
  <2>6. e.calls \in Nat /\ e.branches \in Nat /\ (e.calls > 0 \/ e.branches > 0)
    BY <1>2, <2>4, <2>5
  <2> QED BY <2>3, <2>6
<1> DEFINE P(c) == Joined(q, <<c[1].from, c[1].to>>, c[2])
           Numbers(c) == Bijection(1..Cardinality(P(c)), P(c))
           G == [c \in Counted(q) |-> (CHOOSE h \in Numbers(c) : TRUE)[c[3]]]
           H == [c \in Counted(q) |-> SiteOf(G[c])]
<1>4. ASSUME NEW c \in Counted(q)
      PROVE  /\ c[1] \in FlowEdges(q) /\ c = <<c[1], c[2], c[3]>> /\ c[2] \in {"call", "branch"}
             /\ c[3] \in 1..Cardinality(P(c))
             /\ (CHOOSE h \in Numbers(c) : TRUE) \in Numbers(c)
  <2>1. c \in FlowEdges(q) \X {"call", "branch"} \X (1..Cardinality(Transfers(q))) /\ c[3] <= Counts(c[1], c[2])
    BY <1>4 DEF Counted
  <2>2. c[1] \in FlowEdges(q) /\ c[2] \in {"call", "branch"} /\ c[3] \in 1..Cardinality(Transfers(q))
    BY <2>1
  <2>3. c = <<c[1], c[2], c[3]>>
    BY <2>1
  <2>4. /\ c[1].calls = Cardinality(Joined(q, <<c[1].from, c[1].to>>, "call"))
        /\ c[1].branches = Cardinality(Joined(q, <<c[1].from, c[1].to>>, "branch"))
    BY <2>2, EdgeFacts
  <2>5. Counts(c[1], c[2]) = Cardinality(P(c))
    BY <2>2, <2>4 DEF Counts
  <2>6. Cardinality(P(c)) \in Nat /\ Numbers(c) # {}
    BY <1>2 DEF ExistsBijection
  <2>7. c[3] \in 1..Cardinality(P(c))
    <3> HIDE DEF P
    <3>1. c[3] \in Nat /\ c[3] >= 1
      <4>1. IsFiniteSet(Transfers(q)) => Cardinality(Transfers(q)) \in Nat
        BY FS_CardinalityType
      <4> QED BY <1>1, <2>2, <4>1
    <3> QED BY <2>1, <2>5, <2>6, <3>1
  <2>8. (CHOOSE h \in Numbers(c) : TRUE) \in Numbers(c)
    <3> HIDE DEF Numbers
    <3> QED BY <2>6
  <2> QED BY <2>2, <2>3, <2>7, <2>8
<1>5. ASSUME NEW c \in Counted(q) PROVE G[c] \in P(c)
  <2>1. PICK h \in Numbers(c) : G[c] = h[c[3]]
    BY <1>4
  <2>2. h \in [1..Cardinality(P(c)) -> P(c)]
    BY <2>1 DEF Bijection, Injection
  <2> HIDE DEF P, G
  <2> QED BY <1>4, <2>1, <2>2
<1>6. ASSUME NEW c \in Counted(q), NEW d \in Counted(q), G[c] = G[d] PROVE c = d
  <2>1. G[c] \in P(c) /\ G[c] \in P(d)
    BY <1>5, <1>6
  <2>2. <<c[1].from, c[1].to>> = <<d[1].from, d[1].to>> /\ c[2] = d[2]
    BY <2>1 DEF Joined
  <2>3. c[1] = d[1]
    <3>1. c[1] \in FlowEdges(q) /\ d[1] \in FlowEdges(q)
      BY <1>4
    <3>2. c[1].from = d[1].from /\ c[1].to = d[1].to
      BY <2>2
    <3>3. ASSUME NEW e \in FlowEdges(q), NEW g \in FlowEdges(q), e.from = g.from, e.to = g.to PROVE e = g
      <4> DEFINE R(from, to) == [from |-> from, to |-> to,
                                 calls |-> Cardinality(Joined(q, <<from, to>>, "call")),
                                 branches |-> Cardinality(Joined(q, <<from, to>>, "branch"))]
      <4>1. e = R(e.from, e.to) /\ g = R(g.from, g.to)
        BY EdgeFacts
      <4>2. R(e.from, e.to) = R(g.from, g.to)
        BY <3>3
      <4> HIDE DEF R
      <4> QED BY <4>1, <4>2
    <3> QED BY <3>1, <3>2, <3>3
  <2>4. P(c) = P(d) /\ Numbers(c) = Numbers(d)
    BY <2>2, <2>3
  <2>5. c[3] = d[3]
    <3> DEFINE h == CHOOSE h \in Numbers(c) : TRUE
    <3>1. h \in Numbers(c) /\ c[3] \in 1..Cardinality(P(c)) /\ d[3] \in 1..Cardinality(P(c))
      BY <1>4, <2>4
    <3>2. G[c] = h[c[3]] /\ G[d] = h[d[3]]
      BY <2>4
    <3>3. h \in [1..Cardinality(P(c)) -> P(c)] /\ IsInjective(h)
      BY <3>1 DEF Bijection, Injection
    <3> HIDE DEF h, P, G, Numbers
    <3> QED BY <1>6, <3>1, <3>2, <3>3 DEF IsInjective
  <2> HIDE DEF P, G, Numbers
  <2> QED BY <1>4, <2>2, <2>3, <2>5
<1>7. ASSUME NEW c \in Counted(q) PROVE G[c] \in Transfers(q) /\ SiteOf(G[c]) \in Sites(q)
  <2>1. G[c] \in Transfers(q)
    <3> HIDE DEF G
    <3> QED BY <1>5 DEF Joined, Joins
  <2> HIDE DEF G
  <2> QED BY <2>1 DEF Transfers, Sites
<1>8. H \in Injection(Counted(q), Sites(q))
  <2> HIDE DEF G
  <2>1. H \in [Counted(q) -> Sites(q)]
    BY <1>7
  <2>2. ASSUME NEW c \in Counted(q), NEW d \in Counted(q), H[c] = H[d] PROVE c = d
    <3>1. SiteOf(G[c]) = SiteOf(G[d])
      BY <2>2
    <3>2. G[c] = G[d]
      BY <1>7, <3>1, SitesAreDistinct
    <3> QED BY <1>6, <3>2
  <2>3. IsInjective(H)
    <3>1. DOMAIN H = Counted(q)
      OBVIOUS
    <3> HIDE DEF H
    <3> QED BY <2>2, <3>1 DEF IsInjective
  <2> HIDE DEF H
  <2> QED BY <2>1, <2>3 DEF Injection
<1>9. Cardinality(Counted(q)) <= Cardinality(Sites(q))
  <2> HIDE DEF H, G
  <2> QED BY <1>1, <1>8, FS_Injection
<1> QED BY <1>3, <1>9 DEF EdgesAreSites

\* The summaries of a file at rest: its own functions, the one that is shown among them.
LEMMA QuestionAtRest ==
  ASSUME DockInv, AtRest, HasSummary
  PROVE  /\ activeFile \in Executables /\ IsProgram(Program)
         /\ Question.summaries = [f \in DOMAIN history |-> Program.code[f]]
         /\ View.root \in DOMAIN history /\ DOMAIN history \subseteq DOMAIN Program.functions
<1>1. DockTyped /\ HistoryOK /\ RestOK /\ HistoryIsOwn
  BY DEF DockInv
<1>2. activeFile \in Executables /\ activeFile # Absent /\ IsProgram(Program) /\ BinaryFile = activeFile
  BY <1>1, DockFacts DEF BinaryFile
<1>3. seen.binary = activeFile
  BY <1>1, <1>2 DEF RestOK, Fresh
<1>4. View.root \in DOMAIN history /\ \A f \in DOMAIN history : history[f] = activeFile
  BY <1>1 DEF HistoryIsOwn
<1>5. DOMAIN history \subseteq DOMAIN Program.functions
  BY <1>1, <1>2, <1>3 DEF HistoryOK, Program
<1>6. DOMAIN history \cup {View.root} = DOMAIN history
  BY <1>4
<1>7. Question.summaries = [f \in DOMAIN history |-> Programs[IF f = View.root THEN activeFile ELSE history[f]].code[f]]
  BY <1>6 DEF Question
<1>8. Question.summaries = [f \in DOMAIN history |-> Program.code[f]]
  BY <1>4, <1>7 DEF Program
<1> QED BY <1>2, <1>4, <1>5, <1>8

\* A flow is drawn from what IsProgram says of a program.
LEMMA QuestionIsWhole ==
  ASSUME DockInv, AtRest, HasSummary
  PROVE  FlowQuestion(Question)
<1> DEFINE q == Question
           p == Program
<1>1. /\ activeFile \in Executables /\ IsProgram(p) /\ q.summaries = [f \in DOMAIN history |-> p.code[f]]
      /\ DOMAIN history \subseteq DOMAIN p.functions
  BY QuestionAtRest
<1>2. q.functions = p.functions /\ q.plts = p.plts /\ q.static = p.static
  BY DEF Question
<1> HIDE DEF q, p
<1>3. DOMAIN q.summaries = DOMAIN history /\ \A f \in DOMAIN history : q.summaries[f] = p.code[f]
  BY <1>1
<1>4. \A a : TargetOf(q, a) = TargetOf(p, a)
  BY <1>2 DEF TargetOf
<1>5. IsFiniteSet(DOMAIN q.summaries)
  <2>1. IsFiniteSet(DOMAIN p.functions)
    BY <1>1 DEF IsProgram
  <2> QED BY <1>1, <1>3, <2>1, FS_Subset
<1>6. ASSUME NEW f \in DOMAIN q.summaries
      PROVE  IsFiniteSet(q.summaries[f]) /\ \A x, y \in q.summaries[f] : x.at = y.at => x = y
  BY <1>1, <1>3 DEF IsProgram
<1>7. ASSUME NEW s \in q.static, s.from \in DOMAIN q.summaries, NEW x \in q.summaries[s.from],
             x.at = s.at, x.flow \in {"call", "jump"}, TargetOf(q, x.target) = s.to
      PROVE  x.flow = "jump" <=> s.kind = "tail-call"
  <2>1. s \in p.static /\ x \in p.code[s.from] /\ TargetOf(p, x.target) = s.to
    BY <1>2, <1>3, <1>4, <1>7
  <2> QED BY <1>1, <1>7, <2>1 DEF IsProgram
<1>8. IsFiniteSet(q.static) /\ \A s \in q.static : \A t \in q.static : SiteOf(s) = SiteOf(t) => s = t
  BY <1>1, <1>2 DEF IsProgram
<1>9. FlowQuestion(q)
  BY <1>5, <1>6, <1>7, <1>8 DEF FlowQuestion
<1> QED BY <1>9 DEF q

\* The view of the whole program shows the function that is inspected, and counts no
\* call site twice.
LEMMA FlowComesWhole ==
  ASSUME DockInv
  PROVE  FlowIsWhole
<1> SUFFICES ASSUME AtRest, HasSummary
    PROVE  /\ EdgesAreSites(Question)
           /\ GroupOf(Question, View.root) \in hiddenGroups \/ NodeOf(Question, View.root) \in FlowNodes(Question)
           /\ \A a \in Entities(Question) : GroupOf(Question, a) \in hiddenGroups => NodeOf(Question, a) \notin FlowNodes(Question)
  BY DEF FlowIsWhole
<1> DEFINE q == Question
<1>1. EdgesAreSites(q)
  BY QuestionIsWhole, EdgesCountSites
<1>2. q.functions = Program.functions /\ q.active = View.root /\ q.hidden = hiddenGroups
  BY DEF Question
<1>3. View.root \in DOMAIN Program.functions
  BY QuestionAtRest
<1> HIDE DEF q
<1>4. View.root \in Scoped(q)
  <2>1. View.root \in Entities(q) /\ View.root \in Focus(q) /\ View.root \in Touched(q)
    BY <1>2, <1>3 DEF Entities, Focus, Touched
  <2> QED BY <2>1 DEF Scoped
<1>5. GroupOf(q, View.root) \in hiddenGroups \/ NodeOf(q, View.root) \in FlowNodes(q)
  BY <1>2, <1>4 DEF Drawn, FlowNodes
<1>6. ASSUME NEW a \in Entities(q), GroupOf(q, a) \in hiddenGroups, NodeOf(q, a) \in FlowNodes(q) PROVE FALSE
  <2>1. PICK b \in Drawn(q) : NodeOf(q, b) = NodeOf(q, a)
    BY <1>6 DEF FlowNodes
  <2>2. GroupOf(q, b) \notin hiddenGroups
    BY <1>2 DEF Drawn
  <2>3. \A x : NodeOf(q, x) = <<"group", GroupOf(q, x)>>
               \/ (NodeOf(q, x) = <<TypeOf(q, x), x>> /\ TypeOf(q, x) \in {"plt", "function"})
    BY DEF NodeOf, TypeOf
  <2>4. NodeOf(q, a)[1] = "group" /\ NodeOf(q, b)[1] = "group" => GroupOf(q, a) = GroupOf(q, b)
    BY <2>1, <2>3
  <2>5. NodeOf(q, a)[1] # "group" => a = b
    BY <2>1, <2>3
  <2> QED BY <1>6, <2>1, <2>2, <2>4, <2>5
<1> QED BY <1>1, <1>5, <1>6 DEF q

\* A flow that is drawn from more summaries shows all that it showed.
LEMMA FlowGrows ==
  ASSUME NEW q, NEW r,
         r.functions = q.functions, r.plts = q.plts, r.static = q.static,
         r.scope = q.scope, r.hidden = q.hidden, r.expanded = q.expanded, q.scope # "focus",
         q.active \in DOMAIN r.summaries, DOMAIN q.summaries \subseteq DOMAIN r.summaries,
         \A f \in DOMAIN q.summaries : r.summaries[f] = q.summaries[f]
  PROVE  /\ FlowNodes(q) \subseteq FlowNodes(r)
         /\ {<<e.from, e.to>> : e \in FlowEdges(q)} \subseteq {<<e.from, e.to>> : e \in FlowEdges(r)}
<1>1. StaticTransfers(r) = StaticTransfers(q)
  BY DEF StaticTransfers
<1>2. \A a : TargetOf(r, a) = TargetOf(q, a)
  BY DEF TargetOf
<1>3. InspectedTransfers(q) \subseteq InspectedTransfers(r)
  <2> SUFFICES ASSUME NEW t \in InspectedTransfers(q) PROVE t \in InspectedTransfers(r)
    OBVIOUS
  <2>1. PICK f \in DOMAIN q.summaries :
          \E x \in q.summaries[f] : /\ x.flow \in {"call", "jump"} /\ TargetOf(q, x.target) # Absent
                                    /\ t = Inspects(q, f, x)
    BY DEF InspectedTransfers, Inspects
  <2>2. PICK x \in q.summaries[f] : /\ x.flow \in {"call", "jump"} /\ TargetOf(q, x.target) # Absent
                                    /\ t = Inspects(q, f, x)
    BY <2>1
  <2>3. f \in DOMAIN r.summaries /\ x \in r.summaries[f] /\ TargetOf(r, x.target) # Absent /\ t = Inspects(r, f, x)
    BY <1>2, <2>2 DEF Inspects
  <2> QED BY <2>2, <2>3 DEF InspectedTransfers, Inspects
<1>4. Transfers(q) \subseteq Transfers(r)
  BY <1>1, <1>3 DEF Transfers
<1>5. Touched(q) \subseteq Touched(r)
  BY <1>1, <1>3 DEF Touched
<1>6. Entities(r) = Entities(q)
  BY DEF Entities
<1>7. \A a : GroupOf(r, a) = GroupOf(q, a) /\ NodeOf(r, a) = NodeOf(q, a)
  BY DEF GroupOf, NodeOf, TypeOf
<1>8. Scoped(q) \subseteq Scoped(r)
  <2>1. Scoped(q) = Entities(q) \cap (IF q.scope = "visited" THEN Touched(q) ELSE Entities(q))
    BY DEF Scoped
  <2>2. Scoped(r) = Entities(r) \cap (IF r.scope = "visited" THEN Touched(r) ELSE Entities(r))
    BY DEF Scoped
  <2> QED BY <1>5, <1>6, <2>1, <2>2
<1>9. Drawn(q) \subseteq Drawn(r)
  BY <1>7, <1>8 DEF Drawn
<1>10. FlowNodes(q) \subseteq FlowNodes(r)
  BY <1>7, <1>9 DEF FlowNodes
<1>11. Joins(q) \subseteq Joins(r) /\ \A t : EndsOf(r, t) = EndsOf(q, t)
  BY <1>4, <1>7, <1>9 DEF Joins, EndsOf
<1>12. ASSUME NEW e \in FlowEdges(q) PROVE \E d \in FlowEdges(r) : <<d.from, d.to>> = <<e.from, e.to>>
  <2> DEFINE Edge(p) == [from |-> p[1], to |-> p[2],
                         calls |-> Cardinality(Joined(r, p, "call")), branches |-> Cardinality(Joined(r, p, "branch"))]
  <2>1. PICK t \in Joins(q) : EndsOf(q, t) = <<e.from, e.to>>
    BY EdgeFacts
  <2>2. FlowEdges(r) = {Edge(p) : p \in {EndsOf(r, u) : u \in Joins(r)}}
    BY DEF FlowEdges, EndsOf, Joins, Joined
  <2>3. Edge(<<e.from, e.to>>) \in FlowEdges(r)
    BY <1>11, <2>1, <2>2
  <2> QED BY <2>3
<1> QED BY <1>10, <1>12

\* Looking at another function takes nothing out of the flow.
LEMMA VisitAdds ==
  ASSUME DockInv, DockNext, HasSummary, ~Fresh, <<View.root, history>>' # <<View.root, history>>,
         activeFile' = activeFile, toolbar' = toolbar, programScope # "focus"
  PROVE  /\ FlowNodes(Question) \subseteq FlowNodes(Question')
         /\ {<<e.from, e.to>> : e \in FlowEdges(Question)} \subseteq {<<e.from, e.to>> : e \in FlowEdges(Question')}
<1>1. DockTyped /\ UNCHANGED <<programScope, hiddenGroups, expandedGroups>>
  BY DEF DockInv, toolbar
<1>2. CASE RunEffects
  <2>1. View' = View /\ Program' = Program
    BY <1>1, <1>2, EffectsSee, SameFile
  <2>2. history' = Recorded(history, View.root, activeFile)
    BY <1>2 DEF RunEffects, KeepHistory
  <2>3. DOMAIN history' = DOMAIN history \cup {View.root} /\ \A f \in DOMAIN history \ {View.root} : history'[f] = history[f]
    BY <2>2 DEF Recorded
  <2>4. Question'.summaries = Question.summaries
    <3>1. DOMAIN history' \cup {View.root} = DOMAIN history \cup {View.root}
      BY <2>3
    <3>2. \A f \in DOMAIN history \cup {View.root} :
            (IF f = View.root THEN activeFile ELSE history'[f]) = (IF f = View.root THEN activeFile ELSE history[f])
      BY <2>3
    <3> QED BY <2>1, <3>1, <3>2 DEF Question
  <2>5. Question' = Question
    BY <1>1, <2>1, <2>4 DEF Question
  <2> QED BY <2>5
<1>3. ASSUME NEW root, Commit(root) PROVE View'.root = root /\ UNCHANGED history /\ AtRest
  <2>1. activeFile \in Files /\ viewsOf \in [Files -> [root : Roots, graph : BOOLEAN]]
    BY <1>1 DEF DockTyped, DockTypeOK
  <2>2. viewsOf' = [viewsOf EXCEPT ![activeFile] = [root |-> root, graph |-> TRUE]] /\ UNCHANGED history /\ ~due
    BY <1>3 DEF Commit, Event
  <2>3. viewsOf'[activeFile] = [root |-> root, graph |-> TRUE]
    BY <2>1, <2>2
  <2> QED BY <2>2, <2>3 DEF View, AtRest
<1>4. ASSUME NEW root \in DOMAIN Program.functions, Commit(root)
      PROVE  /\ FlowNodes(Question) \subseteq FlowNodes(Question')
             /\ {<<e.from, e.to>> : e \in FlowEdges(Question)} \subseteq {<<e.from, e.to>> : e \in FlowEdges(Question')}
  <2> DEFINE q == Question
             r == Question'
  <2>1. View'.root = root /\ UNCHANGED history /\ AtRest
    BY <1>3, <1>4
  <2>2. /\ q.summaries = [f \in DOMAIN history |-> Program.code[f]] /\ View.root \in DOMAIN history
        /\ \A f \in DOMAIN history : history[f] = activeFile
    BY <2>1, QuestionAtRest DEF DockInv, HistoryIsOwn
  <2>3. Program' = Program
    BY DEF Program
  <2>4. /\ r.functions = q.functions /\ r.plts = q.plts /\ r.static = q.static
        /\ r.scope = q.scope /\ r.hidden = q.hidden /\ r.expanded = q.expanded /\ q.scope # "focus"
        /\ q.active = View.root
    BY <1>1, <2>3 DEF Question
  <2>5. r.summaries = [f \in DOMAIN history \cup {root} |-> Programs[IF f = root THEN activeFile ELSE history[f]].code[f]]
    BY <2>1, <2>3 DEF Question
  <2> HIDE DEF q, r
  <2>6. DOMAIN r.summaries = DOMAIN history \cup {root} /\ \A f \in DOMAIN history : r.summaries[f] = Program.code[f]
    BY <2>2, <2>5 DEF Program
  <2>7. DOMAIN q.summaries = DOMAIN history /\ \A f \in DOMAIN history : q.summaries[f] = Program.code[f]
    BY <2>2
  <2>8. FlowNodes(q) \subseteq FlowNodes(r)
        /\ {<<e.from, e.to>> : e \in FlowEdges(q)} \subseteq {<<e.from, e.to>> : e \in FlowEdges(r)}
    BY <2>2, <2>4, <2>6, <2>7, FlowGrows
  <2> QED BY <2>8 DEF q, r
<1>5. CASE Analyzed
  <2>1. PICK root : /\ activeFile \in Executables /\ root \in {asked, View.root} \ {Absent} /\ Commit(root)
    BY <1>5 DEF Analyzed
  <2>2. root \in DOMAIN Program.functions
    BY <1>1, <2>1, DockFacts DEF DockTyped, HasSummary
  <2> QED BY <1>4, <2>1, <2>2
<1>6. CASE Parsed
  BY <1>1, <1>6, DockFacts DEF Parsed
<1>7. CASE \E f \in Files : OpenFile(f)
  BY <1>7 DEF OpenFile
<1>8. CASE ClearShown
  <2>1. viewsOf \in [Files -> [root : Roots, graph : BOOLEAN]] /\ activeFile \in Files
    BY <1>1 DEF DockTyped, DockTypeOK
  <2>2. viewsOf[activeFile] \in [root : Roots, graph : BOOLEAN]
    BY <2>1
  <2>3. viewsOf' = [viewsOf EXCEPT ![activeFile] = [viewsOf[activeFile] EXCEPT !.graph = FALSE]] /\ UNCHANGED history
    BY <1>8 DEF ClearShown
  <2>4. viewsOf'[activeFile].root = viewsOf[activeFile].root
    BY <2>1, <2>2, <2>3
  <2> QED BY <2>3, <2>4 DEF View
<1>9. ASSUME UNCHANGED <<viewsOf, history>> PROVE FALSE
  BY <1>9 DEF View
<1>10. CASE AnalysisFails
  BY <1>9, <1>10 DEF AnalysisFails
<1>11. CASE \E a \in Program.pauses \cup {0} : Pause(a)
  BY <1>9, <1>11 DEF Pause
<1>12. CASE UserActs
  BY <1>9, <1>12, UserIsLight DEF Light
<1> QED BY <1>2, <1>5, <1>6, <1>7, <1>8, <1>10, <1>11, <1>12 DEF DockNext

\* Whatever the user opens, selects and chooses, and wherever the execution pauses,
\* the dock shows what it should: see DockShowsTheFlow.
THEOREM DockStaysTrue == DockSpec => DockShowsTheFlow
<1>1. DockInit => DockInv
  BY DockStarts
<1>2. DockInv /\ [DockNext]_dockVars => DockInv'
  BY DockKeeps
<1>3. DockInv => DockTypeOK /\ EffectsEnd /\ SelectionIsShown /\ PauseIsShown /\ HistoryIsOwn /\ FlowIsWhole
  BY FlowComesWhole DEF DockInv, DockTyped, EffectsOK, EffectsEnd
<1>4. DockInv /\ [DockNext]_dockVars =>
      [HasSummary /\ ~Fresh /\ <<View.root, history>>' # <<View.root, history>> /\ activeFile' = activeFile
         /\ toolbar' = toolbar /\ programScope # "focus" =>
         /\ FlowNodes(Question) \subseteq FlowNodes(Question')
         /\ {<<e.from, e.to>> : e \in FlowEdges(Question)} \subseteq {<<e.from, e.to>> : e \in FlowEdges(Question')}]_dockVars
  BY VisitAdds
<1> QED BY <1>1, <1>2, <1>3, <1>4, PTL DEF DockSpec, DockShowsTheFlow, VisitsOnlyAdd

-----------------------------------------------------------------------------
(***************************************************************************)
(* The trace.  Its last event is the instruction that was run last, or a    *)
(* gap when that is not known to be the program's: then nothing is lit by   *)
(* the next one.  A step from a node to another is along an edge of the     *)
(* graph, which is the shortest path there is.                              *)
(***************************************************************************)
LastEvent ==
  IF role = "program" THEN /\ place \in DOMAIN route.next /\ place[1] = "program" /\ place[2] # Gap
                           /\ events # <<>> /\ events[Len(events)] = place[2]
  ELSE events = <<>> \/ events[Len(events)] = Gap

FollowTyped ==
  /\ FollowTypeOK /\ route \in Routes /\ events \in Seq(Nat)
  /\ crossed \in Seq(route.edges)

FollowInv == FollowTyped /\ LastEvent /\ LitIsRun

\* The events that light an edge, and the crossings of it.
Lights(e) == {s \in (DOMAIN events) \X (1..MaxDepth) : s[2] \in DOMAIN PathTo(s[1]) /\ PathTo(s[1])[s[2]] = e}
CrossingsOf(e) == {i \in DOMAIN crossed : crossed[i] = e}

\* A path from a node to the next along an edge is that edge.
LEMMA PathOfAnEdge ==
  ASSUME route \in Routes, NEW from, NEW to, from # to, <<from, to>> \in route.edges
  PROVE  EdgePath(from, to) = [i \in 1..1 |-> <<from, to>>]
<1> DEFINE lengths == {n \in 1..MaxDepth : Paths(from, to, n) # {}}
           least == CHOOSE n \in lengths : \A m \in lengths : n <= m
           path == [i \in 1..1 |-> <<from, to>>]
<1>1. Paths(from, to, 1) = {path}
  <2>1. path \in Paths(from, to, 1)
    BY DEF Paths
  <2>2. ASSUME NEW p \in Paths(from, to, 1) PROVE p = path
    <3>1. p \in [1..1 -> route.edges] /\ p[1][1] = from /\ p[1][2] = to
      BY DEF Paths
    <3>2. p[1] \in route.edges
      BY <3>1
    <3>3. p[1] = <<p[1][1], p[1][2]>>
      BY <3>2, RoutesAssumption
    <3>4. \A i \in 1..1 : p[i] = <<from, to>>
      BY <3>1, <3>3
    <3> QED BY <3>1, <3>4
  <2> QED BY <2>1, <2>2
<1>2. 1 \in lengths /\ \A m \in lengths : m \in Nat /\ 1 <= m
  <2>1. MaxDepth = 3
    BY DEF MaxDepth
  <2>2. 1 \in 1..MaxDepth /\ \A m \in 1..MaxDepth : m \in Nat /\ 1 <= m
    BY <2>1
  <2>3. Paths(from, to, 1) # {}
    <3> HIDE DEF path
    <3> QED BY <1>1
  <2> QED BY <2>2, <2>3
<1>3. least = 1
  <2> HIDE DEF lengths
  <2>1. least \in lengths /\ \A m \in lengths : least <= m
    BY <1>2
  <2> HIDE DEF least
  <2> QED BY <1>2, <2>1
<1>4. EdgePath(from, to) = CHOOSE p \in Paths(from, to, least) : TRUE
  <2>1. lengths # {}
    BY <1>2
  <2> QED BY <2>1 DEF EdgePath
<1>5. EdgePath(from, to) = CHOOSE p \in {path} : TRUE
  <2> HIDE DEF least, path
  <2> QED BY <1>1, <1>3, <1>4
<1>6. (CHOOSE p \in {path} : TRUE) = path
  <2> HIDE DEF path
  <2> QED OBVIOUS
<1> QED BY <1>5, <1>6

\* The edges lit are those gone along when, edge by edge, there are as many of both.
LEMMA LitByCounts ==
  LitIsRun <=> \A e \in route.edges : Cardinality(Lights(e)) = Cardinality(CrossingsOf(e))
BY DEF LitIsRun, EdgeCounts, Lights, CrossingsOf

\* What lights an edge is finite.
LEMMA LightsAreFinite ==
  ASSUME FollowTyped, NEW e
  PROVE  IsFiniteSet(Lights(e)) /\ IsFiniteSet(CrossingsOf(e))
<1>1. DOMAIN events = 1..Len(events) /\ Len(events) \in Nat /\ DOMAIN crossed = 1..Len(crossed) /\ Len(crossed) \in Nat
  BY DEF FollowTyped
<1>2. IsFiniteSet(DOMAIN events) /\ IsFiniteSet(DOMAIN crossed)
  BY <1>1, FS_Interval
<1>3. IsFiniteSet(1..MaxDepth)
  <2>1. MaxDepth = 3 /\ 1 \in Int /\ 3 \in Int
    BY DEF MaxDepth
  <2>2. IsFiniteSet(1..3)
    BY <2>1, FS_Interval
  <2> QED BY <2>1, <2>2
<1>4. IsFiniteSet((DOMAIN events) \X (1..MaxDepth))
  BY <1>2, <1>3, FS_Product
<1>5. Lights(e) \in SUBSET ((DOMAIN events) \X (1..MaxDepth)) /\ CrossingsOf(e) \in SUBSET (DOMAIN crossed)
  BY DEF Lights, CrossingsOf
<1> QED BY <1>2, <1>4, <1>5, FS_Subset

\* Events that are recorded change nothing of the paths to those before.
LEMMA OldPathsStay ==
  ASSUME FollowTyped, UNCHANGED route, NEW more \in Seq(Nat), events' = events \o more
  PROVE  /\ DOMAIN events' = 1..(Len(events) + Len(more)) /\ Len(events') = Len(events) + Len(more)
         /\ \A i \in DOMAIN events : events'[i] = events[i] /\ PathTo(i)' = PathTo(i)
         /\ \A i \in 1..Len(more) : events'[Len(events) + i] = more[i]
<1>1. events \in Seq(Nat) /\ Len(events) \in Nat /\ Len(more) \in Nat /\ DOMAIN events = 1..Len(events)
  BY DEF FollowTyped
<1>2. /\ DOMAIN events' = 1..(Len(events) + Len(more)) /\ Len(events') = Len(events) + Len(more)
      /\ \A i \in 1..Len(events) : events'[i] = events[i]
      /\ \A i \in 1..Len(more) : events'[Len(events) + i] = more[i]
  BY <1>1
<1>3. ASSUME NEW i \in DOMAIN events PROVE EventNode(i)' = EventNode(i)
  BY <1>1, <1>2 DEF EventNode, NodeFor
<1>4. ASSUME NEW i \in DOMAIN events PROVE PathTo(i)' = PathTo(i)
  <2>1. i > 1 => i - 1 \in DOMAIN events
    BY <1>1
  <2>2. EventNode(i)' = EventNode(i) /\ (i > 1 => EventNode(i - 1)' = EventNode(i - 1))
    BY <1>3, <2>1
  <2>3. \A from, to : EdgePath(from, to)' = EdgePath(from, to)
    BY DEF EdgePath, Paths
  <2> QED BY <2>2, <2>3 DEF PathTo
<1> QED BY <1>1, <1>2, <1>4

\* Events whose paths are empty light nothing.
LEMMA NothingIsLit ==
  ASSUME FollowTyped, UNCHANGED <<route, crossed>>, LitIsRun, NEW more \in Seq(Nat), events' = events \o more,
         \A i \in DOMAIN events' \ DOMAIN events : PathTo(i)' = <<>>
  PROVE  LitIsRun'
<1>1. /\ DOMAIN events' = 1..(Len(events) + Len(more))
      /\ \A i \in DOMAIN events : PathTo(i)' = PathTo(i)
  BY OldPathsStay
<1>2. DOMAIN events \subseteq DOMAIN events'
  BY <1>1 DEF FollowTyped
<1>3. ASSUME NEW e PROVE Lights(e)' = Lights(e)
  <2>1. ASSUME NEW s \in Lights(e)' PROVE s \in Lights(e)
    <3>1. s \in (DOMAIN events') \X (1..MaxDepth) /\ s[2] \in DOMAIN PathTo(s[1])' /\ PathTo(s[1])'[s[2]] = e
      BY <2>1 DEF Lights
    <3>2. DOMAIN <<>> = {}
      OBVIOUS
    <3>3. s[1] \in DOMAIN events
      BY <3>1, <3>2
    <3> QED BY <1>1, <3>1, <3>3 DEF Lights
  <2>2. ASSUME NEW s \in Lights(e) PROVE s \in Lights(e)'
    <3>1. s \in (DOMAIN events) \X (1..MaxDepth) /\ s[2] \in DOMAIN PathTo(s[1]) /\ PathTo(s[1])[s[2]] = e
      BY <2>2 DEF Lights
    <3>2. PathTo(s[1])' = PathTo(s[1]) /\ s \in (DOMAIN events') \X (1..MaxDepth)
      BY <1>1, <1>2, <3>1
    <3> QED BY <3>1, <3>2 DEF Lights
  <2> QED BY <2>1, <2>2
<1>4. \A e : CrossingsOf(e)' = CrossingsOf(e)
  BY DEF CrossingsOf
<1>5. \A e \in route.edges : Cardinality(Lights(e)) = Cardinality(CrossingsOf(e))
  BY LitByCounts
<1>6. \A e \in route'.edges : Cardinality(Lights(e)') = Cardinality(CrossingsOf(e)')
  BY <1>3, <1>4, <1>5
<1>7. LitIsRun' <=> \A e \in route'.edges : Cardinality(Lights(e)') = Cardinality(CrossingsOf(e)')
  BY DEF LitIsRun, EdgeCounts, Lights, CrossingsOf
<1> QED BY <1>6, <1>7

\* An instruction of the program after another one lights the edge that was gone along.
LEMMA CrossingIsLit ==
  ASSUME FollowTyped, FollowTyped', UNCHANGED route, LitIsRun, NEW a \in Nat, events' = events \o <<a>>,
         NEW edge \in route.edges, crossed' = Append(crossed, edge),
         NEW n, n = Len(events) + 1, PathTo(n)' = [i \in 1..1 |-> edge]
  PROVE  LitIsRun'
<1> DEFINE c == Len(crossed) + 1
<1>1. /\ DOMAIN events' = 1..n /\ DOMAIN events = 1..(n - 1) /\ n \in Nat /\ n \notin DOMAIN events
      /\ \A i \in DOMAIN events : PathTo(i)' = PathTo(i)
  <2>1. <<a>> \in Seq(Nat) /\ Len(<<a>>) = 1 /\ events \in Seq(Nat) /\ Len(events) \in Nat /\ DOMAIN events = 1..Len(events)
    BY DEF FollowTyped
  <2>2. DOMAIN events' = 1..(Len(events) + 1) /\ \A i \in DOMAIN events : PathTo(i)' = PathTo(i)
    BY <2>1, OldPathsStay
  <2> QED BY <2>1, <2>2
<1>2. /\ DOMAIN crossed' = 1..c /\ DOMAIN crossed = 1..(c - 1) /\ c \in Nat /\ crossed'[c] = edge
      /\ \A i \in DOMAIN crossed : crossed'[i] = crossed[i]
  BY DEF FollowTyped
<1> HIDE DEF c
<1>3. DOMAIN PathTo(n)' = 1..1 /\ PathTo(n)'[1] = edge
  OBVIOUS
<1>4. ASSUME NEW e PROVE Lights(e)' = Lights(e) \cup (IF e = edge THEN {<<n, 1>>} ELSE {})
  <2>1. ASSUME NEW s \in Lights(e)' PROVE s \in Lights(e) \/ (e = edge /\ s = <<n, 1>>)
    <3>1. s \in (DOMAIN events') \X (1..MaxDepth) /\ s[2] \in DOMAIN PathTo(s[1])' /\ PathTo(s[1])'[s[2]] = e
      BY <2>1 DEF Lights
    <3>2. CASE s[1] \in DOMAIN events
      BY <1>1, <3>1, <3>2 DEF Lights
    <3>3. CASE s[1] = n
      <4>1. s[2] = 1 /\ e = edge
        BY <1>3, <3>1, <3>3
      <4> QED BY <3>1, <3>3, <4>1
    <3> QED BY <1>1, <3>1, <3>2, <3>3
  <2>2. ASSUME NEW s \in Lights(e) PROVE s \in Lights(e)'
    <3>1. s \in (DOMAIN events) \X (1..MaxDepth) /\ s[2] \in DOMAIN PathTo(s[1]) /\ PathTo(s[1])[s[2]] = e
      BY <2>2 DEF Lights
    <3>2. PathTo(s[1])' = PathTo(s[1]) /\ s \in (DOMAIN events') \X (1..MaxDepth)
      BY <1>1, <3>1
    <3> QED BY <3>1, <3>2 DEF Lights
  <2>3. <<n, 1>> \in Lights(edge)'
    <3>1. n \in DOMAIN events' /\ 1 \in 1..MaxDepth
      BY <1>1 DEF MaxDepth, FollowTyped
    <3> QED BY <1>3, <3>1 DEF Lights
  <2> QED BY <2>1, <2>2, <2>3
<1>5. ASSUME NEW e PROVE CrossingsOf(e)' = CrossingsOf(e) \cup (IF e = edge THEN {c} ELSE {})
  BY <1>2 DEF CrossingsOf
<1>6. ASSUME NEW e PROVE <<n, 1>> \notin Lights(e) /\ c \notin CrossingsOf(e)
  BY <1>1, <1>2 DEF Lights, CrossingsOf
<1>7. \A e \in route.edges : Cardinality(Lights(e)) = Cardinality(CrossingsOf(e))
  BY LitByCounts
<1>8. ASSUME NEW e \in route'.edges PROVE Cardinality(Lights(e)') = Cardinality(CrossingsOf(e)')
  <2>1. IsFiniteSet(Lights(e)) /\ IsFiniteSet(CrossingsOf(e))
    BY LightsAreFinite
  <2>2. CASE e = edge
    <3>1. Lights(e)' = Lights(e) \cup {<<n, 1>>} /\ CrossingsOf(e)' = CrossingsOf(e) \cup {c}
      BY <1>4, <1>5, <2>2
    <3>2. Cardinality(Lights(e) \cup {<<n, 1>>}) = Cardinality(Lights(e)) + 1
      BY <1>6, <2>1, FS_AddElement
    <3>3. Cardinality(CrossingsOf(e) \cup {c}) = Cardinality(CrossingsOf(e)) + 1
      BY <1>6, <2>1, FS_AddElement
    <3> QED BY <1>7, <3>1, <3>2, <3>3
  <2>3. CASE e # edge
    BY <1>4, <1>5, <1>7, <2>3
  <2> QED BY <2>2, <2>3
<1>9. LitIsRun' <=> \A e \in route'.edges : Cardinality(Lights(e)') = Cardinality(CrossingsOf(e)')
  BY DEF LitIsRun, EdgeCounts, Lights, CrossingsOf
<1> QED BY <1>8, <1>9

\* The events of an instruction of the program or of another one keep what was lit.
LEMMA RunKeeps ==
  ASSUME FollowInv, NEW next \in UNION {route.next[p] : p \in DOMAIN route.next}, NEW resolved \in BOOLEAN,
         Run(next, resolved)
  PROVE  FollowInv'
<1> DEFINE image == IF resolved THEN next[1] ELSE Nothing
           to == next[2]
<1>1. FollowTyped /\ LastEvent /\ LitIsRun
  BY DEF FollowInv
<1>2. /\ status = "paused" /\ Len(events) < MaxEvents /\ next \in route.next[place]
      /\ Record(image, to) /\ place' = next /\ role' = image /\ UNCHANGED <<route, status>>
      /\ crossed' = IF image = "program" /\ Crosses(place[2], to)
                    THEN Append(crossed, <<NodeFor(place[2]), NodeFor(to)>>) ELSE crossed
  BY DEF Run
<1>3. /\ next \in DOMAIN route.next /\ next # <<"program", Gap>> /\ next[1] \in {"program", "library"} /\ to \in Nat
      /\ next = <<next[1], to>>
  <2>1. PICK p \in DOMAIN route.next : next \in route.next[p]
    OBVIOUS
  <2>2. route \in Routes
    BY <1>1 DEF FollowTyped
  <2>3. next \in DOMAIN route.next /\ next # <<"program", Gap>>
    BY <2>1, <2>2, RoutesAssumption
  <2>4. next \in {"program", "library"} \X Nat
    BY <2>2, <2>3, RoutesAssumption
  <2> QED BY <2>3, <2>4
<1>4. events \in Seq(Nat) /\ Len(events) \in Nat /\ DOMAIN events = 1..Len(events) /\ MaxEvents \in Nat
      /\ crossed \in Seq(route.edges) /\ route \in Routes
  BY <1>1, RoutesAssumption DEF FollowTyped
<1>5. image = "program" => next = <<"program", to>> /\ to # Gap
  BY <1>3, RoutesAssumption
<1> HIDE DEF image
<1>6. ASSUME NEW more \in Seq(Nat), events' = events \o more, Len(more) <= 2, crossed' \in Seq(route.edges)
      PROVE  FollowTyped'
  <2>1. events' \in Seq(Nat) /\ Len(events') = Len(events) + Len(more)
    BY <1>4, <1>6
  <2>2. Len(events') <= MaxEvents + 1
    BY <1>2, <1>4, <1>6, <2>1
  <2> QED BY <1>1, <1>2, <1>6, <2>1, <2>2 DEF FollowTyped, FollowTypeOK
<1>7. CASE image = "program" /\ role = "program"
  <2>1. events' = events \o <<to>> /\ <<to>> \in Seq(Nat) /\ Len(<<to>>) = 1
    BY <1>2, <1>3, <1>7 DEF Record
  <2>2. /\ DOMAIN events' = 1..(Len(events) + 1) /\ Len(events') = Len(events) + 1
        /\ \A i \in DOMAIN events : events'[i] = events[i]
        /\ events'[Len(events) + 1] = to
    BY <1>1, <1>2, <2>1, OldPathsStay
  <2>3. ASSUME crossed' \in Seq(route.edges) PROVE FollowTyped'
    <3> DEFINE more == <<to>>
    <3>1. more \in Seq(Nat) /\ events' = events \o more /\ Len(more) <= 2
      BY <2>1
    <3> HIDE DEF more
    <3> QED BY <1>6, <2>3, <3>1
  <2>4. place \in DOMAIN route.next /\ place[1] = "program" /\ place[2] # Gap /\ Len(events) >= 1
        /\ events[Len(events)] = place[2]
    BY <1>1, <1>4, <1>7 DEF LastEvent
  <2>5. LastEvent'
    <3>1. events' # <<>>
      BY <2>2, <1>4
    <3> QED BY <1>2, <1>3, <1>5, <1>7, <2>2, <3>1 DEF LastEvent
  <2>6. PICK m : m = Len(events) + 1
    OBVIOUS
  <2>7. EventNode(m)' = NodeFor(to) /\ EventNode(m - 1)' = NodeFor(place[2]) /\ m > 1
    <3>1. events'[m] = to /\ events'[m - 1] = place[2] /\ m > 1
      BY <1>4, <2>2, <2>4, <2>6
    <3> QED BY <1>2, <1>5, <1>7, <2>4, <3>1 DEF EventNode, NodeFor
  <2>8. \A x, y : EdgePath(x, y)' = EdgePath(x, y)
    BY <1>2 DEF EdgePath, Paths
  <2>9. CASE Crosses(place[2], to)
    <3>1. /\ Nothing \notin {NodeFor(place[2]), NodeFor(to)} /\ NodeFor(place[2]) # NodeFor(to)
          /\ crossed' = Append(crossed, <<NodeFor(place[2]), NodeFor(to)>>)
      BY <1>2, <1>7, <2>9 DEF Crosses
    <3>2. <<NodeFor(place[2]), NodeFor(to)>> \in route.edges
      <4>1. \A p \in DOMAIN route.next : \A x \in route.next[p] :
              p[1] = "program" /\ x[1] = "program" /\ Nothing \notin {NodeIn(route.nodes, p[2]), NodeIn(route.nodes, x[2])}
                /\ NodeIn(route.nodes, p[2]) # NodeIn(route.nodes, x[2]) =>
                  <<NodeIn(route.nodes, p[2]), NodeIn(route.nodes, x[2])>> \in route.edges
        BY <1>4, RoutesAssumption
      <4>2. next[1] = "program"
        BY <1>5, <1>7
      <4> QED BY <1>2, <2>4, <3>1, <4>1, <4>2 DEF NodeFor
    <3>3. PathTo(m)' = [i \in 1..1 |-> <<NodeFor(place[2]), NodeFor(to)>>]
      <4>1. PathTo(m)' = EdgePath(NodeFor(place[2]), NodeFor(to))
        BY <2>7, <2>8, <3>1 DEF PathTo
      <4> QED BY <1>4, <3>1, <3>2, <4>1, PathOfAnEdge
    <3>4. crossed' \in Seq(route.edges)
      BY <1>4, <3>1, <3>2
    <3>5. FollowTyped'
      BY <2>3, <3>4
    <3>6. PICK edge \in route.edges : edge = <<NodeFor(place[2]), NodeFor(to)>>
      BY <3>2
    <3>7. PathTo(m)' = [i \in 1..1 |-> edge] /\ crossed' = Append(crossed, edge)
      BY <3>1, <3>3, <3>6
    <3>8. LitIsRun'
      BY <1>1, <1>2, <1>3, <2>1, <2>6, <3>5, <3>7, CrossingIsLit
    <3> QED BY <2>5, <3>5, <3>8 DEF FollowInv
  <2>10. CASE ~Crosses(place[2], to)
    <3>1. crossed' = crossed
      BY <1>2, <2>10
    <3>2. PathTo(m)' = <<>>
      BY <1>7, <2>7, <2>8, <2>10 DEF PathTo, EdgePath, Crosses
    <3>3. \A i \in DOMAIN events' \ DOMAIN events : PathTo(i)' = <<>>
      <4>1. \A i \in DOMAIN events' \ DOMAIN events : i = m
        BY <1>4, <2>2, <2>6
      <4> QED BY <3>2, <4>1
    <3>4. LitIsRun'
      BY <1>1, <1>2, <2>1, <3>1, <3>3, NothingIsLit
    <3>5. FollowTyped'
      BY <1>4, <2>3, <3>1
    <3> QED BY <2>5, <3>4, <3>5 DEF FollowInv
  <2> QED BY <2>9, <2>10
<1>8. ASSUME ~(image = "program" /\ role = "program") PROVE crossed' = crossed
  BY <1>2, <1>8 DEF Crosses
<1>9. ASSUME NEW more \in Seq(Nat), events' = events \o more, Len(more) <= 2, crossed' = crossed,
             \A i \in 1..Len(more) : i = 1 => more[i] = Gap
      PROVE  FollowTyped' /\ LitIsRun'
  <2>1. FollowTyped'
    BY <1>4, <1>6, <1>9
  <2>2. /\ DOMAIN events' = 1..(Len(events) + Len(more))
        /\ \A i \in 1..Len(more) : events'[Len(events) + i] = more[i]
    BY <1>1, <1>2, <1>9, OldPathsStay
  <2>3. ASSUME NEW i \in DOMAIN events' \ DOMAIN events PROVE PathTo(i)' = <<>>
    <3>1. i \in Nat /\ Len(more) \in Nat /\ (i = Len(events) + 1 \/ i = Len(events) + 2)
      BY <1>4, <1>9, <2>2, <2>3
    <3>2. events'[Len(events) + 1] = Gap
      <4>1. 1 \in 1..Len(more)
        BY <1>4, <2>2, <2>3, <3>1
      <4> QED BY <1>9, <2>2, <4>1
    <3>3. EventNode(i)' = Nothing \/ EventNode(i - 1)' = Nothing
      <4>1. CASE i = Len(events) + 1
        BY <3>2, <4>1 DEF EventNode
      <4>2. CASE i = Len(events) + 2
        <5>1. events'[i - 1] = Gap
          BY <1>4, <3>2, <4>2
        <5> QED BY <5>1 DEF EventNode
      <4> QED BY <3>1, <4>1, <4>2
    <3> QED BY <3>3 DEF PathTo
  <2>4. LitIsRun'
    BY <1>1, <1>2, <1>9, <2>3, NothingIsLit
  <2> QED BY <2>1, <2>4
<1>10. CASE image = "program" /\ role # "program"
  <2>1. events' = events \o <<Gap, to>>
    BY <1>2, <1>10 DEF Record
  <2>2. <<Gap, to>> \in Seq(Nat) /\ Len(<<Gap, to>>) = 2 /\ <<Gap, to>>[1] = Gap /\ <<Gap, to>>[2] = to
    BY <1>3 DEF Gap
  <2>3. FollowTyped' /\ LitIsRun'
    <3> DEFINE more == <<Gap, to>>
    <3>1. /\ more \in Seq(Nat) /\ events' = events \o more /\ Len(more) <= 2
          /\ \A i \in 1..Len(more) : i = 1 => more[i] = Gap
      BY <2>1, <2>2
    <3>2. crossed' = crossed
      BY <1>8, <1>10
    <3> HIDE DEF more
    <3> QED BY <1>9, <3>1, <3>2
  <2>4. LastEvent'
    <3>1. Len(events') = Len(events) + 2 /\ events'[Len(events) + 2] = to
      BY <1>1, <1>2, <2>1, <2>2, OldPathsStay
    <3>2. events' # <<>>
      BY <3>1, <1>4
    <3> QED BY <1>2, <1>3, <1>5, <1>10, <3>1, <3>2 DEF LastEvent
  <2> QED BY <2>3, <2>4 DEF FollowInv
<1>11. CASE image # "program" /\ role = "program"
  <2>1. events' = events \o <<Gap>>
    BY <1>2, <1>11 DEF Record
  <2>2. <<Gap>> \in Seq(Nat) /\ Len(<<Gap>>) = 1 /\ <<Gap>>[1] = Gap
    BY DEF Gap
  <2>3. FollowTyped' /\ LitIsRun'
    <3> DEFINE more == <<Gap>>
    <3>1. /\ more \in Seq(Nat) /\ events' = events \o more /\ Len(more) <= 2
          /\ \A i \in 1..Len(more) : i = 1 => more[i] = Gap
      BY <2>1, <2>2
    <3>2. crossed' = crossed
      BY <1>8, <1>11
    <3> HIDE DEF more
    <3> QED BY <1>9, <3>1, <3>2
  <2>4. LastEvent'
    <3>1. Len(events') = Len(events) + 1 /\ events'[Len(events) + 1] = Gap
      BY <1>1, <1>2, <2>1, <2>2, OldPathsStay
    <3> QED BY <1>2, <1>11, <3>1 DEF LastEvent
  <2> QED BY <2>3, <2>4 DEF FollowInv
<1>12. CASE image # "program" /\ role # "program"
  <2>1. events' = events \o <<>>
    BY <1>2, <1>12 DEF Record
  <2>2. events' = events /\ <<>> \in Seq(Nat) /\ Len(<<>>) = 0
    BY <1>4, <2>1
  <2>3. FollowTyped' /\ LitIsRun'
    <3> DEFINE more == <<>>
    <3>1. /\ more \in Seq(Nat) /\ events' = events \o more /\ Len(more) <= 2
          /\ \A i \in 1..Len(more) : i = 1 => more[i] = Gap
      BY <2>1, <2>2
    <3>2. crossed' = crossed
      BY <1>8, <1>12
    <3> HIDE DEF more
    <3> QED BY <1>9, <3>1, <3>2
  <2>4. LastEvent'
    BY <1>1, <1>2, <1>12, <2>2 DEF LastEvent
  <2> QED BY <2>3, <2>4 DEF FollowInv
<1> QED BY <1>7, <1>10, <1>11, <1>12

\* Every step keeps the invariant.
LEMMA FollowKeeps ==
  ASSUME FollowInv, [FollowNext]_followVars
  PROVE  FollowInv'
<1>1. ASSUME UNCHANGED <<route, place, role, events, crossed>>, status' \in {status, "exited"} PROVE FollowInv'
  <2>1. \A i : PathTo(i)' = PathTo(i)
    BY <1>1 DEF PathTo, EventNode, NodeFor, EdgePath, Paths
  <2>2. EdgeCounts' = EdgeCounts
    <3>1. \A e : {s \in (DOMAIN events') \X (1..MaxDepth) : s[2] \in DOMAIN PathTo(s[1])' /\ PathTo(s[1])'[s[2]] = e}
                = {s \in (DOMAIN events) \X (1..MaxDepth) : s[2] \in DOMAIN PathTo(s[1]) /\ PathTo(s[1])[s[2]] = e}
      BY <1>1, <2>1
    <3> QED BY <1>1, <3>1 DEF EdgeCounts
  <2>3. LitIsRun
    BY DEF FollowInv
  <2>4. \A e \in route.edges : EdgeCounts'[e] = Cardinality({i \in DOMAIN crossed : crossed[i] = e})
    BY <2>2, <2>3 DEF LitIsRun
  <2>5. LitIsRun'
    BY <1>1, <2>4 DEF LitIsRun
  <2> QED BY <1>1, <2>5 DEF FollowInv, FollowTyped, FollowTypeOK, LastEvent
<1>2. CASE Exit
  BY <1>1, <1>2 DEF Exit
<1>3. CASE UNCHANGED followVars
  BY <1>1, <1>3 DEF followVars
<1> QED BY <1>2, <1>3, RunKeeps DEF FollowNext

\* Whatever the process does, and whether or not the image of an instruction is
\* resolved, the graph shows what it did: see TraceIsShown.
THEOREM TraceStaysTrue == FollowSpec => []TraceIsShown
<1>1. FollowInit => FollowInv
  <2> SUFFICES ASSUME FollowInit PROVE FollowInv
    OBVIOUS
  <2>1. route \in Routes /\ role = Nothing /\ status = "paused" /\ events = <<>> /\ crossed = <<>>
    BY DEF FollowInit
  <2>2. \A e \in route.edges : Lights(e) = {} /\ CrossingsOf(e) = {}
    <3>1. DOMAIN events = {} /\ DOMAIN crossed = {}
      BY <2>1
    <3> QED BY <3>1 DEF Lights, CrossingsOf
  <2>3. LitIsRun
    BY <2>2, LitByCounts
  <2>4. LastEvent /\ FollowTyped
    BY <2>1, RoutesAssumption DEF LastEvent, FollowTyped, FollowTypeOK
  <2> QED BY <2>3, <2>4 DEF FollowInv
<1>2. FollowInv /\ [FollowNext]_followVars => FollowInv'
  BY FollowKeeps
<1>3. FollowInv => TraceIsShown
  BY DEF FollowInv, FollowTyped, LastEvent, TraceIsShown, CurrentIsTrue, CurrentNode, ExecutionAddress
<1> QED BY <1>1, <1>2, <1>3, PTL DEF FollowSpec
=============================================================================
