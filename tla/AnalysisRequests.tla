--------------------------- MODULE AnalysisRequests ---------------------------
(***************************************************************************)
(* The analyses App starts and what it shows of them: the debounced         *)
(* analysis of ASM sources, the asynchronous analysis of binaries with its  *)
(* cache, the requests that overtake each other, and the view that follows  *)
(* a paused execution into another function.                                *)
(*                                                                          *)
(* A file is its version: a number, and for a source whether it parses.     *)
(* What an analysis shows is the version it read and, for a binary, the     *)
(* function it is rooted at.  React runs the effects of a change before the *)
(* next event: "effects" are those that have not run yet.                   *)
(***************************************************************************)
EXTENDS Naturals, FiniteSets

CONSTANTS
  Setups,            \* what an instance has and does, see below
  Functions, Entry,  \* functions of a binary and the one shown first
  None

VARIABLE setup       \* the instance, one of Setups

Sources == setup.sources          \* ids of the files of the project
Binaries == setup.binaries
Does == setup.does                \* what happens
MaxVersion == setup.versions      \* bound on the contents written
MaxRequests == setup.requests     \* bound on the analyses of a binary

ASSUME AnalysisAssumption ==
  /\ Entry \in Functions /\ None \notin Functions
  /\ \A s \in Setups :
       /\ None \notin s.sources \cup s.binaries /\ s.sources \cap s.binaries = {}
       /\ s.versions \in Nat /\ s.requests \in Nat
       /\ s.does \subseteq {"edit", "select", "step", "execute", "registry", "import", "rebuild", "delete", "folder", "fail"}

VARIABLES
  files,       \* the project: id -> [n, ok]
  active,      \* the active file
  graphs,      \* id -> [n, root]
  summaries,   \* id -> [n, root, revision], binaries only
  problems,    \* sources whose last analysis found errors
  timers,      \* sourceAnalysisTimers: set of [id, content]
  sequence,    \* binaryRequestSequence
  requests,    \* analyses under way
  cache,       \* preparedBinaryCache: id -> [n, revision]
  revision,    \* of the registry of global dependencies
  pc,          \* function the execution of the active binary is paused in
  analysisKey, \* executionAnalysisKey
  effects,     \* "active", "follow": effects to be run
  wanted,      \* binary -> function asked for last, None if its analysis failed
  last         \* last version written

shown == <<graphs, summaries, problems>>
vars == <<setup, files, active, shown, timers, sequence, requests, cache, revision, pc, analysisKey, effects, wanted, last>>

Ids == DOMAIN files
Put(f, id, value) == [x \in DOMAIN f \cup {id} |-> IF x = id THEN value ELSE f[x]]
Drop(f, id) == [x \in DOMAIN f \ {id} |-> f[x]]
Idle == effects = {}
Written(id, ok) == last < MaxVersion /\ last' = last + 1 /\ files' = Put(files, id, [n |-> last + 1, ok |-> ok])

-----------------------------------------------------------------------------
(***************************************************************************)
(* Sources.                                                                *)
(***************************************************************************)
\* analyzeSourceCandidate: only a candidate without problems is committed.
AnalyzeSource(id, content) ==
  /\ problems' = IF content.ok THEN problems \ {id} ELSE problems \cup {id}
  /\ graphs' = IF content.ok THEN Put(graphs, id, [n |-> content.n, root |-> None]) ELSE graphs

\* scheduleSourceAnalysis: one timer per file, with the text of the last edit.
Schedule(id, content) ==
  timers' = {t \in timers : t.id # id} \cup {[id |-> id, content |-> content]}

Edit(id, ok) ==
  /\ Idle /\ "edit" \in Does /\ id \in Sources \cap Ids
  /\ Written(id, ok)
  /\ Schedule(id, [n |-> last + 1, ok |-> ok])
  /\ UNCHANGED <<active, shown, sequence, requests, cache, revision, pc, analysisKey, effects, wanted>>

Fire(t) ==
  /\ Idle /\ t \in timers
  /\ timers' = timers \ {t}
  /\ AnalyzeSource(t.id, t.content)
  /\ UNCHANGED <<files, active, summaries, sequence, requests, cache, revision, pc, analysisKey, effects, wanted, last>>

\* F5 on a source; the terminal's analyze does the same.
Reanalyze ==
  /\ Idle /\ active \in Sources
  /\ AnalyzeSource(active, files[active])
  /\ UNCHANGED <<files, active, summaries, timers, sequence, requests, cache, revision, pc, analysisKey, effects, wanted, last>>

ClearGraph ==
  /\ Idle /\ active # None /\ graphs' = Drop(graphs, active)
  /\ UNCHANGED <<files, active, summaries, problems, timers, sequence, requests, cache, revision, pc, analysisKey, wanted, last>>
  /\ effects' = {"follow"}

-----------------------------------------------------------------------------
(***************************************************************************)
(* Binaries.                                                               *)
(***************************************************************************)
\* prepareBinary looks into the cache when it is called; otherwise it awaits
\* Capstone and the closure of dependencies.
Asked(id, content, root, kind) ==
  [id |-> id, n |-> content.n, root |-> root, kind |-> kind, number |-> sequence[id] + 1,
   revision |-> IF id \in DOMAIN cache /\ cache[id].n = content.n THEN cache[id].revision ELSE None]

\* runBinaryAnalysis numbers its requests, file by file.
Request(id, root, kind) ==
  /\ sequence[id] < MaxRequests
  /\ sequence' = [sequence EXCEPT ![id] = @ + 1]
  /\ requests' = requests \cup {Asked(id, files[id], root, kind)}
  /\ wanted' = [wanted EXCEPT ![id] = root]

\* resolveGlobalDependencyClosure reads the registry.
Resolve(r) ==
  /\ Idle /\ r \in requests /\ r.revision = None
  /\ requests' = (requests \ {r}) \cup {[r EXCEPT !.revision = revision]}
  /\ UNCHANGED <<files, active, shown, timers, sequence, cache, revision, pc, analysisKey, effects, wanted, last>>

\* Another active file clears the execution of the last one.
Activate(id) ==
  /\ active' = id /\ pc' = None /\ analysisKey' = None
  /\ effects' = {"active", "follow"}

\* Mutant: the answer of an earlier request is shown as well.
IsNewestAny(r) == TRUE

\* A request that was overtaken is dropped; analyzeBinaryTarget does not look.
IsNewest(r) == r.kind \in {"target", "build"} \/ sequence[r.id] = r.number

Settled(r) ==
  /\ requests' = requests \ {r}
  /\ analysisKey' = IF r.kind = "follow" /\ analysisKey = r.root THEN None ELSE analysisKey
  /\ UNCHANGED <<files, active, problems, timers, sequence, revision, pc, last>>

\* The view follows what is shown: the effect runs again.
Finish(r) ==
  /\ Idle /\ r \in requests /\ r.revision # None
  /\ Settled(r)
  /\ cache' = Put(cache, r.id, [n |-> r.n, revision |-> r.revision])
  /\ IF IsNewest(r)
     THEN /\ graphs' = Put(graphs, r.id, [n |-> r.n, root |-> r.root])
          /\ summaries' = Put(summaries, r.id, [n |-> r.n, root |-> r.root, revision |-> r.revision])
          /\ effects' = {"follow"}
     ELSE UNCHANGED <<graphs, summaries, effects>>
  /\ UNCHANGED wanted

\* A failure leaves the graph and the summary as they were.
Fail(r) ==
  /\ Idle /\ "fail" \in Does /\ r \in requests
  /\ Settled(r)
  /\ wanted' = IF IsNewest(r) THEN [wanted EXCEPT ![r.id] = None] ELSE wanted
  /\ UNCHANGED <<graphs, summaries, cache, effects>>

SelectFunction(root) ==
  /\ Idle /\ "select" \in Does /\ active \in Binaries
  /\ Request(active, root, "view")
  /\ UNCHANGED <<files, active, shown, timers, cache, revision, pc, analysisKey, effects, last>>

\* Run, step or the terminal on a binary that has no summary, and the terminal's
\* analyze: analyzeBinaryTarget.
Target(id) ==
  /\ Idle /\ "execute" \in Does /\ id \in Binaries \cap Ids
  /\ Cardinality({r \in requests : r.kind = "target"}) < 2
  /\ requests' = requests \cup {[Asked(id, files[id], Entry, "target") EXCEPT !.number = MaxRequests + Cardinality(requests)]}
  /\ UNCHANGED <<files, active, shown, timers, sequence, cache, revision, pc, analysisKey, effects, wanted, last>>

\* The registry changed: the cache is cleared and the active binary analyzed again.
RegistryChanges ==
  /\ Idle /\ "registry" \in Does /\ revision < MaxVersion
  /\ revision' = revision + 1
  /\ cache' = <<>>
  /\ IF active \in Binaries
     THEN Request(active, IF active \in DOMAIN summaries THEN summaries[active].root ELSE Entry, "view")
     ELSE UNCHANGED <<sequence, requests, wanted>>
  /\ UNCHANGED <<files, active, shown, timers, pc, analysisKey, effects, last>>

\* buildActiveAssembly, one at a time: the artifact is replaced, its cache dropped,
\* its tab opened, and it is analyzed.
Rebuild(id) ==
  /\ Idle /\ "rebuild" \in Does /\ id \in Binaries \cap Ids
  /\ \A r \in requests : r.kind # "build"
  /\ Written(id, TRUE)
  /\ cache' = Drop(cache, id)
  /\ requests' = requests \cup {[id |-> id, n |-> last + 1, root |-> Entry, kind |-> "build", number |-> 0,
                                 revision |-> None]}
  /\ IF active # id THEN Activate(id) ELSE effects' = {"follow"} /\ UNCHANGED <<active, pc, analysisKey>>
  /\ UNCHANGED <<shown, timers, sequence, revision, wanted>>

\* importFiles over a path of the project: the file keeps its id.
Import(id, ok) ==
  /\ Idle /\ "import" \in Does /\ id \in Ids
  /\ Written(id, ok)
  /\ UNCHANGED <<active, shown, timers, sequence, requests, cache, revision, pc, analysisKey, wanted>>
  /\ effects' = {"follow"}

-----------------------------------------------------------------------------
(***************************************************************************)
(* The active file, and the effects.                                       *)
(***************************************************************************)
Open(id) ==
  /\ Idle /\ id \in Ids \ {active}
  /\ Activate(id)
  /\ UNCHANGED <<files, shown, timers, sequence, requests, cache, revision, wanted, last>>

\* deleteFile takes the timer as well; deleteFolder does not.
Delete(id) ==
  /\ Idle /\ id \in Ids
  /\ files' = Drop(files, id)
  /\ graphs' = Drop(graphs, id) /\ summaries' = Drop(summaries, id) /\ problems' = problems \ {id}
  /\ cache' = Drop(cache, id)
  /\ \/ "delete" \in Does /\ timers' = {t \in timers : t.id # id}
     \/ "folder" \in Does /\ UNCHANGED timers
  /\ \E other \in (Ids \ {id}) \cup {None} :
       IF active = id THEN Activate(other) ELSE other = None /\ UNCHANGED <<active, pc, analysisKey, effects>>
  /\ UNCHANGED <<sequence, requests, revision, wanted, last>>

\* A step pauses in a function, or outside of all of them.
Step(function) ==
  /\ Idle /\ "step" \in Does /\ active \in Binaries /\ active \in DOMAIN summaries
  /\ pc' = function
  /\ effects' = {"follow"}
  /\ UNCHANGED <<files, active, shown, timers, sequence, requests, cache, revision, analysisKey, wanted, last>>

\* The follow effect asks once for the function execution is in.
Follow ==
  /\ effects = {"follow"} /\ effects' = {}
  /\ \/ /\ active \in Binaries \cap DOMAIN summaries /\ pc \notin {None, summaries[active].root}
        /\ IF analysisKey = pc THEN UNCHANGED <<analysisKey, sequence, requests, wanted>>
           ELSE analysisKey' = pc /\ Request(active, pc, "follow")
     \/ /\ active \in Binaries \cap DOMAIN summaries /\ pc \in {None, summaries[active].root}
        /\ analysisKey' = None /\ UNCHANGED <<sequence, requests, wanted>>
     \/ /\ active \notin Binaries \cap DOMAIN summaries
        /\ UNCHANGED <<analysisKey, sequence, requests, wanted>>
  /\ UNCHANGED <<files, active, shown, timers, cache, revision, pc, last>>

\* The active-file effect: a binary is analyzed if it was not, a source always.
ActiveEffect ==
  /\ "active" \in effects /\ effects' = effects \ {"active"}
  /\ \/ active \in Binaries \ DOMAIN summaries /\ Request(active, Entry, "view") /\ UNCHANGED <<graphs, problems>>
     \/ active \in Sources /\ AnalyzeSource(active, files[active]) /\ UNCHANGED <<sequence, requests, wanted>>
     \/ active \in {None} \cup DOMAIN summaries /\ UNCHANGED <<graphs, problems, sequence, requests, wanted>>
  /\ UNCHANGED <<files, active, summaries, timers, cache, revision, pc, analysisKey, last>>

-----------------------------------------------------------------------------
Init ==
  /\ setup \in Setups
  /\ files = [id \in Sources \cup Binaries |-> [n |-> 0, ok |-> TRUE]]
  /\ active = None /\ graphs = <<>> /\ summaries = <<>> /\ problems = {} /\ timers = {}
  /\ sequence = [id \in Binaries |-> 0] /\ requests = {} /\ cache = <<>> /\ revision = 0
  /\ pc = None /\ analysisKey = None /\ effects = {} /\ last = 0
  /\ wanted = [id \in Binaries |-> None]

Act ==
  \/ \E id \in Ids, ok \in BOOLEAN : Edit(id, ok) \/ Import(id, ok)
  \/ \E t \in timers : Fire(t)
  \/ Reanalyze \/ ClearGraph \/ RegistryChanges \/ Follow \/ ActiveEffect
  \/ \E r \in requests : Resolve(r) \/ Finish(r) \/ Fail(r)
  \/ \E root \in Functions : SelectFunction(root)
  \/ \E function \in Functions \cup {None} : Step(function)
  \/ \E id \in Ids : Target(id) \/ Rebuild(id) \/ Open(id) \/ Delete(id)

Next == Act /\ UNCHANGED setup

Spec == Init /\ [][Next]_vars

-----------------------------------------------------------------------------
\* The type of the state.
TypeOK ==
  /\ active \in Ids \cup {None} /\ pc \in Functions \cup {None} /\ analysisKey \in Functions \cup {None}
  /\ problems \subseteq Sources /\ DOMAIN summaries \subseteq Binaries /\ DOMAIN cache \subseteq Binaries
  /\ \A id \in DOMAIN graphs : graphs[id].n \in 0 .. last
  /\ \A r \in requests : r.id \in Binaries /\ r.root \in Functions

\* Once no timer of a source is left, its graph is that of its text, or the
\* problems of its text are listed and the graph is the last valid one.  (An
\* import over the path of a source starts no analysis: then nothing is promised.)
SourceShown ==
  "import" \notin Does =>
  \A id \in Sources \cap Ids \cap DOMAIN graphs :
    id \in problems \/ graphs[id].n = files[id].n \/ \E t \in timers : t.id = id

\* Nothing shows or reports problems of a source that was deleted, unless it went
\* with its folder, whose timers stay.
DeletedIsGone ==
  ~({"edit", "folder"} \subseteq Does) => (DOMAIN graphs \cup problems) \cap Sources \subseteq Ids

\* When no analysis of a binary is left, the function asked for last is shown,
\* however the requests overtook each other.  (The analyses before a run and
\* after a build take no number: where they happen nothing is promised.)
NewestShown ==
  {"execute", "rebuild"} \cap Does = {} =>
  \A id \in Binaries \cap Ids :
    (\E r \in requests : r.id = id) \/ wanted[id] = None \/ (id \in DOMAIN summaries /\ summaries[id].root = wanted[id])

\* A graph and its summary are of one analysis.
GraphMatchesSummary ==
  \A id \in Binaries \cap DOMAIN graphs :
    id \in DOMAIN summaries /\ graphs[id].n = summaries[id].n /\ graphs[id].root = summaries[id].root

\* When everything has settled, the function execution is paused in is shown,
\* unless its analysis failed.  (A function the user selects, or a change of the
\* registry, overtakes the request that follows: then nothing is promised.)
FollowsExecution ==
  {"select", "registry"} \cap Does = {} /\
  Idle /\ requests = {} /\ active \in Binaries /\ pc # None /\ wanted[active] # None =>
    summaries[active].root = pc

\* What App shows is current once nothing is under way: a source's graph is that of
\* its text or its problems are listed, nothing is left of a deleted file, the
\* function asked for last is shown with its own summary, and the view ends up in
\* the function execution is paused in.
ShownIsCurrent ==
  TypeOK /\ SourceShown /\ DeletedIsGone /\ NewestShown /\ GraphMatchesSummary /\ FollowsExecution
=============================================================================
