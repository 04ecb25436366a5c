------------------------------ MODULE AnalysisDock ------------------------------
(***************************************************************************)
(* The dock that shows the analysis of the active file: its tabs, the view  *)
(* of the calls of the whole program (ProgramFlow) or of one function, the  *)
(* selected node, and how it follows a paused execution.                    *)
(*                                                                          *)
(* React renders with the state of the dock and of App, then runs the       *)
(* effects whose dependencies changed, in order and with the values of that *)
(* render; what they set is the state of the next render.  "due" says that  *)
(* a render's effects are to be run, "seen" is what they depended on last.  *)
(*                                                                          *)
(* An id of a node is <<file, node>>.  A file is a binary, one of Programs  *)
(* with its functions, stubs, call sites and the nodes of its function      *)
(* graphs, or a source, one of Texts, which is its graph's nodes.  A node   *)
(* is [id, lo, hi, address]: a block from lo to hi, or what a reference     *)
(* points to, with lo = hi = 0.                                             *)
(***************************************************************************)
EXTENDS ProgramFlow

CONSTANTS
  Programs, Texts, Projections,
  EntryOf,     \* the function of a program that is analyzed first
  DockSetups   \* what an instance has and does: [files, does, groups]

\* A program as it is read: its functions have a graph and instructions each, an
\* instruction is a call or a jump, and the call graph says what it is.
IsProgram(p) ==
  /\ DOMAIN p.functions \subseteq Nat /\ \A f \in DOMAIN p.functions : p.functions[f].end \in Nat
  /\ IsFiniteSet(DOMAIN p.functions) /\ IsFiniteSet(p.static) /\ p.pauses \subseteq Nat
  /\ DOMAIN p.code = DOMAIN p.functions /\ DOMAIN p.blocks = DOMAIN p.functions
  /\ \A f \in DOMAIN p.functions :
       /\ DOMAIN p.blocks[f] = 1..Len(p.blocks[f])
       /\ IsFiniteSet(p.code[f]) /\ \A x, y \in p.code[f] : x.at = y.at => x = y
  /\ \A s \in p.static :
       /\ s.from \in DOMAIN p.functions
       /\ \A t \in p.static : SiteOf(s) = SiteOf(t) => s = t
       /\ \A x \in p.code[s.from] :
            x.at = s.at /\ x.flow \in {"call", "jump"} /\ TargetOf(p, x.target) = s.to =>
              (x.flow = "jump" <=> s.kind = "tail-call")

ASSUME DockAssumption ==
  /\ \A b \in DOMAIN Programs : IsProgram(Programs[b]) /\ EntryOf[b] \in DOMAIN Programs[b].functions
  /\ \A t \in DOMAIN Texts : DOMAIN Texts[t] = 1..Len(Texts[t])
  /\ \A s \in DockSetups : s.files \subseteq DOMAIN Programs \cup DOMAIN Texts /\ Absent \notin s.files
  /\ "flow" \in Projections

VARIABLES
  dockSetup,   \* the instance, one of DockSetups
  activeFile,  \* App's active file
  viewsOf,     \* file -> [root, graph]: the function analyzed, and whether its graph is shown
  asked,       \* the function App analyzes at the moment
  address,     \* executionAddress of the paused program, 0 when there is none
  selected,    \* App's selectedNodeId
  tab, projection, cfgView, programScope, hiddenGroups, expandedGroups,
  history,     \* summaryHistory: root -> file of the summary
  due, seen, renders,
  chosen       \* the user chose a view since the last pause or analysis

toolbar == <<programScope, hiddenGroups, expandedGroups>>
panes == <<tab, projection, cfgView>>
dockVars == <<dockSetup, activeFile, viewsOf, asked, address, selected, panes, toolbar, history, due, seen, renders, chosen>>

Executables == DOMAIN Programs
Files == dockSetup.files
DockDoes == dockSetup.does
MaxGroups == dockSetup.groups   \* bound on the groups hidden or expanded one by one
BinaryTabs == {"structure", "cfg", "dataflow", "disassembly"}
SourceTabs == {"cfg", "dataflow"}

View == viewsOf[activeFile]
HasSummary == View.root # Absent
Program == Programs[activeFile]
BinaryFile == IF HasSummary THEN activeFile ELSE Absent
Id(node) == <<activeFile, node>>

\* The nodes of a file's graph: of its text, or of the function it shows.
Nodes(file, root) == IF file \in Executables THEN Programs[file].blocks[root] ELSE Texts[file]
Graph == IF View.graph THEN Nodes(activeFile, View.root) ELSE <<>>
IdsOf(nodes) == {Id(nodes[i].id) : i \in DOMAIN nodes}
FirstOf(nodes) == IF nodes = <<>> THEN Absent ELSE Id(nodes[1].id)

\* graphNodeForAddress: the first node whose block reaches over the address, or
\* that has it.
NodeForAddress(nodes, a) ==
  LET at == {i \in DOMAIN nodes : (nodes[i].lo <= a /\ a < nodes[i].hi) \/ nodes[i].address = a}
  IN  IF at = {} THEN Absent ELSE Id(nodes[CHOOSE i \in at : \A j \in at : i <= j].id)

\* functionContaining: unlike CandidateContaining it does not look at sizes.
FunctionContaining(a) ==
  LET fs == Program.functions
      over == {f \in DOMAIN fs : f <= a /\ a < fs[f].end}
  IN  IF a \in DOMAIN fs THEN a ELSE IF over = {} THEN Absent ELSE CHOOSE f \in over : \A g \in over : f <= g

\* programFlow: the summaries seen, and the one that is shown.
Question ==
  [functions |-> Program.functions, plts |-> Program.plts, static |-> Program.static,
   summaries |-> [f \in DOMAIN history \cup {View.root} |->
                    Programs[IF f = View.root THEN activeFile ELSE history[f]].code[f]],
   active |-> View.root, scope |-> programScope, hidden |-> hiddenGroups, expanded |-> expandedGroups]

FlowIds == {Id(n) : n \in FlowNodes(Question)}
StructureIds == {Id(<<"structure", f>>) : f \in DOMAIN Program.functions} \cup {Id(<<"image">>)}
DataflowIds == IF View.graph THEN {Id(<<projection, View.root>>)} ELSE {}

\* The ids of graphForInspector.
ShownIds ==
  CASE tab = "structure" -> IF HasSummary THEN StructureIds ELSE {}
    [] tab = "dataflow" -> DataflowIds
    [] tab = "cfg" /\ HasSummary /\ cfgView = "program" -> FlowIds
    [] OTHER -> IdsOf(Graph)

ExecutionNode ==
  IF tab = "cfg" /\ cfgView = "function" /\ address # 0 THEN NodeForAddress(Graph, address) ELSE Absent

DockInit ==
  /\ dockSetup \in DockSetups /\ activeFile \in Files /\ viewsOf = [f \in Files |-> [root |-> Absent, graph |-> FALSE]] /\ asked = Absent
  /\ address = 0 /\ selected = Absent
  /\ tab = "cfg" /\ projection = "flow" /\ cfgView = "program"
  /\ programScope = "visited" /\ hiddenGroups = {} /\ expandedGroups = {}
  /\ history = <<>> /\ due = TRUE /\ seen = [active |-> Absent, binary |-> Absent, follow |-> <<>>, graph |-> FALSE] /\ renders = 0
  /\ chosen = FALSE

-------------------------------------------------------------------------------
Following == <<activeFile, View.root, address, IF address = 0 THEN Absent ELSE NodeForAddress(Graph, address)>>
Fresh == BinaryFile # seen.binary
Moved == Following # seen.follow
Opened == activeFile # seen.active
Recorded(f, x, value) == [y \in DOMAIN f \cup {x} |-> IF y = x THEN value ELSE f[y]]

\* Mutant: the summaries of the file before are kept.
KeepEverySummary == history' = IF HasSummary THEN Recorded(history, View.root, activeFile) ELSE history

\* summaryHistory starts anew with a file and takes every summary that is shown.
KeepHistory ==
  LET kept == IF Fresh THEN <<>> ELSE history
  IN  history' = IF HasSummary THEN Recorded(kept, View.root, activeFile) ELSE kept

\* The tab: a source has two, a binary starts with its structure, and a pause
\* shows the function it is in.
SetTab ==
  /\ tab' = IF Moved /\ HasSummary /\ address # 0 THEN "cfg"
            ELSE IF Fresh /\ HasSummary THEN "structure"
            ELSE IF ~HasSummary /\ tab \in {"structure", "disassembly"} THEN "cfg" ELSE tab
  /\ cfgView' = IF Moved /\ HasSummary /\ address # 0 THEN "function" ELSE cfgView

ResetToolbar ==
  IF Fresh THEN programScope' = "visited" /\ hiddenGroups' = {} /\ expandedGroups' = {} ELSE UNCHANGED toolbar

\* The function the execution is in is analyzed, when another one is shown.
PausedIn == CandidateContaining(Program.functions, address)
Follows == (Moved \/ View.graph # seen.graph) /\ HasSummary /\ address # 0

\* App's own effects come after the dock's: the node of a pause, and the first
\* node of a file that is opened.
AppSelects(otherwise) ==
  IF Opened THEN FirstOf(Graph)
  ELSE IF Follows /\ PausedIn \in {Absent, View.root} /\ NodeForAddress(Graph, address) # Absent
       THEN NodeForAddress(Graph, address) ELSE otherwise


Select ==
  selected' = AppSelects(IF ExecutionNode # Absent THEN ExecutionNode
                         ELSE IF (Fresh /\ HasSummary) \/ tab = "disassembly" \/ selected \notin ShownIds THEN Absent
                         ELSE selected)

\* App asks for the analysis of a binary that has none, and for the function a
\* pause is in.
Ask ==
  asked' = IF Opened /\ activeFile \in Executables /\ ~HasSummary THEN EntryOf[activeFile]
           ELSE IF Follows /\ PausedIn \notin {Absent, View.root} THEN PausedIn ELSE asked

\* Effects of a render; another render follows when they changed something.
RunEffects ==
  /\ due
  /\ SetTab /\ ResetToolbar /\ KeepHistory /\ Select /\ Ask
  /\ address' = IF Opened THEN 0 ELSE address
  /\ seen' = [active |-> activeFile, binary |-> BinaryFile, follow |-> Following, graph |-> View.graph]
  /\ due' = (<<tab, cfgView, toolbar, history, selected, address>>' # <<tab, cfgView, toolbar, history, selected, address>>)
  /\ renders' = renders + 1
  /\ UNCHANGED <<dockSetup, activeFile, viewsOf, projection, chosen>>

-------------------------------------------------------------------------------
(* What App and the execution do: the file, an analysis, a pause.           *)
Event == ~due /\ due' = TRUE /\ renders' = 0 /\ UNCHANGED dockSetup

OpenFile(file) ==
  /\ Event /\ "open" \in DockDoes /\ file # activeFile
  /\ activeFile' = file /\ asked' = Absent /\ chosen' = FALSE
  /\ UNCHANGED <<viewsOf, seen, address, selected, panes, toolbar, history>>

\* commitGraph keeps the selection, or its address, or takes the first node.  The
\* summary is a new one, also of the same function.
Commit(root) ==
  /\ Event
  /\ viewsOf' = [viewsOf EXCEPT ![activeFile] = [root |-> root, graph |-> TRUE]]
  /\ LET nodes == Nodes(activeFile, root)
         was == {Graph[i] : i \in {j \in DOMAIN Graph : Id(Graph[j].id) = selected}}
         same == {NodeForAddress(nodes, n.address) : n \in was} \ {Absent}
     IN  selected' = IF selected \in IdsOf(nodes) THEN selected
                     ELSE IF same # {} THEN CHOOSE x \in same : TRUE ELSE FirstOf(nodes)
  /\ seen' = [seen EXCEPT !.follow = <<>>]
  /\ asked' = Absent /\ chosen' = FALSE
  /\ UNCHANGED <<activeFile, address, panes, toolbar, history>>

\* An analysis that was asked for, or one of the same function again.
Analyzed == activeFile \in Executables /\ \E root \in {asked, View.root} \ {Absent} : (asked # Absent => root = asked) /\ Commit(root)
Parsed == activeFile \notin Executables /\ Commit(Absent)
AnalysisFails ==
  /\ Event /\ "fail" \in DockDoes /\ asked # Absent /\ asked' = Absent
  /\ UNCHANGED <<activeFile, seen, viewsOf, address, selected, panes, toolbar, history, chosen>>

ClearShown ==
  /\ Event /\ "clear" \in DockDoes /\ View.graph
  /\ viewsOf' = [viewsOf EXCEPT ![activeFile].graph = FALSE] /\ selected' = Absent
  /\ UNCHANGED <<chosen, activeFile, seen, asked, address, panes, toolbar, history>>

\* The execution of the active binary pauses somewhere else, or ends.
Pause(a) ==
  /\ Event /\ "pause" \in DockDoes /\ HasSummary /\ a # address
  /\ address' = a /\ chosen' = FALSE
  /\ UNCHANGED <<activeFile, seen, viewsOf, asked, selected, panes, toolbar, history>>

-------------------------------------------------------------------------------
(* What the user does.                                                      *)
ClickTab(t) ==
  /\ Event /\ t \in (IF HasSummary THEN BinaryTabs ELSE SourceTabs)
  /\ tab' = t /\ selected' = Absent /\ chosen' = TRUE
  /\ UNCHANGED <<activeFile, seen, viewsOf, asked, address, projection, cfgView, toolbar, history>>

ChooseView(v) ==
  /\ Event /\ HasSummary /\ tab = "cfg"
  /\ cfgView' = v /\ selected' = Absent /\ chosen' = TRUE
  /\ UNCHANGED <<activeFile, seen, viewsOf, asked, address, tab, projection, toolbar, history>>

ChooseProjection(p) ==
  /\ Event /\ tab = "dataflow"
  /\ projection' = p /\ selected' = Absent
  /\ UNCHANGED <<activeFile, seen, viewsOf, asked, address, tab, cfgView, toolbar, history, chosen>>

SelectNode(id) ==
  /\ Event /\ "select" \in DockDoes /\ tab # "disassembly" /\ selected' = id
  /\ UNCHANGED <<activeFile, seen, viewsOf, asked, address, panes, toolbar, history, chosen>>

PickFunction(f) ==
  /\ Event /\ HasSummary /\ tab # "structure"
  /\ asked' = f
  /\ UNCHANGED <<activeFile, seen, viewsOf, address, selected, panes, toolbar, history, chosen>>

\* The toolbar of the program flow.
Toolbar(scope, hidden, expanded) ==
  /\ Event /\ "toolbar" \in DockDoes /\ HasSummary /\ tab = "cfg" /\ cfgView = "program"
  /\ programScope' = scope /\ hiddenGroups' = hidden /\ expandedGroups' = expanded
  /\ UNCHANGED <<activeFile, seen, viewsOf, asked, address, selected, panes, history, chosen>>
Toggle(set, g) == IF g \in set THEN set \ {g} ELSE set \cup {g}
ChangeScope == \E s \in {"focus", "visited", "all"} : Toolbar(s, hiddenGroups, expandedGroups)
ToggleGroup ==
  \E g \in Groups(Question) :
    /\ Cardinality(Toggle(hiddenGroups, g) \cup expandedGroups) <= MaxGroups
    /\ Toolbar(programScope, Toggle(hiddenGroups, g), expandedGroups)
ShowAll == Toolbar(programScope, {}, expandedGroups)
HideAll == Toolbar(programScope, Groups(Question), expandedGroups)
CompactAll == Toolbar(programScope, hiddenGroups, {})

\* activateNode: a function is entered, a group opened.
EnterFunction(f) ==
  /\ Event /\ asked' = f /\ tab' = "cfg" /\ cfgView' = "function" /\ selected' = Absent /\ chosen' = TRUE
  /\ UNCHANGED <<activeFile, seen, viewsOf, address, projection, toolbar, history>>

ActivateFlow(node) ==
  LET action == ActionOf(Question, node)
  IN  \/ action.kind = "function" /\ EnterFunction(action.at)
      \/ action.kind = "group" /\ Cardinality(hiddenGroups \cup Toggle(expandedGroups, action.at)) <= MaxGroups
        /\ Toolbar(programScope, hiddenGroups, Toggle(expandedGroups, action.at))

ActivateNode ==
  /\ HasSummary
  /\ \/ tab = "cfg" /\ cfgView = "program" /\ \E node \in FlowNodes(Question) : ActivateFlow(node)
     \/ tab = "cfg" /\ cfgView = "function"
        /\ \E i \in DOMAIN Graph : /\ Graph[i].hi = 0
                                   /\ FunctionContaining(Graph[i].address) # Absent
                                   /\ EnterFunction(FunctionContaining(Graph[i].address))
     \/ tab = "structure" /\ \E f \in DOMAIN Program.functions : EnterFunction(FunctionContaining(f))

UserActs ==
  \/ \E t \in BinaryTabs : ClickTab(t)
  \/ \E v \in {"program", "function"} : ChooseView(v)
  \/ \E p \in Projections : ChooseProjection(p)
  \/ \E id \in ShownIds \cup {Absent} : SelectNode(id)
  \/ HasSummary /\ \E f \in DOMAIN Program.functions : PickFunction(f)
  \/ HasSummary /\ (ChangeScope \/ ToggleGroup \/ ShowAll \/ HideAll \/ CompactAll)
  \/ ActivateNode

DockNext ==
  \/ RunEffects
  \/ \E f \in Files : OpenFile(f)
  \/ Analyzed \/ Parsed \/ AnalysisFails \/ ClearShown
  \/ activeFile \in Executables /\ \E a \in Program.pauses \cup {0} : Pause(a)
  \/ UserActs

DockSpec == DockInit /\ [][DockNext]_dockVars

-------------------------------------------------------------------------------
AtRest == ~due

DockTypeOK ==
  /\ activeFile \in Files /\ tab \in BinaryTabs /\ cfgView \in {"program", "function"} /\ projection \in Projections
  /\ \A f \in Files : viewsOf[f].root \in {Absent} \cup (IF f \in Executables THEN DOMAIN Programs[f].functions ELSE {})
  /\ due \in BOOLEAN /\ renders \in Nat

\* AnalysisDock's effects set what other effects read, and App selects as well: they
\* come to rest after three renders, and not at all would they take turns.
EffectsEnd == renders <= 3

\* At rest the selected node is one of the graph that is shown, whatever file, tab,
\* view or group it was selected in, and whatever App selected since.
SelectionIsShown ==
  AtRest =>
    /\ selected = Absent \/ (tab # "disassembly" /\ selected \in ShownIds)
    /\ ~HasSummary => tab \in SourceTabs

\* A paused execution is followed: until the user turns elsewhere the graph of the
\* function is shown, and there the node the execution is in is the one selected.
PauseIsShown ==
  AtRest /\ HasSummary /\ address # 0 =>
    /\ ~chosen => tab = "cfg" /\ cfgView = "function"
    /\ ExecutionNode # Absent => selected = ExecutionNode

\* The summaries a program's flow is drawn from are those of its own functions, the
\* one that is shown among them; nothing is left of another file.
HistoryIsOwn ==
  AtRest => IF HasSummary THEN View.root \in DOMAIN history /\ \A f \in DOMAIN history : history[f] = activeFile
             ELSE history = <<>>

\* The function that is shown is in its program's flow unless its group is hidden,
\* and an edge stands for call sites, each counted once however many functions were
\* inspected after the call graph was built.
FlowIsWhole ==
  AtRest /\ HasSummary =>
    /\ EdgesAreSites(Question)
    /\ GroupOf(Question, View.root) \in hiddenGroups \/ NodeOf(Question, View.root) \in FlowNodes(Question)
    /\ \A a \in Entities(Question) : GroupOf(Question, a) \in hiddenGroups => NodeOf(Question, a) \notin FlowNodes(Question)

\* Looking at another function of the file takes no function and no call out of the
\* program's flow, as long as the toolbar is left alone.
VisitsOnlyAdd ==
  [][HasSummary /\ ~Fresh /\ <<View.root, history>>' # <<View.root, history>> /\ activeFile' = activeFile
       /\ toolbar' = toolbar /\ programScope # "focus" =>
       /\ FlowNodes(Question) \subseteq FlowNodes(Question')
       /\ {<<e.from, e.to>> : e \in FlowEdges(Question)} \subseteq {<<e.from, e.to>> : e \in FlowEdges(Question')}]_dockVars

\* The views of the whole program and of a function show what they should: the
\* dock's effects come to rest, with the node of a pause selected and nothing else
\* that is not shown, the flow drawn whole and from its own file only, no call site
\* counted twice; looking at another function takes nothing out of the flow.
DockShowsTheFlow ==
  /\ [](DockTypeOK /\ EffectsEnd /\ SelectionIsShown /\ PauseIsShown /\ HistoryIsOwn /\ FlowIsWhole)
  /\ VisitsOnlyAdd
=============================================================================
