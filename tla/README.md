# ASM Graph Inspector: specifications

TLA+ modules for the core logic of ASM Graph Inspector, a browser-only
application that analyzes ELF and ASM files and executes them in emulators
compiled to WebAssembly. Paths below are relative to the repository.

`src/features` holds the logic, `src/app/App.tsx` composes it, `src/components`
renders it. There is no server and no thread of the program's own: everything
is tasks of one event loop, waiting for IndexedDB, WASM modules, analysis and
frames. What makes it hard is that nothing in the interface waits: a call can
arrive at any point where another is suspended.

## Inventory

| Component | State | Operations | What makes it correct |
|---|---|---|---|
| Execution controller (`features/execution/useExecutionController.ts`) | run generation, session slot, last target, snapshot, preflight, suspended continuations | step, run, probe, pause, reset, prepare, clear; the run loop | one live engine; an overtaken call never acts; the snapshot is the session; a start is answered; a run ends |
| Linux userspace session (`unicornLinuxProcessSession.ts`) | engine page table, byte counter, anonymous and file mappings, break, mmap cursor; descriptors, stdio, trace | memory and file system calls, futex, step, runSlice | the counter is the page table's size and within budget; mremap keeps contents; the trace is what ran; the end is final |
| Machine session (`unicornMachineSession.ts`) | registers, mapped segments, heap, mappings, budget, events | step, runSlice, brk, mmap, munmap, mprotect, stdio | the budget ends every run; the books are the page table |
| Blink session (`blinkProcessSession.ts`) | mode (none, debugger, headless), status, output prelude, trace | step, runSlice, signal and exit callbacks | modes are resumed by their own entry point; the explanation fits the stop; output is kept |
| Bounded interpreter (`session.ts`, `memory.ts`, `registers.ts`) | memory map, registers, flags | one instruction each | partial registers and flags at every width; protected memory keeps its bytes |
| Source interpreter (`asmSourceSession.ts`) | compiled code, symbols, data, the same machine state | compile a file, one instruction each | a program means the same as source and assembled |
| Runtime environment (`runtime*.ts`, `linuxRuntimeEnvironment.ts`, `blinkIsaPreflight.ts`) | closure of a target, sweeps, biases of images | materialize, validate, audit, resolve | the closure is closed and compatible; a sweep misses nothing; an address is assigned to its own image |
| Global dependencies (`features/dependencies`) | registry in IndexedDB, revision | import, remove, resolve, preview | the preview does not promise what a launch refuses |
| Toolchain (`features/toolchain`) | tool process, build artifact and its fingerprint | assemble, link, ensure | an artifact is executed only for the text it was built from; a tool is answered once, and always |
| Project controller and store (`features/project`) | open project, save indicator, debounce timer, IndexedDB | file operations, save, open, create, delete, close | the indicator is honest; the store never goes back; edits get stored |
| Editor workspace (`features/workspace`) | groups, tabs, active file | reducer actions | the active file of a group is one of its tabs, a tab names a file |
| Application (`app/App.tsx`) | graphs, summaries, problems, request numbers, follow keys, build guard, auto-step | analyze, build, execute, delete, effects | a late result never shows for another file, or instead of a newer one |
| Analysis (`features/analysis`) | none, but a cache (pure) | blocks, dataflow and its views, call graph, program flow | what is claimed of a program holds when it runs |
| Binary loader (`features/binary`) | none (pure) | ELF records, functions | functions are apart and start where calls land |
| Analysis dock (`components/AnalysisDock.tsx`) | tab, view, scope, groups, summaries seen | effects, toolbar, activation of nodes | effects come to rest; the selection is of what is shown |
| Trace projection (`features/execution/follow.ts`) | none (pure) | counts of nodes and edges, current node | an edge is lit when the process went along it |

Interactions: App resolves a target (building or analyzing it on demand) and
calls the controller; the controller creates a session over a prepared runtime
environment and drives it frame by frame; a change of the active file clears
the controller; a build adds its artifact to the project; a pause changes the
address the dock and App follow. Components talk by calls and by React state;
the sinks `activeInput` and `activeProbe` reach the controller from the
terminal and the debug console.

The hazards of the code, each at its line, are listed in `PROJECT.json`.

## How the specification is divided

A module models one component and can be read alone. Where components call each
other they are composed (`ExecutionController` over `ExecutionSession`;
`BlinkSession`, `UnicornSession` against `ExecutionSession`; `Agreement` over
`SourceMachine` and `BoundedMachine`; `AnalysisDock` over `ProgramFlow`;
`Dataflow` over `FunctionCfg`). Components that share no state but are about one
question are put side by side in one module and one run: `Workbench`, `Providers`,
and in the other cases the MC module itself. There a variable
`part` (or `active`) says which of them moves; the others rest in one of their
real initial states, so that the run's states are the sum and not the product of
the parts. The run's properties are conjunctions, defined beside them and
named for what the parts promise together; each conjunct is a property of its
component's module, with its comment.

A *setup* is a constant record chosen initially: how many of everything there
are and what happens in the behaviour. It bounds the counters of an instance
and lets one run hold several instances that would be too large together.

| MC module | Parts |
|---|---|
| `MCLinuxAddressSpace` | `LinuxAddressSpace` |
| `MCExecutionController` | `ExecutionController`, `ExecutionSession`, refining `OneGuest` |
| `MCProjectAutosave` | `ProjectAutosave` with `ProjectHistory` |
| `MCWorkbench` | `Workbench`: `ProjectWorkspace`, `AssemblyBuild`, `ToolProcess` |
| `MCProviders` | `Providers`: `UnicornSession`, `BlinkSession`, `MachineMemory` |
| `MCAnalysis` | `AnalysisRequests`, `Dataflow` (with `FunctionCfg`), `FunctionDiscovery`, `AnalysisDock` (with `ProgramFlow`), `ExecutionFollow` |
| `MCRuntime` | `RuntimeClosure`, `IsaAudit`, `RuntimeImages` |
| `MCInterpreters` | `X86State`, `BoundedMachine` (with `BoundedPrograms`), `SourceMachine`, `Agreement` |

## Modules

### LinuxAddressSpace

The memory half of the Linux session. One action per system call (`Mmap`,
`Mremap`, `Munmap`, `Mprotect`, `Brk`), divided by outcome, and `Store` for the
guest's own writes; each is the whole handler with the helpers it calls
(`MapRange`, `DiscardRange`, `DropFiles`, `ProtectRange`, `FindsFree` are
`mapRange`, `discardAnonymousRange`, the filter in `unmapRange`, `protectRange`
and `findFreeMmapRange`). `mem` is the engine's page table, so its domain is
`mappedPages`; `mappedBytes`, `anonymous`, `fileMappings`, `cursor`,
`programBreak` are the session's fields, in pages. A record's `id` is its place
in the array, because `Array.find` takes the first. When the budget runs out
inside `mapRange`, the pages below the failing one stay mapped and the session
traps: `TrapInMapRange`. Abstractions: addresses and lengths are whole pages
(the code aligns them before use); contents are tokens per page; the engine
(mapping, protecting, zero-filling) is external.

### ExecutionSession, ExecutionController, OneGuest

`ExecutionSession` is the interface of a session as operators on a record; what
a guest does in a step or a slice is a choice among the outcomes its provider
can report. `ExecutionController` is the hook. One action is one task of the
event loop with the microtasks it drains: a call runs up to its first real
wait and leaves a `Task` tagged with the generation it was given; the
continuations are `Stale`, `CreationFails`, `AuditDone`, `EnvironmentReady`,
`SessionReady`, `Frame`. Awaiting a settled promise is no wait. Two promises
that settle in the same task are no new behaviour: at most one of the
continuations is current, and the stale one only disposes of what it receives.
Calls are unguarded because the keyboard shortcuts of `App.tsx` are: F6, F10
and Shift+F5 ask neither for the status nor for a pending call. Targets are
analyzed binaries, since App builds assembly sources to ELF first; the routing
of `executionRouting.ts` is the constant `Supported`. The stdin sink changes
neither status nor target and is left out.

`OneGuest` is the abstract specification: a guest is opened only when none is
alive, it moves only until it ends, it keeps its identity and target. The
controller implements it under `Guests`, its live sessions.

### UnicornSession, BlinkSession, MachineMemory

The providers from the inside. `UnicornSession` models both Unicorn sessions: a
call starts the engine for some instructions, the hook runs before each, counts
and records it and serves the system call; `Provider` tells the two apart where
they differ. It has the stdin queue with its cursor and compaction, the
descriptor table with positions, vectored writes, futex, the trace with its
gaps and its cap. Guest memory is left out: an access is good or faults.
`BlinkSession` has the two modes, the callbacks and exceptions of the engine,
the output with the loader's prompt that is taken off, and the recorded steps;
the engine is external and `engine` is where it rests. Both have the property
`Contract`: what a call reports is one of the outcomes `ExecutionSession` allows,
which is what `ExecutionController` was checked and proved with.
`MachineMemory` is the address space of the machine session: segments and stack
of the constructor, `brk` in both directions, `mmap`, `munmap` of whole records,
`mprotect`, the budget reserved before an engine that may refuse.

### ProjectAutosave, ProjectHistory

`useProjectController` and `projectStore`. A project is its id and the revision
of its files; all file operations go through `mutate` and are one action,
`Edit`. Transactions are a queue, since every IndexedDB operation opens the
same object store and those with writes are serialized. The 650 ms timer is not
a variable: the effect that owns it depends on the project and the indicator,
so a timer is armed exactly when a project is open and dirty, which is the
guard of `Autosave`. A failed transaction, a reload of the page and requests
from the chooser while an earlier one is under way are actions. Files change at
any time, also while a save is under way.

`ProjectHistory` adds two history variables that no code has, for the two
situations the controller does not handle. `overlap` is true of the screen when the
revision it shows appeared while a save was under way, by an edit (whose "dirty" the
save's completion overwrites, see Findings) or because the project was opened behind
a save of itself; it ends when that revision is stored. `reopened` has the
projects that were read from the store behind a save of themselves. Every promise
is stated outside of these, with edits, saves and requests in any order.

### ProjectWorkspace, AssemblyBuild, ToolProcess

`ProjectWorkspace` has the files of the open project and the editor groups: the
file operations of the controller as App's handlers call them, and the reducer.
A handler with all it dispatches is one action, since React batches it; an import,
which awaits the contents of its files, is two. A path
is a sequence of segments, so that a folder is a prefix. `AssemblyBuild` has the
handlers that assemble and execute the active source: the reuse of an artifact
by time stamp, size and digest, NASM and ld, `addFiles`, the analysis and the
run, with edits, moves and changes of project at every wait. `ToolProcess` is one
run of a tool in Blink under its policy: output counted byte by byte, preemption
and resumption, exits, signals, mounts and the captured file, each of which may
still call back after the promise was settled.

### AnalysisRequests, AnalysisDock, ProgramFlow, ExecutionFollow

`AnalysisRequests` is what App asks for: debounced analyses of sources, numbered
requests for binaries with their cache and dependency revision, the follow and
the active-file effects with their keys. `AnalysisDock` is what the dock makes
of the answers. React renders, then runs the effects whose dependencies changed
with the values of that render; a pass of them is the action `RunEffects`, and
`due` and `seen` are whether one is owed and what it depended on. Tabs, views,
the toolbar, the activation of a node, a commit of a graph, a pause and a file
that is opened are the other actions. Analyses of files that are not active are
`AnalysisRequests`' matter, an analysis of a source is the event `Parsed`.
`ProgramFlow` is `buildProgramFlow` as operators on a question: entities, groups,
transfers (the proved ones, and those of inspected functions that add to them),
scope, nodes and aggregated edges. `ExecutionFollow` is `projectExecutionTrace`
on the trace of a process that wanders between the program and libraries.
The constants are what the analyses hand over: the programs of the dock are such
as the call graph's builder makes (`IsProgram`: finitely many functions, edges and
sites, which the call graph and the summaries of functions took from the same
instructions), and a route's process goes from a node of the graph to the next along
an edge, or through code outside of the graph (`RoutesAssumption`).

### FunctionCfg, Dataflow, FunctionDiscovery

Pure algorithms, written as the phases the code goes through, next to a concrete
run of the same code that they are held against. `FunctionCfg` has blocks, edges
and back edges. `Dataflow` has the fixed point over the blocks, the pass that
attaches a value to each use, and the projections; a location is a register or a
memory key; in the run a call or a system call may overwrite memory; and the ABI's register lists are cut to the four registers of the
model. `FunctionDiscovery` has seeds and their ranks, unwind entries, patterns,
the passes of the trace and the acceptance of ranges, and the call graph with the
start routine. An instruction is one address long.

### RuntimeClosure, IsaAudit, RuntimeImages

`RuntimeClosure` has the resolution of a name (imported soname, imported file,
exact name in a granted directory), the materialization with its budgets, the
preview, the version check and the mounted names. `IsaAudit` has the sweeps over
executable bytes in chunks: of the program, of the libraries, of the interpreter's
entry, and of the listing. What the decoder makes of the bytes at an address is
part of the image. Regions are swept in the order of their addresses, so that lines
and evidence are sets of addresses; `AuditAssumption` says what an ELF image is:
bytes for its regions, executable segments that share none, and no instruction longer
than a chunk. `RuntimeImages` has the window of bytes at a step, the search
for it in the images, the biases remembered and the report of a crash. An image is
its segment's bytes and where in them instructions begin; `GuestsAssumption` says what
an engine loads: images that share no memory, a program of fixed address at it, and no
instruction longer than a window.

### X86State, BoundedMachine, SourceMachine, Agreement

The two interpreters. Widths are scaled by four, keeping their ratios: a byte has
two bits, a 64-bit register 16, a quadword is still eight cells, so that every
boundary, the aliases, carries, overflows and page crossings exist with words TLC
can compute with. `X86State` has the register file, the flags and the paged
memory with permissions; `BoundedMachine` the loader and one action for each
group of mnemonics, with system calls; `MCInterpreters` remembers what pushes and
calls left on the stack and what was compared, so that its properties relate an
instruction to ones long before it; `SourceMachine` the compilation of lines
(sections, labels, data) and its own execution. `Agreement` runs a source and its
assembled image in lock step; the assembler's placement is external.

## Runs

| Run | Question | Bounds |
|---|---|---|
| `LinuxAddressSpace` | types, accounting, backing, and that mremap preserves contents, with file mappings, bad descriptors and zero lengths | addresses 2 and 4, lengths 0 to 2, pages 2..6 under a budget of four, one record when mmap adds one |
| `LinuxAnonymousZero` | anonymous memory reads zero (violated) | lengths 1 and 3, pages 2..8 |
| `ExecutionController` | the safety properties, the refinement of `OneGuest`, starts are answered, runs end | three targets (dynamic, static, not executable), generations up to 3, budget 3, slices of up to 2 |
| `ExecutionPause`, `ExecutionProbe` | two statements of the documents (violated) | one target, generations up to 4 |
| `ProjectAutosave` | honest indicator, monotone store, a dirty project is stored or the error is shown, unless a save overlaps | two projects, three edits at any time, three transactions under way |
| `ProjectLostEdit` | edits autosave (violated) | the same, without the save button |
| `Workbench` | files, tabs and groups fit together; a build is fresh and at home; tools are answered once and always | paths of two segments or of one, two or three ids, three groups; two sources in one or two projects, two texts, two time stamps; two bytes, two preemptions |
| `Providers` | traces, input, output, descriptors, memory books, and the contract of `ExecutionSession` | four setups of the Unicorn session (budgets 3 to 5), Blink with a three-byte prompt, three bytes and three steps; nine pages and five calls |
| `Analysis` | what is shown is current; dataflow, functions and call graph hold for a run; the dock settles and shows the flow whole; the edges lit are those taken | five setups of requests; about 3 400 functions of five to eight instructions; about 7 700 images of ten instructions a compiler could emit; a tool of two functions and a stub, a second binary and a source; traces of eight events |
| `Runtime` | closure, preview, versions; sweeps; images and biases | three libraries and a second file of one of them, names that are another library's among them, one change of the registry; five bytes in chunks of three; two images of three instructions |
| `Interpreters` | flags, branches, shifts, products, aliases, protected memory, the stack of nested calls, the end of driven runs, agreement of source and image | boundary values of every width, 40 instructions, an echo of up to five bytes, the files of three source lines from an alphabet of thirteen, without data after a text label |

Why the bounds are enough. Address space: the interesting cases are overlaps of
a range with a record (left, right, inside, covering), with the cursor, the heap
and the budget; two pages of length in an area of five make all of them.
Controller: what matters is which of the suspended calls is current; three
generations give a call overtaken by one that is itself overtaken, with a run
loop. Autosave: three edits and three transactions put saves of two revisions in the
queue at once, with an open, a delete or a save of the other project among them. Workbench: a neighbour tab exists on both
sides, a folder holds a folder, two artifacts share a stem, two edits share a
millisecond. Providers: the budget ends inside a slice, at its end and in a step;
the trace drops events. Analysis: three requests overtake each other; the five
shapes (diamond, loop, backward block, while, a loop to the entry) with four instructions put a kill,
a copy, a memory store or a call on either path; the images combine every kind of
seed with calls, jumps and unwind ranges that disagree. Runtime: an instruction
crosses a chunk, a segment is shorter than one, two names lead to one library, two
files of different versions go by one soname, two images hold the same bytes.
Interpreters: carries and overflows depend on the ratios of the widths, which are
kept; a page that may only be read follows one that may be written, calls nest with
values pushed around the inner one, and a branch follows moves that overwrite what
was compared.

`CHECK_DEADLOCK FALSE` throughout: a trapped session, an idle page, an answered
tool and a finished analysis may stop. No symmetry is declared: the runs with
interchangeable values check temporal properties.

### Fairness

`ExecutionController`: every continuation under a given generation is weakly
fair. A wait is for a promise the browser settles (a module load, a hash, an
IndexedDB read) or for a frame; frames are granted while the page is visible,
which is the assumption. Calls are not fair. `ProjectAutosave`: the timer fires
and transactions complete or fail; the user's actions are not fair.
`AssemblyBuild`: the step a task waits for comes, well or badly. `ToolProcess`:
the runtime and the mounts load or fail, the timer resumes, and the engine stops
in one way or another when it runs, since its slice of instructions is finite.
`IsaAudit` and the headless driver (`runSession`) are loops with an await.

## Proofs

`LinuxAddressSpaceProofs` proves, for all values of the constants that satisfy
`AddressAssumption` and `PageAssumption`:

- `TypeCorrect`: `Spec => []TypeOK`
- `AccountingHolds`: `Spec => []Accounting`
- `MappingsStayBacked`: `Spec => []MappingsBacked`
- `MremapKeepsEveryPage`: `Spec => MremapKeepsContents`

The first three follow from `Invariance`, `Spec => []IInv`. The invariant `IInv` is
the conjunction of the three (they need each other: the counter's decrements
are right only if it is the size of the table, a moving mremap is within the
budget only if the counter is, and what it copies exists only if the record is
backed) together with finiteness of the lists, which ids and cardinalities
need. The argument goes from the helpers up: what the page loop adds to and
takes from a finite table (`CardinalityGrows`, `CardinalityShrinks`), what
cutting a hole in the list leaves (`DiscardLeavesPieces`: pieces lie within an
old record and outside the hole), then one lemma per outcome of a system call,
then one per system call, then `NextPreserves`. `MremapKeepsEveryPage` rests on the
same invariant: pages that are copied exist because the record is backed, and one
lemma for each outcome (`ShrinkResult`, `GrowResult`, `MoveResult`) says what is then
in every page of the old range, the new range and outside of both.

`ExecutionControllerProofs` proves, for every set of targets, every routing of
`Supported`, every budget, slice and set of endings that satisfy
`LimitAssumption` and `TargetAssumption`, and any number of overlapping calls:

- `ControllerTypeCorrect`: `Spec => []TypeOK`
- `ControllerLeaksNothing`: `Spec => []OneLiveSession`
- `ControllerSlotOwned`: `Spec => []CurrentTaskOwnsTheSlot`
- `ControllerShowsItsSession`: `Spec => []SnapshotShowsTheSession`
- `ControllerDrivesWhatRuns`: `Spec => []RunningIsDriven`
- `ControllerDisposedIsFinal`: `Spec => DisposedIsFinal`
- `ControllerRefinesOneGuest`: `Spec => RefinesOneGuest`

Its `IInv` adds `TasksOK` to the four invariants and `TypeOK`: continuations are
named by their tags, which never exceed `runGeneration`; a run loop holds a
session that exists; a creation waits for one that does not. That is what the
code's single counter buys. A call raises the counter, so every continuation is
overtaken at once (`AllOvertaken`) and the new one is alone; a creation that is
still current finds the slot empty (`CreationParts`), so installing its session
drops none; a stale one constructs a session under a tag nobody else has and
disposes of it. The proof has one lemma per call and per continuation, over
lemmas on what a session's operations preserve (`StepMoves`, `SliceMoves`). The
action property and the refinement need one more fact, `NextSlot`: every step
empties the slot, fills it when empty, or keeps its session and target, and then
leaves a terminal one alone.

`ProjectAutosaveProofs` proves, for every set of projects and any number of edits,
made at any time, and of transactions under way:

- `IndicatorIsHonest`: `HSpec => []IndicatorIsTrue`
- `StoreNeverGoesBack`: `HSpec => StoreMovesForward`

What the indicator says depends on what the queue of transactions will still do,
so the invariant is about the queue. While the revision on the screen overlaps no
save (`ScreenIsKnown`), the saves of its project under way bring that very revision,
and until it is stored no other project is being saved and the indicator is not
"saved". The saves of a project that was not reopened bring ever newer revisions,
between what the store holds and what the screen shows (`Ordered`, `InOrder`). An id
to be created is known to nobody (`CreationsAreNew`). Both parts say nothing of what
the histories exclude, so a step has to be examined only where they stay as they
are: `ScreenStaysKnown` and `SavesStayOrdered`.

`UnicornSessionProofs` proves, for every set of setups (budgets, slices, caps,
descriptors, system calls) that satisfies `UnicornAssumption`:

- `GuestIsFollowed`: `Spec => []UnicornIsFollowed`
- `SessionsAreHonest`: `Spec => CallsAreHonest`

`IInv` is `TypeOK`, the two parts of `UnicornIsFollowed`, what a call under way has
used of its slice and which status goes with it (`CallOK`), that the newest event
is the last instruction while the trace is in the program (`TraceOK`), and the
shapes of the queue and the descriptors (`ProcessOK`). A return is held against
`ExecutionSession` by listing its outcomes (`StepOutcomesListed`,
`SliceOutcomesListed`). The theorems of the controller are about any session that
keeps to that list, and this one shows that both Unicorn sessions do.

`ProvidersProofs` proves the same of the two other sessions, over the composition
`Providers` and its assumption `ProvidersAssumption`:

- `MemoryStaysCounted`: `Providers => []MemoryIsCounted`
- `BlinkStaysFollowed`: `Providers => []BlinkIsFollowed`
- `SessionsStayHonest`: `Providers => OthersAreHonest`, from `BlinkKeepsContract`,
  `BlinkResumesRight` and `MappingsAreFresh`

The machine session's books (`MemoryInv`) need one more fact than they state: a
record has a size and a kind (`RecordsOK`), as pieces of the heap are in the table
of the mappings. The Blink session's invariant has three parts that hardly depend
on each other. `ControlInv` relates mode, call, engine and explanation
at every moment, also inside a call, where the properties ask nothing. `TraceInv`
adds `NewestIsLast` to the contiguity of the trace: the newest instruction or gap
is the instruction followed, without which a new one could be put behind any
other. `OutputInv` says where each byte printed is: withheld as long as it may be
the prompt, or shown. It needs one assumption on the engine: a loader prints a
line that is neither empty nor the beginning of the expected prompt or the other
way round, or what is withheld would be shown by nobody. The code makes the same
one (`captureOutput` puts bytes back when one differs, and never at the end).

`WorkbenchProofs` proves, for every set of paths, any number
of files, groups, sources, projects and edits, and every policy of a tool:

- `WorkspaceStaysSound`: `Workbench => []WorkspaceIsSound`
- `BuildsExecuteWhatWasThere`: `Workbench => []BuildsAreSound`
- `ToolsDeliverWhole`: `Workbench => []ResultsAreWhole`
- `CommandsStayWhole`: `Workbench => CommandsAreWhole`, from what renames keep,
  `TasksAreOneAtATime` and `ToolsAreAnsweredOnce`

The parts of the workbench share no variable, so each has its own invariant,
kept by its steps and by those of the others. The commands of the workspace fold
over lists: `removeFiles` over ids, `addFiles` over the new files, filters over
tabs and groups. These are recursive functions, and what they compute is proved
for lists of any length (`FilterPicks`, `FilesClosed`, `FilesAdded`): the function
exists because its iterates do (`IterationExists`), and what its steps keep holds
of its value, both because a set of counterexamples would have a least one. The
invariant itself says that files differ in id and path (`GoodFiles`), that each
group shows one of its tabs, all of files that exist (`GoodGroups`, `GoodTabs`), and
that the focus is on a group. Of a build (`BuildInv`): the task works on what it
captured (`TaskFollowsItsRequest`) in the project it captured it from
(`TaskKeepsItsProject`), and an artifact nobody renamed has an id made of its
project and path (`IdsAreGenerated`, `PathsDiffer`). Of a tool (`ToolInv`): a promise
is pending while the process lives (`PendingWhileAlive`), output that is dropped is
known to be (`NothingDroppedUnseen`), and a result is what was written
(`DeliversWhatThereIs`).

`AnalysisProofs` proves of the requests, for every set of files, functions and happenings and
any number of versions and requests:

- `AnalysisInvariance`: `Spec => []IInv`
- `ShownStaysCurrent`: `Spec => []ShownIsCurrent`

What is shown says nothing of why it is current; the invariant adds the reasons, one
lemma for each part. A timer holds the text of its file (`SourcesOK`), so that what it
commits is current whenever it fires. No request has a number above its file's, and the
one with the last number is for the function wanted (`NumbersOK`): whichever answers
first, only that one may be shown, and until it is, it is under way or has failed. The
follow effect's key is set only while its own request is the newest (`KeyOK`), which is
why asking once is enough (`PausedOK`). A clause that the code keeps only without some
happening (an import over a source, a run or a rebuild that takes no number, a deleted
folder with a timer left, a selection or a registry's change while a request follows) is
conditional on `Does`, the set of what happens in an instance.

Of the dock, for every set of binaries and sources that satisfies `DockAssumption`, and
whatever is opened, analyzed, paused, selected and chosen:

- `DockInvariance`: `DockSpec => []DockInv`
- `DockStaysTrue`: `DockSpec => DockShowsTheFlow`

An effect runs when what it depends on differs from what it saw, so the invariant is
about what was seen. The follow effect's last dependencies name the binary whose
summaries are kept (`SeenOK`), which is why summaries are never those of another file
(`HistoryOK`), and a pause that is not new is on the screen unless the user chose
something else since (`PauseOK`). That the effects end needs a measure (`EffectsOK`):
after one render's pass nothing is left to do but for the selection (`Calm`), after two
the selection is the one that stays (`Kept`), and the third pass changes nothing, which
is when the pass is no longer owed. What holds at rest follows from a pass that changed
nothing (`EffectsRest`); every event that disturbs it leaves a pass owed. Of the flow,
an edge stands for call sites because a transfer is of one site (`SitesAreDistinct`,
`EdgesCountSites`), its nodes are drawn whatever was inspected (`FlowComesWhole`), and
a flow drawn from more summaries under the same toolbar keeps every node and every
edge (`FlowGrows`); that a visit of a function only adds summaries (`VisitAdds`) gives
the action property `VisitsOnlyAdd`.

Of the trace, for every graph and process that satisfy `RoutesAssumption`:

- `TraceStaysTrue`: `FollowSpec => []TraceIsShown`

The last event is the instruction that ran last, or a gap (`LastEvent`). Where the
process went along an edge, that edge is the only shortest path (`PathOfAnEdge`), so it
and no other is lit once more (`CrossingIsLit`); where it stayed in a node, left the
image or was not resolved, none is (`NothingIsLit`).

`RuntimeProofs` proves, for every set of names, images, registries and programs
and every limit that satisfy `ClosureAssumption`, with the registry exchanged any
number of times during a launch:

- `ClosureInvariance`: `Spec => []ClosureInv`
- `ClosureStaysSound`: `Spec => []ClosureIsSound`

Three of its four parts are invariants of one walk. The names looked up and the names
queued are at every moment those of the program and those needed by the modules
found (`Complete`), the counter is the sum of the sizes (`Counted`), and a launch happens
only after the check (`Checked`); that the file which was checked is the file the guest
opens needs more. Each module is a file some registry of the launch held
(`FromRegistry`), and where no file of one library goes by the name of another
(`OneLibraryPerName`) two modules found under one name are one (`OneNaming`), as the
second file with a known soname is not mounted. `PreviewIsSafe` relates two walks that share nothing but the
registry. Each module of the launch was asked for by the program or by a module before
it (`Ordered`) and is what the registry answers (`Answered`), and the preview has asked
for all its modules need (`Previewed`); so the first module the preview did not ask for
cannot exist (`PreviewHasThem`), and a name that fails the launch is one the preview saw
fail. The two resolutions differ in what they take for trouble; `RegistryAnswers` shows
that this decides only between failures. `ChildrenAdded` says what the loop over the
needed names adds, for lists of any length.

For every image that satisfies `AuditAssumption`, and every size of chunks, number of
instructions decoded at once and amount of evidence, it proves:

- `AuditInvariance`: `AuditSpec => []AuditInv`
- `SweepsMissNothing`: `AuditSpec => []SweepMissesNothing`

The property says what is found without chunks: the addresses one comes to from the
start of a region, the least set that is closed under going on (`Comes`). Of two of them
the lower one leads to the other (`ComesFollows`), so that the instructions a chunk
decodes are the next ones of the whole sweep, wherever the chunk was cut (`TakesSome`),
and where nothing is decoded the whole sweep skips the same byte (`SkipsOne`): a chunk
is as long as any instruction, so one that fits the region and begins the chunk fits the
chunk. A scan is sound when it stands at such an address and has found and counted
exactly what lies before it (`Sound`); the evidence kept is the lowest of what was seen
(`KeepsTheEarliest`), and the segment that backs the cursor never cuts a chunk of the
program (`ProgramGoesOn`), as segments share no byte. Sections may overlap and lie
outside the segments; of the listing only the covered ones are promised (`Listing`).
`DecodeMeets` says what the recursive `Decode` returns, for any number of instructions.

For every two images that satisfy `GuestsAssumption`, any bytes they have in common and
any size of windows, signatures and observations, it proves:

- `ImagesInvariance`: `ImagesSpec => []ImagesInv`
- `ImagesStayTrue`: `ImagesSpec => []ImagesAreTrue`
- `KnownImagesStay`: `ImagesSpec => ImagesStayKnown`

What the debugger's lines and the memory show are bytes of the segment at the place
(`BytesOf` over lines that follow one another is one run of them), and so is the window
around the cursor, however far it reaches back: its first line is where it is said to
be. So the true place is always among those a signature is found at, and an answer,
which must be the only one, is it. That an answer found by a remembered bias is true
needs that the biases are, and that no other image has memory at the address. Bytes
observed at a crash may go on past the segment; then nothing is claimed of that answer,
and as a crash is the last step no bias learnt from it is used again.

Model-checked only: liveness (`StartsAreAnswered`, `RunsEnd`, `DirtyIsResolved`,
`CommandsEnd`, `AuditsEnd`, `DrivenEnds`) is out of the prover's reach. So are
modules with RECURSIVE operators, such as the fixed point of `Dataflow`, and those
that use `Bitwise`, as the interpreters do. Both, and the discovery of functions with
its folds over sets, are held against a reference over all bounded inputs
(`FlowIsTrue`, `ProgramsAgree`, `FunctionsAreFound`); their results for every input
would need induction over programs. What an interpreter's steps do to flags, registers
and memory is checked over the same programs (`ArithmeticIsTrue`, `StoresAreKept`). The four violated statements have their runs.

## Findings

1. `LinuxAnonymousZero`: mmap without MAP_FIXED maps at the cursor without
   asking whether the range is free. After a fixed mapping above the cursor,
   the same pages are handed out twice, with the old contents.
2. `ExecutionPause`: Reset of a running program, then Pause before the new
   session is ready: the creation is cancelled and the snapshot stays
   "running" with no session.
3. `ExecutionProbe`: after Probe, Step and Run continue the Blink session; the
   comment on `probe` says that Blink is not selected by them.
4. `ProjectLostEdit`: a project is created or opened, edited, saved by the timer and
   edited again before that save completes: the completion shows it as saved, which
   clears the timer, and the second edit is not stored.

### Disagreements met while modelling, without a run of their own

The models have what the code does; the instances or a guard in the property
leave out the case where a document, or the reader, expects otherwise. Paths are
below `src/src`.

Project
- A project chosen a second time while a save of it is under way shows what the store
  held before that save; the edits are gone from the screen, and the next save takes the
  store back (`features/project/useProjectController.ts:117`). `StoreMovesForward` is
  promised of projects that are not in `reopened`.

Workbench
- An import that is read after its project was closed adds its files to the project
  that is open by then, or to none, and opens a tab for the first one anyway
  (`app/App.tsx:336`); the tab lasts until a project is opened. `TabsNameFiles` is
  promised of an open project.
- Importing a path again gives the tab the id of the imported copy while the
  project keeps the old id (`app/App.tsx:335`): the focused tab names no file.
  `TabsNameFiles` is promised where nothing is imported again.
- A renamed artifact and its rebuild share an id
  (`features/toolchain/projectAssemblyBuild.ts:125`; todo.md:84 promises "rebuilding
  replaces the same artifact"), and a build that ends after another project was
  opened adds its artifact there (`app/App.tsx:464`). `ArtifactsDistinct` and
  `ArtifactsAtHome` are promised without renames and without switches.

Analysis requests
- A follow request that the user's own request overtakes is dropped and not
  repeated (`app/App.tsx:282`; MIGRATION.md:99). `FollowsExecution` is promised where
  nothing is selected and the registry does not change.
- `prepareBinary` stores what it prepared although the cache was cleared while it
  waited (`features/analysis/binaryAnalysis.ts:63`; MIGRATION.md:62).
- A binary that is deleted while it is analyzed has its graph and summary back when
  the answer comes (`app/App.tsx:206`); `DeletedIsGone` is promised of sources.
- An import over the active path is not analyzed again (`app/App.tsx:324`), and
  `analyzeBinaryTarget` takes no number, so that an older answer replaces a newer
  one (`app/App.tsx:435`; MIGRATION.md:67). `SourceShown` and `NewestShown` promise nothing there.

Analysis dock and trace
- The comment "Graphs start unselected" (`components/AnalysisDock.tsx:150`) does
  not hold for a function's or a source's graph: `commitGraph` and the active-file
  effect select its first node (`app/App.tsx:169`, `316`). `SelectionIsShown` asks
  only that the selection is of the graph shown.
- The summaries seen are kept when the same file is analyzed with other bytes
  (`components/AnalysisDock.tsx:112`); the model keeps the file only.
- An inspected function's jump to a stub is a transfer the static call graph does
  not have; the "visited" scope has the ends of every static transfer.
- A block that jumps to itself never lights its edge
  (`features/execution/follow.ts:65`), a return lights none, and a recursion or an
  indirect jump without an edge may light a path of up to three that was not
  taken. The route of the model has neither.

Dataflow (`features/analysis/dataflow`)
- Calls and system calls leave what is known of memory and of the stack standing, although
  the callee or the kernel may write there (`analyzer.ts:261`): a load after `read` may be
  shown as the constant stored before it. In the run they overwrite it or not, and
  `ConstantsHold` lets a use find `Foreign` instead of its constant.
- An entry block that is also a loop's head is given only the state that flows
  back (`analyzer.ts:111`), so that the first round may find what the function was
  entered with (`Initial`) where a constant is shown; `NotFollowed` has both. Add and sub to memory leave the constant that was
  stored (`analyzer.ts:224`; `ConstantsHold` asks nothing of a cell so changed).
- Source mode writes nothing for inc, dec, neg and xchg (`x86.ts:201`) and ignores
  joins (`x86.ts:48`); memory keys relative to rsp or rbp are not invalidated when
  the register moves; a partial write counts as a whole one.
- An indirect jump has a fallthrough edge (`../cfg.ts:82`); chains found in reverse
  order may keep stale constants; the raw projection draws inputs from clobbers it
  does not draw (`projection.ts:172`) and no edge through a phi (`projection.ts:97`).

Functions and calls (`features/binary/functionDiscovery.ts`,
`features/analysis/programCallGraph.ts`)
- The range of a section's first seed reaches to the end of `.init`; a jump out of
  an unwind range to an unsupported address is dropped (line 190); cold code behind
  a later start is cut off (line 394).
- The call graph stops at the first jump between functions (line 150) and takes an
  older load of rdi when the nearest is not a function (line 59). The images of the
  run are those a compiler emits, `AsCompiled`.

Blink and runtime
- stdout bytes that match the expected prompt are withheld until it ends
  (`features/execution/blinkProcessSession.ts:340`): an engine that prints none
  loses a guest's output that is a prefix of it. The engine of the model prints a
  prompt.
- The preview lists one result per name, the materialization one module per soname
  (`features/dependencies/globalDependencyResolver.ts:213`); a second file with a
  known soname is dropped and not mounted (`features/execution/runtimeDependencies.ts:120`);
  the version check takes the first module with the name, the session opens the last
  (`features/execution/runtimeSymbolVersions.ts:37`). Where the file name of one
  library is the soname of another these are two files: TLC then finds a process
  launched without a version it requires. `LaunchIsCompatible` is promised where each
  name is the name of one library (`OneLibraryPerName`), however many files it has.
- An unsupported instruction at the interpreter's entry is blocking in the report
  (todo.md:136) but Probe starts the program
  (`features/execution/useExecutionController.ts:259`).
- A crash in the last fifteen bytes of a segment may be assigned to another image
  (`features/execution/runtimeImageResolver.ts:140`); the invariants of
  `RuntimeImages` (`Inside`) ask that what was observed lies in the segment.

Interpreters
- `call [rsp+8]` reads its target after the push (`features/execution/session.ts:510`).
- The source interpreter gives an unsized memory operand 64 bits
  (`features/execution/asmSourceSession.ts:657`), ignores the operand of `ret`
  (line 690), and binds a label of its own line in the text section to the next
  instruction although data follows (line 216). `Agree` is checked on programs
  without these.

Execution
- `mprotect` leaves the anonymous record's permission, which a later mremap
  restores (`features/execution/unicornLinuxProcessSession.ts:1104`).
- A fixed remap discards the anonymous records and keeps the file mappings of its
  range (line 414), by which the trace attributes addresses.
- Probe's preflight stays "scanning" when Pause overtakes it
  (`features/execution/useExecutionController.ts:213`).
- Auto-step fires while a session is still created (`app/App.tsx:633`); the step
  overtakes the creation, which `ExecutionController` has as any other call.

## Not modelled

- Rendering, layout (`features/analysis/layout.ts`), icons, menus and the state of
  the other panels; the texts of labels, diagnostics and reports
  (`providerDiagnostics.ts`, `artifactCompatibilityReport.ts`, `debugTelemetry.ts`).
- The readers of ELF, DWARF and unwind records and of symbol versions
  (`features/binary`, but function discovery): conversions of bytes into the images
  the models start from, without state of their own.
- Import, export and classification of files: pure conversions.
- The stores behind the registry of dependencies and the hook that lists them; the
  manifest of the runtime environment, fetched once.
- The loading of a dynamic program into the Linux session (segments, auxiliary
  vector, files of the guest), its registers and disassembly; `stat` and the like.
- The terminal's parsing of commands, the stdin and probe sinks, the auto-step timer.
- The engines (`public/vendor`), third-party code: their outcomes are choices.

## What could follow

- The loader of the Linux session against `RuntimeClosure`: which file each image
  of the guest is, and the attribution of addresses by file mappings.
- The registry's hook composed with `AnalysisRequests`: imports, removals and the
  revision under analyses that wait.
- The discovery of functions as steps, so that what its passes keep can be proved.
