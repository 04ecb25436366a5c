SPECIFICATION Analysis
CONSTANTS
  Setups <- SetupsMC
  Functions <- FunctionsMC
  Entry <- EntryMC
  None = None
  Programs <- BinariesMC
  Texts <- TextsMC
  Projections = {"flow", "raw"}
  EntryOf <- DockEntryMC
  DockSetups <- DockSetupsAll
  Absent = None
  Routes <- RoutesMC
  Nothing = None
  MaxEvents = 8
INVARIANTS
  ShownIsCurrent
  FlowIsTrue
  TraceIsShown
PROPERTIES
  DockShowsTheFlow
  FunctionsAreFound
CHECK_DEADLOCK FALSE
