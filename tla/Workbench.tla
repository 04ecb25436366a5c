------------------------------- MODULE Workbench -------------------------------
(***************************************************************************)
(* The editor workspace, the handlers that assemble and run, and the tool  *)
(* processes they wait for.  AssemblyBuild and ToolProcess meet in the     *)
(* result of a run only, and the workspace in addFiles, which both         *)
(* describe: "part" says which of them moves, the others rest.             *)
(***************************************************************************)
EXTENDS ProjectWorkspace

CONSTANTS
  Tasks,                                         \* the setups of AssemblyBuild
  Output, Texts, MaxStamp, MaxFiles,             \* its parameters
  MaxRuntime, MaxOutput, MaxPreemptions, MaxMounted, MaxCaptured,
  Sizes, MaxClock, MaxWrites,                    \* those of ToolProcess
  RestingFiles, RestingTask                      \* the setups of the parts that rest

VARIABLES part,
          handlers, project, source, projectFiles, backend, task, focused,
          phase, output, written, overflowed, preemptions, clock, captured, result

Build == INSTANCE AssemblyBuild WITH Setups <- Tasks, setup <- handlers, files <- projectFiles
Tool == INSTANCE ToolProcess

WorkbenchAssumption ==
  /\ Build!BuildAssumption /\ Tool!ToolAssumption
  /\ RestingFiles \in Setups /\ RestingTask \in Tasks
ASSUME WorkbenchAssumption

buildVars == <<handlers, project, source, projectFiles, backend, task, focused>>
toolVars == <<phase, output, written, overflowed, preemptions, clock, captured, result>>
all == <<part, vars, buildVars, toolVars>>

OnePart ==
  /\ part \in {"workspace", "build", "tool"}
  /\ Init /\ (part # "workspace" => setup = RestingFiles)
  /\ Build!Init /\ (part # "build" => handlers = RestingTask)
  /\ Tool!Init
Works ==
  /\ UNCHANGED part
  /\ \/ part = "workspace" /\ Next /\ UNCHANGED <<buildVars, toolVars>>
     \/ part = "build" /\ Build!Next /\ UNCHANGED <<vars, toolVars>>
     \/ part = "tool" /\ Tool!Next /\ UNCHANGED <<vars, buildVars>>

(* The fairness of the parts: Build's steps follow from its awaits.         *)
BuildSteps == part = "build" /\ Build!Step /\ UNCHANGED <<part, handlers, vars, toolVars>>
Ticking(A) == part = "tool" /\ A /\ UNCHANGED <<part, vars, buildVars>>
Together == OnePart /\ [][Works]_all
Fair ==
  /\ WF_all(BuildSteps)
  /\ WF_all(Ticking(\E valid \in BOOLEAN, mounted \in Sizes : Tool!Run(valid, mounted)))
  /\ WF_all(Ticking(\E ok \in BOOLEAN : Tool!LoadRuntime(ok)))
  /\ WF_all(Ticking(\E ok \in BOOLEAN : Tool!Mount(ok)))
  /\ WF_all(Ticking(\E ok \in BOOLEAN : Tool!Resume(ok)))
  /\ WF_all(Ticking(Tool!Preempt \/ Tool!Trap \/ \E code \in Tool!Codes : Tool!Exit(code)))

Workbench == Together /\ Fair

-----------------------------------------------------------------------------
(* What the parts promise, by the question it answers.                     *)
\* Files, tabs, groups and focus fit together after any command of the explorer
\* and the editor: paths and ids are distinct, a tab names a file, a group that
\* has tabs shows one, and the focus is in a group that exists.
WorkspaceIsSound == TypeOK /\ FilesDistinct /\ TabsNameFiles /\ GroupShowsATab /\ FocusExists
\* What is about to be executed was assembled from the text there was when the
\* user asked; rebuilding replaces the artifact, in the project of its source, and
\* the file that is opened is one of the project.
BuildsAreSound ==
  Build!TypeOK /\ Build!ExecutesWhatWasThere /\ Build!ArtifactsDistinct /\ Build!FocusInProject /\ Build!ArtifactsAtHome
\* A result of a tool that is delivered lacks none of the bytes the tool wrote and
\* kept to the policy.
ResultsAreWhole == Tool!TypeOK /\ Tool!ResultIsComplete /\ Tool!ResultWithinPolicy
\* A folder is renamed with all its files or not at all; a task is given up or
\* ends, and is never replaced by another one; a tool's promise is settled once
\* and nothing resumes the guest afterwards.
CommandsAreWhole == RenamesLoseNothing /\ Build!OneTask /\ Tool!SettledForGood
\* Every task ends and the commands are enabled again; a tool that never exits is
\* still answered.
CommandsEnd == Build!TaskEnds /\ (part = "tool" => Tool!Settles)
=============================================================================
