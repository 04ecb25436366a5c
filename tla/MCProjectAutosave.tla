-------------------------- MODULE MCProjectAutosave --------------------------
EXTENDS ProjectHistory

CONSTANTS p1, p2

\* Nobody presses the save button.
SpecByTimer ==
  HInit /\ [][NextByTimer /\ overlap' = Overlaps /\ reopened' = Reopens]_historyVars

==============================================================================
