SPECIFICATION Spec
CONSTANTS
  Overrides <- MCOverrides
  StepsOf <- MCStepsOf
  Blanked <- MCBlanked
  Reruns <- MCReruns
  MaxRuns = 2
  MaxKills = 1
INVARIANT ChecksCatchBricks
CHECK_DEADLOCK FALSE
