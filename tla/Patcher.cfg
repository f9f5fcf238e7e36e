SPECIFICATION Spec
CONSTANTS
  Overrides <- MCOverrides
  StepsOf <- MCStepsOf
  Blanked <- MCBlanked
  Reruns <- MCReruns
  MaxRuns = 2
  MaxKills = 1
INVARIANTS OKMeansApplied NoKnownBrick
PROPERTIES ModesApply RerunIsSafe
CHECK_DEADLOCK FALSE
