CONSTANTS
  Scenarios <- PhraseWhileListening
  MaxSess = 1
SPECIFICATION Spec
INVARIANT MicFollowsUser
CHECK_DEADLOCK FALSE
