CONSTANTS
  Scenarios <- AllScenarios
  MaxSess = 3
SPECIFICATION FairSpec
INVARIANTS TypeOK SoundGetsSpeaker BeliefIsTrue MicFollowsUser HoldIsCounted
PROPERTIES MicComesBack DeafRabbitIsDropped
CHECK_DEADLOCK FALSE
