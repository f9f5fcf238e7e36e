SPECIFICATION FairSpec
CONSTANTS
  CutsAnywhere = FALSE
  Credentials = {TRUE, FALSE}
  MaxAsides = 2
INVARIANTS TypeOK StanzasExtracted AnswersInOrder ResourceAgrees
PROPERTIES RabbitGetsFree
CHECK_DEADLOCK FALSE
