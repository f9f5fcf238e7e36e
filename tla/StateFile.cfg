SPECIFICATION Spec
CONSTANTS
  Clients = {c1, c2}
  Session = session
  Levels = {120, 50}
  MaxCalls = 3
  MaxStops = 2
  MaxFailures = 1
INVARIANTS TypeOK FileIsCurrent UserDecides
CHECK_DEADLOCK FALSE
