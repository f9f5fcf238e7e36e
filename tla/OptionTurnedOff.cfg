SPECIFICATION Spec
CONSTANTS
  Clients = {c1, c2}
  Session = session
  Levels = {120, 50}
  MaxCalls = 3
  MaxStops = 2
  MaxFailures = 1
PROPERTY OptionOffIsOff
CHECK_DEADLOCK FALSE
