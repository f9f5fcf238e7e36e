SPECIFICATION Spec
CONSTANTS
  Uploads = {u1}
  Ways = {"path"}
  Sectors = 2
  MaxKeys = 0
  MaxBuilds = 2
  MaxTries = 1
  MaxTroubles = 1
INVARIANT RefusalKeepsFirmware
CHECK_DEADLOCK FALSE
