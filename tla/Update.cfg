SPECIFICATION Spec
CONSTANTS
  Uploads = {u1, u2}
  Ways = {"path"}
  Sectors = 2
  MaxKeys = 1
  MaxBuilds = 2
  MaxTries = 2
  MaxTroubles = 1
INVARIANT TypeOK
PROPERTIES ImplementsFirmware RebootMeansFlashed UpdateArrives
CHECK_DEADLOCK FALSE
