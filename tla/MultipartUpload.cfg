SPECIFICATION Spec
CONSTANTS
  Uploads = {u1}
  Ways = {"multipart"}
  Sectors = 2
  MaxKeys = 0
  MaxBuilds = 2
  MaxTries = 1
  MaxTroubles = 0
PROPERTY MultipartArrives
CHECK_DEADLOCK FALSE
