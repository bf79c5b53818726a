\* Are valid requests logged as JSON?  Sizes in blocks of 2,048 bytes.
CONSTANTS
  Bytes = {"block"}
  Lead = "lead"
  Cont = "cont"
  Chunks <- BlockChunks
  MaxBodyBytes = 32
  MaxStreamed = 50
  JsonTexts <- BlockBodies
  DeepTexts = {}
  ValidBodies <- BlockBodies
  Statuses = {200, 502}
  NotStarted = NotStarted
  None = None
SPECIFICATION Spec
INVARIANTS
  ValidBodiesAreLoggedAsJson
CHECK_DEADLOCK FALSE
