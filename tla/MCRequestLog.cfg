\* Bodies of up to four bytes, a cap of three.
CONSTANTS
  Bytes = {"x", "lead", "cont"}
  Lead = "lead"
  Cont = "cont"
  Chunks <- SmallChunks
  MaxBodyBytes = 3
  MaxStreamed = 4
  JsonTexts <- SmallJson
  DeepTexts <- SmallDeep
  ValidBodies = {}
  Statuses = {200, 502}
  NotStarted = NotStarted
  None = None
SPECIFICATION Spec
INVARIANTS
  TypeOK
  CopiesArePrefixes
  EntryAgreesWithTheClient
  EntryReadsAsTheBodies
CHECK_DEADLOCK FALSE
