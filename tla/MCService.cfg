\* Two calls on two workers that may die, over either repository; Mongo may fail.
CONSTANTS
  Calls = {r1, r2}
  Workers = {w1, w2}
  Bodies = {"storable", "refused"}
  RequestIds = {id}
  oAuto = oAuto
  oHuman = oHuman
  oNaN = oNaN
  Outputs = {oAuto, oHuman, oNaN}
  NoOutput = NoOutput
  None = None
  MaxRetries = 1
  NeedsHuman <- MCNeedsHuman
  Unrenderable <- MCUnrenderable
  Backends = {"mongo", "memory"}
  DatabaseFaults = TRUE
  MaxCrashes = 1
SPECIFICATION Spec
SYMMETRY MCSymmetry
INVARIANTS
  TypeOK
  PersistedAnswerIsStored
  FetchAgreesWithAnswer
  AnswerTellsTheVerdict
  LogIsTruthful
PROPERTIES
  KeepsBook
  EveryMoveIsProgress
CHECK_DEADLOCK FALSE
