\* Liveness under database faults and a crash, over either repository.
CONSTANTS
  Calls = {r1, r2}
  Workers = {w1}
  Bodies = {"storable", "refused", "overflows", "nested"}
  RequestIds = {id}
  oAuto = oAuto
  oHuman = oHuman
  oNaN = oNaN
  Outputs = {oAuto}
  NoOutput = NoOutput
  None = None
  MaxRetries = 0
  NeedsHuman <- MCNeedsHuman
  Unrenderable <- MCUnrenderable
  Backends = {"mongo", "memory"}
  DatabaseFaults = TRUE
  MaxCrashes = 1
SPECIFICATION FairSpec
INVARIANTS
  EveryLossHasACause
PROPERTIES
  EveryCallEnds
  StoresOnlyGrow
CHECK_DEADLOCK FALSE
