\* Is every call that is through in the request log?  The database up, no crash.
CONSTANTS
  Calls = {r1}
  Workers = {w1}
  Bodies = {"storable", "refused", "overflows"}
  RequestIds = {id}
  oAuto = oAuto
  oHuman = oHuman
  oNaN = oNaN
  Outputs = {oAuto, oHuman}
  NoOutput = NoOutput
  None = None
  MaxRetries = 1
  NeedsHuman <- MCNeedsHuman
  Unrenderable <- MCUnrenderable
  Backends = {"mongo"}
  DatabaseFaults = FALSE
  MaxCrashes = 0
SPECIFICATION Spec
INVARIANTS
  EveryFinishedCallIsLogged
CHECK_DEADLOCK FALSE
