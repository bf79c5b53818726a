\* Contexts of up to 4 turns where 3 are allowed, windows of 0 to 4, two attempts, a clock that runs on.
CONSTANTS
  Requests <- MCRequests
  Words = {"", "a", "bb", "ccc"}
  Size <- MCSize
  Windows = {0, 1, 2, 3, 4}
  MaxLength = 3
  MaxTurns = 3
  MaxAttempts = 2
  Instants <- MCInstants
  LocalTime <- MCLocalTime
  NoPrompt = NoPrompt
  NoRecord = NoRecord
SPECIFICATION Spec
INVARIANTS
  TypeOK
  ContextIsTheMostRecent
  OnlyTheTemplateDelimits
  RecordTellsWhatWasAsked
CHECK_DEADLOCK FALSE
