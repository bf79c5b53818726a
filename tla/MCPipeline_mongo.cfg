\* One answer through the mongo repository and back.
CONSTANTS
  IntentValues <- MCIntentValues
  Text <- MCText
  UNKNOWN = "unknown"
  BlankText = {"", " "}
  Normalized <- MCNormalized
  NotAString = NotAString
  NotANumber = NotANumber
  ServerError = ServerError
  None = None
  ValidationError = ValidationError
  SuspiciousMessages = {m2}
  Messages = {m1, m2}
  ConfidenceThreshold = 60
  RawAnswers <- MCRawAnswers
  Instants = {3, 5}
  MicrosPerMilli = 2
  Backend = "mongo"
SPECIFICATION Spec
INVARIANTS
  TypeOK
  ReadBackIsWhatWasAnswered
  AutomatedExactlyIfClear
  UnroutableIntentIsKept
CHECK_DEADLOCK FALSE
