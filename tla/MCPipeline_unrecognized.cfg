\* Can the model set unrecognized_intent itself?
CONSTANTS
  IntentValues <- MCIntentValues
  Text <- MCText
  UNKNOWN = "unknown"
  BlankText = {"", " "}
  Normalized <- MCNormalized
  NotAString = NotAString
  NotANumber = NotANumber
  ServerError = ServerError
  None = None
  ValidationError = ValidationError
  SuspiciousMessages = {m2}
  Messages = {m1, m2}
  ConfidenceThreshold = 60
  RawAnswers <- MCRawAnswers
  Instants = {3, 5}
  MicrosPerMilli = 2
  Backend = "mongo"
SPECIFICATION Spec
INVARIANTS
  UnrecognizedIntentIsTheServices
CHECK_DEADLOCK FALSE
