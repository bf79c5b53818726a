\* Two concurrent calls, the default of two retries: every interleaving of their tasks.
CONSTANTS
  Calls = {c1, c2}
  o1 = o1
  o2 = o2
  truncated = truncated
  Outputs = {o1, o2}
  NoOutput = NoOutput
  Malformed = Malformed
  MaxRetries = 2
  Answers <- MCAnswers
  Parsed <- MCParsed
SPECIFICATION Spec
SYMMETRY MCSymmetry
INVARIANTS
  TypeOK
  AttemptErrorsTellWhatHappened
  TimeoutMeansNeverAnswered
  NoStrayTask
  OnlyRetryableAttemptsAreRetried
PROPERTIES
  KeepsContract
CHECK_DEADLOCK FALSE
