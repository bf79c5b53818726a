\* One call, three retries; a deadline of 3, backoffs of 1, 2 and 4, a grace of 1.
CONSTANTS
  Calls = {c1}
  o1 = o1
  truncated = truncated
  Outputs = {o1}
  NoOutput = NoOutput
  Malformed = Malformed
  MaxRetries = 3
  Timeout = 3
  Backoff = 1
  Grace = 1
  Answers <- MCAnswers
  Parsed <- MCParsed
SPECIFICATION TimedSpec
INVARIANTS
  SettlesInTime
  EachAttemptHasItsTime
PROPERTIES
  KeepsFairContract
CHECK_DEADLOCK FALSE
