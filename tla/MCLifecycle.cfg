\* Two workers, two calls in flight; one kill, one outage, one stop.
CONSTANTS
  Workers = {w1, w2}
  Calls = {c1, c2}
  NoWorker = NoWorker
  MaxKills = 1
  MaxOutages = 1
  MaxStops = 1
SPECIFICATION FairSpec
INVARIANTS
  TypeOK
  NoUseAfterClose
  ServingIsIndexed
  StoppedIsClosed
PROPERTIES
  StopEnds
  StoppingIsProgress
  EventuallyServes
  StartingIsProgress
CHECK_DEADLOCK FALSE
