CONSTANTS
  None = None
  w1 = w1
  w2 = w2
  p1 = p1
  p2 = p2
  d1 = d1
  Workers = {w1, w2}
  MaxAttempts = 2
  MaxEvent = 1
  MaxEdit = 1
  MaxFault = 1
SPECIFICATION ServicesSpec
CHECK_DEADLOCK FALSE
INVARIANTS
  ServicesTypeOK
  OneExecution
  EventsCauseTasks
  AttemptsAreBounded
PROPERTIES
  EventsAreServed
  FailuresAreTold
  MissedRunsAreTold
  KicksGoThrough
  UpdatesGoForward
  EveryUpdateSettles
