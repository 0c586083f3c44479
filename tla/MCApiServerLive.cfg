SPECIFICATION Spec
CONSTANTS
  r1 = r1
  r2 = r2
  Requests <- TwoRequests
  Nobody = Nobody
  Limit = 2
  Window = 1
  PoolSize = 1
  Kinds = {"explain", "ready"}
  MaxTime = 0
PROPERTIES
  AcceptedIsFinished
