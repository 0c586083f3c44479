SPECIFICATION Spec
CONSTANTS
  r1 = r1
  r2 = r2
  Requests <- TwoRequests
  Nobody = Nobody
  Limit = 1
  Window = 1
  PoolSize = 1
  Kinds = {"predict"}
  MaxTime = 1
INVARIANT
  ValidationErrorIs422
