SPECIFICATION Spec
CONSTANTS
  r1 = r1
  r2 = r2
  Requests <- TwoRequests
  Nobody = Nobody
  Limit = 1
  Window = 1
  PoolSize = 1
  Kinds = {"predict", "explain", "get-inference", "model-info", "ready"}
  MaxTime = 1
SYMMETRY Symmetric
INVARIANTS
  AuditBeforeSuccess
  RefusalMeansUnaudited
  OnlyAdmittedAudited
  LogAgreesWithAudit
  NoConnectionLeak
PROPERTIES
  ImplementsAuditedInference
