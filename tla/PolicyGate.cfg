SPECIFICATION Spec
CONSTANTS
  a = a
  b = b
  star = star
  r1 = r1
  r2 = r2
  Id <- MCId
  Wildcard = star
  Request <- MCOneRequest
  EnvPolicy <- MCEnvPolicy
  Puts <- MCPuts
  MaxUpdates = 2
  MaxFailures = 1
  MaxRestarts = 1
INVARIANTS
  TypeOK
  PassedWasPermitted
  AckedPolicySurvives
CHECK_DEADLOCK FALSE
