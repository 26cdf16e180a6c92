SPECIFICATION Spec
CONSTANTS
  Policies <- MCPolicies
  Requests <- MCRequests
  MaxRequests = 2
  MaxInt32 = 1000
INVARIANTS
  ResponseIsWhatWasWritten
  EvaluationIsRepeatable
  FailsOnlyForTheRequest
CHECK_DEADLOCK FALSE
