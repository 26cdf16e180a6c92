SPECIFICATION Spec
CONSTANTS
  Names = {p1}
  Writers = {w1, w2}
  Specs <- MCSpecs
  Pods <- MCPods
  Sidecars <- MCSidecars
  MaxWrites = 3
  MaxPods = 2
INVARIANTS
  StoredPoliciesCompile
  ReplicaDecidesAlike
  InjectionOnlyAdds
CHECK_DEADLOCK FALSE
