SPECIFICATION FairSpec
CONSTANTS
  Policies = {p1}
  Clients = {c1}
  Modes = {"HTTP", "Kubernetes"}
  Processors = {"HTTP"}
  Ages = {"fresh", "stale"}
  MaxRev = 2
  MaxFaults = 1
INVARIANTS TypeOK StoredIsCurrentOrPending NoLostUpdate DrainedIsCurrent
PROPERTIES PromiseKept StoreSettles ListenersRegister LiveClientsCatchUp
CHECK_DEADLOCK FALSE
