SPECIFICATION Spec
CONSTANTS
  Deployments <- MCDeployments
  MaxRpcs = 1
  MaxSignals = 2
INVARIANTS NothingOutlivesTheCommand FailuresAreReported
PROPERTIES SignalStops EndOfAServerStops SetupErrorStops
