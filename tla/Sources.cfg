SPECIFICATION FairSpec
CONSTANTS
  NumNames = 2
  Bodies = {"allow", "broken"}
  External <- MCExternal
  Requests = {r1, r2}
  Keys <- MCKeys
  KeyOf <- MCKeyOf
  MaxRev = 2
  MaxFaults = 1
INVARIANTS TypeOK KnownOrPending LoadIsExact StaleIsDiscarded AnswerIsOfSnapshot
PROPERTY SourceSettles
