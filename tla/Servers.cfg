SPECIFICATION Spec
CONSTANTS
  Requests = {r1, r2}
  NameOf <- MCNameOf
  Specs <- MCSpecs
  MaxEdits = 2
  MaxFaults = 1
  MaxLeaked = 2
INVARIANT EntriesMatchObjects
PROPERTIES StopsOnlyItsOwn DeletedIsStopped EnvoyIsEntered
CHECK_DEADLOCK FALSE
