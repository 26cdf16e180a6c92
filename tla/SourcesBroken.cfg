SPECIFICATION Spec
CONSTANTS
  NumNames = 2
  Bodies = {"deny", "broken"}
  External <- MCNoExternal
  Requests = {r1}
  Keys <- MCKeys
  KeyOf <- MCKeyOf
  MaxRev = 2
  MaxFaults = 0
INVARIANT BrokenPolicyDenies
