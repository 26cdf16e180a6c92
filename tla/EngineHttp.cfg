SPECIFICATION Spec
CONSTANTS
  PolicyLists <- MCPolicyLists
  Server = "HTTP"
INVARIANTS TypeOK ResultIsDecision AllowedOnlyUnopposed StopsAtVerdict
