SPECIFICATION Spec
CONSTANTS
  PolicyLists <- MCPolicyLists
  Server = "HTTP"
INVARIANT DeniedByDefault
