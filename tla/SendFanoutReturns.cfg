SPECIFICATION CallSpec
CONSTANT Connections = {s1}
PROPERTY CallReturns
CHECK_DEADLOCK FALSE
