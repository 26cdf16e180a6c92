SPECIFICATION CallSpec
CONSTANT Connections = {s1, s2, s3}
INVARIANT EndsOnlyWithLateStreams
PROPERTY EveryStreamIsSent
CHECK_DEADLOCK FALSE
