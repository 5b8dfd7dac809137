SPECIFICATION Spec
CONSTANTS
  Workers = {w1, w2}
  Requests <- MCSharedRequests
  Byte <- MCByte
  PathSize = 10
  max_query_parameters_amount = 2
  IdModulus = 100
INVARIANTS AloneIsOwn GetsOnlyRead CrashHasCause
CHECK_DEADLOCK FALSE
