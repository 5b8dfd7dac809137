SPECIFICATION Spec
CONSTANTS
  Workers = {w1}
  Requests <- MCLoneRequests
  Byte <- MCByte
  PathSize = 20
  max_query_parameters_amount = 2
  IdModulus = 100
INVARIANTS TypeOK AloneIsOwn CrashHasCause
CHECK_DEADLOCK FALSE
