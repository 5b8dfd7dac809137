SPECIFICATION Spec
CONSTANTS
  Workers = {w1, w2}
  Requests <- MCSameShapeRequests
  Byte <- MCByte
  PathSize = 8
  max_query_parameters_amount = 2
  IdModulus = 100
INVARIANT OwnRequest
CHECK_DEADLOCK FALSE
