SPECIFICATION Spec
CONSTANTS
  a1 = a1  a2 = a2  b1 = b1  o1 = o1  o2 = o2
  Attempts = {a1, a2}
  Probes = {}
  Operators = {}
PROPERTY RetryAfterRespected
CHECK_DEADLOCK FALSE
