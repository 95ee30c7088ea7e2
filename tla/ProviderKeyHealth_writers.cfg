SPECIFICATION FairSpec
CONSTANTS
  a1 = a1  a2 = a2  b1 = b1  o1 = o1  o2 = o2
  Attempts = {a1, a2}
  Probes = {b1}
  Operators = {o1, o2}
INVARIANT TypeOK
PROPERTIES
  WithdrawnStays
  CooldownEnds
CHECK_DEADLOCK FALSE
