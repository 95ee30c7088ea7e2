SPECIFICATION Spec
CONSTANTS
  s1 = s1  s2 = s2  basic = basic  pro = pro  once = once  w1 = w1  w2 = w2  o1 = o1
  NoPlan = NoPlan
  NoActor = NoActor
  NoEvent = NoEvent
  Subs = {s1}
  Plans = {basic, pro, once}
  Sellable = {once, pro}
  OneTime = {once}
  Price <- MCPrice
  Credit <- MCCredit
  Start <- MCStart
  Workers = {w1}
  Daemons = {w1}
  WorkerFilter = {"scheduled"}
  Operators = {o1}
  Requests <- MCRequests
  Modes = {"apply", "refuse", "replay"}
  Period = 3
  DunningAfter = 1
  ExpireAfter = 2
  RetryAfter = 1
  MaxAttempts = 2
  MaxTime = 3
  MaxRequests = 3
  MaxFaults = 1
INVARIANTS
  TypeOK
  CreditOnce
  RetryPending
  AttemptsBounded
PROPERTIES
  ClosedStays
  DueEventsSettle
CHECK_DEADLOCK FALSE
