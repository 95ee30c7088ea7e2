SPECIFICATION Spec
CONSTANTS
  s1 = s1  s2 = s2  basic = basic  pro = pro  once = once  w1 = w1  w2 = w2  o1 = o1
  NoPlan = NoPlan
  NoActor = NoActor
  NoEvent = NoEvent
  Subs = {s1, s2}
  Plans = {basic, pro, once}
  Sellable = {once, pro}
  OneTime = {once}
  Price <- MCPrice
  Credit <- MCCredit
  Start <- MCStartTwo
  Workers = {w1}
  Daemons = {w1}
  WorkerFilter = {"scheduled"}
  Operators = {o1}
  Requests <- MCRequestsTwo
  Modes = {}
  Period = 3
  DunningAfter = 1
  ExpireAfter = 2
  RetryAfter = 1
  MaxAttempts = 3
  MaxTime = 3
  MaxRequests = 2
  MaxFaults = 0
PROPERTY FailureIsTerminal
CHECK_DEADLOCK FALSE
