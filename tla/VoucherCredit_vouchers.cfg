SPECIFICATION Spec
CONSTANTS
  v1 = v1  v2 = v2  c1 = c1  c2 = c2  c3 = c3  k1 = k1  k2 = k2  k3 = k3  u1 = u1  u2 = u2
  Calls = {c1, c2, c3}
  Vouchers = {v1, v2}
  Max <- MCMax
  Issued = {v1}
  Dated = {v1}
  Jobs <- MCJobs
  NoJob = NoJob
  NoRow = NoRow
  Wallet = Wallet
  Lookups <- MCLookups
  MaxFaults = 1
INVARIANTS
  TypeOK
  RedemptionLimit
PROPERTIES
  RevokedStays
  FinalStays
  RequestsEnd
CHECK_DEADLOCK FALSE
