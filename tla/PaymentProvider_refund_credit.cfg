SPECIFICATION Spec
CONSTANTS
  d1 = d1  d2 = d2  d3 = d3  k1 = k1  k2 = k2  k3 = k3
  e1 = e1  e2 = e2  e3 = e3  e4 = e4  e5 = e5
  Deliveries = {d1, d2}
  Bodies <- MCRefund
  Keys = {k1, k2, k3}
  NoRow = NoRow
  MaxCrashes = 1
INVARIANT
  RefundTakesCreditBack
CHECK_DEADLOCK FALSE
