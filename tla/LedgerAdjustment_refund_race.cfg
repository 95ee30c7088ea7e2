SPECIFICATION Spec
CONSTANTS
  s1 = s1  s2 = s2  c1 = c1  c2 = c2  c3 = c3
  NoSource = NoSource
  NoCall = NoCall
  NoInput = NoInput
  Calls = {c1, c2}
  Sources = {s1, s2}
  Kind <- MCKind
  Debit <- MCDebit
  Inputs <- MCRefunds
  Base = 5
  BudgetLimit = 5
  MaxFaults = 0
  MaxToggles = 0
INVARIANT
  RefundsWithinDebit
CHECK_DEADLOCK FALSE
