SPECIFICATION Spec
CONSTANTS
  Shops = {u1}
  Payouts = {p1, p2, p3}
  Workers = {w1, w2}
  Sales = {50}
  MaxGross = 100
  Amounts = {40, 60}
  Minimum = 40
  FeePercent = 5
  Nobody = Nobody
SYMMETRY MCSymmetry
INVARIANTS OneOpenRequest NeverOverdrawn ClosedOnce
PROPERTIES WithdrawsAtOnce
CHECK_DEADLOCK FALSE
