SPECIFICATION Spec
CONSTANTS
  Orders = {o1}
  Workers = {w1, w2}
  Couriers = {}
  Methods = {"COD"}
  Fulfillments = {"DELIVERY"}
  MaxRestores = 2
  Targets = {"PAID"}
  Sessions = {s1, s2}
  MaxCrashes = 0
  Reports <- CommonReports
  Nobody = Nobody
SYMMETRY BillSymmetry
INVARIANT PaidOrderNotWaiting
PROPERTY EndedStaysEnded
CHECK_DEADLOCK FALSE
