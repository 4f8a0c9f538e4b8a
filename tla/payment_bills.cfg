SPECIFICATION Spec
CONSTANTS
  Orders = {o1}
  Workers = {w1, w2}
  Couriers = {}
  Methods = {"MIDTRANS"}
  Fulfillments = {"DELIVERY"}
  MaxRestores = 2
  Targets = {"PAID", "PROCESSING", "CANCELLED"}
  Sessions = {s1, s2}
  MaxCrashes = 0
  Reports <- SettledOnly
  Nobody = Nobody
SYMMETRY WorkerSymmetry
PROPERTY OneLiveBill
CHECK_DEADLOCK FALSE
