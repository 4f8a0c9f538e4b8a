SPECIFICATION Spec
CONSTANTS
  Orders = {o1}
  Workers = {w1, w2}
  Couriers = {c1, c2}
  Methods = {"MIDTRANS"}
  Fulfillments = {"DELIVERY"}
  MaxRestores = 2
  Targets <- Statuses
  Sessions = {}
  MaxCrashes = 0
  Reports <- NoReports
  Nobody = Nobody
SYMMETRY WorkerSymmetry
INVARIANT CarrierIsOnRecord
CHECK_DEADLOCK FALSE
