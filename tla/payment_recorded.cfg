SPECIFICATION Spec
CONSTANTS
  Orders = {o1}
  Workers = {w1, w2}
  Couriers = {}
  Methods = {"MIDTRANS"}
  Fulfillments = {"DELIVERY"}
  MaxRestores = 2
  Targets = {"PAID", "PROCESSING", "CANCELLED"}
  Sessions = {s1}
  MaxCrashes = 1
  Reports <- CardReports
  Nobody = Nobody
SYMMETRY WorkerSymmetry
INVARIANT RecordedIsProcessed
CHECK_DEADLOCK FALSE
