SPECIFICATION Spec
CONSTANTS
  Orders = {o1}
  Workers = {w1, w2}
  Couriers = {}
  Methods = {"COD", "WALLET"}
  Fulfillments = {"DELIVERY", "PICKUP"}
  MaxRestores = 2
  Targets <- Statuses
  Sessions = {}
  MaxCrashes = 0
  Reports <- NoReports
  Nobody = Nobody
SYMMETRY WorkerSymmetry
PROPERTY FinalIsFinal
CHECK_DEADLOCK FALSE
