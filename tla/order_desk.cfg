SPECIFICATION Spec
CONSTANTS
  Orders = {o1}
  Workers = {w1, w2}
  Couriers = {c1}
  Methods = {"COD", "WALLET"}
  Fulfillments = {"DELIVERY", "PICKUP"}
  MaxRestores = 2
  Targets <- Statuses
  Sessions = {}
  MaxCrashes = 1
  Reports <- NoReports
  Nobody = Nobody
SYMMETRY WorkerSymmetry
INVARIANTS NoStageSkipped CancelledGoodsReturn WalletMoneyReturns DeliveredGoodsWereTaken
PROPERTY RestingStaysFinal
CHECK_DEADLOCK FALSE
