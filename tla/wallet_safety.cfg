\* Two owners, a top-up, an order, a correction; every report of the top-up, in
\* any order and number; two crashes.
SPECIFICATION FairSpec
CONSTANTS
  ann = ann
  bob = bob
  t1 = t1
  t2 = t2
  o1 = o1
  Users = {ann, bob}
  TopUps = {t1}
  Orders = {o1}
  Workers = {w1, w2}
  Nobody = Nobody
  Owner <- OwnerHere
  Value <- ValueHere
  Reports <- AllReports
  Adjustments <- MinusOne
  MaxAdjustments = 1
  MaxCrashes = 2
INVARIANTS LedgerChains PostedOnce StatusMatchesLedger CreditedOnlyWhenSettled
PROPERTIES KeepsItsPromise SettledIsCredited
CHECK_DEADLOCK FALSE
