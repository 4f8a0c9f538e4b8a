---------------------------- MODULE Marketplace -----------------------------
(***************************************************************************)
(* Orders from checkout to receipt: the desk, the couriers and the payment  *)
(* webhook working on the same rows at the same time.                       *)
(***************************************************************************)
EXTENDS OrderDesk, CourierTasks, OrderPayment

Next ==
    \/ DeskNext
    \/ CourierNext
    \/ PaymentNext
    \/ \E w \in Workers : Crash(w)

Spec == Init /\ [][Next]_vars

-----------------------------------------------------------------------------
Args == Statuses \cup Couriers \cup {Nobody, "none"} \cup Sessions \cup Views

Ops == {"move", "cancel", "request", "approve", "reject", "receive", "accept",
        "release", "assign", "pickup", "deliver", "transit", "session",
        "method", "notified", "due", "applying"}

Jobs == [op : Ops, order : Orders, arg : Args, seen : OrderRow]

(* Every row keeps the type its table gives it, and a job the type its      *)
(* handler's locals have.                                                   *)
TypeOK ==
    /\ order \in [Orders -> OrderRow]
    /\ payment \in [Orders -> PaymentRow]
    /\ delivery \in [Orders -> DeliveryRow]
    /\ refunded \subseteq Orders
    /\ restored \in [Orders -> 0 .. MaxRestores]
    /\ been \in [Orders -> SUBSET (Statuses \cup {"none"})]
    /\ took \in [Orders -> Couriers \cup {Nobody}]
    /\ issued \in [Orders -> SUBSET Sessions]
    /\ sent \subseteq Notification
    /\ recorded \subseteq {Key(n) : n \in Notification}
    /\ job \in [Workers -> Jobs \cup {[op |-> "idle"]}]
    /\ crashes \in Nat

(* No order jumps over a stage: however stale the reads behind the writes,  *)
(* an order was in preparation before it was ready, was ready before it     *)
(* went out or was delivered, and was delivered before it was completed.    *)
(* This is what the map of order-transitions.ts is there for.               *)
NoStageSkipped ==
    \A o \in Orders :
        /\ "READY_FOR_DELIVERY" \in been[o] => "PROCESSING" \in been[o]
        /\ "OUT_FOR_DELIVERY" \in been[o] => "READY_FOR_DELIVERY" \in been[o]
        /\ "DELIVERED" \in been[o] => "READY_FOR_DELIVERY" \in been[o]
        /\ "COMPLETED" \in been[o] => "DELIVERED" \in been[o]

(* An order that was ever cancelled, by staff, on request or by an unpaid   *)
(* bill, put its goods back; goods were put back of no other order.         *)
CancelledGoodsReturn ==
    \A o \in Orders : "CANCELLED" \in been[o] <=> restored[o] > 0

(* An order paid from the wallet that was ever cancelled has been refunded, *)
(* whichever of several decisions on stale reads came first; and only a     *)
(* cancelled order is refunded.                                             *)
WalletMoneyReturns ==
    \A o \in Orders :
        /\ "CANCELLED" \in been[o] /\ order[o].method = "WALLET"
             => o \in refunded
        /\ o \in refunded => "CANCELLED" \in been[o]

(* What a courier has on the road or marked delivered was taken out of the  *)
(* shop by a courier: no tap skips the pick-up.                             *)
DeliveredGoodsWereTaken ==
    \A o \in Orders :
        delivery[o].status \in {"PICKED_UP", "IN_TRANSIT", "COURIER_DELIVERED"}
            => took[o] # Nobody

(* A bill recorded as paid leaves no order waiting for payment: applyStatus *)
(* and updateStatus write both rows in one transaction, and no other write  *)
(* takes an order back to PENDING.                                          *)
PaidOrderNotWaiting ==
    \A o \in Orders : payment[o].status = "PAID" => order[o].status # "PENDING"

(* A payment that has ended, by Midtrans's word or a cashier's, does not    *)
(* wait again because of a late notification; only a new bill restarts it.  *)
EndedStaysEnded ==
    [][\A o \in Orders :
         /\ Placed(o) /\ payment[o].status # "PENDING"
         /\ payment'[o].status = "PENDING"
         => payment'[o].session # payment[o].session]_vars

-----------------------------------------------------------------------------
(***************************************************************************)
(* What the code's comments and messages say, and its interleavings do not. *)
(***************************************************************************)

(* updateStatus: "an order with status COMPLETED or CANCELLED is final and  *)
(* cannot be changed".                                                      *)
FinalIsFinal ==
    [][\A o \in Orders : order[o].status \in {"COMPLETED", "CANCELLED"}
                           => order'[o].status = order[o].status]_vars

(* assignCourier: whoever carries the goods is the courier on record.       *)
CarrierIsOnRecord ==
    \A o \in Orders :
        delivery[o].status \in {"PICKED_UP", "IN_TRANSIT", "COURIER_DELIVERED"}
            => delivery[o].courier = took[o]

(* create: a transaction that still lives is used again, pressing "pay"     *)
(* twice does not make two bills.                                           *)
OneLiveBill ==
    [][\A o \in Orders :
         payment'[o].session # payment[o].session => ~Reusable(o)]_vars

(* handleNotification: an event that is already recorded "has already been  *)
(* processed".  When no request works on the order any more, a recorded     *)
(* report that the current bill was paid shows in the payment.              *)
RecordedIsProcessed ==
    \A n \in sent :
        /\ Key(n) \in recorded /\ ViewOf(n.report) = "PAID"
        /\ n.session = payment[n.order].session
        /\ \A w \in Workers : job[w].op # "idle" => job[w].order # n.order
        => payment[n.order].view # "PENDING"

-----------------------------------------------------------------------------
(***************************************************************************)
(* What remains of them: how far each holds, and what it takes to break it. *)
(***************************************************************************)

(* An order at rest: final, nobody is to decide on its cancellation, no     *)
(* courier can take or has its goods, and no request under way has read it  *)
(* as it was before.                                                        *)
AtRest(o) ==
    /\ order[o].status \in {"COMPLETED", "CANCELLED"}
    /\ order[o].cancel # "REQUESTED"
    /\ \/ delivery[o].status = "none"
       \/ /\ delivery[o].status \in {"COURIER_DELIVERED", "COMPLETED"}
          /\ delivery[o].courier # Nobody
    /\ \A w \in Workers : job[w].op # "idle" /\ job[w].order = o =>
         \/ job[w].op \in {"reject", "session", "method", "notified", "due"}
         \/ job[w].op = "applying" /\ job[w].seen.status # "PENDING"

(* An order at rest is final for good, whatever is asked of it.             *)
RestingStaysFinal ==
    [][\A o \in Orders : AtRest(o) =>
         /\ order'[o].status = order[o].status
         /\ AtRest(o)']_vars

(* The courier on record carries the goods, and nobody who read the         *)
(* delivery before is about to write it.                                    *)
Carried(o) ==
    /\ delivery[o].status \in {"PICKED_UP", "IN_TRANSIT", "COURIER_DELIVERED"}
    /\ delivery[o].courier = took[o] /\ took[o] # Nobody
    /\ \A w \in Workers : job[w].op # "idle" /\ job[w].order = o =>
         job[w].op \notin {"accept", "release", "assign", "pickup"}

(* Goods that are carried stay with their courier, on the road and on       *)
(* record, until the customer has them.                                     *)
CarrierStays ==
    [][\A o \in Orders : Carried(o) =>
         /\ took'[o] = took[o] /\ delivery'[o].courier = took[o]
         /\ Carried(o)' \/ delivery'[o].status = "COMPLETED"]_vars

(* A bill that lives, and no other is being opened. *)
OnlyBill(o) ==
    /\ Reusable(o)
    /\ \A w \in Workers : job[w].op = "session" => job[w].order # o

(* The only bill of an order stays it until it is paid, ended or expired:   *)
(* two bills take two requests that both began before the first was saved.  *)
BillStays ==
    [][\A o \in Orders : OnlyBill(o) =>
         /\ payment'[o].session = payment[o].session
         /\ OnlyBill(o)' \/ payment'[o].status # "PENDING"
                         \/ payment'[o].expired]_vars

(* Notifications that share a key say the same of the bill: Midtrans did    *)
(* not challenge a capture first and accept it later.                       *)
OneMeaning ==
    \A m, n \in sent : Key(m) = Key(n) => ViewOf(m.report) = ViewOf(n.report)

(* A recorded notification is only left unprocessed by a lost request, or   *)
(* by one of another meaning under its key.                                 *)
RecordedUnlessLost == crashes = 0 /\ OneMeaning => RecordedIsProcessed
=============================================================================
