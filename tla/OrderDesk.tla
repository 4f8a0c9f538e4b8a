----------------------------- MODULE OrderDesk ------------------------------
(***************************************************************************)
(* The handlers of customers, sellers and cooperative staff: OrderService,  *)
(* SellerService.updateOrderStatus and the hand-over to the courier pool.   *)
(***************************************************************************)
EXTENDS OrderState

(***************************************************************************)
(* checkout and createDirectOrder: one transaction creates order and        *)
(* payment; a WALLET order is debited in it and starts out PAID.  Cash on   *)
(* delivery cannot be picked up (resolveFulfillment).                       *)
(***************************************************************************)
Place(o, method, fulfillment) ==
    LET paid == IF method = "WALLET" THEN "PAID" ELSE "PENDING" IN
    /\ ~Placed(o)
    /\ ~(method = "COD" /\ fulfillment = "PICKUP")
    /\ PutOrder(o, [order[o] EXCEPT !.status = paid, !.paid = paid,
                                    !.method = method,
                                    !.fulfillment = fulfillment])
    /\ payment' = [payment EXCEPT ![o].status = paid]
    /\ UNCHANGED <<delivery, refunded, restored, took, issued, sent, recorded,
                   job, crashes>>

-----------------------------------------------------------------------------
(* updateStatus, before its transaction: the same status is an answer, a    *)
(* transition the map lacks an error.                                       *)
StaffReads(w, o, status) ==
    /\ Placed(o) /\ order[o].status # status
    /\ CanTransition(order[o].status, status)
    /\ IF status = "CANCELLED" THEN BeginSeen(w, "cancel", o)
                               ELSE Begin(w, "move", o, status)
    /\ UNCHANGED <<order, payment, delivery, refunded, restored, been, took,
                   issued, sent, recorded, crashes>>

(* SellerService.updateOrderStatus: sellers only prepare, then do as staff. *)
SellerReads(w, o, status) ==
    /\ status \in {"PROCESSING", "READY_FOR_DELIVERY"}
    /\ StaffReads(w, o, status)

(* handOverToCourier: an upsert that leaves an existing delivery alone. *)
HandedOver(o) ==
    IF order[o].fulfillment = "DELIVERY" /\ delivery[o].status = "none"
    THEN [status |-> "ASSIGNED", courier |-> Nobody]
    ELSE delivery[o]

(* The transaction of updateStatus: the status is written whatever it is by *)
(* now; PAID also marks the payment, READY_FOR_DELIVERY hands over.         *)
Move(w) ==
    LET o == job[w].order
        status == job[w].arg IN
    /\ job[w].op = "move"
    /\ status = "PAID" => PaymentFree(o)
    /\ PutOrder(o, [order[o] EXCEPT
                      !.status = status,
                      !.paid = IF status = "PAID" THEN "PAID" ELSE @])
    /\ payment' = [payment EXCEPT
                     ![o].status = IF status = "PAID" THEN "PAID" ELSE @]
    /\ delivery' = IF status = "READY_FOR_DELIVERY"
                   THEN [delivery EXCEPT ![o] = HandedOver(o)]
                   ELSE delivery
    /\ Finish(w)
    /\ UNCHANGED <<refunded, restored, took, issued, sent, recorded, crashes>>

-----------------------------------------------------------------------------
(* requestCancellation reads, then sets the request and clears a decision. *)
RequestReads(w, o) ==
    /\ order[o].status \in {"PENDING", "PAID"}
    /\ order[o].cancel # "REQUESTED"
    /\ Begin(w, "request", o, "none")
    /\ UNCHANGED <<order, payment, delivery, refunded, restored, been, took,
                   issued, sent, recorded, crashes>>

Request(w) ==
    LET o == job[w].order IN
    /\ job[w].op = "request"
    /\ PutOrder(o, [order[o] EXCEPT !.cancel = "REQUESTED"])
    /\ Finish(w)
    /\ UNCHANGED <<payment, delivery, refunded, restored, took, issued, sent,
                   recorded, crashes>>

(* decideCancellation: a request waits for an answer; the order's own       *)
(* status is not asked for.                                                 *)
DecisionReads(w, o, approve) ==
    /\ order[o].cancel = "REQUESTED"
    /\ IF approve THEN BeginSeen(w, "approve", o)
                  ELSE Begin(w, "reject", o, "none")
    /\ UNCHANGED <<order, payment, delivery, refunded, restored, been, took,
                   issued, sent, recorded, crashes>>

Reject(w) ==
    LET o == job[w].order IN
    /\ job[w].op = "reject"
    /\ PutOrder(o, [order[o] EXCEPT !.cancel = "DECIDED"])
    /\ Finish(w)
    /\ UNCHANGED <<payment, delivery, refunded, restored, took, issued, sent,
                   recorded, crashes>>

(* applyCancellation refunds what it was told is a paid wallet order, and   *)
(* always puts the goods back.                                              *)
MustRefund_Mutant(row) ==               \* status for paymentStatus
    row.method = "WALLET" /\ row.status = "PAID"
MustRefund(row) == row.method = "WALLET" /\ row.paid = "PAID"

(* The transaction of a staff cancellation or of an approval. *)
Cancel(w) ==
    LET o == job[w].order
        refund == MustRefund(job[w].seen) IN
    /\ job[w].op \in {"cancel", "approve"}
    /\ refund => o \notin refunded /\ PaymentFree(o)
    /\ PutOrder(o, [order[o] EXCEPT
                      !.status = "CANCELLED",
                      !.paid = IF refund THEN "REFUNDED" ELSE @,
                      !.cancel = IF job[w].op = "approve" THEN "DECIDED"
                                                          ELSE @])
    /\ refunded' = IF refund THEN refunded \cup {o} ELSE refunded
    /\ payment' = [payment EXCEPT ![o].status = IF refund THEN "REFUNDED"
                                                          ELSE @]
    /\ Restore(o)
    /\ Finish(w)
    /\ UNCHANGED <<delivery, took, issued, sent, recorded, crashes>>

(* The key refund:{id} is taken: the whole transaction rolls back. *)
CancelConflict(w) ==
    /\ job[w].op \in {"cancel", "approve"}
    /\ MustRefund(job[w].seen) /\ job[w].order \in refunded
    /\ Finish(w)
    /\ UNCHANGED <<order, payment, delivery, refunded, restored, been, took,
                   issued, sent, recorded, crashes>>

-----------------------------------------------------------------------------
(* confirmCustomerDelivery, and customerConfirmDelivery of DeliveryService, *)
(* the same for orders with a delivery: the courier has delivered.          *)
ReceiptReads(w, o) ==
    /\ order[o].status = "DELIVERED"
    /\ BeginSeen(w, "receive", o)
    /\ UNCHANGED <<order, payment, delivery, refunded, restored, been, took,
                   issued, sent, recorded, crashes>>

(* paymentStatus is written from what was read.  An order that was          *)
(* DELIVERED with a delivery had it before, so its presence is not stale.   *)
Receive(w) ==
    LET o == job[w].order
        cod == job[w].seen.method = "COD" IN
    /\ job[w].op = "receive"
    /\ cod => PaymentFree(o)
    /\ delivery' = [delivery EXCEPT
                      ![o].status = IF @ = "none" THEN @ ELSE "COMPLETED"]
    /\ PutOrder(o, [order[o] EXCEPT
                      !.status = "COMPLETED",
                      !.paid = IF cod THEN "PAID" ELSE job[w].seen.paid])
    /\ payment' = [payment EXCEPT ![o].status = IF cod THEN "PAID" ELSE @]
    /\ Finish(w)
    /\ UNCHANGED <<refunded, restored, took, issued, sent, recorded, crashes>>

DeskNext ==
    \/ \E o \in Orders, m \in Methods, f \in Fulfillments : Place(o, m, f)
    \/ \E w \in Workers :
         \/ \E o \in Orders :
              \/ \E s \in Targets : StaffReads(w, o, s) \/ SellerReads(w, o, s)
              \/ RequestReads(w, o)
              \/ \E approve \in BOOLEAN : DecisionReads(w, o, approve)
              \/ ReceiptReads(w, o)
         \/ Move(w) \/ Request(w) \/ Reject(w) \/ Cancel(w)
         \/ CancelConflict(w) \/ Receive(w)
=============================================================================
