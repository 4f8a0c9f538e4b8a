---------------------------- MODULE OrderPayment ----------------------------
(***************************************************************************)
(* PaymentService: opening a Snap session for an order, and the Midtrans    *)
(* notifications that pay or end it.                                        *)
(***************************************************************************)
EXTENDS OrderState

(* viewFromMidtrans. *)
ViewOf(report) ==
    CASE report[1] = "settlement" -> "PAID"
      [] report[1] = "capture" /\ report[2] = "accept" -> "PAID"
      [] report[1] = "deny" -> "DENIED"
      [] report[1] = "cancel" -> "CANCELLED"
      [] report[1] = "expire" -> "EXPIRED"
      [] report[1] = "failure" -> "FAILED"
      [] report[1] \in {"refund", "partial_refund"} -> "REFUNDED"
      [] OTHER -> "PENDING"

Unpaid == {"DENIED", "CANCELLED", "EXPIRED", "FAILED"}
Final == Unpaid \cup {"PAID", "REFUNDED"}

(* paymentStatusFrom. *)
StatusOf_Mutant(view) == view           \* the view itself
StatusOf(view) == IF view \in Unpaid THEN "FAILED" ELSE view

(* shouldApply. *)
ShouldApply_Mutant(current, incoming) == current # incoming   \* nothing is final
ShouldApply(current, incoming) ==
    /\ current # incoming
    /\ current \in Final => current = "PAID" /\ incoming = "REFUNDED"

(* orderStatusFor, "none" for null. *)
OrderStatusFor(view) ==
    CASE view = "PAID" -> "PAID"
      [] view \in Unpaid -> "CANCELLED"
      [] OTHER -> "none"

-----------------------------------------------------------------------------
(* create: a session that still lives is handed out again, ... *)
Reusable(o) ==
    /\ payment[o].session # "none"
    /\ payment[o].status = "PENDING"
    /\ ~payment[o].expired

(* ...otherwise createSnapTransaction opens another one.  The database does *)
(* not know it yet, and neither does the customer.                          *)
OpenSnap(w, o, s) ==
    /\ Placed(o) /\ order[o].status # "CANCELLED"
    /\ payment[o].status # "PAID"
    /\ ~Reusable(o)
    /\ s \notin issued[o]
    /\ \A v \in Workers : job[v].op = "session" => job[v].arg # s
    /\ Begin(w, "session", o, s)
    /\ UNCHANGED <<order, payment, delivery, refunded, restored, been, took,
                   issued, sent, recorded, crashes>>

(* payment.update by id: whatever the payment has become is overwritten. *)
SaveSession(w) ==
    LET o == job[w].order
        s == job[w].arg IN
    /\ job[w].op = "session"
    /\ PaymentFree(o)
    /\ payment' = [payment EXCEPT ![o] =
                     [status |-> "PENDING", view |-> "PENDING",
                      session |-> s, expired |-> FALSE]]
    /\ issued' = [issued EXCEPT ![o] = @ \cup {s}]
    /\ Goto(w, "method")
    /\ UNCHANGED <<order, delivery, refunded, restored, been, took, sent,
                   recorded, crashes>>

(* order.update, a statement of its own. *)
SaveMethod(w) ==
    LET o == job[w].order IN
    /\ job[w].op = "method"
    /\ PutOrder(o, [order[o] EXCEPT !.method = "MIDTRANS"])
    /\ Finish(w)
    /\ UNCHANGED <<payment, delivery, refunded, restored, took, issued, sent,
                   recorded, crashes>>

(* expiryTime passes. *)
Expire(o) ==
    /\ payment[o].session # "none" /\ ~payment[o].expired
    /\ PaymentFree(o)
    /\ payment' = [payment EXCEPT ![o].expired = TRUE]
    /\ UNCHANGED <<order, delivery, refunded, restored, been, took, issued,
                   sent, recorded, job, crashes>>

-----------------------------------------------------------------------------
(***************************************************************************)
(* Midtrans: a session is paid or expires, not both; money is returned only *)
(* after it was paid.  Notifications arrive late, in any order, repeatedly. *)
(***************************************************************************)
Emit(n) ==
    LET Said(views) == \E m \in sent : /\ m.order = n.order
                                       /\ m.session = n.session
                                       /\ ViewOf(m.report) \in views
        view == ViewOf(n.report) IN
    /\ n \notin sent /\ n.session \in issued[n.order]
    /\ view = "PAID" => ~Said({"EXPIRED"})
    /\ view = "EXPIRED" => ~Said({"PAID", "REFUNDED"})
    /\ view = "REFUNDED" => Said({"PAID"})
    /\ sent' = sent \cup {n}
    /\ UNCHANGED <<order, payment, delivery, refunded, restored, been, took,
                   issued, recorded, job, crashes>>

(* The unique key: the transaction and its status, without fraud_status. *)
Key(n) == <<n.order, n.session, n.report[1]>>

(* No payment has this midtransOrderId (any more): the event is kept with   *)
(* its reason, and takes the key.                                           *)
Unknown(n) ==
    /\ n \in sent /\ n.session # payment[n.order].session
    /\ Key(n) \notin recorded
    /\ recorded' = recorded \cup {Key(n)}
    /\ UNCHANGED <<order, payment, delivery, refunded, restored, been, took,
                   issued, sent, job, crashes>>

(* recordEvent commits before anything is applied. *)
Record(w, n) ==
    /\ n \in sent /\ n.session = payment[n.order].session
    /\ Key(n) \notin recorded
    /\ recorded' = recorded \cup {Key(n)}
    /\ Begin(w, "notified", n.order, ViewOf(n.report))
    /\ UNCHANGED <<order, payment, delivery, refunded, restored, been, took,
                   issued, sent, crashes>>

(* applyStatus: the payment is read, not locked. *)
ReadPayment(w) ==
    /\ job[w].op = "notified"
    /\ IF ShouldApply(payment[job[w].order].view, job[w].arg)
       THEN Goto(w, "due")
       ELSE Finish(w)
    /\ UNCHANGED <<order, payment, delivery, refunded, restored, been, took,
                   issued, sent, recorded, crashes>>

(* payment.update takes the row lock; then the order is read. *)
LockPayment(w) ==
    LET o == job[w].order IN
    /\ job[w].op = "due"
    /\ PaymentFree(o)
    /\ job' = [job EXCEPT ![w] = [@ EXCEPT !.op = "applying",
                                           !.seen = order[o]]]
    /\ UNCHANGED <<order, payment, delivery, refunded, restored, been, took,
                   issued, sent, recorded, crashes>>

(* Only an order that was still waiting follows its payment. *)
Follows_Mutant(seen, view) ==           \* trusts the order's method
    /\ OrderStatusFor(view) # "none"
    /\ seen.status = "PENDING" /\ seen.method = "MIDTRANS"
Follows(seen, view) ==
    OrderStatusFor(view) # "none" /\ seen.status = "PENDING"

(* The rest of the transaction, and COMMIT. *)
Apply(w) ==
    LET o == job[w].order
        view == job[w].arg
        follows == Follows(job[w].seen, view)
        status == IF follows THEN OrderStatusFor(view) ELSE order[o].status IN
    /\ job[w].op = "applying"
    /\ payment' = [payment EXCEPT ![o].status = StatusOf(view),
                                  ![o].view = view]
    /\ PutOrder(o, [order[o] EXCEPT
                      !.status = status,
                      !.paid = IF follows THEN StatusOf(view) ELSE @])
    /\ IF follows /\ status = "CANCELLED" THEN Restore(o)
                                           ELSE UNCHANGED restored
    /\ Finish(w)
    /\ UNCHANGED <<delivery, refunded, took, issued, sent, recorded, crashes>>

PaymentNext ==
    \/ \E o \in Orders : Expire(o)
    \/ \E n \in Notification : Emit(n) \/ Unknown(n)
    \/ \E w \in Workers :
         \/ \E o \in Orders, s \in Sessions : OpenSnap(w, o, s)
         \/ \E n \in Notification : Record(w, n)
         \/ SaveSession(w) \/ SaveMethod(w)
         \/ ReadPayment(w) \/ LockPayment(w) \/ Apply(w)
=============================================================================
