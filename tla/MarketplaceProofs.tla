------------------------- MODULE MarketplaceProofs --------------------------
(***************************************************************************)
(* Invariants of an order's rows, for every set of orders, workers,         *)
(* couriers and Snap sessions.                                              *)
(*                                                                          *)
(* Nothing a handler read is locked until it writes, so the proofs turn on  *)
(* what cannot be undone in between: statuses an order has had, refunds,    *)
(* goods taken out, an order that is not (or no longer) paid from the       *)
(* wallet, an order that stopped waiting for payment.  Grows says that no   *)
(* step undoes any of it, and Reliable what each job relies on.             *)
(***************************************************************************)
EXTENDS Marketplace, TLAPS

(* What a write may rely on of the read behind it, however long ago. *)
RelyMove(o, status) ==
    /\ status \in Statuses \ {"PENDING", "CANCELLED"}
    /\ status = "READY_FOR_DELIVERY" => "PROCESSING" \in been[o]
    /\ status \in {"OUT_FOR_DELIVERY", "DELIVERED"} =>
         "READY_FOR_DELIVERY" \in been[o]
    /\ status = "COMPLETED" => "DELIVERED" \in been[o]

RelyPaid(o, seen) ==
    order[o].method = "WALLET" =>
        seen.method = "WALLET" /\ (seen.paid = "PAID" \/ o \in refunded)

RelyCourier(op, o, arg) ==
    /\ Exists(o)
    /\ op \in {"pickup", "assign"} => arg \in Couriers
    /\ op \in {"deliver", "transit"} => took[o] # Nobody

RelyView(op, o, arg, seen) ==
    /\ arg \in Views
    /\ op \in {"due", "applying"} => arg # "PENDING"
    /\ op = "applying" =>
         /\ seen.status = "PENDING" => order[o].method # "WALLET"
         /\ seen.status # "PENDING" => order[o].status # "PENDING"

Rely(op, o, arg, seen) ==
    /\ Placed(o)
    /\ op = "move" => RelyMove(o, arg)
    /\ op \in {"cancel", "approve", "receive"} => RelyPaid(o, seen)
    /\ op = "receive" => "DELIVERED" \in been[o]
    /\ op \in {"accept", "release", "assign", "pickup", "deliver", "transit"}
         => RelyCourier(op, o, arg)
    /\ op \in {"notified", "due", "applying"} => RelyView(op, o, arg, seen)
    /\ op = "session" => arg \in Sessions

Reliable ==
    \A w \in Workers : job[w].op # "idle" =>
        Rely(job[w].op, job[w].order, job[w].arg, job[w].seen)

(* A session that is being opened is nobody else's. *)
SessionsDiffer ==
    \A w \in Workers : job[w].op = "session" =>
        /\ job[w].arg \notin issued[job[w].order]
        /\ \A v \in Workers : v # w /\ job[v].op = "session"
                                => job[v].arg # job[w].arg

(* How the rows of one order fit together. *)
RowInv(o) ==
    /\ order[o].cancel # "NONE" => Placed(o)
    /\ Exists(o) => Placed(o) /\ "READY_FOR_DELIVERY" \in been[o]
    /\ payment[o].session # "none" =>
         Placed(o) /\ payment[o].session \in issued[o]
    /\ IF Placed(o) THEN order[o].status \in been[o] ELSE been[o] = {}
    /\ Placed(o) /\ order[o].method = "WALLET" =>
         /\ order[o].status # "PENDING"
         /\ order[o].paid = "PAID" \/ o \in refunded
    /\ "READY_FOR_DELIVERY" \in been[o] => "PROCESSING" \in been[o]
    /\ "OUT_FOR_DELIVERY" \in been[o] => "READY_FOR_DELIVERY" \in been[o]
    /\ "DELIVERED" \in been[o] => "READY_FOR_DELIVERY" \in been[o]
    /\ "COMPLETED" \in been[o] => "DELIVERED" \in been[o]
    /\ "CANCELLED" \in been[o] <=> restored[o] > 0
    /\ "CANCELLED" \in been[o] /\ order[o].method = "WALLET"
         => o \in refunded
    /\ o \in refunded => "CANCELLED" \in been[o]
    /\ delivery[o].status \in {"PICKED_UP", "IN_TRANSIT", "COURIER_DELIVERED"}
            => took[o] # Nobody
    /\ payment[o].status = "PAID" => order[o].status # "PENDING"

IInv ==
    /\ TypeOK
    /\ \A o \in Orders : RowInv(o)
    /\ Reliable
    /\ SessionsDiffer

LEMMA Transitions ==
    ASSUME NEW from \in Statuses, NEW to \in Statuses, CanTransition(from, to)
    PROVE  /\ to # "PENDING"
           /\ to = "READY_FOR_DELIVERY" => from = "PROCESSING"
           /\ to = "OUT_FOR_DELIVERY" => from = "READY_FOR_DELIVERY"
           /\ to = "DELIVERED" => from = "OUT_FOR_DELIVERY"
           /\ to = "COMPLETED" => from = "DELIVERED"
BY DEF CanTransition, Allowed, Statuses

(* What no step undoes. *)
Grows(o) ==
    /\ been[o] \subseteq been'[o]
    /\ o \in refunded => o \in refunded'
    /\ Placed(o) => Placed(o)'
    /\ Placed(o) /\ order'[o].method = "WALLET" => order[o].method = "WALLET"
    /\ Placed(o) /\ order[o].status # "PENDING" => order'[o].status # "PENDING"
    /\ took[o] # Nobody => took'[o] # Nobody
    /\ Exists(o) => Exists(o)'

LEMMA RelyGrows ==
    ASSUME NEW op, NEW o \in Orders, NEW arg, NEW seen,
           Rely(op, o, arg, seen), Grows(o)
    PROVE  Rely(op, o, arg, seen)'
<1>1. Placed(o) /\ Placed(o)'
    BY DEF Rely, Grows
<1>2. op = "move" => RelyMove(o, arg)'
    BY DEF Rely, Grows, RelyMove
<1>3. RelyPaid(o, seen) => RelyPaid(o, seen)'
    BY <1>1 DEF Grows, RelyPaid
<1>4. RelyCourier(op, o, arg) => RelyCourier(op, o, arg)'
    BY DEF Grows, RelyCourier
<1>5. RelyView(op, o, arg, seen) => RelyView(op, o, arg, seen)'
    BY <1>1 DEF Grows, RelyView
<1> QED
    BY <1>1, <1>2, <1>3, <1>4, <1>5 DEF Rely, Grows

(* Nothing happens to the rows of p. *)
Same(p) ==
    /\ order'[p] = order[p] /\ payment'[p] = payment[p]
    /\ delivery'[p] = delivery[p] /\ restored'[p] = restored[p]
    /\ been'[p] = been[p] /\ took'[p] = took[p] /\ issued'[p] = issued[p]
    /\ p \in refunded <=> p \in refunded'

LEMMA SameKeeps ==
    ASSUME NEW p, Same(p), RowInv(p)
    PROVE  RowInv(p)' /\ Grows(p)
BY DEF Same, RowInv, Grows, Placed, Exists

(* A job goes on as it was, has ended, or has saved its session. *)
GoesOn(v) ==
    \/ job'[v] = job[v]
    \/ job'[v].op = "idle"
    \/ /\ job[v].op = "session" /\ job'[v].op = "method"
       /\ job'[v].order = job[v].order

LEMMA Current ==
    ASSUME IInv, NEW w \in Workers, job[w].op # "idle"
    PROVE  /\ job[w] \in Jobs
           /\ job[w].order \in Orders
           /\ Rely(job[w].op, job[w].order, job[w].arg, job[w].seen)
BY DEF IInv, TypeOK, Jobs, Reliable

LEMMA RelyOf ==
    ASSUME NEW v, NEW j, job'[v] = j,
           j.op # "idle" => Rely(j.op, j.order, j.arg, j.seen)'
    PROVE  (job[v].op # "idle"
              => Rely(job[v].op, job[v].order, job[v].arg, job[v].seen))'
BY DEF Rely, RelyMove, RelyPaid, RelyCourier, RelyView

(* A step on the rows of one order, of a job that ends with it. *)
LEMMA RowStep ==
    ASSUME IInv, TypeOK', NEW o \in Orders, RowInv(o)', Grows(o),
           \A p \in Orders \ {o} : Same(p),
           \A v \in Workers : GoesOn(v),
           \A s \in issued'[o] \ issued[o] :
             \E v \in Workers : /\ job[v].op = "session" /\ job[v].arg = s
                               /\ job'[v].op # "session"
    PROVE  IInv'
<1>1. \A p \in Orders : RowInv(p)' /\ Grows(p)
    BY SameKeeps DEF IInv
<1>2. Reliable'
    <2> SUFFICES ASSUME NEW v \in Workers
                 PROVE  (job[v].op # "idle" => Rely(job[v].op, job[v].order,
                                                 job[v].arg, job[v].seen))'
        BY DEF Reliable
    <2>1. PICK j : j = job'[v]
        OBVIOUS
    <2>2. CASE job'[v] = job[v]
        <3>1. j.op # "idle" => j.order \in Orders /\ Rely(j.op, j.order, j.arg, j.seen)
            BY <2>1, <2>2, Current
        <3>2. j.op # "idle" => Rely(j.op, j.order, j.arg, j.seen)'
            BY <3>1, <1>1, RelyGrows
        <3> QED
            BY <2>1, <3>2, RelyOf
    <2>3. CASE job'[v].op = "idle"
        BY <2>3
    <2>4. CASE /\ job[v].op = "session" /\ job'[v].op = "method"
               /\ job'[v].order = job[v].order
        <3>1. job[v].order \in Orders /\ Placed(job[v].order)
            BY <2>4, Current DEF Rely
        <3>2. j.op = "method" /\ j.order \in Orders /\ Placed(j.order)'
            BY <2>1, <2>4, <3>1, <1>1 DEF Grows
        <3>3. Rely(j.op, j.order, j.arg, j.seen)'
            BY <3>2 DEF Rely
        <3> QED
            BY <2>1, <3>3, RelyOf
    <2> QED
        BY <2>2, <2>3, <2>4 DEF GoesOn
<1>3. SessionsDiffer'
    <2> SUFFICES ASSUME NEW w \in Workers, job'[w].op = "session"
                 PROVE  /\ job'[w].arg \notin issued'[job'[w].order]
                        /\ \A v \in Workers :
                             v # w /\ job'[v].op = "session"
                               => job'[v].arg # job'[w].arg
        BY DEF SessionsDiffer
    <2>1. \A v \in Workers : job'[v].op = "session" => job'[v] = job[v]
        BY DEF GoesOn
    <2>2. job[w].order \in Orders
        BY <2>1, Current
    <2>3. job[w].arg \notin issued[job[w].order]
        BY <2>1 DEF IInv, SessionsDiffer
    <2>4. job[w].arg \notin issued'[job[w].order]
        <3>1. CASE job[w].order = o
            BY <2>1, <2>3, <3>1 DEF IInv, SessionsDiffer
        <3>2. CASE job[w].order # o
            BY <2>2, <2>3, <3>2 DEF Same
        <3> QED
            BY <3>1, <3>2
    <2> QED
        BY <2>1, <2>4 DEF IInv, SessionsDiffer
<1> QED
    BY <1>1, <1>2, <1>3 DEF IInv

rows == <<order, payment, delivery, refunded, restored, been, took, issued>>
Idle == [op |-> "idle"]

(* A step that only begins a job, takes it further or gives it up. *)
LEMMA JobStep ==
    ASSUME IInv, NEW w \in Workers, NEW k \in Jobs \cup {Idle},
           job' = [job EXCEPT ![w] = k],
           UNCHANGED rows,
           sent' \subseteq Notification,
           recorded' \subseteq {Key(n) : n \in Notification},
           crashes' \in Nat,
           k.op # "idle" => Rely(k.op, k.order, k.arg, k.seen),
           k.op = "session" =>
             /\ k.arg \notin issued[k.order]
             /\ \A v \in Workers : job[v].op = "session" => job[v].arg # k.arg
    PROVE  IInv'
<1>1. TypeOK'
    BY DEF IInv, TypeOK, rows, Idle
<1>2. \A o \in Orders : RowInv(o)' /\ Grows(o)
    BY SameKeeps DEF IInv, rows, Same
<1>3. ASSUME NEW v \in Workers PROVE job'[v] = IF v = w THEN k ELSE job[v]
    BY DEF IInv, TypeOK
<1>4. Reliable'
    <2> SUFFICES ASSUME NEW v \in Workers
                 PROVE  (job[v].op # "idle" => Rely(job[v].op, job[v].order,
                                                 job[v].arg, job[v].seen))'
        BY DEF Reliable
    <2>1. PICK j : j = job'[v]
        OBVIOUS
    <2>2. j.op # "idle" => j.order \in Orders /\ Rely(j.op, j.order, j.arg, j.seen)
        <3>1. CASE v = w
            BY <2>1, <1>3, <3>1 DEF Jobs, Idle
        <3>2. CASE v # w
            BY <2>1, <1>3, <3>2, Current
        <3> QED
            BY <3>1, <3>2
    <2>3. j.op # "idle" => Rely(j.op, j.order, j.arg, j.seen)'
        BY <2>2, <1>2, RelyGrows
    <2> QED
        BY <2>1, <2>3, RelyOf
<1>5. SessionsDiffer'
    BY <1>3 DEF IInv, SessionsDiffer, rows
<1> QED
    BY <1>1, <1>2, <1>4, <1>5 DEF IInv

LEMMA InitIInv == Init => IInv
<1> SUFFICES ASSUME Init PROVE IInv
    OBVIOUS
<1>1. NoOrder \in OrderRow
    BY DEF NoOrder, OrderRow, PaymentStatuses
<1>2. TypeOK
    <2>1. order \in [Orders -> OrderRow]
        BY <1>1 DEF Init
    <2>2. payment \in [Orders -> PaymentRow]
        BY DEF Init, PaymentRow, PaymentStatuses, Views
    <2>3. delivery \in [Orders -> DeliveryRow]
        BY DEF Init, DeliveryRow
    <2>4. refunded \subseteq Orders /\ sent \subseteq Notification
        BY DEF Init
    <2>5. /\ restored \in [Orders -> 0 .. MaxRestores]
          /\ been \in [Orders -> SUBSET (Statuses \cup {"none"})]
          /\ took \in [Orders -> Couriers \cup {Nobody}]
          /\ issued \in [Orders -> SUBSET Sessions]
          /\ crashes \in Nat
        BY BoundsAssumption DEF Init
    <2>6. recorded \subseteq {Key(n) : n \in Notification}
        BY DEF Init
    <2>7. job \in [Workers -> Jobs \cup {[op |-> "idle"]}]
        BY DEF Init
    <2> QED
        BY <2>1, <2>2, <2>3, <2>4, <2>5, <2>6, <2>7 DEF TypeOK
<1>3. ASSUME NEW o \in Orders PROVE RowInv(o)
    <2>1. /\ order[o] = NoOrder /\ NoOrder.status = "none"
          /\ NoOrder.cancel = "NONE"
          /\ payment[o].session = "none" /\ payment[o].status = "PENDING"
          /\ delivery[o].status = "none" /\ been[o] = {}
          /\ restored[o] = 0 /\ o \notin refunded
        BY DEF Init, NoOrder
    <2> QED
        BY <2>1 DEF RowInv, Placed, Exists
<1>4. Reliable /\ SessionsDiffer
    BY DEF Init, Reliable, SessionsDiffer
<1> QED
    BY <1>2, <1>3, <1>4 DEF IInv

-----------------------------------------------------------------------------
(***************************************************************************)
(* The steps that read.                                                     *)
(***************************************************************************)
LEMMA BeginStep ==
    ASSUME IInv, NEW w \in Workers, NEW op \in Ops \ {"session"},
           NEW o \in Orders, NEW arg \in Args, NEW seen \in OrderRow,
           Start(w, op, o, arg, seen), Rely(op, o, arg, seen),
           UNCHANGED rows, UNCHANGED <<sent, crashes>>,
           recorded' \subseteq {Key(n) : n \in Notification}
    PROVE  IInv'
<1> DEFINE k == [op |-> op, order |-> o, arg |-> arg, seen |-> seen]
<1>1. k \in Jobs
    BY DEF Jobs
<1>2. job' = [job EXCEPT ![w] = k]
    BY DEF Start
<1>3. k.op # "session" /\ Rely(k.op, k.order, k.arg, k.seen)
    OBVIOUS
<1>4. sent' \subseteq Notification /\ crashes' \in Nat
    BY DEF IInv, TypeOK
<1> HIDE DEF k
<1> QED
    BY <1>1, <1>2, <1>3, <1>4, JobStep

LEMMA NoOrderTyped == NoOrder \in OrderRow
BY DEF NoOrder, OrderRow, PaymentStatuses

LEMMA RowsTyped ==
    ASSUME IInv, NEW o \in Orders
    PROVE  /\ order[o] \in OrderRow /\ payment[o] \in PaymentRow
           /\ delivery[o] \in DeliveryRow /\ RowInv(o)
           /\ order[o].status \in Statuses \cup {"none"}
           /\ payment[o].view \in Views
           /\ recorded \subseteq {Key(n) : n \in Notification}
BY DEF IInv, TypeOK, OrderRow, PaymentRow

LEMMA DeskReads ==
    ASSUME IInv, NEW w \in Workers, NEW o \in Orders
    PROVE  /\ \A s \in Targets : StaffReads(w, o, s) => IInv'
           /\ RequestReads(w, o) => IInv'
           /\ \A approve \in BOOLEAN : DecisionReads(w, o, approve) => IInv'
           /\ ReceiptReads(w, o) => IInv'
<1> USE RowsTyped, NoOrderTyped
<1>0. "none" \in Args
    BY DEF Args
<1>1. ASSUME NEW s \in Targets, StaffReads(w, o, s) PROVE IInv'
    <2>1. s \in Statuses /\ order[o].status \in Statuses /\ Placed(o)
        BY <1>1, ChoicesAssumption DEF StaffReads, Placed
    <2>2. CASE s = "CANCELLED"
        <3>1. Rely("cancel", o, "none", order[o])
            BY <2>1 DEF Rely, RelyPaid, RowInv
        <3> QED
            BY <1>0, <1>1, <2>2, <3>1, BeginStep DEF StaffReads, BeginSeen, Ops, rows
    <2>3. CASE s # "CANCELLED"
        <3>1. RelyMove(o, s)
            BY <1>1, <2>1, <2>3, Transitions DEF StaffReads, RelyMove, RowInv
        <3>2. Rely("move", o, s, NoOrder)
            BY <2>1, <3>1 DEF Rely
        <3>3. s \in Args
            BY <2>1 DEF Args
        <3> QED
            BY <1>1, <2>3, <3>2, <3>3, BeginStep DEF StaffReads, Begin, Ops, rows
    <2> QED
        BY <2>2, <2>3
<1>2. ASSUME RequestReads(w, o) PROVE IInv'
    <2>1. Rely("request", o, "none", NoOrder)
        BY <1>2 DEF RequestReads, Rely, Placed
    <2> QED
        BY <1>0, <1>2, <2>1, BeginStep DEF RequestReads, Begin, Ops, rows
<1>3. ASSUME NEW approve \in BOOLEAN, DecisionReads(w, o, approve) PROVE IInv'
    <2>1. Placed(o)
        BY <1>3 DEF DecisionReads, RowInv
    <2>2. Rely("approve", o, "none", order[o]) /\ Rely("reject", o, "none", NoOrder)
        BY <2>1 DEF Rely, RelyPaid, RowInv
    <2>3. CASE approve
        BY <1>0, <1>3, <2>2, <2>3, BeginStep DEF DecisionReads, BeginSeen, Ops, rows
    <2>4. CASE ~approve
        BY <1>0, <1>3, <2>2, <2>4, BeginStep DEF DecisionReads, Begin, Ops, rows
    <2> QED
        BY <2>3, <2>4
<1>4. ASSUME ReceiptReads(w, o) PROVE IInv'
    <2>1. Rely("receive", o, "none", order[o])
        BY <1>4 DEF ReceiptReads, Rely, RelyPaid, RowInv, Placed
    <2> QED
        BY <1>0, <1>4, <2>1, BeginStep DEF ReceiptReads, BeginSeen, Ops, rows
<1> QED
    BY <1>1, <1>2, <1>3, <1>4

LEMMA CourierReads ==
    ASSUME IInv, NEW w \in Workers, NEW o \in Orders
    PROVE  /\ UnassignReads(w, o) => IInv'
           /\ \A c \in Couriers :
                 AcceptReads(w, o, c) \/ ReleaseReads(w, o, c)
                 \/ AssignReads(w, o, c) \/ PickUpReads(w, o, c)
                 \/ DeliverReads(w, o, c) \/ LocationReads(w, o, c) => IInv'
<1>1. ASSUME NEW op \in {"accept", "release", "assign", "pickup", "deliver",
                         "transit"},
             NEW c \in Couriers \cup {Nobody}, Reads(w, op, o, c),
             Exists(o), op \in {"pickup", "assign"} => c \in Couriers,
             op \in {"deliver", "transit"}
               => delivery[o].status \in {"PICKED_UP", "IN_TRANSIT"}
      PROVE  IInv'
    <2>1. Rely(op, o, c, NoOrder)
        BY <1>1, RowsTyped DEF Rely, RelyCourier, RowInv
    <2>2. op \in Ops \ {"session"} /\ c \in Args
        BY DEF Ops, Args
    <2> QED
        BY <1>1, <2>1, <2>2, RowsTyped, NoOrderTyped, BeginStep
           DEF Reads, Begin, rows
<1>2. UnassignReads(w, o) => IInv'
    BY <1>1 DEF UnassignReads
<1>3. ASSUME NEW c \in Couriers PROVE AcceptReads(w, o, c) => IInv'
    BY <1>1 DEF AcceptReads, Mine
<1>4. ASSUME NEW c \in Couriers PROVE ReleaseReads(w, o, c) => IInv'
    BY <1>1 DEF ReleaseReads, Mine
<1>5. ASSUME NEW c \in Couriers PROVE AssignReads(w, o, c) => IInv'
    BY <1>1 DEF AssignReads
<1>6. ASSUME NEW c \in Couriers PROVE PickUpReads(w, o, c) => IInv'
    BY <1>1 DEF PickUpReads, Mine
<1>7. ASSUME NEW c \in Couriers PROVE DeliverReads(w, o, c) => IInv'
    BY <1>1 DEF DeliverReads, Mine, MayDeliver
<1>8. ASSUME NEW c \in Couriers PROVE LocationReads(w, o, c) => IInv'
    BY <1>1 DEF LocationReads, Mine
<1> QED
    BY <1>2, <1>3, <1>4, <1>5, <1>6, <1>7, <1>8

LEMMA PaymentReads ==
    ASSUME IInv, NEW w \in Workers
    PROVE  /\ \A o \in Orders, s \in Sessions : OpenSnap(w, o, s) => IInv'
           /\ \A n \in Notification : Record(w, n) => IInv'
           /\ ReadPayment(w) => IInv'
           /\ LockPayment(w) => IInv'
<1>1. ASSUME NEW o \in Orders, NEW s \in Sessions, OpenSnap(w, o, s)
      PROVE  IInv'
    <2> DEFINE k == [op |-> "session", order |-> o, arg |-> s, seen |-> NoOrder]
    <2>1. k \in Jobs /\ k.op = "session" /\ k.order = o /\ k.arg = s
        BY NoOrderTyped DEF Jobs, Ops, Args
    <2>2. Rely(k.op, k.order, k.arg, k.seen)
        BY <1>1 DEF OpenSnap, Rely
    <2>3. job' = [job EXCEPT ![w] = k]
        BY <1>1 DEF OpenSnap, Begin, Start
    <2>4. /\ UNCHANGED rows
          /\ sent' \subseteq Notification /\ crashes' \in Nat
          /\ recorded' \subseteq {Key(n) : n \in Notification}
        BY <1>1 DEF OpenSnap, rows, IInv, TypeOK
    <2>5. /\ s \notin issued[o]
          /\ \A v \in Workers : job[v].op = "session" => job[v].arg # s
        BY <1>1 DEF OpenSnap
    <2> HIDE DEF k
    <2> QED
        BY <2>1, <2>2, <2>3, <2>4, <2>5, JobStep
<1>2. ASSUME NEW n \in Notification, Record(w, n) PROVE IInv'
    <2>1. n.order \in Orders /\ n.session \in Sessions
        BY DEF Notification
    <2>2. ViewOf(n.report) \in Views
        BY DEF ViewOf, Views
    <2>3. Placed(n.order)
        BY <1>2, <2>1, RowsTyped, SessionsAssumption DEF Record, RowInv
    <2>4. Rely("notified", n.order, ViewOf(n.report), NoOrder)
        BY <2>2, <2>3 DEF Rely, RelyView
    <2>5. recorded' \subseteq {Key(m) : m \in Notification}
        BY <1>2 DEF Record, IInv, TypeOK
    <2> QED
        BY <1>2, <2>1, <2>2, <2>4, <2>5, NoOrderTyped, BeginStep
           DEF Record, Begin, Ops, Args, rows
<1>3. ASSUME ReadPayment(w) PROVE IInv'
    <2> DEFINE o == job[w].order
               k == IF ShouldApply(payment[o].view, job[w].arg)
                    THEN [job[w] EXCEPT !.op = "due"] ELSE Idle
    <2>1. /\ job[w] \in Jobs /\ o \in Orders
          /\ Rely("notified", o, job[w].arg, job[w].seen)
        BY <1>3, Current DEF ReadPayment
    <2>2. ShouldApply(payment[o].view, job[w].arg) => job[w].arg # "PENDING"
        BY <2>1, RowsTyped DEF ShouldApply, Final, Unpaid, Views
    <2>3. k \in Jobs \cup {Idle} /\ k.op # "session"
        BY <2>1 DEF Jobs, Ops, Idle
    <2>4. k.op # "idle" => Rely(k.op, k.order, k.arg, k.seen)
        BY <2>1, <2>2 DEF Jobs, Idle, Rely, RelyView
    <2>5. job' = [job EXCEPT ![w] = k]
        BY <1>3, <2>1 DEF ReadPayment, Goto, Finish, Idle
    <2>6. /\ UNCHANGED rows
          /\ sent' \subseteq Notification /\ crashes' \in Nat
          /\ recorded' \subseteq {Key(n) : n \in Notification}
        BY <1>3 DEF ReadPayment, rows, IInv, TypeOK
    <2> HIDE DEF k
    <2> QED
        BY <2>3, <2>4, <2>5, <2>6, JobStep
<1>4. ASSUME LockPayment(w) PROVE IInv'
    <2> DEFINE o == job[w].order
               k == [job[w] EXCEPT !.op = "applying", !.seen = order[o]]
    <2>1. /\ job[w] \in Jobs /\ o \in Orders
          /\ Rely("due", o, job[w].arg, job[w].seen)
        BY <1>4, Current DEF LockPayment
    <2>2. k \in Jobs /\ k.op = "applying"
        BY <2>1, RowsTyped DEF Jobs, Ops
    <2>3. Rely("applying", o, job[w].arg, order[o])
        BY <2>1, RowsTyped DEF Rely, RelyView, RowInv
    <2>4. Rely(k.op, k.order, k.arg, k.seen)
        BY <2>1, <2>3 DEF Jobs
    <2>5. job' = [job EXCEPT ![w] = k]
        BY <1>4, <2>1 DEF LockPayment
    <2>6. /\ UNCHANGED rows
          /\ sent' \subseteq Notification /\ crashes' \in Nat
          /\ recorded' \subseteq {Key(n) : n \in Notification}
        BY <1>4 DEF LockPayment, rows, IInv, TypeOK
    <2> HIDE DEF k
    <2> QED
        BY <2>2, <2>4, <2>5, <2>6, JobStep
<1> QED
    BY <1>1, <1>2, <1>3, <1>4

LEMMA Ends ==
    ASSUME IInv, NEW w \in Workers, CancelConflict(w) \/ Crash(w)
    PROVE  IInv'
<1>1. Idle.op = "idle"
    BY DEF Idle
<1>2. job' = [job EXCEPT ![w] = Idle] /\ UNCHANGED rows
    BY DEF CancelConflict, Crash, Finish, Idle, rows
<1>3. /\ sent' \subseteq Notification /\ crashes' \in Nat
      /\ recorded' \subseteq {Key(n) : n \in Notification}
    BY DEF CancelConflict, Crash, IInv, TypeOK
<1> QED
    BY <1>1, <1>2, <1>3, JobStep

LEMMA Midtrans ==
    ASSUME IInv, NEW n \in Notification, Emit(n) \/ Unknown(n)
    PROVE  IInv'
<1>1. n.order \in Orders
    BY DEF Notification
<1>2. \A p \in Orders : Same(p) /\ RowInv(p)' /\ Grows(p)
    BY SameKeeps DEF Emit, Unknown, Same, IInv
<1>3. UNCHANGED <<rows, job, crashes>>
    BY DEF Emit, Unknown, rows
<1>4. /\ sent' \subseteq Notification
      /\ recorded' \subseteq {Key(m) : m \in Notification}
    BY DEF Emit, Unknown, IInv, TypeOK
<1>5. TypeOK'
    BY <1>3, <1>4 DEF IInv, TypeOK, rows
<1> QED
    BY <1>1, <1>2, <1>3, <1>5, RowStep DEF GoesOn, rows

-----------------------------------------------------------------------------
(***************************************************************************)
(* The steps that write.                                                    *)
(***************************************************************************)
LEMMA PutOrderWrites ==
    ASSUME IInv, NEW o \in Orders, NEW row \in OrderRow, PutOrder(o, row)
    PROVE  /\ order' \in [Orders -> OrderRow]
           /\ been' \in [Orders -> SUBSET (Statuses \cup {"none"})]
           /\ order'[o] = row /\ been'[o] = been[o] \cup {row.status}
           /\ \A p \in Orders \ {o} : order'[p] = order[p] /\ been'[p] = been[p]
<1>1. row.status \in Statuses \cup {"none"}
    BY DEF OrderRow
<1> QED
    BY <1>1 DEF IInv, TypeOK, PutOrder

LEMMA FinishWrites ==
    ASSUME IInv, NEW w \in Workers, Finish(w)
    PROVE  /\ job' \in [Workers -> Jobs \cup {[op |-> "idle"]}]
           /\ \A v \in Workers : GoesOn(v)
BY DEF IInv, TypeOK, Finish, GoesOn

LEMMA PlaceStep ==
    ASSUME IInv, NEW o \in Orders, NEW m \in Methods, NEW f \in Fulfillments,
           Place(o, m, f)
    PROVE  IInv'
<1> DEFINE paid == IF m = "WALLET" THEN "PAID" ELSE "PENDING"
           row == [order[o] EXCEPT !.status = paid, !.paid = paid,
                                   !.method = m, !.fulfillment = f]
<1>1. /\ ~Placed(o) /\ PutOrder(o, row)
      /\ payment' = [payment EXCEPT ![o].status = paid]
      /\ UNCHANGED <<delivery, refunded, restored, took, issued, sent,
                     recorded, job, crashes>>
    BY DEF Place
<1>2. /\ row \in OrderRow /\ row.status = paid /\ row.paid = paid
      /\ row.method = m /\ row.cancel = order[o].cancel
    BY RowsTyped, ChoicesAssumption DEF OrderRow, Statuses, PaymentStatuses
<1> HIDE DEF row
<1>3. /\ payment' \in [Orders -> PaymentRow]
      /\ payment'[o].status = paid
      /\ payment'[o].session = payment[o].session
      /\ \A p \in Orders \ {o} : payment'[p] = payment[p]
    BY <1>1 DEF IInv, TypeOK, PaymentRow, PaymentStatuses
<1>4. TypeOK'
    BY <1>1, <1>2, <1>3, PutOrderWrites DEF IInv, TypeOK
<1>5. \A p \in Orders \ {o} : Same(p)
    BY <1>1, <1>2, <1>3, PutOrderWrites DEF Same
<1>6. RowInv(o)' /\ Grows(o)
    BY <1>1, <1>2, <1>3, PutOrderWrites, RowsTyped
       DEF RowInv, Grows, Placed, Exists
<1> QED
    BY <1>1, <1>4, <1>5, <1>6, RowStep DEF GoesOn

LEMMA MoveStep ==
    ASSUME IInv, NEW w \in Workers, Move(w)
    PROVE  IInv'
<1>1. PICK o \in Orders, status \in Statuses \ {"PENDING", "CANCELLED"} :
        /\ o = job[w].order /\ status = job[w].arg
        /\ Placed(o) /\ RelyMove(o, status)
    BY Current DEF Move, Rely, RelyMove
<1> DEFINE row == [order[o] EXCEPT
                     !.status = status,
                     !.paid = IF status = "PAID" THEN "PAID" ELSE @]
           pay == [payment[o] EXCEPT
                     !.status = IF status = "PAID" THEN "PAID" ELSE @]
           brought == IF status = "READY_FOR_DELIVERY" THEN HandedOver(o)
                                                       ELSE delivery[o]
<1>2. /\ order[o] \in OrderRow /\ payment[o] \in PaymentRow
      /\ delivery[o] \in DeliveryRow /\ RowInv(o)
    BY RowsTyped
<1>3. /\ PutOrder(o, row)
      /\ payment' = [payment EXCEPT ![o] = pay]
      /\ delivery' = [delivery EXCEPT ![o] = brought]
      /\ Finish(w)
      /\ UNCHANGED <<refunded, restored, took, issued, sent, recorded,
                     crashes>>
    <2>1. payment' = [payment EXCEPT ![o] = pay]
        BY <1>1 DEF Move
    <2>2. delivery' = [delivery EXCEPT ![o] = brought]
        BY <1>1 DEF Move, IInv, TypeOK
    <2> QED
        BY <1>1, <2>1, <2>2 DEF Move
<1>4. /\ row \in OrderRow /\ row.status = status
      /\ row.paid = IF status = "PAID" THEN "PAID" ELSE order[o].paid
      /\ row.method = order[o].method /\ row.cancel = order[o].cancel
    BY <1>2 DEF OrderRow, PaymentStatuses
<1>5. /\ pay \in PaymentRow /\ pay.session = payment[o].session
      /\ pay.status = IF status = "PAID" THEN "PAID" ELSE payment[o].status
    BY <1>2 DEF PaymentRow, PaymentStatuses
<1>6. /\ brought \in DeliveryRow
      /\ \/ brought = delivery[o]
         \/ /\ status = "READY_FOR_DELIVERY" /\ ~Exists(o)
            /\ brought.status = "ASSIGNED"
    BY <1>2 DEF HandedOver, DeliveryRow, DeliveryStatuses, Exists
<1> HIDE DEF row, pay, brought
<1>7. /\ payment' \in [Orders -> PaymentRow] /\ payment'[o] = pay
      /\ delivery' \in [Orders -> DeliveryRow] /\ delivery'[o] = brought
      /\ order'[o] = row /\ been'[o] = been[o] \cup {status}
    BY <1>3, <1>4, <1>5, <1>6, PutOrderWrites DEF IInv, TypeOK
<1>8. TypeOK'
    BY <1>3, <1>4, <1>7, PutOrderWrites, FinishWrites DEF IInv, TypeOK
<1>9. \A p \in Orders \ {o} : Same(p)
    BY <1>3, <1>4, PutOrderWrites DEF Same, IInv, TypeOK
<1>10. Grows(o)
    BY <1>3, <1>4, <1>6, <1>7 DEF Grows, Exists, Placed, Statuses
<1>11. RowInv(o)'
    BY <1>1, <1>2, <1>3, <1>4, <1>5, <1>6, <1>7
       DEF RowInv, RelyMove, Exists, Placed, Statuses
<1> QED
    BY <1>3, <1>8, <1>9, <1>10, <1>11, FinishWrites, RowStep

(* Setting a flag of a placed order disturbs nothing. *)
LEMMA FlagStep ==
    ASSUME IInv, NEW w \in Workers, Request(w) \/ Reject(w)
    PROVE  IInv'
<1>1. PICK o \in Orders, flag \in {"REQUESTED", "DECIDED"} :
        /\ Placed(o)
        /\ PutOrder(o, [order[o] EXCEPT !.cancel = flag])
    BY Current DEF Request, Reject, Rely
<1> DEFINE row == [order[o] EXCEPT !.cancel = flag]
<1>2. order[o] \in OrderRow /\ RowInv(o)
    BY RowsTyped
<1>3. /\ PutOrder(o, row) /\ Finish(w)
      /\ UNCHANGED <<payment, delivery, refunded, restored, took, issued,
                     sent, recorded, crashes>>
    BY <1>1 DEF Request, Reject
<1>4. /\ row \in OrderRow /\ row.status = order[o].status
      /\ row.paid = order[o].paid /\ row.method = order[o].method
    BY <1>2 DEF OrderRow
<1> HIDE DEF row
<1>5. order'[o] = row /\ been'[o] = been[o] \cup {row.status}
    BY <1>3, <1>4, PutOrderWrites
<1>6. TypeOK'
    BY <1>3, <1>4, PutOrderWrites, FinishWrites DEF IInv, TypeOK
<1>7. \A p \in Orders \ {o} : Same(p)
    BY <1>3, <1>4, PutOrderWrites DEF Same
<1>8. Grows(o) /\ RowInv(o)'
    BY <1>1, <1>2, <1>3, <1>4, <1>5 DEF RowInv, Grows, Exists, Placed
<1> QED
    BY <1>3, <1>6, <1>7, <1>8, FinishWrites, RowStep

LEMMA CancelStep ==
    ASSUME IInv, NEW w \in Workers, Cancel(w)
    PROVE  IInv'
<1>1. PICK o \in Orders, seen \in OrderRow, op \in {"cancel", "approve"} :
        /\ o = job[w].order /\ seen = job[w].seen /\ op = job[w].op
        /\ Placed(o) /\ RelyPaid(o, seen)
    BY Current DEF Cancel, Rely, Jobs
<1> DEFINE refund == MustRefund(seen)
           row == [order[o] EXCEPT
                     !.status = "CANCELLED",
                     !.paid = IF refund THEN "REFUNDED" ELSE @,
                     !.cancel = IF op = "approve" THEN "DECIDED" ELSE @]
           pay == [payment[o] EXCEPT
                     !.status = IF refund THEN "REFUNDED" ELSE @]
<1>2. order[o] \in OrderRow /\ payment[o] \in PaymentRow /\ RowInv(o)
    BY RowsTyped
<1>3. /\ PutOrder(o, row) /\ payment' = [payment EXCEPT ![o] = pay]
      /\ refunded' = IF refund THEN refunded \cup {o} ELSE refunded
      /\ Restore(o) /\ Finish(w)
      /\ UNCHANGED <<delivery, took, issued, sent, recorded, crashes>>
    BY <1>1 DEF Cancel
<1>4. /\ row \in OrderRow /\ row.status = "CANCELLED"
      /\ row.paid = IF refund THEN "REFUNDED" ELSE order[o].paid
      /\ row.method = order[o].method
    BY ZenonT(40), <1>2 DEF OrderRow, PaymentStatuses, Statuses
<1>5. /\ pay \in PaymentRow /\ pay.session = payment[o].session
    BY <1>2 DEF PaymentRow, PaymentStatuses
<1>6. order[o].method = "WALLET" => o \in refunded'
    BY <1>1, <1>3 DEF RelyPaid, MustRefund
<1> HIDE DEF row, pay, refund
<1>7. /\ payment' \in [Orders -> PaymentRow] /\ payment'[o] = pay
      /\ order'[o] = row /\ been'[o] = been[o] \cup {"CANCELLED"}
      /\ \A p \in Orders \ {o} : payment'[p] = payment[p]
    BY <1>3, <1>4, <1>5, PutOrderWrites DEF IInv, TypeOK
<1>8. /\ restored' \in [Orders -> 0 .. MaxRestores] /\ restored'[o] > 0
      /\ \A p \in Orders \ {o} : restored'[p] = restored[p]
    BY <1>3, BoundsAssumption DEF IInv, TypeOK, Restore
<1>9. refunded' \subseteq Orders
    BY <1>3 DEF IInv, TypeOK
<1>10. TypeOK'
    BY <1>3, <1>4, <1>7, <1>8, <1>9, PutOrderWrites, FinishWrites
       DEF IInv, TypeOK
<1>11. \A p \in Orders \ {o} : Same(p)
    BY <1>3, <1>4, <1>7, <1>8, PutOrderWrites DEF Same
<1>12. Grows(o)
    BY <1>3, <1>4, <1>7 DEF Grows, Exists, Placed
<1>13. RowInv(o)'
    BY <1>1, <1>2, <1>3, <1>4, <1>5, <1>6, <1>7, <1>8
       DEF RowInv, Exists, Placed
<1> QED
    BY <1>3, <1>10, <1>11, <1>12, <1>13, FinishWrites, RowStep

LEMMA ReceiveStep ==
    ASSUME IInv, NEW w \in Workers, Receive(w)
    PROVE  IInv'
<1>1. PICK o \in Orders, seen \in OrderRow :
        /\ o = job[w].order /\ seen = job[w].seen
        /\ Placed(o) /\ RelyPaid(o, seen) /\ "DELIVERED" \in been[o]
    BY Current DEF Receive, Rely, Jobs
<1> DEFINE cod == seen.method = "COD"
           row == [order[o] EXCEPT !.status = "COMPLETED",
                                   !.paid = IF cod THEN "PAID" ELSE seen.paid]
           pay == [payment[o] EXCEPT !.status = IF cod THEN "PAID" ELSE @]
           brought == [delivery[o] EXCEPT
                         !.status = IF @ = "none" THEN @ ELSE "COMPLETED"]
<1>2. /\ order[o] \in OrderRow /\ payment[o] \in PaymentRow
      /\ delivery[o] \in DeliveryRow /\ RowInv(o)
    BY RowsTyped
<1>3. /\ PutOrder(o, row) /\ payment' = [payment EXCEPT ![o] = pay]
      /\ delivery' = [delivery EXCEPT ![o] = brought] /\ Finish(w)
      /\ UNCHANGED <<refunded, restored, took, issued, sent, recorded,
                     crashes>>
    BY <1>1 DEF Receive
<1>4. /\ row \in OrderRow /\ row.status = "COMPLETED"
      /\ row.paid = IF cod THEN "PAID" ELSE seen.paid
      /\ row.method = order[o].method
    BY <1>2 DEF OrderRow, PaymentStatuses, Statuses
<1>5. pay \in PaymentRow /\ pay.session = payment[o].session
    BY <1>2 DEF PaymentRow, PaymentStatuses
<1>6. /\ brought \in DeliveryRow
      /\ brought.status = IF Exists(o) THEN "COMPLETED" ELSE "none"
    BY <1>2 DEF DeliveryRow, DeliveryStatuses, Exists
<1>7. order[o].method = "WALLET" => row.paid = "PAID" \/ o \in refunded
    BY <1>1, <1>4 DEF RelyPaid
<1> HIDE DEF row, pay, brought
<1>8. /\ payment' \in [Orders -> PaymentRow] /\ payment'[o] = pay
      /\ delivery' \in [Orders -> DeliveryRow] /\ delivery'[o] = brought
      /\ order'[o] = row /\ been'[o] = been[o] \cup {"COMPLETED"}
    BY <1>3, <1>4, <1>5, <1>6, PutOrderWrites DEF IInv, TypeOK
<1>9. TypeOK'
    BY <1>3, <1>4, <1>8, PutOrderWrites, FinishWrites DEF IInv, TypeOK
<1>10. \A p \in Orders \ {o} : Same(p)
    BY <1>3, <1>4, PutOrderWrites DEF Same, IInv, TypeOK
<1>11. Grows(o)
    BY <1>3, <1>4, <1>6, <1>8 DEF Grows, Exists, Placed
<1>12. RowInv(o)'
    BY <1>1, <1>2, <1>3, <1>4, <1>5, <1>6, <1>7, <1>8
       DEF RowInv, Exists, Placed
<1> QED
    BY <1>3, <1>9, <1>10, <1>11, <1>12, FinishWrites, RowStep

(* A step that only writes the delivery of an order that has one. *)
LEMMA DeliveryStep ==
    ASSUME IInv, NEW o \in Orders, NEW row \in DeliveryRow,
           PutDelivery(o, row), Exists(o), row.status # "none",
           row.status \in {"PICKED_UP", "IN_TRANSIT", "COURIER_DELIVERED"}
             => took[o] # Nobody,
           UNCHANGED <<order, payment, refunded, restored, been, took, issued,
                       sent, recorded, crashes>>,
           job' \in [Workers -> Jobs \cup {[op |-> "idle"]}],
           \A v \in Workers : GoesOn(v)
    PROVE  IInv'
<1>1. delivery' \in [Orders -> DeliveryRow] /\ delivery'[o] = row
    BY DEF IInv, TypeOK, PutDelivery
<1>2. TypeOK'
    BY <1>1 DEF IInv, TypeOK
<1>3. \A p \in Orders \ {o} : Same(p)
    BY DEF IInv, TypeOK, PutDelivery, Same
<1>4. Grows(o) /\ RowInv(o)'
    BY <1>1, RowsTyped DEF RowInv, Grows, Exists, Placed
<1> QED
    BY <1>2, <1>3, <1>4, RowStep

LEMMA ClaimStep ==
    ASSUME IInv, NEW o \in Orders, NEW c \in Couriers, Claim(o, c)
    PROVE  IInv'
<1>1. [status |-> "ACCEPTED", courier |-> c] \in DeliveryRow
    BY DEF DeliveryRow, DeliveryStatuses
<1>2. /\ job' \in [Workers -> Jobs \cup {[op |-> "idle"]}]
      /\ \A v \in Workers : GoesOn(v)
    BY DEF Claim, IInv, TypeOK, GoesOn
<1> QED
    BY <1>1, <1>2, DeliveryStep DEF Claim

LEMMA WriteStep ==
    ASSUME IInv, NEW w \in Workers, Write(w)
    PROVE  IInv'
<1>1. PICK o \in Orders, arg \in Args,
           op \in {"accept", "release", "assign", "transit"} :
        /\ o = job[w].order /\ arg = job[w].arg /\ op = job[w].op
        /\ RelyCourier(op, o, arg)
    BY Current DEF Write, Rely, Jobs
<1> DEFINE row ==
             CASE op = "accept"  -> [delivery[o] EXCEPT !.status = "ACCEPTED"]
               [] op = "release" -> [status |-> "ASSIGNED", courier |-> Nobody]
               [] op = "assign"  -> [status |-> "ASSIGNED", courier |-> arg]
               [] op = "transit" -> [delivery[o] EXCEPT !.status = "IN_TRANSIT"]
<1>2. delivery[o] \in DeliveryRow
    BY RowsTyped
<1>3. PutDelivery(o, row) /\ Finish(w)
    BY <1>1 DEF Write
<1>4. /\ row \in DeliveryRow /\ row.status # "none"
      /\ row.status \in {"ASSIGNED", "ACCEPTED", "IN_TRANSIT"}
      /\ row.status = "IN_TRANSIT" => op = "transit"
    BY <1>1, <1>2 DEF RelyCourier, DeliveryRow, DeliveryStatuses
<1> HIDE DEF row
<1>5. row.status \in {"PICKED_UP", "IN_TRANSIT", "COURIER_DELIVERED"}
        => took[o] # Nobody
    BY <1>1, <1>4 DEF RelyCourier
<1>6. UNCHANGED <<order, payment, refunded, restored, been, took, issued,
                  sent, recorded, crashes>>
    BY DEF Write
<1> QED
    BY <1>1, <1>3, <1>4, <1>5, <1>6, FinishWrites, DeliveryStep
       DEF RelyCourier

LEMMA PickUpStep ==
    ASSUME IInv, NEW w \in Workers, PickUp(w)
    PROVE  IInv'
<1>1. PICK o \in Orders, c \in Couriers :
        o = job[w].order /\ c = job[w].arg /\ Exists(o)
    BY Current DEF PickUp, Rely, RelyCourier
<1> DEFINE leaves == order[o].status \in {"READY_FOR_DELIVERY", "PROCESSING"}
           row == IF leaves
                  THEN [order[o] EXCEPT !.status = "OUT_FOR_DELIVERY"]
                  ELSE order[o]
           brought == [delivery[o] EXCEPT !.status = "PICKED_UP"]
<1>2. /\ order[o] \in OrderRow /\ delivery[o] \in DeliveryRow /\ RowInv(o)
      /\ Placed(o)
    BY <1>1, RowsTyped DEF RowInv
<1>3. /\ PutDelivery(o, brought) /\ took' = [took EXCEPT ![o] = c]
      /\ Finish(w)
      /\ UNCHANGED <<payment, refunded, restored, issued, sent, recorded,
                     crashes>>
    BY <1>1 DEF PickUp
<1>4. PutOrder(o, row)
    <2>1. CASE leaves
        BY <1>1, <2>1 DEF PickUp
    <2>2. CASE ~leaves
        BY <1>1, <1>2, <2>2 DEF PickUp, PutOrder, IInv, TypeOK, RowInv
    <2> QED
        BY <2>1, <2>2
<1>5. /\ row \in OrderRow /\ row.method = order[o].method
      /\ row.paid = order[o].paid /\ row.cancel = order[o].cancel
      /\ row.status = IF leaves THEN "OUT_FOR_DELIVERY" ELSE order[o].status
    BY <1>2 DEF OrderRow, Statuses
<1>6. brought \in DeliveryRow /\ brought.status = "PICKED_UP"
    BY <1>2 DEF DeliveryRow, DeliveryStatuses
<1> HIDE DEF row, brought
<1>7. /\ delivery' \in [Orders -> DeliveryRow] /\ delivery'[o] = brought
      /\ took' \in [Orders -> Couriers \cup {Nobody}] /\ took'[o] = c
      /\ order'[o] = row /\ been'[o] = been[o] \cup {row.status}
    BY <1>3, <1>4, <1>5, <1>6, PutOrderWrites DEF IInv, TypeOK, PutDelivery
<1>8. TypeOK'
    BY <1>3, <1>4, <1>5, <1>7, PutOrderWrites, FinishWrites DEF IInv, TypeOK
<1>9. \A p \in Orders \ {o} : Same(p)
    BY <1>3, <1>4, <1>5, PutOrderWrites DEF Same, IInv, TypeOK, PutDelivery
<1>10. Grows(o)
    BY <1>2, <1>3, <1>5, <1>6, <1>7, NobodyAssumption
       DEF Grows, Exists, Placed
<1>11. RowInv(o)'
    BY <1>1, <1>2, <1>3, <1>5, <1>6, <1>7, NobodyAssumption
       DEF RowInv, Exists, Placed
<1> QED
    BY <1>3, <1>8, <1>9, <1>10, <1>11, FinishWrites, RowStep

LEMMA DeliverStep ==
    ASSUME IInv, NEW w \in Workers, Deliver(w)
    PROVE  IInv'
<1>1. PICK o \in Orders :
        o = job[w].order /\ Exists(o) /\ took[o] # Nobody
    BY Current DEF Deliver, Rely, RelyCourier
<1> DEFINE row == [order[o] EXCEPT !.status = "DELIVERED"]
           brought == [delivery[o] EXCEPT !.status = "COURIER_DELIVERED"]
<1>2. /\ order[o] \in OrderRow /\ delivery[o] \in DeliveryRow /\ RowInv(o)
      /\ Placed(o)
    BY <1>1, RowsTyped DEF RowInv
<1>3. /\ PutOrder(o, row) /\ PutDelivery(o, brought) /\ Finish(w)
      /\ UNCHANGED <<payment, refunded, restored, took, issued, sent,
                     recorded, crashes>>
    BY <1>1 DEF Deliver
<1>4. /\ row \in OrderRow /\ row.status = "DELIVERED"
      /\ row.method = order[o].method
      /\ row.paid = order[o].paid /\ row.cancel = order[o].cancel
    BY <1>2 DEF OrderRow, Statuses
<1>5. brought \in DeliveryRow /\ brought.status = "COURIER_DELIVERED"
    BY <1>2 DEF DeliveryRow, DeliveryStatuses
<1> HIDE DEF row, brought
<1>6. /\ delivery' \in [Orders -> DeliveryRow] /\ delivery'[o] = brought
      /\ order'[o] = row /\ been'[o] = been[o] \cup {"DELIVERED"}
    BY <1>3, <1>4, <1>5, PutOrderWrites DEF IInv, TypeOK, PutDelivery
<1>7. TypeOK'
    BY <1>3, <1>4, <1>6, PutOrderWrites, FinishWrites DEF IInv, TypeOK
<1>8. \A p \in Orders \ {o} : Same(p)
    BY <1>3, <1>4, PutOrderWrites DEF Same, IInv, TypeOK, PutDelivery
<1>9. Grows(o)
    BY <1>3, <1>4, <1>5, <1>6 DEF Grows, Exists, Placed
<1>10. RowInv(o)'
    BY <1>1, <1>2, <1>3, <1>4, <1>5, <1>6 DEF RowInv, Exists, Placed
<1> QED
    BY <1>3, <1>7, <1>8, <1>9, <1>10, FinishWrites, RowStep

LEMMA SaveSessionStep ==
    ASSUME IInv, NEW w \in Workers, SaveSession(w)
    PROVE  IInv'
<1>1. PICK o \in Orders, s \in Sessions :
        /\ o = job[w].order /\ s = job[w].arg /\ Placed(o)
        /\ job[w] \in Jobs /\ job[w].op = "session"
    BY Current DEF SaveSession, Rely
<1> DEFINE pay == [status |-> "PENDING", view |-> "PENDING",
                   session |-> s, expired |-> FALSE]
<1>2. /\ payment' = [payment EXCEPT ![o] = pay]
      /\ issued' = [issued EXCEPT ![o] = @ \cup {s}]
      /\ Goto(w, "method")
      /\ UNCHANGED <<order, delivery, refunded, restored, been, took, sent,
                     recorded, crashes>>
    BY <1>1 DEF SaveSession
<1>3. /\ pay \in PaymentRow /\ pay.session = s /\ pay.status = "PENDING"
    BY DEF PaymentRow, PaymentStatuses, Views
<1> HIDE DEF pay
<1>4. /\ payment' \in [Orders -> PaymentRow] /\ payment'[o] = pay
      /\ issued' \in [Orders -> SUBSET Sessions]
      /\ issued'[o] = issued[o] \cup {s}
      /\ \A p \in Orders \ {o} : payment'[p] = payment[p] /\ issued'[p] = issued[p]
    BY <1>2, <1>3 DEF IInv, TypeOK
<1>5. /\ [job[w] EXCEPT !.op = "method"] \in Jobs
      /\ [job[w] EXCEPT !.op = "method"].op = "method"
      /\ [job[w] EXCEPT !.op = "method"].order = job[w].order
    BY <1>1 DEF Jobs, Ops
<1>6. /\ job' \in [Workers -> Jobs \cup {[op |-> "idle"]}]
      /\ job'[w] = [job[w] EXCEPT !.op = "method"]
      /\ \A v \in Workers \ {w} : job'[v] = job[v]
    BY <1>2, <1>5 DEF Goto, IInv, TypeOK
<1>7. \A v \in Workers : GoesOn(v)
    BY <1>1, <1>5, <1>6 DEF GoesOn
<1>8. TypeOK'
    BY <1>2, <1>4, <1>6 DEF IInv, TypeOK
<1>9. \A p \in Orders \ {o} : Same(p)
    BY <1>2, <1>4 DEF Same
<1>10. Grows(o) /\ RowInv(o)'
    BY <1>1, <1>2, <1>3, <1>4, RowsTyped DEF Grows, RowInv, Exists, Placed
<1>11. \A t \in issued'[o] \ issued[o] :
         \E v \in Workers : /\ job[v].op = "session" /\ job[v].arg = t
                            /\ job'[v].op # "session"
    BY <1>1, <1>4, <1>5, <1>6
<1> QED
    BY <1>7, <1>8, <1>9, <1>10, <1>11, RowStep

LEMMA SaveMethodStep ==
    ASSUME IInv, NEW w \in Workers, SaveMethod(w)
    PROVE  IInv'
<1>1. PICK o \in Orders : o = job[w].order /\ Placed(o)
    BY Current DEF SaveMethod, Rely
<1> DEFINE row == [order[o] EXCEPT !.method = "MIDTRANS"]
<1>2. order[o] \in OrderRow /\ RowInv(o)
    BY RowsTyped
<1>3. /\ PutOrder(o, row) /\ Finish(w)
      /\ UNCHANGED <<payment, delivery, refunded, restored, took, issued,
                     sent, recorded, crashes>>
    BY <1>1 DEF SaveMethod
<1>4. /\ row \in OrderRow /\ row.status = order[o].status
      /\ row.method = "MIDTRANS"
    BY <1>2 DEF OrderRow
<1> HIDE DEF row
<1>5. order'[o] = row /\ been'[o] = been[o] \cup {row.status}
    BY <1>3, <1>4, PutOrderWrites
<1>6. TypeOK'
    BY <1>3, <1>4, PutOrderWrites, FinishWrites DEF IInv, TypeOK
<1>7. \A p \in Orders \ {o} : Same(p)
    BY <1>3, <1>4, PutOrderWrites DEF Same
<1>8. Grows(o) /\ RowInv(o)'
    BY <1>1, <1>2, <1>3, <1>4, <1>5 DEF RowInv, Grows, Exists, Placed
<1> QED
    BY <1>3, <1>6, <1>7, <1>8, FinishWrites, RowStep

LEMMA ExpireStep ==
    ASSUME IInv, NEW o \in Orders, Expire(o)
    PROVE  IInv'
<1>1. [payment[o] EXCEPT !.expired = TRUE] \in PaymentRow
    BY RowsTyped DEF PaymentRow
<1>2. /\ payment' \in [Orders -> PaymentRow]
      /\ payment'[o].session = payment[o].session
      /\ payment'[o].status = payment[o].status
      /\ \A p \in Orders \ {o} : payment'[p] = payment[p]
    BY <1>1, RowsTyped DEF Expire, IInv, TypeOK, PaymentRow
<1>3. TypeOK'
    BY <1>2 DEF Expire, IInv, TypeOK
<1>4. \A p \in Orders \ {o} : Same(p)
    BY <1>2 DEF Expire, Same
<1>5. Grows(o) /\ RowInv(o)'
    BY <1>2, RowsTyped DEF Expire, RowInv, Grows, Exists, Placed
<1>6. \A v \in Workers : GoesOn(v)
    BY DEF Expire, GoesOn
<1> QED
    BY <1>3, <1>4, <1>5, <1>6, RowStep DEF Expire

(* The webhook's transaction decides on the order as it was before the      *)
(* commit: one that had left PENDING has not returned, and one that was     *)
(* PENDING is not paid from the wallet.                                     *)
LEMMA ApplyStep ==
    ASSUME IInv, NEW w \in Workers, Apply(w)
    PROVE  IInv'
<1>1. PICK o \in Orders, view \in Views \ {"PENDING"}, seen \in OrderRow :
        /\ o = job[w].order /\ view = job[w].arg /\ seen = job[w].seen
        /\ Placed(o) /\ RelyView("applying", o, view, seen)
    BY Current DEF Apply, Rely, RelyView, Jobs
<1> DEFINE follows == Follows(seen, view)
           status == IF follows THEN OrderStatusFor(view) ELSE order[o].status
           row == [order[o] EXCEPT
                     !.status = status,
                     !.paid = IF follows THEN StatusOf(view) ELSE @]
           pay == [payment[o] EXCEPT !.status = StatusOf(view), !.view = view]
<1>2. order[o] \in OrderRow /\ payment[o] \in PaymentRow /\ RowInv(o)
    BY RowsTyped
<1>3. /\ PutOrder(o, row) /\ payment' = [payment EXCEPT ![o] = pay]
      /\ IF follows /\ status = "CANCELLED" THEN Restore(o)
                                             ELSE UNCHANGED restored
      /\ Finish(w)
      /\ UNCHANGED <<delivery, refunded, took, issued, sent, recorded,
                     crashes>>
    <2>1. payment' = [payment EXCEPT ![o] = pay]
        BY <1>1 DEF Apply
    <2> QED
        BY <1>1, <2>1 DEF Apply
<1>4. /\ StatusOf(view) \in PaymentStatuses \ {"PENDING"}
      /\ StatusOf(view) = "PAID" => view = "PAID"
      /\ OrderStatusFor(view) \in {"PAID", "CANCELLED", "none"}
      /\ OrderStatusFor("PAID") = "PAID"
    BY DEF StatusOf, OrderStatusFor, PaymentStatuses, Views, Unpaid
<1>5. /\ follows => /\ status \in {"PAID", "CANCELLED"}
                    /\ order[o].method # "WALLET"
      /\ ~follows /\ StatusOf(view) = "PAID" => order[o].status # "PENDING"
      /\ ~follows => status = order[o].status
    BY <1>1, <1>4 DEF Follows, RelyView
<1>6. /\ row \in OrderRow /\ row.status = status
      /\ row.paid = IF follows THEN StatusOf(view) ELSE order[o].paid
      /\ row.method = order[o].method /\ row.cancel = order[o].cancel
    BY <1>2, <1>4, <1>5 DEF OrderRow, Statuses
<1>7. /\ pay \in PaymentRow /\ pay.session = payment[o].session
      /\ pay.status = StatusOf(view)
    BY <1>2, <1>4 DEF PaymentRow
<1> HIDE DEF row, pay, status, follows
<1>8. /\ payment' \in [Orders -> PaymentRow] /\ payment'[o] = pay
      /\ order'[o] = row /\ been'[o] = been[o] \cup {status}
      /\ \A p \in Orders \ {o} : payment'[p] = payment[p]
    BY <1>3, <1>6, <1>7, PutOrderWrites DEF IInv, TypeOK
<1>9. /\ restored' \in [Orders -> 0 .. MaxRestores]
      /\ IF follows /\ status = "CANCELLED" THEN restored'[o] > 0
                                             ELSE restored'[o] = restored[o]
      /\ \A p \in Orders \ {o} : restored'[p] = restored[p]
    BY <1>3, BoundsAssumption DEF IInv, TypeOK, Restore
<1>10. TypeOK'
    BY <1>3, <1>6, <1>8, <1>9, PutOrderWrites, FinishWrites DEF IInv, TypeOK
<1>11. \A p \in Orders \ {o} : Same(p)
    BY <1>3, <1>6, <1>8, <1>9, PutOrderWrites DEF Same
<1>12. Grows(o)
    BY <1>1, <1>3, <1>5, <1>6, <1>8 DEF Grows, Exists, Placed
<1>13. RowInv(o)'
    <2>1. CASE follows
        BY <1>1, <1>2, <1>3, <1>4, <1>5, <1>6, <1>7, <1>8, <1>9, <2>1
           DEF RowInv, Exists, Placed
    <2>2. CASE ~follows
        BY <1>1, <1>2, <1>3, <1>4, <1>5, <1>6, <1>7, <1>8, <1>9, <2>2
           DEF RowInv, Exists, Placed
    <2> QED
        BY <2>1, <2>2
<1> QED
    BY <1>3, <1>10, <1>11, <1>12, <1>13, FinishWrites, RowStep

-----------------------------------------------------------------------------
LEMMA NextIInv ==
    ASSUME IInv, Next
    PROVE  IInv'
<1>1. ASSUME DeskNext PROVE IInv'
    <2>1. ASSUME NEW o \in Orders, NEW m \in Methods, NEW f \in Fulfillments,
                 Place(o, m, f)
          PROVE  IInv'
        BY <2>1, PlaceStep
    <2>2. ASSUME NEW w \in Workers, NEW o \in Orders,
                 \/ \E s \in Targets : StaffReads(w, o, s) \/ SellerReads(w, o, s)
                 \/ RequestReads(w, o)
                 \/ \E approve \in BOOLEAN : DecisionReads(w, o, approve)
                 \/ ReceiptReads(w, o)
          PROVE  IInv'
        BY <2>2, DeskReads DEF SellerReads
    <2>3. ASSUME NEW w \in Workers,
                 Move(w) \/ Request(w) \/ Reject(w) \/ Cancel(w)
                 \/ CancelConflict(w) \/ Receive(w)
          PROVE  IInv'
        BY <2>3, MoveStep, FlagStep, CancelStep, Ends, ReceiveStep
    <2> QED
        BY <1>1, <2>1, <2>2, <2>3 DEF DeskNext
<1>2. ASSUME CourierNext PROVE IInv'
    <2>1. ASSUME NEW o \in Orders, NEW c \in Couriers, Claim(o, c) PROVE IInv'
        BY <2>1, ClaimStep
    <2>2. ASSUME NEW w \in Workers, NEW o \in Orders,
                 \/ UnassignReads(w, o)
                 \/ \E c \in Couriers :
                      \/ AcceptReads(w, o, c) \/ ReleaseReads(w, o, c)
                      \/ AssignReads(w, o, c) \/ PickUpReads(w, o, c)
                      \/ DeliverReads(w, o, c) \/ LocationReads(w, o, c)
          PROVE  IInv'
        BY <2>2, CourierReads
    <2>3. ASSUME NEW w \in Workers, Write(w) \/ PickUp(w) \/ Deliver(w)
          PROVE  IInv'
        BY <2>3, WriteStep, PickUpStep, DeliverStep
    <2> QED
        BY <1>2, <2>1, <2>2, <2>3 DEF CourierNext
<1>3. ASSUME PaymentNext PROVE IInv'
    <2>1. ASSUME NEW o \in Orders, Expire(o) PROVE IInv'
        BY <2>1, ExpireStep
    <2>2. ASSUME NEW n \in Notification, Emit(n) \/ Unknown(n) PROVE IInv'
        BY <2>2, Midtrans
    <2>3. ASSUME NEW w \in Workers,
                 \/ \E o \in Orders, s \in Sessions : OpenSnap(w, o, s)
                 \/ \E n \in Notification : Record(w, n)
                 \/ ReadPayment(w) \/ LockPayment(w)
          PROVE  IInv'
        BY <2>3, PaymentReads
    <2>4. ASSUME NEW w \in Workers, SaveSession(w) \/ SaveMethod(w) \/ Apply(w)
          PROVE  IInv'
        BY <2>4, SaveSessionStep, SaveMethodStep, ApplyStep
    <2> QED
        BY <1>3, <2>1, <2>2, <2>3, <2>4 DEF PaymentNext
<1>4. ASSUME NEW w \in Workers, Crash(w) PROVE IInv'
    BY <1>4, Ends
<1> QED
    BY <1>1, <1>2, <1>3, <1>4 DEF Next

LEMMA StutterIInv ==
    ASSUME IInv, UNCHANGED vars
    PROVE  IInv'
BY DEF vars, IInv, TypeOK, RowInv, Placed, Exists, Reliable, Rely, RelyMove,
       RelyPaid, RelyCourier, RelyView, SessionsDiffer

(* The rows of every order fit together and every job can rely on what it   *)
(* read, in every state the handlers of desk, couriers and webhook reach.   *)
THEOREM RowsFitTogether == Spec => []IInv
<1>1. IInv /\ [Next]_vars => IInv'
    BY NextIInv, StutterIInv
<1> QED
    BY InitIInv, <1>1, PTL DEF Spec

(* Every row keeps its table's type and every job its handler's, and no     *)
(* order's goods are counted back more often than the bound allows.         *)
THEOREM RowsTyping == Spec => []TypeOK
<1>1. IInv => TypeOK
    BY DEF IInv
<1> QED
    BY RowsFitTogether, <1>1, PTL

(* For any number of staff, sellers and couriers working on stale reads, no *)
(* order jumps over a stage of ALLOWED_ORDER_TRANSITIONS.                   *)
THEOREM StagesInOrder == Spec => []NoStageSkipped
<1>1. IInv => NoStageSkipped
    BY DEF IInv, RowInv, NoStageSkipped
<1> QED
    BY RowsFitTogether, <1>1, PTL

(* updateStatus, decideCancellation and the webhook put the goods of every  *)
(* order they cancel back into stock, and of no other.                      *)
THEOREM GoodsReturn == Spec => []CancelledGoodsReturn
<1>1. IInv => CancelledGoodsReturn
    BY DEF IInv, RowInv, CancelledGoodsReturn
<1> QED
    BY RowsFitTogether, <1>1, PTL

(* applyCancellation refunds every cancelled order that was paid from the   *)
(* wallet, whatever was decided on reads made earlier, and no other order.  *)
THEOREM MoneyReturns == Spec => []WalletMoneyReturns
<1>1. IInv => WalletMoneyReturns
    BY DEF IInv, RowInv, WalletMoneyReturns
<1> QED
    BY RowsFitTogether, <1>1, PTL

(* However couriers' taps and staff's assignments interleave, what is on    *)
(* the road or delivered was picked up by a courier (markPickedUp).         *)
THEOREM GoodsTaken == Spec => []DeliveredGoodsWereTaken
<1>1. IInv => DeliveredGoodsWereTaken
    BY DEF IInv, RowInv, DeliveredGoodsWereTaken
<1> QED
    BY RowsFitTogether, <1>1, PTL

(* No order waits for a payment that is recorded as paid, although          *)
(* applyStatus decides before it commits and the desk writes in between.    *)
THEOREM PaidMeansNotWaiting == Spec => []PaidOrderNotWaiting
<1>1. IInv => PaidOrderNotWaiting
    BY DEF IInv, RowInv, PaidOrderNotWaiting
<1> QED
    BY RowsFitTogether, <1>1, PTL

-----------------------------------------------------------------------------
(* A payment of o that has ended waits again only with another bill. *)
NoReturn(o) ==
    Placed(o) /\ payment[o].status # "PENDING" /\ payment'[o].status = "PENDING"
      => payment'[o].session # payment[o].session

PaymentWritten ==
    \/ \E o \in Orders : Expire(o)
    \/ \E o \in Orders, m \in Methods, f \in Fulfillments : Place(o, m, f)
    \/ \E w \in Workers : \/ Move(w) \/ Cancel(w) \/ Receive(w)
                          \/ SaveSession(w) \/ Apply(w)

LEMMA WhoWritesPayments == Next => PaymentWritten \/ UNCHANGED payment
<1>1. ASSUME DeskNext PROVE PaymentWritten \/ UNCHANGED payment
    <2>1. ASSUME NEW w \in Workers, NEW o \in Orders,
                 \/ \E s \in Targets : StaffReads(w, o, s) \/ SellerReads(w, o, s)
                 \/ RequestReads(w, o)
                 \/ \E approve \in BOOLEAN : DecisionReads(w, o, approve)
                 \/ ReceiptReads(w, o)
          PROVE  UNCHANGED payment
        BY <2>1 DEF StaffReads, SellerReads, RequestReads, DecisionReads,
                    ReceiptReads
    <2>2. ASSUME NEW w \in Workers, Request(w) \/ Reject(w) \/ CancelConflict(w)
          PROVE  UNCHANGED payment
        BY <2>2 DEF Request, Reject, CancelConflict
    <2> QED
        BY <1>1, <2>1, <2>2 DEF DeskNext, PaymentWritten
<1>2. ASSUME CourierNext PROVE UNCHANGED payment
    <2>1. ASSUME NEW w \in Workers, NEW op, NEW o, NEW c, Reads(w, op, o, c)
          PROVE  UNCHANGED payment
        BY <2>1 DEF Reads
    <2>2. ASSUME NEW w \in Workers, NEW o \in Orders,
                 \/ UnassignReads(w, o)
                 \/ \E c \in Couriers :
                      \/ AcceptReads(w, o, c) \/ ReleaseReads(w, o, c)
                      \/ AssignReads(w, o, c) \/ PickUpReads(w, o, c)
                      \/ DeliverReads(w, o, c) \/ LocationReads(w, o, c)
          PROVE  UNCHANGED payment
        BY <2>1, <2>2 DEF UnassignReads, AcceptReads, ReleaseReads,
                          AssignReads, PickUpReads, DeliverReads, LocationReads
    <2>3. ASSUME NEW w \in Workers, Write(w) \/ PickUp(w) \/ Deliver(w)
          PROVE  UNCHANGED payment
        BY <2>3 DEF Write, PickUp, Deliver
    <2> QED
        BY <1>2, <2>2, <2>3 DEF CourierNext, Claim
<1>3. ASSUME PaymentNext PROVE PaymentWritten \/ UNCHANGED payment
    <2>1. ASSUME NEW n \in Notification, Emit(n) \/ Unknown(n)
          PROVE  UNCHANGED payment
        BY <2>1 DEF Emit, Unknown
    <2>2. ASSUME NEW w \in Workers,
                 \/ \E o \in Orders, s \in Sessions : OpenSnap(w, o, s)
                 \/ \E n \in Notification : Record(w, n)
                 \/ SaveMethod(w) \/ ReadPayment(w) \/ LockPayment(w)
          PROVE  UNCHANGED payment
        BY <2>2 DEF OpenSnap, Record, SaveMethod, ReadPayment, LockPayment
    <2> QED
        BY <1>3, <2>1, <2>2 DEF PaymentNext, PaymentWritten
<1>4. ASSUME NEW w \in Workers, Crash(w) PROVE UNCHANGED payment
    BY <1>4 DEF Crash
<1> QED
    BY <1>1, <1>2, <1>3, <1>4 DEF Next

LEMMA PaymentWrites ==
    ASSUME IInv, Next, NEW o \in Orders
    PROVE  NoReturn(o)
<1> USE DEF NoReturn
<1>1. payment[o] \in PaymentRow /\ RowInv(o)
    BY RowsTyped
<1>2. CASE payment' = payment
    BY <1>2
<1>3. ASSUME NEW p \in Orders, NEW m \in Methods, NEW f \in Fulfillments,
             Place(p, m, f)
      PROVE  NoReturn(o)
    <2>1. p = o => ~Placed(o)
        BY <1>3 DEF Place
    <2>2. p # o => payment'[o] = payment[o]
        BY <1>3 DEF Place, IInv, TypeOK
    <2> QED
        BY <2>1, <2>2
<1>4. ASSUME NEW w \in Workers, Move(w) \/ Cancel(w) \/ Receive(w)
      PROVE  NoReturn(o)
    <2>1. PICK status \in {"PAID", "REFUNDED", payment[job[w].order].status} :
            payment' = [payment EXCEPT ![job[w].order].status = status]
        BY <1>4 DEF Move, Cancel, Receive
    <2> QED
        BY <1>1, <2>1 DEF IInv, TypeOK, PaymentRow
<1>5. ASSUME NEW w \in Workers, SaveSession(w) PROVE NoReturn(o)
    <2>1. /\ job[w].op = "session" /\ job[w].order \in Orders
          /\ job[w].arg \in Sessions /\ job[w].arg \notin issued[job[w].order]
        BY <1>5, Current DEF SaveSession, Rely, IInv, SessionsDiffer
    <2>2. CASE job[w].order = o
        <3>1. payment'[o].session = job[w].arg
            BY <1>5, <2>2 DEF SaveSession, IInv, TypeOK
        <3>2. payment[o].session # job[w].arg
            BY <1>1, <2>1, <2>2, SessionsAssumption DEF RowInv
        <3> QED
            BY <3>1, <3>2
    <2>3. CASE job[w].order # o
        BY <1>5, <2>1, <2>3 DEF SaveSession, IInv, TypeOK
    <2> QED
        BY <2>2, <2>3
<1>6. ASSUME NEW p \in Orders, Expire(p) PROVE NoReturn(o)
    BY <1>1, <1>6 DEF Expire, IInv, TypeOK, PaymentRow
<1>7. ASSUME NEW w \in Workers, Apply(w) PROVE NoReturn(o)
    <2>1. PICK view \in Views \ {"PENDING"} :
            payment' = [payment EXCEPT ![job[w].order].status = StatusOf(view),
                                       ![job[w].order].view = view]
        <3>1. job[w].op = "applying" /\ job[w].arg \in Views \ {"PENDING"}
            BY <1>7, Current DEF Apply, Rely, RelyView
        <3> QED
            BY <1>7, <3>1 DEF Apply
    <2>2. StatusOf(view) # "PENDING"
        BY DEF StatusOf, Views, Unpaid
    <2> QED
        BY <1>1, <2>1, <2>2 DEF IInv, TypeOK, PaymentRow
<1> QED
    BY <1>2, <1>3, <1>4, <1>5, <1>6, <1>7, WhoWritesPayments
       DEF PaymentWritten

(* A payment that has ended is not made to wait again by a notification,    *)
(* however late, repeated or reordered (shouldApply and applyStatus): only  *)
(* the session of a new bill does that.                                     *)
THEOREM EndedForGood == Spec => EndedStaysEnded
<1>1. IInv /\ [Next]_vars =>
        [\A o \in Orders :
           /\ Placed(o) /\ payment[o].status # "PENDING"
           /\ payment'[o].status = "PENDING"
           => payment'[o].session # payment[o].session]_vars
    BY PaymentWrites DEF NoReturn
<1> QED
    BY RowsFitTogether, <1>1, PTL DEF Spec, EndedStaysEnded

-----------------------------------------------------------------------------
(***************************************************************************)
(* What a step on one order leaves of all others.                           *)
(***************************************************************************)
Works(w, o) == job[w].op # "idle" /\ job[w].order = o

(* Nothing happens to o, and no request on it begins, goes on or ends. *)
Untouched(o) ==
    /\ Same(o)
    /\ \A w \in Workers : job'[w] = job[w] \/ (~Works(w, o) /\ ~Works(w, o)')

(* The steps that begin on o, and the ones that go on with it. *)
Begins(o) ==
    \E w \in Workers :
        \/ \E s \in Targets : StaffReads(w, o, s)
        \/ RequestReads(w, o)
        \/ \E approve \in BOOLEAN : DecisionReads(w, o, approve)
        \/ ReceiptReads(w, o)
        \/ UnassignReads(w, o)
        \/ \E c \in Couriers :
             \/ AcceptReads(w, o, c) \/ ReleaseReads(w, o, c)
             \/ AssignReads(w, o, c) \/ PickUpReads(w, o, c)
             \/ DeliverReads(w, o, c) \/ LocationReads(w, o, c)
        \/ \E s \in Sessions : OpenSnap(w, o, s)
        \/ \E n \in Notification : n.order = o /\ Record(w, n)

Continues(w) ==
    \/ Move(w) \/ Request(w) \/ Reject(w) \/ Cancel(w) \/ CancelConflict(w)
    \/ Receive(w) \/ Write(w) \/ PickUp(w) \/ Deliver(w)
    \/ SaveSession(w) \/ SaveMethod(w) \/ ReadPayment(w) \/ LockPayment(w)
    \/ Apply(w) \/ Crash(w)

StepOn(o) ==
    \/ \E m \in Methods, f \in Fulfillments : Place(o, m, f)
    \/ \E c \in Couriers : Claim(o, c)
    \/ Expire(o)
    \/ Begins(o)
    \/ \E w \in Workers : Works(w, o) /\ Continues(w)

(* What begins on an order reads its rows and writes none. *)
LEMMA BeginsStarts ==
    ASSUME NEW p \in Orders, Begins(p)
    PROVE  \E w \in Workers : \E op \in Ops : \E arg, seen :
             Start(w, op, p, arg, seen) /\ UNCHANGED rows
<1> SUFFICES ASSUME NEW w \in Workers,
               \/ \E s \in Targets : StaffReads(w, p, s)
               \/ RequestReads(w, p)
               \/ \E approve \in BOOLEAN : DecisionReads(w, p, approve)
               \/ ReceiptReads(w, p)
               \/ UnassignReads(w, p)
               \/ \E c \in Couriers :
                    \/ AcceptReads(w, p, c) \/ ReleaseReads(w, p, c)
                    \/ AssignReads(w, p, c) \/ PickUpReads(w, p, c)
                    \/ DeliverReads(w, p, c) \/ LocationReads(w, p, c)
               \/ \E s \in Sessions : OpenSnap(w, p, s)
               \/ \E n \in Notification : n.order = p /\ Record(w, n)
             PROVE  \E op \in Ops : \E arg, seen : Start(w, op, p, arg, seen) /\ UNCHANGED rows
    BY DEF Begins
<1> USE DEF Begin, BeginSeen, Ops, rows
<1>1. ASSUME NEW s \in Targets, StaffReads(w, p, s)
      PROVE  \E op \in Ops : \E arg, seen : Start(w, op, p, arg, seen) /\ UNCHANGED rows
    BY <1>1 DEF StaffReads
<1>2. ASSUME NEW approve \in BOOLEAN, DecisionReads(w, p, approve)
      PROVE  \E op \in Ops : \E arg, seen : Start(w, op, p, arg, seen) /\ UNCHANGED rows
    BY <1>2 DEF DecisionReads
<1>3. ASSUME RequestReads(w, p) \/ ReceiptReads(w, p)
      PROVE  \E op \in Ops : \E arg, seen : Start(w, op, p, arg, seen) /\ UNCHANGED rows
    BY <1>3 DEF RequestReads, ReceiptReads
<1>4. ASSUME NEW op \in Ops, NEW c, Reads(w, op, p, c)
      PROVE  \E oq \in Ops : \E arg, seen : Start(w, oq, p, arg, seen) /\ UNCHANGED rows
    BY <1>4 DEF Reads
<1>5. ASSUME NEW c \in Couriers,
             \/ AcceptReads(w, p, c) \/ ReleaseReads(w, p, c)
             \/ AssignReads(w, p, c) \/ PickUpReads(w, p, c)
             \/ DeliverReads(w, p, c) \/ LocationReads(w, p, c)
             \/ UnassignReads(w, p)
      PROVE  \E op \in Ops : \E arg, seen : Start(w, op, p, arg, seen) /\ UNCHANGED rows
    BY <1>4, <1>5 DEF AcceptReads, ReleaseReads, AssignReads, PickUpReads,
                      DeliverReads, LocationReads, UnassignReads
<1>6. ASSUME UnassignReads(w, p)
      PROVE  \E op \in Ops : \E arg, seen : Start(w, op, p, arg, seen) /\ UNCHANGED rows
    BY <1>4, <1>6 DEF UnassignReads
<1>7. ASSUME NEW s \in Sessions, OpenSnap(w, p, s)
      PROVE  \E op \in Ops : \E arg, seen : Start(w, op, p, arg, seen) /\ UNCHANGED rows
    BY <1>7 DEF OpenSnap
<1>8. ASSUME NEW n \in Notification, n.order = p, Record(w, n)
      PROVE  \E op \in Ops : \E arg, seen : Start(w, op, p, arg, seen) /\ UNCHANGED rows
    BY <1>8 DEF Record
<1> QED
    BY <1>1, <1>2, <1>3, <1>5, <1>6, <1>7, <1>8

LEMMA BeginsElsewhere ==
    ASSUME IInv, NEW p \in Orders, NEW o \in Orders \ {p}, Begins(p)
    PROVE  Untouched(o)
<1>1. PICK w \in Workers, op \in Ops : \E arg, seen :
          Start(w, op, p, arg, seen) /\ UNCHANGED rows
    BY BeginsStarts
<1>2. PICK arg, seen : Start(w, op, p, arg, seen) /\ UNCHANGED rows
    BY <1>1
<1>3. \A v \in Workers :
          job'[v] = IF v = w THEN [op |-> op, order |-> p, arg |-> arg, seen |-> seen]
                    ELSE job[v]
    BY <1>2 DEF Start, IInv, TypeOK
<1> QED
    BY <1>2, <1>3 DEF Untouched, Same, Works, Start, rows

(* A step of a request ends it, or takes it to its next statement. *)
LEMMA Onwards ==
    ASSUME NEW w \in Workers, Continues(w)
    PROVE  Finish(w) \/ Goto(w, "method") \/ Goto(w, "due") \/ LockPayment(w)
<1>1. /\ Move(w) \/ Request(w) \/ Reject(w) => Finish(w)
      /\ Cancel(w) \/ CancelConflict(w) \/ Receive(w) => Finish(w)
    BY DEF Move, Request, Reject, Cancel, CancelConflict, Receive
<1>2. Write(w) \/ PickUp(w) \/ Deliver(w) => Finish(w)
    BY DEF Write, PickUp, Deliver
<1>3. SaveMethod(w) \/ Crash(w) => Finish(w)
    BY DEF SaveMethod, Crash
<1>4. Apply(w) => Finish(w)
    BY DEF Apply
<1>5. SaveSession(w) \/ ReadPayment(w) => Finish(w) \/ Goto(w, "method") \/ Goto(w, "due")
    BY DEF SaveSession, ReadPayment
<1> QED
    BY <1>1, <1>2, <1>3, <1>4, <1>5 DEF Continues

(* A request goes on with its own order, or ends. *)
LEMMA JobOnwards ==
    ASSUME IInv, NEW p \in Orders, NEW w \in Workers, Works(w, p), Continues(w)
    PROVE  \E k : job' = [job EXCEPT ![w] = k] /\ (k.op = "idle" \/ k.order = p)
<1>1. CASE Finish(w)
    <2>1. /\ job' = [job EXCEPT ![w] = Idle] /\ Idle.op = "idle"
        BY <1>1 DEF Finish, Idle
    <2> QED
        BY <2>1
<1>2. ASSUME NEW op, Goto(w, op)
      PROVE  \E k : job' = [job EXCEPT ![w] = k] /\ (k.op = "idle" \/ k.order = p)
    <2> DEFINE k == [job[w] EXCEPT !.op = op]
    <2>1. job' = [job EXCEPT ![w] = k]
        BY <1>2 DEF Goto
    <2>2. k.order = p
        BY Current DEF Works, Jobs
    <2> HIDE DEF k
    <2> QED
        BY <2>1, <2>2
<1>3. CASE LockPayment(w)
    <2> DEFINE k == [job[w] EXCEPT !.op = "applying", !.seen = order[p]]
    <2>1. job' = [job EXCEPT ![w] = k]
        BY <1>3 DEF LockPayment, Works
    <2>2. k.order = p
        BY Current DEF Works, Jobs
    <2> HIDE DEF k
    <2> QED
        BY <2>1, <2>2
<1>4. Finish(w) \/ (\E op : Goto(w, op)) \/ LockPayment(w)
    BY Onwards
<1> QED
    BY <1>1, <1>2, <1>3, <1>4

LEMMA ContinuesElsewhere ==
    ASSUME IInv, NEW p \in Orders, NEW o \in Orders \ {p}, NEW w \in Workers,
           Works(w, p), Continues(w)
    PROVE  Untouched(o)
<1>1. PICK k : job' = [job EXCEPT ![w] = k] /\ (k.op = "idle" \/ k.order = p)
    BY JobOnwards
<1>2. \A v \in Workers : job'[v] = IF v = w THEN k ELSE job[v]
    BY <1>1 DEF IInv, TypeOK
<1>3. order'[o] = order[o] /\ been'[o] = been[o]
    <2>1. ASSUME Move(w) \/ Request(w) \/ Reject(w) \/ Cancel(w) \/ Receive(w)
                 \/ Deliver(w) \/ SaveMethod(w) \/ Apply(w)
          PROVE  \E row : PutOrder(p, row)
        BY <2>1 DEF Works, Move, Request, Reject, Cancel, Receive, Deliver,
                    SaveMethod, Apply
    <2>2. ASSUME PickUp(w)
          PROVE  UNCHANGED <<order, been>> \/ \E row : PutOrder(p, row)
        BY <2>2 DEF Works, PickUp
    <2>3. ASSUME CancelConflict(w) \/ Write(w) \/ SaveSession(w)
                 \/ ReadPayment(w) \/ LockPayment(w) \/ Crash(w)
          PROVE  UNCHANGED <<order, been>>
        BY <2>3 DEF CancelConflict, Write, SaveSession, ReadPayment,
                    LockPayment, Crash
    <2>4. UNCHANGED <<order, been>> \/ \E row : PutOrder(p, row)
        BY <2>1, <2>2, <2>3 DEF Continues
    <2> QED
        BY <2>4 DEF PutOrder, IInv, TypeOK
<1>4. payment'[o] = payment[o] /\ issued'[o] = issued[o]
    <2>1. ASSUME Move(w) \/ Cancel(w) \/ Receive(w) \/ SaveSession(w) \/ Apply(w)
          PROVE  \A q \in Orders \ {p} : payment'[q] = payment[q] /\ issued'[q] = issued[q]
        BY <2>1 DEF Works, Move, Cancel, Receive, SaveSession, Apply, IInv, TypeOK
    <2>2. ASSUME Request(w) \/ Reject(w) \/ CancelConflict(w) \/ Write(w)
                 \/ PickUp(w) \/ Deliver(w) \/ SaveMethod(w) \/ ReadPayment(w)
                 \/ LockPayment(w) \/ Crash(w)
          PROVE  UNCHANGED <<payment, issued>>
        BY <2>2 DEF Request, Reject, CancelConflict, Write, PickUp, Deliver,
                    SaveMethod, ReadPayment, LockPayment, Crash
    <2> QED
        BY <2>1, <2>2 DEF Continues
<1>5. delivery'[o] = delivery[o] /\ took'[o] = took[o]
    <2>1. ASSUME Move(w) \/ Receive(w) \/ Write(w) \/ PickUp(w) \/ Deliver(w)
          PROVE  \A q \in Orders \ {p} : delivery'[q] = delivery[q] /\ took'[q] = took[q]
        BY <2>1 DEF Works, Move, Receive, Write, PickUp, Deliver, PutDelivery,
                    IInv, TypeOK
    <2>2. ASSUME Request(w) \/ Reject(w) \/ CancelConflict(w) \/ Crash(w)
          PROVE  UNCHANGED <<delivery, took>>
        BY <2>2 DEF Request, Reject, CancelConflict, Crash
    <2>3. ASSUME SaveSession(w) \/ SaveMethod(w) \/ ReadPayment(w) \/ LockPayment(w)
          PROVE  UNCHANGED <<delivery, took>>
        BY <2>3 DEF SaveSession, SaveMethod, ReadPayment, LockPayment
    <2>4. ASSUME Cancel(w) \/ Apply(w)
          PROVE  UNCHANGED <<delivery, took>>
        BY <2>4 DEF Cancel, Apply
    <2> QED
        BY <2>1, <2>2, <2>3, <2>4 DEF Continues
<1>6. restored'[o] = restored[o] /\ (o \in refunded <=> o \in refunded')
    <2>1. ASSUME Cancel(w) \/ Apply(w)
          PROVE  /\ \A q \in Orders \ {p} : restored'[q] = restored[q]
                 /\ refunded' = refunded \/ refunded' = refunded \cup {p}
        BY <2>1 DEF Works, Cancel, Apply, Restore, IInv, TypeOK
    <2>2. ASSUME Request(w) \/ Reject(w) \/ CancelConflict(w) \/ Crash(w)
          PROVE  UNCHANGED <<restored, refunded>>
        BY <2>2 DEF Request, Reject, CancelConflict, Crash
    <2>3. ASSUME SaveSession(w) \/ SaveMethod(w) \/ ReadPayment(w) \/ LockPayment(w)
          PROVE  UNCHANGED <<restored, refunded>>
        BY <2>3 DEF SaveSession, SaveMethod, ReadPayment, LockPayment
    <2>4. ASSUME Move(w) \/ Receive(w) PROVE UNCHANGED <<restored, refunded>>
        BY <2>4 DEF Move, Receive
    <2>5. ASSUME Write(w) \/ PickUp(w) \/ Deliver(w)
          PROVE  UNCHANGED <<restored, refunded>>
        BY <2>5 DEF Write, PickUp, Deliver
    <2> QED
        BY <2>1, <2>2, <2>3, <2>4, <2>5 DEF Continues
<1> QED
    BY <1>1, <1>2, <1>3, <1>4, <1>5, <1>6 DEF Untouched, Same, Works

LEMMA StepElsewhere ==
    ASSUME IInv, NEW p \in Orders, NEW o \in Orders \ {p}, StepOn(p)
    PROVE  Untouched(o)
<1>1. ASSUME NEW m \in Methods, NEW f \in Fulfillments, Place(p, m, f)
      PROVE  Untouched(o)
    <2>1. /\ order'[o] = order[o] /\ been'[o] = been[o]
          /\ payment'[o] = payment[o]
        BY <1>1 DEF Place, PutOrder, IInv, TypeOK
    <2>2. UNCHANGED <<delivery, refunded, restored, took, issued, job>>
        BY <1>1 DEF Place
    <2> QED
        BY <2>1, <2>2 DEF Untouched, Same
<1>2. ASSUME NEW c \in Couriers, Claim(p, c) PROVE Untouched(o)
    BY <1>2 DEF Claim, PutDelivery, Untouched, Same, IInv, TypeOK
<1>3. ASSUME Expire(p) PROVE Untouched(o)
    BY <1>3 DEF Expire, Untouched, Same, IInv, TypeOK
<1> QED
    BY <1>1, <1>2, <1>3, BeginsElsewhere, ContinuesElsewhere DEF StepOn

LEMMA WhatSteps ==
    ASSUME IInv, Next
    PROVE  \/ \A o \in Orders : Untouched(o)
           \/ \E p \in Orders : StepOn(p)
<1>1. ASSUME DeskNext PROVE \E p \in Orders : StepOn(p)
    <2>1. ASSUME NEW w \in Workers, NEW o \in Orders,
                 \/ \E s \in Targets : StaffReads(w, o, s) \/ SellerReads(w, o, s)
                 \/ RequestReads(w, o)
                 \/ \E approve \in BOOLEAN : DecisionReads(w, o, approve)
                 \/ ReceiptReads(w, o)
          PROVE  Begins(o)
        BY <2>1 DEF Begins, SellerReads
    <2>2. ASSUME NEW w \in Workers,
                 Move(w) \/ Request(w) \/ Reject(w) \/ Cancel(w)
                 \/ CancelConflict(w) \/ Receive(w)
          PROVE  job[w].op # "idle" /\ Continues(w)
        BY <2>2 DEF Continues, Move, Request, Reject, Cancel, CancelConflict, Receive
    <2> QED
        BY <1>1, <2>1, <2>2, Current DEF DeskNext, StepOn, Works
<1>2. ASSUME CourierNext PROVE \E p \in Orders : StepOn(p)
    <2>1. ASSUME NEW w \in Workers, NEW o \in Orders,
                 \/ UnassignReads(w, o)
                 \/ \E c \in Couriers :
                      \/ AcceptReads(w, o, c) \/ ReleaseReads(w, o, c)
                      \/ AssignReads(w, o, c) \/ PickUpReads(w, o, c)
                      \/ DeliverReads(w, o, c) \/ LocationReads(w, o, c)
          PROVE  Begins(o)
        BY <2>1 DEF Begins
    <2>2. ASSUME NEW w \in Workers, Write(w) \/ PickUp(w) \/ Deliver(w)
          PROVE  job[w].op # "idle" /\ Continues(w)
        BY <2>2 DEF Continues, Write, PickUp, Deliver
    <2> QED
        BY <1>2, <2>1, <2>2, Current DEF CourierNext, StepOn, Works
<1>3. ASSUME PaymentNext
      PROVE  (\A o \in Orders : Untouched(o)) \/ \E p \in Orders : StepOn(p)
    <2>1. ASSUME NEW n \in Notification, Emit(n) \/ Unknown(n), NEW o \in Orders
          PROVE  Untouched(o)
        BY <2>1 DEF Emit, Unknown, Untouched, Same
    <2>2. ASSUME NEW w \in Workers, NEW o \in Orders, NEW s \in Sessions,
                 OpenSnap(w, o, s)
          PROVE  Begins(o)
        BY <2>2 DEF Begins
    <2>3. ASSUME NEW w \in Workers, NEW n \in Notification, Record(w, n)
          PROVE  n.order \in Orders /\ Begins(n.order)
        BY <2>3 DEF Begins, Notification
    <2>4. ASSUME NEW w \in Workers,
                 SaveSession(w) \/ SaveMethod(w) \/ ReadPayment(w)
                 \/ LockPayment(w) \/ Apply(w)
          PROVE  job[w].op # "idle" /\ Continues(w)
        BY <2>4 DEF Continues, SaveSession, SaveMethod, ReadPayment, LockPayment, Apply
    <2> QED
        BY <1>3, <2>1, <2>2, <2>3, <2>4, Current DEF PaymentNext, StepOn, Works
<1>4. ASSUME NEW w \in Workers, Crash(w) PROVE \E p \in Orders : StepOn(p)
    <2>1. job[w].op # "idle" /\ Continues(w)
        BY <1>4 DEF Crash, Continues
    <2> QED
        BY <2>1, Current DEF StepOn, Works
<1> QED
    BY <1>1, <1>2, <1>3, <1>4 DEF Next

LEMMA TouchedByStep ==
    ASSUME IInv, Next, NEW o \in Orders
    PROVE  Untouched(o) \/ StepOn(o)
BY WhatSteps, StepElsewhere

(* No handler works on two orders: whatever a step does, all orders but one *)
(* keep their rows, and the requests on them stay where they are.  This is  *)
(* why the runs check one order: a second one only takes workers from it.   *)
THEOREM OneOrderPerStep ==
    Spec => [][\A o \in Orders : \A p \in Orders \ {o} : Untouched(o) \/ Untouched(p)]_vars
<1>1. IInv /\ [Next]_vars =>
        [\A o \in Orders : \A p \in Orders \ {o} : Untouched(o) \/ Untouched(p)]_vars
    BY WhatSteps, StepElsewhere
<1> QED
    BY RowsFitTogether, <1>1, PTL DEF Spec

-----------------------------------------------------------------------------
(***************************************************************************)
(* An order at rest.                                                        *)
(***************************************************************************)

(* A request that leaves an ended order as it is. *)
Calm(k, o) ==
    k.op # "idle" /\ k.order = o =>
      \/ k.op \in {"reject", "session", "method", "notified", "due"}
      \/ k.op = "applying" /\ k.seen.status # "PENDING"

RestsOn(o) == order'[o].status = order[o].status /\ AtRest(o)'

LEMMA RestKept ==
    ASSUME IInv, NEW o \in Orders, AtRest(o),
           order'[o].status = order[o].status,
           order'[o].cancel = order[o].cancel \/ order'[o].cancel = "DECIDED",
           delivery'[o] = delivery[o],
           \A v \in Workers : job'[v] = job[v] \/ Calm(job'[v], o)
    PROVE  RestsOn(o)
BY DEF AtRest, RestsOn, Calm

LEMMA RestBegins ==
    ASSUME IInv, NEW o \in Orders, AtRest(o), Begins(o)
    PROVE  RestsOn(o)
<1>1. PICK w \in Workers :
        \/ \E s \in Targets : StaffReads(w, o, s)
        \/ RequestReads(w, o)
        \/ \E approve \in BOOLEAN : DecisionReads(w, o, approve)
        \/ ReceiptReads(w, o)
        \/ UnassignReads(w, o)
        \/ \E c \in Couriers :
             \/ AcceptReads(w, o, c) \/ ReleaseReads(w, o, c)
             \/ AssignReads(w, o, c) \/ PickUpReads(w, o, c)
             \/ DeliverReads(w, o, c) \/ LocationReads(w, o, c)
        \/ \E s \in Sessions : OpenSnap(w, o, s)
        \/ \E n \in Notification : n.order = o /\ Record(w, n)
    BY DEF Begins
<1>2. ASSUME NEW s \in Targets PROVE ~StaffReads(w, o, s)
    BY DEF AtRest, StaffReads, CanTransition, Allowed
<1>3. /\ ~RequestReads(w, o) /\ ~ReceiptReads(w, o)
      /\ \A approve \in BOOLEAN : ~DecisionReads(w, o, approve)
    BY DEF AtRest, RequestReads, ReceiptReads, DecisionReads
<1>4. ~UnassignReads(w, o) /\ \A c \in Couriers : ~AssignReads(w, o, c)
    BY DEF AtRest, UnassignReads, AssignReads, Exists, Locked
<1>5. ASSUME NEW c \in Couriers
      PROVE  /\ ~AcceptReads(w, o, c) /\ ~ReleaseReads(w, o, c)
             /\ ~PickUpReads(w, o, c) /\ ~DeliverReads(w, o, c)
             /\ ~LocationReads(w, o, c)
    BY DEF AtRest, AcceptReads, ReleaseReads, PickUpReads, DeliverReads,
           LocationReads, MayPickUp, MayDeliver, Mine, Exists
<1>6. PICK op, arg :
        /\ op \in {"session", "notified"}
        /\ Begin(w, op, o, arg) /\ UNCHANGED <<order, delivery>>
    BY <1>1, <1>2, <1>3, <1>4, <1>5 DEF OpenSnap, Record
<1> DEFINE k == [op |-> op, order |-> o, arg |-> arg, seen |-> NoOrder]
<1>7. job' = [job EXCEPT ![w] = k] /\ Calm(k, o)
    BY <1>6 DEF Begin, Start, Calm
<1> HIDE DEF k
<1>8. \A v \in Workers : job'[v] = job[v] \/ Calm(job'[v], o)
    BY <1>7 DEF IInv, TypeOK
<1> QED
    BY <1>6, <1>8, RestKept

LEMMA RestContinues ==
    ASSUME IInv, NEW o \in Orders, AtRest(o), NEW w \in Workers, Works(w, o),
           Continues(w)
    PROVE  RestsOn(o)
<1>1. Calm(job[w], o) /\ job[w].op # "idle" /\ job[w].order = o /\ job[w] \in Jobs
    BY Current DEF AtRest, Calm, Works
<1>2. ~Move(w) /\ ~Request(w) /\ ~Cancel(w) /\ ~CancelConflict(w) /\ ~Receive(w)
      /\ ~Write(w) /\ ~PickUp(w) /\ ~Deliver(w)
    BY <1>1 DEF Calm, Move, Request, Cancel, CancelConflict, Receive, Write,
                PickUp, Deliver
<1>3. ASSUME NEW k, job' = [job EXCEPT ![w] = k], Calm(k, o)
      PROVE  \A v \in Workers : job'[v] = job[v] \/ Calm(job'[v], o)
    BY <1>3 DEF IInv, TypeOK
<1>4. ASSUME Finish(w)
      PROVE  \A v \in Workers : job'[v] = job[v] \/ Calm(job'[v], o)
    <2>1. Calm(Idle, o) /\ job' = [job EXCEPT ![w] = Idle]
        BY <1>4 DEF Calm, Idle, Finish
    <2> QED
        BY <2>1, <1>3
<1>5. ASSUME NEW op \in {"method", "due"}, Goto(w, op)
      PROVE  \A v \in Workers : job'[v] = job[v] \/ Calm(job'[v], o)
    <2> DEFINE k == [job[w] EXCEPT !.op = op]
    <2>1. Calm(k, o) /\ job' = [job EXCEPT ![w] = k]
        BY <1>1, <1>5 DEF Calm, Goto, Jobs
    <2> HIDE DEF k
    <2> QED
        BY <2>1, <1>3
<1>6. order[o] \in OrderRow
    BY RowsTyped
<1>7. CASE Reject(w)
    <2>1. PutOrder(o, [order[o] EXCEPT !.cancel = "DECIDED"]) /\ Finish(w)
          /\ UNCHANGED delivery
        BY <1>1, <1>7 DEF Reject
    <2>2. order'[o] = [order[o] EXCEPT !.cancel = "DECIDED"]
        BY <2>1 DEF PutOrder, IInv, TypeOK
    <2> QED
        BY <1>4, <1>6, <2>1, <2>2, RestKept DEF OrderRow
<1>8. CASE SaveSession(w) \/ ReadPayment(w) \/ Crash(w)
    <2>1. UNCHANGED <<order, delivery>>
        BY <1>8 DEF SaveSession, ReadPayment, Crash
    <2>2. Finish(w) \/ Goto(w, "method") \/ Goto(w, "due")
        BY <1>8 DEF SaveSession, ReadPayment, Crash
    <2> QED
        BY <1>4, <1>5, <2>1, <2>2, RestKept
<1>9. CASE SaveMethod(w)
    <2>1. PutOrder(o, [order[o] EXCEPT !.method = "MIDTRANS"]) /\ Finish(w)
          /\ UNCHANGED delivery
        BY <1>1, <1>9 DEF SaveMethod
    <2>2. order'[o] = [order[o] EXCEPT !.method = "MIDTRANS"]
        BY <2>1 DEF PutOrder, IInv, TypeOK
    <2> QED
        BY <1>4, <1>6, <2>1, <2>2, RestKept DEF OrderRow
<1>10. CASE LockPayment(w)
    <2> DEFINE k == [job[w] EXCEPT !.op = "applying", !.seen = order[o]]
    <2>1. job' = [job EXCEPT ![w] = k] /\ UNCHANGED <<order, delivery>>
        BY <1>1, <1>10 DEF LockPayment
    <2>2. k.op = "applying" /\ k.seen = order[o]
        BY <1>1 DEF Jobs
    <2> HIDE DEF k
    <2>3. Calm(k, o)
        BY <2>2 DEF Calm, AtRest
    <2> QED
        BY <1>3, <2>1, <2>3, RestKept
<1>11. CASE Apply(w)
    <2>1. ~Follows(job[w].seen, job[w].arg)
        BY <1>1, <1>11 DEF Apply, Calm, Follows
    <2>2. PutOrder(o, [order[o] EXCEPT !.status = order[o].status, !.paid = order[o].paid])
          /\ Finish(w) /\ UNCHANGED delivery
        BY <1>1, <1>11, <2>1 DEF Apply
    <2>3. order'[o].status = order[o].status /\ order'[o].cancel = order[o].cancel
        BY <1>6, <2>2 DEF PutOrder, OrderRow, IInv, TypeOK
    <2> QED
        BY <1>4, <2>2, <2>3, RestKept
<1> QED
    BY <1>2, <1>7, <1>8, <1>9, <1>10, <1>11 DEF Continues

LEMMA RestSteps ==
    ASSUME IInv, Next, NEW o \in Orders, AtRest(o)
    PROVE  RestsOn(o)
<1>1. CASE Untouched(o)
    <2>1. \A v \in Workers : job'[v] = job[v] \/ Calm(job'[v], o)
        BY <1>1 DEF Untouched, Works, Calm
    <2> QED
        BY <1>1, <2>1, RestKept DEF Untouched, Same
<1>2. ASSUME NEW m \in Methods, NEW f \in Fulfillments PROVE ~Place(o, m, f)
    BY DEF AtRest, Place, Placed
<1>3. ASSUME NEW c \in Couriers PROVE ~Claim(o, c)
    BY DEF AtRest, Claim, Exists
<1>4. CASE Expire(o)
    BY <1>4, RestKept DEF Expire
<1> QED
    BY <1>1, <1>2, <1>3, <1>4, TouchedByStep, RestBegins, RestContinues DEF StepOn

(* An order that is final stays so for good, however many requests come,    *)
(* once no cancellation waits for an answer, no delivery is open and no     *)
(* request under way has read it as it was: these are the only ways in      *)
(* which updateStatus's "final" is broken.                                  *)
THEOREM RestIsForGood == Spec => RestingStaysFinal
<1>1. IInv /\ [Next]_vars =>
        [\A o \in Orders : AtRest(o) =>
           /\ order'[o].status = order[o].status
           /\ AtRest(o)']_vars
    BY RestSteps DEF RestsOn
<1> QED
    BY RowsFitTogether, <1>1, PTL DEF Spec, RestingStaysFinal

-----------------------------------------------------------------------------
(***************************************************************************)
(* Goods on their way.                                                      *)
(***************************************************************************)

(* A request that leaves the goods with their courier. *)
Hands(k, o) ==
    k.op # "idle" /\ k.order = o =>
        k.op \notin {"accept", "release", "assign", "pickup"}

StaysCarried(o) ==
    /\ took'[o] = took[o] /\ delivery'[o].courier = took[o]
    /\ Carried(o)' \/ delivery'[o].status = "COMPLETED"

LEMMA CarriedKept ==
    ASSUME IInv, NEW o \in Orders, Carried(o),
           took'[o] = took[o], delivery'[o].courier = delivery[o].courier,
           delivery'[o].status \in {"PICKED_UP", "IN_TRANSIT", "COURIER_DELIVERED", "COMPLETED"},
           \A v \in Workers : job'[v] = job[v] \/ Hands(job'[v], o)
    PROVE  StaysCarried(o)
BY DEF Carried, StaysCarried, Hands

LEMMA CarriedBegins ==
    ASSUME IInv, NEW o \in Orders, Carried(o), Begins(o)
    PROVE  StaysCarried(o)
<1>1. PICK w \in Workers :
        \/ \E s \in Targets : StaffReads(w, o, s)
        \/ RequestReads(w, o)
        \/ \E approve \in BOOLEAN : DecisionReads(w, o, approve)
        \/ ReceiptReads(w, o)
        \/ UnassignReads(w, o)
        \/ \E c \in Couriers :
             \/ AcceptReads(w, o, c) \/ ReleaseReads(w, o, c)
             \/ AssignReads(w, o, c) \/ PickUpReads(w, o, c)
             \/ DeliverReads(w, o, c) \/ LocationReads(w, o, c)
        \/ \E s \in Sessions : OpenSnap(w, o, s)
        \/ \E n \in Notification : n.order = o /\ Record(w, n)
    BY DEF Begins
<1>2. ~UnassignReads(w, o) /\ \A c \in Couriers : ~AssignReads(w, o, c)
    BY DEF Carried, UnassignReads, AssignReads, Locked
<1>3. ASSUME NEW c \in Couriers
      PROVE  ~AcceptReads(w, o, c) /\ ~ReleaseReads(w, o, c) /\ ~PickUpReads(w, o, c)
    BY DEF Carried, AcceptReads, ReleaseReads, PickUpReads, MayPickUp
<1>4. PICK k : /\ job' = [job EXCEPT ![w] = k] /\ Hands(k, o)
               /\ UNCHANGED <<delivery, took>>
    <2> DEFINE Aside == \E k : /\ job' = [job EXCEPT ![w] = k] /\ Hands(k, o)
                               /\ UNCHANGED <<delivery, took>>
    <2>1. ASSUME NEW op \in {"cancel", "move", "request", "approve", "reject", "receive",
                             "deliver", "transit", "session", "notified"},
                 NEW arg, NEW seen, Start(w, op, o, arg, seen), UNCHANGED <<delivery, took>>
          PROVE  Aside
        <3> DEFINE k == [op |-> op, order |-> o, arg |-> arg, seen |-> seen]
        <3>1. job' = [job EXCEPT ![w] = k] /\ Hands(k, o)
            BY <2>1 DEF Start, Hands
        <3> HIDE DEF k
        <3> QED
            BY <2>1, <3>1
    <2> HIDE DEF Aside
    <2>2. ASSUME NEW s \in Targets, StaffReads(w, o, s) PROVE Aside
        BY <2>1, <2>2 DEF StaffReads, Begin, BeginSeen
    <2>3. ASSUME RequestReads(w, o) \/ ReceiptReads(w, o) PROVE Aside
        BY <2>1, <2>3 DEF RequestReads, ReceiptReads, Begin, BeginSeen
    <2>4. ASSUME NEW approve \in BOOLEAN, DecisionReads(w, o, approve) PROVE Aside
        BY <2>1, <2>4 DEF DecisionReads, Begin, BeginSeen
    <2>5. ASSUME NEW c \in Couriers, DeliverReads(w, o, c) \/ LocationReads(w, o, c)
          PROVE  Aside
        BY <2>1, <2>5 DEF DeliverReads, LocationReads, Reads, Begin
    <2>6. ASSUME NEW s \in Sessions, OpenSnap(w, o, s) PROVE Aside
        BY <2>1, <2>6 DEF OpenSnap, Begin
    <2>7. ASSUME NEW n \in Notification, n.order = o, Record(w, n) PROVE Aside
        BY <2>1, <2>7 DEF Record, Begin
    <2>8. Aside
        BY <1>1, <1>2, <1>3, <2>2, <2>3, <2>4, <2>5, <2>6, <2>7
    <2> QED
        BY <2>8 DEF Aside
<1>5. \A v \in Workers : job'[v] = job[v] \/ Hands(job'[v], o)
    BY <1>4 DEF IInv, TypeOK
<1> QED
    BY <1>4, <1>5, CarriedKept DEF Carried

LEMMA CarriedContinues ==
    ASSUME IInv, NEW o \in Orders, Carried(o), NEW w \in Workers, Works(w, o),
           Continues(w)
    PROVE  StaysCarried(o)
<1>1. Hands(job[w], o) /\ job[w].op # "idle" /\ job[w].order = o /\ job[w] \in Jobs
    BY Current DEF Carried, Hands, Works
<1>2. ~PickUp(w) /\ (Write(w) => job[w].op = "transit")
    BY <1>1 DEF Hands, PickUp, Write
<1>3. delivery[o] \in DeliveryRow
    BY RowsTyped
<1>4. \A v \in Workers : job'[v] = job[v] \/ Hands(job'[v], o)
    <2>1. ASSUME NEW k, job' = [job EXCEPT ![w] = k], Hands(k, o)
          PROVE  \A v \in Workers : job'[v] = job[v] \/ Hands(job'[v], o)
        BY <2>1 DEF IInv, TypeOK
    <2>2. CASE Finish(w)
        <3>1. Hands(Idle, o) /\ job' = [job EXCEPT ![w] = Idle]
            BY <2>2 DEF Hands, Idle, Finish
        <3> QED
            BY <2>1, <3>1
    <2>3. ASSUME NEW op \in {"method", "due"}, Goto(w, op)
          PROVE  \A v \in Workers : job'[v] = job[v] \/ Hands(job'[v], o)
        <3> DEFINE k == [job[w] EXCEPT !.op = op]
        <3>1. Hands(k, o) /\ job' = [job EXCEPT ![w] = k]
            BY <1>1, <2>3 DEF Hands, Goto, Jobs
        <3> HIDE DEF k
        <3> QED
            BY <2>1, <3>1
    <2>4. CASE LockPayment(w)
        <3> DEFINE k == [job[w] EXCEPT !.op = "applying", !.seen = order[o]]
        <3>1. job' = [job EXCEPT ![w] = k]
            BY <1>1, <2>4 DEF LockPayment
        <3>2. Hands(k, o)
            BY <1>1 DEF Hands, Jobs
        <3> HIDE DEF k
        <3> QED
            BY <2>1, <3>1, <3>2
    <2>5. Finish(w) \/ Goto(w, "method") \/ Goto(w, "due") \/ LockPayment(w)
        BY Onwards
    <2> QED
        BY <2>2, <2>3, <2>4, <2>5
<1>5. CASE Move(w)
    <2>1. HandedOver(o) = delivery[o]
        BY DEF HandedOver, Carried
    <2>2. delivery' = delivery /\ took' = took
        BY <1>1, <1>5, <2>1 DEF Move, IInv, TypeOK
    <2> QED
        BY <1>4, <2>2, CarriedKept DEF Carried
<1>6. CASE Receive(w)
    <2>1. delivery'[o] = [delivery[o] EXCEPT !.status = "COMPLETED"] /\ took' = took
        BY <1>1, <1>6 DEF Receive, Carried, IInv, TypeOK
    <2> QED
        BY <1>3, <1>4, <2>1, CarriedKept DEF DeliveryRow
<1>7. CASE Write(w)
    <2>1. delivery'[o] = [delivery[o] EXCEPT !.status = "IN_TRANSIT"] /\ took' = took
        BY <1>1, <1>2, <1>7 DEF Write, PutDelivery, IInv, TypeOK
    <2> QED
        BY <1>3, <1>4, <2>1, CarriedKept DEF DeliveryRow
<1>8. CASE Deliver(w)
    <2>1. delivery'[o] = [delivery[o] EXCEPT !.status = "COURIER_DELIVERED"] /\ took' = took
        BY <1>1, <1>8 DEF Deliver, PutDelivery, IInv, TypeOK
    <2> QED
        BY <1>3, <1>4, <2>1, CarriedKept DEF DeliveryRow
<1>9. CASE Request(w) \/ Reject(w) \/ CancelConflict(w) \/ Crash(w) \/ Cancel(w)
    <2>1. UNCHANGED <<delivery, took>>
        BY <1>9 DEF Request, Reject, CancelConflict, Crash, Cancel
    <2> QED
        BY <1>4, <2>1, CarriedKept DEF Carried
<1>10. CASE SaveSession(w) \/ SaveMethod(w) \/ ReadPayment(w) \/ LockPayment(w) \/ Apply(w)
    <2>1. UNCHANGED <<delivery, took>>
        BY <1>10 DEF SaveSession, SaveMethod, ReadPayment, LockPayment, Apply
    <2> QED
        BY <1>4, <2>1, CarriedKept DEF Carried
<1> QED
    BY <1>2, <1>5, <1>6, <1>7, <1>8, <1>9, <1>10 DEF Continues

LEMMA CarriedSteps ==
    ASSUME IInv, Next, NEW o \in Orders, Carried(o)
    PROVE  StaysCarried(o)
<1>1. CASE Untouched(o)
    <2>1. \A v \in Workers : job'[v] = job[v] \/ Hands(job'[v], o)
        BY <1>1 DEF Untouched, Works, Hands
    <2>2. delivery'[o] = delivery[o] /\ took'[o] = took[o]
        BY <1>1 DEF Untouched, Same
    <2> QED
        BY <2>1, <2>2, CarriedKept DEF Carried
<1>2. ASSUME NEW m \in Methods, NEW f \in Fulfillments PROVE ~Place(o, m, f)
    BY RowsTyped DEF Carried, Place, RowInv, Exists
<1>3. ASSUME NEW c \in Couriers PROVE ~Claim(o, c)
    BY DEF Carried, Claim
<1>4. CASE Expire(o)
    BY <1>4, CarriedKept DEF Expire, Carried
<1> QED
    BY <1>1, <1>2, <1>3, <1>4, TouchedByStep, CarriedBegins, CarriedContinues DEF StepOn

(* Goods picked up by the courier on record stay with him, on the road and  *)
(* on record, until the customer confirms: only a request that read the     *)
(* delivery before the pick-up makes the record lie.                        *)
THEOREM CarriersStay == Spec => CarrierStays
<1>1. IInv /\ [Next]_vars =>
        [\A o \in Orders : Carried(o) =>
           /\ took'[o] = took[o] /\ delivery'[o].courier = took[o]
           /\ Carried(o)' \/ delivery'[o].status = "COMPLETED"]_vars
    BY CarriedSteps DEF StaysCarried
<1> QED
    BY RowsFitTogether, <1>1, PTL DEF Spec, CarrierStays

-----------------------------------------------------------------------------
(***************************************************************************)
(* The bill of an order.                                                    *)
(***************************************************************************)
StaysOnlyBill(o) ==
    /\ payment'[o].session = payment[o].session
    /\ OnlyBill(o)' \/ payment'[o].status # "PENDING" \/ payment'[o].expired

(* A request that opens no bill. *)
OpensNone(k, o) == k.op = "session" => k.order # o

LEMMA BillKept ==
    ASSUME IInv, NEW o \in Orders, OnlyBill(o),
           payment'[o].session = payment[o].session,
           \A v \in Workers : job'[v] = job[v] \/ OpensNone(job'[v], o)
    PROVE  StaysOnlyBill(o)
BY DEF OnlyBill, Reusable, StaysOnlyBill, OpensNone

(* What begins on an order writes no payment, and opens a bill only when    *)
(* none lives.                                                              *)
LEMMA BillBegins ==
    ASSUME IInv, NEW o \in Orders, OnlyBill(o), Begins(o)
    PROVE  StaysOnlyBill(o)
<1>1. PICK w \in Workers :
        \/ \E s \in Targets : StaffReads(w, o, s)
        \/ RequestReads(w, o)
        \/ \E approve \in BOOLEAN : DecisionReads(w, o, approve)
        \/ ReceiptReads(w, o)
        \/ UnassignReads(w, o)
        \/ \E c \in Couriers :
             \/ AcceptReads(w, o, c) \/ ReleaseReads(w, o, c)
             \/ AssignReads(w, o, c) \/ PickUpReads(w, o, c)
             \/ DeliverReads(w, o, c) \/ LocationReads(w, o, c)
        \/ \E s \in Sessions : OpenSnap(w, o, s)
        \/ \E n \in Notification : n.order = o /\ Record(w, n)
    BY DEF Begins
<1>2. ASSUME NEW s \in Sessions PROVE ~OpenSnap(w, o, s)
    BY DEF OnlyBill, OpenSnap
<1> DEFINE Aside == \E k : /\ job' = [job EXCEPT ![w] = k] /\ OpensNone(k, o)
                           /\ payment' = payment
<1>3. ASSUME NEW op \in Ops \ {"session"}, NEW arg, NEW seen,
             Start(w, op, o, arg, seen), payment' = payment
      PROVE  Aside
    <2> DEFINE k == [op |-> op, order |-> o, arg |-> arg, seen |-> seen]
    <2>1. job' = [job EXCEPT ![w] = k] /\ OpensNone(k, o)
        BY <1>3 DEF Start, OpensNone
    <2> HIDE DEF k
    <2> QED
        BY <1>3, <2>1
<1> HIDE DEF Aside
<1>4. ASSUME NEW op \in Ops \ {"session"}, NEW c, Reads(w, op, o, c) PROVE Aside
    BY <1>3, <1>4 DEF Reads, Begin
<1>5. ASSUME NEW s \in Targets, StaffReads(w, o, s) PROVE Aside
    BY <1>3, <1>5 DEF StaffReads, Begin, BeginSeen, Ops
<1>6. ASSUME RequestReads(w, o) \/ ReceiptReads(w, o) PROVE Aside
    BY <1>3, <1>6 DEF RequestReads, ReceiptReads, Begin, BeginSeen, Ops
<1>7. ASSUME NEW approve \in BOOLEAN, DecisionReads(w, o, approve) PROVE Aside
    BY <1>3, <1>7 DEF DecisionReads, Begin, BeginSeen, Ops
<1>8. ASSUME NEW c \in Couriers,
             AcceptReads(w, o, c) \/ ReleaseReads(w, o, c) \/ AssignReads(w, o, c)
      PROVE  Aside
    BY <1>4, <1>8 DEF AcceptReads, ReleaseReads, AssignReads, Ops
<1>9. ASSUME NEW c \in Couriers,
             PickUpReads(w, o, c) \/ DeliverReads(w, o, c) \/ LocationReads(w, o, c)
      PROVE  Aside
    BY <1>4, <1>9 DEF PickUpReads, DeliverReads, LocationReads, Ops
<1>10. UnassignReads(w, o) => Aside
    BY <1>4 DEF UnassignReads, Ops
<1>11. ASSUME NEW n \in Notification, n.order = o, Record(w, n) PROVE Aside
    BY <1>3, <1>11 DEF Record, Begin, Ops
<1>12. Aside
    BY <1>1, <1>2, <1>5, <1>6, <1>7, <1>8, <1>9, <1>10, <1>11
<1>13. PICK k : /\ job' = [job EXCEPT ![w] = k] /\ OpensNone(k, o)
                /\ payment' = payment
    BY <1>12 DEF Aside
<1>14. \A v \in Workers : job'[v] = job[v] \/ OpensNone(job'[v], o)
    BY <1>13 DEF IInv, TypeOK
<1> QED
    BY <1>13, <1>14, BillKept

LEMMA SessionOnlySaved ==
    ASSUME IInv, NEW o \in Orders, NEW w \in Workers, Works(w, o), Continues(w),
           ~SaveSession(w)
    PROVE  payment'[o].session = payment[o].session
<1>1. payment[o] \in PaymentRow /\ job[w].order = o
    BY RowsTyped DEF Works
<1>2. CASE Move(w) \/ Cancel(w) \/ Receive(w)
    <2>1. PICK status \in {"PAID", "REFUNDED", payment[o].status} :
            payment' = [payment EXCEPT ![o].status = status]
        BY <1>1, <1>2 DEF Move, Cancel, Receive
    <2> QED
        BY <1>1, <2>1 DEF IInv, TypeOK, PaymentRow
<1>3. CASE Apply(w)
    <2>1. payment' = [payment EXCEPT ![o].status = StatusOf(job[w].arg),
                                     ![o].view = job[w].arg]
        BY <1>1, <1>3 DEF Apply
    <2> QED
        BY <1>1, <2>1 DEF IInv, TypeOK, PaymentRow
<1>4. CASE Request(w) \/ Reject(w) \/ CancelConflict(w) \/ Crash(w)
    BY <1>4 DEF Request, Reject, CancelConflict, Crash
<1>5. CASE Write(w) \/ PickUp(w) \/ Deliver(w)
    BY <1>5 DEF Write, PickUp, Deliver
<1>6. CASE SaveMethod(w) \/ ReadPayment(w) \/ LockPayment(w)
    BY <1>6 DEF SaveMethod, ReadPayment, LockPayment
<1> QED
    BY <1>2, <1>3, <1>4, <1>5, <1>6 DEF Continues

LEMMA BillContinues ==
    ASSUME IInv, NEW o \in Orders, OnlyBill(o), NEW w \in Workers, Works(w, o),
           Continues(w)
    PROVE  StaysOnlyBill(o)
<1>1. ~SaveSession(w)
    BY DEF OnlyBill, SaveSession, Works
<1>2. payment'[o].session = payment[o].session
    BY <1>1, SessionOnlySaved
<1>3. PICK k : job' = [job EXCEPT ![w] = k] /\ k.op # "session"
    <2>1. CASE Finish(w)
        <3>1. job' = [job EXCEPT ![w] = Idle] /\ Idle.op # "session"
            BY <2>1 DEF Finish, Idle
        <3> QED
            BY <3>1
    <2>2. ASSUME NEW op \in {"method", "due"}, Goto(w, op)
          PROVE  \E k : job' = [job EXCEPT ![w] = k] /\ k.op # "session"
        <3> DEFINE k == [job[w] EXCEPT !.op = op]
        <3>1. job' = [job EXCEPT ![w] = k] /\ k.op # "session"
            BY <2>2, Current DEF Goto, Works, Jobs
        <3> HIDE DEF k
        <3> QED
            BY <3>1
    <2>3. CASE LockPayment(w)
        <3> DEFINE k == [job[w] EXCEPT !.op = "applying", !.seen = order[o]]
        <3>1. job' = [job EXCEPT ![w] = k]
            BY <2>3 DEF LockPayment, Works
        <3>2. k.op # "session"
            BY Current DEF Works, Jobs
        <3> HIDE DEF k
        <3> QED
            BY <3>1, <3>2
    <2> QED
        BY <2>1, <2>2, <2>3, Onwards
<1>4. \A v \in Workers : job'[v] = job[v] \/ OpensNone(job'[v], o)
    BY <1>3 DEF OpensNone, IInv, TypeOK
<1> QED
    BY <1>2, <1>4, BillKept

LEMMA BillSteps ==
    ASSUME IInv, Next, NEW o \in Orders, OnlyBill(o)
    PROVE  StaysOnlyBill(o)
<1>1. CASE Untouched(o)
    <2>1. \A v \in Workers : job'[v] = job[v] \/ OpensNone(job'[v], o)
        BY <1>1 DEF Untouched, Works, OpensNone
    <2> QED
        BY <1>1, <2>1, BillKept DEF Untouched, Same
<1>2. ASSUME NEW m \in Methods, NEW f \in Fulfillments PROVE ~Place(o, m, f)
    BY RowsTyped DEF OnlyBill, Reusable, Place, RowInv
<1>3. ASSUME NEW c \in Couriers, Claim(o, c) PROVE StaysOnlyBill(o)
    BY <1>3, BillKept DEF Claim
<1>4. CASE Expire(o)
    <2>1. payment'[o].session = payment[o].session /\ job' = job
        BY <1>4, RowsTyped DEF Expire, IInv, TypeOK, PaymentRow
    <2> QED
        BY <2>1, BillKept
<1> QED
    BY <1>1, <1>2, <1>3, <1>4, TouchedByStep, BillBegins, BillContinues DEF StepOn

(* A live bill stays the only one of its order until it is paid, ended or   *)
(* expired, once no request that began before it was saved is still opening *)
(* another: pressing "pay" again later never makes a second one.            *)
THEOREM BillsStay == Spec => BillStays
<1>1. IInv /\ [Next]_vars =>
        [\A o \in Orders : OnlyBill(o) =>
           /\ payment'[o].session = payment[o].session
           /\ OnlyBill(o)' \/ payment'[o].status # "PENDING"
                           \/ payment'[o].expired]_vars
    BY BillSteps DEF StaysOnlyBill
<1> QED
    BY RowsFitTogether, <1>1, PTL DEF Spec, BillStays

-----------------------------------------------------------------------------
(***************************************************************************)
(* What became of a recorded notification.                                  *)
(***************************************************************************)

(* A request that is about to write that the bill of o was paid. *)
Bearer(k, o) ==
    k.op \in {"notified", "due", "applying"} /\ k.order = o /\ k.arg = "PAID"

Answered(o) ==
    payment[o].view # "PENDING" \/ \E w \in Workers : Bearer(job[w], o)

(* Notifications are of bills that were handed out, records of notifications *)
(* that came, and one that reported the current bill paid is not forgotten.  *)
Mail ==
    /\ \A n \in sent : n.session \in issued[n.order]
    /\ \A key \in recorded : \E n \in sent : Key(n) = key
    /\ crashes = 0 /\ OneMeaning =>
         \A n \in sent :
           /\ Key(n) \in recorded /\ ViewOf(n.report) = "PAID"
           /\ n.session = payment[n.order].session
           => Answered(n.order)

LEMMA AnsweredContinues ==
    ASSUME IInv, NEW o \in Orders, Answered(o), NEW w \in Workers, Works(w, o),
           Continues(w), ~SaveSession(w), ~Crash(w)
    PROVE  Answered(o)'
<1>1. payment[o] \in PaymentRow /\ job[w] \in Jobs /\ job[w].order = o
    BY RowsTyped, Current DEF Works
<1>2. CASE Apply(w)
    <2>1. payment' = [payment EXCEPT ![o].status = StatusOf(job[w].arg),
                                     ![o].view = job[w].arg]
          /\ job[w].op = "applying"
        BY <1>1, <1>2 DEF Apply
    <2>2. job[w].arg # "PENDING"
        BY <1>1, <2>1, Current DEF Rely, RelyView
    <2> QED
        BY <1>1, <2>1, <2>2 DEF Answered, IInv, TypeOK, PaymentRow
<1>3. CASE Move(w) \/ Cancel(w) \/ Receive(w)
    <2>1. PICK status \in {"PAID", "REFUNDED", payment[o].status} :
            payment' = [payment EXCEPT ![o].status = status]
        BY <1>1, <1>3 DEF Move, Cancel, Receive
    <2>2. payment'[o].view = payment[o].view
        BY <1>1, <2>1 DEF IInv, TypeOK, PaymentRow
    <2>3. ~Bearer(job[w], o) /\ Finish(w)
        BY <1>3 DEF Move, Cancel, Receive, Bearer
    <2>4. \A v \in Workers : Bearer(job[v], o) => job'[v] = job[v]
        BY <2>3 DEF Finish, IInv, TypeOK
    <2> QED
        BY <2>2, <2>4 DEF Answered, Bearer
<1>4. CASE \/ Request(w) \/ Reject(w) \/ CancelConflict(w) \/ SaveMethod(w)
           \/ Write(w) \/ PickUp(w) \/ Deliver(w)
    <2>1. ~Bearer(job[w], o) /\ Finish(w) /\ payment' = payment
        <3>1. Request(w) \/ Reject(w) \/ CancelConflict(w) \/ SaveMethod(w)
              => ~Bearer(job[w], o) /\ Finish(w) /\ payment' = payment
            BY DEF Request, Reject, CancelConflict, SaveMethod, Bearer
        <3>2. Write(w) \/ PickUp(w) \/ Deliver(w)
              => ~Bearer(job[w], o) /\ Finish(w) /\ payment' = payment
            BY DEF Write, PickUp, Deliver, Bearer
        <3> QED
            BY <1>4, <3>1, <3>2
    <2>2. \A v \in Workers : Bearer(job[v], o) => job'[v] = job[v]
        BY <2>1 DEF Finish, IInv, TypeOK
    <2> QED
        BY <2>1, <2>2 DEF Answered, Bearer
<1>5. CASE ReadPayment(w) \/ LockPayment(w)
    <2>1. payment' = payment
        BY <1>5 DEF ReadPayment, LockPayment
    <2>2. CASE payment[o].view # "PENDING"
        BY <2>1, <2>2 DEF Answered
    <2>3. ASSUME payment[o].view = "PENDING", NEW v \in Workers \ {w}, Bearer(job[v], o)
          PROVE  Answered(o)'
        <3>1. job'[v] = job[v]
            BY <1>5 DEF ReadPayment, LockPayment, Goto, Finish, IInv, TypeOK
        <3> QED
            BY <2>3, <3>1 DEF Answered, Bearer
    <2>4. ASSUME payment[o].view = "PENDING", Bearer(job[w], o)
          PROVE  Answered(o)'
        <3>1. PICK k : job' = [job EXCEPT ![w] = k] /\ Bearer(k, o)
            <4>1. CASE ReadPayment(w)
                <5>1. ShouldApply("PENDING", "PAID")
                    BY DEF ShouldApply, Final, Unpaid
                <5>2. Goto(w, "due")
                    BY <1>1, <2>4, <4>1, <5>1 DEF ReadPayment, Bearer
                <5> DEFINE k == [job[w] EXCEPT !.op = "due"]
                <5>3. job' = [job EXCEPT ![w] = k] /\ Bearer(k, o)
                    BY <1>1, <2>4, <5>2 DEF Goto, Bearer, Jobs
                <5> HIDE DEF k
                <5> QED
                    BY <5>3
            <4>2. CASE LockPayment(w)
                <5> DEFINE k == [job[w] EXCEPT !.op = "applying", !.seen = order[o]]
                <5>1. job' = [job EXCEPT ![w] = k]
                    BY <1>1, <4>2 DEF LockPayment
                <5>2. Bearer(k, o)
                    BY <1>1, <2>4 DEF Bearer, Jobs
                <5> HIDE DEF k
                <5> QED
                    BY <5>1, <5>2
            <4> QED
                BY <1>5, <4>1, <4>2
        <3>2. job'[w] = k
            BY <3>1 DEF IInv, TypeOK
        <3> QED
            BY <3>1, <3>2 DEF Answered, Bearer
    <2> QED
        BY <2>2, <2>3, <2>4 DEF Answered
<1> QED
    BY <1>2, <1>3, <1>4, <1>5 DEF Continues

(* An answer is not lost but with the request that brings it; a bill that   *)
(* takes the place of another one is new.                                   *)
LEMMA AnsweredSteps ==
    ASSUME IInv, Next, NEW o \in Orders, Answered(o), crashes' = 0
    PROVE  Answered(o)' \/ payment'[o].session \notin issued[o]
<1>1. payment[o] \in PaymentRow
    BY RowsTyped
<1>2. ASSUME payment'[o].view = payment[o].view,
             \A v \in Workers : Bearer(job[v], o) => job'[v] = job[v]
      PROVE  Answered(o)'
    BY <1>2 DEF Answered, Bearer
<1>3. CASE Untouched(o)
    <2>1. \A v \in Workers : Bearer(job[v], o) => job'[v] = job[v]
        BY <1>3 DEF Untouched, Works, Bearer
    <2> QED
        BY <1>2, <1>3, <2>1 DEF Untouched, Same
<1>4. ASSUME NEW m \in Methods, NEW f \in Fulfillments, Place(o, m, f)
      PROVE  Answered(o)'
    <2>1. payment'[o].view = payment[o].view /\ job' = job
        BY <1>1, <1>4 DEF Place, IInv, TypeOK, PaymentRow
    <2> QED
        BY <1>2, <2>1
<1>5. ASSUME NEW c \in Couriers, Claim(o, c) PROVE Answered(o)'
    BY <1>2, <1>5 DEF Claim
<1>6. CASE Expire(o)
    <2>1. payment'[o].view = payment[o].view /\ job' = job
        BY <1>1, <1>6 DEF Expire, IInv, TypeOK, PaymentRow
    <2> QED
        BY <1>2, <2>1
<1>7. CASE Begins(o)
    <2>1. PICK w, op, arg, seen :
              /\ w \in Workers /\ op \in Ops
              /\ Start(w, op, o, arg, seen) /\ UNCHANGED rows
        BY <1>7, BeginsStarts
    <2>2. \A v \in Workers : Bearer(job[v], o) => job'[v] = job[v]
        BY <2>1 DEF Start, Bearer, IInv, TypeOK
    <2> QED
        BY <1>2, <2>1, <2>2 DEF rows
<1>8. ASSUME NEW w \in Workers, Works(w, o), Continues(w)
      PROVE  Answered(o)' \/ payment'[o].session \notin issued[o]
    <2>1. ~Crash(w)
        BY DEF Crash, IInv, TypeOK
    <2>2. CASE SaveSession(w)
        <3>1. job[w].op = "session" /\ payment'[o].session = job[w].arg
            BY <1>1, <1>8, <2>2 DEF SaveSession, Works, IInv, TypeOK, PaymentRow
        <3>2. job[w].arg \notin issued[o]
            BY <1>8, <3>1 DEF Works, IInv, SessionsDiffer
        <3> QED
            BY <3>1, <3>2
    <2> QED
        BY <1>8, <2>1, <2>2, AnsweredContinues
<1> QED
    BY <1>3, <1>4, <1>5, <1>6, <1>7, <1>8, TouchedByStep DEF StepOn

(* Who writes sent, recorded and crashes. *)
LEMMA WhoWritesMail ==
    Next => \/ UNCHANGED <<sent, recorded, crashes>>
            \/ \E n \in Notification : Emit(n) \/ Unknown(n)
            \/ \E n \in Notification, w \in Workers : Record(w, n)
            \/ \E w \in Workers : Crash(w)
<1>1. ASSUME DeskNext PROVE UNCHANGED <<sent, recorded, crashes>>
    <2>1. ASSUME NEW w \in Workers, NEW o \in Orders,
                 \/ \E s \in Targets : StaffReads(w, o, s) \/ SellerReads(w, o, s)
                 \/ RequestReads(w, o)
                 \/ \E approve \in BOOLEAN : DecisionReads(w, o, approve)
                 \/ ReceiptReads(w, o)
          PROVE  UNCHANGED <<sent, recorded, crashes>>
        BY <2>1 DEF StaffReads, SellerReads, RequestReads, DecisionReads,
                    ReceiptReads
    <2>2. ASSUME NEW w \in Workers,
                 Move(w) \/ Request(w) \/ Reject(w) \/ Cancel(w)
          PROVE  UNCHANGED <<sent, recorded, crashes>>
        BY <2>2 DEF Move, Request, Reject, Cancel
    <2>3. ASSUME NEW w \in Workers, CancelConflict(w) \/ Receive(w)
          PROVE  UNCHANGED <<sent, recorded, crashes>>
        BY <2>3 DEF CancelConflict, Receive
    <2>4. ASSUME NEW o \in Orders, NEW m \in Methods, NEW f \in Fulfillments, Place(o, m, f)
          PROVE  UNCHANGED <<sent, recorded, crashes>>
        BY <2>4 DEF Place
    <2> QED
        BY <1>1, <2>1, <2>2, <2>3, <2>4 DEF DeskNext
<1>2. ASSUME CourierNext PROVE UNCHANGED <<sent, recorded, crashes>>
    <2>1. ASSUME NEW w \in Workers, NEW op, NEW o, NEW c, Reads(w, op, o, c)
          PROVE  UNCHANGED <<sent, recorded, crashes>>
        BY <2>1 DEF Reads
    <2>2. ASSUME NEW w \in Workers, NEW o \in Orders,
                 \/ UnassignReads(w, o)
                 \/ \E c \in Couriers :
                      \/ AcceptReads(w, o, c) \/ ReleaseReads(w, o, c)
                      \/ AssignReads(w, o, c) \/ PickUpReads(w, o, c)
                      \/ DeliverReads(w, o, c) \/ LocationReads(w, o, c)
          PROVE  UNCHANGED <<sent, recorded, crashes>>
        BY <2>1, <2>2 DEF UnassignReads, AcceptReads, ReleaseReads,
                          AssignReads, PickUpReads, DeliverReads, LocationReads
    <2>3. ASSUME NEW w \in Workers, Write(w) \/ PickUp(w) \/ Deliver(w)
          PROVE  UNCHANGED <<sent, recorded, crashes>>
        BY <2>3 DEF Write, PickUp, Deliver
    <2> QED
        BY <1>2, <2>2, <2>3 DEF CourierNext, Claim
<1>3. ASSUME PaymentNext
      PROVE  \/ UNCHANGED <<sent, recorded, crashes>>
             \/ \E n \in Notification : Emit(n) \/ Unknown(n)
             \/ \E n \in Notification, w \in Workers : Record(w, n)
    <2>1. ASSUME NEW w \in Workers,
                 \/ \E o \in Orders, s \in Sessions : OpenSnap(w, o, s)
                 \/ SaveSession(w) \/ SaveMethod(w)
                 \/ ReadPayment(w) \/ LockPayment(w) \/ Apply(w)
          PROVE  UNCHANGED <<sent, recorded, crashes>>
        BY <2>1 DEF OpenSnap, SaveSession, SaveMethod, ReadPayment, LockPayment,
                    Apply
    <2> QED
        BY <1>3, <2>1 DEF PaymentNext, Expire
<1> QED
    BY <1>1, <1>2, <1>3 DEF Next

LEMMA IssuedGrows ==
    ASSUME IInv, Next, NEW o \in Orders
    PROVE  issued[o] \subseteq issued'[o]
<1>1. CASE Untouched(o)
    BY <1>1 DEF Untouched, Same
<1>2. CASE Begins(o)
    BY <1>2, BeginsStarts DEF rows
<1>3. ASSUME NEW w \in Workers, Works(w, o), Continues(w)
      PROVE  issued[o] \subseteq issued'[o]
    <2>1. CASE SaveSession(w)
        BY <1>3, <2>1 DEF SaveSession, IInv, TypeOK
    <2>2. CASE Move(w) \/ Request(w) \/ Reject(w) \/ Cancel(w)
        BY <2>2 DEF Move, Request, Reject, Cancel
    <2>3. CASE CancelConflict(w) \/ Receive(w) \/ Crash(w) \/ Apply(w)
        BY <2>3 DEF CancelConflict, Receive, Crash, Apply
    <2>4. CASE Write(w) \/ PickUp(w) \/ Deliver(w)
        BY <2>4 DEF Write, PickUp, Deliver
    <2>5. CASE SaveMethod(w) \/ ReadPayment(w) \/ LockPayment(w)
        BY <2>5 DEF SaveMethod, ReadPayment, LockPayment
    <2> QED
        BY <1>3, <2>1, <2>2, <2>3, <2>4, <2>5 DEF Continues
<1>4. ASSUME NEW m \in Methods, NEW f \in Fulfillments, Place(o, m, f)
      PROVE  issued' = issued
    BY <1>4 DEF Place
<1>5. ASSUME NEW c \in Couriers, Claim(o, c) PROVE issued' = issued
    BY <1>5 DEF Claim
<1>6. Expire(o) => issued' = issued
    BY DEF Expire
<1> QED
    BY <1>1, <1>2, <1>3, <1>4, <1>5, <1>6, TouchedByStep DEF StepOn

LEMMA NewBillsAreNew ==
    ASSUME IInv, Next, NEW o \in Orders, payment'[o].session # payment[o].session
    PROVE  payment'[o].session \notin issued[o]
<1>1. payment[o] \in PaymentRow
    BY RowsTyped
<1>2. ~Untouched(o)
    BY DEF Untouched, Same
<1>3. ~Begins(o)
    BY BeginsStarts DEF rows
<1>4. ASSUME NEW w \in Workers, Works(w, o), Continues(w)
      PROVE  payment'[o].session \notin issued[o]
    <2>1. SaveSession(w)
        BY <1>4, SessionOnlySaved
    <2>2. job[w].op = "session" /\ payment'[o].session = job[w].arg
        BY <1>1, <1>4, <2>1 DEF SaveSession, Works, IInv, TypeOK, PaymentRow
    <2> QED
        BY <1>4, <2>2 DEF Works, IInv, SessionsDiffer
<1>5. ASSUME NEW m \in Methods, NEW f \in Fulfillments PROVE ~Place(o, m, f)
    BY <1>1 DEF Place, IInv, TypeOK, PaymentRow
<1>6. ASSUME NEW c \in Couriers PROVE ~Claim(o, c)
    BY DEF Claim
<1>7. ~Expire(o)
    BY <1>1 DEF Expire, IInv, TypeOK, PaymentRow
<1> QED
    BY <1>2, <1>3, <1>4, <1>5, <1>6, <1>7, TouchedByStep DEF StepOn

LEMMA KeysTell ==
    ASSUME NEW m, NEW n, Key(m) = Key(n)
    PROVE  m.order = n.order /\ m.session = n.session
BY DEF Key

LEMMA MailSteps ==
    ASSUME IInv, IInv', Next, Mail
    PROVE  Mail'
<1>1. \/ UNCHANGED <<sent, recorded, crashes>>
      \/ \E n \in Notification : Emit(n) \/ Unknown(n)
      \/ \E n \in Notification, w \in Workers : Record(w, n)
      \/ \E w \in Workers : Crash(w)
    BY WhoWritesMail
<1>2. sent \subseteq sent' /\ sent' \subseteq Notification
    BY <1>1 DEF Emit, Unknown, Record, Crash, IInv, TypeOK
<1>3. \A n \in sent' : n.order \in Orders
    BY <1>2 DEF Notification
<1>4. ASSUME NEW n \in sent' PROVE n.session \in issued'[n.order]
    <2>1. n.session \in issued[n.order]
        BY <1>1 DEF Emit, Unknown, Record, Crash, Mail
    <2> QED
        BY <1>3, <2>1, IssuedGrows
<1>5. ASSUME NEW key \in recorded' PROVE \E n \in sent' : Key(n) = key
    <2>1. \E n \in sent : Key(n) = key
        BY <1>1 DEF Emit, Unknown, Record, Crash, Mail
    <2> QED
        BY <1>2, <2>1
<1>6. ASSUME crashes' = 0, OneMeaning',
             NEW n \in sent', Key(n) \in recorded', ViewOf(n.report) = "PAID",
             n.session = payment'[n.order].session
      PROVE  Answered(n.order)'
    <2>1. crashes = 0 /\ OneMeaning
        <3>1. crashes = 0
            BY <1>1, <1>6 DEF Emit, Unknown, Record, Crash, IInv, TypeOK
        <3>2. \A a, b \in sent' : Key(a) = Key(b) => ViewOf(a.report) = ViewOf(b.report)
            BY <1>6 DEF OneMeaning
        <3> QED
            BY <1>2, <3>1, <3>2 DEF OneMeaning
    <2> DEFINE o == n.order
    <2>2. o \in Orders
        BY <1>3
    <2>3. \A m \in sent : Key(m) \in recorded /\ ViewOf(m.report) = "PAID"
                          /\ m.session = payment[m.order].session
                          => Answered(m.order)
        BY <2>1 DEF Mail
    <2>4. CASE n \in sent /\ Key(n) \in recorded
        <3>1. n.session \in issued[o]
            BY <2>4 DEF Mail
        <3>2. payment'[o].session = payment[o].session
            BY <1>6, <2>2, <3>1, NewBillsAreNew
        <3>3. Answered(o)
            BY <1>6, <2>3, <2>4, <3>2
        <3> QED
            BY <1>6, <2>2, <3>1, <3>3, AnsweredSteps
    <2>5. ASSUME NEW m \in Notification, Emit(m), n \notin sent
          PROVE  Answered(o)'
        <3>1. /\ UNCHANGED <<payment, job, recorded>>
            BY <2>5 DEF Emit
        <3>2. PICK a \in sent : Key(a) = Key(n)
            BY <1>6, <3>1 DEF Mail
        <3>3. ViewOf(a.report) = ViewOf(n.report)
            BY <1>2, <1>6, <3>2 DEF OneMeaning
        <3>4. a.order = o /\ a.session = n.session
            BY <3>2, KeysTell
        <3>5. Answered(o)
            BY <1>6, <2>3, <3>1, <3>2, <3>3, <3>4
        <3> QED
            BY <3>1, <3>5 DEF Answered
    <2>6. ASSUME NEW m \in Notification, Unknown(m), Key(n) \notin recorded
          PROVE  FALSE
        <3>1. Key(m) = Key(n) /\ m.session # payment[m.order].session
              /\ payment' = payment
            BY <1>6, <2>6 DEF Unknown
        <3> QED
            BY <1>6, <3>1, KeysTell
    <2>7. ASSUME NEW m \in Notification, NEW w \in Workers, Record(w, m),
                 Key(n) \notin recorded
          PROVE  Answered(o)'
        <3>1. Key(m) = Key(n) /\ m \in sent /\ n \in sent
            BY <1>6, <2>7 DEF Record
        <3>2. ViewOf(m.report) = "PAID" /\ m.order = o
            BY <1>6, <2>1, <3>1, KeysTell DEF OneMeaning
        <3>3. job'[w] = [op |-> "notified", order |-> o, arg |-> "PAID", seen |-> NoOrder]
            BY <2>7, <3>2 DEF Record, Begin, Start, IInv, TypeOK
        <3> QED
            BY <3>3 DEF Answered, Bearer
    <2>8. \/ n \in sent /\ Key(n) \in recorded
          \/ \E m \in Notification : Emit(m) /\ n \notin sent
          \/ \E m \in Notification : Unknown(m) /\ Key(n) \notin recorded
          \/ \E m \in Notification, w \in Workers : Record(w, m) /\ Key(n) \notin recorded
        <3>1. UNCHANGED <<sent, recorded>> => n \in sent /\ Key(n) \in recorded
            BY <1>6
        <3>2. ASSUME NEW m \in Notification, Emit(m) PROVE Key(n) \in recorded
            BY <1>6, <3>2 DEF Emit
        <3>3. ASSUME NEW m \in Notification, Unknown(m) PROVE n \in sent
            BY <1>6, <3>3 DEF Unknown
        <3>4. ASSUME NEW m \in Notification, NEW w \in Workers, Record(w, m) PROVE n \in sent
            BY <1>6, <3>4 DEF Record
        <3>5. ASSUME NEW w \in Workers, Crash(w) PROVE UNCHANGED <<sent, recorded>>
            BY <3>5 DEF Crash
        <3> QED
            BY <1>1, <3>1, <3>2, <3>3, <3>4, <3>5
    <2> QED
        BY <2>4, <2>5, <2>6, <2>7, <2>8
<1> QED
    BY <1>4, <1>5, <1>6 DEF Mail

LEMMA MailStutters ==
    ASSUME Mail, UNCHANGED vars
    PROVE  Mail'
BY DEF vars, Mail, OneMeaning, Answered, Bearer

(* A recorded notification that the current bill was paid is applied, or    *)
(* about to be, unless a request was lost or a notification of another      *)
(* meaning had taken its key: these two are all that recordEvent's early    *)
(* commit can cost, whatever else interleaves with the webhook.             *)
THEOREM RecordedMeansProcessed == Spec => []RecordedUnlessLost
<1>1. Init => Mail
    BY DEF Init, Mail
<1>2. IInv /\ IInv' /\ Mail /\ [Next]_vars => Mail'
    BY MailSteps, MailStutters
<1>3. IInv /\ Mail => RecordedUnlessLost
    <2> SUFFICES ASSUME IInv, Mail, crashes = 0, OneMeaning,
                        NEW n \in sent, Key(n) \in recorded, ViewOf(n.report) = "PAID",
                        n.session = payment[n.order].session,
                        \A w \in Workers : job[w].op # "idle" => job[w].order # n.order
                 PROVE  payment[n.order].view # "PENDING"
        BY DEF RecordedUnlessLost, RecordedIsProcessed
    <2>1. Answered(n.order)
        BY DEF Mail
    <2>2. \A w \in Workers : ~Bearer(job[w], n.order)
        BY DEF Bearer
    <2> QED
        BY <2>1, <2>2 DEF Answered
<1> QED
    BY RowsFitTogether, <1>1, <1>2, <1>3, PTL DEF Spec
=============================================================================
