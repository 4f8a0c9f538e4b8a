----------------------------- MODULE OrderState -----------------------------
(***************************************************************************)
(* The rows every handler of an order works on: Order, its one Payment and  *)
(* its one Delivery, and the requests in flight.  OrderDesk, CourierTasks   *)
(* and OrderPayment add the handlers, Marketplace composes them.            *)
(*                                                                          *)
(* Nearly every handler reads the order first, outside any transaction,     *)
(* decides, and writes later without checking again: one action begins a    *)
(* job with what was read, a later one commits it.  Requests of any other   *)
(* worker run in between.                                                   *)
(***************************************************************************)
EXTENDS Integers

CONSTANTS
    Orders,         \* order ids
    Workers,        \* requests in flight at the same time
    Couriers,       \* courier accounts of the order's cooperative
    Methods,        \* payment methods customers choose in this instance
    Fulfillments,   \* how customers receive their goods in this instance
    MaxRestores,    \* bound: stock restorations of one order
    Targets,        \* the statuses staff and sellers write in this instance
    Sessions,       \* Snap sessions that can be issued (bound) for each order
    MaxCrashes,     \* bound: requests lost in one behaviour
    Reports,        \* the <<transaction_status, fraud_status>> Midtrans uses
    Nobody          \* no courier

Statuses == {"PENDING", "PAID", "PROCESSING", "READY_FOR_DELIVERY",
             "OUT_FOR_DELIVERY", "DELIVERED", "COMPLETED", "CANCELLED"}

ASSUME NobodyAssumption == Nobody \notin Couriers
ASSUME ChoicesAssumption ==
    /\ Methods \subseteq {"COD", "WALLET", "MIDTRANS"}
    /\ Fulfillments \subseteq {"DELIVERY", "PICKUP"}
    /\ Targets \subseteq Statuses
ASSUME SessionsAssumption == "none" \notin Sessions
ASSUME BoundsAssumption == MaxRestores \in Nat

VARIABLES
    order,      \* the Order row of each id
    payment,    \* its Payment row
    delivery,   \* its Delivery row
    refunded,   \* orders with a refund:{id} entry in the wallet ledger
    restored,   \* how often an order's goods were put back into stock
    been,       \* every status the order has had, its history
    took,       \* the courier who last took the goods out of the shop
    issued,     \* the Snap sessions customers were given for the order
    sent,       \* notifications Midtrans has emitted; they are never used up
    recorded,   \* PaymentWebhookEvent rows, by their unique key
    job,        \* the request each worker is running
    crashes     \* requests lost so far

vars == <<order, payment, delivery, refunded, restored, been, took, issued,
          sent, recorded, job, crashes>>

PaymentStatuses == {"PENDING", "PAID", "FAILED", "REFUNDED"}
Views == {"PENDING", "PAID", "DENIED", "CANCELLED", "EXPIRED", "FAILED",
          "REFUNDED"}
DeliveryStatuses == {"ASSIGNED", "ACCEPTED", "PICKED_UP", "IN_TRANSIT",
                     "COURIER_DELIVERED", "COMPLETED"}

(***************************************************************************)
(* cancel stands for cancelRequestedAt and cancelDecidedAt; view for        *)
(* Payment.transactionStatus and fraudStatus, as viewFromMidtrans reads     *)
(* them; expired for expiryTime being past.                                 *)
(***************************************************************************)
OrderRow == [status : Statuses \cup {"none"}, paid : PaymentStatuses,
             method : {"COD", "WALLET", "MIDTRANS"},
             fulfillment : {"DELIVERY", "PICKUP"},
             cancel : {"NONE", "REQUESTED", "DECIDED"}]
PaymentRow == [status : PaymentStatuses, view : Views,
               session : Sessions \cup {"none"}, expired : BOOLEAN]
DeliveryRow == [status : DeliveryStatuses \cup {"none"},
                courier : Couriers \cup {Nobody}]

Notification == [order : Orders, session : Sessions, report : Reports]

(* ALLOWED_ORDER_TRANSITIONS and canTransition. *)
Allowed ==
    [PENDING |-> {"PROCESSING", "PAID", "CANCELLED"},
     PAID |-> {"PROCESSING", "CANCELLED"},
     PROCESSING |-> {"READY_FOR_DELIVERY", "CANCELLED"},
     READY_FOR_DELIVERY |-> {"OUT_FOR_DELIVERY", "CANCELLED"},
     OUT_FOR_DELIVERY |-> {"DELIVERED"},
     DELIVERED |-> {"COMPLETED"},
     COMPLETED |-> {},
     CANCELLED |-> {}]

CanTransition_Mutant(from, to) == from # to     \* any status, as it once was
CanTransition(from, to) == to \in Allowed[from]

NoOrder == [status |-> "none", paid |-> "PENDING", method |-> "MIDTRANS",
            fulfillment |-> "DELIVERY", cancel |-> "NONE"]

Init ==
    /\ order = [o \in Orders |-> NoOrder]
    /\ payment = [o \in Orders |->
                    [status |-> "PENDING", view |-> "PENDING",
                     session |-> "none", expired |-> FALSE]]
    /\ delivery = [o \in Orders |-> [status |-> "none", courier |-> Nobody]]
    /\ refunded = {}
    /\ restored = [o \in Orders |-> 0]
    /\ been = [o \in Orders |-> {}]
    /\ took = [o \in Orders |-> Nobody]
    /\ issued = [o \in Orders |-> {}]
    /\ sent = {}
    /\ recorded = {}
    /\ job = [w \in Workers |-> [op |-> "idle"]]
    /\ crashes = 0

Placed(o) == order[o].status # "none"

(***************************************************************************)
(* Jobs: op is the write that is due, arg what the request or the read adds *)
(* (a status, a courier, a session, a view), seen the order as the handler  *)
(* read it, kept where the write uses it.                                   *)
(***************************************************************************)
Start(w, op, o, arg, seen) ==
    /\ job[w].op = "idle"
    /\ job' = [job EXCEPT ![w] =
                 [op |-> op, order |-> o, arg |-> arg, seen |-> seen]]

Begin(w, op, o, arg) == Start(w, op, o, arg, NoOrder)
BeginSeen(w, op, o) == Start(w, op, o, "none", order[o])

Goto(w, op) == job' = [job EXCEPT ![w].op = op]
Finish(w) == job' = [job EXCEPT ![w] = [op |-> "idle"]]

(* Write the Order row. *)
PutOrder(o, row) ==
    /\ order' = [order EXCEPT ![o] = row]
    /\ been' = [been EXCEPT ![o] = @ \cup {row.status}]

(* Every item's stock is incremented by its quantity. *)
Restore_Mutant(o) == restored' = restored       \* the goods are forgotten
Restore(o) ==
    /\ restored[o] < MaxRestores
    /\ restored' = [restored EXCEPT ![o] = @ + 1]

(* No webhook transaction holds the lock of the Payment row. *)
PaymentFree(o) ==
    \A w \in Workers : ~(job[w].op = "applying" /\ job[w].order = o)

(***************************************************************************)
(* A request is lost: the instance dies, the transaction times out or is    *)
(* the victim of a deadlock.  PostgreSQL rolls the open transaction back;   *)
(* what was committed before it stays.                                      *)
(***************************************************************************)
Crash(w) ==
    /\ job[w].op # "idle" /\ crashes < MaxCrashes
    /\ crashes' = crashes + 1
    /\ Finish(w)
    /\ UNCHANGED <<order, payment, delivery, refunded, restored, been, took,
                   issued, sent, recorded>>
=============================================================================
