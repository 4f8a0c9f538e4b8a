---------------------------- MODULE CourierTasks ----------------------------
(***************************************************************************)
(* The handlers of couriers and of the staff who assign them: CourierService *)
(* and the assigning, delivering and tracking half of DeliveryService.      *)
(* Every handler but claim reads the delivery, decides, and writes by id.   *)
(***************************************************************************)
EXTENDS OrderState

(* LOCKED_STATUSES: the goods are in a courier's hands, or past them. *)
Locked == {"PICKED_UP", "IN_TRANSIT", "COURIER_DELIVERED", "COMPLETED"}

PutDelivery(o, row) == delivery' = [delivery EXCEPT ![o] = row]

Exists(o) == delivery[o].status # "none"
Mine(o, c) == Exists(o) /\ delivery[o].courier = c

(* claim: one updateMany WHERE courierId IS NULL. *)
Claim(o, c) ==
    /\ Exists(o) /\ delivery[o].courier = Nobody
    /\ PutDelivery(o, [status |-> "ACCEPTED", courier |-> c])
    /\ UNCHANGED <<order, payment, refunded, restored, been, took, issued,
                   sent, recorded, job, crashes>>

(* What a handler read lets it begin; nothing is written yet. *)
Reads(w, op, o, arg) ==
    /\ Begin(w, op, o, arg)
    /\ UNCHANGED <<order, payment, delivery, refunded, restored, been, took,
                   issued, sent, recorded, crashes>>

(* accept: a task staff assigned to this courier. *)
AcceptReads(w, o, c) ==
    /\ Mine(o, c) /\ delivery[o].status = "ASSIGNED"
    /\ Reads(w, "accept", o, c)

(* release by the courier, before pick-up (RELEASABLE). *)
ReleaseReads(w, o, c) ==
    /\ Mine(o, c) /\ delivery[o].status \in {"ASSIGNED", "ACCEPTED"}
    /\ Reads(w, "release", o, c)

(* unassignCourier by staff writes the same as release. *)
UnassignReads(w, o) ==
    /\ Exists(o) /\ delivery[o].status \notin Locked
    /\ delivery[o].courier # Nobody
    /\ Reads(w, "release", o, Nobody)

AssignReads(w, o, c) ==
    /\ Exists(o) /\ delivery[o].status \notin Locked
    /\ Reads(w, "assign", o, c)

(* markPickedUp: accepted, and not picked up yet. *)
MayPickUp(o) == delivery[o].status = "ACCEPTED"

PickUpReads(w, o, c) ==
    /\ Mine(o, c) /\ MayPickUp(o)
    /\ Reads(w, "pickup", o, c)

(* markCourierDelivered: goods not picked up cannot have been delivered. *)
MayDeliver_Mutant(o) == delivery[o].status # "COURIER_DELIVERED"
MayDeliver(o) == delivery[o].status \in {"PICKED_UP", "IN_TRANSIT"}

DeliverReads(w, o, c) ==
    /\ Mine(o, c) /\ MayDeliver(o)
    /\ Reads(w, "deliver", o, c)

(* updateCourierLocation: the first position after the pick-up. *)
LocationReads(w, o, c) ==
    /\ Mine(o, c) /\ delivery[o].status = "PICKED_UP"
    /\ Reads(w, "transit", o, c)

(***************************************************************************)
(* The writes, each by the delivery's id alone.                             *)
(***************************************************************************)
Write(w) ==
    LET o == job[w].order
        op == job[w].op IN
    /\ op \in {"accept", "release", "assign", "transit"}
    /\ PutDelivery(o,
         CASE op = "accept"  -> [delivery[o] EXCEPT !.status = "ACCEPTED"]
           [] op = "release" -> [status |-> "ASSIGNED", courier |-> Nobody]
           [] op = "assign"  -> [status |-> "ASSIGNED", courier |-> job[w].arg]
           [] op = "transit" -> [delivery[o] EXCEPT !.status = "IN_TRANSIT"])
    /\ Finish(w)
    /\ UNCHANGED <<order, payment, refunded, restored, been, took, issued,
                   sent, recorded, crashes>>

(* The transaction of markPickedUp: an order that is not in preparation any *)
(* more is left alone.                                                      *)
PickUp(w) ==
    LET o == job[w].order IN
    /\ job[w].op = "pickup"
    /\ PutDelivery(o, [delivery[o] EXCEPT !.status = "PICKED_UP"])
    /\ took' = [took EXCEPT ![o] = job[w].arg]
    /\ IF order[o].status \in {"READY_FOR_DELIVERY", "PROCESSING"}
       THEN PutOrder(o, [order[o] EXCEPT !.status = "OUT_FOR_DELIVERY"])
       ELSE UNCHANGED <<order, been>>
    /\ Finish(w)
    /\ UNCHANGED <<payment, refunded, restored, issued, sent, recorded,
                   crashes>>

(* The transaction of markCourierDelivered. *)
Deliver(w) ==
    LET o == job[w].order IN
    /\ job[w].op = "deliver"
    /\ PutDelivery(o, [delivery[o] EXCEPT !.status = "COURIER_DELIVERED"])
    /\ PutOrder(o, [order[o] EXCEPT !.status = "DELIVERED"])
    /\ Finish(w)
    /\ UNCHANGED <<payment, refunded, restored, took, issued, sent, recorded,
                   crashes>>

CourierNext ==
    \/ \E o \in Orders, c \in Couriers : Claim(o, c)
    \/ \E w \in Workers :
         \/ \E o \in Orders :
              \/ UnassignReads(w, o)
              \/ \E c \in Couriers :
                   \/ AcceptReads(w, o, c) \/ ReleaseReads(w, o, c)
                   \/ AssignReads(w, o, c) \/ PickUpReads(w, o, c)
                   \/ DeliverReads(w, o, c) \/ LocationReads(w, o, c)
         \/ Write(w) \/ PickUp(w) \/ Deliver(w)
=============================================================================
