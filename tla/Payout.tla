------------------------------- MODULE Payout -------------------------------
(***************************************************************************)
(* PayoutService: sellers withdraw what completed orders earned them, staff *)
(* transfers or rejects.  There is no balance column; request() adds up the *)
(* orders and the payouts inside a transaction that holds the UMKM row lock, *)
(* each with a statement of its own under READ COMMITTED.                   *)
(***************************************************************************)
EXTENDS Integers, FiniteSetsExt

CONSTANTS
    Shops,      \* UMKM ids
    Payouts,    \* UMKMPayout ids
    Workers,    \* requests in flight at the same time
    Sales,      \* item values of an order
    MaxGross,   \* bound: value of a shop's completed orders
    Amounts,    \* amounts sellers ask for
    Minimum,    \* PAYOUT_RULES.minWithdrawal
    FeePercent, \* PAYOUT_RULES.feePercent
    Nobody      \* no worker

ASSUME NobodyAssumption == Nobody \notin Workers
ASSUME RulesAssumption == Minimum \in Nat \ {0} /\ FeePercent \in 0 .. 100
ASSUME ValuesAssumption == Sales \subseteq Nat /\ Amounts \subseteq Nat
                           /\ MaxGross \in Nat
ASSUME PayoutsAssumption == IsFiniteSet(Payouts)

VARIABLES
    gross,      \* items of COMPLETED orders that were not refunded
    peak,       \* the most gross has ever been, its history
    account,    \* shops with a bank account
    verified,   \* shops with status ACTIVE
    payout,     \* the UMKMPayout rows
    closed,     \* <<payout, outcome>> answered with success to staff
    lock,       \* the worker holding the row lock of a shop, or Nobody
    job         \* the request() each worker is running

vars == <<gross, peak, account, verified, payout, closed, lock, job>>

NoPayout == [status |-> "none"]
Row == [status : {"REQUESTED", "PAID", "REJECTED"}, shop : Shops, amount : Nat]
Idle == [phase |-> "idle"]
Job == [phase : {"begun", "locked", "counted", "summed"}, shop : Shops,
        amount : Amounts, active : BOOLEAN, gross : Nat, requested : Nat,
        paid : Nat]

(* splitFee: Math.round of the fee, the rest is the seller's. *)
Fee(value) == (value * FeePercent + 50) \div 100
Net(value) == value - Fee(value)

(* What payouts of these statuses take from a shop. *)
Sum(u, statuses) ==
    LET open == {p \in Payouts : payout[p].status \in statuses
                                 /\ payout[p].shop = u}
    IN  MapThenSumSet(LAMBDA p : payout[p].amount, open)

(* No transaction holds the row lock of the shop. *)
RowFree_Mutant(u) == TRUE               \* SELECT without FOR UPDATE
RowFree(u) == lock[u] = Nobody

Init ==
    /\ gross = [u \in Shops |-> 0]
    /\ peak = [u \in Shops |-> 0]
    /\ account = {}
    /\ verified = Shops
    /\ payout = [p \in Payouts |-> NoPayout]
    /\ closed = {}
    /\ lock = [u \in Shops |-> Nobody]
    /\ job = [w \in Workers |-> Idle]

-----------------------------------------------------------------------------
(***************************************************************************)
(* Around it: orders are completed, and a completed order may still be      *)
(* cancelled; staff verifies a shop; the seller gives a bank account.        *)
(***************************************************************************)
SetGross(u, value) ==
    /\ gross' = [gross EXCEPT ![u] = value]
    /\ peak' = [peak EXCEPT ![u] = IF @ < value THEN value ELSE @]
    /\ UNCHANGED <<account, verified, payout, closed, lock, job>>

OrderCompleted(u, value) ==
    gross[u] + value <= MaxGross /\ SetGross(u, gross[u] + value)
OrderUndone(u, value) ==
    gross[u] >= value /\ SetGross(u, gross[u] - value)

(* The account's foreign key and the status both wait for the shop's row.   *)
UpsertBankAccount(u) ==
    /\ u \notin account /\ RowFree(u)
    /\ account' = account \cup {u}
    /\ UNCHANGED <<gross, peak, verified, payout, closed, lock, job>>

(* verifyUmkm: staff admits the shop, or suspends it. *)
VerifyUmkm(u) ==
    /\ RowFree(u)
    /\ verified' = IF u \in verified THEN verified \ {u} ELSE verified \cup {u}
    /\ UNCHANGED <<gross, peak, account, payout, closed, lock, job>>

-----------------------------------------------------------------------------
(***************************************************************************)
(* request().                                                               *)
(***************************************************************************)

(* umkmOf reads the shop's status before the row is locked. *)
Begin(w, u, amount) ==
    /\ job[w] = Idle
    /\ job' = [job EXCEPT ![w] = [phase |-> "begun", shop |-> u,
                                  amount |-> amount,
                                  active |-> u \in verified, gross |-> 0,
                                  requested |-> 0, paid |-> 0]]
    /\ UNCHANGED <<gross, peak, account, verified, payout, closed, lock>>

(* SELECT "id" FROM "UMKM" ... FOR UPDATE. *)
Lock(w) ==
    /\ job[w].phase = "begun"
    /\ RowFree(job[w].shop)
    /\ lock' = [lock EXCEPT ![job[w].shop] = w]
    /\ job' = [job EXCEPT ![w].phase = "locked"]
    /\ UNCHANGED <<gross, peak, account, verified, payout, closed>>

(* balances: the orders. *)
CountOrders(w) ==
    /\ job[w].phase = "locked"
    /\ job' = [job EXCEPT ![w] = [@ EXCEPT !.phase = "counted",
                                           !.gross = gross[job[w].shop]]]
    /\ UNCHANGED <<gross, peak, account, verified, payout, closed, lock>>

(* balances: the payouts, in one groupBy. *)
SumPayouts(w) ==
    LET u == job[w].shop IN
    /\ job[w].phase = "counted"
    /\ job' = [job EXCEPT ![w] = [@ EXCEPT !.phase = "summed",
                                           !.requested = Sum(u, {"REQUESTED"}),
                                           !.paid = Sum(u, {"PAID"})]]
    /\ UNCHANGED <<gross, peak, account, verified, payout, closed, lock>>

(* balances: available is shown as zero where it is negative. *)
Available_Mutant(j) == Max({0, Net(j.gross) - j.requested})   \* PAID forgotten
Available(j) == Max({0, Net(j.gross) - j.requested - j.paid})

(* blockers, then the checks of the amount. *)
Pending_Mutant(j) == FALSE             \* left to the screen
Pending(j) == j.requested > 0

Granted(j) ==
    /\ j.active /\ j.shop \in account
    /\ ~Pending(j)
    /\ Available(j) >= Minimum
    /\ j.amount >= Minimum /\ j.amount <= Available(j)

(* The request is written and committed. *)
Create(w, p) ==
    LET j == job[w] IN
    /\ j.phase = "summed" /\ Granted(j)
    /\ payout[p] = NoPayout
    /\ payout' = [payout EXCEPT ![p] = [status |-> "REQUESTED",
                                        shop |-> j.shop, amount |-> j.amount]]
    /\ lock' = [lock EXCEPT ![j.shop] = Nobody]
    /\ job' = [job EXCEPT ![w] = Idle]
    /\ UNCHANGED <<gross, peak, account, verified, closed>>

(* A blocker, or the transaction is lost: it rolls back. *)
RollBack(w) ==
    /\ job[w] # Idle
    /\ lock' = [u \in Shops |-> IF lock[u] = w THEN Nobody ELSE lock[u]]
    /\ job' = [job EXCEPT ![w] = Idle]
    /\ UNCHANGED <<gross, peak, account, verified, payout, closed>>

(* close: updateMany WHERE status = REQUESTED, else a conflict. *)
Open_Mutant(p) == payout[p] # NoPayout  \* read before, written by id
Open(p) == payout[p].status = "REQUESTED"

Close(p, outcome) ==
    /\ Open(p)
    /\ payout' = [payout EXCEPT ![p].status = outcome]
    /\ closed' = closed \cup {<<p, outcome>>}
    /\ UNCHANGED <<gross, peak, account, verified, lock, job>>

Next ==
    \/ \E u \in Shops :
         \/ \E v \in Sales : OrderCompleted(u, v) \/ OrderUndone(u, v)
         \/ UpsertBankAccount(u) \/ VerifyUmkm(u)
    \/ \E w \in Workers :
         \/ \E u \in Shops, a \in Amounts : Begin(w, u, a)
         \/ Lock(w) \/ CountOrders(w) \/ SumPayouts(w) \/ RollBack(w)
         \/ \E p \in Payouts : Create(w, p)
    \/ \E p \in Payouts, outcome \in {"PAID", "REJECTED"} : Close(p, outcome)

Spec == Init /\ [][Next]_vars
-----------------------------------------------------------------------------
(* Rows, locks and requests keep their types. *)
TypeOK ==
    /\ gross \in [Shops -> 0 .. MaxGross]
    /\ peak \in [Shops -> 0 .. MaxGross]
    /\ account \subseteq Shops
    /\ verified \subseteq Shops
    /\ payout \in [Payouts -> Row \cup {NoPayout}]
    /\ closed \subseteq Payouts \X {"PAID", "REJECTED"}
    /\ lock \in [Shops -> Workers \cup {Nobody}]
    /\ job \in [Workers -> Job \cup {Idle}]

(* Two taps on "withdraw", from two phones or a network that repeats them,  *)
(* never both pass: a shop has at most one request waiting for its transfer. *)
OneOpenRequest ==
    \A p, q \in Payouts :
        /\ payout[p].status = "REQUESTED" /\ payout[q].status = "REQUESTED"
        /\ payout[p].shop = payout[q].shop
        => p = q

(* What a shop has asked for and been paid never exceeds the seller's share *)
(* of what its orders had earned at some time; that an order is undone      *)
(* between the count and the commit, or later, is the only way past it.     *)
NeverOverdrawn ==
    \A u \in Shops : Sum(u, {"REQUESTED", "PAID"}) <= Net(peak[u])

(* Two staff members who press at the same time do not both succeed: each   *)
(* request is answered once, and its row says how.                          *)
ClosedOnce ==
    \A c \in closed :
        /\ payout[c[1]].status = c[2]
        /\ \A d \in closed : c[1] = d[1] => c = d

(* The promise this module keeps: what sums over the rows say at separate    *)
(* moments is one account per shop.                                         *)
Share == [u \in Shops |-> Net(peak[u])]
Drawn == [u \in Shops |-> Sum(u, {"REQUESTED", "PAID"})]

Promise == INSTANCE Withdrawals WITH share <- Share, drawn <- Drawn

(* A withdrawal is one step of Withdrawals, the commit of request(): it takes  *)
(* its amount from an account that holds it while nothing else is open, and   *)
(* an answer of staff, one for each request, gives all of it back or none.    *)
WithdrawsAtOnce == Promise!Spec
=============================================================================
