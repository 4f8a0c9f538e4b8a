------------------------------- MODULE Wallet -------------------------------
(***************************************************************************)
(* The citizen wallet of WalletService: a balance per user, the append-only *)
(* WalletEntry table that explains it, the top-ups paid through Midtrans,   *)
(* and the orders paid from and refunded to the balance.                    *)
(*                                                                          *)
(* Every mutation is a database transaction of one request, run by one of   *)
(* the Workers (serverless instances share nothing but the database).  The  *)
(* transaction is three steps that other requests interleave with: what the *)
(* handler reads before it touches the wallet, SELECT ... FOR UPDATE on the *)
(* wallet row, and the insert, updates and commit.  PostgreSQL runs at READ *)
(* COMMITTED, so nothing of a transaction is seen before its commit.        *)
(***************************************************************************)
EXTENDS Integers, Sequences

CONSTANTS
    Users,          \* wallet owners
    TopUps,         \* WalletTopUp ids
    Orders,         \* ids of orders whose payment method is WALLET
    Workers,        \* requests in flight at the same time
    Owner,          \* the user a top-up or an order belongs to
    Value,          \* the amount of a top-up, the total of an order
    Reports,        \* the <<transaction_status, fraud_status>> Midtrans uses
    Adjustments,    \* amounts a super admin may correct a balance by
    MaxAdjustments, \* bound: corrections in one behaviour
    MaxCrashes,     \* bound: transactions lost to a crash in one behaviour
    Nobody          \* neither a worker nor a reference

Refs == TopUps \cup Orders

ASSUME OwnerAssumption == Owner \in [Refs -> Users]
ASSUME ValueAssumption == Value \in [Refs -> Nat \ {0}]
ASSUME NobodyAssumption == Nobody \notin Workers \cup Refs
ASSUME AdjustmentsAssumption == Adjustments \subseteq Int \ {0}

VARIABLES
    balance,    \* Wallet.balance
    ledger,     \* the WalletEntry rows of a wallet, in commit order
    topUp,      \* WalletTopUp.status, "none" before the row exists
    charged,    \* top-ups with a Snap session at Midtrans
    order,      \* Payment.status of the order, "none" before it exists
    lock,       \* the worker holding the row lock of a wallet, or Nobody
    job,        \* the transaction each worker is running
    sent,       \* notifications Midtrans has emitted; they are never used up
    acked,      \* notifications answered with HTTP 200
    threw,      \* notifications answered with an error at least once
    adjusted,   \* corrections so far
    crashes     \* crashes so far

vars == <<balance, ledger, topUp, charged, order, lock, job, sent, acked,
          threw, adjusted, crashes>>

Kinds == {"topup", "order", "refund", "manual"}
Notification == [topUp : TopUps, report : Reports]

(***************************************************************************)
(* An entry's idempotency key is its kind and reference: topup:{id},        *)
(* order:{id}, refund:{id}; a manual correction has none.                   *)
(***************************************************************************)
Entry == [amount : Int, after : Int, kind : Kinds, ref : Refs \cup {Nobody}]

Job == {j \in [phase : {"begun", "locked"}, kind : Kinds,
               ref : Refs \cup {Nobody}, user : Users, amount : Int,
               base : Int, note : Notification \cup {Nobody}] :
          j.kind = "topup" => j.ref \in TopUps /\ j.note \in Notification}

Idle == [phase |-> "idle"]

Running(w) == job[w].phase # "idle"

(* A key of the WalletEntry.idempotencyKey unique index is taken. *)
Posted(kind, ref) ==
    \E u \in Users : \E i \in DOMAIN ledger[u] :
        ledger[u][i].kind = kind /\ ledger[u][i].ref = ref

KeyTaken_Mutant(kind, ref) == FALSE     \* no unique index
KeyTaken(kind, ref) == kind # "manual" /\ Posted(kind, ref)

(* No other transaction holds the row lock of the wallet. *)
RowFree_Mutant(u) == TRUE               \* SELECT without FOR UPDATE
RowFree(u) == lock[u] = Nobody

(* creditTopUp's check, on what it read. *)
NotCredited_Mutant(t) == topUp[t] = "PENDING"   \* closed ones are skipped
NotCredited(t) == topUp[t] # "PAID"

(* "Saldo tidak mencukupi" unless the amount can be posted. *)
Covers_Mutant(amount, current) == current + amount >= -1   \* off by one
Covers(amount, current) == current + amount >= 0

(* Status `settlement`, or `capture` whose fraud review accepted it. *)
IsPaid_Mutant(report) == report[1] \in {"settlement", "capture"}
IsPaid(report) ==
    \/ report[1] = "settlement"
    \/ report[1] = "capture" /\ report[2] = "accept"

ClosedAs_Mutant(report) ==              \* Midtrans's word, not the status
    IF report[1] \in {"expire", "cancel", "deny", "failure"}
    THEN report[1] ELSE "none"
ClosedAs(report) ==
    CASE report[1] = "expire" -> "EXPIRED"
      [] report[1] \in {"cancel", "deny", "failure"} -> "FAILED"
      [] OTHER -> "none"

Init ==
    /\ balance = [u \in Users |-> 0]
    /\ ledger = [u \in Users |-> <<>>]
    /\ topUp = [t \in TopUps |-> "none"]
    /\ charged = {}
    /\ order = [o \in Orders |-> "none"]
    /\ lock = [u \in Users |-> Nobody]
    /\ job = [w \in Workers |-> Idle]
    /\ sent = {}
    /\ acked = {}
    /\ threw = {}
    /\ adjusted = 0
    /\ crashes = 0

-----------------------------------------------------------------------------
(***************************************************************************)
(* Top-ups: POST /wallet/topup and Midtrans.                                *)
(***************************************************************************)

(* createTopUp: the row is committed before Midtrans is called. *)
CreateTopUp(t) ==
    /\ topUp[t] = "none"
    /\ topUp' = [topUp EXCEPT ![t] = "PENDING"]
    /\ UNCHANGED <<balance, ledger, charged, order, lock, job, sent, acked,
                   threw, adjusted, crashes>>

(* createSnapTransaction answers with a token. *)
SnapOpened(t) ==
    /\ topUp[t] = "PENDING" /\ t \notin charged
    /\ charged' = charged \cup {t}
    /\ UNCHANGED <<balance, ledger, topUp, order, lock, job, sent, acked,
                   threw, adjusted, crashes>>

(* closeTopUp: updateMany WHERE status = PENDING. *)
CloseTopUp_Mutant(t, status) == topUp' = [topUp EXCEPT ![t] = status]
CloseTopUp(t, status) ==
    topUp' = [topUp EXCEPT ![t] = IF @ = "PENDING" THEN status ELSE @]

(* createSnapTransaction fails: the catch handler closes the row. *)
SnapFailed(t) ==
    /\ topUp[t] = "PENDING" /\ t \notin charged
    /\ CloseTopUp(t, "FAILED")
    /\ UNCHANGED <<balance, ledger, charged, order, lock, job, sent, acked,
                   threw, adjusted, crashes>>

(***************************************************************************)
(* Midtrans emits a notification.  One Snap session allows several payment  *)
(* attempts under one order_id, so a denied or challenged attempt may be    *)
(* followed by a paid one; after a payment the session cannot expire, after *)
(* an expiry it cannot be paid.  Emitted notifications may be delivered     *)
(* late, in any order and again and again.                                  *)
(***************************************************************************)
Emit(n) ==
    /\ n \notin sent /\ n.topUp \in charged
    /\ \A m \in sent : m.topUp = n.topUp =>
         /\ IsPaid(n.report) => ClosedAs(m.report) # "EXPIRED"
         /\ IsPaid(m.report) => ClosedAs(n.report) # "EXPIRED"
    /\ sent' = sent \cup {n}
    /\ UNCHANGED <<balance, ledger, topUp, charged, order, lock, job, acked,
                   threw, adjusted, crashes>>

(* handleTopUpNotification with a status that closes or leaves the top-up. *)
DeliverUnpaid(n) ==
    /\ n \in sent /\ ~IsPaid(n.report)
    /\ acked' = acked \cup {n}
    /\ IF ClosedAs(n.report) = "none"
       THEN UNCHANGED topUp
       ELSE CloseTopUp(n.topUp, ClosedAs(n.report))
    /\ UNCHANGED <<balance, ledger, charged, order, lock, job, sent, threw,
                   adjusted, crashes>>

(* creditTopUp finds the top-up already PAID: an answer, not an error. *)
DeliverAlreadyCredited(n) ==
    /\ n \in sent /\ IsPaid(n.report) /\ ~NotCredited(n.topUp)
    /\ acked' = acked \cup {n}
    /\ UNCHANGED <<balance, ledger, topUp, charged, order, lock, job, sent,
                   threw, adjusted, crashes>>

(* The start of a transaction that will post one entry. *)
Begin(w, kind, ref, user, amount, note) ==
    /\ ~Running(w)
    /\ job' = [job EXCEPT ![w] =
                 [phase |-> "begun", kind |-> kind, ref |-> ref, user |-> user,
                  amount |-> amount, base |-> 0, note |-> note]]

(* creditTopUp reads the top-up, not PAID, without locking it. *)
BeginCredit(w, n) ==
    /\ n \in sent /\ IsPaid(n.report) /\ NotCredited(n.topUp)
    /\ Begin(w, "topup", n.topUp, Owner[n.topUp], Value[n.topUp], n)
    /\ UNCHANGED <<balance, ledger, topUp, charged, order, lock, sent, acked,
                   threw, adjusted, crashes>>

-----------------------------------------------------------------------------
(***************************************************************************)
(* Orders and corrections.                                                  *)
(***************************************************************************)

(* settleWalletPayment, inside the transaction that creates the order: the  *)
(* order id is fresh, so no other transaction is paying it.                 *)
BeginDebit(w, o) ==
    /\ order[o] = "none"
    /\ \A v \in Workers : Running(v) => job[v].kind # "order" \/ job[v].ref # o
    /\ Begin(w, "order", o, Owner[o], -Value[o], Nobody)
    /\ UNCHANGED <<balance, ledger, topUp, charged, order, lock, sent, acked,
                   threw, adjusted, crashes>>

(* applyCancellation: the caller read the order, PAID, before the           *)
(* transaction, and nothing reads it again inside.                          *)
BeginRefund(w, o) ==
    /\ order[o] = "PAID"
    /\ Begin(w, "refund", o, Owner[o], Value[o], Nobody)
    /\ UNCHANGED <<balance, ledger, topUp, charged, order, lock, sent, acked,
                   threw, adjusted, crashes>>

(* adjust, POST /super-admin/wallet/adjust: it carries no key. *)
BeginAdjust(w, u, amount) ==
    /\ adjusted < MaxAdjustments
    /\ adjusted' = adjusted + 1
    /\ Begin(w, "manual", Nobody, u, amount, Nobody)
    /\ UNCHANGED <<balance, ledger, topUp, charged, order, lock, sent, acked,
                   threw, crashes>>

-----------------------------------------------------------------------------
(***************************************************************************)
(* post(): the one path that writes a balance.                              *)
(***************************************************************************)

(* SELECT "balance" ... FOR UPDATE: waits for the row lock, then reads. *)
LockWallet(w) ==
    LET j == job[w] IN
    /\ j.phase = "begun"
    /\ RowFree(j.user)
    /\ Covers(j.amount, balance[j.user])
    /\ lock' = [lock EXCEPT ![j.user] = w]
    /\ job' = [job EXCEPT ![w] = [j EXCEPT !.phase = "locked",
                                           !.base = balance[j.user]]]
    /\ UNCHANGED <<balance, ledger, topUp, charged, order, sent, acked, threw,
                   adjusted, crashes>>

(* "Saldo tidak mencukupi": the transaction rolls back. *)
Insufficient(w) ==
    LET j == job[w] IN
    /\ j.phase = "begun"
    /\ RowFree(j.user)
    /\ ~Covers(j.amount, balance[j.user])
    /\ job' = [job EXCEPT ![w] = Idle]
    /\ UNCHANGED <<balance, ledger, topUp, charged, order, lock, sent, acked,
                   threw, adjusted, crashes>>

(* What the caller writes in the same transaction as the entry. *)
CallerUpdates(j) ==
    /\ topUp' = IF j.kind = "topup" THEN [topUp EXCEPT ![j.ref] = "PAID"]
                                    ELSE topUp
    /\ order' = CASE j.kind = "order"  -> [order EXCEPT ![j.ref] = "PAID"]
                  [] j.kind = "refund" -> [order EXCEPT ![j.ref] = "REFUNDED"]
                  [] OTHER             -> order

(* walletEntry.create, wallet.update, the caller's updates, COMMIT. *)
Commit(w) ==
    LET j == job[w]
        after == j.base + j.amount IN
    /\ j.phase = "locked"
    /\ ~KeyTaken(j.kind, j.ref)
    /\ ledger' = [ledger EXCEPT ![j.user] =
                    Append(@, [amount |-> j.amount, after |-> after,
                               kind |-> j.kind, ref |-> j.ref])]
    /\ balance' = [balance EXCEPT ![j.user] = after]
    /\ CallerUpdates(j)
    /\ acked' = IF j.kind = "topup" THEN acked \cup {j.note} ELSE acked
    /\ lock' = [lock EXCEPT ![j.user] = Nobody]
    /\ job' = [job EXCEPT ![w] = Idle]
    /\ UNCHANGED <<charged, sent, threw, adjusted, crashes>>

(* walletEntry.create hits the unique index: the exception rolls the        *)
(* transaction back and leaves the handler, nobody catches it.              *)
KeyConflict(w) ==
    LET j == job[w] IN
    /\ j.phase = "locked"
    /\ KeyTaken(j.kind, j.ref)
    /\ threw' = IF j.kind = "topup" THEN threw \cup {j.note} ELSE threw
    /\ lock' = [lock EXCEPT ![j.user] = Nobody]
    /\ job' = [job EXCEPT ![w] = Idle]
    /\ UNCHANGED <<balance, ledger, topUp, charged, order, sent, acked,
                   adjusted, crashes>>

(* The instance dies or loses the database: PostgreSQL rolls back. *)
Crash(w) ==
    /\ Running(w) /\ crashes < MaxCrashes
    /\ crashes' = crashes + 1
    /\ lock' = [u \in Users |-> IF lock[u] = w THEN Nobody ELSE lock[u]]
    /\ job' = [job EXCEPT ![w] = Idle]
    /\ UNCHANGED <<balance, ledger, topUp, charged, order, sent, acked, threw,
                   adjusted>>

Post(w) == LockWallet(w) \/ Insufficient(w) \/ Commit(w) \/ KeyConflict(w)

Next ==
    \/ \E t \in TopUps : CreateTopUp(t) \/ SnapOpened(t) \/ SnapFailed(t)
    \/ \E n \in Notification :
         Emit(n) \/ DeliverUnpaid(n) \/ DeliverAlreadyCredited(n)
    \/ \E w \in Workers :
         \/ \E n \in Notification : BeginCredit(w, n)
         \/ \E o \in Orders : BeginDebit(w, o) \/ BeginRefund(w, o)
         \/ \E u \in Users, amount \in Adjustments : BeginAdjust(w, u, amount)
         \/ Post(w) \/ Crash(w)

Spec == Init /\ [][Next]_vars

(***************************************************************************)
(* A started transaction runs on; Midtrans redelivers what was not answered *)
(* with 200.  Customers, admins and crashes owe nothing.                    *)
(***************************************************************************)
Deliver(n) ==
    /\ n \notin acked
    /\ \/ DeliverUnpaid(n)
       \/ DeliverAlreadyCredited(n)
       \/ \E w \in Workers : BeginCredit(w, n)

Fairness ==
    /\ \A w \in Workers : WF_vars(Post(w))
    /\ \A n \in Notification : SF_vars(Deliver(n))

FairSpec == Spec /\ Fairness
-----------------------------------------------------------------------------
(***************************************************************************)
(* Properties.                                                              *)
(***************************************************************************)

(* Every variable keeps its type: what TopUpStatus, PaymentStatus and the   *)
(* Decimal columns may hold, and what a transaction carries.                *)
TypeOK ==
    /\ balance \in [Users -> Int]
    /\ ledger \in [Users -> Seq(Entry)]
    /\ topUp \in [TopUps -> {"none", "PENDING", "PAID", "EXPIRED", "FAILED"}]
    /\ charged \subseteq TopUps
    /\ order \in [Orders -> {"none", "PAID", "REFUNDED"}]
    /\ lock \in [Users -> Workers \cup {Nobody}]
    /\ job \in [Workers -> Job \cup {Idle}]
    /\ sent \subseteq Notification
    /\ acked \subseteq Notification
    /\ threw \subseteq Notification
    /\ adjusted \in Nat
    /\ crashes \in Nat

(* What verifyIntegrity adds up. *)
SumOfAmounts(entries) ==
    LET upTo[i \in 0 .. Len(entries)] ==
          IF i = 0 THEN 0 ELSE upTo[i - 1] + entries[i].amount
    IN  upTo[Len(entries)]

(* The running balance of row i of a ledger; a wallet starts at zero. *)
After(u, i) == IF i = 0 THEN 0 ELSE ledger[u][i].after

(* Each entry's balanceAfter continues the one before it, the last one is   *)
(* the wallet's balance, and none is negative: two requests that post to    *)
(* one wallet never both start from the same balance.                       *)
LedgerChains ==
    \A u \in Users :
        /\ balance[u] = After(u, Len(ledger[u]))
        /\ \A i \in 1 .. Len(ledger[u]) :
             /\ ledger[u][i].after = After(u, i - 1) + ledger[u][i].amount
             /\ ledger[u][i].after >= 0

(* However often Midtrans repeats a notification and however many staff     *)
(* cancel one order, a top-up is credited, an order debited and an order    *)
(* refunded at most once, over all wallets.                                 *)
PostedOnce ==
    \A u, v \in Users : \A i \in DOMAIN ledger[u], k \in DOMAIN ledger[v] :
        /\ ledger[u][i].kind # "manual"
        /\ ledger[u][i].kind = ledger[v][k].kind
        /\ ledger[u][i].ref = ledger[v][k].ref
        => u = v /\ i = k

(* The statuses other tables show agree with the ledger: a top-up is PAID   *)
(* exactly when its credit is in the ledger, an order's payment is PAID or  *)
(* REFUNDED exactly when its debit, or also its refund, is.  A late expiry  *)
(* or denial cannot close what was credited.                                *)
StatusMatchesLedger ==
    /\ \A t \in TopUps : topUp[t] = "PAID" <=> Posted("topup", t)
    /\ \A o \in Orders :
         /\ order[o] # "none" <=> Posted("order", o)
         /\ order[o] = "REFUNDED" <=> Posted("refund", o)

(* No top-up is credited before Midtrans reported it settled, or captured   *)
(* and accepted: a challenged capture waits for its review.                 *)
CreditedOnlyWhenSettled ==
    \A t \in TopUps : topUp[t] = "PAID" =>
        \E n \in sent :
            /\ n.topUp = t
            /\ \/ n.report[1] = "settlement"
               \/ n.report[1] = "capture" /\ n.report[2] = "accept"

(* Money in, money out: once Midtrans reports a top-up paid the wallet is   *)
(* credited, even if the row was closed before, a handler crashed, or the   *)
(* notification was processed twice at once.                                *)
SettledIsCredited ==
    \A t \in TopUps :
        (\E n \in sent : n.topUp = t /\ IsPaid(n.report)) ~> topUp[t] = "PAID"

(***************************************************************************)
(* The promise this module keeps: WalletLedger, an event being done when    *)
(* its entry is in the ledger.                                              *)
(***************************************************************************)
Booked == {e \in {"topup", "order", "refund"} \X Refs : Posted(e[1], e[2])}

Promise == INSTANCE WalletLedger WITH done <- Booked

(* The wallet with its transactions, locks and repeated notifications does  *)
(* what WalletLedger promises, one whole event at a time.                   *)
KeepsItsPromise == Promise!Spec
=============================================================================
