---------------------------- MODULE WalletProofs ----------------------------
(***************************************************************************)
(* The wallet's invariants and its refinement of WalletLedger, for every    *)
(* set of users, top-ups, orders and workers.                               *)
(***************************************************************************)
EXTENDS Wallet, TLAPS

USE DEF Refs, Kinds, RowFree, NotCredited, Covers

(* What a transaction carries matches the event it books. *)
JobMatchesEvent ==
    \A w \in Workers : Running(w) =>
        LET j == job[w] IN
        /\ j.kind = "topup" =>
             /\ j.ref \in TopUps
             /\ j.user = Owner[j.ref] /\ j.amount = Value[j.ref]
             /\ j.note \in sent /\ j.note.topUp = j.ref /\ IsPaid(j.note.report)
        /\ j.kind = "order" =>
             /\ j.ref \in Orders
             /\ j.user = Owner[j.ref] /\ j.amount = -Value[j.ref]
        /\ j.kind = "refund" =>
             /\ j.ref \in Orders /\ order[j.ref] # "none"
             /\ j.user = Owner[j.ref] /\ j.amount = Value[j.ref]
        /\ j.kind = "manual" => j.amount \in Adjustments /\ j.ref = Nobody

(* A locked transaction holds its wallet's row, and still sees the balance. *)
LockHeld ==
    \A w \in Workers : job[w].phase = "locked" =>
        /\ lock[job[w].user] = w
        /\ job[w].base = balance[job[w].user]
        /\ job[w].base + job[w].amount >= 0

IInv ==
    /\ TypeOK
    /\ JobMatchesEvent
    /\ LockHeld
    /\ LedgerChains
    /\ PostedOnce
    /\ StatusMatchesLedger
    /\ CreditedOnlyWhenSettled

-----------------------------------------------------------------------------

(* A worker that is not idle carries a whole job. *)
LEMMA RunningIsJob ==
    ASSUME TypeOK, NEW w \in Workers, Running(w)
    PROVE  job[w] \in Job
BY DEF TypeOK, Running, Idle, Job

LEMMA TypeInit == Init => TypeOK
BY OwnerAssumption, ValueAssumption DEF Init, TypeOK

LEMMA TypeStep == TypeOK /\ [Next]_vars => TypeOK'
<1> SUFFICES ASSUME TypeOK, [Next]_vars PROVE TypeOK'
    OBVIOUS
<1> USE OwnerAssumption, ValueAssumption, AdjustmentsAssumption DEF TypeOK
<1>1. ASSUME NEW t \in TopUps, CreateTopUp(t) PROVE TypeOK'
    BY <1>1 DEF CreateTopUp
<1>2. ASSUME NEW t \in TopUps, SnapOpened(t) PROVE TypeOK'
    BY <1>2 DEF SnapOpened
<1>3. ASSUME NEW t \in TopUps, SnapFailed(t) PROVE TypeOK'
    BY <1>3 DEF SnapFailed, CloseTopUp
<1>4. ASSUME NEW n \in Notification, Emit(n) PROVE TypeOK'
    BY <1>4 DEF Emit
<1>5. ASSUME NEW n \in Notification, DeliverUnpaid(n) PROVE TypeOK'
    <2>1. ClosedAs(n.report) \in {"EXPIRED", "FAILED", "none"}
        BY DEF ClosedAs
    <2>2. n.topUp \in TopUps
        BY DEF Notification
    <2> QED BY ZenonT(40), <1>5, <2>1, <2>2 DEF DeliverUnpaid, CloseTopUp
<1>6. ASSUME NEW n \in Notification, DeliverAlreadyCredited(n) PROVE TypeOK'
    BY <1>6 DEF DeliverAlreadyCredited
<1>7. ASSUME NEW w \in Workers, NEW n \in Notification, BeginCredit(w, n)
      PROVE  TypeOK'
    <2>1. n.topUp \in TopUps
        BY DEF Notification
    <2> QED BY <1>7, <2>1 DEF BeginCredit, Begin, Job
<1>8. ASSUME NEW w \in Workers, NEW o \in Orders, BeginDebit(w, o)
      PROVE  TypeOK'
    BY <1>8 DEF BeginDebit, Begin, Job
<1>9. ASSUME NEW w \in Workers, NEW o \in Orders, BeginRefund(w, o)
      PROVE  TypeOK'
    BY <1>9 DEF BeginRefund, Begin, Job
<1>10. ASSUME NEW w \in Workers, NEW u \in Users, NEW amount \in Adjustments,
              BeginAdjust(w, u, amount)
       PROVE  TypeOK'
    BY <1>10 DEF BeginAdjust, Begin, Job
<1>11. ASSUME NEW w \in Workers, LockWallet(w) PROVE TypeOK'
    <2>1. job[w] \in Job
        BY <1>11, RunningIsJob DEF LockWallet, Running
    <2> DEFINE k == [job[w] EXCEPT !.phase = "locked",
                                   !.base = balance[job[w].user]]
    <2>2. k \in [phase : {"begun", "locked"}, kind : Kinds,
                 ref : Refs \cup {Nobody}, user : Users, amount : Int,
                 base : Int, note : Notification \cup {Nobody}]
        BY <2>1 DEF Job
    <2>3. k \in Job
        BY <2>1, <2>2 DEF Job
    <2>4. job' \in [Workers -> Job \cup {Idle}]
        BY <1>11, <2>3 DEF LockWallet
    <2> QED BY <1>11, <2>4 DEF LockWallet
<1>12. ASSUME NEW w \in Workers, Insufficient(w) PROVE TypeOK'
    BY <1>12 DEF Insufficient
<1>13. ASSUME NEW w \in Workers, Commit(w) PROVE TypeOK'
    <2> DEFINE j == job[w]
               e == [amount |-> j.amount, after |-> j.base + j.amount,
                     kind |-> j.kind, ref |-> j.ref]
    <2>1. j \in Job
        BY <1>13, RunningIsJob DEF Commit, Running
    <2>2. e \in Entry
        BY <2>1 DEF Job, Entry
    <2>3. Append(ledger[j.user], e) \in Seq(Entry)
        BY <2>1, <2>2 DEF Job
    <2>4. ledger' \in [Users -> Seq(Entry)]
        BY <1>13, <2>1, <2>3 DEF Commit, Job
    <2>5. /\ topUp' \in [TopUps -> {"none", "PENDING", "PAID", "EXPIRED", "FAILED"}]
          /\ order' \in [Orders -> {"none", "PAID", "REFUNDED"}]
        BY <1>13 DEF Commit, CallerUpdates
    <2>6. acked' \subseteq Notification
        BY <1>13, <2>1 DEF Commit, Job
    <2>7. balance' \in [Users -> Int]
        BY <1>13, <2>1 DEF Commit, Job
    <2>8. lock' \in [Users -> Workers \cup {Nobody}]
        BY <1>13 DEF Commit
    <2> QED BY <1>13, <2>4, <2>5, <2>6, <2>7, <2>8 DEF Commit
<1>14. ASSUME NEW w \in Workers, KeyConflict(w) PROVE TypeOK'
    <2>1. job[w].kind = "topup" => job[w].note \in Notification
        BY <1>14, RunningIsJob DEF KeyConflict, Running, Job
    <2> QED BY <1>14, <2>1 DEF KeyConflict
<1>15. ASSUME NEW w \in Workers, Crash(w) PROVE TypeOK'
    BY <1>15 DEF Crash
<1>16. CASE UNCHANGED vars
    BY <1>16 DEF vars
<1> QED
    BY <1>1, <1>2, <1>3, <1>4, <1>5, <1>6, <1>7, <1>8, <1>9, <1>10, <1>11,
       <1>12, <1>13, <1>14, <1>15, <1>16 DEF Next, Post

(* The columns and the transactions of the wallet keep their types in every *)
(* reachable state, however the requests interleave.                        *)
THEOREM WalletTyping == Spec => []TypeOK
BY TypeInit, TypeStep, PTL DEF Spec

-----------------------------------------------------------------------------
(***************************************************************************)
(* The inductive step, one conjunct of IInv at a time.                      *)
(***************************************************************************)

(* Only post() writes a balance, an entry or an order's payment status. *)
LEMMA OnlyCommitPosts ==
    [Next]_vars => \/ \E w \in Workers : Commit(w)
                   \/ UNCHANGED <<balance, ledger, order>>
BY DEF Next, vars, CreateTopUp, SnapOpened, SnapFailed, Emit, DeliverUnpaid,
       DeliverAlreadyCredited, BeginCredit, BeginDebit, BeginRefund,
       BeginAdjust, Post, LockWallet, Insufficient, KeyConflict, Crash

(* An order that was created stays created, a sent notification stays sent. *)
LEMMA NeverForgotten ==
    ASSUME TypeOK, [Next]_vars
    PROVE  /\ sent \subseteq sent'
           /\ \A o \in Orders : order[o] # "none" => order'[o] # "none"
<1>1. sent \subseteq sent'
    BY DEF Next, vars, CreateTopUp, SnapOpened, SnapFailed, Emit, DeliverUnpaid,
       DeliverAlreadyCredited, BeginCredit, BeginDebit, BeginRefund,
       BeginAdjust, Post, LockWallet, Insufficient, Commit, KeyConflict, Crash
<1>2. ASSUME NEW w \in Workers, Commit(w), NEW o \in Orders, order[o] # "none"
      PROVE  order'[o] # "none"
    BY <1>2 DEF Commit, CallerUpdates, TypeOK
<1> QED BY <1>1, <1>2, OnlyCommitPosts

(* The jobs of a step: a worker keeps its job, its event and its amount,    *)
(* finishes it, or starts one.                                              *)
LEMMA JobStep == IInv /\ [Next]_vars => JobMatchesEvent'
<1> SUFFICES ASSUME IInv, [Next]_vars, NEW v \in Workers, Running(v)'
             PROVE  LET j == job'[v] IN
        /\ j.kind = "topup" =>
             /\ j.ref \in TopUps
             /\ j.user = Owner[j.ref] /\ j.amount = Value[j.ref]
             /\ j.note \in sent' /\ j.note.topUp = j.ref /\ IsPaid(j.note.report)
        /\ j.kind = "order" =>
             /\ j.ref \in Orders
             /\ j.user = Owner[j.ref] /\ j.amount = -Value[j.ref]
        /\ j.kind = "refund" =>
             /\ j.ref \in Orders /\ order'[j.ref] # "none"
             /\ j.user = Owner[j.ref] /\ j.amount = Value[j.ref]
        /\ j.kind = "manual" => j.amount \in Adjustments /\ j.ref = Nobody
    BY DEF JobMatchesEvent
<1> USE DEF IInv
<1>1. CASE job'[v] = job[v]
    BY <1>1, NeverForgotten DEF JobMatchesEvent, Running
<1>2. ASSUME NEW n \in Notification, BeginCredit(v, n)
      PROVE  /\ job'[v].kind = "topup" /\ job'[v].ref = n.topUp
             /\ n.topUp \in TopUps /\ job'[v].user = Owner[n.topUp]
             /\ job'[v].amount = Value[n.topUp] /\ job'[v].note = n
             /\ n \in sent' /\ IsPaid(n.report)
    BY <1>2 DEF BeginCredit, Begin, TypeOK, Notification
<1>3. ASSUME NEW o \in Orders, BeginDebit(v, o)
      PROVE  /\ job'[v].kind = "order" /\ job'[v].ref = o
             /\ job'[v].user = Owner[o] /\ job'[v].amount = -Value[o]
    BY <1>3 DEF BeginDebit, Begin, TypeOK
<1>4. ASSUME NEW o \in Orders, BeginRefund(v, o)
      PROVE  /\ job'[v].kind = "refund" /\ job'[v].ref = o
             /\ order'[o] # "none"
             /\ job'[v].user = Owner[o] /\ job'[v].amount = Value[o]
    BY <1>4 DEF BeginRefund, Begin, TypeOK
<1>5. ASSUME NEW u \in Users, NEW amount \in Adjustments,
             BeginAdjust(v, u, amount)
      PROVE  /\ job'[v].kind = "manual" /\ job'[v].ref = Nobody
             /\ job'[v].amount \in Adjustments
    BY <1>5 DEF BeginAdjust, Begin, TypeOK
<1>6. ASSUME LockWallet(v)
      PROVE  /\ Running(v)
             /\ job'[v].kind = job[v].kind /\ job'[v].ref = job[v].ref
             /\ job'[v].user = job[v].user /\ job'[v].amount = job[v].amount
             /\ job'[v].note = job[v].note
    <2>1. Running(v)
        BY <1>6 DEF LockWallet, Running
    <2>2. job[v] \in Job
        BY <2>1, RunningIsJob
    <2> QED BY <1>6, <2>1, <2>2 DEF LockWallet, TypeOK, Job
<1>7. CASE LockWallet(v)
    BY <1>6, <1>7, NeverForgotten DEF JobMatchesEvent
<1>8. ASSUME job'[v] # job[v], ~LockWallet(v)
      PROVE  \/ \E n \in Notification : BeginCredit(v, n)
             \/ \E o \in Orders : BeginDebit(v, o) \/ BeginRefund(v, o)
             \/ \E u \in Users, amount \in Adjustments :
                  BeginAdjust(v, u, amount)
    <2>1. job # job'
        BY <1>8
    <2>2. ASSUME NEW w \in Workers, w # v,
                 \/ \E n \in Notification : BeginCredit(w, n)
                 \/ \E o \in Orders : BeginDebit(w, o) \/ BeginRefund(w, o)
                 \/ \E u \in Users, amount \in Adjustments :
                      BeginAdjust(w, u, amount)
                 \/ Post(w) \/ Crash(w)
          PROVE  FALSE
        BY <1>8, <2>2 DEF BeginCredit, BeginDebit, BeginRefund, BeginAdjust,
           Begin, Post, LockWallet, Insufficient, Commit, KeyConflict, Crash,
           TypeOK
    <2>3. ASSUME Insufficient(v) \/ Commit(v) \/ KeyConflict(v) \/ Crash(v)
          PROVE  FALSE
        BY <2>3 DEF Insufficient, Commit, KeyConflict, Crash, TypeOK, Idle,
           Running
    <2> QED
        BY <1>8, <2>1, <2>2, <2>3 DEF Next, Post, vars, CreateTopUp, SnapOpened,
           SnapFailed, Emit, DeliverUnpaid, DeliverAlreadyCredited
<1> QED
    BY <1>1, <1>2, <1>3, <1>4, <1>5, <1>7, <1>8

(* Only the worker that holds a wallet's row lock writes its balance. *)
LEMMA LockStep == IInv /\ [Next]_vars => LockHeld'
<1> SUFFICES ASSUME IInv, [Next]_vars, NEW v \in Workers,
                    job'[v].phase = "locked"
             PROVE  /\ lock'[job'[v].user] = v
                    /\ job'[v].base = balance'[job'[v].user]
                    /\ job'[v].base + job'[v].amount >= 0
    BY DEF LockHeld
<1> USE DEF IInv
<1>1. CASE LockWallet(v)
    <2>1. job[v] \in Job
        BY <1>1, RunningIsJob DEF LockWallet, Running
    <2> QED BY <1>1, <2>1 DEF LockWallet, TypeOK, Job
<1>2. ASSUME job[v].phase = "locked", job'[v] = job[v],
             lock'[job[v].user] = v,
             balance'[job[v].user] = balance[job[v].user]
      PROVE  /\ lock'[job'[v].user] = v
             /\ job'[v].base = balance'[job'[v].user]
             /\ job'[v].base + job'[v].amount >= 0
    BY <1>2 DEF LockHeld
<1>3. ASSUME NEW w \in Workers,
             \/ \E n \in Notification : BeginCredit(w, n)
             \/ \E o \in Orders : BeginDebit(w, o) \/ BeginRefund(w, o)
             \/ \E u \in Users, amount \in Adjustments :
                  BeginAdjust(w, u, amount)
      PROVE  job[v].phase = "locked" /\ job'[v] = job[v]
             /\ UNCHANGED <<lock, balance>>
    BY <1>3 DEF BeginCredit, BeginDebit, BeginRefund, BeginAdjust, Begin, TypeOK
<1>4. ASSUME NEW w \in Workers, w # v, LockWallet(w)
      PROVE  job[v].phase = "locked" /\ job'[v] = job[v]
             /\ lock'[job[v].user] = v /\ UNCHANGED balance
    <2>1. job[v].phase = "locked" /\ job'[v] = job[v]
        BY <1>4 DEF LockWallet, TypeOK
    <2>2. job[w].user # job[v].user
        BY <1>4, <2>1, NobodyAssumption DEF LockWallet, LockHeld
    <2> QED BY <1>4, <2>1, <2>2 DEF LockWallet, LockHeld, TypeOK
<1>5. ASSUME NEW w \in Workers, Commit(w) \/ KeyConflict(w)
      PROVE  job[v].phase = "locked" /\ job'[v] = job[v]
             /\ lock'[job[v].user] = v
             /\ balance'[job[v].user] = balance[job[v].user]
    <2>1. w # v
        BY <1>5 DEF Commit, KeyConflict, TypeOK, Idle
    <2>2. job[v].phase = "locked" /\ job'[v] = job[v]
        BY <1>5, <2>1 DEF Commit, KeyConflict, TypeOK
    <2>3. job[w].user # job[v].user
        BY <1>5, <2>1, <2>2 DEF Commit, KeyConflict, LockHeld
    <2>4. job[v].user \in Users
        BY <2>2, RunningIsJob DEF Running, Job
    <2>5. lock'[job[v].user] = v
        BY <1>5, <2>2, <2>3, <2>4 DEF Commit, KeyConflict, LockHeld, TypeOK
    <2>6. balance'[job[v].user] = balance[job[v].user]
        BY <1>5, <2>3, <2>4 DEF Commit, KeyConflict, TypeOK
    <2> QED BY <2>2, <2>5, <2>6
<1>6. ASSUME NEW w \in Workers, Insufficient(w) \/ Crash(w)
      PROVE  job[v].phase = "locked" /\ job'[v] = job[v]
             /\ lock'[job[v].user] = v /\ UNCHANGED balance
    <2>1. w # v
        BY <1>6 DEF Insufficient, Crash, TypeOK, Idle
    <2>2. job[v].phase = "locked" /\ job'[v] = job[v]
        BY <1>6, <2>1 DEF Insufficient, Crash, TypeOK
    <2>3. job[v].user \in Users
        BY <2>2, RunningIsJob DEF Running, Job
    <2> QED BY <1>6, <2>1, <2>2, <2>3 DEF Insufficient, Crash, LockHeld
<1>7. ASSUME UNCHANGED <<job, lock, balance>>
      PROVE  job[v].phase = "locked" /\ job'[v] = job[v]
             /\ lock'[job[v].user] = v
             /\ balance'[job[v].user] = balance[job[v].user]
    BY <1>7 DEF LockHeld
<1>8. CASE \E w \in Workers : w # v /\ LockWallet(w)
    BY <1>2, <1>4, <1>8
<1>9. CASE \E w \in Workers : Commit(w) \/ KeyConflict(w)
    BY <1>2, <1>5, <1>9
<1>10. CASE \E w \in Workers : Insufficient(w) \/ Crash(w)
    BY <1>2, <1>6, <1>10
<1>11. CASE UNCHANGED <<job, lock, balance>>
    BY <1>2, <1>7, <1>11
<1>12. CASE \E w \in Workers :
             \/ \E n \in Notification : BeginCredit(w, n)
             \/ \E o \in Orders : BeginDebit(w, o) \/ BeginRefund(w, o)
             \/ \E u \in Users, amount \in Adjustments :
                  BeginAdjust(w, u, amount)
    BY <1>2, <1>3, <1>12 DEF LockHeld
<1> QED
    BY <1>1, <1>8, <1>9, <1>10, <1>11, <1>12 DEF Next, Post, vars, CreateTopUp,
       SnapOpened, SnapFailed, Emit, DeliverUnpaid, DeliverAlreadyCredited

-----------------------------------------------------------------------------
(***************************************************************************)
(* A commit, seen by the ledger: one entry is appended to one wallet.       *)
(***************************************************************************)

NewEntry(w) == [amount |-> job[w].amount, after |-> job[w].base + job[w].amount,
                kind |-> job[w].kind, ref |-> job[w].ref]

LEMMA CommitAppends ==
    ASSUME IInv, NEW w \in Workers, Commit(w)
    PROVE  LET u == job[w].user IN
           /\ job[w] \in Job /\ u \in Users /\ NewEntry(w) \in Entry
           /\ ledger'[u] = Append(ledger[u], NewEntry(w))
           /\ balance'[u] = NewEntry(w).after
           /\ NewEntry(w).after = balance[u] + NewEntry(w).amount
           /\ NewEntry(w).after >= 0
           /\ \A v \in Users \ {u} : /\ ledger'[v] = ledger[v]
                                     /\ balance'[v] = balance[v]
<1> USE DEF IInv
<1>1. job[w] \in Job
    BY RunningIsJob DEF Commit, Running
<1>2. NewEntry(w) \in Entry
    BY <1>1 DEF Job, Entry, NewEntry
<1>3. job[w].base = balance[job[w].user] /\ job[w].base + job[w].amount >= 0
    BY DEF Commit, LockHeld
<1> QED BY <1>1, <1>2, <1>3 DEF Commit, NewEntry, TypeOK, Job

(* Where the entries of a ledger are after one has been appended. *)
LEMMA AppendedEntries ==
    ASSUME NEW s \in Seq(Entry), NEW e \in Entry
    PROVE  /\ Len(Append(s, e)) = Len(s) + 1
           /\ Len(s) \in Nat
           /\ \A i \in 1 .. Len(s) : Append(s, e)[i] = s[i]
           /\ Append(s, e)[Len(s) + 1] = e
OBVIOUS

(* The rows of every ledger after a commit: the old ones where they were,   *)
(* and one new row at the end of the ledger it was posted to.               *)
LEMMA CommitExtends ==
    ASSUME IInv, NEW w \in Workers, Commit(w)
    PROVE  \E u \in Users, e \in Entry, n \in Nat :
             /\ u = job[w].user /\ e = NewEntry(w) /\ n = Len(ledger[u])
             /\ DOMAIN ledger[u] = 1 .. n /\ DOMAIN ledger'[u] = 1 .. n + 1
             /\ Len(ledger'[u]) = n + 1
             /\ \A i \in 1 .. n : ledger'[u][i] = ledger[u][i]
             /\ ledger'[u][n + 1] = e
             /\ \A v \in Users \ {u} : ledger'[v] = ledger[v]
<1>1. PICK u \in Users, e \in Entry : u = job[w].user /\ e = NewEntry(w)
    BY CommitAppends
<1>2. ledger[u] \in Seq(Entry)
    BY DEF IInv, TypeOK
<1>3. ledger'[u] = Append(ledger[u], e)
    BY <1>1, CommitAppends
<1>4. PICK n \in Nat : n = Len(ledger[u])
    BY <1>2
<1>5. /\ Len(ledger'[u]) = n + 1
      /\ \A i \in 1 .. n : ledger'[u][i] = ledger[u][i]
      /\ ledger'[u][n + 1] = e
    BY <1>2, <1>3, <1>4, AppendedEntries
<1>6. DOMAIN ledger[u] = 1 .. n /\ DOMAIN ledger'[u] = 1 .. n + 1
    BY <1>2, <1>3, <1>4, <1>5
<1>7. \A v \in Users \ {u} : ledger'[v] = ledger[v]
    BY <1>1, CommitAppends
<1> WITNESS u \in Users, e \in Entry, n \in Nat
<1> QED BY <1>1, <1>4, <1>5, <1>6, <1>7

LEMMA ChainStep == IInv /\ [Next]_vars => LedgerChains'
<1> SUFFICES ASSUME IInv, [Next]_vars PROVE LedgerChains'
    OBVIOUS
<1> USE DEF IInv
<1>1. CASE UNCHANGED <<balance, ledger, order>>
    BY <1>1 DEF LedgerChains, After
<1>2. ASSUME NEW w \in Workers, Commit(w) PROVE LedgerChains'
    <2> SUFFICES ASSUME NEW v \in Users
                 PROVE /\ balance'[v] = After(v, Len(ledger[v]))'
                       /\ \A i \in 1 .. Len(ledger'[v]) :
                            /\ ledger'[v][i].after =
                                 After(v, i - 1)' + ledger'[v][i].amount
                            /\ ledger'[v][i].after >= 0
        BY DEF LedgerChains
    <2>1. PICK u \in Users, e \in Entry, n \in Nat :
            /\ u = job[w].user /\ e = NewEntry(w) /\ n = Len(ledger[u])
            /\ Len(ledger'[u]) = n + 1
            /\ \A i \in 1 .. n : ledger'[u][i] = ledger[u][i]
            /\ ledger'[u][n + 1] = e
        BY ZenonT(40), <1>2, CommitExtends
    <2>2. CASE v # u
        <3>1. ledger'[v] = ledger[v] /\ balance'[v] = balance[v]
            BY <1>2, <2>1, <2>2, CommitAppends
        <3>2. \A i : After(v, i)' = After(v, i)
            BY <3>1 DEF After
        <3> QED BY <3>1, <3>2 DEF LedgerChains
    <2>3. CASE v = u
        <3>1. /\ balance'[u] = e.after /\ e.after = balance[u] + e.amount
              /\ e.after >= 0
            BY <1>2, <2>1, CommitAppends
        <3>2. balance'[u] = After(u, Len(ledger[u]))'
            BY <3>1, <2>1 DEF After
        <3>3. balance[u] = After(u, n)
              /\ \A i \in 1 .. n :
                   /\ ledger[u][i].after = After(u, i - 1) + ledger[u][i].amount
                   /\ ledger[u][i].after >= 0
            BY <2>1 DEF LedgerChains
        <3>4. \A i \in 0 .. n : After(u, i)' = After(u, i)
            BY <2>1 DEF After
        <3>5. ASSUME NEW i \in 1 .. n + 1
              PROVE  /\ ledger'[u][i].after =
                          After(u, i - 1)' + ledger'[u][i].amount
                     /\ ledger'[u][i].after >= 0
            <4>1. CASE i = n + 1
                BY <4>1, <3>1, <2>1, <3>3, <3>4
            <4>2. CASE i \in 1 .. n
                <5>1. i - 1 \in 0 .. n /\ After(u, i - 1)' = After(u, i - 1)
                    BY <4>2, <3>4
                <5> QED BY <4>2, <5>1, <2>1, <3>3
            <4> QED BY <4>1, <4>2
        <3> QED BY <2>3, <2>1, <3>2, <3>5
    <2> QED BY <2>2, <2>3
<1> QED BY <1>1, <1>2, OnlyCommitPosts

-----------------------------------------------------------------------------
(***************************************************************************)
(* Idempotency keys.                                                        *)
(***************************************************************************)

(* After a commit the booked keys are the old ones and the new entry's. *)
LEMMA PostedByCommit ==
    ASSUME IInv, NEW w \in Workers, Commit(w), NEW kind, NEW ref
    PROVE  Posted(kind, ref)' <=>
             Posted(kind, ref) \/ (kind = job[w].kind /\ ref = job[w].ref)
<1>1. PICK u \in Users, e \in Entry, n \in Nat :
        /\ e = NewEntry(w)
        /\ DOMAIN ledger[u] = 1 .. n /\ DOMAIN ledger'[u] = 1 .. n + 1
        /\ \A i \in 1 .. n : ledger'[u][i] = ledger[u][i]
        /\ ledger'[u][n + 1] = e
        /\ \A v \in Users \ {u} : ledger'[v] = ledger[v]
    BY CommitExtends
<1>4. e.kind = job[w].kind /\ e.ref = job[w].ref
    BY <1>1 DEF NewEntry
<1>6. ASSUME Posted(kind, ref)
      PROVE  Posted(kind, ref)'
    <2>0. PICK v \in Users : \E i \in DOMAIN ledger[v] :
            ledger[v][i].kind = kind /\ ledger[v][i].ref = ref
        BY <1>6 DEF Posted
    <2>1. PICK i \in DOMAIN ledger[v] :
            ledger[v][i].kind = kind /\ ledger[v][i].ref = ref
        BY <2>0
    <2>2. i \in DOMAIN ledger'[v] /\ ledger'[v][i] = ledger[v][i]
        BY <2>1, <1>1
    <2> QED BY <2>1, <2>2 DEF Posted
<1>7. ASSUME kind = job[w].kind, ref = job[w].ref
      PROVE  Posted(kind, ref)'
    <2>1. n + 1 \in DOMAIN ledger'[u]
        BY <1>1
    <2> QED BY <2>1, <1>1, <1>4, <1>7 DEF Posted
<1>8. ASSUME Posted(kind, ref)'
      PROVE  Posted(kind, ref) \/ (kind = job[w].kind /\ ref = job[w].ref)
    <2>0. PICK v \in Users : \E i \in DOMAIN ledger'[v] :
            ledger'[v][i].kind = kind /\ ledger'[v][i].ref = ref
        BY <1>8 DEF Posted
    <2>1. PICK i \in DOMAIN ledger'[v] :
            ledger'[v][i].kind = kind /\ ledger'[v][i].ref = ref
        BY <2>0
    <2>2. CASE v # u
        BY <2>1, <2>2, <1>1 DEF Posted
    <2>3. CASE v = u /\ i = n + 1
        BY <2>1, <2>3, <1>1, <1>4
    <2>4. CASE v = u /\ i \in 1 .. n
        BY <2>1, <2>4, <1>1 DEF Posted
    <2> QED BY <2>1, <2>2, <2>3, <2>4, <1>1
<1> QED BY <1>6, <1>7, <1>8

LEMMA OnceStep == IInv /\ [Next]_vars => PostedOnce'
<1> SUFFICES ASSUME IInv, [Next]_vars PROVE PostedOnce'
    OBVIOUS
<1>1. CASE UNCHANGED <<balance, ledger, order>>
    BY <1>1 DEF IInv, PostedOnce
<1>2. ASSUME NEW w \in Workers, Commit(w) PROVE PostedOnce'
    <2> SUFFICES ASSUME NEW p \in Users, NEW q \in Users,
                        NEW i \in DOMAIN ledger'[p],
                        NEW k \in DOMAIN ledger'[q],
                        ledger'[p][i].kind # "manual",
                        ledger'[p][i].kind = ledger'[q][k].kind,
                        ledger'[p][i].ref = ledger'[q][k].ref
                 PROVE  p = q /\ i = k
        BY DEF PostedOnce
    <2>1. PICK u \in Users, e \in Entry, n \in Nat :
            /\ e = NewEntry(w)
            /\ DOMAIN ledger[u] = 1 .. n /\ DOMAIN ledger'[u] = 1 .. n + 1
            /\ \A j \in 1 .. n : ledger'[u][j] = ledger[u][j]
            /\ ledger'[u][n + 1] = e
            /\ \A v \in Users \ {u} : ledger'[v] = ledger[v]
        BY <1>2, CommitExtends
    <2> DEFINE New(v, j) == v = u /\ j = n + 1
    <2>5. \A v \in Users : \A j \in DOMAIN ledger'[v] :
            ~New(v, j) => j \in DOMAIN ledger[v] /\ ledger'[v][j] = ledger[v][j]
        BY <2>1
    <2>6. \A v \in Users : \A j \in DOMAIN ledger'[v] :
            /\ ledger'[v][j].kind = e.kind /\ ledger'[v][j].ref = e.ref
            /\ e.kind # "manual"
            => New(v, j)
        <3>1. e.kind # "manual" => ~Posted(e.kind, e.ref)
            BY <1>2, <2>1 DEF Commit, KeyTaken, NewEntry
        <3> QED BY <2>5, <3>1 DEF Posted
    <2>7. CASE New(p, i)
        BY <2>1, <2>6, <2>7
    <2>8. CASE New(q, k)
        BY <2>1, <2>6, <2>8
    <2>9. CASE ~New(p, i) /\ ~New(q, k)
        BY <2>5, <2>9 DEF IInv, PostedOnce
    <2> QED BY <2>7, <2>8, <2>9
<1> QED BY <1>1, <1>2, OnlyCommitPosts

(* Only a commit turns a top-up to PAID, and nothing turns it back. *)
LEMMA PaidStays ==
    ASSUME TypeOK, [Next]_vars, \A w \in Workers : ~Commit(w),
           NEW t \in TopUps
    PROVE  topUp'[t] = "PAID" <=> topUp[t] = "PAID"
<1>1. ASSUME NEW n \in Notification, DeliverUnpaid(n)
      PROVE  topUp'[t] = "PAID" <=> topUp[t] = "PAID"
    <2>1. ClosedAs(n.report) # "PAID"
        BY DEF ClosedAs
    <2> QED BY <1>1, <2>1 DEF DeliverUnpaid, CloseTopUp, TypeOK
<1>2. ASSUME NEW s \in TopUps, CreateTopUp(s) \/ SnapFailed(s)
      PROVE  topUp'[t] = "PAID" <=> topUp[t] = "PAID"
    BY <1>2 DEF CreateTopUp, SnapFailed, CloseTopUp, TypeOK
<1> QED
    BY <1>1, <1>2 DEF Next, vars, SnapOpened, Emit, DeliverAlreadyCredited,
       BeginCredit, BeginDebit, BeginRefund, BeginAdjust, Post, LockWallet,
       Insufficient, KeyConflict, Crash

LEMMA StatusStep == IInv /\ [Next]_vars => StatusMatchesLedger'
<1> SUFFICES ASSUME IInv, [Next]_vars PROVE StatusMatchesLedger'
    OBVIOUS
<1> USE DEF IInv
<1>1. CASE \A w \in Workers : ~Commit(w)
    <2>1. UNCHANGED <<ledger, order>>
        BY <1>1, OnlyCommitPosts
    <2>2. \A kind, ref : Posted(kind, ref)' <=> Posted(kind, ref)
        BY <2>1 DEF Posted
    <2> QED BY <1>1, <2>1, <2>2, PaidStays DEF StatusMatchesLedger
<1>2. ASSUME NEW w \in Workers, Commit(w) PROVE StatusMatchesLedger'
    <2>1. PICK kind \in Kinds, ref \in Refs \cup {Nobody} :
            kind = job[w].kind /\ ref = job[w].ref
        BY <1>2, CommitAppends DEF Job
    <2>2. \A kk, rr : Posted(kk, rr)' <=>
                        Posted(kk, rr) \/ (kk = kind /\ rr = ref)
        BY <1>2, <2>1, PostedByCommit
    <2>3. /\ kind # "manual" => ~Posted(kind, ref)
          /\ topUp' = IF kind = "topup" THEN [topUp EXCEPT ![ref] = "PAID"]
                                        ELSE topUp
          /\ order' = CASE kind = "order"  -> [order EXCEPT ![ref] = "PAID"]
                        [] kind = "refund" -> [order EXCEPT ![ref] = "REFUNDED"]
                        [] OTHER           -> order
        BY <1>2, <2>1 DEF Commit, CallerUpdates, KeyTaken
    <2>4. /\ kind = "topup" => ref \in TopUps
          /\ kind = "order" => ref \in Orders
          /\ kind = "refund" => ref \in Orders /\ order[ref] # "none"
        BY <1>2, <2>1 DEF JobMatchesEvent, Running, Commit
    <2>5. ASSUME NEW t \in TopUps
          PROVE  topUp'[t] = "PAID" <=> Posted("topup", t)'
        BY <2>2, <2>3, <2>4 DEF StatusMatchesLedger, TypeOK
    <2>6. ASSUME NEW o \in Orders
          PROVE  /\ order'[o] # "none" <=> Posted("order", o)'
                 /\ order'[o] = "REFUNDED" <=> Posted("refund", o)'
        <3>1. CASE kind = "order"
            BY <2>2, <2>3, <2>4, <3>1 DEF StatusMatchesLedger, TypeOK
        <3>2. CASE kind = "refund"
            BY <2>2, <2>3, <2>4, <3>2 DEF StatusMatchesLedger, TypeOK
        <3>3. CASE kind \in {"topup", "manual"}
            BY <2>2, <2>3, <3>3 DEF StatusMatchesLedger
        <3> QED BY <3>1, <3>2, <3>3
    <2> QED BY <2>5, <2>6 DEF StatusMatchesLedger
<1> QED BY <1>1, <1>2

LEMMA SettledStep == IInv /\ [Next]_vars => CreditedOnlyWhenSettled'
<1> SUFFICES ASSUME IInv, [Next]_vars, NEW t \in TopUps, topUp'[t] = "PAID"
             PROVE  \E n \in sent' : n.topUp = t /\ IsPaid(n.report)
    BY DEF CreditedOnlyWhenSettled, IsPaid
<1> USE DEF IInv
<1>1. CASE topUp[t] = "PAID"
    BY <1>1, NeverForgotten DEF CreditedOnlyWhenSettled, IsPaid
<1>2. ASSUME NEW w \in Workers, Commit(w), topUp[t] # "PAID"
      PROVE  \E n \in sent' : n.topUp = t /\ IsPaid(n.report)
    <2>1. job[w].kind = "topup" /\ job[w].ref = t
        BY <1>2 DEF Commit, CallerUpdates, TypeOK
    <2>2. job[w].note \in sent /\ job[w].note.topUp = t
          /\ IsPaid(job[w].note.report)
        BY <1>2, <2>1 DEF JobMatchesEvent, Running, Commit
    <2> QED BY <2>2, NeverForgotten
<1> QED BY <1>1, <1>2, PaidStays

-----------------------------------------------------------------------------
LEMMA InvInit == Init => IInv
<1> SUFFICES ASSUME Init PROVE IInv
    OBVIOUS
<1>1. TypeOK
    BY TypeInit
<1>2. JobMatchesEvent /\ LockHeld
    BY DEF Init, JobMatchesEvent, LockHeld, Running, Idle
<1>3. LedgerChains /\ PostedOnce
    BY DEF Init, LedgerChains, After, PostedOnce
<1>4. StatusMatchesLedger /\ CreditedOnlyWhenSettled
    BY DEF Init, StatusMatchesLedger, Posted, CreditedOnlyWhenSettled
<1> QED BY <1>1, <1>2, <1>3, <1>4 DEF IInv

LEMMA InvStep == IInv /\ [Next]_vars => IInv'
BY TypeStep, JobStep, LockStep, ChainStep, OnceStep, StatusStep, SettledStep
   DEF IInv

LEMMA WalletInvariant == Spec => []IInv
BY InvInit, InvStep, PTL DEF Spec

(* Two requests never post from the same balance: every ledger chains, ends *)
(* at the recorded balance and never goes below zero.                       *)
THEOREM LedgersChain == Spec => []LedgerChains
BY WalletInvariant, PTL DEF IInv

(* No event is booked twice, over all wallets and all interleavings. *)
THEOREM EventsPostedOnce == Spec => []PostedOnce
BY WalletInvariant, PTL DEF IInv

(* Top-up and payment statuses agree with the ledger in every state. *)
THEOREM StatusesMatchLedger == Spec => []StatusMatchesLedger
BY WalletInvariant, PTL DEF IInv

(* No top-up is credited before Midtrans reported it paid. *)
THEOREM CreditsAreSettled == Spec => []CreditedOnlyWhenSettled
BY WalletInvariant, PTL DEF IInv

-----------------------------------------------------------------------------
(***************************************************************************)
(* Refinement: a commit is one event of WalletLedger, every other step is   *)
(* invisible to it.                                                         *)
(***************************************************************************)

LEMMA PromiseInit == Init => Promise!Init
BY DEF Init, Promise!Init, Booked, Posted

Events == {"topup", "order", "refund"}

(* A committed keyed event joins the booked ones; a correction has no key. *)
LEMMA BookedByCommit ==
    ASSUME IInv, NEW w \in Workers, Commit(w),
           NEW kind \in Kinds, NEW ref \in Refs \cup {Nobody},
           kind = job[w].kind, ref = job[w].ref,
           kind # "manual" => ref \in Refs
    PROVE  /\ kind = "manual" => Booked' = Booked
           /\ kind # "manual" => /\ <<kind, ref>> \notin Booked
                                 /\ Booked' = Booked \cup {<<kind, ref>>}
<1>1. \A e \in Events \X Refs :
        Posted(e[1], e[2])' <=> Posted(e[1], e[2]) \/ e = <<kind, ref>>
    <2> SUFFICES ASSUME NEW kk \in Events, NEW rr \in Refs
                 PROVE  Posted(kk, rr)' <=>
                          Posted(kk, rr) \/ <<kk, rr>> = <<kind, ref>>
        OBVIOUS
    <2> QED BY PostedByCommit
<1>2. kind # "manual" => ~Posted(kind, ref)
    BY DEF Commit, KeyTaken
<1>3. Booked' = {e \in Events \X Refs : Posted(e[1], e[2])'}
    BY DEF Booked, Events
<1>4. Booked = {e \in Events \X Refs : Posted(e[1], e[2])}
    BY DEF Booked, Events
<1>5. CASE kind = "manual"
    <2>1. \A e \in Events \X Refs : e # <<kind, ref>>
        BY <1>5 DEF Events
    <2> QED BY <1>1, <1>3, <1>4, <1>5, <2>1
<1>6. CASE kind # "manual"
    <2>1. <<kind, ref>> \in Events \X Refs
        BY <1>6 DEF Events
    <2>2. <<kind, ref>> \notin Booked
        BY <1>2, <1>6 DEF Booked
    <2>3. Booked' = Booked \cup {<<kind, ref>>}
        BY <1>1, <1>3, <1>4, <2>1
    <2> QED BY <1>6, <2>2, <2>3
<1> QED BY <1>5, <1>6

LEMMA PromiseStep ==
    IInv /\ [Next]_vars => [Promise!Next]_<<balance, Booked>>
<1> SUFFICES ASSUME IInv, [Next]_vars
             PROVE  [Promise!Next]_<<balance, Booked>>
    OBVIOUS
<1>1. CASE UNCHANGED <<balance, ledger, order>>
    BY <1>1 DEF Booked, Posted
<1>2. ASSUME NEW w \in Workers, Commit(w) PROVE Promise!Next
    <2>1. PICK kind \in Kinds, ref \in Refs \cup {Nobody} :
            kind = job[w].kind /\ ref = job[w].ref
        BY <1>2, CommitAppends DEF Job
    <2>2. /\ kind = "topup" =>
               /\ ref \in TopUps
               /\ job[w].user = Owner[ref] /\ job[w].amount = Value[ref]
          /\ kind = "order" =>
               /\ ref \in Orders
               /\ job[w].user = Owner[ref] /\ job[w].amount = -Value[ref]
          /\ kind = "refund" =>
               /\ ref \in Orders /\ order[ref] # "none"
               /\ job[w].user = Owner[ref] /\ job[w].amount = Value[ref]
          /\ kind = "manual" => job[w].amount \in Adjustments
        BY <1>2, <2>1 DEF IInv, JobMatchesEvent, Running, Commit
    <2>3. /\ kind = "manual" => Booked' = Booked
          /\ kind # "manual" => /\ <<kind, ref>> \notin Booked
                                /\ Booked' = Booked \cup {<<kind, ref>>}
        BY <1>2, <2>1, <2>2, BookedByCommit
    <2>4. job[w].user \in Users /\ Promise!Move(job[w].user, job[w].amount)
        <3>1. /\ job[w].user \in Users
              /\ job[w].base = balance[job[w].user]
              /\ job[w].base + job[w].amount >= 0
              /\ balance' = [balance EXCEPT ![job[w].user] =
                               job[w].base + job[w].amount]
            BY <1>2, CommitAppends DEF Commit, IInv, LockHeld
        <3> QED BY <3>1 DEF Promise!Move
    <2>5. CASE kind = "topup"
        BY <2>2, <2>3, <2>4, <2>5
           DEF Promise!Next, Promise!Credit, Promise!Book
    <2>6. CASE kind = "order"
        BY <2>2, <2>3, <2>4, <2>6 DEF Promise!Next, Promise!Pay, Promise!Book
    <2>7. CASE kind = "refund"
        <3>1. <<"order", ref>> \in Booked
            BY <2>2, <2>7 DEF IInv, StatusMatchesLedger, Booked
        <3> QED
            BY <2>2, <2>3, <2>4, <2>7, <3>1
               DEF Promise!Next, Promise!Refund, Promise!Book
    <2>8. CASE kind = "manual"
        BY <2>2, <2>3, <2>4, <2>8 DEF Promise!Next, Promise!Correct
    <2> QED BY <2>5, <2>6, <2>7, <2>8
<1> QED BY <1>1, <1>2, OnlyCommitPosts

(* The detailed wallet implements WalletLedger: every behaviour moves money *)
(* one whole event at a time, each event once, never below zero.            *)
THEOREM WalletKeepsItsPromise == Spec => KeepsItsPromise
<1>1. Spec => [][Promise!Next]_<<balance, Booked>>
    BY WalletInvariant, PromiseStep, PTL DEF Spec
<1> QED BY <1>1, PromiseInit, PTL DEF Spec, KeepsItsPromise, Promise!Spec
=============================================================================
