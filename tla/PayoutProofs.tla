---------------------------- MODULE PayoutProofs ----------------------------
(***************************************************************************)
(* Payouts, for every number of shops, requests and staff: rows keep their   *)
(* types, a shop has one open request, what it has asked for and been paid   *)
(* stays within its share, a request is answered once, and it all is the     *)
(* account of Withdrawals.                                                  *)
(***************************************************************************)
EXTENDS Payout, SumProofs

-----------------------------------------------------------------------------
(* What Sum adds up: the rows of a shop with one of the statuses, and the    *)
(* amount of each row.                                                       *)
Taken(rows, u, statuses) ==
    {p \in Payouts : rows[p].status \in statuses /\ rows[p].shop = u}
Value(rows) == [p \in Payouts |-> rows[p].amount]
Asked(rows, u) == SumOf(Value(rows), Taken(rows, u, {"REQUESTED", "PAID"}))

Rows == [Payouts -> Row \cup {NoPayout}]

LEMMA TakenFinite ==
    ASSUME NEW rows, NEW u, NEW statuses
    PROVE  IsFiniteSet(Taken(rows, u, statuses))
<1>1. Taken(rows, u, statuses) \in SUBSET Payouts
    BY DEF Taken
<1> QED BY <1>1, FS_Subset, PayoutsAssumption

LEMMA SumIsTaken ==
    ASSUME NEW u, NEW statuses
    PROVE  /\ Sum(u, statuses) = SumOf(Value(payout), Taken(payout, u, statuses))
           /\ Sum(u, statuses)' = SumOf(Value(payout'), Taken(payout', u, statuses))
<1>1. ASSUME NEW rows
      PROVE  MapThenSumSet(LAMBDA p : rows[p].amount, Taken(rows, u, statuses))
               = SumOf(Value(rows), Taken(rows, u, statuses))
    <2>1. \A p \in Taken(rows, u, statuses) : Value(rows)[p] = rows[p].amount
        BY DEF Taken, Value
    <2> QED BY <2>1, TakenFinite, SumOfAmounts
<1>2. Sum(u, statuses) = MapThenSumSet(LAMBDA p : payout[p].amount, Taken(payout, u, statuses))
    BY DEF Sum, Taken
<1>3. Sum(u, statuses)' = MapThenSumSet(LAMBDA p : payout'[p].amount, Taken(payout', u, statuses))
    BY DEF Sum, Taken, MapThenSumSet, MapThenFoldSet
<1> QED BY <1>1, <1>2, <1>3

LEMMA TakenRows ==
    ASSUME NEW rows \in Rows, NEW u, NEW statuses \in SUBSET {"REQUESTED", "PAID"},
           NEW p \in Taken(rows, u, statuses)
    PROVE  p \in Payouts /\ rows[p] \in Row /\ rows[p].shop = u
             /\ Value(rows)[p] = rows[p].amount /\ Value(rows)[p] \in Nat
BY DEF Rows, Taken, Value, Row, NoPayout

LEMMA TakenNat ==
    ASSUME NEW rows \in Rows, NEW u, NEW statuses \in SUBSET {"REQUESTED", "PAID"}
    PROVE  SumOf(Value(rows), Taken(rows, u, statuses)) \in Nat
BY TakenRows, TakenFinite, SumNat

(* The open ones and the paid ones make up all that was asked for.           *)
LEMMA AskedSplits ==
    ASSUME NEW rows \in Rows, NEW u
    PROVE  Asked(rows, u) = SumOf(Value(rows), Taken(rows, u, {"REQUESTED"}))
                            + SumOf(Value(rows), Taken(rows, u, {"PAID"}))
<1> DEFINE A == Taken(rows, u, {"REQUESTED"})
           B == Taken(rows, u, {"PAID"})
<1>1. A \cap B = {} /\ A \cup B = Taken(rows, u, {"REQUESTED", "PAID"})
    BY DEF Taken
<1>2. IsFiniteSet(A) /\ IsFiniteSet(B)
    BY TakenFinite
<1>3. \A p \in A \cup B : Value(rows)[p] \in Int
    BY TakenRows
<1> HIDE DEF A, B
<1>4. SumOf(Value(rows), A \cup B) = SumOf(Value(rows), A) + SumOf(Value(rows), B)
    BY <1>1, <1>2, <1>3, SumUnion
<1> QED BY <1>1, <1>4 DEF Asked, A, B

(* Rows of no more amounts add up to no more.                                *)
LEMMA FewerTaken ==
    ASSUME NEW rows \in Rows, NEW next \in Rows, NEW u,
           Taken(next, u, {"REQUESTED", "PAID"}) \subseteq Taken(rows, u, {"REQUESTED", "PAID"}),
           \A p \in Taken(next, u, {"REQUESTED", "PAID"}) : next[p].amount = rows[p].amount
    PROVE  Asked(next, u) <= Asked(rows, u)
<1> DEFINE A == Taken(rows, u, {"REQUESTED", "PAID"})
           B == Taken(next, u, {"REQUESTED", "PAID"})
<1>1. IsFiniteSet(A) /\ IsFiniteSet(B) /\ B \in SUBSET A
    BY TakenFinite
<1>2. \A p \in A : Value(rows)[p] \in Nat
    BY TakenRows
<1>3. \A p \in B : Value(next)[p] = Value(rows)[p]
    BY TakenRows
<1> HIDE DEF A, B
<1>4. SumOf(Value(next), B) = SumOf(Value(rows), B)
    BY <1>1, <1>3, SumSame
<1>5. SumOf(Value(rows), B) <= SumOf(Value(rows), A)
    BY <1>1, <1>2, SumPart
<1> QED BY <1>4, <1>5 DEF Asked, A, B

(* One more row adds its amount.                                            *)
LEMMA OneMoreTaken ==
    ASSUME NEW rows \in Rows, NEW p \in Payouts, rows[p] = NoPayout, NEW row \in Row,
           row.status = "REQUESTED"
    PROVE  Asked([rows EXCEPT ![p] = row], row.shop) = Asked(rows, row.shop) + row.amount
<1> DEFINE next == [rows EXCEPT ![p] = row]
           A == Taken(rows, row.shop, {"REQUESTED", "PAID"})
           B == Taken(next, row.shop, {"REQUESTED", "PAID"})
<1>1. next \in Rows /\ next[p] = row /\ \A q \in Payouts \ {p} : next[q] = rows[q]
    BY DEF Rows
<1>2. p \notin A
    BY DEF Taken, NoPayout
<1>3. B = A \cup {p}
    BY <1>1 DEF Taken
<1>4. \A q \in A : Value(next)[q] = Value(rows)[q]
    BY <1>1, <1>2, TakenRows DEF Value
<1>5. Value(next)[p] = row.amount
    BY <1>1 DEF Value
<1>6. \A q \in B : Value(next)[q] \in Int
    BY <1>1, TakenRows
<1>7. IsFiniteSet(A)
    BY TakenFinite
<1> HIDE DEF next, A, B
<1>8. SumOf(Value(next), A) = SumOf(Value(rows), A)
    BY <1>4, <1>7, SumSame
<1>9. SumOf(Value(next), A \cup {p}) = SumOf(Value(next), A) + row.amount
    BY <1>2, <1>3, <1>6, <1>7, <1>5, SumAdd
<1> QED BY <1>3, <1>8, <1>9 DEF Asked, A, B, next

(* If the open requests of a shop add up to nothing, it has none.            *)
LEMMA NoneOpen ==
    ASSUME NEW rows \in Rows, NEW u,
           \A q \in Payouts : rows[q].status = "REQUESTED" => rows[q].amount >= Minimum,
           SumOf(Value(rows), Taken(rows, u, {"REQUESTED"})) = 0
    PROVE  \A p \in Payouts : ~(rows[p].status = "REQUESTED" /\ rows[p].shop = u)
<1> DEFINE A == Taken(rows, u, {"REQUESTED"})
<1> SUFFICES ASSUME NEW p \in A
             PROVE  FALSE
    BY DEF Taken
<1>1. IsFiniteSet(A) /\ IsFiniteSet(A \ {p})
    BY TakenFinite, FS_Subset
<1>2. \A q \in A : Value(rows)[q] \in Nat
    BY TakenRows
<1>3. Value(rows)[p] > 0
    <2>1. rows[p].status = "REQUESTED" /\ p \in Payouts
        BY DEF Taken
    <2>2. Value(rows)[p] = rows[p].amount /\ Value(rows)[p] \in Nat
        BY TakenRows
    <2> QED BY <2>1, <2>2, RulesAssumption
<1> HIDE DEF A
<1>4. SumOf(Value(rows), A \ {p}) \in Nat
    BY <1>1, <1>2, SumNat
<1>5. SumOf(Value(rows), A) = Value(rows)[p] + SumOf(Value(rows), A \ {p})
    BY <1>1, <1>2, SumRemove
<1> QED BY <1>2, <1>3, <1>4, <1>5 DEF A

-----------------------------------------------------------------------------
(* Rows keep their types: what is added up is a number.                      *)
LEMMA TypeStarts ==
    Init => TypeOK
BY ValuesAssumption DEF Init, TypeOK

LEMMA TypeStep ==
    ASSUME TypeOK, [Next]_vars
    PROVE  TypeOK'
<1> USE ValuesAssumption DEF TypeOK
<1>1. CASE UNCHANGED vars
    BY <1>1 DEF vars
<1>2. ASSUME NEW u \in Shops, NEW v \in Sales, OrderCompleted(u, v) \/ OrderUndone(u, v)
      PROVE  TypeOK'
    <2>1. v \in Nat /\ gross[u] \in 0 .. MaxGross
        OBVIOUS
    <2>2. PICK x \in 0 .. MaxGross : SetGross(u, x)
        BY <1>2, <2>1 DEF OrderCompleted, OrderUndone
    <2> QED BY <2>2 DEF SetGross
<1>3. ASSUME NEW u \in Shops, UpsertBankAccount(u) \/ VerifyUmkm(u)
      PROVE  TypeOK'
    BY <1>3 DEF UpsertBankAccount, VerifyUmkm
<1>4. ASSUME NEW w \in Workers, NEW u \in Shops, NEW a \in Amounts, Begin(w, u, a)
      PROVE  TypeOK'
    <2> DEFINE new == [phase |-> "begun", shop |-> u, amount |-> a, active |-> u \in verified,
                       gross |-> 0, requested |-> 0, paid |-> 0]
    <2>1. new \in Job
        BY DEF Job
    <2>2. job' = [job EXCEPT ![w] = new]
        BY <1>4 DEF Begin
    <2> HIDE DEF new
    <2> QED BY <1>4, <2>1, <2>2 DEF Begin
<1>5. ASSUME NEW w \in Workers, Lock(w)
      PROVE  TypeOK'
    <2>1. job[w] \in Job
        BY <1>5 DEF Lock, Idle
    <2>2. [job[w] EXCEPT !.phase = "locked"] \in Job
        BY <2>1 DEF Job
    <2>3. job' \in [Workers -> Job \cup {Idle}]
        BY <1>5, <2>2 DEF Lock
    <2>4. lock' \in [Shops -> Workers \cup {Nobody}]
        BY <1>5 DEF Lock
    <2> QED BY <1>5, <2>3, <2>4 DEF Lock
<1>6. ASSUME NEW w \in Workers, CountOrders(w)
      PROVE  TypeOK'
    <2>1. job[w] \in Job
        BY <1>6 DEF CountOrders, Idle
    <2>2. gross[job[w].shop] \in Nat
        BY <2>1 DEF Job
    <2>3. [job[w] EXCEPT !.phase = "counted", !.gross = gross[job[w].shop]] \in Job
        BY <2>1, <2>2 DEF Job
    <2> QED BY <1>6, <2>3 DEF CountOrders
<1>7. ASSUME NEW w \in Workers, SumPayouts(w)
      PROVE  TypeOK'
    <2> DEFINE open == Sum(job[w].shop, {"REQUESTED"})
               done == Sum(job[w].shop, {"PAID"})
    <2>1. job[w] \in Job
        BY <1>7 DEF SumPayouts, Idle
    <2>2. open \in Nat /\ done \in Nat
        BY SumIsTaken, TakenNat DEF Rows
    <2>3. job' = [job EXCEPT ![w] = [job[w] EXCEPT !.phase = "summed", !.requested = open,
                                                   !.paid = done]]
        BY <1>7 DEF SumPayouts
    <2> HIDE DEF open, done
    <2>4. [job[w] EXCEPT !.phase = "summed", !.requested = open, !.paid = done] \in Job
        BY <2>1, <2>2 DEF Job
    <2> QED BY <1>7, <2>3, <2>4 DEF SumPayouts
<1>8. ASSUME NEW w \in Workers, RollBack(w)
      PROVE  TypeOK'
    BY <1>8 DEF RollBack
<1>9. ASSUME NEW w \in Workers, NEW p \in Payouts, Create(w, p)
      PROVE  TypeOK'
    <2>1. job[w] \in Job
        BY <1>9 DEF Create, Idle
    <2>2. [status |-> "REQUESTED", shop |-> job[w].shop, amount |-> job[w].amount] \in Row
        BY <2>1 DEF Job, Row
    <2>3. payout' \in [Payouts -> Row \cup {NoPayout}]
        BY <1>9, <2>2 DEF Create
    <2>4. lock' \in [Shops -> Workers \cup {Nobody}] /\ job' \in [Workers -> Job \cup {Idle}]
        BY <1>9 DEF Create
    <2> QED BY <1>9, <2>3, <2>4 DEF Create
<1>10. ASSUME NEW p \in Payouts, NEW outcome \in {"PAID", "REJECTED"}, Close(p, outcome)
       PROVE  TypeOK'
    <2>1. payout[p] \in Row
        BY <1>10 DEF Close, Open, NoPayout
    <2>2. [payout[p] EXCEPT !.status = outcome] \in Row
        BY <2>1 DEF Row
    <2>3. payout' \in [Payouts -> Row \cup {NoPayout}]
        BY <1>10, <2>2 DEF Close
    <2> QED BY <1>10, <2>3 DEF Close
<1> QED BY <1>1, <1>2, <1>3, <1>4, <1>5, <1>6, <1>7, <1>8, <1>9, <1>10 DEF Next

(* Sellers' requests and staff's answers, whatever their order, leave rows,   *)
(* locks and counts of the kinds the code reads back.                        *)
THEOREM PayoutTyping == Spec => []TypeOK
BY TypeStarts, TypeStep, PTL DEF Spec

-----------------------------------------------------------------------------
(* The seller's share: of more sales never less, and at most all of them.    *)
LEMMA NetGrows ==
    ASSUME NEW v \in Nat, NEW x \in Nat, v <= x
    PROVE  Net(v) \in Int /\ Net(x) \in Int /\ Net(v) <= Net(x)
<1> DEFINE d == x - v
           a == v * FeePercent
           b == d * FeePercent
<1>1. d \in Nat /\ FeePercent \in Nat /\ FeePercent <= 100
    BY RulesAssumption
<1>2. a \in Nat /\ b \in Nat /\ b <= d * 100
    BY <1>1
<1>3. x * FeePercent = a + b
    BY <1>1
<1>4. Net(v) = v - (a + 50) \div 100 /\ Net(x) = x - (a + b + 50) \div 100
    BY <1>3 DEF Net, Fee
<1> HIDE DEF a, b
<1> QED BY <1>1, <1>2, <1>4

LEMMA NetOfNothing ==
    Net(0) = 0
<1>1. 0 * FeePercent = 0
    BY RulesAssumption
<1> QED BY <1>1 DEF Net, Fee

(* The invariant.  A request that has counted holds the row of its shop; its *)
(* count is not above what the shop earned at some time; and from the sum on *)
(* until it commits, nobody asks for more: what it did not find open is not  *)
(* open, and what is asked for is at most what it found.                     *)
Counting == {"locked", "counted", "summed"}

LocksHeld ==
    \A w \in Workers : job[w].phase \in Counting => lock[job[w].shop] = w

OpenWorth ==
    \A p \in Payouts : payout[p].status = "REQUESTED" => payout[p].amount >= Minimum

CountsStand ==
    /\ \A u \in Shops : gross[u] <= peak[u]
    /\ \A w \in Workers :
         job[w].phase \in {"counted", "summed"} => job[w].gross <= peak[job[w].shop]

SumsStand ==
    \A w \in Workers :
        job[w].phase = "summed" =>
          /\ Asked(payout, job[w].shop) <= job[w].requested + job[w].paid
          /\ job[w].requested = 0 =>
               \A p \in Payouts :
                   ~(payout[p].status = "REQUESTED" /\ payout[p].shop = job[w].shop)

WithinShare == \A u \in Shops : Asked(payout, u) <= Net(peak[u])

PayoutInv ==
    TypeOK /\ LocksHeld /\ OpenWorth /\ CountsStand /\ SumsStand /\ OneOpenRequest
      /\ WithinShare

LEMMA InvSays ==
    PayoutInv => OneOpenRequest /\ NeverOverdrawn
BY SumIsTaken DEF PayoutInv, NeverOverdrawn, WithinShare, Asked

LEMMA InvStarts ==
    Init => PayoutInv
<1> SUFFICES ASSUME Init PROVE PayoutInv
    OBVIOUS
<1>1. \A u : Taken(payout, u, {"REQUESTED", "PAID"}) = {}
    BY DEF Init, Taken, NoPayout
<1>2. WithinShare
    BY <1>1, SumEmpty, NetOfNothing DEF Init, WithinShare, Asked
<1>3. LocksHeld /\ OpenWorth /\ CountsStand /\ SumsStand /\ OneOpenRequest
    BY DEF Init, LocksHeld, OpenWorth, CountsStand, SumsStand, OneOpenRequest, Counting,
           Idle, NoPayout
<1> QED BY <1>2, <1>3, TypeStarts DEF PayoutInv

(* Steps that touch no payout: orders, accounts, and a request up to its sum. *)
LEMMA OrdersKeep ==
    ASSUME PayoutInv, NEW u \in Shops, NEW x \in 0 .. MaxGross, SetGross(u, x), TypeOK'
    PROVE  PayoutInv'
<1> USE ValuesAssumption
<1>1. \A v \in Shops : peak[v] \in Nat /\ peak'[v] \in Nat /\ peak[v] <= peak'[v]
    BY DEF SetGross, PayoutInv, TypeOK
<1>2. WithinShare'
    <2>1. ASSUME NEW v \in Shops
          PROVE  Asked(payout, v) <= Net(peak'[v])
        <3>1. Asked(payout, v) \in Nat
            BY TakenNat DEF PayoutInv, TypeOK, Rows, Asked
        <3> QED BY <1>1, <3>1, NetGrows DEF PayoutInv, WithinShare
    <2> QED BY <2>1 DEF SetGross, WithinShare
<1>3. CountsStand'
    <2>1. \A v \in Shops : gross'[v] <= peak'[v]
        BY DEF SetGross, PayoutInv, TypeOK, CountsStand
    <2>2. ASSUME NEW w \in Workers, job[w].phase \in {"counted", "summed"}
          PROVE  job[w].gross <= peak'[job[w].shop]
        <3>1. job[w] \in Job
            BY <2>2 DEF PayoutInv, TypeOK, Idle
        <3>2. job[w].shop \in Shops /\ job[w].gross \in Nat
            BY <3>1 DEF Job
        <3>3. job[w].gross <= peak[job[w].shop]
            BY <2>2 DEF PayoutInv, CountsStand
        <3> QED BY <1>1, <3>2, <3>3
    <2> QED BY <2>1, <2>2 DEF SetGross, CountsStand
<1>4. LocksHeld' /\ OpenWorth' /\ SumsStand' /\ OneOpenRequest'
    BY DEF SetGross, PayoutInv, LocksHeld, OpenWorth, SumsStand, OneOpenRequest
<1> QED BY <1>2, <1>3, <1>4 DEF PayoutInv

LEMMA ShopKeeps ==
    ASSUME PayoutInv, UNCHANGED <<gross, peak, payout, lock, job>>, TypeOK'
    PROVE  PayoutInv'
BY DEF PayoutInv, LocksHeld, OpenWorth, CountsStand, SumsStand, OneOpenRequest, WithinShare

(* A request's own step: it is not summed after it, or its sums stand.       *)
LEMMA RequestKeeps ==
    ASSUME PayoutInv, UNCHANGED <<gross, peak, payout>>, TypeOK', LocksHeld', CountsStand',
           SumsStand'
    PROVE  PayoutInv'
BY DEF PayoutInv, OpenWorth, OneOpenRequest, WithinShare

LEMMA BeginKeeps ==
    ASSUME PayoutInv, NEW w \in Workers, NEW u \in Shops, NEW a \in Amounts,
           Begin(w, u, a), TypeOK'
    PROVE  PayoutInv'
<1>1. /\ UNCHANGED <<gross, peak, payout, lock>> /\ job'[w].phase = "begun"
      /\ \A v \in Workers \ {w} : job'[v] = job[v]
    BY DEF Begin, PayoutInv, TypeOK
<1> QED BY <1>1, RequestKeeps DEF PayoutInv, LocksHeld, CountsStand, SumsStand, Counting

LEMMA LockKeeps ==
    ASSUME PayoutInv, NEW w \in Workers, Lock(w), TypeOK'
    PROVE  PayoutInv'
<1>0. job[w] \in Job
    BY DEF PayoutInv, TypeOK, Lock, Idle
<1>1. /\ UNCHANGED <<gross, peak, payout>> /\ job'[w].phase = "locked"
      /\ job'[w].shop = job[w].shop /\ job[w].shop \in Shops
      /\ \A v \in Workers \ {w} : job'[v] = job[v]
      /\ lock[job[w].shop] = Nobody /\ lock' = [lock EXCEPT ![job[w].shop] = w]
    BY <1>0 DEF Lock, PayoutInv, TypeOK, RowFree, Job
<1>2. LocksHeld'
    <2>1. lock'[job[w].shop] = w
        BY <1>1 DEF PayoutInv, TypeOK
    <2>2. ASSUME NEW v \in Workers \ {w}, job'[v].phase \in Counting
          PROVE  lock'[job'[v].shop] = v
        <3>1. lock[job[v].shop] = v /\ v # Nobody
            BY <1>1, <2>2, NobodyAssumption DEF PayoutInv, LocksHeld
        <3>2. job[v].shop # job[w].shop
            BY <1>1, <3>1
        <3> QED BY <1>1, <3>1, <3>2 DEF PayoutInv, TypeOK
    <2> QED BY <1>1, <2>1, <2>2 DEF LocksHeld
<1> QED BY <1>1, <1>2, RequestKeeps DEF PayoutInv, CountsStand, SumsStand

LEMMA CountKeeps ==
    ASSUME PayoutInv, NEW w \in Workers, CountOrders(w), TypeOK'
    PROVE  PayoutInv'
<1>0. job[w] \in Job
    BY DEF PayoutInv, TypeOK, CountOrders, Idle
<1>1. /\ UNCHANGED <<gross, peak, payout, lock>> /\ job'[w].phase = "counted"
      /\ job'[w].shop = job[w].shop /\ job'[w].gross = gross[job[w].shop]
      /\ job[w].shop \in Shops /\ job[w].phase = "locked"
      /\ \A v \in Workers \ {w} : job'[v] = job[v]
    BY <1>0 DEF CountOrders, PayoutInv, TypeOK, Job
<1>2. LocksHeld' /\ CountsStand' /\ SumsStand'
    BY <1>1 DEF PayoutInv, LocksHeld, CountsStand, SumsStand, Counting
<1> QED BY <1>1, <1>2, RequestKeeps

LEMMA SumKeeps ==
    ASSUME PayoutInv, NEW w \in Workers, SumPayouts(w), TypeOK'
    PROVE  PayoutInv'
<1> DEFINE u == job[w].shop
           open == SumOf(Value(payout), Taken(payout, u, {"REQUESTED"}))
           done == SumOf(Value(payout), Taken(payout, u, {"PAID"}))
<1>0. job[w] \in Job
    BY DEF PayoutInv, TypeOK, SumPayouts, Idle
<1>1. /\ UNCHANGED <<gross, peak, payout, lock>> /\ job'[w].phase = "summed"
      /\ job'[w].shop = u /\ job'[w].gross = job[w].gross
      /\ job'[w].requested = open /\ job'[w].paid = done
      /\ job[w].phase = "counted"
      /\ \A v \in Workers \ {w} : job'[v] = job[v]
    BY <1>0, SumIsTaken DEF SumPayouts, PayoutInv, TypeOK, Job
<1>2. payout \in Rows
    BY DEF PayoutInv, TypeOK, Rows
<1>3. Asked(payout, u) = open + done
    BY <1>2, AskedSplits
<1>4. open = 0 =>
        \A p \in Payouts : ~(payout[p].status = "REQUESTED" /\ payout[p].shop = u)
    BY <1>2, NoneOpen DEF PayoutInv, OpenWorth
<1>5. open \in Nat /\ done \in Nat
    BY <1>2, TakenNat
<1> HIDE DEF open, done, u
<1>6. LocksHeld' /\ CountsStand'
    BY <1>1 DEF PayoutInv, LocksHeld, CountsStand, Counting, u
<1>7. SumsStand'
    <2>1. ASSUME NEW v \in Workers, job'[v].phase = "summed"
          PROVE  /\ Asked(payout, job'[v].shop) <= job'[v].requested + job'[v].paid
                 /\ job'[v].requested = 0 =>
                      \A p \in Payouts :
                          ~(payout[p].status = "REQUESTED" /\ payout[p].shop = job'[v].shop)
        <3>1. CASE v = w
            BY <1>1, <1>3, <1>4, <1>5, <3>1
        <3>2. CASE v # w
            BY <1>1, <2>1, <3>2 DEF PayoutInv, SumsStand
        <3> QED BY <3>1, <3>2
    <2> QED BY <1>1, <2>1 DEF SumsStand
<1> QED BY <1>1, <1>6, <1>7, RequestKeeps

LEMMA RollBackKeeps ==
    ASSUME PayoutInv, NEW w \in Workers, RollBack(w), TypeOK'
    PROVE  PayoutInv'
<1>1. /\ UNCHANGED <<gross, peak, payout>> /\ job'[w] = Idle
      /\ \A v \in Workers \ {w} : job'[v] = job[v]
      /\ lock' = [v \in Shops |-> IF lock[v] = w THEN Nobody ELSE lock[v]]
    BY DEF RollBack, PayoutInv, TypeOK
<1>2. LocksHeld'
    <2>1. ASSUME NEW v \in Workers \ {w}, job'[v].phase \in Counting
          PROVE  lock'[job'[v].shop] = v
        <3>1. job[v] \in Job
            BY <1>1, <2>1 DEF PayoutInv, TypeOK, Counting, Idle
        <3>2. job[v].shop \in Shops /\ lock[job[v].shop] = v
            BY <1>1, <2>1, <3>1 DEF PayoutInv, LocksHeld, Job
        <3> QED BY <1>1, <3>2
    <2> QED BY <1>1, <2>1 DEF LocksHeld, Counting, Idle
<1> QED BY <1>1, <1>2, RequestKeeps DEF PayoutInv, CountsStand, SumsStand, Idle

(* The request commits: nothing else of its shop is open, and what it adds is *)
(* still within the share the orders had when they were counted.             *)
LEMMA CreateFits ==
    ASSUME PayoutInv, NEW w \in Workers, NEW p \in Payouts, Create(w, p), TypeOK'
    PROVE  PayoutInv'
<1> DEFINE j == job[w]
           u == job[w].shop
           row == [status |-> "REQUESTED", shop |-> u, amount |-> job[w].amount]
<1>0. job[w] \in Job /\ payout \in Rows
    BY DEF PayoutInv, TypeOK, Create, Idle, Rows
<1>1. /\ UNCHANGED <<gross, peak>> /\ job'[w] = Idle
      /\ \A v \in Workers \ {w} : job'[v] = job[v]
      /\ payout[p] = NoPayout /\ payout' = [payout EXCEPT ![p] = row]
      /\ lock' = [lock EXCEPT ![u] = Nobody]
      /\ j.phase = "summed"
    BY DEF Create, PayoutInv, TypeOK
<1>2. row \in Row /\ row.status = "REQUESTED" /\ row.shop = u /\ row.amount = j.amount
      /\ u \in Shops /\ j.amount \in Nat
    BY <1>0, ValuesAssumption DEF Row, Job
<1>3. /\ j.requested \in Nat /\ j.paid \in Nat /\ j.gross \in Nat
      /\ j.requested = 0 /\ j.amount >= Minimum /\ j.amount <= Available(j)
    BY <1>0 DEF Create, Granted, Pending, Job
<1>4. /\ payout'[p] = row /\ \A q \in Payouts \ {p} : payout'[q] = payout[q]
    BY <1>0, <1>1 DEF Rows
<1>5. lock[u] = w
    BY <1>1 DEF PayoutInv, LocksHeld, Counting
<1>6. Asked(payout', u) = Asked(payout, u) + j.amount
    BY <1>0, <1>1, <1>2, OneMoreTaken
<1>7. \A v \in Shops \ {u} : Asked(payout', v) <= Asked(payout, v)
    <2>1. ASSUME NEW v \in Shops \ {u}
          PROVE  Asked(payout', v) <= Asked(payout, v)
        <3>1. payout' \in Rows
            BY DEF TypeOK, Rows
        <3>2. /\ Taken(payout', v, {"REQUESTED", "PAID"})
                     \subseteq Taken(payout, v, {"REQUESTED", "PAID"})
              /\ \A q \in Taken(payout', v, {"REQUESTED", "PAID"}) :
                   payout'[q].amount = payout[q].amount
            BY <1>2, <1>4 DEF Taken
        <3> QED BY <1>0, <3>1, <3>2, FewerTaken
    <2> QED BY <2>1
<1>8. \A v \in Shops : Asked(payout, v) \in Nat /\ Asked(payout', v) \in Nat
                       /\ Net(peak[v]) \in Int /\ peak[v] \in Nat
    <2>1. payout' \in Rows
        BY DEF TypeOK, Rows
    <2>2. \A v \in Shops : peak[v] \in Nat
        BY ValuesAssumption DEF PayoutInv, TypeOK
    <2>3. \A v \in Shops : Asked(payout, v) \in Nat /\ Asked(payout', v) \in Nat
        BY <1>0, <2>1, TakenNat DEF Asked
    <2> QED BY <2>2, <2>3, NetGrows
<1>9. j.amount <= Net(j.gross) - j.paid
    <2>1. Net(j.gross) \in Int
        BY <1>3, NetGrows
    <2> DEFINE x == Net(j.gross) - j.requested - j.paid
    <2>2. x \in Int /\ x = Net(j.gross) - j.paid
        BY <1>3, <2>1
    <2>3. Available(j) = Max({0, x})
        BY DEF Available
    <2> HIDE DEF x
    <2>4. Max({0, x}) \in {0, x}
        <3>1. \E y \in {0, x} : \A z \in {0, x} : y >= z
            BY <2>2
        <3> QED BY <3>1 DEF Max
    <2>5. j.amount > 0
        BY <1>2, <1>3, RulesAssumption
    <2> QED BY <1>2, <1>3, <2>2, <2>3, <2>4, <2>5
<1>10. WithinShare'
    <2>1. Asked(payout, u) <= j.requested + j.paid /\ j.gross <= peak[u]
        BY <1>1 DEF PayoutInv, SumsStand, CountsStand
    <2>2. Net(j.gross) \in Int /\ Net(j.gross) <= Net(peak[u])
        BY <1>2, <1>3, <1>8, <2>1, NetGrows
    <2>3. Asked(payout', u) <= Net(peak[u])
        BY <1>2, <1>3, <1>6, <1>8, <1>9, <2>1, <2>2
    <2>4. \A v \in Shops \ {u} : Asked(payout', v) <= Net(peak[v])
        BY <1>7, <1>8 DEF PayoutInv, WithinShare
    <2> QED BY <1>1, <2>3, <2>4 DEF WithinShare
<1>11. OneOpenRequest'
    <2>1. \A q \in Payouts : ~(payout[q].status = "REQUESTED" /\ payout[q].shop = u)
        BY <1>1, <1>3 DEF PayoutInv, SumsStand
    <2>2. \A q \in Payouts \ {p} :
            ~(payout'[q].status = "REQUESTED" /\ payout'[q].shop = payout'[p].shop)
        BY <1>2, <1>4, <2>1
    <2> QED BY <1>4, <2>2 DEF PayoutInv, OneOpenRequest
<1>12. OpenWorth'
    BY <1>2, <1>3, <1>4 DEF PayoutInv, OpenWorth
<1>13. ASSUME NEW v \in Workers, job'[v].phase \in Counting
       PROVE  v # w /\ job'[v] = job[v] /\ job[v].shop \in Shops \ {u}
                /\ lock[job[v].shop] = v
    <2>1. v # w
        BY <1>1, <1>13 DEF Counting, Idle
    <2>2. job'[v] = job[v] /\ job[v].phase \in Counting
        BY <1>1, <1>13, <2>1
    <2>3. job[v] \in Job
        BY <2>2 DEF PayoutInv, TypeOK, Counting, Idle
    <2>4. lock[job[v].shop] = v
        BY <2>2 DEF PayoutInv, LocksHeld
    <2>5. job[v].shop # u
        BY <1>5, <2>1, <2>4
    <2> QED BY <2>1, <2>2, <2>3, <2>4, <2>5 DEF Job
<1>14. LocksHeld'
    BY <1>1, <1>13 DEF LocksHeld, PayoutInv, TypeOK
<1>15. CountsStand'
    BY <1>1, <1>13 DEF PayoutInv, CountsStand, Counting
<1>16. SumsStand'
    <2>1. ASSUME NEW v \in Workers, job'[v].phase = "summed"
          PROVE  /\ Asked(payout', job'[v].shop) <= job'[v].requested + job'[v].paid
                 /\ job'[v].requested = 0 =>
                      \A q \in Payouts :
                          ~(payout'[q].status = "REQUESTED" /\ payout'[q].shop = job'[v].shop)
        <3>1. job'[v] = job[v] /\ job[v].shop \in Shops \ {u} /\ job[v].phase = "summed"
            BY <1>13, <2>1 DEF Counting
        <3>2. job[v] \in Job
            BY <3>1 DEF PayoutInv, TypeOK, Idle
        <3>3. /\ Asked(payout, job[v].shop) <= job[v].requested + job[v].paid
              /\ job[v].requested \in Nat /\ job[v].paid \in Nat
            BY <3>1, <3>2 DEF PayoutInv, SumsStand, Job
        <3>4. Asked(payout', job[v].shop) <= job[v].requested + job[v].paid
            BY <1>7, <1>8, <3>1, <3>3
        <3>5. job[v].requested = 0 =>
                \A q \in Payouts :
                    ~(payout'[q].status = "REQUESTED" /\ payout'[q].shop = job[v].shop)
            BY <1>2, <1>4, <3>1 DEF PayoutInv, SumsStand
        <3> QED BY <3>1, <3>4, <3>5
    <2> QED BY <2>1 DEF SumsStand
<1> QED BY <1>10, <1>11, <1>12, <1>14, <1>15, <1>16 DEF PayoutInv

(* Staff's answer takes a request out of the open ones, and adds nothing.     *)
LEMMA CloseFits ==
    ASSUME PayoutInv, NEW p \in Payouts, NEW outcome \in {"PAID", "REJECTED"},
           Close(p, outcome), TypeOK'
    PROVE  PayoutInv'
<1>0. payout \in Rows /\ payout' \in Rows /\ payout[p] \in Row
    BY DEF PayoutInv, TypeOK, Rows, Close, Open, NoPayout
<1>1. /\ UNCHANGED <<gross, peak, lock, job>> /\ payout[p].status = "REQUESTED"
      /\ payout'[p].status = outcome /\ payout'[p].shop = payout[p].shop
      /\ payout'[p].amount = payout[p].amount
      /\ \A q \in Payouts \ {p} : payout'[q] = payout[q]
    BY <1>0 DEF Close, Open, Rows, Row
<1>2. ASSUME NEW v
      PROVE  Asked(payout', v) <= Asked(payout, v)
    <2>1. /\ Taken(payout', v, {"REQUESTED", "PAID"})
                 \subseteq Taken(payout, v, {"REQUESTED", "PAID"})
          /\ \A q \in Taken(payout', v, {"REQUESTED", "PAID"}) :
               payout'[q].amount = payout[q].amount
        BY <1>1 DEF Taken
    <2> QED BY <1>0, <2>1, FewerTaken
<1>3. \A v : Asked(payout, v) \in Nat /\ Asked(payout', v) \in Nat
    BY <1>0, TakenNat DEF Asked
<1>4. WithinShare'
    <2>1. \A v \in Shops : peak[v] \in Nat
        BY ValuesAssumption DEF PayoutInv, TypeOK
    <2>2. \A v \in Shops : Net(peak[v]) \in Int
        BY <2>1, NetGrows
    <2>3. \A v \in Shops : Asked(payout', v) <= Net(peak[v])
        BY <1>2, <1>3, <2>2 DEF PayoutInv, WithinShare
    <2> QED BY <1>1, <2>3 DEF WithinShare
<1>5. \A q \in Payouts : payout'[q].status = "REQUESTED" =>
        payout'[q] = payout[q]
    BY <1>1
<1>6. OneOpenRequest' /\ OpenWorth'
    BY <1>5 DEF PayoutInv, OneOpenRequest, OpenWorth
<1>7. LocksHeld' /\ CountsStand'
    BY <1>1 DEF PayoutInv, LocksHeld, CountsStand
<1>8. SumsStand'
    <2>1. ASSUME NEW v \in Workers, job[v].phase = "summed"
          PROVE  Asked(payout', job[v].shop) <= job[v].requested + job[v].paid
        <3>1. job[v] \in Job
            BY <2>1 DEF PayoutInv, TypeOK, Idle
        <3>2. /\ Asked(payout, job[v].shop) <= job[v].requested + job[v].paid
              /\ job[v].requested \in Nat /\ job[v].paid \in Nat
            BY <2>1, <3>1 DEF PayoutInv, SumsStand, Job
        <3> QED BY <1>2, <1>3, <3>2
    <2> QED BY <1>1, <1>5, <2>1 DEF PayoutInv, SumsStand
<1> QED BY <1>4, <1>6, <1>7, <1>8 DEF PayoutInv

LEMMA PayoutInvStep ==
    ASSUME PayoutInv, [Next]_vars, TypeOK'
    PROVE  PayoutInv'
<1>1. CASE UNCHANGED vars
    BY <1>1, ShopKeeps DEF vars
<1>2. ASSUME NEW u \in Shops, NEW v \in Sales, OrderCompleted(u, v) \/ OrderUndone(u, v)
      PROVE  PayoutInv'
    <2>1. v \in Nat /\ gross[u] \in 0 .. MaxGross
        BY ValuesAssumption DEF PayoutInv, TypeOK
    <2>2. PICK x \in 0 .. MaxGross : SetGross(u, x)
        BY <1>2, <2>1, ValuesAssumption DEF OrderCompleted, OrderUndone
    <2> QED BY <2>2, OrdersKeep
<1>3. ASSUME NEW u \in Shops, UpsertBankAccount(u) \/ VerifyUmkm(u)
      PROVE  PayoutInv'
    BY <1>3, ShopKeeps DEF UpsertBankAccount, VerifyUmkm
<1>4. ASSUME NEW w \in Workers,
             (\E u \in Shops, a \in Amounts : Begin(w, u, a)) \/ Lock(w) \/ CountOrders(w)
               \/ SumPayouts(w) \/ RollBack(w) \/ (\E p \in Payouts : Create(w, p))
      PROVE  PayoutInv'
    BY <1>4, BeginKeeps, LockKeeps, CountKeeps, SumKeeps, RollBackKeeps, CreateFits
<1> QED BY <1>1, <1>2, <1>3, <1>4, CloseFits DEF Next

LEMMA PayoutInvHolds ==
    Spec => []PayoutInv
<1>1. PayoutInv /\ [Next]_vars => PayoutInv'
    <2>1. PayoutInv => TypeOK
        BY DEF PayoutInv
    <2> QED BY <2>1, TypeStep, PayoutInvStep
<1> QED BY InvStarts, <1>1, PTL DEF Spec

(* Two taps on "withdraw", from two phones or a network that repeats them:    *)
(* the second one waits for the shop's row, finds the first in its sum, and   *)
(* is refused.                                                               *)
THEOREM OneRequestAtATime == Spec => []OneOpenRequest
BY PayoutInvHolds, InvSays, PTL

(* Whatever is completed, undone, asked for and paid meanwhile, the open and  *)
(* paid requests of a shop stay within the seller's share of what its orders  *)
(* had earned at some time.                                                  *)
THEOREM NothingOverdrawn == Spec => []NeverOverdrawn
BY PayoutInvHolds, InvSays, PTL

-----------------------------------------------------------------------------
(* Every answer that staff was given stands in the row it was given for.     *)
AnswersStand == \A c \in closed : payout[c[1]].status = c[2]

LEMMA AnswersAgree ==
    TypeOK /\ AnswersStand => ClosedOnce
<1> SUFFICES ASSUME TypeOK, AnswersStand, NEW c \in closed, NEW d \in closed, c[1] = d[1]
             PROVE  c = d
    BY DEF AnswersStand, ClosedOnce
<1>1. c[2] = d[2]
    BY DEF AnswersStand
<1>2. c = <<c[1], c[2]>> /\ d = <<d[1], d[2]>>
    BY DEF TypeOK
<1> QED BY <1>1, <1>2

(* A new request takes a row that no answer can be about yet; close() changes *)
(* a row only where its status is REQUESTED still.                           *)
LEMMA AnswersStep ==
    ASSUME TypeOK, AnswersStand, [Next]_vars
    PROVE  AnswersStand'
<1>0. \A c \in closed : c[1] \in Payouts /\ c[2] \in {"PAID", "REJECTED"}
    BY DEF TypeOK
<1>1. ASSUME NEW w \in Workers, NEW p \in Payouts, Create(w, p)
      PROVE  AnswersStand'
    <2>1. closed' = closed /\ payout[p] = NoPayout
            /\ \A q \in Payouts \ {p} : payout'[q] = payout[q]
        BY <1>1 DEF Create, TypeOK
    <2>2. \A c \in closed : c[1] # p
        BY <1>0, <2>1 DEF AnswersStand, NoPayout
    <2> QED BY <1>0, <2>1, <2>2 DEF AnswersStand
<1>2. ASSUME NEW p \in Payouts, NEW outcome \in {"PAID", "REJECTED"}, Close(p, outcome)
      PROVE  AnswersStand'
    <2>1. payout[p] \in Row
        BY <1>2 DEF Close, Open, TypeOK, NoPayout
    <2>2. /\ payout[p].status = "REQUESTED" /\ payout'[p].status = outcome
          /\ \A q \in Payouts \ {p} : payout'[q] = payout[q]
          /\ closed' = closed \cup {<<p, outcome>>}
        BY <1>2, <2>1 DEF Close, Open, TypeOK, Row
    <2>3. \A c \in closed : c[1] # p
        BY <1>0, <2>2 DEF AnswersStand
    <2> QED BY <1>0, <2>2, <2>3 DEF AnswersStand
<1>3. \/ \E w \in Workers, p \in Payouts : Create(w, p)
      \/ \E p \in Payouts, outcome \in {"PAID", "REJECTED"} : Close(p, outcome)
      \/ UNCHANGED <<payout, closed>>
    BY DEF Next, vars, OrderCompleted, OrderUndone, SetGross, UpsertBankAccount, VerifyUmkm,
           Begin, Lock, CountOrders, SumPayouts, RollBack
<1>4. CASE UNCHANGED <<payout, closed>>
    BY <1>4 DEF AnswersStand
<1> QED BY <1>1, <1>2, <1>3, <1>4

(* However many staff members answer one request, and whenever they read it,  *)
(* one succeeds and the row keeps that answer: updateMany in close() only     *)
(* finds a row that is still REQUESTED.                                       *)
THEOREM AnsweredForGood == Spec => []ClosedOnce
<1>1. Init => AnswersStand
    BY DEF Init, AnswersStand
<1> QED BY <1>1, PayoutTyping, AnswersAgree, AnswersStep, PTL DEF Spec

-----------------------------------------------------------------------------
(* Refinement.  The sums are an account: an answer changes the sum of its    *)
(* shop by what Answer gives back, and no other.                            *)
LEMMA SameTaken ==
    ASSUME NEW rows \in Rows, NEW next \in Rows, NEW u,
           Taken(next, u, {"REQUESTED", "PAID"}) = Taken(rows, u, {"REQUESTED", "PAID"}),
           \A p \in Taken(rows, u, {"REQUESTED", "PAID"}) : next[p].amount = rows[p].amount
    PROVE  Asked(next, u) = Asked(rows, u)
<1> DEFINE A == Taken(rows, u, {"REQUESTED", "PAID"})
<1>1. \A p \in A : Value(next)[p] = Value(rows)[p]
    <2>1. A \subseteq Payouts
        BY DEF Taken
    <2> QED BY <2>1 DEF Value
<1>2. IsFiniteSet(A)
    BY TakenFinite
<1> HIDE DEF A
<1>3. SumOf(Value(next), A) = SumOf(Value(rows), A)
    BY <1>1, <1>2, SumSame
<1> QED BY <1>3 DEF Asked, A

LEMMA OneLessTaken ==
    ASSUME NEW rows \in Rows, NEW next \in Rows, NEW p \in Payouts, NEW u,
           p \in Taken(rows, u, {"REQUESTED", "PAID"}),
           Taken(next, u, {"REQUESTED", "PAID"})
             = Taken(rows, u, {"REQUESTED", "PAID"}) \ {p},
           \A q \in Payouts \ {p} : next[q].amount = rows[q].amount
    PROVE  Asked(next, u) = Asked(rows, u) - rows[p].amount
<1> DEFINE A == Taken(rows, u, {"REQUESTED", "PAID"})
<1>1. \A q \in A \ {p} : Value(next)[q] = Value(rows)[q]
    <2>1. A \subseteq Payouts
        BY DEF Taken
    <2> QED BY <2>1 DEF Value
<1>2. IsFiniteSet(A) /\ IsFiniteSet(A \ {p})
    BY TakenFinite, FS_Subset
<1>3. \A q \in A : Value(rows)[q] \in Nat
    BY TakenRows
<1>4. Value(rows)[p] = rows[p].amount
    BY DEF Value
<1> HIDE DEF A
<1>5. p \in A
    BY DEF A
<1>6. SumOf(Value(next), A \ {p}) = SumOf(Value(rows), A \ {p})
    BY <1>1, <1>2, SumSame
<1>7. SumOf(Value(rows), A) = Value(rows)[p] + SumOf(Value(rows), A \ {p})
    BY <1>2, <1>3, <1>5, SumRemove
<1>8. SumOf(Value(rows), A \ {p}) \in Nat
    BY <1>2, <1>3, SumNat
<1> QED BY <1>3, <1>4, <1>5, <1>6, <1>7, <1>8 DEF Asked, A

LEMMA AccountIs ==
    /\ Drawn = [u \in Shops |-> Asked(payout, u)]
    /\ Drawn' = [u \in Shops |-> Asked(payout', u)]
    /\ Share' = [u \in Shops |-> Net(peak'[u])]
<1>1. \A u : /\ Sum(u, {"REQUESTED", "PAID"}) = Asked(payout, u)
             /\ Sum(u, {"REQUESTED", "PAID"})' = Asked(payout', u)
    BY SumIsTaken DEF Asked
<1>2. Drawn' = [u \in Shops |-> Sum(u, {"REQUESTED", "PAID"})']
    BY DEF Drawn
<1>3. Share' = [u \in Shops |-> Net(peak'[u])]
    BY DEF Share, Net, Fee
<1> QED BY <1>1, <1>2, <1>3 DEF Drawn

LEMMA PromiseStarts ==
    Init => Promise!Init
<1> SUFFICES ASSUME Init PROVE Promise!Init
    OBVIOUS
<1>1. \A u : Taken(payout, u, {"REQUESTED", "PAID"}) = {}
    BY DEF Init, Taken, NoPayout
<1>2. Drawn = [u \in Shops |-> 0]
    BY <1>1, AccountIs, SumEmpty DEF Asked
<1>3. Share = [u \in Shops |-> 0]
    BY NetOfNothing DEF Init, Share
<1> QED BY <1>2, <1>3 DEF Init, Promise!Init, NoPayout, Promise!NoPayout

(* What orders earn.                                                        *)
LEMMA EarnsShare ==
    ASSUME PayoutInv, NEW u \in Shops, NEW x \in 0 .. MaxGross, SetGross(u, x)
    PROVE  Promise!Earn(u)
<1>1. /\ peak' = [peak EXCEPT ![u] = peak'[u]] /\ peak[u] <= peak'[u]
      /\ peak[u] \in Nat /\ peak'[u] \in Nat /\ payout' = payout /\ closed' = closed
    BY ValuesAssumption DEF SetGross, PayoutInv, TypeOK
<1>2. peak \in [Shops -> Nat]
    BY ValuesAssumption DEF PayoutInv, TypeOK
<1>3. Drawn' = Drawn
    BY <1>1, AccountIs
<1>4. Share[u] <= Share'[u]
    BY <1>1, NetGrows, AccountIs DEF Share
<1>5. Share' = [Share EXCEPT ![u] = Share'[u]]
    <2>1. \A v \in Shops \ {u} : peak'[v] = peak[v]
        BY <1>1, <1>2
    <2>2. Share = [v \in Shops |-> Net(peak[v])] /\ Share' = [v \in Shops |-> Net(peak'[v])]
        BY AccountIs DEF Share
    <2>3. \A v \in Shops : Share'[v] = IF v = u THEN Share'[u] ELSE Share[v]
        BY <2>1, <2>2
    <2> QED BY <2>2, <2>3
<1> QED BY <1>1, <1>3, <1>4, <1>5 DEF Promise!Earn

(* The commit of a request.                                                 *)
LEMMA CreateAsks ==
    ASSUME PayoutInv, PayoutInv', NEW w \in Workers, NEW p \in Payouts, Create(w, p)
    PROVE  \E u \in Shops, amount \in Amounts : Promise!Ask(p, u, amount)
<1> DEFINE u == job[w].shop
           amount == job[w].amount
           row == [status |-> "REQUESTED", shop |-> u, amount |-> amount]
<1>0. job[w] \in Job /\ payout \in Rows /\ payout' \in Rows
    BY DEF PayoutInv, TypeOK, Create, Idle, Rows
<1>1. /\ payout[p] = NoPayout /\ payout' = [payout EXCEPT ![p] = row]
      /\ peak' = peak /\ closed' = closed /\ job[w].phase = "summed"
    BY DEF Create
<1>2. row \in Row /\ row.status = "REQUESTED" /\ row.shop = u /\ row.amount = amount
      /\ u \in Shops /\ amount \in Nat /\ amount \in Amounts
    BY <1>0, ValuesAssumption DEF Row, Job
<1>3. job[w].requested = 0 /\ Minimum <= amount
    BY <1>0, RulesAssumption DEF Create, Granted, Pending, Job
<1>4. \A q \in Payouts : ~(payout[q].status = "REQUESTED" /\ payout[q].shop = u)
    BY <1>1, <1>3 DEF PayoutInv, SumsStand
<1> HIDE DEF row, u, amount
<1>5. Asked(payout', u) = Asked(payout, u) + amount
    BY <1>0, <1>1, <1>2, OneMoreTaken
<1>6. \A v \in Shops \ {u} : Asked(payout', v) = Asked(payout, v)
    <2>1. ASSUME NEW v \in Shops \ {u}
          PROVE  Asked(payout', v) = Asked(payout, v)
        <3>1. payout'[p] = row /\ \A q \in Payouts \ {p} : payout'[q] = payout[q]
            BY <1>0, <1>1 DEF Rows
        <3>2. Taken(payout', v, {"REQUESTED", "PAID"}) = Taken(payout, v, {"REQUESTED", "PAID"})
            BY <1>1, <1>2, <3>1 DEF Taken, NoPayout
        <3>3. \A q \in Taken(payout, v, {"REQUESTED", "PAID"}) :
                payout'[q].amount = payout[q].amount
            BY <1>1, <3>1 DEF Taken, NoPayout
        <3> QED BY <1>0, <3>2, <3>3, SameTaken
    <2> QED BY <2>1
<1>7. Drawn' = [Drawn EXCEPT ![u] = @ + amount]
    BY <1>2, <1>5, <1>6, AccountIs
<1>8. Drawn[u] + amount <= Share[u]
    <2>1. Asked(payout', u) <= Net(peak[u])
        BY <1>1, <1>2 DEF PayoutInv, WithinShare
    <2> QED BY <1>2, <1>5, <2>1, AccountIs DEF Share
<1>9. Share' = Share
    BY <1>1, AccountIs DEF Share
<1>10. payout[p] = Promise!NoPayout /\ UNCHANGED <<Share, closed>>
       /\ payout' = [payout EXCEPT ![p] = [status |-> "REQUESTED", shop |-> u,
                                           amount |-> amount]]
    BY <1>1, <1>9 DEF NoPayout, Promise!NoPayout, row
<1>11. Promise!Ask(p, u, amount)
    BY <1>3, <1>4, <1>7, <1>8, <1>10 DEF Promise!Ask
<1> QED BY <1>2, <1>11

(* Staff's answer.                                                          *)
LEMMA CloseAnswers ==
    ASSUME PayoutInv, PayoutInv', NEW p \in Payouts, NEW outcome \in {"PAID", "REJECTED"},
           Close(p, outcome)
    PROVE  Promise!Answer(p, outcome)
<1> DEFINE u == payout[p].shop
           amount == payout[p].amount
<1>0. payout \in Rows /\ payout' \in Rows /\ payout[p] \in Row
    BY DEF PayoutInv, TypeOK, Rows, Close, Open, NoPayout
<1>1. /\ peak' = peak /\ payout[p].status = "REQUESTED"
      /\ payout' = [payout EXCEPT ![p].status = outcome]
      /\ closed' = closed \cup {<<p, outcome>>}
      /\ payout'[p].status = outcome /\ payout'[p].shop = u
      /\ payout'[p].amount = amount
      /\ \A q \in Payouts \ {p} : payout'[q] = payout[q]
    BY <1>0 DEF Close, Open, Rows, Row
<1>2. u \in Shops /\ amount \in Nat
    BY <1>0 DEF Row
<1>3. p \in Taken(payout, u, {"REQUESTED", "PAID"})
    BY <1>1 DEF Taken
<1> HIDE DEF u, amount
<1>4. ASSUME NEW v \in Shops, v # u \/ outcome = "PAID"
      PROVE  Asked(payout', v) = Asked(payout, v)
    <2>1. Taken(payout', v, {"REQUESTED", "PAID"}) = Taken(payout, v, {"REQUESTED", "PAID"})
        BY <1>1, <1>4 DEF Taken, u
    <2>2. \A q \in Taken(payout, v, {"REQUESTED", "PAID"}) : payout'[q].amount = payout[q].amount
        BY <1>1 DEF Taken, amount
    <2> QED BY <1>0, <2>1, <2>2, SameTaken
<1>5. ASSUME outcome = "REJECTED"
      PROVE  Asked(payout', u) = Asked(payout, u) - amount
    <2>1. Taken(payout', u, {"REQUESTED", "PAID"})
            = Taken(payout, u, {"REQUESTED", "PAID"}) \ {p}
        BY <1>1, <1>5 DEF Taken, u
    <2>2. \A q \in Payouts \ {p} : payout'[q].amount = payout[q].amount
        BY <1>1
    <2> QED BY <1>0, <1>3, <2>1, <2>2, OneLessTaken DEF amount
<1>6. Drawn' = [Drawn EXCEPT ![u] = IF outcome = "REJECTED" THEN @ - amount ELSE @]
    BY <1>2, <1>4, <1>5, AccountIs
<1>7. Share' = Share
    BY <1>1, AccountIs DEF Share
<1> QED BY <1>1, <1>6, <1>7 DEF Promise!Answer, u, amount

LEMMA PromiseStep ==
    ASSUME PayoutInv, PayoutInv', [Next]_vars
    PROVE  [Promise!Next]_<<Share, Drawn, payout, closed>>
<1>1. ASSUME NEW u \in Shops, NEW v \in Sales, OrderCompleted(u, v) \/ OrderUndone(u, v)
      PROVE  Promise!Next
    <2>1. v \in Nat /\ gross[u] \in 0 .. MaxGross
        BY ValuesAssumption DEF PayoutInv, TypeOK
    <2>2. PICK x \in 0 .. MaxGross : SetGross(u, x)
        BY <1>1, <2>1, ValuesAssumption DEF OrderCompleted, OrderUndone
    <2>3. Promise!Earn(u)
        BY <2>2, EarnsShare
    <2> QED BY <2>3 DEF Promise!Next
<1>2. ASSUME NEW w \in Workers, NEW p \in Payouts, Create(w, p)
      PROVE  Promise!Next
    <2>1. PICK u \in Shops, amount \in Amounts : Promise!Ask(p, u, amount)
        BY <1>2, CreateAsks
    <2> QED BY <2>1 DEF Promise!Next
<1>3. ASSUME NEW p \in Payouts, NEW outcome \in {"PAID", "REJECTED"}, Close(p, outcome)
      PROVE  Promise!Next
    <2>1. Promise!Answer(p, outcome)
        BY <1>3, CloseAnswers
    <2> QED BY <2>1 DEF Promise!Next
<1>4. CASE UNCHANGED <<peak, payout, closed>>
    <2>1. Share' = Share /\ Drawn' = Drawn
        BY <1>4, AccountIs DEF Share
    <2> QED BY <1>4, <2>1
<1>5. \/ \E u \in Shops, v \in Sales : OrderCompleted(u, v) \/ OrderUndone(u, v)
      \/ \E w \in Workers, p \in Payouts : Create(w, p)
      \/ \E p \in Payouts, outcome \in {"PAID", "REJECTED"} : Close(p, outcome)
      \/ UNCHANGED <<peak, payout, closed>>
    BY DEF Next, vars, UpsertBankAccount, VerifyUmkm, Begin, Lock, CountOrders, SumPayouts,
           RollBack
<1> QED BY <1>1, <1>2, <1>3, <1>4, <1>5

(* Payouts with their locks, separate sums and statuses implement Withdrawals: *)
(* a request takes its amount at its commit, from an account that holds it,   *)
(* and staff's answer is one step that returns it or not.                     *)
THEOREM PayoutsWithdrawAtOnce == Spec => WithdrawsAtOnce
<1>1. Spec => [][Promise!Next]_<<Share, Drawn, payout, closed>>
    BY PayoutInvHolds, PromiseStep, PTL DEF Spec
<1> QED BY <1>1, PromiseStarts, PTL DEF Spec, WithdrawsAtOnce, Promise!Spec
=============================================================================
