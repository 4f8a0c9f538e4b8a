----------------------------- MODULE ShopProofs -----------------------------
(***************************************************************************)
(* Stock, its history and the receipts of the point of sale, for every set   *)
(* of products, customers, orders and requests.  The reads that a handler    *)
(* decides on may be old; what holds is what the row locks and the unique    *)
(* receipt number hold: open transactions write different products, and a    *)
(* row inserted under the lock is younger than any committed one.            *)
(***************************************************************************)
EXTENDS Shop, FiniteSetTheorems, TLAPS

WrittenIn(k) == IF k.op \in {"posting", "checkout", "restore"} THEN k.written ELSE {}

AtMostOne(s) == \A a, b \in s : a = b

(* Each product once, among the items of an order and the rows of one        *)
(* transaction.                                                             *)
Once(s) == \A i, j \in s : i.product = j.product => i = j

StockPart ==
    /\ stock \in [Products -> 0 .. MaxStock]
    /\ newest \in [Products -> [after : 0 .. MaxStock, at : 0 .. MaxMoves]]
    /\ booked \in [Refs -> 0 .. 1]
    /\ clock \in 0 .. MaxMoves
    /\ edited \subseteq Products
    /\ \A p \in Products : newest[p].at <= clock
    /\ HistoryEndsAtStock

CartPart ==
    /\ lines \in [Customers -> [Products -> [id : 0 .. MaxLines, quantity : 0 .. MaxStock]]]
    /\ lineIds \in 0 .. MaxLines
    /\ \A c \in Customers, p \in Products : InCart(c, p) => lines[c][p].quantity > 0

OrderPart ==
    /\ placed \in [Orders -> SUBSET Item]
    /\ restored \in [Orders -> 0 .. MaxRestores]
    /\ \A o \in Orders : Once(placed[o])

AnswerPart == answered \subseteq Refs /\ \A r \in answered : booked[r] = 1

(* What a transaction still has to write is not written yet.                 *)
Unwritten(items, written) == \A i \in items : \A r \in written : i.product # r.product

Fits(k) ==
    /\ k \in Jobs \cup {[op |-> "idle"]}
    /\ k.op \in {"newLine", "setLine"} => k.quantity > 0
    /\ k.op = "posting" => /\ \E r \in Row : k.written = {r} /\ r.ref = k.ref
                           /\ k.ref # NoRef => booked[k.ref] = 0
    /\ k.op = "answer" => booked[k.ref] = 1
    /\ k.op = "checkout" =>
         /\ Once(k.items) /\ k.todo \subseteq k.items /\ k.next \subseteq k.items
         /\ AtMostOne(k.next) /\ k.todo \cap k.next = {}
         /\ Unwritten(k.todo \cup k.next, k.written)
    /\ k.op = "restore" => Once(k.todo) /\ Unwritten(k.todo, k.written)
    /\ k.op \in {"checkout", "restore"} =>
         Once(k.written) /\ \A r \in k.written : r.ref = NoRef

JobPart == job = [w \in Workers |-> job[w]] /\ \A w \in Workers : Fits(job[w])

(* Rows that are not committed yet.                                         *)
OpenPart ==
    /\ \A w \in Workers : \A r \in Written(w) :
         r \in Row /\ newest[r.product].at < r.at /\ r.at <= clock
    /\ \A v, w \in Workers : v # w =>
         \A r \in Written(v), s \in Written(w) :
            r.product # s.product /\ (r.ref = s.ref => r.ref = NoRef)

IInv == StockPart /\ CartPart /\ OrderPart /\ AnswerPart /\ JobPart /\ OpenPart

-----------------------------------------------------------------------------
(* The shape of a job follows from what it does.                             *)
LEMMA JobShape ==
    ASSUME NEW k \in Jobs \cup {[op |-> "idle"]}
    PROVE  /\ k.op = "move" => k \in [op : {"move"}, product : Products,
                after : 0 .. MaxStock, ref : Refs \cup {NoRef}]
           /\ k.op = "posting" => k \in [op : {"posting"}, ref : Refs \cup {NoRef},
                written : SUBSET Row]
           /\ k.op \in {"pos", "answer"} => k \in [op : {"pos", "answer"}, ref : Refs]
           /\ k.op \in {"add", "update"} => k \in [op : {"add", "update"},
                customer : Customers, product : Products, quantity : Quantities,
                seen : 0 .. MaxStock]
           /\ k.op \in {"newLine", "setLine", "dropLine"} =>
                k \in [op : {"newLine", "setLine", "dropLine"}, customer : Customers,
                       product : Products, id : 0 .. MaxLines, quantity : 0 .. MaxStock]
           /\ k.op = "checkout" => k \in [op : {"checkout"}, customer : Customers,
                items : SUBSET Item, todo : SUBSET Item, next : SUBSET Item,
                after : 0 .. MaxStock, written : SUBSET Row]
           /\ k.op = "restore" => k \in [op : {"restore"}, order : Orders,
                todo : SUBSET Item, written : SUBSET Row]
BY DEF Jobs

LEMMA WrittenIs ==
    \A w : Written(w) = WrittenIn(job[w])
BY DEF Written, WrittenIn

(* IInv gives the invariants of the runs.                                    *)
LEMMA ShopKeeps ==
    IInv => TypeOK /\ HistoryEndsAtStock /\ ReceiptBookedOnce
<1> SUFFICES ASSUME IInv PROVE TypeOK /\ ReceiptBookedOnce
    BY DEF IInv, StockPart
<1>1. job \in [Workers -> Jobs \cup {[op |-> "idle"]}]
    BY DEF IInv, JobPart, Fits
<1>2. booked \in [Refs -> Nat]
    BY DEF IInv, StockPart
<1>3. TypeOK
    BY <1>1, <1>2 DEF IInv, StockPart, CartPart, OrderPart, AnswerPart, TypeOK
<1>4. ReceiptBookedOnce
    BY DEF IInv, StockPart, AnswerPart, ReceiptBookedOnce
<1> QED BY <1>3, <1>4

LEMMA ShopStarts ==
    Init => IInv
<1> SUFFICES ASSUME Init PROVE IInv
    OBVIOUS
<1> USE ShopBoundsAssumption, FirstStockAssumption
<1>1. StockPart
    BY DEF Init, StockPart, NoRow, HistoryEndsAtStock
<1>2. CartPart
    BY DEF Init, CartPart, NoLine, InCart
<1>3. OrderPart /\ AnswerPart
    BY DEF Init, OrderPart, AnswerPart, Once
<1>4. JobPart
    BY DEF Init, JobPart, Fits
<1>5. OpenPart
    BY DEF Init, OpenPart, Written
<1> QED BY <1>1, <1>2, <1>3, <1>4, <1>5 DEF IInv

-----------------------------------------------------------------------------
(* A handler that only goes on, and commits nothing: its rows stay open or   *)
(* are rolled back.                                                         *)
LEMMA GoesOn ==
    ASSUME IInv, NEW w \in Workers, NEW k, job' = [job EXCEPT ![w] = k],
           UNCHANGED <<stockVars, clock>>, Fits(k), WrittenIn(k) \subseteq Written(w)
    PROVE  StockPart' /\ JobPart' /\ OpenPart'
<1>1. StockPart'
    BY DEF IInv, StockPart, HistoryEndsAtStock, stockVars
<1>2. \A v \in Workers : job'[v] = IF v = w THEN k ELSE job[v]
    BY DEF IInv, JobPart
<1>3. \A j : Fits(j) => Fits(j)'
    BY DEF Fits, stockVars
<1>4. JobPart'
    BY <1>2, <1>3 DEF IInv, JobPart
<1>5. \A v \in Workers : Written(v)' \subseteq Written(v)
    BY <1>2 DEF Written, WrittenIn
<1>6. OpenPart'
    BY <1>5 DEF IInv, OpenPart, stockVars
<1> QED BY <1>1, <1>4, <1>6

(* A row is inserted under the lock of its product.                          *)
LEMMA Inserts ==
    ASSUME IInv, NEW w \in Workers, NEW k, NEW p \in Products, NEW after \in 0 .. MaxStock,
           NEW ref \in Refs \cup {NoRef},
           RowFree(w, p), clock < MaxMoves, clock' = clock + 1,
           UNCHANGED stockVars, job' = [job EXCEPT ![w] = k], Fits(k),
           WrittenIn(k) \subseteq Written(w) \cup
             {[product |-> p, after |-> after, at |-> clock + 1, ref |-> ref]},
           ref # NoRef => ~RefBeingWritten(w, ref)
    PROVE  StockPart' /\ JobPart' /\ OpenPart'
<1> DEFINE row == [product |-> p, after |-> after, at |-> clock + 1, ref |-> ref]
<1>0. /\ clock \in Nat /\ MaxMoves \in Nat /\ clock + 1 \in 1 .. MaxMoves
      /\ clock + 1 \in 0 .. MaxMoves
    BY ShopBoundsAssumption DEF IInv, StockPart
<1>1. StockPart'
    BY <1>0 DEF IInv, StockPart, HistoryEndsAtStock, stockVars
<1>2. \A v \in Workers : job'[v] = IF v = w THEN k ELSE job[v]
    BY DEF IInv, JobPart
<1>3. \A j : Fits(j) => Fits(j)'
    BY DEF Fits, stockVars
<1>4. JobPart'
    BY <1>2, <1>3 DEF IInv, JobPart
<1>5. /\ row \in Row /\ row.product = p /\ row.at = clock + 1 /\ row.ref = ref
    BY <1>0 DEF Row
<1>6. /\ \A v \in Workers \ {w} : Written(v)' = Written(v)
      /\ Written(w)' \subseteq Written(w) \cup {row}
    BY <1>2 DEF Written, WrittenIn
<1> HIDE DEF row
<1>7. \A v \in Workers \ {w} : \A r \in Written(v) :
         r.product # p /\ (ref # NoRef => r.ref # ref)
    BY DEF RowFree, RefBeingWritten
<1>8. newest[p].at < clock + 1 /\ newest[p].at \in Nat
    BY <1>0 DEF IInv, StockPart
<1>9. ASSUME NEW v \in Workers, NEW r \in Written(v)'
      PROVE  r \in Row /\ newest'[r.product].at < r.at /\ r.at <= clock'
    <2>1. CASE r \in Written(v)
        BY <1>0, <2>1 DEF IInv, OpenPart, Row, stockVars
    <2>2. CASE r = row
        BY <1>0, <1>5, <1>8, <2>2 DEF stockVars
    <2> QED BY <1>6, <2>1, <2>2
<1>10. ASSUME NEW u \in Workers, NEW v \in Workers, u # v,
              NEW r \in Written(u)', NEW s \in Written(v)'
       PROVE  r.product # s.product /\ (r.ref = s.ref => r.ref = NoRef)
    <2>1. CASE r \in Written(u) /\ s \in Written(v)
        BY <1>10, <2>1 DEF IInv, OpenPart
    <2>2. CASE r = row /\ u = w
        BY <1>5, <1>6, <1>7, <1>10, <2>2
    <2>3. CASE s = row /\ v = w
        BY <1>5, <1>6, <1>7, <1>10, <2>3
    <2> QED BY <1>6, <1>10, <2>1, <2>2, <2>3
<1>11. OpenPart'
    BY <1>9, <1>10 DEF OpenPart
<1> QED BY <1>1, <1>4, <1>11

(* A transaction commits: the products it wrote were locked since.           *)
LEMMA Commits ==
    ASSUME IInv, NEW w \in Workers, job[w].op \in {"posting", "checkout", "restore"},
           CommitRows(w), UNCHANGED clock, NEW k, job' = [job EXCEPT ![w] = k],
           WrittenIn(k) = {}, Fits(k)'
    PROVE  /\ StockPart' /\ JobPart' /\ OpenPart'
           /\ \A r \in Refs : booked[r] = 1 => booked'[r] = 1
           /\ \A r \in Written(w) : r.ref # NoRef => booked'[r.ref] = 1
<1>0. /\ StockPart /\ JobPart /\ OpenPart /\ Fits(job[w])
      /\ \A v \in Workers : job'[v] = IF v = w THEN k ELSE job[v]
    BY DEF IInv, JobPart
<1> DEFINE Of(p) == {r \in Written(w) : r.product = p}
<1>1. Once(Written(w))
    BY <1>0 DEF Fits, Written, Once
<1>2. ASSUME NEW p \in Products, NEW r \in Written(w), r.product = p
      PROVE  stock'[p] = r.after /\ newest'[p] = [after |-> r.after, at |-> r.at]
             /\ p \notin edited'
    <2>1. Of(p) = {r}
        BY <1>1, <1>2 DEF Once
    <2>2. (CHOOSE s \in Of(p) : TRUE) = r
        BY <2>1
    <2>3. {s \in Of(p) : s.at > newest[p].at} = {r}
        BY <1>0, <1>2, <2>1 DEF OpenPart, Row, StockPart
    <2>4. (CHOOSE s \in {s \in Of(p) : s.at > newest[p].at} : TRUE) = r
        BY <2>3
    <2>5. stock'[p] = r.after
        BY <2>1, <2>2 DEF CommitRows
    <2>6. newest'[p] = [after |-> r.after, at |-> r.at]
        BY <2>3, <2>4 DEF CommitRows
    <2>7. p \notin edited'
        BY <2>1 DEF CommitRows
    <2> QED BY <2>5, <2>6, <2>7
<1>3. ASSUME NEW p \in Products, \A r \in Written(w) : r.product # p
      PROVE  stock'[p] = stock[p] /\ newest'[p] = newest[p] /\ (p \in edited' <=> p \in edited)
    <2>1. Of(p) = {} /\ {s \in Of(p) : s.at > newest[p].at} = {}
        BY <1>3
    <2> QED BY <2>1 DEF CommitRows
<1>4. ASSUME NEW ref \in Refs
      PROVE  /\ booked'[ref] = IF \E r \in Written(w) : r.ref = ref THEN 1 ELSE booked[ref]
             /\ (\E r \in Written(w) : r.ref = ref) => booked[ref] = 0
    <2> DEFINE S == {r \in Written(w) : r.ref = ref}
    <2>1. booked'[ref] = booked[ref] + Cardinality(S) /\ booked[ref] \in 0 .. 1
        BY <1>0 DEF CommitRows, StockPart
    <2>2. CASE job[w].op = "posting"
        <3>1. PICK r \in Row : Written(w) = {r} /\ r.ref = job[w].ref
            BY <1>0, <2>2 DEF Fits, Written
        <3>2. CASE r.ref = ref
            <4>1. S = {r} /\ booked[ref] = 0
                BY <1>0, <2>2, <3>1, <3>2, NoRefAssumption DEF Fits
            <4>2. Cardinality(S) = 1
                BY <4>1, FS_Singleton
            <4> QED BY <2>1, <3>1, <3>2, <4>1, <4>2
        <3>3. CASE r.ref # ref
            <4>1. S = {}
                BY <3>1, <3>3
            <4> QED BY <2>1, <3>1, <3>3, <4>1, FS_EmptySet
        <3> QED BY <3>2, <3>3
    <2>3. CASE job[w].op # "posting"
        <3>1. \A r \in Written(w) : r.ref = NoRef
            BY <1>0, <2>3 DEF Fits, Written
        <3>2. S = {} /\ ~\E r \in Written(w) : r.ref = ref
            BY <3>1, NoRefAssumption
        <3> QED BY <2>1, <3>2, FS_EmptySet
    <2> QED BY <2>2, <2>3
<1>5. StockPart'
    <2>1. DOMAIN stock' = Products /\ DOMAIN newest' = Products /\ DOMAIN booked' = Refs
          /\ edited' \subseteq edited
        BY DEF CommitRows
    <2>2. ASSUME NEW p \in Products
          PROVE  /\ stock'[p] \in 0 .. MaxStock
                 /\ newest'[p] \in [after : 0 .. MaxStock, at : 0 .. MaxMoves]
                 /\ newest'[p].at <= clock
                 /\ p \notin edited' => newest'[p].at > 0 /\ newest'[p].after = stock'[p]
        <3>1. CASE \A r \in Written(w) : r.product # p
            BY <1>0, <1>3, <2>2, <3>1 DEF StockPart, HistoryEndsAtStock
        <3>2. ASSUME NEW r \in Written(w), r.product = p
              PROVE  /\ stock'[p] \in 0 .. MaxStock
                     /\ newest'[p] \in [after : 0 .. MaxStock, at : 0 .. MaxMoves]
                     /\ newest'[p].at <= clock
                     /\ newest'[p].at > 0 /\ newest'[p].after = stock'[p]
            <4>1. stock'[p] = r.after /\ newest'[p] = [after |-> r.after, at |-> r.at]
                BY <1>2, <3>2
            <4>2. r.after \in 0 .. MaxStock /\ r.at \in 1 .. MaxMoves /\ r.at <= clock
                BY <1>0 DEF OpenPart, Row
            <4> QED BY <4>1, <4>2
        <3> QED BY <3>1, <3>2
    <2>3. \A r \in Refs : booked'[r] \in 0 .. 1
        BY <1>0, <1>4 DEF StockPart
    <2>4. /\ stock' \in [Products -> 0 .. MaxStock]
          /\ newest' \in [Products -> [after : 0 .. MaxStock, at : 0 .. MaxMoves]]
          /\ booked' \in [Refs -> 0 .. 1]
        <3>1. /\ stock' = [p \in Products |-> stock'[p]]
              /\ newest' = [p \in Products |-> newest'[p]]
              /\ booked' = [r \in Refs |-> booked'[r]]
            <4>1. stock' = [p \in Products |-> stock'[p]]
                BY SMT DEF CommitRows
            <4>2. newest' = [p \in Products |-> newest'[p]]
                BY SMT DEF CommitRows
            <4>3. booked' = [r \in Refs |-> booked'[r]]
                BY SMT DEF CommitRows
            <4> QED BY <4>1, <4>2, <4>3
        <3> QED BY <2>2, <2>3, <3>1
    <2> QED BY <1>0, <2>1, <2>2, <2>4 DEF StockPart, HistoryEndsAtStock
<1>6. /\ \A v \in Workers \ {w} : Written(v)' = Written(v)
      /\ Written(w)' = {}
    BY <1>0 DEF Written, WrittenIn
<1>7. OpenPart'
    <2>1. ASSUME NEW v \in Workers \ {w}, NEW r \in Written(v)
          PROVE  newest'[r.product] = newest[r.product]
        <3>1. r.product \in Products /\ \A s \in Written(w) : s.product # r.product
            BY <1>0 DEF OpenPart, Row
        <3> QED BY <1>3, <3>1
    <2> QED BY <1>0, <1>6, <2>1 DEF OpenPart
<1>8. ASSUME NEW v \in Workers \ {w}
      PROVE  Fits(job[v])'
    <2>1. Fits(job[v]) /\ job'[v] = job[v]
        BY <1>0 DEF JobPart
    <2>2. job[v].op = "answer" => booked'[job[v].ref] = 1
        <3>1. job[v].op = "answer" => job[v].ref \in Refs /\ booked[job[v].ref] = 1
            BY <2>1, JobShape DEF Fits
        <3> QED BY <1>4, <3>1
    <2>3. job[v].op = "posting" /\ job[v].ref # NoRef => booked'[job[v].ref] = 0
        <3>1. SUFFICES ASSUME job[v].op = "posting", job[v].ref # NoRef
                       PROVE  booked'[job[v].ref] = 0
            OBVIOUS
        <3>2. /\ job[v].ref \in Refs /\ booked[job[v].ref] = 0
              /\ \E r \in Written(v) : r.ref = job[v].ref
            BY <2>1, <3>1, JobShape DEF Fits, Written
        <3>3. \A s \in Written(w) : s.ref # job[v].ref
            BY <1>0, <3>1, <3>2 DEF OpenPart
        <3> QED BY <1>4, <3>2, <3>3
    <2> QED BY <2>1, <2>2, <2>3 DEF Fits
<1>9. JobPart'
    BY <1>0, <1>8 DEF JobPart
<1>10. \A r \in Written(w) : r.ref # NoRef => r.ref \in Refs
    BY <1>0 DEF OpenPart, Row
<1> QED BY <1>4, <1>5, <1>7, <1>9, <1>10
-----------------------------------------------------------------------------
(* A handler that reads and decides, and writes nothing.                     *)
LEMMA Decides ==
    ASSUME IInv, NEW w \in Workers, NEW k, job' = [job EXCEPT ![w] = k],
           UNCHANGED <<stockVars, clock, cartVars, orderVars, answered>>,
           Fits(k), WrittenIn(k) \subseteq Written(w)
    PROVE  IInv'
<1>1. StockPart' /\ JobPart' /\ OpenPart'
    BY GoesOn
<1>2. CartPart' /\ OrderPart' /\ AnswerPart'
    BY DEF IInv, CartPart, InCart, OrderPart, AnswerPart, cartVars, orderVars, stockVars
<1> QED BY <1>1, <1>2 DEF IInv

LEMMA IdleFits ==
    /\ Fits([op |-> "idle"]) /\ WrittenIn([op |-> "idle"]) = {}
    /\ Fits([op |-> "idle"])'
BY DEF Fits, WrittenIn

(* A request that begins to write a movement, or is given up.                *)
LEMMA StockStep ==
    ASSUME IInv, StockNext
    PROVE  IInv'
<1>0. /\ \A w \in Workers : Fits(job[w]) /\ job[w] \in Jobs \cup {[op |-> "idle"]}
      /\ StockPart
    BY DEF IInv, JobPart, Fits
<1>1. ASSUME NEW e \in Edits, Edit(e[1], e[2])
      PROVE  IInv'
    <2>1. e[1] \in Products /\ e[2] \in 0 .. MaxStock
        BY RequestsAssumption
    <2>2. /\ stock' = [stock EXCEPT ![e[1]] = e[2]] /\ edited' = edited \cup {e[1]}
          /\ UNCHANGED <<newest, booked, clock, cartVars, orderVars, answered, job>>
        BY <1>1 DEF Edit
    <2>3. StockPart'
        BY <1>0, <2>1, <2>2 DEF StockPart, HistoryEndsAtStock
    <2>4. CartPart' /\ OrderPart' /\ AnswerPart'
        BY <2>2 DEF IInv, CartPart, InCart, OrderPart, AnswerPart, cartVars, orderVars
    <2>5. JobPart' /\ OpenPart'
        BY <2>2 DEF IInv, JobPart, Fits, OpenPart, Written
    <2> QED BY <2>3, <2>4, <2>5 DEF IInv
<1>2. ASSUME NEW w \in Workers, NEW p \in Products, NEW n \in 0 .. MaxStock,
             NEW ref \in Refs \cup {NoRef}
      PROVE  Fits(ReadyToMove(p, n, ref)) /\ WrittenIn(ReadyToMove(p, n, ref)) = {}
    BY <1>2 DEF Fits, Jobs, ReadyToMove, WrittenIn
<1>3. ASSUME NEW ref \in Refs, booked[ref] = 1
      PROVE  Fits([op |-> "answer", ref |-> ref]) /\ WrittenIn([op |-> "answer", ref |-> ref]) = {}
    BY <1>3 DEF Fits, Jobs, WrittenIn
<1>4. ASSUME NEW w \in Workers, NEW m \in Changes, AdjustReads(w, m[1], m[2])
      PROVE  IInv'
    <2>1. m[1] \in Products /\ stock[m[1]] + m[2] \in 0 .. MaxStock
        BY <1>4, RequestsAssumption DEF AdjustReads
    <2> QED BY <1>2, <1>4, <2>1, Decides DEF AdjustReads, Start
<1>5. ASSUME NEW w \in Workers, NEW m \in Counts, OpnameReads(w, m[1], m[2])
      PROVE  IInv'
    <2>1. m[1] \in Products /\ m[2] \in 0 .. MaxStock
        BY RequestsAssumption
    <2> QED BY <1>2, <1>5, <2>1, Decides DEF OpnameReads, Start
<1>6. ASSUME NEW w \in Workers, NEW ref \in Refs, PosAsks(w, ref)
      PROVE  IInv'
    <2>1. booked[ref] \in 0 .. 1
        BY <1>0 DEF StockPart
    <2>2. CASE booked[ref] > 0
        <3>1. /\ job' = [job EXCEPT ![w] = [op |-> "answer", ref |-> ref]]
              /\ UNCHANGED <<stockVars, clock, cartVars, orderVars, answered>>
            BY <1>6, <2>2 DEF PosAsks, Start
        <3>2. /\ Fits([op |-> "answer", ref |-> ref])
              /\ WrittenIn([op |-> "answer", ref |-> ref]) = {}
            BY <1>3, <2>1, <2>2
        <3> QED BY <3>1, <3>2, Decides
    <2>3. CASE booked[ref] = 0
        <3>1. Fits([op |-> "pos", ref |-> ref]) /\ WrittenIn([op |-> "pos", ref |-> ref]) = {}
            BY DEF Fits, Jobs, WrittenIn
        <3>2. /\ job' = [job EXCEPT ![w] = [op |-> "pos", ref |-> ref]]
              /\ UNCHANGED <<stockVars, clock, cartVars, orderVars, answered>>
            BY <1>6, <2>3 DEF PosAsks, Start
        <3> QED BY <3>1, <3>2, Decides
    <2> QED BY <2>1, <2>2, <2>3
<1>7. ASSUME NEW w \in Workers, PosReads(w)
      PROVE  IInv'
    <2> DEFINE p == SaleOf[job[w].ref][1]
               left == stock[p] - SaleOf[job[w].ref][2]
    <2>1. /\ job[w].ref \in Refs
          /\ UNCHANGED <<stockVars, clock, cartVars, orderVars, answered>>
        BY <1>0, <1>7, JobShape DEF PosReads
    <2>2. p \in Products /\ SaleOf[job[w].ref][2] \in 1 .. MaxStock
        BY <2>1, RequestsAssumption
    <2>3. stock[p] \in 0 .. MaxStock
        BY <1>0, <2>2 DEF StockPart
    <2>4. CASE job' = [job EXCEPT ![w] = [op |-> "idle"]]
        BY <2>1, <2>4, Decides, IdleFits
    <2>5. CASE left >= 0 /\ job' = [job EXCEPT ![w] = ReadyToMove(p, left, job[w].ref)]
        <3>1. left \in 0 .. MaxStock
            BY <2>2, <2>3, <2>5, ShopBoundsAssumption
        <3> QED BY <1>2, <2>1, <2>2, <2>5, <3>1, Decides
    <2>6. left < 0 \/ left >= 0
        BY <2>2, <2>3
    <2> QED BY <1>7, <2>4, <2>5, <2>6 DEF PosReads, Finish, Goto
<1>8. ASSUME NEW w \in Workers, PosConflict(w)
      PROVE  IInv'
    <2>1. job[w].ref \in Refs /\ booked[job[w].ref] = 1
        BY <1>0, <1>8, JobShape DEF PosConflict, RefTaken, StockPart
    <2> QED BY <1>3, <1>8, <2>1, Decides DEF PosConflict, Goto
<1>9. ASSUME NEW w \in Workers, Post(w)
      PROVE  IInv'
    <2> DEFINE k == job[w]
               row == [product |-> k.product, after |-> k.after, at |-> clock + 1,
                       ref |-> k.ref]
               new == [op |-> "posting", ref |-> k.ref, written |-> {row}]
    <2>1. /\ k.product \in Products /\ k.after \in 0 .. MaxStock /\ k.ref \in Refs \cup {NoRef}
          /\ k.op = "move"
        BY <1>0, <1>9, JobShape DEF Post
    <2>2. /\ RowFree(w, k.product) /\ clock < MaxMoves /\ clock' = clock + 1
          /\ job' = [job EXCEPT ![w] = [[op |-> "posting", ref |-> k.ref, written |-> {}]
               EXCEPT !.written = @ \cup {[product |-> k.product, after |-> k.after,
                                           at |-> clock', ref |-> k.ref]}]]
          /\ UNCHANGED <<stockVars, cartVars, orderVars, answered>>
        BY <1>9 DEF Post, Insert, Goto
    <2>3. job' = [job EXCEPT ![w] = new]
        <3>1. [[op |-> "posting", ref |-> k.ref, written |-> {}]
                  EXCEPT !.written = @ \cup {row}] = new
            OBVIOUS
        <3> QED BY <2>2, <3>1
    <2>4. row \in Row /\ row.ref = k.ref
        BY <1>0, <2>1, <2>2, ShopBoundsAssumption DEF Row, StockPart
    <2>5. k.ref # NoRef => booked[k.ref] = 0 /\ ~RefBeingWritten(w, k.ref)
        BY <1>0, <1>9, <2>1 DEF Post, RefTaken, StockPart
    <2>6. /\ new \in Jobs /\ new.op = "posting" /\ new.written = {row} /\ new.ref = k.ref
        BY <2>1, <2>4 DEF Jobs
    <2> HIDE DEF new
    <2>7. Fits(new)
        BY <2>4, <2>5, <2>6 DEF Fits
    <2>8. WrittenIn(new) \subseteq Written(w) \cup {row}
        BY <2>6 DEF WrittenIn
    <2>9. StockPart' /\ JobPart' /\ OpenPart'
        BY <2>1, <2>2, <2>3, <2>5, <2>7, <2>8, Inserts
    <2>10. CartPart' /\ OrderPart' /\ AnswerPart'
        BY <2>2 DEF IInv, CartPart, InCart, OrderPart, AnswerPart, cartVars, orderVars, stockVars
    <2> QED BY <2>9, <2>10 DEF IInv
<1>10. ASSUME NEW w \in Workers, CommitPost(w)
       PROVE  IInv'
    <2>1. /\ job[w].op = "posting" /\ CommitRows(w)
          /\ UNCHANGED <<clock, cartVars, orderVars, answered>>
        BY <1>10 DEF CommitPost
    <2>2. PICK k : /\ job' = [job EXCEPT ![w] = k]
                   /\ k = IF job[w].ref = NoRef THEN [op |-> "idle"]
                          ELSE [op |-> "answer", ref |-> job[w].ref]
        BY <1>10 DEF CommitPost, Finish, Goto
    <2>3. WrittenIn(k) = {}
        BY <2>2 DEF WrittenIn
    <2>4. Fits(k)'
        <3>1. CASE job[w].ref = NoRef
            BY <2>2, <3>1, IdleFits
        <3>2. CASE job[w].ref # NoRef
            <4>1. job[w].ref \in Refs /\ booked[job[w].ref] = 0
                BY <1>0, <2>1, <3>2, JobShape DEF Fits
            <4>2. PICK r : Written(w) = {r} /\ r.ref = job[w].ref
                BY <1>0, <2>1 DEF Fits, Written
            <4>3. {r1 \in Written(w) : r1.ref = job[w].ref} = {r}
                BY <4>2
            <4>4. booked'[job[w].ref] = booked[job[w].ref] + Cardinality({r})
                BY <2>1, <4>1, <4>3 DEF CommitRows
            <4>5. booked'[job[w].ref] = 1
                <5>1. Cardinality({r}) = 1
                    BY FS_Singleton
                <5> QED BY <4>1, <4>4, <5>1
            <4> QED BY <2>2, <3>2, <4>1, <4>5 DEF Fits, Jobs
        <3> QED BY <3>1, <3>2
    <2>5. StockPart' /\ JobPart' /\ OpenPart' /\ \A r \in Refs : booked[r] = 1 => booked'[r] = 1
        BY <2>1, <2>2, <2>3, <2>4, Commits
    <2>6. CartPart' /\ OrderPart' /\ AnswerPart'
        BY <2>1, <2>5 DEF IInv, CartPart, InCart, OrderPart, AnswerPart, cartVars, orderVars
    <2> QED BY <2>5, <2>6 DEF IInv
<1>11. ASSUME NEW w \in Workers, Answer(w)
       PROVE  IInv'
    <2>1. job[w].ref \in Refs /\ booked[job[w].ref] = 1
        BY <1>0, <1>11, JobShape DEF Answer, Fits
    <2>2. /\ answered' = answered \cup {job[w].ref} /\ job' = [job EXCEPT ![w] = [op |-> "idle"]]
          /\ UNCHANGED <<stockVars, clock, cartVars, orderVars>>
        BY <1>11 DEF Answer, Finish, Goto
    <2>3. StockPart' /\ JobPart' /\ OpenPart'
        BY <2>2, GoesOn, IdleFits
    <2>4. CartPart' /\ OrderPart' /\ AnswerPart'
        BY <2>1, <2>2 DEF IInv, CartPart, InCart, OrderPart, AnswerPart, cartVars, orderVars,
                          stockVars
    <2> QED BY <2>3, <2>4 DEF IInv
<1> QED
    BY <1>1, <1>4, <1>5, <1>6, <1>7, <1>8, <1>9, <1>10, <1>11 DEF StockNext

-----------------------------------------------------------------------------
(* Carts.                                                                   *)
LEMMA CartStep ==
    ASSUME IInv, CartNext
    PROVE  IInv'
<1>0. /\ \A w \in Workers : Fits(job[w]) /\ job[w] \in Jobs \cup {[op |-> "idle"]}
      /\ StockPart /\ CartPart
    BY DEF IInv, JobPart, Fits
<1>1. ASSUME NEW op \in {"newLine", "setLine", "dropLine"}, NEW c \in Customers,
             NEW p \in Products, NEW id \in 0 .. MaxLines, NEW n \in 0 .. MaxStock,
             n > 0 \/ op = "dropLine"
      PROVE  Fits(LineJob(op, c, p, id, n)) /\ WrittenIn(LineJob(op, c, p, id, n)) = {}
    BY <1>1 DEF Fits, Jobs, LineJob, WrittenIn
<1>2. ASSUME NEW w \in Workers, NEW c \in Customers, NEW p \in Products,
             NEW op \in {"add", "update"}, NEW n \in Quantities, StockAsked(w, op, c, p, n)
      PROVE  IInv'
    <2> DEFINE k == [op |-> op, customer |-> c, product |-> p, quantity |-> n, seen |-> stock[p]]
    <2>1. Fits(k) /\ WrittenIn(k) = {}
        BY <1>0 DEF Fits, Jobs, WrittenIn, StockPart
    <2> QED BY <1>2, <2>1, Decides DEF StockAsked, Start
<1>3. ASSUME NEW w \in Workers, job[w].op \in {"add", "update"}
      PROVE  /\ job[w].customer \in Customers /\ job[w].product \in Products
             /\ job[w].quantity \in 1 .. MaxStock /\ job[w].seen \in 0 .. MaxStock
             /\ lines[job[w].customer][job[w].product].id \in 0 .. MaxLines
             /\ lines[job[w].customer][job[w].product].quantity \in 0 .. MaxStock
    <2>1. job[w] \in [op : {"add", "update"}, customer : Customers, product : Products,
                      quantity : Quantities, seen : 0 .. MaxStock]
        BY <1>0, <1>3, JobShape
    <2> QED BY <1>0, <2>1, QuantitiesAssumption DEF CartPart
<1>4. ASSUME NEW w \in Workers, AddReads(w)
      PROVE  IInv'
    <2> DEFINE k == job[w]
               line == lines[k.customer][k.product]
               total == line.quantity + k.quantity
    <2>1. /\ k.op = "add"
          /\ UNCHANGED <<stockVars, clock, cartVars, orderVars, answered>>
        BY <1>4 DEF AddReads
    <2>2. CASE line.id = 0
        <3>1. job' = [job EXCEPT ![w] = LineJob("newLine", k.customer, k.product, 0, k.quantity)]
            BY <1>4, <2>2 DEF AddReads, Goto
        <3>2. 0 \in 0 .. MaxLines /\ k.quantity \in 0 .. MaxStock /\ k.quantity > 0
            BY <1>3, <2>1, ShopBoundsAssumption
        <3> QED BY <1>1, <1>3, <2>1, <3>1, <3>2, Decides
    <2>3. CASE line.id # 0 /\ total <= k.seen
        <3>1. job' = [job EXCEPT ![w] = LineJob("setLine", k.customer, k.product, line.id, total)]
            BY <1>4, <2>3 DEF AddReads, Goto
        <3>2. total \in 0 .. MaxStock /\ total > 0
            BY <1>3, <2>1, <2>3, ShopBoundsAssumption
        <3> QED BY <1>1, <1>3, <2>1, <3>1, <3>2, Decides
    <2>4. CASE line.id # 0 /\ ~(total <= k.seen)
        <3>1. job' = [job EXCEPT ![w] = [op |-> "idle"]]
            BY <1>4, <2>4 DEF AddReads, Finish, Goto
        <3> QED BY <2>1, <3>1, Decides, IdleFits
    <2> QED BY <2>2, <2>3, <2>4
<1>5. ASSUME NEW w \in Workers, UpdateReads(w)
      PROVE  IInv'
    <2> DEFINE k == job[w]
               line == lines[k.customer][k.product]
    <2>1. /\ k.op = "update"
          /\ UNCHANGED <<stockVars, clock, cartVars, orderVars, answered>>
        BY <1>5 DEF UpdateReads
    <2>2. CASE line.id = 0
        <3>1. job' = [job EXCEPT ![w] = [op |-> "idle"]]
            BY <1>5, <2>2 DEF UpdateReads, Finish, Goto
        <3> QED BY <2>1, <3>1, Decides, IdleFits
    <2>3. CASE line.id # 0
        <3>1. job' = [job EXCEPT ![w] = LineJob("setLine", k.customer, k.product, line.id,
                                                k.quantity)]
            BY <1>5, <2>3 DEF UpdateReads, Goto
        <3>2. k.quantity \in 0 .. MaxStock /\ k.quantity > 0
            BY <1>3, <2>1, ShopBoundsAssumption
        <3> QED BY <1>1, <1>3, <2>1, <3>1, <3>2, Decides
    <2> QED BY <2>2, <2>3
<1>6. ASSUME NEW w \in Workers, NEW c \in Customers, NEW p \in Products, RemoveReads(w, c, p)
      PROVE  IInv'
    <2>1. lines[c][p].id \in 0 .. MaxLines /\ 0 \in 0 .. MaxStock
        BY <1>0, ShopBoundsAssumption DEF CartPart
    <2>2. Fits(LineJob("dropLine", c, p, lines[c][p].id, 0))
          /\ WrittenIn(LineJob("dropLine", c, p, lines[c][p].id, 0)) = {}
        BY <1>1, <2>1
    <2> QED BY <1>6, <2>2, Decides DEF RemoveReads, Start
(* The cart changes, the stock does not.                                    *)
<1>7. ASSUME NEW w \in Workers, job' = [job EXCEPT ![w] = [op |-> "idle"]],
             UNCHANGED <<stockVars, clock, orderVars, answered>>, CartPart'
      PROVE  IInv'
    <2>1. StockPart' /\ JobPart' /\ OpenPart'
        BY <1>7, GoesOn, IdleFits
    <2>2. OrderPart' /\ AnswerPart'
        BY <1>7 DEF IInv, OrderPart, AnswerPart, orderVars, stockVars
    <2> QED BY <1>7, <2>1, <2>2 DEF IInv
<1>8. ASSUME NEW w \in Workers, NewLine(w) \/ OnLine(w)
      PROVE  IInv'
    <2> DEFINE k == job[w]
    <2>1. /\ k \in [op : {"newLine", "setLine", "dropLine"}, customer : Customers,
                    product : Products, id : 0 .. MaxLines, quantity : 0 .. MaxStock]
          /\ k.op \in {"newLine", "setLine"} => k.quantity > 0
          /\ job' = [job EXCEPT ![w] = [op |-> "idle"]]
          /\ UNCHANGED <<stockVars, clock, orderVars, answered>>
        BY <1>0, <1>8, JobShape DEF NewLine, OnLine, Fits, Finish, Goto
    <2> SUFFICES CartPart'
        BY <1>7, <2>1
    <2>2. CASE UNCHANGED cartVars
        BY <1>0, <2>2 DEF CartPart, InCart, cartVars
    <2>3. ASSUME NEW line \in [id : 0 .. MaxLines, quantity : 0 .. MaxStock],
                 PutLine(k.customer, k.product, line), line.id # 0 => line.quantity > 0,
                 lineIds' \in 0 .. MaxLines
          PROVE  CartPart'
        BY <1>0, <2>1, <2>3 DEF CartPart, InCart, PutLine
    <2>4. CASE /\ NewLine(w) /\ lineIds < MaxLines /\ lineIds' = lineIds + 1
               /\ PutLine(k.customer, k.product, [id |-> lineIds', quantity |-> k.quantity])
        <3>1. k.op \in {"newLine", "setLine"} /\ lineIds' \in 0 .. MaxLines
            BY <1>0, <2>4, ShopBoundsAssumption DEF NewLine, CartPart
        <3>2. [id |-> lineIds', quantity |-> k.quantity]
                 \in [id : 0 .. MaxLines, quantity : 0 .. MaxStock]
            BY <2>1, <3>1
        <3> QED BY <2>1, <2>3, <2>4, <3>1, <3>2
    <2>5. CASE OnLine(w) /\ lines' # lines
        <3>1. UNCHANGED lineIds /\ lineIds \in 0 .. MaxLines
            BY <1>0, <2>5 DEF OnLine, CartPart
        <3>2. CASE k.op = "setLine"
            <4>1. PutLine(k.customer, k.product, [id |-> k.id, quantity |-> k.quantity])
                BY <2>5, <3>2 DEF OnLine
            <4>2. [id |-> k.id, quantity |-> k.quantity]
                     \in [id : 0 .. MaxLines, quantity : 0 .. MaxStock]
                BY <2>1
            <4> QED BY <2>1, <2>3, <3>1, <3>2, <4>1, <4>2
        <3>3. CASE k.op # "setLine"
            <4>1. PutLine(k.customer, k.product, NoLine)
                BY <2>5, <3>3 DEF OnLine
            <4>2. NoLine \in [id : 0 .. MaxLines, quantity : 0 .. MaxStock] /\ NoLine.id = 0
                BY ShopBoundsAssumption DEF NoLine
            <4> QED BY <2>3, <3>1, <4>1, <4>2
        <3> QED BY <3>2, <3>3
    <2>6. CASE NewLine(w)
        BY <2>2, <2>4, <2>6 DEF NewLine
    <2>7. CASE OnLine(w)
        BY <2>2, <2>5, <2>7 DEF OnLine, cartVars
    <2> QED BY <1>8, <2>6, <2>7
<1>9. ASSUME NEW c \in Customers, ClearCart(c)
      PROVE  IInv'
    <2>1. /\ lines' = [lines EXCEPT ![c] = [p \in Products |-> NoLine]]
          /\ UNCHANGED <<stockVars, clock, lineIds, orderVars, answered, job>>
        BY <1>9 DEF ClearCart
    <2>2. CartPart'
        BY <1>0, <2>1, ShopBoundsAssumption DEF CartPart, InCart, NoLine
    <2>3. StockPart' /\ OrderPart' /\ AnswerPart' /\ JobPart' /\ OpenPart'
        BY ZenonT(40), <2>1 DEF IInv, StockPart, HistoryEndsAtStock, OrderPart, AnswerPart,
                    JobPart, Fits, OpenPart, Written, stockVars, orderVars
    <2> QED BY <2>2, <2>3 DEF IInv
<1> QED
    BY <1>2, <1>4, <1>5, <1>6, <1>8, <1>9 DEF CartNext
-----------------------------------------------------------------------------
(* The jobs of a checkout and of a cancellation.                             *)
CheckoutJobs ==
    [op : {"checkout"}, customer : Customers, items : SUBSET Item, todo : SUBSET Item,
     next : SUBSET Item, after : 0 .. MaxStock, written : SUBSET Row]

RestoreJobs ==
    [op : {"restore"}, order : Orders, todo : SUBSET Item, written : SUBSET Row]

LEMMA CheckoutShape ==
    ASSUME NEW k, Fits(k)
    PROVE  /\ k.op = "checkout" => k \in CheckoutJobs
           /\ k.op = "restore" => k \in RestoreJobs
<1>1. k \in Jobs \cup {[op |-> "idle"]}
    BY DEF Fits
<1> QED BY <1>1, JobShape DEF CheckoutJobs, RestoreJobs

(* When the job of a checkout or a cancellation fits.                        *)
LEMMA CheckoutFits ==
    ASSUME NEW k \in CheckoutJobs,
           Once(k.items), k.todo \subseteq k.items, k.next \subseteq k.items,
           AtMostOne(k.next), k.todo \cap k.next = {},
           Unwritten(k.todo \cup k.next, k.written), Once(k.written),
           \A r \in k.written : r.ref = NoRef
    PROVE  Fits(k)
<1>1. k.op = "checkout" /\ k \in Jobs
    BY DEF CheckoutJobs, Jobs
<1> QED BY <1>1 DEF Fits

LEMMA RestoreFits ==
    ASSUME NEW k \in RestoreJobs,
           Once(k.todo), Unwritten(k.todo, k.written), Once(k.written),
           \A r \in k.written : r.ref = NoRef
    PROVE  Fits(k)
<1>1. k.op = "restore" /\ k \in Jobs
    BY DEF RestoreJobs, Jobs
<1> QED BY <1>1 DEF Fits

(* A checkout that begins has items of different products.                   *)
LEMMA CheckoutBegins ==
    ASSUME IInv, NEW w \in Workers, NEW c \in Customers, NEW items \in SUBSET Item, Once(items),
           Start(w, Checkout(c, items)),
           UNCHANGED <<stockVars, clock, cartVars, orderVars, answered>>
    PROVE  IInv'
<1> DEFINE k == Checkout(c, items)
<1>1. Fits(k)
    <2>1. 0 \in 0 .. MaxStock
        BY ShopBoundsAssumption
    <2>2. /\ k \in CheckoutJobs /\ k.items = items /\ k.todo = items
          /\ k.next = {} /\ k.written = {}
        BY <2>1 DEF Checkout, CheckoutJobs
    <2> HIDE DEF k
    <2>3. AtMostOne(k.next) /\ Unwritten(k.todo \cup k.next, k.written) /\ Once(k.written)
        BY <2>2 DEF AtMostOne, Unwritten, Once
    <2> QED BY <2>2, <2>3, CheckoutFits
<1>2. WrittenIn(k) = {}
    BY DEF WrittenIn, Checkout
<1>3. job' = [job EXCEPT ![w] = k]
    BY DEF Start
<1> HIDE DEF k
<1> QED BY <1>1, <1>2, <1>3, Decides

LEMMA OrderStep ==
    ASSUME IInv, NEW w \in Workers,
           \/ \E c \in Customers : \/ CartRead(w, c)
                                   \/ \E items \in DirectItems : DirectOrder(w, c, items)
           \/ \E o \in Orders : CancelBegins(w, o)
           \/ ReadItem(w) \/ WriteItem(w) \/ CommitOrder(w)
           \/ RestoreItem(w) \/ CommitRestore(w) \/ DeadlockVictim(w) \/ Crash(w)
    PROVE  IInv'
<1>0. Fits(job[w]) /\ StockPart /\ CartPart /\ OrderPart /\ OpenPart
    BY DEF IInv, JobPart
<1>1. ASSUME NEW c \in Customers, CartRead(w, c)
      PROVE  IInv'
    <2>1. PICK chosen \in SUBSET {p \in Products : InCart(c, p)} :
             Start(w, Checkout(c, {[product |-> p, line |-> lines[c][p].id,
                                    quantity |-> lines[c][p].quantity] : p \in chosen}))
        BY <1>1 DEF CartRead
    <2> DEFINE items == {[product |-> p, line |-> lines[c][p].id,
                          quantity |-> lines[c][p].quantity] : p \in chosen}
    <2>2. \A p \in chosen : [product |-> p, line |-> lines[c][p].id,
                             quantity |-> lines[c][p].quantity] \in Item
        BY <1>0, <2>1 DEF CartPart, InCart, Item
    <2>3. items \in SUBSET Item /\ Once(items)
        BY <2>2 DEF Once
    <2> HIDE DEF items
    <2> QED BY <1>1, <2>1, <2>3, CheckoutBegins DEF CartRead, items
<1>2. ASSUME NEW c \in Customers, NEW its \in DirectItems, DirectOrder(w, c, its)
      PROVE  IInv'
    <2> DEFINE items == {[product |-> i[1], line |-> 0, quantity |-> i[2]] : i \in its}
    <2>1. \A i \in its : i[1] \in Products /\ i[2] \in 1 .. MaxStock
        BY RequestsAssumption
    <2>2. items \in SUBSET Item
        BY <2>1, ShopBoundsAssumption DEF Item
    <2>3. \A i, j \in its : i[1] = j[1] => i = j
        BY RequestsAssumption
    <2>4. Once(items)
        BY <2>3 DEF Once
    <2>5. /\ Start(w, Checkout(c, items))
          /\ UNCHANGED <<stockVars, clock, cartVars, orderVars, answered>>
        BY <1>2 DEF DirectOrder
    <2> HIDE DEF items
    <2> QED BY <2>2, <2>4, <2>5, CheckoutBegins
<1>3. ASSUME NEW o \in Orders, CancelBegins(w, o)
      PROVE  IInv'
    <2> DEFINE k == [op |-> "restore", order |-> o, todo |-> placed[o], written |-> {}]
    <2>1. /\ job' = [job EXCEPT ![w] = k]
          /\ UNCHANGED <<stockVars, clock, cartVars, orderVars, answered>>
        BY <1>3 DEF CancelBegins, Start
    <2>2. placed[o] \in SUBSET Item /\ Once(placed[o]) /\ Unwritten(placed[o], {}) /\ Once({})
        BY <1>0 DEF OrderPart, Unwritten, Once
    <2>3. WrittenIn(k) = {}
        BY DEF WrittenIn
    <2>4. k \in RestoreJobs /\ k.todo = placed[o] /\ k.written = {}
        BY <2>2 DEF RestoreJobs
    <2> HIDE DEF k
    <2>5. Fits(k)
        BY <2>2, <2>4, RestoreFits
    <2> QED BY <2>1, <2>3, <2>5, Decides
<1>4. ASSUME ReadItem(w)
      PROVE  IInv'
    <2> DEFINE k == job[w]
    <2>1. /\ k.op = "checkout" /\ k.next = {}
          /\ UNCHANGED <<stockVars, clock, cartVars, orderVars, answered>>
        BY <1>4 DEF ReadItem
    <2>2. PICK i \in k.todo :
             \/ job' = [job EXCEPT ![w] = [op |-> "idle"]]
             \/ job' = [job EXCEPT ![w] = [k EXCEPT !.todo = @ \ {i}, !.next = {i},
                                                    !.after = Left(i)]]
        BY <1>4 DEF ReadItem, Goto, Finish
    <2>3. CASE job' = [job EXCEPT ![w] = [op |-> "idle"]]
        BY <2>1, <2>3, Decides, IdleFits
    <2>4. CASE job' = [job EXCEPT ![w] = [k EXCEPT !.todo = @ \ {i}, !.next = {i},
                                                   !.after = Left(i)]]
        <3> DEFINE new == [k EXCEPT !.todo = @ \ {i}, !.next = {i}, !.after = Left(i)]
        <3>a. k \in CheckoutJobs
            BY <1>0, <2>1, CheckoutShape
        <3>1. /\ k.todo \in SUBSET Item /\ i \in Item /\ k.items \in SUBSET Item
              /\ k.todo \subseteq k.items /\ Once(k.items) /\ Once(k.written)
              /\ Unwritten(k.todo, k.written) /\ \A r \in k.written : r.ref = NoRef
            BY <1>0, <2>1, <3>a DEF Fits, CheckoutJobs, Unwritten
        <3>3. Left(i) \in 0 .. MaxStock
            <4>1. stock[i.product] \in 0 .. MaxStock /\ i.quantity \in 1 .. MaxStock
                BY <1>0, <3>1 DEF StockPart, Item
            <4> QED BY <4>1, ShopBoundsAssumption DEF Left, Short
        <3>2. /\ new \in CheckoutJobs /\ new.op = "checkout" /\ new.items = k.items
              /\ new.todo = k.todo \ {i} /\ new.next = {i} /\ new.written = k.written
            <4>1. k.todo \ {i} \in SUBSET Item /\ {i} \in SUBSET Item
                BY <3>1
            <4> QED BY <3>a, <3>3, <4>1 DEF CheckoutJobs
        <3> HIDE DEF new
        <3>4. /\ AtMostOne(new.next) /\ Unwritten(new.todo \cup new.next, new.written)
              /\ new.todo \cap new.next = {}
              /\ new.todo \subseteq new.items /\ new.next \subseteq new.items
            BY <3>1, <3>2 DEF AtMostOne, Unwritten
        <3>5. Fits(new)
            BY <3>1, <3>2, <3>4, CheckoutFits
        <3>6. WrittenIn(new) = Written(w)
            BY <2>1, <3>2 DEF WrittenIn, Written
        <3>7. job' = [job EXCEPT ![w] = new]
            BY <2>4 DEF new
        <3> QED BY <2>1, <3>5, <3>6, <3>7, Decides
    <2> QED BY <2>2, <2>3, <2>4
<1>5. ASSUME WriteItem(w)
      PROVE  IInv'
    <2> DEFINE k == job[w]
    <2>1. k.op = "checkout" /\ UNCHANGED <<stockVars, cartVars, orderVars, answered>>
        BY <1>5 DEF WriteItem
    <2>2. PICK i \in k.next : Insert(w, [k EXCEPT !.next = {}], i.product, k.after, NoRef)
        BY <1>5 DEF WriteItem
    <2> DEFINE row == [product |-> i.product, after |-> k.after, at |-> clock + 1, ref |-> NoRef]
               new == [[k EXCEPT !.next = {}] EXCEPT !.written = @ \cup {row}]
    <2>3. /\ RowFree(w, i.product) /\ clock < MaxMoves /\ clock' = clock + 1
          /\ job' = [job EXCEPT ![w] = new]
        BY <2>2 DEF Insert, Goto
    <2>a. k \in CheckoutJobs
        BY <1>0, <2>1, CheckoutShape
    <2>4. /\ k.after \in 0 .. MaxStock
          /\ k.written \in SUBSET Row /\ i \in Item /\ i \in k.items
          /\ k.todo \subseteq k.items /\ i \notin k.todo /\ Once(k.items) /\ Once(k.written)
          /\ Unwritten(k.todo, k.written) /\ Unwritten({i}, k.written)
          /\ \A r \in k.written : r.ref = NoRef
        BY <1>0, <2>1, <2>a DEF Fits, Unwritten, CheckoutJobs
    <2>6. /\ row \in Row /\ row.ref = NoRef /\ row.product = i.product
          /\ i.product \in Products
        BY <1>0, <2>3, <2>4, ShopBoundsAssumption DEF Row, Item, StockPart
    <2> HIDE DEF row
    <2>5. /\ new \in CheckoutJobs /\ new.op = "checkout" /\ new.items = k.items
          /\ new.todo = k.todo /\ new.next = {} /\ new.written = k.written \cup {row}
        <3>1. k.written \cup {row} \in SUBSET Row
            BY <2>4, <2>6
        <3>2. new = [[k EXCEPT !.next = {}] EXCEPT !.written = k.written \cup {row}]
            BY <2>a DEF CheckoutJobs
        <3> HIDE DEF new
        <3> QED BY <2>a, <3>1, <3>2 DEF CheckoutJobs
    <2> HIDE DEF new
    <2>7. /\ AtMostOne(new.next) /\ Once(new.written) /\ Once(new.items)
          /\ Unwritten(new.todo \cup new.next, new.written)
          /\ new.todo \subseteq new.items /\ new.next \subseteq new.items
          /\ new.todo \cap new.next = {} /\ \A r \in new.written : r.ref = NoRef
        BY <2>4, <2>5, <2>6 DEF AtMostOne, Once, Unwritten
    <2>8. Fits(new)
        BY <2>5, <2>7, CheckoutFits
    <2>9. WrittenIn(new) \subseteq Written(w) \cup {row}
        BY <2>1, <2>5 DEF WrittenIn, Written
    <2>10. StockPart' /\ JobPart' /\ OpenPart'
        BY <2>1, <2>3, <2>4, <2>6, <2>8, <2>9, Inserts DEF row
    <2>11. CartPart' /\ OrderPart' /\ AnswerPart'
        BY <2>1 DEF IInv, CartPart, InCart, OrderPart, AnswerPart, cartVars, orderVars, stockVars
    <2> QED BY <2>10, <2>11 DEF IInv
<1>6. ASSUME RestoreItem(w)
      PROVE  IInv'
    <2> DEFINE k == job[w]
    <2>1. k.op = "restore" /\ UNCHANGED <<stockVars, cartVars, orderVars, answered>>
        BY <1>6 DEF RestoreItem
    <2>2. PICK i \in k.todo : Insert(w, [k EXCEPT !.todo = @ \ {i}], i.product,
                                     stock[i.product] + i.quantity, NoRef)
        BY <1>6 DEF RestoreItem
    <2> DEFINE after == stock[i.product] + i.quantity
               row == [product |-> i.product, after |-> after, at |-> clock + 1, ref |-> NoRef]
               new == [[k EXCEPT !.todo = @ \ {i}] EXCEPT !.written = @ \cup {row}]
    <2>3. /\ RowFree(w, i.product) /\ clock < MaxMoves /\ clock' = clock + 1
          /\ after <= MaxStock /\ job' = [job EXCEPT ![w] = new]
        BY <2>2 DEF Insert, Goto
    <2>b. k \in RestoreJobs
        BY <1>0, <2>1, CheckoutShape
    <2>4. /\ k.todo \in SUBSET Item /\ k.written \in SUBSET Row /\ i \in Item
          /\ Once(k.todo) /\ Once(k.written) /\ Unwritten(k.todo, k.written)
          /\ \A r \in k.written : r.ref = NoRef
        BY <1>0, <2>1, <2>b DEF Fits, RestoreJobs
    <2>a. after \in 0 .. MaxStock
        BY <1>0, <2>3, <2>4, ShopBoundsAssumption DEF StockPart, Item
    <2> HIDE DEF after
    <2>6. /\ row \in Row /\ row.ref = NoRef /\ row.product = i.product
          /\ i.product \in Products
        BY <1>0, <2>3, <2>4, <2>a, ShopBoundsAssumption DEF Row, Item, StockPart
    <2> HIDE DEF row
    <2>5. /\ new \in RestoreJobs /\ new.op = "restore"
          /\ new.todo = k.todo \ {i} /\ new.written = k.written \cup {row}
        <3>1. k.written \cup {row} \in SUBSET Row /\ k.todo \ {i} \in SUBSET Item
            BY <2>4, <2>6
        <3>2. new = [[k EXCEPT !.todo = k.todo \ {i}] EXCEPT !.written = k.written \cup {row}]
            BY <2>b DEF RestoreJobs
        <3> HIDE DEF new
        <3> QED BY <2>b, <3>1, <3>2 DEF RestoreJobs
    <2> HIDE DEF new
    <2>7. /\ Once(new.todo) /\ Once(new.written) /\ Unwritten(new.todo, new.written)
          /\ \A r \in new.written : r.ref = NoRef
        BY <2>2, <2>4, <2>5, <2>6 DEF Once, Unwritten
    <2>8. Fits(new)
        BY <2>5, <2>7, RestoreFits
    <2>9. WrittenIn(new) \subseteq Written(w) \cup {row}
        BY <2>1, <2>5 DEF WrittenIn, Written
    <2>10. StockPart' /\ JobPart' /\ OpenPart'
        BY <2>1, <2>3, <2>a, <2>6, <2>8, <2>9, Inserts DEF row
    <2>11. CartPart' /\ OrderPart' /\ AnswerPart'
        BY <2>1 DEF IInv, CartPart, InCart, OrderPart, AnswerPart, cartVars, orderVars, stockVars
    <2> QED BY <2>10, <2>11 DEF IInv
<1>7. ASSUME CommitOrder(w)
      PROVE  IInv'
    <2> DEFINE k == job[w]
    <2>1. /\ k.op = "checkout" /\ CommitRows(w) /\ job' = [job EXCEPT ![w] = [op |-> "idle"]]
          /\ UNCHANGED <<clock, lineIds, restored, answered>>
        BY <1>7 DEF CommitOrder, Finish, Goto
    <2>2. StockPart' /\ JobPart' /\ OpenPart' /\ \A r \in Refs : booked[r] = 1 => booked'[r] = 1
        BY <2>1, Commits, IdleFits
    <2>a. k \in CheckoutJobs
        BY <1>0, <2>1, CheckoutShape
    <2>b. Once(k.items)
        BY <1>0, <2>1 DEF Fits
    <2>3. k.customer \in Customers /\ k.items \in SUBSET Item /\ Once(k.items)
        BY <2>a, <2>b DEF CheckoutJobs
    <2>4. OrderPart'
        <3>1. PICK o \in Orders : placed' = [placed EXCEPT ![o] = k.items]
            BY <1>7 DEF CommitOrder
        <3> QED BY <1>0, <2>1, <2>3, <3>1 DEF OrderPart
    <2>5. lines' = [lines EXCEPT ![k.customer] =
                      [p \in Products |-> IF TakenOut(@[p], p, k.items) THEN NoLine ELSE @[p]]]
        BY <1>7 DEF CommitOrder
    <2>6. CartPart'
        <3>1. /\ NoLine \in [id : 0 .. MaxLines, quantity : 0 .. MaxStock] /\ NoLine.id = 0
            BY ShopBoundsAssumption DEF NoLine
        <3>2. \A p \in Products : lines'[k.customer][p] \in {NoLine, lines[k.customer][p]}
            BY <1>0, <2>3, <2>5 DEF CartPart
        <3>3. \A c \in Customers \ {k.customer} : lines'[c] = lines[c]
            BY <1>0, <2>5 DEF CartPart
        <3>4. lines' \in [Customers -> [Products ->
                            [id : 0 .. MaxLines, quantity : 0 .. MaxStock]]]
            BY <1>0, <2>3, <2>5, <3>1 DEF CartPart
        <3> QED BY <1>0, <2>1, <2>3, <3>1, <3>2, <3>3, <3>4 DEF CartPart, InCart
    <2>7. AnswerPart'
        BY <2>1, <2>2 DEF IInv, AnswerPart
    <2> QED BY <2>2, <2>4, <2>6, <2>7 DEF IInv
<1>8. ASSUME CommitRestore(w)
      PROVE  IInv'
    <2>1. /\ job[w].op = "restore" /\ CommitRows(w)
          /\ job' = [job EXCEPT ![w] = [op |-> "idle"]]
          /\ restored[job[w].order] < MaxRestores
          /\ restored' = [restored EXCEPT ![job[w].order] = @ + 1]
          /\ UNCHANGED <<clock, cartVars, placed, answered>>
        BY <1>8 DEF CommitRestore, Finish, Goto
    <2>2. StockPart' /\ JobPart' /\ OpenPart' /\ \A r \in Refs : booked[r] = 1 => booked'[r] = 1
        BY <2>1, Commits, IdleFits
    <2>3. job[w].order \in Orders
        BY <1>0, <2>1, CheckoutShape DEF RestoreJobs
    <2>4. OrderPart'
        BY <1>0, <2>1, <2>3, ShopBoundsAssumption DEF OrderPart
    <2>5. CartPart' /\ AnswerPart'
        BY <2>1, <2>2 DEF IInv, CartPart, InCart, AnswerPart, cartVars
    <2> QED BY <2>2, <2>4, <2>5 DEF IInv
<1>9. ASSUME DeadlockVictim(w) \/ Crash(w)
      PROVE  IInv'
    <2>1. /\ job' = [job EXCEPT ![w] = [op |-> "idle"]]
          /\ UNCHANGED <<stockVars, clock, cartVars, orderVars, answered>>
        BY <1>9 DEF DeadlockVictim, Crash, Finish, Goto
    <2> QED BY <2>1, Decides, IdleFits
<1> QED
    BY <1>1, <1>2, <1>3, <1>4, <1>5, <1>6, <1>7, <1>8, <1>9

-----------------------------------------------------------------------------
LEMMA ShopStutters ==
    ASSUME IInv, UNCHANGED vars
    PROVE  IInv'
BY DEF IInv, StockPart, HistoryEndsAtStock, CartPart, InCart, OrderPart, AnswerPart, JobPart,
       Fits, OpenPart, Written, vars, stockVars, cartVars, orderVars

LEMMA ShopStep ==
    ASSUME IInv, [Next]_vars
    PROVE  IInv'
BY StockStep, CartStep, OrderStep, ShopStutters DEF Next

(* Open transactions never write one product together, each of them writes   *)
(* it once, and what it has written is younger than what is committed.       *)
THEOREM ShopInvariant == Spec => []IInv
<1>1. IInv /\ [Next]_vars => IInv'
    BY ShopStep
<1> QED BY ShopStarts, <1>1, PTL DEF Spec

(* No adjustment, stock-taking, sale, checkout or cancellation brings a      *)
(* stock below zero or a row out of its type, although each is worked out    *)
(* from an earlier read.                                                    *)
THEOREM ShopTyping == Spec => []TypeOK
<1>1. IInv => TypeOK
    BY ShopKeeps
<1> QED BY ShopInvariant, <1>1, PTL

(* The last row of a product's history is what its stock says, in whatever   *)
(* order the transactions of writeMovement, checkout and cancellation began  *)
(* and committed.                                                           *)
THEOREM HistoryTellsStock == Spec => []HistoryEndsAtStock
<1>1. IInv => HistoryEndsAtStock
    BY ShopKeeps
<1> QED BY ShopInvariant, <1>1, PTL

(* recordPosMovement books a receipt once for any number of deliveries, and  *)
(* the cashier has no answer before it is booked.                            *)
THEOREM ReceiptOnce == Spec => []ReceiptBookedOnce
<1>1. IInv => ReceiptBookedOnce
    BY ShopKeeps
<1> QED BY ShopInvariant, <1>1, PTL

(* checkout takes out of the cart the lines it has read, by their ids, and   *)
(* no line that the customer has made since.                                 *)
THEOREM OtherLinesStay == Spec => OnlyOrderedLeaves
<1> DEFINE A == \A c \in Customers, p \in Products, o \in Orders :
                  /\ placed'[o] # placed[o]
                  /\ InCart(c, p) /\ lines'[c][p] # lines[c][p]
                  => \E i \in placed'[o] : i.line = lines[c][p].id
<1>1. ASSUME IInv, [Next]_vars
      PROVE  [A]_vars
    <2>1. ASSUME NEW w \in Workers, CommitOrder(w), NEW c \in Customers, NEW p \in Products,
                 NEW o \in Orders, placed'[o] # placed[o], lines'[c][p] # lines[c][p]
          PROVE  \E i \in placed'[o] : i.line = lines[c][p].id
        <3>1. placed'[o] = job[w].items
            BY <2>1 DEF CommitOrder, IInv, OrderPart
        <3>2. c = job[w].customer /\ TakenOut(lines[c][p], p, job[w].items)
            BY <2>1 DEF CommitOrder, IInv, CartPart
        <3> QED BY <3>1, <3>2 DEF TakenOut
    <2>2. placed' = placed \/ (\E w \in Workers : CommitOrder(w)) \/ UNCHANGED vars
        BY <1>1 DEF Next, StockNext, CartNext, Edit, AdjustReads, OpnameReads, PosAsks, Post,
           CommitPost, PosReads, PosConflict, Answer, ClearCart, StockAsked, RemoveReads,
           AddReads, UpdateReads, NewLine, OnLine, CartRead, DirectOrder, CancelBegins,
           ReadItem, WriteItem, RestoreItem, CommitRestore, DeadlockVictim, Crash, orderVars
    <2> QED BY <2>1, <2>2
<1> QED BY ShopInvariant, <1>1, PTL DEF Spec, OnlyOrderedLeaves
=============================================================================
