----------------------------- MODULE ShopState -----------------------------
(***************************************************************************)
(* What the shop writes when goods move: the stock column of a product and  *)
(* its InventoryTransaction rows, carts, and the requests in flight.  Stock *)
(* and Cart add the handlers of stock-keeping and of carts, Shop checkout   *)
(* and cancellation.                                                        *)
(*                                                                          *)
(* A transaction inserts its rows one by one and holds the lock of every    *)
(* product it has updated; what it wrote becomes visible when it commits.   *)
(***************************************************************************)
EXTENDS Integers, FiniteSets

CONSTANTS
    Products,       \* products of the cooperative and of its UMKM shops
    PreOrder,       \* those the cooperative sells beyond its stock
    Customers,
    Orders,         \* ids of orders that can be placed (bound)
    Refs,           \* receipt numbers of the point of sale
    SaleOf,         \* the <<product, quantity>> each receipt is for
    Changes,        \* the <<product, change>> of adjustments in this instance
    Counts,         \* the <<product, stock>> of stock-takings
    Edits,          \* the <<product, stock>> of edits of a product
    DirectItems,    \* the sets of <<product, quantity>> ordered directly
    Workers,        \* requests in flight at the same time
    Quantities,     \* how many a customer puts in the cart
    FirstStock,     \* the stock of every product at the beginning
    MaxStock,       \* bound: stock of one product
    MaxLines,       \* bound: cart lines ever created
    MaxMoves,       \* bound: movement rows ever inserted
    MaxRestores,    \* bound: cancellations that put an order's goods back
    NoRef           \* the externalRef of a movement that is not a receipt's

ASSUME QuantitiesAssumption == Quantities \subseteq 1 .. MaxStock
ASSUME RequestsAssumption ==
    /\ SaleOf \in [Refs -> Products \X (1 .. MaxStock)]
    /\ Changes \subseteq Products \X Int
    /\ Counts \cup Edits \subseteq Products \X (0 .. MaxStock)
    /\ \A items \in DirectItems :
         /\ items \subseteq Products \X (1 .. MaxStock)
         /\ \A i, j \in items : i[1] = j[1] => i = j
ASSUME FirstStockAssumption == FirstStock \in 0 .. MaxStock
ASSUME PreOrderAssumption == PreOrder \subseteq Products
ASSUME NoRefAssumption == NoRef \notin Refs
ASSUME ShopBoundsAssumption ==
    {MaxStock, MaxLines, MaxMoves, MaxRestores} \subseteq Nat

VARIABLES
    stock,      \* Product.stock or UMKMProduct.stock
    newest,     \* the committed movement of a product with the last createdAt
    booked,     \* how many committed movements carry a receipt number
    edited,     \* products whose stock no movement has set since an edit
    clock,      \* movements inserted so far: the next createdAt
    lines,      \* the CartItem of each customer and product, if any
    lineIds,    \* CartItem ids given out so far
    placed,     \* the items of every order placed
    restored,   \* how often an order's goods were put back
    answered,   \* receipts whose cashier has an answer
    job         \* the request each worker is running

stockVars == <<stock, newest, booked, edited>>
cartVars == <<lines, lineIds>>
orderVars == <<placed, restored>>
vars == <<stockVars, clock, cartVars, orderVars, answered, job>>

(* An InventoryTransaction row.  at orders rows as createdAt does; of those *)
(* that are committed only the newest of a product and the receipts matter. *)
Row == [product : Products, after : 0 .. MaxStock, at : 1 .. MaxMoves,
        ref : Refs \cup {NoRef}]
NoRow == [after |-> 0, at |-> 0]

(* An item of an order; line is the id of its CartItem, 0 for a direct one. *)
Item == [product : Products, quantity : 1 .. MaxStock, line : 0 .. MaxLines]

NoLine == [id |-> 0, quantity |-> 0]

Init ==
    /\ stock = [p \in Products |-> FirstStock]
    /\ newest = [p \in Products |-> NoRow]
    /\ booked = [r \in Refs |-> 0]
    /\ edited = Products
    /\ clock = 0
    /\ lines = [c \in Customers |-> [p \in Products |-> NoLine]]
    /\ lineIds = 0
    /\ placed = [o \in Orders |-> {}]
    /\ restored = [o \in Orders |-> 0]
    /\ answered = {}
    /\ job = [w \in Workers |-> [op |-> "idle"]]

Start(w, k) == job[w].op = "idle" /\ job' = [job EXCEPT ![w] = k]
Goto(w, k) == job' = [job EXCEPT ![w] = k]
Finish(w) == Goto(w, [op |-> "idle"])

-----------------------------------------------------------------------------
(* Rows a worker has inserted in its open transaction. *)
Written(w) ==
    IF job[w].op \in {"posting", "checkout", "restore"} THEN job[w].written
                                                        ELSE {}

(* No other transaction has updated the product: its row can be locked. *)
RowFree_Mutant(w, p) == TRUE
RowFree(w, p) ==
    \A v \in Workers \ {w} : \A r \in Written(v) : r.product # p

(* UPDATE of the product and INSERT of the movement, in the transaction. *)
Insert(w, k, p, after, ref) ==
    /\ RowFree(w, p) /\ clock < MaxMoves /\ after <= MaxStock
    /\ clock' = clock + 1
    /\ Goto(w, [k EXCEPT !.written = @ \cup
                  {[product |-> p, after |-> after, at |-> clock', ref |-> ref]}])

(* COMMIT. *)
CommitRows(w) ==
    LET Of(p) == {r \in Written(w) : r.product = p}
        Later(p) == {r \in Of(p) : r.at > newest[p].at} IN
    /\ stock' = [p \in Products |->
                   IF Of(p) = {} THEN stock[p]
                                 ELSE (CHOOSE r \in Of(p) : TRUE).after]
    /\ newest' = [p \in Products |->
                    IF Later(p) = {} THEN newest[p]
                    ELSE LET r == CHOOSE r \in Later(p) : TRUE
                         IN [after |-> r.after, at |-> r.at]]
    /\ booked' = [ref \in Refs |->
                    booked[ref] + Cardinality({r \in Written(w) : r.ref = ref})]
    /\ edited' = {p \in edited : Of(p) = {}}

(* A request is lost: the instance dies, the wallet does not cover the      *)
(* order, the transaction times out.  PostgreSQL rolls it back.             *)
Crash(w) ==
    /\ job[w].op # "idle"
    /\ Finish(w)
    /\ UNCHANGED <<stockVars, clock, cartVars, orderVars, answered>>
=============================================================================
