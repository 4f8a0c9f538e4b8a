-------------------------------- MODULE Shop --------------------------------
(***************************************************************************)
(* Goods that leave with an order and come back with a cancellation, while  *)
(* the stock-keeping, the point of sale and the carts go on.                *)
(***************************************************************************)
EXTENDS Stock, Cart

(***************************************************************************)
(* A checkout knows its items from before its transaction.  In it, item by  *)
(* item, it reads the product and writes the new stock.                     *)
(***************************************************************************)
Checkout(c, items) ==
    [op |-> "checkout", customer |-> c, items |-> items, todo |-> items,
     next |-> {}, after |-> 0, written |-> {}]

(* checkout: the whole cart, or the lines the customer ticked. *)
CartRead(w, c) ==
    /\ \E chosen \in SUBSET {p \in Products : InCart(c, p)} \ {{}} :
         Start(w, Checkout(c, {[product |-> p, line |-> lines[c][p].id,
                                quantity |-> lines[c][p].quantity] :
                                  p \in chosen}))
    /\ UNCHANGED <<stockVars, clock, cartVars, orderVars, answered>>

(* createDirectOrder: what the request lists. *)
DirectOrder(w, c, items) ==
    /\ Start(w, Checkout(c, {[product |-> i[1], line |-> 0, quantity |-> i[2]] :
                                i \in items}))
    /\ UNCHANGED <<stockVars, clock, cartVars, orderVars, answered>>

Short(i) == stock[i.product] < i.quantity

(* What is left of the product: nothing, when it is sold ahead of its stock. *)
Left_Mutant(i) == stock[i.product] - i.quantity
Left(i) == IF Short(i) THEN 0 ELSE stock[i.product] - i.quantity

(* Short of stock the order fails, unless it comes from a cart and the      *)
(* product is sold ahead of its stock.                                      *)
ReadItem(w) ==
    LET k == job[w] IN
    /\ k.op = "checkout" /\ k.next = {}
    /\ \E i \in k.todo :
         IF Short(i) /\ (i.line = 0 \/ i.product \notin PreOrder)
         THEN Finish(w)
         ELSE Goto(w, [k EXCEPT !.todo = @ \ {i}, !.next = {i},
                                !.after = Left(i)])
    /\ UNCHANGED <<stockVars, clock, cartVars, orderVars, answered>>

WriteItem(w) ==
    LET k == job[w] IN
    /\ k.op = "checkout"
    /\ \E i \in k.next :
         Insert(w, [k EXCEPT !.next = {}], i.product, k.after, NoRef)
    /\ UNCHANGED <<stockVars, cartVars, orderVars, answered>>

(* Only what was ordered leaves the cart: deleteMany by the ids that were   *)
(* read.                                                                    *)
TakenOut_Mutant(line, p, items) == \E i \in items : i.product = p
TakenOut(line, p, items) ==
    line.id # 0 /\ \E i \in items : i.line = line.id

CommitOrder(w) ==
    LET k == job[w] IN
    /\ k.op = "checkout" /\ k.todo = {} /\ k.next = {}
    /\ CommitRows(w)
    /\ \E o \in Orders : /\ placed[o] = {}
                         /\ placed' = [placed EXCEPT ![o] = k.items]
    /\ lines' = [lines EXCEPT ![k.customer] =
                   [p \in Products |-> IF TakenOut(@[p], p, k.items)
                                       THEN NoLine ELSE @[p]]]
    /\ Finish(w)
    /\ UNCHANGED <<clock, lineIds, restored, answered>>

-----------------------------------------------------------------------------
(***************************************************************************)
(* A cancellation, by applyCancellation or by an unpaid bill in             *)
(* applyStatus, increments the stock of each item.  Which orders may be     *)
(* cancelled, and how often, is Marketplace's matter.                       *)
(***************************************************************************)
CancelBegins(w, o) ==
    /\ placed[o] # {}
    /\ Start(w, [op |-> "restore", order |-> o, todo |-> placed[o],
                 written |-> {}])
    /\ UNCHANGED <<stockVars, clock, cartVars, orderVars, answered>>

(* increment: on the stock as it is once the row is locked. *)
RestoreItem(w) ==
    LET k == job[w] IN
    /\ k.op = "restore"
    /\ \E i \in k.todo :
         Insert(w, [k EXCEPT !.todo = @ \ {i}],
                i.product, stock[i.product] + i.quantity, NoRef)
    /\ UNCHANGED <<stockVars, cartVars, orderVars, answered>>

CommitRestore(w) ==
    LET k == job[w] IN
    /\ k.op = "restore" /\ k.todo = {}
    /\ restored[k.order] < MaxRestores
    /\ CommitRows(w)
    /\ restored' = [restored EXCEPT ![k.order] = @ + 1]
    /\ Finish(w)
    /\ UNCHANGED <<clock, cartVars, placed, answered>>

-----------------------------------------------------------------------------
(* Items whose product the worker updates next. *)
Wanted(w) ==
    CASE job[w].op = "checkout" -> job[w].next
      [] job[w].op = "restore"  -> job[w].todo
      [] OTHER -> {}

WaitsFor(w, v) == \E i \in Wanted(w) : \E r \in Written(v) : r.product = i.product

(* Two transactions that lock the same products in a different order wait   *)
(* for each other: PostgreSQL rolls one back.                               *)
DeadlockVictim(w) ==
    /\ \E v \in Workers \ {w} : WaitsFor(w, v) /\ WaitsFor(v, w)
    /\ Finish(w)
    /\ UNCHANGED <<stockVars, clock, cartVars, orderVars, answered>>

Next ==
    \/ StockNext
    \/ CartNext
    \/ \E w \in Workers :
         \/ \E c \in Customers :
              \/ CartRead(w, c)
              \/ \E items \in DirectItems : DirectOrder(w, c, items)
         \/ \E o \in Orders : CancelBegins(w, o)
         \/ ReadItem(w) \/ WriteItem(w) \/ CommitOrder(w)
         \/ RestoreItem(w) \/ CommitRestore(w)
         \/ DeadlockVictim(w) \/ Crash(w)

Spec == Init /\ [][Next]_vars

-----------------------------------------------------------------------------
Jobs ==
    [op : {"move"}, product : Products, after : 0 .. MaxStock,
     ref : Refs \cup {NoRef}]
    \cup [op : {"posting"}, ref : Refs \cup {NoRef}, written : SUBSET Row]
    \cup [op : {"pos", "answer"}, ref : Refs]
    \cup [op : {"add", "update"}, customer : Customers, product : Products,
          quantity : Quantities, seen : 0 .. MaxStock]
    \cup [op : {"newLine", "setLine", "dropLine"}, customer : Customers,
          product : Products, id : 0 .. MaxLines, quantity : 0 .. MaxStock]
    \cup [op : {"checkout"}, customer : Customers, items : SUBSET Item,
          todo : SUBSET Item, next : SUBSET Item, after : 0 .. MaxStock,
          written : SUBSET Row]
    \cup [op : {"restore"}, order : Orders, todo : SUBSET Item,
          written : SUBSET Row]

(* No stock goes below zero, and every row and request keeps its type. *)
TypeOK ==
    /\ stock \in [Products -> 0 .. MaxStock]
    /\ newest \in [Products -> [after : 0 .. MaxStock, at : 0 .. MaxMoves]]
    /\ booked \in [Refs -> Nat]
    /\ clock \in 0 .. MaxMoves
    /\ edited \subseteq Products
    /\ lines \in [Customers -> [Products ->
                    [id : 0 .. MaxLines, quantity : 0 .. MaxStock]]]
    /\ lineIds \in 0 .. MaxLines
    /\ placed \in [Orders -> SUBSET Item]
    /\ restored \in [Orders -> 0 .. MaxRestores]
    /\ answered \subseteq Refs
    /\ job \in [Workers -> Jobs \cup {[op |-> "idle"]}]

(* The history of a product, in the order of createdAt, ends at its stock   *)
(* (writeMovement: "so that the stock and its history never differ"): a     *)
(* later row is never of a transaction that committed earlier.  An edit     *)
(* sets the stock without a row.                                            *)
HistoryEndsAtStock ==
    \A p \in Products \ edited :
        newest[p].at > 0 /\ newest[p].after = stock[p]

(* One receipt moves the stock once, however often and however concurrently *)
(* the cashier sends it, and is answered only when it has.                  *)
ReceiptBookedOnce ==
    /\ \A r \in Refs : booked[r] <= 1
    /\ \A r \in answered : booked[r] = 1

(* Only items really ordered leave the cart: a line that a committing order *)
(* takes out is one of that order's items, so a line the customer made      *)
(* while the order was under way stays.                                     *)
OnlyOrderedLeaves ==
    [][\A c \in Customers, p \in Products, o \in Orders :
         /\ placed'[o] # placed[o]
         /\ InCart(c, p) /\ lines'[c][p] # lines[c][p]
         => \E i \in placed'[o] : i.line = lines[c][p].id]_vars
=============================================================================
