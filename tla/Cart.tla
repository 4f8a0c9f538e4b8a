-------------------------------- MODULE Cart --------------------------------
(***************************************************************************)
(* CartService: one CartItem per customer and product.  addItem and         *)
(* updateItem check the stock and find the line; the write goes by the      *)
(* line's id, and fails when the line is gone.                              *)
(***************************************************************************)
EXTENDS ShopState

InCart(c, p) == lines[c][p].id # 0

PutLine(c, p, line) == lines' = [lines EXCEPT ![c][p] = line]

LineJob(op, c, p, id, quantity) ==
    [op |-> op, customer |-> c, product |-> p, id |-> id,
     quantity |-> quantity]

(* addItem ("add") and updateItem ("update") read the stock ... *)
StockAsked(w, op, c, p, n) ==
    /\ n <= stock[p]
    /\ Start(w, [op |-> op, customer |-> c, product |-> p, quantity |-> n,
                 seen |-> stock[p]])
    /\ UNCHANGED <<stockVars, clock, cartVars, orderVars, answered>>

(* ...and then the line.  addItem adds up with what is in the cart, ... *)
AddReads(w) ==
    LET k == job[w]
        line == lines[k.customer][k.product]
        total == line.quantity + k.quantity IN
    /\ k.op = "add"
    /\ CASE line.id = 0 ->
               Goto(w, LineJob("newLine", k.customer, k.product, 0, k.quantity))
         [] line.id # 0 /\ total <= k.seen ->
               Goto(w, LineJob("setLine", k.customer, k.product, line.id, total))
         [] OTHER -> Finish(w)
    /\ UNCHANGED <<stockVars, clock, cartVars, orderVars, answered>>

(* ...updateItem replaces the quantity. *)
UpdateReads(w) ==
    LET k == job[w]
        line == lines[k.customer][k.product] IN
    /\ k.op = "update"
    /\ IF line.id = 0
       THEN Finish(w)
       ELSE Goto(w, LineJob("setLine", k.customer, k.product, line.id, k.quantity))
    /\ UNCHANGED <<stockVars, clock, cartVars, orderVars, answered>>

RemoveReads(w, c, p) ==
    /\ InCart(c, p)
    /\ Start(w, LineJob("dropLine", c, p, lines[c][p].id, 0))
    /\ UNCHANGED <<stockVars, clock, cartVars, orderVars, answered>>

(* The unique index refuses a second line of the same product. *)
NewLine(w) ==
    LET k == job[w] IN
    /\ k.op = "newLine"
    /\ IF InCart(k.customer, k.product)
       THEN UNCHANGED cartVars
       ELSE /\ lineIds < MaxLines
            /\ lineIds' = lineIds + 1
            /\ PutLine(k.customer, k.product,
                       [id |-> lineIds', quantity |-> k.quantity])
    /\ Finish(w)
    /\ UNCHANGED <<stockVars, clock, orderVars, answered>>

(* UPDATE or DELETE by id; without a row, an error. *)
OnLine(w) ==
    LET k == job[w] IN
    /\ k.op \in {"setLine", "dropLine"}
    /\ IF lines[k.customer][k.product].id # k.id
       THEN UNCHANGED lines
       ELSE PutLine(k.customer, k.product,
                    IF k.op = "setLine"
                    THEN [id |-> k.id, quantity |-> k.quantity]
                    ELSE NoLine)
    /\ Finish(w)
    /\ UNCHANGED <<stockVars, clock, lineIds, orderVars, answered>>

(* clearCart: one deleteMany. *)
ClearCart(c) ==
    /\ \E p \in Products : InCart(c, p)
    /\ lines' = [lines EXCEPT ![c] = [p \in Products |-> NoLine]]
    /\ UNCHANGED <<stockVars, clock, lineIds, orderVars, answered, job>>

CartNext ==
    \/ \E c \in Customers : ClearCart(c)
    \/ \E w \in Workers :
         \/ \E c \in Customers, p \in Products :
              \/ \E op \in {"add", "update"}, n \in Quantities :
                   StockAsked(w, op, c, p, n)
              \/ RemoveReads(w, c, p)
         \/ AddReads(w) \/ UpdateReads(w) \/ NewLine(w) \/ OnLine(w)
=============================================================================
