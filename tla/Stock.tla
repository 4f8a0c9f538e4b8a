------------------------------- MODULE Stock --------------------------------
(***************************************************************************)
(* InventoryService: adjustments, stock-taking and the receipts of the      *)
(* point of sale; and the product forms that set the stock directly.        *)
(***************************************************************************)
EXTENDS ShopState

(* adjustStock and stockOpname read the product, work out the new stock ... *)
ReadyToMove(p, after, ref) ==
    [op |-> "move", product |-> p, after |-> after, ref |-> ref]

AdjustReads(w, p, change) ==
    /\ stock[p] + change \in 0 .. MaxStock
    /\ Start(w, ReadyToMove(p, stock[p] + change, NoRef))
    /\ UNCHANGED <<stockVars, clock, cartVars, orderVars, answered>>

OpnameReads(w, p, counted) ==
    /\ counted # stock[p]
    /\ Start(w, ReadyToMove(p, counted, NoRef))
    /\ UNCHANGED <<stockVars, clock, cartVars, orderVars, answered>>

(* ...and writeMovement writes it in a transaction, whatever the stock has  *)
(* become.  The unique externalRef makes a second insert wait for the first *)
(* transaction, and fail when that has committed.                           *)
RefTaken_Mutant(ref) == FALSE           \* no unique index
RefTaken(ref) == booked[ref] > 0

RefBeingWritten(w, ref) ==
    \E v \in Workers \ {w} : \E r \in Written(v) : r.ref = ref

Post(w) ==
    LET k == job[w] IN
    /\ k.op = "move"
    /\ k.ref # NoRef => ~RefTaken(k.ref) /\ ~RefBeingWritten(w, k.ref)
    /\ Insert(w, [op |-> "posting", ref |-> k.ref, written |-> {}],
              k.product, k.after, k.ref)
    /\ UNCHANGED <<stockVars, cartVars, orderVars, answered>>

CommitPost(w) ==
    /\ job[w].op = "posting"
    /\ CommitRows(w)
    /\ IF job[w].ref = NoRef THEN Finish(w)
                             ELSE Goto(w, [op |-> "answer", ref |-> job[w].ref])
    /\ UNCHANGED <<clock, cartVars, orderVars, answered>>

-----------------------------------------------------------------------------
(* recordPosMovement: a receipt that is known is answered as a duplicate, ... *)
PosAsks(w, ref) ==
    /\ ref \notin answered
    /\ Start(w, IF booked[ref] > 0
                THEN [op |-> "answer", ref |-> ref]
                ELSE [op |-> "pos", ref |-> ref])
    /\ UNCHANGED <<stockVars, clock, cartVars, orderVars, answered>>

(* ...any other one is an adjustment: too little stock is an error. *)
PosReads(w) ==
    LET p == SaleOf[job[w].ref][1]
        left == stock[p] - SaleOf[job[w].ref][2] IN
    /\ job[w].op = "pos"
    /\ IF left < 0 THEN Finish(w)
                   ELSE Goto(w, ReadyToMove(p, left, job[w].ref))
    /\ UNCHANGED <<stockVars, clock, cartVars, orderVars, answered>>

(* P2002: two deliveries of one receipt raced, and this one lost. *)
PosConflict(w) ==
    LET k == job[w] IN
    /\ k.op = "move" /\ k.ref # NoRef /\ RefTaken(k.ref)
    /\ RowFree(w, k.product)
    /\ Goto(w, [op |-> "answer", ref |-> k.ref])
    /\ UNCHANGED <<stockVars, clock, cartVars, orderVars, answered>>

(* The answer reaches the cashier. *)
Answer(w) ==
    /\ job[w].op = "answer"
    /\ answered' = answered \cup {job[w].ref}
    /\ Finish(w)
    /\ UNCHANGED <<stockVars, clock, cartVars, orderVars>>

(* update of ProductService and updateProduct of SellerService: one         *)
(* statement, and no movement row.                                          *)
Edit(p, count) ==
    /\ \A w \in Workers : \A r \in Written(w) : r.product # p
    /\ stock' = [stock EXCEPT ![p] = count]
    /\ edited' = edited \cup {p}
    /\ UNCHANGED <<newest, booked, clock, cartVars, orderVars, answered, job>>

StockNext ==
    \/ \E e \in Edits : Edit(e[1], e[2])
    \/ \E w \in Workers :
         \/ \E m \in Changes : AdjustReads(w, m[1], m[2])
         \/ \E m \in Counts : OpnameReads(w, m[1], m[2])
         \/ \E r \in Refs : PosAsks(w, r)
         \/ Post(w) \/ CommitPost(w) \/ PosReads(w) \/ PosConflict(w) \/ Answer(w)
=============================================================================
