----------------------------- MODULE ReadCache -----------------------------
(***************************************************************************)
(* CacheService and those who use it.  An answer is kept in Redis under a    *)
(* key for some seconds; the handlers that change what the answer shows are  *)
(* to drop it after their commit.  A reader that misses asks the database    *)
(* and stores what it found, in two steps; a writer commits and drops, in    *)
(* two steps.  The keys share nothing, so one answer is watched at a time.   *)
(***************************************************************************)
EXTENDS Requests, Sequences

CONSTANT MaxChangesShown   \* bound: changes of the rows the answer shows

Nothing == [there |-> FALSE]     \* no value under the key

VARIABLES watched,         \* the answer
          kept,            \* its value: up to which change it is true
          changes          \* the changes so far: by whom, and what became of it

cacheVars == <<watched, kept, changes>>

(* What is kept: what an answer is computed from, and its seconds.  Of a      *)
(* cooperative the answers show the name, the product page the pictures too;  *)
(* of a partner the profile and the status; of a user the name and the phone. *)
(* An order shows its buyer and his address as they are now.                 *)
ProductList ==
    [name |-> "productList", shows |-> {"product", "category"}, ttl |-> 300]
ProductDetail ==
    [name |-> "productDetail", ttl |-> 1800,
     shows |-> {"product", "category", "order", "review", "kopdes", "kopdesPicture"}]
CategoryList ==
    [name |-> "categoryList", shows |-> {"category"}, ttl |-> 3600]
SellerDashboard ==
    [name |-> "dashboard", ttl |-> 600,
     shows |-> {"ware", "category", "order", "review", "umkm", "umkmStatus", "user"}]
SellerProducts ==
    [name |-> "sellerProducts", shows |-> {"ware", "category", "review"}, ttl |-> 600]
SellerStatistics ==
    [name |-> "statistics", shows |-> {"order"}, ttl |-> 1800]
BestSellers ==
    [name |-> "bestSellers", ttl |-> 600,
     shows |-> {"order", "product", "ware", "kopdes", "umkm"}]
OrderHistory ==
    [name |-> "history", ttl |-> 3600,
     shows |-> {"order", "payment", "product", "ware", "kopdes", "umkm", "umkmStatus"}]
OrderDetail ==
    [name |-> "detail", ttl |-> 3600,
     shows |-> {"order", "payment", "delivery", "product", "ware", "kopdes", "umkm",
                "umkmStatus", "user", "address"}]
CartContents ==
    [name |-> "cart", ttl |-> 3600,
     shows |-> {"cart", "product", "ware", "kopdes", "umkm", "umkmStatus"}]

Answers == {ProductList, ProductDetail, CategoryList, SellerDashboard, SellerProducts,
            SellerStatistics, BestSellers, OrderHistory, OrderDetail, CartContents}

(* What the writers drop: the list and the pages of all products, or the keys *)
(* of one partner, one order and its buyer, one cart.                        *)
DropProducts == {"productList", "productDetail"}       \* cache:products:*
DropCategories == {"categoryList"}
DropSeller_Mutant == {"dashboard", "sellerProducts"}
DropSeller == {"dashboard", "statistics", "sellerProducts"}
DropMovedWare == DropSeller                    \* InventoryService, by its own list
DropOrder == {"detail", "history"}
DropHistory == {"history"}
DropCart == {"cart"}
DropPayment == {}                              \* order:{id}, orders:*: no such keys

(* The writers: what they change, what they drop afterwards, and what of it  *)
(* is also shown under keys they do not drop, of other partners, orders and   *)
(* buyers.  The other columns of a cooperative, a partner or an account are   *)
(* in no kept answer.                                                       *)
Writer(name, sets, drops) ==
    [name |-> name, sets |-> sets, drops |-> drops, others |-> {}]

CreateProduct == Writer("product.create", {"product"}, DropProducts)
UpdateProduct == Writer("product.update", {"product"}, DropProducts)
RemoveProduct == Writer("product.remove", {"product"}, DropProducts)
CreateCategory == Writer("category.create", {"category"}, DropCategories)
UpdateCategory == Writer("category.update", {"category"}, DropCategories)
RemoveCategory == Writer("category.remove", {"category"}, DropCategories)
VerifyUmkm == Writer("umkm.verify", {"umkmStatus"}, DropProducts)
ApplyUmkm == Writer("umkm.apply", {"umkm", "umkmStatus"}, {})
TakedownProduct == Writer("umkm.takedown", {"ware"}, DropProducts)
UpdateShopProfile == Writer("seller.profile", {"umkm"}, DropSeller)
CreateWare == Writer("seller.create", {"ware"}, DropSeller)
UpdateWare == Writer("seller.update", {"ware"}, DropSeller)
DeleteWare == Writer("seller.delete", {"ware"}, DropSeller)
SellerMovesOrder ==
    [name |-> "seller.order", sets |-> {"order", "delivery"}, drops |-> DropSeller,
     others |-> {"order"}]
SellerDecidesCancellation ==
    [name |-> "seller.cancellation", sets |-> {"order", "payment", "product", "ware"},
     drops |-> DropOrder \cup DropSeller, others |-> {"order", "product", "ware"}]
MoveStock == Writer("inventory.product", {"product"}, {})
MoveWareStock == Writer("inventory.ware", {"ware"}, DropMovedWare)
Checkout ==
    [name |-> "order.checkout", sets |-> {"order", "payment", "product", "ware", "cart"},
     drops |-> DropHistory \cup DropCart, others |-> {"product", "ware"}]
DirectOrder ==
    [name |-> "order.direct", sets |-> {"order", "payment", "product", "ware"},
     drops |-> DropHistory, others |-> {"product", "ware"}]
StaffMovesOrder ==
    [name |-> "order.status", sets |-> {"order", "payment", "delivery", "product", "ware"},
     drops |-> DropOrder, others |-> {"product", "ware"}]
AskCancellation == Writer("order.ask", {"order"}, DropOrder)
DecideCancellation ==
    [name |-> "order.decide", sets |-> {"order", "payment", "product", "ware"},
     drops |-> DropOrder, others |-> {"product", "ware"}]
ConfirmReceipt == Writer("order.receipt", {"order", "payment", "delivery"}, DropOrder)
SettlePayment == Writer("payment", {"order", "payment", "product", "ware"}, DropPayment)
CourierReports == Writer("courier", {"order", "payment", "delivery"}, {})
WriteReview == Writer("review", {"review"}, {})
UpdateKopdes == Writer("kopdes.profile", {"kopdes"}, {})
UpdateKopdesMedia == Writer("kopdes.media", {"kopdesPicture"}, {})
UpdateProfile == Writer("auth.profile", {"user"}, {})
EditStaff == Writer("staff.update", {"user"}, {})
RemoveStaff == Writer("staff.delete", {"delivery", "cart"}, {})
EditAddress == Writer("address", {"address"}, {})
AddToCart == Writer("cart.add", {"cart"}, DropCart)
UpdateCart == Writer("cart.update", {"cart"}, DropCart)
RemoveFromCart == Writer("cart.remove", {"cart"}, DropCart)
ClearCart == Writer("cart.clear", {"cart"}, DropCart)

Writers ==
    {CreateProduct, UpdateProduct, RemoveProduct, CreateCategory, UpdateCategory,
     RemoveCategory, VerifyUmkm, ApplyUmkm, TakedownProduct, UpdateShopProfile, CreateWare,
     UpdateWare, DeleteWare, SellerMovesOrder, SellerDecidesCancellation, MoveStock,
     MoveWareStock, Checkout, DirectOrder, StaffMovesOrder, AskCancellation,
     DecideCancellation, ConfirmReceipt, SettlePayment, CourierReports, WriteReview,
     UpdateKopdes, UpdateKopdesMedia, UpdateProfile, EditStaff, RemoveStaff, EditAddress,
     AddToCart, UpdateCart, RemoveFromCart, ClearCart}

CacheInit ==
    /\ watched \in Answers
    /\ kept = Nothing
    /\ changes = <<>>

(* get: nothing there, the handler asks the database.                       *)
Misses(w) ==
    /\ kept = Nothing
    /\ Start(w, [op |-> "fill", upTo |-> Len(changes), late |-> FALSE])
    /\ UNCHANGED cacheVars

(* set, with or without a time to live; concurrent fills overwrite.         *)
Value_Mutant(upTo, late) ==
    [there |-> TRUE, upTo |-> upTo, late |-> late, expires |-> FALSE]
Value(upTo, late) ==
    [there |-> TRUE, upTo |-> upTo, late |-> late, expires |-> watched.ttl > 0]

Fills(w) ==
    /\ Doing(w, "fill")
    /\ kept' = Value(job[w].upTo, job[w].late)
    /\ Finish(w)
    /\ UNCHANGED <<watched, changes>>

Expires ==
    /\ kept # Nothing /\ kept.expires
    /\ kept' = Nothing
    /\ UNCHANGED <<watched, changes, job>>

(* The commit of a writer that changes what the answer shows, for its own    *)
(* partner, order or buyer or for another one: then it drops other keys.      *)
Commits(w, x, own) ==
    /\ (IF own THEN x.sets ELSE x.others) \cap watched.shows # {}
    /\ own \/ watched.name \in x.drops
    /\ Len(changes) < MaxChangesShown
    /\ LET fate == CASE watched.name \notin x.drops -> "silent"
                     [] own -> "pending"
                     [] OTHER -> "elsewhere"
       IN /\ changes' = Append(changes, [by |-> x.name, fate |-> fate])
          /\ IF fate = "pending" THEN Start(w, [op |-> "drop", change |-> Len(changes')])
             ELSE job[w] = Idle /\ UNCHANGED job
    /\ UNCHANGED <<watched, kept>>

(* delete, deletePattern: a reader under way has asked too early.            *)
Drops(w) ==
    /\ Doing(w, "drop")
    /\ kept' = Nothing
    /\ changes' = [changes EXCEPT ![job[w].change].fate = "told"]
    /\ job' = [v \in Workers |->
                 IF v = w THEN Idle
                 ELSE IF Doing(v, "fill") THEN [job[v] EXCEPT !.late = TRUE]
                 ELSE job[v]]
    /\ UNCHANGED watched

(* The instance stops, Redis does not answer, or a later statement of the    *)
(* handler fails: the answer is not dropped.                                *)
Fails(w) ==
    /\ Crash(w)
    /\ changes' = IF Doing(w, "drop")
                  THEN [changes EXCEPT ![job[w].change].fate = "lost"] ELSE changes
    /\ UNCHANGED <<watched, kept>>

CacheNext ==
    \/ Expires
    \/ \E w \in Workers :
         \/ Misses(w) \/ Fills(w) \/ Drops(w) \/ Fails(w)
         \/ \E x \in Writers, own \in BOOLEAN : Commits(w, x, own)

(* Redis removes a value when its time is over.                             *)
CacheFairness == WF_<<cacheVars, job>>(Expires)

(* The writers that leave an answer as it was, until it expires: of its own   *)
(* partner, order or buyer, and of others.                                  *)
Silent(name) ==
    LET categories == {"category.create", "category.update", "category.remove"}
        goods == {"product.create", "product.update", "product.remove",
                  "inventory.product", "seller.create", "seller.update", "seller.delete",
                  "inventory.ware", "umkm.takedown"}
        names == {"kopdes.profile", "seller.profile", "umkm.apply"}
        stocks == {"order.checkout", "order.direct", "order.status", "order.decide",
                   "payment"}
        stages == {"order.ask", "order.receipt", "courier"}
        unseen == {"umkm.verify", "seller.order", "payment", "courier"}
    IN  CASE name = "productList" ->
               categories \cup stocks \cup {"inventory.product", "seller.cancellation"}
          [] name = "productDetail" ->
               categories \cup stocks \cup stages
                 \cup {"inventory.product", "seller.cancellation", "seller.order", "review",
                       "kopdes.profile", "kopdes.media"}
          [] name = "categoryList" -> {}
          [] name = "dashboard" ->
               categories \cup stocks \cup stages
                 \cup {"review", "umkm.takedown", "umkm.verify", "umkm.apply",
                       "auth.profile", "staff.update"}
          [] name = "sellerProducts" ->
               categories \cup stocks \cup {"review", "umkm.takedown"}
          [] name = "statistics" -> stocks \cup stages
          [] name = "bestSellers" ->
               goods \cup names \cup stocks \cup stages
                 \cup {"seller.order", "seller.cancellation"}
          [] name = "history" -> goods \cup names \cup unseen
          [] name = "detail" ->
               goods \cup names \cup unseen
                 \cup {"order.checkout", "order.direct", "staff.delete", "staff.update",
                       "auth.profile", "address"}
          [] name = "cart" ->
               goods \cup names \cup (stocks \ {"order.checkout"})
                 \cup {"umkm.verify", "seller.cancellation", "staff.delete"}

SilentToOthers(name) ==
    LET stocks == {"order.status", "order.decide", "seller.cancellation"}
        seller == {"seller.order", "seller.cancellation"}
    IN  CASE name = "history" -> stocks \cup {"order.checkout", "order.direct"}
          [] name = "detail" -> stocks
          [] name = "cart" -> {"order.checkout"}
          [] name \in {"dashboard", "statistics"} -> seller
          [] name = "sellerProducts" -> {"seller.cancellation"}
          [] OTHER -> {}

(* A kept answer is behind the database only while the writer is between its *)
(* commit and its drop, when that drop was lost, when it was stored by a      *)
(* reader that had asked before the drop, or when the writer is one of the    *)
(* known ones that do not drop it, or not for everyone whom it concerns.      *)
CacheFollows ==
    kept # Nothing =>
      \A n \in kept.upTo + 1 .. Len(changes) :
        \/ changes[n].fate \in {"pending", "lost"}
        \/ kept.late
        \/ changes[n].fate = "silent" /\ changes[n].by \in Silent(watched.name)
        \/ changes[n].fate = "elsewhere" /\ changes[n].by \in SilentToOthers(watched.name)

(* Whatever was missed, when the writing ends the kept answer is right again *)
(* or gone: every kept answer has a time to live.                           *)
CacheCatchesUp == <>[](kept # Nothing => kept.upTo = Len(changes))
=============================================================================
