-------------------------- MODULE CatalogueProofs --------------------------
(***************************************************************************)
(* What is kept beside the database, for every number of requests, changes   *)
(* and cooperatives: a value is as old as its read, and only a drop in        *)
(* between, or one that is missing, makes it wrong.  And what is counted or  *)
(* listed for a reader, for every number of rows: a figure is the sum of its *)
(* parts, a page the right piece of the whole list.                         *)
(***************************************************************************)
EXTENDS Catalogue, SumProofs, SequenceTheorems, TLAPS

-----------------------------------------------------------------------------
(* Kept answers.  A change is excused while nobody has dropped the answer    *)
(* for it.                                                                  *)
Fates == {"pending", "told", "lost", "silent", "elsewhere"}

Excused(n) ==
    \/ changes[n].fate \in {"pending", "lost"}
    \/ changes[n].fate = "silent" /\ changes[n].by \in Silent(watched.name)
    \/ changes[n].fate = "elsewhere" /\ changes[n].by \in SilentToOthers(watched.name)

(* What was read after the first upTo changes and is not overtaken.          *)
Timely(upTo, late) ==
    /\ upTo \in 0 .. Len(changes)
    /\ late \/ \A n \in upTo + 1 .. Len(changes) : Excused(n)

CacheRows ==
    /\ watched \in Answers
    /\ changes \in Seq([by : {x.name : x \in Writers}, fate : Fates])
    /\ DOMAIN job = Workers

CacheJobs ==
    \A w \in Workers :
        /\ job[w].op = "fill" => Timely(job[w].upTo, job[w].late)
        /\ job[w].op = "drop" => job[w].change \in 1 .. Len(changes)

CacheInv == CacheRows /\ CacheJobs /\ (kept # Nothing => Timely(kept.upTo, kept.late))

LEMMA CacheHolds ==
    CacheInv => CacheFollows
BY DEF CacheInv, Timely, Excused, CacheFollows

LEMMA CacheStarts ==
    ASSUME CacheInit, job = [w \in Workers |-> Idle]
    PROVE  CacheInv
BY EmptySeq DEF CacheInit, CacheInv, CacheRows, CacheJobs, Idle, Nothing

(* Whoever leaves an answer standing is known for it.                        *)
AnswerRow(a) ==
    \/ a.name = "productList" /\ a.shows = {"product", "category"}
    \/ /\ a.name = "productDetail"
       /\ a.shows = {"product", "category", "order", "review", "kopdes", "kopdesPicture"}
    \/ a.name = "categoryList" /\ a.shows = {"category"}
    \/ /\ a.name = "dashboard"
       /\ a.shows = {"ware", "category", "order", "review", "umkm", "umkmStatus", "user"}
    \/ a.name = "sellerProducts" /\ a.shows = {"ware", "category", "review"}
    \/ a.name = "statistics" /\ a.shows = {"order"}
    \/ a.name = "bestSellers" /\ a.shows = {"order", "product", "ware", "kopdes", "umkm"}
    \/ /\ a.name = "history"
       /\ a.shows = {"order", "payment", "product", "ware", "kopdes", "umkm", "umkmStatus"}
    \/ /\ a.name = "detail"
       /\ a.shows = {"order", "payment", "delivery", "product", "ware", "kopdes", "umkm",
                      "umkmStatus", "user", "address"}
    \/ a.name = "cart" /\ a.shows = {"cart", "product", "ware", "kopdes", "umkm", "umkmStatus"}

LEMMA AnswerIs ==
    ASSUME NEW a \in Answers
    PROVE  AnswerRow(a)
<1>1. /\ AnswerRow(ProductList) /\ AnswerRow(ProductDetail) /\ AnswerRow(CategoryList)
      /\ AnswerRow(SellerDashboard) /\ AnswerRow(SellerProducts)
      /\ AnswerRow(SellerStatistics) /\ AnswerRow(BestSellers)
      /\ AnswerRow(OrderHistory) /\ AnswerRow(OrderDetail) /\ AnswerRow(CartContents)
    BY DEF AnswerRow, ProductList, ProductDetail, CategoryList, SellerDashboard, SellerProducts,
           SellerStatistics, BestSellers, OrderHistory, OrderDetail, CartContents
<1> QED BY <1>1 DEF Answers

Known(x, a) ==
    x.sets \cap a.shows # {} /\ a.name \notin x.drops => x.name \in Silent(a.name)

LEMMA SilentKnown ==
    \A x \in Writers, a \in Answers : Known(x, a)
<1> SUFFICES ASSUME NEW x \in Writers, NEW a \in Answers
             PROVE  Known(x, a)
    OBVIOUS
<1>0. AnswerRow(a)
    BY AnswerIs
<1>1. Known(CreateCategory, a) /\ Known(UpdateCategory, a) /\ Known(RemoveCategory, a)
    BY <1>0 DEF Known, AnswerRow, Silent, Writer, CreateCategory, UpdateCategory,
                RemoveCategory, DropCategories
<1>2. Known(CreateProduct, a) /\ Known(UpdateProduct, a) /\ Known(RemoveProduct, a)
    BY <1>0 DEF Known, AnswerRow, Silent, Writer, CreateProduct, UpdateProduct, RemoveProduct,
                DropProducts
<1>3. Known(VerifyUmkm, a) /\ Known(ApplyUmkm, a)
    BY <1>0 DEF Known, AnswerRow, Silent, Writer, VerifyUmkm, ApplyUmkm, DropProducts
<1>4. Known(TakedownProduct, a) /\ Known(UpdateShopProfile, a)
    BY <1>0 DEF Known, AnswerRow, Silent, Writer, TakedownProduct, UpdateShopProfile,
                DropProducts, DropSeller
<1>5. Known(CreateWare, a) /\ Known(UpdateWare, a) /\ Known(DeleteWare, a)
    BY <1>0 DEF Known, AnswerRow, Silent, Writer, CreateWare, UpdateWare, DeleteWare,
                DropSeller
<1>6. Known(SellerMovesOrder, a) /\ Known(SellerDecidesCancellation, a)
    BY <1>0 DEF Known, AnswerRow, Silent, SellerMovesOrder, SellerDecidesCancellation,
                DropSeller, DropOrder
<1>7. Known(MoveStock, a) /\ Known(MoveWareStock, a)
    BY <1>0 DEF Known, AnswerRow, Silent, Writer, MoveStock, MoveWareStock, DropMovedWare,
                DropSeller
<1>8. Known(Checkout, a) /\ Known(DirectOrder, a)
    BY <1>0 DEF Known, AnswerRow, Silent, Checkout, DirectOrder, DropHistory, DropCart
<1>9. Known(StaffMovesOrder, a) /\ Known(AskCancellation, a)
    BY <1>0 DEF Known, AnswerRow, Silent, Writer, StaffMovesOrder, AskCancellation, DropOrder
<1>10. Known(DecideCancellation, a) /\ Known(ConfirmReceipt, a)
    BY <1>0 DEF Known, AnswerRow, Silent, Writer, DecideCancellation, ConfirmReceipt,
                DropOrder
<1>11. Known(SettlePayment, a) /\ Known(CourierReports, a)
    BY <1>0 DEF Known, AnswerRow, Silent, Writer, SettlePayment, CourierReports, DropPayment
<1>12. Known(WriteReview, a) /\ Known(UpdateKopdes, a) /\ Known(UpdateKopdesMedia, a)
    BY <1>0 DEF Known, AnswerRow, Silent, Writer, WriteReview, UpdateKopdes, UpdateKopdesMedia
<1>13. Known(UpdateProfile, a)
    BY <1>0 DEF Known, AnswerRow, Silent, Writer, UpdateProfile
<1>14. Known(EditStaff, a)
    BY <1>0 DEF Known, AnswerRow, Silent, Writer, EditStaff
<1>15. Known(RemoveStaff, a) /\ Known(EditAddress, a)
    BY <1>0 DEF Known, AnswerRow, Silent, Writer, RemoveStaff, EditAddress
<1>16. /\ Known(AddToCart, a) /\ Known(UpdateCart, a)
      /\ Known(RemoveFromCart, a) /\ Known(ClearCart, a)
    BY <1>0 DEF Known, AnswerRow, Silent, Writer, AddToCart, UpdateCart, RemoveFromCart,
                ClearCart, DropCart
<1> QED BY <1>1, <1>2, <1>3, <1>4, <1>5, <1>6, <1>7, <1>8, <1>9, <1>10, <1>11, <1>12, <1>13,
           <1>14, <1>15, <1>16 DEF Writers

KnownToOthers(x, a) ==
    x.others \cap a.shows # {} /\ a.name \in x.drops => x.name \in SilentToOthers(a.name)

LEMMA SilentToOthersKnown ==
    \A x \in Writers, a \in Answers : KnownToOthers(x, a)
<1> SUFFICES ASSUME NEW x \in Writers, NEW a \in Answers
             PROVE  KnownToOthers(x, a)
    OBVIOUS
<1>0. AnswerRow(a)
    BY AnswerIs
<1>1. KnownToOthers(SellerMovesOrder, a) /\ KnownToOthers(SellerDecidesCancellation, a)
    BY <1>0 DEF KnownToOthers, AnswerRow, SilentToOthers, SellerMovesOrder,
                SellerDecidesCancellation, DropSeller, DropOrder
<1>2. KnownToOthers(Checkout, a) /\ KnownToOthers(DirectOrder, a)
    BY <1>0 DEF KnownToOthers, AnswerRow, SilentToOthers, Checkout, DirectOrder, DropHistory,
                DropCart
<1>3. KnownToOthers(StaffMovesOrder, a) /\ KnownToOthers(DecideCancellation, a)
    BY <1>0 DEF KnownToOthers, AnswerRow, SilentToOthers, StaffMovesOrder, DecideCancellation,
                DropOrder
<1>4. \A name, sets, drops : KnownToOthers(Writer(name, sets, drops), a)
    BY DEF KnownToOthers, Writer
<1>5. /\ KnownToOthers(CreateCategory, a) /\ KnownToOthers(UpdateCategory, a)
      /\ KnownToOthers(RemoveCategory, a) /\ KnownToOthers(CreateProduct, a)
      /\ KnownToOthers(UpdateProduct, a)
    BY <1>4 DEF CreateCategory, UpdateCategory, RemoveCategory, CreateProduct, UpdateProduct
<1>6. /\ KnownToOthers(RemoveProduct, a) /\ KnownToOthers(VerifyUmkm, a)
      /\ KnownToOthers(ApplyUmkm, a) /\ KnownToOthers(TakedownProduct, a)
      /\ KnownToOthers(UpdateShopProfile, a)
    BY <1>4 DEF RemoveProduct, VerifyUmkm, ApplyUmkm, TakedownProduct, UpdateShopProfile
<1>7. /\ KnownToOthers(CreateWare, a) /\ KnownToOthers(UpdateWare, a)
      /\ KnownToOthers(DeleteWare, a) /\ KnownToOthers(MoveStock, a)
      /\ KnownToOthers(MoveWareStock, a)
    BY <1>4 DEF CreateWare, UpdateWare, DeleteWare, MoveStock, MoveWareStock
<1>8. /\ KnownToOthers(AskCancellation, a) /\ KnownToOthers(ConfirmReceipt, a)
      /\ KnownToOthers(SettlePayment, a) /\ KnownToOthers(CourierReports, a)
      /\ KnownToOthers(WriteReview, a)
    BY <1>4 DEF AskCancellation, ConfirmReceipt, SettlePayment, CourierReports, WriteReview
<1>9. /\ KnownToOthers(UpdateKopdes, a) /\ KnownToOthers(UpdateKopdesMedia, a)
      /\ KnownToOthers(UpdateProfile, a) /\ KnownToOthers(EditStaff, a)
      /\ KnownToOthers(RemoveStaff, a)
    BY <1>4 DEF UpdateKopdes, UpdateKopdesMedia, UpdateProfile, EditStaff, RemoveStaff
<1>10. /\ KnownToOthers(EditAddress, a) /\ KnownToOthers(AddToCart, a)
      /\ KnownToOthers(UpdateCart, a) /\ KnownToOthers(RemoveFromCart, a)
      /\ KnownToOthers(ClearCart, a)
    BY <1>4 DEF EditAddress, AddToCart, UpdateCart, RemoveFromCart, ClearCart
<1> QED BY <1>1, <1>2, <1>3, <1>4, <1>5, <1>6, <1>7, <1>8, <1>9, <1>10 DEF Writers

(* Nothing is known to be wrong by a step that tells no change.              *)
LEMMA StaysTimely ==
    ASSUME CacheRows, CacheRows', watched' = watched, Len(changes) <= Len(changes)',
           \A n \in 1 .. Len(changes) : Excused(n) => Excused(n)',
           \A n \in Len(changes) + 1 .. Len(changes)' : Excused(n)',
           NEW upTo, NEW late, Timely(upTo, late)
    PROVE  Timely(upTo, late)'
<1>1. Len(changes) \in Nat /\ Len(changes)' \in Nat
    BY LenProperties DEF CacheRows
<1> QED BY <1>1 DEF Timely

LEMMA CacheStep ==
    ASSUME CacheInv, CacheNext
    PROVE  CacheInv'
<1> DEFINE Change == [by : {x.name : x \in Writers}, fate : Fates]
<1>0. /\ CacheRows /\ CacheJobs /\ (kept # Nothing => Timely(kept.upTo, kept.late))
      /\ changes \in Seq(Change) /\ Len(changes) \in Nat
    BY LenProperties DEF CacheInv, CacheRows
<1>1. CASE Expires
    BY <1>1 DEF Expires, CacheInv, CacheRows, CacheJobs, Timely, Excused
<1>2. ASSUME NEW w \in Workers, Misses(w)
      PROVE  CacheInv'
    <2> DEFINE k == [op |-> "fill", upTo |-> Len(changes), late |-> FALSE]
    <2>1. job' = [job EXCEPT ![w] = k] /\ UNCHANGED <<watched, kept, changes>>
        BY <1>2 DEF Misses, Start, cacheVars
    <2>2. k.op = "fill" /\ Timely(k.upTo, k.late)
        BY <1>0 DEF Timely
    <2> HIDE DEF k
    <2>3. CacheRows' /\ CacheJobs'
        BY <1>0, <2>1, <2>2 DEF CacheRows, CacheJobs, Timely, Excused
    <2> QED BY <1>0, <2>1, <2>3 DEF CacheInv, Timely, Excused
<1>3. ASSUME NEW w \in Workers, Fills(w)
      PROVE  CacheInv'
    <2>1. /\ job[w].op = "fill" /\ job' = [job EXCEPT ![w] = Idle]
          /\ kept' = Value(job[w].upTo, job[w].late)
          /\ UNCHANGED <<watched, changes>>
        BY <1>3 DEF Fills, Doing, Finish, Goto
    <2>2. kept'.upTo = job[w].upTo /\ kept'.late = job[w].late
        BY <2>1 DEF Value
    <2>3. Timely(kept'.upTo, kept'.late)
        BY <1>0, <2>1, <2>2 DEF CacheJobs
    <2>4. CacheRows' /\ CacheJobs'
        BY <1>0, <2>1 DEF CacheRows, CacheJobs, Timely, Excused, Idle
    <2> QED BY <2>1, <2>3, <2>4 DEF CacheInv, Timely, Excused
<1>4. ASSUME NEW w \in Workers, Drops(w)
      PROVE  CacheInv'
    <2> DEFINE i == job[w].change
    <2>1. /\ job[w].op = "drop" /\ kept' = Nothing /\ watched' = watched
          /\ changes' = [changes EXCEPT ![i] = [@ EXCEPT !.fate = "told"]]
          /\ job' = [v \in Workers |->
                       IF v = w THEN Idle
                       ELSE IF job[v].op = "fill" THEN [job[v] EXCEPT !.late = TRUE]
                       ELSE job[v]]
        BY <1>4 DEF Drops, Doing
    <2>2. i \in 1 .. Len(changes) /\ changes[i] \in Change
        BY <1>0, <2>1, LenProperties DEF CacheJobs
    <2>3. [changes[i] EXCEPT !.fate = "told"] \in Change
        BY <2>2 DEF Fates
    <2> HIDE DEF Change
    <2>4. changes' \in Seq(Change) /\ Len(changes') = Len(changes)
        BY <1>0, <2>1, <2>2, <2>3, ExceptSeq
    <2> USE DEF Change
    <2>5. CacheRows'
        BY <1>0, <2>1, <2>4 DEF CacheRows
    <2>6. ASSUME NEW v \in Workers
          PROVE  /\ job'[v].op = "fill" => Timely(job[v].upTo, job[v].late)'
                 /\ job'[v].op = "drop" => job'[v].change \in 1 .. Len(changes')
        <3>1. CASE v = w
            BY <2>1, <3>1 DEF Idle
        <3>2. CASE v # w /\ job[v].op = "fill"
            <4> DEFINE k == job[v]
                       new == [k EXCEPT !.late = TRUE]
            <4>1. job'[v] = new
                BY <2>1, <3>2
            <4>2. new.op = k.op /\ new.upTo = k.upTo
                OBVIOUS
            <4>3. new.late = TRUE
                OBVIOUS
            <4> HIDE DEF new
            <4> QED BY <1>0, <2>4, <3>2, <4>1, <4>2, <4>3 DEF CacheJobs, Timely
        <3>3. CASE v # w /\ job[v].op # "fill"
            <4>1. job'[v] = job[v]
                BY <2>1, <3>3
            <4> QED BY <1>0, <2>4, <3>3, <4>1 DEF CacheJobs
        <3> QED BY <3>1, <3>2, <3>3
    <2>7. CacheJobs'
        BY <2>6 DEF CacheJobs
    <2> QED BY <2>1, <2>5, <2>7 DEF CacheInv
<1>5. ASSUME NEW w \in Workers, Fails(w)
      PROVE  CacheInv'
    <2> DEFINE i == job[w].change
    <2>1. /\ job' = [job EXCEPT ![w] = Idle] /\ UNCHANGED <<watched, kept>>
          /\ changes' = IF job[w].op = "drop"
                        THEN [changes EXCEPT ![i] = [@ EXCEPT !.fate = "lost"]] ELSE changes
        BY <1>5 DEF Fails, Crash, Doing, Finish, Goto
    <2>2. CASE job[w].op = "drop"
        <3>1. i \in 1 .. Len(changes) /\ changes[i] \in Change
            BY <1>0, <2>2, LenProperties DEF CacheJobs
        <3> DEFINE row == [changes[i] EXCEPT !.fate = "lost"]
        <3>2. row \in Change /\ row.fate = "lost"
            BY <3>1 DEF Fates
        <3>3. changes' = [changes EXCEPT ![i] = row]
            BY <2>1, <2>2
        <3> HIDE DEF row, Change
        <3>4. /\ changes' \in Seq(Change) /\ Len(changes') = Len(changes)
              /\ \A j \in 1 .. Len(changes) : changes'[j] = IF j = i THEN row ELSE changes[j]
            BY <1>0, <3>1, <3>2, <3>3, ExceptSeq
        <3> USE DEF Change
        <3>5. CacheRows'
            BY <1>0, <2>1, <3>4 DEF CacheRows
        <3>6. \A n \in 1 .. Len(changes) : Excused(n) => Excused(n)'
            BY <2>1, <3>2, <3>4 DEF Excused
        <3>7. \A upTo, late : Timely(upTo, late) => Timely(upTo, late)'
            BY <1>0, <2>1, <3>4, <3>5, <3>6, StaysTimely
        <3>8. CacheJobs'
            BY <1>0, <2>1, <3>4, <3>7 DEF CacheJobs, CacheRows, Idle
        <3> QED BY <1>0, <2>1, <3>5, <3>7, <3>8 DEF CacheInv
    <2>3. CASE job[w].op # "drop"
        BY <1>0, <2>1, <2>3 DEF CacheInv, CacheRows, CacheJobs, Timely, Excused, Idle
    <2> QED BY <2>2, <2>3
<1>6. ASSUME NEW w \in Workers, NEW x \in Writers, NEW own \in BOOLEAN, Commits(w, x, own)
      PROVE  CacheInv'
    <2> DEFINE fate == CASE watched.name \notin x.drops -> "silent"
                         [] own -> "pending"
                         [] OTHER -> "elsewhere"
               row == [by |-> x.name, fate |-> fate]
               k == [op |-> "drop", change |-> Len(changes')]
    <2>1. /\ UNCHANGED <<watched, kept>>
          /\ changes' = Append(changes, row)
          /\ job' = job \/ job' = [job EXCEPT ![w] = k]
        BY <1>6 DEF Commits, Start
    <2>2. row \in Change
        BY DEF Fates
    <2>3. \/ row.fate = "pending"
          \/ row.fate = "silent" /\ row.by \in Silent(watched.name)
          \/ row.fate = "elsewhere" /\ row.by \in SilentToOthers(watched.name)
        <3>1. /\ (IF own THEN x.sets ELSE x.others) \cap watched.shows # {}
              /\ own \/ watched.name \in x.drops
            BY <1>6 DEF Commits
        <3>2. Known(x, watched) /\ KnownToOthers(x, watched)
            BY <1>0, SilentKnown, SilentToOthersKnown DEF CacheRows
        <3> QED BY <3>1, <3>2 DEF Known, KnownToOthers
    <2>4. k.op = "drop" /\ k.change = Len(changes')
        OBVIOUS
    <2> HIDE DEF fate, row, Change, k
    <2>5. /\ changes' \in Seq(Change) /\ Len(changes') = Len(changes) + 1
          /\ \A j \in 1 .. Len(changes) : changes'[j] = changes[j]
          /\ changes'[Len(changes) + 1] = row
        BY <1>0, <2>1, <2>2, AppendProperties
    <2> USE DEF Change
    <2>6. CacheRows'
        BY <1>0, <2>1, <2>5 DEF CacheRows
    <2>7. /\ \A n \in 1 .. Len(changes) : Excused(n) => Excused(n)'
          /\ \A n \in Len(changes) + 1 .. Len(changes') : Excused(n)'
        <3>1. \A n \in Len(changes) + 1 .. Len(changes') : changes'[n] = row
            BY <1>0, <2>5
        <3>2. \A n \in 1 .. Len(changes) : changes'[n] = changes[n]
            BY <2>5
        <3> QED BY <2>1, <2>3, <3>1, <3>2 DEF Excused
    <2>8. \A upTo, late : Timely(upTo, late) => Timely(upTo, late)'
        BY <1>0, <2>1, <2>5, <2>6, <2>7, StaysTimely
    <2>9. CacheJobs'
        BY <1>0, <2>1, <2>4, <2>5, <2>8 DEF CacheJobs, CacheRows
    <2> QED BY <1>0, <2>1, <2>6, <2>8, <2>9 DEF CacheInv
<1> QED BY <1>1, <1>2, <1>3, <1>4, <1>5, <1>6 DEF CacheNext
-----------------------------------------------------------------------------
(* Kept rights: they are the account's, or were before an edit that is not    *)
(* told yet.                                                                *)
Untold(n) == edits[n] \in {"pending", "lost"}

Same(role, home, rights) ==
    /\ account # NoAccount
    /\ role = account.role /\ home = account.home
    /\ rights = ResolvePermissions(account.role, account.overrides)

Agrees(k) ==
    /\ k.rights \subseteq RoleDefaults[k.role]
    /\ k.upTo \in 0 .. Len(edits)
    /\ \/ Same(k.role, k.home, k.rights)
       \/ k.late
       \/ \E n \in k.upTo + 1 .. Len(edits) : Untold(n)

RightsJobs ==
    /\ DOMAIN job = Workers
    /\ \A w \in Workers :
        /\ job[w].op = "keep" => Agrees(job[w])
        /\ job[w].op = "invalidate" => job[w].edit \in 1 .. Len(edits)

RightsInv ==
    /\ edits \in Seq({"pending", "told", "lost"})
    /\ RightsJobs
    /\ context # NoContext => Agrees(context)

LEMMA RightsHold ==
    RightsInv => RightsFollowAccount
BY DEF RightsInv, Agrees, Same, Untold, RightsFollowAccount

LEMMA RightsStart ==
    ASSUME RightsInit, job = [w \in Workers |-> Idle]
    PROVE  RightsInv
BY EmptySeq DEF RightsInit, RightsInv, RightsJobs, Idle

LEMMA RightsResolved ==
    \A role, overrides : ResolvePermissions(role, overrides) \subseteq RoleDefaults[role]
BY DEF ResolvePermissions

(* A handler that only goes on.                                             *)
LEMMA RightsGoOn ==
    ASSUME RightsInv, UNCHANGED rightsVars, NEW w \in Workers, NEW k,
           job' = [job EXCEPT ![w] = k], k.op \notin {"keep", "invalidate"}
    PROVE  RightsInv'
BY DEF RightsInv, RightsJobs, Agrees, Same, Untold, rightsVars

(* An edit that is not told yet excuses whatever was read before.            *)
LEMMA EditKeeps ==
    ASSUME RightsInv, NEW w \in Workers, NEW new, Writes(w, new)
    PROVE  RightsInv'
<1> DEFINE Told == {"pending", "told", "lost"}
           k == [op |-> "invalidate", edit |-> Len(edits')]
<1>1. /\ edits' = Append(edits, "pending") /\ context' = context
      /\ job' = [job EXCEPT ![w] = k]
    BY DEF Writes, Goto
<1>2. k.op = "invalidate" /\ k.edit = Len(edits')
    OBVIOUS
<1>3. edits \in Seq(Told) /\ Len(edits) \in Nat /\ "pending" \in Told
    BY LenProperties DEF RightsInv
<1> HIDE DEF Told, k
<1>4. /\ edits' \in Seq(Told) /\ Len(edits') = Len(edits) + 1
      /\ edits'[Len(edits) + 1] = "pending"
    BY <1>1, <1>3, AppendProperties
<1>5. \A n : n = Len(edits) + 1 => Untold(n)'
    BY <1>3, <1>4 DEF Untold
<1>6. ASSUME NEW upTo \in 0 .. Len(edits)
      PROVE  /\ upTo \in 0 .. Len(edits')
             /\ \E n \in upTo + 1 .. Len(edits') : Untold(n)'
    <2>1. Len(edits) + 1 \in upTo + 1 .. Len(edits') /\ upTo \in 0 .. Len(edits')
        BY <1>3, <1>4
    <2> QED BY <1>5, <2>1
<1>7. \A v \in Workers \ {w} : job'[v] = job[v] /\ job[v].op = "keep" =>
         /\ job[v].rights \subseteq RoleDefaults[job[v].role]
         /\ job[v].upTo \in 0 .. Len(edits)
    BY DEF RightsInv, RightsJobs, Agrees
<1>8. \A v \in Workers \ {w} : job[v].op = "keep" => Agrees(job[v])'
    BY <1>1, <1>6, <1>7 DEF Agrees
<1>9. RightsJobs'
    BY <1>1, <1>2, <1>3, <1>4, <1>8 DEF RightsInv, RightsJobs
<1>10. context # NoContext => Agrees(context)'
    BY <1>1, <1>6 DEF RightsInv, Agrees
<1> USE DEF Told
<1> QED BY <1>1, <1>4, <1>9, <1>10 DEF RightsInv

LEMMA RightsStep ==
    ASSUME RightsInv, RightsNext
    PROVE  RightsInv'
<1> DEFINE Told == {"pending", "told", "lost"}
<1>0. /\ edits \in Seq(Told) /\ Len(edits) \in Nat /\ RightsJobs
      /\ context # NoContext => Agrees(context)
    BY LenProperties DEF RightsInv
<1>1. ASSUME account = NoAccount, UNCHANGED <<context, edits, job>>
      PROVE  RightsInv'
    BY <1>0, <1>1 DEF RightsInv, RightsJobs, Agrees, Same, Untold
<1>2. CASE Forgets
    BY <1>0, <1>2 DEF Forgets, RightsInv, RightsJobs, Agrees, Same, Untold
<1>3. ASSUME NEW w \in Workers,
             \/ \E op \in {"edit", "delete"} :
                   ManageStaff(w, op) \/ \E h \in Homes : ManagePegawai(w, op, h)
             \/ AccountGone(w)
      PROVE  RightsInv'
    <2> DEFINE GoesOn == \E k : /\ job' = [job EXCEPT ![w] = k]
                               /\ k.op \notin {"keep", "invalidate"}
                               /\ UNCHANGED rightsVars
    <2>1. GoesOn
        <3>1. ASSUME NEW op \in {"edit", "delete"}, ManageStaff(w, op)
              PROVE  GoesOn
            BY <3>1 DEF ManageStaff, Start
        <3>2. ASSUME NEW op \in {"edit", "delete"}, NEW h \in Homes, ManagePegawai(w, op, h)
              PROVE  GoesOn
            <4> DEFINE k == [op |-> op, by |-> "admin", courier |-> account.role = "COURIER"]
            <4>1. job' = [job EXCEPT ![w] = k] /\ UNCHANGED rightsVars
                BY <3>2 DEF ManagePegawai, Start
            <4>2. k.op = op
                OBVIOUS
            <4> HIDE DEF k
            <4> QED BY <4>1, <4>2
        <3>3. ASSUME AccountGone(w)
              PROVE  GoesOn
            BY <3>3 DEF AccountGone, Finish, Goto, Idle
        <3> QED BY <1>3, <3>1, <3>2, <3>3
    <2> QED BY <2>1, RightsGoOn
<1>4. ASSUME NEW w \in Workers,
             \/ \E r \in StaffRoles, h \in Homes, o \in Overrides : UpdateStaff(w, r, h, o)
             \/ \E o \in Overrides : UpdatePegawai(w, o)
             \/ DeleteAccount(w)
      PROVE  RightsInv'
    <2>1. \E new : Writes(w, new)
        BY <1>4 DEF UpdateStaff, UpdatePegawai, DeleteAccount
    <2> QED BY <2>1, EditKeeps
<1>5. ASSUME NEW w \in Workers, Invalidates(w)
      PROVE  RightsInv'
    <2> DEFINE i == job[w].edit
    <2>1. /\ job[w].op = "invalidate" /\ context' = NoContext
          /\ edits' = [edits EXCEPT ![i] = "told"]
          /\ job' = [v \in Workers |->
                       IF v = w THEN Idle
                       ELSE IF job[v].op = "keep" THEN [job[v] EXCEPT !.late = TRUE]
                       ELSE job[v]]
        BY <1>5 DEF Invalidates, Doing
    <2>2. i \in 1 .. Len(edits) /\ "told" \in Told
        BY <1>0, <2>1 DEF RightsJobs
    <2> HIDE DEF Told, i
    <2>3. edits' \in Seq(Told) /\ Len(edits') = Len(edits)
        BY <1>0, <2>1, <2>2, ExceptSeq
    <2>4. ASSUME NEW v \in Workers, job[v].op = "keep", v # w
          PROVE  Agrees(job[v])'
        <3> DEFINE k == job[v]
                   new == [k EXCEPT !.late = TRUE]
        <3>1. job'[v] = new
            BY <2>1, <2>4
        <3>2. /\ new.rights = k.rights /\ new.role = k.role /\ new.upTo = k.upTo
              /\ new.late = TRUE
            OBVIOUS
        <3> HIDE DEF new
        <3>3. Agrees(k)
            BY <1>0, <2>4 DEF RightsJobs
        <3> QED BY <2>3, <3>1, <3>2, <3>3 DEF Agrees
    <2>5. ASSUME NEW v \in Workers
          PROVE  /\ job'[v].op = "keep" => Agrees(job[v])'
                 /\ job'[v].op = "invalidate" => job'[v].edit \in 1 .. Len(edits')
        <3>1. CASE v = w
            BY <2>1, <3>1 DEF Idle
        <3>2. CASE v # w /\ job[v].op = "keep"
            <4>1. job'[v] = [job[v] EXCEPT !.late = TRUE]
                BY <2>1, <3>2
            <4>2. job'[v].op = job[v].op
                BY <4>1
            <4> QED BY <2>4, <3>2, <4>2
        <3>3. CASE v # w /\ job[v].op # "keep"
            <4>1. job'[v] = job[v]
                BY <2>1, <3>3
            <4> QED BY <1>0, <2>3, <3>3, <4>1 DEF RightsJobs
        <3> QED BY <3>1, <3>2, <3>3
    <2>6. RightsJobs'
        BY <2>1, <2>5 DEF RightsJobs
    <2> USE DEF Told
    <2> QED BY <2>1, <2>3, <2>6 DEF RightsInv
<1>6. ASSUME NEW w \in Workers, Loses(w)
      PROVE  RightsInv'
    <2> DEFINE i == job[w].edit
    <2>1. /\ job' = [job EXCEPT ![w] = Idle] /\ UNCHANGED <<account, context>>
          /\ edits' = IF job[w].op = "invalidate" THEN [edits EXCEPT ![i] = "lost"] ELSE edits
        BY <1>6 DEF Loses, Crash, Doing, Finish, Goto
    <2>2. CASE job[w].op = "invalidate"
        <3>1. i \in 1 .. Len(edits) /\ "lost" \in Told /\ edits' = [edits EXCEPT ![i] = "lost"]
            BY <1>0, <2>1, <2>2 DEF RightsJobs
        <3> HIDE DEF Told, i
        <3>2. /\ edits' \in Seq(Told) /\ Len(edits') = Len(edits)
              /\ \A j \in 1 .. Len(edits) : edits'[j] = IF j = i THEN "lost" ELSE edits[j]
            BY <1>0, <3>1, ExceptSeq
        <3>3. \A n \in 1 .. Len(edits) : Untold(n) => Untold(n)'
            BY <3>2 DEF Untold
        <3>4. \A upTo \in 0 .. Len(edits) :
                 (\E n \in upTo + 1 .. Len(edits) : Untold(n))
                   => \E n \in upTo + 1 .. Len(edits') : Untold(n)'
            BY <1>0, <3>2, <3>3
        <3>5. \A v \in Workers \ {w} : job[v].op = "keep" => Agrees(job[v])'
            BY <1>0, <2>1, <3>2, <3>4 DEF RightsJobs, Agrees, Same
        <3>6. context # NoContext => Agrees(context)'
            BY <1>0, <2>1, <3>2, <3>4 DEF Agrees, Same
        <3>7. RightsJobs'
            BY <1>0, <2>1, <3>2, <3>5 DEF RightsJobs, Idle
        <3> USE DEF Told
        <3> QED BY <2>1, <3>2, <3>6, <3>7 DEF RightsInv
    <2>3. CASE job[w].op # "invalidate"
        BY <2>1, <2>3, RightsGoOn DEF rightsVars, Idle
    <2> QED BY <2>2, <2>3
<1>7. ASSUME NEW w \in Workers, Loads(w)
      PROVE  RightsInv'
    <2> DEFINE k == [op |-> "keep", role |-> account.role, home |-> account.home,
                     rights |-> ResolvePermissions(account.role, account.overrides),
                     upTo |-> Len(edits), late |-> FALSE]
    <2>1. account # NoAccount /\ job' = [job EXCEPT ![w] = k] /\ UNCHANGED rightsVars
        BY <1>7 DEF Loads, Start
    <2>2. k.op = "keep" /\ Agrees(k)
        BY <1>0, <2>1, RightsResolved DEF Agrees, Same
    <2> HIDE DEF k
    <2>3. RightsJobs'
        BY <1>0, <2>1, <2>2 DEF RightsJobs, Agrees, Same, Untold, rightsVars
    <2> QED BY <1>0, <2>1, <2>3 DEF RightsInv, Agrees, Same, Untold, rightsVars
<1>8. ASSUME NEW w \in Workers, ContextKept(w)
      PROVE  RightsInv'
    <2> DEFINE k == job[w]
               new == [role |-> k.role, home |-> k.home, rights |-> k.rights,
                       upTo |-> k.upTo, late |-> k.late]
    <2>1. /\ k.op = "keep" /\ context' = new /\ job' = [job EXCEPT ![w] = Idle]
          /\ UNCHANGED <<account, edits>>
        BY <1>8 DEF ContextKept, Doing, Finish, Goto
    <2>2. /\ new.role = k.role /\ new.home = k.home /\ new.rights = k.rights
          /\ new.upTo = k.upTo /\ new.late = k.late
        OBVIOUS
    <2>3. Agrees(k)
        BY <1>0, <2>1 DEF RightsJobs
    <2> HIDE DEF new
    <2>4. Agrees(context)'
        BY <2>1, <2>2, <2>3 DEF Agrees, Same, Untold
    <2>5. RightsJobs'
        BY <1>0, <2>1 DEF RightsJobs, Agrees, Same, Untold, Idle
    <2> QED BY <1>0, <2>1, <2>4, <2>5 DEF RightsInv
<1> QED
    BY <1>1, <1>2, <1>3, <1>4, <1>5, <1>6, <1>7, <1>8 DEF RightsNext, CreateStaff, CreatePegawai

-----------------------------------------------------------------------------
(* The opening hours.  An hour of the week is one of its day, counted from    *)
(* that day's midnight, or from the midnight before.                         *)
LEMMA HourOfDay ==
    ASSUME NEW e \in 0 .. 6, NEW k \in 0 .. 46, NEW d \in 0 .. 6, NEW h \in 0 .. 23
    PROVE  (24 * e + k) % 168 = 24 * d + h
             <=> \/ k < 24 /\ e = d /\ k = h
                 \/ k >= 24 /\ d = (e + 1) % 7 /\ k - 24 = h
<1>1. CASE k < 24
    <2>1. 24 * e + k \in 0 .. 167
        BY <1>1
    <2>2. (24 * e + k) % 168 = 24 * e + k
        BY <2>1
    <2> QED BY <1>1, <2>2
<1>2. CASE k >= 24 /\ e < 6
    <2>1. (24 * e + k) % 168 = 24 * e + k /\ (e + 1) % 7 = e + 1
        BY <1>2
    <2> QED BY <1>2, <2>1
<1>3. CASE k >= 24 /\ e = 6
    <2>1. (24 * e + k) % 168 = k - 24 /\ (e + 1) % 7 = 0
        BY <1>3
    <2> QED BY <1>3, <2>1
<1> QED BY <1>1, <1>2, <1>3

(* A week as it can be stored.                                              *)
Readable(day) ==
    \/ day \in {Closed, Unreadable}
    \/ \E from, to \in 0 .. 23 : day = Open(from, to)

LEMMA WeeksReadable ==
    ASSUME NEW days \in Weeks
    PROVE  days # Unset /\ \A d \in Days : Readable(days[d])
<1>1. days \in [Days -> Schedule]
    BY WeeksAssumption
<1>2. \A day \in Schedule : Readable(day)
    BY DEF Schedule, Readable
<1>3. DOMAIN days = Days /\ DOMAIN Unset = {} /\ 0 \in Days
    BY <1>1 DEF Unset, Days
<1> QED BY <1>1, <1>2, <1>3

(* Which hours a week posts: those of the day itself, and the small ones of   *)
(* the day before.                                                          *)
LEMMA PostedIs ==
    ASSUME NEW days, \A d \in Days : Readable(days[d]), NEW d \in Days, NEW h \in 0 .. 23,
           NEW p \in Days, d = (p + 1) % 7
    PROVE  24 * d + h \in PostedHours(days)
             <=> \/ /\ days[d].kind = "open" /\ h >= days[d].from
                    /\ PastMidnight(days[d]) \/ h < days[d].to
                 \/ PastMidnight(days[p]) /\ h < days[p].to
<1> DEFINE LastHour(e) == IF days[e].to <= days[e].from THEN days[e].to + 23 ELSE days[e].to - 1
<1>1. \A e \in Days : days[e].kind = "open" => days[e].from \in 0 .. 23 /\ days[e].to \in 0 .. 23
    <2> SUFFICES ASSUME NEW e \in Days, days[e].kind = "open"
                 PROVE  days[e].from \in 0 .. 23 /\ days[e].to \in 0 .. 23
        OBVIOUS
    <2>1. days[e] # Closed /\ days[e] # Unreadable
        BY DEF Closed, Unreadable
    <2>2. PICK from \in 0 .. 23, to \in 0 .. 23 : days[e] = Open(from, to)
        BY <2>1 DEF Readable
    <2> QED BY <2>2 DEF Open
<1>2. 24 * d + h \in PostedHours(days)
        <=> \E e \in Days : days[e].kind = "open"
              /\ \E k \in days[e].from .. LastHour(e) : (24 * e + k) % 168 = 24 * d + h
    <2> DEFINE Posts(e) == {(24 * e + k) % 168 : k \in days[e].from .. LastHour(e)}
    <2>1. PostedHours(days) = UNION {Posts(e) : e \in {i \in Days : days[i].kind = "open"}}
        BY DEF PostedHours
    <2>2. \A e : 24 * d + h \in Posts(e)
                   <=> \E k \in days[e].from .. LastHour(e) : (24 * e + k) % 168 = 24 * d + h
        OBVIOUS
    <2> HIDE DEF Posts, LastHour
    <2>3. \A x : x \in PostedHours(days)
                   <=> \E e \in {i \in Days : days[i].kind = "open"} : x \in Posts(e)
        BY <2>1, Zenon
    <2> QED BY <2>2, <2>3
<1>3. ASSUME NEW e \in Days, days[e].kind = "open"
      PROVE  (\E k \in days[e].from .. LastHour(e) : (24 * e + k) % 168 = 24 * d + h)
               <=> \/ e = d /\ h >= days[e].from /\ (PastMidnight(days[e]) \/ h < days[e].to)
                   \/ e = p /\ PastMidnight(days[e]) /\ h < days[e].to
    <2> DEFINE from == days[e].from
               to == days[e].to
    <2>1. from \in 0 .. 23 /\ to \in 0 .. 23
        BY <1>1, <1>3
    <2>2. \A k \in from .. LastHour(e) : k \in 0 .. 46
        BY <2>1
    <2>3. \A k \in from .. LastHour(e) :
             (24 * e + k) % 168 = 24 * d + h
               <=> \/ k < 24 /\ e = d /\ k = h
                   \/ k >= 24 /\ d = (e + 1) % 7 /\ k - 24 = h
        BY <2>2, HourOfDay DEF Days
    <2>4. d = (e + 1) % 7 <=> e = p
        BY DEF Days
    <2>5. PastMidnight(days[e]) <=> to <= from
        BY <1>3 DEF PastMidnight
    <2>6. h \in from .. LastHour(e) <=> h >= from /\ (to <= from \/ h < to)
        BY <2>1
    <2>7. h + 24 \in from .. LastHour(e) <=> to <= from /\ h < to
        BY <2>1
    <2>8. (\E k \in from .. LastHour(e) : (24 * e + k) % 168 = 24 * d + h)
            <=> (e = d /\ h \in from .. LastHour(e)) \/ (e = p /\ h + 24 \in from .. LastHour(e))
        <3>1. ASSUME NEW k \in from .. LastHour(e), (24 * e + k) % 168 = 24 * d + h
              PROVE  (e = d /\ h \in from .. LastHour(e)) \/ (e = p /\ h + 24 \in from .. LastHour(e))
            <4>1. k \in 0 .. 46
                BY <2>2
            <4>2. \/ k < 24 /\ e = d /\ k = h
                  \/ k >= 24 /\ d = (e + 1) % 7 /\ k - 24 = h
                BY <2>3, <3>1
            <4>3. k - 24 = h => k = h + 24
                BY <4>1
            <4> HIDE DEF from, LastHour
            <4> QED BY <2>4, <3>1, <4>2, <4>3
        <3>2. ASSUME e = d, h \in from .. LastHour(e)
              PROVE  (24 * e + h) % 168 = 24 * d + h
            BY <2>3, <3>2
        <3>3. ASSUME e = p, h + 24 \in from .. LastHour(e)
              PROVE  (24 * e + (h + 24)) % 168 = 24 * d + h
            BY <2>3, <2>4, <3>3
        <3> QED BY <3>1, <3>2, <3>3
    <2> QED BY <2>5, <2>6, <2>7, <2>8
<1> QED BY <1>2, <1>3 DEF PastMidnight

LEMMA AnswerAsPosted ==
    ASSUME NEW days, \A d \in Days : Readable(days[d]), days # Unset, NEW now \in 0 .. 167,
           \A d \in Days : PastMidnight(days[d]) \/ PastMidnight(days[(d + 1) % 7])
                             => days[d] = days[(d + 1) % 7],
           IsOpenNow(days, now) \in {"yes", "no"}
    PROVE  IsOpenNow(days, now) = "yes" <=> ShopHour(now) \in PostedHours(days)
<1> DEFINE hour == (now + 7) % 168
           d == hour \div 24
           h == hour % 24
           p == (d + 6) % 7
           today == days[d]
<1>1. hour \in 0 .. 167 /\ LocalHour(now) = hour /\ ShopHour(now) = hour
    BY DEF LocalHour, WibOffset, ShopHour
<1> HIDE DEF hour
<1>2. d \in 0 .. 6 /\ h \in 0 .. 23 /\ hour = 24 * d + h
    BY <1>1
<1> HIDE DEF d, h
<1>3. p \in 0 .. 6 /\ d = (p + 1) % 7
    BY <1>2
<1> HIDE DEF p
<1>4. hour \in PostedHours(days)
        <=> \/ today.kind = "open" /\ h >= today.from /\ (PastMidnight(today) \/ h < today.to)
            \/ PastMidnight(days[p]) /\ h < days[p].to
    BY <1>2, <1>3, PostedIs DEF Days
<1>5. PastMidnight(days[p]) \/ PastMidnight(today) => days[p] = today
    BY <1>3 DEF Days
<1>6. hour \in PostedHours(days)
        <=> today.kind = "open"
              /\ \/ h >= today.from /\ (PastMidnight(today) \/ h < today.to)
                 \/ PastMidnight(today) /\ h < today.to
    BY <1>4, <1>5 DEF PastMidnight
<1>7. IsOpenNow(days, now) =
        CASE today = Unreadable -> "unknown"
          [] today = Closed -> "no"
          [] today.kind = "open" -> IF Serves(today, h) THEN "yes" ELSE "no"
    BY <1>1 DEF IsOpenNow, d, h
<1>8. Readable(today)
    BY <1>2 DEF Days
<1>9. CASE today = Unreadable
    <2>1. today # Closed /\ today.kind # "open"
        BY <1>9 DEF Unreadable, Closed
    <2> QED BY <1>7, <1>9, <2>1
<1>10. CASE today = Closed
    BY <1>1, <1>6, <1>7, <1>10 DEF Closed, Unreadable
<1>11. CASE \E from, to \in 0 .. 23 : today = Open(from, to)
    <2>1. PICK from \in 0 .. 23, to \in 0 .. 23 : today = Open(from, to)
        BY <1>11
    <2>2. today.kind = "open" /\ today.from = from /\ today.to = to
            /\ today # Unreadable /\ today # Closed
        BY <2>1 DEF Open, Unreadable, Closed
    <2> HIDE DEF today
    <2>3. IsOpenNow(days, now) = IF Serves(today, h) THEN "yes" ELSE "no"
        BY <1>7, <2>2
    <2>4. Serves(today, h)
            <=> \/ h >= today.from /\ (PastMidnight(today) \/ h < today.to)
                \/ PastMidnight(today) /\ h < today.to
        BY <1>2, <2>2 DEF Serves, PastMidnight
    <2> QED BY <1>1, <1>6, <2>2, <2>3, <2>4
<1> QED BY <1>8, <1>9, <1>10, <1>11 DEF Readable

HoursInv ==
    /\ week = Unset \/ week \in Weeks
    /\ asked.of = "card" => asked.at \in Clock /\ asked.answer = IsOpenNow(week, asked.at)
    /\ asked # NotAsked \/ asked.of # "card"

LEMMA HoursStep ==
    ASSUME HoursInv, HoursNext
    PROVE  HoursInv'
<1>1. ASSUME NEW days \in Weeks, HoursStored(days) \/ LocationStored(days)
      PROVE  HoursInv'
    BY <1>1 DEF HoursInv, HoursStored, LocationStored, NotAsked
<1>2. ASSUME NEW now \in Clock, AskWhetherOpen(now)
      PROVE  HoursInv'
    <2>1. week' = week
        BY <1>2 DEF AskWhetherOpen
    <2>2. CASE asked' = [at |-> now, of |-> "card", answer |-> IsOpenNow(week, now)]
        BY <2>1, <2>2 DEF HoursInv, NotAsked
    <2>3. CASE asked' = [at |-> now, of |-> "dashboard", answer |-> StoreStatus(week, now)]
        BY <2>1, <2>3 DEF HoursInv, NotAsked
    <2> QED BY <1>2, <2>2, <2>3 DEF AskWhetherOpen
<1> QED BY <1>1, <1>2 DEF HoursNext

LEMMA HoursHold ==
    HoursInv => OpenAsPosted
<1> SUFFICES ASSUME HoursInv, asked.of = "card", asked.answer \in {"yes", "no"},
                    \A d \in Days : PastMidnight(week[d]) \/ PastMidnight(week[(d + 1) % 7])
                                      => week[d] = week[(d + 1) % 7]
             PROVE  asked.answer = "yes" <=> ShopHour(asked.at) \in PostedHours(week)
    BY DEF OpenAsPosted
<1>1. asked.at \in 0 .. 167 /\ asked.answer = IsOpenNow(week, asked.at)
    BY ClockAssumption DEF HoursInv
<1>2. week # Unset
    BY <1>1 DEF IsOpenNow
<1>3. \A d \in Days : Readable(week[d])
    BY <1>2, WeeksReadable DEF HoursInv
<1> QED BY <1>1, <1>2, <1>3, AnswerAsPosted

-----------------------------------------------------------------------------
(* The figures.  The calendar: the first of the month is the last one that   *)
(* has come, the next the first that has not.                               *)
LEMMA MonthIs ==
    ASSUME NEW day \in 0 .. 120
    PROVE  /\ Month(day) \in MonthStarts /\ Month(day) <= day
           /\ \A s \in MonthStarts : s <= day => s <= Month(day)
           /\ day < 120 => /\ NextMonth(day) \in MonthStarts /\ day < NextMonth(day)
                           /\ \A s \in MonthStarts : s > day => s >= NextMonth(day)
<1> DEFINE come == {s \in MonthStarts : s <= day}
           left == {s \in MonthStarts : s > day}
<1>1. come \in SUBSET Int /\ left \in SUBSET Int
    BY DEF MonthStarts
<1>2. \E m \in come : \A x \in come : x <= m
    <2>1. CASE day < 31
        BY <2>1 DEF MonthStarts
    <2>2. CASE 31 <= day /\ day < 59
        BY <2>2 DEF MonthStarts
    <2>3. CASE 59 <= day /\ day < 90
        BY <2>3 DEF MonthStarts
    <2>4. CASE 90 <= day
        BY <2>4 DEF MonthStarts
    <2> QED BY <2>1, <2>2, <2>3, <2>4
<1>3. day < 120 => \E m \in left : \A x \in left : m <= x
    <2>1. CASE day < 31
        BY <2>1 DEF MonthStarts
    <2>2. CASE 31 <= day /\ day < 59
        BY <2>2 DEF MonthStarts
    <2>3. CASE 59 <= day /\ day < 90
        BY <2>3 DEF MonthStarts
    <2>4. CASE 90 <= day
        BY <2>4 DEF MonthStarts
    <2> QED BY <2>1, <2>2, <2>3, <2>4
<1>4. Month(day) = Max(come) /\ NextMonth(day) = Min(left)
    BY DEF Month, NextMonth
<1> HIDE DEF come, left
<1>5. Month(day) \in come /\ \A x \in come : x <= Month(day)
    BY <1>1, <1>2, <1>4, MaxIs
<1>6. day < 120 => NextMonth(day) \in left /\ \A x \in left : NextMonth(day) <= x
    BY <1>1, <1>3, <1>4, MinIs
<1>7. \A s \in MonthStarts : s \in Int
    BY DEF MonthStarts
<1> QED BY <1>5, <1>6, <1>7 DEF come, left

LEMMA SameDay ==
    ASSUME NEW at \in Int, NEW now \in Int, at <= now, NEW zone \in {Server, Village}
    PROVE  /\ at >= MidnightOf(now, zone) <=> DayOf(at, zone) = DayOf(now, zone)
           /\ MidnightOf(now, zone) \in Int /\ now < MidnightOf(now, zone) + 24
           /\ MidnightOf(now, zone) <= now
BY DEF MidnightOf, DayOf, Server, Village

LEMMA SameMonth ==
    ASSUME NEW at \in Nat, NEW now \in 0 .. 24 * 120 - 1, at <= now
    PROVE  at >= MonthStartOf(now, Village)
             <=> Month(DayOf(at, Village)) = Month(DayOf(now, Village))
<1> DEFINE a == DayOf(at, Village)
           n == DayOf(now, Village)
<1>1. /\ a \in 0 .. 120 /\ n \in 0 .. 120 /\ a <= n
      /\ \A m \in Int : at >= m * 24 - Village <=> a >= m
    BY DEF DayOf, Village
<1> HIDE DEF a, n
<1>2. /\ Month(a) \in MonthStarts /\ Month(a) <= a
      /\ \A s \in MonthStarts : s <= a => s <= Month(a)
    BY <1>1, MonthIs
<1>3. /\ Month(n) \in MonthStarts /\ Month(n) <= n
      /\ \A s \in MonthStarts : s <= n => s <= Month(n)
    BY <1>1, MonthIs
<1>4. Month(a) \in Int /\ Month(n) \in Int
    BY <1>2, <1>3 DEF MonthStarts
<1>5. a >= Month(n) <=> Month(a) = Month(n)
    BY <1>1, <1>2, <1>3, <1>4
<1>6. at >= MonthStartOf(now, Village) <=> a >= Month(n)
    BY <1>1, <1>4 DEF MonthStartOf, n
<1> QED BY <1>5, <1>6 DEF a, n

(* A period holds the moment it is asked for, and begins where the one        *)
(* before it ends.                                                          *)
LEMMA PeriodsAdjoin ==
    ASSUME NEW now \in 24 * 31 .. 24 * 120 - 1, NEW period \in {"today", "week", "month"}
    PROVE  LET range == PeriodRanges(period, now)
               last == PeriodRanges(period, range.from - 1)
           IN  /\ range.from \in Int /\ range.to \in Int /\ range.before \in Int
               /\ range.from <= now /\ now < range.to /\ range.before < range.from
               /\ last.to = range.from /\ last.from = range.before
<1> DEFINE day == DayOf(now, Server)
<1>1. day \in 31 .. 119 /\ 24 * day <= now /\ now < 24 * (day + 1)
    BY DEF DayOf, Server
<1>2. \A d \in Int : DayOf(24 * d - 1, Server) = d - 1
    BY DEF DayOf, Server
<1>3. CASE period = "today"
    <2>1. PeriodRanges("today", now) = [from |-> 24 * day, to |-> 24 * (day + 1), before |-> 24 * (day - 1)]
        BY DEF PeriodRanges
    <2>2. DayOf(24 * day - 1, Server) = day - 1
        <3> HIDE DEF day
        <3> QED BY <1>1, <1>2
    <2>3. PeriodRanges("today", 24 * day - 1)
            = [from |-> 24 * (day - 1), to |-> 24 * (day - 1 + 1), before |-> 24 * (day - 1 - 1)]
        BY <2>2 DEF PeriodRanges
    <2> HIDE DEF day
    <2> QED BY <1>1, <1>3, <2>1, <2>3
<1>4. CASE period = "week"
    <2> DEFINE m == Monday(day)
    <2>1. PeriodRanges("week", now) = [from |-> 24 * m, to |-> 24 * (m + 7), before |-> 24 * (m - 7)]
        BY DEF PeriodRanges
    <2>2. m \in Int /\ m <= day /\ day < m + 7 /\ Monday(m - 1) = m - 7
        <3>1. m \in Int /\ m <= day /\ day < m + 7
            BY <1>1 DEF Monday
        <3>2. PICK q \in Int : m + 3 = 7 * q
            <4>1. m + 3 = 7 * ((day + 3) \div 7)
                BY <1>1 DEF Monday
            <4> QED BY SMTT(30), <1>1, <4>1
        <3>3. (m - 1 + 3) % 7 = 6
            BY <3>1, <3>2
        <3> QED BY <3>1, <3>3 DEF Monday
    <2> HIDE DEF m
    <2>3. DayOf(24 * m - 1, Server) = m - 1
        BY <1>2, <2>2
    <2>4. PeriodRanges("week", 24 * m - 1)
            = [from |-> 24 * (m - 7), to |-> 24 * (m - 7 + 7), before |-> 24 * (m - 7 - 7)]
        BY <2>2, <2>3 DEF PeriodRanges
    <2> HIDE DEF day
    <2> QED BY <1>1, <1>4, <2>1, <2>2, <2>4
<1>5. CASE period = "month"
    <2> DEFINE m == Month(day)
               b == PreviousMonth(m)
    <2>1. PeriodRanges("month", now) = [from |-> 24 * m, to |-> 24 * NextMonth(m), before |-> 24 * b]
        BY DEF PeriodRanges
    <2> HIDE DEF day
    <2>2. /\ m \in MonthStarts /\ m <= day /\ \A s \in MonthStarts : s <= day => s <= m
        BY <1>1, MonthIs
    <2>3. m \in {31, 59, 90}
        BY <1>1, <2>2 DEF MonthStarts
    <2> HIDE DEF m
    <2>4. /\ NextMonth(m) \in MonthStarts /\ m < NextMonth(m)
          /\ \A s \in MonthStarts : s > m => s >= NextMonth(m)
        BY <2>3, MonthIs
    <2>5. Month(m) = m
        <3>1. /\ Month(m) \in MonthStarts /\ Month(m) <= m
              /\ \A s \in MonthStarts : s <= m => s <= Month(m)
            BY <2>3, MonthIs
        <3> QED BY <2>2, <2>3, <3>1 DEF MonthStarts
    <2>6. b = Month(m - 1)
        <3>1. {s \in MonthStarts : s < m} = {s \in MonthStarts : s <= m - 1}
            BY <2>3 DEF MonthStarts
        <3> QED BY <2>5, <3>1 DEF PreviousMonth, Month
    <2>7. m - 1 \in 0 .. 119
        BY <2>3
    <2>8. /\ b \in MonthStarts /\ b <= m - 1 /\ \A s \in MonthStarts : s <= m - 1 => s <= b
        BY <2>6, <2>7, MonthIs
    <2> HIDE DEF b
    <2>9. NextMonth(b) = m
        <3>1. b \in 0 .. 119
            BY <2>7, <2>8 DEF MonthStarts
        <3>2. /\ NextMonth(b) \in MonthStarts /\ b < NextMonth(b)
              /\ \A s \in MonthStarts : s > b => s >= NextMonth(b)
            BY <3>1, MonthIs
        <3> QED BY <2>2, <2>3, <2>8, <3>2 DEF MonthStarts
    <2>10. DayOf(24 * m - 1, Server) = m - 1
        BY <1>2, <2>3
    <2>11. PeriodRanges("month", 24 * m - 1)
            = [from |-> 24 * b, to |-> 24 * NextMonth(b), before |-> 24 * PreviousMonth(b)]
        BY <2>6, <2>10 DEF PeriodRanges
    <2>12. b \in Int /\ m \in Int /\ NextMonth(m) \in Int /\ b < m /\ m <= day /\ day < NextMonth(m)
        BY <1>1, <2>2, <2>3, <2>4, <2>8 DEF MonthStarts
    <2> QED BY <1>1, <1>5, <2>1, <2>9, <2>11, <2>12
<1> QED BY <1>3, <1>4, <1>5

-----------------------------------------------------------------------------
(* The folds of the figures are sums.                                       *)
LEMMA OwnSum ==
    ASSUME NEW S, IsFiniteSet(S), NEW f, \A s \in S : f[s] = s.own
    PROVE  MapThenSumSet(Own, S) = SumOf(f, S)
<1> DEFINE Meets(g) == g = [t \in SUBSET S |->
                              IF t = {} THEN 0 ELSE First(t).own + g[t \ {First(t)}]]
           fold == CHOOSE g : Meets(g)
<1>1. MapThenSumSet(Own, S) = fold[S]
    BY DEF Own, MapThenSumSet, MapThenFoldSet, First
<1>2. \A g : Meets(g) <=> IsAdder(g, f, S)
    BY FirstIn DEF IsAdder, Added
<1>3. \E g : Meets(g)
    BY <1>2, AdderExists
<1> HIDE DEF Meets
<1>4. IsAdder(fold, f, S)
    BY <1>2, <1>3
<1>5. IsAdder(Adder(f, S), f, S)
    BY <1>4, AdderExists, PartAgrees
<1> HIDE DEF fold
<1>6. fold = Adder(f, S)
    BY <1>4, <1>5, AdderUnique
<1> QED BY <1>1, <1>6, SumOfIsAdder

LEMMA MitraSum ==
    ASSUME NEW S, IsFiniteSet(S), NEW f, \A s \in S : f[s] = s.mitra
    PROVE  MapThenSumSet(Mitra, S) = SumOf(f, S)
<1> DEFINE Meets(g) == g = [t \in SUBSET S |->
                              IF t = {} THEN 0 ELSE First(t).mitra + g[t \ {First(t)}]]
           fold == CHOOSE g : Meets(g)
<1>1. MapThenSumSet(Mitra, S) = fold[S]
    BY DEF Mitra, MapThenSumSet, MapThenFoldSet, First
<1>2. \A g : Meets(g) <=> IsAdder(g, f, S)
    BY FirstIn DEF IsAdder, Added
<1>3. \E g : Meets(g)
    BY <1>2, AdderExists
<1> HIDE DEF Meets
<1>4. IsAdder(fold, f, S)
    BY <1>2, <1>3
<1>5. IsAdder(Adder(f, S), f, S)
    BY <1>4, AdderExists, PartAgrees
<1> HIDE DEF fold
<1>6. fold = Adder(f, S)
    BY <1>4, <1>5, AdderUnique
<1> QED BY <1>1, <1>6, SumOfIsAdder

(* The fees of parts, each rounded, stay within half a rupiah each of five    *)
(* per cent of their sum.                                                   *)
LEMMA FeeRounds ==
    ASSUME NEW x \in Int
    PROVE  /\ SplitFee(x) \in Int
           /\ 5 * x - 49 <= 100 * SplitFee(x) /\ 100 * SplitFee(x) <= 5 * x + 50
BY DEF SplitFee

LEMMA FeesRound ==
    ASSUME NEW S, IsFiniteSet(S), NEW f, \A s \in S : f[s] \in Int,
           NEW fee, \A s \in S : fee[s] = SplitFee(f[s])
    PROVE  /\ SumOf(fee, S) \in Int /\ SumOf(f, S) \in Int
           /\ 5 * SumOf(f, S) - 49 * Cardinality(S) <= 100 * SumOf(fee, S)
           /\ 100 * SumOf(fee, S) <= 5 * SumOf(f, S) + 50 * Cardinality(S)
<1> DEFINE Rounded(t) == /\ 5 * SumOf(f, t) - 49 * Cardinality(t) <= 100 * SumOf(fee, t)
                        /\ 100 * SumOf(fee, t) <= 5 * SumOf(f, t) + 50 * Cardinality(t)
           Good == {t \in SUBSET S : Rounded(t)}
<1>1. \A s \in S : fee[s] \in Int
    BY FeeRounds
<1>2. ASSUME NEW t \in SUBSET S, \A u \in SUBSET t : u # t => u \in Good
      PROVE  Rounded(t)
    <2>1. CASE t = {}
        BY <2>1, SumEmpty, FS_EmptySet
    <2>2. CASE t # {}
        <3> DEFINE z == First(t)
                   u == t \ {z}
        <3>1. z \in t
            BY <2>2, FirstIn
        <3>2. Rounded(u) /\ IsFiniteSet(u) /\ z \notin u /\ u \cup {z} = t /\ t \subseteq S
            BY <1>2, <3>1, FS_Subset
        <3>3. f[z] \in Int /\ fee[z] = SplitFee(f[z])
            BY <3>1
        <3> HIDE DEF z, u
        <3>4. SumOf(f, t) = SumOf(f, u) + f[z] /\ SumOf(f, u) \in Int
            <4>1. \A s \in u \cup {z} : f[s] \in Int
                BY <3>2
            <4> QED BY <3>2, <4>1, SumAdd, SumInt
        <3>5. SumOf(fee, t) = SumOf(fee, u) + fee[z] /\ SumOf(fee, u) \in Int
            <4>1. \A s \in u \cup {z} : fee[s] \in Int
                BY <1>1, <3>2
            <4> QED BY <3>2, <4>1, SumAdd, SumInt
        <3>6. Cardinality(t) = Cardinality(u) + 1 /\ Cardinality(u) \in Nat
            BY <3>2, FS_AddElement, FS_CardinalityType
        <3>7. /\ fee[z] \in Int
              /\ 5 * f[z] - 49 <= 100 * fee[z] /\ 100 * fee[z] <= 5 * f[z] + 50
            BY <3>3, FeeRounds
        <3>8. Rounded(u)
            BY <3>2
        <3> QED BY ONLY <3>3, <3>4, <3>5, <3>6, <3>7, <3>8
    <2> QED BY <2>1, <2>2
<1>3. SUBSET S \subseteq Good
    <2> HIDE DEF Rounded
    <2>1. \A t \in SUBSET S : (\A u \in SUBSET t : u # t => u \in Good) => t \in Good
        BY <1>2
    <2> HIDE DEF Good
    <2> QED BY <2>1, SubsetInduction
<1>4. SumOf(fee, S) \in Int /\ SumOf(f, S) \in Int
    BY <1>1, SumInt
<1>5. Rounded(S)
    <2> HIDE DEF Rounded
    <2> QED BY <1>3
<1> QED BY <1>4, <1>5

(* Of the orders and the products, what the handlers that write them keep;    *)
(* of an answer, what was asked for.                                        *)
FigureRows ==
    /\ IsFiniteSet(sales) /\ IsFiniteSet(goods)
    /\ \A s \in sales : s.made \in Nat /\ s.brought \in Int /\ s.own \in Nat /\ s.mitra \in Nat
    /\ \A g \in goods : g.stock \in Int /\ g.min \in Nat /\ g.active \in BOOLEAN

FigureAnswer ==
    LET now == figure.at
        a == figure.answer
    IN  \/ figure.of = "dashboard" /\ a = Dashboard(now)
        \/ figure.of = "seller" /\ a = [dashboard |-> PartnerDashboard(now), week |-> Statistics(now)]
        \/ /\ figure.of = "finance"
           /\ \E period \in {"today", "week", "month"} : a = Finance(period, now)
        \/ figure.of = "income" /\ \E p, l \in 1 .. 2 : a = MitraIncome(now, p, l)
        \/ figure.of = "courier" /\ a = CourierSummary(now)
        \/ /\ figure.of = "stock"
           /\ a = [counts |-> ProductCounts, staff |-> StaffSummary, console |-> Dashboard(now).lowStock]

FigureAsked ==
    /\ figure.at \in Moments
    /\ \A s \in sales : s.made <= figure.at /\ (s.brought # NotBrought => s.brought <= figure.at)
    /\ FigureAnswer

FiguresInv == FigureRows /\ (figure # NoFigure => FigureAsked)

LEMMA VillageDayHolds ==
    ASSUME FigureRows, FigureAsked, figure.of \in {"dashboard", "courier"}
    PROVE  VillageDay(figure.at, figure.answer)
<1> DEFINE now == figure.at
           sameDay(at) == DayOf(at, Village) = DayOf(now, Village)
           sameMonth(at) == Month(DayOf(at, Village)) = Month(DayOf(now, Village))
<1>1. now \in 0 .. 24 * 120 - 1 /\ now \in Int
    <2>1. now \in 24 * 31 .. 24 * 120 - 1
        BY MomentsAssumption DEF FigureAsked
    <2> HIDE DEF now
    <2> QED BY <2>1
<1>2. ASSUME NEW s \in sales
      PROVE  /\ (s.made >= MidnightOf(now, Village)) <=> sameDay(s.made)
             /\ (s.made >= MonthStartOf(now, Village)) <=> sameMonth(s.made)
             /\ s.brought # NotBrought
                  => ((s.brought >= MidnightOf(now, Village)) <=> sameDay(s.brought))
    <2>1. /\ s.made \in Nat /\ s.made \in Int /\ s.brought \in Int /\ s.made <= now
          /\ s.brought # NotBrought => s.brought <= now
        BY DEF FigureRows, FigureAsked
    <2> HIDE DEF now
    <2>2. (s.made >= MidnightOf(now, Village)) <=> sameDay(s.made)
        BY <1>1, <2>1, SameDay
    <2>3. (s.made >= MonthStartOf(now, Village)) <=> sameMonth(s.made)
        BY <1>1, <2>1, SameMonth
    <2>4. s.brought # NotBrought
            => ((s.brought >= MidnightOf(now, Village)) <=> sameDay(s.brought))
        BY <1>1, <2>1, SameDay
    <2> QED BY <2>2, <2>3, <2>4
<1> HIDE DEF sameDay, sameMonth
<1>3. /\ Since(OwnSales, MidnightOf(now, Village)) = {s \in OwnSales : sameDay(s.made)}
      /\ Since(OwnSales, MonthStartOf(now, Village)) = {s \in OwnSales : sameMonth(s.made)}
    BY <1>2 DEF Since, OwnSales
<1>4. {s \in sales : s.brought # NotBrought /\ s.brought >= MidnightOf(now, Village)}
        = {s \in sales : s.brought # NotBrought /\ sameDay(s.brought)}
    BY <1>2
<1>5. figure.of = "dashboard" =>
        /\ figure.answer.today = Sum({s \in OwnSales : sameDay(s.made)}, Own)
        /\ figure.answer.month = Sum({s \in OwnSales : sameMonth(s.made)}, Own)
    <2> SUFFICES ASSUME figure.of = "dashboard"
                 PROVE  /\ figure.answer.today = Sum({s \in OwnSales : sameDay(s.made)}, Own)
                        /\ figure.answer.month = Sum({s \in OwnSales : sameMonth(s.made)}, Own)
        OBVIOUS
    <2>1. figure.answer = Dashboard(now)
        BY DEF FigureAsked, FigureAnswer
    <2> QED BY <1>3, <2>1 DEF Dashboard, Sum
<1>6. figure.of = "courier" =>
        figure.answer.today = Cardinality({s \in sales : s.brought # NotBrought /\ sameDay(s.brought)})
    <2> SUFFICES ASSUME figure.of = "courier"
                 PROVE  figure.answer.today
                          = Cardinality({s \in sales : s.brought # NotBrought /\ sameDay(s.brought)})
        OBVIOUS
    <2>1. figure.answer = CourierSummary(now)
        BY DEF FigureAsked, FigureAnswer
    <2> QED BY <1>4, <2>1 DEF CourierSummary
<1> QED BY <1>5, <1>6 DEF VillageDay, sameDay, sameMonth

LEMMA PeriodsHold ==
    ASSUME FigureRows, FigureAsked, figure.of = "finance"
    PROVE  PeriodsMeet(figure.at, figure.answer)
<1> DEFINE now == figure.at
           a == figure.answer
           counted(from, to) == {s \in {s \in Between(sales, from, to) : s.own > 0} :
                                   s.status \in RevenueStatuses}
           meant == {s \in sales : s.own > 0 /\ s.status \in RevenueStatuses}
<1>1. now \in 24 * 31 .. 24 * 120 - 1
    BY MomentsAssumption DEF FigureAsked
<1>2. PICK period \in {"today", "week", "month"} : a = Finance(period, now)
    BY DEF FigureAsked, FigureAnswer
<1> DEFINE range == PeriodRanges(period, now)
           last == PeriodRanges(period, range.from - 1)
<1>3. /\ a.period = period
      /\ a.current = FinanceSlice(range.from, range.to)
      /\ a.previous = FinanceSlice(range.before, range.from)
    BY <1>2 DEF Finance
<1>4. /\ range.from \in Int /\ range.to \in Int /\ range.before \in Int
      /\ range.from <= now /\ now < range.to /\ range.before < range.from
      /\ last.to = range.from /\ last.from = range.before
    BY <1>1, PeriodsAdjoin
<1>5. \A from, to : FinanceSlice(from, to).gross.orders = Cardinality(counted(from, to))
    BY DEF FinanceSlice, Sum
<1> HIDE DEF now, a, range, last
<1>6. /\ IsFiniteSet(counted(range.from, range.to)) /\ IsFiniteSet(counted(range.before, range.from))
      /\ counted(range.from, range.to) \cap counted(range.before, range.from) = {}
      /\ counted(range.from, range.to) \cup counted(range.before, range.from)
           = Between(meant, range.before, range.to)
    <2>1. counted(range.from, range.to) \in SUBSET sales
            /\ counted(range.before, range.from) \in SUBSET sales
        BY DEF Between
    <2>2. \A s \in sales : s.made \in Int
        BY DEF FigureRows
    <2>3. IsFiniteSet(counted(range.from, range.to)) /\ IsFiniteSet(counted(range.before, range.from))
        <3> HIDE DEF counted
        <3> QED BY <2>1, FS_Subset DEF FigureRows
    <2>4. \A s, from, to : s \in counted(from, to)
            <=> s \in sales /\ from <= s.made /\ s.made < to /\ s.own > 0 /\ s.status \in RevenueStatuses
        BY DEF Between
    <2>5. \A s, from, to : s \in Between(meant, from, to)
            <=> s \in sales /\ from <= s.made /\ s.made < to /\ s.own > 0 /\ s.status \in RevenueStatuses
        BY DEF Between
    <2> HIDE DEF counted, meant
    <2>6. ASSUME NEW s \in sales
          PROVE  /\ ~(range.from <= s.made /\ s.made < range.from)
                 /\ (range.from <= s.made /\ s.made < range.to)
                       \/ (range.before <= s.made /\ s.made < range.from)
                    <=> range.before <= s.made /\ s.made < range.to
        <3>1. range.from <= range.to
            BY <1>1, <1>4
        <3> QED BY <1>4, <2>2, <3>1
    <2>7. counted(range.from, range.to) \cap counted(range.before, range.from) = {}
        BY <2>4, <2>6
    <2>8. counted(range.from, range.to) \cup counted(range.before, range.from)
            = Between(meant, range.before, range.to)
        BY <2>4, <2>5, <2>6
    <2> QED BY <2>3, <2>7, <2>8
<1>7. a.current.gross.orders + a.previous.gross.orders
        = Cardinality(Between(meant, range.before, range.to))
    <2>1. a.current.gross.orders = Cardinality(counted(range.from, range.to))
            /\ a.previous.gross.orders = Cardinality(counted(range.before, range.from))
        BY <1>3, <1>5
    <2> HIDE DEF counted, meant
    <2> QED BY <1>6, <2>1, CardUnion
<1>8. range = PeriodRanges(a.period, now) /\ last = PeriodRanges(a.period, range.from - 1)
    BY <1>3 DEF range, last
<1> QED BY <1>4, <1>7, <1>8 DEF PeriodsMeet, now, a

LEMMA WeekHolds ==
    ASSUME FigureRows, FigureAsked, figure.of = "seller"
    PROVE  WeekAddsUp(figure.at, figure.answer)
<1> DEFINE now == figure.at
           a == figure.answer
           m == MidnightOf(now, Server)
           day(i) == m - 24 * (7 - i)
           piece == [i \in 1 .. 7 |-> Between(MitraSales, day(i), day(i) + 24)]
           worth == [s \in sales |-> s.mitra]
           sold == Since(MitraSales, m - 6 * 24)
<1>1. now \in 24 * 31 .. 24 * 120 - 1
    BY MomentsAssumption DEF FigureAsked
<1>2. m \in Int /\ now < m + 24 /\ now \in Int
    <2> HIDE DEF now
    <2>1. now \in Int
        BY <1>1
    <2> QED BY <2>1, SameDay
<1>3. a = [dashboard |-> PartnerDashboard(now), week |-> Statistics(now)]
    BY DEF FigureAsked, FigureAnswer
<1>4. \A i \in 1 .. 7 : a.week[i] = MapThenSumSet(Mitra, piece[i])
    BY <1>3 DEF Statistics, Sum
<1>5. a.dashboard.today.amount = MapThenSumSet(Mitra, Since(MitraSales, m))
    BY <1>3 DEF PartnerDashboard, Sum
<1>6. \A s \in sales : s.made \in Int /\ s.made < m + 24 /\ s.mitra \in Int
    <2>1. \A s \in sales : s.made \in Int /\ s.made <= now /\ s.mitra \in Int
        BY DEF FigureRows, FigureAsked
    <2> HIDE DEF now, m
    <2> QED BY <1>2, <2>1
<1> HIDE DEF now, a, m
<1>7. MitraSales \subseteq sales
    BY DEF MitraSales
<1>8. \A i \in 1 .. 7 : \A s : s \in piece[i]
        <=> s \in MitraSales /\ m - 24 * (7 - i) <= s.made /\ s.made < m - 24 * (7 - i) + 24
    BY DEF Between
<1>9. \A s : s \in sold <=> s \in MitraSales /\ s.made >= m - 144
    BY <1>2 DEF Since
<1>10. piece[7] = Since(MitraSales, m)
    <2>1. m - 24 * (7 - 7) = m
        BY <1>2
    <2> QED BY <1>6, <1>7, <2>1 DEF Since, Between
<1> HIDE DEF piece, sold
<1>11. IsFiniteSet(sold) /\ \A i \in 1 .. 7 : IsFiniteSet(piece[i]) /\ piece[i] \subseteq sales
    <2>1. sold \in SUBSET sales /\ \A i \in 1 .. 7 : piece[i] \in SUBSET sales
        BY <1>7, <1>8, <1>9
    <2> QED BY <2>1, FS_Subset DEF FigureRows
<1>12. \A i, j \in 1 .. 7 : i # j => piece[i] \cap piece[j] = {}
    <2> SUFFICES ASSUME NEW i \in 1 .. 7, NEW j \in 1 .. 7, NEW s, s \in piece[i], s \in piece[j]
                 PROVE  i = j
        OBVIOUS
    <2>1. /\ m - 24 * (7 - i) <= s.made /\ s.made < m - 24 * (7 - i) + 24
          /\ m - 24 * (7 - j) <= s.made /\ s.made < m - 24 * (7 - j) + 24
        BY <1>8
    <2>2. s.made \in Int
        BY <1>6, <1>7, <1>8
    <2> QED BY <1>2, <2>1, <2>2
<1>13. UNION {piece[i] : i \in 1 .. 7} = sold
    <2>1. ASSUME NEW i \in 1 .. 7, NEW s \in piece[i]
          PROVE  s \in sold
        <3>1. s \in MitraSales /\ m - 24 * (7 - i) <= s.made /\ s.made \in Int
            BY <1>6, <1>7, <1>8
        <3> QED BY <1>2, <1>9, <3>1
    <2>2. ASSUME NEW s \in sold
          PROVE  \E i \in 1 .. 7 : s \in piece[i]
        <3>1. s \in MitraSales /\ s.made >= m - 144 /\ s.made \in Int /\ s.made < m + 24
            BY <1>6, <1>7, <1>9
        <3>2. \E i \in 1 .. 7 : m - 24 * (7 - i) <= s.made /\ s.made < m - 24 * (7 - i) + 24
            <4> DEFINE i == (s.made - m) \div 24 + 7
            <4>1. i \in 1 .. 7
                BY <1>2, <3>1
            <4>2. m - 24 * (7 - i) <= s.made /\ s.made < m - 24 * (7 - i) + 24
                BY <1>2, <3>1
            <4> HIDE DEF i
            <4> QED BY <4>1, <4>2
        <3> QED BY <1>8, <3>1, <3>2
    <2> QED BY <2>1, <2>2
<1>14. \A S \in SUBSET sales : IsFiniteSet(S) => MapThenSumSet(Mitra, S) = SumOf(worth, S)
    <2> SUFFICES ASSUME NEW S \in SUBSET sales, IsFiniteSet(S)
                 PROVE  MapThenSumSet(Mitra, S) = SumOf(worth, S)
        OBVIOUS
    <2>1. \A s \in S : worth[s] = s.mitra
        OBVIOUS
    <2> HIDE DEF worth
    <2> QED BY <2>1, MitraSum
<1>15. \A i \in 1 .. 7 : a.week[i] = SumOf(worth, piece[i])
    BY <1>4, <1>11, <1>14
<1>16. SumOf(a.week, 1 .. 7) = SumOf(worth, sold)
    <2>1. \A i \in 1 .. 7 : \A s \in piece[i] : worth[s] \in Int
        BY <1>6, <1>11
    <2>2. IsFiniteSet(1 .. 7)
        <3>1. 1 \in Int /\ 7 \in Int
            OBVIOUS
        <3> QED BY ONLY <3>1, FS_Interval
    <2> DEFINE I == 1 .. 7
    <2> HIDE DEF I, worth
    <2>3. SumOf(a.week, I) = SumOf(worth, UNION {piece[i] : i \in I})
        BY <1>11, <1>12, <1>15, <2>1, <2>2, SumOfPieces DEF I
    <2> QED BY <1>13, <2>3 DEF I
<1>17. MapThenSumSet(LAMBDA n : a.week[n], 1 .. 7) = Sum(sold, Mitra).amount
    <2>1. SumOf(a.week, 1 .. 7) = MapThenSumSet(LAMBDA n : a.week[n], 1 .. 7)
        BY DEF SumOf
    <2>2. Sum(sold, Mitra).amount = MapThenSumSet(Mitra, sold)
        BY DEF Sum
    <2>3. MapThenSumSet(Mitra, sold) = SumOf(worth, sold)
        <3>1. sold \in SUBSET sales
            BY <1>7, <1>9
        <3> QED BY <1>11, <1>14, <3>1
    <2> QED BY <1>16, <2>1, <2>2, <2>3
<1>18. a.week[7] = a.dashboard.today.amount
    BY <1>4, <1>5, <1>10
<1> QED BY <1>17, <1>18 DEF WeekAddsUp, now, a, m, sold

LEMMA FeesHold ==
    ASSUME FigureRows, FigureAsked, figure.of = "income"
    PROVE  FeesAddUp(figure.answer)
<1> DEFINE now == figure.at
           a == figure.answer
           worth == [s \in sales |-> s.mitra]
           n == Cardinality(IncomeRows)
<1>1. PICK shown \in SUBSET IncomeRows :
         /\ a.fees = [s \in shown |-> SplitFee(s.mitra)] /\ a.total = n
         /\ a.feeAllTime = SplitFee(MapThenSumSet(Mitra, IncomeRows))
    <2>1. PICK p \in 1 .. 2, l \in 1 .. 2 : a = MitraIncome(now, p, l)
        BY DEF FigureAsked, FigureAnswer
    <2> DEFINE newer(s) == {r \in IncomeRows :
                              r.made > s.made \/ (r.made = s.made /\ r.id > s.id)}
               shown == {s \in IncomeRows : Cardinality(newer(s)) \div l = p - 1}
    <2>2. /\ a.fees = [s \in shown |-> SplitFee(s.mitra)] /\ a.total = n
          /\ a.feeAllTime = SplitFee(MapThenSumSet(Mitra, IncomeRows))
        BY <2>1 DEF MitraIncome, Sum
    <2>3. shown \in SUBSET IncomeRows
        OBVIOUS
    <2> HIDE DEF shown, a, n
    <2> QED BY <2>2, <2>3
<1> HIDE DEF now, a
<1>2. IncomeRows \in SUBSET sales /\ IsFiniteSet(IncomeRows) /\ n \in Nat
    BY FS_Subset, FS_CardinalityType DEF IncomeRows, FigureRows
<1>3. SUFFICES ASSUME Cardinality(DOMAIN a.fees) = a.total
      PROVE  LET off == 2 * (MapThenSumSet(LAMBDA s : a.fees[s], DOMAIN a.fees) - a.feeAllTime)
             IN  -n <= off /\ off <= n
    BY <1>1 DEF FeesAddUp, a
<1>4. DOMAIN a.fees = IncomeRows
    <2>1. DOMAIN a.fees \in SUBSET IncomeRows
        BY <1>1
    <2> QED BY <1>1, <1>2, <1>3, <2>1, FS_Subset
<1>5. \A s \in IncomeRows : worth[s] \in Int /\ worth[s] = s.mitra /\ a.fees[s] = SplitFee(worth[s])
    BY <1>1, <1>2, <1>4 DEF FigureRows
<1> HIDE DEF worth, n
<1> DEFINE fees == SumOf(a.fees, IncomeRows)
           income == SumOf(worth, IncomeRows)
<1>6. MapThenSumSet(LAMBDA s : a.fees[s], DOMAIN a.fees) = fees
    BY <1>4 DEF SumOf
<1>7. MapThenSumSet(Mitra, IncomeRows) = income
    BY <1>2, <1>5, MitraSum
<1>8. /\ fees \in Int /\ income \in Int
      /\ 5 * income - 49 * n <= 100 * fees /\ 100 * fees <= 5 * income + 50 * n
    BY <1>2, <1>5, FeesRound DEF n
<1> HIDE DEF fees, income
<1>9. /\ SplitFee(income) \in Int
      /\ 5 * income - 49 <= 100 * SplitFee(income) /\ 100 * SplitFee(income) <= 5 * income + 50
    BY <1>8, FeeRounds
<1>10. a.feeAllTime = SplitFee(income)
    BY <1>1, <1>7
<1>11. -n <= 2 * (fees - SplitFee(income)) /\ 2 * (fees - SplitFee(income)) <= n
    BY <1>2, <1>8, <1>9
<1> QED BY <1>6, <1>10, <1>11

(* Rows of a finite set are the kept ones and the removed ones.             *)
LEMMA KeptAndRemoved ==
    ASSUME NEW rows, IsFiniteSet(rows)
    PROVE  /\ Cardinality(rows) - Cardinality({g \in rows : g.active})
                = Cardinality({g \in rows : ~g.active})
           /\ Cardinality(rows) \in Nat
<1> DEFINE offered == {g \in rows : g.active}
           gone == {g \in rows : ~g.active}
<1>1. offered \in SUBSET rows /\ gone \in SUBSET rows
    OBVIOUS
<1>2. rows = offered \cup gone /\ offered \cap gone = {}
    BY Zenon
<1> HIDE DEF offered, gone
<1>3. IsFiniteSet(offered) /\ IsFiniteSet(gone)
    BY <1>1, FS_Subset
<1>4. Cardinality(rows) = Cardinality(offered) + Cardinality(gone)
    BY <1>2, <1>3, CardUnion
<1>5. /\ Cardinality(offered) \in Nat /\ Cardinality(gone) \in Nat
      /\ Cardinality(rows) \in Nat
    BY <1>3, FS_CardinalityType
<1>6. Cardinality(rows) - Cardinality(offered) = Cardinality(gone)
    BY <1>4, <1>5
<1> QED BY <1>5, <1>6 DEF offered, gone

LEMMA ListsHold ==
    ASSUME FigureRows, FigureAsked, figure.of = "stock"
    PROVE  ListsPartition(figure.answer)
<1> DEFINE a == figure.answer
           safe == StockRange("safe")
           low == StockRange("low")
           out == StockRange("out")
<1>1. a = [counts |-> ProductCounts, staff |-> StaffSummary, console |-> Dashboard(figure.at).lowStock]
    BY DEF FigureAsked, FigureAnswer
<1>2. /\ a.counts["safe"] = Cardinality(safe) /\ a.counts["low"] = Cardinality(low)
      /\ a.counts["out"] = Cardinality(out)
    BY <1>1 DEF ProductCounts
<1>3. /\ safe = {g \in goods : g.stock > 0 /\ g.stock > g.min}
      /\ low = {g \in goods : g.stock > 0 /\ g.stock <= g.min}
      /\ out = {g \in goods : g.stock <= 0}
    BY DEF StockRange
<1>4. \A g \in goods : g.stock \in Int /\ g.min \in Nat /\ g.active \in BOOLEAN
    BY DEF FigureRows
<1> HIDE DEF safe, low, out
<1>5. a.staff.lowStock = Cardinality({g \in low : g.active})
    <2>1. a.staff.lowStock = Cardinality({g \in goods : g.active /\ g.stock > 0 /\ g.stock <= g.min})
        BY <1>1 DEF StaffSummary
    <2>2. {g \in goods : g.active /\ g.stock > 0 /\ g.stock <= g.min} = {g \in low : g.active}
        BY <1>3
    <2> QED BY <2>1, <2>2
<1>6. a.console = Cardinality({g \in low \cup out : g.active})
    <2>1. a.console = Cardinality({g \in goods : g.active /\ g.stock <= g.min})
        BY <1>1 DEF Dashboard
    <2>2. {g \in goods : g.active /\ g.stock <= g.min} = {g \in low \cup out : g.active}
        BY <1>3, <1>4
    <2> QED BY <2>1, <2>2
<1>7. low \cap out = {} /\ safe \cap (low \cup out) = {} /\ goods = safe \cup (low \cup out)
    BY <1>3, <1>4
<1>8. IsFiniteSet(safe) /\ IsFiniteSet(low) /\ IsFiniteSet(out) /\ IsFiniteSet(low \cup out)
    <2>1. /\ safe \in SUBSET goods /\ low \in SUBSET goods /\ out \in SUBSET goods
          /\ low \cup out \in SUBSET goods
        BY <1>7
    <2> QED BY <2>1, FS_Subset DEF FigureRows
<1> HIDE DEF a
<1>9. Cardinality(low \cup out) = Cardinality(low) + Cardinality(out)
    BY <1>7, <1>8, CardUnion
<1>10. Cardinality(goods) = Cardinality(safe) + Cardinality(low \cup out)
    BY <1>7, <1>8, CardUnion
<1>11. Cardinality(safe) \in Nat /\ Cardinality(low) \in Nat /\ Cardinality(out) \in Nat
    BY <1>8, FS_CardinalityType
<1>12. a.counts["safe"] + a.counts["low"] + a.counts["out"] = Cardinality(goods)
    BY <1>2, <1>9, <1>10, <1>11
<1>13. (a.counts["low"] + a.counts["out"]) - a.console = Cardinality({g \in low \cup out : ~g.active})
    <2> DEFINE all == low \cup out
               offered == {g \in all : g.active}
               gone == {g \in all : ~g.active}
    <2>1. Cardinality(all) - Cardinality(offered) = Cardinality(gone)
        BY Zenon, <1>8, KeptAndRemoved
    <2>2. a.counts["low"] + a.counts["out"] = Cardinality(all) /\ a.console = Cardinality(offered)
        BY <1>2, <1>6, <1>9
    <2> HIDE DEF all, offered, gone
    <2>3. (a.counts["low"] + a.counts["out"]) - a.console = Cardinality(gone)
        BY <2>1, <2>2
    <2> QED BY Zenon, <2>3 DEF gone, all
<1>14. a.counts["low"] - a.staff.lowStock = Cardinality({g \in low : ~g.active})
    <2> DEFINE offered == {g \in low : g.active}
               gone == {g \in low : ~g.active}
    <2>1. Cardinality(low) - Cardinality(offered) = Cardinality(gone)
        BY Zenon, <1>8, KeptAndRemoved
    <2>2. a.counts["low"] = Cardinality(low) /\ a.staff.lowStock = Cardinality(offered)
        BY <1>2, <1>5
    <2> HIDE DEF offered, gone
    <2>3. a.counts["low"] - a.staff.lowStock = Cardinality(gone)
        BY <2>1, <2>2
    <2> QED BY Zenon, <2>3 DEF gone
<1> QED BY <1>12, <1>13, <1>14 DEF ListsPartition, a, low, out

LEMMA FiguresHold ==
    FiguresInv => FiguresAddUp
<1>1. figure = NoFigure => FiguresAddUp
    BY DEF FiguresAddUp, NoFigure, None
<1>2. ASSUME FigureRows, FigureAsked
      PROVE  FiguresAddUp
    BY <1>2, VillageDayHolds, PeriodsHold, WeekHolds, FeesHold, ListsHold DEF FiguresAddUp
<1> QED BY <1>1, <1>2 DEF FiguresInv

(* Rows are written once, and only then is anything asked.                   *)
LEMMA NumbersFinite ==
    ASSUME NEW Numbers, IsFiniteSet(Numbers), NEW row
    PROVE  IsFiniteSet({row[i] : i \in Numbers})
<1> DEFINE image == {row[i] : i \in Numbers}
           f == [i \in Numbers |-> row[i]]
<1>1. f \in Surjection(Numbers, image)
    BY Zenon DEF Surjection
<1> QED BY <1>1, FS_Surjection

LEMMA RowsTraded ==
    ASSUME FigureRows, Traded
    PROVE  FigureRows'
<1>1. ASSUME NEW sold \in [OrderIds -> Sales], goods' = goods,
             sales' = {[sold[i] EXCEPT !.id = i] : i \in OrderIds}
      PROVE  FigureRows'
    <2> DEFINE row == [i \in OrderIds |-> [sold[i] EXCEPT !.id = i]]
    <2>1. \A i \in OrderIds : /\ row[i].made \in Nat /\ row[i].brought \in Int
                              /\ row[i].own \in Nat /\ row[i].mitra \in Nat
        <3> SUFFICES ASSUME NEW i \in OrderIds
                     PROVE  /\ row[i].made \in Nat /\ row[i].brought \in Int
                            /\ row[i].own \in Nat /\ row[i].mitra \in Nat
            OBVIOUS
        <3>1. sold[i] \in [id : {0}, made : Nat, brought : Nat \cup {NotBrought}, own : Nat,
                           mitra : Nat, status : STRING, cod : BOOLEAN, refunded : BOOLEAN]
            BY SalesAssumption
        <3> QED BY <3>1 DEF NotBrought
    <2>2. sales' = {row[i] : i \in OrderIds}
        BY <1>1
    <2> HIDE DEF row
    <2>3. IsFiniteSet(sales')
        BY <2>2, NumbersFinite, IdsAssumption
    <2> QED BY <1>1, <2>1, <2>2, <2>3 DEF FigureRows
<1>2. ASSUME NEW stocked \in [GoodIds -> Goods], sales' = sales,
             goods' = {[stocked[i] EXCEPT !.id = i] : i \in GoodIds}
      PROVE  FigureRows'
    <2> DEFINE row == [i \in GoodIds |-> [stocked[i] EXCEPT !.id = i]]
    <2>1. \A i \in GoodIds :
            row[i].stock \in Int /\ row[i].min \in Nat /\ row[i].active \in BOOLEAN
        <3> SUFFICES ASSUME NEW i \in GoodIds
                     PROVE  /\ row[i].stock \in Int /\ row[i].min \in Nat
                            /\ row[i].active \in BOOLEAN
            OBVIOUS
        <3>1. stocked[i] \in [id : {0}, stock : Int, min : Nat, active : BOOLEAN]
            BY GoodsAssumption
        <3> QED BY <3>1
    <2>2. goods' = {row[i] : i \in GoodIds}
        BY <1>2
    <2> HIDE DEF row
    <2>3. IsFiniteSet(goods')
        BY <2>2, NumbersFinite, IdsAssumption
    <2> QED BY <1>2, <2>1, <2>2, <2>3 DEF FigureRows
<1> QED BY <1>1, <1>2 DEF Traded

(* Answers are of the rows alone.                                           *)
LEMMA FiguresOfRows ==
    ASSUME sales' = sales, goods' = goods, NEW now
    PROVE  /\ Dashboard(now)' = Dashboard(now) /\ PartnerDashboard(now)' = PartnerDashboard(now)
           /\ Statistics(now)' = Statistics(now) /\ CourierSummary(now)' = CourierSummary(now)
           /\ \A period : Finance(period, now)' = Finance(period, now)
           /\ \A p, l : MitraIncome(now, p, l)' = MitraIncome(now, p, l)
           /\ ProductCounts' = ProductCounts /\ StaffSummary' = StaffSummary
<1>1. OwnSales' = OwnSales /\ MitraSales' = MitraSales /\ IncomeRows' = IncomeRows
    BY DEF OwnSales, MitraSales, IncomeRows
<1>2. Dashboard(now)' = Dashboard(now)
    BY <1>1 DEF Dashboard, Sum
<1>3. PartnerDashboard(now)' = PartnerDashboard(now) /\ Statistics(now)' = Statistics(now)
    BY <1>1 DEF PartnerDashboard, Statistics, Sum
<1>4. \A period : Finance(period, now)' = Finance(period, now)
    BY DEF Finance, FinanceSlice, Sum
<1>5. \A p, l : MitraIncome(now, p, l)' = MitraIncome(now, p, l)
    BY <1>1 DEF MitraIncome, Sum
<1>6. CourierSummary(now)' = CourierSummary(now)
    BY DEF CourierSummary, Sum
<1>7. ProductCounts' = ProductCounts /\ StaffSummary' = StaffSummary
    BY DEF ProductCounts, StockRange, StaffSummary
<1> QED BY <1>2, <1>3, <1>4, <1>5, <1>6, <1>7

LEMMA AnswerStays ==
    ASSUME sales' = sales, goods' = goods, figure' = figure, FigureAnswer
    PROVE  FigureAnswer'
<1>1. PICK now : now = figure.at
    OBVIOUS
<1>2. /\ Dashboard(now)' = Dashboard(now) /\ PartnerDashboard(now)' = PartnerDashboard(now)
      /\ Statistics(now)' = Statistics(now) /\ CourierSummary(now)' = CourierSummary(now)
      /\ \A period : Finance(period, now)' = Finance(period, now)
      /\ \A p, l : MitraIncome(now, p, l)' = MitraIncome(now, p, l)
      /\ ProductCounts' = ProductCounts /\ StaffSummary' = StaffSummary
    BY FiguresOfRows
<1> QED BY <1>1, <1>2 DEF FigureAnswer

LEMMA FiguresStep ==
    ASSUME FiguresInv, FiguresNext
    PROVE  FiguresInv'
<1>1. CASE Traded
    <2>1. FigureRows' /\ figure' = NoFigure
        BY <1>1, RowsTraded DEF FiguresInv, Traded
    <2>2. NoFigure' = NoFigure
        BY DEF NoFigure
    <2> QED BY <2>1, <2>2 DEF FiguresInv
<1>2. ASSUME NEW now \in Moments, NEW name, NEW answer, Report(name, now, answer),
             name # "none",
             \/ name = "dashboard" /\ answer = Dashboard(now)
             \/ name = "seller" /\ answer = [dashboard |-> PartnerDashboard(now), week |-> Statistics(now)]
             \/ /\ name = "finance"
                /\ \E period \in {"today", "week", "month"} : answer = Finance(period, now)
             \/ name = "income" /\ \E p, l \in 1 .. 2 : answer = MitraIncome(now, p, l)
             \/ name = "courier" /\ answer = CourierSummary(now)
             \/ /\ name = "stock"
                /\ answer = [counts |-> ProductCounts, staff |-> StaffSummary, console |-> Dashboard(now).lowStock]
      PROVE  FiguresInv'
    <2>1. /\ sales' = sales /\ goods' = goods
          /\ figure' = [of |-> name, at |-> now, answer |-> answer]
          /\ \A s \in sales : s.made <= now /\ (s.brought # NotBrought => s.brought <= now)
        BY <1>2 DEF Report
    <2>2. figure'.of = name /\ figure'.at = now /\ figure'.answer = answer
        BY <2>1
    <2>3. /\ Dashboard(now)' = Dashboard(now) /\ PartnerDashboard(now)' = PartnerDashboard(now)
          /\ Statistics(now)' = Statistics(now) /\ CourierSummary(now)' = CourierSummary(now)
          /\ \A period : Finance(period, now)' = Finance(period, now)
          /\ \A p, l : MitraIncome(now, p, l)' = MitraIncome(now, p, l)
          /\ ProductCounts' = ProductCounts /\ StaffSummary' = StaffSummary
        BY <2>1, FiguresOfRows
    <2>4. FigureRows'
        BY <2>1 DEF FiguresInv, FigureRows
    <2>5. FigureAnswer'
        BY <1>2, <2>2, <2>3 DEF FigureAnswer
    <2>6. FigureAsked'
        BY <2>1, <2>2, <2>5 DEF FigureAsked
    <2> QED BY <2>4, <2>6 DEF FiguresInv
<1> QED
    BY <1>1, <1>2 DEF FiguresNext, AskDashboard, AskSeller, AskFinance, AskIncome, AskCourier,
                      AskStock

-----------------------------------------------------------------------------
(* Lists of rows.  A listing names no row twice.                             *)
Listing(s, R) ==
    s \in Seq(R) /\ \A i, j \in 1 .. Len(s) : i # j => s[i] # s[j]

LEMMA RangeIs ==
    ASSUME NEW R, NEW s \in Seq(R)
    PROVE  /\ Len(s) \in Nat /\ DOMAIN s = 1 .. Len(s)
           /\ \A i \in 1 .. Len(s) : s[i] \in R /\ s[i] \in Range(s)
           /\ \A p \in Range(s) : p \in R /\ \E i \in 1 .. Len(s) : s[i] = p
BY LenProperties, ElementOfSeq DEF Range

LEMMA FirstNumbers ==
    ASSUME NEW n \in Nat
    PROVE  IsFiniteSet(1 .. n) /\ Cardinality(1 .. n) = n
<1>1. 1 \in Int /\ n \in Int
    OBVIOUS
<1> QED BY <1>1, FS_Interval

RowsAt(s, at) == {s[i] : i \in at}

LEMMA ListingCounts ==
    ASSUME NEW R, NEW s, Listing(s, R), NEW at \in SUBSET (1 .. Len(s))
    PROVE  /\ IsFiniteSet(RowsAt(s, at))
           /\ Cardinality(RowsAt(s, at)) = Cardinality(at)
<1> DEFINE image == {s[i] : i \in at}
           f == [i \in at |-> s[i]]
<1>1. Len(s) \in Nat
    BY RangeIs DEF Listing
<1>2. IsFiniteSet(at)
    BY <1>1, FirstNumbers, FS_Subset
<1>3. f \in Surjection(at, image)
    BY Zenon DEF Surjection
<1>4. f \in Injection(at, image)
    <2>1. f \in [at -> image]
        OBVIOUS
    <2>2. \A i, j \in at : f[i] = f[j] => i = j
        BY DEF Listing
    <2> QED BY <2>1, <2>2 DEF Injection, IsInjective
<1> QED BY <1>2, <1>3, <1>4, FS_Surjection DEF RowsAt

LEMMA ListingLen ==
    ASSUME NEW R, NEW s, Listing(s, R)
    PROVE  IsFiniteSet(Range(s)) /\ Cardinality(Range(s)) = Len(s)
<1>1. Len(s) \in Nat /\ DOMAIN s = 1 .. Len(s)
    BY RangeIs DEF Listing
<1>2. Range(s) = RowsAt(s, 1 .. Len(s))
    BY <1>1 DEF Range, RowsAt
<1>3. Cardinality(1 .. Len(s)) = Len(s)
    BY <1>1, FirstNumbers
<1>4. (1 .. Len(s)) \in SUBSET (1 .. Len(s))
    OBVIOUS
<1> QED BY <1>2, <1>3, <1>4, ListingCounts

(* Where everything before a place is before whatever comes after it, and of *)
(* two places one is before the other, each place has its turn.             *)
LEMMA InTurnIs ==
    ASSUME NEW at, IsFiniteSet(at), NEW ahead \in [at -> SUBSET at],
           \A i \in at : i \notin ahead[i],
           \A i \in at : \A j \in ahead[i] : ahead[j] \subseteq ahead[i],
           \A i, j \in at : i = j \/ i \in ahead[j] \/ j \in ahead[i]
    PROVE  /\ InTurn(at, ahead) \in [1 .. Cardinality(at) -> at]
           /\ \A k, l \in 1 .. Cardinality(at) :
                k < l => InTurn(at, ahead)[k] \in ahead[InTurn(at, ahead)[l]]
           /\ \A i \in at : \E k \in 1 .. Cardinality(at) : InTurn(at, ahead)[k] = i
<1> DEFINE n == Cardinality(at)
           t == InTurn(at, ahead)
           f == [i \in at |-> Cardinality(ahead[i]) + 1]
<1>1. n \in Nat /\ \A i \in at : Cardinality(ahead[i]) \in Nat
    BY FS_CardinalityType, FS_Subset
<1>2. \A i, j \in at : j \in ahead[i] => Cardinality(ahead[j]) < Cardinality(ahead[i])
    <2> SUFFICES ASSUME NEW i \in at, NEW j \in at, j \in ahead[i]
                 PROVE  Cardinality(ahead[j]) < Cardinality(ahead[i])
        OBVIOUS
    <2>1. ahead[j] \in SUBSET ahead[i] /\ ahead[j] # ahead[i] /\ IsFiniteSet(ahead[i])
        BY FS_Subset
    <2> QED BY <1>1, <2>1, FS_Subset
<1>3. \A i \in at : Cardinality(ahead[i]) < n
    <2> SUFFICES ASSUME NEW i \in at PROVE Cardinality(ahead[i]) < n
        OBVIOUS
    <2>1. ahead[i] \in SUBSET at /\ ahead[i] # at
        OBVIOUS
    <2> QED BY <1>1, <2>1, FS_Subset
<1>4. f \in [at -> 1 .. n] /\ \A i, j \in at : j \in ahead[i] => f[j] < f[i]
    BY <1>1, <1>2, <1>3
<1>5. \A i, j \in at : f[i] = f[j] => i = j
    <2> HIDE DEF f
    <2> QED BY <1>1, <1>4
<1>6. f \in Surjection(at, 1 .. n)
    <2>1. IsFiniteSet(1 .. n) /\ Cardinality(1 .. n) = n
        BY <1>1, FirstNumbers
    <2>2. f \in Injection(at, 1 .. n)
        BY <1>4, <1>5 DEF Injection, IsInjective
    <2> HIDE DEF f
    <2> QED BY <2>1, <2>2, FS_Injection
<1>7. \A k \in 1 .. n : t[k] \in at /\ f[t[k]] = k
    <2> SUFFICES ASSUME NEW k \in 1 .. n PROVE t[k] \in at /\ f[t[k]] = k
        OBVIOUS
    <2>1. \E i \in at : f[i] = k
        BY <1>6 DEF Surjection
    <2>2. PICK i \in at : Cardinality(ahead[i]) = k - 1
        BY <1>1, <2>1
    <2>3. t[k] = CHOOSE j \in at : Cardinality(ahead[j]) = k - 1
        BY DEF InTurn
    <2>4. t[k] \in at /\ Cardinality(ahead[t[k]]) = k - 1
        BY <2>2, <2>3
    <2> QED BY <2>4
<1>8. t \in [1 .. n -> at]
    <2>1. t = [k \in 1 .. n |-> t[k]]
        BY DEF InTurn
    <2> HIDE DEF t
    <2> QED BY <1>7, <2>1
<1> HIDE DEF t, f, n
<1>9. \A k, l \in 1 .. n : k < l => t[k] \in ahead[t[l]]
    BY <1>1, <1>4, <1>7
<1>10. \A i \in at : \E k \in 1 .. n : t[k] = i
    BY <1>4, <1>5, <1>7
<1> QED BY <1>8, <1>9, <1>10 DEF t, n

(* A filter keeps rows where they are among the others.                      *)
LEMMA KeptTurns ==
    ASSUME NEW R, NEW s \in Seq(R), NEW keep
    PROVE  LET t == Kept(s, keep)
           IN  /\ t \in Seq(R) /\ Range(t) = Range(s) \cap keep
               /\ \E turn \in [1 .. Len(t) -> 1 .. Len(s)] :
                    /\ \A k, l \in 1 .. Len(t) : k < l => turn[k] < turn[l]
                    /\ \A k \in 1 .. Len(t) : t[k] = s[turn[k]]
<1> DEFINE at == {i \in DOMAIN s : s[i] \in keep}
           ahead == [i \in at |-> {j \in at : j < i}]
           turn == InTurn(at, ahead)
           n == Cardinality(at)
           t == [k \in 1 .. n |-> s[turn[k]]]
<1>1. Len(s) \in Nat /\ DOMAIN s = 1 .. Len(s) /\ \A i \in 1 .. Len(s) : s[i] \in R
    BY RangeIs
<1>2. at \in SUBSET (1 .. Len(s)) /\ IsFiniteSet(at) /\ n \in Nat
    <2>1. at \in SUBSET (1 .. Len(s))
        BY <1>1
    <2> HIDE DEF at
    <2> QED BY <1>1, <2>1, FirstNumbers, FS_Subset, FS_CardinalityType
<1>3. /\ ahead \in [at -> SUBSET at] /\ \A i \in at : i \notin ahead[i]
      /\ \A i \in at : \A j \in ahead[i] : ahead[j] \subseteq ahead[i]
      /\ \A i, j \in at : i = j \/ i \in ahead[j] \/ j \in ahead[i]
    BY <1>1
<1>4. Kept(s, keep) = t
    BY DEF Kept
<1>5. /\ turn \in [1 .. n -> at]
      /\ \A k, l \in 1 .. n : k < l => turn[k] \in ahead[turn[l]]
      /\ \A i \in at : \E k \in 1 .. n : turn[k] = i
    <2> HIDE DEF at, ahead
    <2> QED BY <1>2, <1>3, InTurnIs
<1>6. \A k, l \in 1 .. n : k < l => turn[k] < turn[l]
    BY <1>5
<1>7. \A i \in at : i \in DOMAIN s /\ s[i] \in R /\ s[i] \in keep
    BY <1>1
<1> HIDE DEF turn, ahead
<1>8. t \in Seq(R) /\ Len(t) = n /\ DOMAIN t = 1 .. n
    <2>1. \A k \in 1 .. n : s[turn[k]] \in R
        BY <1>5, <1>7
    <2> HIDE DEF at, n
    <2>2. t \in [1 .. n -> R]
        BY <2>1
    <2> QED BY <1>2, <2>2
<1>9. Range(t) = Range(s) \cap keep
    <2>1. \A p \in Range(t) : p \in Range(s) \cap keep
        <3> SUFFICES ASSUME NEW p \in Range(t) PROVE p \in Range(s) \cap keep
            OBVIOUS
        <3>1. PICK k \in 1 .. n : p = s[turn[k]]
            BY <1>8 DEF Range
        <3> QED BY <1>5, <1>7, <3>1 DEF Range
    <2>2. \A p \in Range(s) \cap keep : p \in Range(t)
        <3> SUFFICES ASSUME NEW p \in Range(s) \cap keep PROVE p \in Range(t)
            OBVIOUS
        <3>1. PICK i \in at : p = s[i]
            BY DEF Range
        <3>2. PICK k \in 1 .. n : turn[k] = i
            BY <1>5
        <3>3. t[k] = p
            BY <3>1, <3>2
        <3> HIDE DEF t
        <3> QED BY <1>8, <3>3 DEF Range
    <2> QED BY <2>1, <2>2
<1>10. /\ turn \in [1 .. Len(t) -> 1 .. Len(s)]
       /\ \A k \in 1 .. Len(t) : t[k] = s[turn[k]]
    BY <1>1, <1>5, <1>8
<1> HIDE DEF t, n, at
<1> QED BY <1>4, <1>6, <1>8, <1>9, <1>10

LEMMA KeptIs ==
    ASSUME NEW R, NEW s \in Seq(R), NEW keep
    PROVE  /\ Kept(s, keep) \in Seq(R) /\ Range(Kept(s, keep)) = Range(s) \cap keep
           /\ Listing(s, R) => Listing(Kept(s, keep), R)
           /\ \A key : InOrder(s, key) => InOrder(Kept(s, keep), key)
<1> DEFINE t == Kept(s, keep)
<1>1. t \in Seq(R) /\ Range(t) = Range(s) \cap keep
    BY KeptTurns
<1>2. PICK turn \in [1 .. Len(t) -> 1 .. Len(s)] :
             /\ \A k, l \in 1 .. Len(t) : k < l => turn[k] < turn[l]
             /\ \A k \in 1 .. Len(t) : t[k] = s[turn[k]]
    BY KeptTurns
<1> HIDE DEF t
<1>3. /\ Len(t) \in Nat /\ DOMAIN t = 1 .. Len(t)
      /\ Len(s) \in Nat /\ DOMAIN s = 1 .. Len(s)
    BY <1>1, RangeIs
<1>4. ASSUME Listing(s, R) PROVE Listing(t, R)
    <2>1. \A k, l \in 1 .. Len(t) : k # l => turn[k] # turn[l]
        BY <1>2, <1>3
    <2> QED BY <1>1, <1>2, <1>4, <2>1 DEF Listing
<1>5. ASSUME NEW key, InOrder(s, key) PROVE InOrder(t, key)
    BY <1>2, <1>3, <1>5 DEF InOrder
<1> QED BY <1>1, <1>4, <1>5 DEF t

(* Sorting rearranges.                                                      *)
LEMMA SortedIs ==
    ASSUME NEW R, NEW s \in Seq(R), NEW key, \A p \in R : key[p] \in Int
    PROVE  /\ Sorted(s, key) \in Seq(R) /\ Len(Sorted(s, key)) = Len(s)
           /\ Range(Sorted(s, key)) = Range(s)
           /\ InOrder(Sorted(s, key), key)
           /\ Listing(s, R) => Listing(Sorted(s, key), R)
<1> DEFINE at == 1 .. Len(s)
           before(i) == {j \in DOMAIN s : \/ key[s[j]] < key[s[i]]
                                          \/ key[s[j]] = key[s[i]] /\ j < i}
           ahead == [i \in DOMAIN s |-> before(i)]
           turn == InTurn(at, ahead)
           t == [k \in 1 .. Len(s) |-> s[turn[k]]]
<1>1. /\ Len(s) \in Nat /\ DOMAIN s = at
      /\ \A i \in at : s[i] \in R /\ key[s[i]] \in Int /\ i \in Int
    BY RangeIs
<1>2. IsFiniteSet(at) /\ Cardinality(at) = Len(s)
    BY <1>1, FirstNumbers
<1>3. /\ ahead \in [at -> SUBSET at]
      /\ \A i, j \in at : j \in ahead[i] <=> \/ key[s[j]] < key[s[i]]
                                             \/ key[s[j]] = key[s[i]] /\ j < i
    BY <1>1
<1>4. Sorted(s, key) = t
    BY <1>1 DEF Sorted
<1> HIDE DEF ahead, at
<1>5. /\ \A i \in at : i \notin ahead[i]
      /\ \A i \in at : \A j \in ahead[i] : ahead[j] \subseteq ahead[i]
      /\ \A i, j \in at : i = j \/ i \in ahead[j] \/ j \in ahead[i]
    <2>1. \A i \in at : i \notin ahead[i]
        BY <1>1, <1>3
    <2>2. \A i \in at : \A j \in ahead[i] : ahead[j] \subseteq ahead[i]
        <3> SUFFICES ASSUME NEW i \in at, NEW j \in ahead[i], NEW k \in ahead[j]
                     PROVE  k \in ahead[i]
            OBVIOUS
        <3>1. j \in at /\ k \in at
            BY <1>3
        <3> QED BY <1>1, <1>3, <3>1
    <2>3. \A i, j \in at : i = j \/ i \in ahead[j] \/ j \in ahead[i]
        BY <1>1, <1>3
    <2> QED BY <2>1, <2>2, <2>3
<1>6. /\ turn \in [1 .. Len(s) -> at]
      /\ \A k, l \in 1 .. Len(s) : k < l => turn[k] \in ahead[turn[l]]
      /\ \A i \in at : \E k \in 1 .. Len(s) : turn[k] = i
    <2>1. ahead \in [at -> SUBSET at]
        BY <1>3
    <2>2. /\ turn \in [1 .. Cardinality(at) -> at]
          /\ \A k, l \in 1 .. Cardinality(at) : k < l => turn[k] \in ahead[turn[l]]
          /\ \A i \in at : \E k \in 1 .. Cardinality(at) : turn[k] = i
        BY <1>2, <1>5, <2>1, InTurnIs
    <2> HIDE DEF turn
    <2> QED BY <1>2, <2>2
<1> HIDE DEF turn
<1>7. t \in Seq(R) /\ Len(t) = Len(s) /\ DOMAIN t = 1 .. Len(s)
    <2>1. t \in [1 .. Len(s) -> R]
        BY <1>1, <1>6
    <2> QED BY <1>1, <2>1
<1>8. Range(t) = Range(s)
    <2>1. \A p \in Range(t) : p \in Range(s)
        <3> SUFFICES ASSUME NEW p \in Range(t) PROVE p \in Range(s)
            OBVIOUS
        <3>1. PICK k \in 1 .. Len(s) : p = s[turn[k]]
            BY <1>7 DEF Range
        <3> QED BY <1>1, <1>6, <3>1 DEF Range
    <2>2. \A p \in Range(s) : p \in Range(t)
        <3> SUFFICES ASSUME NEW p \in Range(s) PROVE p \in Range(t)
            OBVIOUS
        <3>1. PICK i \in at : p = s[i]
            BY <1>1 DEF Range
        <3>2. PICK k \in 1 .. Len(s) : turn[k] = i
            BY <1>6
        <3>3. t[k] = p
            BY <3>1, <3>2
        <3> HIDE DEF t
        <3> QED BY <1>7, <3>3 DEF Range
    <2> QED BY <2>1, <2>2
<1>9. InOrder(t, key)
    <2> SUFFICES ASSUME NEW k \in 1 .. Len(s), NEW l \in 1 .. Len(s), k < l
                 PROVE  key[t[k]] <= key[t[l]]
        BY <1>7 DEF InOrder
    <2>1. turn[k] \in at /\ turn[l] \in at /\ turn[k] \in ahead[turn[l]]
        BY <1>6
    <2>2. key[s[turn[k]]] <= key[s[turn[l]]]
        BY <1>1, <1>3, <2>1
    <2> QED BY <2>2
<1>10. Listing(s, R) => Listing(t, R)
    <2>1. \A k, l \in 1 .. Len(s) : k # l => turn[k] # turn[l]
        BY <1>1, <1>5, <1>6
    <2>2. at = 1 .. Len(s)
        BY DEF at
    <2> QED BY <1>6, <1>7, <2>1, <2>2 DEF Listing
<1> HIDE DEF t
<1> QED BY <1>4, <1>7, <1>8, <1>9, <1>10

(* What a table answers: rows in order, as many as asked for or there are,   *)
(* and none left out that comes before one of them.                         *)
LEMMA FirstRowsAre ==
    ASSUME NEW rows, IsFiniteSet(rows), NEW key, \A p \in rows : key[p] \in Int,
           NEW limit \in Nat, NEW f \in FirstRows(rows, key, limit)
    PROVE  /\ Listing(f, rows) /\ InOrder(f, key)
           /\ Len(f) = IF limit < Cardinality(rows) THEN limit ELSE Cardinality(rows)
           /\ Cardinality(rows) <= limit => Range(f) = rows
           /\ \A p \in rows \ Range(f) :
                Len(f) = limit /\ \A r \in Range(f) : key[r] <= key[p]
<1> DEFINE n == Cardinality(rows)
           cut == IF limit < n THEN limit ELSE n
<1>1. n \in Nat
    BY FS_CardinalityType
<1>2. PICK s \in SetToSeqs(rows) : InOrder(s, key) /\ f = Cut(s, limit)
    BY DEF FirstRows
<1>3. s \in [1 .. n -> rows] /\ \A i, j \in 1 .. n : i # j => s[i] # s[j]
    BY <1>2 DEF SetToSeqs
<1>4. s \in Seq(rows) /\ Len(s) = n /\ DOMAIN s = 1 .. n
    BY <1>1, <1>3
<1>5. f = SubSeq(s, 1, cut)
    BY <1>2, <1>4 DEF Cut
<1>6. cut \in Nat /\ cut <= n
    BY <1>1
<1> HIDE DEF cut, n
<1>7. f \in Seq(rows) /\ Len(f) = cut /\ \A i \in 1 .. cut : f[i] = s[i]
    <2>1. \A i \in 1 .. cut : s[i] \in rows
        BY <1>1, <1>3, <1>6
    <2>2. /\ SubSeq(s, 1, cut) \in Seq(rows)
          /\ Len(SubSeq(s, 1, cut)) = IF 1 <= cut THEN cut - 1 + 1 ELSE 0
          /\ \A i \in 1 .. cut - 1 + 1 : SubSeq(s, 1, cut)[i] = s[1 + i - 1]
        BY <1>6, <2>1, SubSeqProperties
    <2> QED BY <1>5, <1>6, <2>2
<1>8. DOMAIN f = 1 .. cut
    BY <1>7, RangeIs
<1>9. Listing(f, rows) /\ InOrder(f, key)
    BY SMTT(30), <1>1, <1>2, <1>3, <1>4, <1>6, <1>7, <1>8 DEF Listing, InOrder
<1>10. \A p \in rows : \E i \in 1 .. n : s[i] = p
    <2>1. Listing(s, rows)
        BY <1>3, <1>4 DEF Listing
    <2>2. IsFiniteSet(Range(s)) /\ Cardinality(Range(s)) = n /\ Range(s) \in SUBSET rows
        BY <1>4, <2>1, ListingLen, RangeOfSeq
    <2>3. Range(s) = rows
        BY <2>2, FS_Subset DEF n
    <2> QED BY <1>4, <2>3, RangeIs
<1>11. ASSUME NEW p \in rows \ Range(f)
       PROVE  Len(f) = limit /\ \A r \in Range(f) : key[r] <= key[p]
    <2>1. PICK i \in 1 .. n : s[i] = p
        BY <1>10
    <2>2. cut < i
        BY <1>1, <1>6, <1>7, <1>8, <2>1 DEF Range
    <2>3. cut = limit
        BY <1>1, <2>2 DEF cut
    <2>4. ASSUME NEW r \in Range(f) PROVE key[r] <= key[p]
        <3>1. PICK j \in 1 .. cut : r = s[j]
            BY <1>7, <1>8 DEF Range
        <3> QED BY <1>1, <1>2, <1>4, <1>6, <2>1, <2>2, <3>1 DEF InOrder
    <2> QED BY <1>7, <2>3, <2>4
<1>12. n <= limit => Range(f) = rows
    <2> SUFFICES ASSUME n <= limit PROVE Range(f) = rows
        OBVIOUS
    <2>1. cut = n
        BY <1>1 DEF cut
    <2>2. Range(f) \in SUBSET rows /\ Cardinality(Range(f)) = n
        BY <1>7, <1>9, <2>1, ListingLen, RangeOfSeq
    <2> QED BY <2>2, FS_Subset DEF n
<1> QED BY <1>7, <1>9, <1>11, <1>12 DEF cut, n

LEMMA PageEnds ==
    ASSUME NEW p \in Nat \ {0}, NEW l \in Nat \ {0}
    PROVE  /\ (p - 1) * l \in Nat /\ p * l \in Nat
           /\ (p - 1) * l + l = p * l
           /\ p = 1 => (p - 1) * l = 0
<1>1. p - 1 \in Nat
    OBVIOUS
<1>2. (p - 1) * l \in Nat /\ p * l \in Nat
    BY <1>1
<1>3. (p - 1) * l + l = p * l
    OBVIOUS
<1>4. p = 1 => (p - 1) * l = 0
    OBVIOUS
<1> QED BY <1>2, <1>3, <1>4

(* A page of a list in order is a slice of all the rows it was cut from,     *)
(* when the list either is whole or reaches to the end of the page, and what *)
(* was left out comes after as many rows as the pages have shown.           *)
LEMMA SliceIs ==
    ASSUME NEW all, IsFiniteSet(all), NEW key, \A p \in all : key[p] \in Int,
           NEW m, Listing(m, all), InOrder(m, key),
           NEW q, q.page \in Nat \ {0}, q.limit \in Nat \ {0},
           Len(m) < q.page * q.limit => Range(m) = all,
           \A p \in all \ Range(m) : \E T \in SUBSET Range(m) :
               Cardinality(T) >= q.page * q.limit /\ \A r \in T : key[r] <= key[p]
    PROVE  IsSlice(Slice(m, q), all, key, q)
<1> DEFINE start == (q.page - 1) * q.limit
           end == start + q.limit
           cut == IF end < Len(m) THEN end ELSE Len(m)
           rows == Slice(m, q)
<1>1. /\ start \in Nat /\ end \in Nat /\ end = q.page * q.limit /\ end = start + q.limit
      /\ q.limit \in Nat \ {0}
    <2>1. (q.page - 1) * q.limit \in Nat /\ q.page * q.limit \in Nat
          /\ (q.page - 1) * q.limit + q.limit = q.page * q.limit
        BY PageEnds
    <2> QED BY <2>1
<1>2. /\ Len(m) \in Nat /\ DOMAIN m = 1 .. Len(m)
      /\ \A i \in 1 .. Len(m) : m[i] \in all /\ m[i] \in Range(m)
      /\ \A p \in Range(m) : p \in all /\ \E i \in 1 .. Len(m) : m[i] = p
    BY RangeIs DEF Listing
<1>3. rows = SubSeq(m, start + 1, cut)
    BY DEF Slice
<1> HIDE DEF start, end
<1>4. cut \in Nat /\ cut <= Len(m) /\ cut <= end
    BY <1>1, <1>2
<1>5. (cut = end /\ end < Len(m)) \/ (cut = Len(m) /\ Len(m) <= end)
    BY <1>1, <1>2
<1> HIDE DEF cut, rows
<1> DEFINE n == IF start < cut THEN cut - start ELSE 0
<1>6. rows \in Seq(all) /\ Len(rows) = n /\ \A i \in 1 .. n : rows[i] = m[start + i]
    <2>1. \A i \in start + 1 .. cut : m[i] \in all
        BY <1>1, <1>2, <1>4
    <2>2. start + 1 \in Int /\ cut \in Int
        BY <1>1, <1>4
    <2>3. /\ SubSeq(m, start + 1, cut) \in Seq(all)
          /\ Len(SubSeq(m, start + 1, cut)) = IF start + 1 <= cut THEN cut - (start + 1) + 1 ELSE 0
          /\ \A i \in 1 .. cut - (start + 1) + 1 :
               SubSeq(m, start + 1, cut)[i] = m[(start + 1) + i - 1]
        BY <2>1, <2>2, SubSeqProperties
    <2> QED BY <1>1, <1>3, <1>4, <2>3
<1>7. DOMAIN rows = 1 .. n
    BY <1>6, RangeIs
<1>8. \A i \in 1 .. n : start + i \in 1 .. Len(m) /\ start + i <= end
    BY <1>1, <1>2, <1>4
<1> DEFINE c == Cardinality(all)
<1>9. c \in Nat /\ Len(m) <= c /\ (Len(m) < end => Len(m) = c)
    <2>1. Range(m) \in SUBSET all /\ Cardinality(Range(m)) = Len(m)
        BY <1>2, ListingLen
    <2> QED BY <1>1, <2>1, FS_Subset, FS_CardinalityType
<1> HIDE DEF c
<1>10. n = IF c <= start THEN 0 ELSE IF c - start < q.limit THEN c - start ELSE q.limit
    <2>1. start \in Nat /\ q.limit \in Nat \ {0} /\ end = start + q.limit
        BY <1>1
    <2>2. Len(m) \in Nat /\ c \in Nat /\ Len(m) <= c
        BY <1>2, <1>9
    <2>3. CASE cut = end /\ end < Len(m)
        BY <2>1, <2>2, <2>3
    <2>4. CASE cut = Len(m) /\ Len(m) <= end
        BY <1>9, <2>1, <2>2, <2>4
    <2> QED BY <1>5, <2>3, <2>4
<1>11. \A i, j \in 1 .. n : i # j => rows[i] # rows[j]
    <2> SUFFICES ASSUME NEW i \in 1 .. n, NEW j \in 1 .. n, i # j
                 PROVE  rows[i] # rows[j]
        OBVIOUS
    <2>1. start + i \in 1 .. Len(m) /\ start + j \in 1 .. Len(m) /\ start + i # start + j
        BY <1>1, <1>8
    <2> QED BY <1>6, <2>1 DEF Listing
<1>12. ASSUME NEW i \in 1 .. n
       PROVE  /\ rows[i] \in all
              /\ Cardinality({p \in all : key[p] < key[rows[i]]}) < start + i
              /\ Cardinality({p \in all : key[p] <= key[rows[i]]}) >= start + i
    <2> DEFINE x == start + i
               r == rows[i]
               less == {p \in all : key[p] < key[r]}
               upTo == {p \in all : key[p] <= key[r]}
               first == RowsAt(m, 1 .. x - 1)
               shown == RowsAt(m, 1 .. x)
    <2>1. x \in 1 .. Len(m) /\ x <= end /\ r = m[x] /\ r \in all /\ x \in Nat
        BY <1>1, <1>2, <1>6, <1>8
    <2> HIDE DEF x, r
    <2>2. IsFiniteSet(first) /\ Cardinality(first) = x - 1
        <3>1. x - 1 \in Nat /\ (1 .. x - 1) \in SUBSET (1 .. Len(m))
            BY <1>2, <2>1
        <3> QED BY <3>1, ListingCounts, FirstNumbers
    <2>3. IsFiniteSet(shown) /\ Cardinality(shown) = x
        <3>1. x \in Nat /\ (1 .. x) \in SUBSET (1 .. Len(m))
            BY <1>2, <2>1
        <3> QED BY <3>1, ListingCounts, FirstNumbers
    <2>4. \A p \in Range(m) : key[p] < key[r] => p \in first
        <3> SUFFICES ASSUME NEW p \in Range(m), key[p] < key[r] PROVE p \in first
            OBVIOUS
        <3>1. PICK j \in 1 .. Len(m) : m[j] = p
            BY <1>2
        <3>2. key[p] \in Int /\ key[r] \in Int
            BY <1>2, <2>1
        <3>3. j < x
            <4> SUFFICES ASSUME x <= j PROVE FALSE
                BY <1>2, <2>1
            <4>1. key[r] <= key[p]
                BY SMTT(30), <1>2, <2>1, <3>1, <3>2 DEF InOrder
            <4> QED BY <3>2, <4>1
        <3> QED BY <1>2, <2>1, <3>1, <3>3 DEF RowsAt
    <2>5. less \subseteq Range(m)
        <3> SUFFICES ASSUME NEW p \in all \ Range(m), key[p] < key[r] PROVE FALSE
            OBVIOUS
        <3>1. PICK T \in SUBSET Range(m) :
                   Cardinality(T) >= q.page * q.limit /\ \A t \in T : key[t] <= key[p]
            OBVIOUS
        <3>2. key[p] \in Int /\ key[r] \in Int /\ \A t \in T : key[t] \in Int
            BY <1>2, <2>1
        <3>3. T \in SUBSET first
            BY <2>4, <3>1, <3>2
        <3>4. Cardinality(T) <= x - 1 /\ Cardinality(T) \in Nat
            BY <2>2, <3>3, FS_Subset, FS_CardinalityType
        <3> QED BY <1>1, <2>1, <3>1, <3>4
    <2>6. Cardinality(less) < x
        <3>1. less \in SUBSET first
            BY <2>4, <2>5
        <3> HIDE DEF less, first
        <3>2. Cardinality(less) <= x - 1 /\ Cardinality(less) \in Nat
            BY <2>2, <3>1, FS_Subset, FS_CardinalityType
        <3> QED BY <2>1, <3>2
    <2>7. Cardinality(upTo) >= x
        <3>1. shown \in SUBSET upTo
            <4> SUFFICES ASSUME NEW j \in 1 .. x PROVE m[j] \in upTo
                BY DEF RowsAt
            <4>1. j \in 1 .. Len(m) /\ m[j] \in all
                BY <1>2, <2>1
            <4>2. j = x \/ j < x
                BY <2>1
            <4>3. key[r] \in Int
                BY <2>1
            <4>4. key[m[j]] <= key[r]
                <5>1. CASE j = x
                    BY <2>1, <4>3, <5>1
                <5>2. CASE j < x
                    BY <1>2, <2>1, <4>1, <5>2 DEF InOrder
                <5> QED BY <4>2, <5>1, <5>2
            <4> QED BY <4>1, <4>4
        <3>2. IsFiniteSet(upTo)
            BY FS_Subset
        <3> HIDE DEF upTo, shown
        <3>3. Cardinality(upTo) \in Nat
            BY <3>2, FS_CardinalityType
        <3> QED BY <2>1, <2>3, <3>1, <3>2, <3>3, FS_Subset
    <2> QED BY <2>1, <2>6, <2>7 DEF x, r
<1> HIDE DEF n
<1> QED BY <1>6, <1>7, <1>10, <1>11, <1>12 DEF IsSlice, start, c, rows

(* A whole list.                                                            *)
LEMMA WholeSlice ==
    ASSUME NEW all, IsFiniteSet(all), NEW key, \A p \in all : key[p] \in Int,
           NEW m, Listing(m, all), Range(m) = all, InOrder(m, key),
           NEW q, q.page \in Nat \ {0}, q.limit \in Nat \ {0}
    PROVE  IsSlice(Slice(m, q), all, key, q) /\ Len(m) = Cardinality(all)
BY SliceIs, ListingLen

Apart(k, u) == \A p \in Range(k) : p \notin Range(u)

LEMMA ConcatIs ==
    ASSUME NEW R, NEW k, NEW u, Listing(k, R), Listing(u, R), Apart(k, u)
    PROVE  Listing(k \o u, R)
<1>1. k \in Seq(R) /\ u \in Seq(R)
    BY DEF Listing
<1>2. k \o u \in Seq(R) /\ Len(k \o u) = Len(k) + Len(u)
    BY <1>1, ConcatProperties
<1>3. Len(k) \in Nat /\ Len(u) \in Nat
    BY <1>1, RangeIs
<1>4. \A i \in 1 .. Len(k) + Len(u) :
         (k \o u)[i] = IF i <= Len(k) THEN k[i] ELSE u[i - Len(k)]
    BY <1>1, ConcatProperties
<1>5. \A i \in 1 .. Len(k) : k[i] \in Range(k)
    BY <1>1, RangeIs
<1>6. \A i \in 1 .. Len(u) : u[i] \in Range(u)
    BY <1>1, RangeIs
<1>7. ASSUME NEW i \in 1 .. Len(k) + Len(u), NEW j \in 1 .. Len(k) + Len(u), i # j
      PROVE  (k \o u)[i] # (k \o u)[j]
    <2>1. CASE i <= Len(k) /\ j <= Len(k)
        <3>1. i \in 1 .. Len(k) /\ j \in 1 .. Len(k)
            BY <1>3, <2>1
        <3> QED BY <1>4, <1>7, <2>1, <3>1 DEF Listing
    <2>2. CASE i > Len(k) /\ j > Len(k)
        <3>1. i - Len(k) \in 1 .. Len(u) /\ j - Len(k) \in 1 .. Len(u) /\ i - Len(k) # j - Len(k)
            BY <1>3, <1>7, <2>2
        <3>2. (k \o u)[i] = u[i - Len(k)] /\ (k \o u)[j] = u[j - Len(k)]
            BY <1>3, <1>4, <2>2
        <3> QED BY <3>1, <3>2 DEF Listing
    <2>3. CASE i <= Len(k) /\ j > Len(k)
        <3>1. i \in 1 .. Len(k) /\ j - Len(k) \in 1 .. Len(u)
            BY <1>3, <2>3
        <3>2. (k \o u)[i] \in Range(k) /\ (k \o u)[j] \in Range(u)
            BY <1>3, <1>4, <1>5, <1>6, <2>3, <3>1
        <3> QED BY <3>2 DEF Apart
    <2>4. CASE i > Len(k) /\ j <= Len(k)
        <3>1. j \in 1 .. Len(k) /\ i - Len(k) \in 1 .. Len(u)
            BY <1>3, <2>4
        <3>2. (k \o u)[j] \in Range(k) /\ (k \o u)[i] \in Range(u)
            BY <1>3, <1>4, <1>5, <1>6, <2>4, <3>1
        <3> QED BY <3>2 DEF Apart
    <2> QED BY <1>3, <2>1, <2>2, <2>3, <2>4
<1> QED BY <1>2, <1>7 DEF Listing

LEMMA ListingRange ==
    ASSUME NEW R, NEW s, Listing(s, R)
    PROVE  Listing(s, Range(s)) /\ Range(s) \subseteq R
BY SeqOfRange, RangeOfSeq DEF Listing

LEMMA ListingWider ==
    ASSUME NEW R, NEW S, R \subseteq S, NEW s, Listing(s, R)
    PROVE  Listing(s, S)
BY SeqMonotonic DEF Listing

LEMMA ConcatOrder ==
    ASSUME NEW R, NEW k \in Seq(R), NEW u \in Seq(R), NEW key, InOrder(k, key), InOrder(u, key),
           \A p \in Range(k) : \A r \in Range(u) : key[p] <= key[r]
    PROVE  InOrder(k \o u, key)
<1>1. Len(k) \in Nat /\ Len(u) \in Nat /\ DOMAIN k = 1 .. Len(k) /\ DOMAIN u = 1 .. Len(u)
    BY RangeIs
<1>2. k \o u \in Seq(R) /\ Len(k \o u) = Len(k) + Len(u)
    BY ConcatProperties
<1>3. \A i \in 1 .. Len(k) + Len(u) :
         (k \o u)[i] = IF i <= Len(k) THEN k[i] ELSE u[i - Len(k)]
    BY ConcatProperties
<1>4. DOMAIN (k \o u) = 1 .. Len(k) + Len(u)
    BY <1>2, RangeIs
<1>5. ASSUME NEW i \in 1 .. Len(k) + Len(u), NEW j \in 1 .. Len(k) + Len(u), i < j
      PROVE  key[(k \o u)[i]] <= key[(k \o u)[j]]
    <2>1. CASE j <= Len(k)
        <3>1. i \in 1 .. Len(k) /\ j \in 1 .. Len(k) /\ i <= Len(k)
            BY <1>1, <1>5, <2>1
        <3>2. (k \o u)[i] = k[i] /\ (k \o u)[j] = k[j]
            BY <1>3, <2>1, <3>1
        <3> QED BY <1>1, <1>5, <3>1, <3>2 DEF InOrder
    <2>2. CASE i > Len(k)
        <3>1. /\ i - Len(k) \in 1 .. Len(u) /\ j - Len(k) \in 1 .. Len(u)
              /\ i - Len(k) < j - Len(k) /\ ~(i <= Len(k)) /\ ~(j <= Len(k))
            BY <1>1, <1>5, <2>2
        <3>2. (k \o u)[i] = u[i - Len(k)] /\ (k \o u)[j] = u[j - Len(k)]
            BY <1>3, <3>1
        <3> QED BY <1>1, <3>1, <3>2 DEF InOrder
    <2>3. CASE i <= Len(k) /\ j > Len(k)
        <3>1. i \in 1 .. Len(k) /\ j - Len(k) \in 1 .. Len(u) /\ ~(j <= Len(k))
            BY <1>1, <2>3
        <3>2. (k \o u)[i] = k[i] /\ (k \o u)[j] = u[j - Len(k)]
            BY <1>3, <2>3, <3>1
        <3>3. k[i] \in Range(k) /\ u[j - Len(k)] \in Range(u)
            BY <3>1, RangeIs
        <3> QED BY <3>2, <3>3
    <2> QED BY <1>1, <2>1, <2>2, <2>3
<1> QED BY <1>4, <1>5 DEF InOrder

(* A page of a list has rows of it, in its order.                            *)
LEMMA SlicePart ==
    ASSUME NEW R, NEW m, Listing(m, R), NEW key, InOrder(m, key),
           NEW q, q.page \in Nat \ {0}, q.limit \in Nat \ {0}
    PROVE  /\ \A i \in DOMAIN Slice(m, q) : Slice(m, q)[i] \in R
           /\ InOrder(Slice(m, q), key)
<1> DEFINE start == (q.page - 1) * q.limit
           end == start + q.limit
           cut == IF end < Len(m) THEN end ELSE Len(m)
           rows == Slice(m, q)
<1>1. start \in Nat /\ end \in Nat
    BY PageEnds
<1>2. /\ Len(m) \in Nat /\ DOMAIN m = 1 .. Len(m) /\ \A i \in 1 .. Len(m) : m[i] \in R
    BY RangeIs DEF Listing
<1>3. rows = SubSeq(m, start + 1, cut)
    BY DEF Slice
<1> HIDE DEF start, end
<1>4. cut \in Nat /\ cut <= Len(m)
    BY <1>1, <1>2
<1> HIDE DEF cut, rows
<1>5. /\ rows \in Seq(R)
      /\ Len(rows) = IF start + 1 <= cut THEN cut - (start + 1) + 1 ELSE 0
      /\ \A i \in 1 .. cut - (start + 1) + 1 : rows[i] = m[(start + 1) + i - 1]
    <2>1. start + 1 \in Int /\ cut \in Int /\ \A i \in start + 1 .. cut : m[i] \in R
        BY <1>1, <1>2, <1>4
    <2> QED BY <1>3, <2>1, SubSeqProperties
<1>6. \A i \in 1 .. Len(rows) : i + start \in 1 .. Len(m) /\ rows[i] = m[i + start]
    BY <1>1, <1>2, <1>4, <1>5
<1>7. DOMAIN rows = 1 .. Len(rows) /\ Len(rows) \in Nat
    BY <1>5, RangeIs
<1>8. InOrder(rows, key)
    BY SMTT(30), <1>1, <1>2, <1>6, <1>7 DEF InOrder
<1>9. \A i \in DOMAIN rows : rows[i] \in R
    BY <1>2, <1>6, <1>7
<1> QED BY <1>8, <1>9 DEF rows

(* Of two tables: what each gave, merged, filtered and sorted.               *)
Arranged(m, R, order, rows) == Listing(m, R) /\ InOrder(m, order) /\ Range(m) = rows
Gathered(k, u, keep) == (Range(k) \cup Range(u)) \cap keep

LEMMA MergeIs ==
    ASSUME NEW R, NEW order, \A p \in R : order[p] \in Int,
           NEW k, Listing(k, R), NEW u, Listing(u, R), Apart(k, u), NEW keep
    PROVE  Arranged(Sorted(Kept(k \o u, keep), order), R, order, Gathered(k, u, keep))
<1>1. Listing(k \o u, R) /\ Range(k \o u) = Range(k) \cup Range(u)
    <2>1. Listing(k \o u, R)
        BY ConcatIs
    <2>2. Range(k \o u) = Range(k) \cup Range(u)
        BY RangeConcatenation DEF Listing
    <2> QED BY <2>1, <2>2
<1> DEFINE s == k \o u
           f == Kept(s, keep)
<1>2. Listing(s, R) /\ s \in Seq(R) /\ Range(s) \cap keep = Gathered(k, u, keep)
    BY <1>1 DEF Listing, Gathered
<1> HIDE DEF s
<1>3. Listing(f, R) /\ f \in Seq(R) /\ Range(f) = Range(s) \cap keep
    BY <1>2, KeptIs
<1> HIDE DEF f
<1>4. /\ Listing(Sorted(f, order), R) /\ Range(Sorted(f, order)) = Range(f)
      /\ InOrder(Sorted(f, order), order)
    BY <1>3, SortedIs
<1> QED BY <1>2, <1>3, <1>4 DEF f, s, Arranged

(* Where nothing is filtered, a page within the limit misses nothing.        *)
LEMMA MergeSlice ==
    ASSUME NEW K, IsFiniteSet(K), NEW U, IsFiniteSet(U), K \cap U = {},
           NEW key, \A p \in K \cup U : key[p] \in Int,
           NEW q, q.page \in Nat \ {0}, q.limit \in Nat \ {0},
           NEW k \in FirstRows(K, key, q.page * q.limit),
           NEW u \in FirstRows(U, key, q.page * q.limit), NEW keep, K \cup U \subseteq keep
    PROVE  IsSlice(Slice(Sorted(Kept(k \o u, keep), key), q), K \cup U, key, q)
<1> DEFINE limit == q.page * q.limit
           all == K \cup U
           m == Sorted(Kept(k \o u, keep), key)
<1>1. limit \in Nat
    BY PageEnds
<1>2. /\ Listing(k, K) /\ Listing(u, U)
      /\ Len(k) = IF limit < Cardinality(K) THEN limit ELSE Cardinality(K)
      /\ Len(u) = IF limit < Cardinality(U) THEN limit ELSE Cardinality(U)
      /\ Cardinality(K) <= limit => Range(k) = K
      /\ Cardinality(U) <= limit => Range(u) = U
      /\ \A p \in K \ Range(k) : Len(k) = limit /\ \A r \in Range(k) : key[r] <= key[p]
      /\ \A p \in U \ Range(u) : Len(u) = limit /\ \A r \in Range(u) : key[r] <= key[p]
    <2> HIDE DEF limit
    <2> USE <1>1
    <2>1. k \in FirstRows(K, key, limit) /\ u \in FirstRows(U, key, limit)
        BY DEF limit
    <2>2. (\A p \in K : key[p] \in Int) /\ (\A p \in U : key[p] \in Int)
        OBVIOUS
    <2>3. /\ Listing(k, K)
          /\ Len(k) = IF limit < Cardinality(K) THEN limit ELSE Cardinality(K)
          /\ Cardinality(K) <= limit => Range(k) = K
          /\ \A p \in K \ Range(k) : Len(k) = limit /\ \A r \in Range(k) : key[r] <= key[p]
        BY <2>1, <2>2, FirstRowsAre
    <2>4. /\ Listing(u, U)
          /\ Len(u) = IF limit < Cardinality(U) THEN limit ELSE Cardinality(U)
          /\ Cardinality(U) <= limit => Range(u) = U
          /\ \A p \in U \ Range(u) : Len(u) = limit /\ \A r \in Range(u) : key[r] <= key[p]
        BY <2>1, <2>2, FirstRowsAre
    <2> QED BY <2>3, <2>4
<1>3. /\ Listing(m, all) /\ InOrder(m, key)
      /\ Range(m) = (Range(k) \cup Range(u)) \cap keep
    <2>1. Range(k) \subseteq K /\ Range(u) \subseteq U
        BY <1>2, ListingRange
    <2>2. Listing(k, all) /\ Listing(u, all) /\ Apart(k, u)
        BY <1>2, <2>1, ListingWider DEF Apart
    <2> HIDE DEF all
    <2>3. \A p \in all : key[p] \in Int
        BY DEF all
    <2>4. Arranged(Sorted(Kept(k \o u, keep), key), all, key, Gathered(k, u, keep))
        BY <2>2, <2>3, MergeIs
    <2> QED BY <2>4 DEF Arranged, Gathered
<1>4. Range(k) \subseteq K /\ Range(u) \subseteq U
    BY <1>2, ListingRange
<1>5. Range(m) = Range(k) \cup Range(u)
    BY <1>3, <1>4
<1>6. IsFiniteSet(all) /\ Cardinality(K) \in Nat /\ Cardinality(U) \in Nat
    BY FS_Union, FS_CardinalityType
<1>7. /\ IsFiniteSet(Range(k)) /\ Cardinality(Range(k)) = Len(k)
      /\ IsFiniteSet(Range(u)) /\ Cardinality(Range(u)) = Len(u)
      /\ IsFiniteSet(Range(m)) /\ Cardinality(Range(m)) = Len(m)
    <2> HIDE DEF m, all
    <2> QED BY <1>2, <1>3, ListingLen
<1>8. Len(m) = Len(k) + Len(u) /\ Len(k) \in Nat /\ Len(u) \in Nat
    <2>1. Range(k) \cap Range(u) = {}
        BY <1>4
    <2>2. Cardinality(Range(k) \cup Range(u)) = Cardinality(Range(k)) + Cardinality(Range(u))
        BY <1>7, <2>1, CardUnion
    <2> HIDE DEF m
    <2> QED BY <1>5, <1>7, <2>2, FS_CardinalityType
<1> HIDE DEF limit, m
<1>9. Len(m) < limit => Range(m) = all
    BY <1>1, <1>2, <1>5, <1>6, <1>8
<1>11. \A p \in all \ Range(m) : \E T \in SUBSET Range(m) :
          Cardinality(T) >= limit /\ \A r \in T : key[r] <= key[p]
    <2> SUFFICES ASSUME NEW p \in all \ Range(m)
                 PROVE  \E T \in SUBSET Range(m) :
                          Cardinality(T) >= limit /\ \A r \in T : key[r] <= key[p]
        OBVIOUS
    <2>1. CASE p \in K
        <3>1. Range(k) \in SUBSET Range(m) /\ Cardinality(Range(k)) >= limit
              /\ \A r \in Range(k) : key[r] <= key[p]
            BY <1>1, <1>2, <1>5, <1>7, <2>1
        <3> QED BY <3>1
    <2>2. CASE p \in U
        <3>1. Range(u) \in SUBSET Range(m) /\ Cardinality(Range(u)) >= limit
              /\ \A r \in Range(u) : key[r] <= key[p]
            BY <1>1, <1>2, <1>5, <1>7, <2>2
        <3> QED BY <3>1
    <2> QED BY <2>1, <2>2
<1>10. IsSlice(Slice(m, q), all, key, q)
    <2> HIDE DEF all
    <2>1. \A p \in all : key[p] \in Int
        BY DEF all
    <2>2. Len(m) < q.page * q.limit => Range(m) = all
        BY <1>9 DEF limit
    <2>3. \A p \in all \ Range(m) : \E T \in SUBSET Range(m) :
             Cardinality(T) >= q.page * q.limit /\ \A r \in T : key[r] <= key[p]
        BY <1>11 DEF limit
    <2> QED BY <1>3, <1>6, <2>1, <2>2, <2>3, SliceIs
<1> QED BY <1>10 DEF m

-----------------------------------------------------------------------------
(* The marketplace: a page is an answer to the question, from the rows there *)
(* are.                                                                     *)
ShelfRows ==
    /\ IsFiniteSet(shelf)
    /\ \A p \in shelf : /\ p.id \in Nat /\ p.price \in Int /\ p.far \in Nat
                        /\ p.rating \in Nat /\ p.sold \in Nat

PageAnswers ==
    \/ question = NoQuestion
    \/ question \in Questions /\ page \in FindProducts(question)
    \/ \E n \in Limits :
         /\ question = [of |-> "best", page |-> 1, limit |-> n]
         /\ \E b \in BestOf(n) : page = [products |-> b, total |-> Len(b)]
    \/ question.of = "featured"

MarketInv == ShelfRows /\ PageAnswers

LEMMA KeysAreNumbers ==
    ASSUME ShelfRows, NEW p \in shelf, NEW sort
    PROVE  /\ PrismaOrderBy(sort)[p] \in Int /\ Comparator(sort)[p] \in Int
           /\ MoreSold[p] \in Int
BY DEF ShelfRows, PrismaOrderBy, Comparator, MoreSold

LEMMA ProductsFound ==
    ASSUME ShelfRows, NEW q \in Questions, NEW a \in FindProducts(q)
    PROVE  LET all == {p \in FoundIn(q) : PassesFilters(q, p)}
           IN  IF FilteredAfterFetch(q) /\ ~WholeTables(q)
               THEN /\ \A i \in DOMAIN a.products : a.products[i] \in all
                    /\ InOrder(a.products, Comparator(q.sort))
                    /\ a.total <= Cardinality(all)
               ELSE /\ IsSlice(a.products, all, Comparator(q.sort), q)
                    /\ a.total = Cardinality(all)
<1> DEFINE K == {p \in FoundIn(q) : TableOf(p) = "KOPDES"}
           U == {p \in FoundIn(q) : TableOf(p) = "UMKM"}
           keep == {p \in shelf : PassesFilters(q, p)}
           all == {p \in FoundIn(q) : PassesFilters(q, p)}
           key == PrismaOrderBy(q.sort)
           order == Comparator(q.sort)
           limit == FetchLimit(q)
<1>1. PICK k \in FirstRows(K, key, limit), u \in FirstRows(U, key, limit) :
          a = [products |-> Slice(Merged(q, k, u), q),
               total |-> IF FilteredAfterFetch(q) THEN Len(Merged(q, k, u))
                         ELSE Cardinality(FoundIn(q))]
    BY DEF FindProducts, Fetched
<1>2. /\ q.page \in Nat \ {0} /\ q.limit \in Nat \ {0} /\ q.minRating \in Nat
    BY QuestionsAssumption
<1>3. limit \in Nat /\ limit = q.page * q.limit
    BY <1>2, PageEnds DEF FetchLimit
<1>4. FoundIn(q) \subseteq shelf /\ IsFiniteSet(FoundIn(q))
    <2>1. FoundIn(q) \in SUBSET shelf
        BY DEF FoundIn, KoperasiWhere, UmkmWhere
    <2> QED BY <2>1, FS_Subset DEF ShelfRows
<1>5. /\ K \cap U = {} /\ K \cup U = FoundIn(q) /\ IsFiniteSet(K) /\ IsFiniteSet(U)
      /\ IsFiniteSet(all)
    <2>1. K \cap U = {} /\ K \cup U = FoundIn(q)
        BY DEF TableOf
    <2>2. K \in SUBSET FoundIn(q) /\ U \in SUBSET FoundIn(q) /\ all \in SUBSET FoundIn(q)
        OBVIOUS
    <2> QED BY <1>4, <2>1, <2>2, FS_Subset
<1>6. \A p \in K \cup U : key[p] \in Int /\ order[p] \in Int
    BY <1>4, <1>5, KeysAreNumbers
<1>7. all = FoundIn(q) \cap keep
    BY <1>4
<1>8. WholeTables(q) <=> Cardinality(K) <= limit /\ Cardinality(U) <= limit
    BY DEF WholeTables
<1> DEFINE m == Merged(q, k, u)
<1>9. m = Sorted(Kept(k \o u, keep), order)
    BY DEF Merged
<1> HIDE DEF m, K, U, keep, all, key, order, limit
<1>10. /\ Listing(k, K) /\ Listing(u, U) /\ Range(k) \subseteq K /\ Range(u) \subseteq U
       /\ WholeTables(q) => Range(k) = K /\ Range(u) = U
    <2>1. Listing(k, K) /\ (Cardinality(K) <= limit => Range(k) = K)
        BY <1>3, <1>5, <1>6, FirstRowsAre
    <2>2. Listing(u, U) /\ (Cardinality(U) <= limit => Range(u) = U)
        BY <1>3, <1>5, <1>6, FirstRowsAre
    <2> QED BY <1>8, <2>1, <2>2, ListingRange
<1> DEFINE here == FoundIn(q)
<1>11. /\ Listing(m, here) /\ InOrder(m, order)
       /\ Range(m) = (Range(k) \cup Range(u)) \cap keep
    <2>1. Listing(k, here) /\ Listing(u, here) /\ Apart(k, u)
        BY <1>5, <1>10, ListingWider DEF Apart
    <2>2. \A p \in here : order[p] \in Int
        BY <1>5, <1>6
    <2> HIDE DEF here
    <2>3. Arranged(Sorted(Kept(k \o u, keep), order), here, order, Gathered(k, u, keep))
        BY <2>1, <2>2, MergeIs
    <2> QED BY <1>9, <2>3 DEF Arranged, Gathered
<1>12. Range(m) \subseteq all /\ Listing(m, all) /\ Len(m) <= Cardinality(all)
    <2>1. Range(m) \in SUBSET all
        BY <1>5, <1>7, <1>11, <1>10
    <2>2. Listing(m, all)
        BY <1>11, <2>1, ListingRange, ListingWider
    <2> QED BY <1>5, <2>1, <2>2, ListingLen, FS_Subset
<1>13. /\ a.products = Slice(m, q)
       /\ a.total = IF FilteredAfterFetch(q) THEN Len(m) ELSE Cardinality(FoundIn(q))
    BY <1>1 DEF m
<1>14. \A p \in all : order[p] \in Int
    BY <1>5, <1>6, <1>7
<1>15. CASE FilteredAfterFetch(q) /\ ~WholeTables(q)
    <2>1. /\ \A i \in DOMAIN Slice(m, q) : Slice(m, q)[i] \in all
          /\ InOrder(Slice(m, q), order)
        BY <1>2, <1>11, <1>12, SlicePart
    <2> QED BY <1>12, <1>13, <1>15, <2>1 DEF all, order
<1>16. CASE FilteredAfterFetch(q) /\ WholeTables(q)
    <2>1. Range(m) = all
        BY <1>5, <1>7, <1>11, <1>10, <1>16
    <2>2. IsSlice(Slice(m, q), all, order, q) /\ Len(m) = Cardinality(all)
        BY <1>2, <1>5, <1>11, <1>12, <1>14, <2>1, WholeSlice
    <2> QED BY <1>13, <1>16, <2>2 DEF all, order
<1>17. CASE ~FilteredAfterFetch(q)
    <2>1. key = order
        BY <1>17 DEF FilteredAfterFetch, Comparator, key, order
    <2>2. \A p \in shelf : PassesFilters(q, p)
        BY <1>2, <1>17 DEF FilteredAfterFetch, PassesFilters, ShelfRows
    <2>3. all = FoundIn(q) /\ K \cup U \subseteq keep
        BY <1>4, <1>5, <2>2 DEF all, keep
    <2>4. /\ k \in FirstRows(K, order, q.page * q.limit)
          /\ u \in FirstRows(U, order, q.page * q.limit)
        BY <1>3, <2>1
    <2>5. \A p \in K \cup U : order[p] \in Int
        BY <1>6
    <2>6. IsSlice(Slice(Sorted(Kept(k \o u, keep), order), q), K \cup U, order, q)
        BY <1>2, <1>5, <2>3, <2>4, <2>5, MergeSlice
    <2> QED BY <1>5, <1>9, <1>13, <1>17, <2>3, <2>6 DEF all, order
<1> QED BY <1>15, <1>16, <1>17

LEMMA BestSold ==
    ASSUME ShelfRows, \A p \in shelf : p.listed, NEW n \in Nat \ {0}, NEW b \in BestOf(n),
           NEW q, q.page = 1, q.limit = n
    PROVE  IsSlice(b, {p \in shelf : p.sold > 0}, MoreSold, q)
<1> DEFINE K == {p \in shelf : TableOf(p) = "KOPDES" /\ p.sold > 0}
           U == {p \in shelf : TableOf(p) = "UMKM" /\ p.sold > 0}
           keep == {p \in shelf : p.listed}
           all == {p \in shelf : p.sold > 0}
<1>0. /\ MostSold("KOPDES", n) = FirstRows(K, MoreSold, n)
      /\ MostSold("UMKM", n) = FirstRows(U, MoreSold, n)
    BY ZenonT(40) DEF MostSold
<1>1. PICK k \in FirstRows(K, MoreSold, n), u \in FirstRows(U, MoreSold, n) :
          b = Cut(Sorted(Kept(k \o u, keep), MoreSold), n)
    <2>1. \E k \in MostSold("KOPDES", n), u \in MostSold("UMKM", n) :
              b = Cut(Sorted(Kept(k \o u, keep), MoreSold), n)
        <3> HIDE DEF K, U, all
        <3> QED BY DEF BestOf
    <2> HIDE DEF K, U, keep, all
    <2> QED BY <1>0, <2>1, ZenonT(40)
<1>2. K \cup U = all /\ K \cap U = {} /\ K \cup U \subseteq keep
    BY DEF TableOf
<1>3. IsFiniteSet(K) /\ IsFiniteSet(U)
    <2>1. K \in SUBSET shelf /\ U \in SUBSET shelf
        OBVIOUS
    <2> QED BY <2>1, FS_Subset DEF ShelfRows
<1>4. \A p \in K \cup U : MoreSold[p] \in Int
    BY KeysAreNumbers
<1>5. q.page * q.limit = n /\ (q.page - 1) * q.limit = 0 /\ q.limit = n
      /\ 0 + 1 = 1 /\ 0 + n = n
    OBVIOUS
<1> DEFINE key == MoreSold
           m == Sorted(Kept(k \o u, keep), key)
<1>6. b = Slice(m, q)
    BY <1>1, <1>5 DEF Cut, Slice
<1> HIDE DEF K, U, keep, all, key
<1>7. k \in FirstRows(K, key, q.page * q.limit) /\ u \in FirstRows(U, key, q.page * q.limit)
    BY <1>5 DEF key
<1>8. \A p \in K \cup U : key[p] \in Int
    BY <1>4 DEF key
<1>9. IsSlice(Slice(m, q), K \cup U, key, q)
    BY <1>2, <1>3, <1>7, <1>8, MergeSlice
<1> QED BY <1>2, <1>6, <1>9 DEF all, key

LEMMA MarketHolds ==
    MarketInv => ProductPageIsSlice
<1> SUFFICES ASSUME MarketInv PROVE ProductPageIsSlice
    OBVIOUS
<1>1. CASE question = NoQuestion
    BY <1>1 DEF ProductPageIsSlice, NoQuestion, None
<1>2. CASE question \in Questions /\ page \in FindProducts(question)
    <2>1. question.of = "market"
        BY <1>2, QuestionsAssumption
    <2> QED BY <1>2, <2>1, ProductsFound DEF ProductPageIsSlice, MarketInv
<1>3. CASE \E n \in Limits :
             /\ question = [of |-> "best", page |-> 1, limit |-> n]
             /\ \E b \in BestOf(n) : page = [products |-> b, total |-> Len(b)]
    <2>1. PICK n \in Limits : /\ question = [of |-> "best", page |-> 1, limit |-> n]
                              /\ \E b \in BestOf(n) : page = [products |-> b, total |-> Len(b)]
        BY <1>3
    <2>2. PICK b \in BestOf(n) : page = [products |-> b, total |-> Len(b)]
        BY <2>1
    <2>3. n \in Nat \ {0} /\ question.page = 1 /\ question.limit = n /\ question.of = "best"
          /\ page.products = b
        BY <2>1, <2>2, QuestionsAssumption
    <2> QED BY <2>3, BestSold DEF ProductPageIsSlice, MarketInv
<1>4. CASE question.of = "featured"
    BY <1>4 DEF ProductPageIsSlice
<1> QED BY <1>1, <1>2, <1>3, <1>4 DEF MarketInv, PageAnswers

(* Answers are of the shelf alone.                                          *)
LEMMA AnswersOfShelf ==
    ASSUME shelf' = shelf
    PROVE  /\ \A q : FindProducts(q)' = FindProducts(q)
           /\ \A n : BestOf(n)' = BestOf(n)
           /\ ShelfRows => ShelfRows'
<1>1. /\ \A sort : PrismaOrderBy(sort)' = PrismaOrderBy(sort)
      /\ \A sort : Comparator(sort)' = Comparator(sort)
      /\ MoreSold' = MoreSold
    BY DEF PrismaOrderBy, Comparator, MoreSold
<1>2. \A q : FoundIn(q)' = FoundIn(q)
    BY DEF FoundIn, KoperasiWhere, UmkmWhere
<1>3. \A q, t : Fetched(q, t)' = Fetched(q, t)
    BY <1>1, <1>2 DEF Fetched
<1>4. \A q, k, u : Merged(q, k, u)' = Merged(q, k, u)
    BY <1>1 DEF Merged
<1>5. \A q : FindProducts(q)' = FindProducts(q)
    BY <1>2, <1>3, <1>4 DEF FindProducts
<1>6. \A t, n : MostSold(t, n)' = MostSold(t, n)
    BY <1>1 DEF MostSold
<1>7. \A n : BestOf(n)' = BestOf(n)
    BY SMTT(30), <1>1, <1>6 DEF BestOf
<1> QED BY <1>5, <1>7 DEF ShelfRows

LEMMA RowsStocked ==
    ASSUME Stocked
    PROVE  ShelfRows'
<1>0. PICK have \in SUBSET Ids : \E offer \in [have -> Offers] :
          shelf' = {[offer[i] EXCEPT !.id = i] : i \in have}
    BY DEF Stocked
<1>1. PICK offer \in [have -> Offers] : shelf' = {[offer[i] EXCEPT !.id = i] : i \in have}
    BY <1>0
<1> DEFINE row == [i \in have |-> [offer[i] EXCEPT !.id = i]]
<1>2. \A i \in have : /\ row[i].id \in Nat /\ row[i].price \in Int /\ row[i].far \in Nat
                      /\ row[i].rating \in Nat /\ row[i].sold \in Nat
    <2> SUFFICES ASSUME NEW i \in have
                 PROVE  /\ row[i].id \in Nat /\ row[i].price \in Int /\ row[i].far \in Nat
                        /\ row[i].rating \in Nat /\ row[i].sold \in Nat
        OBVIOUS
    <2>1. offer[i] \in [id : {0}, price : Int, far : Nat, rating : Nat, listed : BOOLEAN,
                        stock : Int, discounted : BOOLEAN, sold : Nat, featured : BOOLEAN]
        BY OffersAssumption
    <2>2. i \in Nat
        BY IdsAreNumbers
    <2> QED BY <2>1, <2>2
<1>3. shelf' = {row[i] : i \in have} /\ IsFiniteSet(have)
    BY <1>1, IdsAreNumbers, FS_Subset
<1> HIDE DEF row
<1>4. IsFiniteSet({row[i] : i \in have})
    BY <1>3, NumbersFinite
<1> QED BY <1>2, <1>3, <1>4 DEF ShelfRows

LEMMA MarketStep ==
    ASSUME MarketInv, MarketNext
    PROVE  MarketInv'
<1>1. CASE Stocked
    <2>1. question' = NoQuestion /\ NoQuestion' = NoQuestion
        BY <1>1 DEF Stocked, NoQuestion
    <2> QED BY <1>1, <2>1, RowsStocked DEF MarketInv, PageAnswers
<1>2. ASSUME NEW q \in Questions, Browse(q)
      PROVE  MarketInv'
    <2>1. shelf' = shelf /\ question' = q /\ page' \in FindProducts(q)
        BY <1>2 DEF Browse
    <2>2. FindProducts(q)' = FindProducts(q) /\ ShelfRows'
        BY <2>1, AnswersOfShelf DEF MarketInv
    <2>3. question' \in Questions /\ page' \in FindProducts(question)'
        BY <2>1, <2>2
    <2> QED BY <2>2, <2>3 DEF MarketInv, PageAnswers
<1>3. ASSUME NEW n \in Limits, AskBestSellers(n)
      PROVE  MarketInv'
    <2>1. PICK b \in BestOf(n) : page' = [products |-> b, total |-> Len(b)]
        BY <1>3 DEF AskBestSellers
    <2>2. shelf' = shelf /\ question' = [of |-> "best", page |-> 1, limit |-> n]
        BY <1>3 DEF AskBestSellers
    <2>3. b \in BestOf(n)' /\ ShelfRows'
        BY <2>2, AnswersOfShelf DEF MarketInv
    <2> QED BY <2>1, <2>2, <2>3 DEF MarketInv, PageAnswers
<1>4. ASSUME NEW n \in Limits, AskFeatured(n)
      PROVE  MarketInv'
    <2>1. shelf' = shelf /\ question'.of = "featured"
        BY <1>4 DEF AskFeatured
    <2> QED BY <2>1, AnswersOfShelf DEF MarketInv, PageAnswers
<1> QED BY <1>1, <1>2, <1>3, <1>4 DEF MarketNext

-----------------------------------------------------------------------------
(* The directory.                                                           *)
ShopRows ==
    /\ Listing(places, Rows)
    /\ \A p \in Rows : /\ p.name \in Nat /\ p.north \in -HalfTurn .. HalfTurn
                       /\ p.located \in BOOLEAN

SearchAnswers ==
    \/ search = NoQuestion
    \/ /\ search \in Searches
       /\ search.of \in {"nearby", "mitraNearby"} => found = FindNearby(search)
       /\ search.of \in {"all", "mitra"} => found = FindAll(search)

DirectoryInv == ShopRows /\ SearchAnswers

LEMMA MetersAre ==
    ASSUME ShopRows, NEW p \in Rows
    PROVE  /\ HaversineMeters(p.north) \in Int /\ HaversineMeters(p.north) < 20020000
           /\ Nearer[p] = HaversineMeters(p.north) /\ ByName[p] = p.name
           /\ Ahead[p] = IF p.located THEN HaversineMeters(p.north) ELSE 20020000
           /\ Nearer[p] \in Int /\ ByName[p] \in Int /\ Ahead[p] \in Int
<1>1. p.north \in Int /\ -HalfTurn <= p.north /\ p.north <= HalfTurn /\ p.name \in Int
    <2>1. HalfTurn \in Int
        BY DEF HalfTurn
    <2> QED BY <2>1 DEF ShopRows
<1>2. HaversineMeters(p.north) \in Int /\ HaversineMeters(p.north) < 20020000
    BY <1>1 DEF HaversineMeters, Away, HalfTurn
<1> QED BY <1>1, <1>2 DEF Nearer, ByName, Ahead

LEMMA RowsFinite ==
    ASSUME ShopRows
    PROVE  IsFiniteSet(Rows) /\ Range(places) = Rows /\ places \in Seq(Rows)
<1>1. Range(places) = Rows
    BY DEF Range, Rows
<1>2. Listing(places, Rows)
    BY DEF ShopRows
<1>3. places \in Seq(Rows)
    BY <1>2 DEF Listing
<1> QED BY <1>1, <1>2, <1>3, ListingLen

(* A list of all, in order.                                                 *)
LEMMA ListShown ==
    ASSUME NEW R, NEW all, IsFiniteSet(all), all \subseteq R,
           NEW key, \A p \in R : key[p] \in Int,
           NEW m, Listing(m, R), Range(m) = all, InOrder(m, key),
           NEW q, q.page \in Nat \ {0}, q.limit \in Nat \ {0}
    PROVE  IsSlice(Slice(m, q), all, key, q) /\ Len(m) = Cardinality(all)
<1>1. Listing(m, all)
    BY ListingRange
<1>2. \A p \in all : key[p] \in Int
    OBVIOUS
<1> QED BY <1>1, <1>2, WholeSlice

(* A list by distance.                                                      *)
LEMMA SortedByDistance ==
    ASSUME ShopRows, NEW shops, Listing(shops, Rows), NEW inReach
    PROVE  Arranged(SortByDistance(shops, inReach), Rows, Nearer,
                    {p \in Range(shops) \cap inReach : p.located})
<1> DEFINE keep == {p \in inReach : p.located}
           key == Nearer
           f == Kept(shops, keep)
<1>1. shops \in Seq(Rows)
    BY DEF Listing
<1>2. Listing(f, Rows) /\ f \in Seq(Rows) /\ Range(f) = Range(shops) \cap keep
    <2> HIDE DEF keep
    <2> QED BY <1>1, KeptIs
<1>3. Range(f) = {p \in Range(shops) \cap inReach : p.located}
    BY <1>2
<1>4. \A p \in Rows : key[p] \in Int
    BY MetersAre
<1> HIDE DEF f, key
<1>5. /\ Listing(Sorted(f, key), Rows) /\ Range(Sorted(f, key)) = Range(f)
      /\ InOrder(Sorted(f, key), key)
    BY <1>2, <1>4, SortedIs
<1>6. SortByDistance(shops, inReach) = Sorted(f, key)
    BY DEF SortByDistance, f, key
<1> QED BY <1>3, <1>5, <1>6 DEF Arranged, key

LEMMA NearbyFound ==
    ASSUME ShopRows, NEW q \in Searches, q.of \in {"nearby", "mitraNearby"}
    PROVE  LET near == {p \in Rows : /\ p.active /\ p.located
                                     /\ InBox(p, q.radius) /\ Within(p, q.radius)
                                     /\ q.openNow => p.open = "yes"}
           IN  /\ IsSlice(FindNearby(q).shops, near, Nearer, q)
               /\ FindNearby(q).total = Cardinality(near)
<1> DEFINE near == {p \in Rows : /\ p.active /\ p.located
                                 /\ InBox(p, q.radius) /\ Within(p, q.radius)
                                 /\ q.openNow => p.open = "yes"}
           listed == {p \in Rows : Listed(p) /\ p.located /\ InBox(p, q.radius)}
           reach == {p \in Rows : Within(p, q.radius)}
           open == {p \in Rows : q.openNow => p.open = "yes"}
           key == Nearer
           c == Kept(places, listed)
           d == SortByDistance(c, reach)
           m == Kept(d, open)
<1>1. q.page \in Nat \ {0} /\ q.limit \in Nat \ {0}
    BY SearchesAssumption
<1>2. FindNearby(q) = [shops |-> Slice(m, q), total |-> Len(m)]
    BY DEF FindNearby
<1>3. near = {p \in Range(places) \cap listed \cap reach : p.located} \cap open
    BY RowsFinite DEF Listed
<1>4. IsFiniteSet(near)
    <2>1. near \in SUBSET Rows
        OBVIOUS
    <2> QED BY <2>1, RowsFinite, FS_Subset
<1>5. \A p \in Rows : key[p] \in Int
    BY MetersAre
<1>6. near \subseteq Rows
    OBVIOUS
<1> HIDE DEF near, listed, reach, open, m, d, c
<1>7. Listing(c, Rows) /\ Range(c) = Range(places) \cap listed
    BY RowsFinite, KeptIs DEF c, ShopRows
<1>8. Arranged(d, Rows, key, {p \in Range(c) \cap reach : p.located})
    BY <1>7, SortedByDistance DEF d
<1>9. Listing(d, Rows) /\ d \in Seq(Rows) /\ InOrder(d, key)
      /\ Range(d) = {p \in Range(c) \cap reach : p.located}
    BY <1>8 DEF Arranged, Listing
<1> HIDE DEF key
<1>10. Listing(m, Rows) /\ InOrder(m, key) /\ Range(m) = Range(d) \cap open
    BY <1>9, KeptIs DEF m
<1>11. Range(m) = near
    BY <1>3, <1>7, <1>9, <1>10
<1>12. Listing(m, near)
    BY <1>10, <1>11, ListingRange
<1>13. \A p \in near : key[p] \in Int
    BY <1>5, <1>6
<1>14. IsSlice(Slice(m, q), near, key, q) /\ Len(m) = Cardinality(near)
    BY <1>1, <1>4, <1>10, <1>11, <1>12, <1>13, WholeSlice
<1> QED BY <1>2, <1>14 DEF near, key

LEMMA AllFound ==
    ASSUME ShopRows, NEW q \in Searches, q.of \in {"all", "mitra"}
    PROVE  LET all == {p \in Rows : p.active /\ (q.withProductsOnly => p.products)}
           IN  /\ IF q.origin THEN IsSlice(FindAll(q).shops, all, Ahead, q)
                  ELSE IsSlice(FindAll(q).shops, all, ByName, q)
               /\ FindAll(q).total = Cardinality(all)
<1> DEFINE all == {p \in Rows : p.active /\ (q.withProductsOnly => p.products)}
           nowhere == {p \in Rows : ~p.located}
           key == IF q.origin THEN Ahead ELSE ByName
           c == Kept(places, all)
           d == SortByDistance(c, Rows)
           e == Kept(c, nowhere)
           m == IF q.origin THEN d \o e ELSE Sorted(c, ByName)
<1>1. q.page \in Nat \ {0} /\ q.limit \in Nat \ {0}
    BY SearchesAssumption
<1>2. FindAll(q) = [shops |-> Slice(m, q), total |-> Len(m)]
    BY DEF FindAll, Listed
<1>3. IsFiniteSet(all) /\ all \subseteq Rows
    <2>1. all \in SUBSET Rows
        OBVIOUS
    <2> QED BY <2>1, RowsFinite, FS_Subset
<1>4. \A p \in Rows : ByName[p] \in Int /\ Ahead[p] \in Int /\ key[p] \in Int
    BY MetersAre
<1>5. \A p \in Rows : p \in nowhere <=> ~p.located
    OBVIOUS
<1> HIDE DEF all, nowhere, c, d, e, m, key
<1>6. Listing(c, Rows) /\ c \in Seq(Rows) /\ Range(c) = all
    <2>1. Listing(places, Rows) /\ places \in Seq(Rows) /\ Range(places) = Rows
        BY RowsFinite DEF ShopRows
    <2>2. Listing(c, Rows) /\ c \in Seq(Rows) /\ Range(c) = Rows \cap all
        BY <2>1, KeptIs DEF c
    <2> QED BY <1>3, <2>2
<1>7. ASSUME q.origin
      PROVE  InOrder(m, key) /\ Listing(m, Rows) /\ Range(m) = all
    <2>1. Arranged(d, Rows, Nearer, {p \in Range(c) \cap Rows : p.located})
        BY <1>6, SortedByDistance DEF d
    <2>2. /\ Listing(d, Rows) /\ d \in Seq(Rows) /\ InOrder(d, Nearer)
          /\ \A p : p \in Range(d) <=> p \in all /\ p \in Rows /\ p.located
        BY <1>6, <2>1 DEF Arranged, Listing
    <2>3. /\ Listing(e, Rows) /\ e \in Seq(Rows) /\ Range(e) = all \cap nowhere
        BY <1>6, KeptIs DEF e
    <2>4. InOrder(d, Ahead)
        <3>1. DOMAIN d = 1 .. Len(d) /\ \A i \in 1 .. Len(d) : d[i] \in Range(d)
            BY <2>2, RangeIs
        <3>2. \A i \in DOMAIN d : Ahead[d[i]] = Nearer[d[i]]
            BY <2>2, <3>1, MetersAre
        <3> QED BY <2>2, <3>2 DEF InOrder
    <2>5. InOrder(e, Ahead)
        <3>1. DOMAIN e = 1 .. Len(e) /\ \A i \in 1 .. Len(e) : e[i] \in Range(e)
            BY <2>3, RangeIs
        <3>2. \A i \in DOMAIN e : Ahead[e[i]] = 20020000
            BY <1>3, <1>5, <2>3, <3>1, MetersAre
        <3> QED BY <3>2 DEF InOrder
    <2>6. \A p \in Range(d) : \A r \in Range(e) : Ahead[p] <= Ahead[r]
        <3> SUFFICES ASSUME NEW p \in Range(d), NEW r \in Range(e) PROVE Ahead[p] <= Ahead[r]
            OBVIOUS
        <3>1. p \in Rows /\ p.located /\ r \in Rows /\ ~r.located
            BY <1>3, <1>5, <2>2, <2>3
        <3>2. Ahead[p] = HaversineMeters(p.north) /\ Ahead[r] = 20020000
              /\ HaversineMeters(p.north) \in Int /\ HaversineMeters(p.north) < 20020000
            BY <3>1, MetersAre
        <3> QED BY <3>2
    <2>7. InOrder(m, key)
        <3>1. InOrder(d \o e, Ahead)
            BY <2>2, <2>3, <2>4, <2>5, <2>6, ConcatOrder
        <3> QED BY <1>7, <3>1 DEF m, key
    <2>8. Listing(m, Rows)
        <3>1. Apart(d, e)
            BY <1>5, <2>2, <2>3 DEF Apart
        <3>2. Listing(d \o e, Rows)
            BY <2>2, <2>3, <3>1, ConcatIs
        <3> QED BY <1>7, <3>2 DEF m
    <2>9. Range(m) = all
        <3>1. Range(d \o e) = Range(d) \cup Range(e)
            BY <2>2, <2>3, RangeConcatenation
        <3>2. Range(d) \cup Range(e) = all
            BY <1>3, <1>5, <2>2, <2>3
        <3> QED BY <1>7, <3>1, <3>2 DEF m
    <2> QED BY <2>7, <2>8, <2>9
<1>8. ASSUME ~q.origin
      PROVE  InOrder(m, key) /\ Listing(m, Rows) /\ Range(m) = all
    <2>1. /\ Listing(Sorted(c, ByName), Rows) /\ Range(Sorted(c, ByName)) = Range(c)
          /\ InOrder(Sorted(c, ByName), ByName)
        BY <1>4, <1>6, SortedIs
    <2>2. m = Sorted(c, ByName) /\ key = ByName
        BY <1>8 DEF m, key
    <2> QED BY <1>6, <2>1, <2>2
<1>9. IsSlice(Slice(m, q), all, key, q) /\ Len(m) = Cardinality(all)
    <2>1. InOrder(m, key) /\ Listing(m, Rows) /\ Range(m) = all
        BY <1>7, <1>8
    <2> QED BY <1>1, <1>3, <1>4, <2>1, ListShown
<1> QED BY <1>2, <1>9 DEF all, key

LEMMA DirectoryHolds ==
    DirectoryInv => ShopsPageIsSlice
<1> SUFFICES ASSUME DirectoryInv PROVE ShopsPageIsSlice
    OBVIOUS
<1>1. CASE search = NoQuestion
    BY <1>1 DEF ShopsPageIsSlice, NoQuestion, None
<1>2. CASE search \in Searches /\ search.of \in {"nearby", "mitraNearby"}
    <2>1. found = FindNearby(search) /\ search.of \notin {"all", "mitra"}
        BY <1>2 DEF DirectoryInv, SearchAnswers, NoQuestion, None
    <2> QED BY <1>2, <2>1, NearbyFound DEF ShopsPageIsSlice, DirectoryInv
<1>3. CASE search \in Searches /\ search.of \in {"all", "mitra"}
    <2>1. found = FindAll(search) /\ search.of \notin {"nearby", "mitraNearby"}
        BY <1>3 DEF DirectoryInv, SearchAnswers, NoQuestion, None
    <2> QED BY <1>3, <2>1, AllFound DEF ShopsPageIsSlice, DirectoryInv
<1>4. search = NoQuestion \/ search \in Searches
    BY DEF DirectoryInv, SearchAnswers
<1> QED BY <1>1, <1>2, <1>3, <1>4, SearchesAssumption

(* 998 meters of a kilometer are inside the box: at one kilometer because a  *)
(* step of 0.0001 degree is 11 meters, beyond it by the ratio.              *)
LEMMA InsideIsInBox ==
    ASSUME NEW p, p.north \in Int, NEW R \in Nat,
           HaversineMeters(p.north) <= R * 998
    PROVE  InBox(p, R)
<1> DEFINE a == Away(p.north)
<1>1. a \in Int /\ 0 <= a
    BY DEF Away
<1>2. (a * 1111949) \div 100000 <= R * 998
    BY DEF HaversineMeters
<1> HIDE DEF a
<1>3. a * 1111949 < (R * 998 + 1) * 100000
    BY <1>1, <1>2
<1>4. a * 11132 <= R * 1000000
    BY <1>1, <1>3
<1>5. a <= (R * 1000000) \div 11132
    BY <1>1, <1>4
<1> QED BY <1>5 DEF InBox, LatDelta, a

LEMMA OnlyTheRim ==
    DirectoryInv => BoxMissesOnlyTheRim
<1> SUFFICES ASSUME DirectoryInv, search.of \in {"nearby", "mitraNearby"}
             PROVE  BoxMissesOnlyTheRim
    BY DEF BoxMissesOnlyTheRim
<1> DEFINE R == search.radius
           wanted == {p \in Rows : p.active /\ p.located /\ (search.openNow => p.open = "yes")}
           near == {p \in Rows : /\ p.active /\ p.located
                                 /\ InBox(p, R) /\ Within(p, R)
                                 /\ search.openNow => p.open = "yes"}
           reached == {p \in wanted : Within(p, R)}
           inside == {p \in wanted : HaversineMeters(p.north) <= R * 998}
<1>1. ShopRows /\ search \in Searches
    BY DEF DirectoryInv, SearchAnswers, NoQuestion, None
<1>2. found.total = Cardinality(near)
    BY DirectoryHolds DEF ShopsPageIsSlice
<1>3. R \in Nat
    BY <1>1, SearchesAssumption
<1>4. near \subseteq reached
    OBVIOUS
<1>5. inside \subseteq near
    <2> SUFFICES ASSUME NEW p \in Rows, HaversineMeters(p.north) <= R * 998
                 PROVE  InBox(p, R) /\ Within(p, R)
        OBVIOUS
    <2>1. p.north \in Int /\ HaversineMeters(p.north) \in Int
        BY <1>1, MetersAre DEF ShopRows
    <2>2. R * 998 <= R * 1000
        BY <1>3
    <2> HIDE DEF R
    <2> QED BY <1>3, <2>1, <2>2, InsideIsInBox DEF Within
<1>6. IsFiniteSet(reached) /\ IsFiniteSet(near)
    <2>1. reached \in SUBSET Rows /\ near \in SUBSET Rows
        OBVIOUS
    <2> HIDE DEF reached, near
    <2> QED BY <1>1, <2>1, RowsFinite, FS_Subset
<1>7. Cardinality(inside) <= Cardinality(near) /\ Cardinality(near) <= Cardinality(reached)
    <2> HIDE DEF reached, near, inside
    <2> QED BY <1>4, <1>5, <1>6, FS_Subset
<1> QED BY <1>2, <1>7 DEF BoxMissesOnlyTheRim

(* Answers are of the shops alone.                                          *)
LEMMA AnswersOfShops ==
    ASSUME places' = places
    PROVE  /\ \A q : FindNearby(q)' = FindNearby(q)
           /\ \A q : FindAll(q)' = FindAll(q)
           /\ ShopRows => ShopRows'
<1>1. Rows' = Rows
    BY DEF Rows
<1>2. Nearer' = Nearer /\ ByName' = ByName
    BY <1>1 DEF Nearer, ByName
<1>3. \A shops, inReach : SortByDistance(shops, inReach)' = SortByDistance(shops, inReach)
    BY <1>2 DEF SortByDistance
<1>4. \A q : FindNearby(q)' = FindNearby(q)
    BY <1>1, <1>3 DEF FindNearby
<1>5. \A q : FindAll(q)' = FindAll(q)
    BY <1>1, <1>2, <1>3 DEF FindAll
<1>6. ShopRows => ShopRows'
    BY <1>1 DEF ShopRows
<1> QED BY <1>4, <1>5, <1>6

LEMMA ShopsFounded ==
    ASSUME Founded
    PROVE  ShopRows'
<1>0. PICK n \in 1 .. MaxShops : \E site \in [1 .. n -> Sites] :
          places' = [i \in 1 .. n |-> [site[i] EXCEPT !.name = i]]
    BY DEF Founded
<1>1. PICK site \in [1 .. n -> Sites] :
          places' = [i \in 1 .. n |-> [site[i] EXCEPT !.name = i]]
    BY <1>0
<1> DEFINE row == [i \in 1 .. n |-> [site[i] EXCEPT !.name = i]]
<1>2. n \in Nat
    BY MaxShopsAssumption
<1>3. \A i \in 1 .. n : /\ row[i].name = i /\ row[i].north \in -HalfTurn .. HalfTurn
                        /\ row[i].located \in BOOLEAN
    <2> SUFFICES ASSUME NEW i \in 1 .. n
                 PROVE  /\ row[i].name = i /\ row[i].north \in -HalfTurn .. HalfTurn
                        /\ row[i].located \in BOOLEAN
        OBVIOUS
    <2>1. site[i] \in [name : {0}, north : -HalfTurn .. HalfTurn, located : BOOLEAN,
                       active : BOOLEAN, open : STRING, products : BOOLEAN]
        BY SitesAssumption
    <2> QED BY <2>1
<1>4. places' = row
    BY <1>1
<1>5. DOMAIN row = 1 .. n
    OBVIOUS
<1>6. row = [i \in 1 .. n |-> row[i]]
    OBVIOUS
<1> HIDE DEF row
<1>7. DOMAIN places' = 1 .. n /\ Rows' = {row[i] : i \in 1 .. n}
    BY <1>4, <1>5 DEF Rows
<1>8. row \in Seq(Rows') /\ Len(row) = n
    <2>1. \A i \in 1 .. n : row[i] \in Rows'
        BY <1>7
    <2> QED BY <1>2, <1>5, <1>6, <2>1
<1>9. \A i, j \in 1 .. n : i # j => row[i] # row[j]
    BY <1>3
<1>10. Listing(row, Rows')
    BY <1>8, <1>9 DEF Listing
<1>11. \A p \in Rows' : /\ p.name \in Nat /\ p.north \in -HalfTurn .. HalfTurn
                        /\ p.located \in BOOLEAN
    BY <1>2, <1>3, <1>7
<1>12. ShopRows' <=> /\ Listing(places', Rows')
                     /\ \A p \in Rows' : /\ p.name \in Nat
                                         /\ p.north \in -HalfTurn .. HalfTurn
                                         /\ p.located \in BOOLEAN
    BY DEF ShopRows, Listing
<1> QED BY <1>4, <1>10, <1>11, <1>12

LEMMA DirectoryStep ==
    ASSUME DirectoryInv, DirectoryNext
    PROVE  DirectoryInv'
<1>1. CASE Founded
    <2>1. search' = NoQuestion /\ NoQuestion' = NoQuestion
        BY <1>1 DEF Founded, NoQuestion
    <2> QED BY <1>1, <2>1, ShopsFounded DEF DirectoryInv, SearchAnswers
<1>2. ASSUME NEW q \in Searches, NEW a, Answered(q, a),
             q.of \in {"nearby", "mitraNearby"} => a = FindNearby(q),
             q.of \in {"all", "mitra"} => a = FindAll(q)
      PROVE  DirectoryInv'
    <2>1. places' = places /\ search' = q /\ found' = a
        BY <1>2 DEF Answered
    <2>2. /\ FindNearby(q)' = FindNearby(q) /\ FindAll(q)' = FindAll(q)
          /\ ShopRows'
        BY <2>1, AnswersOfShops DEF DirectoryInv
    <2>3. /\ search'.of \in {"nearby", "mitraNearby"} => found' = FindNearby(search)'
          /\ search'.of \in {"all", "mitra"} => found' = FindAll(search)'
        BY <1>2, <2>1, <2>2
    <2> QED BY <1>2, <2>1, <2>2, <2>3 DEF DirectoryInv, SearchAnswers
<1> QED
    BY <1>1, <1>2 DEF DirectoryNext, SearchNearby, SearchAll, MitraNearby, MitraAll

-----------------------------------------------------------------------------
(* A step is one part's, or none's.                                         *)
LEMMA OneSceneMoves ==
    ASSUME Next
    PROVE  /\ scene' = scene
           /\ scene = "cache" => CacheNext
           /\ scene # "cache" => UNCHANGED cacheVars
           /\ scene = "rights" => RightsNext
           /\ scene # "rights" => UNCHANGED rightsVars
           /\ MarketNext \/ UNCHANGED marketVars
           /\ DirectoryNext \/ UNCHANGED directoryVars
           /\ scene = "hours" => HoursNext
           /\ scene # "hours" => UNCHANGED hoursVars
           /\ scene = "figures" => FiguresNext
           /\ scene # "figures" => UNCHANGED figureVars
BY DEF Next, Plays, cacheVars, rightsVars, marketVars, directoryVars, hoursVars, figureVars

CachePart == IF scene = "cache" THEN CacheInv ELSE CacheInit

RightsPart == IF scene = "rights" THEN RightsInv ELSE RightsInit

HoursPart == IF scene = "hours" THEN HoursInv ELSE HoursInit

FiguresPart == IF scene = "figures" THEN FiguresInv ELSE FiguresInit

LEMMA CachePartKept ==
    CachePart /\ [Next]_vars => CachePart'
<1>1. ASSUME CachePart, UNCHANGED vars
      PROVE  CachePart'
    BY <1>1 DEF vars, cacheVars, CachePart, CacheInit, CacheInv, CacheRows, CacheJobs, Timely,
                Excused
<1>2. ASSUME CacheInv, Next, scene = "cache"
      PROVE  CachePart'
    BY <1>2, OneSceneMoves, CacheStep DEF CachePart
<1>3. ASSUME CacheInit, Next, scene # "cache"
      PROVE  CachePart'
    BY <1>3, OneSceneMoves DEF CachePart, CacheInit, cacheVars
<1> QED BY <1>1, <1>2, <1>3 DEF CachePart

LEMMA RightsPartKept ==
    RightsPart /\ [Next]_vars => RightsPart'
<1>1. ASSUME RightsPart, UNCHANGED vars
      PROVE  RightsPart'
    BY <1>1 DEF vars, rightsVars, RightsPart, RightsInit, RightsInv, RightsJobs, Agrees, Same,
                Untold
<1>2. ASSUME RightsInv, Next, scene = "rights"
      PROVE  RightsPart'
    BY <1>2, OneSceneMoves, RightsStep DEF RightsPart
<1>3. ASSUME RightsInit, Next, scene # "rights"
      PROVE  RightsPart'
    BY <1>3, OneSceneMoves DEF RightsPart, RightsInit, rightsVars
<1> QED BY <1>1, <1>2, <1>3 DEF RightsPart

LEMMA HoursPartKept ==
    HoursPart /\ [Next]_vars => HoursPart'
<1>1. ASSUME HoursPart, UNCHANGED vars
      PROVE  HoursPart'
    BY <1>1 DEF vars, hoursVars, HoursPart, HoursInit, HoursInv
<1>2. ASSUME HoursInv, Next, scene = "hours"
      PROVE  HoursPart'
    BY <1>2, OneSceneMoves, HoursStep DEF HoursPart
<1>3. ASSUME HoursInit, Next, scene # "hours"
      PROVE  HoursPart'
    BY <1>3, OneSceneMoves DEF HoursPart, HoursInit, hoursVars
<1> QED BY <1>1, <1>2, <1>3 DEF HoursPart

LEMMA FiguresPartKept ==
    FiguresPart /\ [Next]_vars => FiguresPart'
<1>1. ASSUME FiguresInv, UNCHANGED vars
      PROVE  FiguresInv'
    <2>1. /\ sales' = sales /\ goods' = goods /\ figure' = figure
        BY <1>1 DEF vars, figureVars
    <2>2. FigureRows' /\ NoFigure' = NoFigure
        BY <1>1, <2>1 DEF FiguresInv, FigureRows, NoFigure
    <2>3. FigureAnswer => FigureAnswer'
        BY <2>1, AnswerStays
    <2> QED BY <1>1, <2>1, <2>2, <2>3 DEF FiguresInv, FigureAsked
<1>2. ASSUME FiguresInit, UNCHANGED vars
      PROVE  FiguresInit'
    BY <1>2 DEF vars, figureVars, FiguresInit, NoFigure
<1>3. UNCHANGED vars => scene' = scene
    BY DEF vars
<1>4. ASSUME FiguresInv, Next, scene = "figures"
      PROVE  FiguresPart'
    BY <1>4, OneSceneMoves, FiguresStep DEF FiguresPart
<1>5. ASSUME FiguresInit, Next, scene # "figures"
      PROVE  FiguresPart'
    BY <1>5, OneSceneMoves DEF FiguresPart, FiguresInit, figureVars, NoFigure
<1> QED BY <1>1, <1>2, <1>3, <1>4, <1>5 DEF FiguresPart

ListsInv == MarketInv /\ DirectoryInv

LEMMA ListsStart ==
    MarketInit /\ DirectoryInit => ListsInv
<1> SUFFICES ASSUME MarketInit, DirectoryInit PROVE ListsInv
    OBVIOUS
<1>1. MarketInv
    BY FS_EmptySet DEF MarketInit, MarketInv, ShelfRows, PageAnswers
<1>2. Rows = {} /\ places \in Seq(Rows) /\ Len(places) = 0
    BY DEF DirectoryInit, Rows
<1>3. ShopRows
    BY <1>2 DEF ShopRows, Listing
<1>4. SearchAnswers
    BY DEF DirectoryInit, SearchAnswers
<1> QED BY <1>1, <1>3, <1>4 DEF ListsInv, DirectoryInv

LEMMA ListsStay ==
    ASSUME ListsInv
    PROVE  /\ UNCHANGED marketVars => MarketInv'
           /\ UNCHANGED directoryVars => DirectoryInv'
<1>1. ASSUME UNCHANGED marketVars
      PROVE  MarketInv'
    <2>1. shelf' = shelf /\ question' = question /\ page' = page
        BY <1>1 DEF marketVars
    <2>2. ShelfRows' /\ NoQuestion' = NoQuestion
        BY <2>1, AnswersOfShelf DEF ListsInv, MarketInv, NoQuestion
    <2>3. PICK q : q = question
        OBVIOUS
    <2>4. FindProducts(q)' = FindProducts(q) /\ \A n : BestOf(n)' = BestOf(n)
        BY <2>1, AnswersOfShelf
    <2>5. question' = q /\ PageAnswers
        BY <2>1, <2>3 DEF ListsInv, MarketInv
    <2>6. PageAnswers'
        BY <2>1, <2>2, <2>3, <2>4, <2>5 DEF PageAnswers
    <2> QED BY <2>2, <2>6 DEF MarketInv
<1>2. ASSUME UNCHANGED directoryVars
      PROVE  DirectoryInv'
    <2>1. places' = places /\ search' = search /\ found' = found
        BY <1>2 DEF directoryVars
    <2>2. ShopRows' /\ NoQuestion' = NoQuestion
        BY <2>1, AnswersOfShops DEF ListsInv, DirectoryInv, NoQuestion
    <2>3. PICK q : q = search
        OBVIOUS
    <2>4. FindNearby(q)' = FindNearby(q) /\ FindAll(q)' = FindAll(q)
        BY <2>1, AnswersOfShops
    <2>5. search' = q /\ SearchAnswers
        BY <2>1, <2>3 DEF ListsInv, DirectoryInv
    <2>6. SearchAnswers'
        BY <2>1, <2>2, <2>3, <2>4, <2>5 DEF SearchAnswers
    <2> QED BY <2>2, <2>6 DEF DirectoryInv
<1> QED BY <1>1, <1>2

LEMMA ListsKept ==
    ListsInv /\ [Next]_vars => ListsInv'
<1>1. ASSUME ListsInv, UNCHANGED vars
      PROVE  ListsInv'
    <2>1. UNCHANGED marketVars /\ UNCHANGED directoryVars
        BY <1>1 DEF vars
    <2> QED BY <1>1, <2>1, ListsStay DEF ListsInv
<1>2. ASSUME ListsInv, Next
      PROVE  ListsInv'
    BY <1>2, OneSceneMoves, MarketStep, DirectoryStep, ListsStay DEF ListsInv
<1> QED BY <1>1, <1>2

(* What get() returns is what the database said at the read behind it; where  *)
(* that is wrong, a drop is under way, was lost, came between the read and   *)
(* the set(), is missing in a handler that Silent names, or was for another  *)
(* key in one that SilentToOthers names.                                    *)
THEOREM KeptAnswersFollow == Spec => []CacheFollows
<1>1. Init => CachePart
    BY CacheStarts DEF Init, CachePart
<1>2. CachePart => CacheFollows
    BY CacheHolds DEF CachePart, CacheInit, CacheFollows
<1> QED BY <1>1, <1>2, CachePartKept, PTL DEF Spec

(* What the guard lets a call pass by is what the account says, or said       *)
(* before an edit whose invalidation is under way, was lost or was overtaken *)
(* by the guard's own read.                                                 *)
THEOREM KeptRightsFollow == Spec => []RightsFollowAccount
<1>1. Init => RightsPart
    BY RightsStart DEF Init, RightsPart
<1>2. RightsPart => RightsFollowAccount
    BY RightsHold DEF RightsPart, RightsInit, RightsFollowAccount
<1> QED BY <1>1, <1>2, RightsPartKept, PTL DEF Spec

(* A card that says open or closed says what the posted hours say of the     *)
(* local hour, for every week a shop can post and every hour it is asked,    *)
(* where a day that runs past midnight has the next day's hours.            *)
THEOREM CardsAsPosted == Spec => []OpenAsPosted
<1>1. HoursInit => HoursInv /\ OpenAsPosted
    <2>1. NotAsked.of = "nothing"
        BY DEF NotAsked
    <2> QED BY <2>1 DEF HoursInit, HoursInv, OpenAsPosted
<1>2. Init => HoursPart
    BY <1>1 DEF Init, HoursPart
<1>3. HoursPart => OpenAsPosted
    BY <1>1, HoursHold DEF HoursPart
<1> QED BY <1>2, <1>3, HoursPartKept, PTL DEF Spec

(* The figures fit together for any number of orders and products of any      *)
(* amounts: days and months are the village's where the console and the      *)
(* courier ask, one period ends where the next begins, the week is the sum   *)
(* of its days, the fees shown differ from the fee of the sum by rounding    *)
(* alone, and every product is in one list.                                 *)
THEOREM FiguresFit == Spec => []FiguresAddUp
<1>1. Init => FiguresPart
    BY FS_EmptySet DEF Init, FiguresPart, FiguresInit, FiguresInv, FigureRows
<1>2. FiguresPart => FiguresAddUp
    BY FiguresHold DEF FiguresPart, FiguresInit, FiguresAddUp, NoFigure, None
<1> QED BY <1>1, <1>2, FiguresPartKept, PTL DEF Spec

(* A page of products, of cooperatives or of partners' shops is the right    *)
(* piece of the whole ordered list and its total the length of that list,    *)
(* for any number of rows, every page and every limit, although a table of   *)
(* products gives no more than page * limit rows and equal rows come in any   *)
(* order; with a filter that works after the fetch, when the tables were     *)
(* fetched whole.  The best sellers are the most sold while all are shown.   *)
THEOREM PagesAreSlices == Spec => []PageIsSlice
<1>1. Init => ListsInv
    BY ListsStart DEF Init
<1>2. ListsInv => PageIsSlice
    BY MarketHolds, DirectoryHolds DEF ListsInv, PageIsSlice
<1> QED BY <1>1, <1>2, ListsKept, PTL DEF Spec

(* The box the database searches is smaller than the circle asked for, but   *)
(* only at the rim: every shop nearer than 998 meters of each kilometer is   *)
(* counted, and none beyond the radius, for any radius and any shops.        *)
THEOREM BoxOnlyMissesRim == Spec => []BoxMissesOnlyTheRim
<1>1. Init => ListsInv
    BY ListsStart DEF Init
<1>2. ListsInv => BoxMissesOnlyTheRim
    BY OnlyTheRim DEF ListsInv
<1> QED BY <1>1, <1>2, ListsKept, PTL DEF Spec
=============================================================================
