------------------------------- MODULE Market -------------------------------
(***************************************************************************)
(* MarketplaceService.findProducts and DiscoveryService.bestSellers: one     *)
(* list made of two tables, the goods of the cooperatives and the wares of   *)
(* their partners.  Each table is asked for as many rows as the page can     *)
(* need, the rows are merged, sorted and cut.  An answer is a function of    *)
(* the shelf and the question, up to the order the database gives to rows    *)
(* that compare equal.                                                      *)
(***************************************************************************)
EXTENDS Requests, SequencesExt, Integers

CONSTANTS Offers,          \* what a product can be like
          Ids,             \* the products there may be, numbered as they were made
          Wares,           \* the ones that are a partner's
          Questions,       \* for findProducts
          Limits           \* rows of a page of the other lists

(* Page and limit of a request begin at one (PaginationDto).                 *)
ASSUME IdsAreNumbers == IsFiniteSet(Ids) /\ Ids \subseteq Nat
ASSUME OffersAssumption ==
    Offers \subseteq [id : {0}, price : Int, far : Nat, rating : Nat, listed : BOOLEAN,
                     stock : Int, discounted : BOOLEAN, sold : Nat, featured : BOOLEAN]
ASSUME QuestionsAssumption ==
    /\ Questions \subseteq [of : {"market"}, sort : STRING, seller : STRING, inStock : BOOLEAN,
                           discounted : BOOLEAN, maxPrice : Int, minRating : Nat, radius : Nat,
                           page : Nat \ {0}, limit : Nat \ {0}]
    /\ Limits \subseteq Nat \ {0}

(* The table a row is in.                                                   *)
TableOf(p) == IF p.id \in Wares THEN "UMKM" ELSE "KOPDES"

VARIABLES shelf,           \* the rows of both tables
          question,        \* the request answered last
          page             \* its answer

marketVars == <<shelf, question, page>>

NoQuestion == [of |-> None]

NoPlace == 0               \* the shop has no coordinates

MarketInit ==
    /\ shelf = {}
    /\ question = NoQuestion
    /\ page = <<>>

(* The rows are written by other handlers: here they are there.              *)
Stocked ==
    /\ shelf = {} /\ question = NoQuestion
    /\ \E have \in SUBSET Ids : \E offer \in [have -> Offers] :
         shelf' = {[offer[i] EXCEPT !.id = i] : i \in have}
    /\ UNCHANGED <<question, page, job>>

(* priceWhere.                                                              *)
PriceWhere(q, p) == p.price <= q.maxPrice

(* koperasiWhere, umkmWhere: listed stands for isActive, with a partner's    *)
(* isApproved and the ACTIVE status of his shop.  Category, cooperative, shop *)
(* and search word narrow the shelf in the same way and are left out.        *)
KoperasiWhere(q) ==
    {p \in shelf : /\ TableOf(p) = "KOPDES" /\ p.listed
                   /\ q.inStock => p.stock > 0
                   /\ q.discounted => p.discounted
                   /\ PriceWhere(q, p)}

UmkmWhere(q) ==
    {p \in shelf : /\ TableOf(p) = "UMKM" /\ p.listed
                   /\ q.inStock => p.stock > 0
                   /\ PriceWhere(q, p)}

(* prismaOrderBy, by which the tables choose their rows, and comparator, by   *)
(* which the merged rows are sorted: what has the smaller number comes first. *)
PrismaOrderBy(sort) ==
    [p \in shelf |-> CASE sort = "price_asc" -> p.price
                       [] sort = "price_desc" -> -p.price
                       [] OTHER -> -p.id]

Comparator(sort) ==
    IF sort = "distance" THEN [p \in shelf |-> p.far] ELSE PrismaOrderBy(sort)

(* ORDER BY ... LIMIT: every order the database may choose.                  *)
InOrder(s, key) == \A i, j \in DOMAIN s : i < j => key[s[i]] <= key[s[j]]

Cut(s, n) == SubSeq(s, 1, IF n < Len(s) THEN n ELSE Len(s))

FirstRows(rows, key, limit) ==
    {Cut(s, limit) : s \in {t \in SetToSeqs(rows) : InOrder(t, key)}}

(* Places of a sequence in their turn, each with the places before it.       *)
InTurn(at, ahead) ==
    [k \in 1..Cardinality(at) |-> CHOOSE i \in at : Cardinality(ahead[i]) = k - 1]

(* Array.prototype.filter, by the rows it keeps.                            *)
Kept(s, keep) ==
    LET at == {i \in DOMAIN s : s[i] \in keep}
        turn == InTurn(at, [i \in at |-> {j \in at : j < i}])
    IN  [k \in 1..Cardinality(at) |-> s[turn[k]]]

(* Array.prototype.sort, which is stable.                                   *)
Sorted(s, key) ==
    LET before(i) == {j \in DOMAIN s : \/ key[s[j]] < key[s[i]]
                                       \/ key[s[j]] = key[s[i]] /\ j < i}
        turn == InTurn(DOMAIN s, [i \in DOMAIN s |-> before(i)])
    IN  [k \in 1..Len(s) |-> s[turn[k]]]

(* slice((page - 1) * limit, page * limit).                                 *)
Slice(s, q) ==
    LET start == (q.page - 1) * q.limit
        end == start + q.limit
    IN  SubSeq(s, start + 1, IF end < Len(s) THEN end ELSE Len(s))

SkipUmkm(q) == q.seller = "KOPDES" \/ q.discounted
SkipKopdes(q) == q.seller = "UMKM"

FetchLimit_Mutant(q) == q.limit
FetchLimit(q) == q.page * q.limit

(* The filters that no table can apply: a radius when sorted by distance,    *)
(* where a row without a place is left out, and the average rating.          *)
PassesFilters(q, p) ==
    /\ q.sort = "distance" => p.far # NoPlace /\ p.far <= q.radius
    /\ p.rating >= q.minRating

FilteredAfterFetch(q) == q.sort = "distance" \/ q.minRating > 0

FoundIn(q) ==
    (IF SkipKopdes(q) THEN {} ELSE KoperasiWhere(q))
      \cup (IF SkipUmkm(q) THEN {} ELSE UmkmWhere(q))

(* The tables by the same order, the merge, the filters, the sort, the cut.  *)
Fetched(q, table) ==
    FirstRows({p \in FoundIn(q) : TableOf(p) = table}, PrismaOrderBy(q.sort), FetchLimit(q))

Merged(q, koperasi, umkm) ==
    Sorted(Kept(koperasi \o umkm, {p \in shelf : PassesFilters(q, p)}), Comparator(q.sort))

FindProducts(q) ==
    {LET merged == Merged(q, koperasi, umkm)
     IN  [products |-> Slice(merged, q),
          total |-> IF FilteredAfterFetch(q) THEN Len(merged) ELSE Cardinality(FoundIn(q))] :
       koperasi \in Fetched(q, "KOPDES"), umkm \in Fetched(q, "UMKM")}

Browse(q) ==
    /\ question = NoQuestion
    /\ \E a \in FindProducts(q) : page' = a
    /\ question' = q
    /\ UNCHANGED <<shelf, job>>

(* bestSellers: the most sold of each table, of these the visible ones,      *)
(* merged, sorted and cut.                                                  *)
MoreSold == [p \in shelf |-> -p.sold]

MostSold(table, limit) ==
    FirstRows({p \in shelf : TableOf(p) = table /\ p.sold > 0}, MoreSold, limit)

BestOf(limit) ==
    {Cut(Sorted(Kept(koperasi \o umkm, {p \in shelf : p.listed}), MoreSold), limit) :
       koperasi \in MostSold("KOPDES", limit), umkm \in MostSold("UMKM", limit)}

AskBestSellers(limit) ==
    /\ question = NoQuestion
    /\ \E b \in BestOf(limit) : page' = [products |-> b, total |-> Len(b)]
    /\ question' = [of |-> "best", page |-> 1, limit |-> limit]
    /\ UNCHANGED <<shelf, job>>

(* featuredUmkmProducts: the newest of the marked wares.                     *)
Featured(limit) ==
    FirstRows({p \in shelf : TableOf(p) = "UMKM" /\ p.listed /\ p.featured},
              PrismaOrderBy("newest"), limit)

AskFeatured(limit) ==
    /\ question = NoQuestion
    /\ \E f \in Featured(limit) : page' = [products |-> f, total |-> Len(f)]
    /\ question' = [of |-> "featured", page |-> 1, limit |-> limit]
    /\ UNCHANGED <<shelf, job>>

MarketNext ==
    \/ Stocked
    \/ \E q \in Questions : Browse(q)
    \/ \E n \in Limits : AskBestSellers(n) \/ AskFeatured(n)

-----------------------------------------------------------------------------
(* The rows on a page are, in this order, the ones whose places in the whole *)
(* ordered list the page stands for.                                        *)
IsSlice(rows, all, key, q) ==
    LET start == (q.page - 1) * q.limit IN
    /\ Len(rows) = IF Cardinality(all) <= start THEN 0
                   ELSE IF Cardinality(all) - start < q.limit
                        THEN Cardinality(all) - start ELSE q.limit
    /\ \A i, j \in DOMAIN rows : i # j => rows[i] # rows[j]
    /\ \A i \in DOMAIN rows :
         /\ rows[i] \in all
         /\ Cardinality({p \in all : key[p] < key[rows[i]]}) < start + i
         /\ Cardinality({p \in all : key[p] <= key[rows[i]]}) >= start + i

(* Both tables gave all they have.                                          *)
WholeTables(q) ==
    \A t \in {"KOPDES", "UMKM"} :
        Cardinality({p \in FoundIn(q) : TableOf(p) = t}) <= FetchLimit(q)

(* A page of the marketplace is the right piece of the whole sorted          *)
(* catalogue and its total the number of products in it, whatever the page,  *)
(* although no table gives more than page * limit rows.  With a filter that  *)
(* works after the fetch this is promised only when the tables were fetched  *)
(* whole; otherwise the page still shows only what was asked for, in order.  *)
(* The best sellers are the most sold, unless a product that sold well is    *)
(* no longer shown.                                                         *)
ProductPageIsSlice ==
    /\ question.of = "market" =>
         LET q == question
             all == {p \in FoundIn(q) : PassesFilters(q, p)}
         IN  IF FilteredAfterFetch(q) /\ ~WholeTables(q)
             THEN /\ \A i \in DOMAIN page.products : page.products[i] \in all
                  /\ InOrder(page.products, Comparator(q.sort))
                  /\ page.total <= Cardinality(all)
             ELSE /\ IsSlice(page.products, all, Comparator(q.sort), q)
                  /\ page.total = Cardinality(all)
    /\ question.of = "best" /\ (\A p \in shelf : p.listed) =>
         IsSlice(page.products, {p \in shelf : p.sold > 0}, MoreSold, question)
=============================================================================
