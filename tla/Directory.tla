----------------------------- MODULE Directory -----------------------------
(***************************************************************************)
(* KoperasiService and MitraService, the public lists of cooperatives and of *)
(* partners' shops: near a place, or all of them with or without a place;    *)
(* with geo.util, which measures.  The user stands on the shops' meridian,   *)
(* so a place is a distance along it, in steps of 0.0001 degree.             *)
(***************************************************************************)
EXTENDS Market

CONSTANTS Sites,           \* what a shop can be like
          MaxShops,        \* bound: shops there may be
          Searches         \* requests for a list

(* A place is at most half way round the earth; a radius is in kilometers.   *)
HalfTurn == 1800000

ASSUME SitesAssumption ==
    Sites \subseteq [name : {0}, north : -HalfTurn..HalfTurn, located : BOOLEAN, active : BOOLEAN,
                    open : STRING, products : BOOLEAN]
ASSUME SearchesAssumption ==
    Searches \subseteq [of : {"nearby", "mitraNearby"}, radius : Nat, openNow : BOOLEAN,
                       page : Nat \ {0}, limit : Nat \ {0}]
        \cup [of : {"all", "mitra"}, origin : BOOLEAN, withProductsOnly : BOOLEAN,
              page : Nat \ {0}, limit : Nat \ {0}]
ASSUME MaxShopsAssumption == MaxShops \in Nat

VARIABLES places,          \* the shops, an array as the database returns it
          search,          \* the request answered last
          found            \* its answer

directoryVars == <<places, search, found>>

Rows == {places[i] : i \in DOMAIN places}

DirectoryInit ==
    /\ places = <<>>
    /\ search = NoQuestion
    /\ found = <<>>

(* Shops are numbered by the order of their names.                           *)
Founded ==
    /\ places = <<>> /\ search = NoQuestion
    /\ \E n \in 1..MaxShops : \E site \in [1..n -> Sites] :
         places' = [i \in 1..n |-> [site[i] EXCEPT !.name = i]]
    /\ UNCHANGED <<search, found, job>>

-----------------------------------------------------------------------------
(* haversineMeters along the meridian: 111.1949 km to a degree, of a sphere  *)
(* of 6371 km.                                                              *)
Away(north) == IF north < 0 THEN -north ELSE north

HaversineMeters(north) == (Away(north) * 1111949) \div 100000

(* boundingBox takes 111.32 km for a degree: the half height of the box, in  *)
(* steps of 0.0001 degree.                                                  *)
LatDelta(radiusKm) == (radiusKm * 1000000) \div 11132

InBox(p, radiusKm) == Away(p.north) <= LatDelta(radiusKm)

(* sortByDistance: the ones without coordinates or out of reach dropped, the *)
(* rest by distance, in meters.                                             *)
Nearer == [p \in Rows |-> HaversineMeters(p.north)]

SortByDistance(shops, inReach) ==
    Sorted(Kept(shops, {p \in inReach : p.located}), Nearer)

Within(p, radiusKm) == HaversineMeters(p.north) <= radiusKm * 1000

Listed(p) == p.active

(* findNearby: the box in the database, the circle, then the filter of the   *)
(* open ones, and the page last.                                            *)
FindNearby(q) ==
    LET candidates == Kept(places, {p \in Rows : /\ Listed(p) /\ p.located
                                                 /\ InBox(p, q.radius)})
        near == SortByDistance(candidates, {p \in Rows : Within(p, q.radius)})
        ranked == Kept(near, {p \in Rows : q.openNow => p.open = "yes"})
    IN  [shops |-> Slice(ranked, q), total |-> Len(ranked)]

(* findAll: without a place by name; with one by distance, the shops that    *)
(* have no coordinates behind the others.                                   *)
ByName == [p \in Rows |-> p.name]

FindAll(q) ==
    LET all == Kept(places, {p \in Rows : Listed(p) /\ (q.withProductsOnly => p.products)})
        ranked == IF q.origin
                  THEN SortByDistance(all, Rows) \o Kept(all, {p \in Rows : ~p.located})
                  ELSE Sorted(all, ByName)
    IN  [shops |-> Slice(ranked, q), total |-> Len(ranked)]

Answered(q, answer) ==
    /\ search = NoQuestion
    /\ search' = q
    /\ found' = answer
    /\ UNCHANGED <<places, job>>

(* The cooperatives; the database returns rows in any order.                *)
SearchNearby(q) == q.of = "nearby" /\ Answered(q, FindNearby(q))
SearchAll(q) == q.of = "all" /\ Answered(q, FindAll(q))

(* The partners: the same two handlers over the other table.                *)
MitraNearby(q) == q.of = "mitraNearby" /\ Answered(q, FindNearby(q))
MitraAll(q) == q.of = "mitra" /\ Answered(q, FindAll(q))

DirectoryNext ==
    \/ Founded
    \/ \E q \in Searches :
         SearchNearby(q) \/ SearchAll(q) \/ MitraNearby(q) \/ MitraAll(q)

-----------------------------------------------------------------------------
(* The order of a list with a place: what has none is farther than anything  *)
(* on earth, where nothing is more than 20015 km away.                       *)
Ahead == [p \in Rows |-> IF p.located THEN HaversineMeters(p.north) ELSE 20020000]

(* A page of shops is the right piece of the whole list.  A list of all      *)
(* shops holds the same shops whether the user says where he is or not, the  *)
(* ones without coordinates last; a list of near ones holds every shop in    *)
(* the box and the circle, none of unknown place, and its pages are cut      *)
(* after the closed ones are taken out.                                     *)
ShopsPageIsSlice ==
    LET q == search
        near == {p \in Rows : /\ p.active /\ p.located
                              /\ InBox(p, q.radius) /\ Within(p, q.radius)
                              /\ q.openNow => p.open = "yes"}
        all == {p \in Rows : p.active /\ (q.withProductsOnly => p.products)}
    IN  /\ q.of \in {"nearby", "mitraNearby"} =>
             IsSlice(found.shops, near, Nearer, q) /\ found.total = Cardinality(near)
        /\ q.of \in {"all", "mitra"} =>
             /\ IF q.origin THEN IsSlice(found.shops, all, Ahead, q)
                ELSE IsSlice(found.shops, all, ByName, q)
             /\ found.total = Cardinality(all)

(* The same of every list: products, cooperatives, partners.               *)
PageIsSlice == ProductPageIsSlice /\ ShopsPageIsSlice

(* "Bounding box selalu mencakup lebih luas daripada lingkaran radius, jadi  *)
(* langkah 1 tidak pernah membuang hasil yang seharusnya masuk": every shop  *)
(* within the radius is found.                                              *)
BoxCoversCircle ==
    search.of = "nearby" =>
      LET q == search
          reached == {p \in Rows :
                        p.active /\ p.located /\ Within(p, q.radius)
                          /\ (q.openNow => p.open = "yes")}
      IN  found.total = Cardinality(reached)

(* How much of the circle the box can miss: 111.195 km to a degree against   *)
(* 111.32 km.  Whoever is nearer than 998 meters of each kilometer asked for *)
(* is counted, and nobody beyond the radius is.                             *)
BoxMissesOnlyTheRim ==
    search.of \in {"nearby", "mitraNearby"} =>
      LET q == search
          wanted == {p \in Rows : p.active /\ p.located /\ (q.openNow => p.open = "yes")}
          reached == {p \in wanted : Within(p, q.radius)}
          inside == {p \in wanted : HaversineMeters(p.north) <= q.radius * 998}
      IN  /\ Cardinality(inside) <= found.total
          /\ found.total <= Cardinality(reached)
=============================================================================
