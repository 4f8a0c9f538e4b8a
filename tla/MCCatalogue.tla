---------------------------- MODULE MCCatalogue ----------------------------
(***************************************************************************)
(* The rows, requests and hours that Catalogue is checked with.             *)
(***************************************************************************)
EXTENDS Catalogue

(* Equal prices, equal distances and an unknown place; sold out, sold well   *)
(* and no longer listed.                                                    *)
MCOffers ==
    [id : {0}, price : {1, 2}, far : {NoPlace, 1, 3}, rating : {2}, listed : {TRUE},
     stock : {1}, discounted : {FALSE}, sold : {0}, featured : {TRUE}]
    \cup [id : {0}, price : {1}, far : {1}, rating : {0}, listed : {TRUE},
          stock : {1}, discounted : {FALSE}, sold : {0}, featured : {FALSE}]
    \cup [id : {0}, price : {2}, far : {1}, rating : {2}, listed : BOOLEAN,
          stock : {0}, discounted : {TRUE}, sold : {1, 2}, featured : {FALSE}]

MCQuestions ==
    [of : {"market"}, sort : {"newest", "price_asc", "price_desc", "distance"},
     seller : {"ALL"}, inStock : {FALSE}, discounted : {FALSE}, maxPrice : {2},
     minRating : {0, 1}, radius : {2}, page : {1, 2}, limit : {1, 2}]
    \cup [of : {"market"}, sort : {"newest"}, seller : {"ALL", "KOPDES", "UMKM"},
          inStock : BOOLEAN, discounted : BOOLEAN, maxPrice : {1, 2}, minRating : {0},
          radius : {2}, page : {2}, limit : {1}]

(* Both sides of the user, equal distances, the edge of ten kilometers.      *)
MCSites ==
    [name : {0}, north : {-450, 0, 450, 899}, located : {TRUE}, active : {TRUE},
     open : {"yes", "unknown"}, products : {TRUE}]
    \cup [name : {0}, north : {0}, located : BOOLEAN, active : BOOLEAN, open : {"no"},
          products : BOOLEAN]

MCSearches ==
    [of : {"nearby", "mitraNearby"}, radius : {5, 10}, openNow : BOOLEAN,
     page : {1, 2}, limit : {1, 2}]
    \cup [of : {"all", "mitra"}, origin : BOOLEAN, withProductsOnly : BOOLEAN,
          page : {1, 2}, limit : {1, 2}]

MCSchedules == {Closed, Unreadable, Open(8, 17), Open(18, 2), Open(6, 6)}

(* One day differs from the others.                                         *)
MCWeeks == {[d \in Days |-> IF d = special THEN day ELSE other] :
              special \in Days, day \in MCSchedules, other \in MCSchedules}

MCClock == 0..167

(* 1 to 3 March, at the hours around both midnights; the last of February and *)
(* of January; amounts whose fee is rounded up and down.                     *)
MCSales ==
    [id : {0}, made : {24 * 30 + 20, 24 * 58 + 16, 24 * 58 + 18, 24 * 59 + 1, 24 * 60 + 17},
     brought : {NotBrought}, own : {0, 10}, mitra : {9, 30},
     status : {"PROCESSING", "COMPLETED"}, cod : {FALSE}, refunded : {FALSE}]
    \cup [id : {0}, made : {24 * 59 + 1}, brought : {24 * 59 + 2, 24 * 59 + 18},
          own : {10}, mitra : {0}, status : {"DELIVERED", "COMPLETED"}, cod : BOOLEAN,
          refunded : BOOLEAN]

MCGoods == [id : {0}, stock : 0..3, min : {0, 2}, active : BOOLEAN]

MCMoments == {24 * 59 + 3, 24 * 59 + 20, 24 * 60 + 18, 24 * 61 + 2}
=============================================================================
