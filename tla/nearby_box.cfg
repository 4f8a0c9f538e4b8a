SPECIFICATION Spec
CONSTANTS
    Workers = {w1, w2}
    MaxChangesShown = 2
    Homes = {v1}
    MaxEdits = 2
    Offers <- MCOffers
    Ids = {1, 2, 3}
    Wares = {2}
    Questions <- MCQuestions
    Limits = {1, 2}
    Sites <- MCSites
    MaxShops = 3
    Searches <- MCSearches
    Weeks <- MCWeeks
    Clock <- MCClock
    Sales <- MCSales
    Goods <- MCGoods
    Moments <- MCMoments
    OrderIds = {1, 2}
    GoodIds = {1, 2}
INVARIANT BoxCoversCircle
\* A list or a question that is answered ends its scene.
CHECK_DEADLOCK FALSE
