\* One kept answer and two changes of what it shows; one account and two edits;
\* three rows, so that a page is the first, a middle or the last piece; every
\* hour of a week; two orders around the ends of a day and of a month.
SPECIFICATION Spec
CONSTANTS
    Workers = {w1, w2}
    MaxChangesShown = 2
    Homes = {v1}
    MaxEdits = 2
    Offers <- MCOffers
    Ids = {1, 2, 3}
    Wares = {2}
    Questions <- MCQuestions
    Limits = {1, 2}
    Sites <- MCSites
    MaxShops = 3
    Searches <- MCSearches
    Weeks <- MCWeeks
    Clock <- MCClock
    Sales <- MCSales
    Goods <- MCGoods
    Moments <- MCMoments
    OrderIds = {1, 2}
    GoodIds = {1, 2}
INVARIANTS
    
    RightsFollowAccount
    PageIsSlice
    OpenAsPosted
    FiguresAddUp
PROPERTIES
    CacheCatchesUp
\* A list or a question that is answered ends its scene.
CHECK_DEADLOCK FALSE
