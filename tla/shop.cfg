\* Two requests at the same time on two products.  Three movement rows let
\* transactions race, wait for each other or follow one another; two cart lines
\* let a line be made again while a checkout still has the old one.
SPECIFICATION Spec
CONSTANTS
    rice = rice
    oil = oil
    r1 = r1
    Products = {rice, oil}
    PreOrder = {oil}
    Customers = {ani}
    Orders = {o1}
    Refs = {r1}
    SaleOf <- MCSaleOf
    Changes <- MCChanges
    Counts <- MCCounts
    Edits <- MCEdits
    DirectItems <- MCDirectItems
    Workers = {w1, w2}
    Quantities = {1}
    FirstStock = 1
    MaxStock = 2
    MaxLines = 2
    MaxMoves = 3
    MaxRestores = 1
    NoRef = NoRef
SYMMETRY Symmetry
INVARIANTS
    TypeOK
    HistoryEndsAtStock
    ReceiptBookedOnce
PROPERTIES
    OnlyOrderedLeaves
