---------------------------- MODULE AddressBook ----------------------------
(***************************************************************************)
(* AddressService: the addresses of one customer, one of which is the main   *)
(* address, and the orders that are delivered to them.  A transaction reads  *)
(* what is committed when its statement begins (READ COMMITTED) and shows    *)
(* its own writes when it commits.                                           *)
(***************************************************************************)
EXTENDS Requests

CONSTANT MaxAddresses      \* bound: addresses created

Addresses == 1..MaxAddresses          \* in the order of their creation

VARIABLES book,            \* the Address rows
          main,            \* those with isDefault
          created,         \* how many were created
          delivered,       \* addresses that orders point to
          overlapped       \* two changes of the book were under way at once

addressVars == <<book, main, created, delivered, overlapped>>

AddressInit ==
    /\ book = {}
    /\ main = {}
    /\ created = 0
    /\ delivered = {}
    /\ overlapped = FALSE

Changing == {w \in Workers : job[w] # Idle /\ job[w].op # "order"}

BeginsChange(w) == overlapped' = (overlapped \/ Changing \ {w} # {})

(* A row that a transaction has deleted stays locked until it commits.       *)
Unlocked_Mutant(a) == TRUE            \* no foreign key
Unlocked(a) == \A w \in Workers : Doing(w, "drop") => job[w].address # a

(* create: the first address becomes the main one unless the request says    *)
(* otherwise.                                                               *)
IsDefault(wish) == IF wish = "unsaid" THEN book = {} ELSE wish = "main"

CreateReads(w, wish) ==
    /\ Start(w, [op |-> "create", main |-> IsDefault(wish), forOrder |-> FALSE])
    /\ BeginsChange(w)
    /\ UNCHANGED <<book, main, created, delivered>>

(* resolveForOrder: an address typed at checkout, a chosen one, or the main  *)
(* one.                                                                     *)
TypedAtCheckout(w, wish) ==
    /\ Start(w, [op |-> "create", main |-> wish = "main", forOrder |-> TRUE])
    /\ BeginsChange(w)
    /\ UNCHANGED <<book, main, created, delivered>>

ChosenAtCheckout(w) ==
    /\ \E a \in book : Start(w, [op |-> "order", address |-> a])
    /\ UNCHANGED addressVars

MainAtCheckout(w) ==
    /\ \E a \in main : Start(w, [op |-> "order", address |-> a])
    /\ UNCHANGED addressVars

(* updateMany: the main addresses the statement sees.                        *)
MainsSeen(w) ==
    /\ Doing(w, "create")
    /\ Goto(w, [op |-> "insert", forOrder |-> job[w].forOrder, main |-> job[w].main,
                clear |-> IF job[w].main THEN main ELSE {}])
    /\ UNCHANGED addressVars

Inserted(w) ==
    LET j == job[w]
        a == created + 1 IN
    /\ Doing(w, "insert") /\ a \in Addresses
    /\ \A b \in j.clear : Unlocked(b)
    /\ created' = a
    /\ book' = book \cup {a}
    /\ main' = (main \ j.clear) \cup (IF j.main THEN {a} ELSE {})
    /\ IF j.forOrder THEN Goto(w, [op |-> "order", address |-> a]) ELSE Finish(w)
    /\ UNCHANGED <<delivered, overlapped>>

(* The order is inserted with the address that was resolved; the foreign key *)
(* refuses one that is gone.                                                *)
OrderPlaced(w) ==
    /\ Doing(w, "order") /\ Unlocked(job[w].address)
    /\ delivered' = delivered \cup ({job[w].address} \cap book)
    /\ Finish(w)
    /\ UNCHANGED <<book, main, created, overlapped>>

(* update, which may leave isDefault as it is.                              *)
UpdateAddress(w, a, wish) ==
    /\ a \in book
    /\ Start(w, [op |-> "update", address |-> a, wish |-> wish,
                 clear |-> IF wish = "main" THEN main ELSE {}])
    /\ BeginsChange(w)
    /\ UNCHANGED <<book, main, created, delivered>>

AddressUpdated(w) ==
    LET j == job[w] IN
    /\ Doing(w, "update")
    /\ \A b \in j.clear \cup {j.address} : Unlocked(b)
    /\ main' = IF j.address \notin book \/ j.wish = "unsaid" THEN main
               ELSE (main \ (j.clear \cup {j.address}))
                        \cup (IF j.wish = "main" THEN {j.address} ELSE {})
    /\ Finish(w)
    /\ UNCHANGED <<book, created, delivered, overlapped>>

(* remove: an address no order points to.                                   *)
RemoveReads(w, a) ==
    /\ a \in book \ delivered
    /\ Start(w, [op |-> "remove", address |-> a, wasMain |-> a \in main])
    /\ BeginsChange(w)
    /\ UNCHANGED <<book, main, created, delivered>>

(* DELETE, which fails for a row that is gone or has got an order, then the  *)
(* newest of the others, when the one removed was read as the main address.  *)
Newest_Mutant(s) == s                 \* updateMany
Newest(s) == {a \in s : \A b \in s : b <= a}

Deleted(w) ==
    LET a == job[w].address IN
    /\ Doing(w, "remove") /\ Unlocked(a)
    /\ IF a \in book \ delivered
       THEN Goto(w, [op |-> "drop", address |-> a,
                     heir |-> IF job[w].wasMain THEN Newest(book \ {a}) ELSE {}])
       ELSE Finish(w)
    /\ UNCHANGED addressVars

(* The heir is written by id: when it is gone, all is rolled back.           *)
Removed(w) ==
    LET j == job[w] IN
    /\ Doing(w, "drop")
    /\ \A b \in j.heir : Unlocked(b)
    /\ IF j.heir \subseteq book
       THEN /\ book' = book \ {j.address}
            /\ main' = (main \ {j.address}) \cup j.heir
       ELSE UNCHANGED <<book, main>>
    /\ Finish(w)
    /\ UNCHANGED <<created, delivered, overlapped>>

(* Two transactions that remove each other's heir: one is rolled back.       *)
RemovalVictim(w) ==
    /\ Doing(w, "drop")
    /\ \E o \in Workers \ {w} : /\ Doing(o, "drop")
                                /\ job[o].address \in job[w].heir
                                /\ job[w].address \in job[o].heir
    /\ Finish(w)
    /\ UNCHANGED addressVars

AddressNext ==
    \E w \in Workers :
      \/ \E wish \in {"main", "other", "unsaid"} :
           \/ CreateReads(w, wish)
           \/ \E a \in Addresses : UpdateAddress(w, a, wish)
      \/ \E wish \in {"main", "other"} : TypedAtCheckout(w, wish)
      \/ \E a \in Addresses : RemoveReads(w, a)
      \/ ChosenAtCheckout(w) \/ MainAtCheckout(w) \/ MainsSeen(w) \/ Inserted(w)
      \/ OrderPlaced(w) \/ AddressUpdated(w) \/ Deleted(w) \/ Removed(w)
      \/ RemovalVictim(w)
      \/ Crash(w) /\ UNCHANGED addressVars

(* A customer whose changes come one after the other never has two main      *)
(* addresses.  (Two changes at the same time each clear the main address     *)
(* they saw and each set their own.)                                         *)
OneMainAddress == overlapped \/ Cardinality(main) <= 1

(* An order is never left without its address, whoever removes it while the  *)
(* order is being placed; and the main address is one that exists.           *)
OrdersKeepAddress == delivered \subseteq book /\ main \subseteq book
=============================================================================
