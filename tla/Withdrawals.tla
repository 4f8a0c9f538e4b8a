---------------------------- MODULE Withdrawals ----------------------------
(***************************************************************************)
(* What withdrawing promises, without locks, transactions and sums: a shop   *)
(* has an account from which a request takes its amount at once, if the      *)
(* account holds it and nothing else of the shop is open, and to which only  *)
(* a rejection gives it back.                                               *)
(***************************************************************************)
EXTENDS Integers

CONSTANTS Shops, Payouts, Amounts, Minimum

VARIABLES
    share,      \* the most each shop's share of its orders has ever been
    drawn,      \* what each shop has taken of it
    payout,     \* the requests
    closed      \* the <<request, outcome>> staff was told

NoPayout == [status |-> "none"]

Init ==
    /\ share = [u \in Shops |-> 0]
    /\ drawn = [u \in Shops |-> 0]
    /\ payout = [p \in Payouts |-> NoPayout]
    /\ closed = {}

Earn(u) ==
    /\ share' = [share EXCEPT ![u] = share'[u]]
    /\ share[u] <= share'[u]
    /\ UNCHANGED <<drawn, payout, closed>>

Ask(p, u, amount) ==
    /\ payout[p] = NoPayout
    /\ \A q \in Payouts : ~(payout[q].status = "REQUESTED" /\ payout[q].shop = u)
    /\ Minimum <= amount /\ drawn[u] + amount <= share[u]
    /\ drawn' = [drawn EXCEPT ![u] = @ + amount]
    /\ payout' = [payout EXCEPT ![p] = [status |-> "REQUESTED", shop |-> u, amount |-> amount]]
    /\ UNCHANGED <<share, closed>>

Answer(p, outcome) ==
    /\ payout[p].status = "REQUESTED"
    /\ drawn' = [drawn EXCEPT ![payout[p].shop] =
                   IF outcome = "REJECTED" THEN @ - payout[p].amount ELSE @]
    /\ payout' = [payout EXCEPT ![p].status = outcome]
    /\ closed' = closed \cup {<<p, outcome>>}
    /\ UNCHANGED share

Next ==
    \/ \E u \in Shops : Earn(u)
    \/ \E p \in Payouts, u \in Shops, amount \in Amounts : Ask(p, u, amount)
    \/ \E p \in Payouts, outcome \in {"PAID", "REJECTED"} : Answer(p, outcome)

Spec == Init /\ [][Next]_<<share, drawn, payout, closed>>
=============================================================================
