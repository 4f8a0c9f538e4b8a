---------------------------- MODULE WalletLedger ----------------------------
(***************************************************************************)
(* What the wallet promises, without transactions, locks or notifications:  *)
(* each top-up, order payment and refund moves its amount exactly once and  *)
(* at once, a refund only returns what was paid, and no balance is ever     *)
(* negative.                                                                *)
(***************************************************************************)
EXTENDS Integers

CONSTANTS Users, TopUps, Orders, Owner, Value, Adjustments

VARIABLES
    balance,    \* the balance of each user
    done        \* the <<kind, reference>> events already booked

Init ==
    /\ balance = [u \in Users |-> 0]
    /\ done = {}

Move(u, amount) ==
    /\ balance[u] + amount >= 0
    /\ balance' = [balance EXCEPT ![u] = @ + amount]

Book(event, u, amount) ==
    /\ event \notin done
    /\ done' = done \cup {event}
    /\ Move(u, amount)

Credit(t) == Book(<<"topup", t>>, Owner[t], Value[t])
Pay(o)    == Book(<<"order", o>>, Owner[o], -Value[o])
Refund(o) == /\ <<"order", o>> \in done
             /\ Book(<<"refund", o>>, Owner[o], Value[o])
Correct(u, amount) == Move(u, amount) /\ UNCHANGED done

Next ==
    \/ \E t \in TopUps : Credit(t)
    \/ \E o \in Orders : Pay(o) \/ Refund(o)
    \/ \E u \in Users, amount \in Adjustments : Correct(u, amount)

Spec == Init /\ [][Next]_<<balance, done>>
=============================================================================
