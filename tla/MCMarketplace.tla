--------------------------- MODULE MCMarketplace ----------------------------
(***************************************************************************)
(* Marketplace on small instances: one order, since no handler reads or     *)
(* writes two, and two requests at a time.                                  *)
(***************************************************************************)
EXTENDS Marketplace, TLC

Settled    == <<"settlement", "accept">>
Accepted   == <<"capture", "accept">>
Challenged == <<"capture", "challenge">>
Pending    == <<"pending", "accept">>
Denied     == <<"deny", "deny">>
Expired    == <<"expire", "accept">>
Refunded   == <<"refund", "accept">>

NoReports == {}
CommonReports == {Settled, Pending, Denied}
CardReports == {Accepted, Challenged, Expired, Refunded}
SettledOnly == {Settled}

WorkerSymmetry == Permutations(Workers)
BillSymmetry == WorkerSymmetry \cup Permutations(Sessions)
=============================================================================
