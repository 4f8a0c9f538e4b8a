------------------------------ MODULE MCWallet ------------------------------
(***************************************************************************)
(* Wallet on a small instance.                                              *)
(***************************************************************************)
EXTENDS Wallet, FiniteSets, TLC

CONSTANTS t1, t2, o1, ann, bob

MCOwner == t1 :> ann @@ t2 :> bob @@ o1 :> ann
MCValue == t1 :> 2 @@ t2 :> 1 @@ o1 :> 1
OwnerHere == [r \in Refs |-> MCOwner[r]]
ValueHere == [r \in Refs |-> MCValue[r]]

Settled  == <<"settlement", "accept">>
Accepted == <<"capture", "accept">>
Challenged == <<"capture", "challenge">>
Denied   == <<"deny", "deny">>
Expired  == <<"expire", "accept">>
AllReports == {Settled, Accepted, Challenged, Denied, Expired}

MinusOne == {-1}
=============================================================================
