------------------------------- MODULE MCShop -------------------------------
(***************************************************************************)
(* An instance of Shop with two products: the cooperative's oil can be      *)
(* ordered ahead of its stock, the rice of a UMKM shop cannot.              *)
(***************************************************************************)
EXTENDS Shop, TLC

CONSTANTS rice, oil, r1

MCSaleOf == r1 :> <<rice, 1>>
MCChanges == {<<oil, -1>>}
MCCounts == {<<rice, 2>>}
MCEdits == {<<rice, 1>>}
MCDirectItems == {{<<rice, 1>>, <<oil, 1>>}}

Symmetry == Permutations(Workers)
=============================================================================
