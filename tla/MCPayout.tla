------------------------------ MODULE MCPayout ------------------------------
(* Payout with one shop and sums a fee of five percent rounds. *)
EXTENDS Payout, TLC

MCSymmetry == Permutations(Workers) \cup Permutations(Payouts)
=============================================================================
