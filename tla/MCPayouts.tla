----------------------------- MODULE MCPayouts ------------------------------
(* Payouts for TLC: the sums differ, so that one cannot stand for another. *)
EXTENDS Payouts, TLC

CONSTANTS d1, d2

MCEarning == [d \in Deals |-> IF d = d1 THEN 2 ELSE 1]
MCCommission == [d \in Deals |-> IF d = d1 THEN 1 ELSE 0]

SlotSymmetry == Permutations(Payouts) \cup Permutations(Txns) \cup Permutations(Versions) \cup Permutations(Applications)
=============================================================================
