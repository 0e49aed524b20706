----------------------------- MODULE MCBalance ------------------------------
(* Balance for TLC: slots of a kind are interchangeable. *)
EXTENDS Balance, TLC

SlotSymmetry ==
  Permutations(Invoices) \cup Permutations(Refunds) \cup Permutations(Clicks) \cup Permutations(Goals)
=============================================================================
