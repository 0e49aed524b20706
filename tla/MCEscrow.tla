------------------------------ MODULE MCEscrow ------------------------------
(* Escrow for TLC: three slots of one advertiser, two performers, and the  *)
(* generations of offers the code still settles.                           *)
EXTENDS Escrow, TLC

CONSTANTS d1, d2, d3, adv, b1, b2

MCDeals == {d1, d2, d3}
MCUsers == {adv, b1, b2}
MCAdvertiser == [d \in MCDeals |-> adv]
MCBlogger == [d \in MCDeals |-> IF d = d3 THEN b2 ELSE b1]

(* 16% of 7 rounds up from 1.12 down to 1, of 4 down from .64 up to 1; the *)
(* legacy 15% of 10 is the half-way case 1.5.                              *)
MCTerms ==
  {[price |-> 7, percent |-> 16, onTop |-> TRUE, reservedAtOffer |-> TRUE],
   [price |-> 4, percent |-> 16, onTop |-> TRUE, reservedAtOffer |-> TRUE],
   [price |-> 10, percent |-> 0, onTop |-> FALSE, reservedAtOffer |-> FALSE],
   [price |-> 5, percent |-> 0, onTop |-> FALSE, reservedAtOffer |-> TRUE]}

MCFunds == [u \in MCUsers |-> IF u = adv THEN 18 ELSE 0]

Symmetry == Permutations({d1, d2})
=============================================================================
