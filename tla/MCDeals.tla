------------------------------ MODULE MCDeals -------------------------------
(* Deals for TLC.  The terms are scaled down so that the interesting days  *)
(* fall within a week: each keeps its order relative to the others.        *)
EXTENDS Deals

CONSTANTS d1, d2, adv, bl, Generations, Slots

MCUsers == {adv, bl}
MCAdvertiser == [d \in Slots |-> adv]
MCBlogger == [d \in Slots |-> bl]
MCFunds == [u \in MCUsers |-> IF u = adv THEN 30 ELSE 0]

(* The generations of offers by the terms they carry.                      *)
Package1 == [price |-> 10, percent |-> 16, onTop |-> TRUE, reservedAtOffer |-> TRUE,
             approval |-> TRUE, retention |-> 2]
Package2 == [price |-> 10, percent |-> 16, onTop |-> TRUE, reservedAtOffer |-> TRUE,
             approval |-> FALSE, retention |-> 1]
Approved == [price |-> 10, percent |-> 0, onTop |-> FALSE, reservedAtOffer |-> TRUE,
             approval |-> TRUE, retention |-> 0]
Former == [price |-> 10, percent |-> 0, onTop |-> FALSE, reservedAtOffer |-> FALSE,
           approval |-> FALSE, retention |-> 0]

MCTerms ==
  {t \in {Package1, Package2, Approved, Former} :
     \/ t = Package1 /\ "package" \in Generations
     \/ t = Package2 /\ "package_no_approval" \in Generations
     \/ t = Approved /\ "approval" \in Generations
     \/ t = Former /\ "former" \in Generations}
=============================================================================
