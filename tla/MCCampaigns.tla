---------------------------- MODULE MCCampaigns -----------------------------
(* Campaigns for TLC: one performer with two platforms, two offers.        *)
EXTENDS Campaigns, TLC

CONSTANTS p1, p2, b1

MCPlatforms == {p1, p2}
MCOwner == [p \in MCPlatforms |-> b1]
MCPlatformOf == [r \in Responses |-> p1]

OfferSymmetry == Permutations(Offers)

(* The forms differ in the budget, the limit and the dates.  The first has *)
(* room in the budget for two offers and in the limit for one; the second  *)
(* for two performers, the second of them once the first deal was paid in  *)
(* part, or the budget raised to that of the first.                        *)
MCTerms ==
  {[budget |-> 4, max |-> 1, end |-> 2],
   [budget |-> 3, max |-> 2, end |-> 1]}

(* Bound: a response is followed with the offer made of it until the deal  *)
(* is paid, disputed or cancelled; credits and endings of deals, which     *)
(* touch no response, are explored with no response in the campaign.       *)
MCBound ==
  \/ \A r \in Responses : response[r].status = "none"
  \/ \A o \in Offers : offer[o].deal \in {NoDeal, "in_work"} /\ offer[o].credited = 0
=============================================================================
