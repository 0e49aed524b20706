-------------------------- MODULE CampaignsProofs ---------------------------
(***************************************************************************)
(* Theorems about Campaigns for every number of offers, responses and      *)
(* platforms, all sums and any number of views in flight: first what the   *)
(* reservations, responses and offers keep to, then the budget, the limit  *)
(* of performers and the dates.                                            *)
(***************************************************************************)
EXTENDS Campaigns, SumLemmas

ResponseRows == [status : ResponseStatuses, expires : Int]

OfferRows ==
  [status : OfferStatuses, platform : Platforms \cup {"no platform"},
   response : Responses \cup {NoResponse}, amount : Nat, reserved : BOOLEAN,
   date : 0..MaxDay, expires : Nat, deal : DealStatuses, paid : Nat, claimed : BOOLEAN,
   credited : Nat]

(***************************************************************************)
(* What the code reads off one offer, as functions of the row.             *)
(***************************************************************************)
IsReserved(x) == x.status = "pending" /\ x.reserved

IsRunning(x) == x.deal \in {"in_work", "disputed"}

HeldFor(x) == IF IsReserved(x) \/ IsRunning(x) THEN x.amount ELSE 0

SpentOn(x) == x.credited + (IF x.deal = "completed" THEN x.paid ELSE HeldFor(x))

InLimit(x) == IsReserved(x) \/ (x.deal \in CapDealStatuses /\ ~x.claimed)

IsScheduled(x) == x.status = "pending" \/ x.deal \notin {NoDeal, "cancelled"}

(***************************************************************************)
(* The strengthening of the properties.  An offer and its deal move        *)
(* together: a deal exists exactly when the offer is accepted, only a      *)
(* completed deal has paid, and only a deal has credited conversions.  A   *)
(* view in flight writes rows of the right shape; the form never writes    *)
(* the status of a completed campaign back.                                *)
(***************************************************************************)
Coherent(x) ==
  /\ x.deal = NoDeal <=> x.status # "accepted"
  /\ x.deal = NoDeal => ~x.claimed /\ x.credited = 0
  /\ x.deal = "disputed" => x.claimed
  /\ x.deal # "completed" => x.paid = 0

OffersSound == offer \in [Offers -> OfferRows] /\ \A o \in Offers : Coherent(offer[o])

Carries(x) ==
  /\ x.view = "edit" => x.row \in CampaignRows /\ x.row.status \in {"draft", "rejected", "moderation"}
  /\ x.view \in {"approve", "apply"} => x.terms \in TermSet
  /\ x.view = "propose" => x.changes.new \in TermSet
  /\ x.view = "respond" => x.response \in Responses /\ x.expires \in Int
  /\ x.view = "reject_response" => x.response \in Responses /\ x.status \in {"rejected", "withdrawn"}

SessionsSound == DOMAIN session = Sessions /\ \A s \in Sessions : Carries(session[s])

IInv ==
  /\ TypeOK
  /\ response \in [Responses -> ResponseRows]
  /\ OffersSound
  /\ SessionsSound
  /\ ReserveFollowsOffer
  /\ AcceptedResponseHasOffer
  /\ CompletedHoldsNoOffers

(***************************************************************************)
(* The terms t cover what is spent, who takes part and what is scheduled.  *)
(***************************************************************************)
Covers(t) ==
  /\ BudgetCommitted <= t.budget
  /\ t.max # 0 => Cardinality({o \in Offers : InLimit(offer[o])}) <= t.max
  /\ \A o \in Offers : IsScheduled(offer[o]) => offer[o].date <= t.end

\* the terms the form or the accepted proposal of s will save
FormTerms(s) == IF session[s].view = "edit" THEN session[s].row.terms ELSE session[s].terms

(***************************************************************************)
(* What a form was checked against still holds until something is          *)
(* promised: then it is overtaken, and so are the terms it leaves.         *)
(***************************************************************************)
FormsCover == \A s \in FormsInFlight \ stale : Covers(FormTerms(s))

LInv == IInv /\ (overtaken \/ Covers(campaign.terms)) /\ FormsCover

-----------------------------------------------------------------------------
(* What the model reads off the rows, offer by offer.                      *)
LEMMA ReservedRead == PendingReserved = {o \in Offers : IsReserved(offer[o])}
  BY DEF PendingReserved, IsReserved

LEMMA HeldRead ==
  ASSUME ReserveFollowsOffer, NEW o \in Offers
  PROVE  held[o] = HeldFor(offer[o])
  BY ReservedRead DEF ReserveFollowsOffer, HeldFor, IsRunning

LEMMA SpentRead ==
  ASSUME NEW o \in Offers, Coherent(offer[o])
  PROVE  Spent(o) = SpentOn(offer[o])
<1>1. o \in PendingReserved <=> IsReserved(offer[o])
  BY ReservedRead
<1>2. CASE offer[o].deal \in {"in_work", "disputed"}
  BY <1>2 DEF Spent, SpentOn, HeldFor, IsRunning
<1>3. CASE offer[o].deal = "completed"
  BY <1>1, <1>3 DEF Spent, SpentOn, Coherent, IsReserved, NoDeal
<1>4. CASE offer[o].deal \notin {"in_work", "disputed", "completed"}
  BY <1>1, <1>4 DEF Spent, SpentOn, HeldFor, IsRunning
<1>5. QED
  BY <1>2, <1>3, <1>4

LEMMA RowAmounts ==
  ASSUME NEW x \in OfferRows
  PROVE  /\ x.amount \in Nat /\ x.paid \in Nat /\ x.credited \in Nat
         /\ HeldFor(x) \in Nat /\ SpentOn(x) \in Nat
<1>1. x.amount \in Nat /\ x.paid \in Nat /\ x.credited \in Nat
  BY DEF OfferRows
<1>2. QED
  BY <1>1 DEF HeldFor, SpentOn

\* of an offer no deal was made of
LEMMA SpentOnOffer ==
  ASSUME NEW x, x.deal # "completed", x.credited = 0, HeldFor(x) \in Nat
  PROVE  SpentOn(x) = HeldFor(x)
  BY DEF SpentOn

LEMMA BlankRow ==
  ASSUME MaxDay \in Nat
  PROVE  /\ BlankOffer \in OfferRows /\ Coherent(BlankOffer)
         /\ HeldFor(BlankOffer) = 0 /\ SpentOn(BlankOffer) = 0
         /\ BlankOffer.paid = 0 /\ BlankOffer.credited = 0
         /\ BlankOffer.status = "none" /\ BlankOffer.response = NoResponse
         /\ ~InLimit(BlankOffer) /\ ~IsScheduled(BlankOffer)
  BY DEF BlankOffer, OfferRows, Coherent, HeldFor, SpentOn, IsReserved, IsRunning, InLimit,
         IsScheduled, CapDealStatuses, OfferStatuses, DealStatuses, NoDeal

-----------------------------------------------------------------------------
(* One offer moves to the row x: what it held goes where x says.           *)
Moves(o, x) ==
  /\ x \in OfferRows /\ Coherent(x)
  /\ offer' = [offer EXCEPT ![o] = x]
  /\ held' = [held EXCEPT ![o] = HeldFor(x)]
  /\ available' \in Nat
  /\ available' + HeldFor(x) + x.paid + x.credited
       = available + HeldFor(offer[o]) + offer[o].paid + offer[o].credited

Balanced == TypeOK /\ OffersSound /\ ReserveFollowsOffer

LEMMA OneOfferMoves ==
  ASSUME Balanced, NEW o \in Offers, NEW x, Moves(o, x)
  PROVE  OffersSound' /\ ReserveFollowsOffer' /\ available' \in Nat /\ held' \in [Offers -> Nat]
<1> DEFINE f == [p \in Offers |-> held[p] + offer[p].paid + offer[p].credited]
           g == [p \in Offers |-> held'[p] + offer'[p].paid + offer'[p].credited]
<1>1. /\ offer'[o] = x
      /\ \A p \in Offers \ {o} : offer'[p] = offer[p]
      /\ offer' \in [Offers -> OfferRows]
  BY DEF Balanced, OffersSound, Moves
<1>2. /\ held'[o] = HeldFor(x)
      /\ \A p \in Offers \ {o} : held'[p] = held[p]
      /\ held' \in [Offers -> Nat]
  BY RowAmounts DEF Balanced, TypeOK, Moves
<1>3. OffersSound'
  BY <1>1 DEF Balanced, OffersSound, Moves
<1>4. \A p \in Offers : held'[p] = HeldFor(offer'[p])
  BY <1>1, <1>2, HeldRead DEF Balanced
<1>5. /\ \A p \in Offers : f[p] \in Int
      /\ f[o] = HeldFor(offer[o]) + offer[o].paid + offer[o].credited
      /\ g[o] = HeldFor(x) + x.paid + x.credited /\ g[o] \in Int
      /\ \A p \in Offers \ {o} : g[p] = f[p]
  <2>1. ASSUME NEW p \in Offers
        PROVE  held[p] + offer[p].paid + offer[p].credited \in Int
    <3>1. held[p] \in Nat /\ offer[p].paid \in Nat /\ offer[p].credited \in Nat
      BY RowAmounts DEF Balanced, TypeOK, OffersSound
    <3>2. QED
      BY <3>1
  <2>2. held[o] = HeldFor(offer[o])
    BY HeldRead DEF Balanced
  <2>3. HeldFor(x) \in Nat /\ x.paid \in Nat /\ x.credited \in Nat
    BY RowAmounts DEF Moves
  <2>4. HeldFor(x) + x.paid + x.credited \in Int
    BY <2>3
  <2>5. QED
    BY <1>1, <1>2, <2>1, <2>2, <2>4
<1>6. SumFunctionOnSet(g, Offers) = SumFunctionOnSet(f, Offers) - f[o] + g[o]
  <2> HIDE DEF f, g
  <2>1. QED
    BY <1>5, SumChange, RowsAssumption
<1>7. available + SumFunctionOnSet(f, Offers) = Funds
  BY DEF Balanced, ReserveFollowsOffer
<1>8. SumFunctionOnSet(f, Offers) \in Int
  <2> HIDE DEF f
  <2>1. QED
    BY <1>5, SumInt, RowsAssumption
<1>9. available' + SumFunctionOnSet(g, Offers) = Funds
  <2>1. /\ available \in Nat /\ available' \in Nat
        /\ available' + g[o] = available + f[o]
    <3>1. available' + (HeldFor(x) + x.paid + x.credited)
            = available + (HeldFor(offer[o]) + offer[o].paid + offer[o].credited)
      <4>1. /\ HeldFor(x) \in Nat /\ x.paid \in Nat /\ x.credited \in Nat
            /\ available \in Nat /\ available' \in Nat
            /\ HeldFor(offer[o]) \in Nat /\ offer[o].paid \in Nat /\ offer[o].credited \in Nat
        BY RowAmounts DEF Moves, Balanced, TypeOK, OffersSound
      <4>2. available' + HeldFor(x) + x.paid + x.credited
              = available + HeldFor(offer[o]) + offer[o].paid + offer[o].credited
        BY DEF Moves
      <4>3. QED
        BY <4>1, <4>2
    <3>2. QED
      BY <1>5, <3>1 DEF Moves, Balanced, TypeOK
  <2>2. f[o] \in Int /\ g[o] \in Int /\ Funds \in Int
    BY <1>5, CampaignAssumption
  <2> HIDE DEF f, g
  <2>3. QED
    BY <1>6, <1>7, <1>8, <2>1, <2>2
<1>10. ReserveFollowsOffer'
  <2>1. \A p \in Offers : held'[p] = IF p \in PendingReserved' \/ offer'[p].deal \in {"in_work", "disputed"}
                                     THEN offer'[p].amount ELSE 0
    BY <1>4 DEF HeldFor, IsRunning, IsReserved, PendingReserved
  <2>2. QED
    BY <1>9, <2>1 DEF ReserveFollowsOffer
<1>11. QED
  BY <1>2, <1>3, <1>10 DEF Moves

(* _close_offers: pending offers go and release what they held.            *)
Frees(os) ==
  /\ os \in SUBSET Offers
  /\ \A o \in os : offer[o].status = "pending"
  /\ offer' = Freed(os)
  /\ Released(os)

LEMMA OffersFree ==
  ASSUME Balanced, NEW os, Frees(os)
  PROVE  OffersSound' /\ ReserveFollowsOffer' /\ available' \in Nat /\ held' \in [Offers -> Nat]
<1> DEFINE R == {o \in os : offer[o].reserved}
           f == [p \in Offers |-> held[p] + offer[p].paid + offer[p].credited]
           g == [p \in Offers |-> held'[p] + offer'[p].paid + offer'[p].credited]
<1>1. /\ \A o \in os : offer'[o] = BlankOffer
      /\ \A o \in Offers \ os : offer'[o] = offer[o]
      /\ offer' = [o \in Offers |-> offer'[o]]
  BY DEF Frees, Freed
<1>2. /\ \A o \in R : held'[o] = 0
      /\ \A o \in Offers \ R : held'[o] = held[o]
      /\ available' = available + SumFunctionOnSet(held, R)
      /\ held' = [o \in Offers |-> held'[o]]
  BY DEF Frees, Released
<1>3. OffersSound'
  <2>1. \A o \in Offers : offer'[o] \in OfferRows /\ Coherent(offer'[o])
    BY <1>1, BlankRow, CampaignAssumption DEF Balanced, OffersSound
  <2>2. QED
    BY <1>1, <2>1 DEF OffersSound
<1>4. /\ held \in [Offers -> Nat] /\ available \in Nat /\ held' \in [Offers -> Nat]
      /\ R \in SUBSET Offers
  <2>1. held \in [Offers -> Nat] /\ available \in Nat /\ R \in SUBSET Offers
    BY DEF Balanced, TypeOK, Frees
  <2> HIDE DEF R
  <2>2. \A o \in Offers : held'[o] \in Nat
    BY <1>2, <2>1
  <2>3. QED
    BY <1>2, <2>1, <2>2
<1>5. \A o \in os : /\ offer[o].deal = NoDeal /\ offer[o].paid = 0 /\ offer[o].credited = 0
                    /\ offer[o].reserved \in BOOLEAN
                    /\ o \notin R => held[o] = 0
  <2>1. ASSUME NEW o \in os
        PROVE  /\ offer[o].deal = NoDeal /\ offer[o].paid = 0 /\ offer[o].credited = 0
               /\ offer[o].reserved \in BOOLEAN
    BY DEF Frees, Balanced, OffersSound, OfferRows, Coherent, NoDeal
  <2>2. ASSUME NEW o \in os, o \notin R
        PROVE  held[o] = 0
    BY <2>1, <2>2, HeldRead DEF Balanced, HeldFor, IsReserved, IsRunning, NoDeal, Frees
  <2>3. QED
    BY <2>1, <2>2
<1>6. \A o \in Offers : held'[o] = HeldFor(offer'[o])
  <2>1. ASSUME NEW o \in os
        PROVE  held'[o] = 0 /\ HeldFor(offer'[o]) = 0
    BY <1>1, <1>2, <1>5, BlankRow, CampaignAssumption DEF Frees
  <2>2. ASSUME NEW o \in Offers \ os
        PROVE  held'[o] = HeldFor(offer'[o])
    BY <1>1, <1>2, HeldRead DEF Balanced
  <2>3. QED
    BY <2>1, <2>2
<1>7. /\ \A o \in Offers : f[o] \in Int
      /\ \A o \in R : g[o] = 0 /\ f[o] = held[o]
      /\ \A o \in Offers \ R : g[o] = f[o]
  <2>1. ASSUME NEW o \in Offers
        PROVE  held[o] \in Nat /\ offer[o].paid \in Nat /\ offer[o].credited \in Nat
    BY RowAmounts DEF Balanced, TypeOK, OffersSound
  <2>2. ASSUME NEW o \in R
        PROVE  /\ held'[o] + offer'[o].paid + offer'[o].credited = 0
               /\ held[o] + offer[o].paid + offer[o].credited = held[o]
    <3>1. /\ held'[o] = 0 /\ offer'[o].paid = 0 /\ offer'[o].credited = 0
          /\ held[o] \in Nat /\ offer[o].paid = 0 /\ offer[o].credited = 0
      BY <1>1, <1>2, <1>4, <1>5, BlankRow, CampaignAssumption
    <3>2. QED
      BY <3>1
  <2>3. ASSUME NEW o \in Offers \ R
        PROVE  /\ held'[o] = held[o]
               /\ offer'[o].paid = offer[o].paid /\ offer'[o].credited = offer[o].credited
    BY <1>1, <1>2, <1>5, BlankRow, CampaignAssumption
  <2>4. QED
    BY <1>4, <2>1, <2>2, <2>3
<1>8. /\ SumFunctionOnSet(g, Offers) = SumFunctionOnSet(f, Offers) - SumFunctionOnSet(f, R)
      /\ SumFunctionOnSet(f, Offers) \in Int
  <2> HIDE DEF f, g, R
  <2>1. QED
    BY <1>4, <1>7, SumWithout, SumInt, RowsAssumption
<1>9. IsFiniteSet(R)
  BY <1>4, FS_Subset, RowsAssumption
<1>10. SumFunctionOnSet(f, R) = SumFunctionOnSet(held, R) /\ SumFunctionOnSet(held, R) \in Nat
  <2> HIDE DEF f, g, R
  <2>1. SumFunctionOnSet(f, R) = SumFunctionOnSet(held, R)
    BY <1>7, <1>9, SumSame
  <2>2. \A o \in R : held[o] \in Nat
    BY <1>4
  <2>3. SumFunctionOnSet(held, R) \in Nat
    BY <1>9, <2>2, SumNat
  <2>4. QED
    BY <2>1, <2>3
<1>11. available' \in Nat /\ available' + SumFunctionOnSet(g, Offers) = Funds
  <2>1. available + SumFunctionOnSet(f, Offers) = Funds
    BY DEF Balanced, ReserveFollowsOffer
  <2> HIDE DEF f, g, R
  <2>2. QED
    BY <1>2, <1>4, <1>8, <1>10, <2>1
<1>12. ReserveFollowsOffer'
  <2>1. \A o \in Offers : held'[o] = IF o \in PendingReserved' \/ offer'[o].deal \in {"in_work", "disputed"}
                                     THEN offer'[o].amount ELSE 0
    BY <1>6 DEF HeldFor, IsRunning, IsReserved, PendingReserved
  <2>2. QED
    BY <1>11, <2>1 DEF ReserveFollowsOffer
<1>13. QED
  BY <1>3, <1>4, <1>11, <1>12

LEMMA Parameters ==
  /\ Prices \subseteq Nat /\ MaxDay \in Nat /\ Dates \subseteq 0..MaxDay
  /\ OfferDays \in Nat /\ ResponseLead \in Nat /\ Funds \in Nat /\ FixedPrice \in Nat
  /\ Terms \subseteq TermSet /\ CpaRate \in Nat
  BY CampaignAssumption

-----------------------------------------------------------------------------
(* The ways one offer moves.                                               *)
LEMMA SendMoves ==
  ASSUME Balanced, NEW o \in Offers, NEW p \in Platforms, NEW r \in Responses \cup {NoResponse},
         NEW amount \in Prices, SendOffer(o, p, r, amount)
  PROVE  \E x : /\ Moves(o, x)
                /\ offer[o].status = "none" /\ x.status = "pending" /\ x.response = r
                /\ campaign.status = "active" /\ DealAcceptable(amount)
                /\ SpentOn(offer[o]) = 0 /\ SpentOn(x) = amount
                /\ x.date <= campaign.terms.end
<1>1. PICK day \in Dates \cap (today..campaign.terms.end) :
        offer' = [offer EXCEPT ![o] =
          [offer[o] EXCEPT !.status = "pending", !.platform = p, !.response = r, !.amount = amount,
                    !.reserved = TRUE, !.date = day, !.expires = today + OfferDays]]
  BY DEF SendOffer
<1> DEFINE e == today + OfferDays
           x == [offer[o] EXCEPT !.status = "pending", !.platform = p, !.response = r, !.amount = amount,
                    !.reserved = TRUE, !.date = day, !.expires = e]
<1>2. offer[o] \in OfferRows /\ Coherent(offer[o]) /\ offer[o].status = "none"
  BY DEF Balanced, OffersSound, SendOffer
<1>3. /\ amount \in Nat /\ day \in 0..MaxDay /\ day \in Int /\ campaign.terms.end \in Int
      /\ day <= campaign.terms.end
  <2>1. campaign.terms.end \in 0..MaxDay /\ today \in 0..MaxDay
    BY DEF Balanced, TypeOK, CampaignRows, TermSet
  <2>2. day \in Dates /\ day \in today..campaign.terms.end
    BY <1>1
  <2>3. QED
    BY <2>1, <2>2, Parameters
<1>4. e \in Nat
  <2>1. today \in 0..MaxDay
    BY DEF Balanced, TypeOK
  <2>2. QED
    BY <2>1, Parameters
<1>5. /\ x \in OfferRows
      /\ x.status = "pending" /\ x.response = r /\ x.amount = amount /\ x.reserved = TRUE
      /\ x.date = day /\ x.deal = offer[o].deal /\ x.paid = offer[o].paid
      /\ x.claimed = offer[o].claimed /\ x.credited = offer[o].credited
  <2> HIDE DEF e
  <2>1. QED
    BY <1>2, <1>3, <1>4 DEF OfferRows, OfferStatuses
<1>6. offer' = [offer EXCEPT ![o] = x]
  BY <1>1
<1> HIDE DEF x
<1>7. offer[o].deal = NoDeal /\ offer[o].paid = 0 /\ ~offer[o].claimed /\ offer[o].credited = 0
  BY <1>2 DEF Coherent, NoDeal
<1>8. Coherent(x) /\ HeldFor(x) = amount /\ SpentOn(x) = amount
  <2>1. Coherent(x) /\ HeldFor(x) = amount
    BY <1>5, <1>7 DEF Coherent, HeldFor, IsReserved, NoDeal
  <2>2. QED
    BY <1>3, <1>5, <1>7, <2>1, SpentOnOffer DEF NoDeal
<1>9. HeldFor(offer[o]) = 0 /\ SpentOn(offer[o]) = 0
  <2>1. HeldFor(offer[o]) = 0
    BY <1>2, <1>7 DEF HeldFor, IsReserved, IsRunning, NoDeal
  <2>2. HeldFor(offer[o]) \in Nat
    BY <2>1
  <2>3. QED
    BY <1>7, <2>1, <2>2, SpentOnOffer DEF NoDeal
<1>10. /\ available' \in Nat
       /\ available' + HeldFor(x) + x.paid + x.credited
            = available + HeldFor(offer[o]) + offer[o].paid + offer[o].credited
  <2>1. available \in Nat /\ available' = available - amount /\ amount <= available
    BY DEF Balanced, TypeOK, SendOffer
  <2>2. QED
    BY <1>3, <1>5, <1>7, <1>8, <1>9, <2>1
<1>11. held' = [held EXCEPT ![o] = HeldFor(x)]
  BY <1>8 DEF SendOffer
<1>12. campaign.status = "active" /\ DealAcceptable(amount)
  BY DEF SendOffer
<1>13. Moves(o, x)
  BY <1>5, <1>6, <1>8, <1>10, <1>11 DEF Moves
<1>14. QED
  BY <1>2, <1>3, <1>5, <1>8, <1>9, <1>12, <1>13

\* the offer of a response stays its offer
SameOffer(o, x) ==
  /\ offer[o].status # "none"
  /\ x.status = "accepted"
  /\ x.response = offer[o].response
  /\ IsScheduled(x) => IsScheduled(offer[o])

AcceptMove(o, x) ==
  /\ Moves(o, x) /\ SameOffer(o, x) /\ x.date = offer[o].date
  /\ offer[o].status = "pending" /\ campaign.status = "active"
  /\ \/ /\ SpentOn(x) = SpentOn(offer[o])
        /\ InLimit(x) => InLimit(offer[o])
        /\ UNCHANGED history
     \/ /\ SpentOn(offer[o]) = 0
        /\ DealAcceptable(SpentOn(x))
        /\ Overtakes

LEMMA AcceptMoves ==
  ASSUME Balanced, AcceptDirectOffer
  PROVE  \E o \in Offers : \E x : AcceptMove(o, x)
<1>1. PICK o \in Offers :
        /\ offer[o].status = "pending"
        /\ offer' = [offer EXCEPT ![o].status = "accepted", ![o].expires = 0, ![o].deal = "in_work"]
        /\ \/ offer[o].reserved /\ UNCHANGED <<money, history>>
           \/ /\ ~offer[o].reserved
              /\ DealAcceptable(offer[o].amount)
              /\ offer[o].amount <= available
              /\ available' = available - offer[o].amount
              /\ held' = [held EXCEPT ![o] = offer[o].amount]
              /\ Overtakes
  BY DEF AcceptDirectOffer
<1> DEFINE x == [offer[o] EXCEPT !.status = "accepted", !.expires = 0, !.deal = "in_work"]
<1>2. /\ offer[o] \in OfferRows /\ Coherent(offer[o]) /\ offer[o].amount \in Nat
      /\ offer \in [Offers -> OfferRows]
      /\ held \in [Offers -> Nat] /\ available \in Nat
  BY RowAmounts DEF Balanced, OffersSound, TypeOK
<1>3. /\ x \in OfferRows
      /\ x.status = "accepted" /\ x.response = offer[o].response /\ x.amount = offer[o].amount
      /\ x.date = offer[o].date /\ x.deal = "in_work" /\ x.paid = offer[o].paid
      /\ x.claimed = offer[o].claimed /\ x.credited = offer[o].credited
  BY <1>2 DEF OfferRows, OfferStatuses, DealStatuses
<1>4. offer' = [offer EXCEPT ![o] = x]
  BY <1>1, <1>2 DEF OfferRows
<1> HIDE DEF x
<1>5. offer[o].deal = NoDeal /\ offer[o].paid = 0 /\ ~offer[o].claimed /\ offer[o].credited = 0
  BY <1>1, <1>2 DEF Coherent, NoDeal
<1>6. /\ Coherent(x) /\ HeldFor(x) = offer[o].amount /\ SpentOn(x) = offer[o].amount
      /\ IsScheduled(offer[o])
  <2>1. Coherent(x) /\ HeldFor(x) = offer[o].amount /\ IsScheduled(offer[o])
    BY <1>1, <1>3, <1>5 DEF Coherent, HeldFor, IsRunning, NoDeal, IsScheduled
  <2>2. QED
    BY <1>2, <1>3, <1>5, <2>1, SpentOnOffer
<1>7. SameOffer(o, x)
  BY <1>1, <1>3, <1>6 DEF SameOffer
<1>8. CASE offer[o].reserved /\ UNCHANGED <<money, history>>
  <2>1. /\ HeldFor(offer[o]) = offer[o].amount /\ SpentOn(offer[o]) = offer[o].amount
        /\ InLimit(offer[o])
    <3>1. HeldFor(offer[o]) = offer[o].amount /\ InLimit(offer[o])
      BY <1>1, <1>5, <1>8 DEF HeldFor, IsReserved, InLimit, NoDeal
    <3>2. QED
      BY <1>2, <1>5, <3>1, SpentOnOffer DEF NoDeal
  <2>2. held[o] = HeldFor(x)
    BY <1>6, <2>1, HeldRead DEF Balanced
  <2>3. held' = [held EXCEPT ![o] = HeldFor(x)] /\ available' = available
    BY <1>2, <1>8, <2>2 DEF money
  <2>4. Moves(o, x)
    BY <1>2, <1>3, <1>4, <1>6, <2>1, <2>3 DEF Moves
  <2>5. QED
    BY <1>1, <1>3, <1>6, <1>7, <1>8, <2>1, <2>4 DEF AcceptMove, AcceptDirectOffer
<1>9. CASE /\ ~offer[o].reserved
           /\ DealAcceptable(offer[o].amount)
           /\ offer[o].amount <= available
           /\ available' = available - offer[o].amount
           /\ held' = [held EXCEPT ![o] = offer[o].amount]
           /\ Overtakes
  <2>1. HeldFor(offer[o]) = 0 /\ SpentOn(offer[o]) = 0
    <3>1. HeldFor(offer[o]) = 0
      BY <1>5, <1>9 DEF HeldFor, IsReserved, IsRunning, NoDeal
    <3>2. HeldFor(offer[o]) \in Nat
      BY <3>1
    <3>3. QED
      BY <1>5, <3>1, <3>2, SpentOnOffer DEF NoDeal
  <2>2. /\ available' \in Nat
        /\ available' + HeldFor(x) + x.paid + x.credited
             = available + HeldFor(offer[o]) + offer[o].paid + offer[o].credited
    BY <1>2, <1>3, <1>5, <1>6, <1>9, <2>1
  <2>3. Moves(o, x)
    BY <1>3, <1>4, <1>6, <1>9, <2>2 DEF Moves
  <2>4. QED
    BY <1>1, <1>3, <1>6, <1>7, <1>9, <2>1, <2>3 DEF AcceptMove, AcceptDirectOffer
<1>10. QED
  BY <1>1, <1>8, <1>9

DealMove(o, x) ==
  /\ Moves(o, x) /\ SameOffer(o, x) /\ x.date = offer[o].date
  /\ offer[o].status = "accepted"
  /\ SpentOn(x) <= SpentOn(offer[o])
  /\ InLimit(x) => InLimit(offer[o])

\* the deal of o goes on as x
DealGoesOn(o, x) ==
  /\ x \in OfferRows /\ offer' = [offer EXCEPT ![o] = x]
  /\ x.status = offer[o].status /\ x.response = offer[o].response
  /\ x.amount = offer[o].amount /\ x.date = offer[o].date /\ x.credited = offer[o].credited
  /\ held' = [held EXCEPT ![o] = HeldFor(x)]
  /\ \/ /\ x.deal = "disputed" /\ x.claimed /\ x.paid = offer[o].paid
        /\ available' = available
     \/ /\ x.deal = "completed" /\ x.claimed = offer[o].claimed /\ x.paid <= offer[o].amount
        /\ available' = available + held[o] - x.paid
     \/ /\ x.deal = "cancelled" /\ x.claimed = offer[o].claimed /\ x.paid = offer[o].paid
        /\ available' = available + held[o]

LEMMA DealMovesOn ==
  ASSUME Balanced, NEW o \in Offers, offer[o].deal \in {"in_work", "disputed"},
         NEW x, DealGoesOn(o, x)
  PROVE  DealMove(o, x)
<1>1. /\ offer[o] \in OfferRows /\ Coherent(offer[o]) /\ offer[o].amount \in Nat
      /\ x.paid \in Nat /\ available \in Nat
      /\ offer[o].credited \in Nat /\ x.credited = offer[o].credited /\ x.date = offer[o].date
  BY RowAmounts DEF Balanced, OffersSound, TypeOK, DealGoesOn
<1>2. /\ offer[o].status = "accepted" /\ offer[o].paid = 0
      /\ HeldFor(offer[o]) = offer[o].amount
      /\ SpentOn(offer[o]) = offer[o].credited + offer[o].amount
      /\ IsScheduled(offer[o])
      /\ ~offer[o].claimed => InLimit(offer[o])
  BY <1>1 DEF Coherent, HeldFor, SpentOn, IsRunning, IsScheduled, InLimit, CapDealStatuses, NoDeal
<1>3. held[o] = offer[o].amount
  BY <1>2, HeldRead DEF Balanced
<1>4. SameOffer(o, x)
  BY <1>2 DEF SameOffer, DealGoesOn
<1>5. ~IsReserved(x)
  BY <1>2 DEF DealGoesOn, IsReserved
<1>6. CASE x.deal = "disputed" /\ x.claimed /\ x.paid = offer[o].paid /\ available' = available
  <2>1. /\ Coherent(x) /\ HeldFor(x) = offer[o].amount
        /\ SpentOn(x) = offer[o].credited + offer[o].amount /\ ~InLimit(x)
    BY <1>1, <1>2, <1>5, <1>6 DEF DealGoesOn, Coherent, HeldFor, SpentOn, IsRunning, InLimit, NoDeal, CapDealStatuses
  <2>2. Moves(o, x)
    BY <1>1, <1>2, <1>6, <2>1 DEF Moves, DealGoesOn
  <2>3. QED
    BY <1>1, <1>2, <1>4, <2>1, <2>2 DEF DealMove
<1>7. CASE /\ x.deal = "completed" /\ x.claimed = offer[o].claimed /\ x.paid <= offer[o].amount
           /\ available' = available + held[o] - x.paid
  <2>1. /\ Coherent(x) /\ HeldFor(x) = 0 /\ SpentOn(x) = offer[o].credited + x.paid
        /\ InLimit(x) => InLimit(offer[o])
    BY <1>1, <1>2, <1>5, <1>7 DEF DealGoesOn, Coherent, HeldFor, SpentOn, IsRunning, InLimit, NoDeal
  <2>2. /\ available' \in Nat
        /\ available' + 0 + x.paid + x.credited = available + offer[o].amount + 0 + offer[o].credited
    BY <1>1, <1>3, <1>7
  <2>3. Moves(o, x)
    BY <1>2, <2>1, <2>2 DEF Moves, DealGoesOn
  <2>4. QED
    BY <1>1, <1>2, <1>4, <1>7, <2>1, <2>3 DEF DealMove
<1>8. CASE /\ x.deal = "cancelled" /\ x.claimed = offer[o].claimed /\ x.paid = offer[o].paid
           /\ available' = available + held[o]
  <2>1. Coherent(x) /\ HeldFor(x) = 0 /\ SpentOn(x) = offer[o].credited /\ ~InLimit(x)
    <3>1. Coherent(x) /\ HeldFor(x) = 0 /\ ~InLimit(x)
      BY <1>2, <1>5, <1>8
      DEF DealGoesOn, Coherent, HeldFor, IsRunning, InLimit, NoDeal, CapDealStatuses
    <3>2. QED
      BY <1>1, <1>8, <3>1 DEF SpentOn
  <2>2. /\ available' \in Nat
        /\ available' + 0 + 0 + x.credited = available + offer[o].amount + 0 + offer[o].credited
    BY <1>1, <1>3, <1>8
  <2>3. Moves(o, x)
    BY <1>2, <1>8, <2>1, <2>2 DEF Moves, DealGoesOn
  <2>4. QED
    BY <1>1, <1>2, <1>4, <2>1, <2>3 DEF DealMove
<1>9. QED
  BY <1>6, <1>7, <1>8 DEF DealGoesOn

LEMMA DealMoves ==
  ASSUME Balanced, DealDisputed \/ DealCompleted \/ DealCancelled
  PROVE  \E o \in Offers : \E x : DealMove(o, x)
<1>1. /\ offer \in [Offers -> OfferRows] /\ held \in [Offers -> Nat]
      /\ \A o \in Offers : Coherent(offer[o]) /\ offer[o].amount \in Nat
  BY RowAmounts DEF Balanced, OffersSound, TypeOK
<1>2. CASE DealDisputed
  <2>1. PICK o \in Offers :
          /\ offer[o].deal = "in_work"
          /\ offer' = [offer EXCEPT ![o].deal = "disputed", ![o].claimed = TRUE]
    BY <1>2 DEF DealDisputed
  <2> DEFINE x == [offer[o] EXCEPT !.deal = "disputed", !.claimed = TRUE]
  <2>2. /\ x \in OfferRows /\ x.status = offer[o].status /\ x.response = offer[o].response
        /\ x.amount = offer[o].amount /\ x.date = offer[o].date /\ x.credited = offer[o].credited
        /\ x.deal = "disputed" /\ x.claimed /\ x.paid = offer[o].paid
    BY <1>1 DEF OfferRows, DealStatuses
  <2>3. offer' = [offer EXCEPT ![o] = x]
    BY <1>1, <2>1 DEF OfferRows
  <2> HIDE DEF x
  <2>4. held[o] = offer[o].amount /\ HeldFor(x) = offer[o].amount
    BY <2>1, <2>2, HeldRead DEF Balanced, HeldFor, IsRunning
  <2>5. held' = [held EXCEPT ![o] = HeldFor(x)] /\ available' = available
    BY <1>1, <1>2, <2>4 DEF DealDisputed, money
  <2>6. DealGoesOn(o, x)
    BY <2>2, <2>3, <2>5 DEF DealGoesOn
  <2>7. QED
    BY <2>1, <2>6, DealMovesOn
<1>3. CASE DealCompleted
  <2>0. PICK o \in Offers : \E paid \in 1..offer[o].amount :
          /\ offer[o].deal \in {"in_work", "disputed"}
          /\ offer' = [offer EXCEPT ![o].deal = "completed", ![o].paid = paid]
          /\ available' = available + held[o] - paid
          /\ held' = [held EXCEPT ![o] = 0]
    BY <1>3 DEF DealCompleted
  <2>1. PICK paid \in 1..offer[o].amount :
          /\ offer[o].deal \in {"in_work", "disputed"}
          /\ offer' = [offer EXCEPT ![o].deal = "completed", ![o].paid = paid]
          /\ available' = available + held[o] - paid
          /\ held' = [held EXCEPT ![o] = 0]
    BY <2>0
  <2> DEFINE x == [offer[o] EXCEPT !.deal = "completed", !.paid = paid]
  <2>2. paid \in Nat /\ paid <= offer[o].amount
    BY <1>1
  <2>3. /\ x \in OfferRows /\ x.status = offer[o].status /\ x.response = offer[o].response
        /\ x.amount = offer[o].amount /\ x.date = offer[o].date /\ x.credited = offer[o].credited
        /\ x.deal = "completed" /\ x.claimed = offer[o].claimed /\ x.paid = paid
    BY <1>1, <2>2 DEF OfferRows, DealStatuses
  <2>4. offer' = [offer EXCEPT ![o] = x]
    BY <1>1, <2>1 DEF OfferRows
  <2> HIDE DEF x
  <2>5. HeldFor(x) = 0
    BY <1>1, <2>1, <2>3 DEF HeldFor, IsRunning, IsReserved, Coherent, NoDeal
  <2>6. DealGoesOn(o, x)
    BY <2>1, <2>2, <2>3, <2>4, <2>5 DEF DealGoesOn
  <2>7. QED
    BY <2>1, <2>6, DealMovesOn
<1>4. CASE DealCancelled
  <2>1. PICK o \in Offers :
          /\ offer[o].deal \in {"in_work", "disputed"}
          /\ offer' = [offer EXCEPT ![o].deal = "cancelled"]
          /\ available' = available + held[o]
          /\ held' = [held EXCEPT ![o] = 0]
    BY <1>4 DEF DealCancelled
  <2> DEFINE x == [offer[o] EXCEPT !.deal = "cancelled"]
  <2>2. /\ x \in OfferRows /\ x.status = offer[o].status /\ x.response = offer[o].response
        /\ x.amount = offer[o].amount /\ x.date = offer[o].date /\ x.credited = offer[o].credited
        /\ x.deal = "cancelled" /\ x.claimed = offer[o].claimed /\ x.paid = offer[o].paid
    BY <1>1 DEF OfferRows, DealStatuses
  <2>3. offer' = [offer EXCEPT ![o] = x]
    BY <1>1, <2>1 DEF OfferRows
  <2> HIDE DEF x
  <2>4. HeldFor(x) = 0
    BY <1>1, <2>1, <2>2 DEF HeldFor, IsRunning, IsReserved, Coherent, NoDeal
  <2>5. DealGoesOn(o, x)
    BY <2>1, <2>2, <2>3, <2>4 DEF DealGoesOn
  <2>6. QED
    BY <2>1, <2>5, DealMovesOn
<1>5. QED
  BY <1>2, <1>3, <1>4

\* a conversion is credited to the performer of the deal of o
CreditMove(o, x) ==
  /\ Moves(o, x) /\ SameOffer(o, x) /\ x.date = offer[o].date
  /\ SpentOn(x) = SpentOn(offer[o]) + CpaRate /\ CpaRate <= BudgetRemaining
  /\ InLimit(x) => InLimit(offer[o])
  /\ IsScheduled(offer[o])

LEMMA CreditMoves ==
  ASSUME Balanced, CreditConversion
  PROVE  \E o \in Offers : \E x : CreditMove(o, x)
<1>1. PICK o \in Offers : /\ offer[o].deal = "in_work"
                          /\ CpaRate <= BudgetRemaining /\ CpaRate <= available
                          /\ offer' = [offer EXCEPT ![o].credited = @ + CpaRate]
  BY DEF CreditConversion
<1>2. /\ offer[o] \in OfferRows /\ Coherent(offer[o]) /\ offer[o].amount \in Nat
      /\ offer[o].paid \in Nat /\ offer[o].credited \in Nat /\ CpaRate \in Nat
      /\ offer \in [Offers -> OfferRows]
      /\ held \in [Offers -> Nat] /\ available \in Nat
  BY RowAmounts, Parameters DEF Balanced, OffersSound, TypeOK
<1> DEFINE c == offer[o].credited + CpaRate
           x == [offer[o] EXCEPT !.credited = c]
<1>3. c \in Nat
  BY <1>2
<1>4. /\ x \in OfferRows
      /\ x.status = offer[o].status /\ x.response = offer[o].response /\ x.amount = offer[o].amount
      /\ x.date = offer[o].date /\ x.deal = "in_work" /\ x.paid = offer[o].paid
      /\ x.claimed = offer[o].claimed /\ x.reserved = offer[o].reserved /\ x.credited = c
  <2> HIDE DEF c
  <2>1. QED
    BY <1>1, <1>2, <1>3 DEF OfferRows
<1>5. offer' = [offer EXCEPT ![o] = x]
  BY <1>1, <1>2 DEF OfferRows
<1> HIDE DEF x
<1>6. /\ offer[o].status = "accepted" /\ offer[o].paid = 0
      /\ HeldFor(offer[o]) = offer[o].amount /\ HeldFor(x) = offer[o].amount
      /\ SpentOn(offer[o]) = offer[o].credited + offer[o].amount
      /\ SpentOn(x) = c + offer[o].amount
      /\ IsScheduled(offer[o])
      /\ InLimit(x) => InLimit(offer[o])
  <2> HIDE DEF c
  <2>1. QED
    BY <1>1, <1>2, <1>4 DEF Coherent, HeldFor, SpentOn, IsRunning, IsReserved, IsScheduled, InLimit,
                            NoDeal
<1>7. Coherent(x)
  BY <1>1, <1>2, <1>4 DEF Coherent, NoDeal
<1>8. SameOffer(o, x)
  BY <1>4, <1>6 DEF SameOffer
<1>9. held[o] = HeldFor(x)
  BY <1>6, HeldRead DEF Balanced
<1>10. /\ held' = [held EXCEPT ![o] = HeldFor(x)]
       /\ available' = available - CpaRate
  BY <1>2, <1>9 DEF CreditConversion
<1>11. /\ available' \in Nat
       /\ available' + HeldFor(x) + x.paid + x.credited
            = available + HeldFor(offer[o]) + offer[o].paid + offer[o].credited
  BY <1>1, <1>2, <1>4, <1>6, <1>10
<1>12. Moves(o, x)
  BY <1>4, <1>5, <1>7, <1>10, <1>11 DEF Moves
<1>13. SpentOn(x) = SpentOn(offer[o]) + CpaRate
  BY <1>2, <1>6
<1>14. QED
  BY <1>1, <1>4, <1>6, <1>8, <1>12, <1>13 DEF CreditMove

\* both sides agree another date of publication for the deal of o
DateMove(o, x) ==
  /\ Moves(o, x) /\ SameOffer(o, x)
  /\ SpentOn(x) = SpentOn(offer[o])
  /\ InLimit(x) => InLimit(offer[o])
  /\ x.date <= campaign.terms.end

LEMMA DateMoves ==
  ASSUME Balanced, AcceptPublicationDate
  PROVE  \E o \in Offers : \E x : DateMove(o, x)
<1>1. PICK o \in Offers, day \in Dates \cap (today..campaign.terms.end) :
        /\ offer[o].deal = "in_work"
        /\ offer' = [offer EXCEPT ![o].date = day]
  BY DEF AcceptPublicationDate
<1>2. /\ offer[o] \in OfferRows /\ Coherent(offer[o]) /\ offer[o].amount \in Nat
      /\ offer[o].paid \in Nat /\ offer[o].credited \in Nat
      /\ offer \in [Offers -> OfferRows]
      /\ held \in [Offers -> Nat] /\ available \in Nat
  BY RowAmounts DEF Balanced, OffersSound, TypeOK
<1>3. day \in 0..MaxDay /\ day <= campaign.terms.end
  <2>1. campaign.terms.end \in 0..MaxDay /\ today \in 0..MaxDay
    BY DEF Balanced, TypeOK, CampaignRows, TermSet
  <2>2. day \in Dates /\ day \in today..campaign.terms.end
    BY <1>1
  <2>3. QED
    BY <2>1, <2>2, Parameters
<1> DEFINE x == [offer[o] EXCEPT !.date = day]
<1>4. /\ x \in OfferRows
      /\ x.status = offer[o].status /\ x.response = offer[o].response /\ x.amount = offer[o].amount
      /\ x.date = day /\ x.deal = "in_work" /\ x.paid = offer[o].paid
      /\ x.claimed = offer[o].claimed /\ x.reserved = offer[o].reserved
      /\ x.credited = offer[o].credited
  BY <1>1, <1>2, <1>3 DEF OfferRows
<1>5. offer' = [offer EXCEPT ![o] = x]
  BY <1>1, <1>2 DEF OfferRows
<1> HIDE DEF x
<1>6. /\ offer[o].status = "accepted"
      /\ HeldFor(offer[o]) = offer[o].amount /\ HeldFor(x) = offer[o].amount
      /\ SpentOn(x) = SpentOn(offer[o])
      /\ IsScheduled(offer[o])
      /\ InLimit(x) => InLimit(offer[o])
  BY <1>1, <1>2, <1>4 DEF Coherent, HeldFor, SpentOn, IsRunning, IsReserved, IsScheduled, InLimit,
                          NoDeal
<1>7. Coherent(x)
  BY <1>1, <1>2, <1>4 DEF Coherent, NoDeal
<1>8. SameOffer(o, x)
  BY <1>4, <1>6 DEF SameOffer
<1>9. held[o] = HeldFor(x)
  BY <1>6, HeldRead DEF Balanced
<1>10. held' = [held EXCEPT ![o] = HeldFor(x)] /\ available' = available
  BY <1>2, <1>9 DEF AcceptPublicationDate, money
<1>11. Moves(o, x)
  BY <1>2, <1>4, <1>5, <1>6, <1>7, <1>10 DEF Moves
<1>12. QED
  BY <1>3, <1>4, <1>6, <1>8, <1>11 DEF DateMove

-----------------------------------------------------------------------------
(* The steps of the specification by what they touch.                      *)
ViewReads ==
  \/ EditRead \/ SubmitRead \/ PauseRead \/ ResumeRead \/ DestroyRead \/ InviteRead
  \/ RejectResponseRead \/ WithdrawResponseRead \/ AnswerProposalRead
  \/ ApproveRead \/ RejectRead \/ ProposeRead \/ RespondRead

StatusWrites == SubmitWrite \/ PauseWrite \/ ResumeWrite \/ DestroyWrite \/ RejectWrite

ViewWrites ==
  \/ StatusWrites \/ EditWrite \/ InviteWrite \/ RejectResponseWrite \/ AnswerProposalWrite
  \/ ApplyProposal \/ ApproveWrite \/ ProposeWrite \/ RespondWrite

OfferSteps ==
  \/ SendDirectOffer \/ AcceptResponse \/ RejectOffer \/ AcceptDirectOffer
  \/ FinishEarly \/ CompleteExpired \/ ExpireOverdue
  \/ CreditConversion \/ AcceptPublicationDate
  \/ DealDisputed \/ DealCompleted \/ DealCancelled

LEMMA StepsSplit == Next => ViewReads \/ ViewWrites \/ OfferSteps \/ IncreaseBudget \/ Tick
  BY DEF Next, ViewReads, ViewWrites, StatusWrites, OfferSteps

\* the history: a step leaves it, overtakes the forms in flight or saves one of them
LEMMA HistoryMoves ==
  ASSUME Next
  PROVE  UNCHANGED history \/ Overtakes \/ \E s \in Sessions : Saves(s)
<1>1. CASE ViewReads
  BY <1>1 DEF ViewReads, EditRead, SubmitRead, PauseRead, ResumeRead, DestroyRead, InviteRead,
              RejectResponseRead, WithdrawResponseRead, AnswerProposalRead, ApproveRead, RejectRead,
              ProposeRead, RespondRead, Read
<1>2. CASE ViewWrites
  BY <1>2 DEF ViewWrites, StatusWrites, SubmitWrite, PauseWrite, ResumeWrite, DestroyWrite, RejectWrite,
              SaveStatus, EditWrite, InviteWrite, RejectResponseWrite, AnswerProposalWrite,
              ApplyProposal, ApproveWrite, ProposeWrite, RespondWrite
<1>3. CASE OfferSteps
  BY <1>3 DEF OfferSteps, SendDirectOffer, AcceptResponse, SendOffer, RejectOffer, AcceptDirectOffer,
              FinishEarly, CompleteExpired, Complete, ExpireOverdue, CreditConversion,
              AcceptPublicationDate, DealDisputed, DealCompleted, DealCancelled
<1>4. CASE IncreaseBudget \/ Tick
  BY <1>4 DEF IncreaseBudget, Tick
<1>5. QED
  BY <1>1, <1>2, <1>3, <1>4, StepsSplit

LEMMA HistoryTyped ==
  ASSUME stale \subseteq Sessions, overtaken \in BOOLEAN, Next \/ UNCHANGED history
  PROVE  stale' \subseteq Sessions /\ overtaken' \in BOOLEAN
<1>1. CASE UNCHANGED history
  BY <1>1 DEF history
<1>2. CASE Overtakes
  BY <1>2 DEF Overtakes, FormsInFlight
<1>3. ASSUME NEW s \in Sessions, Saves(s)
      PROVE  stale' \subseteq Sessions /\ overtaken' \in BOOLEAN
  BY <1>3 DEF Saves
<1>4. QED
  BY <1>1, <1>2, <1>3, HistoryMoves

LEMMA DeadlineTyped ==
  ASSUME NEW t \in TermSet
  PROVE  ResponseDeadline(t) \in Int
<1>1. t.end \in Int /\ ResponseLead \in Int
  BY Parameters DEF TermSet
<1>2. QED
  BY <1>1 DEF ResponseDeadline

LEMMA RefreshedTyped ==
  ASSUME NEW rs \in [Responses -> ResponseRows], NEW t \in TermSet
  PROVE  /\ Refreshed(rs, t) \in [Responses -> ResponseRows]
         /\ \A r \in Responses : Refreshed(rs, t)[r].status = rs[r].status
<1>1. ASSUME NEW r \in Responses, NEW row, row \in {[rs[r] EXCEPT !.expires = ResponseDeadline(t)], rs[r]}
      PROVE  row \in ResponseRows /\ row.status = rs[r].status
  BY <1>1, DeadlineTyped DEF ResponseRows
<1>2. QED
  BY <1>1 DEF Refreshed

LEMMA ReadSound ==
  ASSUME SessionsSound, NEW x, Carries(x), Read(x)
  PROVE  SessionsSound'
  BY DEF SessionsSound, Read

LEMMA ServedSound ==
  ASSUME SessionsSound, NEW s \in Sessions, Served(s)
  PROVE  SessionsSound'
<1>1. Carries(Idle)
  BY DEF Carries, Idle
<1>2. QED
  BY <1>1 DEF SessionsSound, Served

LEMMA ViewsRead ==
  ASSUME TypeOK, SessionsSound, ViewReads
  PROVE  SessionsSound' /\ UNCHANGED <<rows, today>>
<1>1. ASSUME NEW x, Carries(x), Read(x)
      PROVE  SessionsSound' /\ UNCHANGED <<rows, today>>
  BY <1>1, ReadSound DEF Read
<1>2. campaign \in CampaignRows
  BY DEF TypeOK
<1>3. CASE EditRead
  <2>1. PICK t \in Terms :
          /\ campaign.status \in {"draft", "rejected", "paused"}
          /\ Read([view |-> "edit",
                   row |-> [campaign EXCEPT !.terms = t,
                                            !.status = IF @ = "paused" THEN "moderation" ELSE @]])
    BY <1>3 DEF EditRead
  <2> DEFINE row == [campaign EXCEPT !.terms = t, !.status = IF @ = "paused" THEN "moderation" ELSE @]
             x == [view |-> "edit", row |-> row]
  <2>2. row \in CampaignRows /\ row.status \in {"draft", "rejected", "moderation"}
    <3>1. t \in TermSet
      BY Parameters
    <3>2. QED
      BY <1>2, <2>1, <3>1 DEF CampaignRows, Statuses
  <2>3. Read(x)
    BY <2>1
  <2>4. Carries(x)
    <3> HIDE DEF row
    <3>1. QED
      BY <2>2 DEF Carries
  <2> HIDE DEF x
  <2>5. QED
    BY <1>1, <2>3, <2>4
<1>4. CASE SubmitRead
  BY <1>1, <1>4 DEF SubmitRead, Carries
<1>5. CASE PauseRead
  BY <1>1, <1>5 DEF PauseRead, Carries
<1>6. CASE ResumeRead
  BY <1>1, <1>6 DEF ResumeRead, Carries
<1>7. CASE DestroyRead
  BY <1>1, <1>7 DEF DestroyRead, Carries
<1>8. CASE InviteRead
  BY <1>1, <1>8 DEF InviteRead, Carries
<1>9. CASE RejectResponseRead \/ WithdrawResponseRead
  <2>1. PICK r \in Responses, st \in {"rejected", "withdrawn"} :
          Read([view |-> "reject_response", response |-> r, status |-> st])
    BY <1>9 DEF RejectResponseRead, WithdrawResponseRead
  <2>2. Carries([view |-> "reject_response", response |-> r, status |-> st])
    BY DEF Carries
  <2>3. QED
    BY <1>1, <2>1, <2>2
<1>10. CASE AnswerProposalRead
  BY <1>1, <1>10 DEF AnswerProposalRead, Carries
<1>11. CASE ApproveRead
  <2>1. Carries([view |-> "approve", terms |-> campaign.terms])
    BY <1>2 DEF Carries, CampaignRows
  <2>2. QED
    BY <1>1, <1>11, <2>1 DEF ApproveRead
<1>12. CASE RejectRead
  BY <1>1, <1>12 DEF RejectRead, Carries
<1>13. CASE ProposeRead
  <2>1. PICK t \in Terms : Read([view |-> "propose",
             changes |-> [new |-> t, fields |-> {f \in DOMAIN t : t[f] # campaign.terms[f]}]])
    BY <1>13 DEF ProposeRead
  <2>2. Carries([view |-> "propose",
             changes |-> [new |-> t, fields |-> {f \in DOMAIN t : t[f] # campaign.terms[f]}]])
    BY Parameters DEF Carries
  <2>3. QED
    BY <1>1, <2>1, <2>2
<1>14. CASE RespondRead
  <2>1. PICK r \in Responses :
          Read([view |-> "respond", response |-> r, expires |-> ResponseDeadline(campaign.terms)])
    BY <1>14 DEF RespondRead
  <2>2. Carries([view |-> "respond", response |-> r, expires |-> ResponseDeadline(campaign.terms)])
    BY <1>2, DeadlineTyped DEF Carries, CampaignRows
  <2>3. QED
    BY <1>1, <2>1, <2>2
<1>15. QED
  BY <1>3, <1>4, <1>5, <1>6, <1>7, <1>8, <1>9, <1>10, <1>11, <1>12, <1>13, <1>14 DEF ViewReads

(* What the second halves of the views may do: the offers are not touched, *)
(* nothing is accepted, and no status of a completed campaign is written.  *)
WriteEffect ==
  /\ SessionsSound'
  /\ UNCHANGED <<offer, available, held, today>>
  /\ campaign' \in CampaignRows
  /\ campaign'.status = "completed" => campaign.status = "completed"
  /\ proposal' = NoProposal \/ proposal'.new \in TermSet
  /\ response' \in [Responses -> ResponseRows]
  /\ \A r \in Responses : response'[r].status = "accepted" => response[r].status = "accepted"

LEMMA StatusWritten ==
  ASSUME TypeOK, SessionsSound, response \in [Responses -> ResponseRows],
         NEW view, NEW st \in Statuses \ {"completed"}, SaveStatus(view, st)
  PROVE  WriteEffect
<1>1. PICK s \in Sessions : /\ campaign' = [campaign EXCEPT !.status = st]
                            /\ Served(s)
                            /\ UNCHANGED <<proposal, response, offer, invited, money, today, history>>
  BY DEF SaveStatus
<1>2. campaign' \in CampaignRows /\ campaign'.status = st
  BY <1>1 DEF TypeOK, CampaignRows
<1>3. QED
  BY <1>1, <1>2, ServedSound DEF WriteEffect, TypeOK, money

LEMMA ProposedTyped ==
  ASSUME TypeOK, proposal # NoProposal
  PROVE  ProposedTerms \in TermSet
<1>1. /\ proposal.new \in TermSet /\ campaign.terms \in TermSet
  BY DEF TypeOK, CampaignRows
<1>2. ASSUME NEW b \in {proposal.new.budget, campaign.terms.budget},
             NEW m \in {proposal.new.max, campaign.terms.max},
             NEW e \in {proposal.new.end, campaign.terms.end}
      PROVE  [budget |-> b, max |-> m, end |-> e] \in TermSet
  BY <1>1 DEF TermSet
<1>3. QED
  BY <1>2 DEF ProposedTerms

LEMMA ViewsWrite ==
  ASSUME TypeOK, SessionsSound, response \in [Responses -> ResponseRows], ViewWrites
  PROVE  WriteEffect
<1>1. /\ campaign \in CampaignRows
      /\ proposal = NoProposal \/ proposal.new \in TermSet
  BY DEF TypeOK
<1>2. CASE StatusWrites
  <2>1. \E view, st : st \in Statuses \ {"completed"} /\ SaveStatus(view, st)
    BY <1>2 DEF StatusWrites, SubmitWrite, PauseWrite, ResumeWrite, DestroyWrite, RejectWrite, Statuses
  <2>2. QED
    BY <2>1, StatusWritten
<1>3. CASE EditWrite
  <2>1. PICK s \in Sessions :
          /\ session[s].view = "edit"
          /\ campaign' = session[s].row
          /\ response' = Refreshed(response, session[s].row.terms)
          /\ Served(s)
          /\ UNCHANGED <<proposal, offer, invited, money, today>>
    BY <1>3 DEF EditWrite
  <2>2. session[s].row \in CampaignRows /\ session[s].row.status \in {"draft", "rejected", "moderation"}
    BY <2>1 DEF SessionsSound, Carries
  <2>3. session[s].row.terms \in TermSet
    BY <2>2 DEF CampaignRows
  <2>4. /\ response' \in [Responses -> ResponseRows]
        /\ \A r \in Responses : response'[r].status = response[r].status
    BY <2>1, <2>3, RefreshedTyped
  <2>5. QED
    BY <1>1, <2>1, <2>2, <2>4, ServedSound DEF WriteEffect, money
<1>4. CASE InviteWrite
  <2>1. PICK s \in Sessions : Served(s) /\ UNCHANGED <<campaign, proposal, response, offer, money, today>>
    BY <1>4 DEF InviteWrite
  <2>2. QED
    BY <1>1, <2>1, ServedSound DEF WriteEffect, money
<1>5. CASE RejectResponseWrite
  <2>1. PICK s \in Sessions :
          /\ session[s].view = "reject_response"
          /\ response' = [response EXCEPT ![session[s].response].status = session[s].status]
          /\ Served(s)
          /\ UNCHANGED <<campaign, proposal, offer, invited, money, today>>
    BY <1>5 DEF RejectResponseWrite
  <2>2. session[s].response \in Responses /\ session[s].status \in {"rejected", "withdrawn"}
    BY <2>1 DEF SessionsSound, Carries
  <2>3. ASSUME NEW q \in Responses, NEW st \in {"rejected", "withdrawn"},
               NEW new, new = [response EXCEPT ![q].status = st]
        PROVE  /\ new \in [Responses -> ResponseRows]
               /\ \A r \in Responses : new[r].status = "accepted" => response[r].status = "accepted"
    BY <2>3 DEF ResponseRows, ResponseStatuses
  <2>4. /\ response' \in [Responses -> ResponseRows]
        /\ \A r \in Responses : response'[r].status = "accepted" => response[r].status = "accepted"
    BY <2>1, <2>2, <2>3
  <2>5. QED
    BY <1>1, <2>1, <2>4, ServedSound DEF WriteEffect, money
<1>6. CASE AnswerProposalWrite
  <2>1. PICK s \in Sessions :
          /\ \/ /\ proposal # NoProposal
                /\ session' = [session EXCEPT ![s] = [view |-> "apply", terms |-> ProposedTerms]]
                /\ UNCHANGED <<campaign, proposal>>
             \/ /\ campaign' = [campaign EXCEPT !.status = "rejected"]
                /\ proposal' = NoProposal
                /\ Served(s)
             \/ Served(s) /\ UNCHANGED <<campaign, proposal>>
          /\ UNCHANGED <<response, offer, invited, money, today>>
    BY <1>6 DEF AnswerProposalWrite
  <2>2. CASE /\ proposal # NoProposal
             /\ session' = [session EXCEPT ![s] = [view |-> "apply", terms |-> ProposedTerms]]
             /\ UNCHANGED <<campaign, proposal>>
    <3>1. ProposedTerms \in TermSet
      BY <2>2, ProposedTyped
    <3>2. PICK x : x = [view |-> "apply", terms |-> ProposedTerms]
      OBVIOUS
    <3>3. Carries(x)
      BY <3>1, <3>2 DEF Carries
    <3>4. SessionsSound'
      BY <2>2, <3>2, <3>3 DEF SessionsSound
    <3>5. QED
      BY <1>1, <2>1, <2>2, <3>4 DEF WriteEffect, money
  <2>3. CASE /\ campaign' = [campaign EXCEPT !.status = "rejected"]
             /\ proposal' = NoProposal
             /\ Served(s)
    <3>1. campaign' \in CampaignRows /\ campaign'.status = "rejected"
      BY <1>1, <2>3 DEF CampaignRows, Statuses
    <3>2. QED
      BY <2>1, <2>3, <3>1, ServedSound DEF WriteEffect, money
  <2>4. CASE Served(s) /\ UNCHANGED <<campaign, proposal>>
    BY <1>1, <2>1, <2>4, ServedSound DEF WriteEffect, money
  <2>5. QED
    BY <2>1, <2>2, <2>3, <2>4
<1>7. CASE ApplyProposal
  <2>1. PICK s \in Sessions :
          /\ session[s].view = "apply"
          /\ campaign' = [status |-> "active", terms |-> session[s].terms, approved |-> session[s].terms]
          /\ response' = Refreshed(response, session[s].terms)
          /\ proposal' = NoProposal
          /\ Served(s)
          /\ UNCHANGED <<offer, invited, money, today>>
    BY <1>7 DEF ApplyProposal
  <2>2. session[s].terms \in TermSet
    BY <2>1 DEF SessionsSound, Carries
  <2>3. campaign' \in CampaignRows /\ campaign'.status = "active"
    BY <2>1, <2>2 DEF CampaignRows, Statuses
  <2>4. /\ response' \in [Responses -> ResponseRows]
        /\ \A r \in Responses : response'[r].status = response[r].status
    BY <2>1, <2>2, RefreshedTyped
  <2>5. QED
    BY <2>1, <2>3, <2>4, ServedSound DEF WriteEffect, money
<1>8. CASE ApproveWrite
  <2>1. PICK s \in Sessions :
          /\ session[s].view = "approve"
          /\ campaign' = [campaign EXCEPT !.status = "active", !.approved = session[s].terms]
          /\ Served(s)
          /\ UNCHANGED <<proposal, response, offer, invited, money, today>>
    BY <1>8 DEF ApproveWrite
  <2>2. session[s].terms \in TermSet
    BY <2>1 DEF SessionsSound, Carries
  <2>3. campaign' \in CampaignRows /\ campaign'.status = "active"
    BY <1>1, <2>1, <2>2 DEF CampaignRows, Statuses
  <2>4. QED
    BY <1>1, <2>1, <2>3, ServedSound DEF WriteEffect, money
<1>9. CASE ProposeWrite
  <2>1. PICK s \in Sessions :
          /\ session[s].view = "propose"
          /\ proposal' \in {session[s].changes, proposal}
          /\ Served(s)
          /\ UNCHANGED <<campaign, response, offer, invited, money, today>>
    BY <1>9 DEF ProposeWrite
  <2>2. session[s].changes.new \in TermSet
    BY <2>1 DEF SessionsSound, Carries
  <2>3. QED
    BY <1>1, <2>1, <2>2, ServedSound DEF WriteEffect, money
<1>10. CASE RespondWrite
  <2>1. PICK s \in Sessions :
          /\ session[s].view = "respond"
          /\ response' \in {[response EXCEPT ![session[s].response] =
                               [status |-> "pending", expires |-> session[s].expires]], response}
          /\ Served(s)
          /\ UNCHANGED <<campaign, proposal, offer, invited, money, today>>
    BY <1>10 DEF RespondWrite
  <2>2. session[s].response \in Responses /\ session[s].expires \in Int
    BY <2>1 DEF SessionsSound, Carries
  <2>3. [status |-> "pending", expires |-> session[s].expires] \in ResponseRows
    BY <2>2 DEF ResponseRows, ResponseStatuses
  <2>4. /\ response' \in [Responses -> ResponseRows]
        /\ \A r \in Responses : response'[r].status = "accepted" => response[r].status = "accepted"
    BY <2>1, <2>2, <2>3
  <2>5. QED
    BY <1>1, <2>1, <2>4, ServedSound DEF WriteEffect, money
<1>11. QED
  BY <1>2, <1>3, <1>4, <1>5, <1>6, <1>7, <1>8, <1>9, <1>10 DEF ViewWrites

-----------------------------------------------------------------------------
(* Responses and their offers.                                             *)
Typed == Balanced /\ response \in [Responses -> ResponseRows]

LEMMA ResponsesClose ==
  ASSUME Typed, AcceptedResponseHasOffer, NEW os, os \in SUBSET Offers,
         \A o \in os : offer[o].status = "pending", offer' = Freed(os),
         NEW rs \in [Responses -> ResponseRows],
         \A r \in Responses : rs[r].status = "accepted" => response[r].status = "accepted",
         NEW st \in {"withdrawn", "expired"}, CloseOffers(rs, os, st)
  PROVE  /\ Frees(os)
         /\ response' \in [Responses -> ResponseRows]
         /\ AcceptedResponseHasOffer'
<1>1. Frees(os)
  BY DEF Frees, CloseOffers
<1>2. ASSUME NEW r \in Responses
      PROVE  /\ response'[r] \in ResponseRows
             /\ response'[r].status = "accepted" => /\ rs[r].status = "accepted"
                                                    /\ ~\E o \in os : offer[o].response = r
  BY DEF CloseOffers, ResponseRows, ResponseStatuses
<1>3. response' \in [Responses -> ResponseRows]
  <2>1. response' = [r \in Responses |-> response'[r]]
    BY DEF CloseOffers
  <2>2. QED
    BY <1>2, <2>1
<1>4. ASSUME NEW r \in Responses, response'[r].status = "accepted"
      PROVE  \E o \in Offers : offer'[o].response = r /\ offer'[o].status \in {"pending", "accepted"}
  <2>1. response[r].status = "accepted" /\ ~\E o \in os : offer[o].response = r
    BY <1>2, <1>4
  <2>2. PICK o \in Offers : offer[o].response = r /\ offer[o].status \in {"pending", "accepted"}
    BY <2>1 DEF AcceptedResponseHasOffer
  <2>3. offer'[o] = offer[o]
    BY <2>1, <2>2 DEF Freed
  <2>4. QED
    BY <2>2, <2>3
<1>5. QED
  BY <1>1, <1>3, <1>4 DEF AcceptedResponseHasOffer

\* an offer that goes on keeps the response it was made of
LEMMA ResponsesKeepOffers ==
  ASSUME Typed, AcceptedResponseHasOffer, NEW o \in Offers, NEW x, Moves(o, x), SameOffer(o, x),
         response' = response
  PROVE  AcceptedResponseHasOffer'
<1>1. offer'[o] = x /\ \A p \in Offers \ {o} : offer'[p] = offer[p]
  BY DEF Moves, Typed, Balanced, OffersSound
<1>2. ASSUME NEW r \in Responses, response[r].status = "accepted"
      PROVE  \E p \in Offers : offer'[p].response = r /\ offer'[p].status \in {"pending", "accepted"}
  <2>1. PICK p \in Offers : offer[p].response = r /\ offer[p].status \in {"pending", "accepted"}
    BY <1>2 DEF AcceptedResponseHasOffer
  <2>2. offer'[p].response = r /\ offer'[p].status \in {"pending", "accepted"}
    BY <1>1, <2>1 DEF SameOffer
  <2>3. QED
    BY <2>2
<1>3. QED
  BY <1>2 DEF AcceptedResponseHasOffer

\* the marks of complete_campaign and of the timer on the responses
LEMMA ResponsesExpire ==
  ASSUME Typed, NEW R
  PROVE  LET rs == [r \in Responses |-> IF r \in R
                                        THEN [response[r] EXCEPT !.status = "expired"] ELSE response[r]]
         IN /\ rs \in [Responses -> ResponseRows]
            /\ \A r \in Responses : rs[r].status = "accepted" => response[r].status = "accepted"
<1>1. ASSUME NEW r \in Responses,
             NEW row, row \in {[response[r] EXCEPT !.status = "expired"], response[r]}
      PROVE  row \in ResponseRows /\ (row.status = "accepted" => response[r].status = "accepted")
  <2>1. response[r] \in ResponseRows
    BY DEF Typed
  <2>2. QED
    BY <1>1, <2>1 DEF ResponseRows, ResponseStatuses
<1>2. QED
  BY <1>1

-----------------------------------------------------------------------------
(* What a step on the offers does.                                         *)
OfferEffect ==
  /\ OffersSound' /\ ReserveFollowsOffer'
  /\ available' \in Nat /\ held' \in [Offers -> Nat]
  /\ UNCHANGED <<session, today>>
  /\ campaign' \in CampaignRows /\ campaign'.terms = campaign.terms
  /\ proposal' = NoProposal \/ proposal' = proposal
  /\ response' \in [Responses -> ResponseRows]
  /\ AcceptedResponseHasOffer'
  /\ CompletedHoldsNoOffers'

LEMMA OfferSent ==
  ASSUME Typed, AcceptedResponseHasOffer, NEW o \in Offers, NEW p \in Platforms,
         NEW r \in Responses \cup {NoResponse}, NEW amount \in Prices, SendOffer(o, p, r, amount),
         \A q \in Responses : response'[q].status = "accepted" => (response[q].status = "accepted" \/ q = r)
  PROVE  /\ OffersSound' /\ ReserveFollowsOffer' /\ available' \in Nat /\ held' \in [Offers -> Nat]
         /\ AcceptedResponseHasOffer' /\ campaign.status = "active"
<1>1. Balanced
  BY DEF Typed
<1>2. PICK x : /\ Moves(o, x)
               /\ offer[o].status = "none" /\ x.status = "pending" /\ x.response = r
               /\ campaign.status = "active"
  BY <1>1, SendMoves
<1>3. OffersSound' /\ ReserveFollowsOffer' /\ available' \in Nat /\ held' \in [Offers -> Nat]
  BY <1>1, <1>2, OneOfferMoves
<1>4. offer'[o] = x /\ \A q \in Offers \ {o} : offer'[q] = offer[q]
  BY <1>1, <1>2 DEF Moves, Balanced, OffersSound
<1>5. ASSUME NEW q \in Responses, response'[q].status = "accepted"
      PROVE  \E a \in Offers : offer'[a].response = q /\ offer'[a].status \in {"pending", "accepted"}
  <2>1. CASE q = r
    BY <1>2, <1>4, <2>1
  <2>2. CASE response[q].status = "accepted"
    <3>1. PICK a \in Offers : offer[a].response = q /\ offer[a].status \in {"pending", "accepted"}
      BY <2>2 DEF AcceptedResponseHasOffer
    <3>2. offer'[a] = offer[a]
      BY <1>2, <1>4, <3>1
    <3>3. QED
      BY <3>1, <3>2
  <2>3. QED
    BY <1>5, <2>1, <2>2
<1>6. QED
  BY <1>2, <1>3, <1>5 DEF AcceptedResponseHasOffer

LEMMA CampaignCompletes ==
  ASSUME Typed, AcceptedResponseHasOffer, Complete
  PROVE  OfferEffect /\ \E os : Frees(os)
<1> DEFINE os == {o \in Offers : offer[o].status = "pending"}
           P == {r \in Responses : response[r].status = "pending"}
           rs == [r \in Responses |-> IF r \in P
                                      THEN [response[r] EXCEPT !.status = "expired"] ELSE response[r]]
<1>1. Balanced /\ campaign \in CampaignRows
  BY DEF Typed, Balanced, TypeOK
<1>2. /\ rs \in [Responses -> ResponseRows]
      /\ \A r \in Responses : rs[r].status = "accepted" => response[r].status = "accepted"
  <2> HIDE DEF P
  <2>1. QED
    BY ResponsesExpire
<1>3. rs = [r \in Responses |-> IF response[r].status = "pending"
                                THEN [response[r] EXCEPT !.status = "expired"] ELSE response[r]]
  OBVIOUS
<1>4. offer' = Freed(os) /\ CloseOffers(rs, os, "expired")
  BY <1>3 DEF Complete
<1>5. os \in SUBSET Offers /\ \A o \in os : offer[o].status = "pending"
  OBVIOUS
<1>6. /\ Frees(os)
      /\ response' \in [Responses -> ResponseRows]
      /\ AcceptedResponseHasOffer'
  <2> HIDE DEF os, rs
  <2>1. QED
    BY <1>2, <1>4, <1>5, ResponsesClose
<1>7. OffersSound' /\ ReserveFollowsOffer' /\ available' \in Nat /\ held' \in [Offers -> Nat]
  <2> HIDE DEF os
  <2>1. QED
    BY <1>1, <1>6, OffersFree
<1>8. CompletedHoldsNoOffers'
  <2>1. \A o \in Offers : offer'[o].status # "pending"
    BY <1>4 DEF Freed, BlankOffer
  <2>2. QED
    BY <2>1 DEF CompletedHoldsNoOffers
<1>9. campaign' \in CampaignRows /\ campaign'.terms = campaign.terms
  BY <1>1 DEF Complete, CampaignRows, Statuses
<1>10. UNCHANGED <<session, today>> /\ proposal' = NoProposal
  BY DEF Complete
<1>11. QED
  <2> HIDE DEF os
  <2>1. QED
    BY <1>6, <1>7, <1>8, <1>9, <1>10 DEF OfferEffect

LEMMA OfferRejected ==
  ASSUME Typed, AcceptedResponseHasOffer, CompletedHoldsNoOffers, RejectOffer \/ ExpireOverdue
  PROVE  OfferEffect /\ \E os : Frees(os)
<1>1. Balanced /\ response \in [Responses -> ResponseRows]
      /\ campaign \in CampaignRows /\ offer \in [Offers -> OfferRows]
  BY DEF Typed, Balanced, TypeOK, OffersSound
<1>2. ASSUME NEW os, os \in SUBSET Offers,
             \A o \in os : offer[o].status = "pending", offer' = Freed(os),
             NEW rs \in [Responses -> ResponseRows],
             \A r \in Responses : rs[r].status = "accepted" => response[r].status = "accepted",
             NEW st \in {"withdrawn", "expired"}, CloseOffers(rs, os, st),
             UNCHANGED <<campaign, proposal, session, today>>
      PROVE  OfferEffect /\ \E S : Frees(S)
  <2>1. /\ Frees(os)
        /\ response' \in [Responses -> ResponseRows]
        /\ AcceptedResponseHasOffer'
    BY <1>2, ResponsesClose
  <2>2. OffersSound' /\ ReserveFollowsOffer' /\ available' \in Nat /\ held' \in [Offers -> Nat]
    BY <1>1, <2>1, OffersFree
  <2>3. \A o \in Offers : offer'[o].status = "pending" => offer[o].status = "pending"
    BY <1>2 DEF Freed, BlankOffer
  <2>4. CompletedHoldsNoOffers'
    BY <1>2, <2>3 DEF CompletedHoldsNoOffers
  <2>5. QED
    BY <1>1, <1>2, <2>1, <2>2, <2>4 DEF OfferEffect
<1>3. CASE RejectOffer
  <2>1. PICK o \in Offers : /\ offer[o].status = "pending"
                            /\ offer' = Freed({o})
                            /\ CloseOffers(response, {o}, "withdrawn")
    BY <1>3 DEF RejectOffer
  <2>2. UNCHANGED <<campaign, proposal, session, today>>
    BY <1>3 DEF RejectOffer
  <2>3. {o} \in SUBSET Offers /\ \A q \in {o} : offer[q].status = "pending"
    BY <2>1
  <2>4. QED
    BY <1>1, <1>2, <2>1, <2>2, <2>3
<1>4. CASE ExpireOverdue
  <2> DEFINE os == {o \in Offers : offer[o].status = "pending" /\ Overdue(offer[o])}
             P == {r \in Responses : response[r].status = "pending" /\ Overdue(response[r])}
             rs == [r \in Responses |-> IF r \in P
                                        THEN [response[r] EXCEPT !.status = "expired"] ELSE response[r]]
  <2>1. /\ rs \in [Responses -> ResponseRows]
        /\ \A r \in Responses : rs[r].status = "accepted" => response[r].status = "accepted"
    <3> HIDE DEF P
    <3>1. QED
      BY ResponsesExpire
  <2>2. /\ offer' = Freed(os) /\ CloseOffers(rs, os, "expired")
        /\ UNCHANGED <<campaign, proposal, session, today>>
    BY <1>4 DEF ExpireOverdue
  <2>3. os \in SUBSET Offers /\ \A o \in os : offer[o].status = "pending"
    OBVIOUS
  <2> HIDE DEF os, rs
  <2>4. QED
    BY <1>2, <2>1, <2>2, <2>3
<1>5. QED
  BY <1>3, <1>4

LEMMA OffersStep ==
  ASSUME Typed, AcceptedResponseHasOffer, CompletedHoldsNoOffers, OfferSteps
  PROVE  OfferEffect
<1>1. /\ Balanced /\ response \in [Responses -> ResponseRows]
      /\ campaign \in CampaignRows
      /\ offer \in [Offers -> OfferRows]
  BY DEF Typed, Balanced, TypeOK, OffersSound
<1>2. CASE SendDirectOffer
  <2>1. PICK o \in Offers, p \in Platforms, amount \in Prices : SendOffer(o, p, NoResponse, amount)
    BY <1>2 DEF SendDirectOffer
  <2>2. UNCHANGED <<campaign, proposal, response, session, today>>
    BY <1>2 DEF SendDirectOffer
  <2>3. NoResponse \in Responses \cup {NoResponse}
        /\ \A q \in Responses : response'[q].status = "accepted" =>
                                  (response[q].status = "accepted" \/ q = NoResponse)
    BY <2>2
  <2>4. /\ OffersSound' /\ ReserveFollowsOffer' /\ available' \in Nat /\ held' \in [Offers -> Nat]
        /\ AcceptedResponseHasOffer' /\ campaign.status = "active"
    BY <2>1, <2>3, OfferSent
  <2>5. QED
    BY <1>1, <2>2, <2>4 DEF OfferEffect, CompletedHoldsNoOffers
<1>3. CASE AcceptResponse
  <2>1. PICK r \in Responses, o \in Offers, amount \in Prices :
          /\ SendOffer(o, PlatformOf[r], r, amount)
          /\ response' = [response EXCEPT ![r].status = "accepted"]
    BY <1>3 DEF AcceptResponse
  <2>2. UNCHANGED <<campaign, proposal, session, today>>
    BY <1>3 DEF AcceptResponse
  <2>3. PlatformOf[r] \in Platforms
    BY CampaignAssumption
  <2>4. /\ response' \in [Responses -> ResponseRows]
        /\ \A q \in Responses : response'[q].status = "accepted" =>
                                  (response[q].status = "accepted" \/ q = r)
    BY <1>1, <2>1 DEF ResponseRows, ResponseStatuses
  <2>5. /\ OffersSound' /\ ReserveFollowsOffer' /\ available' \in Nat /\ held' \in [Offers -> Nat]
        /\ AcceptedResponseHasOffer' /\ campaign.status = "active"
    BY <2>1, <2>3, <2>4, OfferSent
  <2>6. QED
    BY <1>1, <2>2, <2>4, <2>5 DEF OfferEffect, CompletedHoldsNoOffers
<1>4. CASE RejectOffer \/ ExpireOverdue
  BY <1>4, OfferRejected
<1>5. CASE FinishEarly \/ CompleteExpired
  BY <1>5, CampaignCompletes DEF FinishEarly, CompleteExpired
<1>6. ASSUME NEW o \in Offers, NEW x, Moves(o, x), SameOffer(o, x),
             UNCHANGED <<campaign, proposal, response, session, today>>
      PROVE  OfferEffect
  <2>1. OffersSound' /\ ReserveFollowsOffer' /\ available' \in Nat /\ held' \in [Offers -> Nat]
    BY <1>1, <1>6, OneOfferMoves
  <2>2. AcceptedResponseHasOffer'
    BY <1>6, ResponsesKeepOffers
  <2>3. CompletedHoldsNoOffers'
    BY <1>1, <1>6 DEF Moves, SameOffer, CompletedHoldsNoOffers
  <2>4. QED
    BY <1>1, <1>6, <2>1, <2>2, <2>3 DEF OfferEffect
<1>7. CASE AcceptDirectOffer
  <2>1. \E o \in Offers : \E x : AcceptMove(o, x)
    BY <1>1, <1>7, AcceptMoves
  <2>2. UNCHANGED <<campaign, proposal, response, session, today>>
    BY <1>7 DEF AcceptDirectOffer
  <2>3. QED
    BY <1>6, <2>1, <2>2 DEF AcceptMove
<1>8. CASE CreditConversion
  <2>1. \E o \in Offers : \E x : CreditMove(o, x)
    BY <1>1, <1>8, CreditMoves
  <2>2. UNCHANGED <<campaign, proposal, response, session, today>>
    BY <1>8 DEF CreditConversion
  <2>3. QED
    BY <1>6, <2>1, <2>2 DEF CreditMove
<1>9. CASE AcceptPublicationDate
  <2>1. \E o \in Offers : \E x : DateMove(o, x)
    BY <1>1, <1>9, DateMoves
  <2>2. UNCHANGED <<campaign, proposal, response, session, today>>
    BY <1>9 DEF AcceptPublicationDate
  <2>3. QED
    BY <1>6, <2>1, <2>2 DEF DateMove
<1>10. CASE DealDisputed \/ DealCompleted \/ DealCancelled
  <2>1. \E o \in Offers : \E x : DealMove(o, x)
    BY <1>1, <1>10, DealMoves
  <2>2. UNCHANGED <<campaign, proposal, response, session, today>>
    BY <1>10 DEF DealDisputed, DealCompleted, DealCancelled
  <2>3. QED
    BY <1>6, <2>1, <2>2 DEF DealMove
<1>11. QED
  BY <1>2, <1>3, <1>4, <1>5, <1>7, <1>8, <1>9, <1>10 DEF OfferSteps

-----------------------------------------------------------------------------
(* The invariant for any number of views.                                  *)
LEMMA TypesFollow ==
  ASSUME campaign' \in CampaignRows, proposal' = NoProposal \/ proposal'.new \in TermSet,
         response' \in [Responses -> ResponseRows], OffersSound',
         available' \in Nat, held' \in [Offers -> Nat], today' \in 0..MaxDay,
         stale' \subseteq Sessions, overtaken' \in BOOLEAN
  PROVE  TypeOK'
<1>1. \A r \in Responses : response'[r].status \in ResponseStatuses
  BY DEF ResponseRows
<1>2. \A o \in Offers :
        /\ offer'[o].status \in OfferStatuses
        /\ offer'[o].platform \in Platforms \cup {"no platform"}
        /\ offer'[o].response \in Responses \cup {NoResponse}
        /\ offer'[o].deal \in DealStatuses
  BY DEF OffersSound, OfferRows
<1>3. QED
  BY <1>1, <1>2 DEF TypeOK

LEMMA BudgetTyped ==
  ASSUME campaign \in CampaignRows, IncreaseBudget
  PROVE  \E b \in Nat : /\ campaign' \in CampaignRows
                        /\ campaign'.status = campaign.status
                        /\ campaign'.terms = [campaign.terms EXCEPT !.budget = b]
                        /\ b >= campaign.terms.budget
<1>1. PICK b \in Budgets :
        /\ b > campaign.terms.budget
        /\ campaign' = [campaign EXCEPT !.terms = [@ EXCEPT !.budget = b],
                                        !.approved = [campaign.terms EXCEPT !.budget = b]]
  BY DEF IncreaseBudget
<1>2. b \in Nat /\ campaign.terms \in TermSet /\ campaign.terms.budget \in Nat
  BY CampaignAssumption DEF CampaignRows, TermSet
<1> DEFINE t == [campaign.terms EXCEPT !.budget = b]
<1>3. t \in TermSet
  BY <1>2 DEF TermSet
<1>4. campaign' = [campaign EXCEPT !.terms = t, !.approved = t]
  BY <1>1 DEF CampaignRows
<1> HIDE DEF t
<1>5. campaign' \in CampaignRows /\ campaign'.status = campaign.status /\ campaign'.terms = t
  BY <1>3, <1>4 DEF CampaignRows
<1>6. QED
  BY <1>1, <1>2, <1>5 DEF t

LEMMA InitIInv == Init => IInv
<1> SUFFICES ASSUME Init PROVE IInv
  OBVIOUS
<1>1. PICK t \in Terms, fs \in SUBSET Former, p \in Platforms, a \in Prices :
        /\ t.max * FixedPrice <= t.budget /\ FixedPrice <= t.budget
        /\ Cardinality(fs) <= 1
        /\ campaign = IF fs = {} THEN [status |-> "draft", terms |-> t, approved |-> NoTerms]
                      ELSE [status |-> "active", terms |-> t, approved |-> t]
        /\ offer = [o \in Offers |->
             IF o \in fs
             THEN [BlankOffer EXCEPT !.status = "pending", !.platform = p, !.amount = a,
                                     !.date = t.end, !.expires = OfferDays]
             ELSE BlankOffer]
  BY DEF Init
<1>2. /\ t \in TermSet /\ t.end \in 0..MaxDay /\ a \in Nat /\ OfferDays \in Nat /\ MaxDay \in Nat
      /\ Funds \in Nat
  BY Parameters DEF TermSet
<1>3. campaign \in CampaignRows /\ campaign.status # "completed"
  BY <1>1, <1>2 DEF CampaignRows, Statuses
<1> DEFINE former == [BlankOffer EXCEPT !.status = "pending", !.platform = p, !.amount = a,
                                        !.date = t.end, !.expires = OfferDays]
<1>4. /\ former \in OfferRows /\ Coherent(former) /\ HeldFor(former) = 0
      /\ former.paid = 0 /\ former.credited = 0
  BY <1>2 DEF BlankOffer, OfferRows, Coherent, HeldFor, IsReserved, IsRunning, OfferStatuses,
              DealStatuses, NoDeal
<1>5. /\ OffersSound
      /\ \A o \in Offers : HeldFor(offer[o]) = 0 /\ offer[o].paid = 0 /\ offer[o].credited = 0
  <2>1. offer = [o \in Offers |-> IF o \in fs THEN former ELSE BlankOffer]
    BY <1>1
  <2> HIDE DEF former
  <2>2. \A o \in Offers : offer[o] \in {former, BlankOffer}
    BY <2>1
  <2>3. offer \in [Offers -> OfferRows]
    BY <1>2, <1>4, <2>1, BlankRow
  <2>4. QED
    BY <1>2, <1>4, <2>2, <2>3, BlankRow DEF OffersSound
<1>6. held = [o \in Offers |-> 0] /\ available = Funds /\ today = 0 /\ proposal = NoProposal
      /\ response = [r \in Responses |-> BlankResponse] /\ session = [s \in Sessions |-> Idle]
      /\ stale = {} /\ overtaken = FALSE
  BY DEF Init
<1>7. ReserveFollowsOffer
  <2> DEFINE f == [o \in Offers |-> held[o] + offer[o].paid + offer[o].credited]
  <2>1. \A o \in Offers : f[o] = 0
    BY <1>5, <1>6
  <2>2. SumFunctionOnSet(f, Offers) = 0
    <3> HIDE DEF f
    <3>1. QED
      BY <2>1, SumOfZeros, RowsAssumption
  <2>3. \A o \in Offers : held[o] = IF o \in PendingReserved \/ offer[o].deal \in {"in_work", "disputed"}
                                    THEN offer[o].amount ELSE 0
    BY <1>5, <1>6, ReservedRead DEF HeldFor, IsRunning
  <2>4. available + SumFunctionOnSet(f, Offers) = Funds
    <3> HIDE DEF f
    <3>1. QED
      BY <1>2, <1>6, <2>2
  <2>5. QED
    BY <2>3, <2>4 DEF ReserveFollowsOffer
<1>8. response \in [Responses -> ResponseRows] /\ AcceptedResponseHasOffer
  BY <1>6 DEF BlankResponse, ResponseRows, ResponseStatuses, AcceptedResponseHasOffer
<1>9. TypeOK
  <2>1. available \in Nat /\ held \in [Offers -> Nat] /\ today \in 0..MaxDay
    BY <1>2, <1>6
  <2>2. \A r \in Responses : response[r].status \in ResponseStatuses
    BY <1>8 DEF ResponseRows
  <2>3. \A o \in Offers :
          /\ offer[o].status \in OfferStatuses
          /\ offer[o].platform \in Platforms \cup {"no platform"}
          /\ offer[o].response \in Responses \cup {NoResponse}
          /\ offer[o].deal \in DealStatuses
    BY <1>5 DEF OffersSound, OfferRows
  <2>4. QED
    BY <1>3, <1>6, <2>1, <2>2, <2>3 DEF TypeOK
<1>10. SessionsSound /\ CompletedHoldsNoOffers
  BY <1>3, <1>6 DEF SessionsSound, Carries, Idle, CompletedHoldsNoOffers
<1>11. QED
  BY <1>5, <1>7, <1>8, <1>9, <1>10 DEF IInv

LEMMA RowsStay ==
  ASSUME IInv, UNCHANGED rows, today' \in 0..MaxDay, SessionsSound',
         stale' \subseteq Sessions, overtaken' \in BOOLEAN
  PROVE  IInv'
<1>1. /\ campaign' = campaign /\ proposal' = proposal /\ response' = response /\ offer' = offer
      /\ available' = available /\ held' = held
  BY DEF rows
<1>2. OffersSound' /\ ReserveFollowsOffer' /\ AcceptedResponseHasOffer' /\ CompletedHoldsNoOffers'
  BY <1>1 DEF IInv, OffersSound, ReserveFollowsOffer, PendingReserved, AcceptedResponseHasOffer,
              CompletedHoldsNoOffers
<1>3. TypeOK' /\ response' \in [Responses -> ResponseRows]
  BY <1>1 DEF IInv, TypeOK
<1>4. QED
  BY <1>2, <1>3 DEF IInv

LEMMA NextIInv == IInv /\ [Next]_vars => IInv'
<1> SUFFICES ASSUME IInv, [Next]_vars PROVE IInv'
  OBVIOUS
<1>1. /\ TypeOK /\ SessionsSound /\ response \in [Responses -> ResponseRows] /\ Typed
      /\ AcceptedResponseHasOffer /\ CompletedHoldsNoOffers
      /\ campaign \in CampaignRows /\ today \in 0..MaxDay
      /\ proposal = NoProposal \/ proposal.new \in TermSet
      /\ OffersSound /\ ReserveFollowsOffer
      /\ available \in Nat /\ held \in [Offers -> Nat]
  BY DEF IInv, Typed, Balanced, TypeOK
<1>2. stale' \subseteq Sessions /\ overtaken' \in BOOLEAN
  BY HistoryTyped DEF IInv, TypeOK, vars, history
<1>3. CASE ViewReads
  <2>1. SessionsSound' /\ UNCHANGED <<rows, today>>
    BY <1>1, <1>3, ViewsRead
  <2>2. QED
    BY <1>2, <1>1, <2>1, RowsStay
<1>4. CASE ViewWrites
  <2>1. WriteEffect
    BY <1>1, <1>4, ViewsWrite
  <2>2. OffersSound' /\ ReserveFollowsOffer' /\ available' \in Nat /\ held' \in [Offers -> Nat]
    BY <1>1, <2>1 DEF WriteEffect, OffersSound, ReserveFollowsOffer, PendingReserved
  <2>3. AcceptedResponseHasOffer' /\ CompletedHoldsNoOffers'
    BY <1>1, <2>1 DEF WriteEffect, AcceptedResponseHasOffer, CompletedHoldsNoOffers
  <2>4. TypeOK'
    BY <1>2, <1>1, <2>1, <2>2, TypesFollow DEF WriteEffect
  <2>5. QED
    BY <2>1, <2>2, <2>3, <2>4 DEF IInv, WriteEffect
<1>5. CASE OfferSteps
  <2>1. OfferEffect
    BY <1>1, <1>5, OffersStep
  <2>2. SessionsSound'
    BY <1>1, <2>1 DEF OfferEffect, SessionsSound
  <2>3. TypeOK'
    BY <1>2, <1>1, <2>1, TypesFollow DEF OfferEffect
  <2>4. QED
    BY <2>1, <2>2, <2>3 DEF IInv, OfferEffect
<1>6. CASE IncreaseBudget
  <2>1. campaign' \in CampaignRows /\ campaign'.status = campaign.status
    BY <1>1, <1>6, BudgetTyped
  <2>2. UNCHANGED <<proposal, response, offer, available, held, session, today>>
    BY <1>6 DEF IncreaseBudget, money
  <2>3. OffersSound' /\ ReserveFollowsOffer' /\ AcceptedResponseHasOffer' /\ SessionsSound'
    BY <1>1, <2>2 DEF OffersSound, ReserveFollowsOffer, PendingReserved, AcceptedResponseHasOffer,
                      SessionsSound
  <2>4. CompletedHoldsNoOffers'
    BY <1>1, <2>1, <2>2 DEF CompletedHoldsNoOffers
  <2>5. TypeOK'
    BY <1>2, <1>1, <2>1, <2>2, <2>3, TypesFollow
  <2>6. QED
    BY <1>1, <2>2, <2>3, <2>4, <2>5 DEF IInv
<1>7. CASE Tick
  <2>1. UNCHANGED <<rows, session>> /\ today' \in 0..MaxDay
    BY <1>1, <1>7, Parameters DEF Tick
  <2>2. SessionsSound'
    BY <1>1, <2>1 DEF SessionsSound
  <2>3. QED
    BY <1>2, <2>1, <2>2, RowsStay
<1>8. CASE UNCHANGED vars
  <2>1. UNCHANGED <<rows, session, today>>
    BY <1>8 DEF vars, rows
  <2>2. SessionsSound'
    BY <1>1, <2>1 DEF SessionsSound
  <2>3. QED
    BY <1>2, <1>1, <2>1, <2>2, RowsStay
<1>9. QED
  BY <1>3, <1>4, <1>5, <1>6, <1>7, <1>8, StepsSplit

LEMMA AlwaysIInv == Spec => []IInv
  BY InitIInv, NextIInv, PTL DEF Spec

(***************************************************************************)
(* The rows of a campaign, its responses and offers keep their shape and   *)
(* no balance goes below zero: send_offer and accept_direct_offer ask the  *)
(* balance, and what release_offer and the settlements give back was held. *)
(***************************************************************************)
THEOREM CampaignTypes == Spec => []TypeOK
<1>1. IInv => TypeOK
  BY DEF IInv
<1>2. QED
  BY <1>1, AlwaysIInv, PTL

(***************************************************************************)
(* reserve_for_offer and release_offer: for any number of offers and views *)
(* in flight, money is held for an offer exactly while it waits reserved   *)
(* or its deal runs, and available, held and paid together stay what the   *)
(* advertiser had.                                                         *)
(***************************************************************************)
THEOREM ReserveGoesWithOffer == Spec => []ReserveFollowsOffer
<1>1. IInv => ReserveFollowsOffer
  BY DEF IInv
<1>2. QED
  BY <1>1, AlwaysIInv, PTL

(***************************************************************************)
(* _close_offers: no way an offer ends leaves its response accepted, and   *)
(* no view that writes a response by an earlier read makes it accepted.    *)
(***************************************************************************)
THEOREM NoResponseLeftAccepted == Spec => []AcceptedResponseHasOffer
<1>1. IInv => AcceptedResponseHasOffer
  BY DEF IInv
<1>2. QED
  BY <1>1, AlwaysIInv, PTL

(***************************************************************************)
(* complete_campaign closes every offer, and nothing a view writes later   *)
(* makes a completed campaign with an offer that waits: no view writes the *)
(* status completed, and an offer is sent only by an active campaign.      *)
(***************************************************************************)
THEOREM CompletedCampaignIsClosed == Spec => []CompletedHoldsNoOffers
<1>1. IInv => CompletedHoldsNoOffers
  BY DEF IInv
<1>2. QED
  BY <1>1, AlwaysIInv, PTL

-----------------------------------------------------------------------------
(* The budget, the limit and the dates.                                    *)
LEMMA CoversRead ==
  overtaken \/ Covers(campaign.terms) => BudgetCovers /\ LimitKept /\ DatesCovered
<1>1. PendingReserved \cup {o \in Offers : offer[o].deal \in CapDealStatuses /\ ~offer[o].claimed}
        = {o \in Offers : InLimit(offer[o])}
  BY ReservedRead DEF InLimit
<1>2. ScheduledPublicationDates = {offer[o].date : o \in {q \in Offers : IsScheduled(offer[q])}}
  BY DEF ScheduledPublicationDates, IsScheduled
<1>3. QED
  BY <1>1, <1>2 DEF BudgetCovers, LimitKept, DatesCovered, Covers

Committed(offers) == SumFunctionOnSet([o \in Offers |-> SpentOn(offers[o])], Offers)

LEMMA CommittedRead ==
  ASSUME OffersSound
  PROVE  BudgetCommitted = Committed(offer)
<1> DEFINE f == [o \in Offers |-> Spent(o)]
           g == [o \in Offers |-> SpentOn(offer[o])]
<1>1. \A o \in Offers : f[o] = g[o]
  BY SpentRead DEF OffersSound
<1>2. SumFunctionOnSet(f, Offers) = SumFunctionOnSet(g, Offers)
  <2> HIDE DEF f, g
  <2>1. QED
    BY <1>1, SumSame, RowsAssumption
<1>3. QED
  BY <1>2 DEF BudgetCommitted, Committed

LEMMA CommittedReadNext ==
  ASSUME OffersSound'
  PROVE  BudgetCommitted' = Committed(offer')
<1> DEFINE f == [o \in Offers |-> Spent(o)']
           g == [o \in Offers |-> SpentOn(offer'[o])]
<1>1. ASSUME NEW o \in Offers
      PROVE  f[o] = g[o]
  <2>1. Coherent(offer'[o])
    BY DEF OffersSound
  <2>2. o \in PendingReserved' <=> IsReserved(offer'[o])
    BY DEF PendingReserved, IsReserved
  <2>3. CASE offer'[o].deal \in {"in_work", "disputed"}
    BY <2>3 DEF Spent, SpentOn, HeldFor, IsRunning
  <2>4. CASE offer'[o].deal = "completed"
    BY <2>1, <2>2, <2>4 DEF Spent, SpentOn, Coherent, IsReserved, NoDeal
  <2>5. CASE offer'[o].deal \notin {"in_work", "disputed", "completed"}
    BY <2>2, <2>5 DEF Spent, SpentOn, HeldFor, IsRunning
  <2>6. QED
    BY <2>3, <2>4, <2>5
<1>2. SumFunctionOnSet(f, Offers) = SumFunctionOnSet(g, Offers)
  <2> HIDE DEF f, g
  <2>1. QED
    BY <1>1, SumSame, RowsAssumption
<1>3. QED
  BY <1>2 DEF BudgetCommitted, Committed

LEMMA CommittedNat ==
  ASSUME NEW offers \in [Offers -> OfferRows]
  PROVE  Committed(offers) \in Nat
<1> DEFINE f == [o \in Offers |-> SpentOn(offers[o])]
<1>1. \A o \in Offers : f[o] \in Nat
  BY RowAmounts
<1>2. SumFunctionOnSet(f, Offers) \in Nat
  <2> HIDE DEF f
  <2>1. QED
    BY <1>1, SumNat, RowsAssumption
<1>3. QED
  BY <1>2 DEF Committed

(* No offer takes more than before.                                        *)
Lessens ==
  \A o \in Offers : /\ SpentOn(offer'[o]) <= SpentOn(offer[o])
                    /\ InLimit(offer'[o]) => InLimit(offer[o])
                    /\ IsScheduled(offer'[o]) => IsScheduled(offer[o]) /\ offer'[o].date = offer[o].date

LEMMA CoversLess ==
  ASSUME OffersSound, OffersSound', Lessens, NEW t \in TermSet, Covers(t)
  PROVE  Covers(t)'
<1> DEFINE f == [o \in Offers |-> SpentOn(offer[o])]
           g == [o \in Offers |-> SpentOn(offer'[o])]
           A == {o \in Offers : InLimit(offer[o])}
           B == {o \in Offers : InLimit(offer'[o])}
<1>1. BudgetCommitted' <= t.budget
  <2>1. \A o \in Offers : f[o] \in Int /\ g[o] \in Int /\ g[o] <= f[o]
    BY RowAmounts DEF OffersSound, Lessens
  <2>2. SumFunctionOnSet(g, Offers) <= SumFunctionOnSet(f, Offers)
    <3> HIDE DEF f, g
    <3>1. QED
      BY <2>1, SumMonotone, RowsAssumption
  <2>3. /\ BudgetCommitted = SumFunctionOnSet(f, Offers) /\ BudgetCommitted' = SumFunctionOnSet(g, Offers)
        /\ SumFunctionOnSet(f, Offers) \in Nat /\ SumFunctionOnSet(g, Offers) \in Nat
    BY CommittedRead, CommittedReadNext, CommittedNat DEF Committed, OffersSound
  <2>4. BudgetCommitted <= t.budget /\ t.budget \in Nat
    BY DEF Covers, TermSet
  <2> HIDE DEF f, g
  <2>5. QED
    BY <2>2, <2>3, <2>4
<1>2. t.max # 0 => Cardinality(B) <= t.max
  <2>1. B \in SUBSET A /\ A \in SUBSET Offers
    BY DEF Lessens
  <2>2. t.max # 0 => Cardinality(A) <= t.max
    BY DEF Covers
  <2> HIDE DEF A, B
  <2>3. IsFiniteSet(A) /\ IsFiniteSet(B) /\ Cardinality(B) <= Cardinality(A)
    BY <2>1, FS_Subset, RowsAssumption
  <2>4. Cardinality(A) \in Nat /\ Cardinality(B) \in Nat /\ t.max \in Nat
    BY <2>3, FS_CardinalityType DEF TermSet
  <2>5. QED
    BY <2>2, <2>3, <2>4
<1>3. \A o \in Offers : IsScheduled(offer'[o]) => offer'[o].date <= t.end
  BY DEF Lessens, Covers
<1>4. QED
  BY <1>1, <1>2, <1>3 DEF Covers

LEMMA FreedLess ==
  ASSUME OffersSound, NEW os, Frees(os)
  PROVE  Lessens
<1>1. ASSUME NEW o \in Offers
      PROVE  /\ SpentOn(offer'[o]) <= SpentOn(offer[o])
             /\ InLimit(offer'[o]) => InLimit(offer[o])
             /\ IsScheduled(offer'[o]) => IsScheduled(offer[o]) /\ offer'[o].date = offer[o].date
  <2>1. SpentOn(offer[o]) \in Nat
    BY RowAmounts DEF OffersSound
  <2>2. CASE o \in os
    <3>1. offer'[o] = BlankOffer
      BY <2>2 DEF Frees, Freed
    <3>2. QED
      BY <2>1, <3>1, BlankRow, Parameters
  <2>3. CASE o \notin os
    <3>1. offer'[o] = offer[o]
      BY <2>3 DEF Frees, Freed
    <3>2. QED
      BY <2>1, <3>1
  <2>4. QED
    BY <2>2, <2>3
<1>2. QED
  BY <1>1 DEF Lessens

LEMMA DealLess ==
  ASSUME OffersSound, NEW o \in Offers, NEW x, Moves(o, x), SameOffer(o, x), x.date = offer[o].date,
         SpentOn(x) <= SpentOn(offer[o]), InLimit(x) => InLimit(offer[o])
  PROVE  Lessens
<1>1. offer'[o] = x /\ \A p \in Offers \ {o} : offer'[p] = offer[p]
  BY DEF Moves, OffersSound
<1>2. \A p \in Offers : SpentOn(offer[p]) \in Nat
  BY RowAmounts DEF OffersSound
<1>3. QED
  BY <1>1, <1>2 DEF SameOffer, Lessens

LEMMA RemainingTyped ==
  ASSUME OffersSound, campaign.terms \in TermSet
  PROVE  BudgetRemaining \in Nat
<1> DEFINE left == campaign.terms.budget - BudgetCommitted
<1>1. left \in Int
  <2>1. BudgetCommitted \in Nat /\ campaign.terms.budget \in Nat
    BY CommittedRead, CommittedNat DEF OffersSound, TermSet
  <2>2. QED
    BY <2>1
<1>2. BudgetRemaining = Max({0, left})
  BY DEF BudgetRemaining
<1> HIDE DEF left
<1>3. PICK y \in {0, left} : \A z \in {0, left} : y >= z
  <2>1. CASE left >= 0
    BY <1>1, <2>1
  <2>2. CASE ~(left >= 0)
    BY <1>1, <2>2
  <2>3. QED
    BY <2>1, <2>2
<1>4. y \in Nat
  BY <1>1, <1>3
<1>5. \A x \in {0, left} : (\A z \in {0, left} : x >= z) => x = y
  BY <1>1, <1>3
<1>6. Max({0, left}) = y
  BY <1>3, <1>5 DEF Max
<1>7. QED
  BY <1>2, <1>4, <1>6

(* An offer takes more, of what the campaign has left.                     *)
LEMMA LeftCovers ==
  ASSUME OffersSound, OffersSound', Covers(campaign.terms), campaign.terms \in TermSet,
         NEW o \in Offers, NEW x, Moves(o, x), SpentOn(x) <= SpentOn(offer[o]) + BudgetRemaining,
         \/ InLimit(x) => InLimit(offer[o])
         \/ campaign.terms.max = 0
         \/ DealsInCap < campaign.terms.max,
         x.date <= campaign.terms.end, UNCHANGED campaign
  PROVE  Covers(campaign.terms)'
<1> DEFINE f == [p \in Offers |-> SpentOn(offer[p])]
           g == [p \in Offers |-> SpentOn(offer'[p])]
           A == {p \in Offers : InLimit(offer[p])}
           B == {p \in Offers : InLimit(offer'[p])}
           t == campaign.terms
<1>1. offer'[o] = x /\ \A p \in Offers \ {o} : offer'[p] = offer[p]
  BY DEF Moves, OffersSound
<1>2. t.budget \in Nat /\ t.max \in Nat
  BY DEF TermSet
<1>3. /\ BudgetCommitted = SumFunctionOnSet(f, Offers) /\ BudgetCommitted' = SumFunctionOnSet(g, Offers)
      /\ SumFunctionOnSet(f, Offers) \in Nat
  BY CommittedRead, CommittedReadNext, CommittedNat DEF Committed, OffersSound
<1>4. SpentOn(x) \in Nat /\ SpentOn(offer[o]) \in Nat
  BY RowAmounts DEF Moves, OffersSound
<1>5. BudgetRemaining = t.budget - BudgetCommitted
  <2> DEFINE left == t.budget - BudgetCommitted
  <2>1. BudgetCommitted <= t.budget /\ BudgetCommitted \in Nat
    BY <1>3 DEF Covers
  <2>2. left \in Int /\ left >= 0
    BY <1>2, <2>1
  <2> HIDE DEF left
  <2>3. Max({0, left}) = left
    <3>1. left \in {0, left} /\ \A y \in {0, left} : left >= y
      BY <2>2
    <3>2. \A z \in {0, left} : (\A y \in {0, left} : z >= y) => z = left
      BY <2>2
    <3>3. QED
      BY <3>1, <3>2 DEF Max
  <2>4. QED
    BY <2>3 DEF BudgetRemaining, left
<1>6. SumFunctionOnSet(g, Offers) = SumFunctionOnSet(f, Offers) - f[o] + g[o]
  <2>1. /\ \A p \in Offers : f[p] \in Int
        /\ g[o] \in Int
        /\ \A p \in Offers \ {o} : g[p] = f[p]
    BY <1>1, <1>4, RowAmounts DEF OffersSound
  <2> HIDE DEF f, g
  <2>2. QED
    BY <2>1, SumChange, RowsAssumption
<1>7. BudgetCommitted' <= t.budget
  <2>1. f[o] = SpentOn(offer[o]) /\ g[o] = SpentOn(x)
    BY <1>1
  <2> HIDE DEF f, g, t
  <2>2. QED
    BY <1>2, <1>3, <1>4, <1>5, <1>6, <2>1
<1>8. t.max # 0 => Cardinality(B) <= t.max
  <2>1. CASE InLimit(x) => InLimit(offer[o])
    <3>1. B \in SUBSET A /\ A \in SUBSET Offers
      BY <1>1, <2>1
    <3>2. t.max # 0 => Cardinality(A) <= t.max
      BY DEF Covers
    <3> HIDE DEF A, B, t
    <3>3. IsFiniteSet(A) /\ IsFiniteSet(B) /\ Cardinality(B) <= Cardinality(A)
      BY <3>1, FS_Subset, RowsAssumption
    <3>4. Cardinality(A) \in Nat /\ Cardinality(B) \in Nat
      BY <3>3, FS_CardinalityType
    <3>5. QED
      BY <1>2, <3>2, <3>3, <3>4
  <2>2. CASE campaign.terms.max = 0 \/ DealsInCap < campaign.terms.max
    <3> DEFINE C == {p \in Offers : offer[p].deal \in CapDealStatuses} \cup PendingReserved
    <3>1. t.max # 0 => Cardinality(C) < t.max
      BY <2>2 DEF DealsInCap
    <3>2. A \subseteq C /\ C \in SUBSET Offers
      BY ReservedRead DEF InLimit
    <3>3. B \subseteq C \cup {o}
      BY <1>1, <3>2
    <3> HIDE DEF A, B, C, t
    <3>4. /\ IsFiniteSet(C) /\ IsFiniteSet(C \cup {o})
          /\ Cardinality(C) \in Nat /\ Cardinality(C \cup {o}) <= Cardinality(C) + 1
      BY <3>2, FS_Subset, FS_AddElement, FS_CardinalityType, RowsAssumption
    <3>5. IsFiniteSet(B) /\ Cardinality(B) <= Cardinality(C \cup {o})
      BY <3>3, <3>4, FS_Subset
    <3>6. Cardinality(B) \in Nat /\ Cardinality(C \cup {o}) \in Nat
      BY <3>4, <3>5, FS_CardinalityType
    <3>7. QED
      BY <1>2, <3>1, <3>4, <3>5, <3>6
  <2>3. QED
    BY <2>1, <2>2
<1>9. \A p \in Offers : IsScheduled(offer'[p]) => offer'[p].date <= t.end
  BY <1>1 DEF Covers
<1>10. QED
  BY <1>7, <1>8, <1>9 DEF Covers

(* A new offer, or one accepted that reserved nothing.                     *)
LEMMA AcceptableCovers ==
  ASSUME OffersSound, OffersSound', Covers(campaign.terms), campaign.terms \in TermSet,
         NEW o \in Offers, NEW x, Moves(o, x), SpentOn(offer[o]) = 0, DealAcceptable(SpentOn(x)),
         x.date <= campaign.terms.end, UNCHANGED campaign
  PROVE  Covers(campaign.terms)'
<1>1. SpentOn(x) <= BudgetRemaining /\ (campaign.terms.max = 0 \/ DealsInCap < campaign.terms.max)
  BY DEF DealAcceptable
<1>2. BudgetRemaining \in Int
  BY RemainingTyped
<1>3. SpentOn(x) <= SpentOn(offer[o]) + BudgetRemaining
  BY <1>1, <1>2
<1>4. QED
  BY <1>1, <1>3, LeftCovers

LEMMA ValidCovers ==
  ASSUME OffersSound, NEW t \in TermSet, ParamsValid(t)
  PROVE  Covers(t)
<1> DEFINE A == {o \in Offers : InLimit(offer[o])}
           C == {o \in Offers : offer[o].deal \in CapDealStatuses} \cup PendingReserved
<1>1. BudgetCommitted <= t.budget
  BY DEF ParamsValid
<1>2. t.max # 0 => Cardinality(A) <= t.max
  <2>1. t.max = 0 \/ Cardinality(C) <= t.max
    BY DEF ParamsValid, DealsInCap
  <2>2. A \in SUBSET C /\ C \in SUBSET Offers
    BY ReservedRead DEF InLimit
  <2> HIDE DEF A, C
  <2>3. IsFiniteSet(C) /\ IsFiniteSet(A) /\ Cardinality(A) <= Cardinality(C)
    BY <2>2, FS_Subset, RowsAssumption
  <2>4. Cardinality(A) \in Nat /\ Cardinality(C) \in Nat /\ t.max \in Nat
    BY <2>3, FS_CardinalityType DEF TermSet
  <2>5. QED
    BY <2>1, <2>3, <2>4
<1>3. \A o \in Offers : IsScheduled(offer[o]) => offer[o].date <= t.end
  BY DEF ParamsValid, ScheduledPublicationDates, IsScheduled
<1>4. QED
  BY <1>1, <1>2, <1>3 DEF Covers

\* the rows Covers speaks of are not touched
LEMMA CoversStay ==
  ASSUME NEW t, Covers(t), UNCHANGED offer
  PROVE  Covers(t)'
<1>1. BudgetCommitted' = BudgetCommitted
  BY DEF BudgetCommitted, Spent, PendingReserved
<1>2. QED
  BY <1>1 DEF Covers

LEMMA OffersCovered ==
  ASSUME IInv, IInv', OfferSteps
  PROVE  /\ Covers(campaign.terms) => Covers(campaign.terms)'
         /\ (Lessens /\ UNCHANGED history) \/ Overtakes
<1>1. /\ Typed /\ Balanced /\ OffersSound /\ OffersSound' /\ campaign.terms \in TermSet
      /\ AcceptedResponseHasOffer /\ CompletedHoldsNoOffers
  BY DEF IInv, Typed, Balanced, TypeOK, CampaignRows
<1>2. campaign'.terms = campaign.terms
  BY <1>1, OffersStep DEF OfferEffect
<1>3. ASSUME Lessens, Covers(campaign.terms)
      PROVE  Covers(campaign.terms)'
  <2>1. PICK t \in TermSet : t = campaign.terms
    BY <1>1
  <2>2. Covers(t)
    BY <1>3, <2>1
  <2>3. Covers(t)'
    BY <1>1, <1>3, <2>2, CoversLess
  <2>4. QED
    BY <1>2, <2>1, <2>3 DEF Covers
<1>4. ASSUME NEW o \in Offers, NEW p \in Platforms, NEW r \in Responses \cup {NoResponse},
             NEW amount \in Prices, SendOffer(o, p, r, amount), UNCHANGED campaign
      PROVE  Overtakes /\ (Covers(campaign.terms) => Covers(campaign.terms)')
  <2>1. PICK x : /\ Moves(o, x)
                 /\ campaign.status = "active" /\ DealAcceptable(amount)
                 /\ SpentOn(offer[o]) = 0 /\ SpentOn(x) = amount
                 /\ x.date <= campaign.terms.end
    BY <1>1, <1>4, SendMoves
  <2>2. DealAcceptable(SpentOn(x))
    BY <2>1
  <2>3. Overtakes
    BY <1>4 DEF SendOffer
  <2>4. QED
    BY <1>1, <1>4, <2>1, <2>2, <2>3, AcceptableCovers
<1>5. CASE SendDirectOffer
  <2>1. NoResponse \in Responses \cup {NoResponse}
    OBVIOUS
  <2>2. QED
    BY <1>4, <1>5, <2>1 DEF SendDirectOffer
<1>6. CASE AcceptResponse
  <2>1. \A r \in Responses : PlatformOf[r] \in Platforms
    BY CampaignAssumption
  <2>2. QED
    BY <1>4, <1>6, <2>1 DEF AcceptResponse
<1>7. CASE AcceptDirectOffer
  <2>1. PICK o \in Offers : \E x : AcceptMove(o, x)
    BY <1>1, <1>7, AcceptMoves
  <2>2. PICK x : AcceptMove(o, x)
    BY <2>1
  <2>3. UNCHANGED campaign
    BY <1>7 DEF AcceptDirectOffer
  <2>4. CASE SpentOn(x) = SpentOn(offer[o]) /\ (InLimit(x) => InLimit(offer[o])) /\ UNCHANGED history
    <3>1. SpentOn(offer[o]) \in Nat
      BY <1>1, RowAmounts DEF OffersSound
    <3>2. Lessens
      BY <1>1, <2>2, <2>4, <3>1, DealLess DEF AcceptMove
    <3>3. QED
      BY <1>3, <2>4, <3>2
  <2>5. CASE SpentOn(offer[o]) = 0 /\ DealAcceptable(SpentOn(x)) /\ Overtakes
    <3>1. ASSUME Covers(campaign.terms)
          PROVE  Covers(campaign.terms)'
      <4>1. x.date <= campaign.terms.end
        BY <2>2, <3>1 DEF AcceptMove, SameOffer, Covers, IsScheduled
      <4>2. QED
        BY <1>1, <2>2, <2>3, <2>5, <3>1, <4>1, AcceptableCovers DEF AcceptMove
    <3>2. QED
      BY <2>5, <3>1
  <2>6. QED
    BY <2>2, <2>4, <2>5 DEF AcceptMove
<1>8. CASE CreditConversion
  <2>1. PICK o \in Offers : \E x : CreditMove(o, x)
    BY <1>1, <1>8, CreditMoves
  <2>2. PICK x : CreditMove(o, x)
    BY <2>1
  <2>3. UNCHANGED campaign /\ Overtakes
    BY <1>8 DEF CreditConversion
  <2>4. ASSUME Covers(campaign.terms)
        PROVE  Covers(campaign.terms)'
    <3>1. x.date <= campaign.terms.end
      BY <2>2, <2>4 DEF CreditMove, Covers
    <3>2. SpentOn(x) <= SpentOn(offer[o]) + BudgetRemaining
      BY <1>1, <2>2, RemainingTyped, RowAmounts, Parameters DEF CreditMove, OffersSound
    <3>3. QED
      BY <1>1, <2>2, <2>3, <2>4, <3>1, <3>2, LeftCovers DEF CreditMove
  <2>5. QED
    BY <2>3, <2>4
<1>9. CASE AcceptPublicationDate
  <2>1. PICK o \in Offers : \E x : DateMove(o, x)
    BY <1>1, <1>9, DateMoves
  <2>2. PICK x : DateMove(o, x)
    BY <2>1
  <2>3. UNCHANGED campaign /\ Overtakes
    BY <1>9 DEF AcceptPublicationDate
  <2>4. ASSUME Covers(campaign.terms)
        PROVE  Covers(campaign.terms)'
    <3>1. SpentOn(x) <= SpentOn(offer[o]) + BudgetRemaining
      <4>1. BudgetRemaining \in Nat /\ SpentOn(offer[o]) \in Nat
        BY <1>1, RemainingTyped, RowAmounts DEF OffersSound
      <4>2. QED
        BY <2>2, <4>1 DEF DateMove
    <3>2. QED
      BY <1>1, <2>2, <2>3, <2>4, <3>1, LeftCovers DEF DateMove
  <2>5. QED
    BY <2>3, <2>4
<1>10. CASE RejectOffer \/ ExpireOverdue
  <2>1. \E os : Frees(os)
    BY <1>1, <1>10, OfferRejected
  <2>2. Lessens
    BY <1>1, <2>1, FreedLess
  <2>3. UNCHANGED history
    BY <1>10 DEF RejectOffer, ExpireOverdue
  <2>4. QED
    BY <1>3, <2>2, <2>3
<1>11. CASE FinishEarly \/ CompleteExpired
  <2>1. \E os : Frees(os)
    BY <1>1, <1>11, CampaignCompletes DEF FinishEarly, CompleteExpired
  <2>2. Lessens
    BY <1>1, <2>1, FreedLess
  <2>3. UNCHANGED history
    BY <1>11 DEF FinishEarly, CompleteExpired, Complete
  <2>4. QED
    BY <1>3, <2>2, <2>3
<1>12. CASE DealDisputed \/ DealCompleted \/ DealCancelled
  <2>1. PICK o \in Offers : \E x : DealMove(o, x)
    BY <1>1, <1>12, DealMoves
  <2>2. Lessens
    BY <1>1, <2>1, DealLess DEF DealMove
  <2>3. UNCHANGED history
    BY <1>12 DEF DealDisputed, DealCompleted, DealCancelled
  <2>4. QED
    BY <1>3, <2>2, <2>3
<1>13. QED
  BY <1>5, <1>6, <1>7, <1>8, <1>9, <1>10, <1>11, <1>12 DEF OfferSteps

LEMMA BudgetCovered ==
  ASSUME IInv, IncreaseBudget, NEW t \in TermSet, Covers(t)
  PROVE  Covers(t)' /\ (t = campaign.terms => Covers(campaign.terms)')
<1>1. UNCHANGED offer /\ campaign \in CampaignRows
  BY DEF IncreaseBudget, IInv, TypeOK
<1>2. Covers(t)'
  BY <1>1, CoversStay
<1>3. ASSUME t = campaign.terms
      PROVE  Covers(campaign.terms)'
  <2>1. PICK b \in Nat : campaign'.terms = [t EXCEPT !.budget = b] /\ b >= t.budget
    BY <1>1, <1>3, BudgetTyped
  <2>2. campaign'.terms.budget = b /\ campaign'.terms.max = t.max /\ campaign'.terms.end = t.end
    BY <2>1 DEF TermSet
  <2>3. BudgetCommitted' <= t.budget /\ BudgetCommitted' \in Nat /\ t.budget \in Nat
    <3>1. OffersSound /\ OffersSound'
      BY <1>1 DEF IInv, OffersSound
    <3>2. BudgetCommitted' \in Nat
      BY <3>1, CommittedReadNext, CommittedNat DEF OffersSound
    <3>3. QED
      BY <1>2, <3>2 DEF Covers, TermSet
  <2>4. BudgetCommitted' <= b
    BY <2>1, <2>3
  <2>5. QED
    BY <1>2, <2>2, <2>4 DEF Covers
<1>4. QED
  BY <1>2, <1>3

-----------------------------------------------------------------------------
(* The forms in flight.                                                    *)
LEMMA FormTyped ==
  ASSUME IInv, NEW s \in FormsInFlight
  PROVE  s \in Sessions /\ FormTerms(s) \in TermSet
  BY DEF FormsInFlight, FormTerms, IInv, SessionsSound, Carries, CampaignRows

\* a step that leaves the offers, the terms and the history to those before it
LEMMA CampaignStays ==
  ASSUME LInv, UNCHANGED <<offer, history>>, campaign'.terms = campaign.terms
  PROVE  /\ overtaken' \/ Covers(campaign.terms)'
         /\ \A s \in FormsInFlight \ stale : session'[s] = session[s] => Covers(FormTerms(s))'
<1>1. PICK t : t = campaign.terms
  OBVIOUS
<1>2. Covers(t) => Covers(t)'
  BY CoversStay
<1>3. overtaken' \/ Covers(campaign.terms)'
  BY <1>1, <1>2 DEF LInv, Covers, history
<1>4. ASSUME NEW s \in FormsInFlight \ stale, session'[s] = session[s]
      PROVE  Covers(FormTerms(s))'
  <2>1. PICK u : u = FormTerms(s)
    OBVIOUS
  <2>2. Covers(u)'
    BY <2>1, CoversStay DEF LInv, FormsCover
  <2>3. FormTerms(s)' = u
    BY <1>4, <2>1 DEF FormTerms
  <2>4. QED
    BY <2>2, <2>3 DEF Covers
<1>5. QED
  BY <1>3, <1>4

\* one session changes, and is no form afterwards
LEMMA OneServed ==
  ASSUME LInv, UNCHANGED <<offer, history>>, campaign'.terms = campaign.terms,
         NEW s \in Sessions, NEW x, x.view \notin {"edit", "apply"},
         session' = [session EXCEPT ![s] = x]
  PROVE  FormsCover' /\ (overtaken' \/ Covers(campaign.terms)')
<1>1. /\ session'[s] = x
      /\ \A r \in Sessions \ {s} : session'[r] = session[r]
  BY DEF LInv, IInv, SessionsSound
<1>2. ASSUME NEW r \in FormsInFlight' \ stale'
      PROVE  r \in FormsInFlight \ stale /\ session'[r] = session[r]
  BY <1>1 DEF FormsInFlight, history
<1>3. FormsCover'
  BY <1>2, CampaignStays DEF FormsCover
<1>4. QED
  BY <1>3, CampaignStays

\* a form that covers what is promised comes into flight
LEMMA OneChecked ==
  ASSUME LInv, UNCHANGED <<offer, history>>, campaign'.terms = campaign.terms,
         NEW s \in Sessions, NEW x, NEW t, Covers(t),
         \/ x.view = "edit" /\ x.row.terms = t
         \/ x.view = "apply" /\ x.terms = t,
         session' = [session EXCEPT ![s] = x]
  PROVE  FormsCover' /\ (overtaken' \/ Covers(campaign.terms)')
<1>1. /\ session'[s] = x
      /\ \A r \in Sessions \ {s} : session'[r] = session[r]
  BY DEF LInv, IInv, SessionsSound
<1>2. ASSUME NEW r \in FormsInFlight' \ stale', r # s
      PROVE  Covers(FormTerms(r))'
  <2>1. r \in FormsInFlight \ stale /\ session'[r] = session[r]
    BY <1>1, <1>2 DEF FormsInFlight, history
  <2>2. QED
    BY <2>1, CampaignStays
<1>3. Covers(FormTerms(s))'
  <2>1. FormTerms(s)' = t
    BY <1>1 DEF FormTerms
  <2>2. Covers(t)'
    BY CoversStay
  <2>3. QED
    BY <2>1, <2>2 DEF Covers
<1>4. FormsCover'
  BY <1>2, <1>3 DEF FormsCover
<1>5. QED
  BY <1>4, CampaignStays

LEMMA FormsRead ==
  ASSUME LInv, ViewReads
  PROVE  FormsCover' /\ (overtaken' \/ Covers(campaign.terms)')
<1>1. ASSUME NEW x, x.view \notin {"edit", "apply"}, Read(x)
      PROVE  FormsCover' /\ (overtaken' \/ Covers(campaign.terms)')
  <2>1. UNCHANGED <<offer, history>> /\ campaign'.terms = campaign.terms
    BY <1>1 DEF Read, rows
  <2>2. PICK s \in Sessions : session' = [session EXCEPT ![s] = x]
    BY <1>1 DEF Read
  <2>3. QED
    BY <1>1, <2>1, <2>2, OneServed
<1>2. CASE EditRead
  <2>1. PICK t \in Terms :
          /\ ParamsValid(t)
          /\ Read([view |-> "edit",
                   row |-> [campaign EXCEPT !.terms = t,
                                            !.status = IF @ = "paused" THEN "moderation" ELSE @]])
    BY <1>2 DEF EditRead
  <2>2. t \in TermSet /\ campaign \in CampaignRows
    BY Parameters DEF LInv, IInv, TypeOK
  <2> DEFINE row == [campaign EXCEPT !.terms = t, !.status = IF @ = "paused" THEN "moderation" ELSE @]
             x == [view |-> "edit", row |-> row]
  <2>3. row.terms = t
    BY <2>2 DEF CampaignRows
  <2>4. Covers(t)
    BY <2>1, <2>2, ValidCovers DEF LInv, IInv
  <2>5. Read(x) /\ x.view = "edit" /\ x.row = row
    BY <2>1
  <2> HIDE DEF x, row
  <2>6. UNCHANGED <<offer, history>> /\ campaign'.terms = campaign.terms
    BY <2>5 DEF Read, rows
  <2>7. PICK s \in Sessions : session' = [session EXCEPT ![s] = x]
    BY <2>5 DEF Read
  <2>8. QED
    BY <2>3, <2>4, <2>5, <2>6, <2>7, OneChecked
<1>3. CASE SubmitRead
  BY <1>1, <1>3 DEF SubmitRead
<1>4. CASE PauseRead
  BY <1>1, <1>4 DEF PauseRead
<1>5. CASE ResumeRead
  BY <1>1, <1>5 DEF ResumeRead
<1>6. CASE DestroyRead
  BY <1>1, <1>6 DEF DestroyRead
<1>7. CASE InviteRead
  BY <1>1, <1>7 DEF InviteRead
<1>8. CASE RejectResponseRead
  BY <1>1, <1>8 DEF RejectResponseRead
<1>9. CASE WithdrawResponseRead
  BY <1>1, <1>9 DEF WithdrawResponseRead
<1>10. CASE AnswerProposalRead
  BY <1>1, <1>10 DEF AnswerProposalRead
<1>11. CASE ApproveRead
  BY <1>1, <1>11 DEF ApproveRead
<1>12. CASE RejectRead
  BY <1>1, <1>12 DEF RejectRead
<1>13. CASE ProposeRead
  BY <1>1, <1>13 DEF ProposeRead
<1>14. CASE RespondRead
  BY <1>1, <1>14 DEF RespondRead
<1>15. QED
  BY <1>2, <1>3, <1>4, <1>5, <1>6, <1>7, <1>8, <1>9, <1>10, <1>11, <1>12, <1>13, <1>14
  DEF ViewReads

\* a form is saved: the terms are its own, and it is overtaken or covers what is promised
LEMMA FormSaved ==
  ASSUME LInv, NEW s \in FormsInFlight, campaign'.terms = FormTerms(s), Served(s), Saves(s),
         UNCHANGED offer
  PROVE  FormsCover' /\ (overtaken' \/ Covers(campaign.terms)')
<1>1. /\ s \in Sessions /\ session'[s] = Idle
      /\ \A r \in Sessions \ {s} : session'[r] = session[r]
  BY DEF LInv, IInv, SessionsSound, Served, FormsInFlight
<1>2. overtaken' \/ Covers(campaign.terms)'
  <2>1. CASE s \in stale
    BY <2>1 DEF Saves
  <2>2. CASE s \notin stale
    <3>1. PICK t : t = FormTerms(s)
      OBVIOUS
    <3>2. Covers(t)'
      BY <2>2, <3>1, CoversStay DEF LInv, FormsCover
    <3>3. QED
      BY <3>1, <3>2 DEF Covers
  <2>3. QED
    BY <2>1, <2>2
<1>3. ASSUME NEW r \in FormsInFlight' \ stale'
      PROVE  Covers(FormTerms(r))'
  <2>1. r \in FormsInFlight \ stale /\ session'[r] = session[r]
    BY <1>1, <1>3 DEF FormsInFlight, Saves, Idle
  <2>2. PICK t : t = FormTerms(r)
    OBVIOUS
  <2>3. Covers(t)'
    BY <2>1, <2>2, CoversStay DEF LInv, FormsCover
  <2>4. FormTerms(r)' = t
    BY <2>1, <2>2 DEF FormTerms
  <2>5. QED
    BY <2>3, <2>4 DEF Covers
<1>4. QED
  BY <1>2, <1>3 DEF FormsCover

LEMMA FormsWritten ==
  ASSUME LInv, ViewWrites
  PROVE  FormsCover' /\ (overtaken' \/ Covers(campaign.terms)')
<1>1. campaign \in CampaignRows /\ IInv
  BY DEF LInv, IInv, TypeOK
<1>2. ASSUME NEW s \in Sessions, Served(s), UNCHANGED <<offer, history>>,
             campaign'.terms = campaign.terms
      PROVE  FormsCover' /\ (overtaken' \/ Covers(campaign.terms)')
  BY <1>2, OneServed DEF Served, Idle
<1>3. CASE StatusWrites
  <2>1. PICK s \in Sessions : /\ Served(s) /\ UNCHANGED <<offer, history>>
                              /\ \E st : campaign' = [campaign EXCEPT !.status = st]
    BY <1>3 DEF StatusWrites, SubmitWrite, PauseWrite, ResumeWrite, DestroyWrite, RejectWrite, SaveStatus
  <2>2. campaign'.terms = campaign.terms
    BY <1>1, <2>1 DEF CampaignRows
  <2>3. QED
    BY <1>2, <2>1, <2>2
<1>4. CASE EditWrite
  <2>1. PICK s \in Sessions : /\ session[s].view = "edit" /\ campaign' = session[s].row
                              /\ Served(s) /\ Saves(s) /\ UNCHANGED offer
    BY <1>4 DEF EditWrite
  <2>2. s \in FormsInFlight /\ campaign'.terms = FormTerms(s)
    BY <2>1 DEF FormsInFlight, FormTerms
  <2>3. QED
    BY <2>1, <2>2, FormSaved
<1>5. CASE InviteWrite \/ RejectResponseWrite \/ ProposeWrite \/ RespondWrite
  <2>1. PICK s \in Sessions : Served(s) /\ UNCHANGED <<offer, history, campaign>>
    BY <1>5 DEF InviteWrite, RejectResponseWrite, ProposeWrite, RespondWrite
  <2>2. QED
    BY <1>2, <2>1
<1>6. CASE ApproveWrite
  <2>1. PICK s \in Sessions :
          /\ Served(s) /\ UNCHANGED <<offer, history>>
          /\ \E a : campaign' = [campaign EXCEPT !.status = "active", !.approved = a]
    BY <1>6 DEF ApproveWrite
  <2>2. campaign'.terms = campaign.terms
    BY <1>1, <2>1 DEF CampaignRows
  <2>3. QED
    BY <1>2, <2>1, <2>2
<1>7. CASE AnswerProposalWrite
  <2>1. PICK s \in Sessions :
          /\ \/ /\ proposal # NoProposal /\ ParamsValid(ProposedTerms)
                /\ session' = [session EXCEPT ![s] = [view |-> "apply", terms |-> ProposedTerms]]
                /\ UNCHANGED campaign
             \/ campaign' = [campaign EXCEPT !.status = "rejected"] /\ Served(s)
             \/ Served(s) /\ UNCHANGED campaign
          /\ UNCHANGED <<offer, history>>
    BY <1>7 DEF AnswerProposalWrite, ProposalFits
  <2>2. CASE /\ proposal # NoProposal /\ ParamsValid(ProposedTerms)
             /\ session' = [session EXCEPT ![s] = [view |-> "apply", terms |-> ProposedTerms]]
             /\ UNCHANGED campaign
    <3>1. PICK t \in TermSet : t = ProposedTerms
      BY <1>1, <2>2, ProposedTyped DEF IInv
    <3>2. Covers(t)
      BY <1>1, <2>2, <3>1, ValidCovers DEF IInv
    <3>3. PICK x : x = [view |-> "apply", terms |-> t]
      OBVIOUS
    <3>4. x.view = "apply" /\ x.terms = t /\ session' = [session EXCEPT ![s] = x]
      BY <2>2, <3>1, <3>3
    <3>5. QED
      BY <2>1, <2>2, <3>2, <3>4, OneChecked
  <2>3. CASE campaign' = [campaign EXCEPT !.status = "rejected"] /\ Served(s)
    <3>1. campaign'.terms = campaign.terms
      BY <1>1, <2>3 DEF CampaignRows
    <3>2. QED
      BY <1>2, <2>1, <2>3, <3>1
  <2>4. CASE Served(s) /\ UNCHANGED campaign
    BY <1>2, <2>1, <2>4
  <2>5. QED
    BY <2>1, <2>2, <2>3, <2>4
<1>8. CASE ApplyProposal
  <2>1. PICK s \in Sessions :
          /\ session[s].view = "apply"
          /\ campaign' = [status |-> "active", terms |-> session[s].terms, approved |-> session[s].terms]
          /\ Served(s) /\ Saves(s) /\ UNCHANGED offer
    BY <1>8 DEF ApplyProposal
  <2>2. s \in FormsInFlight /\ campaign'.terms = FormTerms(s)
    BY <2>1 DEF FormsInFlight, FormTerms
  <2>3. QED
    BY <2>1, <2>2, FormSaved
<1>9. QED
  BY <1>3, <1>4, <1>5, <1>6, <1>7, <1>8 DEF ViewWrites

\* a step of the offers overtakes the forms, or takes nothing they did not count
LEMMA FormsOvertaken ==
  ASSUME LInv, IInv', OfferSteps
  PROVE  FormsCover' /\ (overtaken' \/ Covers(campaign.terms)')
<1>1. /\ Typed /\ OffersSound /\ OffersSound' /\ IInv
      /\ AcceptedResponseHasOffer /\ CompletedHoldsNoOffers
  BY DEF LInv, IInv, Typed, Balanced
<1>2. session' = session
  BY <1>1, OffersStep DEF OfferEffect
<1>3. /\ Covers(campaign.terms) => Covers(campaign.terms)'
      /\ (Lessens /\ UNCHANGED history) \/ Overtakes
  BY <1>1, OffersCovered
<1>4. overtaken' \/ Covers(campaign.terms)'
  <2>1. overtaken' = overtaken
    BY <1>3 DEF Overtakes, history
  <2>2. QED
    BY <1>3, <2>1 DEF LInv
<1>5. FormsInFlight' = FormsInFlight
  BY <1>2 DEF FormsInFlight
<1>6. CASE Overtakes
  <2>1. FormsInFlight' \ stale' = {}
    BY <1>5, <1>6 DEF Overtakes
  <2>2. QED
    BY <1>4, <2>1 DEF FormsCover
<1>7. CASE Lessens /\ UNCHANGED history
  <2>1. ASSUME NEW s \in FormsInFlight' \ stale'
        PROVE  Covers(FormTerms(s))'
    <3>1. s \in FormsInFlight \ stale
      BY <1>5, <1>7, <2>1 DEF history
    <3>2. PICK t \in TermSet : t = FormTerms(s)
      BY <1>1, <3>1, FormTyped
    <3>3. Covers(t)
      BY <3>1, <3>2 DEF LInv, FormsCover
    <3>4. Covers(t)'
      BY <1>1, <1>7, <3>3, CoversLess
    <3>5. FormTerms(s)' = t
      BY <1>2, <3>2 DEF FormTerms
    <3>6. QED
      BY <3>4, <3>5 DEF Covers
  <2>2. QED
    BY <1>4, <2>1 DEF FormsCover
<1>8. QED
  BY <1>3, <1>6, <1>7

LEMMA InitLInv == Init => LInv
<1> SUFFICES ASSUME Init PROVE LInv
  OBVIOUS
<1>1. IInv
  BY InitIInv
<1>2. PICK t \in Terms, fs \in SUBSET Former, p \in Platforms, a \in Prices :
        /\ t.max * FixedPrice <= t.budget /\ FixedPrice <= t.budget
        /\ Cardinality(fs) <= 1
        /\ campaign = IF fs = {} THEN [status |-> "draft", terms |-> t, approved |-> NoTerms]
                      ELSE [status |-> "active", terms |-> t, approved |-> t]
        /\ offer = [o \in Offers |->
             IF o \in fs
             THEN [BlankOffer EXCEPT !.status = "pending", !.platform = p, !.amount = a,
                                     !.date = t.end, !.expires = OfferDays]
             ELSE BlankOffer]
  BY DEF Init
<1>3. t \in TermSet /\ t.budget \in Nat /\ t.max \in Nat /\ t.end \in Int /\ campaign.terms = t
  BY <1>2, Parameters DEF TermSet
<1>4. \A o \in Offers : /\ SpentOn(offer[o]) = 0 /\ ~InLimit(offer[o])
                        /\ IsScheduled(offer[o]) => offer[o].date = t.end
  <2>1. ASSUME NEW o \in Offers
        PROVE  /\ ~InLimit(offer[o]) /\ (IsScheduled(offer[o]) => offer[o].date = t.end)
               /\ offer[o].deal # "completed" /\ offer[o].credited = 0 /\ HeldFor(offer[o]) = 0
    BY <1>2 DEF BlankOffer, HeldFor, IsReserved, IsRunning, InLimit, IsScheduled, NoDeal,
                CapDealStatuses
  <2>2. ASSUME NEW o \in Offers
        PROVE  SpentOn(offer[o]) = 0
    <3>1. HeldFor(offer[o]) = 0
      BY <2>1
    <3>2. HeldFor(offer[o]) \in Nat
      BY <3>1
    <3>3. QED
      BY <2>1, <3>1, <3>2, SpentOnOffer
  <2>3. QED
    BY <2>1, <2>2
<1>5. BudgetCommitted = 0
  <2> DEFINE f == [o \in Offers |-> SpentOn(offer[o])]
  <2>1. \A o \in Offers : f[o] = 0
    BY <1>4
  <2>2. SumFunctionOnSet(f, Offers) = 0
    <3> HIDE DEF f
    <3>1. QED
      BY <2>1, SumOfZeros, RowsAssumption
  <2>3. QED
    BY <1>1, <2>2, CommittedRead DEF Committed, IInv
<1>6. Cardinality({o \in Offers : InLimit(offer[o])}) = 0
  <2>1. {o \in Offers : InLimit(offer[o])} = {}
    BY <1>4
  <2>2. QED
    BY <2>1, FS_EmptySet
<1>7. Covers(campaign.terms)
  <2>1. BudgetCommitted <= t.budget
    BY <1>3, <1>5
  <2>2. t.max # 0 => Cardinality({o \in Offers : InLimit(offer[o])}) <= t.max
    BY <1>3, <1>6
  <2>3. \A o \in Offers : IsScheduled(offer[o]) => offer[o].date <= t.end
    BY <1>3, <1>4
  <2>4. QED
    BY <1>3, <2>1, <2>2, <2>3 DEF Covers
<1>8. FormsCover
  BY DEF Init, FormsCover, FormsInFlight, Idle
<1>9. QED
  BY <1>1, <1>7, <1>8 DEF LInv

LEMMA NextLInv == LInv /\ [Next]_vars => LInv'
<1> SUFFICES ASSUME LInv, [Next]_vars PROVE LInv'
  OBVIOUS
<1>1. IInv' /\ IInv
  BY NextIInv DEF LInv
<1>2. CASE ViewReads
  BY <1>1, <1>2, FormsRead DEF LInv
<1>3. CASE ViewWrites
  BY <1>1, <1>3, FormsWritten DEF LInv
<1>4. CASE OfferSteps
  BY <1>1, <1>4, FormsOvertaken DEF LInv
<1>5. CASE IncreaseBudget
  <2>1. UNCHANGED <<session, history>>
    BY <1>5 DEF IncreaseBudget
  <2>2. overtaken' \/ Covers(campaign.terms)'
    <3>1. PICK t \in TermSet : t = campaign.terms
      BY <1>1 DEF IInv, TypeOK, CampaignRows
    <3>2. QED
      BY <1>1, <1>5, <2>1, <3>1, BudgetCovered DEF LInv, history
  <2>3. ASSUME NEW s \in FormsInFlight' \ stale'
        PROVE  Covers(FormTerms(s))'
    <3>1. s \in FormsInFlight \ stale
      BY <2>1, <2>3 DEF FormsInFlight, history
    <3>2. PICK t \in TermSet : t = FormTerms(s)
      BY <1>1, <3>1, FormTyped
    <3>3. Covers(t)'
      BY <1>1, <1>5, <3>1, <3>2, BudgetCovered DEF LInv, FormsCover
    <3>4. FormTerms(s)' = t
      BY <2>1, <3>2 DEF FormTerms
    <3>5. QED
      BY <3>3, <3>4 DEF Covers
  <2>4. QED
    BY <1>1, <2>2, <2>3 DEF LInv, FormsCover
<1>6. CASE Tick \/ UNCHANGED vars
  <2>1. UNCHANGED <<campaign, offer, session, history>>
    BY <1>6 DEF Tick, rows, vars, history
  <2>2. \A s \in FormsInFlight' \ stale' : s \in FormsInFlight \ stale /\ session'[s] = session[s]
    BY <2>1 DEF FormsInFlight, history
  <2>3. FormsCover' /\ (overtaken' \/ Covers(campaign.terms)')
    BY <2>1, <2>2, CampaignStays DEF FormsCover
  <2>4. QED
    BY <1>1, <2>3 DEF LInv
<1>7. QED
  BY <1>2, <1>3, <1>4, <1>5, <1>6, StepsSplit

LEMMA AlwaysLInv == Spec => []LInv
  BY InitLInv, NextLInv, PTL DEF Spec

(***************************************************************************)
(* budget_committed: for any number of offers and of views in flight, the  *)
(* budget bounds deals, waiting offers and credited conversions together,  *)
(* through every order of offers, acceptances, credits, raises, edits and  *)
(* accepted proposals, while the terms in force are not those of a form    *)
(* that a promise overtook between its check and its save.                 *)
(***************************************************************************)
THEOREM CommitmentsWithinBudget == Spec => []BudgetCovers
<1>1. LInv => BudgetCovers
  BY CoversRead DEF LInv
<1>2. QED
  BY <1>1, AlwaysLInv, PTL

(***************************************************************************)
(* deal_acceptance_error: likewise the performers taken on, leaving out    *)
(* the deals that have been through a claim, never exceed max_bloggers,    *)
(* whoever accepts what and however many views are in flight.              *)
(***************************************************************************)
THEOREM LimitIsKept == Spec => []LimitKept
<1>1. LInv => LimitKept
  BY CoversRead DEF LInv
<1>2. QED
  BY <1>1, AlwaysLInv, PTL

(***************************************************************************)
(* Rule R10, campaign_param_errors and publication_date_error: likewise    *)
(* every publication agreed or offered, and every date the two sides move  *)
(* it to, lies within the campaign.                                        *)
(***************************************************************************)
THEOREM PublicationsWithinCampaign == Spec => []DatesCovered
<1>1. LInv => DatesCovered
  BY CoversRead DEF LInv
<1>2. QED
  BY <1>1, AlwaysLInv, PTL
=============================================================================
