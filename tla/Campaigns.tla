----------------------------- MODULE Campaigns ------------------------------
(***************************************************************************)
(* One advertising campaign of the marketplace: its moderation, the        *)
(* responses of performers, the individual offers sent to them and the     *)
(* deals the offers become (apps/campaigns, apps/web/views/campaigns.py,   *)
(* apps/web/views/admin_panel.py).                                         *)
(*                                                                         *)
(* apps/campaigns/services.py works under select_for_update: each of its   *)
(* functions is one atomic step here.  The views do not lock: each reads   *)
(* the row, checks it and writes later, by what it read.  Such a view is   *)
(* two actions, XRead and XWrite, joined by a session that carries what    *)
(* the write still takes from the read.  Sessions bounds how many views    *)
(* are in flight at once; services and timers run between the two halves.  *)
(*                                                                         *)
(* A form is checked against the rows of the moment and saved later.  What *)
(* is promised to performers between the two (an offer, a date, a credited *)
(* conversion) overtakes it.  The history variables stale and overtaken,   *)
(* which no step reads, remember that; the properties on the budget, the   *)
(* limit and the dates say what holds unless it happened.                  *)
(*                                                                         *)
(* Days are working days, so that a term of n working days is n days here  *)
(* (the calendar arithmetic is in module Deals).  Permits, the brand       *)
(* document and the fields that only fill the card are left out: they      *)
(* decide whether a moderator approves, and approval is a free choice.     *)
(* Money is the performer's remuneration; the commission is in Escrow.     *)
(***************************************************************************)
EXTENDS Integers, FiniteSets, FiniteSetsExt

CONSTANTS
  Offers,        \* slots for DirectOffer rows
  Responses,     \* slots for Response rows
  Platforms,     \* approved platforms of performers
  Owner,         \* [Platforms -> performers]
  PlatformOf,    \* [Responses -> Platforms]
  Invited,       \* performers who see the campaign at the start
  Terms,         \* what the form may hold: budget, max (0 for no limit), end
  Budgets,       \* budgets increase_budget may be given
  Prices,        \* amounts of offers
  FixedPrice,    \* campaign.fixed_price; an offer may name another price
  CpaRate,       \* amount of a conversion credited to the performer of a deal
  Funds,         \* available balance of the advertiser
  Former,        \* offers sent before reservations existed, pending at the start
  MaxDay,        \* bound: the last day
  Dates,         \* publication dates offers may carry
  OfferDays,     \* OFFER_ACCEPT_WORKING_DAYS
  ResponseLead,  \* days from the last day a response waits to the end of the campaign
  Sessions,      \* bound: views in flight
  NoTerms,       \* approved_snapshot before the first approval
  NoProposal     \* no CampaignEditProposal is pending

TermSet == [budget : Nat, max : Nat, end : 0..MaxDay]

ASSUME CampaignAssumption ==
  /\ Owner \in [Platforms -> Invited \cup {Owner[p] : p \in Platforms}]
  /\ PlatformOf \in [Responses -> Platforms]
  /\ Budgets \subseteq Nat /\ Prices \subseteq Nat \ {0}
  /\ Terms \subseteq TermSet
  /\ FixedPrice \in Nat \ {0} /\ CpaRate \in Nat \ {0}
  /\ MaxDay \in Nat /\ Dates \subseteq 0..MaxDay
  /\ OfferDays \in Nat \ {0} /\ ResponseLead \in Nat
  /\ Funds \in Nat /\ Former \subseteq Offers
  /\ NoTerms \notin TermSet

\* rows of a table: however many there are, they are finitely many
ASSUME RowsAssumption == IsFiniteSet(Offers)

VARIABLES
  campaign,    \* the Campaign row: status, terms, approved (approved_snapshot)
  proposal,    \* the pending CampaignEditProposal: new values and the fields they change
  response,    \* Response rows
  offer,       \* DirectOffer rows with the status of the deal made of each
  invited,     \* performers with a CampaignInvitation, or all for an open campaign
  available,   \* available balance of the advertiser
  held,        \* per offer, what is reserved for it or for its deal
  session,     \* per session, the view in flight and what it read
  today,
  stale,       \* history: sessions whose form was overtaken since its check
  overtaken    \* history: the terms in force were saved from such a form

vars == <<campaign, proposal, response, offer, invited, available, held, session, today,
          stale, overtaken>>
money == <<available, held>>
rows == <<campaign, proposal, response, offer, invited, available, held>>
history == <<stale, overtaken>>

NoResponse == "no response"
NoDeal == "no deal"
Idle == [view |-> "idle"]

BlankResponse == [status |-> "none", expires |-> 0]

BlankOffer ==
  [status |-> "none", platform |-> "no platform", response |-> NoResponse, amount |-> 0,
   reserved |-> FALSE, date |-> 0, expires |-> 0,
   deal |-> NoDeal, paid |-> 0, claimed |-> FALSE, credited |-> 0]

(***************************************************************************)
(* What the code computes from the rows.                                   *)
(***************************************************************************)

\* is_overdue of a response or an offer
Overdue(row) == row.expires <= today

IsExpired(t) == t.end < today

\* DirectOffer rows that are pending with a reserve
PendingReserved == {o \in Offers : offer[o].status = "pending" /\ offer[o].reserved}

CapDealStatuses == {"in_work", "completed"}

DealsInCap ==
  Cardinality({o \in Offers : offer[o].deal \in CapDealStatuses} \cup PendingReserved)

\* what an offer or its deal takes of the budget; the credited conversions of a deal
\* count whatever becomes of it
Spent(o) ==
  offer[o].credited +
    CASE offer[o].deal \in {"in_work", "disputed"} -> offer[o].amount
      [] offer[o].deal = "completed" -> offer[o].paid
      [] o \in PendingReserved -> offer[o].amount
      [] OTHER -> 0

BudgetCommitted == SumFunctionOnSet([o \in Offers |-> Spent(o)], Offers)

BudgetRemaining == Max({0, campaign.terms.budget - BudgetCommitted})

\* wrong variant: the limit of performers is not looked at
DealAcceptableUncapped(amount) == ~IsExpired(campaign.terms) /\ amount <= BudgetRemaining

DealAcceptable(amount) ==
  /\ ~IsExpired(campaign.terms)
  /\ campaign.terms.max = 0 \/ DealsInCap < campaign.terms.max
  /\ amount <= BudgetRemaining

ScheduledPublicationDates ==
  {offer[o].date : o \in {q \in Offers : offer[q].status = "pending"
                                        \/ offer[q].deal \notin {NoDeal, "cancelled"}}}

\* wrong variant: the dates already agreed with performers are not looked at
ParamsValidWithoutDates(t) ==
  /\ FixedPrice <= t.budget
  /\ t.max * FixedPrice <= t.budget
  /\ BudgetCommitted <= t.budget
  /\ t.max = 0 \/ DealsInCap <= t.max

\* campaign_param_errors finds nothing, nor does past_date_errors
ParamsValid(t) ==
  /\ FixedPrice <= t.budget
  /\ t.max * FixedPrice <= t.budget
  /\ BudgetCommitted <= t.budget
  /\ t.max = 0 \/ DealsInCap <= t.max
  /\ \A d \in ScheduledPublicationDates : d <= t.end
  /\ t.end < today => t.end = campaign.terms.end

\* the first day on which a response to a campaign with terms t is overdue
ResponseDeadline(t) == t.end - ResponseLead + 1

ResponsesClosed(t) == ResponseDeadline(t) <= today

\* refresh_response_deadlines: the deadlines follow the dates of the campaign
Refreshed(rs, t) ==
  [r \in Responses |->
     IF rs[r].status = "pending" /\ rs[r].expires # ResponseDeadline(t)
     THEN [rs[r] EXCEPT !.expires = ResponseDeadline(t)]
     ELSE rs[r]]

ActiveResponse(b) ==
  \E r \in Responses : Owner[PlatformOf[r]] = b /\ response[r].status \in {"pending", "accepted"}

(***************************************************************************)
(* The two halves of a view.                                               *)
(***************************************************************************)

\* the view has read and checked; what it will write from is in request
Read(request) ==
  /\ \E s \in Sessions : session[s] = Idle /\ session' = [session EXCEPT ![s] = request]
  /\ UNCHANGED <<rows, today, history>>

Served(s) == session' = [session EXCEPT ![s] = Idle]

FormsInFlight == {s \in Sessions : session[s].view \in {"edit", "apply"}}

\* history: every form in flight was checked before what this step promises
Overtakes == stale' = stale \cup FormsInFlight /\ UNCHANGED overtaken

\* history: the terms in force now are those of the form of s
Saves(s) == overtaken' = (s \in stale) /\ stale' = stale \ {s}

\* save(update_fields=["status", ...]) of a row read earlier: the status alone is written
SaveStatus(view, status) ==
  \E s \in Sessions :
    /\ session[s].view = view
    /\ campaign' = [campaign EXCEPT !.status = status]
    /\ Served(s)
    /\ UNCHANGED <<proposal, response, offer, invited, money, today, history>>

(***************************************************************************)
(* Views of the advertiser.                                                *)
(***************************************************************************)

\* campaign_edit: the form is checked against the rows of the moment
EditRead ==
  \E t \in Terms :
    /\ campaign.status \in {"draft", "rejected", "paused"}
    /\ ParamsValid(t)
    /\ Read([view |-> "edit",
             row |-> [campaign EXCEPT !.terms = t,
                                      !.status = IF @ = "paused" THEN "moderation" ELSE @]])

\* the whole row read earlier is saved with the new values over it
EditWrite ==
  \E s \in Sessions :
    /\ session[s].view = "edit"
    /\ campaign' = session[s].row
    /\ response' = Refreshed(response, session[s].row.terms)
    /\ Served(s) /\ Saves(s)
    /\ UNCHANGED <<proposal, offer, invited, money, today>>

SubmitRead == campaign.status \in {"draft", "rejected"} /\ Read([view |-> "submit"])
SubmitWrite == SaveStatus("submit", "moderation")

PauseRead == campaign.status = "active" /\ Read([view |-> "pause"])
PauseWrite == SaveStatus("pause", "paused")

ResumeRead ==
  campaign.status = "paused" /\ ~IsExpired(campaign.terms) /\ Read([view |-> "resume"])
ResumeWrite == SaveStatus("resume", "active")

\* perform_destroy: nothing hangs on a draft, so only the row goes
DestroyRead == campaign.status = "draft" /\ Read([view |-> "destroy"])
DestroyWrite == SaveStatus("destroy", "deleted")

InviteRead ==
  \E b \in {Owner[p] : p \in Platforms} \ invited :
    campaign.status = "active" /\ Read([view |-> "invite", blogger |-> b])

\* one_invitation_per_blogger: the second of two equal invitations fails and adds nothing
InviteWrite ==
  \E s \in Sessions :
    /\ session[s].view = "invite"
    /\ invited' = invited \cup {session[s].blogger}
    /\ Served(s)
    /\ UNCHANGED <<campaign, proposal, response, offer, money, today, history>>

RejectResponseRead ==
  \E r \in Responses :
    response[r].status = "pending" /\ Read([view |-> "reject_response", response |-> r, status |-> "rejected"])

\* perform_destroy of a response, by the performer
WithdrawResponseRead ==
  \E r \in Responses :
    response[r].status = "pending" /\ Read([view |-> "reject_response", response |-> r, status |-> "withdrawn"])

\* either view saves the status of the row it read
RejectResponseWrite ==
  \E s \in Sessions :
    /\ session[s].view = "reject_response"
    /\ response' = [response EXCEPT ![session[s].response].status = session[s].status]
    /\ Served(s)
    /\ UNCHANGED <<campaign, proposal, offer, invited, money, today, history>>

\* _answer_proposal reads the campaign before its transaction
AnswerProposalRead ==
  \E accept \in BOOLEAN :
    campaign.status = "moderation" /\ Read([view |-> "answer", accept |-> accept])

\* the current values with the proposed changes over them
ProposedTerms ==
  LET Field(f, new, now) == IF f \in proposal.fields THEN new ELSE now IN
  [budget |-> Field("budget", proposal.new.budget, campaign.terms.budget),
   max    |-> Field("max", proposal.new.max, campaign.terms.max),
   end    |-> Field("end", proposal.new.end, campaign.terms.end)]

\* the row of the pending proposal is locked until an accepted one is applied
ProposalUnlocked == \A s \in Sessions : session[s].view # "apply"

\* the form over the campaign as it is now passes
ProposalFits == ParamsValid(ProposedTerms) /\ ~IsExpired(ProposedTerms)

\* the proposal is locked and, when accepted, checked
AnswerProposalWrite ==
  \E s \in Sessions :
    /\ session[s].view = "answer"
    /\ ProposalUnlocked
    /\ \/ /\ session[s].accept /\ proposal # NoProposal /\ ProposalFits
          /\ session' = [session EXCEPT ![s] = [view |-> "apply", terms |-> ProposedTerms]]
          /\ UNCHANGED <<campaign, proposal>>
       \/ /\ ~session[s].accept /\ proposal # NoProposal
          /\ campaign' = [campaign EXCEPT !.status = "rejected"]
          /\ proposal' = NoProposal
          /\ Served(s)
       \/ /\ \/ proposal = NoProposal
             \/ proposal # NoProposal /\ session[s].accept /\ ~ProposalFits
          /\ Served(s)
          /\ UNCHANGED <<campaign, proposal>>
    /\ UNCHANGED <<response, offer, invited, money, today, history>>

\* save_campaign_form of the accepted proposal, which is marked as approved
ApplyProposal ==
  \E s \in Sessions :
    /\ session[s].view = "apply"
    /\ campaign' = [status |-> "active", terms |-> session[s].terms, approved |-> session[s].terms]
    /\ response' = Refreshed(response, session[s].terms)
    /\ proposal' = NoProposal
    /\ Served(s) /\ Saves(s)
    /\ UNCHANGED <<offer, invited, money, today>>

(***************************************************************************)
(* Views of the moderators.                                                *)
(***************************************************************************)

ApproveRead ==
  /\ campaign.status = "moderation"
  /\ proposal = NoProposal
  /\ ~IsExpired(campaign.terms)
  /\ Read([view |-> "approve", terms |-> campaign.terms])

\* the snapshot is of the row that was read
ApproveWrite ==
  \E s \in Sessions :
    /\ session[s].view = "approve"
    /\ campaign' = [campaign EXCEPT !.status = "active", !.approved = session[s].terms]
    /\ Served(s)
    /\ UNCHANGED <<proposal, response, offer, invited, money, today, history>>

RejectRead ==
  campaign.status = "moderation" /\ proposal = NoProposal /\ Read([view |-> "reject"])
RejectWrite == SaveStatus("reject", "rejected")

ProposeRead ==
  \E t \in Terms :
    /\ campaign.status = "moderation"
    /\ proposal = NoProposal
    /\ ParamsValid(t)
    /\ t # campaign.terms
    /\ Read([view |-> "propose",
             changes |-> [new |-> t, fields |-> {f \in DOMAIN t : t[f] # campaign.terms[f]}]])

\* one_pending_edit_proposal_per_campaign: the second of two proposals fails
ProposeWrite ==
  \E s \in Sessions :
    /\ session[s].view = "propose"
    /\ ProposalUnlocked
    /\ proposal' = IF proposal = NoProposal THEN session[s].changes ELSE proposal
    /\ Served(s)
    /\ UNCHANGED <<campaign, response, offer, invited, money, today, history>>

(***************************************************************************)
(* Responses and offers.                                                   *)
(***************************************************************************)

\* campaign_respond; the deadline is computed from the campaign that was read
RespondRead ==
  \E r \in Responses :
    LET b == Owner[PlatformOf[r]] IN
    /\ response[r].status = "none"
    /\ campaign.status = "active" /\ b \in invited
    /\ ~ActiveResponse(b)
    /\ ~ResponsesClosed(campaign.terms)
    /\ Read([view |-> "respond", response |-> r, expires |-> ResponseDeadline(campaign.terms)])

\* unique_active_response_per_platform and one_pending_response_per_campaign
ResponseAllowed(r) ==
  \A q \in Responses :
    /\ ~(PlatformOf[q] = PlatformOf[r] /\ response[q].status \in {"pending", "accepted"})
    /\ ~(Owner[PlatformOf[q]] = Owner[PlatformOf[r]] /\ response[q].status = "pending")

RespondWrite ==
  \E s \in Sessions :
    /\ session[s].view = "respond"
    /\ response' =
         IF ResponseAllowed(session[s].response)
         THEN [response EXCEPT ![session[s].response] =
                 [status |-> "pending", expires |-> session[s].expires]]
         ELSE response
    /\ Served(s)
    /\ UNCHANGED <<campaign, proposal, offer, invited, money, today, history>>

\* unique_active_direct_offer_per_platform
OfferAllowed(p) ==
  \A o \in Offers : offer[o].platform # p

\* send_offer; a ValueError of the reservation rolls the offer back
SendOffer(o, p, r, amount) ==
  /\ offer[o].status = "none"
  /\ campaign.status = "active"
  /\ DealAcceptable(amount)
  /\ OfferAllowed(p)
  /\ amount <= available
  /\ today + OfferDays <= MaxDay
  /\ \E day \in Dates \cap (today..campaign.terms.end) :
       offer' = [offer EXCEPT ![o] =
         [@ EXCEPT !.status = "pending", !.platform = p, !.response = r, !.amount = amount,
                   !.reserved = TRUE, !.date = day, !.expires = today + OfferDays]]
  /\ available' = available - amount
  /\ held' = [held EXCEPT ![o] = amount]
  /\ Overtakes

\* catalog.py: an offer of the advertiser's own accord
SendDirectOffer ==
  /\ \E o \in Offers, p \in Platforms, amount \in Prices : SendOffer(o, p, NoResponse, amount)
  /\ UNCHANGED <<campaign, proposal, response, invited, session, today>>

AcceptResponse ==
  /\ \E r \in Responses, o \in Offers, amount \in Prices :
       /\ response[r].status = "pending" /\ ~Overdue(response[r])
       /\ SendOffer(o, PlatformOf[r], r, amount)
       /\ response' = [response EXCEPT ![r].status = "accepted"]
  /\ UNCHANGED <<campaign, proposal, invited, session, today>>

\* wrong variant: an offer that reserved nothing is released too
ReleasedAlways(os) ==
  /\ available' = available + SumFunctionOnSet([o \in os |-> offer[o].amount], os)
  /\ held' = [o \in Offers |-> IF o \in os THEN held[o] - offer[o].amount ELSE held[o]]

\* release_offer for each of the offers that holds a reserve
Released(os) ==
  LET reserved == {o \in os : offer[o].reserved} IN
  /\ available' = available + SumFunctionOnSet(held, reserved)
  /\ held' = [o \in Offers |-> IF o \in reserved THEN 0 ELSE held[o]]

\* a rejected or expired offer is in no query any more: its slot may hold another
Freed(os) == [o \in Offers |-> IF o \in os THEN BlankOffer ELSE offer[o]]

\* wrong variant: the responses keep the status accepted
CloseOffersOnly(rs, os, status) == Released(os) /\ response' = rs

\* wrong variant: nothing is released
CloseOffersKeepingReserve(rs, os, status) ==
  /\ UNCHANGED money
  /\ response' = [r \in Responses |->
       IF rs[r].status = "accepted" /\ \E o \in os : offer[o].response = r
       THEN [rs[r] EXCEPT !.status = status] ELSE rs[r]]

\* _close_offers: rs are the responses as the caller has already changed them
CloseOffers(rs, os, status) ==
  /\ Released(os)
  /\ response' = [r \in Responses |->
       IF rs[r].status = "accepted" /\ \E o \in os : offer[o].response = r
       THEN [rs[r] EXCEPT !.status = status] ELSE rs[r]]

RejectOffer ==
  /\ \E o \in Offers :
       /\ offer[o].status = "pending"
       /\ offer' = Freed({o})
       /\ CloseOffers(response, {o}, "withdrawn")
  /\ UNCHANGED <<campaign, proposal, invited, session, today, history>>

\* accept_direct_offer and create_deal; the term of an accepted offer is not read again
AcceptDirectOffer ==
  /\ \E o \in Offers :
       /\ offer[o].status = "pending" /\ ~Overdue(offer[o])
       /\ campaign.status = "active"
       /\ offer' = [offer EXCEPT ![o].status = "accepted", ![o].expires = 0, ![o].deal = "in_work"]
       /\ \/ offer[o].reserved /\ ~IsExpired(campaign.terms) /\ UNCHANGED <<money, history>>
          \/ /\ ~offer[o].reserved
             /\ DealAcceptable(offer[o].amount)
             /\ offer[o].amount <= available
             /\ available' = available - offer[o].amount
             /\ held' = [held EXCEPT ![o] = offer[o].amount]
             /\ Overtakes
  /\ UNCHANGED <<campaign, proposal, response, invited, session, today>>

(***************************************************************************)
(* Locked services of the advertiser and the timers.                       *)
(***************************************************************************)

\* increase_budget: the new terms are marked as approved
IncreaseBudget ==
  /\ \E b \in Budgets :
       /\ campaign.status \in {"active", "paused"} /\ ~IsExpired(campaign.terms)
       /\ b > campaign.terms.budget
       /\ campaign' = [campaign EXCEPT !.terms = [@ EXCEPT !.budget = b],
                                       !.approved = [campaign.terms EXCEPT !.budget = b]]
  /\ UNCHANGED <<proposal, response, offer, invited, money, session, today, history>>

\* wrong variant: the offers are left to their own term
CompleteLeavingOffers ==
  /\ campaign' = [campaign EXCEPT !.status = "completed"]
  /\ response' = [r \in Responses |-> IF response[r].status = "pending"
                                      THEN [response[r] EXCEPT !.status = "expired"] ELSE response[r]]
  /\ proposal' = NoProposal
  /\ UNCHANGED <<offer, money, invited, session, today, history>>

\* the common part of complete_campaign
Complete ==
  LET os == {o \in Offers : offer[o].status = "pending"}
      rs == [r \in Responses |-> IF response[r].status = "pending"
                                  THEN [response[r] EXCEPT !.status = "expired"] ELSE response[r]]
  IN /\ ProposalUnlocked
     /\ campaign' = [campaign EXCEPT !.status = "completed"]
     /\ offer' = Freed(os)
     /\ CloseOffers(rs, os, "expired")
     /\ proposal' = NoProposal
     /\ UNCHANGED <<invited, session, today, history>>

CanFinishEarly ==
  \/ campaign.status \in {"active", "paused"}
  \/ campaign.status = "moderation" /\ campaign.approved # NoTerms

FinishEarly == CanFinishEarly /\ Complete

\* complete_expired_campaigns
CompleteExpired ==
  campaign.status \in {"active", "paused"} /\ IsExpired(campaign.terms) /\ Complete

\* expire_overdue_responses_and_offers: one transaction for all the rows
ExpireOverdue ==
  LET overdueOffers == {o \in Offers : offer[o].status = "pending" /\ Overdue(offer[o])}
      overdueResponses == {r \in Responses : response[r].status = "pending" /\ Overdue(response[r])}
      rs == [r \in Responses |-> IF r \in overdueResponses
                                  THEN [response[r] EXCEPT !.status = "expired"] ELSE response[r]]
  IN /\ overdueOffers # {} \/ overdueResponses # {}
     /\ offer' = Freed(overdueOffers)
     /\ CloseOffers(rs, overdueOffers, "expired")
     /\ UNCHANGED <<campaign, proposal, invited, session, today, history>>

(***************************************************************************)
(* What the deals do meanwhile, seen from the campaign (module Deals has   *)
(* the details): each of these is a chain of transitions of deals/services.*)
(***************************************************************************)

\* wrong variant: what is left of the budget is not asked
CreditConversionUnchecked ==
  /\ \E o \in Offers :
       /\ offer[o].deal = "in_work"
       /\ CpaRate <= available
       /\ offer' = [offer EXCEPT ![o].credited = @ + CpaRate]
  /\ available' = available - CpaRate
  /\ Overtakes
  /\ UNCHANGED <<campaign, proposal, response, invited, held, session, today>>

\* credit_cpa_conversion: under the campaign's lock, in any status of the campaign
CreditConversion ==
  /\ \E o \in Offers :
       /\ offer[o].deal = "in_work"
       /\ CpaRate <= BudgetRemaining
       /\ CpaRate <= available
       /\ offer' = [offer EXCEPT ![o].credited = @ + CpaRate]
  /\ available' = available - CpaRate
  /\ Overtakes
  /\ UNCHANGED <<campaign, proposal, response, invited, held, session, today>>

\* accept_publication_date, in any status of the campaign: _lock selects the deal for
\* update together with its campaign, so the dates it is checked against stay until it ends
AcceptPublicationDate ==
  /\ \E o \in Offers, day \in Dates \cap (today..campaign.terms.end) :
       /\ offer[o].deal = "in_work" /\ day # offer[o].date
       /\ offer' = [offer EXCEPT ![o].date = day]
  /\ Overtakes
  /\ UNCHANGED <<campaign, proposal, response, invited, money, session, today>>

\* open_claim
DealDisputed ==
  /\ \E o \in Offers :
       /\ offer[o].deal = "in_work"
       /\ offer' = [offer EXCEPT ![o].deal = "disputed", ![o].claimed = TRUE]
  /\ UNCHANGED <<campaign, proposal, response, invited, money, session, today, history>>

\* the deal was completed, or a decision on a claim pays the whole price or a part of it
DealCompleted ==
  /\ \E o \in Offers : \E paid \in 1..offer[o].amount :
       /\ offer[o].deal \in {"in_work", "disputed"}
       /\ offer[o].deal = "in_work" => paid = offer[o].amount
       /\ offer' = [offer EXCEPT ![o].deal = "completed", ![o].paid = paid]
       /\ available' = available + held[o] - paid
       /\ held' = [held EXCEPT ![o] = 0]
  /\ UNCHANGED <<campaign, proposal, response, invited, session, today, history>>

\* cancel, accept_termination, or a decision on a claim for the advertiser
DealCancelled ==
  /\ \E o \in Offers :
       /\ offer[o].deal \in {"in_work", "disputed"}
       /\ offer' = [offer EXCEPT ![o].deal = "cancelled"]
       /\ available' = available + held[o]
       /\ held' = [held EXCEPT ![o] = 0]
  /\ UNCHANGED <<campaign, proposal, response, invited, session, today, history>>

Tick ==
  /\ today < MaxDay
  /\ today' = today + 1
  /\ UNCHANGED <<rows, session, history>>

(***************************************************************************)
(* The specification.                                                      *)
(***************************************************************************)

\* campaign_create leaves a draft; a campaign from before reservations already runs
Init ==
  /\ today = 0
  /\ \E t \in Terms, fs \in SUBSET Former, p \in Platforms, a \in Prices :
       /\ t.max * FixedPrice <= t.budget /\ FixedPrice <= t.budget
       /\ Cardinality(fs) <= 1
       /\ campaign = IF fs = {} THEN [status |-> "draft", terms |-> t, approved |-> NoTerms]
                     ELSE [status |-> "active", terms |-> t, approved |-> t]
       /\ offer = [o \in Offers |->
            IF o \in fs
            THEN [BlankOffer EXCEPT !.status = "pending", !.platform = p, !.amount = a,
                                    !.date = t.end, !.expires = OfferDays]
            ELSE BlankOffer]
  /\ proposal = NoProposal
  /\ response = [r \in Responses |-> BlankResponse]
  /\ invited = Invited
  /\ available = Funds
  /\ held = [o \in Offers |-> 0]
  /\ session = [s \in Sessions |-> Idle]
  /\ stale = {} /\ overtaken = FALSE

Next ==
  \/ EditRead \/ SubmitRead \/ PauseRead \/ ResumeRead \/ DestroyRead \/ InviteRead
  \/ RejectResponseRead \/ WithdrawResponseRead \/ AnswerProposalRead
  \/ ApproveRead \/ RejectRead \/ ProposeRead \/ RespondRead
  \/ EditWrite \/ SubmitWrite \/ PauseWrite \/ ResumeWrite \/ DestroyWrite \/ InviteWrite
  \/ RejectResponseWrite \/ AnswerProposalWrite \/ ApplyProposal
  \/ ApproveWrite \/ RejectWrite \/ ProposeWrite \/ RespondWrite
  \/ SendDirectOffer \/ AcceptResponse \/ RejectOffer \/ AcceptDirectOffer
  \/ IncreaseBudget \/ FinishEarly
  \/ CompleteExpired \/ ExpireOverdue
  \/ CreditConversion \/ AcceptPublicationDate
  \/ DealDisputed \/ DealCompleted \/ DealCancelled
  \/ Tick

Spec == Init /\ [][Next]_vars

(***************************************************************************)
(* Properties.                                                             *)
(***************************************************************************)

Statuses == {"draft", "moderation", "active", "paused", "rejected", "completed", "deleted"}
ResponseStatuses == {"none", "pending", "accepted", "rejected", "withdrawn", "expired"}
OfferStatuses == {"none", "pending", "accepted"}
DealStatuses == {NoDeal, "in_work", "disputed", "completed", "cancelled"}

CampaignRows == [status : Statuses, terms : TermSet, approved : TermSet \cup {NoTerms}]

\* Every row keeps the shape of its model and the balances never go below zero.
TypeOK ==
  /\ campaign \in CampaignRows
  /\ proposal = NoProposal \/ proposal.new \in TermSet
  /\ \A r \in Responses : response[r].status \in ResponseStatuses
  /\ \A o \in Offers :
       /\ offer[o].status \in OfferStatuses
       /\ offer[o].platform \in Platforms \cup {"no platform"}
       /\ offer[o].response \in Responses \cup {NoResponse}
       /\ offer[o].deal \in DealStatuses
  /\ available \in Nat
  /\ held \in [Offers -> Nat]
  /\ today \in 0..MaxDay
  /\ stale \subseteq Sessions /\ overtaken \in BOOLEAN

(***************************************************************************)
(* Money stays reserved for an offer exactly while the offer waits or its  *)
(* deal runs, whichever of the five ways the offer ends by, and no way     *)
(* gives it back twice: reserve_for_offer, release_offer and the           *)
(* settlements together leave the advertiser's total unchanged but for     *)
(* what performers were paid for deals and for conversions.                *)
(***************************************************************************)
ReserveFollowsOffer ==
  /\ \A o \in Offers :
       held[o] = IF o \in PendingReserved \/ offer[o].deal \in {"in_work", "disputed"}
                 THEN offer[o].amount ELSE 0
  /\ available + SumFunctionOnSet([o \in Offers |-> held[o] + offer[o].paid + offer[o].credited], Offers) = Funds

(***************************************************************************)
(* validation.py, budget_committed: the budget bounds everything the       *)
(* campaign spends, deals, offers and credited conversions, in whatever    *)
(* order offers, acceptances, credits, budget raises, edits and accepted   *)
(* proposals follow each other and however many views are in flight.  The  *)
(* code has one gap: a form is saved by what it was checked against, so    *)
(* one overtaken in between may leave too small a budget, until the next   *)
(* form that was not overtaken is saved.                                   *)
(***************************************************************************)
BudgetCovers == overtaken \/ BudgetCommitted <= campaign.terms.budget

(***************************************************************************)
(* validation.py, deal_acceptance_error: max_bloggers is never exceeded    *)
(* by performers whose deals have not been through a claim, but for an     *)
(* overtaken form.  A disputed deal gives its place up and takes it again  *)
(* when it is completed, so with it the limit may be exceeded.             *)
(***************************************************************************)
LimitKept ==
  \/ overtaken
  \/ campaign.terms.max = 0
  \/ Cardinality(PendingReserved \cup
                 {o \in Offers : offer[o].deal \in CapDealStatuses /\ ~offer[o].claimed})
       <= campaign.terms.max

(***************************************************************************)
(* A response is accepted only while the offer made of it is alive: every  *)
(* way an offer ends (rejection, its term, the end of the campaign) also   *)
(* closes the response, so that the performer may respond again.           *)
(***************************************************************************)
AcceptedResponseHasOffer ==
  \A r \in Responses :
    response[r].status = "accepted" =>
      \E o \in Offers : offer[o].response = r /\ offer[o].status \in {"pending", "accepted"}

(***************************************************************************)
(* Rule R10 of the code: the campaign lasts until every publication that   *)
(* is agreed or offered, whoever changes its dates or moves a publication, *)
(* but for an overtaken form.                                              *)
(***************************************************************************)
DatesCovered == overtaken \/ \A d \in ScheduledPublicationDates : d <= campaign.terms.end

(***************************************************************************)
(* A completed campaign waits for nobody: its offers and the moderator's   *)
(* proposal are closed with it.                                            *)
(***************************************************************************)
CompletedHoldsNoOffers ==
  campaign.status = "completed" => \A o \in Offers : offer[o].status # "pending"

(***************************************************************************)
(* web/views/campaigns.py, campaign_edit: a campaign that runs is changed  *)
(* only through a new moderation.                                          *)
(***************************************************************************)
ActiveMeansApproved == campaign.status = "active" => campaign.approved = campaign.terms

=============================================================================
