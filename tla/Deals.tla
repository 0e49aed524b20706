------------------------------- MODULE Deals --------------------------------
(***************************************************************************)
(* The life of a deal (apps/deals/services.py): creative, approval,        *)
(* publication, claim, termination by agreement, change of the publication *)
(* date, and the Celery timers that act when a party is silent.            *)
(*                                                                         *)
(* Every transition locks the deal row and re-reads it, so a transition is *)
(* one atomic step.  What is not atomic is modelled as several steps: a    *)
(* timer first lists the deals it will treat and then treats them one by   *)
(* one, the worker may die in between, and confirm_publication commits     *)
(* before it calls complete.  A TransitionError is a guard.                *)
(*                                                                         *)
(* Money moves by the operations of module Escrow, which this module is    *)
(* shown to implement (RefinesEscrow).  The campaign's side of an offer    *)
(* (its status, its limits, the term of acceptance) is left open here: an  *)
(* offer may be accepted or closed at any moment.                          *)
(*                                                                         *)
(* Time is counted in days.  Day 0 stands for a NULL date.                 *)
(***************************************************************************)
EXTENDS Integers, FiniteSets

CONSTANTS
  Deals, Users, Advertiser, Blogger, Terms, Funds, LegacyPercent, \* see Escrow
  MaxDay,             \* the model's horizon
  Weekend,            \* the days that are not working days
  Dates,              \* the publication dates within the campaign's dates
  Parts,              \* the performer's parts a member of staff may enter
  MaxSubmissions,     \* creative_submissions is counted up to this number
  AutoApproveAfter,   \* CREATIVE_AUTO_APPROVE_AFTER
  LegacyCheckDays,    \* CHECKING_AUTO_COMPLETE_AFTER
  LeadDays,           \* content_lead_days
  ReviewDays,         \* review_days
  ClaimDays,          \* CLAIM_WORKING_DAYS
  DecisionDays,       \* CLAIM_DECISION_WORKING_DAYS
  ExtraDocsDays,      \* CLAIM_EXTRA_DOCS_WORKING_DAYS
  CompensationPercent \* COMPENSATION_PERCENT

(***************************************************************************)
(* Beside the fields Escrow names, the terms of an offer carry             *)
(* approval    approval_required                                           *)
(* retention   min_retention_days; 0 when the offer has none, which makes  *)
(*             the deal one of the former rules (not on_package_terms)     *)
(***************************************************************************)
ASSUME DealTermsAssumption ==
  \A t \in Terms :
    /\ t.price \in Nat \ {0}
    /\ t.approval \in BOOLEAN
    /\ t.retention \in Nat
    /\ t.retention # 0 => t.reservedAtOffer

ASSUME DaysAssumption ==
  /\ MaxDay \in Nat
  /\ Weekend \subseteq Int
  /\ Dates \subseteq Nat \ {0}
  /\ Parts \subseteq Nat
  /\ MaxSubmissions \in Nat \ {0}
  /\ MaxDay >= 1
  /\ {AutoApproveAfter, LegacyCheckDays, LeadDays, ReviewDays, ClaimDays,
      DecisionDays, ExtraDocsDays, CompensationPercent} \subseteq Nat

VARIABLES
  day,          \* today
  deal,         \* Deal rows; cancelledBy is changed_by of the log row of a cancellation
  change,       \* per deal, the pending PublicationDateChange
  termination,  \* per deal, the side whose TerminationRequest is pending
  claim,        \* per deal, its Claim
  confirming,   \* per deal, the second half of a confirm_publication under way
  payList,      \* deals auto_complete_overdue has listed and not yet treated
  approveList,  \* the same for auto_approve_overdue_creatives
  reviewList,   \* deals notify_overdue_reviews has found and not yet flagged
  terms, wallet, ledger, dealsCount  \* see Escrow

negotiation == <<change, termination>>
timers == <<payList, approveList, reviewList>>
money == <<wallet, ledger, dealsCount>>
vars == <<day, deal, change, termination, claim, confirming, timers, terms, money>>

Unpublished == {"in_progress", "on_approval", "waiting_publication"}
Claimable == Unpublished \cup {"checking"}
Running == Claimable \cup {"disputed"}
Statuses == {"unsent", "offered", "lapsed", "completed", "cancelled"} \cup Running

Sides == {"advertiser", "blogger"}
Other(side) == CHOOSE s \in Sides : s # side

Never == 0
NoChange == [by |-> "none", to |-> Never]

Stage ==
  [d \in Deals |->
     CASE deal[d].status = "unsent" -> "none"
       [] deal[d].status = "offered" -> "offer"
       [] deal[d].status = "lapsed" -> "lapsed"
       [] deal[d].status \in {"completed", "cancelled"} -> "settled"
       [] OTHER -> "deal"]

Money == INSTANCE Escrow WITH stage <- Stage

\* what is shared with the money side is as Escrow expects it
ASSUME EscrowAssumption ==
  /\ Money!TermsAssumption /\ Money!PartiesAssumption /\ Money!FundsAssumption
  /\ Money!PercentAssumption /\ Money!RowsAssumption

-----------------------------------------------------------------------------
(***************************************************************************)
(* Terms in days.                                                          *)
(***************************************************************************)
WorkingDays(from, to) == Cardinality((from..to) \ Weekend)

EndsWorkingDays(u, moment, count) ==
  /\ WorkingDays(moment + 1, u) = count
  /\ \A v \in moment..(u - 1) : WorkingDays(moment + 1, v) < count

\* two days of seven are no working days, so any count of them ends soon enough
ASSUME CalendarAssumption ==
  \A moment \in 0..MaxDay, count \in {1, ReviewDays, ClaimDays, DecisionDays, ExtraDocsDays} :
    \E u \in moment..(moment + 3 * count) : EndsWorkingDays(u, moment, count)

\* the first day that has count working days after moment
WorkingDaysAfter(moment, count) ==
  CHOOSE u \in moment..(moment + 3 * count) : EndsWorkingDays(u, moment, count)

\* the last day that has count working days before the given one
WorkingDaysBefore(date, count) ==
  CHOOSE u \in (date - 3 * count)..date :
    /\ WorkingDays(u, date - 1) = count
    /\ \A v \in (u + 1)..date : WorkingDays(v, date - 1) < count

Package(d) == terms[d].retention # 0

ReviewDue(d) == WorkingDaysAfter(deal[d].submittedAt, ReviewDays)

\* Deal.review_overdue
ReviewOverdue(d) ==
  /\ terms[d].approval
  /\ deal[d].status = "on_approval"
  /\ ReviewDue(d) <= day

ClaimUntil(d) == WorkingDaysAfter(deal[d].publishedAt, ClaimDays)

RetentionUntil(d) == deal[d].publishedAt + terms[d].retention

\* wrong variant: the earlier of the two terms
PayoutDueEarly(d) ==
  IF ~Package(d) THEN deal[d].publishedAt + LegacyCheckDays
  ELSE IF deal[d].accepted \/ RetentionUntil(d) <= ClaimUntil(d) THEN RetentionUntil(d)
  ELSE ClaimUntil(d)

PayoutDue(d) ==
  IF ~Package(d) THEN deal[d].publishedAt + LegacyCheckDays
  ELSE IF deal[d].accepted \/ RetentionUntil(d) >= ClaimUntil(d) THEN RetentionUntil(d)
  ELSE ClaimUntil(d)

\* publication_date_error
DateAllowed(date) == date \in Dates /\ day <= date

\* Decimal.quantize(0.01) in the default context: ROUND_HALF_EVEN
HalfEven(n) ==
  LET whole == n \div 100
      rest == n % 100
  IN  IF rest > 50 \/ (rest = 50 /\ whole % 2 = 1) THEN whole + 1 ELSE whole

-----------------------------------------------------------------------------
(***************************************************************************)
(* _move: the new row, and the end of what was being negotiated once there *)
(* is a publication, a claim or an end.                                    *)
(***************************************************************************)

\* wrong variant: a pending proposal survives the transition
MoveOnly(d, row) ==
  /\ deal' = [deal EXCEPT ![d] = row]
  /\ UNCHANGED negotiation

Move(d, row) ==
  /\ deal' = [deal EXCEPT ![d] = row]
  /\ IF row.status \in Unpublished
     THEN UNCHANGED negotiation
     ELSE /\ change' = [change EXCEPT ![d] = NoChange]
          /\ termination' = [termination EXCEPT ![d] = "none"]

-----------------------------------------------------------------------------
(***************************************************************************)
(* The offer and the conclusion of the deal.                               *)
(***************************************************************************)

\* send_offer; an offer of the first generation may lack a publication date
SendOffer(d) ==
  /\ deal[d].status = "unsent"
  /\ \E date \in Dates \cup {Never} :
       /\ \/ DateAllowed(date) /\ (terms[d].approval => day <= WorkingDaysBefore(date, LeadDays))
          \/ date = Never /\ ~terms[d].reservedAtOffer
       /\ deal' = [deal EXCEPT ![d] = [@ EXCEPT !.status = "offered", !.pubDate = date]]
  /\ IF terms[d].reservedAtOffer THEN Money!ReserveForOffer(d) ELSE UNCHANGED money
  /\ UNCHANGED <<day, negotiation, claim, confirming, timers, terms>>

\* reject_offer, expiry or the end of the campaign
CloseOffer(d) ==
  /\ deal[d].status = "offered"
  /\ deal' = [deal EXCEPT ![d].status = "lapsed"]
  /\ IF terms[d].reservedAtOffer THEN Money!Release(d) ELSE UNCHANGED money
  /\ UNCHANGED <<day, negotiation, claim, confirming, timers, terms>>

\* wrong variant: the reservation of the offer is forgotten
CreateDealReservingAgain(d) ==
  /\ deal[d].status = "offered"
  /\ Money!ReserveFunds(d)
  /\ Move(d, [deal[d] EXCEPT !.status = "in_progress"])
  /\ UNCHANGED <<day, claim, confirming, timers, terms>>

\* accept_direct_offer with create_deal; waiting_payment lasts only within it
CreateDeal(d) ==
  /\ deal[d].status = "offered"
  /\ IF terms[d].reservedAtOffer THEN UNCHANGED money ELSE Money!ReserveFunds(d)
  /\ Move(d, [deal[d] EXCEPT !.status = "in_progress"])
  /\ UNCHANGED <<day, claim, confirming, timers, terms>>

(***************************************************************************)
(* The creative.                                                           *)
(***************************************************************************)
SubmitCreative(d) ==
  /\ deal[d].status = "in_progress"
  /\ deal[d].approvedBy = "none"
  /\ Move(d, [deal[d] EXCEPT
                !.status = "on_approval",
                !.submittedAt = day,
                !.submissions = IF @ < MaxSubmissions THEN @ + 1 ELSE @,
                !.reviewNotified = FALSE])
  /\ UNCHANGED <<day, claim, confirming, timers, terms, money>>

ApproveCreative(d, actor) ==
  /\ deal[d].status = "on_approval"
  /\ actor = "system" => ~terms[d].approval
  /\ Move(d, [deal[d] EXCEPT !.status = "waiting_publication", !.approvedBy = actor])
  /\ UNCHANGED <<day, claim, confirming, terms, money>>

RejectCreative(d) ==
  /\ deal[d].status = "on_approval"
  /\ Move(d, [deal[d] EXCEPT !.status = "in_progress"])
  /\ UNCHANGED <<day, claim, confirming, timers, terms, money>>

(***************************************************************************)
(* The publication.                                                        *)
(***************************************************************************)

\* wrong variant: the agreed date is not looked at
MayPublishAnyDay(d) == terms[d].approval => deal[d].approvedBy # "none"

\* wrong variant: the approval is not looked at
MayPublishUnapproved(d) == deal[d].pubDate <= day

MayPublish(d) ==
  /\ terms[d].approval => deal[d].approvedBy # "none"
  /\ deal[d].pubDate <= day

\* wrong variant: the status the enumeration has for it and no transition leaves
SubmitPublicationAsPublished(d) ==
  /\ deal[d].status \in {"in_progress", "waiting_publication"}
  /\ MayPublish(d)
  /\ Move(d, [deal[d] EXCEPT !.status = "published", !.publishedAt = day])
  /\ UNCHANGED <<day, claim, confirming, timers, terms, money>>

SubmitPublication(d) ==
  /\ deal[d].status \in {"in_progress", "waiting_publication"}
  /\ MayPublish(d)
  /\ Move(d, [deal[d] EXCEPT !.status = "checking", !.publishedAt = day])
  /\ UNCHANGED <<day, claim, confirming, timers, terms, money>>

\* The first transaction of confirm_publication.  Under the former rules it only
\* checks, and complete follows with the advertiser as its actor; otherwise the
\* acceptance is saved, and complete follows as the system's if the term is over.
ConfirmPublication(d) ==
  /\ deal[d].status = "checking"
  /\ confirming[d] = "no"
  /\ ~deal[d].accepted
  /\ deal' = [deal EXCEPT ![d].accepted = Package(d)]
  /\ confirming' = [confirming EXCEPT ![d] =
       CASE ~Package(d) -> "advertiser"
         [] RetentionUntil(d) <= day -> "system"
         [] OTHER -> "no"]
  /\ UNCHANGED <<day, negotiation, claim, timers, terms, money>>

\* wrong variant: a claim does not stop the payment
MayCompleteDisputed(d, actor) ==
  /\ deal[d].status \in {"checking", "disputed"}
  /\ actor = "advertiser" => ~Package(d)
  /\ actor = "system" => PayoutDue(d) <= day

\* what complete requires of the row it has locked
MayComplete(d, actor) ==
  /\ deal[d].status = "checking"
  /\ actor = "advertiser" => ~Package(d)
  /\ actor = "system" => PayoutDue(d) <= day

Complete(d, actor) ==
  /\ MayComplete(d, actor)
  /\ Money!CompleteDealPayment(d)
  /\ Move(d, [deal[d] EXCEPT !.status = "completed"])
  /\ UNCHANGED <<day, claim, terms>>

\* The second transaction of confirm_publication.
FinishConfirmation(d) ==
  /\ confirming[d] # "no"
  /\ confirming' = [confirming EXCEPT ![d] = "no"]
  /\ \/ Complete(d, confirming[d])
     \/ /\ ~MayComplete(d, confirming[d])
        /\ UNCHANGED <<day, deal, negotiation, claim, terms, money>>
  /\ UNCHANGED timers

\* The request dies between the two transactions.
LoseConfirmation(d) ==
  /\ confirming[d] # "no"
  /\ confirming' = [confirming EXCEPT ![d] = "no"]
  /\ UNCHANGED <<day, deal, negotiation, claim, timers, terms, money>>

\* deal_detail: opening the page of an overdue deal completes it
ViewOverdueDeal(d) ==
  /\ Complete(d, "system")
  /\ UNCHANGED <<confirming, timers>>

-----------------------------------------------------------------------------
(***************************************************************************)
(* The claim.  Of Claim.Subject three classes are told apart: "retention", *)
(* "unapproved" (with "deadline": open to the advertiser even after he     *)
(* approved what was published) and "placement" (all the others).          *)
(***************************************************************************)
Subjects == {"retention", "unapproved", "placement"}

ClaimOpen(d) == claim[d].status \in {"open", "extra_docs"}

\* _claim_window_error
InClaimWindow(d, side, subject) ==
  side = "advertiser" /\ deal[d].status = "checking" =>
    /\ deal[d].approvedBy # "none" => subject # "placement"
    /\ Package(d) /\ subject # "retention" => ~deal[d].accepted /\ day <= ClaimUntil(d)

OpenClaim(d, side, subject) ==
  /\ deal[d].status \in Claimable
  /\ InClaimWindow(d, side, subject)
  /\ claim' = [claim EXCEPT ![d] =
       [status |-> "open", by |-> side, from |-> deal[d].status, openedAt |-> day,
        explained |-> FALSE, decideUntil |-> WorkingDaysAfter(day, DecisionDays),
        extraUntil |-> Never, reminded |-> FALSE]]
  /\ Move(d, [deal[d] EXCEPT !.status = "disputed"])
  /\ UNCHANGED <<day, confirming, timers, terms, money>>

\* add_claim_materials by the respondent; the author's materials leave no trace here
ExplainClaim(d) ==
  /\ ClaimOpen(d)
  /\ ~claim[d].explained
  /\ claim' = [claim EXCEPT ![d].explained = TRUE]
  /\ UNCHANGED <<day, deal, negotiation, confirming, timers, terms, money>>

\* resolve_claim with the decision extra_docs
RequestExtraDocs(d) ==
  /\ deal[d].status = "disputed"
  /\ claim[d].status = "open"
  /\ claim' = [claim EXCEPT ![d] = [@ EXCEPT !.status = "extra_docs",
                                            !.extraUntil = WorkingDaysAfter(day, ExtraDocsDays)]]
  /\ UNCHANGED <<day, deal, negotiation, confirming, timers, terms, money>>

\* the decisions that end the claim: what is paid, the final status, paid_amount
PayBlogger(d) ==
  /\ Money!CompleteDealPayment(d)
  /\ Move(d, [deal[d] EXCEPT !.status = "completed", !.paid = Money!Price(d)])

RefundAdvertiser(d) ==
  /\ Money!Release(d)
  /\ Move(d, [deal[d] EXCEPT !.status = "cancelled", !.paid = 0, !.cancelledBy = "staff"])

\* wrong variant: a divided deal is closed as a cancelled one
DivideAsCancelled(d, part) ==
  /\ Money!SplitDealPayment(d, part)
  /\ Move(d, [deal[d] EXCEPT !.status = "cancelled", !.paid = part])

Divide(d, part) ==
  /\ Money!SplitDealPayment(d, part)
  /\ Move(d, [deal[d] EXCEPT !.status = "completed", !.paid = part])

Compensation(d) == HalfEven(Money!Price(d) * CompensationPercent)

\* wrong variant: the deal is decided and its claim stays open
DecideDealOnly(d) ==
  /\ deal[d].status = "disputed"
  /\ PayBlogger(d) \/ RefundAdvertiser(d) \/ Divide(d, Compensation(d))
  /\ UNCHANGED <<day, claim, confirming, timers, terms>>

DecideClaim(d) ==
  /\ deal[d].status = "disputed"
  /\ \/ PayBlogger(d)
     \/ RefundAdvertiser(d)
     \/ \E part \in Parts : Divide(d, part)
     \/ Divide(d, Compensation(d))
  /\ claim' = [claim EXCEPT ![d].status = "resolved"]
  /\ UNCHANGED <<day, confirming, timers, terms>>

\* wrong variant: the term for documents is looked at for open claims only
RemindOpenClaims ==
  LET due == {d \in Deals : /\ claim[d].status = "open" /\ ~claim[d].reminded
                            /\ WorkingDaysAfter(day, 1) >= claim[d].decideUntil}
  IN  /\ due # {}
      /\ claim' = [d \in Deals |->
           IF d \in due THEN [claim[d] EXCEPT !.reminded = TRUE] ELSE claim[d]]
      /\ UNCHANGED <<day, deal, negotiation, confirming, timers, terms, money>>

\* remind_claim_decisions, one transaction: the claims a working day before the
\* decision is due, and those whose term for further documents has run out
RemindClaimDecisions ==
  LET due == {d \in Deals : /\ claim[d].status = "open" /\ ~claim[d].reminded
                            /\ WorkingDaysAfter(day, 1) >= claim[d].decideUntil}
      back == {d \in Deals : claim[d].status = "extra_docs" /\ claim[d].extraUntil <= day}
  IN  /\ due \cup back # {}
      /\ claim' = [d \in Deals |->
           IF d \in due THEN [claim[d] EXCEPT !.reminded = TRUE]
           ELSE IF d \in back
           THEN [claim[d] EXCEPT !.status = "open", !.decideUntil = day, !.reminded = FALSE]
           ELSE claim[d]]
      /\ UNCHANGED <<day, deal, negotiation, confirming, timers, terms, money>>

-----------------------------------------------------------------------------
(***************************************************************************)
(* Termination and a new publication date, by agreement of the sides; and  *)
(* the cancellation by one side, for deals of the former rules only.       *)
(***************************************************************************)
ProposeTermination(d, side) ==
  /\ deal[d].status \in Unpublished
  /\ termination[d] = "none"
  /\ termination' = [termination EXCEPT ![d] = side]
  /\ UNCHANGED <<day, deal, change, claim, confirming, timers, terms, money>>

\* wrong variant: proposed_by is not compared with the side that accepts
AcceptAnyTermination(d, side) ==
  /\ termination[d] # "none"
  /\ deal[d].status \in Unpublished
  /\ Money!RefundMinusCommission(d)
  /\ Move(d, [deal[d] EXCEPT !.status = "cancelled", !.paid = 0, !.cancelledBy = side])
  /\ UNCHANGED <<day, claim, confirming, timers, terms>>

AcceptTermination(d, side) ==
  /\ termination[d] = Other(side)
  /\ deal[d].status \in Unpublished
  /\ Money!RefundMinusCommission(d)
  /\ Move(d, [deal[d] EXCEPT !.status = "cancelled", !.paid = 0, !.cancelledBy = side])
  /\ UNCHANGED <<day, claim, confirming, timers, terms>>

DeclineTermination(d, side) ==
  /\ termination[d] = Other(side)
  /\ termination' = [termination EXCEPT ![d] = "none"]
  /\ UNCHANGED <<day, deal, change, claim, confirming, timers, terms, money>>

ProposePublicationDate(d, side, date) ==
  /\ deal[d].status \in Unpublished
  /\ deal[d].pubDate \notin {Never, date}
  /\ change[d] = NoChange
  /\ DateAllowed(date)
  /\ change' = [change EXCEPT ![d] = [by |-> side, to |-> date]]
  /\ UNCHANGED <<day, deal, termination, claim, confirming, timers, terms, money>>

\* wrong variant: what was said of the former date counts for the new one
AcceptDateKeepingNotices(d, side) ==
  /\ change[d].by = Other(side)
  /\ deal[d].status \in Unpublished
  /\ DateAllowed(change[d].to)
  /\ deal' = [deal EXCEPT ![d].pubDate = change[d].to]
  /\ change' = [change EXCEPT ![d] = NoChange]
  /\ UNCHANGED <<day, termination, claim, confirming, timers, terms, money>>

AcceptPublicationDate(d, side) ==
  /\ change[d].by = Other(side)
  /\ deal[d].status \in Unpublished
  /\ DateAllowed(change[d].to)
  /\ deal' = [deal EXCEPT ![d] = [@ EXCEPT !.pubDate = change[d].to,
                                           !.reminderSent = FALSE,
                                           !.overdueNotified = FALSE]]
  /\ change' = [change EXCEPT ![d] = NoChange]
  /\ UNCHANGED <<day, termination, claim, confirming, timers, terms, money>>

DeclinePublicationDate(d, side) ==
  /\ change[d].by = Other(side)
  /\ change' = [change EXCEPT ![d] = NoChange]
  /\ UNCHANGED <<day, deal, termination, claim, confirming, timers, terms, money>>

\* by the advertiser; what a blogger may cancel no deal is in any more
Cancel(d) ==
  /\ ~Package(d)
  /\ deal[d].status \in {"in_progress", "waiting_publication"}
  /\ Money!Release(d)
  /\ Move(d, [deal[d] EXCEPT !.status = "cancelled", !.cancelledBy = "advertiser"])
  /\ UNCHANGED <<day, claim, confirming, timers, terms>>

-----------------------------------------------------------------------------
(***************************************************************************)
(* The timers: hourly Celery tasks, each in a worker of its own.           *)
(***************************************************************************)

\* a task writes its list when it finds something new for it
List(due, list) == ~(due \subseteq list) /\ list' = list \cup due

\* wrong variant: an accepted publication is taken for a paid one
DuePayoutsUnaccepted ==
  {d \in Deals : deal[d].status = "checking" /\ ~deal[d].accepted /\ PayoutDue(d) <= day}

DuePayouts == {d \in Deals : deal[d].status = "checking" /\ PayoutDue(d) <= day}

\* auto_complete_overdue: the list ...
ScanPayouts ==
  /\ List(DuePayouts, payList)
  /\ UNCHANGED <<day, deal, negotiation, claim, confirming, approveList, reviewList, terms, money>>

\* ... and complete for each; a TransitionError is passed over
PayListed(d) ==
  /\ d \in payList
  /\ payList' = payList \ {d}
  /\ \/ Complete(d, "system")
     \/ /\ ~MayComplete(d, "system")
        /\ UNCHANGED <<day, deal, negotiation, claim, terms, money>>
  /\ UNCHANGED <<confirming, approveList, reviewList>>

\* wrong variant: the day the term ends is the only one that counts
SilentCreativesToday ==
  {d \in Deals : /\ deal[d].status = "on_approval" /\ ~terms[d].approval
                 /\ deal[d].submittedAt + AutoApproveAfter = day}

SilentCreatives ==
  {d \in Deals : /\ deal[d].status = "on_approval" /\ ~terms[d].approval
                 /\ deal[d].submittedAt + AutoApproveAfter <= day}

\* auto_approve_overdue_creatives: the list ...
ScanCreatives ==
  /\ List(SilentCreatives, approveList)
  /\ UNCHANGED <<day, deal, negotiation, claim, confirming, payList, reviewList, terms, money>>

\* ... and approve_creative for each, which looks at the status and the terms of
\* the deal again but not at the age of its creative
ApproveListed(d) ==
  /\ d \in approveList
  /\ approveList' = approveList \ {d}
  /\ \/ ApproveCreative(d, "system")
     \/ /\ deal[d].status # "on_approval" \/ terms[d].approval
        /\ UNCHANGED <<day, deal, negotiation, claim, confirming, terms, money>>
  /\ UNCHANGED <<payList, reviewList>>

\* wrong variant: only the first submission is looked after
LateFirstReviews ==
  {d \in Deals : ReviewOverdue(d) /\ ~deal[d].reviewNotified /\ deal[d].submissions = 1}

LateReviews == {d \in Deals : ReviewOverdue(d) /\ ~deal[d].reviewNotified}

\* notify_overdue_reviews: the candidates are read before the transaction ...
ScanReviews ==
  /\ List(LateReviews, reviewList)
  /\ UNCHANGED <<day, deal, negotiation, claim, confirming, payList, approveList, terms, money>>

\* ... in which _flag_once looks at the flag alone
FlagReviews ==
  /\ reviewList # {}
  /\ reviewList' = {}
  /\ deal' = [d \in Deals |->
       IF d \in reviewList THEN [deal[d] EXCEPT !.reviewNotified = TRUE] ELSE deal[d]]
  /\ UNCHANGED <<day, negotiation, claim, confirming, payList, approveList, terms, money>>

\* send_publication_reminders
RemindPublications ==
  LET tomorrow == {d \in Deals : /\ deal[d].status \in Unpublished
                                 /\ deal[d].pubDate = day + 1 /\ ~deal[d].reminderSent}
  IN  /\ tomorrow # {}
      /\ deal' = [d \in Deals |->
           IF d \in tomorrow THEN [deal[d] EXCEPT !.reminderSent = TRUE] ELSE deal[d]]
      /\ UNCHANGED <<day, negotiation, claim, confirming, timers, terms, money>>

\* notify_overdue_publications
NotifyOverduePublications ==
  LET overdue == {d \in Deals : /\ deal[d].status \in {"in_progress", "waiting_publication"}
                                /\ deal[d].pubDate \in 1..(day - 1) /\ ~deal[d].overdueNotified}
  IN  /\ overdue # {}
      /\ deal' = [d \in Deals |->
           IF d \in overdue THEN [deal[d] EXCEPT !.overdueNotified = TRUE] ELSE deal[d]]
      /\ UNCHANGED <<day, negotiation, claim, confirming, timers, terms, money>>

\* A worker dies with the rest of its list.
WorkerDies ==
  /\ \/ payList # {} /\ payList' = {} /\ UNCHANGED <<approveList, reviewList>>
     \/ approveList # {} /\ approveList' = {} /\ UNCHANGED <<payList, reviewList>>
     \/ reviewList # {} /\ reviewList' = {} /\ UNCHANGED <<payList, approveList>>
  /\ UNCHANGED <<day, deal, negotiation, claim, confirming, terms, money>>

\* Bounds: the horizon, and no days after the last deal is over.
Tick ==
  /\ day < MaxDay
  /\ \E d \in Deals : deal[d].status \notin {"lapsed", "completed", "cancelled"}
  /\ day' = day + 1
  /\ UNCHANGED <<deal, negotiation, claim, confirming, timers, terms, money>>

-----------------------------------------------------------------------------
BlankPaid == -1

NewDeal ==
  [status |-> "unsent", pubDate |-> Never, reminderSent |-> FALSE, overdueNotified |-> FALSE,
   submissions |-> 0, submittedAt |-> Never, approvedBy |-> "none", reviewNotified |-> FALSE,
   publishedAt |-> Never, accepted |-> FALSE, paid |-> BlankPaid, cancelledBy |-> "none"]

NoClaim ==
  [status |-> "none", by |-> "none", from |-> "none", openedAt |-> Never, explained |-> FALSE,
   decideUntil |-> Never, extraUntil |-> Never, reminded |-> FALSE]

Init ==
  /\ day = 1
  /\ deal = [d \in Deals |-> NewDeal]
  /\ change = [d \in Deals |-> NoChange]
  /\ termination = [d \in Deals |-> "none"]
  /\ claim = [d \in Deals |-> NoClaim]
  /\ confirming = [d \in Deals |-> "no"]
  /\ payList = {} /\ approveList = {} /\ reviewList = {}
  /\ Money!Init

AdvertiserApproves(d) == ApproveCreative(d, "advertiser") /\ UNCHANGED timers

DealStep(d) ==
  \/ SendOffer(d) \/ CloseOffer(d) \/ CreateDeal(d)
  \/ SubmitCreative(d) \/ AdvertiserApproves(d) \/ RejectCreative(d)
  \/ SubmitPublication(d) \/ ConfirmPublication(d) \/ FinishConfirmation(d)
  \/ LoseConfirmation(d) \/ ViewOverdueDeal(d)
  \/ ExplainClaim(d) \/ RequestExtraDocs(d) \/ DecideClaim(d)
  \/ Cancel(d)
  \/ PayListed(d) \/ ApproveListed(d)

SideStep(d, side) ==
  \/ \E subject \in Subjects : OpenClaim(d, side, subject)
  \/ ProposeTermination(d, side) \/ AcceptTermination(d, side) \/ DeclineTermination(d, side)
  \/ \E date \in Dates : ProposePublicationDate(d, side, date)
  \/ AcceptPublicationDate(d, side) \/ DeclinePublicationDate(d, side)

TimerStep ==
  \/ ScanPayouts \/ ScanCreatives \/ ScanReviews \/ FlagReviews
  \/ RemindPublications \/ NotifyOverduePublications \/ RemindClaimDecisions
  \/ WorkerDies \/ Tick

Next ==
  \/ \E d \in Deals : DealStep(d)
  \/ \E d \in Deals, side \in Sides : SideStep(d, side)
  \/ TimerStep

Spec == Init /\ [][Next]_vars

(***************************************************************************)
(* Celery beat starts every task again each hour, so a task keeps being    *)
(* scanned for; a worker may die between the list and an item of it any    *)
(* number of times but not for ever, hence strong fairness of the items.   *)
(* Neither the parties nor the staff owe the system a step.                *)
(***************************************************************************)
Fairness ==
  /\ WF_vars(Tick)
  /\ WF_vars(ScanPayouts)
  /\ WF_vars(ScanCreatives)
  /\ WF_vars(ScanReviews)
  /\ SF_vars(FlagReviews)
  /\ WF_vars(RemindClaimDecisions)
  /\ \A d \in Deals : SF_vars(PayListed(d)) /\ SF_vars(ApproveListed(d))

FairSpec == Spec /\ Fairness

-----------------------------------------------------------------------------
(***************************************************************************)
(* Properties.                                                             *)
(***************************************************************************)
DealRow ==
  [status : Statuses, pubDate : Nat, reminderSent : BOOLEAN, overdueNotified : BOOLEAN,
   submissions : 0..MaxSubmissions, submittedAt : Nat,
   approvedBy : {"none", "system", "advertiser"}, reviewNotified : BOOLEAN,
   publishedAt : Nat, accepted : BOOLEAN, paid : Int,
   cancelledBy : Sides \cup {"none", "staff"}]

ClaimRow ==
  [status : {"none", "open", "extra_docs", "resolved"}, by : Sides \cup {"none"},
   from : Claimable \cup {"none"}, openedAt : Nat, explained : BOOLEAN,
   decideUntil : Nat, extraUntil : Nat, reminded : BOOLEAN]

(* Types.  No deal is ever in the status "published" or, between two       *)
(* transactions, in "waiting_payment": no timer would take it further.     *)
TypeOK ==
  /\ day \in 1..MaxDay
  /\ deal \in [Deals -> DealRow]
  /\ change \in [Deals -> [by : Sides \cup {"none"}, to : Nat]]
  /\ termination \in [Deals -> Sides \cup {"none"}]
  /\ claim \in [Deals -> ClaimRow]
  /\ confirming \in [Deals -> {"no", "advertiser", "system"}]
  /\ payList \subseteq Deals /\ approveList \subseteq Deals /\ reviewList \subseteq Deals

(* The deals implement the contract of the money side: whichever of the    *)
(* timer, the page view, the confirmation, the staff and the parties comes *)
(* first, an offer's reservation is made once and settled at most once.    *)
RefinesEscrow == Money!Spec

(* No payment without a staff decision before the terms promise it: under  *)
(* the package terms not before the retention term is over and, unless the *)
(* advertiser accepted the publication, the time for his claim with it;    *)
(* under the former rules not before 72 hours unless he confirmed.         *)
NoEarlyPayout ==
  [][\A d \in Deals :
       deal[d].status = "checking" /\ deal'[d].status = "completed" =>
         IF Package(d)
         THEN /\ day >= deal[d].publishedAt + terms[d].retention
              /\ deal[d].accepted \/ day >= ClaimUntil(d)
         ELSE \/ confirming[d] = "advertiser"
              \/ day >= deal[d].publishedAt + LegacyCheckDays]_vars

(* While a claim is open no money of the deal moves but by the decision    *)
(* that resolves it: neither a list made before the claim nor the second   *)
(* half of a confirmation pays past it.                                    *)
ClaimFreezesMoney ==
  [][\A d \in Deals :
       ClaimOpen(d) /\ ledger'[d] # ledger[d] => claim'[d].status = "resolved"]_vars

(* A deal is disputed exactly while a claim of it is open, so no deal is   *)
(* left without a way on and no claim without a deal to decide.            *)
DisputedIffOpenClaim ==
  \A d \in Deals : deal[d].status = "disputed" <=> ClaimOpen(d)

(* Where the offer requires approval, nothing is published that the        *)
(* advertiser himself did not approve: no timer stands in for him.         *)
SilenceIsNotConsent ==
  \A d \in Deals :
    terms[d].approval /\ deal[d].publishedAt # Never => deal[d].approvedBy = "advertiser"

(* A proposal to end the deal or to move its date is pending only before   *)
(* the publication: none can be accepted after a claim, a payment or the   *)
(* publication itself.                                                     *)
NoStaleProposal ==
  \A d \in Deals :
    change[d] # NoChange \/ termination[d] # "none" => deal[d].status \in Unpublished

(* The publication is not earlier than the date that is agreed, even when  *)
(* the date was moved while the publication was being prepared.            *)
NotBeforeAgreedDate ==
  \A d \in Deals :
    deal[d].publishedAt # Never => deal[d].pubDate <= deal[d].publishedAt

(* A notice that was sent is true of the date in force: after the sides    *)
(* move the date, the reminder and the overdue notice are due anew.        *)
NoticesAreCurrent ==
  \A d \in Deals :
    /\ deal[d].overdueNotified => deal[d].pubDate < day
    /\ deal[d].reminderSent => deal[d].pubDate <= day + 1

(* A deal on package terms is cancelled only by the staff's decision on a  *)
(* claim or when one side accepts the termination the other has proposed:  *)
(* who cancelled it, by the status log, is the other side than proposed_by *)
(* of the request that was pending.                                        *)
NoUnilateralExit ==
  [][\A d \in Deals :
       Package(d) /\ deal[d].status # "cancelled" /\ deal'[d].status = "cancelled" =>
         \/ /\ claim[d].status # "resolved" /\ claim'[d].status = "resolved"
            /\ deal'[d].cancelledBy = "staff"
         \/ /\ termination[d] # "none"
            /\ deal'[d].cancelledBy = Other(termination[d])]_vars

(* The end of the deal and its money tell the same story: the performer    *)
(* earned exactly in the completed deals, his deals_count counts them, and *)
(* under the tariffs paid_amount is what he earned.                        *)
OutcomeMatchesMoney ==
  /\ \A d \in Deals :
       /\ deal[d].status = "completed" <=> ledger[d].earning > 0
       /\ terms[d].onTop /\ deal[d].paid # BlankPaid => deal[d].paid = ledger[d].earning
  /\ \A u \in Users :
       dealsCount[u] = Cardinality({d \in Deals : Blogger[d] = u /\ deal[d].status = "completed"})

(* A publication whose term falls within the horizon does not stay         *)
(* unpaid: it is paid, or a claim stops it.                                *)
DueIsPaid ==
  \A d \in Deals :
    deal[d].status = "checking" /\ PayoutDue(d) <= MaxDay ~> deal[d].status # "checking"

(* Without an obligatory approval the advertiser's silence does not hold   *)
(* the performer up for ever.                                              *)
SilentCreativeMovesOn ==
  \A d \in Deals :
    (/\ deal[d].status = "on_approval" /\ ~terms[d].approval
     /\ deal[d].submittedAt + AutoApproveAfter <= MaxDay)
      ~> deal[d].status # "on_approval"

(* With an obligatory approval the sides are at least told of it.          *)
LateReviewIsNoticed ==
  \A d \in Deals :
    deal[d].status = "on_approval" /\ terms[d].approval /\ ReviewDue(d) <= MaxDay
      ~> deal[d].reviewNotified \/ deal[d].status # "on_approval"

(* A claim waiting for further documents comes back to the staff when the  *)
(* term runs out, whether the documents came or not.                       *)
ExtraDocsComeBack ==
  \A d \in Deals :
    claim[d].status = "extra_docs" /\ claim[d].extraUntil <= MaxDay
      ~> claim[d].status # "extra_docs"

(***************************************************************************)
(* What the code's own words say and the code does not do; see the README. *)
(***************************************************************************)

(* approve_creative: "actor=None - approval by the system after 48 hours": *)
(* the creative it approves has been waiting that long.                    *)
AutoApprovalAfterSilence ==
  [][\A d \in Deals :
       deal[d].status = "on_approval" /\ deal'[d].approvedBy = "system" =>
         deal[d].submittedAt + AutoApproveAfter <= day]_vars

(* notify_overdue_reviews: "the review term has run out and the advertiser *)
(* has not answered": the flag is set of a submission that waits too long. *)
ReviewNoticeIsTrue ==
  [][\A d \in Deals :
       ~deal[d].reviewNotified /\ deal'[d].reviewNotified => ReviewOverdue(d)]_vars

\* Claim.compensation_grounds, as the page of disputes evaluates it
CompensationGrounds(d) == deal[d].submissions >= 2 /\ ReviewOverdue(d)

(* compensation_grounds: "the performer sent the material again and the    *)
(* review term ran out": it shows while the claim that says so is open.    *)
GroundsAreShown ==
  \A d \in Deals :
    (/\ ClaimOpen(d) /\ claim[d].from = "on_approval" /\ terms[d].approval
     /\ deal[d].submissions >= 2 /\ ReviewDue(d) <= claim[d].openedAt)
      => CompensationGrounds(d)
=============================================================================
