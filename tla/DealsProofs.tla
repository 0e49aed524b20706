----------------------------- MODULE DealsProofs -----------------------------
(* Theorems about Deals for every set of deals, every terms and calendar.  *)
EXTENDS Deals, TLAPS

-----------------------------------------------------------------------------
(* What is true of each deal and inductive: the properties proved below    *)
(* and the two facts they rest on, that only the advertiser approves where *)
(* approval is required and that nothing is published before "checking".   *)
RowInv(d) ==
  /\ change[d] # NoChange \/ termination[d] # "none" => deal[d].status \in Unpublished
  /\ deal[d].status = "disputed" <=> ClaimOpen(d)
  /\ terms[d].approval => deal[d].approvedBy \in {"none", "advertiser"}
  /\ terms[d].approval /\ deal[d].publishedAt # Never => deal[d].approvedBy = "advertiser"
  /\ deal[d].publishedAt # Never => deal[d].pubDate <= deal[d].publishedAt
  /\ deal[d].status \in {"unsent", "offered"} \cup Unpublished => deal[d].publishedAt = Never

IInv ==
  /\ TypeOK
  /\ terms \in [Deals -> Terms]
  /\ \A d \in Deals : RowInv(d)

LEMMA WorkingDaysAfterType ==
  ASSUME NEW moment \in 0..MaxDay,
         NEW count \in {1, ReviewDays, ClaimDays, DecisionDays, ExtraDocsDays}
  PROVE  WorkingDaysAfter(moment, count) \in Nat
<1>1. \E u \in moment..(moment + 3 * count) : EndsWorkingDays(u, moment, count)
  BY CalendarAssumption
<1>2. WorkingDaysAfter(moment, count) \in moment..(moment + 3 * count)
  BY <1>1, Zenon DEF WorkingDaysAfter
<1>3. moment \in Nat /\ count \in Nat
  BY DaysAssumption
<1>4. QED
  BY <1>2, <1>3

LEMMA CompensationType ==
  ASSUME terms \in [Deals -> Terms], NEW d \in Deals
  PROVE  Money!Price(d) \in Int /\ Compensation(d) \in Int
<1>1. Money!Price(d) \in Nat
  BY DealTermsAssumption DEF Money!Price
<1>2. CompensationPercent \in Nat
  BY DaysAssumption
<1>3. Money!Price(d) * CompensationPercent \in Nat
  BY <1>1, <1>2, Z3
<1> DEFINE n == Money!Price(d) * CompensationPercent
<1>4. HalfEven(n) \in Int
  <2> HIDE DEF n
  <2>1. n \in Nat
    BY <1>3 DEF n
  <2>2. n \div 100 \in Int
    BY <2>1, Z3
  <2>3. QED
    BY <2>1, <2>2, Z3 DEF HalfEven
<1>5. QED
  BY <1>1, <1>4 DEF Compensation

-----------------------------------------------------------------------------
(* A step of one deal: the variables keep their types, the other deals are *)
(* left alone, and the deal keeps its part of the invariant.               *)
Types ==
  /\ deal \in [Deals -> DealRow]
  /\ change \in [Deals -> [by : Sides \cup {"none"}, to : Nat]]
  /\ termination \in [Deals -> Sides \cup {"none"}]
  /\ claim \in [Deals -> ClaimRow]

TimerTypes ==
  /\ confirming \in [Deals -> {"no", "advertiser", "system"}]
  /\ payList \subseteq Deals
  /\ approveList \subseteq Deals
  /\ reviewList \subseteq Deals

Alone(d) ==
  \A e \in Deals \ {d} :
    /\ deal'[e] = deal[e]
    /\ change'[e] = change[e]
    /\ termination'[e] = termination[e]
    /\ claim'[e] = claim[e]

LEMMA RowStep ==
  ASSUME IInv, NEW d \in Deals,
         Types', TimerTypes', Alone(d), RowInv(d)', terms' = terms, day' = day
  PROVE  IInv'
<1>1. TypeOK' /\ terms' \in [Deals -> Terms]
  BY DEF IInv, TypeOK, Types, TimerTypes
<1>2. ASSUME NEW e \in Deals, e # d
      PROVE  RowInv(e)'
  BY <1>2 DEF IInv, RowInv, Alone, ClaimOpen
<1>3. QED
  BY <1>1, <1>2 DEF IInv

(* What _move leaves: the row given, and nothing pending past publication. *)
LEMMA MoveEffect ==
  ASSUME IInv, NEW d \in Deals, NEW r \in DealRow, Move(d, r)
  PROVE  /\ deal' \in [Deals -> DealRow]
         /\ change' \in [Deals -> [by : Sides \cup {"none"}, to : Nat]]
         /\ termination' \in [Deals -> Sides \cup {"none"}]
         /\ deal'[d] = r
         /\ \A e \in Deals \ {d} : /\ deal'[e] = deal[e]
                                   /\ change'[e] = change[e]
                                   /\ termination'[e] = termination[e]
         /\ change'[d] # NoChange \/ termination'[d] # "none" => r.status \in Unpublished
<1>1. /\ deal \in [Deals -> DealRow]
      /\ change \in [Deals -> [by : Sides \cup {"none"}, to : Nat]]
      /\ termination \in [Deals -> Sides \cup {"none"}]
  BY DEF IInv, TypeOK
<1>2. NoChange \in [by : Sides \cup {"none"}, to : Nat]
  BY DEF NoChange, Never
<1>3. /\ deal' \in [Deals -> DealRow]
      /\ deal'[d] = r
      /\ \A e \in Deals \ {d} : deal'[e] = deal[e]
  BY <1>1 DEF Move
<1>4. CASE r.status \in Unpublished
  BY <1>1, <1>3, <1>4 DEF Move, negotiation
<1>5. CASE r.status \notin Unpublished
  <2>1. /\ change' = [change EXCEPT ![d] = NoChange]
        /\ termination' = [termination EXCEPT ![d] = "none"]
    BY <1>5 DEF Move
  <2> HIDE DEF NoChange
  <2>2. QED
    BY <1>1, <1>2, <1>3, <2>1
<1>6. QED
  BY <1>4, <1>5

(* A transition by _move that leaves the claim alone.                      *)
LEMMA MoveStep ==
  ASSUME IInv, NEW d \in Deals, NEW r \in DealRow, Move(d, r),
         UNCHANGED <<claim, terms, day>>, TimerTypes',
         deal[d].status # "disputed", r.status # "disputed",
         terms[d].approval => r.approvedBy \in {"none", "advertiser"},
         terms[d].approval /\ r.publishedAt # Never => r.approvedBy = "advertiser",
         r.publishedAt # Never => r.pubDate <= r.publishedAt,
         r.status \in {"unsent", "offered"} \cup Unpublished => r.publishedAt = Never
  PROVE  IInv'
<1>1. Types' /\ Alone(d)
  BY MoveEffect DEF IInv, TypeOK, Types, Alone
<1>2. RowInv(d)'
  <2>1. deal'[d] = r
    BY MoveEffect
  <2>2. change'[d] # NoChange \/ termination'[d] # "none" => r.status \in Unpublished
    BY MoveEffect
  <2>3. ~ClaimOpen(d)'
    BY DEF IInv, RowInv, ClaimOpen
  <2>4. QED
    BY <2>1, <2>2, <2>3 DEF RowInv
<1>3. QED
  BY <1>1, <1>2, RowStep

(* A step that writes nothing of the deals but flags.                      *)
LEMMA FlagStep ==
  ASSUME IInv, deal' \in [Deals -> DealRow],
         \A e \in Deals : /\ deal'[e].status = deal[e].status
                          /\ deal'[e].approvedBy = deal[e].approvedBy
                          /\ deal'[e].publishedAt = deal[e].publishedAt
                          /\ deal'[e].pubDate = deal[e].pubDate,
         UNCHANGED <<change, termination, claim, terms>>, day' \in 1..MaxDay, TimerTypes'
  PROVE  IInv'
<1>1. TypeOK' /\ terms' \in [Deals -> Terms]
  BY DEF IInv, TypeOK, TimerTypes
<1>2. ASSUME NEW e \in Deals PROVE RowInv(e)'
  BY DEF IInv, RowInv, ClaimOpen
<1>3. QED
  BY <1>1, <1>2 DEF IInv

(* A step that writes nothing but a claim that is open before and after.   *)
LEMMA ClaimStep ==
  ASSUME IInv, claim' \in [Deals -> ClaimRow],
         \A e \in Deals : ClaimOpen(e)' = ClaimOpen(e),
         UNCHANGED <<deal, change, termination, terms, day>>, TimerTypes'
  PROVE  IInv'
<1>1. TypeOK' /\ terms' \in [Deals -> Terms]
  BY DEF IInv, TypeOK, TimerTypes
<1>2. ASSUME NEW e \in Deals PROVE RowInv(e)'
  <2>1. ClaimOpen(e)' = ClaimOpen(e)
    OBVIOUS
  <2> HIDE DEF ClaimOpen
  <2>2. QED
    BY <2>1 DEF IInv, RowInv
<1>3. QED
  BY <1>1, <1>2 DEF IInv

(* A step that writes nothing but what is negotiated before publication.   *)
LEMMA NegotiationStep ==
  ASSUME IInv, NEW d \in Deals,
         change' \in [Deals -> [by : Sides \cup {"none"}, to : Nat]],
         termination' \in [Deals -> Sides \cup {"none"}],
         \A e \in Deals \ {d} : change'[e] = change[e] /\ termination'[e] = termination[e],
         change'[d] # NoChange \/ termination'[d] # "none" => deal[d].status \in Unpublished,
         UNCHANGED <<deal, claim, terms, day>>, TimerTypes'
  PROVE  IInv'
<1>1. Types' /\ Alone(d)
  BY DEF IInv, TypeOK, Types, Alone
<1>2. RowInv(d)'
  BY DEF IInv, RowInv, ClaimOpen
<1>3. QED
  BY <1>1, <1>2, RowStep

(* What every step may use of a deal.                                      *)
LEMMA DealFacts ==
  ASSUME IInv, NEW d \in Deals
  PROVE  /\ deal \in [Deals -> DealRow]
         /\ deal[d] \in DealRow
         /\ claim \in [Deals -> ClaimRow]
         /\ change \in [Deals -> [by : Sides \cup {"none"}, to : Nat]]
         /\ termination \in [Deals -> Sides \cup {"none"}]
         /\ day \in 1..MaxDay
         /\ day \in Nat
         /\ RowInv(d)
         /\ TimerTypes
  BY DaysAssumption DEF IInv, TypeOK, TimerTypes

-----------------------------------------------------------------------------
(* One lemma per handler, or per group of handlers of one shape.           *)
LEMMA SendOfferStep ==
  ASSUME IInv, NEW d \in Deals, SendOffer(d)
  PROVE  IInv'
<1>1. PICK date \in Dates \cup {Never} :
         deal' = [deal EXCEPT ![d] = [@ EXCEPT !.status = "offered", !.pubDate = date]]
  BY DEF SendOffer
<1> DEFINE r == [deal[d] EXCEPT !.status = "offered", !.pubDate = date]
<1>2. date \in Nat
  BY DaysAssumption DEF Never
<1>3. r \in DealRow /\ deal' = [deal EXCEPT ![d] = r]
  BY <1>1, <1>2, DealFacts, ZenonT(60) DEF DealRow, Statuses
<1>4. r.status = "offered" /\ r.approvedBy = deal[d].approvedBy /\ r.publishedAt = deal[d].publishedAt
  BY DealFacts DEF DealRow
<1>5. UNCHANGED <<change, termination, claim, confirming, payList, approveList, reviewList, terms, day>>
  BY DEF SendOffer, negotiation, timers
<1> HIDE DEF r
<1>6. Types' /\ Alone(d) /\ TimerTypes'
  BY <1>3, <1>5, DealFacts DEF Types, Alone, TimerTypes
<1>7. deal[d].status = "unsent"
  BY DEF SendOffer
<1>8. RowInv(d)'
  BY <1>3, <1>4, <1>5, <1>7, DealFacts DEF RowInv, ClaimOpen, Unpublished
<1>9. QED
  BY <1>5, <1>6, <1>8, RowStep

LEMMA CloseOfferStep ==
  ASSUME IInv, NEW d \in Deals, CloseOffer(d)
  PROVE  IInv'
<1> DEFINE r == [deal[d] EXCEPT !.status = "lapsed"]
<1>1. r \in DealRow /\ deal' = [deal EXCEPT ![d] = r]
  BY DealFacts, ZenonT(60) DEF CloseOffer, DealRow, Statuses
<1>2. /\ r.status = "lapsed" /\ r.approvedBy = deal[d].approvedBy
      /\ r.publishedAt = deal[d].publishedAt /\ r.pubDate = deal[d].pubDate
  BY DealFacts DEF DealRow
<1>3. UNCHANGED <<change, termination, claim, confirming, payList, approveList, reviewList, terms, day>>
  BY DEF CloseOffer, negotiation, timers
<1> HIDE DEF r
<1>4. Types' /\ Alone(d) /\ TimerTypes'
  BY <1>1, <1>3, DealFacts DEF Types, Alone, TimerTypes
<1>5. deal[d].status = "offered"
  BY DEF CloseOffer
<1>6. RowInv(d)'
  BY <1>1, <1>2, <1>3, <1>5, DealFacts DEF RowInv, ClaimOpen, Unpublished
<1>7. QED
  BY <1>3, <1>4, <1>6, RowStep

LEMMA CreateDealStep ==
  ASSUME IInv, NEW d \in Deals, CreateDeal(d)
  PROVE  IInv'
<1> DEFINE r == [deal[d] EXCEPT !.status = "in_progress"]
<1>1. r \in DealRow /\ Move(d, r) /\ deal[d].status = "offered"
  BY DealFacts, ZenonT(60) DEF CreateDeal, DealRow, Statuses, Running, Claimable, Unpublished
<1>2. /\ r.status = "in_progress" /\ r.approvedBy = deal[d].approvedBy
      /\ r.publishedAt = deal[d].publishedAt /\ r.pubDate = deal[d].pubDate
  BY DealFacts DEF DealRow
<1>3. UNCHANGED <<claim, terms, day>> /\ TimerTypes'
  BY DealFacts DEF CreateDeal, timers, TimerTypes
<1> HIDE DEF r
<1>4. QED
  BY <1>1, <1>2, <1>3, DealFacts, MoveStep DEF RowInv

LEMMA SubmitCreativeStep ==
  ASSUME IInv, NEW d \in Deals, SubmitCreative(d)
  PROVE  IInv'
<1> DEFINE n == IF deal[d].submissions < MaxSubmissions
                THEN deal[d].submissions + 1 ELSE deal[d].submissions
           r == [deal[d] EXCEPT !.status = "on_approval", !.submittedAt = day,
                                !.submissions = n, !.reviewNotified = FALSE]
<1>1. n \in 0..MaxSubmissions
  BY DealFacts, DaysAssumption DEF DealRow
<1>2. Move(d, r) /\ deal[d].status = "in_progress"
  BY DEF SubmitCreative
<1>3. UNCHANGED <<claim, terms, day>> /\ TimerTypes'
  BY DealFacts DEF SubmitCreative, timers, TimerTypes
<1> HIDE DEF n
<1>4. r \in DealRow
  BY <1>1, DealFacts, ZenonT(60) DEF DealRow, Statuses, Running, Claimable, Unpublished
<1>5. /\ r.status = "on_approval" /\ r.approvedBy = deal[d].approvedBy
      /\ r.publishedAt = deal[d].publishedAt /\ r.pubDate = deal[d].pubDate
  BY DealFacts DEF DealRow
<1> HIDE DEF r
<1>6. QED
  BY <1>2, <1>3, <1>4, <1>5, DealFacts, MoveStep DEF RowInv, Unpublished

LEMMA ApproveCreativeStep ==
  ASSUME IInv, NEW d \in Deals, NEW actor \in {"system", "advertiser"},
         ApproveCreative(d, actor), TimerTypes'
  PROVE  IInv'
<1> DEFINE r == [deal[d] EXCEPT !.status = "waiting_publication", !.approvedBy = actor]
<1>1. Move(d, r) /\ deal[d].status = "on_approval"
  BY DEF ApproveCreative
<1>2. r \in DealRow
  BY DealFacts, ZenonT(60) DEF DealRow, Statuses, Running, Claimable, Unpublished
<1>3. /\ r.status = "waiting_publication" /\ r.approvedBy = actor
      /\ r.publishedAt = deal[d].publishedAt /\ r.pubDate = deal[d].pubDate
  BY DealFacts DEF DealRow
<1>4. UNCHANGED <<claim, terms, day>>
  BY DEF ApproveCreative
<1>5. terms[d].approval => actor = "advertiser"
  BY DEF ApproveCreative
<1> HIDE DEF r
<1>6. QED
  BY <1>1, <1>2, <1>3, <1>4, <1>5, DealFacts, MoveStep DEF RowInv, Unpublished

LEMMA RejectCreativeStep ==
  ASSUME IInv, NEW d \in Deals, RejectCreative(d)
  PROVE  IInv'
<1> DEFINE r == [deal[d] EXCEPT !.status = "in_progress"]
<1>1. Move(d, r) /\ deal[d].status = "on_approval"
  BY DEF RejectCreative
<1>2. r \in DealRow
  BY DealFacts, ZenonT(60) DEF DealRow, Statuses, Running, Claimable, Unpublished
<1>3. /\ r.status = "in_progress" /\ r.approvedBy = deal[d].approvedBy
      /\ r.publishedAt = deal[d].publishedAt /\ r.pubDate = deal[d].pubDate
  BY DealFacts DEF DealRow
<1>4. UNCHANGED <<claim, terms, day>> /\ TimerTypes'
  BY DealFacts DEF RejectCreative, timers, TimerTypes
<1> HIDE DEF r
<1>5. QED
  BY <1>1, <1>2, <1>3, <1>4, DealFacts, MoveStep DEF RowInv, Unpublished

LEMMA SubmitPublicationStep ==
  ASSUME IInv, NEW d \in Deals, SubmitPublication(d)
  PROVE  IInv'
<1> DEFINE r == [deal[d] EXCEPT !.status = "checking", !.publishedAt = day]
<1>1. Move(d, r) /\ deal[d].status \in {"in_progress", "waiting_publication"}
  BY DEF SubmitPublication
<1>2. r \in DealRow
  BY DealFacts, ZenonT(60) DEF DealRow, Statuses, Running, Claimable, Unpublished
<1>3. /\ r.status = "checking" /\ r.approvedBy = deal[d].approvedBy
      /\ r.publishedAt = day /\ r.pubDate = deal[d].pubDate
  BY DealFacts DEF DealRow
<1>4. UNCHANGED <<claim, terms, day>> /\ TimerTypes'
  BY DealFacts DEF SubmitPublication, timers, TimerTypes
<1>5. /\ deal[d].pubDate <= day
      /\ terms[d].approval => deal[d].approvedBy # "none"
  BY DEF SubmitPublication, MayPublish
<1> HIDE DEF r
<1>6. QED
  BY <1>1, <1>2, <1>3, <1>4, <1>5, DealFacts, MoveStep DEF RowInv, Unpublished

LEMMA ConfirmPublicationStep ==
  ASSUME IInv, NEW d \in Deals, ConfirmPublication(d)
  PROVE  IInv'
<1>1. deal' = [deal EXCEPT ![d].accepted = Package(d)] /\ Package(d) \in BOOLEAN
  BY DEF ConfirmPublication, Package
<1>2. UNCHANGED <<change, termination, claim, payList, approveList, reviewList, terms, day>>
  BY DEF ConfirmPublication, negotiation, timers
<1>3. confirming' \in [Deals -> {"no", "advertiser", "system"}]
  <2> DEFINE c == CASE ~Package(d) -> "advertiser"
                    [] RetentionUntil(d) <= day -> "system"
                    [] OTHER -> "no"
  <2>1. confirming' = [confirming EXCEPT ![d] = c]
    BY DEF ConfirmPublication
  <2>2. c \in {"no", "advertiser", "system"}
    <3> HIDE DEF Package, RetentionUntil
    <3>1. QED
      OBVIOUS
  <2> HIDE DEF c
  <2>3. QED
    BY <2>1, <2>2, DealFacts DEF TimerTypes
<1> HIDE DEF Package
<1>4. /\ deal' \in [Deals -> DealRow]
      /\ \A e \in Deals : /\ deal'[e].status = deal[e].status
                          /\ deal'[e].approvedBy = deal[e].approvedBy
                          /\ deal'[e].publishedAt = deal[e].publishedAt
                          /\ deal'[e].pubDate = deal[e].pubDate
  <2> DEFINE r == [deal[d] EXCEPT !.accepted = Package(d)]
  <2>1. r \in DealRow
    BY <1>1, DealFacts, ZenonT(60) DEF DealRow
  <2>2. /\ r.status = deal[d].status /\ r.approvedBy = deal[d].approvedBy
        /\ r.publishedAt = deal[d].publishedAt /\ r.pubDate = deal[d].pubDate
    BY DealFacts DEF DealRow
  <2>3. deal' = [deal EXCEPT ![d] = r]
    BY <1>1
  <2> HIDE DEF r
  <2>4. QED
    BY <2>1, <2>2, <2>3, DealFacts
<1>5. TimerTypes' /\ day' \in 1..MaxDay
  BY <1>2, <1>3, DealFacts DEF TimerTypes
<1>6. QED
  BY <1>2, <1>4, <1>5, FlagStep

LEMMA CompleteStep ==
  ASSUME IInv, NEW d \in Deals, NEW actor, Complete(d, actor), TimerTypes'
  PROVE  IInv'
<1> DEFINE r == [deal[d] EXCEPT !.status = "completed"]
<1>1. Move(d, r) /\ deal[d].status = "checking"
  BY DEF Complete, MayComplete
<1>2. r \in DealRow
  BY DealFacts, ZenonT(60) DEF DealRow, Statuses
<1>3. /\ r.status = "completed" /\ r.approvedBy = deal[d].approvedBy
      /\ r.publishedAt = deal[d].publishedAt /\ r.pubDate = deal[d].pubDate
  BY DealFacts DEF DealRow
<1>4. UNCHANGED <<claim, terms, day>>
  BY DEF Complete
<1> HIDE DEF r
<1>5. QED
  BY <1>1, <1>2, <1>3, <1>4, DealFacts, MoveStep DEF RowInv, Unpublished

LEMMA CancelSteps ==
  ASSUME IInv, NEW d \in Deals,
         Cancel(d) \/ \E side \in Sides : AcceptTermination(d, side)
  PROVE  IInv'
<1>1. PICK p \in Int, w \in Sides \cup {"none", "staff"} :
        Move(d, [deal[d] EXCEPT !.status = "cancelled", !.paid = p, !.cancelledBy = w])
  <2>1. CASE Cancel(d)
    <3>1. [deal[d] EXCEPT !.status = "cancelled", !.cancelledBy = "advertiser"]
            = [deal[d] EXCEPT !.status = "cancelled", !.paid = deal[d].paid,
                              !.cancelledBy = "advertiser"]
      BY DealFacts DEF DealRow
    <3>2. deal[d].paid \in Int /\ "advertiser" \in Sides \cup {"none", "staff"}
      BY DealFacts DEF DealRow, Sides
    <3>3. Move(d, [deal[d] EXCEPT !.status = "cancelled", !.paid = deal[d].paid,
                                  !.cancelledBy = "advertiser"])
      BY <2>1, <3>1 DEF Cancel
    <3>4. QED
      BY <3>2, <3>3, Zenon
  <2>2. CASE \E side \in Sides : AcceptTermination(d, side)
    <3>1. PICK side \in Sides :
            Move(d, [deal[d] EXCEPT !.status = "cancelled", !.paid = 0, !.cancelledBy = side])
      BY <2>2 DEF AcceptTermination
    <3>2. 0 \in Int /\ side \in Sides \cup {"none", "staff"}
      OBVIOUS
    <3>3. QED
      BY <3>1, <3>2, Zenon
  <2>3. QED
    BY <2>1, <2>2
<1> DEFINE r == [deal[d] EXCEPT !.status = "cancelled", !.paid = p, !.cancelledBy = w]
<1>2. Move(d, r) /\ deal[d].status \in Unpublished
  BY <1>1 DEF Cancel, AcceptTermination, Unpublished
<1>3. r \in DealRow
  BY DealFacts, ZenonT(60) DEF DealRow, Statuses
<1>4. /\ r.status = "cancelled" /\ r.approvedBy = deal[d].approvedBy
      /\ r.publishedAt = deal[d].publishedAt /\ r.pubDate = deal[d].pubDate
  BY DealFacts DEF DealRow
<1>5. UNCHANGED <<claim, terms, day>> /\ TimerTypes'
  BY DealFacts DEF Cancel, AcceptTermination, timers, TimerTypes
<1> HIDE DEF r
<1>6. QED
  BY <1>2, <1>3, <1>4, <1>5, DealFacts, MoveStep DEF RowInv, Unpublished

LEMMA OpenClaimStep ==
  ASSUME IInv, NEW d \in Deals, NEW side \in Sides, NEW subject, OpenClaim(d, side, subject)
  PROVE  IInv'
<1> DEFINE r == [deal[d] EXCEPT !.status = "disputed"]
           until == WorkingDaysAfter(day, DecisionDays)
           c == [status |-> "open", by |-> side, from |-> deal[d].status, openedAt |-> day,
                 explained |-> FALSE, decideUntil |-> until,
                 extraUntil |-> Never, reminded |-> FALSE]
<1>1. Move(d, r) /\ deal[d].status \in Claimable /\ claim' = [claim EXCEPT ![d] = c]
  BY DEF OpenClaim
<1>2. UNCHANGED <<terms, day, confirming, payList, approveList, reviewList>>
  BY DEF OpenClaim, timers
<1>3. r \in DealRow
  BY DealFacts DEF DealRow, Statuses, Running
<1>4. /\ r.status = "disputed" /\ r.approvedBy = deal[d].approvedBy
      /\ r.publishedAt = deal[d].publishedAt /\ r.pubDate = deal[d].pubDate
  BY DealFacts DEF DealRow
<1>5. until \in Nat
  BY DealFacts, DaysAssumption, WorkingDaysAfterType
<1> HIDE DEF until
<1>6. c \in ClaimRow /\ c.status = "open"
  BY <1>1, <1>5, DealFacts DEF ClaimRow, Never
<1> HIDE DEF r, c
<1>7. /\ claim' \in [Deals -> ClaimRow]
      /\ claim'[d] = c
      /\ \A e \in Deals \ {d} : claim'[e] = claim[e]
  BY <1>1, <1>6, DealFacts
<1>8. Types' /\ Alone(d)
  BY <1>1, <1>3, <1>7, MoveEffect DEF Types, Alone
<1>9. RowInv(d)'
  <2>1. /\ deal'[d] = r
        /\ change'[d] # NoChange \/ termination'[d] # "none" => r.status \in Unpublished
    BY <1>1, <1>3, MoveEffect
  <2>2. ClaimOpen(d)'
    BY <1>6, <1>7 DEF ClaimOpen
  <2>3. QED
    BY <1>2, <1>4, <2>1, <2>2, DealFacts DEF RowInv, Unpublished
<1>10. TimerTypes'
  BY <1>2, DealFacts DEF TimerTypes
<1>11. QED
  BY <1>2, <1>8, <1>9, <1>10, RowStep

LEMMA DecideClaimStep ==
  ASSUME IInv, NEW d \in Deals, DecideClaim(d)
  PROVE  IInv'
<1> DEFINE Last(s, p, w) == [deal[d] EXCEPT !.status = s, !.paid = p, !.cancelledBy = w]
<1>1. \E s \in {"completed", "cancelled"}, p \in Int, w \in Sides \cup {"none", "staff"} :
         Move(d, Last(s, p, w))
  <2> DEFINE w0 == deal[d].cancelledBy
  <2>1. /\ Money!Price(d) \in Int
        /\ Compensation(d) \in Int
        /\ \A part \in Parts : part \in Int
    BY CompensationType, DaysAssumption DEF IInv
  <2>6. /\ w0 \in Sides \cup {"none", "staff"}
        /\ \A p : [deal[d] EXCEPT !.status = "completed", !.paid = p] = Last("completed", p, w0)
    BY DealFacts DEF DealRow
  <2>2. CASE PayBlogger(d)
    <3>1. Move(d, [deal[d] EXCEPT !.status = "completed", !.paid = Money!Price(d)])
      BY <2>2 DEF PayBlogger
    <3>2. Move(d, Last("completed", Money!Price(d), w0))
      BY <2>6, <3>1, Zenon
    <3> HIDE DEF Last, w0
    <3>3. QED
      BY <2>1, <2>6, <3>2, Zenon
  <2>3. CASE RefundAdvertiser(d)
    <3>1. Move(d, Last("cancelled", 0, "staff"))
      BY <2>3 DEF RefundAdvertiser
    <3>2. 0 \in Int /\ "staff" \in Sides \cup {"none", "staff"}
      OBVIOUS
    <3> HIDE DEF Last
    <3>3. QED
      BY <3>1, <3>2, Zenon
  <2>4. ASSUME NEW part \in Int, Divide(d, part)
        PROVE  \E s \in {"completed", "cancelled"}, p \in Int, w \in Sides \cup {"none", "staff"} :
                 Move(d, Last(s, p, w))
    <3>1. Move(d, [deal[d] EXCEPT !.status = "completed", !.paid = part])
      BY <2>4 DEF Divide
    <3>2. Move(d, Last("completed", part, w0))
      BY <2>6, <3>1, Zenon
    <3> HIDE DEF Last, w0
    <3>3. QED
      BY <2>6, <3>2, Zenon
  <2> HIDE DEF Last
  <2>5. QED
    BY <2>1, <2>2, <2>3, <2>4, Zenon DEF DecideClaim
<1>2. PICK s \in {"completed", "cancelled"}, p \in Int, w \in Sides \cup {"none", "staff"} :
         Move(d, Last(s, p, w))
  BY <1>1
<1> DEFINE r == Last(s, p, w)
<1>3. r \in DealRow
  BY DealFacts, ZenonT(60) DEF DealRow, Statuses
<1>4. /\ r.status = s /\ r.approvedBy = deal[d].approvedBy
      /\ r.publishedAt = deal[d].publishedAt /\ r.pubDate = deal[d].pubDate
  BY DealFacts DEF DealRow
<1>5. /\ claim' = [claim EXCEPT ![d].status = "resolved"]
      /\ UNCHANGED <<terms, day, confirming, payList, approveList, reviewList>>
  BY DEF DecideClaim, timers
<1>6. /\ claim' \in [Deals -> ClaimRow]
      /\ claim'[d].status = "resolved"
      /\ \A e \in Deals \ {d} : claim'[e] = claim[e]
  <2> DEFINE c == [claim[d] EXCEPT !.status = "resolved"]
  <2>1. c \in ClaimRow /\ c.status = "resolved"
    BY DealFacts, ZenonT(60) DEF ClaimRow
  <2>2. claim' = [claim EXCEPT ![d] = c]
    BY <1>5
  <2> HIDE DEF c
  <2>3. QED
    BY <2>1, <2>2, DealFacts
<1>7. Move(d, r)
  BY <1>2
<1> HIDE DEF r
<1>8. Types' /\ Alone(d)
  BY <1>3, <1>6, <1>7, MoveEffect DEF Types, Alone
<1>9. RowInv(d)'
  <2>1. /\ deal'[d] = r
        /\ change'[d] # NoChange \/ termination'[d] # "none" => r.status \in Unpublished
    BY <1>3, <1>7, MoveEffect
  <2>2. ~ClaimOpen(d)'
    BY <1>6 DEF ClaimOpen
  <2>3. QED
    BY <1>4, <1>5, <2>1, <2>2, DealFacts DEF RowInv, Unpublished
<1>10. TimerTypes'
  BY <1>5, DealFacts DEF TimerTypes
<1>11. QED
  BY <1>5, <1>8, <1>9, <1>10, RowStep

LEMMA AcceptPublicationDateStep ==
  ASSUME IInv, NEW d \in Deals, NEW side \in Sides, AcceptPublicationDate(d, side)
  PROVE  IInv'
<1> DEFINE r == [deal[d] EXCEPT !.pubDate = change[d].to, !.reminderSent = FALSE,
                                !.overdueNotified = FALSE]
<1>1. change[d].to \in Nat
  BY DealFacts
<1>2. deal' = [deal EXCEPT ![d] = r] /\ change' = [change EXCEPT ![d] = NoChange]
  BY DEF AcceptPublicationDate
<1>3. r \in DealRow
  BY <1>1, DealFacts, ZenonT(60) DEF DealRow
<1>4. /\ r.status = deal[d].status /\ r.approvedBy = deal[d].approvedBy
      /\ r.publishedAt = deal[d].publishedAt
  BY DealFacts DEF DealRow
<1>5. /\ UNCHANGED <<termination, claim, terms, day, confirming, payList, approveList, reviewList>>
      /\ deal[d].status \in Unpublished
  BY DEF AcceptPublicationDate, timers
<1>6. NoChange \in [by : Sides \cup {"none"}, to : Nat]
  BY DEF NoChange, Never
<1> HIDE DEF r
<1>7. Types' /\ Alone(d) /\ TimerTypes'
  <2> HIDE DEF NoChange
  <2>1. QED
    BY <1>2, <1>3, <1>5, <1>6, DealFacts DEF Types, Alone, TimerTypes
<1>8. RowInv(d)'
  BY <1>2, <1>3, <1>4, <1>5, DealFacts DEF RowInv, ClaimOpen
<1>9. QED
  BY <1>5, <1>7, <1>8, RowStep

LEMMA ClaimSteps ==
  ASSUME IInv, NEW d \in Deals, ExplainClaim(d) \/ RequestExtraDocs(d)
  PROVE  IInv'
<1>1. /\ UNCHANGED <<deal, change, termination, terms, day>> /\ TimerTypes'
      /\ ClaimOpen(d)
  BY DealFacts DEF ExplainClaim, RequestExtraDocs, negotiation, timers, TimerTypes, ClaimOpen
<1>2. PICK c \in ClaimRow : /\ claim' = [claim EXCEPT ![d] = c]
                           /\ c.status \in {"open", "extra_docs"}
  <2>1. CASE ExplainClaim(d)
    <3> DEFINE c == [claim[d] EXCEPT !.explained = TRUE]
    <3>1. c \in ClaimRow /\ c.status = claim[d].status
      BY DealFacts, ZenonT(60) DEF ClaimRow
    <3>2. claim' = [claim EXCEPT ![d] = c]
      BY <2>1 DEF ExplainClaim
    <3> HIDE DEF c
    <3>3. QED
      BY <1>1, <3>1, <3>2 DEF ClaimOpen
  <2>2. CASE RequestExtraDocs(d)
    <3> DEFINE until == WorkingDaysAfter(day, ExtraDocsDays)
               c == [claim[d] EXCEPT !.status = "extra_docs", !.extraUntil = until]
    <3>1. until \in Nat
      BY DealFacts, DaysAssumption, WorkingDaysAfterType
    <3>2. claim' = [claim EXCEPT ![d] = c]
      BY <2>2 DEF RequestExtraDocs
    <3> HIDE DEF until
    <3>3. c \in ClaimRow /\ c.status = "extra_docs"
      BY <3>1, DealFacts, ZenonT(60) DEF ClaimRow
    <3> HIDE DEF c
    <3>4. QED
      BY <3>2, <3>3
  <2>3. QED
    BY <2>1, <2>2
<1>3. claim' \in [Deals -> ClaimRow]
  BY <1>2, DealFacts
<1>4. ASSUME NEW e \in Deals PROVE ClaimOpen(e)' = ClaimOpen(e)
  <2>1. CASE e = d
    BY <1>1, <1>2, <2>1, DealFacts DEF ClaimOpen
  <2>2. CASE e # d
    BY <1>2, <2>2, DealFacts DEF ClaimOpen
  <2>3. QED
    BY <2>1, <2>2
<1>5. QED
  BY <1>1, <1>3, <1>4, ClaimStep

LEMMA RemindClaimDecisionsStep ==
  ASSUME IInv, RemindClaimDecisions
  PROVE  IInv'
<1> DEFINE due == {d \in Deals : /\ claim[d].status = "open" /\ ~claim[d].reminded
                                 /\ WorkingDaysAfter(day, 1) >= claim[d].decideUntil}
           back == {d \in Deals : claim[d].status = "extra_docs" /\ claim[d].extraUntil <= day}
<1>1. /\ UNCHANGED <<deal, change, termination, terms, day>>
      /\ UNCHANGED <<confirming, payList, approveList, reviewList>>
      /\ claim' = [d \in Deals |->
           IF d \in due THEN [claim[d] EXCEPT !.reminded = TRUE]
           ELSE IF d \in back
           THEN [claim[d] EXCEPT !.status = "open", !.decideUntil = day, !.reminded = FALSE]
           ELSE claim[d]]
  BY DEF RemindClaimDecisions, negotiation, timers
<1>2. \A d \in due : claim[d].status = "open"
  OBVIOUS
<1>3. \A d \in back : claim[d].status = "extra_docs"
  OBVIOUS
<1> HIDE DEF due, back
<1>4. ASSUME NEW d \in Deals
      PROVE  claim'[d] \in ClaimRow /\ ClaimOpen(d)' = ClaimOpen(d)
  <2>1. CASE d \in due
    <3> DEFINE c == [claim[d] EXCEPT !.reminded = TRUE]
    <3>1. c \in ClaimRow /\ c.status = claim[d].status
      BY DealFacts, ZenonT(60) DEF ClaimRow
    <3>2. claim'[d] = c
      BY <1>1, <2>1
    <3> HIDE DEF c
    <3>3. QED
      BY <3>1, <3>2 DEF ClaimOpen
  <2>2. CASE d \notin due /\ d \in back
    <3> DEFINE c == [claim[d] EXCEPT !.status = "open", !.decideUntil = day, !.reminded = FALSE]
    <3>1. c \in ClaimRow /\ c.status = "open"
      BY DealFacts, ZenonT(60) DEF ClaimRow
    <3>2. claim'[d] = c
      BY <1>1, <2>2
    <3> HIDE DEF c
    <3>3. QED
      BY <1>3, <2>2, <3>1, <3>2 DEF ClaimOpen
  <2>3. CASE d \notin due /\ d \notin back
    BY <1>1, <2>3, DealFacts DEF ClaimOpen
  <2>4. QED
    BY <2>1, <2>2, <2>3
<1>5. claim' \in [Deals -> ClaimRow]
  <2>1. DOMAIN claim' = Deals /\ claim' = [d \in Deals |-> claim'[d]]
    BY <1>1
  <2>2. QED
    BY <1>4, <2>1
<1>6. TimerTypes'
  BY <1>1 DEF TimerTypes, IInv, TypeOK
<1>7. QED
  BY <1>1, <1>4, <1>5, <1>6, ClaimStep

(* Proposals and refusals; the timers' lists, and the flags they set.      *)
LEMMA NegotiationSteps ==
  ASSUME IInv, NEW d \in Deals, NEW side \in Sides,
         \/ ProposeTermination(d, side) \/ DeclineTermination(d, side)
         \/ \E date \in Dates : ProposePublicationDate(d, side, date)
         \/ DeclinePublicationDate(d, side)
  PROVE  IInv'
<1>1. UNCHANGED <<deal, claim, terms, day>> /\ TimerTypes'
  BY DealFacts DEF ProposeTermination, DeclineTermination, ProposePublicationDate,
                   DeclinePublicationDate, timers, TimerTypes
<1>2. PICK c \in [by : Sides \cup {"none"}, to : Nat], s \in Sides \cup {"none"} :
         /\ change' = [change EXCEPT ![d] = c] /\ termination' = [termination EXCEPT ![d] = s]
         /\ \/ c = change[d] \/ c = NoChange \/ deal[d].status \in Unpublished
         /\ \/ s = termination[d] \/ s = "none" \/ deal[d].status \in Unpublished
  <2>1. /\ change = [change EXCEPT ![d] = change[d]]
        /\ termination = [termination EXCEPT ![d] = termination[d]]
        /\ change[d] \in [by : Sides \cup {"none"}, to : Nat]
        /\ termination[d] \in Sides \cup {"none"}
    BY DealFacts
  <2>2. NoChange \in [by : Sides \cup {"none"}, to : Nat]
    BY DEF NoChange, Never
  <2>3. CASE ProposeTermination(d, side)
    BY <2>1, <2>3, Zenon DEF ProposeTermination
  <2>4. CASE DeclineTermination(d, side)
    BY <2>1, <2>4, Zenon DEF DeclineTermination
  <2>5. ASSUME NEW date \in Dates, ProposePublicationDate(d, side, date)
        PROVE  /\ [by |-> side, to |-> date] \in [by : Sides \cup {"none"}, to : Nat]
               /\ change' = [change EXCEPT ![d] = [by |-> side, to |-> date]]
               /\ termination' = termination /\ deal[d].status \in Unpublished
    BY <2>5, DaysAssumption DEF ProposePublicationDate
  <2>6. CASE DeclinePublicationDate(d, side)
    BY <2>1, <2>2, <2>6, Zenon DEF DeclinePublicationDate
  <2>7. QED
    BY <2>1, <2>3, <2>4, <2>5, <2>6, Zenon
<1> HIDE DEF NoChange
<1>3. /\ change' \in [Deals -> [by : Sides \cup {"none"}, to : Nat]]
      /\ termination' \in [Deals -> Sides \cup {"none"}]
      /\ \A e \in Deals \ {d} : change'[e] = change[e] /\ termination'[e] = termination[e]
      /\ change'[d] # NoChange \/ termination'[d] # "none" => deal[d].status \in Unpublished
  BY <1>2, DealFacts DEF RowInv
<1>4. QED
  BY <1>1, <1>3, NegotiationStep

LEMMA FlagSteps ==
  ASSUME IInv, FlagReviews \/ RemindPublications \/ NotifyOverduePublications
  PROVE  IInv'
<1>1. /\ UNCHANGED <<change, termination, claim, terms, day, confirming>>
      /\ TimerTypes' /\ day' \in 1..MaxDay
  BY DEF FlagReviews, RemindPublications, NotifyOverduePublications, negotiation, timers,
         IInv, TypeOK, TimerTypes
<1> DEFINE late(d) == [deal[d] EXCEPT !.reviewNotified = TRUE]
           soon(d) == [deal[d] EXCEPT !.reminderSent = TRUE]
           past(d) == [deal[d] EXCEPT !.overdueNotified = TRUE]
<1>2. PICK S \in SUBSET Deals :
         \/ deal' = [d \in Deals |-> IF d \in S THEN late(d) ELSE deal[d]]
         \/ deal' = [d \in Deals |-> IF d \in S THEN soon(d) ELSE deal[d]]
         \/ deal' = [d \in Deals |-> IF d \in S THEN past(d) ELSE deal[d]]
  <2>1. CASE FlagReviews
    BY <2>1 DEF FlagReviews, IInv, TypeOK
  <2>2. CASE RemindPublications
    BY <2>2 DEF RemindPublications
  <2>3. CASE NotifyOverduePublications
    BY <2>3 DEF NotifyOverduePublications
  <2>4. QED
    BY <2>1, <2>2, <2>3
<1> DEFINE Alike(r, d) ==
             /\ r \in DealRow
             /\ r.status = deal[d].status /\ r.approvedBy = deal[d].approvedBy
             /\ r.publishedAt = deal[d].publishedAt /\ r.pubDate = deal[d].pubDate
<1>3. ASSUME NEW d \in Deals
      PROVE  Alike(late(d), d) /\ Alike(soon(d), d) /\ Alike(past(d), d)
  <2>1. Alike(late(d), d)
    BY DealFacts DEF DealRow
  <2>2. Alike(soon(d), d)
    BY DealFacts DEF DealRow
  <2>3. Alike(past(d), d)
    BY DealFacts DEF DealRow
  <2>4. QED
    BY <2>1, <2>2, <2>3
<1> HIDE DEF late, soon, past
<1>4. /\ deal' \in [Deals -> DealRow]
      /\ \A d \in Deals : /\ deal'[d].status = deal[d].status
                          /\ deal'[d].approvedBy = deal[d].approvedBy
                          /\ deal'[d].publishedAt = deal[d].publishedAt
                          /\ deal'[d].pubDate = deal[d].pubDate
  <2>1. ASSUME NEW d \in Deals
        PROVE  deal'[d] = deal[d] \/ deal'[d] \in {late(d), soon(d), past(d)}
    BY <1>2
  <2>2. deal' = [d \in Deals |-> deal'[d]]
    BY <1>2
  <2>3. ASSUME NEW d \in Deals
        PROVE  Alike(deal'[d], d)
    <3>1. Alike(deal[d], d)
      BY DealFacts
    <3> HIDE DEF Alike
    <3>2. QED
      BY <1>3, <2>1, <3>1
  <2>4. QED
    BY <2>2, <2>3
<1>5. QED
  BY <1>1, <1>4, FlagStep

LEMMA IdleSteps ==
  ASSUME IInv, UNCHANGED <<deal, change, termination, claim, terms>>,
         day' \in 1..MaxDay, TimerTypes'
  PROVE  IInv'
<1>1. deal' \in [Deals -> DealRow]
  BY DEF IInv, TypeOK
<1>2. QED
  BY <1>1, FlagStep

LEMMA SettlingSteps ==
  ASSUME IInv, NEW d \in Deals,
         \/ FinishConfirmation(d) \/ ViewOverdueDeal(d) \/ PayListed(d) \/ ApproveListed(d)
  PROVE  IInv'
<1>1. day \in 1..MaxDay /\ TimerTypes
  BY DealFacts
<1>2. TimerTypes'
  <2>1. CASE FinishConfirmation(d)
    BY <1>1, <2>1 DEF FinishConfirmation, timers, TimerTypes
  <2>2. CASE ViewOverdueDeal(d)
    BY <1>1, <2>2 DEF ViewOverdueDeal, timers, TimerTypes
  <2>3. CASE PayListed(d)
    BY <1>1, <2>3 DEF PayListed, TimerTypes
  <2>4. CASE ApproveListed(d)
    <3>1. /\ UNCHANGED <<confirming, payList, reviewList>>
          /\ approveList' \subseteq approveList
      BY <2>4 DEF ApproveListed, ApproveCreative
    <3>2. QED
      BY <1>1, <3>1 DEF TimerTypes
  <2>5. QED
    BY <2>1, <2>2, <2>3, <2>4
<1>3. \/ \E actor : Complete(d, actor)
      \/ ApproveCreative(d, "system")
      \/ UNCHANGED <<deal, change, termination, claim, terms, day>>
  <2>1. CASE FinishConfirmation(d)
    BY <2>1, Zenon DEF FinishConfirmation, negotiation
  <2>2. CASE ViewOverdueDeal(d)
    BY <2>2, Zenon DEF ViewOverdueDeal
  <2>3. CASE PayListed(d)
    BY <2>3, Zenon DEF PayListed, negotiation
  <2>4. CASE ApproveListed(d)
    BY <2>4, Zenon DEF ApproveListed, negotiation
  <2>5. QED
    BY <2>1, <2>2, <2>3, <2>4
<1>4. ASSUME NEW actor, Complete(d, actor) PROVE IInv'
  BY <1>2, <1>4, CompleteStep
<1>5. CASE ApproveCreative(d, "system")
  BY <1>2, <1>5, ApproveCreativeStep
<1>6. CASE UNCHANGED <<deal, change, termination, claim, terms, day>>
  BY <1>1, <1>2, <1>6, IdleSteps
<1>7. QED
  BY <1>3, <1>4, <1>5, <1>6

LEMMA ListSteps ==
  ASSUME IInv,
         \/ \E d \in Deals : LoseConfirmation(d)
         \/ ScanPayouts \/ ScanCreatives \/ ScanReviews \/ WorkerDies \/ Tick
         \/ UNCHANGED vars
  PROVE  IInv'
<1>1. day \in 1..MaxDay /\ MaxDay \in Nat /\ TimerTypes
  BY DaysAssumption DEF IInv, TypeOK, TimerTypes
<1>2. /\ DuePayouts \subseteq Deals /\ SilentCreatives \subseteq Deals
      /\ LateReviews \subseteq Deals
  BY DEF DuePayouts, SilentCreatives, LateReviews
<1> DEFINE Idle == /\ UNCHANGED <<deal, change, termination, claim, terms>>
                   /\ day' \in 1..MaxDay /\ TimerTypes'
<1>3. ASSUME NEW d \in Deals, LoseConfirmation(d) PROVE Idle
  BY <1>1, <1>3 DEF LoseConfirmation, negotiation, timers, TimerTypes
<1>4. ASSUME ScanPayouts PROVE Idle
  BY <1>1, <1>2, <1>4 DEF ScanPayouts, List, negotiation, TimerTypes
<1>5. ASSUME ScanCreatives PROVE Idle
  BY <1>1, <1>2, <1>5 DEF ScanCreatives, List, negotiation, TimerTypes
<1>6. ASSUME ScanReviews PROVE Idle
  BY <1>1, <1>2, <1>6 DEF ScanReviews, List, negotiation, TimerTypes
<1>7. ASSUME WorkerDies PROVE Idle
  BY <1>1, <1>7 DEF WorkerDies, negotiation, TimerTypes
<1>8. ASSUME Tick PROVE Idle
  BY <1>1, <1>8 DEF Tick, negotiation, timers, TimerTypes
<1>9. ASSUME UNCHANGED vars PROVE Idle
  BY <1>1, <1>9 DEF vars, negotiation, timers, TimerTypes
<1>10. Idle
  <2> HIDE DEF Idle
  <2>1. QED
    BY <1>3, <1>4, <1>5, <1>6, <1>7, <1>8, <1>9
<1>11. QED
  BY <1>10, IdleSteps

LEMMA DealStepIInv ==
  ASSUME IInv, NEW d \in Deals, DealStep(d)
  PROVE  IInv'
<1>1. CASE AdvertiserApproves(d)
  <2>1. ApproveCreative(d, "advertiser") /\ TimerTypes'
    <3>1. UNCHANGED <<confirming, payList, approveList, reviewList>>
      BY <1>1 DEF AdvertiserApproves, ApproveCreative, timers
    <3>2. QED
      BY <1>1, <3>1, DealFacts DEF AdvertiserApproves, TimerTypes
  <2>2. QED
    BY <2>1, ApproveCreativeStep
<1>2. QED
  BY <1>1, SendOfferStep, CloseOfferStep, CreateDealStep, SubmitCreativeStep,
     RejectCreativeStep, SubmitPublicationStep, ConfirmPublicationStep, SettlingSteps,
     ListSteps, ClaimSteps, DecideClaimStep, CancelSteps
  DEF DealStep

LEMMA SideStepIInv ==
  ASSUME IInv, NEW d \in Deals, NEW side \in Sides, SideStep(d, side)
  PROVE  IInv'
  BY OpenClaimStep, CancelSteps, NegotiationSteps, AcceptPublicationDateStep DEF SideStep

LEMMA InitIInv == Init => IInv
<1> SUFFICES ASSUME Init PROVE IInv
  OBVIOUS
<1>1. terms \in [Deals -> Terms]
  BY DEF Init, Money!Init
<1>2. NewDeal \in DealRow /\ NewDeal.status = "unsent" /\ NewDeal.publishedAt = Never
      /\ NewDeal.approvedBy = "none"
  BY DaysAssumption DEF NewDeal, DealRow, Statuses, Never, BlankPaid
<1>3. NoClaim \in ClaimRow /\ NoClaim.status = "none"
  BY DEF NoClaim, ClaimRow, Never
<1>4. NoChange \in [by : Sides \cup {"none"}, to : Nat]
  BY DEF NoChange, Never
<1> HIDE DEF NewDeal, NoClaim, NoChange
<1>5. /\ deal = [d \in Deals |-> NewDeal]
      /\ change = [d \in Deals |-> NoChange]
      /\ termination = [d \in Deals |-> "none"]
      /\ claim = [d \in Deals |-> NoClaim]
  BY DEF Init
<1>6. TypeOK
  BY <1>2, <1>3, <1>4, DaysAssumption DEF Init, TypeOK
<1>7. ASSUME NEW d \in Deals PROVE RowInv(d)
  BY <1>2, <1>3, <1>5 DEF RowInv, ClaimOpen
<1>8. QED
  BY <1>1, <1>6, <1>7 DEF IInv

LEMMA NextIInv == IInv /\ [Next]_vars => IInv'
<1> SUFFICES ASSUME IInv, [Next]_vars PROVE IInv'
  OBVIOUS
<1>1. CASE TimerStep
  BY <1>1, ListSteps, FlagSteps, RemindClaimDecisionsStep DEF TimerStep
<1>2. CASE UNCHANGED vars
  BY <1>2, ListSteps
<1>3. QED
  BY <1>1, <1>2, DealStepIInv, SideStepIInv DEF Next

-----------------------------------------------------------------------------
(* The properties, for every number of deals and every calendar.           *)

LEMMA Inductive == Spec => []IInv
  BY InitIInv, NextIInv, PTL DEF Spec

(* Whatever the handlers and timers do, the rows stay rows of the models:  *)
(* no deal gets a status that deals/services.py has no way on from.        *)
THEOREM DealTypes == Spec => []TypeOK
<1>1. IInv => TypeOK
  BY DEF IInv
<1>2. QED
  BY <1>1, Inductive, PTL

(* open_claim, resolve_claim and remind_claim_decisions keep the status of *)
(* the deal and that of its claim together.                                *)
THEOREM ClaimAndDealAgree == Spec => []DisputedIffOpenClaim
<1>1. IInv => DisputedIffOpenClaim
  BY DEF IInv, RowInv, DisputedIffOpenClaim
<1>2. QED
  BY <1>1, Inductive, PTL

(* Neither auto_approve nor submit_publication publishes what the          *)
(* advertiser had to approve and did not.                                  *)
THEOREM ApprovalIsTheAdvertisers == Spec => []SilenceIsNotConsent
<1>1. IInv => SilenceIsNotConsent
  BY DEF IInv, RowInv, SilenceIsNotConsent
<1>2. QED
  BY <1>1, Inductive, PTL

(* _move closes the proposals, and none is made after it.                  *)
THEOREM ProposalsEndInTime == Spec => []NoStaleProposal
<1>1. IInv => NoStaleProposal
  BY DEF IInv, RowInv, NoStaleProposal
<1>2. QED
  BY <1>1, Inductive, PTL

(* submit_publication and accept_publication_date together keep the        *)
(* publication on or after the date in force.                              *)
THEOREM AgreedDateIsKept == Spec => []NotBeforeAgreedDate
<1>1. IInv => NotBeforeAgreedDate
  BY DEF IInv, RowInv, NotBeforeAgreedDate
<1>2. QED
  BY <1>1, Inductive, PTL
=============================================================================
