--------------------------- MODULE DealsMoneyProofs ---------------------------
(***************************************************************************)
(* What every step of Deals does to the money, the dates and the notices   *)
(* of its deals, and what follows: the deals implement Escrow, payments    *)
(* are neither early nor made past a claim, nobody leaves a deal alone,    *)
(* and the outcome, the money and the notices agree.                       *)
(***************************************************************************)
EXTENDS DealsProofs, FiniteSetTheorems

-----------------------------------------------------------------------------
(* The kinds of steps.  A step writes the row of one deal, or flags.       *)
Rewritten(d, r) ==
  /\ r \in DealRow
  /\ deal' = [deal EXCEPT ![d] = r]
  /\ UNCHANGED <<day, terms>>

SameNotices(d, r) ==
  /\ r.reminderSent = deal[d].reminderSent
  /\ r.overdueNotified = deal[d].overdueNotified

Goes(d, from, to, paid) ==
  /\ deal[d].status \in from
  /\ \E r : /\ Rewritten(d, r) /\ SameNotices(d, r)
            /\ r.status = to /\ r.paid = paid /\ r.pubDate = deal[d].pubDate
            /\ r.publishedAt \in {deal[d].publishedAt, day}

Opened(d) ==
  /\ deal[d].status = "unsent"
  /\ \E r : /\ Rewritten(d, r) /\ SameNotices(d, r)
            /\ r.status = "offered" /\ r.paid = deal[d].paid
            /\ r.publishedAt = deal[d].publishedAt
  /\ IF terms[d].reservedAtOffer THEN Money!ReserveForOffer(d) ELSE UNCHANGED money

Lapsed(d) ==
  /\ Goes(d, {"offered"}, "lapsed", deal[d].paid)
  /\ IF terms[d].reservedAtOffer THEN Money!Release(d) ELSE UNCHANGED money

Concluded(d) ==
  /\ Goes(d, {"offered"}, "in_progress", deal[d].paid)
  /\ IF terms[d].reservedAtOffer THEN UNCHANGED money ELSE Money!ReserveFunds(d)

Advanced(d) ==
  /\ \E to \in Running : Goes(d, Running, to, deal[d].paid)
  /\ UNCHANGED money

Paid(d) ==
  /\ PayoutDue(d) <= day \/ (~Package(d) /\ confirming[d] = "advertiser")
  /\ Goes(d, {"checking"}, "completed", deal[d].paid)
  /\ Money!CompleteDealPayment(d)

Decided(d) ==
  /\ claim'[d].status = "resolved"
  /\ \/ /\ Goes(d, {"disputed"}, "completed", Money!Price(d))
        /\ Money!CompleteDealPayment(d)
     \/ /\ Goes(d, {"disputed"}, "cancelled", 0)
        /\ deal'[d].cancelledBy = "staff"
        /\ Money!Release(d)
     \/ \E part \in Int : /\ Goes(d, {"disputed"}, "completed", part)
                          /\ Money!SplitDealPayment(d, part)

Agreed(d) ==
  /\ termination[d] # "none" /\ deal'[d].cancelledBy = Other(termination[d])
  /\ Goes(d, Unpublished, "cancelled", 0)
  /\ Money!RefundMinusCommission(d)

Cancelled(d) ==
  /\ ~Package(d)
  /\ Goes(d, Unpublished, "cancelled", deal[d].paid)
  /\ Money!Release(d)

Redated(d) ==
  /\ \E r : /\ Rewritten(d, r)
            /\ r.status = deal[d].status /\ r.paid = deal[d].paid
            /\ r.publishedAt = deal[d].publishedAt
            /\ ~r.reminderSent /\ ~r.overdueNotified
  /\ UNCHANGED money

Noted ==
  /\ \A d \in Deals :
       /\ deal'[d].status = deal[d].status /\ deal'[d].paid = deal[d].paid
       /\ deal'[d].pubDate = deal[d].pubDate /\ deal'[d].publishedAt = deal[d].publishedAt
       /\ deal'[d].reminderSent =>
            deal[d].reminderSent \/ (deal[d].status # "unsent" /\ deal[d].pubDate = day + 1)
       /\ deal'[d].overdueNotified =>
            deal[d].overdueNotified \/ (deal[d].status # "unsent" /\ deal[d].pubDate < day)
  /\ UNCHANGED <<day, terms, money>>

Elapsed ==
  /\ day' = day + 1
  /\ UNCHANGED <<deal, terms, money>>

-----------------------------------------------------------------------------
(* Handlers that leave the money alone.                                    *)
LEMMA AdvancingSteps ==
  ASSUME IInv, NEW d \in Deals,
         \/ SubmitCreative(d) \/ RejectCreative(d) \/ SubmitPublication(d) \/ ConfirmPublication(d)
         \/ \E actor \in {"system", "advertiser"} : ApproveCreative(d, actor)
         \/ \E side \in Sides, subject \in Subjects : OpenClaim(d, side, subject)
  PROVE  Advanced(d)
<1>1. deal \in [Deals -> DealRow] /\ deal[d] \in DealRow /\ day \in Nat /\ MaxSubmissions \in Nat
  BY DealFacts, DaysAssumption
<1> DEFINE Row(r, to) ==
             /\ r \in DealRow /\ deal' = [deal EXCEPT ![d] = r]
             /\ r.reminderSent = deal[d].reminderSent /\ r.overdueNotified = deal[d].overdueNotified
             /\ r.status = to /\ r.paid = deal[d].paid /\ r.pubDate = deal[d].pubDate
             /\ r.publishedAt \in {deal[d].publishedAt, day}
<1>2. ASSUME NEW r, NEW to \in Running, Row(r, to), deal[d].status \in Running,
             UNCHANGED <<day, terms, money>>
      PROVE  Advanced(d)
  <2>1. Goes(d, Running, to, deal[d].paid)
    BY <1>2 DEF Goes, Rewritten, SameNotices
  <2>2. QED
    BY <1>2, <2>1 DEF Advanced
<1>3. {"on_approval", "in_progress", "waiting_publication", "checking", "disputed"} \subseteq Running
  BY DEF Running, Claimable, Unpublished
<1>4. CASE SubmitCreative(d)
  <2> DEFINE n == IF deal[d].submissions < MaxSubmissions
                  THEN deal[d].submissions + 1 ELSE deal[d].submissions
             r == [deal[d] EXCEPT !.status = "on_approval", !.submittedAt = day,
                                  !.submissions = n, !.reviewNotified = FALSE]
  <2>1. n \in 0..MaxSubmissions
    BY <1>1 DEF DealRow
  <2>2. deal' = [deal EXCEPT ![d] = r] /\ deal[d].status \in Running
    BY <1>3, <1>4 DEF SubmitCreative, Move
  <2> HIDE DEF n
  <2>3. r \in DealRow
    BY <1>1, <2>1, ZenonT(60) DEF DealRow, Statuses, Running, Claimable, Unpublished
  <2>4. /\ r.reminderSent = deal[d].reminderSent /\ r.overdueNotified = deal[d].overdueNotified
        /\ r.status = "on_approval" /\ r.paid = deal[d].paid /\ r.pubDate = deal[d].pubDate
        /\ r.publishedAt = deal[d].publishedAt
    BY <1>1 DEF DealRow
  <2> HIDE DEF r
  <2>5. QED
    BY <1>2, <1>3, <1>4, <2>2, <2>3, <2>4 DEF SubmitCreative
<1>5. CASE RejectCreative(d)
  <2> DEFINE r == [deal[d] EXCEPT !.status = "in_progress"]
  <2>1. deal' = [deal EXCEPT ![d] = r] /\ deal[d].status \in Running
    BY <1>3, <1>5 DEF RejectCreative, Move
  <2>2. r \in DealRow
    BY <1>1, ZenonT(60) DEF DealRow, Statuses, Running, Claimable, Unpublished
  <2>3. /\ r.reminderSent = deal[d].reminderSent /\ r.overdueNotified = deal[d].overdueNotified
        /\ r.status = "in_progress" /\ r.paid = deal[d].paid /\ r.pubDate = deal[d].pubDate
        /\ r.publishedAt = deal[d].publishedAt
    BY <1>1 DEF DealRow
  <2> HIDE DEF r
  <2>4. QED
    BY <1>2, <1>3, <1>5, <2>1, <2>2, <2>3 DEF RejectCreative
<1>6. CASE SubmitPublication(d)
  <2> DEFINE r == [deal[d] EXCEPT !.status = "checking", !.publishedAt = day]
  <2>1. deal' = [deal EXCEPT ![d] = r] /\ deal[d].status \in Running
    BY <1>3, <1>6 DEF SubmitPublication, Move
  <2>2. r \in DealRow
    BY <1>1, ZenonT(60) DEF DealRow, Statuses, Running, Claimable, Unpublished
  <2>3. /\ r.reminderSent = deal[d].reminderSent /\ r.overdueNotified = deal[d].overdueNotified
        /\ r.status = "checking" /\ r.paid = deal[d].paid /\ r.pubDate = deal[d].pubDate
        /\ r.publishedAt = day
    BY <1>1 DEF DealRow
  <2> HIDE DEF r
  <2>4. QED
    BY <1>2, <1>3, <1>6, <2>1, <2>2, <2>3 DEF SubmitPublication
<1>7. CASE ConfirmPublication(d)
  <2> DEFINE r == [deal[d] EXCEPT !.accepted = Package(d)]
  <2>1. deal' = [deal EXCEPT ![d] = r] /\ deal[d].status = "checking" /\ Package(d) \in BOOLEAN
    BY <1>7 DEF ConfirmPublication, Package
  <2> HIDE DEF Package
  <2>2. r \in DealRow
    BY <1>1, <2>1, ZenonT(60) DEF DealRow
  <2>3. /\ r.reminderSent = deal[d].reminderSent /\ r.overdueNotified = deal[d].overdueNotified
        /\ r.status = "checking" /\ r.paid = deal[d].paid /\ r.pubDate = deal[d].pubDate
        /\ r.publishedAt = deal[d].publishedAt
    BY <1>1, <2>1 DEF DealRow
  <2> HIDE DEF r
  <2>4. QED
    BY <1>2, <1>3, <1>7, <2>1, <2>2, <2>3 DEF ConfirmPublication
<1>8. ASSUME NEW actor \in {"system", "advertiser"}, ApproveCreative(d, actor)
      PROVE  Advanced(d)
  <2> DEFINE r == [deal[d] EXCEPT !.status = "waiting_publication", !.approvedBy = actor]
  <2>1. deal' = [deal EXCEPT ![d] = r] /\ deal[d].status \in Running
    BY <1>3, <1>8 DEF ApproveCreative, Move
  <2>2. r \in DealRow
    BY <1>1, ZenonT(60) DEF DealRow, Statuses, Running, Claimable, Unpublished
  <2>3. /\ r.reminderSent = deal[d].reminderSent /\ r.overdueNotified = deal[d].overdueNotified
        /\ r.status = "waiting_publication" /\ r.paid = deal[d].paid /\ r.pubDate = deal[d].pubDate
        /\ r.publishedAt = deal[d].publishedAt
    BY <1>1 DEF DealRow
  <2> HIDE DEF r
  <2>4. QED
    BY <1>2, <1>3, <1>8, <2>1, <2>2, <2>3 DEF ApproveCreative
<1>9. ASSUME NEW side \in Sides, NEW subject \in Subjects, OpenClaim(d, side, subject)
      PROVE  Advanced(d)
  <2> DEFINE r == [deal[d] EXCEPT !.status = "disputed"]
  <2>1. deal' = [deal EXCEPT ![d] = r] /\ deal[d].status \in Running
    BY <1>9 DEF OpenClaim, Move, Running
  <2>2. r \in DealRow
    BY <1>1, ZenonT(60) DEF DealRow, Statuses, Running
  <2>3. /\ r.reminderSent = deal[d].reminderSent /\ r.overdueNotified = deal[d].overdueNotified
        /\ r.status = "disputed" /\ r.paid = deal[d].paid /\ r.pubDate = deal[d].pubDate
        /\ r.publishedAt = deal[d].publishedAt
    BY <1>1 DEF DealRow
  <2> HIDE DEF r
  <2>4. QED
    BY <1>2, <1>3, <1>9, <2>1, <2>2, <2>3 DEF OpenClaim
<1>10. QED
  BY <1>4, <1>5, <1>6, <1>7, <1>8, <1>9

(* The offer and the conclusion of the deal.                               *)
LEMMA OfferSteps ==
  ASSUME IInv, NEW d \in Deals
  PROVE  /\ SendOffer(d) => Opened(d)
         /\ CloseOffer(d) => Lapsed(d)
         /\ CreateDeal(d) => Concluded(d)
<1>1. deal \in [Deals -> DealRow] /\ deal[d] \in DealRow /\ day \in Nat
  BY DealFacts
<1>2. ASSUME SendOffer(d) PROVE Opened(d)
  <2>1. PICK date \in Dates \cup {Never} :
           deal' = [deal EXCEPT ![d] = [@ EXCEPT !.status = "offered", !.pubDate = date]]
    BY <1>2 DEF SendOffer
  <2> DEFINE r == [deal[d] EXCEPT !.status = "offered", !.pubDate = date]
  <2>2. date \in Nat
    BY DaysAssumption DEF Never
  <2>3. r \in DealRow /\ deal' = [deal EXCEPT ![d] = r]
    BY <1>1, <2>1, <2>2, ZenonT(60) DEF DealRow, Statuses
  <2>4. /\ r.reminderSent = deal[d].reminderSent /\ r.overdueNotified = deal[d].overdueNotified
        /\ r.status = "offered" /\ r.paid = deal[d].paid /\ r.publishedAt = deal[d].publishedAt
    BY <1>1 DEF DealRow
  <2> HIDE DEF r
  <2>5. Rewritten(d, r) /\ SameNotices(d, r)
    BY <1>2, <2>3, <2>4 DEF SendOffer, Rewritten, SameNotices
  <2>6. deal[d].status = "unsent"
    BY <1>2 DEF SendOffer
  <2>7. IF terms[d].reservedAtOffer THEN Money!ReserveForOffer(d) ELSE UNCHANGED money
    BY <1>2 DEF SendOffer
  <2>8. QED
    BY <2>4, <2>5, <2>6, <2>7, Zenon DEF Opened
<1>3. ASSUME CloseOffer(d) PROVE Lapsed(d)
  <2> DEFINE r == [deal[d] EXCEPT !.status = "lapsed"]
  <2>1. r \in DealRow /\ deal' = [deal EXCEPT ![d] = r]
    BY <1>1, <1>3, ZenonT(60) DEF CloseOffer, DealRow, Statuses
  <2>2. /\ r.reminderSent = deal[d].reminderSent /\ r.overdueNotified = deal[d].overdueNotified
        /\ r.status = "lapsed" /\ r.paid = deal[d].paid /\ r.pubDate = deal[d].pubDate
        /\ r.publishedAt = deal[d].publishedAt
    BY <1>1 DEF DealRow
  <2> HIDE DEF r
  <2>3. deal[d].status = "offered" /\ Rewritten(d, r)
    BY <1>3, <2>1 DEF CloseOffer, Rewritten
  <2>4. Goes(d, {"offered"}, "lapsed", deal[d].paid)
    BY <2>2, <2>3 DEF Goes, SameNotices
  <2>5. IF terms[d].reservedAtOffer THEN Money!Release(d) ELSE UNCHANGED money
    BY <1>3 DEF CloseOffer
  <2>6. QED
    BY <2>4, <2>5, Zenon DEF Lapsed
<1>4. ASSUME CreateDeal(d) PROVE Concluded(d)
  <2> DEFINE r == [deal[d] EXCEPT !.status = "in_progress"]
  <2>1. r \in DealRow
    BY <1>1, ZenonT(60) DEF DealRow, Statuses, Running, Claimable, Unpublished
  <2>2. /\ r.reminderSent = deal[d].reminderSent /\ r.overdueNotified = deal[d].overdueNotified
        /\ r.status = "in_progress" /\ r.paid = deal[d].paid /\ r.pubDate = deal[d].pubDate
        /\ r.publishedAt = deal[d].publishedAt
    BY <1>1 DEF DealRow
  <2>3. deal' = [deal EXCEPT ![d] = r]
    BY <1>4 DEF CreateDeal, Move
  <2> HIDE DEF r
  <2>4. deal[d].status = "offered" /\ Rewritten(d, r)
    BY <1>4, <2>1, <2>3 DEF CreateDeal, Rewritten
  <2>5. Goes(d, {"offered"}, "in_progress", deal[d].paid)
    BY <2>2, <2>4 DEF Goes, SameNotices
  <2>6. IF terms[d].reservedAtOffer THEN UNCHANGED money ELSE Money!ReserveFunds(d)
    BY <1>4 DEF CreateDeal
  <2>7. QED
    BY <2>5, <2>6, Zenon DEF Concluded
<1>5. QED
  BY <1>2, <1>3, <1>4

(* A deal that ends is moved by _move to its last row.                     *)
LEMMA LastRow ==
  ASSUME IInv, NEW d \in Deals, NEW from, deal[d].status \in from,
         NEW to \in {"completed", "cancelled"}, NEW paid \in Int,
         NEW who \in Sides \cup {"none", "staff"},
         Move(d, [deal[d] EXCEPT !.status = to, !.paid = paid, !.cancelledBy = who]),
         UNCHANGED <<day, terms>>
  PROVE  Goes(d, from, to, paid) /\ deal'[d].cancelledBy = who
<1>1. deal \in [Deals -> DealRow] /\ deal[d] \in DealRow /\ day \in Nat
  BY DealFacts
<1> DEFINE r == [deal[d] EXCEPT !.status = to, !.paid = paid, !.cancelledBy = who]
<1>2. r \in DealRow
  BY <1>1, ZenonT(60) DEF DealRow, Statuses
<1>3. /\ r.reminderSent = deal[d].reminderSent /\ r.overdueNotified = deal[d].overdueNotified
      /\ r.status = to /\ r.paid = paid /\ r.pubDate = deal[d].pubDate
      /\ r.publishedAt = deal[d].publishedAt /\ r.cancelledBy = who
  BY <1>1 DEF DealRow
<1>4. deal' = [deal EXCEPT ![d] = r]
  BY DEF Move
<1> HIDE DEF r
<1>5. Rewritten(d, r) /\ deal'[d] = r
  BY <1>1, <1>2, <1>4 DEF Rewritten
<1>6. QED
  BY <1>3, <1>5 DEF Goes, SameNotices

(* complete and the cancellation by one side do not touch paid_amount; a   *)
(* deal that is paid keeps its cancelledBy.                                *)
LEMMA SameFields ==
  ASSUME IInv, NEW d \in Deals
  PROVE  /\ deal[d].paid \in Int /\ deal[d].cancelledBy \in Sides \cup {"none", "staff"}
         /\ [deal[d] EXCEPT !.status = "completed"]
              = [deal[d] EXCEPT !.status = "completed", !.paid = deal[d].paid,
                                !.cancelledBy = deal[d].cancelledBy]
         /\ \A p : [deal[d] EXCEPT !.status = "completed", !.paid = p]
              = [deal[d] EXCEPT !.status = "completed", !.paid = p,
                                !.cancelledBy = deal[d].cancelledBy]
         /\ [deal[d] EXCEPT !.status = "cancelled", !.cancelledBy = "advertiser"]
              = [deal[d] EXCEPT !.status = "cancelled", !.paid = deal[d].paid,
                                !.cancelledBy = "advertiser"]
<1>1. deal[d] \in DealRow
  BY DealFacts
<1>2. deal[d].paid \in Int /\ deal[d].cancelledBy \in Sides \cup {"none", "staff"}
  BY <1>1 DEF DealRow
<1>3. [deal[d] EXCEPT !.status = "completed"]
        = [deal[d] EXCEPT !.status = "completed", !.paid = deal[d].paid,
                          !.cancelledBy = deal[d].cancelledBy]
  BY <1>1 DEF DealRow
<1>4. ASSUME NEW p
      PROVE  [deal[d] EXCEPT !.status = "completed", !.paid = p]
               = [deal[d] EXCEPT !.status = "completed", !.paid = p,
                                 !.cancelledBy = deal[d].cancelledBy]
  BY <1>1 DEF DealRow
<1>5. [deal[d] EXCEPT !.status = "cancelled", !.cancelledBy = "advertiser"]
        = [deal[d] EXCEPT !.status = "cancelled", !.paid = deal[d].paid,
                          !.cancelledBy = "advertiser"]
  BY <1>1 DEF DealRow
<1>6. QED
  BY <1>2, <1>3, <1>4, <1>5, Zenon

(* The side that accepts the request of the other.                         *)
LEMMA OtherSide ==
  ASSUME NEW side \in Sides
  PROVE  Other(side) \in Sides /\ Other(side) # side /\ Other(Other(side)) = side
<1>1. ASSUME NEW x \in Sides PROVE Other(x) \in Sides /\ Other(x) # x
  <2>1. \E y \in Sides : y # x
    BY DEF Sides
  <2>2. QED
    BY <2>1 DEF Other
<1>2. Other(side) \in Sides /\ Other(side) # side
  BY <1>1
<1>3. Other(Other(side)) \in Sides /\ Other(Other(side)) # Other(side)
  BY <1>1, <1>2
<1>4. QED
  BY <1>2, <1>3 DEF Sides

LEMMA EndingSteps ==
  ASSUME IInv, NEW d \in Deals
  PROVE  /\ \A actor \in {"advertiser", "system"} :
              Complete(d, actor) /\ (actor = "advertiser" => confirming[d] = "advertiser") => Paid(d)
         /\ DecideClaim(d) => Decided(d)
         /\ \A side \in Sides : AcceptTermination(d, side) => Agreed(d)
         /\ Cancel(d) => Cancelled(d)
<1>1. ASSUME NEW actor \in {"advertiser", "system"}, Complete(d, actor),
             actor = "advertiser" => confirming[d] = "advertiser"
      PROVE  Paid(d)
  <2>1. /\ deal[d].status \in {"checking"} /\ UNCHANGED <<day, terms>>
        /\ Move(d, [deal[d] EXCEPT !.status = "completed"])
        /\ PayoutDue(d) <= day \/ (~Package(d) /\ confirming[d] = "advertiser")
        /\ Money!CompleteDealPayment(d)
    <3>1. deal[d].status \in {"checking"}
      BY <1>1 DEF Complete, MayComplete
    <3>2. UNCHANGED <<day, terms>>
      BY <1>1 DEF Complete
    <3>3. PayoutDue(d) <= day \/ (~Package(d) /\ confirming[d] = "advertiser")
      BY <1>1 DEF Complete, MayComplete
    <3>4. QED
      BY <1>1, <3>1, <3>2, <3>3, Zenon DEF Complete
  <2>2. Move(d, [deal[d] EXCEPT !.status = "completed", !.paid = deal[d].paid,
                                !.cancelledBy = deal[d].cancelledBy])
    BY <2>1, SameFields, Zenon
  <2>3. Goes(d, {"checking"}, "completed", deal[d].paid)
    BY <2>1, <2>2, LastRow, SameFields
  <2>4. QED
    BY <2>1, <2>3, Zenon DEF Paid
<1>2. ASSUME DecideClaim(d) PROVE Decided(d)
  <2>1. /\ deal[d].status \in {"disputed"} /\ UNCHANGED <<day, terms>>
        /\ claim'[d].status = "resolved"
    <3>1. claim' = [claim EXCEPT ![d].status = "resolved"] /\ claim \in [Deals -> ClaimRow]
      BY <1>2, DealFacts DEF DecideClaim
    <3>2. claim'[d].status = "resolved"
      BY <3>1 DEF ClaimRow
    <3>3. QED
      BY <1>2, <3>2 DEF DecideClaim
  <2>2. /\ Money!Price(d) \in Int
        /\ Compensation(d) \in Int
        /\ \A part \in Parts : part \in Int
    BY CompensationType, DaysAssumption DEF IInv
  <2>3. CASE PayBlogger(d)
    <3>1. /\ Money!CompleteDealPayment(d)
          /\ Move(d, [deal[d] EXCEPT !.status = "completed", !.paid = Money!Price(d)])
      BY <2>3 DEF PayBlogger
    <3>4. Move(d, [deal[d] EXCEPT !.status = "completed", !.paid = Money!Price(d),
                                  !.cancelledBy = deal[d].cancelledBy])
      BY <3>1, SameFields, Zenon
    <3>2. Goes(d, {"disputed"}, "completed", Money!Price(d))
      BY <2>1, <2>2, <3>4, LastRow, SameFields
    <3>3. QED
      BY <2>1, <3>1, <3>2, Zenon DEF Decided
  <2>4. CASE RefundAdvertiser(d)
    <3>1. /\ Money!Release(d)
          /\ Move(d, [deal[d] EXCEPT !.status = "cancelled", !.paid = 0, !.cancelledBy = "staff"])
      BY <2>4 DEF RefundAdvertiser
    <3>2. 0 \in Int /\ "cancelled" \in {"completed", "cancelled"}
          /\ "staff" \in Sides \cup {"none", "staff"}
      OBVIOUS
    <3>3. Goes(d, {"disputed"}, "cancelled", 0) /\ deal'[d].cancelledBy = "staff"
      BY <2>1, <3>1, <3>2, LastRow, Zenon
    <3>4. QED
      BY <2>1, <3>1, <3>3, Zenon DEF Decided
  <2>5. ASSUME NEW part \in Int, Divide(d, part)
        PROVE  Decided(d)
    <3>1. /\ Money!SplitDealPayment(d, part)
          /\ Move(d, [deal[d] EXCEPT !.status = "completed", !.paid = part])
      BY <2>5 DEF Divide
    <3>4. Move(d, [deal[d] EXCEPT !.status = "completed", !.paid = part,
                                  !.cancelledBy = deal[d].cancelledBy])
      BY <3>1, SameFields, Zenon
    <3>2. Goes(d, {"disputed"}, "completed", part)
      BY <2>1, <3>4, LastRow, SameFields
    <3>3. QED
      BY <2>1, <3>1, <3>2, Zenon DEF Decided
  <2>6. QED
    BY <1>2, <2>2, <2>3, <2>4, <2>5, Zenon DEF DecideClaim
<1>3. ASSUME NEW side \in Sides, AcceptTermination(d, side)
      PROVE  Agreed(d)
  <2>1. /\ termination[d] = Other(side) /\ deal[d].status \in Unpublished /\ UNCHANGED <<day, terms>>
        /\ Money!RefundMinusCommission(d)
        /\ Move(d, [deal[d] EXCEPT !.status = "cancelled", !.paid = 0, !.cancelledBy = side])
    BY <1>3 DEF AcceptTermination
  <2>2. termination[d] # "none" /\ side = Other(termination[d])
    BY <2>1, OtherSide DEF Sides
  <2>3. 0 \in Int /\ "cancelled" \in {"completed", "cancelled"}
        /\ side \in Sides \cup {"none", "staff"}
    OBVIOUS
  <2>4. Goes(d, Unpublished, "cancelled", 0) /\ deal'[d].cancelledBy = side
    BY <2>1, <2>3, LastRow, Zenon
  <2>5. QED
    BY <2>1, <2>2, <2>4, Zenon DEF Agreed
<1>4. ASSUME Cancel(d) PROVE Cancelled(d)
  <2>1. /\ ~Package(d) /\ deal[d].status \in Unpublished /\ UNCHANGED <<day, terms>>
        /\ Move(d, [deal[d] EXCEPT !.status = "cancelled", !.cancelledBy = "advertiser"])
        /\ Money!Release(d)
    BY <1>4 DEF Cancel, Unpublished
  <2>2. Move(d, [deal[d] EXCEPT !.status = "cancelled", !.paid = deal[d].paid,
                                !.cancelledBy = "advertiser"])
    BY <2>1, SameFields, Zenon
  <2>3. /\ deal[d].paid \in Int
        /\ "advertiser" \in Sides \cup {"none", "staff"}
        /\ "cancelled" \in {"completed", "cancelled"}
    BY SameFields DEF Sides
  <2>5. Goes(d, Unpublished, "cancelled", deal[d].paid)
    BY <2>1, <2>2, <2>3, LastRow, Zenon
  <2>4. QED
    BY <2>1, <2>5, Zenon DEF Cancelled
<1>5. QED
  BY <1>1, <1>2, <1>3, <1>4

LEMMA RedatingStep ==
  ASSUME IInv, NEW d \in Deals, NEW side \in Sides, AcceptPublicationDate(d, side)
  PROVE  Redated(d)
<1>1. deal \in [Deals -> DealRow] /\ deal[d] \in DealRow /\ change[d].to \in Nat
  BY DealFacts
<1> DEFINE r == [deal[d] EXCEPT !.pubDate = change[d].to, !.reminderSent = FALSE,
                                !.overdueNotified = FALSE]
<1>2. r \in DealRow
  BY <1>1, ZenonT(60) DEF DealRow
<1>3. /\ ~r.reminderSent /\ ~r.overdueNotified
      /\ r.status = deal[d].status /\ r.paid = deal[d].paid
      /\ r.publishedAt = deal[d].publishedAt
  BY <1>1 DEF DealRow
<1>4. deal' = [deal EXCEPT ![d] = r]
  BY DEF AcceptPublicationDate
<1> HIDE DEF r
<1>5. UNCHANGED money /\ Rewritten(d, r)
  BY <1>2, <1>4 DEF AcceptPublicationDate, Rewritten
<1>6. QED
  BY <1>3, <1>5 DEF Redated

LEMMA StayingStep ==
  ASSUME UNCHANGED <<deal, day, terms, money>>
  PROVE  Noted
  BY DEF Noted

LEMMA NotingSteps ==
  ASSUME IInv, FlagReviews \/ RemindPublications \/ NotifyOverduePublications
  PROVE  Noted
<1>1. /\ deal \in [Deals -> DealRow] /\ day \in Nat /\ reviewList \subseteq Deals
      /\ UNCHANGED <<day, terms, money>>
  BY DaysAssumption DEF IInv, TypeOK, FlagReviews, RemindPublications, NotifyOverduePublications
<1>2. CASE FlagReviews
  <2>1. \A d \in Deals : deal'[d] = IF d \in reviewList
                                    THEN [deal[d] EXCEPT !.reviewNotified = TRUE] ELSE deal[d]
    BY <1>2 DEF FlagReviews
  <2>2. QED
    BY <1>1, <2>1 DEF Noted, DealRow
<1>3. CASE RemindPublications
  <2> DEFINE tomorrow == {d \in Deals : /\ deal[d].status \in Unpublished
                                        /\ deal[d].pubDate = day + 1 /\ ~deal[d].reminderSent}
  <2>1. \A d \in Deals : deal'[d] = IF d \in tomorrow
                                    THEN [deal[d] EXCEPT !.reminderSent = TRUE] ELSE deal[d]
    BY <1>3 DEF RemindPublications
  <2>2. QED
    BY <1>1, <2>1 DEF Noted, DealRow, Unpublished
<1>4. CASE NotifyOverduePublications
  <2> DEFINE overdue == {d \in Deals : /\ deal[d].status \in {"in_progress", "waiting_publication"}
                                       /\ deal[d].pubDate \in 1..(day - 1) /\ ~deal[d].overdueNotified}
  <2>1. \A d \in overdue : deal[d].status # "unsent" /\ deal[d].pubDate < day
    BY <1>1
  <2>2. \A d \in Deals : deal'[d] = IF d \in overdue
                                    THEN [deal[d] EXCEPT !.overdueNotified = TRUE] ELSE deal[d]
    BY <1>4 DEF NotifyOverduePublications
  <2> HIDE DEF overdue
  <2>3. QED
    BY <1>1, <2>1, <2>2 DEF Noted, DealRow
<1>5. QED
  BY <1>2, <1>3, <1>4

(* Timers, page views and the second half of a confirmation.               *)
LEMMA SystemSteps ==
  ASSUME IInv, NEW d \in Deals,
         \/ FinishConfirmation(d) \/ ViewOverdueDeal(d) \/ PayListed(d) \/ ApproveListed(d)
  PROVE  Paid(d) \/ Advanced(d) \/ Noted
<1>1. confirming[d] \in {"no", "advertiser", "system"}
  BY DEF IInv, TypeOK
<1>2. CASE FinishConfirmation(d)
  <2>1. CASE Complete(d, confirming[d])
    <3>1. confirming[d] \in {"advertiser", "system"}
      BY <1>1, <1>2 DEF FinishConfirmation
    <3>2. QED
      BY <2>1, <3>1, EndingSteps
  <2>2. CASE ~Complete(d, confirming[d])
    BY <1>2, <2>2, StayingStep DEF FinishConfirmation
  <2>3. QED
    BY <2>1, <2>2
<1>3. CASE ViewOverdueDeal(d)
  <2>1. Complete(d, "system")
    BY <1>3 DEF ViewOverdueDeal
  <2>2. QED
    BY <2>1, EndingSteps
<1>4. CASE PayListed(d)
  <2>1. CASE Complete(d, "system")
    BY <2>1, EndingSteps
  <2>2. CASE ~Complete(d, "system")
    BY <1>4, <2>2, StayingStep DEF PayListed
  <2>3. QED
    BY <2>1, <2>2
<1>5. CASE ApproveListed(d)
  <2>1. CASE ApproveCreative(d, "system")
    BY <2>1, AdvancingSteps
  <2>2. CASE ~ApproveCreative(d, "system")
    BY <1>5, <2>2, StayingStep DEF ApproveListed
  <2>3. QED
    BY <2>1, <2>2
<1>6. QED
  BY <1>2, <1>3, <1>4, <1>5

Touched(d) ==
  \/ Opened(d) \/ Lapsed(d) \/ Concluded(d) \/ Advanced(d) \/ Redated(d)
  \/ Paid(d) \/ Decided(d) \/ Agreed(d) \/ Cancelled(d)

LEMMA StepKinds ==
  ASSUME IInv, [Next]_vars
  PROVE  (\E d \in Deals : Touched(d)) \/ Noted \/ Elapsed
<1>1. ASSUME NEW d \in Deals, DealStep(d)
      PROVE  Touched(d) \/ Noted
  <2>1. CASE \/ SubmitCreative(d) \/ AdvertiserApproves(d) \/ RejectCreative(d)
             \/ SubmitPublication(d) \/ ConfirmPublication(d)
    <3>1. Advanced(d)
      BY <2>1, AdvancingSteps DEF AdvertiserApproves
    <3>2. QED
      BY <3>1 DEF Touched
  <2>2. CASE SendOffer(d) \/ CloseOffer(d) \/ CreateDeal(d)
    BY <2>2, OfferSteps DEF Touched
  <2>3. CASE FinishConfirmation(d) \/ ViewOverdueDeal(d) \/ PayListed(d) \/ ApproveListed(d)
    <3>1. Paid(d) \/ Advanced(d) \/ Noted
      BY <2>3, SystemSteps
    <3>2. QED
      BY <3>1 DEF Touched
  <2>4. CASE DecideClaim(d) \/ Cancel(d)
    <3>1. Decided(d) \/ Cancelled(d)
      BY <2>4, EndingSteps
    <3>2. QED
      BY <3>1 DEF Touched
  <2>5. CASE LoseConfirmation(d) \/ ExplainClaim(d) \/ RequestExtraDocs(d)
    BY <2>5, StayingStep DEF LoseConfirmation, ExplainClaim, RequestExtraDocs
  <2>6. QED
    BY <1>1, <2>1, <2>2, <2>3, <2>4, <2>5 DEF DealStep
<1>2. ASSUME NEW d \in Deals, NEW side \in Sides, SideStep(d, side)
      PROVE  Touched(d) \/ Noted
  <2>1. CASE \E subject \in Subjects : OpenClaim(d, side, subject)
    <3>1. Advanced(d)
      BY <2>1, AdvancingSteps
    <3>2. QED
      BY <3>1 DEF Touched
  <2>2. CASE AcceptTermination(d, side)
    <3>1. Agreed(d)
      BY <2>2, EndingSteps
    <3>2. QED
      BY <3>1 DEF Touched
  <2>3. CASE AcceptPublicationDate(d, side)
    <3>1. Redated(d)
      BY <2>3, RedatingStep
    <3>2. QED
      BY <3>1 DEF Touched
  <2>4. CASE \/ ProposeTermination(d, side) \/ DeclineTermination(d, side)
             \/ \E date \in Dates : ProposePublicationDate(d, side, date)
             \/ DeclinePublicationDate(d, side)
    BY <2>4, StayingStep
    DEF ProposeTermination, DeclineTermination, ProposePublicationDate, DeclinePublicationDate
  <2>5. QED
    BY <1>2, <2>1, <2>2, <2>3, <2>4 DEF SideStep
<1>3. ASSUME TimerStep
      PROVE  Noted \/ Elapsed
  <2>1. CASE FlagReviews \/ RemindPublications \/ NotifyOverduePublications
    BY <2>1, NotingSteps
  <2>2. CASE ScanPayouts \/ ScanCreatives \/ ScanReviews \/ RemindClaimDecisions \/ WorkerDies
    BY <2>2, StayingStep DEF ScanPayouts, ScanCreatives, ScanReviews, RemindClaimDecisions, WorkerDies
  <2>3. CASE Tick
    BY <2>3 DEF Tick, Elapsed
  <2>4. QED
    BY <1>3, <2>1, <2>2, <2>3 DEF TimerStep
<1>4. CASE UNCHANGED vars
  BY <1>4, StayingStep DEF vars
<1>5. QED
  BY <1>1, <1>2, <1>3, <1>4 DEF Next

-----------------------------------------------------------------------------
(* Dates and notices: before an offer is sent nothing was notified of it,  *)
(* and no publication lies in the future.                                  *)
NoticeInv(d) ==
  /\ deal[d].status = "unsent" => ~deal[d].reminderSent /\ ~deal[d].overdueNotified
  /\ deal[d].overdueNotified => deal[d].pubDate < day
  /\ deal[d].reminderSent => deal[d].pubDate <= day + 1
  /\ deal[d].publishedAt <= day

DInv == IInv /\ \A d \in Deals : NoticeInv(d)

LEMMA InitDInv == Init => DInv
<1> SUFFICES ASSUME Init PROVE DInv
  OBVIOUS
<1>1. ASSUME NEW d \in Deals PROVE NoticeInv(d)
  BY DEF Init, NewDeal, NoticeInv, Never
<1>2. QED
  BY <1>1, InitIInv DEF DInv

LEMMA NextDInv == DInv /\ [Next]_vars => DInv'
<1> SUFFICES ASSUME DInv, [Next]_vars PROVE DInv'
  OBVIOUS
<1>1. IInv /\ IInv' /\ \A d \in Deals : NoticeInv(d)
  BY NextIInv DEF DInv
<1>2. /\ deal \in [Deals -> DealRow] /\ deal' \in [Deals -> DealRow] /\ day \in Nat
  BY <1>1, DaysAssumption DEF IInv, TypeOK
<1>3. ASSUME NEW d \in Deals, NEW r, Rewritten(d, r),
             r.status = "unsent" => ~r.reminderSent /\ ~r.overdueNotified,
             r.overdueNotified => r.pubDate < day,
             r.reminderSent => r.pubDate <= day + 1,
             r.publishedAt <= day
      PROVE  DInv'
  <2>1. deal'[d] = r /\ day' = day /\ \A e \in Deals \ {d} : deal'[e] = deal[e]
    BY <1>2, <1>3 DEF Rewritten
  <2>2. ASSUME NEW e \in Deals PROVE NoticeInv(e)'
    BY <1>1, <1>3, <2>1 DEF NoticeInv
  <2>3. QED
    BY <1>1, <2>2 DEF DInv
<1>4. ASSUME NEW d \in Deals, NEW from, NEW to, NEW paid, Goes(d, from, to, paid), to # "unsent"
      PROVE  DInv'
  <2>1. PICK r : /\ Rewritten(d, r) /\ SameNotices(d, r)
                 /\ r.status = to /\ r.pubDate = deal[d].pubDate
                 /\ r.publishedAt \in {deal[d].publishedAt, day}
    BY <1>4 DEF Goes
  <2>2. NoticeInv(d)
    BY <1>1
  <2>3. QED
    BY <1>2, <1>3, <1>4, <2>1, <2>2 DEF NoticeInv, SameNotices
<1>5. ASSUME NEW d \in Deals, Opened(d)
      PROVE  DInv'
  <2>1. PICK r : /\ Rewritten(d, r) /\ SameNotices(d, r)
                 /\ r.publishedAt = deal[d].publishedAt
    BY <1>5 DEF Opened
  <2>2. NoticeInv(d) /\ deal[d].status = "unsent"
    BY <1>1, <1>5 DEF Opened
  <2>3. QED
    BY <1>3, <2>1, <2>2 DEF NoticeInv, SameNotices
<1>6. ASSUME NEW d \in Deals, Redated(d)
      PROVE  DInv'
  <2>1. PICK r : /\ Rewritten(d, r) /\ ~r.reminderSent /\ ~r.overdueNotified
                 /\ r.publishedAt = deal[d].publishedAt
    BY <1>6 DEF Redated
  <2>2. NoticeInv(d)
    BY <1>1
  <2>3. QED
    BY <1>3, <2>1, <2>2 DEF NoticeInv
<1>7. ASSUME NEW d \in Deals, Touched(d)
      PROVE  DInv'
  <2>1. CASE Opened(d) \/ Redated(d)
    BY <1>5, <1>6, <2>1
  <2>2. CASE Advanced(d)
    <3>1. PICK to \in Running : Goes(d, Running, to, deal[d].paid)
      BY <2>2 DEF Advanced
    <3>2. to # "unsent"
      BY DEF Running, Claimable, Unpublished
    <3>3. QED
      BY <1>4, <3>1, <3>2
  <2>3. CASE Lapsed(d) \/ Concluded(d) \/ Paid(d) \/ Agreed(d) \/ Cancelled(d)
    BY <1>4, <2>3 DEF Lapsed, Concluded, Paid, Agreed, Cancelled
  <2>4. CASE Decided(d)
    BY <1>4, <2>4 DEF Decided
  <2>5. QED
    BY <1>7, <2>1, <2>2, <2>3, <2>4 DEF Touched
<1>8. CASE Noted
  <2>1. ASSUME NEW d \in Deals PROVE NoticeInv(d)'
    <3>1. NoticeInv(d) /\ deal[d] \in DealRow
      BY <1>1, <1>2
    <3>2. QED
      BY <1>2, <1>8, <3>1 DEF Noted, NoticeInv, DealRow
  <2>2. QED
    BY <1>1, <2>1 DEF DInv
<1>9. CASE Elapsed
  <2>1. ASSUME NEW d \in Deals PROVE NoticeInv(d)'
    <3>1. NoticeInv(d) /\ deal[d] \in DealRow
      BY <1>1, <1>2
    <3>2. QED
      BY <1>2, <1>9, <3>1 DEF Elapsed, NoticeInv, DealRow
  <2>2. QED
    BY <1>1, <2>1 DEF DInv
<1>10. QED
  BY <1>1, <1>7, <1>8, <1>9, StepKinds

LEMMA AlwaysDInv == Spec => []DInv
  BY InitDInv, NextDInv, PTL DEF Spec

(***************************************************************************)
(* send_publication_reminders and notify_overdue_publications speak of the *)
(* date in force: accept_publication_date makes both due anew.             *)
(***************************************************************************)
THEOREM NoticesSpeakTrue == Spec => []NoticesAreCurrent
<1>1. DInv => NoticesAreCurrent
  BY DEF DInv, NoticeInv, NoticesAreCurrent
<1>2. QED
  BY <1>1, AlwaysDInv, PTL

-----------------------------------------------------------------------------
(* What a step may never do.                                               *)

(* Only the deal a step touches can end, and only by one of four kinds.    *)
LEMMA EndKinds ==
  ASSUME IInv, [Next]_vars, NEW d \in Deals,
         deal[d].status # deal'[d].status, deal'[d].status \in {"completed", "cancelled"}
  PROVE  Paid(d) \/ Decided(d) \/ Agreed(d) \/ Cancelled(d)
<1>1. deal \in [Deals -> DealRow]
  BY DEF IInv, TypeOK
<1>2. PICK e \in Deals : Touched(e)
  BY StepKinds DEF Noted, Elapsed
<1>3. ASSUME NEW r, Rewritten(e, r)
      PROVE  deal'[e] = r /\ \A f \in Deals \ {e} : deal'[f] = deal[f]
  BY <1>1, <1>3 DEF Rewritten
<1>4. PICK r : Rewritten(e, r)
  BY <1>2 DEF Touched, Opened, Lapsed, Concluded, Advanced, Redated, Paid, Decided, Agreed,
              Cancelled, Goes
<1>5. e = d
  BY <1>3, <1>4
<1>6. ASSUME NEW from, NEW to, NEW paid, Goes(e, from, to, paid)
      PROVE  deal'[e].status = to
  BY <1>3, <1>6 DEF Goes
<1>7. ~Opened(e) /\ ~Redated(e)
  BY <1>3, <1>5 DEF Opened, Redated
<1>8. ~Lapsed(e) /\ ~Concluded(e)
  BY <1>5, <1>6 DEF Lapsed, Concluded
<1>9. ~Advanced(e)
  BY <1>5, <1>6 DEF Advanced, Running, Claimable, Unpublished
<1>10. QED
  BY <1>2, <1>5, <1>7, <1>8, <1>9 DEF Touched

LEMMA PayoutTerms ==
  ASSUME DInv, NEW d \in Deals, PayoutDue(d) <= day
  PROVE  IF Package(d)
         THEN /\ day >= deal[d].publishedAt + terms[d].retention
              /\ deal[d].accepted \/ day >= ClaimUntil(d)
         ELSE day >= deal[d].publishedAt + LegacyCheckDays
<1>1. /\ deal[d] \in DealRow /\ day \in 1..MaxDay /\ MaxDay \in Nat
      /\ terms[d].retention \in Nat /\ LegacyCheckDays \in Nat
  BY DaysAssumption, DealTermsAssumption DEF DInv, IInv, TypeOK
<1>2. deal[d].publishedAt \in 0..MaxDay
  BY <1>1 DEF DInv, NoticeInv, DealRow
<1>3. ClaimUntil(d) \in Nat
  BY <1>2, WorkingDaysAfterType DEF ClaimUntil
<1>4. deal[d].accepted \in BOOLEAN
  BY <1>1 DEF DealRow
<1> DEFINE until == ClaimUntil(d)
           kept == RetentionUntil(d)
<1>5. kept = deal[d].publishedAt + terms[d].retention /\ kept \in Nat
  BY <1>1, <1>2 DEF RetentionUntil
<1>6. until \in Nat /\ until = ClaimUntil(d)
  BY <1>3
<1>7. CASE Package(d)
  <2>1. (IF deal[d].accepted \/ kept >= until THEN kept ELSE until) <= day
    BY <1>7 DEF PayoutDue
  <2> HIDE DEF until, kept
  <2>2. kept <= day /\ (deal[d].accepted \/ until <= day)
    BY <1>1, <1>5, <1>6, <2>1
  <2>3. QED
    BY <1>1, <1>5, <1>6, <1>7, <2>2
<1>8. CASE ~Package(d)
  BY <1>1, <1>2, <1>8 DEF PayoutDue
<1>9. QED
  BY <1>7, <1>8

(***************************************************************************)
(* Neither the hourly task, nor a page view, nor a confirmation pays       *)
(* before the terms of the deal promise it.                                *)
(***************************************************************************)
THEOREM PaymentsAreNotEarly == Spec => NoEarlyPayout
<1> DEFINE Early(d) ==
             /\ deal[d].status = "checking" /\ deal'[d].status = "completed"
             /\ ~ IF Package(d)
                  THEN /\ day >= deal[d].publishedAt + terms[d].retention
                       /\ deal[d].accepted \/ day >= ClaimUntil(d)
                  ELSE \/ confirming[d] = "advertiser"
                       \/ day >= deal[d].publishedAt + LegacyCheckDays
<1>1. ASSUME DInv, [Next]_vars, NEW d \in Deals
      PROVE  ~Early(d)
  <2>1. SUFFICES ASSUME deal[d].status = "checking", deal'[d].status = "completed"
                 PROVE  ~Early(d)
    OBVIOUS
  <2>2. Paid(d)
    <3>1. Paid(d) \/ Decided(d) \/ Agreed(d) \/ Cancelled(d)
      BY <1>1, <2>1, EndKinds DEF DInv
    <3>2. ~Decided(d) /\ ~Agreed(d) /\ ~Cancelled(d)
      BY <2>1 DEF Decided, Agreed, Cancelled, Goes, Unpublished
    <3>3. QED
      BY <3>1, <3>2
  <2>3. PayoutDue(d) <= day \/ (~Package(d) /\ confirming[d] = "advertiser")
    BY <2>2 DEF Paid
  <2>4. QED
    BY <1>1, <2>3, PayoutTerms
<1>2. DInv /\ [Next]_vars =>
        [\A d \in Deals :
           deal[d].status = "checking" /\ deal'[d].status = "completed" =>
             IF Package(d)
             THEN /\ day >= deal[d].publishedAt + terms[d].retention
                  /\ deal[d].accepted \/ day >= ClaimUntil(d)
             ELSE \/ confirming[d] = "advertiser"
                  \/ day >= deal[d].publishedAt + LegacyCheckDays]_vars
  BY <1>1
<1>3. QED
  BY <1>2, AlwaysDInv, PTL DEF Spec, NoEarlyPayout

(***************************************************************************)
(* A deal on package terms is cancelled by a decision of the staff or by   *)
(* the side that has not proposed the termination.                         *)
(***************************************************************************)
THEOREM NobodyLeavesAlone == Spec => NoUnilateralExit
<1>1. ASSUME IInv, [Next]_vars, NEW d \in Deals, Package(d),
             deal[d].status # "cancelled", deal'[d].status = "cancelled"
      PROVE  \/ /\ claim[d].status # "resolved" /\ claim'[d].status = "resolved"
                /\ deal'[d].cancelledBy = "staff"
             \/ termination[d] # "none" /\ deal'[d].cancelledBy = Other(termination[d])
  <2>1. Decided(d) \/ Agreed(d)
    <3>1. Paid(d) \/ Decided(d) \/ Agreed(d) \/ Cancelled(d)
      BY <1>1, EndKinds
    <3>2. deal \in [Deals -> DealRow]
      BY <1>1 DEF IInv, TypeOK
    <3>3. ~Paid(d) /\ ~Cancelled(d)
      BY <1>1, <3>2 DEF Paid, Cancelled, Goes, Rewritten
    <3>4. QED
      BY <3>1, <3>3
  <2>2. CASE Decided(d)
    <3>1. deal[d].status = "disputed" /\ claim'[d].status = "resolved"
      BY <2>2 DEF Decided, Goes
    <3>2. ClaimOpen(d)
      BY <1>1, <3>1 DEF IInv, RowInv
    <3>3. deal'[d].cancelledBy = "staff"
      <4>1. deal \in [Deals -> DealRow]
        BY <1>1 DEF IInv, TypeOK
      <4>2. QED
        BY <1>1, <2>2, <4>1 DEF Decided, Goes, Rewritten
    <3>4. QED
      BY <3>1, <3>2, <3>3 DEF ClaimOpen
  <2>3. CASE Agreed(d)
    BY <2>3 DEF Agreed
  <2>4. QED
    BY <2>1, <2>2, <2>3
<1>2. IInv /\ [Next]_vars =>
        [\A d \in Deals :
           Package(d) /\ deal[d].status # "cancelled" /\ deal'[d].status = "cancelled" =>
             \/ /\ claim[d].status # "resolved" /\ claim'[d].status = "resolved"
                /\ deal'[d].cancelledBy = "staff"
             \/ /\ termination[d] # "none"
                /\ deal'[d].cancelledBy = Other(termination[d])]_vars
  BY <1>1
<1>3. QED
  BY <1>2, Inductive, PTL DEF Spec, NoUnilateralExit

-----------------------------------------------------------------------------
(* The ledger changes in the slot of the deal that the step touches.       *)
LedgerRows == ledger = [d \in Deals |-> ledger[d]]

LEMMA LedgerWrites ==
  ASSUME IInv, LedgerRows, [Next]_vars
  PROVE  \/ ledger' = ledger
         \/ \E d \in Deals : /\ Touched(d) /\ ~Advanced(d) /\ ~Redated(d)
                             /\ LedgerRows'
                             /\ \A e \in Deals \ {d} : ledger'[e] = ledger[e]
<1>1. ASSUME NEW d \in Deals, NEW a, NEW b, NEW c, NEW f, Money!Booked(d, a, b, c, f)
      PROVE  LedgerRows' /\ \A e \in Deals \ {d} : ledger'[e] = ledger[e]
  <2> DEFINE l == [reserve |-> ledger[d].reserve + a, payment |-> ledger[d].payment + b,
                   release |-> ledger[d].release + c, earning |-> ledger[d].earning + f]
  <2>1. ledger' = [ledger EXCEPT ![d] = l]
    BY <1>1 DEF Money!Booked
  <2> HIDE DEF l
  <2>2. LedgerRows'
    BY <2>1 DEF LedgerRows
  <2>3. QED
    BY <2>1, <2>2 DEF LedgerRows
<1>2. CASE ledger' # ledger
  <2>1. PICK d \in Deals : Touched(d) /\ ~Advanced(d) /\ ~Redated(d)
    BY <1>2, StepKinds DEF Noted, Elapsed, Advanced, Redated, money
  <2>2. \E a, b, c, f : Money!Booked(d, a, b, c, f)
    BY <1>2, <2>1
    DEF Touched, Opened, Lapsed, Concluded, Paid, Decided, Agreed, Cancelled, money,
        Money!ReserveForOffer, Money!ReserveFunds, Money!Reserve, Money!Release,
        Money!CompleteDealPayment, Money!SplitDealPayment, Money!Settle,
        Money!RefundMinusCommission
  <2>3. QED
    BY <1>1, <2>1, <2>2
<1>3. QED
  BY <1>2

LEMMA AlwaysRows == Spec => [](IInv /\ LedgerRows)
<1>1. Init => IInv /\ LedgerRows
  BY InitIInv DEF Init, Money!Init, LedgerRows
<1>2. IInv /\ LedgerRows /\ [Next]_vars => (IInv /\ LedgerRows)'
  BY NextIInv, LedgerWrites DEF LedgerRows
<1>3. QED
  BY <1>1, <1>2, PTL DEF Spec

(***************************************************************************)
(* While a claim is open the deal's money moves by its decision alone: no  *)
(* timer's list and no confirmation under way pays past it.                *)
(***************************************************************************)
THEOREM NoMoneyPastClaim == Spec => ClaimFreezesMoney
<1>1. ASSUME IInv, LedgerRows, [Next]_vars,
             NEW d \in Deals, ClaimOpen(d), ledger'[d] # ledger[d]
      PROVE  claim'[d].status = "resolved"
  <2>1. Touched(d) /\ ~Advanced(d) /\ ~Redated(d)
    BY <1>1, LedgerWrites
  <2>2. deal[d].status = "disputed"
    BY <1>1 DEF IInv, RowInv
  <2>3. ~Opened(d) /\ ~Lapsed(d) /\ ~Concluded(d) /\ ~Paid(d) /\ ~Agreed(d) /\ ~Cancelled(d)
    BY <2>2 DEF Opened, Lapsed, Concluded, Paid, Agreed, Cancelled, Goes, Unpublished
  <2>4. Decided(d)
    BY <2>1, <2>3 DEF Touched
  <2>5. QED
    BY <2>4 DEF Decided
<1>2. (IInv /\ LedgerRows) /\ [Next]_vars =>
        [\A d \in Deals :
           ClaimOpen(d) /\ ledger'[d] # ledger[d] => claim'[d].status = "resolved"]_vars
  BY <1>1
<1>3. QED
  BY <1>2, AlwaysRows, PTL DEF Spec, ClaimFreezesMoney

-----------------------------------------------------------------------------
(***************************************************************************)
(* What has been earned.  The inductive invariant adds to the property     *)
(* that nothing is earned and paid_amount is empty until a deal ends.      *)
(***************************************************************************)
Over == {"completed", "cancelled"}

Outcome(d) ==
  /\ deal[d].status = "completed" => ledger[d].earning \in Nat \ {0}
  /\ deal[d].status # "completed" => ledger[d].earning = 0
  /\ deal[d].status \notin Over => deal[d].paid = BlankPaid
  /\ terms[d].onTop /\ deal[d].paid # BlankPaid => deal[d].paid = ledger[d].earning

CompletedBy(u) == {d \in Deals : Blogger[d] = u /\ deal[d].status = "completed"}

MInv ==
  /\ IInv /\ LedgerRows
  /\ dealsCount \in [Users -> Nat]
  /\ \A d \in Deals : Outcome(d)
  /\ \A u \in Users : dealsCount[u] = Cardinality(CompletedBy(u))

(* Below half the price the commission leaves the performer something of   *)
(* every part, however small: PLATFORM_COMMISSION_PERCENT is 15 by default.*)
LEMMA SomethingEarned ==
  ASSUME IInv, LegacyPercent < 50, NEW d \in Deals, NEW part \in Nat \ {0}
  PROVE  /\ Money!EarningOf(d, part) \in Nat \ {0}
         /\ terms[d].onTop => Money!EarningOf(d, part) = part
<1>1. LegacyPercent \in 0..49
  BY EscrowAssumption DEF Money!PercentAssumption
<1>2. \A n \in Nat \ {0}, p \in 0..49 : n * p \in Nat /\ n * p <= 49 * n
  BY Z3
<1>3. CASE terms[d].onTop
  BY <1>3 DEF Money!EarningOf
<1>4. CASE ~terms[d].onTop
  <2> DEFINE n == part * LegacyPercent
  <2>1. n \in Nat /\ n <= 49 * part
    BY <1>1, <1>2
  <2>2. Money!EarningOf(d, part) = part - ((n + 50) \div 100)
    BY <1>4 DEF Money!EarningOf, Money!Commission, Money!Percent
  <2> HIDE DEF n
  <2>3. (n + 50) \div 100 \in Nat /\ (n + 50) \div 100 < part
    BY <2>1, Z3
  <2>4. QED
    BY <1>4, <2>2, <2>3
<1>5. QED
  BY <1>3, <1>4

(* Reservations and refunds earn nothing.                                  *)
LEMMA NothingEarned ==
  ASSUME MInv, NEW d \in Deals,
         \/ Money!ReserveForOffer(d) \/ Money!ReserveFunds(d) \/ Money!Release(d)
         \/ Money!RefundMinusCommission(d) \/ UNCHANGED money
  PROVE  /\ LedgerRows' /\ dealsCount' = dealsCount
         /\ \A e \in Deals : ledger'[e].earning = ledger[e].earning
<1>1. LedgerRows /\ \A e \in Deals : ledger[e].earning \in Int
  BY DEF MInv, Outcome
<1>2. dealsCount' = dealsCount
  BY DEF money, Money!ReserveForOffer, Money!ReserveFunds, Money!Reserve, Money!Release,
         Money!RefundMinusCommission
<1>3. ASSUME NEW a, NEW b, NEW c, Money!Booked(d, a, b, c, 0)
      PROVE  LedgerRows' /\ \A e \in Deals : ledger'[e].earning = ledger[e].earning
  <2> DEFINE l == [reserve |-> ledger[d].reserve + a, payment |-> ledger[d].payment + b,
                   release |-> ledger[d].release + c, earning |-> ledger[d].earning + 0]
  <2>1. ledger' = [ledger EXCEPT ![d] = l] /\ l.earning = ledger[d].earning
    BY <1>1, <1>3 DEF Money!Booked
  <2> HIDE DEF l
  <2>2. LedgerRows'
    BY <1>1, <2>1 DEF LedgerRows
  <2>3. QED
    BY <1>1, <2>1, <2>2 DEF LedgerRows
<1>4. CASE UNCHANGED money
  BY <1>1, <1>2, <1>4 DEF money, LedgerRows
<1>5. CASE ~UNCHANGED money
  <2>1. \E a, b, c : Money!Booked(d, a, b, c, 0)
    BY <1>5 DEF Money!ReserveForOffer, Money!ReserveFunds, Money!Reserve, Money!Release,
                Money!RefundMinusCommission
  <2>2. QED
    BY <1>2, <1>3, <2>1
<1>6. QED
  BY <1>4, <1>5

LEMMA Earned ==
  ASSUME MInv, NEW d \in Deals, NEW paid, NEW earning \in Int, Money!Settle(d, paid, earning)
  PROVE  /\ LedgerRows'
         /\ ledger'[d].earning = ledger[d].earning + earning
         /\ \A e \in Deals \ {d} : ledger'[e].earning = ledger[e].earning
         /\ dealsCount' = [dealsCount EXCEPT ![Blogger[d]] = @ + 1]
<1>1. LedgerRows
  BY DEF MInv
<1> DEFINE rest == Money!ReservedTotal(d) - paid
           l == [reserve |-> ledger[d].reserve + 0, payment |-> ledger[d].payment + paid,
                 release |-> ledger[d].release + rest, earning |-> ledger[d].earning + earning]
<1>2. ledger' = [ledger EXCEPT ![d] = l] /\ l.earning = ledger[d].earning + earning
  BY DEF Money!Settle, Money!Booked
<1> HIDE DEF rest, l
<1>3. LedgerRows'
  BY <1>1, <1>2 DEF LedgerRows
<1>4. QED
  BY <1>1, <1>2, <1>3 DEF LedgerRows, Money!Settle

LEMMA UnearnedStep ==
  ASSUME MInv, IInv', LedgerRows', UNCHANGED <<dealsCount, terms>>,
         \A e \in Deals : ledger'[e].earning = ledger[e].earning,
         \A e \in Deals :
           \/ deal'[e].status = deal[e].status /\ deal'[e].paid = deal[e].paid
           \/ /\ deal[e].status \notin Over /\ deal'[e].status # "completed"
              /\ \/ deal'[e].paid = deal[e].paid
                 \/ deal'[e].status = "cancelled" /\ deal'[e].paid = 0
  PROVE  MInv'
<1>1. ASSUME NEW e \in Deals PROVE Outcome(e)'
  BY DEF MInv, Outcome, Over
<1>2. ASSUME NEW u \in Users PROVE CompletedBy(u)' = CompletedBy(u)
  BY DEF CompletedBy, Over
<1>3. QED
  BY <1>1, <1>2 DEF MInv

LEMMA EarnedStep ==
  ASSUME MInv, IInv', LedgerRows', NEW d \in Deals, NEW earning \in Nat \ {0}, terms' = terms,
         deal[d].status \notin Over, deal'[d].status = "completed",
         deal'[d].paid = deal[d].paid \/ (terms[d].onTop => deal'[d].paid = earning),
         \A e \in Deals \ {d} : deal'[e] = deal[e],
         ledger'[d].earning = ledger[d].earning + earning,
         \A e \in Deals \ {d} : ledger'[e].earning = ledger[e].earning,
         dealsCount' = [dealsCount EXCEPT ![Blogger[d]] = @ + 1]
  PROVE  MInv'
<1>1. ASSUME NEW e \in Deals PROVE Outcome(e)'
  <2>1. CASE e = d
    BY <2>1 DEF MInv, Outcome, Over
  <2>2. CASE e # d
    BY <2>2 DEF MInv, Outcome
  <2>3. QED
    BY <2>1, <2>2
<1>2. Blogger[d] \in Users /\ IsFiniteSet(Deals)
  <2>1. Blogger \in [Deals -> Users]
    BY EscrowAssumption DEF Money!PartiesAssumption
  <2>2. IsFiniteSet(Deals)
    BY EscrowAssumption DEF Money!RowsAssumption, Money!IsFiniteSet, IsFiniteSet
  <2>3. QED
    BY <2>1, <2>2
<1>3. ASSUME NEW u \in Users
      PROVE  dealsCount'[u] = Cardinality(CompletedBy(u)') /\ dealsCount'[u] \in Nat
  <2>1. dealsCount[u] = Cardinality(CompletedBy(u)) /\ dealsCount[u] \in Nat
    BY DEF MInv
  <2>2. CASE u = Blogger[d]
    <3>1. CompletedBy(u)' = CompletedBy(u) \cup {d} /\ d \notin CompletedBy(u)
      BY <2>2 DEF CompletedBy, Over
    <3>2. IsFiniteSet(CompletedBy(u))
      <4>1. CompletedBy(u) \subseteq Deals
        BY DEF CompletedBy
      <4>2. QED
        BY <1>2, <4>1, FS_Subset
    <3>3. Cardinality(CompletedBy(u)') = Cardinality(CompletedBy(u)) + 1
      <4> DEFINE S == CompletedBy(u)
      <4>1. CompletedBy(u)' = S \cup {d} /\ d \notin S /\ IsFiniteSet(S)
        BY <3>1, <3>2
      <4> HIDE DEF S
      <4>2. Cardinality(S \cup {d}) = Cardinality(S) + 1
        BY <4>1, FS_AddElement
      <4>3. QED
        BY <4>1, <4>2 DEF S
    <3>4. dealsCount'[u] = dealsCount[u] + 1
      BY <1>2, <2>2 DEF MInv
    <3>5. QED
      BY <2>1, <3>3, <3>4
  <2>3. CASE u # Blogger[d]
    <3>1. CompletedBy(u)' = CompletedBy(u)
      BY <2>3 DEF CompletedBy
    <3>2. dealsCount'[u] = dealsCount[u]
      BY <2>3 DEF MInv
    <3>3. QED
      BY <2>1, <3>1, <3>2
  <2>4. QED
    BY <2>2, <2>3
<1>4. dealsCount' \in [Users -> Nat]
  BY <1>2, <1>3 DEF MInv
<1>5. QED
  BY <1>1, <1>3, <1>4 DEF MInv

(* What Goes leaves of the rows.                                           *)
LEMMA GoesTo ==
  ASSUME IInv, NEW d \in Deals, NEW from, NEW to, NEW paid, Goes(d, from, to, paid)
  PROVE  /\ deal[d].status \in from
         /\ deal'[d].status = to /\ deal'[d].paid = paid
         /\ \A e \in Deals \ {d} : deal'[e] = deal[e]
         /\ terms' = terms
<1>1. deal \in [Deals -> DealRow]
  BY DEF IInv, TypeOK
<1>2. QED
  BY <1>1 DEF Goes, Rewritten

LEMMA TouchedMInv ==
  ASSUME MInv, IInv', LegacyPercent < 50, NEW d \in Deals, Touched(d)
  PROVE  MInv'
<1>1. IInv /\ Outcome(d) /\ deal \in [Deals -> DealRow]
  BY DEF MInv, IInv, TypeOK
<1>2. Money!Price(d) \in Nat \ {0}
  BY <1>1, DealTermsAssumption DEF IInv, Money!Price
<1>3. CASE Opened(d) \/ Redated(d)
  <2>1. /\ LedgerRows' /\ dealsCount' = dealsCount
        /\ \A e \in Deals : ledger'[e].earning = ledger[e].earning
    BY <1>3, NothingEarned DEF Opened, Redated
  <2>2. PICK r : /\ Rewritten(d, r) /\ r.paid = deal[d].paid
                 /\ \/ r.status = deal[d].status
                    \/ deal[d].status = "unsent" /\ r.status = "offered"
    BY <1>3 DEF Opened, Redated
  <2>3. /\ terms' = terms /\ deal'[d] = r
        /\ \A e \in Deals \ {d} : deal'[e] = deal[e]
    BY <1>1, <2>2 DEF Rewritten
  <2>4. QED
    BY <2>1, <2>2, <2>3, UnearnedStep DEF Over
<1>4. CASE Lapsed(d) \/ Concluded(d) \/ Advanced(d) \/ Cancelled(d) \/ Agreed(d)
  <2>1. /\ LedgerRows' /\ dealsCount' = dealsCount
        /\ \A e \in Deals : ledger'[e].earning = ledger[e].earning
    BY <1>4, NothingEarned DEF Lapsed, Concluded, Advanced, Cancelled, Agreed
  <2>2. PICK from \in {{"offered"}, Running, Unpublished},
             to \in Running \cup {"lapsed", "cancelled"}, paid \in {0, deal[d].paid} :
          /\ Goes(d, from, to, paid)
          /\ to = "cancelled" \/ paid = deal[d].paid
    BY <1>4 DEF Lapsed, Concluded, Advanced, Cancelled, Agreed, Running, Claimable, Unpublished
  <2>3. /\ deal[d].status \in from /\ deal'[d].status = to /\ deal'[d].paid = paid
        /\ \A e \in Deals \ {d} : deal'[e] = deal[e]
        /\ terms' = terms
    BY <1>1, <2>2, GoesTo
  <2>4. deal[d].status \notin Over /\ to # "completed"
    BY <2>3 DEF Over, Running, Claimable, Unpublished
  <2>5. QED
    BY <2>1, <2>2, <2>3, <2>4, UnearnedStep
<1>5. ASSUME NEW from \in {{"checking"}, {"disputed"}}, NEW paid, NEW part \in Nat \ {0}, NEW spent,
             Goes(d, from, "completed", paid), paid \in {deal[d].paid, part},
             Money!Settle(d, spent, Money!EarningOf(d, part))
      PROVE  MInv'
  <2> DEFINE earning == Money!EarningOf(d, part)
  <2>1. earning \in Nat \ {0} /\ (terms[d].onTop => earning = part)
    BY <1>1, SomethingEarned
  <2>2. Money!Settle(d, spent, earning)
    BY <1>5
  <2> HIDE DEF earning
  <2>3. /\ deal[d].status \in from /\ deal'[d].status = "completed" /\ deal'[d].paid = paid
        /\ \A e \in Deals \ {d} : deal'[e] = deal[e]
        /\ terms' = terms
    BY <1>1, <1>5, GoesTo
  <2>4. /\ LedgerRows'
        /\ ledger'[d].earning = ledger[d].earning + earning
        /\ \A e \in Deals \ {d} : ledger'[e].earning = ledger[e].earning
        /\ dealsCount' = [dealsCount EXCEPT ![Blogger[d]] = @ + 1]
    BY <2>1, <2>2, Earned
  <2>5. deal[d].status \notin Over
    BY <1>5, <2>3 DEF Over
  <2>6. deal'[d].paid = deal[d].paid \/ (terms[d].onTop => deal'[d].paid = earning)
    BY <1>5, <2>1, <2>3
  <2>7. QED
    BY <2>1, <2>3, <2>4, <2>5, <2>6, EarnedStep
<1>6. CASE Paid(d)
  BY <1>2, <1>5, <1>6 DEF Paid, Money!CompleteDealPayment
<1>7. CASE Decided(d)
  <2>1. CASE Goes(d, {"disputed"}, "completed", Money!Price(d)) /\ Money!CompleteDealPayment(d)
    BY <1>2, <1>5, <2>1 DEF Money!CompleteDealPayment
  <2>2. CASE Goes(d, {"disputed"}, "cancelled", 0) /\ Money!Release(d)
    <3>1. /\ LedgerRows' /\ dealsCount' = dealsCount
          /\ \A e \in Deals : ledger'[e].earning = ledger[e].earning
      BY <2>2, NothingEarned
    <3>2. /\ deal[d].status = "disputed" /\ deal'[d].status = "cancelled" /\ deal'[d].paid = 0
          /\ \A e \in Deals \ {d} : deal'[e] = deal[e]
          /\ terms' = terms
      BY <1>1, <2>2, GoesTo
    <3>3. QED
      BY <3>1, <3>2, UnearnedStep DEF Over
  <2>3. ASSUME NEW part \in Int, Goes(d, {"disputed"}, "completed", part),
               Money!SplitDealPayment(d, part)
        PROVE  MInv'
    <3>1. part \in Nat \ {0} /\ Money!Settle(d, Money!PaidFor(d, part), Money!EarningOf(d, part))
      BY <2>3 DEF Money!SplitDealPayment
    <3>2. QED
      BY <1>5, <2>3, <3>1
  <2>4. QED
    BY <1>7, <2>1, <2>2, <2>3 DEF Decided
<1>8. QED
  BY <1>3, <1>4, <1>6, <1>7 DEF Touched

LEMMA NextMInv == LegacyPercent < 50 /\ MInv /\ [Next]_vars => MInv'
<1> SUFFICES ASSUME LegacyPercent < 50, MInv, [Next]_vars PROVE MInv'
  OBVIOUS
<1>1. IInv /\ IInv'
  BY NextIInv DEF MInv
<1>2. CASE Noted \/ Elapsed
  <2>1. /\ UNCHANGED <<terms, ledger, dealsCount>>
        /\ \A e \in Deals : deal'[e].status = deal[e].status /\ deal'[e].paid = deal[e].paid
    BY <1>2 DEF Noted, Elapsed, money
  <2>2. LedgerRows'
    BY <2>1 DEF MInv, LedgerRows
  <2>3. QED
    BY <1>1, <2>1, <2>2, UnearnedStep
<1>3. QED
  BY <1>1, <1>2, StepKinds, TouchedMInv

LEMMA InitMInv == Init => MInv
<1> SUFFICES ASSUME Init PROVE MInv
  OBVIOUS
<1>1. /\ \A d \in Deals : deal[d] = NewDeal
      /\ ledger = [d \in Deals |-> [reserve |-> 0, payment |-> 0, release |-> 0, earning |-> 0]]
      /\ dealsCount = [u \in Users |-> 0]
  BY DEF Init, Money!Init
<1>2. ASSUME NEW d \in Deals PROVE Outcome(d)
  BY <1>1 DEF NewDeal, Outcome
<1>3. ASSUME NEW u \in Users PROVE Cardinality(CompletedBy(u)) = 0
  <2>1. CompletedBy(u) = {}
    BY <1>1 DEF CompletedBy, NewDeal
  <2>2. QED
    BY <2>1, FS_EmptySet
<1>4. QED
  BY <1>1, <1>2, <1>3, InitIInv DEF MInv, LedgerRows

(***************************************************************************)
(* The end of a deal, paid_amount, deals_count and the ledger agree.  With *)
(* a platform's percent of 50 or more the rounding could leave nothing of  *)
(* the smallest part, and a completed deal with no earning.                *)
(***************************************************************************)
THEOREM OutcomeAndMoneyAgree == LegacyPercent < 50 => (Spec => []OutcomeMatchesMoney)
<1>1. MInv => OutcomeMatchesMoney
  BY DEF MInv, Outcome, CompletedBy, OutcomeMatchesMoney
<1>2. LegacyPercent < 50 => (MInv /\ [Next]_vars => MInv')
  BY NextMInv
<1>3. ASSUME LegacyPercent < 50
      PROVE  Spec => []OutcomeMatchesMoney
  BY <1>1, <1>2, <1>3, InitMInv, PTL DEF Spec
<1>4. QED
  BY <1>3

-----------------------------------------------------------------------------
(***************************************************************************)
(* The deals implement the contract of the money side.  Stage reads the    *)
(* status of a deal as the escrow sees it.                                 *)
(***************************************************************************)
StageOf(s) ==
  CASE s = "unsent" -> "none"
    [] s = "offered" -> "offer"
    [] s = "lapsed" -> "lapsed"
    [] s \in {"completed", "cancelled"} -> "settled"
    [] OTHER -> "deal"

LEMMA StageRead ==
  /\ Stage = [d \in Deals |-> StageOf(deal[d].status)]
  /\ Stage' = [d \in Deals |-> StageOf(deal'[d].status)]
  BY DEF Stage, StageOf

LEMMA StageValues ==
  /\ StageOf("unsent") = "none" /\ StageOf("offered") = "offer" /\ StageOf("lapsed") = "lapsed"
  /\ \A s \in Over : StageOf(s) = "settled"
  /\ \A s \in Running : StageOf(s) = "deal"
  BY DEF StageOf, Over, Running, Claimable, Unpublished

LEMMA StageMoves ==
  ASSUME IInv, NEW d \in Deals, NEW from, NEW to, NEW paid, Goes(d, from, to, paid),
         NEW f, NEW t, \A s \in from : StageOf(s) = f, StageOf(to) = t
  PROVE  Money!InStage(f, d, t)
<1>1. /\ deal[d].status \in from /\ deal'[d].status = to /\ terms' = terms
      /\ \A e \in Deals \ {d} : deal'[e] = deal[e]
  BY GoesTo
<1>2. Stage[d] = f /\ Stage' = [Stage EXCEPT ![d] = t]
  BY <1>1, StageRead
<1>3. QED
  BY <1>1, <1>2 DEF Money!InStage

LEMMA StageStays ==
  ASSUME \A d \in Deals : StageOf(deal'[d].status) = StageOf(deal[d].status)
  PROVE  Stage' = Stage
  BY StageRead

LEMMA TouchedRefines ==
  ASSUME IInv, NEW d \in Deals, Touched(d)
  PROVE  Money!Next \/ UNCHANGED Money!escrowVars
<1>1. deal \in [Deals -> DealRow]
  BY DEF IInv, TypeOK
<1>2. CASE Opened(d)
  <2>1. PICK r : Rewritten(d, r) /\ r.status = "offered"
    BY <1>2 DEF Opened
  <2>2. /\ deal[d].status = "unsent" /\ deal'[d].status = "offered" /\ terms' = terms
        /\ \A e \in Deals \ {d} : deal'[e] = deal[e]
    BY <1>1, <1>2, <2>1 DEF Opened, Rewritten
  <2>3. Stage[d] = "none" /\ Stage' = [Stage EXCEPT ![d] = "offer"]
    BY <2>2, StageRead, StageValues
  <2>4. Money!OpenOffer(d)
    BY <1>2, <2>2, <2>3 DEF Opened, Money!OpenOffer, Money!InStage, money
  <2>5. QED
    BY <2>4 DEF Money!Next
<1>3. CASE Lapsed(d)
  <2>1. Money!InStage("offer", d, "lapsed")
    BY <1>3, StageMoves, StageValues DEF Lapsed
  <2>2. Money!CloseOffer(d)
    BY <1>3, <2>1 DEF Lapsed, Money!CloseOffer, money
  <2>3. QED
    BY <2>2 DEF Money!Next
<1>4. CASE Concluded(d)
  <2>1. "in_progress" \in Running
    BY DEF Running, Claimable, Unpublished
  <2>2. Money!InStage("offer", d, "deal")
    BY <1>4, <2>1, StageMoves, StageValues DEF Concluded
  <2>3. Money!OpenDeal(d)
    BY <1>4, <2>2 DEF Concluded, Money!OpenDeal, money
  <2>4. QED
    BY <2>3 DEF Money!Next
<1>5. CASE Advanced(d)
  <2>1. PICK to \in Running : Goes(d, Running, to, deal[d].paid)
    BY <1>5 DEF Advanced
  <2>2. /\ deal[d].status \in Running /\ deal'[d].status \in Running /\ terms' = terms
        /\ \A e \in Deals \ {d} : deal'[e] = deal[e]
    BY <2>1, GoesTo
  <2>3. Stage' = Stage
    BY <2>2, StageStays, StageValues
  <2>4. QED
    BY <1>5, <2>2, <2>3 DEF Advanced, money, Money!escrowVars
<1>6. CASE Redated(d)
  <2>1. PICK r : Rewritten(d, r) /\ r.status = deal[d].status
    BY <1>6 DEF Redated
  <2>2. terms' = terms /\ \A e \in Deals : deal'[e].status = deal[e].status
    BY <1>1, <2>1 DEF Rewritten
  <2>3. Stage' = Stage
    BY <2>2, StageStays
  <2>4. QED
    BY <1>6, <2>2, <2>3 DEF Redated, money, Money!escrowVars
<1>7. CASE Paid(d) \/ Decided(d) \/ Agreed(d) \/ Cancelled(d)
  <2>1. \E from \in SUBSET Running, to \in Over : \E paid : Goes(d, from, to, paid)
    BY <1>7 DEF Paid, Decided, Agreed, Cancelled, Over, Running, Claimable
  <2>2. Money!InStage("deal", d, "settled")
    <3>1. PICK from \in SUBSET Running, to \in Over : \E paid : Goes(d, from, to, paid)
      BY <2>1
    <3>2. PICK paid : Goes(d, from, to, paid)
      BY <3>1
    <3>3. QED
      BY <3>2, StageMoves, StageValues
  <2>3. \/ Money!CompleteDealPayment(d) \/ Money!Release(d) \/ Money!RefundMinusCommission(d)
        \/ \E part \in Int : Money!SplitDealPayment(d, part)
    BY <1>7 DEF Paid, Decided, Agreed, Cancelled
  <2>4. Money!SettleDeal(d)
    <3>1. ASSUME NEW part \in Int, Money!SplitDealPayment(d, part)
          PROVE  part \in 1..(Money!Price(d) - 1)
      <4>1. Money!Price(d) \in Int
        BY CompensationType DEF IInv
      <4>2. 0 < part /\ part < Money!Price(d)
        BY <3>1 DEF Money!SplitDealPayment
      <4>3. QED
        BY <4>1, <4>2
    <3>2. QED
      BY <2>2, <2>3, <3>1 DEF Money!SettleDeal
  <2>5. QED
    BY <2>4 DEF Money!Next
<1>8. QED
  BY <1>2, <1>3, <1>4, <1>5, <1>6, <1>7 DEF Touched

(***************************************************************************)
(* Every step of the deals is a step of the escrow or leaves it alone, so  *)
(* whatever Escrow promises (each reservation made once and settled once,  *)
(* no sum lost, commissions within the terms) holds of the deals.          *)
(***************************************************************************)
THEOREM DealsImplementEscrow == Spec => RefinesEscrow
<1>1. Init => Money!Init
  BY DEF Init
<1>2. IInv /\ [Next]_vars => [Money!Next]_(Money!escrowVars)
  <2> SUFFICES ASSUME IInv, [Next]_vars
               PROVE  Money!Next \/ UNCHANGED Money!escrowVars
    OBVIOUS
  <2>1. CASE Noted \/ Elapsed
    <3>1. /\ UNCHANGED <<terms, wallet, ledger, dealsCount>>
          /\ \A d \in Deals : deal'[d].status = deal[d].status
      BY <2>1 DEF Noted, Elapsed, money
    <3>2. Stage' = Stage
      BY <3>1, StageStays
    <3>3. QED
      BY <3>1, <3>2 DEF Money!escrowVars
  <2>2. QED
    BY <2>1, StepKinds, TouchedRefines
<1>3. QED
  BY <1>1, <1>2, Inductive, PTL DEF Spec, RefinesEscrow, Money!Spec
-----------------------------------------------------------------------------
(* What EscrowMoneyProofs proves of Escrow, read with the stage of a deal  *)
(* for stage.                                                              *)
Books == INSTANCE EscrowMoneyProofs WITH stage <- Stage

LEMMA BooksAreTheMoney == Spec => Books!Spec
<1>1. Money!Init => Books!Init
  BY DEF Money!Init, Books!Init
<1>2. Money!Next => Books!Next
  BY DEF Books!Commission, Money!Commission, Books!Price, Money!Price,
         Books!Percent, Money!Percent, Books!ReservedTotal,
         Money!ReservedTotal, Books!EarningOf, Money!EarningOf, Books!PaidFor,
         Money!PaidFor, Books!Posted, Money!Posted, Books!Booked, Money!Booked,
         Books!RequireReserved, Money!RequireReserved, Books!Reserve,
         Money!Reserve, Books!ReserveForOffer, Money!ReserveForOffer,
         Books!ReserveFunds, Money!ReserveFunds, Books!Release, Money!Release,
         Books!Settle, Money!Settle, Books!CompleteDealPayment,
         Money!CompleteDealPayment, Books!SplitDealPayment,
         Money!SplitDealPayment, Books!RefundMinusCommission,
         Money!RefundMinusCommission, Books!InStage, Money!InStage,
         Books!OpenOffer, Money!OpenOffer, Books!CloseOffer, Money!CloseOffer,
         Books!OpenDeal, Money!OpenDeal, Books!SettleDeal, Money!SettleDeal,
         Books!Next, Money!Next
<1>3. UNCHANGED Money!escrowVars => UNCHANGED Books!escrowVars
  BY DEF Money!escrowVars, Books!escrowVars
<1>4. QED
  BY <1>1, <1>2, <1>3, DealsImplementEscrow, PTL DEF RefinesEscrow, Money!Spec, Books!Spec

LEMMA EscrowKept ==
  /\ Books!TermsAssumption /\ Books!PartiesAssumption /\ Books!FundsAssumption
  /\ Books!PercentAssumption /\ Books!RowsAssumption
BY EscrowAssumption
DEF Money!TermsAssumption, Money!PartiesAssumption, Money!FundsAssumption,
    Money!PercentAssumption, Money!RowsAssumption, Money!IsFiniteSet,
    Books!TermsAssumption, Books!PartiesAssumption, Books!FundsAssumption,
    Books!PercentAssumption, Books!RowsAssumption, Books!IsFiniteSet

(* Whatever the parties, the staff and the timers do, over any number of   *)
(* deals: no transition of deals/services.py, with the BillingService call *)
(* it makes, loses or makes money.                                         *)
THEOREM DealsLoseNoMoney == Spec => []Money!MoneyConserved
<1>1. Books!Spec => []Books!MoneyConserved
  BY EscrowKept, Books!NoMoneyMadeOrLost
  DEF Books!TermsAssumption, Books!PartiesAssumption, Books!FundsAssumption,
      Books!PercentAssumption, Books!RowsAssumption
<1>2. Books!MoneyConserved => Money!MoneyConserved
  BY DEF Books!MoneyConserved, Money!MoneyConserved, Books!InWallets,
         Money!InWallets, Books!Revenues, Money!Revenues,
         Books!SumFunctionOnSet, Money!SumFunctionOnSet,
         Books!FoldFunctionOnSet, Money!FoldFunctionOnSet,
         Books!MapThenFoldSet, Money!MapThenFoldSet
<1>3. QED
  BY <1>1, <1>2, BooksAreTheMoney, PTL

(* An advertiser's reserved_balance is what his live offers and deals      *)
(* hold, so that no transition of a deal meets _require_reserved with a    *)
(* balance short of its reservation, whatever became of his other deals.   *)
THEOREM DealsHoldTheirReserve == Spec => []Money!ReservedBalanceIsHeld
<1>1. Books!Spec => []Books!ReservedBalanceIsHeld
  BY EscrowKept, Books!ReservedBalanceMatches
  DEF Books!TermsAssumption, Books!PartiesAssumption, Books!FundsAssumption,
      Books!PercentAssumption, Books!RowsAssumption
<1>2. Books!ReservedBalanceIsHeld => Money!ReservedBalanceIsHeld
  BY DEF Books!ReservedBalanceIsHeld, Money!ReservedBalanceIsHeld, Books!Held,
         Money!Held, Books!ReservedTotal, Money!ReservedTotal, Books!Price,
         Money!Price, Books!Percent, Money!Percent, Books!Commission,
         Money!Commission, Books!SumFunctionOnSet, Money!SumFunctionOnSet,
         Books!FoldFunctionOnSet, Money!FoldFunctionOnSet,
         Books!MapThenFoldSet, Money!MapThenFoldSet
<1>3. QED
  BY <1>1, <1>2, BooksAreTheMoney, PTL

(* Of no deal does the platform keep more than the commission on its full  *)
(* price, whichever way the deal ended.                                    *)
THEOREM DealsPayWithinTerms == Spec => []Money!CommissionWithinTerms
<1>1. Books!Spec => []Books!CommissionWithinTerms
  BY EscrowKept, Books!PlatformShareBounded
  DEF Books!TermsAssumption, Books!PartiesAssumption, Books!FundsAssumption,
      Books!PercentAssumption, Books!RowsAssumption
<1>2. Books!CommissionWithinTerms => Money!CommissionWithinTerms
  BY DEF Books!CommissionWithinTerms, Money!CommissionWithinTerms, Books!Price,
         Money!Price, Books!Percent, Money!Percent, Books!Commission,
         Money!Commission
<1>3. QED
  BY <1>1, <1>2, BooksAreTheMoney, PTL
=============================================================================
