# Formal models of the advertising marketplace

This directory models the marketplace of the repository (Django, Celery, PostgreSQL) in TLA+:
advertisers run campaigns, performers ("bloggers") receive individual offers, an accepted offer
becomes a deal, the advertiser's money is held in escrow and is paid out when the deal ends.
TLC checks the models on small instances; TLAPS proves the theorems for every value of the constants.

## 1. The system

| part | code (`src/apps/`) | state | operations | what makes it correct |
|---|---|---|---|---|
| Escrow | `billing/services.py` 15-326, `billing/models.py` | `Wallet` (available, reserved, on withdrawal), `Transaction` rows, `deals_count` | reserve for an offer or a deal, release, pay, split, terminate | a reservation is made once and settled once, no sum is lost or made, commissions stay within the offer's terms |
| Deals | `deals/services.py`, `deals/models.py` | `Deal`, `DealStatusLog` | conclude, creative, approval, publication, confirmation, completion, cancel | no early payment, no payment past a claim, approval and agreed dates respected |
| Claims | same | `Claim`, `ClaimFile` | open, explain, ask for documents, decide, remind | a disputed deal always has one open claim, and the reverse |
| Agreements | same | `TerminationRequest`, `PublicationDateChange` | propose, accept, decline | none outlives the stage of the deal it belongs to |
| Timers | `deals/tasks.py`, `campaigns/tasks.py`, `billing/tasks.py`, beat schedule in `config/settings/base.py` | none of their own: lists in memory | pay, approve, remind, notify, expire | what is due happens although workers die; nothing happens because a list was stale |
| Campaigns | `campaigns/*`, `web/views/campaigns.py`, `web/campaign_proposals.py`, `web/views/admin_panel.py` | `Campaign`, `Response`, `DirectOffer`, `CampaignEditProposal`, invitations | edit, moderate, pause, resume, complete, increase the budget, respond, offer, accept | caps and budget hold, every end of an offer gives back its reserve and closes its response, dates cover what is agreed, what runs has been approved |
| Payouts | `billing/services.py` 265-413, `billing/esf.py`, `billing/payout_requisites.py` | `WithdrawalRequest`, `EInvoice`, `PayoutRequisites`, the receipt on `Deal` | open, approve, complete, reject, reissue, invoice and receipt statuses | the register and the wallet agree, transfers go to approved requisites, their record stays |
| Performers | `web/views/registration.py` 409-615, `web/views/profiles.py`, `profiles/models.py` | `IdentityVerification`, `IPApplication`, `BloggerProfile` | verify, upload, decide, edit the profile | nobody holds a category without its confirmation |
| Top-ups | `billing/topups.py`, `billing/services.py` 416-587 | `PaymentInvoice`, `BalanceRefund`, `TestBalanceGrant` | issue, confirm, expire, refund, grant | every sum is accounted for, an invoice is credited once, what the bank has in hand is not recalled |
| CPA | `web/views/cpa.py`, `billing/services.py` 590-660 | `TrackingLink`, `ClickLog`, `Conversion` | click, postback, credit | a conversion is credited once and within the budget |
| Tariffs | `billing/tariffs.py` | `SpecialTariff` | percent by last month's turnover | monotone tiers |
| Accounts, legal entities, platforms, ratings | `registration/`, `users/`, `platforms/`, `profiles/` | applications, blocks, permits, ratings | forms, moderation, daily expiry, closing of an account | not modelled |
| Notifications, queries, feedback, analytics, pages | the rest | records that no guard reads | output | not modelled |

How they interact: the views, the API and the Celery tasks call the service functions; a transition
of a deal locks the deal row (`select_for_update`), checks the status, then calls `BillingService`,
which locks the wallets, in the same transaction. Offers are concluded under the lock of the offer and
of the campaign. Notifications are made after the commit. Several gunicorn workers and Celery workers
run at once under READ COMMITTED, so what is read outside a lock may be stale when it is used: lists
of a timer, rows of a view without a lock, the second transaction of a confirmation.

What is hard, with lines: `hazards` in `PROJECT.json`.

## 2. The modules

| module | models | state and actions |
|---|---|---|
| `Escrow` | the money of an offer and its deal, for any number of them | `wallet`, `ledger` (the sums of a slot's `Transaction` rows by type), `dealsCount`; one operator per method of `BillingService`; `Spec` is the contract with its callers |
| `Deals` | `deals/services.py`, the offer's ends in `campaigns/services.py`, the working-day terms of `campaigns/validation.py`, the timers | `deal`, `claim`, `change`, `termination` are the rows; `confirming`, `payList`, `approveList`, `reviewList` are what a request or a worker holds in memory; one action per function |
| `Campaigns` | one campaign: `campaigns/services.py`, `campaigns/validation.py`, the views of the advertiser, the performer and the moderator | `campaign`, `proposal`, `response`, `offer`, `invited` are the rows, `available` and `held` the money, `session` what a view has read, `stale` and `overtaken` the history of forms saved late; one action per locked service, two per view |
| `Performer` | a performer's identity, category and confirmations | `verified`, `profile`, `ipApplication` are the rows, `txn` the requests in flight |
| `Payouts` | the register of payouts, requisites, e-invoices and receipts of a performer; EXTENDS `Performer` | `payout`, `wallet`, `paidOut`, `paid`, the documents of a deal, `application` and `approved` requisites; one action per locked service, two for the three that read without a lock |
| `Balance` | an advertiser's free balance: invoices, refunds, test grants, CPA conversions, next to one offer | `wallet`, `performer`, `ledger`, `invoice`, `refund`, `offer`, `click`, `conversion`; `expiring` is the list of the expiry task |
| `SumLemmas` | nothing of the code: sums over finite sets of rows | lemmas |
| `EscrowProofs`, `EscrowMoneyProofs` | theorems of `Escrow`: slot by slot; the sums over all of them | |
| `DealsProofs`, `DealsMoneyProofs` | theorems of `Deals`: the rows of a deal; its money, dates and notices, and the refinement of `Escrow` | |
| `CampaignsProofs`, `PayoutsProofs`, `BalanceProofs` | theorems of `Campaigns`; of `Payouts` with `Performer`; of `Balance` | |
| `MCEscrow`, `MCDeals`, `MCCampaigns`, `MCPayouts`, `MCBalance` | instances for TLC | |

`Deals` instantiates `Escrow` (`Money == INSTANCE Escrow WITH stage <- Stage`). The operations of `Money`
move the money inside the deal's transitions, and `RefinesEscrow` (`Money!Spec`) says that the deals are a
caller as `Escrow` expects one: the abstract specification of the money side, with the variable `stage`
computed from the rows.

Correspondence worth knowing:

* `SendOffer`, `CloseOffer`, `CreateDeal` are `send_offer`; `reject_offer`, the expiry and the end of the
  campaign; `accept_direct_offer` with `create_deal`. The guards that belong to the campaign (its status, caps,
  budget, the term of the answer) are left open: an offer may be accepted or closed at any time.
* `terms` is the snapshot an offer takes. `Terms` is the set of the generations of offers the code still
  serves: package terms (a retention term, the commission on top), reserved offers with approval, and the
  former rules (no reservation before the deal, commission inside the price, payment after 72 hours).
  `retention = 0` stands for NULL.
* `Move` is `_move`, with the closing of the pending proposals it performs.
* A timer is a scan (`ScanPayouts`, `ScanCreatives`, `ScanReviews`) and the treatment of a listed item
  (`PayListed`, `ApproveListed`, `FlagReviews`), each its own step, as in `_run_each` and `_flag_once`.
  `WorkerDies` drops what is left of a list. `remind_claim_decisions` and the two reminders of dates select
  by all their conditions in the statement that locks the rows, so each is one step.
* `ConfirmPublication` and `FinishConfirmation` are the two transactions of `confirm_publication`, with
  `LoseConfirmation` for a request that dies in between. `ViewOverdueDeal` is the fallback in `deal_detail`.
* Of the seven subjects of a claim three classes are told apart, those the code treats differently.
* In `Campaigns` and `Performer` a view without a lock is `XRead` (what it loads and checks) and `XWrite` (what it
  saves). Which fields are saved decides what is lost: `campaign_edit` and `profile_edit` save the whole row they
  read, pause, resume, submit, approve and reject the status alone (`SaveStatus`), the approval of an application
  the flag and sometimes the category. Services and timers run between the halves.
* In `Campaigns` the slots of a rejected or expired offer become free, because no query looks at such rows again.
  The deals are seen from the campaign only (`CreditConversion`, `AcceptPublicationDate`, `DealDisputed`,
  `DealCompleted`, `DealCancelled`): `Deals` has the chains of transitions behind each. Money is the remuneration;
  the commission is in `Escrow`. Days are working days, so the terms are plain sums; the calendar is in `Deals`.
* `CreditConversion` is `credit_cpa_conversion` for a deal of the campaign: it takes the campaign's lock and does not
  ask its status. `AcceptPublicationDate` does not ask it either; it is one step, since the query of `_lock` selects
  the deal for update together with its campaign, whose row PostgreSQL locks with it. Neither keeps a form from
  being saved later by what it was checked against, because a form is checked without a lock.
* The answer to a moderator's proposal is two steps within one transaction (`AnswerProposalWrite`, `ApplyProposal`): the
  proposal row is locked (`ProposalUnlocked`), but the campaign is not, so services run between the check of the
  form and its saving.
* `stale` and `overtaken` are history variables, read by no step. `stale` holds the forms in flight since whose check
  an offer was sent or accepted without a reserve, a date moved or a conversion credited (`Overtakes`); `overtaken`
  says that the terms in force were saved from such a form (`Saves`), until another form is saved.
* In `Deals`, a proposal to terminate names its proposer and `cancelledBy` of a cancelled deal the side that
  accepted: `accept_termination` refuses the proposer.
* An offer sent before reservations existed (`Former`) is pending at the start: it alone reaches the branch of
  `accept_direct_offer` that checks cap and budget and reserves at acceptance.
* `Payouts` and `Performer` share `txn`. The category is read where the code reads it: `esf_required_for` when the
  deal is paid, `receipt_required_for` whenever a payout is about to be carried out. `EsfCategories` is the setting
  `ESF_REQUIRED_CATEGORIES`. The earning of a deal is a constant: `Escrow` says how it comes about. What a performer
  has earned is here what deals have earned; credited conversions, which add to the same balance, are in `Balance`.
* In `Balance` the offer and the deal are two flags: what matters is that they reserve from the balance and take of
  the budget that the conversions compete for.
* Operators marked "wrong variant" distort the definition after them the way a slip in the code would. No
  specification uses them; each is the mutant by which one property is shown not to be vacuous.

Left out of the campaigns: permits, brand documents and the fields of the card (they inform the moderator, whose
approval is a free choice), reminders, the lookalike of `campaign_edit` in the API. Of the payouts: the number of a
receipt, reminders, `sync_waiting` (no provider but the manual one is registered). Of the balance: bank accounts and
working-day deadlines, which no guard reads, and the rate limits of the postbacks.

Left out of the deals on purpose: `auto_cancel_waiting_payment` and the performer's `cancel` (a new deal leaves
`waiting_payment` within the transaction that creates it, so neither is ever enabled); deals in dispute
without a claim row, which only exist from before claims; validation of texts, links and evidence files; the
chat and the status log, which no guard reads; the rating.

## 3. The runs

| run | what it asks | instance |
|---|---|---|
| `escrow` | wallets and ledger: `LedgerShowsHeld`, `ReservedBalanceIsHeld`, `MoneyConserved`, `CommissionWithinTerms` | 3 slots, 1 advertiser, 2 performers, prices small enough that each part is tried and the rounding differs, funds that do not cover everything |
| `deals` | the safety of the deal and `RefinesEscrow` | 1 deal, 4 generations of terms, 4 days with a day off |
| `deals_live` | the timers' duties | 1 deal, package terms with and without approval, 3 days |
| `deals_auto_approval` | violated: `AutoApprovalAfterSilence` | as `deals` |
| `deals_review_notice` | violated: `ReviewNoticeIsTrue` | as `deals` |
| `deals_grounds` | violated: `GroundsAreShown` | as `deals` |
| `campaigns` | `ReserveFollowsOffer`, `LimitKept`, `BudgetCovers`, `AcceptedResponseHasOffer`, `DatesCovered`, `CompletedHoldsNoOffers` | 2 offers, 2 platforms of one performer, 1 response, 2 forms, 3 days, 1 view in flight, conversions of one price |
| `campaigns_unmoderated` | violated: `ActiveMeansApproved` | as above, 2 views in flight |
| `payouts` | `RegisterBalanced`, `PaidToApproved`, `CategoryConfirmed`, `PlatformInvoiceFollowsPayout` | 1 deal, 3 payouts, 1 application, 2 transactions in flight |
| `payouts_record` | violated: `TransferRecordKept` | 2 deals, 2 versions of requisites |
| `balance` | `BalanceAccounted`, `ConversionPaidOnce`, `SpendWithinBudget`, `HandedOverIsNotRecalled` | 2 invoices, 2 refunds, 1 click with 2 goals, 1 offer |
| `balance_invoice` | violated: `InvoiceCreditedOnce` | as above |

Bounds and why they are enough.

* One deal in the runs of `Deals`: deals meet only in the wallets, never in each other's guards; that several
  of them share the wallets is what `escrow` covers with three slots, and `RefinesEscrow` carries it over.
* `MaxDay`: the terms are scaled down (review 1 day, claim 1, retention 1 or 2, check 2) so that each
  comes before, with and after the others within four days; `Tick` also stops when the deal is over.
  `Weekend = {3}` makes working days and calendar days differ. `deals_live` has three days, no day off.
* `Dates`: two dates, so that a date can be moved. `Parts = {7}`: one part; all parts are tried in `escrow`.
* `MaxSubmissions = 2`: the code asks only whether there were at least two. The funds cover one deal.
* `campaigns`: two offers are what it takes to exceed a cap or a budget. An offer costs 2: one form has a budget of 4
  under a cap of one, where the cap alone refuses the second offer; the other a budget of 3 under a cap of two, where
  the budget alone refuses it until the first deal is paid in part or the budget raised. The forms differ in the
  end, so an edit may tighten each. `CpaRate = 2` and funds of 4 make a conversion compete with an offer for budget and
  balance. Three days hold a day before, at and after the earlier end. One view in flight lets every service and
  timer come between its halves; the theorems are about any number. `MCBound` explores credits and endings of
  deals, which touch no response, only while there is no response, to keep the run within minutes.
* The exception `overtaken` in `BudgetCovers`, `LimitKept` and `DatesCovered` is a gap of the code, and one form is
  enough for it. `billing/services.py:616` says of all that a campaign spends "не больше её бюджета — блокировка
  кампании против гонки", `validation.py:383` "Даты кампании покрывают назначенные даты публикаций (Р10)"; but
  `campaign_edit` checks its form without the campaign's lock. Pause, load and check the form with a lower budget (an
  earlier end), let a conversion of a running deal be credited (a moved date be accepted), save the form: the
  budget is less than what is spent (a publication is agreed past the end). TLC finds either trace in eight
  states once the exception is taken out of the invariant. With the exception the invariants say that there is no
  other way: each service, timer and every form not overtaken keeps the bounds.
* `payouts`: three slots hold a payout, its re-issue and a payout of the balance. The two transactions are any pair
  of the deal's payment, the approval of requisites, the payout of the balance and the requests of `Performer`.
* `balance`: amounts 1 and 2 against a rate and an offer of 2 and a budget of 4 exhaust the balance as well as the
  budget; the two goals and the click's own payment are three conversions of one click.
* `CHECK_DEADLOCK FALSE`: every offer, deal, payout and refund comes to an end, after which nothing happens.

Fairness. Celery beat starts each task every hour, so the scans, the reminders and the passing of time are
weakly fair. A worker may die with a list in its hands any number of times, but not for ever: strong fairness of
the treatment of an item. Nothing is assumed of the advertiser, the performer or the staff, and nothing of
`FinishConfirmation` or `ViewOverdueDeal`. The liveness properties speak of terms that fall within the horizon.

The violated properties are what the code's own words say (quoted in `findings`):

* `approve_creative` says that the system approves after 48 hours. `auto_approve_overdue_creatives` lists the
  overdue creatives and `approve_creative` re-checks the status under the lock, but not the age: a creative
  that was rejected and sent again after the list was made is approved without any silence behind it.
* `notify_overdue_reviews` says that the advertiser has not answered. It selects its candidates before the
  transaction and re-checks only the flag: he may have answered in between.
* `compensation_grounds` says that the performer sent the material again and the review term has run out.
  It asks for a deal that is still on approval, but the claim it is shown for has made the deal disputed.

* `campaign_edit` says that a running campaign is changed only through a new moderation. It saves the whole row of a
  form loaded earlier; `admin_campaign_approve` snapshots what it read and saves the status alone. Submit, let the
  moderator open the card, save the old form, let him approve: the campaign runs on terms nobody has seen.
* `complete_withdrawal` says of a payout's requisites that the accountant sent the transfer by them.
  `approve_payout_requisites` lists the waiting payouts without a snapshot, without locking them, and
  writes the new ones over one that was carried out meanwhile by the former ones.
* `expire_overdue` is for unpaid invoices and `credit_invoice` refuses a paid one. The task sets `EXPIRED` by key to
  each invoice of its list, one that was credited meanwhile included, and an expired invoice may be credited.

## 4. The proofs

All leaves are checked by TLAPS (SMT, Zenon, LS4 for the temporal steps); nothing is assumed but the named
assumptions on the constants, which TLC evaluates on every run. Every invariant and every action property
that a passing run checks, and the refinement, is a theorem for every value of the constants; a theorem
that holds only under a condition says so in its statement (`LegacyPercent < 50`, below).

| module | theorems |
|---|---|
| `EscrowProofs` | `EscrowTypes`, `ReservationOnTheBooks`, `PlatformShareBounded` |
| `EscrowMoneyProofs` | `ReservedBalanceMatches`, `NoMoneyMadeOrLost` |
| `DealsProofs` | `DealTypes`, `ClaimAndDealAgree`, `ApprovalIsTheAdvertisers`, `ProposalsEndInTime`, `AgreedDateIsKept` |
| `DealsMoneyProofs` | `NoticesSpeakTrue`, `PaymentsAreNotEarly`, `NobodyLeavesAlone`, `NoMoneyPastClaim`, `OutcomeAndMoneyAgree`, `DealsImplementEscrow`, `DealsLoseNoMoney`, `DealsHoldTheirReserve`, `DealsPayWithinTerms` |
| `CampaignsProofs` | `CampaignTypes`, `ReserveGoesWithOffer`, `NoResponseLeftAccepted`, `CompletedCampaignIsClosed`, `CommitmentsWithinBudget`, `LimitIsKept`, `PublicationsWithinCampaign` |
| `PayoutsProofs` | `PayoutTypesHold`, `RegisterAgreesWithWallet`, `TransfersGoToApproved`, `CommissionInvoiced`, `CategoryNeedsDocument` |
| `BalanceProofs` | `BalanceTypes`, `BalanceAddsUp`, `ConversionsPaidOnce`, `BudgetHolds`, `RefundStaysHandedOver` |

Sums. `SumFunctionOnSet` is a fold; `SumLemmas` derives from its definition, for integer-valued functions on a
finite set, what the other modules use: the sum of nothing, a term taken out, the change at one point,
monotony and the bound of each term. The induction over the finite set is `SubsetInduction`, stated with sets of
sets in place of a predicate. With these the preservation of a sum by a step is a statement about the one
row the step writes. The sets must be finite: `RowsAssumption` of each module says so of the tables
(however many rows, finitely many).

`Escrow`. The inductive invariant of `EscrowProofs` is `TypeOK`, `LedgerShowsHeld`, `CommissionWithinTerms` and
`NothingPaidYet`: without the last (nothing is paid or earned in a slot that is not settled) the bound on the
platform's share would not survive a settlement. The arithmetic of the rounding (a commission on a part is at
most the one on the whole) is in lemmas of its own. `MInv` of `EscrowMoneyProofs` adds the two sums. `Moves(d,
reserved, kept)` says what an operation moves between the free, the reserved, the performer's and the platform's
money; each operation is shown to be a `Moves` whose amount is the change of `Held(d)`.

`Deals`. `DealsProofs`, for any deals, terms, dates and calendar that satisfy `DealTermsAssumption`,
`DaysAssumption` and `CalendarAssumption` (any count of working days ends within three times as many days): all
properties but the types are statements about one deal, so the invariant is `TypeOK` and, of each deal,
`RowInv`: the four properties and the two facts they rest on, that where approval is required the
approval is the advertiser's, and that nothing is published before the check. `RowStep` reduces the
preservation of the invariant by a step of one deal to that deal; `MoveStep` reduces it for a transition by `_move`
to facts about the new row; then there is one lemma per handler or group of alike handlers.

`DealsMoneyProofs` classifies the steps first. `StepKinds` says that a step of `Next` sends an offer, lets it lapse,
concludes it, advances a deal without touching money, pays it because its term has come or the advertiser has
confirmed, decides its claim, cancels it by agreement (the side that accepts is not the one that
proposed) or (former rules only) by one side, changes its
date, raises flags, or lets time pass; each kind carries what the properties ask for: the statuses, the
operation of `Escrow`, the part recorded as paid, the date and the flags. The action properties follow from
the kinds and the rows' invariant. `NoticesAreCurrent` needs `DInv` (an offer not yet sent has no notice, no publication
lies in the future). `OutcomeMatchesMoney` needs `MInv`: nothing is earned and `paid_amount` is empty until a deal
ends (`Outcome`), and `deals_count` is the cardinality of the performer's completed deals.
It is proved under `LegacyPercent < 50`: at 50 percent or more a price of one hundredth leaves a completed deal of the former rules without an earning;
`PLATFORM_COMMISSION_PERCENT` is 15 by default. `DealsImplementEscrow` maps each kind to an operation of `Escrow` or to a
stutter, with `Stage` computed from the rows. `EscrowAssumption` restates, for TLC and the provers, that the shared
constants are what `Escrow` expects. Last, `Books` is `EscrowMoneyProofs` read with `Stage` for `stage`: what is
proved of `Escrow` is carried over to the deals (`DealsLoseNoMoney`, `DealsHoldTheirReserve`,
`DealsPayWithinTerms`).

`Campaigns`, for any offers, responses and forms and any number of views in flight. `IInv` is the properties on the reserve, the
responses and the completed campaign with what they rest on: an offer and its deal move together and
only a completed deal has paid (`OffersSound`), and a view in flight carries rows of the right shape and never
writes the status of a completed campaign back (`SessionsSound`). `BudgetCovers`, `LimitKept` and
`DatesCovered` rest on `LInv`: unless they were saved from an overtaken form, the terms in force cover what is
agreed (`Covers`), and so do the terms of every form in flight that is not stale (`FormsCover`). A step of an offer
or a deal either takes no more than before, so every form still covers (`CoversLess`), or promises something and makes
all forms in flight stale, while its own guards keep the terms in force covering (`LeftCovers`, cited for a new offer,
a credit and a moved date). A form read has been checked by `ParamsValid` (`ValidCovers`), and saving it passes its
cover, or its being stale, on to the campaign (`FormSaved`).

`Payouts` and `Performer`. `IInv` adds to the four properties what the requests in flight carry (`TxnsSound`): the
payment of a deal names a deal not yet paid and requisites that were approved, a form in flight is itself
consistent, and two requests that lock the same row exclude each other. `Grows` is what a step may do to the rows these
entries rely on; a step that respects it leaves the entries of the others sound. The open payouts are a sum.

`Balance`. The invariant is the five properties, that the credited conversions are finitely many (their number times
the rate is what the campaign has spent on them), and that a click whose conversion is still to be written has
not been paid for: a postback reports the other types only (`"click" \notin Goals`).

Checked by TLC only: the liveness properties (`DueIsPaid`, `SilentCreativeMovesOn`, `LateReviewIsNoticed`,
`ExtraDocsComeBack`), since liveness under fairness and ENABLED are out of the prover's reach, and the six properties that
are violated, where there is nothing to prove.

## 5. Plan

Modelled: the escrow, the deals, the campaigns, the payouts with the performer's category, the advertiser's balance
with CPA; their safety is proved. Next, in this order:

1. What the hazards without a property would need: a notification lost between the flag and the message
   (`deals/services.py:743`), an item of a timer's batch that fails with an unexpected error (717).
2. A refinement of the money of `Campaigns` and of `Balance` by `Escrow`, as for the deals.

Not modelled:

* Accounts (legal entities, access, blocking, requests to close an account). Their views write single rows without
  a lock. What one would state (a blocked account stays blocked, a closed account owes and is owed nothing)
  is broken at once by the interleavings listed in `hazards` and by an expired invoice credited later; no
  state of a deal depends on it.
* Platforms and permits: one status each, changed by a moderator and a daily task; campaigns and offers ask only
  for an approved platform, which `Platforms` of `Campaigns` stands for.
* Lock waits: PostgreSQL ends a wait of two transactions for each other by failing one of them.
* Login protection (counters in a cache), profiles and ratings, notifications, queries, feedback, analytics, pages:
  nothing that a guard of the modelled parts reads.
* Tariff tiers: three comparisons; the percent is part of an offer's terms.
