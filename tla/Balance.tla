------------------------------ MODULE Balance -------------------------------
(***************************************************************************)
(* What moves an advertiser's available balance apart from his deals:      *)
(* invoices and refunds (apps/billing/topups.py, services.py), the test    *)
(* credit of a demo account, and the conversions of a CPA deal             *)
(* (apps/web/views/cpa.py).  An offer of the same campaign stands for      *)
(* everything the modules Escrow and Campaigns say of reservations: it     *)
(* competes for the balance and for the budget.                            *)
(*                                                                         *)
(* Operations that lock the rows they change are one step.  Two are not:   *)
(* expire_overdue works through a list read before, and a click commits    *)
(* its log, its conversion and the credit one after the other and may die  *)
(* in between.                                                             *)
(*                                                                         *)
(* Payers' accounts, deadlines, rate limits and notifications are left     *)
(* out: no guard on the money reads them.                                  *)
(***************************************************************************)
EXTENDS Integers, FiniteSets, FiniteSetsExt

CONSTANTS
  Invoices,     \* slots for PaymentInvoice rows
  Refunds,      \* slots for BalanceRefund rows
  Clicks,       \* slots for ClickLog rows of the deal's tracking link
  Goals,        \* what a postback may report: lead, sale, install
  Amounts,      \* sums on a statement, in a request, of a grant
  Demo,         \* User.is_demo
  GrantLimit,   \* TestBalanceGrant.MAX_TOTAL
  ClickPays,    \* the campaign is of CPAType.CLICK
  CpaRate,      \* Campaign.cpa_rate
  CpaFee,       \* the commission on it
  OfferPrice, OfferFee,  \* an offer of the campaign
  Budget        \* of the campaign, less its deals

ASSUME BalanceAssumption ==
  /\ Amounts \subseteq Nat \ {0}
  /\ Demo \in BOOLEAN /\ ClickPays \in BOOLEAN
  /\ GrantLimit \in Nat
  /\ CpaRate \in Nat \ {0} /\ CpaFee \in 0..CpaRate
  /\ OfferPrice \in Nat \ {0} /\ OfferFee \in Nat
  /\ Budget \in Nat
  /\ "click" \notin Goals   \* goal_map of cpa_postback never yields CLICK

\* rows of a table: however many refunds there are, they are finitely many
ASSUME RowsAssumption == IsFiniteSet(Refunds)

VARIABLES
  wallet,     \* available, reserved and onWithdrawal of the advertiser
  performer,  \* what conversions brought the performer
  ledger,     \* sums of the wallet's rows: DEPOSIT, TEST_CREDIT, PAYMENT, PAYOUT
  invoice,    \* per slot: status, overdue, received, deposited (sum of its DEPOSIT rows)
  expiring,   \* invoices a running expire_overdue has listed
  refund,     \* per slot: status, amount, sent (sent_at is set)
  offer,      \* the competing offer
  running,    \* the deal of the tracking link may still be billed
  click,      \* per click, how far its view has come
  conversion, \* credited and uncredited conversions
  billed      \* per click and type, how often it was paid for

vars == <<wallet, performer, ledger, invoice, expiring, refund, offer, running, click, conversion, billed>>
cpaVars == <<performer, click, conversion, billed>>

Types == Goals \cup {"click"}
OpenRefund == {"requested", "needs_info", "sent"}

Committed == Cardinality(conversion.credited) * CpaRate + (IF offer = "pending" THEN OfferPrice ELSE 0)

(***************************************************************************)
(* Invoices.                                                               *)
(***************************************************************************)

\* create_invoice
CreateInvoice(i) ==
  /\ invoice[i].status = "none"
  /\ invoice' = [invoice EXCEPT ![i].status = "issued"]
  /\ UNCHANGED <<wallet, performer, ledger, expiring, refund, offer, running, click, conversion, billed>>

\* expires_at has passed
Lapse(i) ==
  /\ invoice[i].status # "none" /\ ~invoice[i].overdue
  /\ invoice' = [invoice EXCEPT ![i].overdue = TRUE]
  /\ UNCHANGED <<wallet, performer, ledger, expiring, refund, offer, running, click, conversion, billed>>

\* wrong variant: the statement is added to the balance but no row is posted
CreditInvoiceUnposted(i, amount) ==
  /\ invoice[i].status \in {"issued", "expired"}
  /\ wallet' = [wallet EXCEPT !.available = @ + amount]
  /\ invoice' = [invoice EXCEPT ![i].status = "paid", ![i].received = amount]
  /\ UNCHANGED <<performer, ledger, expiring, refund, offer, running, click, conversion, billed>>

\* credit_invoice
CreditInvoice(i, amount) ==
  /\ invoice[i].status \in {"issued", "expired"}
  /\ wallet' = [wallet EXCEPT !.available = @ + amount]
  /\ ledger' = [ledger EXCEPT !.deposit = @ + amount]
  /\ invoice' = [invoice EXCEPT ![i].status = "paid", ![i].received = amount, ![i].deposited = @ + amount]
  /\ UNCHANGED <<performer, expiring, refund, offer, running, click, conversion, billed>>

\* expire_overdue lists the overdue invoices
ScanInvoices ==
  /\ expiring = {}
  /\ expiring' = {i \in Invoices : invoice[i].status = "issued" /\ invoice[i].overdue}
  /\ expiring' # {}
  /\ UNCHANGED <<wallet, performer, ledger, invoice, refund, offer, running, click, conversion, billed>>

\* and writes EXPIRED into each, whatever it is by then
ExpireListed(i) ==
  /\ i \in expiring
  /\ invoice' = [invoice EXCEPT ![i].status = "expired"]
  /\ expiring' = expiring \ {i}
  /\ UNCHANGED <<wallet, performer, ledger, refund, offer, running, click, conversion, billed>>

(***************************************************************************)
(* Refunds of the free balance.                                            *)
(***************************************************************************)

\* request_balance_refund
RequestRefund(r, amount) ==
  /\ refund[r].status = "none"
  /\ \E i \in Invoices : invoice[i].status = "paid"
  /\ wallet.available >= amount
  /\ wallet' = [wallet EXCEPT !.available = @ - amount, !.onWithdrawal = @ + amount]
  /\ refund' = [refund EXCEPT ![r] = [status |-> "requested", amount |-> amount, sent |-> FALSE]]
  /\ UNCHANGED <<performer, ledger, invoice, expiring, offer, running, click, conversion, billed>>

SetRefund(r, from, to) ==
  /\ refund[r].status = from
  /\ refund' = [refund EXCEPT ![r].status = to]
  /\ UNCHANGED <<wallet, performer, ledger, invoice, expiring, offer, running, click, conversion, billed>>

AskForDetails(r) == SetRefund(r, "requested", "needs_info")
UpdateDetails(r) == SetRefund(r, "needs_info", "requested")

\* mark_refund_sent
MarkRefundSent(r) ==
  /\ refund[r].status = "requested"
  /\ refund' = [refund EXCEPT ![r].status = "sent", ![r].sent = TRUE]
  /\ UNCHANGED <<wallet, performer, ledger, invoice, expiring, offer, running, click, conversion, billed>>

\* _return_refund_to_balance
ReturnRefund(r, status) ==
  /\ wallet' = [wallet EXCEPT !.available = @ + refund[r].amount, !.onWithdrawal = @ - refund[r].amount]
  /\ refund' = [refund EXCEPT ![r].status = status]
  /\ UNCHANGED <<performer, ledger, invoice, expiring, offer, running, click, conversion, billed>>

\* wrong variant: whatever is open may be withdrawn
CancelOpenRefund(r) == refund[r].status \in OpenRefund /\ ReturnRefund(r, "cancelled")

\* cancel_balance_refund, can_cancel
CancelRefund(r) == refund[r].status \in {"requested", "needs_info"} /\ ReturnRefund(r, "cancelled")

\* reject_balance_refund: by the staff, or because the bank returned the money
RejectRefund(r) == refund[r].status \in OpenRefund /\ ReturnRefund(r, "rejected")

\* wrong variant: a refund is carried out that the advertiser may still withdraw
CompleteOpenRefund(r) ==
  /\ refund[r].status # "none"
  /\ wallet' = [wallet EXCEPT !.onWithdrawal = @ - refund[r].amount]
  /\ ledger' = [ledger EXCEPT !.payout = @ + refund[r].amount]
  /\ refund' = [refund EXCEPT ![r].status = "done"]
  /\ UNCHANGED <<performer, invoice, expiring, offer, running, click, conversion, billed>>

\* complete_balance_refund
CompleteRefund(r) ==
  /\ refund[r].status = "sent"
  /\ wallet' = [wallet EXCEPT !.onWithdrawal = @ - refund[r].amount]
  /\ ledger' = [ledger EXCEPT !.payout = @ + refund[r].amount]
  /\ refund' = [refund EXCEPT ![r].status = "done"]
  /\ UNCHANGED <<performer, invoice, expiring, offer, running, click, conversion, billed>>

\* grant_test_balance: the sum already granted is read under the wallet's lock
GrantTestBalance(amount) ==
  /\ Demo
  /\ ledger.test + amount <= GrantLimit
  /\ wallet' = [wallet EXCEPT !.available = @ + amount]
  /\ ledger' = [ledger EXCEPT !.test = @ + amount]
  /\ UNCHANGED <<performer, invoice, expiring, refund, offer, running, click, conversion, billed>>

(***************************************************************************)
(* The campaign: an offer that reserves, and the end of the CPA deal.      *)
(***************************************************************************)

\* send_offer with reserve_for_offer
SendOffer ==
  /\ offer = "none"
  /\ OfferPrice <= Budget - Committed
  /\ wallet.available >= OfferPrice + OfferFee
  /\ wallet' = [wallet EXCEPT !.available = @ - OfferPrice - OfferFee, !.reserved = @ + OfferPrice + OfferFee]
  /\ offer' = "pending"
  /\ UNCHANGED <<performer, ledger, invoice, expiring, refund, running, click, conversion, billed>>

\* release_offer
CloseOffer ==
  /\ offer = "pending"
  /\ wallet' = [wallet EXCEPT !.available = @ + OfferPrice + OfferFee, !.reserved = @ - OfferPrice - OfferFee]
  /\ offer' = "closed"
  /\ UNCHANGED <<performer, ledger, invoice, expiring, refund, running, click, conversion, billed>>

\* the deal leaves CPA_BILLABLE_DEAL_STATUSES
EndDeal ==
  /\ running
  /\ running' = FALSE
  /\ UNCHANGED <<wallet, ledger, invoice, expiring, refund, offer, cpaVars>>

(***************************************************************************)
(* Conversions.                                                            *)
(***************************************************************************)

\* wrong variant: the budget is not asked, only the balance
BillableUnbudgeted(c, type) ==
  /\ running
  /\ <<c, type>> \notin conversion.credited
  /\ wallet.available >= CpaRate

\* credit_cpa_conversion goes through: the deal runs, the budget and the balance suffice
Billable(c, type) ==
  /\ running
  /\ <<c, type>> \notin conversion.credited
  /\ CpaRate <= Budget - Committed
  /\ wallet.available >= CpaRate

Credit(c, type) ==
  /\ wallet' = [wallet EXCEPT !.available = @ - CpaRate]
  /\ ledger' = [ledger EXCEPT !.payment = @ + CpaRate]
  /\ performer' = performer + CpaRate - CpaFee
  /\ billed' = [billed EXCEPT ![<<c, type>>] = @ + 1]
  /\ conversion' = [credited |-> conversion.credited \cup {<<c, type>>},
                    uncredited |-> conversion.uncredited \ {<<c, type>>}]

\* cpa_click_track logs the click
LogClick(c) ==
  /\ click[c] = "none"
  /\ click' = [click EXCEPT ![c] = IF ClickPays THEN "logged" ELSE "served"]
  /\ UNCHANGED <<wallet, performer, ledger, invoice, expiring, refund, offer, running, conversion, billed>>

\* then its conversion
ConvertClick(c) ==
  /\ click[c] = "logged"
  /\ click' = [click EXCEPT ![c] = "converted"]
  /\ conversion' = [conversion EXCEPT !.uncredited = @ \cup {<<c, "click">>}]
  /\ UNCHANGED <<wallet, performer, ledger, invoice, expiring, refund, offer, running, billed>>

\* then the credit; a refusal is passed over
CreditClick(c) ==
  /\ click[c] = "converted"
  /\ click' = [click EXCEPT ![c] = "served"]
  /\ \/ Billable(c, "click") /\ Credit(c, "click")
     \/ ~Billable(c, "click") /\ UNCHANGED <<wallet, performer, ledger, conversion, billed>>
  /\ UNCHANGED <<invoice, expiring, refund, offer, running>>

\* the request dies between its steps
LoseClick(c) ==
  /\ click[c] \in {"logged", "converted"}
  /\ click' = [click EXCEPT ![c] = "served"]
  /\ UNCHANGED <<wallet, performer, ledger, invoice, expiring, refund, offer, running, conversion, billed>>

\* wrong variant: a conversion of any type counts as new
PostbackAgain(c, goal) ==
  /\ click[c] # "none"
  /\ running /\ CpaRate <= Budget - Committed /\ wallet.available >= CpaRate
  /\ Credit(c, goal)
  /\ UNCHANGED <<invoice, expiring, refund, offer, running, click>>

\* cpa_postback: creates and credits in one transaction, or leaves nothing behind
Postback(c, goal) ==
  /\ click[c] # "none"
  /\ Billable(c, goal)
  /\ Credit(c, goal)
  /\ UNCHANGED <<invoice, expiring, refund, offer, running, click>>

(***************************************************************************)
(* The specification.                                                      *)
(***************************************************************************)

Init ==
  /\ wallet = [available |-> 0, reserved |-> 0, onWithdrawal |-> 0]
  /\ performer = 0
  /\ ledger = [deposit |-> 0, test |-> 0, payment |-> 0, payout |-> 0]
  /\ invoice = [i \in Invoices |-> [status |-> "none", overdue |-> FALSE, received |-> 0, deposited |-> 0]]
  /\ expiring = {}
  /\ refund = [r \in Refunds |-> [status |-> "none", amount |-> 0, sent |-> FALSE]]
  /\ offer = "none"
  /\ running = TRUE
  /\ click = [c \in Clicks |-> "none"]
  /\ conversion = [credited |-> {}, uncredited |-> {}]
  /\ billed = [paidFor \in Clicks \X Types |-> 0]

Next ==
  \/ \E i \in Invoices :
       \/ CreateInvoice(i) \/ Lapse(i) \/ ExpireListed(i)
       \/ \E amount \in Amounts : CreditInvoice(i, amount)
  \/ ScanInvoices
  \/ \E r \in Refunds :
       \/ \E amount \in Amounts : RequestRefund(r, amount)
       \/ AskForDetails(r) \/ UpdateDetails(r) \/ MarkRefundSent(r)
       \/ CancelRefund(r) \/ RejectRefund(r) \/ CompleteRefund(r)
  \/ \E amount \in Amounts : GrantTestBalance(amount)
  \/ SendOffer \/ CloseOffer \/ EndDeal
  \/ \E c \in Clicks :
       \/ LogClick(c) \/ ConvertClick(c) \/ CreditClick(c) \/ LoseClick(c)
       \/ \E goal \in Goals : Postback(c, goal)

Spec == Init /\ [][Next]_vars

(***************************************************************************)
(* Properties.                                                             *)
(***************************************************************************)

InvoiceRow == [status : {"none", "issued", "paid", "expired"}, overdue : BOOLEAN, received : Nat, deposited : Nat]
RefundRow == [status : OpenRefund \cup {"none", "done", "rejected", "cancelled"}, amount : Nat, sent : BOOLEAN]

\* Balances and ledger sums are never below zero, and every row has a status the services know.
TypeOK ==
  /\ wallet \in [available : Nat, reserved : Nat, onWithdrawal : Nat]
  /\ performer \in Nat
  /\ ledger \in [deposit : Nat, test : Nat, payment : Nat, payout : Nat]
  /\ invoice \in [Invoices -> InvoiceRow]
  /\ expiring \subseteq Invoices
  /\ refund \in [Refunds -> RefundRow]
  /\ offer \in {"none", "pending", "closed"}
  /\ running \in BOOLEAN
  /\ click \in [Clicks -> {"none", "logged", "converted", "served"}]
  /\ conversion \in [credited : SUBSET (Clicks \X Types), uncredited : SUBSET (Clicks \X Types)]
  /\ billed \in [Clicks \X Types -> Nat]

\* what a refund keeps on withdrawal
Outstanding(r) == IF refund[r].status \in OpenRefund THEN refund[r].amount ELSE 0

(***************************************************************************)
(* The wallet is what its rows say it should be, and what is on withdrawal *)
(* is the sum of the refunds still open: a refund withdrawn, refused,      *)
(* returned by the bank or carried out is accounted for exactly once,      *)
(* while offers and conversions use the same balance.                      *)
(***************************************************************************)
BalanceAccounted ==
  /\ wallet.available + wallet.reserved + wallet.onWithdrawal
       = ledger.deposit + ledger.test - ledger.payment - ledger.payout
  /\ wallet.onWithdrawal
       = SumFunctionOnSet([r \in Refunds |-> Outstanding(r)], Refunds)
  /\ wallet.reserved = (IF offer = "pending" THEN OfferPrice + OfferFee ELSE 0)

(***************************************************************************)
(* cpa.py: however often a postback is repeated, in whatever order with    *)
(* the click's own steps, a conversion is paid for once, and the money     *)
(* that left the advertiser is what the marked conversions cost him.       *)
(***************************************************************************)
ConversionPaidOnce ==
  /\ \A c \in Clicks, type \in Types :
       billed[<<c, type>>] = (IF <<c, type>> \in conversion.credited THEN 1 ELSE 0)
  /\ conversion.credited \cap conversion.uncredited = {}
  /\ ledger.payment = CpaRate * Cardinality(conversion.credited)
  /\ performer = (CpaRate - CpaFee) * Cardinality(conversion.credited)

(***************************************************************************)
(* validation.py, budget_committed: the offers and the conversions of a    *)
(* campaign together stay within its budget.                               *)
(***************************************************************************)
SpendWithinBudget == Committed <= Budget

(***************************************************************************)
(* can_cancel: a refund handed to the bank is not withdrawn any more; else *)
(* the sum would be back on the balance while the bank transfers it.       *)
(***************************************************************************)
HandedOverIsNotRecalled == \A r \in Refunds : refund[r].sent => refund[r].status \in {"sent", "done", "rejected"}

(***************************************************************************)
(* tests_topups.py, test_second_credit_refused: an invoice is credited     *)
(* once, so what the row says was received is what was posted for it.      *)
(***************************************************************************)
InvoiceCreditedOnce == \A i \in Invoices : invoice[i].deposited = invoice[i].received
=============================================================================
