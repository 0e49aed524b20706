------------------------------ MODULE Payouts -------------------------------
(***************************************************************************)
(* The register of payouts to one performer (apps/billing: services.py,    *)
(* payout_requisites.py, esf.py).  A paid deal puts its earning into the   *)
(* register; an accountant carries the payout out or rejects it when the   *)
(* performer has approved requisites and the documents of the deal allow.  *)
(*                                                                         *)
(* complete_withdrawal, reject_withdrawal, reissue_deal_payout and         *)
(* set_status lock what they change: one step each.  Three transactions    *)
(* read what they do not lock and are two steps, XRead and XCommit, joined *)
(* by an entry of txn: the payment of a deal reads the current requisites, *)
(* the approval of requisites lists the payouts that have none, and the    *)
(* payout of a balance reads the balance.  Their writes are seen by others *)
(* only when they commit.                                                  *)
(*                                                                         *)
(* Requisites are versions, compared only for equality.  The number of a   *)
(* receipt, reminders and notifications are left out, and so is            *)
(* sync_waiting: no provider other than the manual one is registered.      *)
(***************************************************************************)
EXTENDS Performer, Sequences, FiniteSetsExt

CONSTANTS
  Deals,            \* deals of the performer that earn him something: no other opens a payout
  Payouts,          \* slots for WithdrawalRequest rows
  Earning,          \* [Deals -> Nat]: what the performer earns by each
  Commission,       \* [Deals -> Nat]: the platform's commission
  Versions,         \* requisites the performer may submit
  Legacy,           \* available balance from before payouts by deal
  EsfCategories,    \* ESF_REQUIRED_CATEGORIES of the settings
  NoVersion         \* the empty snapshot {}

\* WithdrawalRequest.deal of the payout of a balance
NoDeal == "no deal"

ASSUME PayoutAssumption ==
  /\ Earning \in [Deals -> Nat \ {0}]
  /\ Commission \in [Deals -> Nat]
  /\ Legacy \in Nat
  /\ EsfCategories \subseteq Categories
  /\ NoVersion \notin Versions
  /\ NoDeal \notin Deals

\* rows of tables: however many there are, they are finitely many
ASSUME RowsAssumption == IsFiniteSet(Deals) /\ IsFiniteSet(Payouts)

VARIABLES
  payout,       \* WithdrawalRequest rows: status, deal, amount, requisites
  wallet,       \* available and onWithdrawal of the performer
  paidOut,      \* the sum of PAYOUT rows
  paid,         \* deals paid for
  performerEsf, \* per deal, EInvoice of kind PERFORMER
  platformEsf,  \* per deal, EInvoice of kind PLATFORM
  receipt,      \* deals whose receipt is confirmed
  application,  \* the pending PayoutRequisites, or NoVersion
  approved      \* versions approved so far, the current one last

payoutVars == <<payout, wallet, paidOut, paid, performerEsf, platformEsf, receipt, application, approved>>
vars == <<payoutVars, verified, profile, ipApplication, txn>>
documents == <<performerEsf, platformEsf, receipt>>

BlankPayout == [status |-> "none", deal |-> NoDeal, amount |-> 0, requisites |-> NoVersion]

\* MISMATCH blocks as REJECTED does and is counted with it
PerformerStatuses == {"waiting", "confirmed", "rejected", "not_required"}
PlatformStatuses == {"to_issue", "confirmed"}

\* esf_required_for and receipt_required_for, by the category of now
EsfRequired == profile.category \in EsfCategories
ReceiptRequired == profile.category = "self_employed"

(***************************************************************************)
(* What the code reads off the rows.                                       *)
(***************************************************************************)

CurrentRequisites == IF approved = <<>> THEN NoVersion ELSE approved[Len(approved)]

EffectiveRequisites(p) ==
  IF payout[p].requisites # NoVersion THEN payout[p].requisites ELSE CurrentRequisites

\* wrong variant: only the documents are asked for
ReadyByDocuments(p) ==
  payout[p].deal # NoDeal =>
    /\ performerEsf[payout[p].deal] \notin {"waiting", "rejected"}
    /\ ReceiptRequired => payout[p].deal \in receipt

\* blocked_reasons is empty
Ready(p) ==
  /\ EffectiveRequisites(p) # NoVersion
  /\ payout[p].deal # NoDeal =>
       /\ performerEsf[payout[p].deal] \notin {"waiting", "rejected"}
       /\ ReceiptRequired => payout[p].deal \in receipt

OpenPayout(d) == \E p \in Payouts : payout[p].deal = d /\ payout[p].status \in {"pending", "completed"}

\* process_withdrawal: a new pending row, available -> on_withdrawal
NewPayout(w, p, d, amount, requisites) ==
  /\ payout[p].status = "none"
  /\ w.available >= amount
  /\ payout' = [payout EXCEPT ![p] = [status |-> "pending", deal |-> d, amount |-> amount,
                                     requisites |-> requisites]]
  /\ wallet' = [available |-> w.available - amount, onWithdrawal |-> w.onWithdrawal + amount]

(***************************************************************************)
(* The deal is paid: complete_deal_payment or split_deal_payment with      *)
(* _open_deal_payout, then open_for_deal.                                  *)
(***************************************************************************)
PayDealRead(d) ==
  /\ d \notin paid
  /\ \A t \in InFlight("pay") : txn[t].deal # d
  /\ Begin([kind |-> "pay", deal |-> d, requisites |-> CurrentRequisites])
  /\ UNCHANGED <<payout, wallet, paidOut, paid, documents, application, approved>>

PayDealCommit(t) ==
  LET d == txn[t].deal
      credited == [wallet EXCEPT !.available = @ + Earning[d]]
  IN /\ txn[t].kind = "pay"
     /\ \E p \in Payouts : NewPayout(credited, p, d, Earning[d], txn[t].requisites)
     /\ paid' = paid \cup {d}
     /\ performerEsf' = [performerEsf EXCEPT ![d] = IF EsfRequired THEN "waiting" ELSE "not_required"]
     /\ End(t)
     /\ UNCHANGED <<paidOut, platformEsf, receipt, application, approved>>

(***************************************************************************)
(* Requisites.                                                             *)
(***************************************************************************)

\* submit_payout_requisites; one_pending_payout_requisites_per_user
SubmitRequisites(v) ==
  /\ verified
  /\ application = NoVersion
  /\ v \notin {approved[i] : i \in DOMAIN approved}
  /\ application' = v
  /\ UNCHANGED <<payout, wallet, paidOut, paid, documents, approved, txn>>

\* approve_payout_requisites locks the application and lists the payouts without a snapshot
ApproveRead ==
  /\ application # NoVersion
  /\ InFlight("requisites") = {}
  /\ Begin([kind |-> "requisites",
            rows |-> {p \in Payouts : payout[p].status = "pending" /\ payout[p].requisites = NoVersion}])
  /\ UNCHANGED <<payout, wallet, paidOut, paid, documents, application, approved>>

\* the listed rows are saved with the snapshot, whatever became of them since
ApproveCommit(t) ==
  /\ txn[t].kind = "requisites"
  /\ payout' = [p \in Payouts |-> IF p \in txn[t].rows
                                  THEN [payout[p] EXCEPT !.requisites = application] ELSE payout[p]]
  /\ approved' = Append(approved, application)
  /\ application' = NoVersion
  /\ End(t)
  /\ UNCHANGED <<wallet, paidOut, paid, documents>>

\* reject_payout_requisites; the application is locked by an approval in flight
RejectRequisites ==
  /\ application # NoVersion
  /\ InFlight("requisites") = {}
  /\ application' = NoVersion
  /\ UNCHANGED <<payout, wallet, paidOut, paid, documents, approved, txn>>

(***************************************************************************)
(* The register.                                                           *)
(***************************************************************************)

\* wrong variant: the commission document is issued with the payout's creation in mind, not the payout
CompleteWithdrawalSilently(p) ==
  /\ payout[p].status = "pending"
  /\ Ready(p)
  /\ wallet.onWithdrawal >= payout[p].amount
  /\ wallet' = [wallet EXCEPT !.onWithdrawal = @ - payout[p].amount]
  /\ paidOut' = paidOut + payout[p].amount
  /\ payout' = [payout EXCEPT ![p].status = "completed", ![p].requisites = EffectiveRequisites(p)]
  /\ UNCHANGED <<paid, documents, application, approved, txn>>

\* complete_withdrawal, with open_platform_einvoice
CompleteWithdrawal(p) ==
  /\ payout[p].status = "pending"
  /\ Ready(p)
  /\ wallet.onWithdrawal >= payout[p].amount
  /\ wallet' = [wallet EXCEPT !.onWithdrawal = @ - payout[p].amount]
  /\ paidOut' = paidOut + payout[p].amount
  /\ payout' = [payout EXCEPT ![p].status = "completed", ![p].requisites = EffectiveRequisites(p)]
  /\ platformEsf' = [d \in Deals |->
       IF d = payout[p].deal /\ Commission[d] > 0 /\ platformEsf[d] = "none"
       THEN "to_issue" ELSE platformEsf[d]]
  /\ UNCHANGED <<paid, performerEsf, receipt, application, approved, txn>>

\* wrong variant: the sum is returned but the row stays in the register
RejectWithdrawalInPlace(p) ==
  /\ payout[p].status = "pending"
  /\ wallet.onWithdrawal >= payout[p].amount
  /\ wallet' = [available |-> wallet.available + payout[p].amount,
                onWithdrawal |-> wallet.onWithdrawal - payout[p].amount]
  /\ UNCHANGED <<payout, paidOut, paid, documents, application, approved, txn>>

\* reject_withdrawal and refund
RejectWithdrawal(p) ==
  /\ payout[p].status = "pending"
  /\ wallet.onWithdrawal >= payout[p].amount
  /\ wallet' = [available |-> wallet.available + payout[p].amount,
                onWithdrawal |-> wallet.onWithdrawal - payout[p].amount]
  /\ payout' = [payout EXCEPT ![p].status = "rejected"]
  /\ UNCHANGED <<paidOut, paid, documents, application, approved, txn>>

\* wrong variant: it is not asked whether the balance still holds the sum
ReissueUncovered(d) ==
  /\ ~OpenPayout(d)
  /\ \E last \in Payouts :
       /\ payout[last].deal = d /\ payout[last].status = "rejected"
       /\ \E p \in Payouts :
            /\ payout[p].status = "none"
            /\ payout' = [payout EXCEPT ![p] = [status |-> "pending", deal |-> d,
                                               amount |-> payout[last].amount,
                                               requisites |-> CurrentRequisites]]
       /\ wallet' = [available |-> wallet.available - payout[last].amount,
                     onWithdrawal |-> wallet.onWithdrawal + payout[last].amount]
  /\ UNCHANGED <<paidOut, paid, documents, application, approved, txn>>

\* reissue_deal_payout: every payout of a deal has the same sum
Reissue(d) ==
  /\ ~OpenPayout(d)
  /\ \E last, p \in Payouts :
       /\ payout[last].deal = d /\ payout[last].status = "rejected"
       /\ NewPayout(wallet, p, d, payout[last].amount, CurrentRequisites)
  /\ UNCHANGED <<paidOut, paid, documents, application, approved, txn>>

\* admin_withdrawal_legacy_balance reads the balance without a lock
LegacyBalanceRead ==
  /\ wallet.available > 0
  /\ Begin([kind |-> "balance", amount |-> wallet.available])
  /\ UNCHANGED <<payout, wallet, paidOut, paid, documents, application, approved>>

\* create_withdrawal_request; too small a balance or no requisites end it without effect
LegacyBalanceCommit(t) ==
  /\ txn[t].kind = "balance"
  /\ \/ /\ CurrentRequisites # NoVersion
        /\ \E p \in Payouts : NewPayout(wallet, p, NoDeal, txn[t].amount, CurrentRequisites)
     \/ /\ CurrentRequisites = NoVersion \/ wallet.available < txn[t].amount
        /\ UNCHANGED <<payout, wallet>>
  /\ End(t)
  /\ UNCHANGED <<paidOut, paid, documents, application, approved>>

(***************************************************************************)
(* Documents of a deal.                                                    *)
(***************************************************************************)

\* set_status for the performer's e-invoice
SetPerformerStatus(d, status) ==
  /\ performerEsf[d] # "none"
  /\ performerEsf[d] # status
  /\ performerEsf' = [performerEsf EXCEPT ![d] = status]
  /\ UNCHANGED <<payout, wallet, paidOut, paid, platformEsf, receipt, application, approved, txn>>

\* set_status for the platform's
SetPlatformStatus(d, status) ==
  /\ platformEsf[d] # "none"
  /\ platformEsf[d] # status
  /\ platformEsf' = [platformEsf EXCEPT ![d] = status]
  /\ UNCHANGED <<payout, wallet, paidOut, paid, performerEsf, receipt, application, approved, txn>>

\* confirm_receipt, from the register's row of the deal
ConfirmReceipt(d) ==
  /\ d \in paid /\ d \notin receipt
  /\ receipt' = receipt \cup {d}
  /\ UNCHANGED <<payout, wallet, paidOut, paid, performerEsf, platformEsf, application, approved, txn>>

(***************************************************************************)
(* The specification.                                                      *)
(***************************************************************************)

Init ==
  /\ payout = [p \in Payouts |-> BlankPayout]
  /\ wallet = [available |-> Legacy, onWithdrawal |-> 0]
  /\ paidOut = 0
  /\ paid = {}
  /\ performerEsf = [d \in Deals |-> "none"]
  /\ platformEsf = [d \in Deals |-> "none"]
  /\ receipt = {}
  /\ application = NoVersion
  /\ approved = <<>>
  /\ PerformerInit

PayoutNext ==
  \/ \E d \in Deals :
       \/ PayDealRead(d) \/ Reissue(d) \/ ConfirmReceipt(d)
       \/ \E status \in PerformerStatuses : SetPerformerStatus(d, status)
       \/ \E status \in PlatformStatuses : SetPlatformStatus(d, status)
  \/ \E p \in Payouts : CompleteWithdrawal(p) \/ RejectWithdrawal(p)
  \/ \E v \in Versions : SubmitRequisites(v)
  \/ ApproveRead \/ RejectRequisites \/ LegacyBalanceRead
  \/ \E t \in Txns : PayDealCommit(t) \/ ApproveCommit(t) \/ LegacyBalanceCommit(t)

Next ==
  \/ PayoutNext /\ UNCHANGED profileVars
  \/ PerformerNext /\ UNCHANGED payoutVars

Spec == Init /\ [][Next]_vars

(***************************************************************************)
(* Properties.                                                             *)
(***************************************************************************)

Rows == [status : {"none", "pending", "rejected", "completed"}, deal : Deals \cup {NoDeal},
         amount : Nat, requisites : Versions \cup {NoVersion}]

\* The rows keep their shape and no balance goes below zero.
TypeOK ==
  /\ payout \in [Payouts -> Rows]
  /\ wallet \in [available : Nat, onWithdrawal : Nat]
  /\ paidOut \in Nat
  /\ paid \subseteq Deals
  /\ performerEsf \in [Deals -> PerformerStatuses \cup {"none"}]
  /\ platformEsf \in [Deals -> PlatformStatuses \cup {"none"}]
  /\ receipt \subseteq Deals
  /\ application \in Versions \cup {NoVersion}
  /\ approved \in Seq(Versions)
  /\ PerformerTypeOK

\* what payout p adds to the sum of the payouts in a status
Share(p, status) == IF payout[p].status = status THEN payout[p].amount ELSE 0

Sum(status) == SumFunctionOnSet([p \in Payouts |-> Share(p, status)], Payouts)

(***************************************************************************)
(* The register and the wallet agree: what is on withdrawal is the sum of  *)
(* the payouts that wait, what left is the sum of those carried out, and   *)
(* the rest of everything earned is available.  Payment, rejection, a new  *)
(* payout after a rejection and the payout of a balance read before may    *)
(* come in any order.                                                      *)
(***************************************************************************)
RegisterBalanced ==
  /\ wallet.onWithdrawal = Sum("pending")
  /\ paidOut = Sum("completed")
  /\ wallet.available + wallet.onWithdrawal + paidOut
       = Legacy + SumFunctionOnSet(Earning, paid)

(***************************************************************************)
(* complete_withdrawal sends money by requisites only that the staff had   *)
(* approved, and the row that records the transfer says so afterwards,     *)
(* though the performer may submit new ones and an approval may write into *)
(* rows it listed before.                                                  *)
(***************************************************************************)
PaidToApproved ==
  \A p \in Payouts :
    payout[p].status = "completed" => payout[p].requisites \in {approved[i] : i \in DOMAIN approved}

(***************************************************************************)
(* open_platform_einvoice: the platform's document for its commission is   *)
(* there exactly when the payout of the deal has been carried out, however *)
(* often the payout was rejected and issued again before.                  *)
(***************************************************************************)
PlatformInvoiceFollowsPayout ==
  \A d \in Deals :
    platformEsf[d] # "none" <=>
      /\ Commission[d] > 0
      /\ \E p \in Payouts : payout[p].deal = d /\ payout[p].status = "completed"

(***************************************************************************)
(* The comment in complete_withdrawal: the snapshot of a payout carried    *)
(* out is what the accountant sent the transfer by.  Nothing may write     *)
(* other requisites into such a row.                                       *)
(***************************************************************************)
TransferRecordKept ==
  [][\A p \in Payouts :
       payout[p].status = "completed" => payout'[p].requisites = payout[p].requisites]_payout
=============================================================================
