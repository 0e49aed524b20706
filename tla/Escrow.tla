------------------------------- MODULE Escrow -------------------------------
(***************************************************************************)
(* The escrow half of BillingService (apps/billing/services.py): what an   *)
(* individual offer and the deal made of it do to the wallets and to the   *)
(* ledger.                                                                 *)
(*                                                                         *)
(* The operations below take the wallet rows with select_for_update inside *)
(* the transaction of their caller, so each is one atomic step.  A         *)
(* ValueError rolls the caller's transaction back: it is a guard here.     *)
(*                                                                         *)
(* Spec is what the money side promises when its callers behave: every     *)
(* reservation is settled at most once.  The variable stage is the         *)
(* caller's view of one offer-then-deal; module Deals instantiates this    *)
(* module with stage computed from its own state and is shown to implement *)
(* Spec.  Amounts are counted in hundredths of a sum, the quantum of every *)
(* DecimalField of the wallets.                                            *)
(***************************************************************************)
EXTENDS Integers, FiniteSets, FiniteSetsExt

CONSTANTS
  Deals,          \* slots: an offer and the deal its acceptance makes
  Users,          \* owners of wallets
  Advertiser,     \* [Deals -> Users]
  Blogger,        \* [Deals -> Users]
  Terms,          \* the terms an offer may carry, as records
  Funds,          \* [Users -> Nat]: available balances before the first offer
  LegacyPercent   \* settings.PLATFORM_COMMISSION_PERCENT

(***************************************************************************)
(* price           the performer's remuneration, deal.amount               *)
(* percent         the commission fixed in the offer                       *)
(* onTop           Deal.commission_on_top: the commission is added to the  *)
(*                 price; otherwise LegacyPercent is kept out of it        *)
(* reservedAtOffer the offer has reserved_at; older offers reserve only    *)
(*                 when the deal is made                                   *)
(***************************************************************************)
ASSUME TermsAssumption ==
  \A t \in Terms :
    /\ t.price \in Nat \ {0}
    /\ t.percent \in 0..100
    /\ t.onTop \in BOOLEAN
    /\ t.reservedAtOffer \in BOOLEAN
    /\ t.onTop => t.reservedAtOffer

ASSUME PartiesAssumption ==
  /\ Advertiser \in [Deals -> Users]
  /\ Blogger \in [Deals -> Users]
  /\ \A d, e \in Deals : Advertiser[d] # Blogger[e]

ASSUME FundsAssumption == Funds \in [Users -> Nat]

ASSUME PercentAssumption == LegacyPercent \in 0..100

\* rows of tables: however many there are, they are finitely many
ASSUME RowsAssumption == IsFiniteSet(Deals) /\ IsFiniteSet(Users)

VARIABLES
  terms,       \* the terms in each slot's offer, a snapshot that never changes
  stage,       \* "none", "offer", "deal", "settled" or "lapsed"
  wallet,      \* Wallet rows: available_balance, reserved_balance, on_withdrawal
  ledger,      \* per slot, the sums of its Transaction rows by type
  dealsCount   \* BloggerProfile.deals_count

escrowVars == <<terms, stage, wallet, ledger, dealsCount>>

Stages == {"none", "offer", "deal", "settled", "lapsed"}

(***************************************************************************)
(* Amounts.                                                                *)
(***************************************************************************)

\* percent of amount, quantized to 0.01 with ROUND_HALF_UP
Commission(amount, percent) == (amount * percent + 50) \div 100

Price(d) == terms[d].price

Percent(d) == IF terms[d].onTop THEN terms[d].percent ELSE LegacyPercent

\* Deal.reserved_total and DirectOffer.reserved_total
ReservedTotal(d) ==
  IF terms[d].onTop THEN Price(d) + Commission(Price(d), Percent(d)) ELSE Price(d)

\* wrong variant: the commission is taken out of the part although it was added on top
EarningLessCommission(d, part) == part - Commission(part, Percent(d))

\* what the performer receives of a part that is paid to him
EarningOf(d, part) ==
  IF terms[d].onTop THEN part ELSE part - Commission(part, Percent(d))

\* what the advertiser pays for that part
PaidFor(d, part) ==
  IF terms[d].onTop THEN part + Commission(part, Percent(d)) ELSE part

(***************************************************************************)
(* Operations.  Each leaves terms alone and says nothing of stage.  A      *)
(* definition marked "wrong variant" stands beside the one it distorts and *)
(* is used by no specification: it is a slip a property must notice.       *)
(***************************************************************************)

\* the balances of user u after the three sums are added to them
Posted(w, u, available, reserved, onWithdrawal) ==
  [w EXCEPT ![u] = [available |-> @.available + available,
                    reserved |-> @.reserved + reserved,
                    onWithdrawal |-> @.onWithdrawal + onWithdrawal]]

\* the Transaction rows an operation writes for slot d, added to its sums
Booked(d, reserve, payment, release, earning) ==
  ledger' = [ledger EXCEPT ![d] = [reserve |-> @.reserve + reserve,
                                   payment |-> @.payment + payment,
                                   release |-> @.release + release,
                                   earning |-> @.earning + earning]]

\* _require_reserved
RequireReserved(d) == wallet[Advertiser[d]].reserved >= ReservedTotal(d)

\* wrong variant: the balance is not looked at before the reservation
ReserveUnchecked(d, amount) ==
  /\ wallet' = Posted(wallet, Advertiser[d], -amount, amount, 0)
  /\ Booked(d, amount, 0, 0, 0)
  /\ UNCHANGED dealsCount

\* available -> reserved and a RESERVE row
Reserve(d, amount) ==
  /\ wallet[Advertiser[d]].available >= amount
  /\ wallet' = Posted(wallet, Advertiser[d], -amount, amount, 0)
  /\ Booked(d, amount, 0, 0, 0)
  /\ UNCHANGED dealsCount

ReserveForOffer(d) == Reserve(d, ReservedTotal(d))

\* the deal of an offer without a reservation: deal.amount, not reserved_total
ReserveFunds(d) == Reserve(d, Price(d))

\* wrong variant: only the price comes back, the commission added on top of it is forgotten
ReleasePriceOnly(d) ==
  /\ RequireReserved(d)
  /\ wallet' = Posted(wallet, Advertiser[d], Price(d), -Price(d), 0)
  /\ Booked(d, 0, 0, Price(d), 0)
  /\ UNCHANGED dealsCount

\* the whole reservation back to available and a RELEASE row; the same for an
\* offer that did not become a deal (release_offer) and a deal (release_funds)
Release(d) ==
  /\ RequireReserved(d)
  /\ wallet' = Posted(wallet, Advertiser[d], ReservedTotal(d), -ReservedTotal(d), 0)
  /\ Booked(d, 0, 0, ReservedTotal(d), 0)
  /\ UNCHANGED dealsCount

\* wrong variant: the payout is registered but its sum also stays on the performer's balance
SettleKeepingBalance(d, paid, earning) ==
  LET rest == ReservedTotal(d) - paid IN
  /\ RequireReserved(d)
  /\ wallet' = Posted(Posted(wallet, Advertiser[d], rest, -ReservedTotal(d), 0),
                      Blogger[d], earning, 0, earning)
  /\ Booked(d, 0, paid, rest, earning)
  /\ dealsCount' = [dealsCount EXCEPT ![Blogger[d]] = @ + 1]

(***************************************************************************)
(* The common shape of a payment to the performer: the reservation leaves  *)
(* reserved_balance, paid of it is spent, the rest returns to available,   *)
(* the earning is credited and at once moved on to on_withdrawal, because  *)
(* _open_deal_payout puts a payout of the whole earning into the register. *)
(***************************************************************************)
Settle(d, paid, earning) ==
  LET rest == ReservedTotal(d) - paid IN
  /\ RequireReserved(d)
  /\ wallet' = Posted(Posted(wallet, Advertiser[d], rest, -ReservedTotal(d), 0),
                      Blogger[d], 0, 0, earning)
  /\ Booked(d, 0, paid, rest, earning)
  /\ dealsCount' = [dealsCount EXCEPT ![Blogger[d]] = @ + 1]

CompleteDealPayment(d) == Settle(d, ReservedTotal(d), EarningOf(d, Price(d)))

\* blogger_part after quantize; outside 0 < part < amount it is a ValueError
SplitDealPayment(d, part) ==
  /\ 0 < part
  /\ part < Price(d)
  /\ Settle(d, PaidFor(d, part), EarningOf(d, part))

\* termination by agreement: the platform keeps the commission on the whole
\* price, the performer gets nothing
RefundMinusCommission(d) ==
  LET kept == Commission(Price(d), Percent(d))
      rest == ReservedTotal(d) - kept
  IN
  /\ RequireReserved(d)
  /\ wallet' = Posted(wallet, Advertiser[d], rest, -ReservedTotal(d), 0)
  /\ Booked(d, 0, kept, rest, 0)
  /\ UNCHANGED dealsCount

(***************************************************************************)
(* The contract with the callers.                                          *)
(***************************************************************************)

\* whether the slot holds a reservation at this point of its life
Held(d) ==
  IF stage[d] = "deal" \/ (stage[d] = "offer" /\ terms[d].reservedAtOffer)
  THEN ReservedTotal(d)
  ELSE 0

InStage(from, d, to) ==
  /\ stage[d] = from
  /\ stage' = [stage EXCEPT ![d] = to]
  /\ UNCHANGED terms

\* send_offer; an offer of an older generation was sent without a reservation
OpenOffer(d) ==
  /\ InStage("none", d, "offer")
  /\ IF terms[d].reservedAtOffer
     THEN ReserveForOffer(d)
     ELSE UNCHANGED <<wallet, ledger, dealsCount>>

\* a pending offer is rejected, expires or loses its campaign (_close_offers)
CloseOffer(d) ==
  /\ InStage("offer", d, "lapsed")
  /\ IF terms[d].reservedAtOffer
     THEN Release(d)
     ELSE UNCHANGED <<wallet, ledger, dealsCount>>

\* wrong variant: every deal reserves when it is made, whether its offer had reserved or not
OpenDealReservingAgain(d) ==
  /\ InStage("offer", d, "deal")
  /\ ReserveFunds(d)

\* create_deal: the reservation of the offer is relinked, or made only now
OpenDeal(d) ==
  /\ InStage("offer", d, "deal")
  /\ IF terms[d].reservedAtOffer
     THEN UNCHANGED <<wallet, ledger, dealsCount>>
     ELSE ReserveFunds(d)

SettleDeal(d) ==
  /\ InStage("deal", d, "settled")
  /\ \/ CompleteDealPayment(d)
     \/ Release(d)
     \/ RefundMinusCommission(d)
     \/ \E part \in 1..(Price(d) - 1) : SplitDealPayment(d, part)

Init ==
  /\ terms \in [Deals -> Terms]
  /\ stage = [d \in Deals |-> "none"]
  /\ wallet = [u \in Users |->
       [available |-> Funds[u], reserved |-> 0, onWithdrawal |-> 0]]
  /\ ledger = [d \in Deals |->
       [reserve |-> 0, payment |-> 0, release |-> 0, earning |-> 0]]
  /\ dealsCount = [u \in Users |-> 0]

Next ==
  \E d \in Deals : OpenOffer(d) \/ CloseOffer(d) \/ OpenDeal(d) \/ SettleDeal(d)

Spec == Init /\ [][Next]_escrowVars

-----------------------------------------------------------------------------
(***************************************************************************)
(* Properties.                                                             *)
(***************************************************************************)

WalletRow == [available : Nat, reserved : Nat, onWithdrawal : Nat]

LedgerRow == [reserve : Nat, payment : Nat, release : Nat, earning : Nat]

(* Types; with Nat for every balance it also says that no operation drives *)
(* a wallet or a ledger sum below zero (Wallet, Transaction rows).         *)
TypeOK ==
  /\ terms \in [Deals -> Terms]
  /\ stage \in [Deals -> Stages]
  /\ wallet \in [Users -> WalletRow]
  /\ ledger \in [Deals -> LedgerRow]
  /\ dealsCount \in [Users -> Nat]

(* Per slot, what the ledger still shows as reserved is the reservation    *)
(* while the offer or the deal is live and nothing once it is over: the    *)
(* reservation is made once and leaves the books exactly once, whichever   *)
(* of the four settlements or the lapse of the offer came.                 *)
LedgerShowsHeld ==
  \A d \in Deals :
    ledger[d].reserve - ledger[d].payment - ledger[d].release = Held(d)

(* reserved_balance of an advertiser is the sum over his live offers and   *)
(* deals.  It is what makes _require_reserved and release_offer never      *)
(* raise, hence what keeps a timer batch from stopping on a ValueError.    *)
ReservedBalanceIsHeld ==
  \A u \in Users :
    wallet[u].reserved
      = SumFunctionOnSet([d \in Deals |-> Held(d)], {d \in Deals : Advertiser[d] = u})

\* all that lies in the wallets, and all that the platform has kept
InWallets(w) ==
  SumFunctionOnSet([u \in Users |-> w[u].available + w[u].reserved + w[u].onWithdrawal], Users)

Revenues(l) == SumFunctionOnSet([d \in Deals |-> l[d].payment - l[d].earning], Deals)

(* No sum is lost or made: what the users deposited is in the wallets or   *)
(* is the platform's revenue (payments less earnings).                     *)
MoneyConserved == InWallets(wallet) + Revenues(ledger) = SumFunctionOnSet(Funds, Users)

(* The platform never keeps more of a slot than the commission on the full *)
(* price, and nothing unless something was paid or terminated: the split,  *)
(* the compensation and both rounding modes stay within the offer's terms. *)
CommissionWithinTerms ==
  \A d \in Deals :
    ledger[d].payment - ledger[d].earning \in 0..Commission(Price(d), Percent(d))

=============================================================================
