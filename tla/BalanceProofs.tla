--------------------------- MODULE BalanceProofs ----------------------------
(***************************************************************************)
(* Theorems about Balance for every number of invoices, refunds and        *)
(* clicks, every goal, rate, price and budget.                             *)
(***************************************************************************)
EXTENDS Balance, SumLemmas

-----------------------------------------------------------------------------
(* What the properties lack to be inductive: the conversions paid for are  *)
(* finitely many, so that one more makes their number grow by one; and a   *)
(* click whose conversion is still to be written has not been paid for,    *)
(* since a postback reports the other types only.                          *)
CreditsFinite == IsFiniteSet(conversion.credited)

ClickNotYetPaid ==
  \A c \in Clicks : click[c] \in {"none", "logged"} => <<c, "click">> \notin conversion.credited

IInv ==
  /\ TypeOK
  /\ CreditsFinite
  /\ ClickNotYetPaid
  /\ BalanceAccounted
  /\ ConversionPaidOnce
  /\ SpendWithinBudget
  /\ HandedOverIsNotRecalled

(* One refund of the sum on withdrawal changes, the others stay.           *)
OnHold == SumFunctionOnSet([r \in Refunds |-> Outstanding(r)], Refunds)

LEMMA OutstandingNat ==
  ASSUME TypeOK
  PROVE  /\ \A r \in Refunds : Outstanding(r) \in Nat /\ refund[r].amount \in Nat
         /\ OnHold \in Nat
         /\ \A r \in Refunds : Outstanding(r) <= OnHold
<1> DEFINE f == [r \in Refunds |-> Outstanding(r)]
<1>1. \A r \in Refunds : Outstanding(r) \in Nat /\ refund[r].amount \in Nat
  BY DEF TypeOK, RefundRow, Outstanding
<1>2. \A r \in Refunds : f[r] = Outstanding(r) /\ f[r] \in Nat
  BY <1>1
<1> HIDE DEF f
<1>3. SumFunctionOnSet(f, Refunds) \in Nat
  BY <1>2, RowsAssumption, SumNat
<1>4. \A r \in Refunds : f[r] <= SumFunctionOnSet(f, Refunds)
  BY <1>2, RowsAssumption, SummandBounded
<1>5. QED
  BY <1>1, <1>2, <1>3, <1>4 DEF OnHold, f

LEMMA OneRefundChanges ==
  ASSUME TypeOK, TypeOK', NEW r \in Refunds, \A s \in Refunds \ {r} : refund'[s] = refund[s]
  PROVE  OnHold' = OnHold - Outstanding(r) + Outstanding(r)'
<1> DEFINE f == [s \in Refunds |-> Outstanding(s)]
           g == [s \in Refunds |-> Outstanding(s)']
<1>1. \A s \in Refunds : f[s] \in Int
  BY OutstandingNat
<1>2. g[r] \in Int
  BY DEF TypeOK, RefundRow, Outstanding
<1>3. \A s \in Refunds \ {r} : g[s] = f[s]
  BY DEF Outstanding
<1>4. SumFunctionOnSet(g, Refunds) = SumFunctionOnSet(f, Refunds) - f[r] + g[r]
  <2> HIDE DEF f, g
  <2> QED BY <1>1, <1>2, <1>3, RowsAssumption, SumChange
<1>5. QED
  BY <1>4 DEF OnHold

LEMMA NoRefundChanges ==
  ASSUME refund' = refund
  PROVE  OnHold' = OnHold
  BY DEF OnHold, Outstanding

-----------------------------------------------------------------------------
(* Paying for a conversion makes the number of paid ones grow by one.      *)
LEMMA CountType ==
  ASSUME CreditsFinite
  PROVE  /\ Cardinality(conversion.credited) \in Nat
         /\ Cardinality(conversion.credited) * CpaRate \in Nat
         /\ Committed \in Nat
<1>1. Cardinality(conversion.credited) \in Nat
  BY FS_CardinalityType DEF CreditsFinite
<1>2. \A n \in Nat : n * CpaRate \in Nat
  BY BalanceAssumption
<1>3. QED
  BY <1>1, <1>2, BalanceAssumption DEF Committed

LEMMA OneMorePaid ==
  ASSUME TypeOK, CreditsFinite, NEW c \in Clicks, NEW type \in Types,
         <<c, type>> \notin conversion.credited, Credit(c, type)
  PROVE  /\ CreditsFinite'
         /\ Cardinality(conversion.credited)' = Cardinality(conversion.credited) + 1
         /\ offer' = offer => Committed' = Committed + CpaRate
<1> DEFINE n == Cardinality(conversion.credited)
<1>1. conversion'.credited = conversion.credited \cup {<<c, type>>}
  BY DEF Credit
<1>2. /\ IsFiniteSet(conversion'.credited)
      /\ Cardinality(conversion'.credited) = n + 1
  BY <1>1, FS_AddElement DEF CreditsFinite
<1>3. ASSUME offer' = offer
      PROVE  Committed' = Committed + CpaRate
  <2>1. n \in Nat
    BY CountType
  <2>2. \A k \in Nat : (k + 1) * CpaRate = k * CpaRate + CpaRate /\ k * CpaRate \in Nat
    BY BalanceAssumption
  <2>3. Cardinality(conversion'.credited) * CpaRate = n * CpaRate + CpaRate
    <3> HIDE DEF n
    <3> QED BY <1>2, <2>1, <2>2
  <2>4. QED
    BY <1>3, <2>1, <2>2, <2>3, BalanceAssumption DEF Committed
<1>4. QED
  BY <1>2, <1>3 DEF CreditsFinite

-----------------------------------------------------------------------------
(* The rows written, field by field.                                       *)
Wallets == [available : Nat, reserved : Nat, onWithdrawal : Nat]
Ledgers == [deposit : Nat, test : Nat, payment : Nat, payout : Nat]

LEMMA WalletFields ==
  ASSUME NEW w \in Wallets, NEW a \in Nat, NEW r \in Nat, NEW o \in Nat
  PROVE  /\ [w EXCEPT !.available = a] \in Wallets
         /\ [w EXCEPT !.onWithdrawal = o] \in Wallets
         /\ [w EXCEPT !.available = a, !.onWithdrawal = o] \in Wallets
         /\ [w EXCEPT !.available = a, !.reserved = r] \in Wallets
  BY DEF Wallets

LEMMA InvoiceFields ==
  ASSUME NEW v \in [Invoices -> InvoiceRow], NEW i \in Invoices, NEW n \in Nat, NEW m \in Nat
  PROVE  [v EXCEPT ![i].status = "paid", ![i].received = n, ![i].deposited = m]
           \in [Invoices -> InvoiceRow]
<1> DEFINE row == [v[i] EXCEPT !.status = "paid", !.received = n, !.deposited = m]
<1>1. v[i] \in InvoiceRow
  OBVIOUS
<1>2. row \in InvoiceRow
  BY <1>1 DEF InvoiceRow
<1>3. [v EXCEPT ![i] = row] \in [Invoices -> InvoiceRow]
  <2> HIDE DEF row
  <2> QED BY <1>2
<1>4. [v EXCEPT ![i] = row]
        = [v EXCEPT ![i].status = "paid", ![i].received = n, ![i].deposited = m]
  OBVIOUS
<1>5. QED
  BY <1>3, <1>4

LEMMA LedgerFields ==
  ASSUME NEW l \in Ledgers, NEW n \in Nat
  PROVE  /\ [l EXCEPT !.deposit = n] \in Ledgers
         /\ [l EXCEPT !.test = n] \in Ledgers
         /\ [l EXCEPT !.payment = n] \in Ledgers
         /\ [l EXCEPT !.payout = n] \in Ledgers
  BY DEF Ledgers

-----------------------------------------------------------------------------
(* Types.  A balance stays a natural number because the guards look at     *)
(* what is free, and because what is on withdrawal and what is reserved    *)
(* are known sums (BalanceAccounted).                                      *)
LEMMA TypeInvoice ==
  ASSUME TypeOK, NEW i \in Invoices,
         \/ CreateInvoice(i) \/ Lapse(i) \/ ExpireListed(i)
         \/ \E amount \in Amounts : CreditInvoice(i, amount)
  PROVE  TypeOK'
<1>1. /\ invoice[i] \in InvoiceRow
      /\ \A amount \in Amounts : amount \in Nat
      /\ wallet \in Wallets
      /\ wallet.available \in Nat
      /\ ledger \in Ledgers
      /\ ledger.deposit \in Nat
  BY BalanceAssumption DEF TypeOK, Wallets, Ledgers
<1>2. CASE CreateInvoice(i)
  <2>1. invoice' \in [Invoices -> InvoiceRow]
    BY <1>1, <1>2 DEF CreateInvoice, TypeOK, InvoiceRow
  <2>2. QED
    BY <1>2, <2>1 DEF CreateInvoice, TypeOK
<1>3. CASE Lapse(i)
  <2>1. invoice' \in [Invoices -> InvoiceRow]
    BY <1>1, <1>3 DEF Lapse, TypeOK, InvoiceRow
  <2>2. QED
    BY <1>3, <2>1 DEF Lapse, TypeOK
<1>4. CASE ExpireListed(i)
  <2>1. invoice' \in [Invoices -> InvoiceRow]
    BY <1>1, <1>4 DEF ExpireListed, TypeOK, InvoiceRow
  <2>2. QED
    BY <1>4, <2>1 DEF ExpireListed, TypeOK
<1>5. ASSUME NEW amount \in Amounts, CreditInvoice(i, amount)
      PROVE  TypeOK'
  <2>1. invoice' \in [Invoices -> InvoiceRow]
    <3>1. /\ invoice[i].deposited \in Nat /\ amount \in Nat
          /\ invoice[i].overdue \in BOOLEAN
      BY <1>1 DEF InvoiceRow
    <3>2. invoice' = [invoice EXCEPT ![i].status = "paid", ![i].received = amount,
                                     ![i].deposited = invoice[i].deposited + amount]
      BY <1>5 DEF CreditInvoice
    <3>3. invoice[i].deposited + amount \in Nat /\ invoice \in [Invoices -> InvoiceRow]
      BY <3>1 DEF TypeOK
    <3>4. QED
      BY <3>1, <3>2, <3>3, InvoiceFields
  <2>2. wallet' \in Wallets /\ ledger' \in Ledgers
    <3>1. /\ wallet' = [wallet EXCEPT !.available = wallet.available + amount]
          /\ ledger' = [ledger EXCEPT !.deposit = ledger.deposit + amount]
      BY <1>1, <1>5 DEF CreditInvoice, Wallets, Ledgers
    <3>2. wallet.available + amount \in Nat /\ ledger.deposit + amount \in Nat
      BY <1>1
    <3>3. QED
      BY <1>1, <3>1, <3>2, WalletFields, LedgerFields
  <2>3. QED
    BY <1>5, <2>1, <2>2 DEF CreditInvoice, TypeOK, Wallets, Ledgers
<1>6. QED
  BY <1>2, <1>3, <1>4, <1>5

LEMMA TypeRefund ==
  ASSUME IInv, NEW r \in Refunds,
         \/ \E amount \in Amounts : RequestRefund(r, amount)
         \/ AskForDetails(r) \/ UpdateDetails(r) \/ MarkRefundSent(r)
         \/ CancelRefund(r) \/ RejectRefund(r) \/ CompleteRefund(r)
  PROVE  TypeOK'
<1>1. /\ TypeOK
      /\ refund \in [Refunds -> RefundRow]
      /\ refund[r] \in RefundRow
      /\ \A amount \in Amounts : amount \in Nat
      /\ wallet \in Wallets
      /\ wallet.available \in Nat /\ wallet.onWithdrawal \in Nat
      /\ ledger \in Ledgers
      /\ ledger.payout \in Nat
      /\ refund[r].amount \in Nat
  BY BalanceAssumption DEF IInv, TypeOK, Wallets, Ledgers, RefundRow
<1>2. refund[r].status \in OpenRefund => refund[r].amount <= wallet.onWithdrawal
  BY <1>1, OutstandingNat DEF IInv, BalanceAccounted, OnHold, Outstanding
<1>3. ASSUME NEW status \in {"cancelled", "rejected"}, refund[r].status \in OpenRefund,
             ReturnRefund(r, status)
      PROVE  TypeOK'
  <2>1. refund' \in [Refunds -> RefundRow]
    BY <1>1, <1>3 DEF ReturnRefund, RefundRow
  <2>2. wallet' \in Wallets
    <3>1. wallet' = [wallet EXCEPT !.available = wallet.available + refund[r].amount,
                                   !.onWithdrawal = wallet.onWithdrawal - refund[r].amount]
      BY <1>1, <1>3 DEF ReturnRefund, Wallets
    <3>2. /\ wallet.available + refund[r].amount \in Nat
          /\ wallet.onWithdrawal - refund[r].amount \in Nat
      BY <1>1, <1>2, <1>3
    <3>3. QED
      BY <1>1, <3>1, <3>2, WalletFields
  <2>3. QED
    BY <1>1, <1>3, <2>1, <2>2 DEF ReturnRefund, TypeOK, Wallets
<1>4. ASSUME NEW amount \in Amounts, RequestRefund(r, amount)
      PROVE  TypeOK'
  <2>1. refund' \in [Refunds -> RefundRow]
    BY <1>1, <1>4 DEF RequestRefund, RefundRow, OpenRefund
  <2>2. wallet' \in Wallets
    <3>1. wallet' = [wallet EXCEPT !.available = wallet.available - amount,
                                   !.onWithdrawal = wallet.onWithdrawal + amount]
      BY <1>1, <1>4 DEF RequestRefund, Wallets
    <3>2. wallet.available - amount \in Nat /\ wallet.onWithdrawal + amount \in Nat
      <4>1. wallet.available >= amount /\ amount \in Nat
        BY <1>1, <1>4 DEF RequestRefund
      <4>2. QED
        BY <1>1, <4>1
    <3>3. QED
      BY <1>1, <3>1, <3>2, WalletFields
  <2>3. QED
    BY <1>1, <1>4, <2>1, <2>2 DEF RequestRefund, TypeOK, Wallets
<1>5. CASE AskForDetails(r) \/ UpdateDetails(r)
  <2>1. refund' \in [Refunds -> RefundRow]
    BY <1>1, <1>5 DEF AskForDetails, UpdateDetails, SetRefund, RefundRow, OpenRefund
  <2>2. QED
    BY <1>1, <1>5, <2>1 DEF AskForDetails, UpdateDetails, SetRefund, TypeOK
<1>6. CASE MarkRefundSent(r)
  <2>1. refund' \in [Refunds -> RefundRow]
    BY <1>1, <1>6 DEF MarkRefundSent, RefundRow, OpenRefund
  <2>2. QED
    BY <1>1, <1>6, <2>1 DEF MarkRefundSent, TypeOK
<1>7. CASE CancelRefund(r)
  BY <1>3, <1>7 DEF CancelRefund, OpenRefund
<1>8. CASE RejectRefund(r)
  BY <1>3, <1>8 DEF RejectRefund
<1>9. CASE CompleteRefund(r)
  <2>1. refund' \in [Refunds -> RefundRow]
    BY <1>1, <1>9 DEF CompleteRefund, RefundRow
  <2>2. wallet' \in Wallets /\ ledger' \in Ledgers
    <3>1. /\ wallet' = [wallet EXCEPT !.onWithdrawal = wallet.onWithdrawal - refund[r].amount]
          /\ ledger' = [ledger EXCEPT !.payout = ledger.payout + refund[r].amount]
      BY <1>1, <1>9 DEF CompleteRefund, Wallets, Ledgers
    <3>2. /\ wallet.onWithdrawal - refund[r].amount \in Nat
          /\ ledger.payout + refund[r].amount \in Nat
      BY <1>1, <1>2, <1>9 DEF CompleteRefund, OpenRefund
    <3>3. QED
      BY <1>1, <3>1, <3>2, WalletFields, LedgerFields
  <2>3. QED
    BY <1>1, <1>9, <2>1, <2>2 DEF CompleteRefund, TypeOK, Wallets, Ledgers
<1>10. QED
  BY <1>4, <1>5, <1>6, <1>7, <1>8, <1>9

LEMMA TypeMarket ==
  ASSUME IInv,
         \/ \E amount \in Amounts : GrantTestBalance(amount)
         \/ SendOffer \/ CloseOffer \/ EndDeal
  PROVE  TypeOK'
<1>1. /\ TypeOK
      /\ \A amount \in Amounts : amount \in Nat
      /\ wallet \in Wallets
      /\ wallet.available \in Nat /\ wallet.reserved \in Nat
      /\ ledger \in Ledgers
      /\ ledger.test \in Nat
      /\ OfferPrice \in Nat /\ OfferFee \in Nat
  BY BalanceAssumption DEF IInv, TypeOK, Wallets, Ledgers
<1>2. ASSUME NEW amount \in Amounts, GrantTestBalance(amount)
      PROVE  TypeOK'
  <2>1. wallet' \in Wallets /\ ledger' \in Ledgers
    <3>1. /\ wallet' = [wallet EXCEPT !.available = wallet.available + amount]
          /\ ledger' = [ledger EXCEPT !.test = ledger.test + amount]
      BY <1>1, <1>2 DEF GrantTestBalance, Wallets, Ledgers
    <3>2. wallet.available + amount \in Nat /\ ledger.test + amount \in Nat
      BY <1>1
    <3>3. QED
      BY <1>1, <3>1, <3>2, WalletFields, LedgerFields
  <2>2. QED
    BY <1>1, <1>2, <2>1 DEF GrantTestBalance, TypeOK, Wallets, Ledgers
<1>3. CASE SendOffer
  <2>1. wallet' \in Wallets
    <3>1. wallet' = [wallet EXCEPT !.available = wallet.available - OfferPrice - OfferFee,
                                   !.reserved = wallet.reserved + OfferPrice + OfferFee]
      BY <1>1, <1>3 DEF SendOffer, Wallets
    <3>2. /\ wallet.available - OfferPrice - OfferFee \in Nat
          /\ wallet.reserved + OfferPrice + OfferFee \in Nat
      BY <1>1, <1>3 DEF SendOffer
    <3>3. QED
      BY <1>1, <3>1, <3>2, WalletFields
  <2>2. QED
    BY <1>1, <1>3, <2>1 DEF SendOffer, TypeOK, Wallets
<1>4. CASE CloseOffer
  <2>1. wallet' \in Wallets
    <3>1. wallet' = [wallet EXCEPT !.available = wallet.available + OfferPrice + OfferFee,
                                   !.reserved = wallet.reserved - OfferPrice - OfferFee]
      BY <1>1, <1>4 DEF CloseOffer, Wallets
    <3>2. wallet.reserved = OfferPrice + OfferFee
      BY <1>4 DEF CloseOffer, IInv, BalanceAccounted
    <3>3. /\ wallet.available + OfferPrice + OfferFee \in Nat
          /\ wallet.reserved - OfferPrice - OfferFee \in Nat
      BY <1>1, <3>2
    <3>4. QED
      BY <1>1, <3>1, <3>3, WalletFields
  <2>2. QED
    BY <1>1, <1>4, <2>1 DEF CloseOffer, TypeOK, Wallets
<1>5. CASE EndDeal
  BY <1>1, <1>5 DEF EndDeal, TypeOK, cpaVars
<1>6. QED
  BY <1>2, <1>3, <1>4, <1>5

LEMMA TypeCredit ==
  ASSUME TypeOK, NEW c \in Clicks, NEW type \in Types, Billable(c, type), Credit(c, type)
  PROVE  /\ wallet' \in Wallets /\ ledger' \in Ledgers
         /\ performer' \in Nat
         /\ billed' \in [Clicks \X Types -> Nat]
         /\ conversion' \in [credited : SUBSET (Clicks \X Types), uncredited : SUBSET (Clicks \X Types)]
<1>1. /\ wallet \in Wallets /\ wallet.available \in Nat
      /\ ledger \in Ledgers /\ ledger.payment \in Nat
      /\ performer \in Nat
      /\ CpaRate \in Nat /\ CpaFee \in Nat /\ CpaFee <= CpaRate
  BY BalanceAssumption DEF TypeOK, Wallets, Ledgers
<1>2. wallet' \in Wallets
  <2>1. wallet' = [wallet EXCEPT !.available = wallet.available - CpaRate]
    BY <1>1 DEF Credit, Wallets
  <2>2. wallet.available - CpaRate \in Nat
    BY <1>1 DEF Billable
  <2>3. QED
    BY <1>1, <2>1, <2>2, WalletFields
<1>3. ledger' \in Ledgers
  <2>1. ledger' = [ledger EXCEPT !.payment = ledger.payment + CpaRate]
    BY <1>1 DEF Credit, Ledgers
  <2>2. ledger.payment + CpaRate \in Nat
    BY <1>1
  <2>3. QED
    BY <1>1, <2>1, <2>2, LedgerFields
<1>4. performer' \in Nat
  BY <1>1 DEF Credit
<1>5. billed' \in [Clicks \X Types -> Nat]
  BY DEF Credit, TypeOK
<1>6. conversion' \in [credited : SUBSET (Clicks \X Types), uncredited : SUBSET (Clicks \X Types)]
  <2>1. <<c, type>> \in Clicks \X Types
    OBVIOUS
  <2>2. QED
    BY <2>1 DEF Credit, TypeOK
<1>7. QED
  BY <1>2, <1>3, <1>4, <1>5, <1>6

LEMMA TypeCpa ==
  ASSUME TypeOK, NEW c \in Clicks,
         \/ LogClick(c) \/ ConvertClick(c) \/ CreditClick(c) \/ LoseClick(c)
         \/ \E goal \in Goals : Postback(c, goal)
  PROVE  TypeOK'
<1>1. /\ "click" \in Types
      /\ \A goal \in Goals : goal \in Types
  BY DEF Types
<1>2. CASE LogClick(c)
  BY <1>2 DEF LogClick, TypeOK
<1>3. CASE ConvertClick(c)
  <2>1. conversion' \in [credited : SUBSET (Clicks \X Types), uncredited : SUBSET (Clicks \X Types)]
    BY <1>1, <1>3 DEF ConvertClick, TypeOK
  <2>2. QED
    BY <1>3, <2>1 DEF ConvertClick, TypeOK
<1>4. CASE CreditClick(c)
  <2>1. click' \in [Clicks -> {"none", "logged", "converted", "served"}]
    BY <1>4 DEF CreditClick, TypeOK
  <2>2. CASE Billable(c, "click") /\ Credit(c, "click")
    BY <1>1, <1>4, <2>1, <2>2, TypeCredit DEF CreditClick, TypeOK, Wallets, Ledgers
  <2>3. CASE UNCHANGED <<wallet, performer, ledger, conversion, billed>>
    BY <1>4, <2>1, <2>3 DEF CreditClick, TypeOK
  <2>4. QED
    BY <1>4, <2>2, <2>3 DEF CreditClick
<1>5. CASE LoseClick(c)
  BY <1>5 DEF LoseClick, TypeOK
<1>6. ASSUME NEW goal \in Goals, Postback(c, goal)
      PROVE  TypeOK'
  BY <1>1, <1>6, TypeCredit DEF Postback, TypeOK, Wallets, Ledgers
<1>7. QED
  BY <1>2, <1>3, <1>4, <1>5, <1>6

LEMMA TypeNext ==
  ASSUME IInv, Next
  PROVE  TypeOK'
<1>1. TypeOK
  BY DEF IInv
<1>2. CASE ScanInvoices
  BY <1>1, <1>2 DEF ScanInvoices, TypeOK
<1>3. QED
  BY <1>1, <1>2, TypeInvoice, TypeRefund, TypeMarket, TypeCpa DEF Next

-----------------------------------------------------------------------------
(* The wallet and the sums it answers to.                                  *)
LEMMA Fields ==
  ASSUME TypeOK
  PROVE  /\ wallet.available \in Nat /\ wallet.reserved \in Nat /\ wallet.onWithdrawal \in Nat
         /\ ledger.deposit \in Nat /\ ledger.test \in Nat
         /\ ledger.payment \in Nat /\ ledger.payout \in Nat
         /\ OfferPrice \in Nat /\ OfferFee \in Nat /\ CpaRate \in Nat
         /\ \A amount \in Amounts : amount \in Nat
  BY BalanceAssumption DEF TypeOK

LEMMA AccountedRefund ==
  ASSUME IInv, TypeOK', NEW r \in Refunds,
         \/ \E amount \in Amounts : RequestRefund(r, amount)
         \/ AskForDetails(r) \/ UpdateDetails(r) \/ MarkRefundSent(r)
         \/ CancelRefund(r) \/ RejectRefund(r) \/ CompleteRefund(r)
  PROVE  BalanceAccounted'
<1>1. /\ TypeOK
      /\ refund \in [Refunds -> RefundRow]
      /\ refund[r].amount \in Nat
      /\ OnHold \in Nat
      /\ wallet.available + wallet.reserved + wallet.onWithdrawal
           = ledger.deposit + ledger.test - ledger.payment - ledger.payout
      /\ wallet.onWithdrawal = OnHold
      /\ wallet.reserved = (IF offer = "pending" THEN OfferPrice + OfferFee ELSE 0)
  BY OutstandingNat DEF IInv, TypeOK, BalanceAccounted, OnHold
<1>2. ASSUME \A s \in Refunds \ {r} : refund'[s] = refund[s],
             offer' = offer,
             wallet'.reserved = wallet.reserved,
             wallet'.onWithdrawal = wallet.onWithdrawal - Outstanding(r) + Outstanding(r)',
             wallet'.available + wallet'.onWithdrawal + ledger'.payout
               = wallet.available + wallet.onWithdrawal + ledger.payout,
             ledger'.deposit = ledger.deposit, ledger'.test = ledger.test,
             ledger'.payment = ledger.payment
      PROVE  BalanceAccounted'
  <2>1. OnHold' = OnHold - Outstanding(r) + Outstanding(r)'
    BY <1>1, <1>2, OneRefundChanges
  <2>2. wallet'.onWithdrawal = OnHold'
    BY <1>1, <1>2, <2>1
  <2>3. wallet'.available + wallet'.reserved + wallet'.onWithdrawal
          = ledger'.deposit + ledger'.test - ledger'.payment - ledger'.payout
    <3>1. /\ wallet'.available \in Nat /\ wallet'.onWithdrawal \in Nat
          /\ ledger'.payout \in Nat
      BY DEF TypeOK
    <3>2. QED
      BY <1>1, <1>2, <3>1, Fields
  <2>4. QED
    BY <1>1, <1>2, <2>2, <2>3 DEF BalanceAccounted, OnHold
<1>3. ASSUME refund[r].status \in OpenRefund, NEW status \in {"cancelled", "rejected"},
             ReturnRefund(r, status)
      PROVE  BalanceAccounted'
  <2>1. /\ \A s \in Refunds \ {r} : refund'[s] = refund[s]
        /\ refund'[r].status = status
        /\ offer' = offer /\ ledger' = ledger
    BY <1>1, <1>3 DEF ReturnRefund
  <2>2. /\ Outstanding(r) = refund[r].amount
        /\ Outstanding(r)' = 0
    BY <1>3, <2>1 DEF Outstanding, OpenRefund
  <2>3. /\ wallet'.available = wallet.available + refund[r].amount
        /\ wallet'.onWithdrawal = wallet.onWithdrawal - refund[r].amount
        /\ wallet'.reserved = wallet.reserved
    BY <1>1, <1>3 DEF ReturnRefund, TypeOK
  <2>4. QED
    BY <1>1, <1>2, <2>1, <2>2, <2>3, Fields
<1>4. ASSUME NEW amount \in Amounts, RequestRefund(r, amount)
      PROVE  BalanceAccounted'
  <2>1. /\ \A s \in Refunds \ {r} : refund'[s] = refund[s]
        /\ refund'[r].status = "requested" /\ refund'[r].amount = amount
        /\ refund[r].status = "none"
        /\ offer' = offer /\ ledger' = ledger
    BY <1>1, <1>4 DEF RequestRefund
  <2>2. /\ Outstanding(r) = 0
        /\ Outstanding(r)' = amount
    BY <2>1 DEF Outstanding, OpenRefund
  <2>3. /\ wallet'.available = wallet.available - amount
        /\ wallet'.onWithdrawal = wallet.onWithdrawal + amount
        /\ wallet'.reserved = wallet.reserved
    BY <1>1, <1>4 DEF RequestRefund, TypeOK
  <2>4. amount \in Nat
    BY <1>1, Fields
  <2>5. QED
    BY <1>1, <1>2, <2>1, <2>2, <2>3, <2>4, Fields
<1>5. CASE AskForDetails(r) \/ UpdateDetails(r) \/ MarkRefundSent(r)
  <2>1. /\ \A s \in Refunds \ {r} : refund'[s] = refund[s]
        /\ refund[r].status \in OpenRefund /\ refund'[r].status \in OpenRefund
        /\ refund'[r].amount = refund[r].amount
        /\ offer' = offer /\ ledger' = ledger /\ wallet' = wallet
    BY <1>1, <1>5 DEF AskForDetails, UpdateDetails, SetRefund, MarkRefundSent, OpenRefund, RefundRow
  <2>2. Outstanding(r) = refund[r].amount /\ Outstanding(r)' = refund[r].amount
    BY <2>1 DEF Outstanding
  <2>3. QED
    BY <1>1, <1>2, <2>1, <2>2, Fields
<1>6. CASE CancelRefund(r)
  BY <1>3, <1>6 DEF CancelRefund, OpenRefund
<1>7. CASE RejectRefund(r)
  BY <1>3, <1>7 DEF RejectRefund
<1>8. CASE CompleteRefund(r)
  <2>1. /\ \A s \in Refunds \ {r} : refund'[s] = refund[s]
        /\ refund[r].status = "sent" /\ refund'[r].status = "done"
        /\ offer' = offer
    BY <1>1, <1>8 DEF CompleteRefund
  <2>2. /\ Outstanding(r) = refund[r].amount
        /\ Outstanding(r)' = 0
    BY <2>1 DEF Outstanding, OpenRefund
  <2>3. /\ wallet'.available = wallet.available
        /\ wallet'.onWithdrawal = wallet.onWithdrawal - refund[r].amount
        /\ wallet'.reserved = wallet.reserved
        /\ ledger'.payout = ledger.payout + refund[r].amount
        /\ ledger'.deposit = ledger.deposit /\ ledger'.test = ledger.test
        /\ ledger'.payment = ledger.payment
    BY <1>1, <1>8 DEF CompleteRefund, TypeOK
  <2>4. QED
    BY <1>1, <1>2, <2>1, <2>2, <2>3, Fields
<1>9. QED
  BY <1>4, <1>5, <1>6, <1>7, <1>8

(* The actions that write no refund: the equations are plain arithmetic.   *)
LEMMA AccountedElse ==
  ASSUME IInv, refund' = refund,
         wallet'.available + wallet'.reserved - ledger'.deposit - ledger'.test + ledger'.payment
           = wallet.available + wallet.reserved - ledger.deposit - ledger.test + ledger.payment,
         ledger'.deposit \in Int, ledger'.test \in Int, ledger'.payment \in Int,
         ledger'.payout = ledger.payout,
         wallet'.available \in Int, wallet'.reserved \in Int,
         wallet'.onWithdrawal = wallet.onWithdrawal,
         wallet'.reserved = (IF offer' = "pending" THEN OfferPrice + OfferFee ELSE 0)
  PROVE  BalanceAccounted'
<1>1. /\ TypeOK
      /\ wallet.available + wallet.reserved + wallet.onWithdrawal
           = ledger.deposit + ledger.test - ledger.payment - ledger.payout
      /\ wallet.onWithdrawal = OnHold
  BY DEF IInv, BalanceAccounted, OnHold
<1>2. wallet'.onWithdrawal = OnHold'
  BY <1>1, NoRefundChanges
<1>3. wallet'.available + wallet'.reserved + wallet'.onWithdrawal
        = ledger'.deposit + ledger'.test - ledger'.payment - ledger'.payout
  <2>1. /\ wallet.available \in Int /\ wallet.reserved \in Int /\ wallet.onWithdrawal \in Int
        /\ ledger.deposit \in Int /\ ledger.test \in Int
        /\ ledger.payment \in Int /\ ledger.payout \in Int
        /\ OfferPrice \in Int /\ OfferFee \in Int
    BY <1>1, Fields
  <2>2. QED
    BY <1>1, <2>1
<1>4. QED
  BY <1>2, <1>3 DEF BalanceAccounted, OnHold

LEMMA AccountedNext ==
  ASSUME IInv, TypeOK', Next
  PROVE  BalanceAccounted'
<1>1. /\ TypeOK
      /\ wallet.reserved = (IF offer = "pending" THEN OfferPrice + OfferFee ELSE 0)
  BY DEF IInv, BalanceAccounted
<1>2. CASE UNCHANGED <<wallet, ledger, refund, offer>>
  BY <1>1, <1>2, AccountedElse, Fields
<1>3. ASSUME NEW i \in Invoices, NEW amount \in Amounts, CreditInvoice(i, amount)
      PROVE  BalanceAccounted'
  <2>1. /\ wallet'.available = wallet.available + amount
        /\ wallet'.reserved = wallet.reserved /\ wallet'.onWithdrawal = wallet.onWithdrawal
        /\ ledger'.deposit = ledger.deposit + amount
        /\ ledger'.test = ledger.test /\ ledger'.payment = ledger.payment
        /\ ledger'.payout = ledger.payout
        /\ refund' = refund /\ offer' = offer
    BY <1>1, <1>3 DEF CreditInvoice, TypeOK
  <2>2. amount \in Nat
    BY <1>1, Fields
  <2>3. QED
    BY <1>1, <2>1, <2>2, AccountedElse, Fields
<1>4. ASSUME NEW amount \in Amounts, GrantTestBalance(amount)
      PROVE  BalanceAccounted'
  <2>1. /\ wallet'.available = wallet.available + amount
        /\ wallet'.reserved = wallet.reserved /\ wallet'.onWithdrawal = wallet.onWithdrawal
        /\ ledger'.test = ledger.test + amount
        /\ ledger'.deposit = ledger.deposit /\ ledger'.payment = ledger.payment
        /\ ledger'.payout = ledger.payout
        /\ refund' = refund /\ offer' = offer
    BY <1>1, <1>4 DEF GrantTestBalance, TypeOK
  <2>2. amount \in Nat
    BY <1>1, Fields
  <2>3. QED
    BY <1>1, <2>1, <2>2, AccountedElse, Fields
<1>5. CASE SendOffer
  <2>1. /\ wallet'.available = wallet.available - OfferPrice - OfferFee
        /\ wallet'.reserved = wallet.reserved + OfferPrice + OfferFee
        /\ wallet'.onWithdrawal = wallet.onWithdrawal
        /\ ledger' = ledger /\ refund' = refund
        /\ offer = "none" /\ offer' = "pending"
    BY <1>1, <1>5 DEF SendOffer, TypeOK
  <2>2. QED
    BY <1>1, <2>1, AccountedElse, Fields
<1>6. CASE CloseOffer
  <2>1. /\ wallet'.available = wallet.available + OfferPrice + OfferFee
        /\ wallet'.reserved = wallet.reserved - OfferPrice - OfferFee
        /\ wallet'.onWithdrawal = wallet.onWithdrawal
        /\ ledger' = ledger /\ refund' = refund
        /\ offer = "pending" /\ offer' = "closed"
    BY <1>1, <1>6 DEF CloseOffer, TypeOK
  <2>2. QED
    BY <1>1, <2>1, AccountedElse, Fields
<1>7. ASSUME NEW c \in Clicks, NEW type \in Types, Credit(c, type), refund' = refund, offer' = offer
      PROVE  BalanceAccounted'
  <2>1. /\ wallet'.available = wallet.available - CpaRate
        /\ wallet'.reserved = wallet.reserved /\ wallet'.onWithdrawal = wallet.onWithdrawal
        /\ ledger'.payment = ledger.payment + CpaRate
        /\ ledger'.deposit = ledger.deposit /\ ledger'.test = ledger.test
        /\ ledger'.payout = ledger.payout
    BY <1>1, <1>7 DEF Credit, TypeOK
  <2>2. QED
    BY <1>1, <1>7, <2>1, AccountedElse, Fields
<1>8. ASSUME NEW i \in Invoices, CreateInvoice(i) \/ Lapse(i) \/ ExpireListed(i)
      PROVE  BalanceAccounted'
  BY <1>2, <1>8 DEF CreateInvoice, Lapse, ExpireListed
<1>9. CASE ScanInvoices \/ EndDeal
  BY <1>2, <1>9 DEF ScanInvoices, EndDeal
<1>10. ASSUME NEW c \in Clicks,
              \/ LogClick(c) \/ ConvertClick(c) \/ CreditClick(c) \/ LoseClick(c)
              \/ \E goal \in Goals : Postback(c, goal)
       PROVE  BalanceAccounted'
  <2>1. CASE LogClick(c) \/ ConvertClick(c) \/ LoseClick(c)
    BY <1>2, <2>1 DEF LogClick, ConvertClick, LoseClick
  <2>2. CASE CreditClick(c)
    BY <1>2, <1>7, <2>2 DEF CreditClick, Types
  <2>3. ASSUME NEW goal \in Goals, Postback(c, goal)
        PROVE  BalanceAccounted'
    BY <1>7, <2>3 DEF Postback, Types
  <2>4. QED
    BY <1>10, <2>1, <2>2, <2>3
<1>11. QED
  BY <1>3, <1>4, <1>5, <1>6, <1>8, <1>9, <1>10, AccountedRefund DEF Next

-----------------------------------------------------------------------------
(* Conversions: paid once, within the budget, and never before their click *)
(* has written them.                                                       *)
LEMMA PaidCredit ==
  ASSUME IInv, NEW c \in Clicks, NEW type \in Types, Billable(c, type), Credit(c, type),
         offer' = offer,
         \A x \in Clicks : click'[x] \in {"none", "logged"} => click[x] \in {"none", "logged"},
         type = "click" => click'[c] \notin {"none", "logged"}
  PROVE  CreditsFinite' /\ ClickNotYetPaid' /\ ConversionPaidOnce' /\ SpendWithinBudget'
<1> DEFINE n == Cardinality(conversion.credited)
<1>1. /\ TypeOK /\ CreditsFinite
      /\ <<c, type>> \notin conversion.credited
      /\ CpaRate <= Budget - Committed
  BY DEF IInv, Billable
<1>2. /\ CreditsFinite'
      /\ Cardinality(conversion'.credited) = n + 1
      /\ Committed' = Committed + CpaRate
  BY <1>1, OneMorePaid
<1>3. SpendWithinBudget'
  <2>1. Committed \in Nat /\ CpaRate \in Nat /\ Budget \in Nat
    BY <1>1, CountType, BalanceAssumption
  <2>2. QED
    BY <1>1, <1>2, <2>1 DEF SpendWithinBudget
<1>4. /\ conversion'.credited = conversion.credited \cup {<<c, type>>}
      /\ conversion'.uncredited = conversion.uncredited \ {<<c, type>>}
      /\ ledger'.payment = ledger.payment + CpaRate
      /\ performer' = performer + CpaRate - CpaFee
      /\ billed' = [billed EXCEPT ![<<c, type>>] = @ + 1]
  BY <1>1 DEF Credit, TypeOK
<1>5. ClickNotYetPaid'
  BY <1>1, <1>4 DEF IInv, ClickNotYetPaid
<1>6. ConversionPaidOnce'
  <2>1. \A x \in Clicks, t \in Types :
          billed'[<<x, t>>] = (IF <<x, t>> \in conversion'.credited THEN 1 ELSE 0)
    <3> TAKE x \in Clicks, t \in Types
    <3>1. /\ billed \in [Clicks \X Types -> Nat]
          /\ <<x, t>> \in Clicks \X Types /\ <<c, type>> \in Clicks \X Types
          /\ billed[<<x, t>>] = (IF <<x, t>> \in conversion.credited THEN 1 ELSE 0)
      BY <1>1 DEF IInv, ConversionPaidOnce, TypeOK
    <3>2. CASE <<x, t>> = <<c, type>>
      BY <1>1, <1>4, <3>1, <3>2
    <3>3. CASE <<x, t>> # <<c, type>>
      BY <1>4, <3>1, <3>3
    <3>4. QED
      BY <3>2, <3>3
  <2>2. conversion'.credited \cap conversion'.uncredited = {}
    BY <1>4 DEF IInv, ConversionPaidOnce
  <2>3. /\ ledger.payment = CpaRate * n
        /\ performer = (CpaRate - CpaFee) * n
    BY DEF IInv, ConversionPaidOnce
  <2>4. \A k \in Nat : /\ CpaRate * (k + 1) = CpaRate * k + CpaRate
                       /\ (CpaRate - CpaFee) * (k + 1) = (CpaRate - CpaFee) * k + CpaRate - CpaFee
    BY BalanceAssumption
  <2>5. n \in Nat
    BY <1>1, CountType
  <2> HIDE DEF n
  <2>6. /\ ledger'.payment = CpaRate * (n + 1)
        /\ performer' = (CpaRate - CpaFee) * (n + 1)
    BY <1>4, <2>3, <2>4, <2>5
  <2>7. QED
    BY <1>2, <2>1, <2>2, <2>6 DEF ConversionPaidOnce
<1>7. QED
  BY <1>2, <1>3, <1>5, <1>6

LEMMA PaidElse ==
  ASSUME IInv, UNCHANGED <<performer, click, conversion, billed>>,
         ledger'.payment = ledger.payment, Committed' <= Budget
  PROVE  CreditsFinite' /\ ClickNotYetPaid' /\ ConversionPaidOnce' /\ SpendWithinBudget'
  BY DEF IInv, CreditsFinite, ClickNotYetPaid, ConversionPaidOnce, SpendWithinBudget

LEMMA PaidNext ==
  ASSUME IInv, Next
  PROVE  CreditsFinite' /\ ClickNotYetPaid' /\ ConversionPaidOnce' /\ SpendWithinBudget'
<1> DEFINE Goal == CreditsFinite' /\ ClickNotYetPaid' /\ ConversionPaidOnce' /\ SpendWithinBudget'
           Steady == UNCHANGED <<performer, click, conversion, billed>>
<1>1. /\ TypeOK /\ CreditsFinite /\ ConversionPaidOnce /\ ClickNotYetPaid
      /\ Committed <= Budget
      /\ Committed \in Nat /\ Budget \in Nat
      /\ OfferPrice \in Nat
      /\ "click" \in Types /\ "click" \notin Goals /\ Goals \subseteq Types
  BY CountType, BalanceAssumption DEF IInv, SpendWithinBudget, Types
<1>2. ASSUME Steady, ledger'.payment = ledger.payment, offer' = offer
      PROVE  Goal
  BY <1>1, <1>2, PaidElse DEF Committed
<1>3. ASSUME NEW i \in Invoices,
             \/ CreateInvoice(i) \/ Lapse(i) \/ ExpireListed(i)
             \/ \E amount \in Amounts : CreditInvoice(i, amount)
      PROVE  Goal
  BY <1>1, <1>2, <1>3 DEF CreateInvoice, Lapse, ExpireListed, CreditInvoice, TypeOK
<1>4. CASE ScanInvoices \/ EndDeal
  BY <1>2, <1>4 DEF ScanInvoices, EndDeal, cpaVars
<1>5. ASSUME NEW r \in Refunds,
             \/ \E amount \in Amounts : RequestRefund(r, amount)
             \/ AskForDetails(r) \/ UpdateDetails(r) \/ MarkRefundSent(r)
             \/ CancelRefund(r) \/ RejectRefund(r) \/ CompleteRefund(r)
      PROVE  Goal
  BY <1>1, <1>2, <1>5 DEF RequestRefund, AskForDetails, UpdateDetails, SetRefund, MarkRefundSent,
       CancelRefund, RejectRefund, ReturnRefund, CompleteRefund, TypeOK
<1>6. ASSUME NEW amount \in Amounts, GrantTestBalance(amount)
      PROVE  Goal
  BY <1>1, <1>2, <1>6 DEF GrantTestBalance, TypeOK
<1>7. CASE SendOffer
  <2>1. Committed' = Committed + OfferPrice
    BY <1>1, <1>7, CountType DEF SendOffer, Committed
  <2>2. Committed' <= Budget
    BY <1>1, <1>7, <2>1 DEF SendOffer
  <2>3. QED
    BY <1>7, <2>2, PaidElse DEF SendOffer
<1>8. CASE CloseOffer
  <2>1. Committed' = Committed - OfferPrice
    BY <1>1, <1>8, CountType DEF CloseOffer, Committed
  <2>2. Committed' <= Budget
    BY <1>1, <2>1
  <2>3. QED
    BY <1>8, <2>2, PaidElse DEF CloseOffer
<1>9. ASSUME NEW c \in Clicks, LogClick(c) \/ LoseClick(c)
      PROVE  Goal
  <2>1. Committed' = Committed
    BY <1>9 DEF LogClick, LoseClick, Committed
  <2>2. \A x \in Clicks : click'[x] \in {"none", "logged"} => click[x] \in {"none", "logged"}
    BY <1>1, <1>9 DEF LogClick, LoseClick, TypeOK
  <2>3. QED
    BY <1>1, <1>9, <2>1, <2>2 DEF LogClick, LoseClick, CreditsFinite, ClickNotYetPaid,
         ConversionPaidOnce, SpendWithinBudget
<1>10. ASSUME NEW c \in Clicks, ConvertClick(c)
       PROVE  Goal
  <2>1. /\ conversion'.credited = conversion.credited
        /\ conversion'.uncredited = conversion.uncredited \cup {<<c, "click">>}
    BY <1>1, <1>10 DEF ConvertClick, TypeOK
  <2>2. <<c, "click">> \notin conversion.credited
    BY <1>1, <1>10 DEF ConvertClick, ClickNotYetPaid
  <2>3. \A x \in Clicks : click'[x] \in {"none", "logged"} => click[x] \in {"none", "logged"}
    BY <1>1, <1>10 DEF ConvertClick, TypeOK
  <2>4. Committed' = Committed
    BY <1>10, <2>1 DEF ConvertClick, Committed
  <2>5. CreditsFinite' /\ ClickNotYetPaid' /\ SpendWithinBudget'
    BY <1>1, <2>1, <2>3, <2>4 DEF CreditsFinite, ClickNotYetPaid, SpendWithinBudget
  <2>6. ConversionPaidOnce'
    BY <1>1, <1>10, <2>1, <2>2 DEF ConvertClick, ConversionPaidOnce
  <2>7. QED
    BY <2>5, <2>6
<1>11. ASSUME NEW c \in Clicks, CreditClick(c)
       PROVE  Goal
  <2>1. /\ \A x \in Clicks : click'[x] \in {"none", "logged"} => click[x] \in {"none", "logged"}
        /\ click'[c] \notin {"none", "logged"}
        /\ offer' = offer
    BY <1>1, <1>11 DEF CreditClick, TypeOK
  <2>2. CASE Billable(c, "click") /\ Credit(c, "click")
    BY <1>1, <2>1, <2>2, PaidCredit
  <2>3. CASE UNCHANGED <<wallet, performer, ledger, conversion, billed>>
    BY <1>1, <2>1, <2>3 DEF CreditsFinite, ClickNotYetPaid, ConversionPaidOnce, SpendWithinBudget,
         Committed
  <2>4. QED
    BY <1>11, <2>2, <2>3 DEF CreditClick
<1>12. ASSUME NEW c \in Clicks, NEW goal \in Goals, Postback(c, goal)
       PROVE  Goal
  BY <1>1, <1>12, PaidCredit DEF Postback
<1>13. QED
  BY <1>3, <1>4, <1>5, <1>6, <1>7, <1>8, <1>9, <1>10, <1>11, <1>12 DEF Next

-----------------------------------------------------------------------------
(* A refund handed over: only the bank's answer moves it.                  *)
LEMMA HandedNext ==
  ASSUME IInv, Next
  PROVE  HandedOverIsNotRecalled'
<1>1. /\ refund \in [Refunds -> RefundRow]
      /\ \A r \in Refunds : refund[r].sent => refund[r].status \in {"sent", "done", "rejected"}
  BY DEF IInv, TypeOK, HandedOverIsNotRecalled
<1>2. CASE refund' = refund
  BY <1>1, <1>2 DEF HandedOverIsNotRecalled
<1>3. ASSUME NEW r \in Refunds,
             \/ \E amount \in Amounts : RequestRefund(r, amount)
             \/ AskForDetails(r) \/ UpdateDetails(r) \/ MarkRefundSent(r)
             \/ CancelRefund(r) \/ RejectRefund(r) \/ CompleteRefund(r)
      PROVE  HandedOverIsNotRecalled'
  <2>1. \A s \in Refunds \ {r} : refund'[s] = refund[s]
    BY <1>1, <1>3 DEF RequestRefund, AskForDetails, UpdateDetails, SetRefund, MarkRefundSent,
         CancelRefund, RejectRefund, ReturnRefund, CompleteRefund
  <2>2. refund'[r].sent => refund'[r].status \in {"sent", "done", "rejected"}
    <3>1. CASE \E amount \in Amounts : RequestRefund(r, amount)
      BY <1>1, <3>1 DEF RequestRefund
    <3>2. CASE AskForDetails(r) \/ UpdateDetails(r)
      <4>1. /\ refund[r].status \in {"requested", "needs_info"}
            /\ refund'[r].sent = refund[r].sent
        BY <1>1, <3>2 DEF AskForDetails, UpdateDetails, SetRefund, RefundRow
      <4>2. ~refund[r].sent
        BY <1>1, <4>1
      <4>3. QED
        BY <4>1, <4>2
    <3>3. CASE MarkRefundSent(r)
      BY <1>1, <3>3 DEF MarkRefundSent
    <3>4. CASE CancelRefund(r)
      BY <1>1, <3>4 DEF CancelRefund, ReturnRefund
    <3>5. CASE RejectRefund(r)
      BY <1>1, <3>5 DEF RejectRefund, ReturnRefund
    <3>6. CASE CompleteRefund(r)
      BY <1>1, <3>6 DEF CompleteRefund
    <3>7. QED
      BY <1>3, <3>1, <3>2, <3>3, <3>4, <3>5, <3>6
  <2>3. QED
    BY <1>1, <2>1, <2>2 DEF HandedOverIsNotRecalled
<1>4. ASSUME NEW i \in Invoices,
             \/ CreateInvoice(i) \/ Lapse(i) \/ ExpireListed(i)
             \/ \E amount \in Amounts : CreditInvoice(i, amount)
      PROVE  HandedOverIsNotRecalled'
  BY <1>2, <1>4 DEF CreateInvoice, Lapse, ExpireListed, CreditInvoice
<1>5. CASE ScanInvoices \/ SendOffer \/ CloseOffer \/ EndDeal
  BY <1>2, <1>5 DEF ScanInvoices, SendOffer, CloseOffer, EndDeal
<1>6. ASSUME NEW amount \in Amounts, GrantTestBalance(amount)
      PROVE  HandedOverIsNotRecalled'
  BY <1>2, <1>6 DEF GrantTestBalance
<1>7. ASSUME NEW c \in Clicks,
             \/ LogClick(c) \/ ConvertClick(c) \/ CreditClick(c) \/ LoseClick(c)
             \/ \E goal \in Goals : Postback(c, goal)
      PROVE  HandedOverIsNotRecalled'
  BY <1>2, <1>7 DEF LogClick, ConvertClick, CreditClick, LoseClick, Postback
<1>8. QED
  BY <1>3, <1>4, <1>5, <1>6, <1>7 DEF Next

-----------------------------------------------------------------------------
LEMMA InitIInv == Init => IInv
<1> SUFFICES ASSUME Init PROVE IInv
  OBVIOUS
<1>1. TypeOK
  BY DEF Init, TypeOK, InvoiceRow, RefundRow
<1>2. CreditsFinite /\ Cardinality(conversion.credited) = 0
  BY FS_EmptySet DEF Init, CreditsFinite
<1>3. ClickNotYetPaid /\ HandedOverIsNotRecalled
  BY DEF Init, ClickNotYetPaid, HandedOverIsNotRecalled
<1>4. BalanceAccounted
  <2> DEFINE f == [r \in Refunds |-> Outstanding(r)]
  <2>1. \A r \in Refunds : f[r] = 0
    BY DEF Init, Outstanding, OpenRefund
  <2>2. SumFunctionOnSet(f, Refunds) = 0
    <3> HIDE DEF f
    <3> QED BY <2>1, RowsAssumption, SumOfZeros
  <2>3. QED
    BY <2>2, BalanceAssumption DEF Init, BalanceAccounted
<1>5. ConversionPaidOnce
  <2>1. CpaRate * 0 = 0 /\ (CpaRate - CpaFee) * 0 = 0
    BY BalanceAssumption
  <2>2. \A c \in Clicks, type \in Types : billed[<<c, type>>] = 0
    BY DEF Init
  <2>3. conversion.credited = {} /\ ledger.payment = 0 /\ performer = 0
    BY DEF Init
  <2>4. QED
    BY <1>2, <2>1, <2>2, <2>3 DEF ConversionPaidOnce
<1>6. SpendWithinBudget
  <2>1. 0 * CpaRate = 0
    BY BalanceAssumption
  <2>2. Committed = 0
    BY <1>2, <2>1 DEF Init, Committed
  <2>3. QED
    BY <2>2, BalanceAssumption DEF SpendWithinBudget
<1>7. QED
  BY <1>1, <1>2, <1>3, <1>4, <1>5, <1>6 DEF IInv

LEMMA NextIInv == IInv /\ [Next]_vars => IInv'
<1> SUFFICES ASSUME IInv, [Next]_vars PROVE IInv'
  OBVIOUS
<1>1. CASE Next
  BY <1>1, TypeNext, AccountedNext, PaidNext, HandedNext DEF IInv
<1>2. CASE UNCHANGED vars
  <2>1. TypeOK' /\ CreditsFinite' /\ ClickNotYetPaid' /\ HandedOverIsNotRecalled'
    BY <1>2 DEF vars, IInv, TypeOK, CreditsFinite, ClickNotYetPaid, HandedOverIsNotRecalled
  <2>2. BalanceAccounted' /\ ConversionPaidOnce' /\ SpendWithinBudget'
    BY <1>2 DEF vars, IInv, BalanceAccounted, Outstanding, ConversionPaidOnce, SpendWithinBudget,
         Committed
  <2>3. QED
    BY <2>1, <2>2 DEF IInv
<1>3. QED
  BY <1>1, <1>2

LEMMA Inductive == Spec => []IInv
<1>1. QED
  BY InitIInv, NextIInv, PTL DEF Spec

(* No balance of the advertiser and no sum of his rows ever falls below    *)
(* zero (Wallet's non-negative balances, apps/billing/models.py).          *)
THEOREM BalanceTypes == Spec => []TypeOK
<1>1. IInv => TypeOK
  BY DEF IInv
<1>2. QED
  BY <1>1, Inductive, PTL

(* The wallet is the sum of its rows and on_withdrawal is the sum of the   *)
(* open refunds, whatever refunds, invoices, grants, offers and            *)
(* conversions do to it (apps/billing/topups.py, services.py).             *)
THEOREM BalanceAddsUp == Spec => []BalanceAccounted
<1>1. IInv => BalanceAccounted
  BY DEF IInv
<1>2. QED
  BY <1>1, Inductive, PTL

(* However often and in whatever order clicks and postbacks arrive, each   *)
(* conversion is paid for once (apps/web/views/cpa.py).                    *)
THEOREM ConversionsPaidOnce == Spec => []ConversionPaidOnce
<1>1. IInv => ConversionPaidOnce
  BY DEF IInv
<1>2. QED
  BY <1>1, Inductive, PTL

(* Offers and conversions of a campaign stay within its budget             *)
(* (budget_committed, apps/billing/validation.py).                         *)
THEOREM BudgetHolds == Spec => []SpendWithinBudget
<1>1. IInv => SpendWithinBudget
  BY DEF IInv
<1>2. QED
  BY <1>1, Inductive, PTL

(* A refund handed to the bank cannot be withdrawn (can_cancel of          *)
(* BalanceRefund).                                                         *)
THEOREM RefundStaysHandedOver == Spec => []HandedOverIsNotRecalled
<1>1. IInv => HandedOverIsNotRecalled
  BY DEF IInv
<1>2. QED
  BY <1>1, Inductive, PTL
=============================================================================
