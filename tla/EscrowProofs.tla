---------------------------- MODULE EscrowProofs ----------------------------
(* Theorems about Escrow for every set of slots, users and terms.          *)
EXTENDS Escrow, TLAPS

-----------------------------------------------------------------------------
(* Commission rounds to a natural number, is monotone in the amount and    *)
(* never exceeds it: billing/services.py quantizes with ROUND_HALF_UP.     *)
LEMMA CommissionNat ==
  ASSUME NEW n \in Nat, NEW p \in 0..100
  PROVE  Commission(n, p) \in Nat
  BY SMT DEF Commission

LEMMA CommissionAtMostAmount ==
  ASSUME NEW n \in Nat, NEW p \in 0..100
  PROVE  Commission(n, p) <= n
<1>1. n * p <= n * 100
  BY SMT
<1>2. n * p \in Nat
  BY SMT
<1>3. QED
  BY <1>1, <1>2, SMT DEF Commission

LEMMA CommissionMonotone ==
  ASSUME NEW m \in Nat, NEW n \in Nat, NEW p \in 0..100, m <= n
  PROVE  Commission(m, p) <= Commission(n, p)
<1>1. /\ m * p \in Nat
      /\ n * p \in Nat
      /\ m * p <= n * p
  BY SMT
<1>2. \A x, y \in Nat : x <= y => x \div 100 <= y \div 100
  BY Z3
<1>3. /\ m * p + 50 \in Nat
      /\ n * p + 50 \in Nat
      /\ m * p + 50 <= n * p + 50
  BY <1>1
<1>4. (m * p + 50) \div 100 <= (n * p + 50) \div 100
  BY <1>2, <1>3
<1>5. QED
  BY <1>4 DEF Commission

-----------------------------------------------------------------------------
(* The amounts of a slot: its reservation covers the commission and any    *)
(* payment for a part, and such a payment exceeds the earning by at most   *)
(* the commission on the full price.                                       *)
LEMMA AmountsOfSlot ==
  ASSUME terms \in [Deals -> Terms], NEW d \in Deals
  PROVE  /\ Price(d) \in Nat \ {0}
         /\ Percent(d) \in 0..100
         /\ Commission(Price(d), Percent(d)) \in Nat
         /\ Commission(Price(d), Percent(d)) <= Price(d)
         /\ ReservedTotal(d) \in Nat
         /\ Price(d) <= ReservedTotal(d)
         /\ ~terms[d].onTop => ReservedTotal(d) = Price(d)
         /\ ReservedTotal(d) = PaidFor(d, Price(d))
<1>1. /\ Price(d) \in Nat \ {0}
      /\ Percent(d) \in 0..100
      /\ terms[d].onTop \in BOOLEAN
  BY TermsAssumption, PercentAssumption DEF Price, Percent
<1>2. /\ Commission(Price(d), Percent(d)) \in Nat
      /\ Commission(Price(d), Percent(d)) <= Price(d)
  BY <1>1, CommissionNat, CommissionAtMostAmount
<1>3. QED
  BY <1>1, <1>2 DEF ReservedTotal, PaidFor

LEMMA AmountsOfPart ==
  ASSUME terms \in [Deals -> Terms], NEW d \in Deals,
         NEW part \in Nat, part <= Price(d)
  PROVE  /\ PaidFor(d, part) \in Nat
         /\ PaidFor(d, part) <= ReservedTotal(d)
         /\ EarningOf(d, part) \in Nat
         /\ PaidFor(d, part) - EarningOf(d, part)
              \in 0..Commission(Price(d), Percent(d))
<1>1. /\ Price(d) \in Nat
      /\ Percent(d) \in 0..100
      /\ Commission(Price(d), Percent(d)) \in Nat
  BY AmountsOfSlot
<1>2. /\ Commission(part, Percent(d)) \in Nat
      /\ Commission(part, Percent(d)) <= part
      /\ Commission(part, Percent(d)) <= Commission(Price(d), Percent(d))
  BY <1>1, CommissionNat, CommissionAtMostAmount, CommissionMonotone
<1>3. CASE terms[d].onTop
  BY <1>1, <1>2, <1>3 DEF PaidFor, EarningOf, ReservedTotal
<1>4. CASE ~terms[d].onTop
  BY <1>1, <1>2, <1>4 DEF PaidFor, EarningOf, ReservedTotal
<1>5. QED
  BY <1>3, <1>4

-----------------------------------------------------------------------------
(* What an operation writes: the wallets and the count keep their types    *)
(* and only the rows of slot d grow, by the four sums given.               *)
Books(d, reserve, payment, release, earning) ==
  /\ wallet' \in [Users -> WalletRow]
  /\ dealsCount' \in [Users -> Nat]
  /\ ledger' \in [Deals -> LedgerRow]
  /\ \A e \in Deals \ {d} : ledger'[e] = ledger[e]
  /\ ledger'[d].reserve = ledger[d].reserve + reserve
  /\ ledger'[d].payment = ledger[d].payment + payment
  /\ ledger'[d].release = ledger[d].release + release
  /\ ledger'[d].earning = ledger[d].earning + earning

(* Posting keeps the rows' types when no balance falls below zero.         *)
LEMMA PostedType ==
  ASSUME NEW w \in [Users -> WalletRow], NEW u \in Users,
         NEW a \in Int, NEW r \in Int, NEW o \in Nat,
         w[u].available + a >= 0, w[u].reserved + r >= 0
  PROVE  Posted(w, u, a, r, o) \in [Users -> WalletRow]
  BY DEF Posted, WalletRow

LEMMA BookedSums ==
  ASSUME ledger \in [Deals -> LedgerRow], NEW d \in Deals,
         NEW reserve \in Nat, NEW payment \in Nat, NEW release \in Nat, NEW earning \in Nat,
         Booked(d, reserve, payment, release, earning)
  PROVE  /\ ledger' \in [Deals -> LedgerRow]
         /\ \A e \in Deals \ {d} : ledger'[e] = ledger[e]
         /\ ledger'[d].reserve = ledger[d].reserve + reserve
         /\ ledger'[d].payment = ledger[d].payment + payment
         /\ ledger'[d].release = ledger[d].release + release
         /\ ledger'[d].earning = ledger[d].earning + earning
  BY DEF Booked, LedgerRow

LEMMA BooksOf ==
  ASSUME ledger \in [Deals -> LedgerRow], NEW d \in Deals,
         NEW reserve \in Nat, NEW payment \in Nat, NEW release \in Nat, NEW earning \in Nat,
         wallet' \in [Users -> WalletRow], dealsCount' \in [Users -> Nat],
         Booked(d, reserve, payment, release, earning)
  PROVE  Books(d, reserve, payment, release, earning)
  BY BookedSums DEF Books

(* What the operations need to know of the wallets they write.             *)
LEMMA WalletFacts ==
  ASSUME TypeOK, NEW d \in Deals
  PROVE  /\ wallet \in [Users -> WalletRow]
         /\ ledger \in [Deals -> LedgerRow]
         /\ Advertiser[d] \in Users
         /\ Blogger[d] \in Users
         /\ \A u \in Users : /\ wallet[u].available \in Nat
                             /\ wallet[u].reserved \in Nat
         /\ ReservedTotal(d) \in Nat
<1>1. ReservedTotal(d) \in Nat
  BY AmountsOfSlot DEF TypeOK
<1>2. QED
  BY <1>1, PartiesAssumption DEF TypeOK, WalletRow

LEMMA ReserveBooks ==
  ASSUME TypeOK, NEW d \in Deals, NEW amount \in Nat, Reserve(d, amount)
  PROVE  Books(d, amount, 0, 0, 0)
<1>1. /\ wallet[Advertiser[d]].available >= amount
      /\ wallet' = Posted(wallet, Advertiser[d], -amount, amount, 0)
      /\ Booked(d, amount, 0, 0, 0)
      /\ dealsCount' = dealsCount
  BY DEF Reserve
<1>2. /\ wallet[Advertiser[d]].available + (-amount) >= 0
      /\ wallet[Advertiser[d]].reserved + amount >= 0
      /\ -amount \in Int
  BY <1>1, WalletFacts
<1>3. wallet' \in [Users -> WalletRow]
  BY <1>1, <1>2, WalletFacts, PostedType
<1>4. dealsCount' \in [Users -> Nat]
  BY <1>1 DEF TypeOK
<1>5. ledger \in [Deals -> LedgerRow] /\ 0 \in Nat
  BY WalletFacts
<1>6. QED
  BY <1>1, <1>3, <1>4, <1>5, BooksOf, Zenon

LEMMA ReleaseBooks ==
  ASSUME TypeOK, NEW d \in Deals, Release(d)
  PROVE  Books(d, 0, 0, ReservedTotal(d), 0)
<1> DEFINE total == ReservedTotal(d)
<1>1. /\ wallet[Advertiser[d]].reserved >= total
      /\ wallet' = Posted(wallet, Advertiser[d], total, -total, 0)
      /\ Booked(d, 0, 0, total, 0)
      /\ dealsCount' = dealsCount
  BY DEF Release, RequireReserved
<1>2. total \in Nat
  BY WalletFacts
<1> HIDE DEF total
<1>3. /\ wallet[Advertiser[d]].available + total >= 0
      /\ wallet[Advertiser[d]].reserved + (-total) >= 0
      /\ -total \in Int
  BY <1>1, <1>2, WalletFacts
<1>4. wallet' \in [Users -> WalletRow]
  BY <1>1, <1>2, <1>3, WalletFacts, PostedType
<1>5. dealsCount' \in [Users -> Nat]
  BY <1>1 DEF TypeOK
<1>6. Books(d, 0, 0, total, 0)
  <2>1. ledger \in [Deals -> LedgerRow] /\ 0 \in Nat
    BY WalletFacts
  <2>2. QED
    BY <1>1, <1>2, <1>4, <1>5, <2>1, BooksOf, Zenon
<1>7. QED
  BY <1>6 DEF total

LEMMA SettleBooks ==
  ASSUME TypeOK, NEW d \in Deals, NEW paid \in Nat, NEW earning \in Nat,
         paid <= ReservedTotal(d), Settle(d, paid, earning)
  PROVE  Books(d, 0, paid, ReservedTotal(d) - paid, earning)
<1> DEFINE total == ReservedTotal(d)
           rest == total - paid
           w == Posted(wallet, Advertiser[d], rest, -total, 0)
<1>1. /\ wallet[Advertiser[d]].reserved >= total
      /\ wallet' = Posted(w, Blogger[d], 0, 0, earning)
      /\ Booked(d, 0, paid, rest, earning)
      /\ dealsCount' = [dealsCount EXCEPT ![Blogger[d]] = @ + 1]
  BY DEF Settle, RequireReserved
<1>2. /\ total \in Nat
      /\ rest \in Nat
  BY WalletFacts
<1>3. w \in [Users -> WalletRow]
  <2> HIDE DEF total, rest
  <2>1. /\ wallet[Advertiser[d]].available + rest >= 0
        /\ wallet[Advertiser[d]].reserved + (-total) >= 0
        /\ -total \in Int
    BY <1>1, <1>2, WalletFacts
  <2>2. QED
    BY <1>2, <2>1, WalletFacts, PostedType
<1>4. wallet' \in [Users -> WalletRow]
  <2> HIDE DEF w
  <2>1. /\ w[Blogger[d]].available + 0 >= 0
        /\ w[Blogger[d]].reserved + 0 >= 0
    BY <1>3, WalletFacts DEF WalletRow
  <2>2. QED
    BY <1>1, <1>3, <2>1, WalletFacts, PostedType
<1> HIDE DEF total, rest, w
<1>5. dealsCount' \in [Users -> Nat]
  <2>1. dealsCount \in [Users -> Nat] /\ Blogger[d] \in Users
    BY WalletFacts DEF TypeOK
  <2>2. QED
    BY <1>1, <2>1
<1>6. Books(d, 0, paid, rest, earning)
  <2>1. ledger \in [Deals -> LedgerRow] /\ 0 \in Nat
    BY WalletFacts
  <2>2. QED
    BY <1>1, <1>2, <1>4, <1>5, <2>1, BooksOf, Zenon
<1>7. QED
  BY <1>6 DEF total, rest

LEMMA RefundBooks ==
  ASSUME TypeOK, NEW d \in Deals, RefundMinusCommission(d)
  PROVE  LET kept == Commission(Price(d), Percent(d))
         IN  Books(d, 0, kept, ReservedTotal(d) - kept, 0)
<1> DEFINE total == ReservedTotal(d)
           kept == Commission(Price(d), Percent(d))
           rest == total - kept
<1>1. /\ wallet[Advertiser[d]].reserved >= total
      /\ wallet' = Posted(wallet, Advertiser[d], rest, -total, 0)
      /\ Booked(d, 0, kept, rest, 0)
      /\ dealsCount' = dealsCount
  BY DEF RefundMinusCommission, RequireReserved
<1>2. /\ total \in Nat
      /\ kept \in Nat
      /\ rest \in Nat
  BY AmountsOfSlot DEF TypeOK
<1> HIDE DEF total, kept, rest
<1>3. /\ wallet[Advertiser[d]].available + rest >= 0
      /\ wallet[Advertiser[d]].reserved + (-total) >= 0
      /\ -total \in Int
  BY <1>1, <1>2, WalletFacts
<1>4. wallet' \in [Users -> WalletRow]
  BY <1>1, <1>2, <1>3, WalletFacts, PostedType
<1>5. dealsCount' \in [Users -> Nat]
  BY <1>1 DEF TypeOK
<1>6. Books(d, 0, kept, rest, 0)
  <2>1. ledger \in [Deals -> LedgerRow] /\ 0 \in Nat
    BY WalletFacts
  <2>2. QED
    BY <1>1, <1>2, <1>4, <1>5, <2>1, BooksOf, Zenon
<1>7. QED
  BY <1>6 DEF total, kept, rest

(* Whatever settlement is chosen, it takes the whole reservation out of    *)
(* the books and leaves the platform at most the commission.               *)
LEMMA SettlementBooks ==
  ASSUME TypeOK, NEW d \in Deals, SettleDeal(d)
  PROVE  \E paid \in Nat, earning \in Nat :
           /\ paid <= ReservedTotal(d)
           /\ paid - earning \in 0..Commission(Price(d), Percent(d))
           /\ Books(d, 0, paid, ReservedTotal(d) - paid, earning)
<1>0. terms \in [Deals -> Terms]
  BY DEF TypeOK
<1>1. CASE CompleteDealPayment(d)
  <2>1. /\ PaidFor(d, Price(d)) \in Nat
        /\ EarningOf(d, Price(d)) \in Nat
        /\ PaidFor(d, Price(d)) - EarningOf(d, Price(d))
             \in 0..Commission(Price(d), Percent(d))
        /\ ReservedTotal(d) = PaidFor(d, Price(d))
        /\ ReservedTotal(d) \in Nat
    BY <1>0, AmountsOfSlot, AmountsOfPart
  <2>2. Books(d, 0, ReservedTotal(d), ReservedTotal(d) - ReservedTotal(d), EarningOf(d, Price(d)))
    BY <1>1, <2>1, SettleBooks DEF CompleteDealPayment
  <2>3. QED
    BY <2>1, <2>2
<1>2. CASE Release(d)
  <2>1. /\ ReservedTotal(d) \in Nat
        /\ Commission(Price(d), Percent(d)) \in Nat
    BY <1>0, AmountsOfSlot
  <2>2. Books(d, 0, 0, ReservedTotal(d) - 0, 0)
    BY <1>2, <2>1, ReleaseBooks
  <2>3. QED
    BY <2>1, <2>2
<1>3. CASE RefundMinusCommission(d)
  <2>1. /\ ReservedTotal(d) \in Nat
        /\ Commission(Price(d), Percent(d)) \in Nat
        /\ Commission(Price(d), Percent(d)) <= ReservedTotal(d)
    BY <1>0, AmountsOfSlot
  <2>2. QED
    BY <1>3, <2>1, RefundBooks
<1>4. ASSUME NEW part \in 1..(Price(d) - 1), SplitDealPayment(d, part)
      PROVE  \E paid \in Nat, earning \in Nat :
               /\ paid <= ReservedTotal(d)
               /\ paid - earning \in 0..Commission(Price(d), Percent(d))
               /\ Books(d, 0, paid, ReservedTotal(d) - paid, earning)
  <2>1. part \in Nat /\ part <= Price(d)
    BY <1>0, AmountsOfSlot
  <2>2. /\ PaidFor(d, part) \in Nat
        /\ PaidFor(d, part) <= ReservedTotal(d)
        /\ EarningOf(d, part) \in Nat
        /\ PaidFor(d, part) - EarningOf(d, part)
             \in 0..Commission(Price(d), Percent(d))
    BY <1>0, <2>1, AmountsOfPart
  <2>3. Books(d, 0, PaidFor(d, part), ReservedTotal(d) - PaidFor(d, part), EarningOf(d, part))
    BY <1>4, <2>2, SettleBooks DEF SplitDealPayment
  <2>4. QED
    BY <2>2, <2>3
<1>5. QED
  BY <1>1, <1>2, <1>3, <1>4 DEF SettleDeal

-----------------------------------------------------------------------------
(* Before the settlement of a slot nothing of it is paid or earned: what   *)
(* LedgerShowsHeld and CommissionWithinTerms lack to be inductive.         *)
NothingPaidYet ==
  \A d \in Deals :
    stage[d] # "settled" => ledger[d].payment = 0 /\ ledger[d].earning = 0

IInv ==
  /\ TypeOK
  /\ LedgerShowsHeld
  /\ NothingPaidYet
  /\ CommissionWithinTerms

(* A step of one unsettled slot preserves IInv when the sums it books are  *)
(* the change of what the slot holds and nothing is paid short of          *)
(* settling it.                                                            *)
LEMMA SlotStep ==
  ASSUME IInv, NEW d \in Deals, NEW to \in Stages, stage[d] # "settled",
         terms' = terms, stage' = [stage EXCEPT ![d] = to],
         NEW reserve \in Nat, NEW payment \in Nat, NEW release \in Nat, NEW earning \in Nat,
         Books(d, reserve, payment, release, earning),
         reserve - payment - release = Held(d)' - Held(d),
         to # "settled" => payment = 0 /\ earning = 0,
         payment - earning \in 0..Commission(Price(d), Percent(d))
  PROVE  IInv'
<1>1. /\ TypeOK
      /\ stage \in [Deals -> Stages]
      /\ ledger \in [Deals -> LedgerRow]
  BY DEF IInv, TypeOK
<1>2. TypeOK'
  BY <1>1 DEF TypeOK, Books
<1>3. ASSUME NEW e \in Deals, e # d
      PROVE  /\ ledger'[e] = ledger[e]
             /\ stage'[e] = stage[e]
             /\ Held(e)' = Held(e)
             /\ Price(e)' = Price(e)
             /\ Percent(e)' = Percent(e)
  BY <1>1, <1>3 DEF Books, Held, ReservedTotal, Price, Percent
<1>4. /\ Price(d)' = Price(d)
      /\ Percent(d)' = Percent(d)
      /\ stage'[d] = to
  BY <1>1 DEF Price, Percent
<1>5. /\ ledger[d].reserve \in Nat /\ ledger[d].release \in Nat
      /\ ledger[d].payment = 0 /\ ledger[d].earning = 0
      /\ ledger[d].reserve - ledger[d].payment - ledger[d].release = Held(d)
  BY <1>1 DEF IInv, NothingPaidYet, LedgerShowsHeld, LedgerRow
<1>6. /\ ledger'[d].reserve = ledger[d].reserve + reserve
      /\ ledger'[d].payment = payment
      /\ ledger'[d].release = ledger[d].release + release
      /\ ledger'[d].earning = earning
  BY <1>5 DEF Books
<1>7. LedgerShowsHeld'
  <2>1. ledger'[d].reserve - ledger'[d].payment - ledger'[d].release = Held(d)'
    <3>1. Held(d) \in Int
      BY <1>5
    <3>2. /\ ledger[d].reserve - ledger[d].release = Held(d)
          /\ reserve - payment - release = Held(d)' - Held(d)
      BY <1>5
    <3>3. Held(d)' \in Int
      <4>1. terms' \in [Deals -> Terms]
        BY <1>2 DEF TypeOK
      <4>2. ReservedTotal(d) \in Nat
        BY <1>1, WalletFacts
      <4>3. ReservedTotal(d)' = ReservedTotal(d)
        BY DEF ReservedTotal, Price, Percent
      <4>4. QED
        BY <4>2, <4>3 DEF Held
    <3> HIDE DEF Held
    <3>4. QED
      BY <1>5, <1>6, <3>1, <3>2, <3>3
  <2>2. ASSUME NEW e \in Deals, e # d
        PROVE  ledger'[e].reserve - ledger'[e].payment - ledger'[e].release = Held(e)'
    BY <1>3, <2>2 DEF IInv, LedgerShowsHeld
  <2>3. QED
    BY <2>1, <2>2 DEF LedgerShowsHeld
<1>8. NothingPaidYet'
  BY <1>3, <1>4, <1>6 DEF IInv, NothingPaidYet
<1>9. CommissionWithinTerms'
  BY <1>3, <1>4, <1>6 DEF IInv, CommissionWithinTerms
<1>10. QED
  BY <1>2, <1>7, <1>8, <1>9 DEF IInv

LEMMA InitIInv == Init => IInv
<1> SUFFICES ASSUME Init PROVE IInv
  OBVIOUS
<1>1. /\ TypeOK
      /\ \A d \in Deals : /\ stage[d] = "none"
                          /\ ledger[d] = [reserve |-> 0, payment |-> 0, release |-> 0, earning |-> 0]
  BY FundsAssumption DEF Init, TypeOK, WalletRow, LedgerRow, Stages
<1>2. LedgerShowsHeld /\ NothingPaidYet
  BY <1>1 DEF LedgerShowsHeld, NothingPaidYet, Held
<1>3. CommissionWithinTerms
  BY <1>1, AmountsOfSlot DEF CommissionWithinTerms, TypeOK
<1>4. QED
  BY <1>1, <1>2, <1>3 DEF IInv

LEMMA SlotActions ==
  ASSUME IInv, NEW d \in Deals,
         OpenOffer(d) \/ CloseOffer(d) \/ OpenDeal(d) \/ SettleDeal(d)
  PROVE  IInv'
<1> DEFINE total == ReservedTotal(d)
<1>1. TypeOK /\ terms \in [Deals -> Terms] /\ stage \in [Deals -> Stages]
  BY DEF IInv, TypeOK
<1>2. /\ total \in Nat
      /\ 0 - 0 \in 0..Commission(Price(d), Percent(d))
      /\ terms[d].reservedAtOffer \in BOOLEAN
      /\ ~terms[d].reservedAtOffer => total = Price(d)
      /\ Price(d) \in Nat
  <2>1. /\ terms[d].reservedAtOffer \in BOOLEAN
        /\ ~terms[d].reservedAtOffer => ~terms[d].onTop
        /\ terms[d].onTop \in BOOLEAN
    BY <1>1, TermsAssumption
  <2>2. QED
    BY <1>1, <2>1, AmountsOfSlot
<1>3. ASSUME UNCHANGED <<wallet, ledger, dealsCount>>
      PROVE  Books(d, 0, 0, 0, 0)
  <2>1. /\ wallet' \in [Users -> WalletRow]
        /\ dealsCount' \in [Users -> Nat]
        /\ ledger' \in [Deals -> LedgerRow]
    BY <1>1, <1>3 DEF TypeOK
  <2>2. ledger'[d] = ledger[d] /\ ledger[d] \in LedgerRow
    BY <1>1, <1>3 DEF TypeOK
  <2>3. QED
    BY <1>3, <2>1, <2>2 DEF Books, LedgerRow
<1>4. ASSUME terms' = terms
      PROVE  Held(d)' = IF stage'[d] = "deal" \/ (stage'[d] = "offer" /\ terms[d].reservedAtOffer)
                        THEN total ELSE 0
  BY <1>4 DEF Held, ReservedTotal, Price, Percent
<1>5. Held(d) = IF stage[d] = "deal" \/ (stage[d] = "offer" /\ terms[d].reservedAtOffer)
                THEN total ELSE 0
  BY DEF Held
<1> HIDE DEF total
<1>6. CASE OpenOffer(d)
  <2>1. /\ stage[d] = "none" /\ "offer" \in Stages
        /\ stage' = [stage EXCEPT ![d] = "offer"] /\ stage'[d] = "offer"
        /\ terms' = terms
    BY <1>1, <1>6 DEF OpenOffer, InStage, Stages
  <2>2. CASE terms[d].reservedAtOffer
    <3>1. Books(d, total, 0, 0, 0)
      BY <1>1, <1>2, <1>6, <2>2, ReserveBooks DEF OpenOffer, ReserveForOffer, total
    <3>2. total - 0 - 0 = Held(d)' - Held(d)
      BY <1>2, <1>4, <1>5, <2>1, <2>2
    <3>3. QED
      BY <1>2, <2>1, <3>1, <3>2, SlotStep, Zenon
  <2>3. CASE ~terms[d].reservedAtOffer
    <3>1. Books(d, 0, 0, 0, 0)
      BY <1>3, <1>6, <2>3 DEF OpenOffer
    <3>2. 0 - 0 - 0 = Held(d)' - Held(d)
      BY <1>4, <1>5, <2>1, <2>3
    <3>3. QED
      BY <1>2, <2>1, <3>1, <3>2, SlotStep, Zenon
  <2>4. QED
    BY <2>2, <2>3
<1>7. CASE CloseOffer(d)
  <2>1. /\ stage[d] = "offer" /\ "lapsed" \in Stages
        /\ stage' = [stage EXCEPT ![d] = "lapsed"] /\ stage'[d] = "lapsed"
        /\ terms' = terms
    BY <1>1, <1>7 DEF CloseOffer, InStage, Stages
  <2>2. CASE terms[d].reservedAtOffer
    <3>1. Books(d, 0, 0, total, 0)
      BY <1>1, <1>7, <2>2, ReleaseBooks DEF CloseOffer, total
    <3>2. 0 - 0 - total = Held(d)' - Held(d)
      BY <1>2, <1>4, <1>5, <2>1, <2>2
    <3>3. QED
      BY <1>2, <2>1, <3>1, <3>2, SlotStep, Zenon
  <2>3. CASE ~terms[d].reservedAtOffer
    <3>1. Books(d, 0, 0, 0, 0)
      BY <1>3, <1>7, <2>3 DEF CloseOffer
    <3>2. 0 - 0 - 0 = Held(d)' - Held(d)
      BY <1>4, <1>5, <2>1, <2>3
    <3>3. QED
      BY <1>2, <2>1, <3>1, <3>2, SlotStep, Zenon
  <2>4. QED
    BY <2>2, <2>3
<1>8. CASE OpenDeal(d)
  <2>1. /\ stage[d] = "offer" /\ "deal" \in Stages
        /\ stage' = [stage EXCEPT ![d] = "deal"] /\ stage'[d] = "deal"
        /\ terms' = terms
    BY <1>1, <1>8 DEF OpenDeal, InStage, Stages
  <2>2. CASE terms[d].reservedAtOffer
    <3>1. Books(d, 0, 0, 0, 0)
      BY <1>3, <1>8, <2>2 DEF OpenDeal
    <3>2. 0 - 0 - 0 = Held(d)' - Held(d)
      BY <1>2, <1>4, <1>5, <2>1, <2>2
    <3>3. QED
      BY <1>2, <2>1, <3>1, <3>2, SlotStep, Zenon
  <2>3. CASE ~terms[d].reservedAtOffer
    <3>1. Books(d, total, 0, 0, 0)
      BY <1>1, <1>2, <1>8, <2>3, ReserveBooks DEF OpenDeal, ReserveFunds
    <3>2. total - 0 - 0 = Held(d)' - Held(d)
      BY <1>2, <1>4, <1>5, <2>1, <2>3
    <3>3. QED
      BY <1>2, <2>1, <3>1, <3>2, SlotStep, Zenon
  <2>4. QED
    BY <2>2, <2>3
<1>9. CASE SettleDeal(d)
  <2>1. /\ stage[d] = "deal" /\ "settled" \in Stages
        /\ stage' = [stage EXCEPT ![d] = "settled"] /\ stage'[d] = "settled"
        /\ terms' = terms
    BY <1>1, <1>9 DEF SettleDeal, InStage, Stages
  <2>2. PICK paid \in Nat, earning \in Nat :
           /\ paid <= total
           /\ paid - earning \in 0..Commission(Price(d), Percent(d))
           /\ Books(d, 0, paid, total - paid, earning)
    BY <1>1, <1>9, SettlementBooks DEF total
  <2>3. total - paid \in Nat
    BY <1>2, <2>2
  <2>4. 0 - paid - (total - paid) = Held(d)' - Held(d)
    BY <1>2, <1>4, <1>5, <2>1
  <2>5. QED
    BY <2>1, <2>2, <2>3, <2>4, SlotStep
<1>10. QED
  BY <1>6, <1>7, <1>8, <1>9

LEMMA NextIInv == IInv /\ [Next]_escrowVars => IInv'
<1> SUFFICES ASSUME IInv, [Next]_escrowVars PROVE IInv'
  OBVIOUS
<1>1. CASE Next
  BY <1>1, SlotActions DEF Next
<1>2. CASE UNCHANGED escrowVars
  BY <1>2 DEF escrowVars, IInv, TypeOK, LedgerShowsHeld, NothingPaidYet, CommissionWithinTerms,
              Held, ReservedTotal, Price, Percent
<1>3. QED
  BY <1>1, <1>2

LEMMA Inductive == Spec => []IInv
<1>1. QED
  BY InitIInv, NextIInv, PTL DEF Spec

-----------------------------------------------------------------------------
(* For every number of slots and users and all terms: no wallet balance    *)
(* and no ledger sum of apps/billing/services.py ever goes below zero.     *)
THEOREM EscrowTypes == Spec => []TypeOK
<1>1. IInv => TypeOK
  BY DEF IInv
<1>2. QED
  BY <1>1, Inductive, PTL

(* A slot's rows always show exactly the reservation it holds: it is made  *)
(* once, and one settlement or lapse takes all of it off the books.        *)
THEOREM ReservationOnTheBooks == Spec => []LedgerShowsHeld
<1>1. IInv => LedgerShowsHeld
  BY DEF IInv
<1>2. QED
  BY <1>1, Inductive, PTL

(* Payment, split, compensation and termination leave the platform between *)
(* nothing and the commission on the full price, for every price, every    *)
(* percent and both commission models.                                     *)
THEOREM PlatformShareBounded == Spec => []CommissionWithinTerms
<1>1. IInv => CommissionWithinTerms
  BY DEF IInv
<1>2. QED
  BY <1>1, Inductive, PTL

(* An action of one slot writes no ledger row of another.                  *)
LEMMA OtherRowsStay ==
  ASSUME TypeOK, NEW d \in Deals, NEW e \in Deals, e # d,
         OpenOffer(e) \/ CloseOffer(e) \/ OpenDeal(e) \/ SettleDeal(e)
  PROVE  ledger'[d] = ledger[d]
<1>1. d \in DOMAIN ledger
  BY DEF TypeOK
<1>2. ASSUME NEW a, NEW b, NEW c, NEW f, Booked(e, a, b, c, f)
      PROVE  ledger'[d] = ledger[d]
  BY <1>1, <1>2 DEF Booked
<1>3. CASE OpenOffer(e) \/ CloseOffer(e) \/ OpenDeal(e)
  BY <1>2, <1>3 DEF OpenOffer, CloseOffer, OpenDeal, ReserveForOffer, ReserveFunds, Reserve, Release
<1>4. CASE SettleDeal(e)
  BY <1>2, <1>4 DEF SettleDeal, CompleteDealPayment, SplitDealPayment, Settle, Release,
                    RefundMinusCommission
<1>5. QED
  BY <1>3, <1>4
=============================================================================
