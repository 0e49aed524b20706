------------------------- MODULE EscrowMoneyProofs --------------------------
(***************************************************************************)
(* Theorems about the sums Escrow is about: that the reserved balance of   *)
(* an advertiser is what his slots hold, and that no money is lost or      *)
(* made.  EscrowProofs has the invariant on the slots one by one; here     *)
(* every operation is shown to move the two sums by what it moves in its   *)
(* slot.                                                                   *)
(***************************************************************************)
EXTENDS EscrowProofs, SumLemmas

-----------------------------------------------------------------------------
(* Posting three sums to a wallet adds them to all that is in the wallets. *)
LEMMA PostedSum ==
  ASSUME NEW w \in [Users -> WalletRow], NEW u \in Users,
         NEW a \in Int, NEW r \in Int, NEW o \in Int
  PROVE  InWallets(Posted(w, u, a, r, o)) = InWallets(w) + a + r + o
<1> DEFINE v == Posted(w, u, a, r, o)
           f == [x \in Users |-> w[x].available + w[x].reserved + w[x].onWithdrawal]
           g == [x \in Users |-> v[x].available + v[x].reserved + v[x].onWithdrawal]
<1>1. \A x \in Users : /\ w[x].available \in Nat
                       /\ w[x].reserved \in Nat
                       /\ w[x].onWithdrawal \in Nat
  BY DEF WalletRow
<1>2. \A x \in Users : f[x] \in Int
  BY <1>1
<1>3. v[u] = [available |-> w[u].available + a, reserved |-> w[u].reserved + r,
              onWithdrawal |-> w[u].onWithdrawal + o]
  BY DEF Posted
<1>4. g[u] = f[u] + (a + r + o)
  BY <1>1, <1>3
<1>5. \A x \in Users \ {u} : g[x] = f[x]
  BY DEF Posted
<1> HIDE DEF f, g
<1>6. SumFunctionOnSet(g, Users) = SumFunctionOnSet(f, Users) - f[u] + g[u]
  <2>1. g[u] \in Int
    BY <1>2, <1>4
  <2>2. QED
    BY <1>2, <1>5, <2>1, RowsAssumption, SumChange
<1>7. SumFunctionOnSet(f, Users) \in Int
  BY <1>2, RowsAssumption, SumInt
<1>8. SumFunctionOnSet(g, Users) = SumFunctionOnSet(f, Users) + a + r + o
  BY <1>2, <1>4, <1>6, <1>7
<1>9. QED
  BY <1>8 DEF f, g, v, InWallets

(* What an operation on slot d does to the sums: the reserved balance of   *)
(* its advertiser moves by held, and all wallets together lose what the    *)
(* rows of the slot show the platform to have kept.                        *)
Moves(d, held, kept) ==
  /\ \A u \in Users :
       wallet'[u].reserved = wallet[u].reserved + (IF u = Advertiser[d] THEN held ELSE 0)
  /\ InWallets(wallet') = InWallets(wallet) - kept
  /\ ledger'[d].payment - ledger'[d].earning = ledger[d].payment - ledger[d].earning + kept

LEMMA InWalletsInt ==
  ASSUME NEW w \in [Users -> WalletRow]
  PROVE  InWallets(w) \in Int
<1> DEFINE f == [x \in Users |-> w[x].available + w[x].reserved + w[x].onWithdrawal]
<1>1. \A x \in Users : f[x] \in Int
  BY DEF WalletRow
<1>2. SumFunctionOnSet(f, Users) \in Int
  <2> HIDE DEF f
  <2> QED BY <1>1, RowsAssumption, SumInt
<1>3. QED
  BY <1>2 DEF InWallets

(* One posting on the advertiser's wallet.                                 *)
LEMMA PostingMoves ==
  ASSUME TypeOK, NEW d \in Deals, NEW a \in Int, NEW r \in Int,
         NEW reserve \in Nat, NEW payment \in Nat, NEW release \in Nat, NEW earning \in Nat,
         wallet' = Posted(wallet, Advertiser[d], a, r, 0),
         Booked(d, reserve, payment, release, earning),
         a + r = earning - payment
  PROVE  Moves(d, r, payment - earning)
<1>1. /\ wallet \in [Users -> WalletRow]
      /\ ledger \in [Deals -> LedgerRow]
      /\ Advertiser[d] \in Users
  BY WalletFacts
<1>2. InWallets(wallet') = InWallets(wallet) - (payment - earning)
  <2>1. InWallets(wallet') = InWallets(wallet) + a + r + 0
    BY <1>1, PostedSum
  <2>2. InWallets(wallet) \in Int
    BY <1>1, InWalletsInt
  <2>3. QED
    BY <2>1, <2>2
<1>3. \A u \in Users :
        wallet'[u].reserved = wallet[u].reserved + (IF u = Advertiser[d] THEN r ELSE 0)
  BY <1>1 DEF Posted, WalletRow
<1>4. ledger'[d].payment - ledger'[d].earning
        = ledger[d].payment - ledger[d].earning + (payment - earning)
  <2>1. /\ ledger'[d].payment = ledger[d].payment + payment
        /\ ledger'[d].earning = ledger[d].earning + earning
    BY <1>1, BookedSums
  <2>2. ledger[d].payment \in Nat /\ ledger[d].earning \in Nat
    BY <1>1 DEF LedgerRow
  <2>3. QED
    BY <2>1, <2>2
<1>5. QED
  BY <1>2, <1>3, <1>4 DEF Moves

LEMMA ReserveMoves ==
  ASSUME TypeOK, NEW d \in Deals, NEW amount \in Nat, Reserve(d, amount)
  PROVE  Moves(d, amount, 0)
<1>1. /\ wallet' = Posted(wallet, Advertiser[d], -amount, amount, 0)
      /\ Booked(d, amount, 0, 0, 0)
  BY DEF Reserve
<1>2. /\ -amount + amount = 0 - 0
      /\ -amount \in Int /\ amount \in Int /\ 0 \in Nat
      /\ 0 - 0 = 0
  OBVIOUS
<1>3. Moves(d, amount, 0 - 0)
  BY <1>1, <1>2, PostingMoves, Zenon
<1>4. QED
  BY <1>2, <1>3

LEMMA ReleaseMoves ==
  ASSUME TypeOK, NEW d \in Deals, Release(d)
  PROVE  Moves(d, -ReservedTotal(d), 0)
<1> DEFINE total == ReservedTotal(d)
<1>1. /\ wallet' = Posted(wallet, Advertiser[d], total, -total, 0)
      /\ Booked(d, 0, 0, total, 0)
  BY DEF Release
<1>2. total \in Nat
  BY WalletFacts
<1> HIDE DEF total
<1>3. /\ total + (-total) = 0 - 0
      /\ total \in Int /\ -total \in Int /\ 0 \in Nat
      /\ 0 - 0 = 0
  BY <1>2
<1>4. Moves(d, -total, 0 - 0)
  BY <1>1, <1>2, <1>3, PostingMoves, Zenon
<1>5. QED
  BY <1>3, <1>4 DEF total

LEMMA RefundMoves ==
  ASSUME TypeOK, NEW d \in Deals, RefundMinusCommission(d)
  PROVE  Moves(d, -ReservedTotal(d), Commission(Price(d), Percent(d)))
<1> DEFINE total == ReservedTotal(d)
           kept == Commission(Price(d), Percent(d))
           rest == total - kept
<1>1. /\ wallet' = Posted(wallet, Advertiser[d], rest, -total, 0)
      /\ Booked(d, 0, kept, rest, 0)
  BY DEF RefundMinusCommission
<1>2. /\ total \in Nat
      /\ kept \in Nat
      /\ rest \in Nat
      /\ rest = total - kept
  BY AmountsOfSlot DEF TypeOK
<1> HIDE DEF total, kept, rest
<1>3. /\ rest + (-total) = 0 - kept
      /\ rest \in Int /\ -total \in Int /\ 0 \in Nat
      /\ kept - 0 = kept
  BY <1>2
<1>4. Moves(d, -total, kept - 0)
  BY <1>1, <1>2, <1>3, PostingMoves, Zenon
<1>5. QED
  BY <1>3, <1>4 DEF total, kept

(* A payment posts twice, on the advertiser's wallet and the performer's.  *)
LEMMA SettleMoves ==
  ASSUME TypeOK, NEW d \in Deals, NEW paid \in Nat, NEW earning \in Nat,
         paid <= ReservedTotal(d), Settle(d, paid, earning)
  PROVE  Moves(d, -ReservedTotal(d), paid - earning)
<1> DEFINE total == ReservedTotal(d)
           rest == total - paid
           w == Posted(wallet, Advertiser[d], rest, -total, 0)
<1>1. /\ wallet[Advertiser[d]].reserved >= total
      /\ wallet' = Posted(w, Blogger[d], 0, 0, earning)
      /\ Booked(d, 0, paid, rest, earning)
  BY DEF Settle, RequireReserved
<1>2. /\ total \in Nat
      /\ rest \in Nat
      /\ -total \in Int
      /\ rest = total - paid
  BY WalletFacts
<1>3. /\ wallet \in [Users -> WalletRow]
      /\ ledger \in [Deals -> LedgerRow]
      /\ Advertiser[d] \in Users /\ Blogger[d] \in Users
  BY WalletFacts
<1>4. w \in [Users -> WalletRow]
  <2> HIDE DEF total, rest
  <2>1. /\ wallet[Advertiser[d]].available + rest >= 0
        /\ wallet[Advertiser[d]].reserved + (-total) >= 0
    BY <1>1, <1>2, WalletFacts
  <2>2. QED
    BY <1>2, <1>3, <2>1, PostedType
<1>5. \A u \in Users :
        wallet'[u].reserved = wallet[u].reserved + (IF u = Advertiser[d] THEN -total ELSE 0)
  <2>1. \A u \in Users :
          w[u].reserved = wallet[u].reserved + (IF u = Advertiser[d] THEN -total ELSE 0)
    <3> HIDE DEF total, rest
    <3> QED BY <1>2, <1>3 DEF Posted, WalletRow, w
  <2>2. \A u \in Users : wallet'[u].reserved = w[u].reserved
    <3> HIDE DEF w
    <3> QED BY <1>1, <1>3, <1>4 DEF Posted, WalletRow
  <2>3. QED
    BY <2>1, <2>2
<1>6. InWallets(wallet') = InWallets(wallet) - (paid - earning)
  <2> HIDE DEF total, rest
  <2>1. InWallets(w) = InWallets(wallet) + rest + (-total) + 0
    BY <1>2, <1>3, PostedSum
  <2> HIDE DEF w
  <2>2. InWallets(wallet') = InWallets(w) + 0 + 0 + earning
    BY <1>1, <1>3, <1>4, PostedSum
  <2>3. InWallets(wallet) \in Int /\ InWallets(w) \in Int
    BY <1>3, <1>4, InWalletsInt
  <2>4. QED
    BY <1>2, <2>1, <2>2, <2>3
<1> HIDE DEF total, rest, w
<1>7. ledger'[d].payment - ledger'[d].earning
        = ledger[d].payment - ledger[d].earning + (paid - earning)
  <2>1. /\ ledger'[d].payment = ledger[d].payment + paid
        /\ ledger'[d].earning = ledger[d].earning + earning
    BY <1>1, <1>2, <1>3, BookedSums
  <2>2. ledger[d].payment \in Nat /\ ledger[d].earning \in Nat
    BY <1>3 DEF LedgerRow
  <2>3. QED
    BY <2>1, <2>2
<1>8. QED
  BY <1>5, <1>6, <1>7 DEF Moves, total

LEMMA SettlementMoves ==
  ASSUME TypeOK, NEW d \in Deals, SettleDeal(d)
  PROVE  \E kept \in Int : Moves(d, -ReservedTotal(d), kept)
<1>0. terms \in [Deals -> Terms]
  BY DEF TypeOK
<1>1. CASE CompleteDealPayment(d)
  <2>1. /\ EarningOf(d, Price(d)) \in Nat
        /\ ReservedTotal(d) \in Nat
    BY <1>0, AmountsOfSlot, AmountsOfPart
  <2>2. Moves(d, -ReservedTotal(d), ReservedTotal(d) - EarningOf(d, Price(d)))
    BY <1>1, <2>1, SettleMoves DEF CompleteDealPayment
  <2>3. QED
    BY <2>1, <2>2
<1>2. CASE Release(d)
  BY <1>2, ReleaseMoves
<1>3. CASE RefundMinusCommission(d)
  <2>1. Commission(Price(d), Percent(d)) \in Int
    BY <1>0, AmountsOfSlot
  <2>2. QED
    BY <1>3, <2>1, RefundMoves
<1>4. ASSUME NEW part \in 1..(Price(d) - 1), SplitDealPayment(d, part)
      PROVE  \E kept \in Int : Moves(d, -ReservedTotal(d), kept)
  <2>1. part \in Nat /\ part <= Price(d)
    BY <1>0, AmountsOfSlot
  <2>2. /\ PaidFor(d, part) \in Nat
        /\ PaidFor(d, part) <= ReservedTotal(d)
        /\ EarningOf(d, part) \in Nat
    BY <1>0, <2>1, AmountsOfPart
  <2>3. Moves(d, -ReservedTotal(d), PaidFor(d, part) - EarningOf(d, part))
    BY <1>4, <2>2, SettleMoves DEF SplitDealPayment
  <2>4. QED
    BY <2>2, <2>3
<1>5. QED
  BY <1>1, <1>2, <1>3, <1>4 DEF SettleDeal

-----------------------------------------------------------------------------
(* The two sums are inductive beside the types and the rows of each slot.  *)
MInv ==
  /\ IInv
  /\ ReservedBalanceIsHeld
  /\ MoneyConserved

(* A step of slot d that moves the reserved balance by the change of what  *)
(* the slot holds keeps both.                                              *)
LEMMA MoneyStep ==
  ASSUME MInv, IInv', NEW d \in Deals, NEW to \in Stages,
         terms' = terms, stage' = [stage EXCEPT ![d] = to],
         \A e \in Deals \ {d} : ledger'[e] = ledger[e],
         NEW kept \in Int, Moves(d, Held(d)' - Held(d), kept)
  PROVE  MInv'
<1> DEFINE held == [e \in Deals |-> Held(e)]
           heldNext == [e \in Deals |-> Held(e)']
           rev == [e \in Deals |-> ledger[e].payment - ledger[e].earning]
           revNext == [e \in Deals |-> ledger'[e].payment - ledger'[e].earning]
<1>1. /\ TypeOK /\ TypeOK'
      /\ stage \in [Deals -> Stages]
      /\ IsFiniteSet(Deals) /\ IsFiniteSet(Users)
  BY RowsAssumption DEF MInv, IInv, TypeOK
<1>2. \A e \in Deals : held[e] \in Int
  BY <1>1, WalletFacts DEF Held
<1>3. \A e \in Deals \ {d} : heldNext[e] = held[e]
  BY <1>1 DEF Held, ReservedTotal, Price, Percent
<1>4. heldNext[d] \in Int
  <2>1. ReservedTotal(d)' = ReservedTotal(d)
    BY DEF ReservedTotal, Price, Percent
  <2>2. ReservedTotal(d) \in Nat
    BY <1>1, WalletFacts
  <2>3. QED
    BY <2>1, <2>2 DEF Held
<1>5. ReservedBalanceIsHeld'
  <2> SUFFICES ASSUME NEW u \in Users
               PROVE  wallet'[u].reserved
                        = SumFunctionOnSet(heldNext, {e \in Deals : Advertiser[e] = u})
    BY DEF ReservedBalanceIsHeld
  <2> DEFINE mine == {e \in Deals : Advertiser[e] = u}
  <2>1. /\ IsFiniteSet(mine)
        /\ mine \subseteq Deals
    BY <1>1, FS_Subset
  <2>2. wallet[u].reserved = SumFunctionOnSet(held, mine)
    BY DEF MInv, ReservedBalanceIsHeld
  <2>3. CASE u = Advertiser[d]
    <3>1. d \in mine
      BY <2>3
    <3>2. wallet'[u].reserved = wallet[u].reserved + (heldNext[d] - held[d])
      BY <2>3 DEF Moves
    <3> HIDE DEF held, heldNext, mine
    <3>3. SumFunctionOnSet(heldNext, mine)
            = SumFunctionOnSet(held, mine) - held[d] + heldNext[d]
      BY <1>2, <1>3, <1>4, <2>1, <3>1, SumChange
    <3>4. SumFunctionOnSet(held, mine) \in Int
      BY <1>2, <2>1, SumInt
    <3>5. QED
      <4>1. wallet'[u].reserved = SumFunctionOnSet(heldNext, mine)
        BY <1>2, <1>4, <2>2, <3>2, <3>3, <3>4
      <4>2. QED
        BY <4>1 DEF mine
  <2>4. CASE u # Advertiser[d]
    <3>1. d \notin mine
      BY <2>4
    <3>2. wallet'[u].reserved = wallet[u].reserved
      <4>1. wallet'[u].reserved = wallet[u].reserved + 0
        BY <2>4 DEF Moves
      <4>2. wallet[u].reserved \in Nat
        BY <1>1 DEF TypeOK, WalletRow
      <4>3. QED
        BY <4>1, <4>2
    <3> HIDE DEF held, heldNext, mine
    <3>3. SumFunctionOnSet(heldNext, mine) = SumFunctionOnSet(held, mine)
      <4>1. \A e \in mine : heldNext[e] = held[e]
        BY <1>3, <2>1, <3>1
      <4>2. QED
        BY <2>1, <4>1, SumSame
    <3>4. QED
      BY <2>2, <3>2, <3>3 DEF mine
  <2>5. QED
    BY <2>3, <2>4
<1>6. MoneyConserved'
  <2>1. Revenues(ledger') = Revenues(ledger) + kept
    <3>1. \A e \in Deals : rev[e] \in Int
      BY <1>1 DEF TypeOK, LedgerRow
    <3>2. \A e \in Deals \ {d} : revNext[e] = rev[e]
      OBVIOUS
    <3>3. revNext[d] = rev[d] + kept
      BY DEF Moves
    <3>4. SumFunctionOnSet(revNext, Deals) = SumFunctionOnSet(rev, Deals) - rev[d] + revNext[d]
      <4>1. revNext[d] \in Int
        BY <3>1, <3>3
      <4> HIDE DEF rev, revNext
      <4>2. QED
        BY <1>1, <3>1, <3>2, <4>1, SumChange
    <3>5. SumFunctionOnSet(rev, Deals) \in Int
      <4> HIDE DEF rev
      <4> QED BY <1>1, <3>1, SumInt
    <3>6. SumFunctionOnSet(revNext, Deals) = SumFunctionOnSet(rev, Deals) + kept
      <4> HIDE DEF rev, revNext
      <4> QED BY <3>1, <3>3, <3>4, <3>5
    <3>7. QED
      BY <3>6 DEF Revenues
  <2>2. InWallets(wallet') = InWallets(wallet) - kept
    BY DEF Moves
  <2>3. /\ InWallets(wallet) \in Int
        /\ Revenues(ledger) \in Int
    <3>1. \A e \in Deals : rev[e] \in Int
      BY <1>1 DEF TypeOK, LedgerRow
    <3>2. SumFunctionOnSet(rev, Deals) \in Int
      <4> HIDE DEF rev
      <4> QED BY <1>1, <3>1, SumInt
    <3>3. QED
      BY <1>1, <3>2, InWalletsInt DEF TypeOK, Revenues
  <2>4. InWallets(wallet) + Revenues(ledger) = SumFunctionOnSet(Funds, Users)
    BY DEF MInv, MoneyConserved
  <2>5. InWallets(wallet') + Revenues(ledger') = SumFunctionOnSet(Funds, Users)
    BY <2>1, <2>2, <2>3, <2>4
  <2>6. QED
    BY <2>5 DEF MoneyConserved, InWallets, Revenues
<1>7. QED
  BY <1>5, <1>6 DEF MInv

LEMMA InitMInv == Init => MInv
<1> SUFFICES ASSUME Init PROVE MInv
  OBVIOUS
<1>1. IInv
  BY InitIInv
<1>2. IsFiniteSet(Deals) /\ IsFiniteSet(Users)
  BY RowsAssumption
<1>3. ReservedBalanceIsHeld
  <2> SUFFICES ASSUME NEW u \in Users
               PROVE  wallet[u].reserved
                        = SumFunctionOnSet([d \in Deals |-> Held(d)], {d \in Deals : Advertiser[d] = u})
    BY DEF ReservedBalanceIsHeld
  <2> DEFINE held == [d \in Deals |-> Held(d)]
             mine == {d \in Deals : Advertiser[d] = u}
  <2>1. \A d \in mine : held[d] = 0
    BY DEF Init, Held
  <2>2. IsFiniteSet(mine)
    BY <1>2, FS_Subset
  <2>3. SumFunctionOnSet(held, mine) = 0
    <3> HIDE DEF held, mine
    <3> QED BY <2>1, <2>2, SumOfZeros
  <2>4. wallet[u].reserved = 0
    BY DEF Init
  <2>5. QED
    BY <2>3, <2>4
<1>4. MoneyConserved
  <2> DEFINE rev == [d \in Deals |-> ledger[d].payment - ledger[d].earning]
             all == [u \in Users |-> wallet[u].available + wallet[u].reserved + wallet[u].onWithdrawal]
  <2>1. SumFunctionOnSet(rev, Deals) = 0
    <3>1. \A d \in Deals : rev[d] = 0
      BY DEF Init
    <3> HIDE DEF rev
    <3>2. QED
      BY <1>2, <3>1, SumOfZeros
  <2>2. SumFunctionOnSet(all, Users) = SumFunctionOnSet(Funds, Users)
    <3>1. \A u \in Users : all[u] = Funds[u]
      BY FundsAssumption DEF Init
    <3> HIDE DEF all
    <3>2. QED
      BY <1>2, <3>1, SumSame
  <2>3. SumFunctionOnSet(Funds, Users) \in Int
    BY <1>2, FundsAssumption, SumInt
  <2>4. QED
    BY <2>1, <2>2, <2>3 DEF MoneyConserved, InWallets, Revenues
<1>5. QED
  BY <1>1, <1>3, <1>4 DEF MInv

(* An action that writes neither wallet nor ledger moves nothing.          *)
LEMMA NothingMoves ==
  ASSUME TypeOK, NEW d \in Deals, wallet' = wallet, ledger' = ledger
  PROVE  Moves(d, 0, 0)
<1>1. /\ \A u \in Users : wallet[u].reserved \in Int
      /\ ledger[d].payment \in Int /\ ledger[d].earning \in Int
      /\ InWallets(wallet) \in Int
  BY InWalletsInt DEF TypeOK, WalletRow, LedgerRow
<1>2. QED
  BY <1>1 DEF Moves

LEMMA SlotActionsMoney ==
  ASSUME MInv, NEW d \in Deals,
         OpenOffer(d) \/ CloseOffer(d) \/ OpenDeal(d) \/ SettleDeal(d)
  PROVE  MInv'
<1> DEFINE total == ReservedTotal(d)
           holds(s) == IF s = "deal" \/ (s = "offer" /\ terms[d].reservedAtOffer)
                       THEN total ELSE 0
<1>1. /\ IInv /\ TypeOK /\ IInv'
      /\ terms \in [Deals -> Terms] /\ stage \in [Deals -> Stages]
  BY SlotActions DEF MInv, IInv, TypeOK
<1>2. \A e \in Deals \ {d} : ledger'[e] = ledger[e]
  BY <1>1, OtherRowsStay
<1>3. /\ total \in Nat
      /\ terms[d].reservedAtOffer \in BOOLEAN
      /\ ~terms[d].reservedAtOffer => total = Price(d)
      /\ Price(d) \in Nat
  <2>1. /\ terms[d].reservedAtOffer \in BOOLEAN
        /\ ~terms[d].reservedAtOffer => ~terms[d].onTop
        /\ terms[d].onTop \in BOOLEAN
    BY <1>1, TermsAssumption
  <2>2. QED
    BY <1>1, <2>1, AmountsOfSlot
<1>4. /\ Held(d) = holds(stage[d])
      /\ terms' = terms => Held(d)' = holds(stage'[d])
  BY DEF Held, ReservedTotal, Price, Percent
<1>5. ASSUME NEW to \in Stages, terms' = terms, stage' = [stage EXCEPT ![d] = to],
             NEW held, held = holds(to) - holds(stage[d]),
             NEW kept \in Int, Moves(d, held, kept)
      PROVE  MInv'
  <2>1. Held(d)' - Held(d) = held
    <3>1. stage'[d] = to
      BY <1>1, <1>5
    <3>2. QED
      BY <1>4, <1>5, <3>1
  <2>2. Moves(d, Held(d)' - Held(d), kept)
    <3> HIDE DEF holds
    <3> QED BY <1>5, <2>1
  <2>3. QED
    BY <1>1, <1>2, <1>5, <2>2, MoneyStep
<1> HIDE DEF holds
<1>6. CASE OpenOffer(d)
  <2>1. /\ stage[d] = "none" /\ "offer" \in Stages
        /\ stage' = [stage EXCEPT ![d] = "offer"]
        /\ terms' = terms
    BY <1>6 DEF OpenOffer, InStage, Stages
  <2>2. CASE terms[d].reservedAtOffer
    <3>1. Moves(d, total, 0)
      BY <1>1, <1>3, <1>6, <2>2, ReserveMoves DEF OpenOffer, ReserveForOffer
    <3>2. holds("offer") - holds(stage[d]) = total
      <4> HIDE DEF total
      <4> QED BY <1>3, <2>1, <2>2 DEF holds
    <3>3. QED
      BY <1>5, <2>1, <3>1, <3>2, 0 \in Int, Zenon
  <2>3. CASE ~terms[d].reservedAtOffer
    <3>1. Moves(d, 0, 0)
      BY <1>1, <1>6, <2>3, NothingMoves DEF OpenOffer
    <3>2. holds("offer") - holds(stage[d]) = 0
      BY <2>1, <2>3 DEF holds
    <3>3. QED
      BY <1>5, <2>1, <3>1, <3>2, 0 \in Int, Zenon
  <2>4. QED
    BY <2>2, <2>3
<1>7. CASE CloseOffer(d)
  <2>1. /\ stage[d] = "offer" /\ "lapsed" \in Stages
        /\ stage' = [stage EXCEPT ![d] = "lapsed"]
        /\ terms' = terms
    BY <1>7 DEF CloseOffer, InStage, Stages
  <2>2. CASE terms[d].reservedAtOffer
    <3>1. Moves(d, -total, 0)
      BY <1>1, <1>7, <2>2, ReleaseMoves DEF CloseOffer
    <3>2. holds("lapsed") - holds(stage[d]) = -total
      <4> HIDE DEF total
      <4> QED BY <1>3, <2>1, <2>2 DEF holds
    <3>3. QED
      BY <1>5, <2>1, <3>1, <3>2, 0 \in Int, Zenon
  <2>3. CASE ~terms[d].reservedAtOffer
    <3>1. Moves(d, 0, 0)
      BY <1>1, <1>7, <2>3, NothingMoves DEF CloseOffer
    <3>2. holds("lapsed") - holds(stage[d]) = 0
      BY <2>1, <2>3 DEF holds
    <3>3. QED
      BY <1>5, <2>1, <3>1, <3>2, 0 \in Int, Zenon
  <2>4. QED
    BY <2>2, <2>3
<1>8. CASE OpenDeal(d)
  <2>1. /\ stage[d] = "offer" /\ "deal" \in Stages
        /\ stage' = [stage EXCEPT ![d] = "deal"]
        /\ terms' = terms
    BY <1>8 DEF OpenDeal, InStage, Stages
  <2>2. CASE terms[d].reservedAtOffer
    <3>1. Moves(d, 0, 0)
      BY <1>1, <1>8, <2>2, NothingMoves DEF OpenDeal
    <3>2. holds("deal") - holds(stage[d]) = 0
      <4> HIDE DEF total
      <4> QED BY <1>3, <2>1, <2>2 DEF holds
    <3>3. QED
      BY <1>5, <2>1, <3>1, <3>2, 0 \in Int, Zenon
  <2>3. CASE ~terms[d].reservedAtOffer
    <3>1. Moves(d, total, 0)
      BY <1>1, <1>3, <1>8, <2>3, ReserveMoves DEF OpenDeal, ReserveFunds
    <3>2. holds("deal") - holds(stage[d]) = total
      <4> HIDE DEF total
      <4> QED BY <1>3, <2>1, <2>3 DEF holds
    <3>3. QED
      BY <1>5, <2>1, <3>1, <3>2, 0 \in Int, Zenon
  <2>4. QED
    BY <2>2, <2>3
<1>9. CASE SettleDeal(d)
  <2>1. /\ stage[d] = "deal" /\ "settled" \in Stages
        /\ stage' = [stage EXCEPT ![d] = "settled"]
        /\ terms' = terms
    BY <1>9 DEF SettleDeal, InStage, Stages
  <2>2. PICK kept \in Int : Moves(d, -total, kept)
    BY <1>1, <1>9, SettlementMoves
  <2>3. holds("settled") - holds(stage[d]) = -total
    <3> HIDE DEF total
    <3> QED BY <1>3, <2>1 DEF holds
  <2>4. QED
    BY <1>5, <2>1, <2>2, <2>3
<1>10. QED
  BY <1>6, <1>7, <1>8, <1>9

LEMMA NextMInv == MInv /\ [Next]_escrowVars => MInv'
<1> SUFFICES ASSUME MInv, [Next]_escrowVars PROVE MInv'
  OBVIOUS
<1>1. CASE Next
  BY <1>1, SlotActionsMoney DEF Next
<1>2. CASE UNCHANGED escrowVars
  <2>1. IInv'
    BY <1>2, NextIInv DEF MInv
  <2>2. ReservedBalanceIsHeld'
    BY <1>2 DEF MInv, ReservedBalanceIsHeld, escrowVars, Held, ReservedTotal, Price, Percent
  <2>3. MoneyConserved'
    BY <1>2 DEF MInv, MoneyConserved, InWallets, Revenues, escrowVars
  <2>4. QED
    BY <2>1, <2>2, <2>3 DEF MInv
<1>3. QED
  BY <1>1, <1>2

LEMMA MoneyInductive == Spec => []MInv
<1>1. QED
  BY InitMInv, NextMInv, PTL DEF Spec

(* However many offers and deals an advertiser has, of either generation,  *)
(* reserved_balance is what they still hold: _require_reserved and         *)
(* release_offer of apps/billing/services.py never meet a balance short of *)
(* the reservation they take.                                              *)
THEOREM ReservedBalanceMatches == Spec => []ReservedBalanceIsHeld
<1>1. MInv => ReservedBalanceIsHeld
  BY DEF MInv
<1>2. QED
  BY <1>1, MoneyInductive, PTL

(* Over any number of wallets and deals no operation makes or loses money: *)
(* reservation, release, payment, split, compensation, roundings included. *)
THEOREM NoMoneyMadeOrLost == Spec => []MoneyConserved
<1>1. MInv => MoneyConserved
  BY DEF MInv
<1>2. QED
  BY <1>1, MoneyInductive, PTL
=============================================================================
