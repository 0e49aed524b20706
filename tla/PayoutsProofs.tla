--------------------------- MODULE PayoutsProofs ----------------------------
(***************************************************************************)
(* Theorems about Payouts (and Performer, which it extends) for every      *)
(* number of deals, payouts and transactions in flight, and all sums.      *)
(***************************************************************************)
EXTENDS Payouts, SumLemmas

ApprovedVersions == {approved[i] : i \in DOMAIN approved}

Profiles == [category : Categories, confirmed : SUBSET Targets]

(***************************************************************************)
(* What the properties lack to be inductive: what a transaction in flight  *)
(* has read is still good when it commits.  A deal that is being paid has  *)
(* not been paid yet, by this or another transaction; the requisites a     *)
(* payment or a payout carries were approved at some time; an application  *)
(* being approved is still there, and one approval is in flight at a time; *)
(* the form saves a category that the row it saves confirms.               *)
(***************************************************************************)
Sound(x, done, versions, request, rows) ==
  /\ x.kind = "pay" => /\ x.deal \in Deals /\ x.deal \notin done
                       /\ x.requisites \in versions \cup {NoVersion}
  /\ x.kind = "requisites" => request # NoVersion
  /\ x.kind = "balance" => x.amount \in Nat
  /\ x.kind \in {"approve", "reject"} => x.row \in Applications /\ rows[x.row].status # "none"
  /\ x.kind = "confirm" => x.target \in Targets /\ x.raise \in BOOLEAN
  /\ x.kind = "edit" => /\ x.saved \in Profiles
                        /\ x.saved.category \in x.saved.confirmed \cup {"individual"}

Excludes(x, y) ==
  /\ ~(x.kind = "requisites" /\ y.kind = "requisites")
  /\ ~(x.kind = "pay" /\ y.kind = "pay" /\ x.deal = y.deal)

TxnsSound ==
  /\ DOMAIN txn = Txns
  /\ \A t \in Txns : Sound(txn[t], paid, ApprovedVersions, application, ipApplication)
  /\ \A t, u \in Txns : t # u => Excludes(txn[t], txn[u])

\* an uploaded document is for a category that needs one
DocumentsTargeted ==
  \A a \in Applications : ipApplication[a].status # "none" => ipApplication[a].target \in Targets

SnapshotsApproved == \A p \in Payouts : payout[p].requisites \in ApprovedVersions \cup {NoVersion}

IInv ==
  /\ TypeOK
  /\ TxnsSound
  /\ DocumentsTargeted
  /\ SnapshotsApproved
  /\ RegisterBalanced
  /\ PaidToApproved
  /\ CategoryConfirmed
  /\ PlatformInvoiceFollowsPayout

-----------------------------------------------------------------------------
(* Entries of txn.  The rows an entry relies on only move in its favour.   *)
Grows ==
  /\ \A t \in Txns : txn'[t].kind = "pay" => txn'[t].deal \notin paid' \ paid
  /\ ApprovedVersions \subseteq ApprovedVersions'
  /\ \A t \in Txns : txn'[t].kind = "requisites" /\ application # NoVersion => application' # NoVersion
  /\ \A a \in Applications : ipApplication[a].status # "none" => ipApplication'[a].status # "none"

LEMMA EntryStays ==
  ASSUME Grows, NEW t \in Txns, txn'[t] = txn[t],
         Sound(txn[t], paid, ApprovedVersions, application, ipApplication)
  PROVE  Sound(txn'[t], paid', ApprovedVersions', application', ipApplication')
  BY DEF Grows, Sound

(* One entry changes to x.                                                 *)
LEMMA EntryChanges ==
  ASSUME TxnsSound, Grows, NEW t \in Txns, NEW x, txn' = [txn EXCEPT ![t] = x],
         Sound(x, paid', ApprovedVersions', application', ipApplication'),
         \A u \in Txns \ {t} : Excludes(x, txn[u])
  PROVE  TxnsSound'
<1>1. /\ DOMAIN txn' = Txns
      /\ txn'[t] = x
      /\ \A u \in Txns \ {t} : txn'[u] = txn[u]
  BY DEF TxnsSound
<1>2. ASSUME NEW u \in Txns
      PROVE  Sound(txn'[u], paid', ApprovedVersions', application', ipApplication')
  <2>1. CASE u = t
    BY <1>1, <2>1
  <2>2. CASE u # t
    BY <1>1, <2>2, EntryStays DEF TxnsSound
  <2>3. QED
    BY <2>1, <2>2
<1>3. \A u, v \in Txns : u # v => Excludes(txn'[u], txn'[v])
  BY <1>1 DEF TxnsSound, Excludes
<1>4. QED
  BY <1>1, <1>2, <1>3 DEF TxnsSound

LEMMA EntriesStay ==
  ASSUME TxnsSound, Grows, txn' = txn
  PROVE  TxnsSound'
<1>1. \A t \in Txns : Sound(txn'[t], paid', ApprovedVersions', application', ipApplication')
  BY EntryStays DEF TxnsSound
<1>2. QED
  BY <1>1 DEF TxnsSound

(* A transaction begins: nothing else moves.                               *)
LEMMA EntryBegins ==
  ASSUME TxnsSound, NEW x, Begin(x), UNCHANGED <<paid, approved, application, ipApplication>>,
         Sound(x, paid, ApprovedVersions, application, ipApplication),
         \A u \in Txns : Excludes(x, txn[u])
  PROVE  TxnsSound'
<1>1. PICK t \in Txns : txn[t] = Idle /\ txn' = [txn EXCEPT ![t] = x]
  BY DEF Begin
<1>2. Grows /\ ApprovedVersions' = ApprovedVersions
  BY DEF Grows, ApprovedVersions
<1>3. QED
  BY <1>1, <1>2, EntryChanges

(* A transaction ends, or goes on as x to a step that locks nothing.       *)
LEMMA EntryEnds ==
  ASSUME TxnsSound, Grows, NEW t \in Txns, End(t)
  PROVE  TxnsSound'
<1>1. /\ Sound(Idle, paid', ApprovedVersions', application', ipApplication')
      /\ \A u \in Txns : Excludes(Idle, txn[u])
  BY DEF Idle, Sound, Excludes
<1>2. txn' = [txn EXCEPT ![t] = Idle]
  BY DEF End
<1>3. QED
  BY <1>1, <1>2, EntryChanges

-----------------------------------------------------------------------------
(* Rows of the register.                                                   *)
Wallets == [available : Nat, onWithdrawal : Nat]

Statuses == {"none", "pending", "rejected", "completed"}

Completed(p) == payout[p].status = "completed"

LEMMA SharesNat ==
  ASSUME TypeOK, NEW s
  PROVE  \A p \in Payouts : Share(p, s) \in Nat
  BY DEF TypeOK, Rows, Share

LEMMA SumsNat ==
  ASSUME TypeOK, NEW s
  PROVE  Sum(s) \in Nat
<1> DEFINE f == [p \in Payouts |-> Share(p, s)]
<1>1. \A p \in Payouts : f[p] \in Nat
  BY SharesNat
<1>2. SumFunctionOnSet(f, Payouts) \in Nat
  <2> HIDE DEF f
  <2>1. QED
    BY <1>1, SumNat, RowsAssumption
<1>3. QED
  BY <1>2 DEF Sum

\* No payout waits for more than is on withdrawal.
LEMMA ShareBounded ==
  ASSUME TypeOK, NEW s, NEW p \in Payouts
  PROVE  Share(p, s) <= Sum(s)
<1> DEFINE f == [q \in Payouts |-> Share(q, s)]
<1>1. \A q \in Payouts : f[q] \in Nat
  BY SharesNat
<1>2. f[p] <= SumFunctionOnSet(f, Payouts)
  <2> HIDE DEF f
  <2>1. QED
    BY <1>1, SummandBounded, RowsAssumption
<1>3. QED
  BY <1>2 DEF Sum

LEMMA SumsSame ==
  ASSUME NEW s, \A p \in Payouts : Share(p, s)' = Share(p, s)
  PROVE  Sum(s)' = Sum(s)
<1> DEFINE f == [p \in Payouts |-> Share(p, s)]
           g == [p \in Payouts |-> Share(p, s)']
<1>1. \A p \in Payouts : f[p] = g[p]
  OBVIOUS
<1>2. SumFunctionOnSet(f, Payouts) = SumFunctionOnSet(g, Payouts)
  <2> HIDE DEF f, g
  <2>1. QED
    BY <1>1, SumSame, RowsAssumption
<1>3. QED
  BY <1>2 DEF Sum

(* One row changes: a sum moves by what that row adds to it.               *)
LEMMA SumsChange ==
  ASSUME TypeOK, NEW s, NEW p \in Payouts, NEW r \in Rows, payout' = [payout EXCEPT ![p] = r]
  PROVE  Sum(s)' = Sum(s) - Share(p, s) + (IF r.status = s THEN r.amount ELSE 0)
<1> DEFINE f == [q \in Payouts |-> Share(q, s)]
           g == [q \in Payouts |-> Share(q, s)']
           new == IF r.status = s THEN r.amount ELSE 0
<1>1. /\ payout'[p] = r
      /\ \A q \in Payouts \ {p} : payout'[q] = payout[q]
  BY DEF TypeOK
<1>2. /\ f[p] = Share(p, s)
      /\ g[p] = new
      /\ \A q \in Payouts \ {p} : g[q] = f[q]
  BY <1>1 DEF Share
<1>3. new \in Int /\ \A q \in Payouts : f[q] \in Int
  BY SharesNat DEF Rows
<1>4. SumFunctionOnSet(g, Payouts) = SumFunctionOnSet(f, Payouts) - f[p] + g[p]
  <2> HIDE DEF f, g, new
  <2>1. QED
    BY <1>2, <1>3, SumChange, RowsAssumption
<1>5. Sum(s) = SumFunctionOnSet(f, Payouts) /\ Sum(s)' = SumFunctionOnSet(g, Payouts)
  BY DEF Sum
<1>6. QED
  <2> HIDE DEF f, g
  <2>1. QED
    BY <1>2, <1>4, <1>5

(* process_withdrawal.                                                     *)
LEMMA PayoutFiled ==
  ASSUME TypeOK, NEW w \in Wallets, NEW p \in Payouts, NEW d \in Deals \cup {NoDeal},
         NEW amount \in Nat, NEW v \in Versions \cup {NoVersion}, NewPayout(w, p, d, amount, v)
  PROVE  /\ payout' \in [Payouts -> Rows]
         /\ wallet' \in Wallets
         /\ wallet'.available = w.available - amount
         /\ wallet'.onWithdrawal = w.onWithdrawal + amount
         /\ Sum("pending")' = Sum("pending") + amount
         /\ Sum("completed")' = Sum("completed")
         /\ \A q \in Payouts : Completed(q)' <=> Completed(q)
         /\ \A q \in Payouts : Completed(q) => payout'[q] = payout[q]
         /\ \A q \in Payouts : payout'[q].requisites \in {payout[q].requisites, v}
<1> DEFINE r == [status |-> "pending", deal |-> d, amount |-> amount, requisites |-> v]
<1>1. r \in Rows /\ r.status = "pending" /\ r.amount = amount /\ r.requisites = v
  BY DEF Rows
<1>2. payout[p].status = "none" /\ payout' = [payout EXCEPT ![p] = r] /\ w.available >= amount
  BY DEF NewPayout
<1>3. payout' \in [Payouts -> Rows]
  <2> HIDE DEF r
  <2>1. QED
    BY <1>1, <1>2 DEF TypeOK
<1>4. wallet' \in Wallets /\ wallet'.available = w.available - amount
      /\ wallet'.onWithdrawal = w.onWithdrawal + amount
  BY DEF NewPayout, Wallets
<1>5. Share(p, "pending") = 0 /\ Share(p, "completed") = 0
  BY <1>2 DEF Share
<1>6. /\ Sum("pending")' = Sum("pending") - 0 + amount
      /\ Sum("completed")' = Sum("completed") - 0 + 0
  <2> HIDE DEF r
  <2>1. \A s : Sum(s)' = Sum(s) - Share(p, s) + (IF r.status = s THEN r.amount ELSE 0)
    BY <1>1, <1>2, SumsChange
  <2>2. /\ Sum("pending")' = Sum("pending") - Share(p, "pending") + amount
        /\ Sum("completed")' = Sum("completed") - Share(p, "completed") + 0
    BY <1>1, <2>1
  <2>3. QED
    BY <1>5, <2>2
<1>7. /\ payout'[p] = r
      /\ \A q \in Payouts \ {p} : payout'[q] = payout[q]
  BY <1>2 DEF TypeOK
<1>8. QED
  <2> HIDE DEF r
  <2>1. Sum("pending") \in Nat /\ Sum("completed") \in Nat
    BY SumsNat
  <2>2. /\ \A q \in Payouts : Completed(q)' <=> Completed(q)
        /\ \A q \in Payouts : Completed(q) => payout'[q] = payout[q]
        /\ \A q \in Payouts : payout'[q].requisites \in {payout[q].requisites, v}
    BY <1>1, <1>2, <1>7 DEF Completed
  <2>3. Sum("pending")' = Sum("pending") + amount /\ Sum("completed")' = Sum("completed")
    BY <1>6, <2>1
  <2>4. QED
    BY <1>3, <1>4, <2>2, <2>3

LEMMA CurrentApproved ==
  ASSUME TypeOK
  PROVE  /\ ApprovedVersions \subseteq Versions
         /\ CurrentRequisites \in ApprovedVersions \cup {NoVersion}
<1>1. approved \in Seq(Versions) /\ DOMAIN approved = 1..Len(approved)
  BY DEF TypeOK
<1>2. ApprovedVersions \subseteq Versions
  BY <1>1 DEF ApprovedVersions
<1>3. CASE approved = <<>>
  BY <1>2, <1>3 DEF CurrentRequisites
<1>4. CASE approved # <<>>
  <2>1. Len(approved) \in DOMAIN approved
    BY <1>1, <1>4
  <2>2. QED
    BY <1>2, <1>4, <2>1 DEF CurrentRequisites, ApprovedVersions
<1>5. QED
  BY <1>3, <1>4

(* complete_withdrawal: the row of p.                                      *)
LEMMA PayoutCarriedOut ==
  ASSUME TypeOK, NEW p \in Payouts, CompleteWithdrawal(p)
  PROVE  /\ payout' \in [Payouts -> Rows]
         /\ wallet' \in Wallets
         /\ paidOut' \in Nat
         /\ wallet'.available = wallet.available
         /\ wallet'.onWithdrawal = wallet.onWithdrawal - payout[p].amount
         /\ Sum("pending")' = Sum("pending") - payout[p].amount
         /\ Sum("completed")' = Sum("completed") + payout[p].amount
         /\ payout'[p].status = "completed" /\ payout'[p].deal = payout[p].deal
         /\ payout'[p].requisites = EffectiveRequisites(p)
         /\ \A q \in Payouts \ {p} : payout'[q] = payout[q]
<1> DEFINE v == EffectiveRequisites(p)
           r == [payout[p] EXCEPT !.status = "completed", !.requisites = v]
<1>1. payout[p] \in Rows /\ payout[p].amount \in Nat /\ wallet \in Wallets /\ paidOut \in Nat
  BY DEF TypeOK, Rows, Wallets
<1>2. v \in Versions \cup {NoVersion}
  BY <1>1, CurrentApproved DEF EffectiveRequisites, Rows
<1>3. /\ r \in Rows /\ r.status = "completed" /\ r.amount = payout[p].amount
      /\ r.deal = payout[p].deal /\ r.requisites = v
  <2> HIDE DEF v
  <2>1. QED
    BY <1>1, <1>2 DEF Rows
<1>4. payout' = [payout EXCEPT ![p] = r]
  BY <1>1 DEF CompleteWithdrawal, TypeOK, Rows
<1>5. /\ wallet' \in Wallets /\ paidOut' \in Nat
      /\ wallet'.available = wallet.available
      /\ wallet'.onWithdrawal = wallet.onWithdrawal - payout[p].amount
  BY <1>1 DEF CompleteWithdrawal, Wallets
<1>6. payout[p].status = "pending"
  BY DEF CompleteWithdrawal
<1>7. /\ Sum("pending")' = Sum("pending") - payout[p].amount
      /\ Sum("completed")' = Sum("completed") + payout[p].amount
  <2> HIDE DEF r
  <2>1. \A s : Sum(s)' = Sum(s) - Share(p, s) + (IF r.status = s THEN r.amount ELSE 0)
    BY <1>3, <1>4, SumsChange
  <2>2. /\ Sum("pending")' = Sum("pending") - Share(p, "pending") + 0
        /\ Sum("completed")' = Sum("completed") - Share(p, "completed") + payout[p].amount
    BY <1>3, <2>1
  <2>3. Share(p, "pending") = payout[p].amount /\ Share(p, "completed") = 0
    BY <1>6 DEF Share
  <2>4. Sum("pending") \in Nat /\ Sum("completed") \in Nat
    BY SumsNat
  <2>5. QED
    BY <1>1, <2>2, <2>3, <2>4
<1>8. QED
  <2> HIDE DEF r
  <2>1. payout' \in [Payouts -> Rows] /\ payout'[p] = r /\ \A q \in Payouts \ {p} : payout'[q] = payout[q]
    BY <1>3, <1>4 DEF TypeOK
  <2>2. QED
    BY <1>3, <1>5, <1>7, <2>1

(* reject_withdrawal: the row of p.                                        *)
LEMMA PayoutRejected ==
  ASSUME TypeOK, NEW p \in Payouts, RejectWithdrawal(p)
  PROVE  /\ payout' \in [Payouts -> Rows]
         /\ wallet' \in Wallets
         /\ wallet'.available = wallet.available + payout[p].amount
         /\ wallet'.onWithdrawal = wallet.onWithdrawal - payout[p].amount
         /\ Sum("pending")' = Sum("pending") - payout[p].amount
         /\ Sum("completed")' = Sum("completed")
         /\ \A q \in Payouts : Completed(q)' <=> Completed(q)
         /\ \A q \in Payouts : Completed(q) => payout'[q] = payout[q]
         /\ \A q \in Payouts : payout'[q].requisites = payout[q].requisites
<1> DEFINE r == [payout[p] EXCEPT !.status = "rejected"]
<1>1. payout[p] \in Rows /\ payout[p].amount \in Nat /\ wallet \in Wallets
  BY DEF TypeOK, Rows, Wallets
<1>2. /\ r \in Rows /\ r.status = "rejected" /\ r.amount = payout[p].amount
      /\ r.requisites = payout[p].requisites
  BY <1>1 DEF Rows
<1>3. payout' = [payout EXCEPT ![p] = r]
  BY <1>1 DEF RejectWithdrawal, TypeOK, Rows
<1>4. /\ wallet' \in Wallets
      /\ wallet'.available = wallet.available + payout[p].amount
      /\ wallet'.onWithdrawal = wallet.onWithdrawal - payout[p].amount
  BY <1>1 DEF RejectWithdrawal, Wallets
<1>5. payout[p].status = "pending"
  BY DEF RejectWithdrawal
<1>6. /\ Sum("pending")' = Sum("pending") - payout[p].amount
      /\ Sum("completed")' = Sum("completed")
  <2> HIDE DEF r
  <2>1. \A s : Sum(s)' = Sum(s) - Share(p, s) + (IF r.status = s THEN r.amount ELSE 0)
    BY <1>2, <1>3, SumsChange
  <2>2. /\ Sum("pending")' = Sum("pending") - Share(p, "pending") + 0
        /\ Sum("completed")' = Sum("completed") - Share(p, "completed") + 0
    BY <1>2, <2>1
  <2>3. Share(p, "pending") = payout[p].amount /\ Share(p, "completed") = 0
    BY <1>5 DEF Share
  <2>4. Sum("pending") \in Nat /\ Sum("completed") \in Nat
    BY SumsNat
  <2>5. QED
    BY <1>1, <2>2, <2>3, <2>4
<1>7. QED
  <2> HIDE DEF r
  <2>1. /\ payout' \in [Payouts -> Rows]
        /\ payout'[p] = r
        /\ \A q \in Payouts \ {p} : payout'[q] = payout[q]
    BY <1>2, <1>3 DEF TypeOK
  <2>2. /\ \A q \in Payouts : Completed(q)' <=> Completed(q)
        /\ \A q \in Payouts : Completed(q) => payout'[q] = payout[q]
        /\ \A q \in Payouts : payout'[q].requisites = payout[q].requisites
    BY <1>2, <1>5, <2>1 DEF Completed
  <2>3. QED
    BY <1>4, <1>6, <2>1, <2>2

(* approve_payout_requisites: the listed rows get the snapshot.            *)
LEMMA SnapshotsWritten ==
  ASSUME TypeOK, TxnsSound, NEW t \in Txns, ApproveCommit(t)
  PROVE  /\ application \in Versions
         /\ payout' \in [Payouts -> Rows]
         /\ approved' \in Seq(Versions)
         /\ ApprovedVersions' = ApprovedVersions \cup {application}
         /\ \A s : Sum(s)' = Sum(s)
         /\ \A q \in Payouts : /\ payout'[q].status = payout[q].status
                               /\ payout'[q].deal = payout[q].deal
                               /\ payout'[q].requisites \in {payout[q].requisites, application}
<1>1. application \in Versions
  BY DEF TypeOK, TxnsSound, Sound, ApproveCommit
<1>2. ASSUME NEW q \in Payouts
      PROVE  /\ payout'[q] \in Rows
             /\ payout'[q].status = payout[q].status
             /\ payout'[q].deal = payout[q].deal
             /\ payout'[q].amount = payout[q].amount
             /\ payout'[q].requisites \in {payout[q].requisites, application}
  <2>1. payout[q] \in Rows
    BY DEF TypeOK
  <2>2. payout'[q] \in {[payout[q] EXCEPT !.requisites = application], payout[q]}
    BY DEF ApproveCommit
  <2>3. QED
    BY <1>1, <2>1, <2>2 DEF Rows
<1>3. payout' \in [Payouts -> Rows]
  <2>1. DOMAIN payout' = Payouts /\ payout' = [q \in Payouts |-> payout'[q]]
    BY DEF ApproveCommit
  <2>2. QED
    BY <1>2, <2>1
<1>4. \A s : Sum(s)' = Sum(s)
  <2>1. ASSUME NEW s
        PROVE  Sum(s)' = Sum(s)
    <3>1. \A p \in Payouts : Share(p, s)' = Share(p, s)
      BY <1>2 DEF Share
    <3>2. QED
      BY <3>1, SumsSame
  <2>2. QED
    BY <2>1
<1>5. approved \in Seq(Versions) /\ approved' = Append(approved, application)
  BY DEF TypeOK, ApproveCommit
<1>6. /\ approved' \in Seq(Versions)
      /\ ApprovedVersions' = ApprovedVersions \cup {application}
  <2>1. /\ Len(approved') = Len(approved) + 1
        /\ approved'[Len(approved) + 1] = application
        /\ \A i \in 1..Len(approved) : approved'[i] = approved[i]
        /\ approved' \in Seq(Versions)
    BY <1>1, <1>5
  <2>2. /\ DOMAIN approved' = 1..(Len(approved) + 1)
        /\ DOMAIN approved = 1..Len(approved)
        /\ Len(approved) \in Nat
    BY <1>5, <2>1
  <2>3. DOMAIN approved' = DOMAIN approved \cup {Len(approved) + 1}
    BY <2>2
  <2>4. QED
    BY <2>1, <2>2, <2>3 DEF ApprovedVersions
<1>7. QED
  BY <1>1, <1>2, <1>3, <1>4, <1>6

-----------------------------------------------------------------------------
(* The rows keep their shape.                                              *)
LEMMA PayDealTyped ==
  ASSUME TypeOK, TxnsSound, NEW t \in Txns, txn[t].kind = "pay"
  PROVE  LET d == txn[t].deal
             credited == [wallet EXCEPT !.available = @ + Earning[d]]
         IN /\ d \in Deals /\ d \notin paid /\ Earning[d] \in Nat
            /\ txn[t].requisites \in ApprovedVersions \cup {NoVersion}
            /\ txn[t].requisites \in Versions \cup {NoVersion}
            /\ credited \in Wallets
            /\ credited.available = wallet.available + Earning[d]
            /\ credited.onWithdrawal = wallet.onWithdrawal
<1>1. /\ txn[t].deal \in Deals /\ txn[t].deal \notin paid
      /\ txn[t].requisites \in ApprovedVersions \cup {NoVersion}
  BY DEF TxnsSound, Sound
<1>2. Earning[txn[t].deal] \in Nat
  BY <1>1, PayoutAssumption
<1>3. wallet \in Wallets
  BY DEF TypeOK, Wallets
<1>4. ASSUME NEW n \in Nat
      PROVE  /\ [wallet EXCEPT !.available = @ + n] \in Wallets
             /\ [wallet EXCEPT !.available = @ + n].available = wallet.available + n
             /\ [wallet EXCEPT !.available = @ + n].onWithdrawal = wallet.onWithdrawal
  BY <1>3 DEF Wallets
<1>5. QED
  BY <1>1, <1>2, <1>4, CurrentApproved

LEMMA DocumentsTyped ==
  ASSUME TypeOK, NEW d \in Deals
  PROVE  /\ \A s \in PerformerStatuses :
              [performerEsf EXCEPT ![d] = s] \in [Deals -> PerformerStatuses \cup {"none"}]
         /\ \A s \in PlatformStatuses :
              [platformEsf EXCEPT ![d] = s] \in [Deals -> PlatformStatuses \cup {"none"}]
  BY DEF TypeOK

LEMMA PayoutTypes ==
  ASSUME TypeOK, TxnsSound, PayoutNext, UNCHANGED profileVars
  PROVE  TypeOK'
<1> DEFINE Typed == /\ payout' \in [Payouts -> Rows] /\ wallet' \in Wallets /\ paidOut' \in Nat
                    /\ paid' \subseteq Deals /\ receipt' \subseteq Deals
                    /\ performerEsf' \in [Deals -> PerformerStatuses \cup {"none"}]
                    /\ platformEsf' \in [Deals -> PlatformStatuses \cup {"none"}]
                    /\ application' \in Versions \cup {NoVersion}
                    /\ approved' \in Seq(Versions)
<1>1. /\ payout \in [Payouts -> Rows] /\ wallet \in Wallets /\ paidOut \in Nat
      /\ paid \subseteq Deals /\ receipt \subseteq Deals
      /\ performerEsf \in [Deals -> PerformerStatuses \cup {"none"}]
      /\ platformEsf \in [Deals -> PlatformStatuses \cup {"none"}]
      /\ application \in Versions \cup {NoVersion}
      /\ approved \in Seq(Versions)
  BY DEF TypeOK, Wallets
<1>2. CurrentRequisites \in Versions \cup {NoVersion}
  BY CurrentApproved
<1>3. ASSUME NEW d \in Deals, PayDealRead(d)
      PROVE  Typed
  BY <1>1, <1>3 DEF PayDealRead, documents
<1>4. ASSUME NEW d \in Deals, Reissue(d)
      PROVE  Typed
  <2>1. PICK last \in Payouts, p \in Payouts :
          NewPayout(wallet, p, d, payout[last].amount, CurrentRequisites)
    BY <1>4 DEF Reissue
  <2>2. payout[last].amount \in Nat
    BY <1>1 DEF Rows
  <2>3. payout' \in [Payouts -> Rows] /\ wallet' \in Wallets
    BY <1>1, <1>2, <2>1, <2>2, PayoutFiled
  <2>4. QED
    BY <1>1, <1>4, <2>3 DEF Reissue, documents
<1>5. ASSUME NEW d \in Deals, ConfirmReceipt(d)
      PROVE  Typed
  BY <1>1, <1>5 DEF ConfirmReceipt
<1>6. ASSUME NEW d \in Deals, NEW s \in PerformerStatuses, SetPerformerStatus(d, s)
      PROVE  Typed
  BY <1>1, <1>6, DocumentsTyped DEF SetPerformerStatus
<1>7. ASSUME NEW d \in Deals, NEW s \in PlatformStatuses, SetPlatformStatus(d, s)
      PROVE  Typed
  BY <1>1, <1>7, DocumentsTyped DEF SetPlatformStatus
<1>8. ASSUME NEW p \in Payouts, CompleteWithdrawal(p)
      PROVE  Typed
  <2>1. payout' \in [Payouts -> Rows] /\ wallet' \in Wallets /\ paidOut' \in Nat
    BY <1>8, PayoutCarriedOut
  <2>2. platformEsf' \in [Deals -> PlatformStatuses \cup {"none"}]
    BY <1>1, <1>8 DEF CompleteWithdrawal, PlatformStatuses
  <2>3. QED
    BY <1>1, <1>8, <2>1, <2>2 DEF CompleteWithdrawal
<1>9. ASSUME NEW p \in Payouts, RejectWithdrawal(p)
      PROVE  Typed
  <2>1. payout' \in [Payouts -> Rows] /\ wallet' \in Wallets
    BY <1>9, PayoutRejected
  <2>2. QED
    BY <1>1, <1>9, <2>1 DEF RejectWithdrawal, documents
<1>10. ASSUME NEW v \in Versions, SubmitRequisites(v)
       PROVE  Typed
  BY <1>1, <1>10 DEF SubmitRequisites, documents
<1>11. ASSUME ApproveRead \/ LegacyBalanceRead
       PROVE  Typed
  BY <1>1, <1>11 DEF ApproveRead, LegacyBalanceRead, documents
<1>12. ASSUME RejectRequisites
       PROVE  Typed
  BY <1>1, <1>12 DEF RejectRequisites, documents
<1>13. ASSUME NEW t \in Txns, PayDealCommit(t)
       PROVE  Typed
  <2> DEFINE d == txn[t].deal
             credited == [wallet EXCEPT !.available = @ + Earning[d]]
  <2>1. txn[t].kind = "pay"
    BY <1>13 DEF PayDealCommit
  <2>2. /\ d \in Deals /\ Earning[d] \in Nat /\ credited \in Wallets
        /\ txn[t].requisites \in Versions \cup {NoVersion}
    BY <2>1, PayDealTyped
  <2>3. PICK p \in Payouts : NewPayout(credited, p, d, Earning[d], txn[t].requisites)
    BY <1>13 DEF PayDealCommit
  <2>4. payout' \in [Payouts -> Rows] /\ wallet' \in Wallets
    <3> HIDE DEF d, credited
    <3>1. d \in Deals \cup {NoDeal}
      BY <2>2
    <3>2. QED
      BY <2>2, <2>3, <3>1, PayoutFiled
  <2>5. performerEsf' \in [Deals -> PerformerStatuses \cup {"none"}]
    <3>1. \E s \in PerformerStatuses : performerEsf' = [performerEsf EXCEPT ![d] = s]
      BY <1>13 DEF PayDealCommit, PerformerStatuses
    <3>2. QED
      BY <2>2, <3>1, DocumentsTyped
  <2>6. QED
    BY <1>1, <1>13, <2>2, <2>4, <2>5 DEF PayDealCommit
<1>14. ASSUME NEW t \in Txns, ApproveCommit(t)
       PROVE  Typed
  <2>1. payout' \in [Payouts -> Rows] /\ approved' \in Seq(Versions)
    BY <1>14, SnapshotsWritten
  <2>2. QED
    BY <1>1, <1>14, <2>1 DEF ApproveCommit, documents
<1>15. ASSUME NEW t \in Txns, LegacyBalanceCommit(t)
       PROVE  Typed
  <2>1. CASE UNCHANGED <<payout, wallet>>
    BY <1>1, <1>15, <2>1 DEF LegacyBalanceCommit, documents
  <2>2. CASE \E p \in Payouts : NewPayout(wallet, p, NoDeal, txn[t].amount, CurrentRequisites)
    <3>1. txn[t].amount \in Nat
      BY <1>15 DEF LegacyBalanceCommit, TxnsSound, Sound
    <3>2. payout' \in [Payouts -> Rows] /\ wallet' \in Wallets
      BY <1>1, <1>2, <2>2, <3>1, PayoutFiled
    <3>3. QED
      BY <1>1, <1>15, <3>2 DEF LegacyBalanceCommit, documents
  <2>3. QED
    BY <1>15, <2>1, <2>2 DEF LegacyBalanceCommit
<1>16. Typed
  BY <1>3, <1>4, <1>5, <1>6, <1>7, <1>8, <1>9, <1>10, <1>11, <1>12, <1>13, <1>14, <1>15
  DEF PayoutNext
<1>17. PerformerTypeOK'
  BY DEF TypeOK, PerformerTypeOK, profileVars
<1>18. QED
  BY <1>16, <1>17 DEF TypeOK, Wallets

LEMMA PerformerTypes ==
  ASSUME TypeOK, TxnsSound, DocumentsTargeted, PerformerNext, UNCHANGED payoutVars
  PROVE  TypeOK' /\ DocumentsTargeted'
<1> DEFINE Documents == [target : Categories, status : {"none", "pending", "approved", "rejected"}]
           Typed == /\ verified' \in BOOLEAN
                    /\ profile' \in Profiles
                    /\ ipApplication' \in [Applications -> Documents]
                    /\ \A a \in Applications : /\ ipApplication[a].status # "none" => ipApplication'[a].status # "none"
                                               /\ ipApplication'[a].status # "none" => ipApplication'[a].target \in Targets
<1>1. /\ verified \in BOOLEAN
      /\ profile \in Profiles
      /\ ipApplication \in [Applications -> Documents]
      /\ \A a \in Applications : ipApplication[a].status # "none" => ipApplication[a].target \in Targets
  BY DEF TypeOK, PerformerTypeOK, Profiles, DocumentsTargeted
<1>2. ASSUME VerifyIdentity
      PROVE  Typed
  BY <1>1, <1>2 DEF VerifyIdentity
<1>3. ASSUME NEW a \in Applications, NEW target \in Targets, UploadDocument(a, target)
      PROVE  Typed
  <2> DEFINE r == [target |-> target, status |-> "pending"]
  <2>1. r \in Documents /\ r.target \in Targets /\ r.status # "none"
    BY DEF Categories
  <2>2. ipApplication' = [ipApplication EXCEPT ![a] = r] /\ verified' = verified /\ profile' = profile
    BY <1>3 DEF UploadDocument
  <2> HIDE DEF r, Documents
  <2>3. QED
    BY <1>1, <2>1, <2>2
<1>4. ASSUME UNCHANGED profileVars
      PROVE  Typed
  BY <1>1, <1>4 DEF profileVars
<1>5. ASSUME NEW t \in Txns, RejectWrite(t) \/ ApproveWrite(t)
      PROVE  Typed
  <2> DEFINE a == txn[t].row
             r(s) == [ipApplication[a] EXCEPT !.status = s]
  <2>1. a \in Applications /\ ipApplication[a].status # "none"
    BY <1>5 DEF TxnsSound, Sound, RejectWrite, ApproveWrite
  <2>2. PICK s \in {"rejected", "approved"} : ipApplication' = [ipApplication EXCEPT ![a].status = s]
    BY <1>5 DEF RejectWrite, ApproveWrite
  <2>3. ipApplication' = [ipApplication EXCEPT ![a] = r(s)]
    BY <1>1, <2>1, <2>2
  <2>4. r(s) \in Documents /\ r(s).target = ipApplication[a].target /\ r(s).status # "none"
    BY <1>1, <2>1, <2>2
  <2>5. verified' = verified /\ profile' = profile
    BY <1>5 DEF RejectWrite, ApproveWrite
  <2> HIDE DEF a, r, Documents
  <2>6. QED
    BY <1>1, <2>1, <2>3, <2>4, <2>5
<1>6. ASSUME NEW t \in Txns, ConfirmWrite(t)
      PROVE  Typed
  <2>1. txn[t].target \in Targets /\ txn[t].raise \in BOOLEAN
    BY <1>6 DEF TxnsSound, Sound, ConfirmWrite
  <2>2. profile' \in Profiles
    BY <1>1, <1>6, <2>1 DEF ConfirmWrite, Profiles, Categories
  <2>3. QED
    BY <1>1, <1>6, <2>2 DEF ConfirmWrite
<1>7. ASSUME NEW t \in Txns, EditWrite(t)
      PROVE  Typed
  <2>1. txn[t].saved \in Profiles
    BY <1>7 DEF TxnsSound, Sound, EditWrite
  <2>2. QED
    BY <1>1, <1>7, <2>1 DEF EditWrite
<1>8. Typed
  <2> HIDE DEF Typed
  <2>1. ASSUME NEW a \in Applications, NEW decision \in {"approve", "reject"}, DecideRead(a, decision)
        PROVE  UNCHANGED profileVars
    BY <2>1 DEF DecideRead
  <2>2. ASSUME NEW c \in Categories, EditRead(c)
        PROVE  UNCHANGED profileVars
    BY <2>2 DEF EditRead
  <2>3. ASSUME NEW t \in Txns, LoseConfirmation(t)
        PROVE  UNCHANGED profileVars
    BY <2>3 DEF LoseConfirmation
  <2>4. QED
    BY <1>2, <1>3, <1>4, <1>5, <1>6, <1>7, <2>1, <2>2, <2>3 DEF PerformerNext
<1>9. PerformerTypeOK'
  BY <1>8 DEF PerformerTypeOK, Profiles
<1>10. QED
  BY <1>8, <1>9 DEF TypeOK, payoutVars, DocumentsTargeted

-----------------------------------------------------------------------------
(* What is in flight stays sound.                                          *)
LEMMA PayoutTxnsSound ==
  ASSUME TypeOK, TxnsSound, PayoutNext, UNCHANGED profileVars
  PROVE  TxnsSound'
<1>1. CurrentRequisites \in ApprovedVersions \cup {NoVersion} /\ ipApplication' = ipApplication
  BY CurrentApproved DEF profileVars
<1>2. ASSUME NEW d \in Deals, PayDealRead(d)
      PROVE  TxnsSound'
  <2> DEFINE x == [kind |-> "pay", deal |-> d, requisites |-> CurrentRequisites]
  <2>1. Begin(x) /\ UNCHANGED <<paid, approved, application, ipApplication>>
    BY <1>1, <1>2 DEF PayDealRead
  <2>2. Sound(x, paid, ApprovedVersions, application, ipApplication)
    BY <1>1, <1>2 DEF PayDealRead, Sound
  <2>3. \A u \in Txns : Excludes(x, txn[u])
    BY <1>2 DEF PayDealRead, Excludes, InFlight
  <2> HIDE DEF x
  <2>4. QED
    BY <2>1, <2>2, <2>3, EntryBegins
<1>3. ASSUME txn' = txn, UNCHANGED <<paid, approved>>, application # NoVersion => application' # NoVersion
      PROVE  TxnsSound'
  <2>1. Grows
    BY <1>1, <1>3 DEF Grows, ApprovedVersions
  <2>2. QED
    BY <1>3, <2>1, EntriesStay
<1>4. ASSUME NEW v \in Versions, SubmitRequisites(v)
      PROVE  TxnsSound'
  BY <1>3, <1>4, PayoutAssumption DEF SubmitRequisites
<1>5. CASE RejectRequisites
  <2>1. \A u \in Txns : txn[u].kind # "requisites"
    BY <1>5 DEF RejectRequisites, InFlight
  <2>2. Grows /\ txn' = txn
    BY <1>1, <1>5, <2>1 DEF RejectRequisites, Grows, ApprovedVersions
  <2>3. QED
    BY <2>2, EntriesStay
<1>6. CASE ApproveRead
  <2> DEFINE x == [kind |-> "requisites",
                   rows |-> {p \in Payouts : payout[p].status = "pending" /\ payout[p].requisites = NoVersion}]
  <2>1. Begin(x) /\ UNCHANGED <<paid, approved, application, ipApplication>>
    BY <1>1, <1>6 DEF ApproveRead
  <2>2. Sound(x, paid, ApprovedVersions, application, ipApplication)
    BY <1>6 DEF ApproveRead, Sound
  <2>3. \A u \in Txns : Excludes(x, txn[u])
    BY <1>6 DEF ApproveRead, Excludes, InFlight
  <2> HIDE DEF x
  <2>4. QED
    BY <2>1, <2>2, <2>3, EntryBegins
<1>7. CASE LegacyBalanceRead
  <2> DEFINE x == [kind |-> "balance", amount |-> wallet.available]
  <2>1. Begin(x) /\ UNCHANGED <<paid, approved, application, ipApplication>>
    BY <1>1, <1>7 DEF LegacyBalanceRead
  <2>2. wallet.available \in Nat
    BY DEF TypeOK
  <2>3. Sound(x, paid, ApprovedVersions, application, ipApplication)
    BY <2>2 DEF Sound
  <2>4. \A u \in Txns : Excludes(x, txn[u])
    BY DEF Excludes
  <2> HIDE DEF x
  <2>5. QED
    BY <2>1, <2>3, <2>4, EntryBegins
<1>8. ASSUME NEW t \in Txns, PayDealCommit(t)
      PROVE  TxnsSound'
  <2>1. End(t) /\ txn[t].kind = "pay" /\ paid' = paid \cup {txn[t].deal}
        /\ UNCHANGED <<application, approved>>
    BY <1>8 DEF PayDealCommit
  <2>2. ASSUME NEW u \in Txns, txn'[u].kind = "pay"
        PROVE  txn'[u].deal # txn[t].deal
    BY <2>1, <2>2 DEF TxnsSound, Excludes, End, Idle
  <2>3. Grows
    BY <1>1, <2>1, <2>2 DEF Grows, ApprovedVersions
  <2>4. QED
    BY <2>1, <2>3, EntryEnds
<1>9. ASSUME NEW t \in Txns, ApproveCommit(t)
      PROVE  TxnsSound'
  <2>1. End(t) /\ txn[t].kind = "requisites" /\ paid' = paid
    BY <1>9 DEF ApproveCommit
  <2>2. \A u \in Txns : txn'[u].kind # "requisites"
    BY <2>1 DEF TxnsSound, Excludes, End, Idle
  <2>3. Grows
    BY <1>1, <1>9, <2>1, <2>2, SnapshotsWritten DEF Grows
  <2>4. QED
    BY <2>1, <2>3, EntryEnds
<1>10. ASSUME NEW t \in Txns, LegacyBalanceCommit(t)
       PROVE  TxnsSound'
  <2>1. End(t) /\ UNCHANGED <<paid, application, approved>>
    BY <1>10 DEF LegacyBalanceCommit
  <2>2. Grows
    BY <1>1, <2>1 DEF Grows, ApprovedVersions
  <2>3. QED
    BY <2>1, <2>2, EntryEnds
<1>11. QED
  BY <1>2, <1>3, <1>4, <1>5, <1>6, <1>7, <1>8, <1>9, <1>10
  DEF PayoutNext, Reissue, ConfirmReceipt, SetPerformerStatus, SetPlatformStatus, CompleteWithdrawal,
      RejectWithdrawal

LEMMA PerformerTxnsSound ==
  ASSUME TypeOK, TxnsSound, DocumentsTargeted, CategoryConfirmed, PerformerNext, UNCHANGED payoutVars
  PROVE  TxnsSound'
<1>1. /\ UNCHANGED <<paid, approved, application>>
      /\ ApprovedVersions' = ApprovedVersions
      /\ profile \in Profiles
  BY DEF payoutVars, ApprovedVersions, TypeOK, PerformerTypeOK, Profiles
<1>2. ASSUME \A a \in Applications : ipApplication[a].status # "none" => ipApplication'[a].status # "none"
      PROVE  Grows
  BY <1>1, <1>2 DEF Grows
<1>3. CASE VerifyIdentity
  BY <1>2, <1>3, EntriesStay DEF VerifyIdentity
<1>4. ASSUME NEW a \in Applications, NEW target \in Targets, UploadDocument(a, target)
      PROVE  TxnsSound'
  <2>1. \A b \in Applications : ipApplication[b].status # "none" => ipApplication'[b].status # "none"
    BY <1>4 DEF UploadDocument, TypeOK, PerformerTypeOK
  <2>2. QED
    BY <1>2, <1>4, <2>1, EntriesStay DEF UploadDocument
<1>5. ASSUME NEW a \in Applications, NEW decision \in {"approve", "reject"}, DecideRead(a, decision)
      PROVE  TxnsSound'
  <2> DEFINE x == [kind |-> decision, row |-> a]
  <2>1. Begin(x) /\ UNCHANGED <<paid, approved, application, ipApplication>>
    BY <1>1, <1>5 DEF DecideRead, profileVars
  <2>2. Sound(x, paid, ApprovedVersions, application, ipApplication)
    BY <1>5 DEF DecideRead, Sound
  <2>3. \A u \in Txns : Excludes(x, txn[u])
    BY DEF Excludes
  <2> HIDE DEF x
  <2>4. QED
    BY <2>1, <2>2, <2>3, EntryBegins
<1>6. ASSUME NEW c \in Categories, EditRead(c)
      PROVE  TxnsSound'
  <2> DEFINE x == [kind |-> "edit", saved |-> [profile EXCEPT !.category = c]]
  <2>1. Begin(x) /\ UNCHANGED <<paid, approved, application, ipApplication>>
    BY <1>1, <1>6 DEF EditRead, profileVars
  <2>2. /\ x.saved \in Profiles
        /\ x.saved.category = c /\ x.saved.confirmed = profile.confirmed
        /\ c \in profile.confirmed \cup {"individual"}
    BY <1>1, <1>6 DEF EditRead, Profiles
  <2>3. Sound(x, paid, ApprovedVersions, application, ipApplication)
    BY <2>2 DEF Sound
  <2>4. \A u \in Txns : Excludes(x, txn[u])
    BY DEF Excludes
  <2> HIDE DEF x
  <2>5. QED
    BY <2>1, <2>3, <2>4, EntryBegins
<1>7. ASSUME NEW t \in Txns, End(t),
             \A a \in Applications : ipApplication[a].status # "none" => ipApplication'[a].status # "none"
      PROVE  TxnsSound'
  BY <1>2, <1>7, EntryEnds
<1>8. ASSUME NEW t \in Txns, RejectWrite(t) \/ ApproveWrite(t)
      PROVE  /\ txn[t].row \in Applications
             /\ ipApplication[txn[t].row].target \in Targets
             /\ \A a \in Applications : ipApplication[a].status # "none" => ipApplication'[a].status # "none"
  <2>1. txn[t].row \in Applications /\ ipApplication[txn[t].row].status # "none"
    BY <1>8 DEF TxnsSound, Sound, RejectWrite, ApproveWrite
  <2>2. ASSUME NEW a \in Applications, a # txn[t].row
        PROVE  ipApplication'[a] = ipApplication[a]
    BY <1>8, <2>2 DEF RejectWrite, ApproveWrite, TypeOK, PerformerTypeOK
  <2>3. ipApplication'[txn[t].row].status # "none"
    BY <1>8, <2>1 DEF RejectWrite, ApproveWrite, TypeOK, PerformerTypeOK
  <2>4. QED
    BY <2>1, <2>2, <2>3 DEF DocumentsTargeted
<1>9. ASSUME NEW t \in Txns, RejectWrite(t)
      PROVE  TxnsSound'
  BY <1>7, <1>8, <1>9 DEF RejectWrite
<1>10. ASSUME NEW t \in Txns, ApproveWrite(t)
       PROVE  TxnsSound'
  <2> DEFINE x == [kind |-> "confirm", target |-> ipApplication[txn[t].row].target,
                   raise |-> profile.category = "individual"]
  <2>1. Grows /\ txn' = [txn EXCEPT ![t] = x]
    BY <1>2, <1>8, <1>10 DEF ApproveWrite
  <2>2. Sound(x, paid', ApprovedVersions', application', ipApplication')
    BY <1>8, <1>10 DEF Sound
  <2>3. \A u \in Txns \ {t} : Excludes(x, txn[u])
    BY DEF Excludes
  <2> HIDE DEF x
  <2>4. QED
    BY <2>1, <2>2, <2>3, EntryChanges
<1>11. ASSUME NEW t \in Txns, ConfirmWrite(t) \/ LoseConfirmation(t) \/ EditWrite(t)
       PROVE  TxnsSound'
  BY <1>7, <1>11 DEF ConfirmWrite, LoseConfirmation, EditWrite, profileVars
<1>12. QED
  BY <1>3, <1>4, <1>5, <1>6, <1>9, <1>10, <1>11 DEF PerformerNext

-----------------------------------------------------------------------------
(* Money.  Only the payment of a deal adds to what was earned.             *)
LEMMA EarnedTyped ==
  ASSUME NEW S \in SUBSET Deals
  PROVE  SumFunctionOnSet(Earning, S) \in Nat
<1>1. IsFiniteSet(S) /\ \A d \in S : Earning[d] \in Nat
  BY FS_Subset, RowsAssumption, PayoutAssumption
<1>2. QED
  BY <1>1, SumNat

LEMMA EarnedGrows ==
  ASSUME NEW S \in SUBSET Deals, NEW d \in Deals, d \notin S
  PROVE  SumFunctionOnSet(Earning, S \cup {d}) = SumFunctionOnSet(Earning, S) + Earning[d]
<1> DEFINE U == S \cup {d}
<1>1. IsFiniteSet(U) /\ \A x \in U : Earning[x] \in Int
  BY FS_Subset, RowsAssumption, PayoutAssumption
<1>2. d \in U /\ U \ {d} = S
  OBVIOUS
<1>3. SumFunctionOnSet(Earning, U) = Earning[d] + SumFunctionOnSet(Earning, S)
  <2> HIDE DEF U
  <2>1. QED
    BY <1>1, <1>2, SumTakeOut
<1>4. SumFunctionOnSet(Earning, S) \in Nat /\ Earning[d] \in Nat
  BY EarnedTyped, PayoutAssumption
<1>5. QED
  BY <1>3, <1>4

(* Everything RegisterBalanced speaks of, in one place.                    *)
LEMMA BalancedAmounts ==
  ASSUME TypeOK
  PROVE  /\ wallet.available \in Nat /\ wallet.onWithdrawal \in Nat /\ paidOut \in Nat
         /\ Sum("pending") \in Nat /\ Sum("completed") \in Nat
         /\ SumFunctionOnSet(Earning, paid) \in Nat
         /\ Legacy \in Nat
  BY SumsNat, EarnedTyped, PayoutAssumption DEF TypeOK

LEMMA RegisterStays ==
  ASSUME RegisterBalanced, UNCHANGED <<payout, wallet, paidOut, paid>>
  PROVE  RegisterBalanced'
<1>1. \A s : Sum(s)' = Sum(s)
  BY DEF Sum, Share
<1>2. QED
  BY <1>1 DEF RegisterBalanced

LEMMA RegisterStep ==
  ASSUME TypeOK, TxnsSound, RegisterBalanced, PayoutNext
  PROVE  RegisterBalanced'
<1> DEFINE earned == SumFunctionOnSet(Earning, paid)
<1>1. /\ wallet.available \in Nat /\ wallet.onWithdrawal \in Nat /\ paidOut \in Nat
      /\ Sum("pending") \in Nat /\ Sum("completed") \in Nat
      /\ earned \in Nat /\ Legacy \in Nat
  BY BalancedAmounts
<1>2. wallet \in Wallets
  BY DEF TypeOK, Wallets
<1>3. /\ wallet.onWithdrawal = Sum("pending")
      /\ paidOut = Sum("completed")
      /\ wallet.available + wallet.onWithdrawal + paidOut = Legacy + earned
  BY DEF RegisterBalanced
<1>4. CurrentRequisites \in Versions \cup {NoVersion}
  BY CurrentApproved
<1>5. ASSUME NEW p \in Payouts, NEW d \in Deals \cup {NoDeal}, NEW amount \in Nat,
             NewPayout(wallet, p, d, amount, CurrentRequisites), UNCHANGED <<paidOut, paid>>
      PROVE  RegisterBalanced'
  <2>1. /\ wallet'.available = wallet.available - amount
        /\ wallet'.onWithdrawal = wallet.onWithdrawal + amount
        /\ Sum("pending")' = Sum("pending") + amount
        /\ Sum("completed")' = Sum("completed")
    BY <1>2, <1>4, <1>5, PayoutFiled
  <2> HIDE DEF earned
  <2>2. /\ wallet'.onWithdrawal = Sum("pending")'
        /\ wallet'.available + wallet'.onWithdrawal + paidOut = Legacy + earned
    BY <1>1, <1>3, <2>1
  <2>3. QED
    BY <1>3, <1>5, <2>1, <2>2 DEF RegisterBalanced, earned
<1>6. ASSUME NEW d \in Deals, Reissue(d)
      PROVE  RegisterBalanced'
  <2>1. PICK last \in Payouts, p \in Payouts :
          NewPayout(wallet, p, d, payout[last].amount, CurrentRequisites)
    BY <1>6 DEF Reissue
  <2>2. payout[last].amount \in Nat /\ d \in Deals \cup {NoDeal} /\ UNCHANGED <<paidOut, paid>>
    BY <1>6 DEF TypeOK, Rows, Reissue
  <2>3. QED
    BY <1>5, <2>1, <2>2
<1>7. ASSUME NEW t \in Txns, LegacyBalanceCommit(t)
      PROVE  RegisterBalanced'
  <2>1. CASE UNCHANGED <<payout, wallet>>
    BY <1>7, <2>1, RegisterStays DEF LegacyBalanceCommit
  <2>2. CASE \E p \in Payouts : NewPayout(wallet, p, NoDeal, txn[t].amount, CurrentRequisites)
    <3>1. txn[t].amount \in Nat /\ NoDeal \in Deals \cup {NoDeal} /\ UNCHANGED <<paidOut, paid>>
      BY <1>7 DEF LegacyBalanceCommit, TxnsSound, Sound
    <3>2. QED
      BY <1>5, <2>2, <3>1
  <2>3. QED
    BY <1>7, <2>1, <2>2 DEF LegacyBalanceCommit
<1>8. ASSUME NEW t \in Txns, PayDealCommit(t)
      PROVE  RegisterBalanced'
  <2> DEFINE d == txn[t].deal
             credited == [wallet EXCEPT !.available = @ + Earning[d]]
  <2>1. txn[t].kind = "pay"
    BY <1>8 DEF PayDealCommit
  <2>2. /\ d \in Deals /\ d \notin paid /\ Earning[d] \in Nat /\ credited \in Wallets
        /\ txn[t].requisites \in Versions \cup {NoVersion}
        /\ credited.available = wallet.available + Earning[d]
        /\ credited.onWithdrawal = wallet.onWithdrawal
    BY <2>1, PayDealTyped
  <2>3. PICK p \in Payouts : NewPayout(credited, p, d, Earning[d], txn[t].requisites)
    BY <1>8 DEF PayDealCommit
  <2>4. paid' = paid \cup {d} /\ paidOut' = paidOut
    BY <1>8 DEF PayDealCommit
  <2>5. SumFunctionOnSet(Earning, paid \cup {d}) = earned + Earning[d]
    BY <2>2, EarnedGrows DEF TypeOK
  <2>6. SumFunctionOnSet(Earning, paid') = earned + Earning[d]
    BY <2>4, <2>5
  <2> HIDE DEF d, credited
  <2>7. d \in Deals \cup {NoDeal}
    BY <2>2
  <2>8. /\ wallet'.available = credited.available - Earning[d]
        /\ wallet'.onWithdrawal = credited.onWithdrawal + Earning[d]
        /\ Sum("pending")' = Sum("pending") + Earning[d]
        /\ Sum("completed")' = Sum("completed")
    BY <2>2, <2>3, <2>7, PayoutFiled
  <2> HIDE DEF earned
  <2>9. /\ wallet'.onWithdrawal = Sum("pending")'
        /\ wallet'.available + wallet'.onWithdrawal + paidOut = Legacy + (earned + Earning[d])
    BY <1>1, <1>3, <2>2, <2>8
  <2>10. QED
    BY <1>3, <2>4, <2>6, <2>8, <2>9 DEF RegisterBalanced
<1>9. ASSUME NEW p \in Payouts, CompleteWithdrawal(p)
      PROVE  RegisterBalanced'
  <2>1. /\ wallet'.available = wallet.available
        /\ wallet'.onWithdrawal = wallet.onWithdrawal - payout[p].amount
        /\ Sum("pending")' = Sum("pending") - payout[p].amount
        /\ Sum("completed")' = Sum("completed") + payout[p].amount
    BY <1>9, PayoutCarriedOut
  <2>2. paidOut' = paidOut + payout[p].amount /\ paid' = paid
    BY <1>9 DEF CompleteWithdrawal
  <2>3. payout[p].amount \in Nat
    BY DEF TypeOK, Rows
  <2> HIDE DEF earned
  <2>4. /\ wallet'.onWithdrawal = Sum("pending")'
        /\ paidOut' = Sum("completed")'
        /\ wallet'.available + wallet'.onWithdrawal + paidOut' = Legacy + earned
    BY <1>1, <1>3, <2>1, <2>2, <2>3
  <2>5. QED
    BY <2>2, <2>4 DEF RegisterBalanced, earned
<1>10. ASSUME NEW p \in Payouts, RejectWithdrawal(p)
       PROVE  RegisterBalanced'
  <2>1. /\ wallet'.available = wallet.available + payout[p].amount
        /\ wallet'.onWithdrawal = wallet.onWithdrawal - payout[p].amount
        /\ Sum("pending")' = Sum("pending") - payout[p].amount
        /\ Sum("completed")' = Sum("completed")
    BY <1>10, PayoutRejected
  <2>2. paidOut' = paidOut /\ paid' = paid
    BY <1>10 DEF RejectWithdrawal
  <2>3. payout[p].amount \in Nat
    BY DEF TypeOK, Rows
  <2> HIDE DEF earned
  <2>4. /\ wallet'.onWithdrawal = Sum("pending")'
        /\ wallet'.available + wallet'.onWithdrawal + paidOut' = Legacy + earned
    BY <1>1, <1>3, <2>1, <2>2, <2>3
  <2>5. QED
    BY <1>3, <2>1, <2>2, <2>4 DEF RegisterBalanced, earned
<1>11. ASSUME NEW t \in Txns, ApproveCommit(t)
       PROVE  RegisterBalanced'
  <2>1. \A s : Sum(s)' = Sum(s)
    BY <1>11, SnapshotsWritten
  <2>2. UNCHANGED <<wallet, paidOut, paid>>
    BY <1>11 DEF ApproveCommit
  <2>3. QED
    BY <1>3, <2>1, <2>2 DEF RegisterBalanced
<1>12. QED
  BY <1>6, <1>7, <1>8, <1>9, <1>10, <1>11, RegisterStays
  DEF PayoutNext, PayDealRead, ConfirmReceipt, SetPerformerStatus, SetPlatformStatus,
      SubmitRequisites, ApproveRead, RejectRequisites, LegacyBalanceRead

-----------------------------------------------------------------------------
(* Requisites.                                                             *)
LEMMA RequisitesStay ==
  ASSUME SnapshotsApproved, PaidToApproved, UNCHANGED <<payout, approved>>
  PROVE  SnapshotsApproved' /\ PaidToApproved'
  BY DEF SnapshotsApproved, PaidToApproved, ApprovedVersions

LEMMA RequisitesStep ==
  ASSUME TypeOK, TxnsSound, SnapshotsApproved, PaidToApproved, PayoutNext
  PROVE  SnapshotsApproved' /\ PaidToApproved'
<1>1. CurrentRequisites \in ApprovedVersions \cup {NoVersion} /\ ApprovedVersions \subseteq Versions
  BY CurrentApproved
<1>2. ASSUME approved' = approved, NEW v \in ApprovedVersions \cup {NoVersion},
             \A q \in Payouts : /\ Completed(q)' <=> Completed(q)
                                /\ Completed(q) => payout'[q] = payout[q]
                                /\ payout'[q].requisites \in {payout[q].requisites, v}
      PROVE  SnapshotsApproved' /\ PaidToApproved'
  <2>1. ApprovedVersions' = ApprovedVersions
    BY <1>2 DEF ApprovedVersions
  <2>2. SnapshotsApproved'
    BY <1>2, <2>1 DEF SnapshotsApproved
  <2>3. ASSUME NEW q \in Payouts, payout'[q].status = "completed"
        PROVE  payout'[q].requisites \in ApprovedVersions
    BY <1>2, <2>3 DEF PaidToApproved, Completed, ApprovedVersions
  <2>4. QED
    BY <2>1, <2>2, <2>3 DEF PaidToApproved, ApprovedVersions
<1>3. ASSUME NEW w \in Wallets, NEW p \in Payouts, NEW d \in Deals \cup {NoDeal}, NEW amount \in Nat,
             NEW v \in ApprovedVersions \cup {NoVersion}, NewPayout(w, p, d, amount, v),
             approved' = approved
      PROVE  SnapshotsApproved' /\ PaidToApproved'
  <2>1. v \in Versions \cup {NoVersion}
    BY <1>1
  <2>2. \A q \in Payouts : /\ Completed(q)' <=> Completed(q)
                           /\ Completed(q) => payout'[q] = payout[q]
                           /\ payout'[q].requisites \in {payout[q].requisites, v}
    BY <1>3, <2>1, PayoutFiled
  <2>3. QED
    BY <1>2, <1>3, <2>2
<1>4. wallet \in Wallets /\ \A p \in Payouts : payout[p].amount \in Nat
  BY DEF TypeOK, Wallets, Rows
<1>5. ASSUME NEW d \in Deals, Reissue(d)
      PROVE  SnapshotsApproved' /\ PaidToApproved'
  BY <1>1, <1>3, <1>4, <1>5 DEF Reissue
<1>6. ASSUME NEW t \in Txns, LegacyBalanceCommit(t)
      PROVE  SnapshotsApproved' /\ PaidToApproved'
  <2>1. CASE UNCHANGED <<payout, wallet>>
    BY <1>6, <2>1, RequisitesStay DEF LegacyBalanceCommit
  <2>2. CASE \E p \in Payouts : NewPayout(wallet, p, NoDeal, txn[t].amount, CurrentRequisites)
    <3>1. txn[t].amount \in Nat /\ NoDeal \in Deals \cup {NoDeal} /\ approved' = approved
      BY <1>6 DEF LegacyBalanceCommit, TxnsSound, Sound
    <3>2. QED
      BY <1>1, <1>3, <1>4, <2>2, <3>1
  <2>3. QED
    BY <1>6, <2>1, <2>2 DEF LegacyBalanceCommit
<1>7. ASSUME NEW t \in Txns, PayDealCommit(t)
      PROVE  SnapshotsApproved' /\ PaidToApproved'
  <2> DEFINE d == txn[t].deal
             credited == [wallet EXCEPT !.available = @ + Earning[d]]
  <2>1. txn[t].kind = "pay" /\ approved' = approved
    BY <1>7 DEF PayDealCommit
  <2>2. /\ d \in Deals \cup {NoDeal} /\ Earning[d] \in Nat /\ credited \in Wallets
        /\ txn[t].requisites \in ApprovedVersions \cup {NoVersion}
    BY <2>1, PayDealTyped
  <2>3. PICK p \in Payouts : NewPayout(credited, p, d, Earning[d], txn[t].requisites)
    BY <1>7 DEF PayDealCommit
  <2> HIDE DEF d, credited
  <2>4. QED
    BY <1>3, <2>1, <2>2, <2>3
<1>8. ASSUME NEW p \in Payouts, CompleteWithdrawal(p)
      PROVE  SnapshotsApproved' /\ PaidToApproved'
  <2>1. EffectiveRequisites(p) \in ApprovedVersions
    <3>1. EffectiveRequisites(p) # NoVersion
      BY <1>8 DEF CompleteWithdrawal, Ready
    <3>2. QED
      BY <1>1, <3>1 DEF EffectiveRequisites, SnapshotsApproved
  <2>2. /\ payout'[p].requisites = EffectiveRequisites(p)
        /\ \A q \in Payouts \ {p} : payout'[q] = payout[q]
    BY <1>8, PayoutCarriedOut
  <2>3. ApprovedVersions' = ApprovedVersions
    BY <1>8 DEF CompleteWithdrawal, ApprovedVersions
  <2>4. SnapshotsApproved'
    BY <2>1, <2>2, <2>3 DEF SnapshotsApproved
  <2>5. PaidToApproved'
    BY <2>1, <2>2, <2>3 DEF PaidToApproved, ApprovedVersions
  <2>6. QED
    BY <2>4, <2>5
<1>9. ASSUME NEW p \in Payouts, RejectWithdrawal(p)
      PROVE  SnapshotsApproved' /\ PaidToApproved'
  <2>1. /\ \A q \in Payouts : Completed(q)' <=> Completed(q)
        /\ \A q \in Payouts : Completed(q) => payout'[q] = payout[q]
        /\ \A q \in Payouts : payout'[q].requisites = payout[q].requisites
    BY <1>9, PayoutRejected
  <2>2. approved' = approved
    BY <1>9 DEF RejectWithdrawal
  <2>3. QED
    BY <1>2, <2>1, <2>2
<1>10. ASSUME NEW t \in Txns, ApproveCommit(t)
       PROVE  SnapshotsApproved' /\ PaidToApproved'
  <2>1. /\ ApprovedVersions' = ApprovedVersions \cup {application}
        /\ \A q \in Payouts : /\ payout'[q].status = payout[q].status
                              /\ payout'[q].requisites \in {payout[q].requisites, application}
    BY <1>10, SnapshotsWritten
  <2>2. SnapshotsApproved'
    BY <2>1 DEF SnapshotsApproved
  <2>3. PaidToApproved'
    BY <2>1 DEF PaidToApproved, ApprovedVersions
  <2>4. QED
    BY <2>2, <2>3
<1>11. QED
  BY <1>5, <1>6, <1>7, <1>8, <1>9, <1>10, RequisitesStay
  DEF PayoutNext, PayDealRead, ConfirmReceipt, SetPerformerStatus, SetPlatformStatus,
      SubmitRequisites, ApproveRead, RejectRequisites, LegacyBalanceRead

-----------------------------------------------------------------------------
(* The platform's document of a deal and its carried out payout.           *)
CarriedOut(d) == \E p \in Payouts : payout[p].deal = d /\ payout[p].status = "completed"

LEMMA InvoicesStay ==
  ASSUME PlatformInvoiceFollowsPayout, platformEsf' = platformEsf,
         \A d \in Deals : CarriedOut(d)' <=> CarriedOut(d)
  PROVE  PlatformInvoiceFollowsPayout'
  BY DEF PlatformInvoiceFollowsPayout, CarriedOut

LEMMA InvoicesStep ==
  ASSUME TypeOK, TxnsSound, PlatformInvoiceFollowsPayout, PayoutNext
  PROVE  PlatformInvoiceFollowsPayout'
<1>1. CurrentRequisites \in Versions \cup {NoVersion}
  BY CurrentApproved
<1>2. wallet \in Wallets /\ \A p \in Payouts : payout[p].amount \in Nat
  BY DEF TypeOK, Wallets, Rows
<1>3. ASSUME platformEsf' = platformEsf,
             \A q \in Payouts : /\ Completed(q)' <=> Completed(q)
                                /\ Completed(q) => payout'[q].deal = payout[q].deal
      PROVE  PlatformInvoiceFollowsPayout'
  <2>1. \A d \in Deals : CarriedOut(d)' <=> CarriedOut(d)
    BY <1>3 DEF CarriedOut, Completed
  <2>2. QED
    BY <1>3, <2>1, InvoicesStay
<1>4. ASSUME NEW w \in Wallets, NEW p \in Payouts, NEW d \in Deals \cup {NoDeal}, NEW amount \in Nat,
             NEW v \in Versions \cup {NoVersion}, NewPayout(w, p, d, amount, v),
             platformEsf' = platformEsf
      PROVE  PlatformInvoiceFollowsPayout'
  <2>1. \A q \in Payouts : /\ Completed(q)' <=> Completed(q)
                           /\ Completed(q) => payout'[q] = payout[q]
    BY <1>4, PayoutFiled
  <2>2. QED
    BY <1>3, <1>4, <2>1
<1>5. ASSUME NEW d \in Deals, Reissue(d)
      PROVE  PlatformInvoiceFollowsPayout'
  BY <1>1, <1>2, <1>4, <1>5 DEF Reissue, documents
<1>6. ASSUME NEW t \in Txns, LegacyBalanceCommit(t)
      PROVE  PlatformInvoiceFollowsPayout'
  <2>1. CASE UNCHANGED <<payout, wallet>>
    BY <1>3, <1>6, <2>1 DEF LegacyBalanceCommit, Completed, documents
  <2>2. CASE \E p \in Payouts : NewPayout(wallet, p, NoDeal, txn[t].amount, CurrentRequisites)
    <3>1. txn[t].amount \in Nat /\ NoDeal \in Deals \cup {NoDeal} /\ platformEsf' = platformEsf
      BY <1>6 DEF LegacyBalanceCommit, TxnsSound, Sound, documents
    <3>2. QED
      BY <1>1, <1>2, <1>4, <2>2, <3>1
  <2>3. QED
    BY <1>6, <2>1, <2>2 DEF LegacyBalanceCommit
<1>7. ASSUME NEW t \in Txns, PayDealCommit(t)
      PROVE  PlatformInvoiceFollowsPayout'
  <2> DEFINE d == txn[t].deal
             credited == [wallet EXCEPT !.available = @ + Earning[d]]
  <2>1. txn[t].kind = "pay" /\ platformEsf' = platformEsf
    BY <1>7 DEF PayDealCommit
  <2>2. /\ d \in Deals \cup {NoDeal} /\ Earning[d] \in Nat /\ credited \in Wallets
        /\ txn[t].requisites \in Versions \cup {NoVersion}
    BY <2>1, PayDealTyped
  <2>3. PICK p \in Payouts : NewPayout(credited, p, d, Earning[d], txn[t].requisites)
    BY <1>7 DEF PayDealCommit
  <2> HIDE DEF d, credited
  <2>4. QED
    BY <1>4, <2>1, <2>2, <2>3
<1>8. ASSUME NEW p \in Payouts, CompleteWithdrawal(p)
      PROVE  PlatformInvoiceFollowsPayout'
  <2> DEFINE own == payout[p].deal
  <2>1. /\ payout'[p].status = "completed" /\ payout'[p].deal = own
        /\ \A q \in Payouts \ {p} : payout'[q] = payout[q]
    BY <1>8, PayoutCarriedOut
  <2>2. payout[p].status = "pending"
    BY <1>8 DEF CompleteWithdrawal
  <2>3. \A d \in Deals : CarriedOut(d)' <=> (CarriedOut(d) \/ d = own)
    BY <2>1, <2>2 DEF CarriedOut
  <2>4. \A d \in Deals : platformEsf'[d] # "none" <=>
                           (platformEsf[d] # "none" \/ (d = own /\ Commission[d] > 0))
    BY <1>8 DEF CompleteWithdrawal
  <2>5. \A d \in Deals : platformEsf[d] # "none" <=> Commission[d] > 0 /\ CarriedOut(d)
    BY DEF PlatformInvoiceFollowsPayout, CarriedOut
  <2> HIDE DEF own
  <2>6. \A d \in Deals : platformEsf'[d] # "none" <=> Commission[d] > 0 /\ CarriedOut(d)'
    BY <2>3, <2>4, <2>5
  <2>7. QED
    BY <2>6 DEF PlatformInvoiceFollowsPayout, CarriedOut
<1>9. ASSUME NEW p \in Payouts, RejectWithdrawal(p)
      PROVE  PlatformInvoiceFollowsPayout'
  <2>1. \A q \in Payouts : /\ Completed(q)' <=> Completed(q)
                           /\ Completed(q) => payout'[q] = payout[q]
    BY <1>9, PayoutRejected
  <2>2. platformEsf' = platformEsf
    BY <1>9 DEF RejectWithdrawal, documents
  <2>3. QED
    BY <1>3, <2>1, <2>2
<1>10. ASSUME NEW t \in Txns, ApproveCommit(t)
       PROVE  PlatformInvoiceFollowsPayout'
  <2>1. \A q \in Payouts : payout'[q].status = payout[q].status /\ payout'[q].deal = payout[q].deal
    BY <1>10, SnapshotsWritten
  <2>2. platformEsf' = platformEsf
    BY <1>10 DEF ApproveCommit, documents
  <2>3. QED
    BY <1>3, <2>1, <2>2 DEF Completed
<1>11. ASSUME NEW d \in Deals, NEW s \in PlatformStatuses, SetPlatformStatus(d, s)
       PROVE  PlatformInvoiceFollowsPayout'
  <2>1. \A e \in Deals : platformEsf'[e] # "none" <=> platformEsf[e] # "none"
    BY <1>11 DEF SetPlatformStatus, PlatformStatuses, TypeOK
  <2>2. payout' = payout
    BY <1>11 DEF SetPlatformStatus
  <2>3. QED
    BY <2>1, <2>2 DEF PlatformInvoiceFollowsPayout
<1>12. ASSUME UNCHANGED <<payout, platformEsf>>
       PROVE  PlatformInvoiceFollowsPayout'
  BY <1>12 DEF PlatformInvoiceFollowsPayout
<1>13. QED
  BY <1>5, <1>6, <1>7, <1>8, <1>9, <1>10, <1>11, <1>12
  DEF PayoutNext, PayDealRead, ConfirmReceipt, SetPerformerStatus, SubmitRequisites, ApproveRead,
      RejectRequisites, LegacyBalanceRead, documents

-----------------------------------------------------------------------------
(* The category.                                                           *)
LEMMA CategoryStep ==
  ASSUME TypeOK, TxnsSound, CategoryConfirmed, PerformerNext
  PROVE  CategoryConfirmed'
<1>1. ASSUME NEW t \in Txns, ConfirmWrite(t)
      PROVE  CategoryConfirmed'
  BY <1>1 DEF ConfirmWrite, CategoryConfirmed
<1>2. ASSUME NEW t \in Txns, EditWrite(t)
      PROVE  CategoryConfirmed'
  BY <1>2 DEF EditWrite, CategoryConfirmed, TxnsSound, Sound
<1>3. ASSUME profile' = profile
      PROVE  CategoryConfirmed'
  BY <1>3 DEF CategoryConfirmed
<1>4. QED
  BY <1>1, <1>2, <1>3
  DEF PerformerNext, VerifyIdentity, UploadDocument, DecideRead, RejectWrite, ApproveWrite,
      LoseConfirmation, EditRead, profileVars

-----------------------------------------------------------------------------
LEMMA InitIInv == Init => IInv
<1> SUFFICES ASSUME Init PROVE IInv
  OBVIOUS
<1>1. /\ payout = [p \in Payouts |-> BlankPayout]
      /\ wallet = [available |-> Legacy, onWithdrawal |-> 0]
      /\ paidOut = 0 /\ paid = {} /\ application = NoVersion /\ approved = <<>>
      /\ platformEsf = [d \in Deals |-> "none"]
  BY DEF Init
<1>2. TypeOK
  <2>1. BlankPayout \in Rows
    BY DEF BlankPayout, Rows
  <2>2. payout \in [Payouts -> Rows]
    BY <1>1, <2>1
  <2>3. PerformerTypeOK
    BY DEF Init, PerformerInit, PerformerTypeOK, Categories
  <2>4. wallet \in [available : Nat, onWithdrawal : Nat]
    BY <1>1, PayoutAssumption
  <2>5. approved \in Seq(Versions)
    BY <1>1
  <2>6. QED
    BY <1>1, <2>2, <2>3, <2>4, <2>5 DEF Init, TypeOK
<1>3. TxnsSound
  BY DEF Init, PerformerInit, TxnsSound, Sound, Excludes, Idle
<1>4. DocumentsTargeted /\ CategoryConfirmed
  BY DEF Init, PerformerInit, DocumentsTargeted, CategoryConfirmed
<1>5. SnapshotsApproved /\ PaidToApproved /\ PlatformInvoiceFollowsPayout
  BY <1>1 DEF SnapshotsApproved, PaidToApproved, PlatformInvoiceFollowsPayout, BlankPayout
<1>6. RegisterBalanced
  <2>1. Sum("pending") = 0 /\ Sum("completed") = 0
    <3>1. ASSUME NEW s \in {"pending", "completed"}
          PROVE  Sum(s) = 0
      <4> DEFINE f == [p \in Payouts |-> Share(p, s)]
      <4>1. \A p \in Payouts : f[p] = 0
        BY <1>1 DEF Share, BlankPayout
      <4>2. SumFunctionOnSet(f, Payouts) = 0
        <5> HIDE DEF f
        <5>1. QED
          BY <4>1, SumOfZeros, RowsAssumption
      <4>3. QED
        BY <4>2 DEF Sum
    <3>2. QED
      BY <3>1
  <2>2. SumFunctionOnSet(Earning, paid) = 0
    BY <1>1, SumOfNone
  <2>3. QED
    BY <1>1, <2>1, <2>2, PayoutAssumption DEF RegisterBalanced
<1>7. QED
  BY <1>2, <1>3, <1>4, <1>5, <1>6 DEF IInv

LEMMA NextIInv == IInv /\ [Next]_vars => IInv'
<1> SUFFICES ASSUME IInv, [Next]_vars PROVE IInv'
  OBVIOUS
<1>1. CASE PayoutNext /\ UNCHANGED profileVars
  <2>1. TypeOK' /\ TxnsSound' /\ RegisterBalanced' /\ SnapshotsApproved' /\ PaidToApproved'
        /\ PlatformInvoiceFollowsPayout'
    BY <1>1, PayoutTypes, PayoutTxnsSound, RegisterStep, RequisitesStep, InvoicesStep DEF IInv
  <2>2. DocumentsTargeted' /\ CategoryConfirmed'
    BY <1>1 DEF IInv, DocumentsTargeted, CategoryConfirmed, profileVars
  <2>3. QED
    BY <2>1, <2>2 DEF IInv
<1>2. CASE PerformerNext /\ UNCHANGED payoutVars
  <2>1. TypeOK' /\ DocumentsTargeted' /\ TxnsSound' /\ CategoryConfirmed'
    BY <1>2, PerformerTypes, PerformerTxnsSound, CategoryStep DEF IInv
  <2>2. RegisterBalanced' /\ SnapshotsApproved' /\ PaidToApproved'
    BY <1>2, RegisterStays, RequisitesStay DEF IInv, payoutVars
  <2>3. PlatformInvoiceFollowsPayout'
    BY <1>2 DEF IInv, PlatformInvoiceFollowsPayout, payoutVars
  <2>4. QED
    BY <2>1, <2>2, <2>3 DEF IInv
<1>3. CASE UNCHANGED vars
  <2>1. UNCHANGED payoutVars /\ UNCHANGED profileVars /\ txn' = txn
    BY <1>3 DEF vars, profileVars
  <2>2. TxnsSound'
    <3>1. Grows
      BY <2>1 DEF Grows, ApprovedVersions, payoutVars, profileVars
    <3>2. QED
      BY <2>1, <3>1, EntriesStay DEF IInv
  <2>3. TypeOK'
    BY <2>1 DEF IInv, TypeOK, PerformerTypeOK, payoutVars, profileVars
  <2>4. RegisterBalanced' /\ SnapshotsApproved' /\ PaidToApproved'
    BY <2>1, RegisterStays, RequisitesStay DEF IInv, payoutVars
  <2>5. PlatformInvoiceFollowsPayout' /\ DocumentsTargeted' /\ CategoryConfirmed'
    BY <2>1 DEF IInv, PlatformInvoiceFollowsPayout, DocumentsTargeted, CategoryConfirmed,
                payoutVars, profileVars
  <2>6. QED
    BY <2>2, <2>3, <2>4, <2>5 DEF IInv
<1>4. QED
  BY <1>1, <1>2, <1>3 DEF Next

LEMMA AlwaysIInv == Spec => []IInv
  BY InitIInv, NextIInv, PTL DEF Spec

(***************************************************************************)
(* The rows of the register, the wallet and the performer's rows keep      *)
(* their shape, and no balance goes below zero: complete_withdrawal and    *)
(* reject_withdrawal ask the wallet before they take from it.              *)
(***************************************************************************)
THEOREM PayoutTypesHold == Spec => []TypeOK
<1>1. IInv => TypeOK
  BY DEF IInv
<1>2. QED
  BY <1>1, AlwaysIInv, PTL

(***************************************************************************)
(* The wallet and the register agree whatever the number of deals and      *)
(* payouts: on withdrawal is the sum of the payouts that wait, paid out    *)
(* the sum of those carried out, and with the rest available they are      *)
(* everything the performer has earned.  No payment of a deal counts       *)
(* twice, however many are in flight.                                      *)
(***************************************************************************)
THEOREM RegisterAgreesWithWallet == Spec => []RegisterBalanced
<1>1. IInv => RegisterBalanced
  BY DEF IInv
<1>2. QED
  BY <1>1, AlwaysIInv, PTL

(***************************************************************************)
(* complete_withdrawal pays by requisites the staff approved, and the row  *)
(* of a payout carried out always names approved ones, though payments     *)
(* carry requisites they read before and an approval writes into rows it   *)
(* listed before.                                                          *)
(***************************************************************************)
THEOREM TransfersGoToApproved == Spec => []PaidToApproved
<1>1. IInv => PaidToApproved
  BY DEF IInv
<1>2. QED
  BY <1>1, AlwaysIInv, PTL

(***************************************************************************)
(* open_platform_einvoice: the document for the platform's commission is   *)
(* there exactly when a payout of the deal has been carried out.           *)
(***************************************************************************)
THEOREM CommissionInvoiced == Spec => []PlatformInvoiceFollowsPayout
<1>1. IInv => PlatformInvoiceFollowsPayout
  BY DEF IInv
<1>2. QED
  BY <1>1, AlwaysIInv, PTL

(***************************************************************************)
(* clean_category and admin_ip_application_approve: no category without    *)
(* the flag that confirms it, for any number of forms and approvals that   *)
(* write what they read before.                                            *)
(***************************************************************************)
THEOREM CategoryNeedsDocument == Spec => []CategoryConfirmed
<1>1. IInv => CategoryConfirmed
  BY DEF IInv
<1>2. QED
  BY <1>1, AlwaysIInv, PTL
=============================================================================
