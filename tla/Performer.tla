----------------------------- MODULE Performer ------------------------------
(***************************************************************************)
(* The performer's side of a payout: his identity, his category and the    *)
(* documents that confirm it (apps/web/views/registration.py, profiles.py, *)
(* the profile form of apps/web/forms.py).  The category decides which     *)
(* document a payout waits for (module Payouts).                           *)
(*                                                                         *)
(* No view here locks or opens a transaction: each reads its rows in one   *)
(* step and writes them in a later one, over whatever was committed in     *)
(* between; an entry of txn holds what it read.  The approval commits the  *)
(* application before it reads the profile, and may die in between.        *)
(*                                                                         *)
(* An IP and a legal entity are treated alike by everything modelled.      *)
(* Forms, files, reasons, retention and notifications are left out.        *)
(***************************************************************************)
EXTENDS Integers, FiniteSets

CONSTANTS
  Applications,  \* slots for IPApplication rows
  Targets,       \* categories that need a document
  Txns           \* bound: requests and transactions in flight

ASSUME PerformerAssumption == Targets \subseteq {"ip", "self_employed"}

VARIABLES
  verified,      \* an IdentityVerification is VERIFIED
  profile,       \* BloggerProfile: category, and the targets whose flag is set
  ipApplication, \* IPApplication rows: target and status
  txn            \* per slot, what is in flight and what it read

profileVars == <<verified, profile, ipApplication>>

Idle == [kind |-> "idle"]
Categories == Targets \cup {"individual"}
InFlight(kind) == {t \in Txns : txn[t].kind = kind}

Begin(request) == \E t \in Txns : txn[t] = Idle /\ txn' = [txn EXCEPT ![t] = request]
End(t) == txn' = [txn EXCEPT ![t] = Idle]

\* blogger_identity_submit: OneID confirms, the account becomes active
VerifyIdentity ==
  /\ ~verified
  /\ verified' = TRUE
  /\ UNCHANGED <<profile, ipApplication, txn>>

\* ip_application_upload: nothing is asked about other applications
UploadDocument(a, target) ==
  /\ verified
  /\ ipApplication[a].status = "none"
  /\ ipApplication' = [ipApplication EXCEPT ![a] = [target |-> target, status |-> "pending"]]
  /\ UNCHANGED <<verified, profile, txn>>

\* admin_ip_application_approve, admin_ip_application_reject: get_object_or_404
DecideRead(a, decision) ==
  /\ ipApplication[a].status = "pending"
  /\ Begin([kind |-> decision, row |-> a])
  /\ UNCHANGED profileVars

RejectWrite(t) ==
  /\ txn[t].kind = "reject"
  /\ ipApplication' = [ipApplication EXCEPT ![txn[t].row].status = "rejected"]
  /\ End(t)
  /\ UNCHANGED <<verified, profile>>

\* the application is approved, then the profile is read
ApproveWrite(t) ==
  /\ txn[t].kind = "approve"
  /\ ipApplication' = [ipApplication EXCEPT ![txn[t].row].status = "approved"]
  /\ txn' = [txn EXCEPT ![t] = [kind |-> "confirm", target |-> ipApplication[txn[t].row].target,
                               raise |-> profile.category = "individual"]]
  /\ UNCHANGED <<verified, profile>>

\* wrong variant: the flag is forgotten among the fields to save
ConfirmCategoryOnly(t) ==
  /\ txn[t].kind = "confirm"
  /\ profile' = [profile EXCEPT !.category = IF txn[t].raise THEN txn[t].target ELSE @]
  /\ End(t)
  /\ UNCHANGED <<verified, ipApplication>>

\* profile.save(update_fields): the flag, and the category of who was an individual
ConfirmWrite(t) ==
  /\ txn[t].kind = "confirm"
  /\ profile' = [category |-> IF txn[t].raise THEN txn[t].target ELSE profile.category,
                 confirmed |-> profile.confirmed \cup {txn[t].target}]
  /\ End(t)
  /\ UNCHANGED <<verified, ipApplication>>

\* the request of the staff dies between its saves
LoseConfirmation(t) ==
  /\ txn[t].kind = "confirm"
  /\ End(t)
  /\ UNCHANGED profileVars

\* profile_edit loads the row and clean_category validates against it
EditRead(category) ==
  /\ category \in profile.confirmed \cup {"individual"}
  /\ Begin([kind |-> "edit", saved |-> [profile EXCEPT !.category = category]])
  /\ UNCHANGED profileVars

\* form.save() writes every field of the row it loaded
EditWrite(t) ==
  /\ txn[t].kind = "edit"
  /\ profile' = txn[t].saved
  /\ End(t)
  /\ UNCHANGED <<verified, ipApplication>>

PerformerInit ==
  /\ verified = FALSE
  /\ profile = [category |-> "individual", confirmed |-> {}]
  /\ ipApplication = [a \in Applications |-> [target |-> "individual", status |-> "none"]]
  /\ txn = [t \in Txns |-> Idle]

PerformerNext ==
  \/ VerifyIdentity
  \/ \E a \in Applications :
       \/ \E target \in Targets : UploadDocument(a, target)
       \/ \E decision \in {"approve", "reject"} : DecideRead(a, decision)
  \/ \E category \in Categories : EditRead(category)
  \/ \E t \in Txns : RejectWrite(t) \/ ApproveWrite(t) \/ ConfirmWrite(t) \/ LoseConfirmation(t) \/ EditWrite(t)

\* The performer's rows keep their shape.
PerformerTypeOK ==
  /\ verified \in BOOLEAN
  /\ profile \in [category : Categories, confirmed : SUBSET Targets]
  /\ ipApplication \in [Applications -> [target : Categories, status : {"none", "pending", "approved", "rejected"}]]

(***************************************************************************)
(* clean_category and the approval: nobody holds a category that is not    *)
(* confirmed, though the form writes a row it read before an approval and  *)
(* the approval writes a category it chose before the form was saved.      *)
(***************************************************************************)
CategoryConfirmed == profile.category \in profile.confirmed \cup {"individual"}
=============================================================================
