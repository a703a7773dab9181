------------------------------ MODULE CardAccess ------------------------------
(***************************************************************************)
(* Who may have a card issued or changed: the checks that the card routes  *)
(* make before they call CardService, while links are removed and the KYC  *)
(* provider reports.  Each check is a SELECT of its own on another table,  *)
(* at READ COMMITTED, and nothing looks at what it returned again.         *)
(*                                                                         *)
(* A wallet stands for its owner (wallets.owner_id is unique).  Links and  *)
(* KYC statuses change here as their commits change them; a removed link   *)
(* never comes back.  Roles come from the token and are left out, but for  *)
(* the difference between sponsors and staff.                              *)
(***************************************************************************)
EXTENDS CardLifecycle

CONSTANTS Sponsors, Staff

ASSUME AccessAssumption == None \notin Sponsors /\ Staff \notin Sponsors \cup {None}

KYCStatus == {"pending", "submitted", "approved", "rejected"}

VARIABLES
  kyc,      \* committed kyc_status of the owner of each wallet
  linked,   \* committed links that are ACTIVE, sponsor to wallet
  ask       \* per worker: who asks for what on which wallet or card, how far the
            \* route got, and (history) the facts it checks that ended since

accessVars == <<vars, kyc, linked, ask>>

Ask(by, op, on, at) == [by |-> by, op |-> op, on |-> on, at |-> at, ended |-> {}]
NoAsk               == Ask(None, None, None, "none")

\* The wallet a request is about.
About(p) == IF ask[p].op = "issued" THEN ask[p].on ELSE wallet[ask[p].on]

AccessInit ==
  /\ Init
  /\ kyc    = [w \in Wallets |-> "pending"]
  /\ linked = Sponsors \X Wallets
  /\ ask    = [p \in Workers |-> NoAsk]

-----------------------------------------------------------------------------
(* The routes                                                              *)

Arrive(p, by, op, on, at) ==
  /\ ask[p] = NoAsk
  /\ ask' = [ask EXCEPT ![p] = Ask(by, op, on, at)]
  /\ UNCHANGED <<vars, kyc, linked>>

\* POST /cards/, sponsors only.
AskIssue(p, s, w) == Arrive(p, s, "issued", w, "link")

\* The routes of a card find it first.  Staff need no link; only they activate.
AskChange(p, by, c, op) ==
  /\ c \in Issued
  /\ op = "activated" => by = Staff
  /\ Arrive(p, by, op, c, IF by = Staff THEN "checked" ELSE "link")

Reach(p, at) ==
  /\ ask' = [ask EXCEPT ![p].at = at]
  /\ UNCHANGED <<vars, kyc, linked>>

\* verify_sponsor_beneficiary_link
CheckLink(p) ==
  /\ ask[p].at = "link"
  /\ <<ask[p].by, About(p)>> \in linked
  /\ Reach(p, IF ask[p].op = "issued" THEN "kyc" ELSE "checked")

\* Mutant: whoever was not rejected may have a card.
CheckNotRejected(p) ==
  ask[p].at = "kyc" /\ kyc[About(p)] # "rejected" /\ Reach(p, "checked")

CheckKyc(p) ==
  ask[p].at = "kyc" /\ kyc[About(p)] = "approved" /\ Reach(p, "checked")

\* The request reaches CardService, which makes checks of its own.
Enter(p) ==
  /\ ask[p].at = "checked"
  /\ IF ask[p].op = "issued" THEN Issue(p, ask[p].on) ELSE ReadCard(p, ask[p].on, ask[p].op)
  /\ ask' = [ask EXCEPT ![p].at = "card"]
  /\ UNCHANGED <<kyc, linked>>

Serve(p) ==
  /\ Statement(p)
  /\ ask' = IF pc'[p] = "idle" THEN [ask EXCEPT ![p] = NoAsk] ELSE ask
  /\ UNCHANGED <<kyc, linked>>

\* Refused by a check, or failed.
Refuse(p) ==
  /\ ask[p].at \in {"link", "kyc", "checked"}
  /\ ask' = [ask EXCEPT ![p] = NoAsk]
  /\ UNCHANGED <<vars, kyc, linked>>

-----------------------------------------------------------------------------
(* Links and KYC                                                           *)

\* f no longer holds: the requests P, which rely on it, will not notice.
Ended(f, P) ==
  ask' = [p \in Workers |-> IF p \in P THEN [ask[p] EXCEPT !.ended = @ \cup {f}] ELSE ask[p]]

RemoveBeneficiaryLink(s, w) ==
  /\ <<s, w>> \in linked
  /\ linked' = linked \ {<<s, w>>}
  /\ Ended("link", {p \in Workers : ask[p].by = s /\ About(p) = w})
  /\ UNCHANGED <<vars, kyc>>

\* update_kyc_status, from any status.
UpdateKycStatus(w, s) ==
  /\ s # kyc[w]
  /\ kyc' = [kyc EXCEPT ![w] = s]
  /\ Ended("kyc", {p \in Workers : /\ kyc[w] = "approved"
                                   /\ ask[p].op = "issued" /\ ask[p].on = w})
  /\ UNCHANGED <<vars, linked>>

SubmitKyc(w)             == UpdateKycStatus(w, "submitted")
KycProviderWebhook(w, s) == UpdateKycStatus(w, s)

-----------------------------------------------------------------------------
AccessRequest(p) ==
  \/ \E s \in Sponsors, w \in Wallets : AskIssue(p, s, w)
  \/ \E by \in Sponsors \cup {Staff}, c \in Cards, op \in Operations : AskChange(p, by, c, op)

AccessStep(p) == CheckLink(p) \/ CheckKyc(p) \/ Enter(p) \/ Serve(p) \/ Refuse(p)

AccessNext ==
  \/ \E p \in Workers : AccessRequest(p) \/ AccessStep(p)
  \/ \E s \in Sponsors, w \in Wallets : RemoveBeneficiaryLink(s, w)
  \/ \E w \in Wallets : SubmitKyc(w) \/ \E s \in KYCStatus : KycProviderWebhook(w, s)

AccessSpec == AccessInit /\ [][AccessNext]_accessVars

-----------------------------------------------------------------------------
(* Properties                                                              *)

\* A request that calls the processor, or writes a card, was trusted when it
\* asked: its sponsor is linked to the card's owner and, for a new card, the
\* owner is approved; or that ended after the request began.  So the window
\* between the check and the call is all that separates the cards of the
\* processor from the links and KYC statuses here.
TrustedWhenAsked ==
  \A p \in Workers : ask[p].at = "card" =>
    /\ ask[p].by \in Sponsors =>
         <<ask[p].by, About(p)>> \in linked \/ "link" \in ask[p].ended
    /\ ask[p].op = "issued" =>
         kyc[About(p)] = "approved" \/ "kyc" \in ask[p].ended
=============================================================================
