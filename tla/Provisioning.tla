----------------------------- MODULE Provisioning -----------------------------
(***************************************************************************)
(* How users come to exist, get a role and get a wallet: the lazy          *)
(* provisioning middleware (IdentityService.get_or_create_user),           *)
(* complete_profile, create_beneficiary with its link, and the wallet      *)
(* module's on_user_created, which the event bus runs inside publish,      *)
(* before the publisher commits, in a database session of its own.         *)
(*                                                                         *)
(* A user is a Supabase account with the roles its tokens may name, or a   *)
(* beneficiary whose id the backend draws.  Profile fields, e-mail         *)
(* addresses, KYC and the currency of a wallet are left out.               *)
(***************************************************************************)
EXTENDS FiniteSets

CONSTANTS
  Workers, None,
  Accounts,       \* users with a Supabase account
  Beneficiaries,  \* ids that create_beneficiary may draw
  Tokens          \* the roles, or "unset", in the tokens of each account

Users       == Accounts \cup Beneficiaries
Roles       == {"sponsor", "beneficiary", "staff"}
WalletRoles == {"sponsor", "beneficiary"}

ASSUME ProvisioningAssumption ==
  /\ None \notin Users
  /\ Accounts \cap Beneficiaries = {}
  /\ Tokens \in [Accounts -> SUBSET (Roles \cup {"unset"})]

VARIABLES
  role,       \* committed role of each user, "absent" without a row
  wallets,    \* owners of the committed wallets
  linked,     \* committed sponsor-beneficiary links
  suspended,  \* those that were removed again
  adopted,    \* users whose role was taken from a later token
  missed,     \* users for whom on_user_created failed
  pc,         \* per worker, what it does next
  job         \* per worker: user, role to write, sponsor of a new beneficiary

vars    == <<role, wallets, linked, suspended, adopted, missed, pc, job>>
tables  == <<role, wallets, linked, suspended>>
history == <<adopted, missed>>

For(u, r) == [user |-> u, role |-> r, sponsor |-> None]
NoJob     == For(None, "unset")

UserOf(p) == job[p].user

\* A link is removed by setting its status to SUSPENDED.
ActiveLinks == linked \ suspended

\* The insert or update of a user row locks it until the commit.
HoldsUser(p) == pc[p] \in {"inserted", "adopted", "lookup", "create", "created", "commit"}

UserLocked(p) == \E q \in Workers \ {p} : HoldsUser(q) /\ UserOf(q) = UserOf(p)

\* wallets.owner_id is unique.
OwnerHeld(p) == \E q \in Workers \ {p} : pc[q] = "created" /\ UserOf(q) = UserOf(p)

Goto(p, s)    == pc' = [pc EXCEPT ![p] = s]
Proceed(p, s) == Goto(p, s) /\ UNCHANGED <<tables, history, job>>

Start(p, j, s) ==
  /\ pc[p] = "idle"
  /\ Goto(p, s)
  /\ job' = [job EXCEPT ![p] = j]
  /\ UNCHANGED <<tables, history>>

End(p) ==
  /\ Goto(p, "idle")
  /\ job' = [job EXCEPT ![p] = NoJob]

Init ==
  /\ role = [u \in Users |-> "absent"]
  /\ wallets = {} /\ linked = {} /\ suspended = {}
  /\ adopted = {} /\ missed = {}
  /\ pc  = [p \in Workers |-> "idle"]
  /\ job = [p \in Workers |-> NoJob]

-----------------------------------------------------------------------------
(* Users                                                                   *)

\* A request with a token of u: there is no row yet, or there is one without
\* a role and the token names one.
GetOrCreateUser(p, u) ==
  \E r \in Tokens[u] :
    \/ role[u] = "absent" /\ Start(p, For(u, r), "insert")
    \/ /\ role[u] = "unset" /\ r # "unset"
       /\ Start(p, For(u, r), "adopt")

\* Only "sponsor" can be chosen, by a user without a role.
CompleteProfile(p, u) ==
  /\ role[u] = "unset"
  /\ Start(p, For(u, "sponsor"), "write")

\* uuid4: an id that nothing else uses.
CreateBeneficiary(p, s, b) ==
  /\ role[s] = "sponsor"
  /\ role[b] = "absent" /\ b \notin wallets
  /\ \A q \in Workers : UserOf(q) # b
  /\ Start(p, [user |-> b, role |-> "beneficiary", sponsor |-> s], "insert")

\* Mutant: the link is committed by itself, before the user.
InsertUserAfterLink(p) ==
  /\ pc[p] = "insert"
  /\ ~UserLocked(p)
  /\ role[UserOf(p)] = "absent"
  /\ linked' = IF job[p].sponsor = None THEN linked
               ELSE linked \cup {<<job[p].sponsor, UserOf(p)>>}
  /\ Goto(p, "inserted")
  /\ UNCHANGED <<role, wallets, suspended, history, job>>

\* INSERT: the id is unique; the loser's rollback ends the transaction its
\* caller opened, so the request fails.
InsertUser(p) ==
  /\ pc[p] = "insert"
  /\ ~UserLocked(p)
  /\ \/ role[UserOf(p)] = "absent" /\ Proceed(p, "inserted")
     \/ role[UserOf(p)] # "absent" /\ End(p) /\ UNCHANGED <<tables, history>>

\* Mutant: complete_profile publishes nothing.
WriteRoleSilently(p) ==
  \/ pc[p] = "write" /\ ~UserLocked(p) /\ Proceed(p, "commit")
  \/ pc[p] = "adopt" /\ ~UserLocked(p) /\ Proceed(p, "adopted")

\* UPDATE of the role, whatever it is by now.
WriteRole(p) ==
  \/ pc[p] = "write" /\ ~UserLocked(p) /\ Proceed(p, "inserted")
  \/ pc[p] = "adopt" /\ ~UserLocked(p) /\ Proceed(p, "adopted")

-----------------------------------------------------------------------------
(* UserCreated and on_user_created                                         *)

PublishUserCreated(p) ==
  /\ pc[p] = "inserted"
  /\ Proceed(p, IF job[p].role \in WalletRoles THEN "lookup" ELSE "commit")

LookupWallet(p) ==
  /\ pc[p] = "lookup"
  /\ Proceed(p, IF UserOf(p) \in wallets THEN "commit" ELSE "create")

\* INSERT of the wallet: when another session was faster the error is logged
\* and swallowed.
CreateWallet(p) ==
  /\ pc[p] = "create"
  /\ ~OwnerHeld(p)
  /\ Proceed(p, IF UserOf(p) \in wallets THEN "commit" ELSE "created")

CommitWallet(p) ==
  /\ pc[p] = "created"
  /\ wallets' = wallets \cup {UserOf(p)}
  /\ Goto(p, "commit")
  /\ UNCHANGED <<role, linked, suspended, history, job>>

\* Any other error of the handler is logged and swallowed as well.
HandlerFails(p) ==
  /\ pc[p] \in {"lookup", "create", "created"}
  /\ missed' = missed \cup {UserOf(p)}
  /\ Goto(p, "commit")
  /\ UNCHANGED <<tables, adopted, job>>

-----------------------------------------------------------------------------
(* The end of a request                                                    *)

\* Mutant: sponsor and beneficiary are swapped in the link.
CommitSwapped(p) ==
  /\ pc[p] \in {"commit", "adopted"}
  /\ role' = [role EXCEPT ![UserOf(p)] = job[p].role]
  /\ linked' = IF job[p].sponsor = None THEN linked
               ELSE linked \cup {<<UserOf(p), job[p].sponsor>>}
  /\ adopted' = IF pc[p] = "adopted" THEN adopted \cup {UserOf(p)} ELSE adopted
  /\ End(p)
  /\ UNCHANGED <<wallets, suspended, missed>>

\* get_db, or the middleware's session.begin: row and link together.
Commit(p) ==
  /\ pc[p] \in {"commit", "adopted"}
  /\ role' = [role EXCEPT ![UserOf(p)] = job[p].role]
  /\ linked' = IF job[p].sponsor = None THEN linked
               ELSE linked \cup {<<job[p].sponsor, UserOf(p)>>}
  /\ adopted' = IF pc[p] = "adopted" THEN adopted \cup {UserOf(p)} ELSE adopted
  /\ End(p)
  /\ UNCHANGED <<wallets, suspended, missed>>

\* The request fails; a wallet that its event created stays.
Rollback(p) ==
  /\ pc[p] # "idle"
  /\ End(p)
  /\ UNCHANGED <<tables, history>>

\* Read, written and committed without anything that could come between.
RemoveBeneficiaryLink(s, b) ==
  /\ role[s] = "sponsor"
  /\ <<s, b>> \in ActiveLinks
  /\ suspended' = suspended \cup {<<s, b>>}
  /\ UNCHANGED <<role, wallets, linked, history, pc, job>>

-----------------------------------------------------------------------------
Statement(p) ==
  \/ InsertUser(p) \/ WriteRole(p) \/ PublishUserCreated(p)
  \/ LookupWallet(p) \/ CreateWallet(p) \/ CommitWallet(p) \/ HandlerFails(p)
  \/ Commit(p) \/ Rollback(p)

Request(p) ==
  \/ \E u \in Accounts : GetOrCreateUser(p, u) \/ CompleteProfile(p, u)
  \/ \E s \in Accounts, b \in Beneficiaries : CreateBeneficiary(p, s, b)

Next ==
  \/ \E p \in Workers : Request(p) \/ Statement(p)
  \/ \E s \in Accounts, b \in Beneficiaries : RemoveBeneficiaryLink(s, b)

Spec == Init /\ [][Next]_vars

-----------------------------------------------------------------------------
(* Properties                                                              *)

\* Tables and workers have their types; links lead from an account to a
\* beneficiary.
TypeOK ==
  /\ role      \in [Users -> Roles \cup {"absent", "unset"}]
  /\ wallets   \in SUBSET Users
  /\ linked    \in SUBSET (Accounts \X Beneficiaries)
  /\ suspended \in SUBSET linked
  /\ adopted   \in SUBSET Users
  /\ missed    \in SUBSET Users
  /\ pc  \in [Workers -> {"idle", "insert", "inserted", "write", "adopt", "adopted",
                          "lookup", "create", "created", "commit"}]
  /\ job \in [Workers -> [user : Users \cup {None}, role : Roles \cup {"unset"},
                          sponsor : Accounts \cup {None}]]

\* A sponsor or beneficiary has a wallet from the moment its role is
\* committed, however provisioning requests overlap and fail, unless the
\* handler failed or the role was adopted from a token, which publishes
\* nothing.
WalletWithRole ==
  \A u \in Users \ (adopted \cup missed) :
    role[u] \in WalletRoles => u \in wallets

\* Whom a link names exists, with the role it implies: the link never
\* outlives a rolled back beneficiary, and no overlapping request takes a
\* role away from either side, except by adopting one from a token for a
\* sponsor whose choice it did not see.
LinkedRoles ==
  \A l \in linked :
    /\ role[l[1]] = "sponsor" \/ l[1] \in adopted
    /\ role[l[2]] = "beneficiary"
=============================================================================
