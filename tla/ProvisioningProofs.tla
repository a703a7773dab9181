--------------------------- MODULE ProvisioningProofs ---------------------------
(* Theorems about Provisioning, for any numbers of workers, accounts and       *)
(* beneficiaries and any tokens.                                               *)
EXTENDS Provisioning, TLAPS

\* What a request is about: an account it signs up or gives a role, or a new
\* beneficiary of a sponsor.
JobsKnown ==
  \A p \in Workers : pc[p] # "idle" =>
    \/ /\ UserOf(p) \in Accounts /\ job[p].sponsor = None
       /\ pc[p] = "write" => job[p].role = "sponsor"
    \/ /\ UserOf(p) \in Beneficiaries /\ job[p].sponsor \in Accounts
       /\ job[p].role = "beneficiary"
       /\ pc[p] \notin {"write", "adopt", "adopted"}

\* One request at a time holds a user's row.
Exclusive ==
  \A p, q \in Workers :
    p # q /\ HoldsUser(p) /\ HoldsUser(q) => UserOf(p) # UserOf(q)

\* Who holds a row without adopting inserted it or chose to be a sponsor.
Fresh ==
  \A p \in Workers :
    HoldsUser(p) /\ pc[p] # "adopted" => role[UserOf(p)] = "absent" \/ job[p].role = "sponsor"

Sponsorship(s) == role[s] = "sponsor" \/ s \in adopted

SponsorKnown ==
  \A p \in Workers : job[p].sponsor # None => Sponsorship(job[p].sponsor)

\* The wallet is committed when only the user's own commit is left.
ServedFirst ==
  \A p \in Workers :
    pc[p] = "commit" /\ job[p].role \in WalletRoles => UserOf(p) \in wallets \cup missed

Inv == /\ TypeOK /\ JobsKnown /\ Exclusive /\ Fresh
       /\ SponsorKnown /\ ServedFirst
       /\ WalletWithRole /\ LinkedRoles

USE ProvisioningAssumption DEF Users

\* Every step keeps the types.
LEMMA TypeOKStep == TypeOK /\ JobsKnown /\ [Next]_vars => TypeOK'
<1> SUFFICES ASSUME TypeOK, JobsKnown, [Next]_vars PROVE TypeOK'
  OBVIOUS
<1> USE DEF TypeOK, Goto, Proceed, Start, End, For, NoJob, UserOf, tables, history, Roles
<1>1. ASSUME NEW p \in Workers, Statement(p) PROVE TypeOK'
  <2>1. CASE InsertUser(p)
    BY <2>1 DEF InsertUser
  <2>2. CASE WriteRole(p)
    BY <2>2 DEF WriteRole
  <2>3. CASE PublishUserCreated(p)
    BY <2>3 DEF PublishUserCreated
  <2>4. CASE LookupWallet(p)
    BY <2>4 DEF LookupWallet
  <2>5. CASE CreateWallet(p)
    BY <2>5 DEF CreateWallet
  <2>6. CASE CommitWallet(p)
    BY <2>6 DEF CommitWallet, JobsKnown
  <2>7. CASE HandlerFails(p)
    BY <2>7 DEF HandlerFails, JobsKnown
  <2>8. CASE Commit(p)
    BY <2>8 DEF Commit, JobsKnown
  <2>9. CASE Rollback(p)
    BY <2>9 DEF Rollback
  <2> QED
    BY <1>1, <2>1, <2>2, <2>3, <2>4, <2>5, <2>6, <2>7, <2>8, <2>9 DEF Statement
<1>2. ASSUME NEW p \in Workers, NEW u \in Accounts, GetOrCreateUser(p, u) PROVE TypeOK'
  <2>1. Tokens[u] \subseteq Roles \cup {"unset"}
    OBVIOUS
  <2> QED
    BY <1>2, <2>1 DEF GetOrCreateUser
<1>3. ASSUME NEW p \in Workers, NEW u \in Accounts, CompleteProfile(p, u) PROVE TypeOK'
  BY <1>3 DEF CompleteProfile
<1>4. ASSUME NEW p \in Workers, NEW s \in Accounts, NEW b \in Beneficiaries,
             CreateBeneficiary(p, s, b)
      PROVE TypeOK'
  BY <1>4 DEF CreateBeneficiary
<1>5. ASSUME NEW s \in Accounts, NEW b \in Beneficiaries, RemoveBeneficiaryLink(s, b)
      PROVE TypeOK'
  BY <1>5 DEF RemoveBeneficiaryLink, ActiveLinks
<1>6. CASE UNCHANGED vars
  BY <1>6 DEF vars
<1> QED
  BY <1>1, <1>2, <1>3, <1>4, <1>5, <1>6 DEF Next, Request

\* A statement of p leaves the jobs of the others alone.
LEMMA OthersKeep ==
  ASSUME TypeOK, NEW p \in Workers, Request(p) \/ Statement(p), NEW q \in Workers \ {p}
  PROVE  pc'[q] = pc[q] /\ job'[q] = job[q]
<1> USE DEF TypeOK, Goto, Proceed, Start, End
<1>1. CASE Request(p)
  BY <1>1 DEF Request, GetOrCreateUser, CompleteProfile, CreateBeneficiary
<1>2. CASE Statement(p)
  BY <1>2 DEF Statement, InsertUser, WriteRole, PublishUserCreated, LookupWallet,
              CreateWallet, CommitWallet, HandlerFails, Commit, Rollback
<1> QED
  BY <1>1, <1>2

\* Requests start with a job that is known, and keep it until they end.
LEMMA JobsKnownStep == Inv /\ [Next]_vars => JobsKnown'
<1> SUFFICES ASSUME Inv, [Next]_vars PROVE JobsKnown'
  OBVIOUS
<1> USE DEF Inv, TypeOK, JobsKnown, Goto, Proceed, Start, End, For, NoJob, UserOf
<1>1. ASSUME NEW p \in Workers, Request(p) PROVE JobsKnown'
  <2>1. ASSUME NEW u \in Accounts, GetOrCreateUser(p, u) PROVE JobsKnown'
    BY <2>1 DEF GetOrCreateUser
  <2>2. ASSUME NEW u \in Accounts, CompleteProfile(p, u) PROVE JobsKnown'
    BY <2>2 DEF CompleteProfile
  <2>3. ASSUME NEW s \in Accounts, NEW b \in Beneficiaries, CreateBeneficiary(p, s, b)
        PROVE JobsKnown'
    BY <2>3 DEF CreateBeneficiary
  <2> QED
    BY <1>1, <2>1, <2>2, <2>3 DEF Request
<1>2. ASSUME NEW p \in Workers, Statement(p) PROVE JobsKnown'
  BY <1>2 DEF Statement, InsertUser, WriteRole, PublishUserCreated, LookupWallet,
              CreateWallet, CommitWallet, HandlerFails, Commit, Rollback
<1>3. CASE UNCHANGED vars
  BY <1>3 DEF vars
<1>4. ASSUME NEW s \in Accounts, NEW b \in Beneficiaries, RemoveBeneficiaryLink(s, b)
      PROVE JobsKnown'
  BY <1>4 DEF RemoveBeneficiaryLink
<1> QED
  BY <1>1, <1>2, <1>3, <1>4 DEF Next

\* A row is locked by one request at a time: both statements that take the
\* lock wait for it.
LEMMA ExclusiveStep == Inv /\ [Next]_vars => Exclusive'
<1> SUFFICES ASSUME Inv, [Next]_vars PROVE Exclusive'
  OBVIOUS
<1> USE DEF Inv, TypeOK, Exclusive, HoldsUser, Goto, Proceed, Start, End, UserOf
<1>1. ASSUME NEW p \in Workers, Request(p) PROVE Exclusive'
  BY <1>1 DEF Request, GetOrCreateUser, CompleteProfile, CreateBeneficiary
<1>2. ASSUME NEW p \in Workers, Statement(p) PROVE Exclusive'
  <2>1. CASE InsertUser(p)
    BY <2>1 DEF InsertUser, UserLocked
  <2>2. CASE WriteRole(p)
    BY <2>2 DEF WriteRole, UserLocked
  <2>3. CASE ~InsertUser(p) /\ ~WriteRole(p)
    BY <1>2, <2>3 DEF Statement, PublishUserCreated, LookupWallet, CreateWallet,
                      CommitWallet, HandlerFails, Commit, Rollback
  <2> QED
    BY <2>1, <2>2, <2>3
<1>3. CASE UNCHANGED vars
  BY <1>3 DEF vars
<1>4. ASSUME NEW s \in Accounts, NEW b \in Beneficiaries, RemoveBeneficiaryLink(s, b)
      PROVE Exclusive'
  BY <1>4 DEF RemoveBeneficiaryLink
<1> QED
  BY <1>1, <1>2, <1>3, <1>4 DEF Next

\* Nobody else commits a role while a row is held.
LEMMA FreshStep == Inv /\ [Next]_vars => Fresh'
<1> SUFFICES ASSUME Inv, [Next]_vars PROVE Fresh'
  OBVIOUS
<1> USE DEF Inv, TypeOK, Fresh, HoldsUser, Goto, Proceed, Start, End, UserOf, tables
<1>1. ASSUME NEW p \in Workers, Request(p) PROVE Fresh'
  BY <1>1 DEF Request, GetOrCreateUser, CompleteProfile, CreateBeneficiary
<1>2. ASSUME NEW p \in Workers, Statement(p) PROVE Fresh'
  <2>1. CASE WriteRole(p)
    BY <2>1 DEF WriteRole, JobsKnown
  <2>2. CASE Commit(p)
    BY <2>2 DEF Commit, Exclusive
  <2>3. CASE ~WriteRole(p) /\ ~Commit(p)
    BY <1>2, <2>3 DEF Statement, InsertUser, PublishUserCreated, LookupWallet,
                      CreateWallet, CommitWallet, HandlerFails, Rollback
  <2> QED
    BY <2>1, <2>2, <2>3
<1>3. CASE UNCHANGED vars
  BY <1>3 DEF vars
<1>4. ASSUME NEW s \in Accounts, NEW b \in Beneficiaries, RemoveBeneficiaryLink(s, b)
      PROVE Fresh'
  BY <1>4 DEF RemoveBeneficiaryLink
<1> QED
  BY <1>1, <1>2, <1>3, <1>4 DEF Next

\* A commit leaves every sponsor one, unless the role was adopted from a token,
\* and every beneficiary one.
LEMMA RolesKept ==
  ASSUME Inv, [Next]_vars
  PROVE  /\ \A s \in Accounts : Sponsorship(s) => Sponsorship(s)'
         /\ \A b \in Beneficiaries : role[b] = "beneficiary" => role'[b] = "beneficiary"
<1> USE DEF Inv, TypeOK, Sponsorship, tables, history
<1>1. ASSUME NEW p \in Workers, Commit(p)
      PROVE  /\ \A s \in Accounts : Sponsorship(s) => Sponsorship(s)'
             /\ \A b \in Beneficiaries : role[b] = "beneficiary" => role'[b] = "beneficiary"
  <2>1. pc[p] # "adopted" => role[UserOf(p)] = "absent" \/ job[p].role = "sponsor"
    BY <1>1 DEF Fresh, Commit, HoldsUser
  <2>2. \/ UserOf(p) \in Accounts
        \/ UserOf(p) \in Beneficiaries /\ job[p].role = "beneficiary"
    BY <1>1 DEF JobsKnown, Commit
  <2> QED
    BY <1>1, <2>1, <2>2 DEF Commit
<1>2. CASE UNCHANGED <<role, adopted>>
  BY <1>2
<1> QED
  BY <1>1, <1>2 DEF Next, Request, Statement, vars, Start, Proceed, End,
     GetOrCreateUser, CompleteProfile, CreateBeneficiary,
     InsertUser, WriteRole, PublishUserCreated, LookupWallet, CreateWallet,
     CommitWallet, HandlerFails, Rollback, RemoveBeneficiaryLink

LEMMA SponsorKnownStep == Inv /\ [Next]_vars => SponsorKnown'
<1> SUFFICES ASSUME Inv, [Next]_vars, NEW q \in Workers, job'[q].sponsor # None
             PROVE Sponsorship(job[q].sponsor)'
  BY DEF SponsorKnown
<1> USE DEF Inv, TypeOK, Goto, Proceed, Start, End, For, NoJob
<1>1. CASE job'[q] = job[q]
  <2>1. job[q].sponsor \in Accounts /\ Sponsorship(job[q].sponsor)
    BY <1>1 DEF SponsorKnown
  <2> QED
    BY <1>1, <2>1, RolesKept
<1>2. ASSUME NEW s \in Accounts, NEW b \in Beneficiaries, CreateBeneficiary(q, s, b)
      PROVE Sponsorship(job[q].sponsor)'
  BY <1>2 DEF CreateBeneficiary, Sponsorship, tables, history
<1>3. CASE job'[q] # job[q]
  <2>1. Request(q) \/ Statement(q)
    BY <1>3, OthersKeep DEF Next, vars, RemoveBeneficiaryLink
  <2>2. \A u \in Accounts : ~GetOrCreateUser(q, u) /\ ~CompleteProfile(q, u)
    BY DEF GetOrCreateUser, CompleteProfile
  <2>3. ~Statement(q)
    BY <1>3 DEF Statement, InsertUser, WriteRole, PublishUserCreated, LookupWallet,
                CreateWallet, CommitWallet, HandlerFails, Commit, Rollback
  <2> QED
    BY <1>2, <2>1, <2>2, <2>3 DEF Request
<1> QED
  BY <1>1, <1>3

\* The event's handler has committed the wallet, or failed, when the
\* publisher's own commit comes.
LEMMA ServedFirstStep == Inv /\ [Next]_vars => ServedFirst'
<1> SUFFICES ASSUME Inv, [Next]_vars PROVE ServedFirst'
  OBVIOUS
<1> USE DEF Inv, TypeOK, ServedFirst, Goto, Proceed, Start, End, UserOf, tables, history
<1>1. ASSUME NEW p \in Workers, Request(p) PROVE ServedFirst'
  BY <1>1 DEF Request, GetOrCreateUser, CompleteProfile, CreateBeneficiary
<1>2. ASSUME NEW p \in Workers, Statement(p) PROVE ServedFirst'
  BY <1>2 DEF Statement, InsertUser, WriteRole, PublishUserCreated, LookupWallet,
              CreateWallet, CommitWallet, HandlerFails, Commit, Rollback
<1>3. CASE UNCHANGED vars
  BY <1>3 DEF vars
<1>4. ASSUME NEW s \in Accounts, NEW b \in Beneficiaries, RemoveBeneficiaryLink(s, b)
      PROVE ServedFirst'
  BY <1>4 DEF RemoveBeneficiaryLink
<1> QED
  BY <1>1, <1>2, <1>3, <1>4 DEF Next

\* Only Commit changes a role, and wallets are never taken away.
LEMMA WalletWithRoleStep == Inv /\ [Next]_vars => WalletWithRole'
<1> SUFFICES ASSUME Inv, [Next]_vars PROVE WalletWithRole'
  OBVIOUS
<1> USE DEF Inv, TypeOK, WalletWithRole, tables, history
<1>1. ASSUME NEW p \in Workers, Commit(p) PROVE WalletWithRole'
  BY <1>1 DEF Commit, ServedFirst
<1>2. CASE /\ role' = role
           /\ wallets \subseteq wallets' /\ adopted \subseteq adopted' /\ missed \subseteq missed'
  BY <1>2
<1> QED
  BY <1>1, <1>2 DEF Next, Request, Statement, vars, Start, Proceed, End,
     GetOrCreateUser, CompleteProfile, CreateBeneficiary,
     InsertUser, WriteRole, PublishUserCreated, LookupWallet, CreateWallet,
     CommitWallet, HandlerFails, Rollback, RemoveBeneficiaryLink

\* Only Commit adds a link, with the beneficiary's row.
LEMMA LinkedRolesStep == Inv /\ [Next]_vars => LinkedRoles'
<1> SUFFICES ASSUME Inv, [Next]_vars, NEW l \in linked'
             PROVE Sponsorship(l[1])' /\ role'[l[2]] = "beneficiary"
  BY DEF LinkedRoles, Sponsorship
<1>1. CASE l \in linked
  <2>1. /\ l[1] \in Accounts /\ l[2] \in Beneficiaries
        /\ Sponsorship(l[1]) /\ role[l[2]] = "beneficiary"
    BY <1>1 DEF Inv, TypeOK, LinkedRoles, Sponsorship
  <2> QED
    BY <2>1, RolesKept
<1>2. CASE l \notin linked
  <2>1. PICK p \in Workers : Commit(p)
    BY <1>2 DEF Next, Request, Statement, vars, tables, Start, Proceed, End,
       GetOrCreateUser, CompleteProfile, CreateBeneficiary,
       InsertUser, WriteRole, PublishUserCreated, LookupWallet, CreateWallet,
       CommitWallet, HandlerFails, Rollback, RemoveBeneficiaryLink
  <2>2. job[p].sponsor # None /\ l = <<job[p].sponsor, UserOf(p)>>
    BY <1>2, <2>1 DEF Commit
  <2>3. job[p].sponsor \in Accounts /\ Sponsorship(job[p].sponsor)
    BY <2>2 DEF Inv, TypeOK, SponsorKnown
  <2>4. UserOf(p) \in Users /\ job[p].role = "beneficiary"
    BY <2>1, <2>2 DEF Inv, JobsKnown, Commit
  <2>5. role'[UserOf(p)] = "beneficiary"
    BY <2>1, <2>4 DEF Inv, TypeOK, Commit
  <2> QED
    BY <2>2, <2>3, <2>5, RolesKept
<1> QED
  BY <1>1, <1>2

\* Nothing is provisioned at first, and every step keeps each part.
LEMMA Invariance == Spec => []Inv
<1>1. Init => Inv
  BY DEF Init, Inv, TypeOK, JobsKnown, Exclusive, Fresh, SponsorKnown, ServedFirst,
         WalletWithRole, LinkedRoles, WalletRoles, Roles, HoldsUser, For, NoJob
<1>2. Inv /\ [Next]_vars => Inv'
  BY TypeOKStep, JobsKnownStep, ExclusiveStep, FreshStep, SponsorKnownStep,
     ServedFirstStep, WalletWithRoleStep, LinkedRolesStep DEF Inv
<1> QED
  BY <1>1, <1>2, PTL DEF Spec

\* Users, wallets, links and requests keep their types, however many requests
\* overlap.
THEOREM WellTyped == Spec => []TypeOK
<1>1. Inv => TypeOK
  BY DEF Inv
<1> QED
  BY <1>1, Invariance, PTL

\* No overlap of provisioning requests leaves a sponsor or beneficiary without a
\* wallet, but for a failed handler or a role adopted from a token.
THEOREM WalletsFollowRoles == Spec => []WalletWithRole
<1>1. Inv => WalletWithRole
  BY DEF Inv
<1> QED
  BY <1>1, Invariance, PTL

\* However requests overlap and fail, a link joins a sponsor, or an account whose
\* role was adopted later, with a beneficiary that exists.
THEOREM LinksMatchRoles == Spec => []LinkedRoles
<1>1. Inv => LinkedRoles
  BY DEF Inv
<1> QED
  BY <1>1, Invariance, PTL
=============================================================================
