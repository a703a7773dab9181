-------------------------- MODULE CardTransactions --------------------------
(***************************************************************************)
(* The card-processor webhooks (TransactionService.authorize,              *)
(* process_clearing, process_reversal) and the crediting of funding        *)
(* transfers (WalletService.credit_from_funding), run by concurrent        *)
(* requests against PostgreSQL.                                            *)
(*                                                                         *)
(* Each request is one database transaction of a worker, one step per SQL  *)
(* statement that reads or writes shared rows.  The webhooks run at READ   *)
(* COMMITTED: a SELECT sees what is committed at that moment, an UPDATE    *)
(* waits for the row lock of an earlier writer and then writes the values  *)
(* the ORM computed in Python from what the SELECT returned, and nothing   *)
(* the request wrote is visible before its COMMIT.  credit_from_funding    *)
(* runs at SERIALIZABLE: its UPDATEs fail when the row changed since its   *)
(* snapshot.  Everybody else who writes payment_state of a transfer is     *)
(* Move, any change to and from AWAITING_SETTLEMENT; FundingTransfer       *)
(* models who they are.                                                    *)
(*                                                                         *)
(* The variables below the first group are the committed rows; the writes  *)
(* of a request that has not committed are a function of its step, its     *)
(* payload and the wallet row it has seen, and are applied by its commit.  *)
(***************************************************************************)
EXTENDS Integers, Sequences, Functions, FiniteSets

CONSTANTS
  Workers,         \* concurrent requests
  None,            \* no payload
  Wallets, Cards, Refs, Transfers,
  CardWallet,      \* wallet of each card
  CardOf,          \* card whose token an authorization request names
  Hold,            \* amount of an authorization request, any integer
  DailyLimit,      \* per card, its daily_limit, or None
  Into,            \* wallet a funding transfer credits
  Deposit,         \* its dest_amount
  ClearedAmounts,  \* amounts the processor may send with a clearing
  MaxSettlements   \* bound on how often a transfer begins to await settlement

WalletOf == [r \in Refs |-> CardWallet[CardOf[r]]]

ASSUME TransactionsAssumption ==
  /\ IsFiniteSet(Workers) /\ Workers # {}
  /\ None \notin Refs \cup Transfers \cup Int
  /\ Refs \cap Transfers = {}
  /\ CardWallet \in [Cards -> Wallets]
  /\ CardOf     \in [Refs -> Cards]
  /\ Hold       \in [Refs -> Int]
  /\ DailyLimit \in [Cards -> Nat \cup {None}]
  /\ Into       \in [Transfers -> Wallets]
  /\ Deposit    \in [Transfers -> Nat \ {0}]
  /\ ClearedAmounts \in SUBSET Int
  /\ MaxSettlements \in Nat

VARIABLES
  active,     \* cards whose row exists with status ACTIVE
  wallet,     \* committed wallet rows
  auths,      \* committed status of each authorization, "none" without a row
  clearings,  \* amounts of the committed clearing rows of each authorization
  waiting,    \* funding transfers committed as AWAITING_SETTLEMENT
  settlements,  \* history: how often each of them was moved to that state
  entries,    \* committed CREDIT entries that refer to each funding transfer
  credits,    \* per wallet, the sum of its committed CREDIT entries
  debits,     \* per wallet, the sum of its committed DEBIT entries
  pc,         \* per worker, the statement its request runs next
  job,        \* per worker, the payload of its request
  seen,       \* per worker, the wallet row its last SELECT returned
  stale       \* serializable requests whose wallet or transfer row changed

transfers == <<waiting, settlements, entries>>
rows == <<active, wallet, auths, clearings, transfers, credits, debits>>
vars == <<active, wallet, auths, clearings, waiting, settlements, entries,
          credits, debits, pc, job, seen, stale>>

-----------------------------------------------------------------------------
(* Requests in progress                                                    *)

NoJob == [ref |-> None, amount |-> 0]
NoRow == [available |-> 0, reserved |-> 0]

\* Statements of each kind of request, in order.  The last one of each list
\* is the COMMIT; that of a credit comes with the UPDATE of its transfer.
AuthorizeSteps == {"limit", "balance", "insert", "insert_declined",
                   "reserve", "hold", "approved", "declined"}
ClearSteps     == {"record", "settle_read", "settle", "mark_cleared", "cleared"}
ReverseSteps   == {"release_read", "release", "mark_reversed", "reversed"}
CreditSteps    == {"credit_read", "credit", "credited"}
Steps == AuthorizeSteps \cup ClearSteps \cup ReverseSteps \cup CreditSteps

\* Wallet the request of worker p works on.
WalletFor(p) ==
  IF pc[p] \in CreditSteps THEN Into[job[p].ref] ELSE WalletOf[job[p].ref]

\* p has updated its wallet row and not committed.  A settle of 0 leaves the
\* column as it was, so the ORM sends no UPDATE and takes no lock.
HoldsWallet(p) ==
  \/ pc[p] \in {"approved", "mark_reversed", "reversed", "credited"}
  \/ pc[p] \in {"mark_cleared", "cleared"} /\ job[p].amount # 0

\* Mutant: SELECT ... FOR SHARE, upgraded by the UPDATE.
WalletLockedByReaders(p) ==
  \E q \in Workers \ {p} :
    /\ HoldsWallet(q) \/ pc[q] \in {"hold", "settle", "release", "credit"}
    /\ WalletFor(q) = WalletFor(p)

WalletLocked(p) ==
  \E q \in Workers \ {p} : HoldsWallet(q) /\ WalletFor(q) = WalletFor(p)

\* Another request has updated the authorization row of p's and not committed.
AuthorizationLocked(p) ==
  \E q \in Workers \ {p} : pc[q] \in {"cleared", "reversed"} /\ job[q].ref = job[p].ref

\* Those who have inserted their authorization, or clearing, row and not
\* committed.
InsertedAuth     == {q \in Workers : pc[q] \in {"reserve", "hold", "approved", "declined"}}
InsertedClearing == {q \in Workers : pc[q] \in {"settle_read", "settle", "mark_cleared", "cleared"}}

\* An INSERT waits while another open transaction holds the same unique key.
KeyHeld(p, holders) == \E q \in holders \ {p} : job[q].ref = job[p].ref

\* p's request goes on with statement s.
Goto(p, s) == pc' = [pc EXCEPT ![p] = s]

\* p's transaction is over, committed or rolled back.
End(p) ==
  /\ pc'   = [pc EXCEPT ![p] = "idle"]
  /\ job'  = [job EXCEPT ![p] = NoJob]
  /\ seen' = [seen EXCEPT ![p] = NoRow]

\* get_db: an exception rolls back every write of the request.
Rollback(p) == End(p) /\ stale' = stale \ {p} /\ UNCHANGED rows

\* A request arrives; its first SELECT has found what it looks for.
Begin(p, ref, n, s) ==
  /\ pc[p] = "idle"
  /\ job' = [job EXCEPT ![p] = [ref |-> ref, amount |-> n]]
  /\ Goto(p, s)
  /\ UNCHANGED <<rows, seen, stale>>

\* p reads its wallet row as committed now and goes on with s.
ReadWallet(p, s) ==
  /\ seen' = [seen EXCEPT ![p] = wallet[WalletFor(p)]]
  /\ Goto(p, s)
  /\ UNCHANGED <<rows, job, stale>>

\* A step that only moves to s.
Proceed(p, s) == Goto(p, s) /\ UNCHANGED <<rows, job, seen, stale>>

\* p's COMMIT installs row in its wallet; serializable requests that already
\* took their snapshot of that wallet become stale.
CommitWallet(p, row) ==
  /\ wallet' = [wallet EXCEPT ![WalletFor(p)] = row]
  /\ stale'  = (stale \ {p}) \cup
               {q \in Workers \ {p} : /\ pc[q] \in CreditSteps
                                      /\ HoldsWallet(p)
                                      /\ WalletFor(q) = WalletFor(p)}

-----------------------------------------------------------------------------
(* Authorization webhook                                                   *)

Init ==
  /\ active    \in SUBSET Cards
  /\ wallet    = [w \in Wallets |-> NoRow]
  /\ auths     = [r \in Refs |-> "none"]
  /\ clearings = [r \in Refs |-> << >>]
  /\ waiting     = {}
  /\ settlements = [t \in Transfers |-> 0]
  /\ entries     = [t \in Transfers |-> 0]
  /\ credits   = [w \in Wallets |-> 0]
  /\ debits    = [w \in Wallets |-> 0]
  /\ pc        = [p \in Workers |-> "idle"]
  /\ job       = [p \in Workers |-> NoJob]
  /\ seen      = [p \in Workers |-> NoRow]
  /\ stale     = {}

\* The processor delivers authorization request r, for the first time or
\* again; the card is looked up by its token and must be ACTIVE.
Authorize(p, r) ==
  Begin(p, r, Hold[r], IF CardOf[r] \in active THEN "limit" ELSE "insert_declined")

\* Holds of card c that are authorized now: today's spending as
\* get_daily_authorized_total adds it up.
OpenHolds(c) == {r \in Refs : CardOf[r] = c /\ auths[r] = "authorized"}
DailyTotal(c) == SumFunctionOnSet(Hold, OpenHolds(c))

\* Mutant: the amount asked for is not counted.
LimitReached(r) ==
  LET c == CardOf[r] IN DailyLimit[c] # None /\ DailyTotal(c) > DailyLimit[c]

LimitExceeded(r) ==
  LET c == CardOf[r]
  IN DailyLimit[c] # None /\ DailyTotal(c) + Hold[r] > DailyLimit[c]

\* Spending controls: the daily limit, then the category and merchant lists,
\* which are not modelled and may refuse any request.
CheckControls(p) ==
  /\ pc[p] = "limit"
  /\ \/ ~LimitExceeded(job[p].ref) /\ Proceed(p, "balance")
     \/ Proceed(p, "insert_declined")

CheckBalance(p) ==
  /\ pc[p] = "balance"
  /\ Proceed(p, IF wallet[WalletFor(p)].available < job[p].amount
                THEN "insert_declined" ELSE "insert")

\* Mutant: processor_auth_ref is not unique.
InsertAuthorizationAgain(p) ==
  /\ pc[p] \in {"insert", "insert_declined"}
  /\ Proceed(p, IF pc[p] = "insert" THEN "reserve" ELSE "declined")

\* INSERT of the authorization row: processor_auth_ref is unique, and the
\* violation is not caught.
InsertAuthorization(p) ==
  /\ pc[p] \in {"insert", "insert_declined"}
  /\ ~KeyHeld(p, InsertedAuth)
  /\ IF auths[job[p].ref] # "none"
       THEN Rollback(p)
       ELSE Proceed(p, IF pc[p] = "insert" THEN "reserve" ELSE "declined")

\* Mutant: the reservation relies on the balance check made before.
ReserveUnchecked(p) ==
  /\ pc[p] = "reserve"
  /\ ReadWallet(p, IF job[p].amount > 0 THEN "hold" ELSE "declined")

\* reserve_balance reads the wallet again; what it refuses is declined.
Reserve(p) ==
  /\ pc[p] = "reserve"
  /\ ReadWallet(p, IF /\ job[p].amount > 0
                      /\ wallet[WalletFor(p)].available >= job[p].amount
                   THEN "hold" ELSE "declined")

\* The UPDATE that moves the hold, once the row lock is free.
HoldAmount(p) ==
  /\ pc[p] = "hold"
  /\ ~WalletLocked(p)
  /\ Proceed(p, "approved")

CommitApproved(p) ==
  LET n == job[p].amount
  IN /\ pc[p] = "approved"
     /\ CommitWallet(p, [available |-> seen[p].available - n,
                         reserved  |-> seen[p].reserved + n])
     /\ auths' = [auths EXCEPT ![job[p].ref] = "authorized"]
     /\ End(p)
     /\ UNCHANGED <<active, clearings, transfers, credits, debits>>

\* Mutant: the status keeps a value the enumeration does not have.
CommitDeclinedPending(p) ==
  /\ pc[p] = "declined"
  /\ auths' = [auths EXCEPT ![job[p].ref] = "pending"]
  /\ End(p)
  /\ UNCHANGED <<active, wallet, clearings, transfers, credits, debits, stale>>

CommitDeclined(p) ==
  /\ pc[p] = "declined"
  /\ auths' = [auths EXCEPT ![job[p].ref] = "declined"]
  /\ End(p)
  /\ UNCHANGED <<active, wallet, clearings, transfers, credits, debits, stale>>

-----------------------------------------------------------------------------
(* Clearing webhook                                                        *)

\* Settlement of n for r arrives; a row that is missing or not AUTHORIZED is
\* refused before anything is written.
Clearing(p, r, n) ==
  /\ auths[r] = "authorized"
  /\ Begin(p, r, n, "record")

\* Mutant: authorization_id is not unique.
RecordClearingAgain(p) == pc[p] = "record" /\ Proceed(p, "settle_read")

\* INSERT of the clearing row: authorization_id is unique.
RecordClearing(p) ==
  /\ pc[p] = "record"
  /\ ~KeyHeld(p, InsertedClearing)
  /\ IF clearings[job[p].ref] # << >>
       THEN Rollback(p)
       ELSE Proceed(p, "settle_read")

\* settle_reserve compares the amount with the whole reserved balance.
ReadForSettle(p) ==
  /\ pc[p] = "settle_read"
  /\ IF wallet[WalletFor(p)].reserved < job[p].amount
       THEN Rollback(p)
       ELSE ReadWallet(p, "settle")

\* UPDATE of the reserved balance and INSERT of the DEBIT entry.
Settle(p) ==
  /\ pc[p] = "settle"
  /\ job[p].amount = 0 \/ ~WalletLocked(p)
  /\ Proceed(p, "mark_cleared")

\* The UPDATE of the authorization's status, to CLEARED or REVERSED, once its
\* row lock is free.
MarkAuthorization(p) ==
  /\ ~AuthorizationLocked(p)
  /\ \/ pc[p] = "mark_cleared" /\ Proceed(p, "cleared")
     \/ pc[p] = "mark_reversed" /\ Proceed(p, "reversed")

\* Only the changed column is written, and none when the amount is 0.
CommitCleared(p) ==
  LET n == job[p].amount
      r == job[p].ref
      w == WalletFor(p)
  IN /\ pc[p] = "cleared"
     /\ CommitWallet(p, IF n = 0 THEN wallet[w]
                        ELSE [wallet[w] EXCEPT !.reserved = seen[p].reserved - n])
     /\ auths'     = [auths EXCEPT ![r] = "cleared"]
     /\ clearings' = [clearings EXCEPT ![r] = Append(@, n)]
     /\ debits'    = [debits EXCEPT ![w] = @ + n]
     /\ End(p)
     /\ UNCHANGED <<active, transfers, credits>>

-----------------------------------------------------------------------------
(* Reversal webhook                                                        *)

Reversal(p, r) ==
  /\ auths[r] = "authorized"
  /\ Begin(p, r, Hold[r], "release_read")

ReadForRelease(p) ==
  /\ pc[p] = "release_read"
  /\ IF wallet[WalletFor(p)].reserved < job[p].amount
       THEN Rollback(p)
       ELSE ReadWallet(p, "release")

Release(p) ==
  /\ pc[p] = "release"
  /\ ~WalletLocked(p)
  /\ Proceed(p, "mark_reversed")

\* Mutant: the hold is dropped and not given back.
CommitReversedForfeit(p) ==
  /\ pc[p] = "reversed"
  /\ CommitWallet(p, [seen[p] EXCEPT !.reserved = @ - job[p].amount])
  /\ auths' = [auths EXCEPT ![job[p].ref] = "reversed"]
  /\ End(p)
  /\ UNCHANGED <<active, clearings, transfers, credits, debits>>

CommitReversed(p) ==
  LET n == job[p].amount
  IN /\ pc[p] = "reversed"
     /\ CommitWallet(p, [available |-> seen[p].available + n,
                         reserved  |-> seen[p].reserved - n])
     /\ auths' = [auths EXCEPT ![job[p].ref] = "reversed"]
     /\ End(p)
     /\ UNCHANGED <<active, clearings, transfers, credits, debits>>

-----------------------------------------------------------------------------
(* Crediting a funding transfer                                            *)

\* A request that writes payment_state of t without crediting it commits:
\* advance_funding_state, operations staff, the bank's callback.  None of them
\* looks at who credits t meanwhile.  The transfer begins to await settlement,
\* or no longer does; a credit that has read it as it was is outdated.  (To
\* write the state it is in already only makes a credit fail, as Fail does.)
Move(t) ==
  /\ \/ /\ t \notin waiting
        /\ settlements[t] < MaxSettlements
        /\ waiting' = waiting \cup {t}
        /\ settlements' = [settlements EXCEPT ![t] = @ + 1]
     \/ /\ t \in waiting
        /\ waiting' = waiting \ {t}
        /\ UNCHANGED settlements
  /\ stale' = stale \cup {q \in Workers : pc[q] \in CreditSteps /\ job[q].ref = t}
  /\ UNCHANGED <<active, wallet, auths, clearings, entries, credits, debits,
                 pc, job, seen>>

\* The first SELECT takes the snapshot of the serializable transaction.
CreditFromFunding(p, t) ==
  /\ t \in waiting
  /\ Begin(p, t, Deposit[t], "credit_read")

\* Reads the snapshot: the committed row, unless p is stale already, and
\* then an UPDATE fails whatever was read.
ReadForCredit(p) ==
  /\ pc[p] = "credit_read"
  /\ ReadWallet(p, "credit")

\* Mutant: credit_from_funding at READ COMMITTED.
NeverOutdated(p) == FALSE

\* A row of p's serializable transaction was changed since its snapshot.
Outdated(p) == p \in stale

\* UPDATE of the available balance and INSERT of the CREDIT entry.
CreditWallet(p) ==
  /\ pc[p] = "credit"
  /\ ~WalletLocked(p)
  /\ IF Outdated(p) THEN Rollback(p) ELSE Proceed(p, "credited")

\* UPDATE of the transfer to COMPLETED, which fails when somebody moved it
\* since, and COMMIT.
CommitCredited(p) ==
  LET t == job[p].ref
      n == job[p].amount
      w == WalletFor(p)
  IN /\ pc[p] = "credited"
     /\ IF Outdated(p)
          THEN Rollback(p)
          ELSE /\ CommitWallet(p, [wallet[w] EXCEPT !.available = seen[p].available + n])
               /\ waiting' = waiting \ {t}
               /\ entries' = [entries EXCEPT ![t] = @ + 1]
               /\ credits' = [credits EXCEPT ![w] = @ + n]
               /\ End(p)
               /\ UNCHANGED <<active, auths, clearings, settlements, debits>>

-----------------------------------------------------------------------------
(* The environment, and the whole                                          *)

\* The card module commits a card as ACTIVE, or as something else.
ChangeCard(c) ==
  /\ active' = IF c \in active THEN active \ {c} ELSE active \cup {c}
  /\ UNCHANGED <<wallet, auths, clearings, transfers, credits, debits,
                 pc, job, seen, stale>>

\* A request dies in the middle: a lost connection, a killed process, an
\* exception in any statement.
Fail(p) == pc[p] # "idle" /\ Rollback(p)

Deliver(p) ==
  \/ \E r \in Refs : Authorize(p, r) \/ Reversal(p, r)
  \/ \E r \in Refs : \E n \in ClearedAmounts : Clearing(p, r, n)
  \/ \E t \in Transfers : CreditFromFunding(p, t)

Step(p) ==
  \/ CheckControls(p) \/ CheckBalance(p) \/ InsertAuthorization(p)
  \/ Reserve(p) \/ HoldAmount(p) \/ CommitApproved(p) \/ CommitDeclined(p)
  \/ RecordClearing(p) \/ ReadForSettle(p) \/ Settle(p) \/ CommitCleared(p)
  \/ ReadForRelease(p) \/ Release(p) \/ CommitReversed(p) \/ MarkAuthorization(p)
  \/ ReadForCredit(p) \/ CreditWallet(p) \/ CommitCredited(p)

Next ==
  \/ \E p \in Workers : Deliver(p) \/ Step(p) \/ Fail(p)
  \/ \E c \in Cards : ChangeCard(c)
  \/ \E t \in Transfers : Move(t)

\* A request that was accepted keeps running its statements; nothing makes
\* the processor deliver, a card change, or a request fail.  Fairness is
\* strong because PostgreSQL queues the transactions that wait for a row lock
\* or a unique key: a waiter gets its turn although others keep coming.
Fairness == \A p \in Workers : SF_vars(Step(p))

Spec == Init /\ [][Next]_vars /\ Fairness

\* No two requests in progress work on one wallet: what the code would have if
\* it took the wallet's row lock with its first SELECT.
Separate ==
  \A p, q \in Workers :
    pc[p] # "idle" /\ pc[q] # "idle" /\ WalletFor(p) = WalletFor(q) => p = q

\* The behaviours in which requests overlap on different wallets only.
SerialSpec == Init /\ [][Next /\ Separate']_vars

-----------------------------------------------------------------------------
(* Properties                                                              *)

Jobs == [ref : Refs \cup Transfers \cup {None}, amount : Int]

TypeOK ==
  /\ active    \in SUBSET Cards
  /\ wallet    \in [Wallets -> [available : Int, reserved : Int]]
  /\ auths     \in [Refs -> {"none", "authorized", "declined", "cleared", "reversed"}]
  /\ clearings \in [Refs -> Seq(Int)]
  /\ waiting     \in SUBSET Transfers
  /\ settlements \in [Transfers -> 0 .. MaxSettlements]
  /\ entries     \in [Transfers -> Nat]
  /\ credits   \in [Wallets -> Int]
  /\ debits    \in [Wallets -> Int]
  /\ pc        \in [Workers -> Steps \cup {"idle"}]
  /\ job       \in [Workers -> Jobs]
  /\ seen      \in [Workers -> [available : Int, reserved : Int]]
  /\ stale     \in SUBSET Workers

\* Operations as they would be if each were one indivisible step; none of
\* those modelled here calls debit_wallet.
Ledger == INSTANCE WalletLedger WITH DebitAmounts <- {}

\* Overlapping requests may write stale balances over each other, but no
\* committed balance is ever negative: every value written is one that was
\* committed before, lowered only after reserve_balance, settle_reserve or
\* release_reserve compared that same value with the amount.
NoOverdraft == Ledger!NoOverdraft

\* However many clearing deliveries of one authorization overlap, at most one
\* settles: the unique authorization_id of the clearings table stops the
\* second before it writes a DEBIT entry.
ClearedAtMostOnce == \A r \in Refs : Len(clearings[r]) <= 1

\* A transfer that is moved to AWAITING_SETTLEMENT is worth one CREDIT entry,
\* or none, however many callers credit it at the same time and whoever moves
\* it meanwhile (credit_from_funding: "SERIALIZABLE to prevent
\* double-crediting").  One that still waits has its credit to come.  That a
\* transfer may be moved there again after its credit is FundingTransfer's.
CreditedOncePerSettlement ==
  \A t \in Transfers :
    entries[t] + (IF t \in waiting THEN 1 ELSE 0) <= settlements[t]

\* A decision on an authorization request is taken once: a delivery that
\* finds it decided, or races with the one deciding it, never approves it
\* (again) and never turns an approval into a decline.
DecidedOnce ==
  [][\A r \in Refs : auths[r] # "none" /\ auths'[r] # auths[r]
                       => auths'[r] \in {"cleared", "reversed"}]_vars

\* No wait for a row lock or a unique key is part of a cycle: every request
\* that starts also ends, and its worker is idle again.  All handlers take the
\* key of their own insert first, then the wallet row, then the authorization
\* or the transfer row.
EveryRequestEnds == \A p \in Workers : []<>(pc[p] = "idle")

\* The limit is checked before the hold is made, so overlapping requests may
\* take a card beyond it.  How far is bounded by how many there are: the open
\* holds of a card fit under its daily limit when one fewer of them than
\* there are concurrent requests is left aside.
OverrunByOverlap ==
  \A c \in Cards : DailyLimit[c] # None =>
    \E X \in SUBSET OpenHolds(c) :
      /\ Cardinality(X) < Cardinality(Workers)
      /\ SumFunctionOnSet(Hold, OpenHolds(c) \ X) <= DailyLimit[c]

(* Properties of requests that do not overlap                              *)

\* Without overlap, the statements of each handler amount to one step of
\* WalletLedger at its commit.
ImplementsLedger == Ledger!Spec

(* Properties of overlapping requests that the repository states           *)

\* "sum(CREDIT) - sum(DEBIT) == available_balance + reserved_balance" after
\* every sequence of webhooks, in the words of the authorization tests.
LedgerMatchesBalances == Ledger!LedgerMatchesBalances
=============================================================================
