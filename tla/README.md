# U-First backend: specifications, model checking and proofs

U-First lets a *sponsor* fund the wallet of a *beneficiary*, who spends from it
with a prepaid card.  The backend is a FastAPI application on PostgreSQL and
Redis, with Celery workers and a beat scheduler.  These modules model the parts
of it that move money or decide who gets what, at the grain at which requests
really interleave: one step per SQL statement, Redis call or call to another
company, with the row locks, unique keys, rollbacks and redeliveries that lie
between.  TLC checks the models on small instances and TLAPS proves the most
important safety properties for instances of any size.

All paths below are relative to `src/`; module names are those of this directory.

## 1. Inventory

| Component | State | Operations | Interacts with |
|---|---|---|---|
| Wallets and ledger (`app/modules/wallet/service.py`, `repository.py`) | `wallets` (available, reserved), `ledger_entries` (append-only) | create, credit, reserve, release, settle, debit (only tests call it) | card transactions, funding, provisioning |
| Card transactions (`app/modules/transaction/`) | `authorizations`, `clearings`, `disputes` | authorization, clearing and reversal webhooks; open dispute | reads cards, changes wallets |
| Funding transfers (`wallet/service.py`, `openbanking/payments.py`, `openbanking/webhooks.py`, `tasks.py`, `routes.py`) | `funding_transfers`, `open_banking_payments`, `card_payments`, webhook log | initiate, cancel, expire, set state, complete, process event, poll, Yapily callback | aggregator, Celery, wallets |
| Aggregator clients (`openbanking/client.py`, `yapily_client.py`, `stripe_client.py`, `adapter.py`) | access tokens | initiate, execute, check status, parse and verify events | HTTP APIs |
| Bank connections (`openbanking/connections.py`) | `sponsor_bank_connections` | link, list, revoke, warn of expiry | aggregator, payments |
| Cards (`app/modules/card/`) | `cards`, `card_events` | issue, activate, freeze, unfreeze, cancel, controls | card processor |
| Identity (`app/modules/identity/`) | `users`, `kyc_submissions`, links | lazy provisioning, complete profile, create and remove beneficiary, KYC | event bus |
| Event bus (`app/core/events.py`) | subscribers | `publish` runs handlers in the publisher's coroutine and swallows their errors | `on_user_created` is the only subscriber |
| Idempotency middleware (`app/core/middleware.py`) | Redis entries of 24 hours | reserve, look up, store, delete | every POST, PUT and PATCH |
| Database sessions (`app/core/database.py`) | one transaction per request | commit at the end, rollback on an exception | all of the above |
| Jobs (`app/jobs/`) | Celery queues | poll (5 min), expire (1 min), warn (daily) | funding, connections |

Stateless or planned only, and not modelled: authentication, money, pagination,
encryption, storage, exceptions; the UP Nigeria processor (every method raises
`NotImplementedError`); vendor, compliance, notification, reporting (`PLAN.md` only).

What is hard here.  PostgreSQL runs at READ COMMITTED and the ORM writes
absolute values it computed in Python, so that a request overwrites what others
committed since it read.  Nothing locks a row for reading, and no table has a
version or a CHECK.  What protects the data is unique keys, one SERIALIZABLE
transaction, the order of statements, and the checks made on the very values
that are later written.  Deliveries are repeated and reordered, outside
companies are called before anything is committed, and one handler commits in a
session of its own.  `PROJECT.json` lists these hazards one by one, each with the
line where it bites and the properties that watch it.

What makes each part right: balances never negative and explained by the ledger
and the open holds; each authorization decided and settled once; each transfer
credited from the right state only, and never left waiting; one card per wallet
that its processor knows, issued and changed by those who may; a reply replayed only for the same request; roles,
wallets and links that fit together.

## 2. Modules

**WalletLedger** is the abstract specification: each wallet operation is one
indivisible step.  `wallet`, `auths`, `clearings`, `credits`, `debits` are the rows
(ledger entries as sums per wallet), `waiting` the transfers in AWAITING_SETTLEMENT and
`settlements` how often each came there.  `Approve` is `reserve_balance`, `Clear`
`settle_reserve` with the amount the processor chose, `Reverse` `release_reserve`, `Credit`
`credit_from_funding`, `Debit` `debit_wallet`; `Move` is everybody else who writes the state of
a transfer, into AWAITING_SETTLEMENT and out of it, with no promise that it happens once.

**CardTransactions** is the same as the code does it: a request is a worker with
a program counter `pc`, its payload `job`, and `seen`, the wallet row its last SELECT
returned.  The rows are what is committed; what a request has written is applied
by its `Commit...` action.  `HoldsWallet` says when it holds the wallet's row lock,
`AuthorizationLocked` when its UPDATE of an authorization waits for another request's,
`KeyHeld` when its INSERT does.  Crediting is SERIALIZABLE: a commit puts the requests whose
snapshot it outdated into `stale`, and their UPDATE fails (`Outdated`), be it of the wallet or of
the transfer.  `Move` stands for the other writers of `payment_state` (`advance_funding_state`,
staff, Yapily's callback), at any time and without regard to who is crediting; who they
are and what they read is FundingTransfer's.
`Fail` ends a request before any statement.  Between `CheckBalance` and `Reserve` the
wallet is read again, because the service returns a copy and the session keeps
no reference to the row.  `SerialSpec` describes the behaviours in which requests overlap
on different wallets only (`Separate`): what the code would have if it locked the wallet's
row with its first SELECT.  Under it the module implements WalletLedger (`ImplementsLedger`,
every variable mapped to the one of the same name, `debits` included, which no handler
of this module changes).

**FundingTransfer** is the life of a transfer in the same style: `state`
(`payment_state`), `status` (`bank_status` of the open banking payment), `credits`;
`orders` and `bank` for the aggregator's side, `queue` for Celery.  Initiation,
`advance_funding_state` (used by cancellation, expiry and staff), the event task,
`credit_from_funding` and Yapily's callback are sequences of steps; the poller helps
TrueLayer payments only, because the Yapily client cannot read the event it builds.
Yapily's events about the consent may come before the callback executes the payment
(`Happened`), and a repeated execution may be answered with success or refused
(`ExecutePayment`); on success the callback writes the state and credits again.
`Fail` is an exception (a task that raised is acknowledged and lost), `Crash` the death of a
process (its task is delivered again).

**TransferLife** is what FundingTransfer promises of it, an abstract specification
of a few lines: created once, never back to its first wait, credited only as the
step from AWAITING_SETTLEMENT to COMPLETED.  `ImplementsLife` is the refinement, with
`state` and `credits` mapped to themselves and everything else hidden.  The order of the
other states is not part of it: lost updates break it (section 3).

**Idempotency** is `IdempotencyMiddleware.dispatch` for one key: `entry` is the Redis
value, each Redis call and the handler a step.

**CardLifecycle** is `CardService`: read and check, call the processor (`told`), write
status and audit event (`status`, `events`), commit.  `events` counts the `card_events` of each
type and keeps no order: they are listed by `created_at`, the start of their transaction, so that
the events of overlapping requests may be listed either way.

**CardAccess** extends it by the routes in front (`ask`: who asks, for what, and how far
the checks came), the links (`linked`) and KYC statuses (`kyc`) they read, and what changes
those: `RemoveBeneficiaryLink`, `SubmitKyc`, `KycProviderWebhook`.  `Enter` is the call of the
service, so that a request of CardLifecycle begins only behind its checks; `Serve` runs
its statements.  `ended` is history: which of the checked facts ceased to hold
since the request asked.

**Provisioning** is how users (`role`), wallets and links come to exist:
`get_or_create_user`, `complete_profile` and `create_beneficiary` with the event they
publish and the handler that commits the wallet first.

WalletLedger and CardTransactions share no variable with the others.  FundingTransfer counts what
CardTransactions' `CreditFromFunding` does to the wallet; CardTransactions sees the
card module as `ChangeCard`.  Modules ending in MC hold the instances TLC checks,
modules ending in Proofs the theorems.  **Sums** models nothing: it holds the lemmas about
sums over finite sets that the theorems on balances rest on.  Operators marked as mutants are faulty
versions of the definition below them, kept to show that a property can fail.

## 3. Runs

| Run | Instance and bounds | Shows |
|---|---|---|
| `wallet_ledger` | 2 wallets, 3 authorizations (two exhaust the deposit), 2 transfers, clearings of -1 to 3, debits of -1 to 2 | types, `NoOverdraft`, `LedgerMatchesBalances`; `ReservedExplained` and `HoldsCovered` relate the reserved balance to the open holds |
| `ct_overlap` | 2 overlapping requests, 1 wallet, 1 card with a daily limit of 1, 3 authorizations of 1, 1 transfer of 2 that is moved to its settlement once (`MaxSettlements`), clearings of 2 | what overlap cannot break: no negative balance, one clearing, one decision, one credit per move of the transfer to AWAITING_SETTLEMENT; a daily limit overrun by one authorization and never by two; no cycle of waits for keys, wallet, authorization and transfer rows |
| `ct_serial` | `SerialSpec`: 2 requests that overlap on different wallets, 2 wallets with a card each, 4 authorizations (two on one card exceed its daily limit of 3, one is negative), 2 transfers, clearings of 0 and 3 | `ImplementsLedger` |
| `ct_ledger` | 2 overlapping requests, 1 wallet, 2 authorizations that exceed the credit together, 1 transfer, clearings of 1 and 2 | **violated**: the ledger identity of the tests |
| `funding` | 2 overlapping workers, 1 transfer paid through Yapily, TrueLayer or by card, at most 2 CREDIT entries (`MaxCredits`) | `ImplementsLife`, credit only in settlement, what is finished stays, one order per key, no event forgotten, no wait for authorization without end |
| `funding_credited` | 2 overlapping workers, 1 TrueLayer transfer | **violated**: a transfer is credited once |
| `funding_executed` | TrueLayer, one worker, every outside party fair | **violated**: an executed payment completes |
| `idempotency` | 3 copies of a request and 1 with another body, one expiry | faithful replay, one effect unless a handler failed, no reservation without owner |
| `idempotency_overlap` | as above | **violated**: identical requests exclude each other |
| `card_lifecycle` | CardAccess: 2 overlapping requests of a sponsor and of staff, 1 wallet, 2 cards, no new request of a kind a card has had once (`MaxEvents`), link removal, KYC reports in any order | one live card, the processor told first, cancelled cards settle, callers trusted when they asked |
| `card_cancel` | CardLifecycle alone, the same bounds | **violated**: a cancelled card stays cancelled |
| `provisioning` | 2 overlapping requests, 2 accounts (one with changing tokens), 1 beneficiary | wallets and links that fit the roles |

The bounds.  Every check-then-write race in this code involves two requests on
one row; two workers make all of them, and a third authorization tells a limit that is overrun by
overlap from one that is not kept.  Amounts matter only in comparison
with each other: the instances have holds below, at and above what is available,
and clearings below, at and above the hold.  A second transfer or wallet interacts
with the first only through the wallet row, which `ct_serial` and `wallet_ledger`
cover; the proofs remove the bounds for the safety properties they state.
`MaxCredits`, `MaxSettlements` and `MaxEvents` cut behaviours that repeat an overwrite for ever;
one settlement is enough for two credits to overlap and for a credit to find its transfer moved,
and `CreditsOnce` is proved for any number.  `MaxEvents` stops a request from starting, not from overlapping:
two freezes that both read the card still leave two events.  `card_lifecycle` treats workers and
cards as interchangeable, which is sound for what it checks, invariants and an action property that
name none of them.  The runs of Idempotency, Provisioning and WalletLedger and `card_cancel` end where
everything was answered or every kind of request was seen, so they do not check deadlock; the other models
always have a next delivery, and there deadlock is checked or `EveryRequestEnds`
says more.

Fairness.  CardTransactions and FundingTransfer assume that a request that was
accepted runs on: strong fairness of a worker's statements, because PostgreSQL
queues the transactions that wait for a lock or a key, and a waiter's turn comes.
FundingTransfer adds the beat job that expires transfers every minute, whose UPDATE and
commit for one transfer are not interrupted every time.  Nothing
obliges the processor, a sponsor or staff to send anything, and nothing prevents
failures.  `ServedSpec`, used by `funding_executed` only, adds an aggregator that
delivers, a poller and consumers, so that the violation is the code's alone.
The other modules state safety only and assume no fairness.

### What the violated runs show

1. `ct_ledger`: two requests on one wallet read the same row, and the second
   write restores balances from before the first (`wallet/repository.py:120`).
2. `funding_credited`: `credit_from_funding` is SERIALIZABLE, `advance_funding_state` is
   not.  A request that read AUTHORIZING writes AWAITING_SETTLEMENT after the transfer
   was completed; it can then be completed, and credited, again
   (`wallet/service.py:224`).  Yapily's callback writes that state without any
   check.
3. `funding_executed`: the event task calls `credit_from_funding` inside a
   transaction that already ran queries, SET TRANSACTION is refused, and every
   retry fails alike.  The branch for failed payments names a state that does not
   exist and raises too.
4. `idempotency_overlap`: a key that is deleted between SET NX and GET lets two
   identical requests into the handler.
5. `card_cancel`: a freeze, unfreeze or activation that read the card before the
   cancellation committed overwrites it.

## 4. Proofs

| Module | Theorems |
|---|---|
| WalletLedgerProofs | `WellTyped`, `NeverOverdrawn`, `LedgerAlwaysMatches`, `ReservedAlwaysExplained`, `HoldsAlwaysCovered` |
| CardTransactionsProofs | `Invariance`, `WellTyped`, `NeverOverdrawn`, `ClearsOnce`, `DecidesOnce`, `CreditsOnce`, `OverrunBounded`; of `SerialSpec`: `LedgerImplemented`, `SerialBalances`, `SerialReserves` |
| FundingTransferProofs | `WellTyped`, `OnePaymentPerKey`, `DeduplicationSafe`, `CreditsSettle`, `LifeImplemented`, `FinishedForGood` |
| IdempotencyProofs | `WellTyped`, `ReplaysFaithful`, `OneEffect`, `NoReservationLeft` |
| CardLifecycleProofs | `WellTyped`, `AtMostOneLiveCard`, `ProcessorKnows`, `CancelledForGood` |
| CardAccessProofs | `ChecksRefineLifecycle`, `CallersTrusted`, `CardsSound` |
| ProvisioningProofs | `WellTyped`, `WalletsFollowRoles`, `LinksMatchRoles` |
| Sums | lemmas only: `SumAdds`, `SumUnique`, `SumRemove`, `SumAdd`, `SumEqual`, ... |

They hold for any sets of wallets, cards, requests and workers and any integer
amounts, under the named assumptions on the constants of each module (functions
with the right domains, positive deposits), which TLC evaluates in every run.

*WalletLedger*: `NoOverdraft` and `LedgerMatchesBalances` are inductive with the types, one
step per action.  `ReservedExplained` is a sum over the authorizations of a wallet, of
which an operation changes one: `ReservedInv` adds that rows are finite in number
(`FiniteRows`), and each case says which authorization joined, left or changed in the
set that is added up.  `HoldsCovered` follows from it: what clearings leave over is not
negative while none exceeds its hold.

*Sums*: `SumFunctionOnSet` is defined by a recursion that takes out one chosen element
after the other.  That it has a solution, that the solution is unique, and that it does not
matter which element is taken are each proved of a least counterexample, which there is
because `<` on Nat and inclusion in a finite set are well-founded.

*CardTransactions*: `NoOverdraft` alone is not inductive, since a commit writes
balances computed from a row that was read earlier.  The invariant adds what every
request knows at its statement: a row it has seen had non-negative balances,
and past the check of `reserve_balance`, `settle_reserve` or `release_reserve` the
balance it will lower is at least the amount it will take.  These facts are about the
request's own copy, so no step of another request disturbs them: this is why
overlapping requests may lose money but not overdraw a wallet.  `ClearsOnce` and
`DecidesOnce` rest on a second one, `KeysUnique`: a row that is inserted and not committed
is inserted by one request only and has no committed twin, because the INSERT waited for
whoever held its key.  `CreditsOnce` rests on a third, `SettlementInv`: the
transfer of a serializable request that is not outdated still waits (`SnapshotCurrent`), because whoever
moved the transfer, or credited it, made the request stale.  So a CREDIT entry uses up the settlement it was read in; that a transfer may be given another
settlement after it is what `funding_credited` shows.

`OverrunBounded` is about the overlap the daily limit is open to.  The check adds up what is committed,
so that every request past its check may add its hold.  `OverrunInv` counts them with
the open holds: leave aside some set smaller than the workers, and the rest, holds and requests
past their check together, fits under the limit.  A request that passes its check restores this
by leaving aside the others in progress, which are fewer than the workers, since it is
one of them (`AskingFits`); every other step takes a hold away or keeps the sum.

*CardTransactions without overlap on a wallet*: `SerialInv` adds `Current`: the wallet row a
request has seen is the committed one, and the authorization it found is still open.  Nobody on
another wallet disturbs this, and with it a commit is an operation of WalletLedger, and every
other step but `Move` is none (`LedgerImplemented`).  The theorems of WalletLedgerProofs are then
taken over by INSTANCE, their assumption discharged: `SerialBalances`, which `ct_ledger` refutes for
requests that overlap, and `SerialReserves`.

*FundingTransfer*: `LockExclusive` (one worker at a time has written a row and not
committed), `SnapshotCurrent` (a serializable transaction that is not outdated still sees
the committed state: every commit that could change it puts the transaction into
`stale`, and none can come between its UPDATE and its commit, because of the lock) and
`JobsKnown` (what is about to be written is never the first state).  A helper lemma sorts the
steps by what they write, so that each invariant has few cases.  `LifeImplemented` maps
the three commits that write a state to the three actions of TransferLife.

`FinishedForGood` is what is left of the comment that `funding_credited` refutes, with every overlap
allowed: a transfer in a terminal state is moved again only by a handler that had read
it before, and is past its check, or by Yapily's callback.  Once none is in progress (`Finished`)
nobody new gets past the check, since nothing may follow a terminal state (`Intends`), the callback
runs for Yapily's transfers only (`CallbackKnown`), and a credit that is still in progress
is outdated or finds no settlement.

*Idempotency*: a completed entry was written by a request that succeeded; as long
as no handler failed and nothing expired, the entry belongs to the only request
that got past it (`OneOwner`).  A failed handler's delete is what breaks exclusion,
and `OneEffect` states precisely that.

*CardLifecycle*: `TokensUnique` says that no two cards, committed or being inserted,
share a token; the token is a function of the wallet, so a wallet has one card.  This holds for
*any* such function, and with it the theorem states what the code relies on: a
processor that drew a fresh token for every call would break it.  `ToldByThen` carries
what the processor was told from the call to the commit.  `CancelledForGood` bounds what
`card_cancel` shows, with every overlap allowed: a cancelled card is changed by requests that had
read it before only, and once they are over nothing changes its row, its events or what the
processor was told of its token.  New cards of the wallet get the same token, so that this
also needs that whoever orders one tells the processor what it was told when the first
was issued (`IssuedFirst`).

*CardAccess*: every step of the routes is a step of CardLifecycle or none
(`Simulates`), so its invariant and theorems hold here; on top, what a request learned from
a check stays true or is marked as ended (`KnownStep`).

*Provisioning*: one request at a time holds a user's row (`Exclusive`), and whoever
holds it without adopting a role inserted it or chose to be a sponsor (`Fresh`), so that a
commit never takes a role away that a link relies on; when only the commit is left, the
handler has committed the wallet or failed (`ServedFirst`).

The hypothesis `Separate` is not true of the code.  The theorems of `SerialSpec` say what a lock
taken by the first SELECT would give; all others are about `Spec`, every overlap included.

Every invariant and every action property or refinement that a passing run checks is a
theorem.  Only model-checked: liveness (`EveryRequestEnds`, `AuthorizationEnds`), which needs
fairness and ENABLED.

## 5. Not modelled

Bank connections.  Linking, listing and revoking a connection write one row each, and
its status is read only by the list and by a second revocation: `initiate_payment`
takes the provider id of whatever connection it is given, EXPIRED is never written,
the aggregator's revocation is best effort, and no key keeps a repeated
callback from storing a second row for one consent.  A model would repeat these
assignments; nothing is promised that an interleaving could break.

KYC submissions: rows that are inserted and never read; only the status they lead to
is modelled, each change as one step.  `submit_kyc` says it marks the user SUBMITTED;
the ORM writes nothing when that is the status it read, so a report that
overlaps may win.  No document says which should.

Disputes (insert-only), merchant and category lists (they may refuse any request),
the order of `card_events`, midnight and changes of the daily limit, FX and 32-bit amounts, signatures and
replay windows, token caches, the connection pool.  `get_db` commits before the answer is
sent here; from FastAPI 0.118 on, which `pyproject.toml` admits, a dependency with
`yield` ends after the answer, so that a client or the idempotency cache may see a
success that is rolled back later.

Three comments the code does not follow, without a run of their own because no
interleaving is needed to see it: `complete_funding` (`app/modules/wallet/routes.py:326`)
says it advances a transfer to AWAITING_SETTLEMENT and then credits it, and it only credits one that is there already; a failed
aggregator call "stays in INITIATED" (`openbanking/payments.py:234`), but `get_db` rolls
the transfer back; `activate_card` is the step "from PENDING → ACTIVE", once the card is dispatched
(`card/service.py:109`), but `unfreeze_card` asks only whether ACTIVE may follow the present status
(`card/service.py:195`), and so makes a card that was never dispatched usable.

## 6. Plan

Written, in this order: WalletLedger, CardTransactions; FundingTransfer; Idempotency;
CardLifecycle; Provisioning; CardAccess; TransferLife; the proofs of each.

Next, most important first:

1. The hazards of `PROJECT.json` without a property: the poller's event format, staff setting
   COMPLETED, a payment collected for a transfer that is rolled back.
2. What one lock more would buy: FundingTransfer with `advance_funding_state` at SERIALIZABLE,
   and Yapily's callback behind a check, as SerialSpec says it of wallets.
3. Liveness of the card and provisioning requests on smaller instances.

New runs replace or join existing ones where one instance can answer both questions.
