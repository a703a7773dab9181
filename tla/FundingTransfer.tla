--------------------------- MODULE FundingTransfer ---------------------------
(***************************************************************************)
(* A funding transfer from initiation to its terminal state, as HTTP       *)
(* requests, Celery tasks and beat jobs move it: initiate_payment, the     *)
(* payment webhooks and process_payment_webhook, Yapily's payment          *)
(* callback, cancellation, expiry, the poller, and the operations staff    *)
(* have for setting a state or completing a transfer.                      *)
(*                                                                         *)
(* A worker runs one database transaction at a time (the callback two), at *)
(* READ COMMITTED except for credit_from_funding.  A transaction reads the *)
(* state, decides, waits for the row lock to write what it decided, and    *)
(* commits; nobody looks at the state again in between.                    *)
(*                                                                         *)
(* The wallet that is credited is CardTransactions' concern; here a        *)
(* transfer just counts its CREDIT entries.  A transfer stands for its     *)
(* (sponsor_id, idempotency_key); FX, screening and bank connections are   *)
(* left out.  INITIATED never appears: the transaction that inserts a      *)
(* transfer also moves it to AWAITING_AUTHORIZATION, or is rolled back.    *)
(***************************************************************************)
EXTENDS Naturals

CONSTANTS
  Workers, Transfers, None,
  Channels,    \* how transfers may be paid in this deployment
  MaxCredits   \* bound: a transfer with so many CREDIT entries gets no more

\* TrueLayer and Yapily are both OPEN_BANKING, whichever the settings name;
\* the stub stands for ACH and mobile money, which call no aggregator.
OpenBanking == {"truelayer", "yapily"}

Events      == {"pending", "executed", "failed"}
States      == {"none", "awaiting_authorization", "authorizing",
                "awaiting_settlement", "completed", "failed", "expired", "cancelled"}
Terminal    == {"completed", "failed", "expired", "cancelled"}

ASSUME FundingAssumption ==
  /\ Channels \in SUBSET (OpenBanking \cup {"card", "stub"})
  /\ MaxCredits \in Nat
  /\ None \notin States \cup Events

\* Mutant: staff may send an authorization back to its start.
AllowedRetry(s) ==
  CASE s = "awaiting_authorization" -> {"authorizing", "expired", "cancelled"}
    [] s = "authorizing"            -> {"awaiting_settlement", "failed",
                                        "awaiting_authorization"}
    [] s = "awaiting_settlement"    -> {"completed", "failed"}
    [] OTHER                        -> {}

\* The state machine that advance_funding_state consults.
Allowed(s) ==
  CASE s = "awaiting_authorization" -> {"authorizing", "expired", "cancelled"}
    [] s = "authorizing"            -> {"awaiting_settlement", "failed"}
    [] s = "awaiting_settlement"    -> {"completed", "failed"}
    [] OTHER                        -> {}

VARIABLES
  channel,   \* payment_method of each transfer, with its aggregator
  state,     \* committed payment_state, "none" before there is a row
  status,    \* committed bank_status of its open banking payment, or None
  credits,   \* committed CREDIT entries of each transfer
  orders,    \* transfers the aggregator was asked to collect
  bank,      \* what became of them at the bank
  queue,     \* payment events in the Celery queue
  pc,        \* per worker, the statement it runs next
  job,       \* per worker: transfer, state to write, event, statement after
             \* the commit of that state
  stale      \* serializable transactions whose transfer changed under them

vars == <<channel, state, status, credits, orders, bank, queue, pc, job, stale>>
rows == <<state, status, credits>>

-----------------------------------------------------------------------------
(* Workers                                                                 *)

Job(t, s, e) == [transfer |-> t, to |-> s, event |-> e, after |-> "idle"]
NoJob        == Job(None, None, None)

Steps == {"insert", "call", "initiated",
          "touch", "apply", "noted", "update", "advanced",
          "execute", "credit_read", "credit", "credited"}

Of(p)     == job[p].transfer
IsTask(p) == job[p].event # None

\* The row locks a worker holds until it commits.
TransferLocked(p) ==
  \E q \in Workers \ {p} : pc[q] \in {"advanced", "credited"} /\ Of(q) = Of(p)

HasTouched(p) == /\ IsTask(p) /\ channel[Of(p)] \in OpenBanking
                 /\ pc[p] \in {"apply", "noted", "update", "advanced"}

RecordLocked(p) == \E q \in Workers \ {p} : HasTouched(q) /\ Of(q) = Of(p)

\* (sponsor_id, idempotency_key) is unique, and held until the insert commits.
KeyHeld(p) ==
  \E q \in Workers \ {p} : pc[q] \in {"call", "initiated"} /\ Of(q) = Of(p)

Start(p, j, s) ==
  /\ pc[p] = "idle"
  /\ pc'  = [pc EXCEPT ![p] = s]
  /\ job' = [job EXCEPT ![p] = j]
  /\ UNCHANGED <<channel, rows, orders, bank, stale>>

Goto(p, s) == pc' = [pc EXCEPT ![p] = s]

Proceed(p, s) ==
  Goto(p, s) /\ UNCHANGED <<channel, rows, orders, bank, queue, job, stale>>

End(p) ==
  /\ pc'  = [pc EXCEPT ![p] = "idle"]
  /\ job' = [job EXCEPT ![p] = NoJob]

\* The transaction is rolled back, or had nothing to write.
Abort(p) ==
  /\ End(p)
  /\ stale' = stale \ {p}
  /\ UNCHANGED <<channel, rows, orders, bank>>

\* p's commit changes the transfer row: serializable transactions that have
\* their snapshot of it already can no longer write it.
Outdate(p) ==
  stale' = (stale \ {p}) \cup
             {q \in Workers \ {p} : pc[q] = "credit" /\ Of(q) = Of(p)}

Init ==
  /\ channel \in [Transfers -> Channels]
  /\ state   = [t \in Transfers |-> "none"]
  /\ status  = [t \in Transfers |-> None]
  /\ credits = [t \in Transfers |-> 0]
  /\ orders  = {}
  /\ bank    = [t \in Transfers |-> "open"]
  /\ queue   = {}
  /\ pc      = [p \in Workers |-> "idle"]
  /\ job     = [p \in Workers |-> NoJob]
  /\ stale   = {}

-----------------------------------------------------------------------------
(* Initiation, one transaction                                             *)

\* The first lookup by key finds no transfer; one that it finds is returned.
InitiateFunding(p, t) ==
  /\ state[t] = "none"
  /\ Start(p, Job(t, None, None), "insert")
  /\ UNCHANGED queue

\* Mutant: two requests may insert the same key.
InsertTransferAgain(p) ==
  /\ pc[p] = "insert"
  /\ state[Of(p)] = "none"
  /\ Proceed(p, "call")

\* The insert waits for a concurrent one with the same key.  When that one
\* committed, this one rolls back and returns the winner's transfer.
InsertTransfer(p) ==
  /\ pc[p] = "insert"
  /\ ~KeyHeld(p)
  /\ \/ state[Of(p)] = "none" /\ Proceed(p, "call")
     \/ state[Of(p)] # "none" /\ Abort(p) /\ UNCHANGED queue

\* The aggregator creates the payment; the stub gives out an instruction and
\* calls nobody.  Retries carry the transfer's key: they order nothing new.
Ordered(t) == IF channel[t] = "stub" THEN orders ELSE orders \cup {t}

\* All of this happens before anything is committed here.
CallAggregator(p) ==
  /\ pc[p] = "call"
  /\ orders' = Ordered(Of(p))
  /\ Goto(p, "initiated")
  /\ UNCHANGED <<channel, rows, bank, queue, job, stale>>

\* Mutant: commits a state the table does not have.
CommitStarted(p) ==
  /\ pc[p] = "initiated"
  /\ state' = [state EXCEPT ![Of(p)] = "started"]
  /\ End(p)
  /\ UNCHANGED <<channel, status, credits, orders, bank, queue, stale>>

CommitInitiated(p) ==
  /\ pc[p] = "initiated"
  /\ state' = [state EXCEPT ![Of(p)] = "awaiting_authorization"]
  /\ End(p)
  /\ UNCHANGED <<channel, status, credits, orders, bank, queue, stale>>

-----------------------------------------------------------------------------
(* advance_funding_state                                                   *)

\* Reads the committed state and checks that s may follow it.
Advance(p, t, s) ==
  /\ s \in Allowed(state[t])
  /\ Start(p, Job(t, s, None), "update")
  /\ UNCHANGED queue

\* Mutant: expiry asks for a state that may not follow.
ExpireAsFailed(p, t) == Advance(p, t, "failed")

CancelFunding(p, t)      == Advance(p, t, "cancelled")
ExpireStale(p, t)        == Advance(p, t, "expired")
UpdateFundingState(p, t) == \E s \in States : Advance(p, t, s)

\* UPDATE of payment_state, once the row lock is free.
UpdateTransfer(p) ==
  /\ pc[p] = "update"
  /\ ~TransferLocked(p)
  /\ Proceed(p, "advanced")

\* A task that touched the open banking payment commits its status as well.
CommitStatus(p) ==
  status' = IF HasTouched(p) THEN [status EXCEPT ![Of(p)] = job[p].event] ELSE status

CommitAdvanced(p) ==
  /\ pc[p] = "advanced"
  /\ state' = IF job[p].to = None THEN state ELSE [state EXCEPT ![Of(p)] = job[p].to]
  /\ CommitStatus(p)
  /\ Outdate(p)
  /\ \/ job[p].after = "idle" /\ End(p)
     \/ /\ job[p].after # "idle"
        /\ Goto(p, job[p].after)
        /\ job' = [job EXCEPT ![p] = Job(Of(p), None, None)]
  /\ UNCHANGED <<channel, credits, orders, bank, queue>>

-----------------------------------------------------------------------------
(* process_payment_webhook                                                 *)

\* Nothing is known of the payment yet, or the status of its open banking
\* payment is the event's already: the task is done.
Ignored(t, e) == state[t] = "none" \/ status[t] = e

IgnoreWebhook(p, t, e) ==
  /\ pc[p] = "idle"
  /\ <<t, e>> \in queue
  /\ Ignored(t, e)
  /\ queue' = queue \ {<<t, e>>}
  /\ UNCHANGED <<channel, rows, orders, bank, pc, job, stale>>

ProcessWebhook(p, t, e) ==
  /\ <<t, e>> \in queue
  /\ ~Ignored(t, e)
  /\ queue' = queue \ {<<t, e>>}
  /\ Start(p, Job(t, None, e), IF channel[t] \in OpenBanking THEN "touch" ELSE "apply")

\* Mutant: the status is committed before the transfer is looked at.
TouchAndCommit(p) ==
  /\ pc[p] = "touch"
  /\ status' = [status EXCEPT ![Of(p)] = job[p].event]
  /\ Goto(p, "apply")
  /\ UNCHANGED <<channel, state, credits, orders, bank, queue, job, stale>>

\* UPDATE of bank_status and webhook_received_at.
TouchRecord(p) ==
  /\ pc[p] = "touch"
  /\ ~RecordLocked(p)
  /\ Proceed(p, "apply")

\* Reads the transfer and acts on the event.  For a payment that executed,
\* credit_from_funding refuses to start in a session that already ran
\* statements, so everything the task did is rolled back; for one that
\* failed, naming a state that does not exist raises in every state.
Live(t) == state[t] \in {"awaiting_authorization", "authorizing", "awaiting_settlement"}

ApplyEvent(p) ==
  LET t == Of(p)
      e == job[p].event
  IN /\ pc[p] = "apply"
     /\ \/ /\ e = "failed" \/ (e = "executed" /\ Live(t))
           /\ Abort(p)
        \/ /\ e = "pending" /\ state[t] = "awaiting_authorization"
           /\ Goto(p, "update")
           /\ job' = [job EXCEPT ![p].to = "authorizing"]
           /\ UNCHANGED <<channel, rows, orders, bank, stale>>
        \/ /\ \/ e = "pending"  /\ state[t] # "awaiting_authorization"
              \/ e = "executed" /\ ~Live(t)
           /\ Goto(p, "noted")
           /\ UNCHANGED <<channel, rows, orders, bank, job, stale>>
     /\ UNCHANGED queue

NoteEvent(p) ==
  /\ pc[p] = "noted"
  /\ CommitStatus(p)
  /\ End(p)
  /\ UNCHANGED <<channel, state, credits, orders, bank, queue, stale>>

-----------------------------------------------------------------------------
(* credit_from_funding, in a session of its own                            *)

CompleteFunding(p, t) ==
  /\ state[t] # "none"
  /\ Start(p, Job(t, None, None), "credit_read")
  /\ UNCHANGED queue

\* Mutant: whatever was not completed yet may be credited.
ReadForCreditLoosely(p) ==
  /\ pc[p] = "credit_read"
  /\ IF state[Of(p)] # "completed" /\ credits[Of(p)] < MaxCredits
       THEN Proceed(p, "credit")
       ELSE Abort(p) /\ UNCHANGED queue

\* Takes the snapshot and checks the state in it.
ReadForCredit(p) ==
  /\ pc[p] = "credit_read"
  /\ IF state[Of(p)] = "awaiting_settlement" /\ credits[Of(p)] < MaxCredits
       THEN Proceed(p, "credit")
       ELSE Abort(p) /\ UNCHANGED queue

\* Mutant: READ COMMITTED.
CreditReadCommitted(p) ==
  pc[p] = "credit" /\ ~TransferLocked(p) /\ Proceed(p, "credited")

\* UPDATE of wallet and transfer: at SERIALIZABLE it fails when either
\* changed since the snapshot.
CreditWallet(p) ==
  /\ pc[p] = "credit"
  /\ ~TransferLocked(p)
  /\ IF p \in stale THEN Abort(p) /\ UNCHANGED queue ELSE Proceed(p, "credited")

CommitCredited(p) ==
  /\ pc[p] = "credited"
  /\ state'   = [state EXCEPT ![Of(p)] = "completed"]
  /\ credits' = [credits EXCEPT ![Of(p)] = @ + 1]
  /\ Outdate(p)
  /\ End(p)
  /\ UNCHANGED <<channel, status, orders, bank, queue>>

-----------------------------------------------------------------------------
(* yapily_payment_callback                                                 *)

\* The bank sends the sponsor's browser back; the transfer may be in any
\* state by then.  The ORM writes the state only if it differs from this one.
YapilyCallback(p, t) ==
  /\ channel[t] = "yapily" /\ t \in orders
  /\ state[t] # "none"
  /\ Start(p, Job(t, IF state[t] = "awaiting_settlement" THEN None
                                                         ELSE "awaiting_settlement", None),
           "execute")
  /\ UNCHANGED queue

\* Yapily executes a payment once (paymentIdempotencyId); asked again, it
\* repeats its answer or refuses, and the callback gives up when it refuses.
\* Otherwise the state is written without a look at it, and the wallet credited
\* in a second transaction.
ExecutePayment(p) ==
  /\ pc[p] = "execute"
  /\ \/ Abort(p) /\ UNCHANGED queue
     \/ /\ bank' = [bank EXCEPT ![Of(p)] = IF @ = "open" THEN "pending" ELSE @]
        /\ Goto(p, "update")
        /\ job'  = [job EXCEPT ![p].after = "credit_read"]
        /\ UNCHANGED <<channel, rows, orders, queue, stale>>

-----------------------------------------------------------------------------
(* Aggregator, broker, scheduler, failures                                 *)

\* The bank makes up its mind.
BankDecides(t) ==
  /\ t \in orders
  /\ \/ bank[t] = "open" /\ channel[t] # "yapily" /\ bank' = [bank EXCEPT ![t] = "pending"]
     \/ bank[t] = "pending" /\ \E b \in {"executed", "failed"} : bank' = [bank EXCEPT ![t] = b]
  /\ UNCHANGED <<channel, rows, orders, queue, pc, job, stale>>

\* A webhook is logged and queued: any event that happened, any number of
\* times, in any order, and even before initiate_payment committed.  Yapily's
\* events about the consent come before the payment and count as pending.
Happened(t) ==
  IF bank[t] # "open" THEN {"pending", bank[t]}
  ELSE IF channel[t] = "yapily" THEN {"pending"} ELSE {}

Enqueue(t, e) ==
  /\ queue' = queue \cup {<<t, e>>}
  /\ UNCHANGED <<channel, rows, orders, bank, pc, job, stale>>

ReceiveOpenBankingWebhook(t, e) ==
  /\ channel[t] \in OpenBanking
  /\ t \in orders /\ e \in Happened(t)
  /\ Enqueue(t, e)

ReceiveStripeWebhook(t, e) ==
  /\ channel[t] = "card"
  /\ t \in orders /\ e \in Happened(t)
  /\ Enqueue(t, e)

ReceiveWebhook(t, e) == ReceiveOpenBankingWebhook(t, e) \/ ReceiveStripeWebhook(t, e)

\* Open banking transfers that wait for settlement and have seen no webhook.
PendingSettlement ==
  {t \in Transfers : /\ state[t] = "awaiting_settlement"
                     /\ channel[t] \in OpenBanking
                     /\ status[t] = None}

\* What the aggregator answers when it is asked.
CheckedStatus(t) == IF bank[t] = "open" THEN "pending" ELSE bank[t]

\* The poller asks about them and queues the answer as an event, in TrueLayer's
\* format: the Yapily client finds no payment in it and the task drops it.
Poll(t) ==
  /\ t \in PendingSettlement \cap orders
  /\ channel[t] = "truelayer"
  /\ Enqueue(t, CheckedStatus(t))

\* An exception: rolled back, and a task that raised is not run again.
Fail(p) == pc[p] # "idle" /\ Abort(p) /\ UNCHANGED queue

\* The process dies: the broker delivers a task that was not acknowledged
\* again (acks_late, reject_on_worker_lost).
Crash(p) ==
  /\ pc[p] # "idle"
  /\ Abort(p)
  /\ queue' = IF IsTask(p) THEN queue \cup {<<Of(p), job[p].event>>} ELSE queue

Step(p) ==
  \/ InsertTransfer(p) \/ CallAggregator(p) \/ CommitInitiated(p)
  \/ UpdateTransfer(p) \/ CommitAdvanced(p)
  \/ TouchRecord(p) \/ ApplyEvent(p) \/ NoteEvent(p)
  \/ ReadForCredit(p) \/ CreditWallet(p) \/ CommitCredited(p)
  \/ ExecutePayment(p)

Request(p) ==
  \E t \in Transfers :
    \/ InitiateFunding(p, t) \/ CancelFunding(p, t) \/ UpdateFundingState(p, t)
    \/ CompleteFunding(p, t) \/ YapilyCallback(p, t)

Task(p, t, e) == IgnoreWebhook(p, t, e) \/ ProcessWebhook(p, t, e)

Next ==
  \/ \E p \in Workers : Request(p) \/ Step(p) \/ Fail(p) \/ Crash(p)
  \/ \E p \in Workers, t \in Transfers : ExpireStale(p, t)
  \/ \E p \in Workers, t \in Transfers, e \in Events : Task(p, t, e)
  \/ \E t \in Transfers : BankDecides(t) \/ Poll(t)
  \/ \E t \in Transfers, e \in Events :
       ReceiveOpenBankingWebhook(t, e) \/ ReceiveStripeWebhook(t, e)

\* Statements run and lock queues are fair (PostgreSQL serves waiters in
\* order), and beat starts the expiry every minute: a transfer's job repeated
\* for ever is not interrupted at the same statement every time.
Fairness ==
  /\ \A p \in Workers : SF_vars(Step(p))
  /\ \A t \in Transfers :
       /\ SF_vars(\E p \in Workers : ExpireStale(p, t))
       /\ SF_vars(\E p \in Workers : Of(p) = t /\ UpdateTransfer(p))
       /\ SF_vars(\E p \in Workers : Of(p) = t /\ CommitAdvanced(p))

Spec == Init /\ [][Next]_vars /\ Fairness

\* The same with an aggregator that delivers the outcome, a poller that keeps
\* running, and consumers that take what is queued and are not interrupted
\* at the same statement every time.
ServedSpec ==
  /\ Spec
  /\ \A t \in Transfers : WF_vars(Poll(t)) /\ WF_vars(ReceiveWebhook(t, bank[t]))
  /\ \A t \in Transfers, e \in Events : SF_vars(\E p \in Workers : Task(p, t, e))
  /\ \A p \in Workers : SF_vars(TouchRecord(p)) /\ SF_vars(ApplyEvent(p))

-----------------------------------------------------------------------------
(* Properties                                                              *)

Life == INSTANCE TransferLife

Jobs == [transfer : Transfers \cup {None}, to : States \cup {None},
         event : Events \cup {None}, after : {"idle", "credit_read"}]

TypeOK ==
  /\ channel \in [Transfers -> Channels]
  /\ state   \in [Transfers -> States]
  /\ status  \in [Transfers -> Events \cup {None}]
  /\ credits \in [Transfers -> 0 .. MaxCredits]
  /\ orders  \in SUBSET Transfers
  /\ bank    \in [Transfers -> {"open"} \cup Events]
  /\ queue   \in SUBSET (Transfers \X Events)
  /\ pc      \in [Workers -> Steps \cup {"idle"}]
  /\ job     \in [Workers -> Jobs]
  /\ stale   \in SUBSET Workers

\* A CREDIT entry is written only for a transfer that still waits for its
\* settlement when the entry commits, and completes it: whatever else moved
\* the transfer in the meantime makes the SERIALIZABLE update fail.
CreditedInSettlement ==
  [][\A t \in Transfers : credits'[t] # credits[t] =>
       state[t] = "awaiting_settlement" /\ state'[t] = "completed"]_vars

\* Whatever overlaps, is repeated or dies, the transfers do no more than
\* TransferLife promises: nobody who checked a state too early brings one
\* back to the wait for its authorization, or credits it at any other moment.
ImplementsLife == Life!Spec

\* A transfer in a terminal state that no handler in progress is moving.  One
\* that credits it may be in progress; Yapily's callback, which looks at no
\* state, has to be out of the question.
Finished(t) ==
  /\ state[t] \in Terminal
  /\ channel[t] # "yapily"
  /\ \A p \in Workers : pc[p] \in {"update", "advanced"} => Of(p) # t

\* Once the handlers that overlapped its end are over, a transfer is: no request,
\* event, credit, job or crash, early, late or repeated, moves it or credits it.
FinishedStays ==
  [][\A t \in Transfers : Finished(t) =>
       Finished(t)' /\ state'[t] = state[t] /\ credits'[t] = credits[t]]_vars

\* While a request asks the aggregator to collect a transfer, nobody else
\* does, and no committed transfer with that key exists: concurrent and
\* repeated initiations of one Idempotency-Key lead to one payment.
InitiatedAlone ==
  \A p \in Workers : pc[p] \in {"call", "initiated"} =>
    /\ state[Of(p)] = "none"
    /\ \A q \in Workers \ {p} : pc[q] \in {"call", "initiated"} => Of(q) # Of(p)

\* A status is remembered for deduplication only together with its effect: a
\* pending event that counts as processed has left AWAITING_AUTHORIZATION
\* behind, so a task that died midway is not taken for a duplicate later.
RememberedWhenApplied ==
  \A t \in Transfers : status[t] = "pending" => state[t] # "awaiting_authorization"

\* No transfer waits for the sponsor's authorization for ever: the expiry job
\* ends the wait if nothing else does.
AuthorizationEnds ==
  \A t \in Transfers :
    state[t] = "awaiting_authorization" ~> state[t] # "awaiting_authorization"

(* What the repository states and the code does not do                     *)

\* credit_from_funding "uses SERIALIZABLE isolation to prevent double-crediting".
CreditedOnce == \A t \in Transfers : credits[t] <= 1

\* process_payment_webhook, "On payment_executed: Advance transfer ...
\* Credit wallet -> COMPLETED", with the poller as "safety net".
ExecutedCompletes ==
  \A t \in Transfers :
    bank[t] = "executed" /\ state[t] = "awaiting_settlement" ~> state[t] \in Terminal
=============================================================================
