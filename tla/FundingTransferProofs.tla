------------------------- MODULE FundingTransferProofs -------------------------
(* Theorems about FundingTransfer, for any numbers of workers and transfers,    *)
(* any channels and any bound on the credits.                                   *)
EXTENDS FundingTransfer, TLAPS

\* What a worker works on is committed, unless it initiates it; what it is
\* about to write never takes a transfer back to its first state.
JobsKnown ==
  \A p \in Workers :
    /\ pc[p] # "idle" => Of(p) \in Transfers
    /\ pc[p] \notin {"idle", "insert", "call", "initiated"} => state[Of(p)] # "none"
    /\ job[p].to \notin {"none", "awaiting_authorization"}
    /\ pc[p] \in {"update", "advanced"} /\ IsTask(p) => job[p].to = "authorizing"
    /\ pc[p] = "execute" => ~IsTask(p)
    /\ pc[p] = "noted" /\ job[p].event = "pending" =>
         state[Of(p)] # "awaiting_authorization"

\* One worker at a time has written a transfer row and not committed it.
LockExclusive ==
  \A p, q \in Workers :
    p # q /\ pc[p] \in {"advanced", "credited"} /\ pc[q] \in {"advanced", "credited"} =>
      Of(p) # Of(q)

\* A serializable transaction that is not outdated sees the committed state.
SnapshotCurrent ==
  \A p \in Workers :
    /\ pc[p] \in {"credit", "credited"} /\ p \notin stale =>
         state[Of(p)] = "awaiting_settlement" /\ credits[Of(p)] < MaxCredits
    /\ pc[p] = "credited" => p \notin stale

\* Nothing is remembered of a payment before its transfer is committed.
StatusKnown == \A t \in Transfers : state[t] = "none" => status[t] = None

Inv == /\ TypeOK /\ JobsKnown /\ LockExclusive /\ InitiatedAlone
       /\ SnapshotCurrent /\ StatusKnown /\ RememberedWhenApplied

LEMMA NoneApart == None \notin States \cup Events
  BY FundingAssumption

\* What a step of the environment leaves alone.
Idle == UNCHANGED <<channel, rows, pc, job, stale>>

\* What a worker's step may do, by its last statement.
Starts(p) ==
  \E t \in Transfers :
    \/ InitiateFunding(p, t) \/ CompleteFunding(p, t) \/ YapilyCallback(p, t)
    \/ \E s \in States : Advance(p, t, s)
    \/ \E e \in Events : ProcessWebhook(p, t, e)

\* The next-state relation, sorted by what the steps write.
LEMMA Kinds ==
  ASSUME [Next]_vars
  PROVE  \/ Idle
         \/ \E p \in Workers : Starts(p) \/ Step(p) \/ (pc[p] # "idle" /\ Abort(p))
<1>1. ASSUME NEW p \in Workers, Request(p) PROVE Starts(p)
  BY <1>1 DEF Request, Starts, CancelFunding, UpdateFundingState, States
<1>2. ASSUME NEW p \in Workers, NEW t \in Transfers, ExpireStale(p, t) PROVE Starts(p)
  BY <1>2 DEF ExpireStale, Starts, States
<1>3. ASSUME NEW p \in Workers, NEW t \in Transfers, NEW e \in Events, Task(p, t, e)
      PROVE Idle \/ Starts(p)
  BY <1>3 DEF Task, Starts, IgnoreWebhook, Idle, rows
<1>4. ASSUME NEW p \in Workers, Fail(p) \/ Crash(p) PROVE pc[p] # "idle" /\ Abort(p)
  BY <1>4 DEF Fail, Crash
<1>5. ASSUME NEW t \in Transfers, BankDecides(t) \/ Poll(t) PROVE Idle
  BY <1>5 DEF BankDecides, Poll, Enqueue, Idle, rows
<1>6. ASSUME NEW t \in Transfers, NEW e \in Events,
             ReceiveOpenBankingWebhook(t, e) \/ ReceiveStripeWebhook(t, e)
      PROVE Idle
  BY <1>6 DEF ReceiveOpenBankingWebhook, ReceiveStripeWebhook, Enqueue, Idle, rows
<1>7. CASE UNCHANGED vars
  BY <1>7 DEF vars, Idle, rows
<1> QED
  BY <1>1, <1>2, <1>3, <1>4, <1>5, <1>6, <1>7 DEF Next

\* How a worker begins.
Begins(p) ==
  \E j \in Jobs, s \in {"insert", "update", "touch", "apply", "credit_read", "execute"} :
    /\ pc' = [pc EXCEPT ![p] = s] /\ job' = [job EXCEPT ![p] = j]
    /\ j.transfer \in Transfers /\ j.to \notin {"none", "awaiting_authorization"}
    /\ s # "insert" => state[j.transfer] # "none"
    /\ s \in {"update", "execute"} => j.event = None

LEMMA BeginsWith ==
  ASSUME NEW p \in Workers, NEW t \in Transfers,
         NEW x \in (States \ {"none", "awaiting_authorization"}) \cup {None},
         NEW e \in Events \cup {None},
         NEW s \in {"insert", "update", "touch", "apply", "credit_read", "execute"},
         Start(p, Job(t, x, e), s), s # "insert" => state[t] # "none", s \in {"update", "execute"} => e = None
  PROVE  UNCHANGED <<channel, rows, stale>> /\ pc[p] = "idle" /\ Begins(p)
<1>1. Job(t, x, e) \in Jobs
  BY DEF Job, Jobs
<1>2. Job(t, x, e).transfer = t /\ Job(t, x, e).to = x /\ Job(t, x, e).event = e
  BY DEF Job
<1>3. x \notin {"none", "awaiting_authorization"}
  BY NoneApart DEF States
<1>4. pc' = [pc EXCEPT ![p] = s] /\ job' = [job EXCEPT ![p] = Job(t, x, e)]
  BY DEF Start
<1>5. Begins(p)
  BY <1>1, <1>2, <1>3, <1>4 DEF Begins
<1> QED
  BY <1>5 DEF Start, rows

LEMMA Begun ==
  ASSUME Inv, NEW p \in Workers, Starts(p)
  PROVE  UNCHANGED <<channel, rows, stale>> /\ pc[p] = "idle" /\ Begins(p)
<1> DEFINE Goal == UNCHANGED <<channel, rows, stale>> /\ pc[p] = "idle" /\ Begins(p)
<1>1. ASSUME NEW t \in Transfers, InitiateFunding(p, t) \/ CompleteFunding(p, t) PROVE Goal
  BY <1>1, BeginsWith DEF InitiateFunding, CompleteFunding
<1>2. ASSUME NEW t \in Transfers, YapilyCallback(p, t) PROVE Goal
  <2>1. PICK s \in {None, "awaiting_settlement"} : Start(p, Job(t, s, None), "execute")
    BY <1>2 DEF YapilyCallback
  <2>2. s \in (States \ {"none", "awaiting_authorization"}) \cup {None}
    BY DEF States
  <2>3. state[t] # "none"
    BY <1>2 DEF YapilyCallback
  <2> QED
    BY <2>1, <2>2, <2>3, BeginsWith
<1>3. ASSUME NEW t \in Transfers, NEW s \in States, Advance(p, t, s) PROVE Goal
  <2>1. state[t] # "none" /\ s \notin {"none", "awaiting_authorization"}
    BY <1>3 DEF Advance, Allowed, Inv, TypeOK, States
  <2> QED
    BY <1>3, <2>1, BeginsWith DEF Advance
<1>4. ASSUME NEW t \in Transfers, NEW e \in Events, ProcessWebhook(p, t, e) PROVE Goal
  <2>1. PICK s \in {"touch", "apply"} : Start(p, Job(t, None, e), s)
    BY <1>4 DEF ProcessWebhook
  <2>2. state[t] # "none"
    BY <1>4 DEF ProcessWebhook, Ignored
  <2> QED
    BY <2>1, <2>2, BeginsWith
<1> QED
  BY <1>1, <1>2, <1>3, <1>4 DEF Starts

\* Every step keeps the types.
LEMMA TypeOKStep == Inv /\ [Next]_vars => TypeOK'
<1> SUFFICES ASSUME Inv, [Next]_vars PROVE TypeOK'
  OBVIOUS
<1> DEFINE Ours == /\ channel' \in [Transfers -> Channels] /\ state' \in [Transfers -> States]
                   /\ status' \in [Transfers -> Events \cup {None}]
                   /\ credits' \in [Transfers -> 0 .. MaxCredits]
                   /\ pc' \in [Workers -> Steps \cup {"idle"}]
                   /\ job' \in [Workers -> Jobs] /\ stale' \in SUBSET Workers
           Theirs == /\ orders' \in SUBSET Transfers
                     /\ bank' \in [Transfers -> {"open"} \cup Events]
                     /\ queue' \in SUBSET (Transfers \X Events)
<1>n. NoJob \in Jobs /\ \A t \in Transfers : Job(t, None, None) \in Jobs
  BY DEF NoJob, Job, Jobs
<1>1. Ours
  <2> USE DEF Inv, TypeOK, Goto, End, Steps, rows
  <2>1. CASE Idle
    BY <2>1 DEF Idle
  <2>2. ASSUME NEW p \in Workers, Starts(p) PROVE Ours
    BY <2>2, Begun DEF Begins
  <2>3. ASSUME NEW p \in Workers, Abort(p) PROVE Ours
    BY <1>n, <2>3 DEF Abort
  <2>4. ASSUME NEW p \in Workers,
               InsertTransfer(p) \/ CallAggregator(p) \/ UpdateTransfer(p) \/ TouchRecord(p)
               \/ ReadForCredit(p) \/ CreditWallet(p)
        PROVE Ours
    BY <2>3, <2>4 DEF InsertTransfer, CallAggregator, UpdateTransfer, TouchRecord,
       ReadForCredit, CreditWallet, Proceed
  <2>5. ASSUME NEW p \in Workers, CommitInitiated(p) PROVE Ours
    BY <1>n, <2>5 DEF CommitInitiated, States
  <2>6. ASSUME NEW p \in Workers, CommitAdvanced(p) PROVE Ours
    <3>1. Of(p) \in Transfers /\ job[p] \in Jobs
      BY <2>6 DEF CommitAdvanced, JobsKnown
    <3>2. state' \in [Transfers -> States]
      BY <2>6, <3>1 DEF CommitAdvanced, Jobs
    <3>3. status' \in [Transfers -> Events \cup {None}]
      BY <2>6, <3>1 DEF CommitAdvanced, CommitStatus, Jobs
    <3>4. stale' \in SUBSET Workers
      BY <2>6 DEF CommitAdvanced, Outdate
    <3>5. pc' \in [Workers -> Steps \cup {"idle"}] /\ job' \in [Workers -> Jobs]
      <4>1. CASE End(p)
        BY <1>n, <4>1
      <4>2. CASE /\ job[p].after # "idle" /\ Goto(p, job[p].after)
                 /\ job' = [job EXCEPT ![p] = Job(Of(p), None, None)]
        <5>1. job[p].after = "credit_read"
          BY <3>1, <4>2 DEF Jobs
        <5> QED
          BY <1>n, <3>1, <4>2, <5>1
      <4> QED
        BY <2>6, <4>1, <4>2 DEF CommitAdvanced
    <3> QED
      BY <2>6, <3>2, <3>3, <3>4, <3>5 DEF CommitAdvanced
  <2>7. ASSUME NEW p \in Workers, ApplyEvent(p) PROVE Ours
    <3>1. \A j \in Jobs : [j EXCEPT !.to = "authorizing"] \in Jobs
      BY DEF Jobs, States
    <3> QED
      BY <2>3, <2>7, <3>1 DEF ApplyEvent
  <2>8. ASSUME NEW p \in Workers, NoteEvent(p) PROVE Ours
    <3>1. Of(p) \in Transfers /\ job[p] \in Jobs
      BY <2>8 DEF NoteEvent, JobsKnown
    <3>2. status' \in [Transfers -> Events \cup {None}]
      BY <2>8, <3>1 DEF NoteEvent, CommitStatus, Jobs
    <3> QED
      BY <1>n, <2>8, <3>2 DEF NoteEvent
  <2>9. ASSUME NEW p \in Workers, CommitCredited(p) PROVE Ours
    <3>1. Of(p) \in Transfers /\ credits[Of(p)] < MaxCredits
      BY <2>9 DEF CommitCredited, JobsKnown, SnapshotCurrent
    <3>2. credits' \in [Transfers -> 0 .. MaxCredits]
      BY <2>9, <3>1, FundingAssumption DEF CommitCredited
    <3>3. state' \in [Transfers -> States]
      BY <2>9 DEF CommitCredited, States
    <3>4. stale' \in SUBSET Workers
      BY <2>9 DEF CommitCredited, Outdate
    <3> QED
      BY <1>n, <2>9, <3>2, <3>3, <3>4 DEF CommitCredited
  <2>10. ASSUME NEW p \in Workers, ExecutePayment(p) PROVE Ours
    <3>1. \A j \in Jobs : [j EXCEPT !.after = "credit_read"] \in Jobs
      BY DEF Jobs
    <3> QED
      BY <2>3, <2>10, <3>1 DEF ExecutePayment
  <2> QED
    BY <2>1, <2>2, <2>3, <2>4, <2>5, <2>6, <2>7, <2>8, <2>9, <2>10, Kinds DEF Step
<1>2. Theirs
  <2> USE DEF Inv, TypeOK
  <2>0. \A p \in Workers : pc[p] # "idle" => Of(p) \in Transfers /\ job[p].event \in Events \cup {None}
    BY DEF JobsKnown, Jobs
  <2>1. \A t \in Transfers : Happened(t) \in SUBSET Events /\ CheckedStatus(t) \in Events
    BY DEF Happened, CheckedStatus, Events
  <2>2. CASE UNCHANGED <<orders, bank, queue>>
    BY <2>2
  <2>3. ASSUME NEW p \in Workers, Step(p), ~CallAggregator(p), ~ExecutePayment(p)
        PROVE UNCHANGED <<orders, bank, queue>>
    BY <2>3 DEF Step, InsertTransfer, CommitInitiated, UpdateTransfer, CommitAdvanced,
       TouchRecord, ApplyEvent, NoteEvent, ReadForCredit, CreditWallet, CommitCredited,
       Proceed, Abort
  <2>4. ASSUME NEW p \in Workers, CallAggregator(p) PROVE Theirs
    BY <2>0, <2>4 DEF CallAggregator, Ordered
  <2>5. ASSUME NEW p \in Workers, ExecutePayment(p) PROVE Theirs
    BY <2>0, <2>5 DEF ExecutePayment, Abort, Events
  <2>6. ASSUME NEW p \in Workers, Request(p) PROVE UNCHANGED <<orders, bank, queue>>
    BY <2>6 DEF Request, InitiateFunding, CancelFunding, UpdateFundingState, Advance,
       CompleteFunding, YapilyCallback, Start
  <2>7. ASSUME NEW p \in Workers, NEW t \in Transfers, ExpireStale(p, t)
        PROVE UNCHANGED <<orders, bank, queue>>
    BY <2>7 DEF ExpireStale, Advance, Start
  <2>8. ASSUME NEW p \in Workers, NEW t \in Transfers, NEW e \in Events, Task(p, t, e)
        PROVE Theirs
    BY <2>8 DEF Task, IgnoreWebhook, ProcessWebhook, Start
  <2>9. ASSUME NEW p \in Workers, Fail(p) \/ Crash(p) PROVE Theirs
    BY <2>0, <2>9 DEF Fail, Crash, Abort, IsTask
  <2>10. ASSUME NEW t \in Transfers, BankDecides(t) PROVE Theirs
    BY <2>10 DEF BankDecides, Events
  <2>11. ASSUME NEW t \in Transfers, NEW e \in Events, Enqueue(t, e) PROVE Theirs
    BY <2>11 DEF Enqueue
  <2>12. ASSUME NEW t \in Transfers, Poll(t) PROVE Theirs
    BY <2>1, <2>11, <2>12 DEF Poll
  <2> QED
    BY <2>2, <2>3, <2>4, <2>5, <2>6, <2>7, <2>8, <2>9, <2>10, <2>11, <2>12
       DEF Next, ReceiveOpenBankingWebhook, ReceiveStripeWebhook, vars
<1> QED
  BY <1>1, <1>2 DEF TypeOK

\* A worker's step changes nothing another worker remembers.
LEMMA OthersKept ==
  ASSUME Inv, NEW p \in Workers, Starts(p) \/ Step(p) \/ Abort(p),
         NEW q \in Workers, q # p
  PROVE  pc'[q] = pc[q] /\ job'[q] = job[q]
<1> USE DEF Inv, TypeOK, Goto, End
<1>1. CASE Starts(p)
  BY <1>1, Begun DEF Begins
<1>2. CASE Abort(p)
  BY <1>2 DEF Abort
<1>3. CASE Step(p) /\ ~Abort(p)
  BY <1>3 DEF Step, InsertTransfer, CallAggregator, CommitInitiated, UpdateTransfer,
     CommitAdvanced, TouchRecord, ApplyEvent, NoteEvent, ReadForCredit, CreditWallet,
     CommitCredited, ExecutePayment, Proceed
<1> QED
  BY <1>1, <1>2, <1>3

\* Only three statements write a state.
LEMMA StateWriters ==
  ASSUME Inv, [Next]_vars, state' # state
  PROVE  \E p \in Workers : CommitInitiated(p) \/ CommitAdvanced(p) \/ CommitCredited(p)
<1>1. \A p \in Workers : Starts(p) => state' = state
  BY Begun DEF rows
<1>2. \A p \in Workers : Abort(p) => state' = state
  BY DEF Abort, rows
<1>3. \A p \in Workers :
        InsertTransfer(p) \/ CallAggregator(p) \/ UpdateTransfer(p) \/ TouchRecord(p)
        \/ ApplyEvent(p) \/ NoteEvent(p) \/ ReadForCredit(p) \/ CreditWallet(p)
        \/ ExecutePayment(p) => state' = state
  BY <1>2 DEF InsertTransfer, CallAggregator, UpdateTransfer, TouchRecord, ApplyEvent,
     NoteEvent, ReadForCredit, CreditWallet, ExecutePayment, Proceed, rows
<1> QED
  BY <1>1, <1>2, <1>3, Kinds DEF Step, Idle, rows

\* No transfer goes back to where it was not committed or not authorized.
LEMMA StateForward ==
  ASSUME Inv, [Next]_vars, NEW t \in Transfers, state[t] # "none"
  PROVE  /\ state'[t] # "none"
         /\ state[t] # "awaiting_authorization" => state'[t] # "awaiting_authorization"
<1> USE DEF Inv, TypeOK
<1>1. ASSUME NEW p \in Workers, CommitInitiated(p)
      PROVE  state'[t] = state[t]
  <2>1. state[Of(p)] = "none"
    BY <1>1 DEF CommitInitiated, InitiatedAlone
  <2> QED
    BY <1>1, <2>1 DEF CommitInitiated
<1>2. ASSUME NEW p \in Workers, CommitAdvanced(p)
      PROVE  state'[t] = state[t] \/ state'[t] \notin {"none", "awaiting_authorization"}
  BY <1>2 DEF CommitAdvanced, JobsKnown
<1>3. ASSUME NEW p \in Workers, CommitCredited(p)
      PROVE  state'[t] = state[t] \/ state'[t] = "completed"
  BY <1>3 DEF CommitCredited
<1> QED
  BY <1>1, <1>2, <1>3, StateWriters

LEMMA JobsKnownStep == Inv /\ [Next]_vars => JobsKnown'
<1> SUFFICES ASSUME Inv, [Next]_vars PROVE JobsKnown'
  OBVIOUS
<1> DEFINE Known(p) ==
      /\ pc[p] # "idle" => job[p].transfer \in Transfers
      /\ pc[p] \notin {"idle", "insert", "call", "initiated"} => state[job[p].transfer] # "none"
      /\ job[p].to \notin {"none", "awaiting_authorization"}
      /\ pc[p] \in {"update", "advanced"} /\ job[p].event # None => job[p].to = "authorizing"
      /\ pc[p] = "execute" => job[p].event = None
      /\ pc[p] = "noted" /\ job[p].event = "pending" =>
           state[job[p].transfer] # "awaiting_authorization"
<1>k. \A p \in Workers : Known(p)
  BY DEF Inv, JobsKnown, Of, IsTask
<1>n. /\ NoJob.to \notin {"none", "awaiting_authorization"} /\ NoJob.event = None
      /\ None \notin {"none", "awaiting_authorization", "pending"}
  BY NoneApart DEF NoJob, Job, States, Events
<1>q. ASSUME NEW q \in Workers, pc'[q] = pc[q], job'[q] = job[q] PROVE Known(q)'
  BY <1>k, <1>q, StateForward
<1>1. ASSUME NEW p \in Workers, Starts(p) PROVE Known(p)'
  <2>1. PICK j \in Jobs, s \in {"insert", "update", "touch", "apply", "credit_read", "execute"} :
          /\ pc' = [pc EXCEPT ![p] = s] /\ job' = [job EXCEPT ![p] = j]
          /\ j.transfer \in Transfers /\ j.to \notin {"none", "awaiting_authorization"}
          /\ s # "insert" => state[j.transfer] # "none"
          /\ s \in {"update", "execute"} => j.event = None
    BY <1>1, Begun DEF Begins
  <2>2. pc'[p] = s /\ job'[p] = j
    BY <2>1 DEF Inv, TypeOK
  <2>3. state' = state
    BY <1>1, Begun DEF rows
  <2> QED
    BY <2>1, <2>2, <2>3
<1>2. ASSUME NEW p \in Workers, End(p) PROVE Known(p)'
  BY <1>2, <1>n DEF End, Inv, TypeOK
<1>3. ASSUME NEW p \in Workers, Step(p), ~End(p) PROVE Known(p)'
  <2> USE DEF Inv, TypeOK, Goto
  <2>1. CASE \/ InsertTransfer(p) \/ CallAggregator(p) \/ UpdateTransfer(p) \/ TouchRecord(p)
             \/ ReadForCredit(p) \/ CreditWallet(p)
    <3>1. job'[p] = job[p] /\ state' = state
      BY <1>3, <2>1 DEF InsertTransfer, CallAggregator, UpdateTransfer, TouchRecord,
         ReadForCredit, CreditWallet, Proceed, Abort, rows
    <3>2. /\ pc[p] # "idle" /\ pc'[p] \notin {"noted", "execute"}
          /\ pc'[p] \notin {"idle", "insert", "call", "initiated"} =>
               pc[p] \notin {"idle", "insert", "call", "initiated"}
          /\ pc'[p] \in {"update", "advanced"} => pc[p] \in {"update", "advanced"}
      BY <1>3, <2>1 DEF InsertTransfer, CallAggregator, UpdateTransfer, TouchRecord,
         ReadForCredit, CreditWallet, Proceed, Abort
    <3> QED
      BY <1>k, <3>1, <3>2
  <2>2. CASE CommitAdvanced(p)
    <3>1. job[p] \in Jobs /\ job[p].after = "credit_read"
      BY <1>3, <2>2 DEF CommitAdvanced, Jobs
    <3>2. /\ pc'[p] = "credit_read" /\ job'[p] = Job(job[p].transfer, None, None)
          /\ pc[p] = "advanced"
      BY <1>3, <2>2, <3>1 DEF CommitAdvanced, Of
    <3> QED
      BY <1>k, <1>n, <3>2, StateForward DEF Job
  <2>3. CASE ApplyEvent(p)
    <3>1. pc[p] = "apply" /\ state' = state
      BY <1>3, <2>3 DEF ApplyEvent, Abort, rows
    <3>2. \/ pc'[p] = "update" /\ job'[p] = [job[p] EXCEPT !.to = "authorizing"]
          \/ /\ pc'[p] = "noted" /\ job'[p] = job[p]
             /\ job[p].event = "pending" => state[job[p].transfer] # "awaiting_authorization"
      BY <1>3, <2>3 DEF ApplyEvent, Abort, Of
    <3>3. job[p] \in Jobs
      OBVIOUS
    <3> QED
      BY <1>k, <3>1, <3>2, <3>3 DEF Jobs
  <2>4. CASE ExecutePayment(p)
    <3>1. /\ pc[p] = "execute" /\ state' = state /\ pc'[p] = "update"
          /\ job'[p] = [job[p] EXCEPT !.after = "credit_read"]
      BY <1>3, <2>4 DEF ExecutePayment, Abort, rows
    <3> QED
      BY <1>k, <3>1 DEF Jobs
  <2> QED
    BY <1>3, <2>1, <2>2, <2>3, <2>4 DEF Step, CommitInitiated, NoteEvent, CommitCredited
<1>4. \A p \in Workers : Abort(p) => End(p)
  BY DEF Abort
<1>5. \A p \in Workers : Known(p)'
  BY <1>q, <1>1, <1>2, <1>3, <1>4, Kinds, OthersKept DEF Idle
<1> QED
  BY <1>5 DEF JobsKnown, Of, IsTask

\* Who locks a row waited for it, and who asks the aggregator for its key.
LEMMA Holders ==
  ASSUME Inv, NEW p \in Workers, Starts(p) \/ Step(p) \/ Abort(p)
  PROVE  /\ pc'[p] \in {"advanced", "credited"} =>
              job'[p] = job[p] /\ (TransferLocked(p) => pc'[p] = pc[p])
         /\ pc'[p] \in {"call", "initiated"} =>
              /\ job'[p] = job[p] /\ state' = state
              /\ \/ pc[p] \in {"call", "initiated"}
                 \/ pc[p] = "insert" /\ state[Of(p)] = "none" /\ ~KeyHeld(p)
<1> USE DEF Inv, TypeOK, Goto, End, Proceed, rows
<1>1. CASE Starts(p)
  <2>1. pc'[p] \in {"insert", "update", "touch", "apply", "credit_read", "execute"}
    BY <1>1, Begun DEF Begins
  <2> QED
    BY <2>1
<1>2. CASE Abort(p)
  BY <1>2 DEF Abort
<1>3. CASE CommitAdvanced(p)
  <2>1. pc'[p] = "idle" \/ pc'[p] = "credit_read"
    BY <1>3 DEF CommitAdvanced, Jobs
  <2> QED
    BY <2>1
<1>4. CASE Step(p) /\ ~Abort(p) /\ ~CommitAdvanced(p)
  BY <1>4 DEF Step, InsertTransfer, CallAggregator, CommitInitiated, UpdateTransfer,
     TouchRecord, ApplyEvent, NoteEvent, ReadForCredit, CreditWallet, CommitCredited,
     ExecutePayment
<1> QED
  BY <1>1, <1>2, <1>3, <1>4

LEMMA LockExclusiveStep == Inv /\ [Next]_vars => LockExclusive'
<1> SUFFICES ASSUME Inv, [Next]_vars,
                    NEW p \in Workers, NEW q \in Workers, p # q,
                    pc'[p] \in {"advanced", "credited"}, pc'[q] \in {"advanced", "credited"}
             PROVE  job'[p].transfer # job'[q].transfer
  BY DEF LockExclusive, Of
<1> USE DEF Inv, LockExclusive, TransferLocked, Of
<1>1. CASE Idle
  BY <1>1 DEF Idle
<1>2. ASSUME NEW r \in Workers, Starts(r) \/ Step(r) \/ Abort(r)
      PROVE  job'[p].transfer # job'[q].transfer
  <2>1. CASE r \notin {p, q}
    BY <1>2, <2>1, OthersKept
  <2>2. CASE r = p
    BY <1>2, <2>2, OthersKept, Holders
  <2>3. CASE r = q
    BY <1>2, <2>3, OthersKept, Holders
  <2> QED
    BY <2>1, <2>2, <2>3
<1> QED
  BY <1>1, <1>2, Kinds

LEMMA InitiatedAloneStep == Inv /\ [Next]_vars => InitiatedAlone'
<1> SUFFICES ASSUME Inv, [Next]_vars, NEW p \in Workers, pc'[p] \in {"call", "initiated"}
             PROVE  /\ state'[job'[p].transfer] = "none"
                    /\ \A q \in Workers \ {p} : pc'[q] \in {"call", "initiated"} =>
                         job'[q].transfer # job'[p].transfer
  BY DEF InitiatedAlone, Of
<1> USE DEF Inv, InitiatedAlone, Of
<1>0. \A q \in Workers : pc[q] # "idle" => job[q].transfer \in Transfers
  BY DEF JobsKnown
<1>1. CASE Idle
  BY <1>1 DEF Idle, rows
<1>2. ASSUME NEW r \in Workers, Starts(r) \/ Step(r) \/ Abort(r), r = p
      PROVE  /\ state'[job'[p].transfer] = "none"
             /\ \A q \in Workers \ {p} : pc'[q] \in {"call", "initiated"} =>
                  job'[q].transfer # job'[p].transfer
  BY <1>2, OthersKept, Holders DEF KeyHeld
<1>3. ASSUME NEW r \in Workers, Starts(r) \/ Step(r) \/ Abort(r), r # p
      PROVE  /\ state'[job'[p].transfer] = "none"
             /\ \A q \in Workers \ {p} : pc'[q] \in {"call", "initiated"} =>
                  job'[q].transfer # job'[p].transfer
  <2>1. pc'[p] = pc[p] /\ job'[p] = job[p]
    BY <1>3, OthersKept
  <2>2. state'[job[p].transfer] = "none"
    <3>1. CASE CommitInitiated(r)
      <4>1. job[r].transfer # job[p].transfer
        BY <1>3, <2>1, <3>1 DEF CommitInitiated
      <4> QED
        BY <2>1, <3>1, <4>1 DEF CommitInitiated, TypeOK
    <3>2. CASE CommitAdvanced(r)
      <4>1. job[r].transfer # job[p].transfer
        BY <2>1, <3>2 DEF CommitAdvanced, JobsKnown
      <4> QED
        BY <2>1, <3>2, <4>1 DEF CommitAdvanced, TypeOK
    <3>3. CASE CommitCredited(r)
      <4>1. job[r].transfer # job[p].transfer
        BY <2>1, <3>3 DEF CommitCredited, JobsKnown
      <4> QED
        BY <2>1, <3>3, <4>1 DEF CommitCredited, TypeOK
    <3>4. CASE ~CommitInitiated(r) /\ ~CommitAdvanced(r) /\ ~CommitCredited(r)
      <4>1. state' = state
        BY <1>3, <3>4, Begun DEF Step, InsertTransfer, CallAggregator, UpdateTransfer,
           TouchRecord, ApplyEvent, NoteEvent, ReadForCredit, CreditWallet, ExecutePayment,
           Proceed, Abort, rows
      <4> QED
        BY <2>1, <4>1
    <3> QED
      BY <3>1, <3>2, <3>3, <3>4
  <2>3. ASSUME NEW q \in Workers \ {p}, pc'[q] \in {"call", "initiated"}
        PROVE  job'[q].transfer # job'[p].transfer
    <3>1. CASE q = r
      BY <1>3, <2>1, <2>3, <3>1, Holders DEF KeyHeld
    <3>2. CASE q # r
      BY <1>3, <2>1, <2>3, <3>2, OthersKept
    <3> QED
      BY <3>1, <3>2
  <2> QED
    BY <2>1, <2>2, <2>3
<1> QED
  BY <1>1, <1>2, <1>3, Kinds

\* A commit that moves a transfer outdates the snapshots others have of it.
LEMMA SnapshotCurrentStep == Inv /\ [Next]_vars => SnapshotCurrent'
<1> SUFFICES ASSUME Inv, [Next]_vars, NEW p \in Workers
             PROVE  /\ pc'[p] \in {"credit", "credited"} /\ p \notin stale' =>
                         /\ state'[job'[p].transfer] = "awaiting_settlement"
                         /\ credits'[job'[p].transfer] < MaxCredits
                    /\ pc'[p] = "credited" => p \notin stale'
  BY DEF SnapshotCurrent, Of
<1> DEFINE Goal == /\ pc'[p] \in {"credit", "credited"} /\ p \notin stale' =>
                         /\ state'[job'[p].transfer] = "awaiting_settlement"
                         /\ credits'[job'[p].transfer] < MaxCredits
                   /\ pc'[p] = "credited" => p \notin stale'
<1> USE DEF Inv, TypeOK, SnapshotCurrent, Of, Goto, End, Proceed, rows
<1>1. CASE Idle
  BY <1>1 DEF Idle
<1>2. ASSUME pc'[p] \notin {"credit", "credited"} PROVE Goal
  BY <1>2
<1>3. ASSUME NEW r \in Workers, Starts(r) \/ Abort(r) PROVE Goal
  <2>1. CASE r = p
    <3>1. pc'[p] \in {"idle", "insert", "update", "touch", "apply", "credit_read", "execute"}
      BY <1>3, <2>1, Begun DEF Begins, Abort
    <3> QED
      BY <3>1
  <2>2. CASE r # p
    <3>1. pc'[p] = pc[p] /\ job'[p] = job[p]
      BY <1>3, <2>2, OthersKept
    <3>2. state' = state /\ credits' = credits /\ (stale' = stale \/ stale' = stale \ {r})
      BY <1>3, Begun DEF Abort
    <3> QED
      BY <2>2, <3>1, <3>2
  <2> QED
    BY <2>1, <2>2
<1>4. ASSUME NEW r \in Workers, Step(r), r = p, ~Abort(r) PROVE Goal
  <2>1. CASE ReadForCredit(p)
    BY <1>4, <2>1 DEF ReadForCredit
  <2>2. CASE CreditWallet(p)
    BY <1>4, <2>2 DEF CreditWallet
  <2>3. CASE CommitAdvanced(p)
    BY <2>3, <1>2 DEF CommitAdvanced, Jobs
  <2>4. CASE ~ReadForCredit(p) /\ ~CreditWallet(p) /\ ~CommitAdvanced(p)
    BY <1>2, <1>4, <2>4 DEF Step, InsertTransfer, CallAggregator, CommitInitiated,
       UpdateTransfer, TouchRecord, ApplyEvent, NoteEvent, CommitCredited, ExecutePayment
  <2> QED
    BY <2>1, <2>2, <2>3, <2>4
<1>5. ASSUME NEW r \in Workers, Step(r), r # p, ~Abort(r) PROVE Goal
  <2>1. pc'[p] = pc[p] /\ job'[p] = job[p]
    BY <1>5, OthersKept
  <2>2. CASE CommitAdvanced(r) \/ CommitCredited(r)
    <3>1. /\ Outdate(r) /\ pc[r] \in {"advanced", "credited"}
          /\ \A t \in Transfers : t # job[r].transfer =>
               state'[t] = state[t] /\ credits'[t] = credits[t]
      BY <2>2 DEF CommitAdvanced, CommitCredited
    <3>2. pc[p] # "idle" => job[p].transfer \in Transfers
      BY DEF JobsKnown
    <3>3. CASE job[p].transfer = job[r].transfer
      <4>1. pc[p] # "credited"
        BY <1>5, <3>1, <3>3 DEF LockExclusive
      <4>2. pc[p] = "credit" => p \in stale'
        BY <1>5, <3>1, <3>3 DEF Outdate
      <4> QED
        BY <2>1, <4>1, <4>2
    <3>4. CASE job[p].transfer # job[r].transfer
      <4>1. p \in stale' <=> p \in stale
        BY <1>5, <3>1, <3>4 DEF Outdate
      <4> QED
        BY <2>1, <3>1, <3>2, <3>4, <4>1
    <3> QED
      BY <3>3, <3>4
  <2>3. CASE CommitInitiated(r)
    <3>1. state[job[r].transfer] = "none" /\ stale' = stale /\ credits' = credits
      BY <2>3 DEF CommitInitiated, InitiatedAlone
    <3>2. pc[p] # "idle" => job[p].transfer \in Transfers
      BY DEF JobsKnown
    <3> QED
      BY <2>1, <2>3, <3>1, <3>2 DEF CommitInitiated
  <2>4. CASE ~CommitAdvanced(r) /\ ~CommitCredited(r) /\ ~CommitInitiated(r)
    <3>1. state' = state /\ credits' = credits /\ stale' = stale
      BY <1>5, <2>4 DEF Step, InsertTransfer, CallAggregator, UpdateTransfer,
           TouchRecord, ApplyEvent, NoteEvent, ReadForCredit, CreditWallet, ExecutePayment
    <3> QED
      BY <2>1, <3>1
  <2> QED
    BY <2>2, <2>3, <2>4
<1> QED
  BY <1>1, <1>3, <1>4, <1>5, Kinds

\* What is remembered of a payment was committed with its effect.
LEMMA RememberedStep == Inv /\ [Next]_vars => StatusKnown' /\ RememberedWhenApplied'
<1> SUFFICES ASSUME Inv, [Next]_vars, NEW t \in Transfers
             PROVE  /\ state'[t] = "none" => status'[t] = None
                    /\ status'[t] = "pending" => state'[t] # "awaiting_authorization"
  BY DEF StatusKnown, RememberedWhenApplied
<1> DEFINE Goal == /\ state'[t] = "none" => status'[t] = None
                   /\ status'[t] = "pending" => state'[t] # "awaiting_authorization"
<1> USE DEF Inv, TypeOK, Of
<1>n. None # "pending"
  BY NoneApart DEF Events
<1>1. CASE status'[t] = status[t]
  <2>1. CASE state[t] = "none"
    BY <1>1, <1>n, <2>1 DEF StatusKnown
  <2>2. CASE state[t] # "none"
    BY <1>1, <2>2, StateForward DEF RememberedWhenApplied
  <2> QED
    BY <2>1, <2>2
<1>2. ASSUME NEW p \in Workers, CommitAdvanced(p) PROVE Goal
  <2>1. CASE HasTouched(p) /\ t = job[p].transfer
    <3>1. job[p].to = "authorizing" /\ job[p].to # None
      BY <1>2, <2>1, NoneApart DEF HasTouched, CommitAdvanced, JobsKnown, States
    <3>2. state'[t] = "authorizing"
      BY <1>2, <2>1, <3>1 DEF CommitAdvanced
    <3> QED
      BY <3>2
  <2>2. CASE ~(HasTouched(p) /\ t = job[p].transfer)
    BY <1>1, <1>2, <2>2 DEF CommitAdvanced, CommitStatus
  <2> QED
    BY <2>1, <2>2
<1>3. ASSUME NEW p \in Workers, NoteEvent(p) PROVE Goal
  <2>1. CASE HasTouched(p) /\ t = job[p].transfer
    BY <1>3, <2>1 DEF NoteEvent, CommitStatus, JobsKnown
  <2>2. CASE ~(HasTouched(p) /\ t = job[p].transfer)
    BY <1>1, <1>3, <2>2 DEF NoteEvent, CommitStatus
  <2> QED
    BY <2>1, <2>2
<1>4. ASSUME NEW p \in Workers, Starts(p) \/ Abort(p) PROVE status' = status
  BY <1>4, Begun DEF Abort, rows
<1>5. ASSUME NEW p \in Workers, Step(p), ~CommitAdvanced(p), ~NoteEvent(p)
      PROVE  status' = status
  BY <1>5 DEF Step, InsertTransfer, CallAggregator, CommitInitiated, UpdateTransfer,
     TouchRecord, ApplyEvent, ReadForCredit, CreditWallet, CommitCredited, ExecutePayment,
     Proceed, Abort, rows
<1>6. CASE Idle
  BY <1>1, <1>6 DEF Idle, rows
<1> QED
  BY <1>1, <1>2, <1>3, <1>4, <1>5, <1>6, Kinds

\* The invariant holds at first,
LEMMA FundingStart == Init => Inv
<1> SUFFICES ASSUME Init PROVE Inv
  OBVIOUS
<1>1. TypeOK
  BY FundingAssumption DEF Init, TypeOK, NoJob, Job, Jobs, States
<1>2. \A p \in Workers : pc[p] = "idle" /\ job[p].to = None
  BY DEF Init, NoJob, Job
<1>3. JobsKnown
  BY <1>2, NoneApart DEF JobsKnown, States
<1>4. StatusKnown /\ RememberedWhenApplied
  BY DEF Init, StatusKnown, RememberedWhenApplied
<1> QED
  BY <1>1, <1>2, <1>3, <1>4 DEF Inv, LockExclusive, InitiatedAlone, SnapshotCurrent

\* every step keeps it,
LEMMA FundingStep == Inv /\ [Next]_vars => Inv'
  BY TypeOKStep, JobsKnownStep, LockExclusiveStep, InitiatedAloneStep,
     SnapshotCurrentStep, RememberedStep DEF Inv

\* and so it always holds.
LEMMA Invariance == Spec => []Inv
  BY FundingStart, FundingStep, PTL DEF Spec

\* Transfers, the queue and the workers keep their types.
THEOREM WellTyped == Spec => []TypeOK
<1>1. Inv => TypeOK
  BY DEF Inv
<1> QED
  BY <1>1, Invariance, PTL

\* Concurrent and repeated initiations of a transfer ask the aggregator one at
\* a time, and only while nothing is committed under its key.
THEOREM OnePaymentPerKey == Spec => []InitiatedAlone
<1>1. Inv => InitiatedAlone
  BY DEF Inv
<1> QED
  BY <1>1, Invariance, PTL

\* The status that deduplicates events is never ahead of what an event did.
THEOREM DeduplicationSafe == Spec => []RememberedWhenApplied
<1>1. Inv => RememberedWhenApplied
  BY DEF Inv
<1> QED
  BY <1>1, Invariance, PTL

\* Whatever else moves a transfer while it is credited, the CREDIT entry commits
\* with its completion and only from AWAITING_SETTLEMENT.
THEOREM CreditsSettle == Spec => CreditedInSettlement
<1>1. ASSUME Inv, Next, NEW t \in Transfers, credits'[t] # credits[t]
      PROVE  state[t] = "awaiting_settlement" /\ state'[t] = "completed"
  <2>1. ASSUME NEW p \in Workers, Starts(p) \/ Abort(p) PROVE credits' = credits
    BY <1>1, <2>1, Begun DEF Abort, rows
  <2>2. PICK p \in Workers : CommitCredited(p)
    BY <1>1, <2>1, Kinds DEF Step, InsertTransfer, CallAggregator, CommitInitiated,
       UpdateTransfer, CommitAdvanced, TouchRecord, ApplyEvent, NoteEvent, ReadForCredit,
       CreditWallet, ExecutePayment, Proceed, Idle, rows
  <2>3. t = Of(p)
    BY <1>1, <2>2 DEF CommitCredited, Inv, TypeOK
  <2> QED
    BY <1>1, <2>2, <2>3 DEF CommitCredited, Inv, TypeOK, SnapshotCurrent
<1>2. Inv /\ [Next]_vars =>
        [\A t \in Transfers : credits'[t] # credits[t] =>
           state[t] = "awaiting_settlement" /\ state'[t] = "completed"]_vars
  BY <1>1
<1> QED
  BY <1>2, Invariance, PTL DEF Spec, CreditedInSettlement

\* Overlapping, repeated and dying handlers implement the life of a transfer:
\* each commit is one of its steps, and no other step shows.
THEOREM LifeImplemented == Spec => ImplementsLife
<1>1. Init => Life!Init
  BY DEF Init, Life!Init
<1>2. ASSUME Inv, [Next]_vars PROVE [Life!Next]_<<state, credits>>
  <2> USE DEF Inv, TypeOK
  <2>1. ASSUME NEW p \in Workers, CommitInitiated(p) PROVE Life!Next
    <3>1. Of(p) \in Transfers /\ state[Of(p)] = "none"
      BY <1>2, <2>1 DEF CommitInitiated, JobsKnown, InitiatedAlone
    <3> QED
      BY <2>1, <3>1 DEF CommitInitiated, Life!Next, Life!Initiate
  <2>2. ASSUME NEW p \in Workers, CommitAdvanced(p), job[p].to # None PROVE Life!Next
    <3>1. Of(p) \in Transfers /\ state[Of(p)] # "none" /\ job[p].to \in Life!Later
      BY <1>2, <2>2 DEF CommitAdvanced, JobsKnown, Jobs, States, Life!Later
    <3>2. Life!Move(Of(p), job[p].to)
      BY <2>2, <3>1 DEF CommitAdvanced, Life!Move
    <3> QED
      BY <3>1, <3>2 DEF Life!Next
  <2>3. ASSUME NEW p \in Workers, CommitCredited(p) PROVE Life!Next
    <3>1. Of(p) \in Transfers /\ state[Of(p)] = "awaiting_settlement"
      BY <1>2, <2>3 DEF CommitCredited, JobsKnown, SnapshotCurrent
    <3> QED
      BY <2>3, <3>1 DEF CommitCredited, Life!Next, Life!Credit
  <2>4. CASE credits' # credits
    <3>1. ASSUME NEW p \in Workers, Starts(p) \/ Abort(p) PROVE credits' = credits
      BY <1>2, <3>1, Begun DEF Abort, rows
    <3>2. \E p \in Workers : CommitCredited(p)
      BY <1>2, <2>4, <3>1, Kinds DEF Step, InsertTransfer, CallAggregator, CommitInitiated,
         UpdateTransfer, CommitAdvanced, TouchRecord, ApplyEvent, NoteEvent, ReadForCredit,
         CreditWallet, ExecutePayment, Proceed, Idle, rows
    <3> QED
      BY <2>3, <3>2
  <2>5. CASE credits' = credits /\ state' # state
    <3>1. ASSUME NEW p \in Workers, CommitAdvanced(p) PROVE job[p].to # None
      BY <2>5, <3>1 DEF CommitAdvanced
    <3> QED
      BY <1>2, <2>1, <2>2, <2>3, <2>5, <3>1, StateWriters
  <2> QED
    BY <2>4, <2>5
<1> QED
  BY <1>1, <1>2, Invariance, PTL DEF Spec, ImplementsLife, Life!Spec
-----------------------------------------------------------------------------
(* What is finished stays finished                                         *)

\* Only Yapily's callback executes payments.
CallbackKnown == \A p \in Workers : pc[p] = "execute" => channel[Of(p)] = "yapily"

LEMMA ChannelKept == ASSUME Inv, [Next]_vars PROVE channel' = channel
<1>1. ASSUME NEW p \in Workers, Starts(p) \/ Abort(p) PROVE channel' = channel
  BY <1>1, Begun DEF Abort
<1>2. ASSUME NEW p \in Workers, Step(p) PROVE channel' = channel
  BY <1>1, <1>2 DEF Step, InsertTransfer, CallAggregator, CommitInitiated, UpdateTransfer,
     CommitAdvanced, TouchRecord, ApplyEvent, NoteEvent, ReadForCredit, CreditWallet,
     CommitCredited, ExecutePayment, Proceed
<1> QED
  BY <1>1, <1>2, Kinds DEF Idle

LEMMA CallbackKnownStep ==
  ASSUME Inv, CallbackKnown, [Next]_vars
  PROVE  CallbackKnown'
<1> USE DEF Inv, TypeOK, CallbackKnown, Goto, End, Of
<1>k. channel' = channel
  BY ChannelKept
<1>1. ASSUME NEW p \in Workers, Starts(p), pc'[p] = "execute"
      PROVE  channel[job'[p].transfer] = "yapily"
  <2>1. ASSUME NEW t \in Transfers, InitiateFunding(p, t) \/ CompleteFunding(p, t)
               \/ (\E s \in States : Advance(p, t, s))
               \/ (\E e \in Events : ProcessWebhook(p, t, e))
        PROVE  FALSE
    BY <1>1, <2>1 DEF InitiateFunding, CompleteFunding, Advance, ProcessWebhook, Start
  <2>2. PICK t \in Transfers : YapilyCallback(p, t)
    BY <1>1, <2>1 DEF Starts
  <2> QED
    BY <2>2 DEF YapilyCallback, Start, Job
<1>2. ASSUME NEW p \in Workers, Abort(p) PROVE pc'[p] # "execute"
  BY <1>2 DEF Abort
<1>3. ASSUME NEW p \in Workers, CommitAdvanced(p) PROVE pc'[p] # "execute"
  <2>1. Of(p) \in Transfers /\ job[p].after \in {"idle", "credit_read"}
    BY <1>3 DEF CommitAdvanced, JobsKnown, Jobs
  <2> QED
    BY <1>3, <2>1 DEF CommitAdvanced
<1>4. ASSUME NEW p \in Workers, Step(p), ~CommitAdvanced(p) PROVE pc'[p] # "execute"
  BY <1>2, <1>4 DEF Step, InsertTransfer, CallAggregator, CommitInitiated, UpdateTransfer,
     TouchRecord, ApplyEvent, NoteEvent, ReadForCredit, CreditWallet, CommitCredited,
     ExecutePayment, Proceed
<1>5. ASSUME NEW p \in Workers, Starts(p) \/ Step(p) \/ Abort(p),
             NEW q \in Workers, pc'[q] = "execute"
      PROVE  channel'[job'[q].transfer] = "yapily"
  <2>1. CASE q = p
    BY <1>k, <1>1, <1>2, <1>3, <1>4, <1>5, <2>1
  <2>2. CASE q # p
    BY <1>k, <1>5, <2>2, OthersKept
  <2> QED
    BY <2>1, <2>2
<1> QED
  BY <1>5, Kinds DEF Idle

\* Where a worker that is about to write a state comes from.
LEMMA Intends ==
  ASSUME Inv, NEW p \in Workers, Starts(p) \/ Step(p) \/ Abort(p),
         pc'[p] \in {"update", "advanced"}
  PROVE  \/ pc[p] \in {"update", "advanced", "execute"} /\ Of(p)' = Of(p)
         \/ state[Of(p)'] \notin Terminal
<1> USE DEF Inv, TypeOK, Goto, End, Of
<1>1. CASE Starts(p)
  <2>1. ASSUME NEW t \in Transfers, InitiateFunding(p, t) \/ CompleteFunding(p, t)
               \/ YapilyCallback(p, t) \/ (\E e \in Events : ProcessWebhook(p, t, e))
        PROVE  FALSE
    BY <2>1 DEF InitiateFunding, CompleteFunding, YapilyCallback, ProcessWebhook, Start
  <2>2. PICK t \in Transfers, s \in States : Advance(p, t, s)
    BY <1>1, <2>1 DEF Starts
  <2>3. job'[p].transfer = t /\ s \in Allowed(state[t])
    BY <2>2 DEF Advance, Start, Job
  <2> QED
    BY <2>3 DEF Allowed, Terminal
<1>2. CASE Abort(p)
  BY <1>2 DEF Abort
<1>3. CASE CommitAdvanced(p)
  <2>1. Of(p) \in Transfers /\ job[p].after \in {"idle", "credit_read"}
    BY <1>3 DEF CommitAdvanced, JobsKnown, Jobs
  <2> QED
    BY <1>3, <2>1 DEF CommitAdvanced
<1>4. CASE ApplyEvent(p) /\ ~Abort(p)
  <2>1. /\ state[Of(p)] = "awaiting_authorization"
        /\ job' = [job EXCEPT ![p].to = "authorizing"]
    BY <1>4 DEF ApplyEvent
  <2>2. job'[p].transfer = job[p].transfer
    BY <2>1 DEF Jobs
  <2> QED
    BY <2>1, <2>2 DEF Terminal
<1>5. CASE UpdateTransfer(p)
  BY <1>5 DEF UpdateTransfer, Proceed
<1>6. CASE ExecutePayment(p) /\ ~Abort(p)
  <2>1. pc[p] = "execute" /\ job' = [job EXCEPT ![p].after = "credit_read"]
    BY <1>6 DEF ExecutePayment
  <2> QED
    BY <2>1 DEF Jobs
<1>7. CASE /\ Step(p) /\ ~Abort(p) /\ ~CommitAdvanced(p) /\ ~ApplyEvent(p)
           /\ ~UpdateTransfer(p) /\ ~ExecutePayment(p)
  BY <1>7 DEF Step, InsertTransfer, CallAggregator, CommitInitiated, TouchRecord, NoteEvent,
     ReadForCredit, CreditWallet, CommitCredited, Proceed
<1> QED
  BY <1>1, <1>2, <1>3, <1>4, <1>5, <1>6, <1>7

\* Nothing writes a finished transfer, and nobody begins to.
LEMMA FinishedStep ==
  ASSUME Inv, CallbackKnown, [Next]_vars, NEW t \in Transfers, Finished(t)
  PROVE  Finished(t)' /\ state'[t] = state[t] /\ credits'[t] = credits[t]
<1> USE DEF Inv, TypeOK, Finished
<1>1. ASSUME NEW p \in Workers, CommitInitiated(p) \/ CommitAdvanced(p) \/ CommitCredited(p)
      PROVE  state'[t] = state[t] /\ credits'[t] = credits[t]
  <2>1. CASE CommitInitiated(p)
    <3>1. state[Of(p)] = "none"
      BY <2>1 DEF CommitInitiated, InitiatedAlone
    <3> QED
      BY <2>1, <3>1 DEF CommitInitiated, Terminal
  <2>2. CASE CommitAdvanced(p)
    BY <2>2 DEF CommitAdvanced
  <2>3. CASE CommitCredited(p)
    <3>1. state[Of(p)] = "awaiting_settlement"
      BY <2>3 DEF CommitCredited, SnapshotCurrent
    <3> QED
      BY <2>3, <3>1 DEF CommitCredited, Terminal
  <2> QED
    BY <1>1, <2>1, <2>2, <2>3
<1>2. credits' = credits \/ \E p \in Workers : CommitCredited(p)
  <2>1. ASSUME NEW p \in Workers, Starts(p) \/ Abort(p) PROVE credits' = credits
    BY <2>1, Begun DEF Abort, rows
  <2> QED
    BY <2>1, Kinds DEF Step, InsertTransfer, CallAggregator, CommitInitiated, UpdateTransfer,
       CommitAdvanced, TouchRecord, ApplyEvent, NoteEvent, ReadForCredit, CreditWallet,
       ExecutePayment, Proceed, Idle, rows
<1>3. state'[t] = state[t] /\ credits'[t] = credits[t]
  BY <1>1, <1>2, StateWriters
<1>4. ASSUME NEW q \in Workers, pc'[q] \in {"update", "advanced"} PROVE Of(q)' # t
  <2>1. CASE Idle
    BY <1>4, <2>1 DEF Idle, Of
  <2>2. ASSUME NEW p \in Workers, Starts(p) \/ Step(p) \/ Abort(p), q # p PROVE Of(q)' # t
    BY <1>4, <2>2, OthersKept DEF Of
  <2>3. ASSUME Starts(q) \/ Step(q) \/ Abort(q) PROVE Of(q)' # t
    BY <1>4, <2>3, Intends DEF CallbackKnown
  <2> QED
    BY <2>1, <2>2, <2>3, Kinds
<1> QED
  BY <1>3, <1>4, ChannelKept

\* Once the handlers that overlapped its end are over, a transfer that is not
\* paid through Yapily's callback is neither moved nor credited, whoever is still
\* about to credit it, whatever is repeated, late or dies.
THEOREM FinishedForGood == Spec => FinishedStays
<1>1. Init => CallbackKnown
  BY DEF Init, CallbackKnown
<1>2. Inv /\ CallbackKnown /\ [Next]_vars => CallbackKnown'
  BY CallbackKnownStep
<1>3. Inv /\ CallbackKnown /\ [Next]_vars =>
        [\A t \in Transfers : Finished(t) =>
           Finished(t)' /\ state'[t] = state[t] /\ credits'[t] = credits[t]]_vars
  BY FinishedStep
<1> QED
  BY <1>1, <1>2, <1>3, Invariance, PTL DEF Spec, FinishedStays
=============================================================================
