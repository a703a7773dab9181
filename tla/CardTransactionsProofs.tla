------------------------ MODULE CardTransactionsProofs ------------------------
(***************************************************************************)
(* Theorems about CardTransactions for any number of concurrent requests,  *)
(* wallets and cards, and any amounts.  They build on one inductive        *)
(* invariant: what a request knows of its payload and of the wallet row it *)
(* read at each of its statements.  The second half is about requests that *)
(* overlap on different wallets only: their commits are the operations of  *)
(* WalletLedger, whose theorems hold of them.                              *)
(***************************************************************************)
EXTENDS CardTransactions, Sums, TLAPS

\* UNCHANGED transfers is about the three variables it stands for.
USE DEF transfers

Row       == [available : Int, reserved : Int]
CardSteps == AuthorizeSteps \cup ClearSteps \cup ReverseSteps

\* A request at statement s with payload j that last read row: the payload
\* names a row of the table the handler works on and the amount comes from
\* there; the wallet row was committed once, and covers the amount from the
\* statement on that compares the two.
Knows(s, j, row) ==
  /\ s \in CardSteps      => j.ref \in Refs
  /\ s \in AuthorizeSteps => j.amount = Hold[j.ref]
  /\ s \in ReverseSteps   => j.amount > 0
  /\ s \in CreditSteps    => j.ref \in Transfers /\ j.amount > 0
  /\ row.available >= 0 /\ row.reserved >= 0
  /\ s \in {"hold", "approved"} => j.amount > 0 /\ row.available >= j.amount
  /\ s \in {"settle", "mark_cleared", "cleared", "release", "mark_reversed", "reversed"} =>
       row.reserved >= j.amount

\* reserve_balance refuses amounts that are not positive.
HoldsPositive == \A r \in Refs : auths[r] = "authorized" => Hold[r] > 0

NonNegative ==
  \A w \in Wallets : wallet[w].available >= 0 /\ wallet[w].reserved >= 0

Inv ==
  /\ TypeOK
  /\ \A p \in Workers : Knows(pc[p], job[p], seen[p])
  /\ HoldsPositive
  /\ NonNegative

-----------------------------------------------------------------------------
(* Steps of one request                                                    *)

\* A step that gives p the statement s, the payload j and the row read.
Moves(p, s, j, row) ==
  /\ pc'   = [pc EXCEPT ![p] = s]
  /\ job'  = [job EXCEPT ![p] = j]
  /\ seen' = [seen EXCEPT ![p] = row]

\* An idle worker has no payload and has seen nothing.
LEMMA NothingKnown == NoJob \in Jobs /\ NoRow \in Row /\ Knows("idle", NoJob, NoRow)
  BY DEF NoJob, NoRow, Jobs, Row, Knows, CardSteps, AuthorizeSteps, ClearSteps,
         ReverseSteps, CreditSteps

\* What the other requests know does not depend on p.
LEMMA MoveLocal ==
  ASSUME Inv, NEW p \in Workers, NEW s \in Steps \cup {"idle"}, NEW j \in Jobs,
         NEW row \in Row, Knows(s, j, row), Moves(p, s, j, row)
  PROVE  /\ pc'   \in [Workers -> Steps \cup {"idle"}]
         /\ job'  \in [Workers -> Jobs]
         /\ seen' \in [Workers -> Row]
         /\ \A q \in Workers : Knows(pc'[q], job'[q], seen'[q])
<1> USE DEF Moves
<1>1. /\ pc   \in [Workers -> Steps \cup {"idle"}]
      /\ job  \in [Workers -> Jobs]
      /\ seen \in [Workers -> Row]
  BY DEF Inv, TypeOK, Row
<1>2. \A q \in Workers : Knows(pc[q], job[q], seen[q])
  BY DEF Inv
<1>3. ASSUME NEW q \in Workers PROVE Knows(pc'[q], job'[q], seen'[q])
  <2>1. CASE q = p
    <3>1. pc'[q] = s /\ job'[q] = j /\ seen'[q] = row
      BY <1>1, <2>1
    <3> QED
      BY <3>1
  <2>2. CASE q # p
    <3>1. pc'[q] = pc[q] /\ job'[q] = job[q] /\ seen'[q] = seen[q]
      BY <1>1, <2>2
    <3> QED
      BY <1>2, <3>1
  <2> QED
    BY <2>1, <2>2
<1> QED
  BY <1>1, <1>3

\* A step that moves one request and changes no committed row.
LEMMA MoveInv ==
  ASSUME Inv, NEW p \in Workers, NEW s \in Steps \cup {"idle"}, NEW j \in Jobs,
         NEW row \in Row, Knows(s, j, row), Moves(p, s, j, row),
         UNCHANGED rows, stale' \in SUBSET Workers
  PROVE  Inv'
<1>1. UNCHANGED <<active, wallet, auths, clearings, transfers, credits, debits>>
  BY DEF rows
<1>2. TypeOK'
  BY <1>1, MoveLocal DEF Inv, TypeOK, Row
<1>3. HoldsPositive' /\ NonNegative'
  BY <1>1 DEF Inv, HoldsPositive, NonNegative
<1> QED
  BY <1>2, <1>3, MoveLocal DEF Inv

\* A request that knows what to do next works on a wallet that exists.
LEMMA WalletKnown ==
  ASSUME Inv, NEW p \in Workers, pc[p] \in Steps
  PROVE  /\ WalletFor(p) \in Wallets
         /\ wallet[WalletFor(p)] \in Row
         /\ wallet[WalletFor(p)].available >= 0
         /\ wallet[WalletFor(p)].reserved >= 0
<1>1. Knows(pc[p], job[p], seen[p])
  BY DEF Inv
<1>2. CASE pc[p] \in CreditSteps
  <2>1. job[p].ref \in Transfers
    BY <1>1, <1>2 DEF Knows
  <2> QED
    BY <2>1, <1>2, TransactionsAssumption DEF WalletFor, Inv, TypeOK, NonNegative, Row
<1>3. CASE pc[p] \notin CreditSteps
  <2>1. job[p].ref \in Refs
    BY <1>1, <1>3 DEF Knows, Steps, CardSteps
  <2>2. CardOf[job[p].ref] \in Cards /\ WalletOf[job[p].ref] \in Wallets
    BY <2>1, TransactionsAssumption DEF WalletOf
  <2> QED
    BY <2>2, <1>3 DEF WalletFor, Inv, TypeOK, NonNegative, Row
<1> QED
  BY <1>2, <1>3

\* The four shapes of a step that changes no committed row: first, the
\* arrival of a request.
LEMMA BeginInv ==
  ASSUME Inv, NEW p \in Workers, NEW ref \in Refs \cup Transfers, NEW n \in Int,
         NEW s \in Steps, Begin(p, ref, n, s),
         Knows(s, [ref |-> ref, amount |-> n], seen[p])
  PROVE  Inv'
<1>1. seen[p] \in Row /\ [ref |-> ref, amount |-> n] \in Jobs
  BY DEF Inv, TypeOK, Row, Jobs
<1>2. Moves(p, s, [ref |-> ref, amount |-> n], seen[p])
  BY DEF Begin, Goto, Moves, Inv, TypeOK
<1>3. UNCHANGED rows /\ stale' \in SUBSET Workers
  BY DEF Begin, Inv, TypeOK
<1> QED
  BY <1>1, <1>2, <1>3, MoveInv

\* A step that moves on with the same payload and the same wallet row.
LEMMA ProceedInv ==
  ASSUME Inv, NEW p \in Workers, NEW s \in Steps, Proceed(p, s),
         Knows(s, job[p], seen[p])
  PROVE  Inv'
<1>1. seen[p] \in Row /\ job[p] \in Jobs
  BY DEF Inv, TypeOK, Row
<1>2. Moves(p, s, job[p], seen[p])
  BY DEF Proceed, Goto, Moves, Inv, TypeOK
<1>3. UNCHANGED rows /\ stale' \in SUBSET Workers
  BY DEF Proceed, Inv, TypeOK
<1> QED
  BY <1>1, <1>2, <1>3, MoveInv

\* A step that reads the wallet row again.
LEMMA ReadInv ==
  ASSUME Inv, NEW p \in Workers, NEW s \in Steps, pc[p] \in Steps, ReadWallet(p, s),
         Knows(s, job[p], wallet[WalletFor(p)])
  PROVE  Inv'
<1>1. wallet[WalletFor(p)] \in Row /\ job[p] \in Jobs
  BY WalletKnown DEF Inv, TypeOK
<1>2. Moves(p, s, job[p], wallet[WalletFor(p)])
  BY DEF ReadWallet, Goto, Moves, Inv, TypeOK
<1>3. UNCHANGED rows /\ stale' \in SUBSET Workers
  BY DEF ReadWallet, Inv, TypeOK
<1> QED
  BY <1>1, <1>2, <1>3, MoveInv

\* The end of a request that is rolled back.
LEMMA RollbackInv ==
  ASSUME Inv, NEW p \in Workers, Rollback(p)
  PROVE  Inv'
<1>1. Moves(p, "idle", NoJob, NoRow)
  BY DEF Rollback, End, Moves
<1>2. UNCHANGED rows /\ stale' \in SUBSET Workers
  BY DEF Rollback, Inv, TypeOK
<1> QED
  BY <1>1, <1>2, NothingKnown, MoveInv

\* A commit ends the request and installs a row that overdraws nothing.
LEMMA CommitInv ==
  ASSUME Inv, NEW p \in Workers, pc[p] \in Steps, NEW row \in Row,
         row.available >= 0, row.reserved >= 0, CommitWallet(p, row), End(p),
         TypeOK', HoldsPositive'
  PROVE  Inv'
<1>1. Moves(p, "idle", NoJob, NoRow)
  BY DEF End, Moves
<1>2. \A q \in Workers : Knows(pc'[q], job'[q], seen'[q])
  BY <1>1, NothingKnown, MoveLocal
<1>3. NonNegative'
  BY WalletKnown DEF CommitWallet, NonNegative, Inv, TypeOK, Row
<1> QED
  BY <1>2, <1>3 DEF Inv

\* The part of TypeOK that a commit shares with the others.
LEMMA CommitTypes ==
  ASSUME Inv, NEW p \in Workers, NEW row \in Row, CommitWallet(p, row), End(p)
  PROVE  /\ wallet' \in [Wallets -> Row]
         /\ stale'  \in SUBSET Workers
         /\ pc'   \in [Workers -> Steps \cup {"idle"}]
         /\ job'  \in [Workers -> Jobs]
         /\ seen' \in [Workers -> Row]
<1>1. Moves(p, "idle", NoJob, NoRow)
  BY DEF End, Moves
<1>2. stale' \in SUBSET Workers
  BY DEF CommitWallet, Inv, TypeOK
<1>3. wallet' \in [Wallets -> Row]
  BY DEF CommitWallet, Inv, TypeOK, Row
<1> QED
  BY <1>1, <1>2, <1>3, NothingKnown, MoveLocal

-----------------------------------------------------------------------------
(* The handlers                                                            *)

\* TransactionService.authorize, statement by statement.
LEMMA AuthorizeInv ==
  ASSUME Inv, NEW p \in Workers,
         \/ \E r \in Refs : Authorize(p, r)
         \/ CheckControls(p) \/ CheckBalance(p) \/ InsertAuthorization(p)
         \/ Reserve(p) \/ HoldAmount(p) \/ CommitApproved(p) \/ CommitDeclined(p)
  PROVE  Inv'
<1>0. Knows(pc[p], job[p], seen[p])
  BY DEF Inv
<1> DEFINE s1 == {"limit", "balance", "insert", "insert_declined", "reserve", "declined"}
<1>1. \A s \in s1 : s \in Steps
  BY DEF Steps, AuthorizeSteps
<1>2. ASSUME pc[p] \in AuthorizeSteps, NEW s \in s1 PROVE Knows(s, job[p], seen[p])
  BY <1>0, <1>2 DEF Knows, CardSteps, AuthorizeSteps, ClearSteps, ReverseSteps, CreditSteps
<1>3. ASSUME NEW r \in Refs, Authorize(p, r) PROVE Inv'
  <2>1. ASSUME NEW s \in {"limit", "insert_declined"}
        PROVE  Knows(s, [ref |-> r, amount |-> Hold[r]], seen[p])
    BY <1>0 DEF Knows, CardSteps, AuthorizeSteps, ClearSteps, ReverseSteps, CreditSteps
  <2>2. Hold[r] \in Int
    BY TransactionsAssumption
  <2>3. PICK s \in {"limit", "insert_declined"} : Begin(p, r, Hold[r], s)
    BY <1>3 DEF Authorize
  <2> QED
    BY <2>1, <2>2, <2>3, <1>1, BeginInv
<1>4. CASE CheckControls(p)
  BY <1>4, <1>1, <1>2, ProceedInv DEF CheckControls, AuthorizeSteps
<1>5. CASE CheckBalance(p)
  BY <1>5, <1>1, <1>2, ProceedInv DEF CheckBalance, AuthorizeSteps
<1>6. CASE InsertAuthorization(p)
  BY <1>6, <1>1, <1>2, ProceedInv, RollbackInv DEF InsertAuthorization, AuthorizeSteps
<1>7. CASE Reserve(p)
  <2>1. pc[p] \in AuthorizeSteps /\ pc[p] \in Steps
    BY <1>7 DEF Reserve, AuthorizeSteps, Steps
  <2>2. ASSUME NEW s \in {"hold", "declined"},
               s = "hold" => job[p].amount > 0
                              /\ wallet[WalletFor(p)].available >= job[p].amount
        PROVE  Knows(s, job[p], wallet[WalletFor(p)])
    BY <1>0, <2>1, <2>2, WalletKnown
       DEF Knows, CardSteps, AuthorizeSteps, ClearSteps, ReverseSteps, CreditSteps
  <2>3. PICK s \in {"hold", "declined"} :
          /\ ReadWallet(p, s)
          /\ s = "hold" => job[p].amount > 0
                             /\ wallet[WalletFor(p)].available >= job[p].amount
    BY <1>7 DEF Reserve
  <2>4. s \in Steps
    BY DEF Steps, AuthorizeSteps
  <2> QED
    BY <2>1, <2>2, <2>3, <2>4, ReadInv
<1>8. CASE HoldAmount(p)
  <2>1. Knows("approved", job[p], seen[p]) /\ "approved" \in Steps
    BY <1>0, <1>8 DEF HoldAmount, Knows, Steps, CardSteps, AuthorizeSteps, ClearSteps,
                      ReverseSteps, CreditSteps
  <2> QED
    BY <1>8, <2>1, ProceedInv DEF HoldAmount
<1>9. CASE CommitApproved(p)
  <2> DEFINE row == [available |-> seen[p].available - job[p].amount,
                     reserved  |-> seen[p].reserved + job[p].amount]
  <2>1. pc[p] \in Steps /\ job[p].ref \in Refs /\ Hold[job[p].ref] > 0
    BY <1>0, <1>9 DEF CommitApproved, Knows, Steps, CardSteps, AuthorizeSteps
  <2>2. row \in Row /\ row.available >= 0 /\ row.reserved >= 0
    BY <1>0, <1>9 DEF CommitApproved, Knows, Inv, TypeOK, Row, Jobs
  <2>3. CommitWallet(p, row) /\ End(p)
    BY <1>9 DEF CommitApproved
  <2>4. /\ auths' = [auths EXCEPT ![job[p].ref] = "authorized"]
        /\ UNCHANGED <<active, clearings, transfers, credits, debits>>
    BY <1>9 DEF CommitApproved
  <2> HIDE DEF row
  <2>5. TypeOK'
    BY <2>2, <2>3, <2>4, CommitTypes DEF Inv, TypeOK, Row
  <2>6. HoldsPositive'
    BY <2>1, <2>4 DEF HoldsPositive, Inv, TypeOK
  <2> QED
    BY <2>1, <2>2, <2>3, <2>5, <2>6, CommitInv
<1>10. CASE CommitDeclined(p)
  <2>1. Moves(p, "idle", NoJob, NoRow)
    BY <1>10 DEF CommitDeclined, End, Moves
  <2>2. /\ auths' = [auths EXCEPT ![job[p].ref] = "declined"]
        /\ UNCHANGED <<active, wallet, clearings, transfers, credits, debits, stale>>
    BY <1>10 DEF CommitDeclined
  <2>3. TypeOK'
    BY <2>1, <2>2, NothingKnown, MoveLocal DEF Inv, TypeOK, Row
  <2>4. HoldsPositive' /\ NonNegative'
    BY <2>2 DEF Inv, TypeOK, HoldsPositive, NonNegative
  <2> QED
    BY <2>1, <2>3, <2>4, NothingKnown, MoveLocal DEF Inv
<1> QED
  BY <1>3, <1>4, <1>5, <1>6, <1>7, <1>8, <1>9, <1>10

\* TransactionService.process_clearing, statement by statement.
LEMMA ClearingInv ==
  ASSUME Inv, NEW p \in Workers,
         \/ \E r \in Refs : \E n \in ClearedAmounts : Clearing(p, r, n)
         \/ RecordClearing(p) \/ ReadForSettle(p) \/ Settle(p) \/ CommitCleared(p)
  PROVE  Inv'
<1>0. Knows(pc[p], job[p], seen[p])
  BY DEF Inv
<1> USE DEF ClearSteps
<1>1. ASSUME NEW r \in Refs, NEW n \in ClearedAmounts, Clearing(p, r, n) PROVE Inv'
  <2>1. Knows("record", [ref |-> r, amount |-> n], seen[p]) /\ "record" \in Steps
    BY <1>0 DEF Knows, Steps, CardSteps, AuthorizeSteps, ReverseSteps, CreditSteps
  <2>2. n \in Int
    BY TransactionsAssumption
  <2> QED
    BY <1>1, <2>1, <2>2, BeginInv DEF Clearing
<1>2. CASE RecordClearing(p)
  <2>1. Knows("settle_read", job[p], seen[p]) /\ "settle_read" \in Steps
    BY <1>0, <1>2
       DEF RecordClearing, Knows, Steps, CardSteps, AuthorizeSteps, ReverseSteps, CreditSteps
  <2> QED
    BY <1>2, <2>1, ProceedInv, RollbackInv DEF RecordClearing
<1>3. CASE ReadForSettle(p)
  <2>1. CASE wallet[WalletFor(p)].reserved < job[p].amount
    BY <1>3, <2>1, RollbackInv DEF ReadForSettle
  <2>2. CASE ~(wallet[WalletFor(p)].reserved < job[p].amount)
    <3>1. pc[p] \in Steps /\ "settle" \in Steps
      BY <1>3 DEF ReadForSettle, Steps
    <3>2. job[p].amount \in Int /\ wallet[WalletFor(p)].reserved \in Int
      BY <3>1, WalletKnown DEF Inv, TypeOK, Jobs, Row
    <3>3. Knows("settle", job[p], wallet[WalletFor(p)])
      BY <1>0, <1>3, <2>2, <3>1, <3>2, WalletKnown
         DEF ReadForSettle, Knows, CardSteps, AuthorizeSteps, ReverseSteps, CreditSteps
    <3> QED
      BY <1>3, <2>2, <3>1, <3>3, ReadInv DEF ReadForSettle
  <2> QED
    BY <2>1, <2>2
<1>4. CASE Settle(p)
  <2>1. Knows("mark_cleared", job[p], seen[p]) /\ "mark_cleared" \in Steps
    BY <1>0, <1>4
       DEF Settle, Knows, Steps, CardSteps, AuthorizeSteps, ReverseSteps, CreditSteps
  <2> QED
    BY <1>4, <2>1, ProceedInv DEF Settle
<1>5. CASE CommitCleared(p)
  <2> DEFINE w   == WalletFor(p)
             n   == job[p].amount
             row == IF n = 0 THEN wallet[w]
                    ELSE [wallet[w] EXCEPT !.reserved = seen[p].reserved - n]
  <2>1. pc[p] \in Steps /\ job[p].ref \in Refs /\ w \in Wallets
    <3>1. pc[p] \in Steps /\ job[p].ref \in Refs
      BY <1>0, <1>5 DEF CommitCleared, Knows, Steps, CardSteps
    <3> QED
      BY <3>1, WalletKnown
  <2>2. /\ n \in Int /\ seen[p].reserved \in Int /\ seen[p].reserved >= n
    BY <1>0, <1>5 DEF CommitCleared, Knows, Inv, TypeOK, Jobs
  <2>3. row \in Row /\ row.available >= 0 /\ row.reserved >= 0
    BY <2>1, <2>2, WalletKnown DEF Row
  <2>4. CommitWallet(p, row) /\ End(p)
    BY <1>5 DEF CommitCleared
  <2>5. /\ auths'     = [auths EXCEPT ![job[p].ref] = "cleared"]
        /\ clearings' = [clearings EXCEPT ![job[p].ref] = Append(@, n)]
        /\ debits'    = [debits EXCEPT ![w] = @ + n]
        /\ UNCHANGED <<active, transfers, credits>>
    BY <1>5 DEF CommitCleared
  <2> HIDE DEF row, w, n
  <2>6. clearings' \in [Refs -> Seq(Int)]
    <3>1. clearings \in [Refs -> Seq(Int)]
      BY DEF Inv, TypeOK
    <3>2. Append(clearings[job[p].ref], n) \in Seq(Int)
      BY <2>1, <2>2, <3>1
    <3> QED
      BY <2>1, <2>5, <3>1, <3>2
  <2>7. debits' \in [Wallets -> Int]
    <3>1. debits \in [Wallets -> Int] /\ debits[w] + n \in Int
      BY <2>1, <2>2 DEF Inv, TypeOK
    <3> QED
      BY <2>5, <3>1
  <2>8. TypeOK'
    BY <2>3, <2>4, <2>5, <2>6, <2>7, CommitTypes DEF Inv, TypeOK, Row
  <2>9. HoldsPositive'
    BY <2>1, <2>5 DEF HoldsPositive, Inv, TypeOK
  <2> QED
    BY <2>1, <2>3, <2>4, <2>8, <2>9, CommitInv
<1> QED
  BY <1>1, <1>2, <1>3, <1>4, <1>5

\* TransactionService.process_reversal, statement by statement.
LEMMA ReversalInv ==
  ASSUME Inv, NEW p \in Workers,
         \/ \E r \in Refs : Reversal(p, r)
         \/ ReadForRelease(p) \/ Release(p) \/ CommitReversed(p)
  PROVE  Inv'
<1>0. Knows(pc[p], job[p], seen[p])
  BY DEF Inv
<1> USE DEF ReverseSteps
<1>1. ASSUME NEW r \in Refs, Reversal(p, r) PROVE Inv'
  <2>1. Hold[r] \in Int /\ Hold[r] > 0
    BY <1>1, TransactionsAssumption DEF Reversal, Inv, HoldsPositive
  <2>2. Knows("release_read", [ref |-> r, amount |-> Hold[r]], seen[p])
    BY <1>0, <2>1 DEF Knows, CardSteps, AuthorizeSteps, ClearSteps, CreditSteps
  <2>3. "release_read" \in Steps
    BY DEF Steps
  <2> QED
    BY <1>1, <2>1, <2>2, <2>3, BeginInv DEF Reversal
<1>2. CASE ReadForRelease(p)
  <2>1. CASE wallet[WalletFor(p)].reserved < job[p].amount
    BY <1>2, <2>1, RollbackInv DEF ReadForRelease
  <2>2. CASE ~(wallet[WalletFor(p)].reserved < job[p].amount)
    <3>1. pc[p] \in Steps /\ "release" \in Steps
      BY <1>2 DEF ReadForRelease, Steps
    <3>2. job[p].amount \in Int /\ wallet[WalletFor(p)].reserved \in Int
      BY <3>1, WalletKnown DEF Inv, TypeOK, Jobs, Row
    <3>3. Knows("release", job[p], wallet[WalletFor(p)])
      BY <1>0, <1>2, <2>2, <3>1, <3>2, WalletKnown
         DEF ReadForRelease, Knows, CardSteps, AuthorizeSteps, ClearSteps, CreditSteps
    <3> QED
      BY <1>2, <2>2, <3>1, <3>3, ReadInv DEF ReadForRelease
  <2> QED
    BY <2>1, <2>2
<1>3. CASE Release(p)
  <2>1. Knows("mark_reversed", job[p], seen[p]) /\ "mark_reversed" \in Steps
    BY <1>0, <1>3
       DEF Release, MarkAuthorization, Knows, Steps, CardSteps, AuthorizeSteps, ClearSteps, CreditSteps
  <2> QED
    BY <1>3, <2>1, ProceedInv DEF Release
<1>4. CASE CommitReversed(p)
  <2> DEFINE row == [available |-> seen[p].available + job[p].amount,
                     reserved  |-> seen[p].reserved - job[p].amount]
  <2>1. pc[p] \in Steps /\ job[p].ref \in Refs
    BY <1>0, <1>4 DEF CommitReversed, Knows, Steps, CardSteps
  <2>2. row \in Row /\ row.available >= 0 /\ row.reserved >= 0
    BY <1>0, <1>4 DEF CommitReversed, Knows, Inv, TypeOK, Row, Jobs
  <2>3. CommitWallet(p, row) /\ End(p)
    BY <1>4 DEF CommitReversed
  <2>4. /\ auths' = [auths EXCEPT ![job[p].ref] = "reversed"]
        /\ UNCHANGED <<active, clearings, transfers, credits, debits>>
    BY <1>4 DEF CommitReversed
  <2> HIDE DEF row
  <2>5. TypeOK'
    BY <2>2, <2>3, <2>4, CommitTypes DEF Inv, TypeOK, Row
  <2>6. HoldsPositive'
    BY <2>1, <2>4 DEF HoldsPositive, Inv, TypeOK
  <2> QED
    BY <2>1, <2>2, <2>3, <2>5, <2>6, CommitInv
<1> QED
  BY <1>1, <1>2, <1>3, <1>4

\* The UPDATE of the authorization row in either of them.
LEMMA MarkInv ==
  ASSUME Inv, NEW p \in Workers, MarkAuthorization(p)
  PROVE  Inv'
<1>0. Knows(pc[p], job[p], seen[p])
  BY DEF Inv
<1>1. CASE pc[p] = "mark_cleared" /\ Proceed(p, "cleared")
  <2>1. Knows("cleared", job[p], seen[p]) /\ "cleared" \in Steps
    BY <1>0, <1>1
       DEF Knows, Steps, CardSteps, AuthorizeSteps, ClearSteps, ReverseSteps, CreditSteps
  <2> QED
    BY <1>1, <2>1, ProceedInv
<1>2. CASE pc[p] = "mark_reversed" /\ Proceed(p, "reversed")
  <2>1. Knows("reversed", job[p], seen[p]) /\ "reversed" \in Steps
    BY <1>0, <1>2
       DEF Knows, Steps, CardSteps, AuthorizeSteps, ClearSteps, ReverseSteps, CreditSteps
  <2> QED
    BY <1>2, <2>1, ProceedInv
<1> QED
  BY <1>1, <1>2 DEF MarkAuthorization

\* WalletService.credit_from_funding, statement by statement.
LEMMA CreditInv ==
  ASSUME Inv, NEW p \in Workers,
         \/ \E t \in Transfers : CreditFromFunding(p, t)
         \/ ReadForCredit(p) \/ CreditWallet(p) \/ CommitCredited(p)
  PROVE  Inv'
<1>0. Knows(pc[p], job[p], seen[p])
  BY DEF Inv
<1> USE DEF CreditSteps
<1>1. ASSUME NEW t \in Transfers, CreditFromFunding(p, t) PROVE Inv'
  <2>1. Deposit[t] \in Int /\ Deposit[t] > 0
    BY TransactionsAssumption
  <2>2. Knows("credit_read", [ref |-> t, amount |-> Deposit[t]], seen[p])
    BY <1>0, <2>1 DEF Knows, CardSteps, AuthorizeSteps, ClearSteps, ReverseSteps
  <2>3. "credit_read" \in Steps
    BY DEF Steps
  <2> QED
    BY <1>1, <2>1, <2>2, <2>3, BeginInv DEF CreditFromFunding
<1>2. CASE ReadForCredit(p)
  <2>1. pc[p] \in Steps /\ "credit" \in Steps
    BY <1>2 DEF ReadForCredit, Steps
  <2>2. Knows("credit", job[p], wallet[WalletFor(p)])
    BY <1>0, <1>2, <2>1, WalletKnown
       DEF ReadForCredit, Knows, CardSteps, AuthorizeSteps, ClearSteps, ReverseSteps
  <2> QED
    BY <1>2, <2>1, <2>2, ReadInv DEF ReadForCredit
<1>3. CASE CreditWallet(p)
  <2>1. Knows("credited", job[p], seen[p]) /\ "credited" \in Steps
    BY <1>0, <1>3
       DEF CreditWallet, Knows, Steps, CardSteps, AuthorizeSteps, ClearSteps, ReverseSteps
  <2> QED
    BY <1>3, <2>1, ProceedInv, RollbackInv DEF CreditWallet
<1>4. CASE CommitCredited(p) /\ Outdated(p)
  BY <1>4, RollbackInv DEF CommitCredited
<1>5. CASE CommitCredited(p) /\ ~Outdated(p)
  <2> DEFINE w   == WalletFor(p)
             n   == job[p].amount
             t   == job[p].ref
             row == [wallet[w] EXCEPT !.available = seen[p].available + n]
  <2>1. pc[p] \in Steps /\ t \in Transfers /\ w \in Wallets
    <3>1. pc[p] \in Steps /\ job[p].ref \in Transfers
      BY <1>0, <1>5 DEF CommitCredited, Knows, Steps
    <3> QED
      BY <3>1, WalletKnown
  <2>2. n \in Int /\ n > 0 /\ seen[p].available \in Int /\ seen[p].available >= 0
    BY <1>0, <1>5 DEF CommitCredited, Knows, Inv, TypeOK, Jobs
  <2>3. row \in Row /\ row.available >= 0 /\ row.reserved >= 0
    BY <2>1, <2>2, WalletKnown DEF Row
  <2>4. CommitWallet(p, row) /\ End(p)
    BY <1>5 DEF CommitCredited
  <2>5. /\ waiting' = waiting \ {t}
        /\ entries' = [entries EXCEPT ![t] = @ + 1]
        /\ credits' = [credits EXCEPT ![w] = @ + n]
        /\ UNCHANGED <<active, auths, clearings, settlements, debits>>
    BY <1>5 DEF CommitCredited
  <2> HIDE DEF row, w, n, t
  <2>6. credits' \in [Wallets -> Int]
    <3>1. credits \in [Wallets -> Int] /\ credits[w] + n \in Int
      BY <2>1, <2>2 DEF Inv, TypeOK
    <3> QED
      BY <2>5, <3>1
  <2>7. waiting' \in SUBSET Transfers /\ entries' \in [Transfers -> Nat]
    BY <2>1, <2>5 DEF Inv, TypeOK
  <2>8. TypeOK'
    BY <2>3, <2>4, <2>5, <2>6, <2>7, CommitTypes DEF Inv, TypeOK, Row
  <2>9. HoldsPositive'
    BY <2>5 DEF HoldsPositive, Inv
  <2> QED
    BY <2>1, <2>3, <2>4, <2>8, <2>9, CommitInv
<1> QED
  BY <1>1, <1>2, <1>3, <1>4, <1>5

\* Whoever else writes the state of a transfer.
LEMMA MoveTransferInv ==
  ASSUME Inv, NEW t \in Transfers, Move(t)
  PROVE  Inv'
<1>1. settlements' \in [Transfers -> 0 .. MaxSettlements]
  <2>1. settlements \in [Transfers -> 0 .. MaxSettlements] /\ MaxSettlements \in Nat
    BY TransactionsAssumption DEF Inv, TypeOK
  <2>2. \/ settlements' = settlements
        \/ /\ settlements[t] < MaxSettlements
           /\ settlements' = [settlements EXCEPT ![t] = @ + 1]
    BY DEF Move
  <2> QED
    BY <2>1, <2>2
<1>2. waiting' \in SUBSET Transfers /\ stale' \in SUBSET Workers
  BY DEF Move, Inv, TypeOK
<1>3. UNCHANGED <<active, wallet, auths, clearings, entries, credits, debits, pc, job, seen>>
  BY DEF Move
<1> QED
  BY <1>1, <1>2, <1>3 DEF Inv, TypeOK, HoldsPositive, NonNegative

-----------------------------------------------------------------------------
(* The specification                                                       *)

\* Wallets start empty and workers idle.
LEMMA InvInit == Init => Inv
<1> SUFFICES ASSUME Init PROVE Inv
  OBVIOUS
<1> USE DEF Init
<1>1. NoRow \in Row /\ NoJob \in Jobs
  BY NothingKnown
<1>2. TypeOK
  BY <1>1, TransactionsAssumption DEF TypeOK, Row
<1>3. \A p \in Workers : Knows(pc[p], job[p], seen[p])
  BY NothingKnown
<1>4. HoldsPositive /\ NonNegative
  BY DEF HoldsPositive, NonNegative, NoRow
<1> QED
  BY <1>2, <1>3, <1>4 DEF Inv

\* Every step of every request, and every change of a card, keeps Inv.
LEMMA InvStep == Inv /\ [Next]_vars => Inv'
<1> SUFFICES ASSUME Inv, [Next]_vars PROVE Inv'
  OBVIOUS
<1>1. ASSUME NEW p \in Workers, Deliver(p) PROVE Inv'
  BY <1>1, AuthorizeInv, ClearingInv, ReversalInv, CreditInv DEF Deliver
<1>2. ASSUME NEW p \in Workers, Step(p) PROVE Inv'
  BY <1>2, AuthorizeInv, ClearingInv, ReversalInv, MarkInv, CreditInv DEF Step
<1>3. ASSUME NEW p \in Workers, Fail(p) PROVE Inv'
  BY <1>3, RollbackInv DEF Fail
<1>4. ASSUME NEW c \in Cards, ChangeCard(c) PROVE Inv'
  BY <1>4 DEF ChangeCard, Inv, TypeOK, HoldsPositive, NonNegative
<1>5. ASSUME NEW t \in Transfers, Move(t) PROVE Inv'
  BY <1>5, MoveTransferInv
<1>6. CASE UNCHANGED vars
  BY <1>6 DEF vars, Inv, TypeOK, HoldsPositive, NonNegative
<1> QED
  BY <1>1, <1>2, <1>3, <1>4, <1>5, <1>6 DEF Next

\* In every reachable state, what each request is about to write overdraws
\* nothing: the inductive invariant behind NeverOverdrawn.
THEOREM Invariance == Spec => []Inv
  BY InvInit, InvStep, PTL DEF Spec

\* Every reachable state is well typed.
THEOREM WellTyped == Spec => []TypeOK
<1>1. Inv => TypeOK
  BY DEF Inv
<1> QED
  BY <1>1, Invariance, PTL

\* However many requests overlap, with whatever amounts, and wherever they
\* fail, no committed balance is negative: NoOverdraft of CardTransactions.
THEOREM NeverOverdrawn == Spec => []NoOverdraft
<1>1. Inv => NoOverdraft
  BY DEF Inv, NonNegative, NoOverdraft, Ledger!NoOverdraft
<1> QED
  BY <1>1, Invariance, PTL

-----------------------------------------------------------------------------
(* Unique keys                                                             *)

\* What is inserted and not committed is inserted once and nowhere committed;
\* what is cleared or reversed was decided.
KeysUnique ==
  /\ \A p \in InsertedClearing : clearings[job[p].ref] = << >>
  /\ \A p \in InsertedAuth : auths[job[p].ref] = "none"
  /\ \A p, q \in InsertedClearing : p # q => job[p].ref # job[q].ref
  /\ \A p, q \in InsertedAuth : p # q => job[p].ref # job[q].ref
  /\ \A p \in Workers : pc[p] \in ClearSteps \cup ReverseSteps =>
       auths[job[p].ref] # "none"
  /\ ClearedAtMostOnce

\* The commits that write the tables with a unique key.
Writes(p) == CommitApproved(p) \/ CommitDeclined(p) \/ CommitCleared(p) \/ CommitReversed(p)

\* A step of p, other than those commits, concerns p alone.
Private(p) ==
  /\ UNCHANGED <<auths, clearings>>
  /\ \A q \in Workers \ {p} : pc'[q] = pc[q] /\ job'[q] = job[q]

\* Every step is private, or one of those commits.
LEMMA PrivateOrWrites ==
  ASSUME Inv, [Next]_vars
  PROVE  \/ UNCHANGED <<auths, clearings, pc, job>>
         \/ \E p \in Workers : \/ Writes(p)
                               \/ Deliver(p) /\ Private(p)
                               \/ Step(p) /\ ~Writes(p) /\ Private(p)
                               \/ Rollback(p) /\ Private(p)
<1> USE DEF Inv, TypeOK, Private, Goto, End, rows
<1>1. ASSUME NEW p \in Workers, Rollback(p) PROVE Private(p)
  BY <1>1 DEF Rollback
<1>2. ASSUME NEW p \in Workers, Deliver(p) PROVE Private(p)
  BY <1>2 DEF Deliver, Authorize, Reversal, Clearing, CreditFromFunding, Begin
<1>3. ASSUME NEW p \in Workers, Step(p), ~Writes(p) PROVE Private(p)
  BY <1>1, <1>3 DEF Step, Writes, CheckControls, CheckBalance, InsertAuthorization, Reserve,
     HoldAmount, RecordClearing, ReadForSettle, Settle, ReadForRelease, Release, MarkAuthorization,
     ReadForCredit, CreditWallet, CommitCredited, Proceed, ReadWallet
<1>4. ASSUME NEW c \in Cards, ChangeCard(c) PROVE UNCHANGED <<auths, clearings, pc, job>>
  BY <1>4 DEF ChangeCard
<1>5. ASSUME NEW t \in Transfers, Move(t) PROVE UNCHANGED <<auths, clearings, pc, job>>
  BY <1>5 DEF Move
<1> QED
  BY <1>1, <1>2, <1>3, <1>4, <1>5 DEF Next, Fail, vars

\* Who has inserted a row had it inserted, or waited for its key.
LEMMA Inserts ==
  ASSUME Inv, NEW p \in Workers, Deliver(p) \/ (Step(p) /\ ~Writes(p)) \/ Rollback(p)
  PROVE  /\ pc'[p] \in {"settle_read", "settle", "mark_cleared", "cleared"} =>
              /\ job'[p] = job[p]
              /\ \/ p \in InsertedClearing
                 \/ /\ ~KeyHeld(p, InsertedClearing)
                    /\ clearings[job[p].ref] = << >>
         /\ pc'[p] \in {"reserve", "hold", "approved", "declined"} =>
              /\ job'[p] = job[p]
              /\ \/ p \in InsertedAuth
                 \/ ~KeyHeld(p, InsertedAuth) /\ auths[job[p].ref] = "none"
         /\ pc'[p] \in ClearSteps \cup ReverseSteps =>
              \/ job'[p] = job[p] /\ pc[p] \in ClearSteps \cup ReverseSteps
              \/ auths[job'[p].ref] = "authorized"
<1> USE DEF Inv, TypeOK, Goto, End, Proceed, ReadWallet, InsertedClearing, InsertedAuth,
            ClearSteps, ReverseSteps
<1>1. CASE Rollback(p)
  BY <1>1 DEF Rollback
<1>2. CASE Deliver(p)
  BY <1>2 DEF Deliver, Authorize, Reversal, Clearing, CreditFromFunding, Begin
<1>3. CASE Step(p) /\ ~Writes(p) /\ ~Rollback(p)
  BY <1>3 DEF Step, Writes, CheckControls, CheckBalance, InsertAuthorization, Reserve,
     HoldAmount, RecordClearing, ReadForSettle, Settle, ReadForRelease, Release, MarkAuthorization,
     ReadForCredit, CreditWallet, CommitCredited
<1> QED
  BY <1>1, <1>2, <1>3

\* No step inserts a key twice.
LEMMA KeysUniqueStep == Inv /\ KeysUnique /\ [Next]_vars => KeysUnique'
<1> SUFFICES ASSUME Inv, KeysUnique, [Next]_vars PROVE KeysUnique'
  OBVIOUS
<1> USE DEF KeysUnique, InsertedClearing, InsertedAuth, ClearedAtMostOnce
<1>1. CASE UNCHANGED <<auths, clearings, pc, job>>
  BY <1>1
<1>2. ASSUME NEW p \in Workers, Private(p), Deliver(p) \/ (Step(p) /\ ~Writes(p)) \/ Rollback(p)
      PROVE  KeysUnique'
  <2>1. auths' = auths /\ clearings' = clearings
    BY <1>2 DEF Private
  <2>2. \A q \in Workers \ {p} : pc'[q] = pc[q] /\ job'[q] = job[q]
    BY <1>2 DEF Private
  <2>3. /\ (\A q \in InsertedClearing : clearings[job[q].ref] = << >>)'
        /\ (\A q \in InsertedAuth : auths[job[q].ref] = "none")'
        /\ (\A q \in Workers : pc[q] \in ClearSteps \cup ReverseSteps =>
              auths[job[q].ref] # "none")'
    <3>1. ASSUME NEW q \in Workers, pc'[q] \in {"settle_read", "settle", "mark_cleared", "cleared"}
          PROVE  clearings'[job'[q].ref] = << >>
      BY <1>2, <2>1, <2>2, <3>1, Inserts
    <3>2. ASSUME NEW q \in Workers, pc'[q] \in {"reserve", "hold", "approved", "declined"}
          PROVE  auths'[job'[q].ref] = "none"
      <4>1. CASE q = p
        <5>1. /\ job'[p] = job[p]
              /\ p \in InsertedAuth \/ auths[job[p].ref] = "none"
          BY <1>2, <3>2, <4>1, Inserts
        <5>2. auths[job[p].ref] = "none"
          BY <5>1
        <5> QED
          BY <2>1, <4>1, <5>1, <5>2
      <4>2. CASE q # p
        BY <2>1, <2>2, <3>2, <4>2
      <4> QED
        BY <4>1, <4>2
    <3>3. ASSUME NEW q \in Workers, pc'[q] \in ClearSteps \cup ReverseSteps
          PROVE  auths'[job'[q].ref] # "none"
      BY <1>2, <2>1, <2>2, <3>3, Inserts
    <3> QED
      BY <3>1, <3>2, <3>3
  <2>4. (\A q, r \in InsertedClearing : q # r => job[q].ref # job[r].ref)'
    BY <1>2, <2>2, Inserts DEF KeyHeld
  <2>5. (\A q, r \in InsertedAuth : q # r => job[q].ref # job[r].ref)'
    BY <1>2, <2>2, Inserts DEF KeyHeld
  <2> QED
    BY <2>1, <2>3, <2>4, <2>5
<1>3. ASSUME NEW p \in Workers, Writes(p) PROVE KeysUnique'
  <2>0. Knows(pc[p], job[p], seen[p])
    BY DEF Inv
  <2>1. /\ pc[p] \in {"approved", "declined", "cleared", "reversed"}
        /\ pc'[p] = "idle"
        /\ \A q \in Workers \ {p} : pc'[q] = pc[q] /\ job'[q] = job[q]
    BY <1>3 DEF Writes, CommitApproved, CommitDeclined, CommitCleared, CommitReversed, End,
       Inv, TypeOK
  <2>2. job[p].ref \in Refs
    BY <2>0, <2>1 DEF Knows, CardSteps, AuthorizeSteps, ClearSteps, ReverseSteps
  <2>3. \A q \in Workers : pc[q] \in CardSteps => job[q].ref \in Refs
    BY DEF Inv, Knows
  <2>4. /\ \A r \in Refs \ {job[p].ref} : auths'[r] = auths[r] /\ clearings'[r] = clearings[r]
        /\ auths'[job[p].ref] # "none"
        /\ pc[p] # "cleared" => clearings' = clearings
        /\ pc[p] = "cleared" => clearings'[job[p].ref] = Append(clearings[job[p].ref], job[p].amount)
    BY <1>3, <2>2 DEF Writes, CommitApproved, CommitDeclined, CommitCleared, CommitReversed,
       Inv, TypeOK
  <2>5. (\A q \in InsertedClearing : clearings[job[q].ref] = << >>)'
    BY <2>1, <2>3, <2>4 DEF CardSteps, ClearSteps
  <2>6. (\A q \in InsertedAuth : auths[job[q].ref] = "none")'
    <3>1. pc[p] \in {"cleared", "reversed"} => auths[job[p].ref] # "none"
      BY DEF ClearSteps, ReverseSteps
    <3> QED
      BY <2>1, <2>3, <2>4, <3>1 DEF CardSteps, AuthorizeSteps
  <2>7. (\A q \in Workers : pc[q] \in ClearSteps \cup ReverseSteps =>
           auths[job[q].ref] # "none")'
    BY <2>1, <2>3, <2>4 DEF CardSteps, ClearSteps, ReverseSteps
  <2>8. (\A r \in Refs : Len(clearings[r]) <= 1)'
    <3>1. CASE pc[p] = "cleared"
      <4>1. clearings[job[p].ref] = << >> /\ job[p].amount \in Int
        BY <3>1 DEF Inv, TypeOK, Jobs
      <4>2. Len(Append(<< >>, job[p].amount)) = 1
        BY <4>1
      <4>3. clearings'[job[p].ref] = Append(<< >>, job[p].amount)
        BY <2>4, <3>1, <4>1
      <4>4. \A r \in Refs : r = job[p].ref \/ clearings'[r] = clearings[r]
        BY <2>4
      <4>5. ASSUME NEW r \in Refs PROVE Len(clearings'[r]) <= 1
        <5>1. CASE r = job[p].ref
          <6>1. Len(clearings'[r]) = 1
            BY <4>2, <4>3, <5>1
          <6> QED
            BY <6>1
        <5>2. CASE clearings'[r] = clearings[r]
          <6>1. Len(clearings[r]) <= 1
            BY DEF KeysUnique, ClearedAtMostOnce
          <6> QED
            BY <5>2, <6>1
        <5> QED
          BY <4>4, <5>1, <5>2
      <4> QED
        BY <4>5
    <3>2. CASE pc[p] # "cleared"
      BY <2>4, <3>2
    <3> QED
      BY <3>1, <3>2
  <2> QED
    BY <2>1, <2>5, <2>6, <2>7, <2>8
<1> QED
  BY <1>1, <1>2, <1>3, PrivateOrWrites

\* The keys stay unique.
LEMMA KeysInvariance == Spec => []KeysUnique
<1>1. Init => KeysUnique
  BY DEF Init, KeysUnique, InsertedClearing, InsertedAuth, ClearedAtMostOnce, ClearSteps,
         ReverseSteps
<1>2. Inv /\ KeysUnique /\ [Next]_vars => KeysUnique'
  BY KeysUniqueStep
<1> QED
  BY <1>1, <1>2, Invariance, PTL DEF Spec

\* However many clearings of one authorization overlap, at most one settles.
THEOREM ClearsOnce == Spec => []ClearedAtMostOnce
<1>1. KeysUnique => ClearedAtMostOnce
  BY DEF KeysUnique
<1> QED
  BY <1>1, KeysInvariance, PTL

\* Retried and overlapping deliveries of a request decide it once.
THEOREM DecidesOnce == Spec => DecidedOnce
<1>1. ASSUME Inv, KeysUnique, Next, NEW r \in Refs, auths[r] # "none", auths'[r] # auths[r]
      PROVE  auths'[r] \in {"cleared", "reversed"}
  <2>1. PICK p \in Workers : Writes(p)
    BY <1>1, PrivateOrWrites DEF Private
  <2>2. CASE CommitApproved(p) \/ CommitDeclined(p)
    <3>1. auths[job[p].ref] = "none"
      BY <1>1, <2>2 DEF KeysUnique, InsertedAuth, CommitApproved, CommitDeclined
    <3> QED
      BY <1>1, <2>2, <3>1 DEF CommitApproved, CommitDeclined, Inv, TypeOK
  <2>3. CASE CommitCleared(p) \/ CommitReversed(p)
    BY <1>1, <2>3 DEF CommitCleared, CommitReversed, Inv, TypeOK
  <2> QED
    BY <2>1, <2>2, <2>3 DEF Writes
<1>2. Inv /\ KeysUnique /\ [Next]_vars =>
        [\A r \in Refs : auths[r] # "none" /\ auths'[r] # auths[r]
                           => auths'[r] \in {"cleared", "reversed"}]_vars
  BY <1>1
<1> QED
  BY <1>2, Invariance, KeysInvariance, PTL DEF Spec, DecidedOnce

-----------------------------------------------------------------------------
(* Credits of funding transfers                                            *)

\* A step of p leaves every other request in progress as it was.
LEMMA OthersKept ==
  ASSUME Inv, NEW p \in Workers, Deliver(p) \/ Step(p) \/ Fail(p), NEW q \in Workers \ {p}
  PROVE  pc'[q] = pc[q] /\ job'[q] = job[q] /\ seen'[q] = seen[q]
  BY DEF Inv, TypeOK, Goto, End, Proceed, ReadWallet,
     Deliver, Step, Fail, Authorize, Reversal, Clearing, CreditFromFunding, Begin,
     CheckControls, CheckBalance, InsertAuthorization, Reserve, HoldAmount, CommitApproved,
     CommitDeclined, RecordClearing, ReadForSettle, Settle, CommitCleared, ReadForRelease,
     Release, MarkAuthorization, CommitReversed, ReadForCredit, CreditWallet, CommitCredited, Rollback

\* A credit that nobody outdated found its transfer as it is now.
SnapshotCurrent ==
  \A p \in Workers : pc[p] \in CreditSteps /\ p \notin stale => job[p].ref \in waiting

\* The inductive invariant of the credits.
SettlementInv == SnapshotCurrent /\ CreditedOncePerSettlement

\* Which steps complete a transfer, outdate a snapshot or move a credit on.
LEMMA SettlesOrKeeps ==
  ASSUME Inv, NEW p \in Workers, Deliver(p) \/ Step(p) \/ Fail(p)
  PROVE  /\ (CommitCredited(p) /\ ~Outdated(p)) \/ UNCHANGED <<waiting, settlements, entries>>
         /\ stale \ {p} \subseteq stale'
         /\ pc'[p] \in CreditSteps =>
              /\ stale' = stale
              /\ \/ job'[p].ref \in waiting
                 \/ pc[p] \in CreditSteps /\ job'[p] = job[p]
<1> USE DEF Inv, TypeOK, Goto, End, Proceed, ReadWallet, rows
<1>1. CASE Fail(p) \/ Rollback(p)
  BY <1>1 DEF Fail, Rollback, CreditSteps
<1>2. CASE Deliver(p)
  BY <1>2 DEF Deliver, Authorize, Reversal, Clearing, CreditFromFunding, Begin, CreditSteps
<1>3. CASE /\ ~Rollback(p)
           /\ CommitApproved(p) \/ CommitCleared(p) \/ CommitReversed(p) \/ CommitCredited(p)
  <2>1. pc'[p] = "idle"
    BY <1>3 DEF CommitApproved, CommitCleared, CommitReversed, CommitCredited
  <2>2. \E row : CommitWallet(p, row)
    BY <1>3 DEF CommitApproved, CommitCleared, CommitReversed, CommitCredited
  <2>3. (CommitCredited(p) /\ ~Outdated(p)) \/ UNCHANGED <<waiting, settlements, entries>>
    BY <1>3 DEF CommitApproved, CommitCleared, CommitReversed, CommitCredited
  <2> QED
    BY <2>1, <2>2, <2>3 DEF CreditSteps, CommitWallet
<1>4. CASE /\ Step(p) /\ ~Rollback(p)
           /\ ~CommitApproved(p) /\ ~CommitCleared(p) /\ ~CommitReversed(p) /\ ~CommitCredited(p)
  BY <1>4 DEF Step, CheckControls, CheckBalance, InsertAuthorization, Reserve, HoldAmount,
     CommitDeclined, RecordClearing, ReadForSettle, Settle, ReadForRelease, Release,
     MarkAuthorization, ReadForCredit, CreditWallet, CreditSteps
<1> QED
  BY <1>1, <1>2, <1>3, <1>4

\* The credit that commits found its transfer waiting, and outdates the others.
LEMMA CreditSettles ==
  ASSUME Inv, SnapshotCurrent, NEW p \in Workers, CommitCredited(p), ~Outdated(p)
  PROVE  /\ job[p].ref \in waiting /\ job[p].ref \in Transfers
         /\ waiting' = waiting \ {job[p].ref} /\ settlements' = settlements
         /\ entries' = [entries EXCEPT ![job[p].ref] = @ + 1]
         /\ \A q \in Workers \ {p} :
              pc[q] \in CreditSteps /\ job[q].ref = job[p].ref => q \in stale'
<1>1. pc[p] = "credited" /\ pc[p] \in CreditSteps /\ HoldsWallet(p)
  BY DEF CommitCredited, CreditSteps, HoldsWallet
<1>2. job[p].ref \in Transfers
  BY <1>1 DEF Inv, Knows
<1>3. job[p].ref \in waiting
  BY <1>1 DEF SnapshotCurrent, Outdated
<1>4. \A q \in Workers : pc[q] \in CreditSteps /\ job[q].ref = job[p].ref
                           => WalletFor(q) = WalletFor(p)
  BY <1>1 DEF WalletFor
<1> QED
  BY <1>1, <1>2, <1>3, <1>4 DEF CommitCredited, CommitWallet

\* Whoever moves or credits a transfer outdates the snapshots taken before.
LEMMA SnapshotCurrentStep == Inv /\ SnapshotCurrent /\ [Next]_vars => SnapshotCurrent'
<1> SUFFICES ASSUME Inv, SnapshotCurrent, [Next]_vars PROVE SnapshotCurrent'
  OBVIOUS
<1>1. ASSUME NEW p \in Workers, Deliver(p) \/ Step(p) \/ Fail(p),
             NEW q \in Workers, pc'[q] \in CreditSteps, q \notin stale'
      PROVE  job'[q].ref \in waiting'
  <2>1. CASE q = p
    <3>1. ~CommitCredited(p)
      BY <1>1, <2>1 DEF CommitCredited, Rollback, End, CreditSteps, Inv, TypeOK
    <3> QED
      BY <1>1, <2>1, <3>1, SettlesOrKeeps DEF SnapshotCurrent
  <2>2. CASE q # p
    <3>1. pc'[q] = pc[q] /\ job'[q] = job[q] /\ q \notin stale
      BY <1>1, <2>2, OthersKept, SettlesOrKeeps
    <3>2. job[q].ref \in waiting
      BY <1>1, <3>1 DEF SnapshotCurrent
    <3> QED
      BY <1>1, <2>2, <3>1, <3>2, SettlesOrKeeps, CreditSettles
  <2> QED
    BY <2>1, <2>2
<1>2. ASSUME NEW t \in Transfers, Move(t) PROVE SnapshotCurrent'
  BY <1>2 DEF Move, SnapshotCurrent
<1>3. CASE UNCHANGED <<pc, job, stale, waiting>>
  BY <1>3 DEF SnapshotCurrent
<1>4. \/ \E p \in Workers : Deliver(p) \/ Step(p) \/ Fail(p)
      \/ \E t \in Transfers : Move(t)
      \/ UNCHANGED <<pc, job, stale, waiting>>
  BY DEF Next, ChangeCard, vars
<1> QED
  BY <1>1, <1>2, <1>3, <1>4 DEF SnapshotCurrent

\* A credit uses up the move it found; a move out of the state wastes one.
LEMMA CreditedStep ==
  Inv /\ SettlementInv /\ [Next]_vars => CreditedOncePerSettlement'
<1> SUFFICES ASSUME Inv, SettlementInv, [Next]_vars, NEW s \in Transfers
             PROVE  entries'[s] + (IF s \in waiting' THEN 1 ELSE 0) <= settlements'[s]
  BY DEF CreditedOncePerSettlement
<1>1. /\ entries \in [Transfers -> Nat]
      /\ settlements \in [Transfers -> 0 .. MaxSettlements] /\ MaxSettlements \in Nat
      /\ entries[s] + (IF s \in waiting THEN 1 ELSE 0) <= settlements[s]
  BY TransactionsAssumption DEF Inv, TypeOK, SettlementInv, CreditedOncePerSettlement
<1>2. entries[s] \in Nat /\ settlements[s] \in Nat
  BY <1>1
<1>3. ASSUME NEW p \in Workers, CommitCredited(p), ~Outdated(p)
      PROVE  entries'[s] + (IF s \in waiting' THEN 1 ELSE 0) <= settlements'[s]
  <2> DEFINE t == job[p].ref
  <2>1. /\ t \in waiting /\ waiting' = waiting \ {t} /\ settlements' = settlements
        /\ entries' = [entries EXCEPT ![t] = @ + 1] /\ t \in Transfers
    BY <1>3, CreditSettles DEF SettlementInv
  <2> HIDE DEF t
  <2>2. CASE s = t
    <3>1. entries'[s] = entries[s] + 1 /\ s \notin waiting' /\ s \in waiting
      BY <1>1, <2>1, <2>2
    <3> QED
      BY <1>1, <1>2, <2>1, <3>1
  <2>3. CASE s # t
    <3>1. entries'[s] = entries[s] /\ (s \in waiting' <=> s \in waiting)
      BY <1>1, <2>1, <2>3
    <3> QED
      BY <1>1, <1>2, <2>1, <3>1
  <2> QED
    BY <2>2, <2>3
<1>4. ASSUME NEW t \in Transfers, Move(t)
      PROVE  entries'[s] + (IF s \in waiting' THEN 1 ELSE 0) <= settlements'[s]
  <2>1. entries' = entries
    BY <1>4 DEF Move
  <2>2. \/ UNCHANGED settlements /\ waiting' = waiting \ {t}
        \/ /\ t \notin waiting /\ waiting' = waiting \cup {t}
           /\ settlements' = [settlements EXCEPT ![t] = @ + 1]
    BY <1>4 DEF Move
  <2> QED
    BY <1>1, <1>2, <2>1, <2>2
<1>5. CASE UNCHANGED <<waiting, settlements, entries>>
  BY <1>1, <1>5
<1>6. \/ \E p \in Workers : CommitCredited(p) /\ ~Outdated(p)
      \/ \E t \in Transfers : Move(t)
      \/ UNCHANGED <<waiting, settlements, entries>>
  BY SettlesOrKeeps DEF Next, ChangeCard, vars
<1> QED
  BY <1>3, <1>4, <1>5, <1>6

\* The invariant of the credits.
LEMMA SettlementInvariance == Spec => []SettlementInv
<1>1. Init => SettlementInv
  BY DEF Init, SettlementInv, SnapshotCurrent, CreditedOncePerSettlement, CreditSteps
<1>2. Inv /\ SettlementInv /\ [Next]_vars => SettlementInv'
  BY SnapshotCurrentStep, CreditedStep DEF SettlementInv
<1> QED
  BY <1>1, <1>2, Invariance, PTL DEF Spec

\* However many callers credit one transfer at the same time, and whoever
\* moves it meanwhile, every time it began to await settlement is worth one
\* CREDIT entry at most.
THEOREM CreditsOnce == Spec => []CreditedOncePerSettlement
<1>1. SettlementInv => CreditedOncePerSettlement
  BY DEF SettlementInv
<1> QED
  BY <1>1, SettlementInvariance, PTL

-----------------------------------------------------------------------------
(* The daily limit                                                         *)

\* Between the limit check and the commit of the hold.
Asking == {"balance", "insert", "reserve", "hold", "approved"}

\* Positive holds of card c that are open, or may become so because their
\* limit check is behind them.
Live(c) ==
  {r \in Refs : /\ CardOf[r] = c /\ Hold[r] > 0
                /\ \/ auths[r] = "authorized"
                   \/ \E p \in Workers : pc[p] \in Asking /\ job[p].ref = r}

\* R fits under limit when fewer of it than there are workers are left aside.
Overruns(R, limit) ==
  /\ IsFiniteSet(R)
  /\ \E X \in SUBSET R : /\ Cardinality(X) < Cardinality(Workers)
                         /\ SumFunctionOnSet(Hold, R \ X) <= limit

\* The inductive invariant of the limit.
OverrunInv == \A c \in Cards : DailyLimit[c] # None => Overruns(Live(c), DailyLimit[c])

\* What fits still fits with a part of it only.
LEMMA FewerOverrun ==
  ASSUME NEW R, NEW limit \in Int, Overruns(R, limit), NEW S \in SUBSET R,
         \A r \in R : Hold[r] \in Nat
  PROVE  Overruns(S, limit)
<1>1. PICK X \in SUBSET R : /\ Cardinality(X) < Cardinality(Workers)
                            /\ SumFunctionOnSet(Hold, R \ X) <= limit
  BY DEF Overruns
<1> DEFINE Y == X \cap S
<1>2. IsFiniteSet(R) /\ IsFiniteSet(X) /\ IsFiniteSet(R \ X) /\ IsFiniteSet(S)
  BY FS_Subset DEF Overruns
<1>3. Cardinality(Y) < Cardinality(Workers)
  <2>1. Cardinality(Y) <= Cardinality(X) /\ IsFiniteSet(Y)
    BY <1>2, FS_Subset
  <2> QED
    BY <1>1, <1>2, <2>1, FS_CardinalityType, TransactionsAssumption
<1>4. SumFunctionOnSet(Hold, S \ Y) <= limit
  <2>1. S \ Y \in SUBSET (R \ X)
    OBVIOUS
  <2>2. SumFunctionOnSet(Hold, S \ Y) <= SumFunctionOnSet(Hold, R \ X)
    BY <1>2, <2>1, SumSubset
  <2>3. SumFunctionOnSet(Hold, R \ X) \in Nat /\ SumFunctionOnSet(Hold, S \ Y) \in Nat
    BY <1>2, <2>1, SumNat, FS_Subset
  <2> QED
    BY <1>1, <2>2, <2>3
<1> QED
  BY <1>2, <1>3, <1>4 DEF Overruns

\* The payloads of the workers in S are no more than those.
LEMMA FewPayloads ==
  ASSUME NEW S \in SUBSET Workers, NEW j, NEW Z, \A z \in Z : \E q \in S : j[q].ref = z
  PROVE  IsFiniteSet(Z) /\ Cardinality(Z) <= Cardinality(S)
<1> DEFINE f == [q \in S |-> j[q].ref]
           T == {f[q] : q \in S}
<1>1. IsFiniteSet(S)
  BY FS_Subset, TransactionsAssumption
<1>2. f \in Surjection(S, T)
  BY DEF Surjection
<1>3. IsFiniteSet(T) /\ Cardinality(T) <= Cardinality(S)
  BY <1>1, <1>2, FS_Surjection
<1>4. Z \in SUBSET T
  OBVIOUS
<1>5. IsFiniteSet(Z) /\ Cardinality(Z) <= Cardinality(T)
  BY <1>3, <1>4, FS_Subset
<1> QED
  BY <1>1, <1>3, <1>5, FS_CardinalityType

\* Requests come to count by passing the limit check, and holds by a request
\* that counts.
LEMMA AsksOrKeeps ==
  ASSUME Inv, NEW p \in Workers, Deliver(p) \/ Step(p) \/ Fail(p)
  PROVE  /\ \A r \in Refs : auths'[r] = "authorized" /\ auths[r] # "authorized"
                              => pc[p] = "approved" /\ job[p].ref = r
         /\ pc'[p] \in Asking =>
              /\ job'[p] = job[p]
              /\ \/ pc[p] \in Asking
                 \/ /\ pc[p] = "limit" /\ ~LimitExceeded(job[p].ref)
                    /\ auths' = auths
<1> USE DEF Inv, TypeOK, Goto, End, Proceed, ReadWallet, rows
<1>1. CASE Deliver(p) \/ Fail(p) \/ Rollback(p)
  BY <1>1 DEF Deliver, Authorize, Reversal, Clearing, CreditFromFunding, Begin, Fail, Rollback,
              Asking
<1>2. CASE Writes(p) \/ CommitCredited(p)
  BY <1>2 DEF Writes, CommitApproved, CommitDeclined, CommitCleared, CommitReversed,
              CommitCredited, Rollback, Asking
<1>3. CASE Step(p) /\ ~Rollback(p) /\ ~Writes(p) /\ ~CommitCredited(p)
  BY <1>3 DEF Step, Writes, CheckControls, CheckBalance, InsertAuthorization, Reserve,
     HoldAmount, RecordClearing, ReadForSettle, Settle, ReadForRelease, Release, MarkAuthorization,
     ReadForCredit, CreditWallet, Asking
<1> QED
  BY <1>1, <1>2, <1>3

\* A card for which nobody passes the limit check counts nothing new.
LEMMA LiveShrinks ==
  ASSUME Inv, NEW p \in Workers, Deliver(p) \/ Step(p) \/ Fail(p), NEW c \in Cards,
         ~(pc[p] = "limit" /\ pc'[p] \in Asking /\ job[p].ref \in Live(c)')
  PROVE  Live(c)' \subseteq Live(c)
<1> SUFFICES ASSUME NEW r \in Live(c)' PROVE r \in Live(c)
  OBVIOUS
<1>1. r \in Refs /\ CardOf[r] = c /\ Hold[r] > 0
  BY DEF Live
<1>2. CASE auths'[r] = "authorized"
  BY <1>1, <1>2, AsksOrKeeps DEF Live, Asking
<1>3. CASE \E q \in Workers : pc'[q] \in Asking /\ job'[q].ref = r
  BY <1>1, <1>3, AsksOrKeeps, OthersKept DEF Live, Asking
<1> QED
  BY <1>2, <1>3 DEF Live

\* Who passes the check counts together with what it added up under the
\* limit, and all others that count are requests of other workers.
LEMMA AskingFits ==
  ASSUME Inv, NEW p \in Workers, Deliver(p) \/ Step(p) \/ Fail(p), NEW c \in Cards,
         pc[p] = "limit", pc'[p] \in Asking, job[p].ref \in Live(c)',
         DailyLimit[c] # None, IsFiniteSet(Live(c))
  PROVE  Overruns(Live(c)', DailyLimit[c])
<1> DEFINE r == job[p].ref
           D == OpenHolds(c) \cup {r}
           X == Live(c)' \ D
<1>1. r \in Refs /\ CardOf[r] = c /\ Hold[r] > 0
  BY DEF Live
<1>2. ~LimitExceeded(r) /\ auths' = auths /\ job'[p] = job[p]
  BY AsksOrKeeps DEF Asking
<1>3. DailyTotal(c) + Hold[r] <= DailyLimit[c]
  <2>1. ~(DailyTotal(c) + Hold[r] > DailyLimit[c])
    BY <1>1, <1>2 DEF LimitExceeded
  <2>2. OpenHolds(c) \subseteq Live(c)
    BY DEF OpenHolds, Live, Inv, HoldsPositive
  <2>3. IsFiniteSet(OpenHolds(c)) /\ \A x \in OpenHolds(c) : Hold[x] \in Int
    BY <2>2, FS_Subset, TransactionsAssumption DEF OpenHolds
  <2>4. DailyTotal(c) \in Int
    BY <2>3, SumInt DEF DailyTotal
  <2> QED
    BY <1>1, <2>1, <2>4, TransactionsAssumption
<1>4. OpenHolds(c) \subseteq Live(c) /\ OpenHolds(c) \subseteq Live(c)' /\ D \subseteq Live(c)'
  BY <1>2 DEF OpenHolds, Live, Inv, HoldsPositive
<1>5. IsFiniteSet(OpenHolds(c)) /\ \A x \in D : Hold[x] \in Nat
  BY <1>1, <1>4, FS_Subset, TransactionsAssumption DEF Live
<1>6. SumFunctionOnSet(Hold, D) <= DailyLimit[c]
  <2>1. DailyTotal(c) = SumFunctionOnSet(Hold, OpenHolds(c)) /\ DailyTotal(c) \in Nat
    BY <1>5, SumNat DEF DailyTotal
  <2>2. Hold[r] \in Int /\ Hold[r] > 0 /\ DailyLimit[c] \in Int
    BY <1>1, TransactionsAssumption
  <2>3. CASE r \in OpenHolds(c)
    <3>1. D = OpenHolds(c)
      BY <2>3
    <3> HIDE DEF D, r
    <3> QED
      BY <1>3, <2>1, <2>2, <3>1
  <2>4. CASE r \notin OpenHolds(c)
    <3>1. \A x \in OpenHolds(c) \cup {r} : Hold[x] \in Int
      BY <1>5
    <3>2. SumFunctionOnSet(Hold, D) = Hold[r] + SumFunctionOnSet(Hold, OpenHolds(c))
      <4>1. IsFiniteSet(OpenHolds(c))
        BY <1>5
      <4> HIDE DEF r
      <4> QED
        BY <4>1, <2>4, <3>1, SumAdd
    <3> QED
      BY <1>3, <2>1, <2>2, <3>2
  <2> QED
    BY <2>3, <2>4
<1>7. IsFiniteSet(X) /\ Cardinality(X) <= Cardinality(Workers \ {p})
  <2>1. ASSUME NEW x \in X PROVE \E q \in Workers \ {p} : job'[q].ref = x
    <3>1. x \in Refs /\ x # r /\ CardOf[x] = c /\ auths'[x] # "authorized"
      BY <1>2 DEF Live, OpenHolds
    <3>2. PICK q \in Workers : pc'[q] \in Asking /\ job'[q].ref = x
      BY <3>1 DEF Live
    <3> QED
      BY <1>2, <3>1, <3>2
  <2> QED
    BY <2>1, FewPayloads
<1>8. Cardinality(X) < Cardinality(Workers)
  <2>1. Cardinality(Workers \ {p}) = Cardinality(Workers) - 1
    BY FS_RemoveElement, TransactionsAssumption
  <2>2. Cardinality(X) \in Nat /\ Cardinality(Workers) \in Nat
    BY <1>7, FS_CardinalityType, TransactionsAssumption
  <2> HIDE DEF X
  <2> QED
    BY <1>7, <2>1, <2>2
<1>9. Live(c)' = X \cup D /\ IsFiniteSet(Live(c)')
  <2>1. IsFiniteSet(D)
    BY <1>5, FS_AddElement
  <2>2. Live(c)' = X \cup D
    BY <1>4
  <2> QED
    BY <1>7, <2>1, <2>2, FS_Union
<1>10. Live(c)' \ X = D
  BY <1>4
<1> QED
  BY <1>6, <1>8, <1>9, <1>10 DEF Overruns

\* No step takes a card further than its invariant allows.
LEMMA OverrunStep == Inv /\ OverrunInv /\ [Next]_vars => OverrunInv'
<1> SUFFICES ASSUME Inv, OverrunInv, [Next]_vars, NEW c \in Cards, DailyLimit[c] # None
             PROVE  Overruns(Live(c)', DailyLimit[c])
  BY DEF OverrunInv, Overruns
<1>1. Overruns(Live(c), DailyLimit[c]) /\ DailyLimit[c] \in Int
  BY TransactionsAssumption DEF OverrunInv
<1>2. \A r \in Live(c) : Hold[r] \in Nat
  BY TransactionsAssumption DEF Live
<1>3. ASSUME NEW p \in Workers, Deliver(p) \/ Step(p) \/ Fail(p)
      PROVE  Overruns(Live(c)', DailyLimit[c])
  <2>1. CASE pc[p] = "limit" /\ pc'[p] \in Asking /\ job[p].ref \in Live(c)'
    BY <1>1, <1>3, <2>1, AskingFits DEF Overruns
  <2>2. CASE ~(pc[p] = "limit" /\ pc'[p] \in Asking /\ job[p].ref \in Live(c)')
    <3>1. Live(c)' \in SUBSET Live(c)
      BY <1>3, <2>2, LiveShrinks
    <3> QED
      BY <1>1, <1>2, <3>1, FewerOverrun
  <2> QED
    BY <2>1, <2>2
<1>4. CASE UNCHANGED <<auths, pc, job>>
  BY <1>1, <1>4 DEF Live
<1> QED
  BY <1>3, <1>4 DEF Next, ChangeCard, Move, vars

\* Overlapping requests may take a card beyond its daily limit, and never by
\* more than the holds of one fewer of them than there are workers.
THEOREM OverrunBounded == Spec => []OverrunByOverlap
<1>1. Init => OverrunInv
  <2> SUFFICES ASSUME Init, NEW c \in Cards, DailyLimit[c] # None
               PROVE  Overruns(Live(c), DailyLimit[c])
    BY DEF OverrunInv
  <2>1. Live(c) = {}
    BY DEF Init, Live, Asking
  <2>2. Cardinality({}) = 0 /\ IsFiniteSet({}) /\ Cardinality(Workers) > 0
    BY FS_EmptySet, FS_CardinalityType, TransactionsAssumption
  <2>3. SumFunctionOnSet(Hold, {}) <= DailyLimit[c]
    BY SumEmpty, TransactionsAssumption
  <2> QED
    BY <2>1, <2>2, <2>3 DEF Overruns
<1>2. Inv /\ OverrunInv => OverrunByOverlap
  <2> SUFFICES ASSUME Inv, OverrunInv, NEW c \in Cards, DailyLimit[c] # None
               PROVE  Overruns(OpenHolds(c), DailyLimit[c])
    BY DEF OverrunByOverlap, Overruns
  <2>1. OpenHolds(c) \in SUBSET Live(c)
    BY DEF OpenHolds, Live, Inv, HoldsPositive
  <2>2. \A r \in Live(c) : Hold[r] \in Nat
    BY TransactionsAssumption DEF Live
  <2> QED
    BY <2>1, <2>2, FewerOverrun, TransactionsAssumption DEF OverrunInv
<1> QED
  BY <1>1, <1>2, OverrunStep, Invariance, PTL DEF Spec

-----------------------------------------------------------------------------
(* Requests that overlap on different wallets only                         *)

\* A request here has read the wallet row its commit will overwrite.
Prepared == {"hold", "approved", "settle", "mark_cleared", "cleared",
             "release", "mark_reversed", "reversed", "credit", "credited"}

\* What a request relies on that another one of its wallet could change.
Current(p) ==
  /\ pc[p] \in Prepared => seen[p] = wallet[WalletFor(p)]
  /\ pc[p] \in ClearSteps \cup ReverseSteps => auths[job[p].ref] = "authorized"
  /\ pc[p] \in ClearSteps   => job[p].amount \in ClearedAmounts
  /\ pc[p] \in ReverseSteps => job[p].amount = Hold[job[p].ref]
  /\ pc[p] \in CreditSteps  => job[p].amount = Deposit[job[p].ref]

\* The inductive invariant of SerialSpec.
SerialInv ==
  /\ Inv
  /\ KeysUnique
  /\ SnapshotCurrent
  /\ Separate
  /\ \A p \in Workers : Current(p)

\* A step of SerialSpec.
SerialNext == Next /\ Separate'

\* A step of p changes rows of the wallet p works on only.
LEMMA OneWallet ==
  ASSUME Inv, NEW p \in Workers, Deliver(p) \/ Step(p) \/ Fail(p),
         NEW w \in Wallets, pc[p] # "idle" => w # WalletFor(p)
  PROVE  /\ wallet'[w] = wallet[w]
         /\ \A r \in Refs : WalletOf[r] = w => auths'[r] = auths[r]
<1> USE DEF Inv, TypeOK, rows
<1>1. CASE Deliver(p) \/ Fail(p) \/ Rollback(p)
  BY <1>1 DEF Deliver, Authorize, Reversal, Clearing, CreditFromFunding, Begin, Fail, Rollback
<1>2. CASE CommitApproved(p) \/ CommitCleared(p) \/ CommitReversed(p)
  <2>1. pc[p] \notin CreditSteps /\ WalletOf[job[p].ref] = WalletFor(p) /\ w # WalletFor(p)
    BY <1>2 DEF CommitApproved, CommitCleared, CommitReversed, WalletFor, CreditSteps
  <2>2. wallet'[w] = wallet[w]
    BY <1>2, <2>1 DEF CommitApproved, CommitCleared, CommitReversed, CommitWallet
  <2>3. \A r \in Refs : r # job[p].ref => auths'[r] = auths[r]
    BY <1>2 DEF CommitApproved, CommitCleared, CommitReversed
  <2> QED
    BY <2>1, <2>2, <2>3
<1>3. CASE CommitDeclined(p)
  <2>1. WalletOf[job[p].ref] = WalletFor(p) /\ w # WalletFor(p)
    BY <1>3 DEF CommitDeclined, WalletFor, CreditSteps
  <2> QED
    BY <1>3, <2>1 DEF CommitDeclined
<1>4. CASE CommitCredited(p)
  <2>1. Into[job[p].ref] = WalletFor(p) /\ w # WalletFor(p)
    BY <1>4 DEF CommitCredited, WalletFor, CreditSteps
  <2> QED
    BY <1>4, <2>1 DEF CommitCredited, CommitWallet, Rollback
<1>5. CASE /\ Step(p) /\ ~Rollback(p) /\ ~Writes(p) /\ ~CommitCredited(p)
  BY <1>5 DEF Step, Writes, CheckControls, CheckBalance, InsertAuthorization, Reserve,
     HoldAmount, RecordClearing, ReadForSettle, Settle, ReadForRelease, Release, MarkAuthorization,
     ReadForCredit, CreditWallet, Proceed, ReadWallet
<1> QED
  BY <1>1, <1>2, <1>3, <1>4, <1>5 DEF Writes

\* Other requests go on relying on what they relied on.
LEMMA CurrentKept ==
  ASSUME Inv, Separate, NEW p \in Workers, Deliver(p) \/ Step(p) \/ Fail(p),
         NEW q \in Workers \ {p}, Current(q)
  PROVE  Current(q)'
<1>1. pc'[q] = pc[q] /\ job'[q] = job[q] /\ seen'[q] = seen[q]
  BY OthersKept
<1>2. WalletFor(q)' = WalletFor(q)
  BY <1>1 DEF WalletFor
<1>3. CASE pc[q] = "idle"
  BY <1>1, <1>3 DEF Current, ClearSteps, ReverseSteps, CreditSteps, Prepared
<1>4. CASE pc[q] # "idle"
  <2>1. pc[q] \in Steps
    BY <1>4 DEF Inv, TypeOK
  <2>2. WalletFor(q) \in Wallets /\ Knows(pc[q], job[q], seen[q])
    BY <2>1, WalletKnown DEF Inv
  <2>3. pc[p] # "idle" => WalletFor(q) # WalletFor(p)
    BY <1>4 DEF Separate
  <2>4. /\ wallet'[WalletFor(q)] = wallet[WalletFor(q)]
        /\ \A r \in Refs : WalletOf[r] = WalletFor(q) => auths'[r] = auths[r]
    BY <2>2, <2>3, OneWallet
  <2>5. pc[q] \in ClearSteps \cup ReverseSteps =>
          job[q].ref \in Refs /\ WalletOf[job[q].ref] = WalletFor(q)
    BY <2>2 DEF Knows, CardSteps, WalletFor, ClearSteps, ReverseSteps, CreditSteps
  <2> QED
    BY <1>1, <1>2, <2>4, <2>5 DEF Current
<1> QED
  BY <1>3, <1>4

\* The request that moves reads what it will rely on.
LEMMA CurrentMoved ==
  ASSUME Inv, NEW p \in Workers, Current(p), Deliver(p) \/ Step(p) \/ Fail(p)
  PROVE  Current(p)'
<1> USE DEF Inv, TypeOK, Goto, End, Proceed, ReadWallet, rows, Current
<1>1. CASE Fail(p) \/ Rollback(p) \/ Writes(p) \/ CommitCredited(p)
  <2>1. pc'[p] = "idle"
    BY <1>1 DEF Fail, Rollback, Writes, CommitApproved, CommitDeclined, CommitCleared,
       CommitReversed, CommitCredited
  <2> QED
    BY <2>1 DEF ClearSteps, ReverseSteps, CreditSteps, Prepared
<1>2. CASE Deliver(p)
  BY <1>2 DEF Deliver, Authorize, Reversal, Clearing, CreditFromFunding, Begin,
     ClearSteps, ReverseSteps, CreditSteps, Prepared
<1>3. CASE Step(p) /\ ~Rollback(p) /\ ~Writes(p) /\ ~CommitCredited(p)
  <2>1. job' = job /\ UNCHANGED rows
    BY <1>3 DEF Step, Writes, CheckControls, CheckBalance, InsertAuthorization, Reserve,
       HoldAmount, RecordClearing, ReadForSettle, Settle, ReadForRelease, Release, MarkAuthorization,
       ReadForCredit, CreditWallet
  <2>2. /\ pc'[p] \in ClearSteps   <=> pc[p] \in ClearSteps
        /\ pc'[p] \in ReverseSteps <=> pc[p] \in ReverseSteps
        /\ pc'[p] \in CreditSteps  <=> pc[p] \in CreditSteps
    BY <1>3 DEF Step, Writes, CheckControls, CheckBalance, InsertAuthorization, Reserve,
       HoldAmount, RecordClearing, ReadForSettle, Settle, ReadForRelease, Release, MarkAuthorization,
       ReadForCredit, CreditWallet, ClearSteps, ReverseSteps, CreditSteps
  <2>3. WalletFor(p)' = WalletFor(p)
    BY <2>1, <2>2 DEF WalletFor
  <2>4. pc'[p] \in Prepared => \/ seen'[p] = wallet[WalletFor(p)]
                               \/ seen'[p] = seen[p] /\ pc[p] \in Prepared
    <3>1. CASE Reserve(p) \/ ReadForSettle(p) \/ ReadForRelease(p) \/ ReadForCredit(p)
      <4> HIDE DEF ReadWallet, Rollback
      <4>1. \E s : ReadWallet(p, s)
        BY <1>3, <3>1 DEF Reserve, ReadForSettle, ReadForRelease, ReadForCredit
      <4>2. seen'[p] = wallet[WalletFor(p)]
        BY <4>1 DEF ReadWallet
      <4> QED
        BY <4>2
    <3>2. CASE \/ CheckControls(p) \/ CheckBalance(p) \/ InsertAuthorization(p)
               \/ RecordClearing(p)
      <4> HIDE DEF Proceed, Rollback
      <4>1. \E s : s \notin Prepared /\ Proceed(p, s)
        BY <1>3, <3>2 DEF CheckControls, CheckBalance, InsertAuthorization, RecordClearing,
                          Prepared
      <4> QED
        BY <4>1 DEF Proceed
    <3>3. CASE \/ HoldAmount(p) \/ Settle(p) \/ Release(p) \/ MarkAuthorization(p)
               \/ CreditWallet(p)
      BY <1>3, <3>3 DEF HoldAmount, Settle, Release, MarkAuthorization, CreditWallet,
                        Prepared
    <3> QED
      BY <1>3, <3>1, <3>2, <3>3 DEF Step, Writes
  <2> QED
    BY <2>1, <2>2, <2>3, <2>4
<1> QED
  BY <1>1, <1>2, <1>3

\* Without overlap on a wallet, what was read stays current.
LEMMA SerialStep == SerialInv /\ [SerialNext]_vars => SerialInv'
<1> SUFFICES ASSUME SerialInv, [SerialNext]_vars PROVE SerialInv'
  OBVIOUS
<1>1. Inv' /\ KeysUnique' /\ SnapshotCurrent'
  BY InvStep, KeysUniqueStep, SnapshotCurrentStep DEF SerialInv, SerialNext
<1>2. Separate'
  BY DEF SerialInv, SerialNext, Separate, WalletFor, vars
<1>3. ASSUME NEW p \in Workers, Deliver(p) \/ Step(p) \/ Fail(p), NEW q \in Workers
      PROVE  Current(q)'
  BY <1>3, CurrentKept, CurrentMoved DEF SerialInv
<1>4. ASSUME UNCHANGED <<wallet, auths, pc, job, seen>>, NEW q \in Workers
      PROVE  Current(q)'
  BY <1>4 DEF SerialInv, Current, WalletFor
<1> QED
  BY <1>1, <1>2, <1>3, <1>4 DEF SerialInv, SerialNext, Next, ChangeCard, Move, vars

\* Nothing is in progress at first.
LEMMA SerialInit == Init => SerialInv
<1> SUFFICES ASSUME Init PROVE SerialInv
  OBVIOUS
<1>1. KeysUnique
  BY DEF Init, KeysUnique, InsertedClearing, InsertedAuth, ClearedAtMostOnce, ClearSteps,
     ReverseSteps
<1>2. Separate /\ SnapshotCurrent /\ \A p \in Workers : Current(p)
  BY DEF Init, Separate, SnapshotCurrent, Current, ClearSteps, ReverseSteps, CreditSteps,
         Prepared
<1> QED
  BY <1>1, <1>2, InvInit DEF SerialInv

\* The invariant of the requests that overlap on different wallets only.
LEMMA SerialInvariance == SerialSpec => []SerialInv
<1>1. SerialSpec => Init /\ [][SerialNext]_vars
  BY DEF SerialSpec, SerialNext
<1> QED
  BY <1>1, SerialInit, SerialStep, PTL

\* Each commit is the step of WalletLedger it stands for: a hold is approved,
LEMMA ApprovedIsApprove ==
  ASSUME SerialInv, NEW p \in Workers, CommitApproved(p)
  PROVE  \E r \in Refs : Ledger!Approve(r)
<1> DEFINE r == job[p].ref
           w == WalletFor(p)
<1>1. pc[p] = "approved" /\ Knows("approved", job[p], seen[p]) /\ Current(p)
  BY DEF CommitApproved, SerialInv, Inv
<1>2. r \in Refs /\ job[p].amount = Hold[r] /\ Hold[r] > 0 /\ seen[p].available >= Hold[r]
  BY <1>1 DEF Knows, CardSteps, AuthorizeSteps
<1>3. auths[r] = "none" /\ w = WalletOf[r] /\ seen[p] = wallet[w]
  BY <1>1 DEF SerialInv, KeysUnique, InsertedAuth, WalletFor, Current, CreditSteps, Prepared
<1>4. Ledger!Approve(r)
  BY <1>1, <1>2, <1>3 DEF CommitApproved, CommitWallet, Ledger!Approve, Ledger!transfers
<1> QED
  BY <1>2, <1>4

\* A declined authorization is recorded,
LEMMA DeclinedIsDecline ==
  ASSUME SerialInv, NEW p \in Workers, CommitDeclined(p)
  PROVE  \E r \in Refs : Ledger!Decline(r)
<1>1. pc[p] = "declined" /\ Knows("declined", job[p], seen[p])
  BY DEF CommitDeclined, SerialInv, Inv
<1>2. job[p].ref \in Refs /\ auths[job[p].ref] = "none"
  BY <1>1 DEF Knows, CardSteps, AuthorizeSteps, SerialInv, KeysUnique, InsertedAuth
<1>3. Ledger!Decline(job[p].ref)
  BY <1>2 DEF CommitDeclined, Ledger!Decline, Ledger!transfers
<1> QED
  BY <1>2, <1>3

\* a clearing settled,
LEMMA ClearedIsClear ==
  ASSUME SerialInv, NEW p \in Workers, CommitCleared(p)
  PROVE  \E r \in Refs : \E n \in ClearedAmounts : Ledger!Clear(r, n)
<1> DEFINE r == job[p].ref
           n == job[p].amount
           w == WalletFor(p)
<1>1. pc[p] = "cleared" /\ Knows("cleared", job[p], seen[p]) /\ Current(p)
  BY DEF CommitCleared, SerialInv, Inv
<1>2. r \in Refs /\ n \in ClearedAmounts /\ n \in Int /\ seen[p].reserved >= n
  BY <1>1, TransactionsAssumption DEF Knows, CardSteps, ClearSteps, Current
<1>3. w = WalletOf[r] /\ seen[p] = wallet[w]
  BY <1>1 DEF WalletFor, Current, CreditSteps, Prepared
<1>4. auths[r] = "authorized" /\ clearings[r] = << >>
  BY <1>1 DEF Current, ClearSteps, SerialInv, KeysUnique, InsertedClearing
<1>5. wallet' = [wallet EXCEPT ![w].reserved = @ - n]
  <2>1. w \in Wallets /\ wallet[w] \in Row /\ wallet \in [Wallets -> Row]
    BY <1>1, WalletKnown DEF SerialInv, Inv, TypeOK, Row, Steps, ClearSteps
  <2>2. CASE n = 0
    <3>1. wallet' = [wallet EXCEPT ![w] = wallet[w]]
      BY <2>2 DEF CommitCleared, CommitWallet
    <3>2. [wallet[w] EXCEPT !.reserved = @ - n] = wallet[w]
      BY <2>1, <2>2 DEF Row
    <3> QED
      BY <2>1, <3>1, <3>2
  <2>3. CASE n # 0
    BY <1>3, <2>3 DEF CommitCleared, CommitWallet
  <2> QED
    BY <2>2, <2>3
<1>6. Ledger!Clear(r, n)
  BY <1>2, <1>3, <1>4, <1>5 DEF CommitCleared, Ledger!Clear, Ledger!transfers
<1> QED
  BY <1>2, <1>6

\* a hold given back
LEMMA ReversedIsReverse ==
  ASSUME SerialInv, NEW p \in Workers, CommitReversed(p)
  PROVE  \E r \in Refs : Ledger!Reverse(r)
<1> DEFINE r == job[p].ref
           w == WalletFor(p)
<1>1. pc[p] = "reversed" /\ Knows("reversed", job[p], seen[p]) /\ Current(p)
  BY DEF CommitReversed, SerialInv, Inv
<1>2. r \in Refs /\ job[p].amount = Hold[r] /\ seen[p].reserved >= Hold[r]
  BY <1>1 DEF Knows, CardSteps, ReverseSteps, Current
<1>3. auths[r] = "authorized" /\ w = WalletOf[r] /\ seen[p] = wallet[w]
  BY <1>1 DEF WalletFor, Current, CreditSteps, ReverseSteps, Prepared
<1>4. Ledger!Reverse(r)
  BY <1>1, <1>2, <1>3 DEF CommitReversed, CommitWallet, Ledger!Reverse, Ledger!transfers
<1> QED
  BY <1>2, <1>4

\* and a transfer credited.
LEMMA CreditedIsCredit ==
  ASSUME SerialInv, NEW p \in Workers, CommitCredited(p), ~Outdated(p)
  PROVE  \E t \in Transfers : Ledger!Credit(t)
<1> DEFINE t == job[p].ref
           w == WalletFor(p)
<1>1. pc[p] = "credited" /\ Knows("credited", job[p], seen[p]) /\ Current(p)
  BY DEF CommitCredited, SerialInv, Inv
<1>2. t \in Transfers /\ job[p].amount = Deposit[t] /\ t \in waiting
  BY <1>1 DEF Knows, Current, CreditSteps, SerialInv, SnapshotCurrent, Outdated
<1>3. w = Into[t] /\ seen[p] = wallet[w]
  BY <1>1 DEF WalletFor, Current, CreditSteps, Prepared
<1>4. Ledger!Credit(t)
  BY <1>1, <1>2, <1>3 DEF CommitCredited, CommitWallet, Ledger!Credit
<1> QED
  BY <1>2, <1>4

\* As long as no two requests work on one wallet at a time, each handler is,
\* at its commit, the one step WalletLedger takes for it: what the ledger
\* promises is what the webhooks do.
THEOREM LedgerImplemented == SerialSpec => ImplementsLedger
<1>1. Init => Ledger!Init
  BY DEF Init, Ledger!Init, NoRow
<1>2. SerialInv /\ [SerialNext]_vars => [Ledger!Next]_(Ledger!vars)
  <2> SUFFICES ASSUME SerialInv, [SerialNext]_vars, ~(UNCHANGED Ledger!vars)
               PROVE  Ledger!Next
    OBVIOUS
  <2>1. \/ \E p \in Workers : Writes(p) \/ (CommitCredited(p) /\ ~Outdated(p))
        \/ \E t \in Transfers : Move(t)
    <3>1. ASSUME NEW p \in Workers, Deliver(p) \/ Fail(p) \/ Step(p),
                 ~(Writes(p) \/ (CommitCredited(p) /\ ~Outdated(p)))
          PROVE  UNCHANGED <<wallet, auths, clearings, waiting, settlements, credits, debits>>
      BY <3>1 DEF Deliver, Authorize, Reversal, Clearing, CreditFromFunding, Begin, Fail,
         Rollback, rows, Step, Writes, CheckControls, CheckBalance, InsertAuthorization,
         Reserve, HoldAmount, RecordClearing, ReadForSettle, Settle, ReadForRelease,
         Release, MarkAuthorization, ReadForCredit, CreditWallet, CommitCredited, Proceed,
         ReadWallet
    <3> QED
      BY <3>1 DEF SerialNext, Next, ChangeCard, vars, Ledger!vars
  <2>2. \A t \in Transfers : Move(t) => Ledger!Move(t)
    BY DEF Move, Ledger!Move
  <2> QED
    BY <2>1, <2>2, ApprovedIsApprove, DeclinedIsDecline, ClearedIsClear, ReversedIsReverse,
       CreditedIsCredit DEF Writes, Ledger!Next
<1>3. SerialSpec => Init /\ [][SerialNext]_vars
  BY DEF SerialSpec, SerialNext
<1> QED
  BY <1>1, <1>2, <1>3, SerialInvariance, PTL DEF ImplementsLedger, Ledger!Spec

-----------------------------------------------------------------------------
(* What the ledger promises, carried over                                  *)

\* WalletLedger with its theorems.
Proved == INSTANCE WalletLedgerProofs WITH DebitAmounts <- {}

\* Ledger and Proved are one specification under two names.
LEMMA SameLedger ==
  /\ Ledger!Init => Proved!Init
  /\ [Ledger!Next]_(Ledger!vars) => [Proved!Next]_(Proved!vars)
<1>1. Ledger!Init => Proved!Init
  BY DEF Ledger!Init, Proved!Init
<1>2. \A r \in Refs : /\ Ledger!Decline(r) => Proved!Decline(r)
                      /\ Ledger!Approve(r) => Proved!Approve(r)
                      /\ Ledger!Reverse(r) => Proved!Reverse(r)
  BY DEF Ledger!Decline, Proved!Decline, Ledger!Approve, Proved!Approve,
         Ledger!Reverse, Proved!Reverse, Ledger!transfers, Proved!transfers
<1>3. \A r \in Refs, n \in ClearedAmounts : Ledger!Clear(r, n) => Proved!Clear(r, n)
  BY DEF Ledger!Clear, Proved!Clear, Ledger!transfers, Proved!transfers
<1>4. \A t \in Transfers : /\ Ledger!Credit(t) => Proved!Credit(t)
                           /\ Ledger!Move(t) => Proved!Move(t)
  BY DEF Ledger!Credit, Proved!Credit, Ledger!Move, Proved!Move
<1>5. UNCHANGED Ledger!vars => UNCHANGED Proved!vars
  BY DEF Ledger!vars, Proved!vars
<1> QED
  BY <1>1, <1>2, <1>3, <1>4, <1>5 DEF Ledger!Next, Proved!Next

\* What is proved of WalletLedger holds of the webhooks, without overlap.
LEMMA LedgerKept ==
  SerialSpec => [](/\ Proved!LedgerMatchesBalances
                   /\ Proved!ReservedExplained
                   /\ Proved!HoldsCovered)
<1>1. Proved!LedgerAssumption
  BY TransactionsAssumption DEF Proved!LedgerAssumption, WalletOf
<1>2. /\ Proved!Spec => []Proved!LedgerMatchesBalances
      /\ Proved!Spec => []Proved!ReservedExplained
      /\ Proved!Spec => []Proved!HoldsCovered
  BY <1>1, Proved!LedgerAlwaysMatches, Proved!ReservedAlwaysExplained,
     Proved!HoldsAlwaysCovered, PTL
<1>3. SerialSpec => Proved!Spec
  BY LedgerImplemented, SameLedger, PTL DEF ImplementsLedger, Ledger!Spec, Proved!Spec
<1> QED
  BY <1>2, <1>3, PTL

\* The sum the repository's tests check after a sequence of webhooks is right
\* after any such sequence, as long as no two of one wallet overlap; that they
\* must not is what the run of the overlapping webhooks shows.
THEOREM SerialBalances == SerialSpec => []LedgerMatchesBalances
<1>1. Proved!LedgerMatchesBalances => LedgerMatchesBalances
  BY DEF LedgerMatchesBalances, Ledger!LedgerMatchesBalances, Proved!LedgerMatchesBalances
<1> QED
  BY <1>1, LedgerKept, PTL

\* The sums are those of Functions in both,
LEMMA SameSums == \A f, S : Proved!SumFunctionOnSet(f, S) = Ledger!SumFunctionOnSet(f, S)
  BY DEF Proved!SumFunctionOnSet, Ledger!SumFunctionOnSet, Proved!FoldFunctionOnSet,
     Ledger!FoldFunctionOnSet, Proved!MapThenFoldSet, Ledger!MapThenFoldSet

\* and so is what they add up.
LEMMA SameReserves ==
  /\ \A w, s : Proved!Charged(w, s) = Ledger!Charged(w, s)
  /\ Proved!Residue = Ledger!Residue
  /\ \A w : Proved!Outstanding(w) = Ledger!Outstanding(w)
<1>1. \A w, s : Proved!Charged(w, s) = Ledger!Charged(w, s)
  BY DEF Proved!Charged, Ledger!Charged
<1>2. Proved!Residue = Ledger!Residue
  BY DEF Proved!Residue, Ledger!Residue
<1>3. \A w : Proved!Outstanding(w) = Ledger!Outstanding(w)
  BY <1>1, SameSums DEF Proved!Outstanding, Ledger!Outstanding
<1> QED
  BY <1>1, <1>2, <1>3

\* And the reserved balance is then what is still held and what clearings left
\* over, and covers every hold unless a clearing went beyond its own.
THEOREM SerialReserves == SerialSpec => [](Ledger!ReservedExplained /\ Ledger!HoldsCovered)
<1>1. Proved!ReservedExplained => Ledger!ReservedExplained
  BY SameSums, SameReserves DEF Ledger!ReservedExplained, Proved!ReservedExplained
<1>2. Proved!HoldsCovered => Ledger!HoldsCovered
  BY SameReserves DEF Ledger!HoldsCovered, Proved!HoldsCovered
<1> QED
  BY <1>1, <1>2, LedgerKept, PTL

=============================================================================
