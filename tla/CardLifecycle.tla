---------------------------- MODULE CardLifecycle ----------------------------
(***************************************************************************)
(* CardService: issuing a card for a wallet and moving it between its      *)
(* statuses, as requests that overlap.  A request reads the card, checks   *)
(* the transition, calls the card processor, writes the new status with an *)
(* audit event, and commits; it holds the row lock from the write to the   *)
(* commit and never looks at the status again.                             *)
(*                                                                         *)
(* The processor is the only one the code can run with, the development    *)
(* client: the token it returns depends on the wallet and its owner alone. *)
(* Who may ask (roles, links, KYC) is decided before and left out, like    *)
(* the contents of the spending controls.  The bus has no subscriber for   *)
(* the card events that are published.                                     *)
(*                                                                         *)
(* card_events is modelled as how many of each kind there are, without     *)
(* their order: they are listed by created_at, which is when their         *)
(* transaction began, so requests that overlap may be listed either way.   *)
(***************************************************************************)
EXTENDS Naturals, FiniteSets

CONSTANTS
  Workers, Wallets, None,
  Cards,      \* ids of card rows
  TokenOf,    \* the token the processor returns for each wallet
  MaxEvents   \* bound: no request starts on a card with so many events of its kind

Statuses == {"pending", "active", "frozen", "cancelled"}

ASSUME CardAssumption ==
  /\ None \notin Wallets \cup Cards \cup Statuses
  /\ TokenOf = [w \in Wallets |-> TokenOf[w]]
  /\ MaxEvents \in Nat

\* _VALID_TRANSITIONS.
Transitions(s) ==
  CASE s = "pending"   -> {"active", "cancelled"}
    [] s = "active"    -> {"frozen", "cancelled"}
    [] s = "frozen"    -> {"active", "cancelled"}
    [] s = "cancelled" -> {}

\* The requests on a card, named for the audit event each leaves, and the
\* status each sets.
Target == [activated |-> "active", frozen |-> "frozen", unfrozen |-> "active",
           cancelled |-> "cancelled"]

Operations == DOMAIN Target \cup {"controls_updated"}
EventTypes == Operations \cup {"issued"}

VARIABLES
  wallet,    \* committed wallet_id of each card, None before there is a row
  status,    \* committed status of each card, None before there is a row
  events,    \* committed card_events of each card, how many of each type
  told,      \* <<token, status>> the processor was told of, "pending" when issued
  pc,        \* per worker, the statement it runs next
  job        \* per worker: operation, wallet or card

vars == <<wallet, status, events, told, pc, job>>
rows == <<wallet, status, events>>

Job(op, w, c) == [op |-> op, wallet |-> w, card |-> c]
NoJob         == Job(None, None, None)

Issued     == {c \in Cards : wallet[c] # None}
LiveOf(w)  == {c \in Issued : wallet[c] = w /\ status[c] # "cancelled"}
Token(c)   == TokenOf[wallet[c]]

\* What is inserted but not committed: its row and its token are held.
Inserting(p) == {q \in Workers \ {p} : pc[q] = "inserted"}

RowLocked(p) ==
  \E q \in Workers \ {p} : pc[q] = "written" /\ job[q].card = job[p].card

Goto(p, s) == pc' = [pc EXCEPT ![p] = s]

End(p) ==
  /\ pc'  = [pc EXCEPT ![p] = "idle"]
  /\ job' = [job EXCEPT ![p] = NoJob]

Init ==
  /\ wallet = [c \in Cards |-> None]
  /\ status = [c \in Cards |-> None]
  /\ events = [c \in Cards |-> [e \in EventTypes |-> 0]]
  /\ told   = {}
  /\ pc     = [p \in Workers |-> "idle"]
  /\ job    = [p \in Workers |-> NoJob]

-----------------------------------------------------------------------------
(* issue_card                                                              *)

\* A wallet with a card that is not cancelled is refused.
Issue(p, w) ==
  /\ pc[p] = "idle"
  /\ LiveOf(w) = {}
  /\ Goto(p, "order")
  /\ job' = [job EXCEPT ![p] = Job("issued", w, None)]
  /\ UNCHANGED <<rows, told>>

\* Mutant: the wallet is noted where its token belongs.
OrderByWallet(p) ==
  /\ pc[p] = "order"
  /\ told' = told \cup {<<job[p].wallet, "pending">>}
  /\ Goto(p, "insert")
  /\ UNCHANGED <<rows, job>>

\* The processor issues a card, before there is any record of it here.
Order(p) ==
  /\ pc[p] = "order"
  /\ told' = told \cup {<<TokenOf[job[p].wallet], "pending">>}
  /\ Goto(p, "insert")
  /\ UNCHANGED <<rows, job>>

\* Mutant: processor_token is not unique.
InsertAnyToken(p) ==
  /\ pc[p] = "insert"
  /\ \E c \in Cards \ (Issued \cup {job[q].card : q \in Inserting(p)}) :
       /\ job' = [job EXCEPT ![p].card = c]
       /\ Goto(p, "inserted")
  /\ UNCHANGED <<rows, told>>

\* processor_token is unique: the insert waits for a concurrent one with the
\* same token, and fails when there is a row with it.
InsertCard(p) ==
  LET token == TokenOf[job[p].wallet] IN
  /\ pc[p] = "insert"
  /\ \A q \in Inserting(p) : TokenOf[job[q].wallet] # token
  /\ \/ /\ \E c \in Issued : Token(c) = token
        /\ End(p)
     \/ /\ \A c \in Issued : Token(c) # token
        /\ \E c \in Cards \ (Issued \cup {job[q].card : q \in Inserting(p)}) :
             /\ job' = [job EXCEPT ![p].card = c]
             /\ Goto(p, "inserted")
  /\ UNCHANGED <<rows, told>>

CommitCard(p) ==
  LET c == job[p].card IN
  /\ pc[p] = "inserted"
  /\ wallet' = [wallet EXCEPT ![c] = job[p].wallet]
  /\ status' = [status EXCEPT ![c] = "pending"]
  /\ events' = [events EXCEPT ![c]["issued"] = 1]
  /\ End(p)
  /\ UNCHANGED told

-----------------------------------------------------------------------------
(* activate_card, freeze_card, unfreeze_card, cancel_card,                 *)
(* update_spending_controls                                                *)

\* Mutant: the spending controls of a cancelled card may be changed.
AllowsControls(s, op) == op \in DOMAIN Target => Target[op] \in Transitions(s)

Allows(s, op) == IF op = "controls_updated" THEN s # "cancelled"
                                            ELSE Target[op] \in Transitions(s)

\* The card is read, once; a transition it does not allow is refused.
ReadCard(p, c, op) ==
  /\ pc[p] = "idle"
  /\ c \in Issued
  /\ Allows(status[c], op)
  /\ events[c][op] < MaxEvents
  /\ Goto(p, "call")
  /\ job' = [job EXCEPT ![p] = Job(op, None, c)]
  /\ UNCHANGED <<rows, told>>

\* Mutant: an error of the processor is not noticed.
CallSwallowed(p) ==
  /\ pc[p] = "call"
  /\ \/ told' = told
     \/ /\ job[p].op # "controls_updated"
        /\ told' = told \cup {<<Token(job[p].card), Target[job[p].op]>>}
  /\ Goto(p, "update")
  /\ UNCHANGED <<rows, job>>

\* The processor is told, before the row is written.
Call(p) ==
  LET op == job[p].op IN
  /\ pc[p] = "call"
  /\ told' = IF op = "controls_updated" THEN told
             ELSE told \cup {<<Token(job[p].card), Target[op]>>}
  /\ Goto(p, "update")
  /\ UNCHANGED <<rows, job>>

\* UPDATE card.cards, by id alone.
Update(p) ==
  /\ pc[p] = "update"
  /\ ~RowLocked(p)
  /\ Goto(p, "written")
  /\ UNCHANGED <<rows, told, job>>

CommitUpdate(p) ==
  LET c == job[p].card  op == job[p].op IN
  /\ pc[p] = "written"
  /\ status' = IF op = "controls_updated" THEN status
               ELSE [status EXCEPT ![c] = Target[op]]
  /\ events' = [events EXCEPT ![c][op] = @ + 1]
  /\ End(p)
  /\ UNCHANGED <<wallet, told>>

\* The processor raises, the database fails or the process dies: nothing is
\* written here, and what the processor was told stays.
Rollback(p) ==
  /\ pc[p] # "idle"
  /\ End(p)
  /\ UNCHANGED <<rows, told>>

-----------------------------------------------------------------------------
Statement(p) ==
  \/ Order(p) \/ InsertCard(p) \/ CommitCard(p)
  \/ Call(p) \/ Update(p) \/ CommitUpdate(p) \/ Rollback(p)

Request(p) ==
  \/ \E w \in Wallets : Issue(p, w)
  \/ \E c \in Cards, op \in Operations : ReadCard(p, c, op)

Next == \E p \in Workers : Request(p) \/ Statement(p)

Spec == Init /\ [][Next]_vars

-----------------------------------------------------------------------------
(* Properties                                                              *)

\* Rows, audit events, processor calls and workers have their types.
TypeOK ==
  /\ wallet \in [Cards -> Wallets \cup {None}]
  /\ status \in [Cards -> Statuses \cup {None}]
  /\ events \in [Cards -> [EventTypes -> Nat]]
  /\ told \in SUBSET ({TokenOf[w] : w \in Wallets} \X Statuses)
  /\ pc \in [Workers -> {"idle", "order", "insert", "inserted",
                         "call", "update", "written"}]
  /\ job \in [Workers -> [op : EventTypes \cup {None},
                          wallet : Wallets \cup {None},
                          card : Cards \cup {None}]]

\* A wallet has at most one card that is not cancelled, whatever overlaps
\* between the check in issue_card and the insert.
OneLiveCard == \A w \in Wallets : Cardinality(LiveOf(w)) <= 1

\* The status in the row is one the processor was told first, for that token:
\* no card is active, frozen or cancelled here and unknown as such there.
ProcessorToldFirst == \A c \in Issued : <<Token(c), status[c]>> \in told

\* A cancelled card that no request in progress is changing.
Settled(c) ==
  /\ status[c] = "cancelled"
  /\ \A p \in Workers : pc[p] \in {"call", "update", "written"} => job[p].card # c

\* Once the requests that overlapped a cancellation are over, the card is done
\* with: no request, for this card or for a new one of the same wallet, changes
\* its status, adds to its audit events or has the processor told of its token
\* what it was not told before.
CancelledSettles ==
  [][\A c \in Cards : Settled(c) =>
       /\ Settled(c)'
       /\ events'[c] = events[c]
       /\ \A m \in told' \ told : m[1] # Token(c)]_vars

\* _VALID_TRANSITIONS has none from CANCELLED, and DELETE /cards/{card_id}
\* cancels a card "permanently".
CancelledIsFinal ==
  [][\A c \in Cards : status[c] = "cancelled" => status'[c] = "cancelled"]_vars
=============================================================================
