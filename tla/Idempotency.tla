----------------------------- MODULE Idempotency -----------------------------
(***************************************************************************)
(* IdempotencyMiddleware: the requests that carry one Idempotency-Key of   *)
(* one caller on one route, and the Redis entry they share.  Each Redis    *)
(* call is a step of its own, the handler in between another; requests     *)
(* interleave at every await.                                              *)
(*                                                                         *)
(* An entry records which request wrote it: that determines the            *)
(* fingerprint and the cached response it holds.  The handler and what it  *)
(* changes are abstract: it succeeds (2xx) or fails.                       *)
(***************************************************************************)
CONSTANTS
  Requests,
  Body,      \* what the fingerprint of each request distinguishes
  None

Entries == [by : Requests, state : {"in_progress", "completed"}]

\* The answers: the handler's own, a cached one, or one of the three errors.
Replies == [kind : {"handled", "error", "conflict", "duplicate"}, of : {None}]
             \cup [kind : {"replay"}, of : Requests]

ASSUME IdempotencyAssumption ==
  /\ None \notin Entries \cup Replies
  /\ Body = [r \in Requests |-> Body[r]]

VARIABLES
  entry,     \* the value under the cache key, None if there is none
  pc,        \* where each request is
  reply,     \* what each request was answered
  ran,       \* requests whose handler succeeded
  failed,    \* requests whose handler raised or answered an error
  expired    \* whether the 24 hours of an entry have run out

vars == <<entry, pc, reply, ran, failed, expired>>

\* Equal fingerprints.
SameBody(r, s) == Body[r] = Body[s]

InHandler == {r \in Requests : pc[r] = "handling"}
Running   == {r \in Requests : pc[r] \in {"handling", "store", "delete"}}

Goto(r, s) == pc' = [pc EXCEPT ![r] = s]

Answer(r, k, s) ==
  /\ Goto(r, "done")
  /\ reply' = [reply EXCEPT ![r] = [kind |-> k, of |-> s]]

Init ==
  /\ entry   = None
  /\ pc      = [r \in Requests |-> "new"]
  /\ reply   = [r \in Requests |-> None]
  /\ ran     = {}
  /\ failed  = {}
  /\ expired = FALSE

\* Mutant: SET without NX.
ReserveAlways(r) ==
  /\ pc[r] = "new"
  /\ entry' = [by |-> r, state |-> "in_progress"]
  /\ Goto(r, "handling")
  /\ UNCHANGED <<reply, ran, failed, expired>>

\* SET key ... NX: only one request writes the reservation.
Reserve(r) ==
  /\ pc[r] = "new"
  /\ \/ /\ entry = None
        /\ entry' = [by |-> r, state |-> "in_progress"]
        /\ Goto(r, "handling")
     \/ entry # None /\ Goto(r, "lookup") /\ UNCHANGED entry
  /\ UNCHANGED <<reply, ran, failed, expired>>

\* Mutant: the fingerprints are not compared.
LookupAnyBody(r) ==
  /\ pc[r] = "lookup"
  /\ \/ entry = None /\ Goto(r, "handling") /\ UNCHANGED reply
     \/ /\ entry # None
        /\ IF entry.state = "completed" THEN Answer(r, "replay", entry.by)
                                        ELSE Answer(r, "duplicate", None)
  /\ UNCHANGED <<entry, ran, failed, expired>>

\* GET after the failed SET.  An entry that has gone in the meantime lets the
\* request through to the handler without a reservation of its own.
Lookup(r) ==
  /\ pc[r] = "lookup"
  /\ \/ entry = None /\ Goto(r, "handling") /\ UNCHANGED reply
     \/ /\ entry # None
        /\ \/ ~SameBody(entry.by, r) /\ Answer(r, "conflict", None)
           \/ /\ SameBody(entry.by, r)
              /\ IF entry.state = "completed" THEN Answer(r, "replay", entry.by)
                                              ELSE Answer(r, "duplicate", None)
  /\ UNCHANGED <<entry, ran, failed, expired>>

\* The handler answers 2xx: what it changed is changed.
Succeed(r) ==
  /\ pc[r] = "handling"
  /\ ran' = ran \cup {r}
  /\ Goto(r, "store")
  /\ UNCHANGED <<entry, reply, failed, expired>>

\* The handler raises, or answers anything but 2xx.
Fail(r) ==
  /\ pc[r] = "handling"
  /\ failed' = failed \cup {r}
  /\ Goto(r, "delete")
  /\ UNCHANGED <<entry, reply, ran, expired>>

\* SET without NX: whatever is under the key is replaced.
Store(r) ==
  /\ pc[r] = "store"
  /\ entry' = [by |-> r, state |-> "completed"]
  /\ Answer(r, "handled", None)
  /\ UNCHANGED <<ran, failed, expired>>

\* Mutant: the failure is kept in the cache.
DeleteMarked(r) ==
  /\ pc[r] = "delete"
  /\ entry' = [by |-> r, state |-> "failed"]
  /\ Answer(r, "error", None)
  /\ UNCHANGED <<ran, failed, expired>>

\* Mutant: an error leaves the reservation behind.
DeleteNothing(r) ==
  /\ pc[r] = "delete"
  /\ Answer(r, "error", None)
  /\ UNCHANGED <<entry, ran, failed, expired>>

\* DEL of the key, whoever wrote what is there.
Delete(r) ==
  /\ pc[r] = "delete"
  /\ entry' = None
  /\ Answer(r, "error", None)
  /\ UNCHANGED <<ran, failed, expired>>

\* The process dies, the client goes away, or Redis does not answer: the
\* except clause catches none of it, and the entry stays as it is.
Crash(r) ==
  /\ pc[r] \in {"lookup", "handling", "store", "delete"}
  /\ Goto(r, "lost")
  /\ UNCHANGED <<entry, reply, ran, failed, expired>>

\* The entry's time is up; no request runs as long as that after writing it.
\* Bound: once in a behaviour.
Expire ==
  /\ entry # None
  /\ entry.by \notin Running
  /\ ~expired
  /\ entry'   = None
  /\ expired' = TRUE
  /\ UNCHANGED <<pc, reply, ran, failed>>

Dispatch(r) ==
  \/ Reserve(r) \/ Lookup(r) \/ Succeed(r) \/ Fail(r)
  \/ Store(r) \/ Delete(r) \/ Crash(r)

Next == Expire \/ \E r \in Requests : Dispatch(r)

Spec == Init /\ [][Next]_vars

-----------------------------------------------------------------------------
(* Properties                                                              *)

\* The entry, the program counters and the answers have their types: nothing
\* but a reservation or a 2xx response is ever kept under the key.
TypeOK ==
  /\ entry \in Entries \cup {None}
  /\ pc \in [Requests -> {"new", "lookup", "handling", "store", "delete",
                          "done", "lost"}]
  /\ reply \in [Requests -> Replies \cup {None}]
  /\ ran \in SUBSET Requests
  /\ failed \in SUBSET Requests
  /\ expired \in BOOLEAN

\* A replayed response is that of a request with the same payload, whose
\* handler succeeded (dispatch returns data["body"] of the entry it read).
ReplayedFaithfully ==
  \A r, s \in Requests :
    reply[r] = [kind |-> "replay", of |-> s] => s \in ran /\ SameBody(s, r)

\* Within the life of an entry, the handler takes effect for a second request
\* only if it failed for one: success, a crash and a lost answer never let
\* another request of the key through.
OneEffectWithoutFailure ==
  (failed = {} /\ ~expired) => \A r, s \in ran : r = s

\* A key that is in progress belongs to a request that is being handled, or
\* that died: no request that was answered leaves the key unusable behind it.
ReservationHasOwner ==
  (entry # None /\ entry.state = "in_progress")
    => pc[entry.by] \in {"handling", "store", "delete", "lost"}

\* What REVIEW_FINDINGS.md says of the reservation: while a request is being
\* handled, an identical one is not (before the entry's time is up).
DuplicatesExcluded ==
  ~expired => \A r, s \in InHandler : SameBody(r, s) => r = s
=============================================================================
