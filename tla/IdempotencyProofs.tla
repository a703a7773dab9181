-------------------------- MODULE IdempotencyProofs --------------------------
(* Theorems about Idempotency, for any number of requests of one key. *)
EXTENDS Idempotency, TLAPS

\* A request that stores its response, and one whose response is cached, has
\* had its handler succeed; one that deletes the key has failed.
Outcomes ==
  /\ \A r \in Requests : pc[r] = "store" => r \in ran
  /\ \A r \in Requests : pc[r] = "delete" => r \in failed
  /\ (entry # None /\ entry.state = "completed") => entry.by \in ran

\* Until a handler fails or the entry's time is up, the entry stays, and all
\* that runs or ran is the request that wrote it.
OneOwner ==
  (failed = {} /\ ~expired) =>
    \A r \in Requests :
      /\ pc[r] = "lookup" => entry # None
      /\ (r \in ran \/ pc[r] \in {"handling", "store"})
           => entry # None /\ entry.by = r

Inv == /\ TypeOK
       /\ Outcomes
       /\ ReplayedFaithfully
       /\ ReservationHasOwner
       /\ OneOwner

USE IdempotencyAssumption

\* Every step keeps the types: what is stored, answered and counted.
LEMMA TypeOKStep == TypeOK /\ [Next]_vars => TypeOK'
<1> SUFFICES ASSUME TypeOK, [Next]_vars PROVE TypeOK'
  OBVIOUS
<1>1. CASE Expire
  BY <1>1 DEF TypeOK, Expire
<1>2. CASE UNCHANGED vars
  BY <1>2 DEF TypeOK, vars
<1>3. ASSUME NEW r \in Requests, Dispatch(r) PROVE TypeOK'
  <2>1. CASE Reserve(r)
    BY <2>1 DEF TypeOK, Reserve, Goto, Entries
  <2>2. CASE Lookup(r)
    <3>1. CASE entry = None
      BY <2>2, <3>1 DEF TypeOK, Lookup, Goto
    <3>2. CASE entry # None
      <4>1. entry.by \in Requests
        BY <3>2 DEF TypeOK, Entries
      <4>2. /\ \E k \in {[kind |-> "conflict", of |-> None],
                        [kind |-> "duplicate", of |-> None],
                        [kind |-> "replay", of |-> entry.by]} :
                 reply' = [reply EXCEPT ![r] = k]
            /\ pc' = [pc EXCEPT ![r] = "done"]
            /\ UNCHANGED <<entry, ran, failed, expired>>
        BY <2>2, <3>2 DEF Lookup, Answer, Goto
      <4> QED
        BY <4>1, <4>2 DEF TypeOK, Replies
    <3> QED
      BY <3>1, <3>2
  <2>3. CASE Succeed(r)
    BY <2>3 DEF TypeOK, Succeed, Goto
  <2>4. CASE Fail(r)
    BY <2>4 DEF TypeOK, Fail, Goto
  <2>5. CASE Store(r)
    BY <2>5 DEF TypeOK, Store, Answer, Goto, Replies, Entries
  <2>6. CASE Delete(r)
    BY <2>6 DEF TypeOK, Delete, Answer, Goto, Replies
  <2>7. CASE Crash(r)
    BY <2>7 DEF TypeOK, Crash, Goto
  <2> QED
    BY <1>3, <2>1, <2>2, <2>3, <2>4, <2>5, <2>6, <2>7 DEF Dispatch
<1> QED
  BY <1>1, <1>2, <1>3 DEF Next

\* Every step keeps the rest of the invariant.
LEMMA InvStep == Inv /\ [Next]_vars => Inv'
<1> SUFFICES ASSUME Inv, [Next]_vars PROVE Inv'
  OBVIOUS
<1>t. TypeOK /\ TypeOK'
  BY TypeOKStep DEF Inv
<1>1. CASE Expire
  <2>1. Outcomes' /\ ReservationHasOwner'
    BY <1>1, <1>t DEF Inv, Outcomes, ReservationHasOwner, Expire
  <2>2. ReplayedFaithfully'
    BY <1>1 DEF Inv, ReplayedFaithfully, Expire
  <2>3. OneOwner'
    BY <1>1 DEF OneOwner, Expire
  <2> QED
    BY <1>t, <2>1, <2>2, <2>3 DEF Inv
<1>2. CASE UNCHANGED vars
  BY <1>t, <1>2 DEF Inv, Outcomes, ReplayedFaithfully, ReservationHasOwner,
                    OneOwner, vars
<1>3. ASSUME NEW r \in Requests, Dispatch(r) PROVE Inv'
  <2>1. CASE Reserve(r)
    <3>1. Outcomes' /\ ReservationHasOwner'
      BY <2>1, <1>t DEF Inv, TypeOK, Entries, Outcomes, ReservationHasOwner,
                        Reserve, Goto
    <3>2. ReplayedFaithfully'
      BY <2>1 DEF Inv, ReplayedFaithfully, Reserve
    <3>3. OneOwner'
      BY <2>1, <1>t DEF Inv, TypeOK, Entries, OneOwner, Reserve, Goto
    <3> QED
      BY <1>t, <3>1, <3>2, <3>3 DEF Inv
  <2>2. CASE Lookup(r)
    <3>1. Outcomes' /\ ReservationHasOwner'
      <4>1. entry # None => entry.by \in Requests
        BY <1>t DEF TypeOK, Entries
      <4>2. UNCHANGED <<entry, ran, failed>> /\ pc[r] = "lookup"
        BY <2>2 DEF Lookup
      <4>3. \E s \in {"handling", "done"} : pc' = [pc EXCEPT ![r] = s]
        BY <2>2 DEF Lookup, Answer, Goto
      <4> QED
        BY <4>1, <4>2, <4>3, <1>t DEF Inv, TypeOK, Outcomes, ReservationHasOwner
    <3>2. ReplayedFaithfully'
      <4>1. CASE reply' = reply
        BY <2>2, <4>1 DEF Inv, ReplayedFaithfully, Lookup
      <4>2. CASE Answer(r, "replay", entry.by)
                   /\ entry # None /\ entry.state = "completed"
                   /\ SameBody(entry.by, r)
        <5>1. entry.by \in ran
          BY <4>2 DEF Inv, Outcomes
        <5>2. reply' = [reply EXCEPT ![r] = [kind |-> "replay", of |-> entry.by]]
          BY <4>2 DEF Answer
        <5>3. ran' = ran /\ reply \in [Requests -> Replies \cup {None}]
          BY <2>2, <1>t DEF Lookup, TypeOK
        <5> QED
          BY <4>2, <5>1, <5>2, <5>3 DEF Inv, ReplayedFaithfully
      <4>3. CASE \E k \in {"conflict", "duplicate"} : Answer(r, k, None)
        BY <2>2, <4>3, <1>t DEF Inv, TypeOK, ReplayedFaithfully, Lookup, Answer
      <4> QED
        BY <2>2, <4>1, <4>2, <4>3 DEF Lookup
    <3>3. OneOwner'
      BY <2>2, <1>t DEF Inv, TypeOK, OneOwner, Lookup, Answer, Goto
    <3> QED
      BY <1>t, <3>1, <3>2, <3>3 DEF Inv
  <2>3. CASE Succeed(r)
    BY <2>3, <1>t DEF Inv, TypeOK, Outcomes, ReplayedFaithfully,
                      ReservationHasOwner, OneOwner, Succeed, Goto
  <2>4. CASE Fail(r)
    BY <2>4, <1>t DEF Inv, TypeOK, Outcomes, ReplayedFaithfully,
                      ReservationHasOwner, OneOwner, Fail, Goto
  <2>5. CASE Store(r)
    <3>1. Outcomes' /\ ReservationHasOwner'
      BY <2>5, <1>t DEF Inv, TypeOK, Outcomes, ReservationHasOwner,
                        Store, Answer, Goto
    <3>2. ReplayedFaithfully'
      BY <2>5, <1>t DEF Inv, TypeOK, ReplayedFaithfully, Store, Answer
    <3>3. OneOwner'
      BY <2>5, <1>t DEF Inv, TypeOK, Entries, Outcomes, OneOwner, Store,
                        Answer, Goto
    <3> QED
      BY <1>t, <3>1, <3>2, <3>3 DEF Inv
  <2>6. CASE Delete(r)
    <3>1. Outcomes' /\ ReservationHasOwner'
      BY <2>6, <1>t DEF Inv, TypeOK, Outcomes, ReservationHasOwner,
                        Delete, Answer, Goto
    <3>2. ReplayedFaithfully'
      BY <2>6, <1>t DEF Inv, TypeOK, ReplayedFaithfully, Delete, Answer
    <3>3. failed' # {}
      BY <2>6 DEF Inv, Outcomes, Delete
    <3> QED
      BY <1>t, <3>1, <3>2, <3>3 DEF Inv, OneOwner
  <2>7. CASE Crash(r)
    BY <2>7, <1>t DEF Inv, TypeOK, Outcomes, ReplayedFaithfully,
                      ReservationHasOwner, OneOwner, Crash, Goto
  <2> QED
    BY <1>3, <2>1, <2>2, <2>3, <2>4, <2>5, <2>6, <2>7 DEF Dispatch
<1> QED
  BY <1>1, <1>2, <1>3 DEF Next

\* The invariant holds from the first request of the key on.
LEMMA Invariance == Spec => []Inv
<1>1. Init => Inv
  <2> SUFFICES ASSUME Init PROVE Inv
    OBVIOUS
  <2>1. TypeOK
    BY DEF Init, TypeOK
  <2>2. Outcomes /\ ReservationHasOwner /\ OneOwner
    BY DEF Init, Outcomes, ReservationHasOwner, OneOwner
  <2>3. ReplayedFaithfully
    <3> SUFFICES ASSUME NEW r \in Requests, NEW s \in Requests,
                        reply[r] = [kind |-> "replay", of |-> s]
                 PROVE FALSE
      BY DEF ReplayedFaithfully
    <3>1. reply[r] \in Replies
      BY DEF Replies
    <3> QED
      BY <3>1 DEF Init
  <2> QED
    BY <2>1, <2>2, <2>3 DEF Inv
<1> QED
  BY <1>1, InvStep, PTL DEF Spec

\* Nothing but a reservation or a 2xx response is ever kept under the key.
THEOREM WellTyped == Spec => []TypeOK
<1>1. Inv => TypeOK
  BY DEF Inv
<1> QED
  BY <1>1, Invariance, PTL

\* However many requests share the key, a replayed response is a successful
\* one to the same payload.
THEOREM ReplaysFaithful == Spec => []ReplayedFaithfully
<1>1. Inv => ReplayedFaithfully
  BY DEF Inv
<1> QED
  BY <1>1, Invariance, PTL

\* However many requests share the key, the handler takes effect once, unless
\* it fails for one of them or the entry's time is up.
THEOREM OneEffect == Spec => []OneEffectWithoutFailure
<1>1. Inv => OneEffectWithoutFailure
  BY DEF Inv, TypeOK, OneOwner, OneEffectWithoutFailure
<1> QED
  BY <1>1, Invariance, PTL

\* However many requests share the key, none that was answered leaves it
\* reserved.
THEOREM NoReservationLeft == Spec => []ReservationHasOwner
<1>1. Inv => ReservationHasOwner
  BY DEF Inv
<1> QED
  BY <1>1, Invariance, PTL
=============================================================================
