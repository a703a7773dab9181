--------------------------- MODULE CardAccessProofs ---------------------------
(* Theorems about CardAccess, for any numbers of workers, sponsors, wallets    *)
(* and cards.                                                                  *)
EXTENDS CardAccess, CardLifecycleProofs

Asks == [by : Sponsors \cup {Staff, None}, op : Operations \cup {"issued", None},
         on : Wallets \cup Cards \cup {None},
         at : {"none", "link", "kyc", "checked", "card"},
         ended : SUBSET {"link", "kyc"}]

AccessTypeOK ==
  /\ kyc    \in [Wallets -> KYCStatus]
  /\ linked \in SUBSET (Sponsors \X Wallets)
  /\ ask    \in [Workers -> Asks]

\* A sponsor asks for a card on a wallet, anyone for a change of an issued card.
AsksKnown ==
  \A p \in Workers : ask[p].at # "none" =>
    /\ ask[p].op = "issued" => ask[p].on \in Wallets /\ ask[p].by \in Sponsors
    /\ ask[p].op # "issued" =>
         ask[p].op \in Operations /\ ask[p].on \in Issued /\ ask[p].at # "kyc"

\* What a request knows once it is past a check.
LinkKnown(p) ==
  ask[p].at \in {"kyc", "checked", "card"} /\ ask[p].by \in Sponsors =>
    <<ask[p].by, About(p)>> \in linked \/ "link" \in ask[p].ended

KycKnown(p) ==
  ask[p].at \in {"checked", "card"} /\ ask[p].op = "issued" =>
    kyc[About(p)] = "approved" \/ "kyc" \in ask[p].ended

AccessInv == /\ Inv /\ AccessTypeOK /\ AsksKnown
             /\ \A p \in Workers : LinkKnown(p) /\ KycKnown(p)

USE AccessAssumption

\* Every step of the routes is one of CardLifecycle, or none.
LEMMA Simulates == AsksKnown /\ [AccessNext]_accessVars => [Next]_vars
<1> SUFFICES ASSUME AsksKnown, AccessNext PROVE [Next]_vars
  BY DEF accessVars, vars
<1>1. ASSUME NEW p \in Workers, Enter(p) PROVE [Next]_vars
  <2>1. CASE ask[p].op = "issued"
    BY <1>1, <2>1 DEF Enter, AsksKnown, Next, Request
  <2>2. CASE ask[p].op # "issued"
    <3>1. ask[p].op \in Operations /\ ask[p].on \in Cards
      BY <1>1, <2>2 DEF Enter, AsksKnown, Issued
    <3> QED
      BY <1>1, <2>2, <3>1 DEF Enter, Next, Request
  <2> QED
    BY <2>1, <2>2
<1>2. ASSUME NEW p \in Workers, Serve(p) PROVE [Next]_vars
  BY <1>2 DEF Serve, Next
<1>3. CASE UNCHANGED vars
  BY <1>3
<1> QED
  BY <1>1, <1>2, <1>3 DEF AccessNext, AccessRequest, AccessStep, AskIssue, AskChange,
     Arrive, Reach, CheckLink, CheckKyc, Refuse, RemoveBeneficiaryLink, SubmitKyc,
     KycProviderWebhook, UpdateKycStatus

LEMMA AsksKnownStep ==
  AccessInv /\ [AccessNext]_accessVars => AsksKnown' /\ AccessTypeOK'
<1> SUFFICES ASSUME AccessInv, [AccessNext]_accessVars PROVE AsksKnown' /\ AccessTypeOK'
  OBVIOUS
<1> USE DEF AccessInv, AsksKnown, AccessTypeOK, Asks, Ask, NoAsk
<1>k. Issued \subseteq Issued'
  BY Simulates, WalletKept
<1>0. Issued \subseteq Cards
  BY DEF Issued
<1>1. ASSUME NEW p \in Workers, NEW s \in Sponsors, NEW w \in Wallets, AskIssue(p, s, w)
      PROVE AsksKnown' /\ AccessTypeOK'
  BY <1>1, <1>k DEF AskIssue, Arrive
<1>2. ASSUME NEW p \in Workers, NEW by \in Sponsors \cup {Staff}, NEW c \in Cards,
             NEW op \in Operations, AskChange(p, by, c, op)
      PROVE AsksKnown' /\ AccessTypeOK'
  <2>1. op # "issued"
    BY DEF Operations, Target
  <2> QED
    BY <1>2, <1>k, <2>1 DEF AskChange, Arrive
<1>3. ASSUME NEW p \in Workers, CheckLink(p) \/ CheckKyc(p)
      PROVE AsksKnown' /\ AccessTypeOK'
  BY <1>3, <1>k DEF CheckLink, CheckKyc, Reach
<1>4. ASSUME NEW p \in Workers, Enter(p) PROVE AsksKnown' /\ AccessTypeOK'
  BY <1>4, <1>k DEF Enter
<1>5. ASSUME NEW p \in Workers, Serve(p) \/ Refuse(p) PROVE AsksKnown' /\ AccessTypeOK'
  BY <1>5, <1>k DEF Serve, Refuse
<1>6. ASSUME NEW s \in Sponsors, NEW w \in Wallets, RemoveBeneficiaryLink(s, w)
      PROVE AsksKnown' /\ AccessTypeOK'
  BY <1>6, <1>k DEF RemoveBeneficiaryLink, Ended
<1>7. ASSUME NEW w \in Wallets, NEW s \in KYCStatus, UpdateKycStatus(w, s)
      PROVE AsksKnown' /\ AccessTypeOK'
  BY <1>7, <1>k DEF UpdateKycStatus, Ended
<1>8. CASE UNCHANGED accessVars
  BY <1>8, <1>k DEF accessVars, vars
<1> QED
  BY <1>1, <1>2, <1>3, <1>4, <1>5, <1>6, <1>7, <1>8
     DEF AccessNext, AccessRequest, AccessStep, SubmitKyc, KycProviderWebhook, KYCStatus

\* The wallet of a request does not change while it is served.
LEMMA AboutKept ==
  ASSUME AccessInv, [AccessNext]_accessVars, NEW p \in Workers, ask[p].at # "none",
         ask'[p].op = ask[p].op, ask'[p].on = ask[p].on
  PROVE  About(p)' = About(p)
<1>1. \A c \in Issued : wallet'[c] = wallet[c]
  BY Simulates, WalletKept DEF AccessInv
<1>2. ask[p].op # "issued" => ask[p].on \in Issued
  BY DEF AccessInv, AsksKnown
<1> QED
  BY <1>1, <1>2 DEF About

\* What a request knows stays true, or is marked as ended.
LEMMA KnownStep ==
  ASSUME AccessInv, [AccessNext]_accessVars, NEW p \in Workers
  PROVE  LinkKnown(p)' /\ KycKnown(p)'
<1> USE DEF AccessInv, AccessTypeOK, Asks
<1>1. CASE ask' = ask /\ kyc' = kyc /\ linked' = linked
  <2>1. ask[p].at # "none" => About(p)' = About(p)
    BY <1>1, AboutKept
  <2> QED
    BY <1>1, <2>1 DEF LinkKnown, KycKnown
<1>2. ASSUME NEW q \in Workers, NEW by, NEW op, NEW on, NEW at \in {"link", "checked"},
             Arrive(q, by, op, on, at), op = "issued" => at = "link",
             at = "checked" => by \notin Sponsors
      PROVE  LinkKnown(p)' /\ KycKnown(p)'
  <2>1. CASE p = q
    <3>1. ask'[p].at = at /\ ask'[p].by = by /\ ask'[p].op = op
      BY <1>2, <2>1 DEF Arrive, Ask
    <3> QED
      BY <1>2, <3>1 DEF LinkKnown, KycKnown
  <2>2. CASE p # q
    <3>1. ask'[p] = ask[p] /\ kyc' = kyc /\ linked' = linked
      BY <1>2, <2>2 DEF Arrive
    <3>2. ask[p].at # "none" => About(p)' = About(p)
      BY <3>1, AboutKept
    <3> QED
      BY <3>1, <3>2 DEF LinkKnown, KycKnown
  <2> QED
    BY <2>1, <2>2
<1>3. ASSUME NEW q \in Workers, CheckLink(q) \/ CheckKyc(q) \/ Enter(q)
      PROVE  LinkKnown(p)' /\ KycKnown(p)'
  <2>1. PICK at : ask' = [ask EXCEPT ![q].at = at] /\ kyc' = kyc /\ linked' = linked
    BY <1>3 DEF CheckLink, CheckKyc, Enter, Reach
  <2>2. /\ ask'[p].by = ask[p].by /\ ask'[p].op = ask[p].op /\ ask'[p].on = ask[p].on
        /\ ask'[p].ended = ask[p].ended /\ p # q => ask'[p].at = ask[p].at
    BY <2>1
  <2>3. ask[p].at # "none" => About(p)' = About(p)
    BY <2>2, AboutKept
  <2>4. CASE p # q
    BY <2>1, <2>2, <2>3, <2>4 DEF LinkKnown, KycKnown
  <2>5. CASE p = q
    <3>1. CASE CheckLink(p)
      <4>1. <<ask[p].by, About(p)>> \in linked /\ ask[p].at = "link"
        BY <3>1 DEF CheckLink
      <4>2. ask'[p].at \in {"checked", "card"} => ask[p].op # "issued"
        BY <3>1 DEF CheckLink, Reach
      <4> QED
        BY <2>1, <2>2, <2>3, <4>1, <4>2 DEF LinkKnown, KycKnown
    <3>2. CASE CheckKyc(p)
      <4>1. kyc[About(p)] = "approved" /\ ask[p].at = "kyc"
        BY <3>2 DEF CheckKyc
      <4> QED
        BY <2>1, <2>2, <2>3, <4>1 DEF LinkKnown, KycKnown
    <3>3. CASE Enter(p)
      <4>1. ask[p].at = "checked"
        BY <3>3 DEF Enter
      <4> QED
        BY <2>1, <2>2, <2>3, <4>1 DEF LinkKnown, KycKnown
    <3> QED
      BY <1>3, <2>5, <3>1, <3>2, <3>3
  <2> QED
    BY <2>4, <2>5
<1>4. ASSUME NEW q \in Workers, Serve(q) \/ Refuse(q)
      PROVE  LinkKnown(p)' /\ KycKnown(p)'
  <2>1. /\ ask' = ask \/ ask' = [ask EXCEPT ![q] = NoAsk]
        /\ kyc' = kyc /\ linked' = linked
    BY <1>4 DEF Serve, Refuse
  <2>2. CASE ask' = ask
    BY <1>1, <2>1, <2>2
  <2>3. CASE ask'[p] = NoAsk
    <3>1. ask'[p].at = "none"
      BY <2>3 DEF NoAsk, Ask
    <3> QED
      BY <3>1 DEF LinkKnown, KycKnown
  <2>4. CASE ask'[p] = ask[p]
    <3>1. ask[p].at # "none" => About(p)' = About(p)
      BY <2>4, AboutKept
    <3> QED
      BY <2>1, <2>4, <3>1 DEF LinkKnown, KycKnown
  <2> QED
    BY <2>1, <2>2, <2>3, <2>4
<1>5. ASSUME NEW f, NEW P, Ended(f, P)
      PROVE  /\ ask'[p].by = ask[p].by /\ ask'[p].op = ask[p].op
             /\ ask'[p].on = ask[p].on /\ ask'[p].at = ask[p].at
             /\ ask[p].ended \subseteq ask'[p].ended
             /\ p \in P => f \in ask'[p].ended
  BY <1>5 DEF Ended
<1>6. ASSUME NEW s \in Sponsors, NEW w \in Wallets, RemoveBeneficiaryLink(s, w)
      PROVE  LinkKnown(p)' /\ KycKnown(p)'
  <2> DEFINE P == {q \in Workers : ask[q].by = s /\ About(q) = w}
  <2>1. kyc' = kyc /\ linked' = linked \ {<<s, w>>} /\ Ended("link", P)
    BY <1>6 DEF RemoveBeneficiaryLink
  <2>2. /\ ask'[p].by = ask[p].by /\ ask'[p].op = ask[p].op
        /\ ask'[p].on = ask[p].on /\ ask'[p].at = ask[p].at
        /\ ask[p].ended \subseteq ask'[p].ended
        /\ p \in P => "link" \in ask'[p].ended
    BY <1>5, <2>1
  <2>3. ask[p].at # "none" => About(p)' = About(p)
    BY <2>2, AboutKept
  <2>4. p \notin P => <<ask[p].by, About(p)>> # <<s, w>>
    OBVIOUS
  <2> QED
    BY <2>1, <2>2, <2>3, <2>4 DEF LinkKnown, KycKnown
<1>7. ASSUME NEW w \in Wallets, NEW s \in KYCStatus, UpdateKycStatus(w, s)
      PROVE  LinkKnown(p)' /\ KycKnown(p)'
  <2> DEFINE P == {q \in Workers : kyc[w] = "approved" /\ ask[q].op = "issued" /\ ask[q].on = w}
  <2>1. linked' = linked /\ kyc' = [kyc EXCEPT ![w] = s] /\ Ended("kyc", P)
    BY <1>7 DEF UpdateKycStatus
  <2>2. /\ ask'[p].by = ask[p].by /\ ask'[p].op = ask[p].op
        /\ ask'[p].on = ask[p].on /\ ask'[p].at = ask[p].at
        /\ ask[p].ended \subseteq ask'[p].ended
        /\ p \in P => "kyc" \in ask'[p].ended
    BY <1>5, <2>1
  <2>3. ask[p].at # "none" => About(p)' = About(p)
    BY <2>2, AboutKept
  <2>4. ask[p].op = "issued" => About(p) = ask[p].on
    BY DEF About
  <2>5. LinkKnown(p)'
    BY <2>1, <2>2, <2>3 DEF LinkKnown
  <2>6. KycKnown(p)'
    <3> SUFFICES ASSUME ask'[p].at \in {"checked", "card"}, ask'[p].op = "issued"
                 PROVE  kyc'[About(p)'] = "approved" \/ "kyc" \in ask'[p].ended
      BY DEF KycKnown
    <3>1. kyc[About(p)] = "approved" \/ "kyc" \in ask[p].ended
      BY <2>2 DEF KycKnown
    <3>2. CASE About(p) = w
      <4>1. ask[p].on = w /\ ask[p].op = "issued"
        BY <2>2, <2>4, <3>2
      <4>2. kyc[w] = "approved" => p \in P
        BY <4>1
      <4> QED
        BY <2>2, <3>1, <3>2, <4>2
    <3>3. CASE About(p) # w
      BY <2>1, <2>2, <2>3, <3>1, <3>3
    <3> QED
      BY <3>2, <3>3
  <2> QED
    BY <2>5, <2>6
<1>8. ASSUME NEW q \in Workers, AccessRequest(q)
      PROVE  LinkKnown(p)' /\ KycKnown(p)'
  <2>1. ASSUME NEW s \in Sponsors, NEW w \in Wallets, AskIssue(q, s, w)
        PROVE  LinkKnown(p)' /\ KycKnown(p)'
    BY <1>2, <2>1 DEF AskIssue
  <2>2. ASSUME NEW by \in Sponsors \cup {Staff}, NEW c \in Cards, NEW op \in Operations,
               AskChange(q, by, c, op)
        PROVE  LinkKnown(p)' /\ KycKnown(p)'
    <3>1. op # "issued"
      BY DEF Operations, Target
    <3>2. Arrive(q, by, op, c, IF by = Staff THEN "checked" ELSE "link")
      BY <2>2 DEF AskChange
    <3>3. CASE by = Staff
      BY <1>2, <3>1, <3>2, <3>3
    <3>4. CASE by # Staff
      BY <1>2, <3>1, <3>2, <3>4
    <3> QED
      BY <3>3, <3>4
  <2> QED
    BY <1>8, <2>1, <2>2 DEF AccessRequest
<1>9. CASE UNCHANGED accessVars
  BY <1>1, <1>9 DEF accessVars
<1> QED
  BY <1>3, <1>4, <1>6, <1>7, <1>8, <1>9
     DEF AccessNext, AccessStep, SubmitKyc, KycProviderWebhook, KYCStatus

LEMMA AccessInvariance == AccessSpec => []AccessInv
<1>1. AccessInit => AccessInv
  <2> SUFFICES ASSUME AccessInit PROVE AccessInv
    OBVIOUS
  <2>1. Inv
    BY LifecycleStart DEF AccessInit
  <2>2. AccessTypeOK /\ \A p \in Workers : ask[p].at = "none"
    BY DEF AccessInit, AccessTypeOK, Asks, NoAsk, Ask, KYCStatus
  <2> QED
    BY <2>1, <2>2 DEF AccessInv, AsksKnown, LinkKnown, KycKnown
<1>2. AccessInv /\ [AccessNext]_accessVars => AccessInv'
  <2> SUFFICES ASSUME AccessInv, [AccessNext]_accessVars PROVE AccessInv'
    OBVIOUS
  <2>1. Inv'
    BY Simulates, LifecycleStep DEF AccessInv
  <2>2. AsksKnown' /\ AccessTypeOK'
    BY AsksKnownStep
  <2>3. \A p \in Workers : LinkKnown(p)' /\ KycKnown(p)'
    BY KnownStep
  <2> QED
    BY <2>1, <2>2, <2>3 DEF AccessInv
<1> QED
  BY <1>1, <1>2, PTL DEF AccessSpec

\* Behind its checks, the card service is the one CardLifecycle describes: what
\* is proved of it holds here.
THEOREM ChecksRefineLifecycle == AccessSpec => Spec
<1>1. AccessInit => Init
  BY DEF AccessInit
<1>2. AccessInv /\ [AccessNext]_accessVars => [Next]_vars
  BY Simulates DEF AccessInv
<1> QED
  BY <1>1, <1>2, AccessInvariance, PTL DEF AccessSpec, Spec

\* So no wallet gets two live cards, no status goes unannounced and a cancelled
\* card settles behind the checks too.
THEOREM CardsSound ==
  AccessSpec => [](OneLiveCard /\ ProcessorToldFirst) /\ CancelledSettles
  BY ChecksRefineLifecycle, AtMostOneLiveCard, ProcessorKnows, CancelledForGood, PTL

\* A request that reached the processor was trusted when it asked, whatever is
\* removed or revoked in the meantime.
THEOREM CallersTrusted == AccessSpec => []TrustedWhenAsked
<1>1. AccessInv => TrustedWhenAsked
  BY DEF AccessInv, LinkKnown, KycKnown, TrustedWhenAsked
<1> QED
  BY <1>1, AccessInvariance, PTL
=============================================================================
