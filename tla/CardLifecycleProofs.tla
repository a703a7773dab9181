-------------------------- MODULE CardLifecycleProofs --------------------------
(* Theorems about CardLifecycle, for any numbers of workers, wallets and cards  *)
(* and any token the processor derives from a wallet.                           *)
EXTENDS CardLifecycle, FiniteSetTheorems, TLAPS

\* A request is about a wallet while it issues, and about a committed card
\* while it changes one.
JobsKnown ==
  \A p \in Workers :
    /\ pc[p] \in {"order", "insert", "inserted"} =>
         job[p].op = "issued" /\ job[p].wallet \in Wallets
    /\ pc[p] \in {"call", "update", "written"} =>
         job[p].op \in Operations /\ job[p].card \in Issued
    /\ pc[p] = "inserted" => job[p].card \in Cards \ Issued

\* processor_token: no two rows share one, committed or not.
TokensUnique ==
  /\ \A c, d \in Issued : Token(c) = Token(d) => c = d
  /\ \A p \in Workers, c \in Issued :
       pc[p] = "inserted" => Token(c) # TokenOf[job[p].wallet]
  /\ \A p, q \in Workers :
       p # q /\ pc[p] = "inserted" /\ pc[q] = "inserted" =>
         TokenOf[job[q].wallet] # TokenOf[job[p].wallet] /\ job[q].card # job[p].card

\* What a request is about to write is what it told the processor.
ToldByThen ==
  \A p \in Workers :
    /\ pc[p] \in {"insert", "inserted"} => <<TokenOf[job[p].wallet], "pending">> \in told
    /\ pc[p] \in {"update", "written"} /\ job[p].op # "controls_updated" =>
         <<Token(job[p].card), Target[job[p].op]>> \in told

\* A card that is not issued has no status; the processor issued each that is.
IssuedFirst ==
  /\ \A c \in Cards \ Issued : status[c] = None
  /\ \A c \in Issued : <<Token(c), "pending">> \in told

Inv == /\ TypeOK /\ JobsKnown /\ TokensUnique /\ ToldByThen /\ ProcessorToldFirst
       /\ IssuedFirst

\* None is no wallet and no card.
LEMMA NoneApart == None \notin Wallets \cup Cards
  BY CardAssumption

USE NoneApart

\* An operation that sets a status sets one there is.
LEMMA TargetStatus == \A op \in Operations \ {"controls_updated"} : Target[op] \in Statuses
  BY DEF Operations, Target, Statuses

\* One more event of a type.
LEMMA CountedEvent ==
  ASSUME NEW f \in [EventTypes -> Nat], NEW x \in EventTypes
  PROVE  [f EXCEPT ![x] = @ + 1] \in [EventTypes -> Nat]
<1>1. f[x] + 1 \in Nat
  OBVIOUS
<1>2. \A n \in Nat : [f EXCEPT ![x] = n] \in [EventTypes -> Nat]
  OBVIOUS
<1> QED
  BY <1>1, <1>2

\* Every step keeps the types.
LEMMA TypeOKStep == TypeOK /\ JobsKnown /\ [Next]_vars => TypeOK'
<1> SUFFICES ASSUME TypeOK, JobsKnown, [Next]_vars PROVE TypeOK'
  OBVIOUS
<1> USE DEF TypeOK, Goto, End, Job, NoJob, rows, EventTypes
<1>1. ASSUME NEW p \in Workers, Statement(p) PROVE TypeOK'
  <2>1. CASE Order(p)
    <3>1. told' \in SUBSET ({TokenOf[w] : w \in Wallets} \X Statuses)
      BY <2>1 DEF Order, JobsKnown, Statuses
    <3> QED
      BY <2>1, <3>1 DEF Order
  <2>2. CASE InsertCard(p)
    <3>0. UNCHANGED <<rows, told>>
      BY <2>2 DEF InsertCard
    <3>1. CASE End(p)
      BY <3>0, <3>1
    <3>2. ASSUME NEW c \in Cards, job' = [job EXCEPT ![p].card = c], Goto(p, "inserted")
          PROVE TypeOK'
      BY <3>0, <3>2
    <3> QED
      BY <2>2, <3>1, <3>2 DEF InsertCard
  <2>3. CASE CommitCard(p)
    <3>2. job[p].wallet \in Wallets /\ job[p].card \in Cards
      BY <2>3 DEF CommitCard, JobsKnown
    <3>3. events' \in [Cards -> [EventTypes -> Nat]]
      BY <2>3 DEF CommitCard
    <3>4. wallet' \in [Cards -> Wallets \cup {None}]
      BY <2>3, <3>2 DEF CommitCard
    <3>5. status' \in [Cards -> Statuses \cup {None}]
      BY <2>3 DEF CommitCard, Statuses
    <3> QED
      BY <2>3, <3>3, <3>4, <3>5 DEF CommitCard
  <2>4. CASE Call(p)
    <3>1. told' \in SUBSET ({TokenOf[w] : w \in Wallets} \X Statuses)
      <4>1. job[p].op \in Operations /\ job[p].card \in Issued
        BY <2>4 DEF Call, JobsKnown
      <4>2. Token(job[p].card) \in {TokenOf[w] : w \in Wallets}
        BY <4>1 DEF Token, Issued
      <4> QED
        BY <2>4, <4>1, <4>2, TargetStatus DEF Call
    <3> QED
      BY <2>4, <3>1 DEF Call
  <2>5. CASE Update(p)
    BY <2>5 DEF Update
  <2>6. CASE CommitUpdate(p)
    <3>1. events' \in [Cards -> [EventTypes -> Nat]]
      <4> DEFINE c == job[p].card
                 e == [events[c] EXCEPT ![job[p].op] = @ + 1]
      <4>1. events' = [events EXCEPT ![c] = e]
        BY <2>6 DEF CommitUpdate
      <4>2. ASSUME c \in Cards PROVE e \in [EventTypes -> Nat]
        <5>1. events[c] \in [EventTypes -> Nat]
          BY <4>2
        <5> QED
          BY <2>6, <5>1, CountedEvent DEF CommitUpdate, JobsKnown
      <4> HIDE DEF c, e
      <4> QED
        BY <4>1, <4>2
    <3>2. status' \in [Cards -> Statuses \cup {None}]
      BY <2>6, TargetStatus DEF CommitUpdate, JobsKnown
    <3> QED
      BY <2>6, <3>1, <3>2 DEF CommitUpdate
  <2>7. CASE Rollback(p)
    BY <2>7 DEF Rollback
  <2> QED
    BY <1>1, <2>1, <2>2, <2>3, <2>4, <2>5, <2>6, <2>7 DEF Statement
<1>2. ASSUME NEW p \in Workers, NEW w \in Wallets, Issue(p, w) PROVE TypeOK'
  BY <1>2 DEF Issue
<1>3. ASSUME NEW p \in Workers, NEW c \in Cards, NEW op \in Operations, ReadCard(p, c, op)
      PROVE TypeOK'
  BY <1>3 DEF ReadCard
<1>4. CASE UNCHANGED vars
  BY <1>4 DEF vars
<1> QED
  BY <1>1, <1>2, <1>3, <1>4 DEF Next, Request

\* A card's wallet is set once, and what the processor was told stays.
LEMMA WalletKept ==
  ASSUME Inv, [Next]_vars
  PROVE  /\ \A c \in Issued : wallet'[c] = wallet[c] /\ c \in Issued'
         /\ told \subseteq told'
<1> USE DEF Inv, TypeOK, Issued, rows
<1>1. ASSUME NEW p \in Workers, CommitCard(p)
      PROVE  \A c \in Issued : wallet'[c] = wallet[c] /\ c \in Issued'
  <2>1. job[p].card \notin Issued
    BY <1>1 DEF CommitCard, JobsKnown
  <2>2. \A c \in Issued : wallet'[c] = wallet[c]
    BY <1>1, <2>1 DEF CommitCard
  <2> QED
    BY <2>2
<1>2. ASSUME wallet' = wallet
      PROVE  \A c \in Issued : wallet'[c] = wallet[c] /\ c \in Issued'
  BY <1>2
<1>3. told \subseteq told'
  BY DEF Next, Request, Statement, vars, Issue, ReadCard, Order, InsertCard,
     CommitCard, Call, Update, CommitUpdate, Rollback
<1>4. (\E p \in Workers : CommitCard(p)) \/ wallet' = wallet
  BY DEF Next, Request, Statement, vars, Issue, ReadCard, Order, InsertCard,
     Call, Update, CommitUpdate, Rollback
<1> QED
  BY <1>1, <1>2, <1>3, <1>4

\* What InsertCard does, when it does not fail.
LEMMA Inserted ==
  ASSUME NEW p \in Workers, InsertCard(p), ~End(p)
  PROVE  /\ pc[p] = "insert" /\ Goto(p, "inserted")
         /\ \A c \in Issued : Token(c) # TokenOf[job[p].wallet]
         /\ \E c \in Cards \ Issued :
              /\ job' = [job EXCEPT ![p].card = c]
              /\ \A q \in Workers \ {p} : pc[q] = "inserted" =>
                   job[q].card # c /\ TokenOf[job[q].wallet] # TokenOf[job[p].wallet]
  BY DEF InsertCard, Inserting

\* What a commit adds to the issued cards.
LEMMA Committed ==
  ASSUME Inv, NEW p \in Workers, CommitCard(p)
  PROVE  /\ job[p].card \in Cards \ Issued /\ job[p].wallet \in Wallets
         /\ Issued' = Issued \cup {job[p].card}
         /\ wallet'[job[p].card] = job[p].wallet
         /\ \A c \in Issued : wallet'[c] = wallet[c]
<1>1. job[p].card \in Cards \ Issued /\ job[p].wallet \in Wallets
  BY DEF Inv, JobsKnown, CommitCard
<1> QED
  BY <1>1 DEF CommitCard, Inv, TypeOK, Issued

\* No other step does.
LEMMA IssuedKept ==
  ASSUME NEW p \in Workers, Request(p) \/ Statement(p), ~CommitCard(p)
  PROVE  Issued' = Issued /\ wallet' = wallet
<1>1. wallet' = wallet
  BY DEF Request, Statement, Issue, ReadCard, Order, InsertCard, Call, Update,
         CommitUpdate, Rollback, rows
<1> QED
  BY <1>1 DEF Issued

\* A request keeps what it knows of its card.
LEMMA JobsKnownStep == Inv /\ [Next]_vars => JobsKnown'
<1> SUFFICES ASSUME Inv, [Next]_vars PROVE JobsKnown'
  OBVIOUS
<1> USE DEF Inv, TypeOK, JobsKnown, Goto, End, Job, NoJob
<1>1. ASSUME NEW p \in Workers, CommitCard(p) PROVE JobsKnown'
  <2>1. \A q \in Workers \ {p} : pc[q] = "inserted" => job[q].card # job[p].card
    BY <1>1 DEF CommitCard, TokensUnique
  <2>2. pc' = [pc EXCEPT ![p] = "idle"] /\ \A q \in Workers \ {p} : job'[q] = job[q]
    BY <1>1 DEF CommitCard
  <2> QED
    BY <1>1, <2>1, <2>2, Committed
<1>2. ASSUME NEW p \in Workers, InsertCard(p) PROVE JobsKnown'
  <2>1. Issued' = Issued
    BY <1>2 DEF InsertCard, Issued, rows
  <2>2. CASE End(p)
    BY <2>1, <2>2
  <2>3. CASE ~End(p)
    <3>1. PICK c \in Cards \ Issued : job' = [job EXCEPT ![p].card = c]
      BY <1>2, <2>3, Inserted
    <3>2. pc[p] = "insert" /\ pc' = [pc EXCEPT ![p] = "inserted"]
      BY <1>2, <2>3, Inserted
    <3>3. /\ job'[p].card = c /\ job'[p].op = job[p].op /\ job'[p].wallet = job[p].wallet
          /\ \A q \in Workers \ {p} : job'[q] = job[q]
      BY <3>1
    <3> QED
      BY <2>1, <3>2, <3>3
  <2> QED
    BY <2>2, <2>3
<1>3. ASSUME NEW p \in Workers, Request(p) PROVE JobsKnown'
  <2>1. Issued' = Issued
    BY <1>3 DEF Request, Issue, ReadCard, Issued, rows
  <2>2. ASSUME NEW w \in Wallets, Issue(p, w) PROVE JobsKnown'
    BY <2>1, <2>2 DEF Issue
  <2>3. ASSUME NEW c \in Cards, NEW op \in Operations, ReadCard(p, c, op) PROVE JobsKnown'
    BY <2>1, <2>3 DEF ReadCard
  <2> QED
    BY <1>3, <2>2, <2>3 DEF Request
<1>4. ASSUME NEW p \in Workers,
             Order(p) \/ Call(p) \/ Update(p) \/ CommitUpdate(p) \/ Rollback(p)
      PROVE JobsKnown'
  <2>1. Issued' = Issued
    BY <1>4 DEF Order, Call, Update, CommitUpdate, Rollback, Issued, rows
  <2>2. CASE End(p)
    BY <2>1, <2>2
  <2>3. CASE Order(p) \/ Call(p) \/ Update(p)
    BY <2>1, <2>3 DEF Order, Call, Update
  <2> QED
    BY <1>4, <2>2, <2>3 DEF CommitUpdate, Rollback
<1>5. CASE UNCHANGED vars
  BY <1>5 DEF vars, Issued
<1> QED
  BY <1>1, <1>2, <1>3, <1>4, <1>5 DEF Next, Statement

\* An insert waits for one with the same token and fails on a committed one.
LEMMA TokensUniqueStep == Inv /\ [Next]_vars => TokensUnique'
<1> SUFFICES ASSUME Inv, [Next]_vars PROVE TokensUnique'
  OBVIOUS
<1> USE DEF Inv, TypeOK, TokensUnique, Goto, End, Job, NoJob, Token
<1>1. ASSUME NEW p \in Workers, CommitCard(p) PROVE TokensUnique'
  <2>1. \A q \in Workers : pc'[q] = "inserted" =>
          pc[q] = "inserted" /\ q # p /\ job'[q] = job[q] /\ pc[p] = "inserted"
    BY <1>1 DEF CommitCard
  <2>2. \A c \in Issued : TokenOf[wallet[c]] # TokenOf[job[p].wallet]
    BY <1>1 DEF CommitCard
  <2>3. \A c, d \in Issued' : Token(c)' = Token(d)' => c = d
    <3> SUFFICES ASSUME NEW c \in Issued', NEW d \in Issued', Token(c)' = Token(d)'
                 PROVE  c = d
      OBVIOUS
    <3>1. \A e \in Issued' : e # job[p].card => e \in Issued /\ Token(e)' = TokenOf[wallet[e]]
      BY <1>1, Committed
    <3>2. TokenOf[wallet'[job[p].card]] = TokenOf[job[p].wallet]
      BY <1>1, Committed
    <3> QED
      BY <2>2, <3>1, <3>2
  <2>4. ASSUME NEW q \in Workers, NEW c \in Issued', pc'[q] = "inserted"
        PROVE  TokenOf[wallet'[c]] # TokenOf[job'[q].wallet]
    <3>1. CASE c = job[p].card
      BY <1>1, <2>1, <2>4, <3>1, Committed
    <3>2. CASE c \in Issued
      BY <1>1, <2>1, <2>4, <3>2, Committed
    <3> QED
      BY <1>1, <3>1, <3>2, Committed
  <2> QED
    BY <2>1, <2>3, <2>4
<1>2. ASSUME NEW p \in Workers, InsertCard(p) PROVE TokensUnique'
  <2>1. Issued' = Issued /\ wallet' = wallet
    BY <1>2 DEF InsertCard, Issued, rows
  <2>2. CASE End(p)
    BY <2>1, <2>2
  <2>3. CASE ~End(p)
    <3>1. PICK c \in Cards \ Issued :
            /\ job' = [job EXCEPT ![p].card = c]
            /\ \A q \in Workers \ {p} : pc[q] = "inserted" =>
                   job[q].card # c /\ TokenOf[job[q].wallet] # TokenOf[job[p].wallet]
      BY <1>2, <2>3, Inserted
    <3>2. /\ pc' = [pc EXCEPT ![p] = "inserted"]
          /\ \A d \in Issued : TokenOf[wallet[d]] # TokenOf[job[p].wallet]
      BY <1>2, <2>3, Inserted
    <3>3. /\ job'[p].card = c /\ job'[p].wallet = job[p].wallet
          /\ \A q \in Workers \ {p} : job'[q] = job[q]
      BY <3>1
    <3> QED
      BY <2>1, <3>1, <3>2, <3>3
  <2> QED
    BY <2>2, <2>3
<1>3. ASSUME NEW p \in Workers, Request(p) \/ Statement(p), ~CommitCard(p), ~InsertCard(p)
      PROVE TokensUnique'
  <2>1. \A q \in Workers : pc'[q] = "inserted" => pc[q] = "inserted" /\ job'[q] = job[q]
    BY <1>3 DEF Request, Statement, Issue, ReadCard, Order, Call, Update, CommitUpdate, Rollback
  <2> QED
    BY <1>3, <2>1, IssuedKept
<1>4. CASE UNCHANGED vars
  BY <1>4 DEF vars, Issued
<1> QED
  BY <1>1, <1>2, <1>3, <1>4 DEF Next

\* Order and Call tell the processor what will be written; nobody takes it back.
LEMMA ToldByThenStep == Inv /\ [Next]_vars => ToldByThen'
<1> SUFFICES ASSUME Inv, [Next]_vars PROVE ToldByThen'
  OBVIOUS
<1> USE DEF Inv, TypeOK, ToldByThen, Goto, End, Job, NoJob, Token
<1>k. (\A c \in Issued : wallet'[c] = wallet[c]) /\ told \subseteq told'
  BY WalletKept
<1>1. ASSUME NEW p \in Workers, Order(p) \/ Call(p) PROVE ToldByThen'
  <2>1. Issued' = Issued /\ wallet' = wallet
    BY <1>1, IssuedKept DEF Statement, Order, Call, CommitCard
  <2>2. CASE Order(p)
    BY <2>1, <2>2, <1>k DEF Order, JobsKnown
  <2>3. CASE Call(p)
    BY <2>1, <2>3, <1>k DEF Call, JobsKnown
  <2> QED
    BY <1>1, <2>2, <2>3
<1>2. ASSUME NEW p \in Workers, InsertCard(p) PROVE ToldByThen'
  <2>1. wallet' = wallet /\ told' = told
    BY <1>2 DEF InsertCard, rows
  <2>2. CASE End(p)
    BY <2>1, <2>2
  <2>3. CASE ~End(p)
    <3>1. /\ pc[p] = "insert" /\ pc' = [pc EXCEPT ![p] = "inserted"]
          /\ job'[p].wallet = job[p].wallet
          /\ \A q \in Workers \ {p} : job'[q] = job[q]
      BY <1>2, <2>3, Inserted
    <3> QED
      BY <2>1, <3>1
  <2> QED
    BY <2>2, <2>3
<1>3. ASSUME NEW p \in Workers, Update(p) PROVE ToldByThen'
  BY <1>3 DEF Update, rows
<1>4. ASSUME NEW p \in Workers, CommitCard(p) \/ CommitUpdate(p) \/ Rollback(p)
      PROVE ToldByThen'
  <2>1. End(p)
    BY <1>4 DEF CommitCard, CommitUpdate, Rollback
  <2>2. \A q \in Workers : pc'[q] # "idle" =>
          /\ pc'[q] = pc[q] /\ job'[q] = job[q]
          /\ pc[q] \in {"update", "written"} => job[q].card \in Issued
    BY <2>1 DEF JobsKnown
  <2>3. \A q \in Workers : pc'[q] \in {"insert", "inserted"} =>
          <<TokenOf[job'[q].wallet], "pending">> \in told'
    BY <1>k, <2>2
  <2>4. ASSUME NEW q \in Workers,
               pc'[q] \in {"update", "written"}, job'[q].op # "controls_updated"
        PROVE  <<Token(job[q].card)', Target[job[q].op]'>> \in told'
    <3>1. pc[q] \in {"update", "written"} /\ job'[q] = job[q] /\ job[q].card \in Issued
      BY <2>2, <2>4
    <3>2. <<TokenOf[wallet[job[q].card]], Target[job[q].op]>> \in told
      BY <2>4, <3>1
    <3>3. wallet'[job[q].card] = wallet[job[q].card]
      BY <3>1, <1>k
    <3> QED
      BY <3>1, <3>2, <3>3, <1>k
  <2> QED
    BY <2>3, <2>4
<1>5. ASSUME NEW p \in Workers, Request(p) PROVE ToldByThen'
  <2>1. ASSUME NEW w \in Wallets, Issue(p, w) PROVE ToldByThen'
    BY <2>1 DEF Issue, rows
  <2>2. ASSUME NEW c \in Cards, NEW op \in Operations, ReadCard(p, c, op) PROVE ToldByThen'
    BY <2>2 DEF ReadCard, rows
  <2> QED
    BY <1>5, <2>1, <2>2 DEF Request
<1>6. CASE UNCHANGED vars
  BY <1>6 DEF vars
<1> QED
  BY <1>1, <1>2, <1>3, <1>4, <1>5, <1>6 DEF Next, Statement

\* A status is committed by a request that told it.
LEMMA ProcessorToldFirstStep == Inv /\ [Next]_vars => ProcessorToldFirst'
<1> SUFFICES ASSUME Inv, [Next]_vars PROVE ProcessorToldFirst'
  OBVIOUS
<1> USE DEF Inv, TypeOK, ProcessorToldFirst, Token, rows
<1>k. told \subseteq told'
  BY WalletKept
<1>1. ASSUME NEW p \in Workers, CommitCard(p) PROVE ProcessorToldFirst'
  <2>1. /\ status' = [status EXCEPT ![job[p].card] = "pending"]
        /\ <<TokenOf[job[p].wallet], "pending">> \in told
    BY <1>1 DEF CommitCard, ToldByThen
  <2>2. ASSUME NEW c \in Issued' PROVE <<TokenOf[wallet'[c]], status'[c]>> \in told'
    <3>1. CASE c = job[p].card
      BY <1>1, <2>1, <3>1, <1>k, Committed
    <3>2. CASE c \in Issued /\ c # job[p].card
      <4>1. wallet'[c] = wallet[c] /\ status'[c] = status[c]
        BY <1>1, <2>1, <3>2, Committed DEF Issued
      <4> QED
        BY <3>2, <4>1, <1>k
    <3> QED
      BY <1>1, <3>1, <3>2, Committed
  <2> QED
    BY <2>2
<1>2. ASSUME NEW p \in Workers, CommitUpdate(p) PROVE ProcessorToldFirst'
  <2>1. Issued' = Issued /\ wallet' = wallet
    BY <1>2 DEF CommitUpdate, Issued
  <2>2. job[p].op # "controls_updated" => <<TokenOf[wallet[job[p].card]], Target[job[p].op]>> \in told
    BY <1>2 DEF CommitUpdate, ToldByThen
  <2> QED
    <3>1. CASE job[p].op = "controls_updated"
      BY <1>2, <2>1, <3>1, <1>k DEF CommitUpdate
    <3>2. CASE job[p].op # "controls_updated"
      <4>1. status' = [status EXCEPT ![job[p].card] = Target[job[p].op]]
        BY <1>2, <3>2 DEF CommitUpdate
      <4> QED
        BY <2>1, <2>2, <3>2, <4>1, <1>k DEF Issued
    <3> QED
      BY <3>1, <3>2
<1>3. CASE status' = status /\ wallet' = wallet
  BY <1>3, <1>k DEF Issued
<1> QED
  BY <1>1, <1>2, <1>3 DEF Next, Request, Statement, vars, Issue, ReadCard, Order,
     InsertCard, Call, Update, Rollback

\* What a step does to the statuses.
LEMMA StatusWriters ==
  ASSUME Inv, [Next]_vars
  PROVE  \/ UNCHANGED <<status, events>>
         \/ \E p \in Workers : CommitCard(p) \/ CommitUpdate(p)
  BY DEF Next, Request, Statement, vars, rows, Issue, ReadCard, Order, InsertCard, Call,
     Update, Rollback

\* Only a commit issues a card, with the token its order returned.
LEMMA IssuedFirstStep == Inv /\ [Next]_vars => IssuedFirst'
<1> SUFFICES ASSUME Inv, [Next]_vars PROVE IssuedFirst'
  OBVIOUS
<1> USE DEF Inv, TypeOK, IssuedFirst, Token
<1>k. told \subseteq told'
  BY WalletKept
<1>1. ASSUME NEW p \in Workers, CommitCard(p) PROVE IssuedFirst'
  <2>1. /\ Issued' = Issued \cup {job[p].card} /\ wallet'[job[p].card] = job[p].wallet
        /\ \A c \in Issued : wallet'[c] = wallet[c]
    BY <1>1, Committed
  <2>2. status' = [status EXCEPT ![job[p].card] = "pending"]
    BY <1>1 DEF CommitCard
  <2>3. <<TokenOf[job[p].wallet], "pending">> \in told
    BY <1>1 DEF CommitCard, ToldByThen
  <2>4. \A c \in Cards : c \notin Issued' => status'[c] = None
    BY <2>1, <2>2
  <2>5. \A c \in Issued' : <<TokenOf[wallet'[c]], "pending">> \in told'
    BY <1>k, <2>1, <2>3
  <2> QED
    BY <2>4, <2>5
<1>2. ASSUME NEW p \in Workers, CommitUpdate(p) PROVE IssuedFirst'
  <2>1. job[p].card \in Issued /\ Issued' = Issued /\ wallet' = wallet
    BY <1>2 DEF CommitUpdate, JobsKnown, Issued
  <2>2. \A c \in Cards \ Issued : status'[c] = status[c]
    BY <1>2, <2>1 DEF CommitUpdate
  <2> QED
    BY <1>k, <2>1, <2>2
<1>3. CASE UNCHANGED status /\ \A p \in Workers : ~CommitCard(p)
  <2>1. Issued' = Issued /\ wallet' = wallet
    BY <1>3, IssuedKept DEF Next, vars, Issued
  <2> QED
    BY <1>3, <1>k, <2>1
<1> QED
  BY <1>1, <1>2, <1>3, StatusWriters

\* The invariant holds at first,
LEMMA LifecycleStart == Init => Inv
  BY DEF Init, Inv, TypeOK, JobsKnown, TokensUnique, ToldByThen, ProcessorToldFirst,
         IssuedFirst, Issued, Job, NoJob

\* every step keeps it,
LEMMA LifecycleStep == Inv /\ [Next]_vars => Inv'
  BY TypeOKStep, JobsKnownStep, TokensUniqueStep, ToldByThenStep,
     ProcessorToldFirstStep, IssuedFirstStep DEF Inv

\* and so it always holds.
LEMMA Invariance == Spec => []Inv
  BY LifecycleStart, LifecycleStep, PTL DEF Spec

\* Cards, their audit events and their requests keep their types.
THEOREM WellTyped == Spec => []TypeOK
<1>1. Inv => TypeOK
  BY DEF Inv
<1> QED
  BY <1>1, Invariance, PTL

\* However many requests overlap between the check and the insert, a wallet has
\* at most one card that is not cancelled: the token of a wallet is unique.
THEOREM AtMostOneLiveCard == Spec => []OneLiveCard
<1>1. ASSUME Inv PROVE OneLiveCard
  <2> SUFFICES ASSUME NEW w \in Wallets PROVE Cardinality(LiveOf(w)) <= 1
    BY DEF OneLiveCard
  <2>1. \A c, d \in LiveOf(w) : c = d
    BY <1>1 DEF Inv, TokensUnique, LiveOf, Issued, Token
  <2>2. CASE LiveOf(w) = {}
    BY <2>2, FS_EmptySet
  <2>3. CASE LiveOf(w) # {}
    <3>1. PICK c : LiveOf(w) = {c}
      BY <2>1, <2>3
    <3> QED
      <4>1. Cardinality({c}) = 1
        BY FS_Singleton
      <4> QED
        BY <3>1, <4>1
  <2> QED
    BY <2>2, <2>3
<1> QED
  BY <1>1, Invariance, PTL

\* Whatever overlaps or fails, no card has a status its processor was not told.
THEOREM ProcessorKnows == Spec => []ProcessorToldFirst
<1>1. Inv => ProcessorToldFirst
  BY DEF Inv
<1> QED
  BY <1>1, Invariance, PTL

-----------------------------------------------------------------------------
(* What is cancelled and settled stays so                                  *)

Changing(p) == pc[p] \in {"call", "update", "written"}

\* Who changes a card did so before, or found it allowed.
LEMMA ChangersBegin ==
  ASSUME Inv, NEW p \in Workers, Request(p) \/ Statement(p), NEW q \in Workers, Changing(q)'
  PROVE  \/ Changing(q) /\ job'[q].card = job[q].card
         \/ Allows(status[job'[q].card], job'[q].op) /\ job'[q].op \in Operations
<1> USE DEF Inv, TypeOK, Goto, End, Changing
<1>1. ASSUME NEW w \in Wallets, Issue(p, w)
      PROVE  Changing(q) /\ job'[q] = job[q]
  BY <1>1 DEF Issue
<1>2. ASSUME NEW c \in Cards, NEW op \in Operations, ReadCard(p, c, op), q = p
      PROVE  Allows(status[job'[q].card], job'[q].op) /\ job'[q].op \in Operations
  <2>1. job'[q].card = c /\ job'[q].op = op
    BY <1>2 DEF ReadCard, Job
  <2> QED
    BY <1>2, <2>1 DEF ReadCard
<1>3. ASSUME NEW c \in Cards, NEW op \in Operations, ReadCard(p, c, op), q # p
      PROVE  Changing(q) /\ job'[q] = job[q]
  BY <1>3 DEF ReadCard
<1>4. CASE Statement(p)
  BY <1>4 DEF Statement, Order, InsertCard, CommitCard, Call, Update, CommitUpdate,
     Rollback, rows
<1> QED
  BY <1>1, <1>2, <1>3, <1>4 DEF Request

\* No operation is allowed on a cancelled card.
LEMMA CancelledRefuses == \A op \in Operations : ~Allows("cancelled", op)
  BY DEF Allows, Transitions, Operations, Target

\* The processor is told nothing new of the token of a settled card.
LEMMA SettledUntold ==
  ASSUME Inv, [Next]_vars, NEW c \in Issued, Settled(c), NEW m \in told' \ told
  PROVE  m[1] # Token(c)
<1> USE DEF Inv, TypeOK
<1>1. ASSUME NEW p \in Workers, Order(p) PROVE m[1] # Token(c)
  <2>1. m = <<TokenOf[job[p].wallet], "pending">>
    BY <1>1 DEF Order
  <2>2. <<Token(c), "pending">> \in told
    BY DEF IssuedFirst
  <2> QED
    BY <2>1, <2>2
<1>2. ASSUME NEW p \in Workers, Call(p) PROVE m[1] # Token(c)
  <2>1. m[1] = Token(job[p].card)
    BY <1>2 DEF Call
  <2>2. job[p].card \in Issued /\ job[p].card # c
    BY <1>2 DEF Call, JobsKnown, Settled
  <2> QED
    BY <2>1, <2>2 DEF TokensUnique
<1>3. (\E p \in Workers : Order(p) \/ Call(p)) \/ told' = told
  BY DEF Next, Request, Statement, vars, Issue, ReadCard, InsertCard, CommitCard,
     Update, CommitUpdate, Rollback
<1> QED
  BY <1>1, <1>2, <1>3

\* Nothing changes a settled card, and nobody begins to.
LEMMA SettledStep ==
  ASSUME Inv, [Next]_vars, NEW c \in Cards, Settled(c)
  PROVE  /\ Settled(c)' /\ events'[c] = events[c]
         /\ \A m \in told' \ told : m[1] # Token(c)
<1> USE DEF Inv, TypeOK, Settled
<1>0. c \in Issued
  BY CardAssumption DEF IssuedFirst, Statuses
<1>1. status'[c] = status[c] /\ events'[c] = events[c]
  <2>1. ASSUME NEW p \in Workers, CommitCard(p)
        PROVE  status'[c] = status[c] /\ events'[c] = events[c]
    <3>1. job[p].card # c
      BY <1>0, <2>1, Committed
    <3> QED
      BY <2>1, <3>1 DEF CommitCard
  <2>2. ASSUME NEW p \in Workers, CommitUpdate(p)
        PROVE  status'[c] = status[c] /\ events'[c] = events[c]
    BY <2>2 DEF CommitUpdate
  <2> QED
    BY <2>1, <2>2, StatusWriters
<1>2. ASSUME NEW q \in Workers, Changing(q)' PROVE job'[q].card # c
  <2>1. CASE UNCHANGED vars
    BY <1>2, <2>1 DEF vars, Changing
  <2>2. ASSUME NEW p \in Workers, Request(p) \/ Statement(p) PROVE job'[q].card # c
    BY <1>2, <2>2, ChangersBegin, CancelledRefuses DEF Changing
  <2> QED
    BY <2>1, <2>2 DEF Next
<1> QED
  BY <1>0, <1>1, <1>2, SettledUntold DEF Changing

\* Once the requests that overlapped a cancellation are over, nothing changes
\* the card, its audit events or what the processor was told of its token: not
\* even the orders of further cards for its wallet, which get the same token.
THEOREM CancelledForGood == Spec => CancelledSettles
<1>1. Inv /\ [Next]_vars =>
        [\A c \in Cards : Settled(c) =>
           /\ Settled(c)'
           /\ events'[c] = events[c]
           /\ \A m \in told' \ told : m[1] # Token(c)]_vars
  BY SettledStep
<1> QED
  BY <1>1, Invariance, PTL DEF Spec, CancelledSettles
=============================================================================
