-------------------------- MODULE WalletLedgerProofs --------------------------
(* Theorems about WalletLedger, for any wallets, amounts and references. *)
EXTENDS WalletLedger, Sums, TLAPS

\* The two facts WellTyped rests on, used again by the invariants below.
LEMMA TypeOKInit == Init => TypeOK
  BY LedgerAssumption DEF Init, TypeOK, WalletRow, AuthStatus

\* Every operation of the services keeps the types.
LEMMA TypeOKStep == TypeOK /\ [Next]_vars => TypeOK'
<1> SUFFICES ASSUME TypeOK, [Next]_vars PROVE TypeOK'
  OBVIOUS
<1> USE LedgerAssumption DEF TypeOK, WalletRow, AuthStatus, transfers
<1>1. ASSUME NEW r \in Refs, Decline(r) PROVE TypeOK'
  BY <1>1 DEF Decline
<1>2. ASSUME NEW r \in Refs, Approve(r) PROVE TypeOK'
  BY <1>2 DEF Approve
<1>3. ASSUME NEW r \in Refs, Reverse(r) PROVE TypeOK'
  BY <1>3 DEF Reverse
<1>4. ASSUME NEW r \in Refs, NEW n \in ClearedAmounts, Clear(r, n) PROVE TypeOK'
  <2>1. n \in Int
    OBVIOUS
  <2>2. Append(clearings[r], n) \in Seq(Int)
    BY <2>1
  <2>3. clearings' \in [Refs -> Seq(Int)]
    BY <1>4, <2>2 DEF Clear
  <2>4. WalletOf[r] \in Wallets /\ wallet[WalletOf[r]].reserved - n \in Int
    BY <2>1
  <2>5. wallet' \in [Wallets -> WalletRow]
    BY <1>4, <2>4 DEF Clear
  <2>6. debits' \in [Wallets -> Int]
    BY <1>4, <2>1, <2>4 DEF Clear
  <2>7. auths' \in [Refs -> AuthStatus]
    BY <1>4 DEF Clear
  <2>8. UNCHANGED <<waiting, settlements, credits>>
    BY <1>4 DEF Clear
  <2> QED
    BY <2>3, <2>5, <2>6, <2>7, <2>8
<1>5. ASSUME NEW t \in Transfers, Credit(t) PROVE TypeOK'
  <2>1. Into[t] \in Wallets /\ Deposit[t] \in Int
    OBVIOUS
  <2>2. wallet[Into[t]].available + Deposit[t] \in Int
    BY <2>1
  <2>3. wallet' \in [Wallets -> WalletRow]
    BY <1>5, <2>1, <2>2 DEF Credit
  <2>4. credits' \in [Wallets -> Int]
    BY <1>5, <2>1 DEF Credit
  <2> QED
    BY <1>5, <2>3, <2>4 DEF Credit
<1>6. ASSUME NEW w \in Wallets, NEW n \in DebitAmounts, Debit(w, n) PROVE TypeOK'
  <2>1. n \in Int /\ wallet[w].available - n \in Int
    OBVIOUS
  <2>2. wallet' \in [Wallets -> WalletRow]
    BY <1>6, <2>1 DEF Debit
  <2>3. debits' \in [Wallets -> Int]
    BY <1>6, <2>1 DEF Debit
  <2> QED
    BY <1>6, <2>2, <2>3 DEF Debit
<1>7. ASSUME NEW t \in Transfers, Move(t) PROVE TypeOK'
  <2>1. CASE settlements' = settlements
    BY <1>7, <2>1 DEF Move
  <2>2. CASE settlements[t] < MaxSettlements /\ settlements' = [settlements EXCEPT ![t] = @ + 1]
    <3>1. settlements[t] + 1 \in 0 .. MaxSettlements
      BY <2>2
    <3>2. settlements' \in [Transfers -> 0 .. MaxSettlements]
      BY <2>2, <3>1
    <3>3. waiting' \in SUBSET Transfers
      BY <1>7 DEF Move
    <3> QED
      BY <1>7, <3>2, <3>3 DEF Move
  <2> QED
    BY <1>7, <2>1, <2>2 DEF Move
<1>8. CASE UNCHANGED vars
  BY <1>8 DEF vars
<1> QED
  BY <1>1, <1>2, <1>3, <1>4, <1>5, <1>6, <1>7, <1>8 DEF Next

\* Every reachable state is well typed.
THEOREM WellTyped == Spec => []TypeOK
  BY TypeOKInit, TypeOKStep, PTL DEF Spec

-----------------------------------------------------------------------------
(* NoOverdraft                                                             *)

\* Reverse raises the available balance by Hold[r] and checks nothing about
\* its sign: that it is positive is known from the approval.
HoldsPositive == \A r \in Refs : auths[r] = "authorized" => Hold[r] > 0

OverdraftInv == TypeOK /\ NoOverdraft /\ HoldsPositive

\* No operation of the services overdraws a wallet, whatever amounts the
\* processor asks to hold or to clear: NoOverdraft of WalletLedger.
THEOREM NeverOverdrawn == Spec => []NoOverdraft
<1> USE LedgerAssumption
<1>1. Init => OverdraftInv
  BY TypeOKInit DEF Init, OverdraftInv, NoOverdraft, HoldsPositive
<1>2. OverdraftInv /\ [Next]_vars => OverdraftInv'
  <2> SUFFICES ASSUME OverdraftInv, [Next]_vars
               PROVE  NoOverdraft' /\ HoldsPositive'
    BY TypeOKStep DEF OverdraftInv
  <2> USE DEF OverdraftInv, TypeOK, WalletRow, NoOverdraft, HoldsPositive
  <2>1. ASSUME NEW r \in Refs, Decline(r) PROVE NoOverdraft' /\ HoldsPositive'
    BY <2>1 DEF Decline
  <2>2. ASSUME NEW r \in Refs, Approve(r) PROVE NoOverdraft' /\ HoldsPositive'
    BY <2>2 DEF Approve
  <2>3. ASSUME NEW r \in Refs, Reverse(r) PROVE NoOverdraft' /\ HoldsPositive'
    BY <2>3 DEF Reverse
  <2>4. ASSUME NEW r \in Refs, NEW n \in ClearedAmounts, Clear(r, n)
        PROVE  NoOverdraft' /\ HoldsPositive'
    BY <2>4 DEF Clear
  <2>5. ASSUME NEW t \in Transfers, Credit(t) PROVE NoOverdraft' /\ HoldsPositive'
    BY <2>5 DEF Credit
  <2>6. ASSUME NEW w \in Wallets, NEW n \in DebitAmounts, Debit(w, n)
        PROVE  NoOverdraft' /\ HoldsPositive'
    BY <2>6 DEF Debit
  <2>7. ASSUME NEW t \in Transfers, Move(t) PROVE NoOverdraft' /\ HoldsPositive'
    BY <2>7 DEF Move
  <2>8. CASE UNCHANGED vars
    BY <2>8 DEF vars
  <2> QED
    BY <2>1, <2>2, <2>3, <2>4, <2>5, <2>6, <2>7, <2>8 DEF Next
<1>3. OverdraftInv => NoOverdraft
  BY DEF OverdraftInv
<1> QED
  BY <1>1, <1>2, <1>3, PTL DEF Spec

-----------------------------------------------------------------------------
(* LedgerMatchesBalances                                                   *)

LedgerInv == TypeOK /\ LedgerMatchesBalances

\* CREDIT entries minus DEBIT entries always equal what the wallet holds,
\* available or reserved: LedgerMatchesBalances of WalletLedger, which
\* CardTransactions keeps as long as requests do not overlap.
THEOREM LedgerAlwaysMatches == Spec => []LedgerMatchesBalances
<1> USE LedgerAssumption
<1>1. Init => LedgerInv
  BY TypeOKInit DEF Init, LedgerInv, LedgerMatchesBalances
<1>2. LedgerInv /\ [Next]_vars => LedgerInv'
  <2> SUFFICES ASSUME LedgerInv, [Next]_vars PROVE LedgerMatchesBalances'
    BY TypeOKStep DEF LedgerInv
  <2> USE DEF LedgerInv, TypeOK, WalletRow, LedgerMatchesBalances
  <2>1. ASSUME NEW r \in Refs, Decline(r) PROVE LedgerMatchesBalances'
    BY <2>1 DEF Decline
  <2>2. ASSUME NEW r \in Refs, Approve(r) PROVE LedgerMatchesBalances'
    BY <2>2 DEF Approve
  <2>3. ASSUME NEW r \in Refs, Reverse(r) PROVE LedgerMatchesBalances'
    BY <2>3 DEF Reverse
  <2>4. ASSUME NEW r \in Refs, NEW n \in ClearedAmounts, Clear(r, n)
        PROVE  LedgerMatchesBalances'
    <3> SUFFICES ASSUME NEW w \in Wallets
                 PROVE  credits'[w] - debits'[w]
                          = wallet'[w].available + wallet'[w].reserved
      OBVIOUS
    <3>1. n \in Int /\ credits' = credits
      BY <2>4 DEF Clear
    <3>2. CASE w = WalletOf[r]
      BY <2>4, <3>1, <3>2 DEF Clear
    <3>3. CASE w # WalletOf[r]
      BY <2>4, <3>1, <3>3 DEF Clear
    <3> QED
      BY <3>2, <3>3
  <2>5. ASSUME NEW t \in Transfers, Credit(t) PROVE LedgerMatchesBalances'
    <3> SUFFICES ASSUME NEW w \in Wallets
                 PROVE  credits'[w] - debits'[w]
                          = wallet'[w].available + wallet'[w].reserved
      OBVIOUS
    <3>1. Into[t] \in Wallets /\ Deposit[t] \in Int /\ debits' = debits
      BY <2>5 DEF Credit
    <3>2. CASE w = Into[t]
      <4>1. /\ credits'[w] = credits[w] + Deposit[t]
            /\ wallet'[w].available = wallet[w].available + Deposit[t]
            /\ wallet'[w].reserved = wallet[w].reserved
        BY <2>5, <3>1, <3>2 DEF Credit
      <4>2. credits[w] - debits[w] = wallet[w].available + wallet[w].reserved
        OBVIOUS
      <4>3. /\ credits[w] \in Int /\ debits[w] \in Int
            /\ wallet[w].available \in Int /\ wallet[w].reserved \in Int
        OBVIOUS
      <4> HIDE DEF LedgerInv
      <4> QED
        BY <3>1, <4>1, <4>2, <4>3
    <3>3. CASE w # Into[t]
      BY <2>5, <3>1, <3>3 DEF Credit
    <3> QED
      BY <3>2, <3>3
  <2>6. ASSUME NEW v \in Wallets, NEW n \in DebitAmounts, Debit(v, n)
        PROVE  LedgerMatchesBalances'
    <3> SUFFICES ASSUME NEW w \in Wallets
                 PROVE  credits'[w] - debits'[w]
                          = wallet'[w].available + wallet'[w].reserved
      OBVIOUS
    <3>1. n \in Int /\ credits' = credits
      BY <2>6 DEF Debit
    <3>2. CASE w = v
      <4>1. /\ debits'[w] = debits[w] + n
            /\ wallet'[w].available = wallet[w].available - n
            /\ wallet'[w].reserved = wallet[w].reserved
        BY <2>6, <3>1, <3>2 DEF Debit
      <4>2. credits[w] - debits[w] = wallet[w].available + wallet[w].reserved
        OBVIOUS
      <4>3. /\ credits[w] \in Int /\ debits[w] \in Int
            /\ wallet[w].available \in Int /\ wallet[w].reserved \in Int
        OBVIOUS
      <4> HIDE DEF LedgerInv
      <4> QED
        BY <3>1, <4>1, <4>2, <4>3
    <3>3. CASE w # v
      BY <2>6, <3>1, <3>3 DEF Debit
    <3> QED
      BY <3>2, <3>3
  <2>7. ASSUME NEW t \in Transfers, Move(t) PROVE LedgerMatchesBalances'
    BY <2>7 DEF Move
  <2>8. CASE UNCHANGED vars
    BY <2>8 DEF vars
  <2> QED
    BY <2>1, <2>2, <2>3, <2>4, <2>5, <2>6, <2>7, <2>8 DEF Next
<1>3. LedgerInv => LedgerMatchesBalances
  BY DEF LedgerInv
<1> QED
  BY <1>1, <1>2, <1>3, PTL DEF Spec

-----------------------------------------------------------------------------
(* ReservedExplained and HoldsCovered                                      *)

\* Only finitely many authorizations have a row, however many references the
\* processor could send, so that the sums over them mean something.
FiniteRows == IsFiniteSet({r \in Refs : auths[r] # "none"})

ReservedInv == TypeOK /\ FiniteRows /\ ReservedExplained

\* Only authorizations with a row are charged, so a wallet has finitely many.
LEMMA ChargedFinite ==
  ASSUME FiniteRows, NEW w, NEW s, s # "none"
  PROVE  IsFiniteSet(Charged(w, s))
<1>1. Charged(w, s) \in SUBSET {r \in Refs : auths[r] # "none"}
  BY DEF Charged
<1> QED
  BY <1>1, FS_Subset DEF FiniteRows

\* Holds and what clearings left of them are integers.
LEMMA ResidueInt ==
  ASSUME TypeOK
  PROVE  \A r \in Refs : Hold[r] \in Int /\ Residue[r] \in Int
  BY LedgerAssumption DEF TypeOK, Residue

\* What the cleared authorizations of w left behind in reserved.
Left(w) == SumFunctionOnSet(Residue, Charged(w, "cleared"))

\* So the two sums are integers too.
LEMMA ReservedSumsInt ==
  ASSUME TypeOK, FiniteRows, NEW w
  PROVE  Outstanding(w) \in Int /\ Left(w) \in Int
<1>1. /\ \A r \in Charged(w, "authorized") : Hold[r] \in Int
      /\ \A r \in Charged(w, "cleared") : Residue[r] \in Int
  BY ResidueInt DEF Charged
<1>2. IsFiniteSet(Charged(w, "authorized")) /\ IsFiniteSet(Charged(w, "cleared"))
  BY ChargedFinite
<1> QED
  BY <1>1, <1>2, SumInt DEF Outstanding, Left

\* A status that changes moves one authorization of one wallet.
LEMMA ChargedMoves ==
  ASSUME TypeOK, NEW r \in Refs, NEW s, auths' = [auths EXCEPT ![r] = s], s # auths[r],
         NEW w, NEW x
  PROVE  /\ w = WalletOf[r] /\ x = s => Charged(w, x)' = Charged(w, x) \cup {r}
         /\ w = WalletOf[r] /\ x = auths[r] => Charged(w, x)' = Charged(w, x) \ {r}
         /\ w # WalletOf[r] => Charged(w, x)' = Charged(w, x)
         /\ r \in Charged(w, x) <=> w = WalletOf[r] /\ x = auths[r]
  BY DEF Charged, TypeOK

\* A step adds one authorization row at most.
LEMMA FiniteRowsStep == TypeOK /\ FiniteRows /\ [Next]_vars => FiniteRows'
<1> SUFFICES ASSUME TypeOK, FiniteRows, [Next]_vars PROVE FiniteRows'
  OBVIOUS
<1> USE DEF FiniteRows
<1>1. ASSUME NEW r \in Refs, NEW s, auths' = [auths EXCEPT ![r] = s] PROVE FiniteRows'
  <2> DEFINE Rows == {q \in Refs : auths[q] # "none"}
  <2>1. IsFiniteSet(Rows \cup {r})
    BY FS_AddElement
  <2>2. {q \in Refs : auths'[q] # "none"} \in SUBSET (Rows \cup {r})
    BY <1>1 DEF TypeOK
  <2> HIDE DEF Rows
  <2> QED
    BY <2>1, <2>2, FS_Subset
<1>2. CASE auths' = auths
  BY <1>2
<1>3. \/ auths' = auths
      \/ \E r \in Refs : \E s \in AuthStatus : auths' = [auths EXCEPT ![r] = s]
  BY DEF Next, vars, Decline, Approve, Reverse, Clear, Credit, Move, Debit, AuthStatus
<1> QED
  BY <1>1, <1>2, <1>3

\* An approval adds its hold to what is outstanding on its wallet.
LEMMA ApproveSums ==
  ASSUME TypeOK, FiniteRows, NEW r \in Refs, Approve(r), NEW w \in Wallets
  PROVE  /\ Outstanding(w)' = Outstanding(w) + (IF w = WalletOf[r] THEN Hold[r] ELSE 0)
         /\ Left(w)' = Left(w)
<1>1. auths' = [auths EXCEPT ![r] = "authorized"] /\ Residue' = Residue
      /\ auths[r] = "none" /\ "authorized" # auths[r] /\ "cleared" # auths[r]
  BY DEF Approve, Residue
<1>2. Charged(w, "cleared")' = Charged(w, "cleared")
  <2>1. auths' = [auths EXCEPT ![r] = "authorized"]
    BY <1>1
  <2>2. "authorized" # auths[r] /\ "cleared" # auths[r]
    BY <1>1
  <2>3. "cleared" # "authorized"
    OBVIOUS
  <2> QED
    BY <2>1, <2>2, <2>3 DEF Charged, TypeOK
<1>3. Left(w)' = Left(w)
  BY <1>1, <1>2 DEF Left
<1>4. Outstanding(w) \in Int
  BY ReservedSumsInt
<1>5. CASE w = WalletOf[r]
  <2>1. /\ Charged(w, "authorized")' = Charged(w, "authorized") \cup {r}
        /\ r \notin Charged(w, "authorized")
    BY <1>1, <1>5, ChargedMoves
  <2>2. \A q \in Charged(w, "authorized") \cup {r} : Hold[q] \in Int
    BY ResidueInt DEF Charged
  <2>3. IsFiniteSet(Charged(w, "authorized"))
    BY ChargedFinite
  <2>4. Outstanding(w)' = Hold[r] + Outstanding(w)
    BY <2>1, <2>2, <2>3, SumAdd DEF Outstanding
  <2> QED
    BY <1>3, <1>4, <1>5, <2>2, <2>4
<1>6. CASE w # WalletOf[r]
  <2>1. Charged(w, "authorized")' = Charged(w, "authorized")
    BY <1>1, <1>6, ChargedMoves
  <2>2. Outstanding(w)' = Outstanding(w)
    BY <2>1 DEF Outstanding
  <2> QED
    BY <1>3, <1>4, <1>6, <2>2
<1> QED
  BY <1>5, <1>6

\* A reversal and a clearing take the hold away again,
LEMMA EndsHold ==
  ASSUME TypeOK, FiniteRows, NEW r \in Refs, auths[r] = "authorized",
         NEW s, s # "authorized", auths' = [auths EXCEPT ![r] = s], NEW w \in Wallets
  PROVE  Outstanding(w)' = Outstanding(w) - (IF w = WalletOf[r] THEN Hold[r] ELSE 0)
<1>1. Outstanding(w) \in Int /\ Outstanding(w)' = SumFunctionOnSet(Hold, Charged(w, "authorized")')
  BY ReservedSumsInt DEF Outstanding
<1>2. CASE w = WalletOf[r]
  <2>1. /\ Charged(w, "authorized")' = Charged(w, "authorized") \ {r}
        /\ r \in Charged(w, "authorized")
    BY <1>2, ChargedMoves
  <2>2. \A q \in Charged(w, "authorized") : Hold[q] \in Int
    BY ResidueInt DEF Charged
  <2>3. IsFiniteSet(Charged(w, "authorized"))
    BY ChargedFinite
  <2>4. Outstanding(w) = Hold[r] + Outstanding(w)'
    BY <1>1, <2>1, <2>2, <2>3, SumRemove DEF Outstanding
  <2>5. IsFiniteSet(Charged(w, "authorized") \ {r})
    BY <2>3, FS_RemoveElement
  <2>6. Outstanding(w)' \in Int
    BY <1>1, <2>1, <2>2, <2>5, SumInt
  <2> QED
    BY <1>1, <1>2, <2>1, <2>2, <2>4, <2>6
<1>3. CASE w # WalletOf[r]
  <2>1. Charged(w, "authorized")' = Charged(w, "authorized")
    BY <1>3, ChargedMoves
  <2> QED
    BY <1>1, <1>3, <2>1 DEF Outstanding
<1> QED
  BY <1>2, <1>3

\* and a clearing of n leaves the rest of the hold behind.
LEMMA ClearSums ==
  ASSUME TypeOK, FiniteRows, NEW r \in Refs, NEW n \in Int, Clear(r, n), NEW w \in Wallets
  PROVE  Left(w)' = Left(w) + (IF w = WalletOf[r] THEN Hold[r] - n ELSE 0)
<1> DEFINE C == Charged(w, "cleared")
<1>1. /\ auths[r] = "authorized" /\ auths' = [auths EXCEPT ![r] = "cleared"]
      /\ "cleared" # auths[r]
      /\ clearings[r] = << >> /\ clearings' = [clearings EXCEPT ![r] = Append(@, n)]
  BY DEF Clear
<1>2. clearings'[r] = Append(<< >>, n) /\ \A q \in Refs \ {r} : clearings'[q] = clearings[q]
  BY <1>1 DEF TypeOK
<1>3. Append(<< >>, n) # << >> /\ Append(<< >>, n)[1] = n
  OBVIOUS
<1>4. Residue'[r] = Hold[r] - n /\ \A q \in Refs \ {r} : Residue'[q] = Residue[q]
  BY <1>2, <1>3 DEF Residue
<1>5. r \notin C /\ C \subseteq Refs /\ IsFiniteSet(C)
  BY <1>1, ChargedFinite DEF Charged
<1>6. \A q \in C : Residue[q] \in Int /\ Residue[q] = Residue'[q]
  BY <1>4, <1>5, ResidueInt
<1>7. Left(w) \in Int /\ Hold[r] - n \in Int
  BY ReservedSumsInt, ResidueInt
<1>8. SumFunctionOnSet(Residue', C) = Left(w)
  BY <1>5, <1>6, SumEqual DEF Left
<1>9. CASE w = WalletOf[r]
  <2>1. Charged(w, "cleared")' = C \cup {r}
    BY <1>1, <1>9, ChargedMoves
  <2>2. \A q \in C \cup {r} : Residue'[q] \in Int
    BY <1>4, <1>6, <1>7
  <2>3. SumFunctionOnSet(Residue', C \cup {r}) = Residue'[r] + SumFunctionOnSet(Residue', C)
    BY <1>5, <2>2, SumAdd
  <2> QED
    <3>1. Left(w)' = SumFunctionOnSet(Residue', C \cup {r})
      BY <2>1 DEF Left
    <3> HIDE DEF C
    <3> QED
      BY <1>4, <1>7, <1>8, <1>9, <2>3, <3>1
<1>10. CASE w # WalletOf[r]
  <2>1. Charged(w, "cleared")' = C
    <3>1. auths' = [auths EXCEPT ![r] = "cleared"] /\ "cleared" # auths[r]
      BY <1>1
    <3> QED
      BY <1>10, <3>1, ChargedMoves
  <2> QED
    BY <1>7, <1>8, <1>10, <2>1 DEF Left
<1> QED
  BY <1>9, <1>10

\* No other step touches a reserved balance, a hold or a clearing.
LEMMA ReservedKept ==
  ASSUME UNCHANGED <<auths, clearings>>, NEW w
  PROVE  Outstanding(w)' = Outstanding(w) /\ Left(w)' = Left(w)
  BY DEF Outstanding, Left, Charged, Residue

\* Each operation moves the reserved balance and the sums by the same amount.
LEMMA ReservedStep == ReservedInv /\ [Next]_vars => ReservedInv'
<1> SUFFICES ASSUME ReservedInv, [Next]_vars, NEW w \in Wallets
             PROVE  wallet'[w].reserved = Outstanding(w)' + Left(w)'
  <2>1. ReservedInv' <=> TypeOK' /\ FiniteRows' /\ ReservedExplained'
    BY DEF ReservedInv
  <2>2. ReservedExplained' <=> \A v \in Wallets : wallet'[v].reserved = Outstanding(v)' + Left(v)'
    BY DEF ReservedExplained, Left
  <2> QED
    BY <2>1, <2>2, TypeOKStep, FiniteRowsStep DEF ReservedInv
<1> USE LedgerAssumption
<1>1. TypeOK /\ FiniteRows
  BY DEF ReservedInv
<1>2. wallet[w].reserved = Outstanding(w) + Left(w)
  BY DEF ReservedInv, ReservedExplained, Left
<1>3. Outstanding(w) \in Int /\ Left(w) \in Int
  BY <1>1, ReservedSumsInt
<1>4. \A r \in Refs : Hold[r] \in Int /\ WalletOf[r] \in Wallets
  OBVIOUS
<1>5. /\ wallet \in [Wallets -> WalletRow]
      /\ \A v \in Wallets : wallet[v].available \in Int /\ wallet[v].reserved \in Int
  BY <1>1 DEF TypeOK, WalletRow
<1>6. ASSUME NEW r \in Refs, Decline(r) PROVE wallet'[w].reserved = Outstanding(w)' + Left(w)'
  <2>1. auths[r] = "none" /\ auths' = [auths EXCEPT ![r] = "declined"]
    BY <1>6 DEF Decline
  <2>2. "declined" # auths[r] /\ "authorized" # auths[r] /\ "cleared" # auths[r]
    BY <2>1
  <2>3. "authorized" # "declined" /\ "cleared" # "declined"
    OBVIOUS
  <2>4. Charged(w, "authorized")' = Charged(w, "authorized")
    BY <1>1, <2>1, <2>2, <2>3 DEF Charged, TypeOK
  <2>5. Charged(w, "cleared")' = Charged(w, "cleared")
    BY <1>1, <2>1, <2>2, <2>3 DEF Charged, TypeOK
  <2>6. Residue' = Residue /\ wallet' = wallet
    BY <1>6 DEF Decline, Residue
  <2> QED
    BY <1>2, <2>4, <2>5, <2>6 DEF Outstanding, Left
<1>7. ASSUME NEW r \in Refs, Approve(r) PROVE wallet'[w].reserved = Outstanding(w)' + Left(w)'
  <2>1. wallet'[w].reserved = wallet[w].reserved + (IF w = WalletOf[r] THEN Hold[r] ELSE 0)
    BY <1>4, <1>5, <1>7 DEF Approve
  <2>2. /\ Outstanding(w)' = Outstanding(w) + (IF w = WalletOf[r] THEN Hold[r] ELSE 0)
        /\ Left(w)' = Left(w)
    BY <1>1, <1>7, ApproveSums
  <2> QED
    BY <1>2, <1>3, <1>4, <2>1, <2>2
<1>8. ASSUME NEW r \in Refs, Reverse(r) PROVE wallet'[w].reserved = Outstanding(w)' + Left(w)'
  <2>1. wallet'[w].reserved = wallet[w].reserved - (IF w = WalletOf[r] THEN Hold[r] ELSE 0)
    BY <1>4, <1>5, <1>8 DEF Reverse
  <2>2. /\ auths[r] = "authorized" /\ auths' = [auths EXCEPT ![r] = "reversed"]
        /\ Residue' = Residue
    BY <1>8 DEF Reverse, Residue
  <2>3. Outstanding(w)' = Outstanding(w) - (IF w = WalletOf[r] THEN Hold[r] ELSE 0)
    BY <1>1, <2>2, EndsHold
  <2>4. /\ "reversed" # auths[r] /\ "cleared" # auths[r] /\ "cleared" # "reversed"
    BY <2>2
  <2>5. Charged(w, "cleared")' = Charged(w, "cleared")
    BY <1>1, <2>2, <2>4 DEF Charged, TypeOK
  <2>6. Left(w)' = Left(w)
    BY <2>2, <2>5 DEF Left
  <2> QED
    BY <1>2, <1>3, <1>4, <2>1, <2>3, <2>6
<1>9. ASSUME NEW r \in Refs, NEW n \in ClearedAmounts, Clear(r, n)
      PROVE  wallet'[w].reserved = Outstanding(w)' + Left(w)'
  <2>0. n \in Int
    OBVIOUS
  <2>1. wallet'[w].reserved = wallet[w].reserved - (IF w = WalletOf[r] THEN n ELSE 0)
    BY <1>4, <1>5, <1>9, <2>0 DEF Clear
  <2>2. auths[r] = "authorized" /\ auths' = [auths EXCEPT ![r] = "cleared"]
    BY <1>9 DEF Clear
  <2>3. Outstanding(w)' = Outstanding(w) - (IF w = WalletOf[r] THEN Hold[r] ELSE 0)
    BY <1>1, <2>2, EndsHold
  <2>4. Left(w)' = Left(w) + (IF w = WalletOf[r] THEN Hold[r] - n ELSE 0)
    BY <1>1, <1>9, <2>0, ClearSums
  <2> QED
    BY <1>2, <1>3, <1>4, <2>0, <2>1, <2>3, <2>4
<1>10. ASSUME NEW t \in Transfers, Credit(t) PROVE wallet'[w].reserved = Outstanding(w)' + Left(w)'
  <2>1. wallet'[w].reserved = wallet[w].reserved /\ UNCHANGED <<auths, clearings>>
    BY <1>5, <1>10 DEF Credit
  <2> QED
    BY <1>2, <2>1, ReservedKept
<1>11. ASSUME NEW v \in Wallets, NEW n \in DebitAmounts, Debit(v, n)
       PROVE  wallet'[w].reserved = Outstanding(w)' + Left(w)'
  <2>1. wallet'[w].reserved = wallet[w].reserved /\ UNCHANGED <<auths, clearings>>
    BY <1>5, <1>11 DEF Debit
  <2> QED
    BY <1>2, <2>1, ReservedKept
<1>12. ASSUME NEW t \in Transfers, Move(t) PROVE wallet'[w].reserved = Outstanding(w)' + Left(w)'
  BY <1>2, <1>12, ReservedKept DEF Move
<1>13. CASE UNCHANGED vars
  BY <1>2, <1>13, ReservedKept DEF vars
<1> QED
  BY <1>6, <1>7, <1>8, <1>9, <1>10, <1>11, <1>12, <1>13 DEF Next

\* At first nothing is reserved and nothing charged.
LEMMA ReservedStart == Init => ReservedInv
<1> SUFFICES ASSUME Init PROVE ReservedInv
  OBVIOUS
<1>1. \A r \in Refs : auths[r] = "none"
  BY DEF Init
<1>2. FiniteRows
  <2>1. {r \in Refs : auths[r] # "none"} = {}
    BY <1>1
  <2> QED
    BY <2>1, FS_EmptySet DEF FiniteRows
<1>3. ASSUME NEW w \in Wallets PROVE wallet[w].reserved = Outstanding(w) + Left(w)
  <2>1. Charged(w, "authorized") = {} /\ Charged(w, "cleared") = {}
    BY <1>1 DEF Charged
  <2>2. Outstanding(w) = 0 /\ Left(w) = 0
    BY <2>1, SumEmpty DEF Outstanding, Left
  <2> QED
    BY <2>2 DEF Init
<1> QED
  BY <1>2, <1>3, TypeOKInit DEF ReservedInv, ReservedExplained, Left

\* The inductive invariant behind the two theorems below.
LEMMA ReservedInvariance == Spec => []ReservedInv
  BY ReservedStart, ReservedStep, PTL DEF Spec

\* The reserved balance of every wallet is what is still held, plus what its
\* clearings left over: ReservedExplained of WalletLedger, with no bound on
\* the authorizations or the amounts.
THEOREM ReservedAlwaysExplained == Spec => []ReservedExplained
<1>1. ReservedInv => ReservedExplained
  BY DEF ReservedInv
<1> QED
  BY <1>1, ReservedInvariance, PTL

\* While no clearing went beyond its hold, every hold can still be settled or
\* given back in full: HoldsCovered of WalletLedger.
THEOREM HoldsAlwaysCovered == Spec => []HoldsCovered
<1>1. ReservedInv => HoldsCovered
  <2> SUFFICES ASSUME ReservedInv, \A r \in Refs : Residue[r] >= 0 \/ auths[r] # "cleared",
                      NEW w \in Wallets
               PROVE  wallet[w].reserved >= Outstanding(w)
    BY DEF HoldsCovered
  <2>1. TypeOK /\ FiniteRows /\ wallet[w].reserved = Outstanding(w) + Left(w)
    BY DEF ReservedInv, ReservedExplained, Left
  <2>2. \A r \in Charged(w, "cleared") : Residue[r] \in Nat
    BY <2>1, ResidueInt DEF Charged
  <2>3. IsFiniteSet(Charged(w, "cleared"))
    BY <2>1, ChargedFinite
  <2>4. Left(w) \in Nat
    BY <2>2, <2>3, SumNat DEF Left
  <2>5. Outstanding(w) \in Int
    BY <2>1, ReservedSumsInt
  <2> QED
    BY <2>1, <2>4, <2>5
<1> QED
  BY <1>1, ReservedInvariance, PTL
=============================================================================
