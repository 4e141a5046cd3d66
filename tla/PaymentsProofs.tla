--------------------------- MODULE PaymentsProofs ---------------------------
(***************************************************************************)
(* Safety of the payment handlers for any number of clients, keys, amounts *)
(* and transactions.                                                       *)
(***************************************************************************)
EXTENDS Payments, SequenceTheorems, WellFoundedInduction, TLAPS

(***************************************************************************)
(* A key whose result is not cached has paid for nothing since it was last *)
(* evicted: InitiateTransaction caches in the step in which it debits.     *)
(***************************************************************************)
UncachedUnpaid == \A k \in Keys : k \notin idempotency => paid[k] = 0

(***************************************************************************)
(* A transaction that may still be overridden has been debited at most     *)
(* once per review that demoted it, so one more debit is within bounds.    *)
(***************************************************************************)
TxnBounded(t) ==
    /\ t.debits <= 1 + t.reviews
    /\ t.status \in PendingOverride => t.debits <= t.reviews

AllBounded == \A i \in 1..Len(transactions) : TxnBounded(transactions[i])

USE PaymentsAssumption

-----------------------------------------------------------------------------
(***************************************************************************)
(* Sequences: what a handler's append and in-place update preserve.        *)
(***************************************************************************)
\* Replacing an element of a history by another of the same type.
LEMMA UpdateSeq ==
    ASSUME NEW S, NEW s \in Seq(S), NEW i \in 1..Len(s), NEW v \in S
    PROVE  /\ [s EXCEPT ![i] = v] \in Seq(S)
           /\ Len([s EXCEPT ![i] = v]) = Len(s)
           /\ \A j \in 1..Len(s) : [s EXCEPT ![i] = v][j] = IF j = i THEN v ELSE s[j]
OBVIOUS

\* Appending an element to a history.
LEMMA AppendSeq ==
    ASSUME NEW S, NEW s \in Seq(S), NEW v \in S
    PROVE  /\ Append(s, v) \in Seq(S)
           /\ Len(Append(s, v)) = Len(s) + 1
           /\ \A j \in 1..Len(s) + 1 : Append(s, v)[j] = IF j <= Len(s) THEN s[j] ELSE v
OBVIOUS

-----------------------------------------------------------------------------
(***************************************************************************)
(* applyDebitToFirstAccountLocked.                                         *)
(***************************************************************************)
\* A covered debit leaves no account negative and takes exactly the amount.
LEMMA DebitTakesAmount ==
    ASSUME first \in Nat, others \in Nat, NEW a \in Nat, Covered(a), Debit(a)
    PROVE  /\ first' \in Nat
           /\ others' \in Nat
           /\ first' + others' + a = first + others
BY DEF Covered, Debit

-----------------------------------------------------------------------------
(***************************************************************************)
(* How a step may change the transaction history: not at all, by appending *)
(* a record, or by rewriting one.  Each new record is within bounds, given *)
(* that the one it replaces was.                                           *)
(***************************************************************************)
Appends(t) == t \in Txn /\ TxnBounded(t) /\ transactions' = Append(transactions, t)

Rewrites(i, t) ==
    /\ t \in Txn
    /\ TxnBounded(transactions[i]) => TxnBounded(t)
    /\ transactions' = [transactions EXCEPT ![i] = t]

TransactionStep ==
    \/ transactions' = transactions
    \/ \E t : Appends(t)
    \/ \E i \in 1..Len(transactions), t \in Txn : Rewrites(i, t)

\* The records InitiateTransaction and IngestBankEvent append.
LEMMA NewTxnBounded ==
    ASSUME NEW k \in Keys \cup {NoKey}, NEW a \in Nat, NEW st \in Status,
           NEW cool \in CoolingOff, NEW n \in {0, 1},
           n = 1 => st = "success"
    PROVE  NewTxn(k, a, st, cool, n) \in Txn /\ TxnBounded(NewTxn(k, a, st, cool, n))
BY DEF NewTxn, Txn, TxnBounded, PendingOverride

\* Every way through InitiateTransaction is such a step.
LEMMA InitiateTransactionStep ==
    ASSUME TypeOK, NEW c \in Clients, Initiate(c)
    PROVE  TransactionStep
<1> USE DEF TransactionStep, Appends
<1>1. CASE InitiateReplay(c)
  BY <1>1 DEF InitiateReplay
<1>2. CASE \E k \in Keys : InitiateFrozen(c, k)
  BY <1>2 DEF InitiateFrozen
<1>3. ASSUME NEW k \in Keys, NEW a \in Amounts,
             InitiateSettled(c, k, a) \/ InitiateInsufficient(c, k, a)
      PROVE  TransactionStep
  <2>1. PICK n \in {0, 1} : transactions' = Append(transactions, NewTxn(k, a, "success", "none", n))
    BY <1>3 DEF InitiateSettled, InitiateInsufficient, Record
  <2> QED
    BY <2>1, NewTxnBounded DEF Status, CoolingOff
<1>4. ASSUME NEW k \in Keys, NEW a \in Amounts, NEW d \in RiskDecision,
             \/ InitiateViolation(c, k, a, d)
             \/ InitiateChainError(c, k, a, d)
             \/ InitiateHeld(c, k, a, d)
      PROVE  TransactionStep
  <2>1. PICK st \in Status :
          transactions' = Append(transactions, NewTxn(k, a, st, CoolingFor(d), 0))
    BY <1>4 DEF InitiateViolation, InitiateChainError, InitiateHeld, Record, Status,
                RiskDecision
  <2>2. CoolingFor(d) \in CoolingOff
    BY DEF CoolingFor, CoolingOff
  <2> QED
    BY <2>1, <2>2, NewTxnBounded
<1> QED
  BY <1>1, <1>2, <1>3, <1>4 DEF Initiate

\* Rewriting the status of a record, and counting a debit or a review.
LEMMA RewriteTxn ==
    ASSUME NEW t \in Txn
    PROVE  /\ \A st \in Status : [t EXCEPT !.status = st] \in Txn
           /\ \A cool \in CoolingOff : [t EXCEPT !.cooling = cool] \in Txn
           /\ \A st \in Status : [t EXCEPT !.status = st, !.debits = @ + 1] \in Txn
           /\ \A st \in Status, n \in Nat : [t EXCEPT !.status = st, !.reviews = n] \in Txn
           /\ \A st \in Status, cool \in CoolingOff :
                  [t EXCEPT !.status = st, !.cooling = cool] \in Txn
<1>1. \A st \in Status : [t EXCEPT !.status = st] \in Txn
  BY DEF Txn
<1>2. \A cool \in CoolingOff : [t EXCEPT !.cooling = cool] \in Txn
  BY DEF Txn
<1>3. ASSUME NEW st \in Status
      PROVE  [t EXCEPT !.status = st, !.debits = @ + 1] \in Txn
  <2>1. t.debits + 1 \in Nat
    BY DEF Txn
  <2>2. \A d \in Nat : [t EXCEPT !.status = st, !.debits = d] \in Txn
    BY DEF Txn
  <2> QED
    BY <2>1, <2>2
<1>4. \A st \in Status, n \in Nat : [t EXCEPT !.status = st, !.reviews = n] \in Txn
  BY DEF Txn
<1>5. \A st \in Status, cool \in CoolingOff :
        [t EXCEPT !.status = st, !.cooling = cool] \in Txn
  BY DEF Txn
<1> QED
  BY <1>1, <1>2, <1>3, <1>4, <1>5

\* OverrideTransaction settles a pending record, once.
LEMMA OverrideTransactionStep ==
    ASSUME TypeOK, NEW c \in Clients, Override(c)
    PROVE  TransactionStep
<1> USE DEF TransactionStep, Rewrites
<1>1. CASE OverrideRefused(c)
  BY <1>1 DEF OverrideRefused
<1>2. ASSUME NEW i \in 1..Len(transactions), OverrideSettled(c, i)
      PROVE  TransactionStep
  <2> DEFINE t == transactions[i]
             u == [t EXCEPT !.status = "success", !.debits = @ + 1]
  <2>1. t \in Txn /\ t.status \in PendingOverride
    BY <1>2 DEF TypeOK, OverrideSettled, Overridable
  <2>2. u \in Txn
    BY <2>1, RewriteTxn DEF Status
  <2>3. TxnBounded(t) => TxnBounded(u)
    BY <2>1 DEF TxnBounded, Txn, PendingOverride
  <2>4. transactions' = [transactions EXCEPT ![i] = u]
    BY <1>2 DEF OverrideSettled, SetTxn
  <2> QED
    BY <2>2, <2>3, <2>4
<1>3. ASSUME NEW i \in 1..Len(transactions), OverrideInsufficient(c, i)
      PROVE  TransactionStep
  <2> DEFINE t == transactions[i]
             u == [t EXCEPT !.status = "success"]
  <2>1. t \in Txn
    BY DEF TypeOK
  <2>2. u \in Txn
    BY <2>1, RewriteTxn DEF Status
  <2>3. TxnBounded(t) => TxnBounded(u)
    BY <2>1 DEF TxnBounded, Txn, PendingOverride
  <2>4. transactions' = [transactions EXCEPT ![i] = u]
    BY <1>3 DEF OverrideInsufficient, SetTxn
  <2> QED
    BY <2>2, <2>3, <2>4
<1> QED
  BY <1>1, <1>2, <1>3 DEF Override

\* What a review makes of a status, and what it counts.
LEMMA ReviewedBounded ==
    ASSUME NEW t \in Txn, NEW v \in Verdict, NEW n \in Nat,
           n = IF Demotes(t.status, v) THEN t.reviews + 1 ELSE t.reviews
    PROVE  LET u == [t EXCEPT !.status = ReviewedStatus(t.status, v), !.reviews = n]
           IN  u \in Txn /\ (TxnBounded(t) => TxnBounded(u))
<1> DEFINE st == ReviewedStatus(t.status, v)
           u == [t EXCEPT !.status = st, !.reviews = n]
<1>1. t.status \in Status /\ t.debits \in Nat /\ t.reviews \in Nat
  BY DEF Txn
<1>2. st \in Status
  BY <1>1 DEF ReviewedStatus, Verdict, Status, PendingOverride
<1>3. u \in Txn
  BY <1>2, RewriteTxn
<1>4. u.status = st /\ u.reviews = n /\ u.debits = t.debits
  BY DEF Txn
<1>5. TxnBounded(t) => TxnBounded(u)
  BY <1>1, <1>2, <1>4 DEF TxnBounded, Demotes
<1> QED
  BY <1>3, <1>5

\* ValidateRisk, tx_schedule and the end of a cooling-off window.
LEMMA ReviewTransactionStep ==
    ASSUME TypeOK, OnTransaction
    PROVE  TransactionStep
<1> USE DEF TransactionStep, Rewrites
<1>1. PICK i \in 1..Len(transactions) :
        \/ \E v \in Verdict : ValidateRisk(i, v)
        \/ Schedule(i)
        \/ CoolingOffEnds(i)
  BY DEF OnTransaction
<1> DEFINE t == transactions[i]
<1>2. t \in Txn /\ t.debits \in Nat /\ t.reviews \in Nat
  <2>1. t \in Txn
    BY DEF TypeOK
  <2> QED
    BY <2>1 DEF Txn
<1>3. ASSUME NEW v \in Verdict, ValidateRisk(i, v)
      PROVE  TransactionStep
  <2> DEFINE n == IF Demotes(t.status, v) THEN t.reviews + 1 ELSE t.reviews
             u == [t EXCEPT !.status = ReviewedStatus(t.status, v), !.reviews = n]
  <2>1. n \in Nat
    BY <1>2
  <2>2. u \in Txn /\ (TxnBounded(t) => TxnBounded(u))
    BY <1>2, <2>1, ReviewedBounded
  <2>3. transactions' = [transactions EXCEPT ![i] = u]
    BY <1>3 DEF ValidateRisk, SetTxn
  <2> QED
    BY <2>2, <2>3
<1>4. CASE Schedule(i)
  <2> DEFINE u == [t EXCEPT !.status = "scheduled", !.cooling = "active"]
  <2>1. u \in Txn
    BY <1>2, RewriteTxn DEF Status, CoolingOff
  <2>2. TxnBounded(t) => TxnBounded(u)
    BY <1>2 DEF TxnBounded, Txn, PendingOverride
  <2>3. transactions' = [transactions EXCEPT ![i] = u]
    BY <1>4 DEF Schedule, SetTxn
  <2> QED
    BY <2>1, <2>2, <2>3
<1>5. CASE CoolingOffEnds(i)
  <2> DEFINE u == [t EXCEPT !.cooling = "expired"]
  <2>1. u \in Txn
    BY <1>2, RewriteTxn DEF CoolingOff
  <2>2. TxnBounded(t) => TxnBounded(u)
    BY <1>2 DEF TxnBounded, Txn
  <2>3. transactions' = [transactions EXCEPT ![i] = u]
    BY <1>5 DEF CoolingOffEnds, SetTxn
  <2> QED
    BY <2>1, <2>2, <2>3
<1> QED
  BY <1>1, <1>3, <1>4, <1>5

\* IngestBankEvent appends a record.
LEMMA BankEventTransactionStep ==
    ASSUME TypeOK, IngestBankEvent
    PROVE  TransactionStep
<1>1. PICK a \in Amounts :
        \/ \E d \in RiskDecision : BankEventHeld(a, d)
        \/ BankEventSettled(a)
        \/ BankEventInsufficient(a)
  BY DEF IngestBankEvent
<1>2. PICK st \in Status, n \in {0, 1} :
        /\ n = 1 => st = "success"
        /\ transactions' = Append(transactions, NewTxn(NoKey, a, st, "none", n))
  BY <1>1 DEF BankEventHeld, BankEventSettled, BankEventInsufficient, Record,
              RiskDecision, Status
<1>3. NewTxn(NoKey, a, st, "none", n) \in Txn /\ TxnBounded(NewTxn(NoKey, a, st, "none", n))
  BY <1>2, NewTxnBounded DEF CoolingOff
<1> QED
  BY <1>2, <1>3 DEF TransactionStep, Appends

\* Goals, locks, investment orders, the middleware and the cache leave the
\* history alone.
LEMMA OtherTransactionStep ==
    ASSUME \/ \E c \in Clients : Admit(c)
           \/ \E k \in Keys : Evict(k)
           \/ Locks
           \/ \E c \in Clients : InvestmentOrder(c)
           \/ OnGoal
    PROVE  transactions' = transactions
BY DEF Admit, Evict, Locks, EmergencyFreeze, Unfreeze, LedgerWindowEnds,
       OrderWindowEnds, InvestmentOrder, OrderHeld, OrderExecuted,
       OrderWithoutDebit, OnGoal, OnlyGoalsChange, CreateGoal, ContributeGoal, CloseGoal, PauseGoal,
       ResumeGoal, SetGoalStatus, DissolveGoal

\* Every step of the specification changes the history in one of these ways.
LEMMA NextTransactionStep == TypeOK /\ [Next]_vars => TransactionStep
<1> SUFFICES ASSUME TypeOK, [Next]_vars PROVE TransactionStep
  OBVIOUS
<1>1. CASE UNCHANGED vars
  BY <1>1 DEF vars, TransactionStep
<1>2. CASE Next
  BY <1>2, InitiateTransactionStep, OverrideTransactionStep,
     ReviewTransactionStep, BankEventTransactionStep, OtherTransactionStep
     DEF Next, TransactionStep
<1> QED
  BY <1>1, <1>2

\* Such a step keeps the history a sequence of records, all within bounds.
LEMMA TransactionStepPreserves ==
    ASSUME transactions \in Seq(Txn), TransactionStep
    PROVE  transactions' \in Seq(Txn) /\ (AllBounded => AllBounded')
<1>1. CASE transactions' = transactions
  BY <1>1 DEF AllBounded
<1>2. CASE \E t : Appends(t)
  <2>1. PICK t : Appends(t)
    BY <1>2
  <2> QED
    BY <2>1, AppendSeq DEF Appends, AllBounded
<1>3. CASE \E i \in 1..Len(transactions), t \in Txn : Rewrites(i, t)
  <2>1. PICK i \in 1..Len(transactions), t \in Txn : Rewrites(i, t)
    BY <1>3
  <2> QED
    BY <2>1, UpdateSeq DEF Rewrites, AllBounded
<1> QED
  BY <1>1, <1>2, <1>3 DEF TransactionStep

-----------------------------------------------------------------------------
(***************************************************************************)
(* How a step may change the idempotency cache: not at all, by caching a   *)
(* key that was not cached, debiting under it at most once, or by evicting *)
(* a key.                                                                  *)
(***************************************************************************)
Caches(k) ==
    /\ k \notin idempotency
    /\ idempotency' = idempotency \cup {k}
    /\ paid' = paid \/ paid' = [paid EXCEPT ![k] = @ + 1]

Evicts(k) ==
    /\ idempotency' = idempotency \ {k}
    /\ paid' = [paid EXCEPT ![k] = 0]

CacheStep ==
    \/ UNCHANGED cacheVars
    \/ \E k \in Keys : Caches(k) \/ Evicts(k)

\* Every step of the specification changes the cache in one of these ways.
LEMMA NextCacheStep == [Next]_vars => CacheStep
<1> SUFFICES ASSUME [Next]_vars PROVE CacheStep
  OBVIOUS
<1> USE DEF CacheStep
<1>1. CASE UNCHANGED vars
  BY <1>1 DEF vars
<1>2. CASE \E c \in Clients : Initiate(c)
  <2>1. PICK c \in Clients : Initiate(c)
    BY <1>2
  <2>2. CASE InitiateReplay(c)
    BY <2>2 DEF InitiateReplay
  <2>3. ASSUME NEW k \in Keys, InitiateFrozen(c, k)
        PROVE  CacheStep
    BY <2>3 DEF InitiateFrozen, Fresh, SetIdempotent, Caches
  <2>4. ASSUME NEW k \in Keys, NEW a \in Amounts, InitiateSettled(c, k, a)
        PROVE  CacheStep
    BY <2>4 DEF InitiateSettled, Fresh, SetIdempotent, Caches
  <2>5. ASSUME NEW k \in Keys, NEW a \in Amounts, InitiateInsufficient(c, k, a)
        PROVE  CacheStep
    BY <2>5 DEF InitiateInsufficient
  <2>6. ASSUME NEW k \in Keys, NEW a \in Amounts, NEW d \in RiskDecision,
               \/ InitiateViolation(c, k, a, d)
               \/ InitiateChainError(c, k, a, d)
               \/ InitiateHeld(c, k, a, d)
        PROVE  CacheStep
    BY <2>6 DEF InitiateViolation, InitiateChainError, InitiateHeld, Fresh,
                SetIdempotent, Caches
  <2> QED
    BY <2>1, <2>2, <2>3, <2>4, <2>5, <2>6 DEF Initiate
<1>3. CASE \E k \in Keys : Evict(k)
  BY <1>3 DEF Evict, Evicts
<1>4. CASE \E c \in Clients : Admit(c) \/ Override(c)
  BY <1>4 DEF Admit, Override, OverrideRefused, OverrideSettled, OverrideInsufficient
<1>5. CASE OnTransaction \/ Locks
  BY <1>5 DEF OnTransaction, ValidateRisk, Schedule, CoolingOffEnds, Locks,
              EmergencyFreeze, Unfreeze, LedgerWindowEnds, OrderWindowEnds
<1>6. CASE IngestBankEvent \/ \E c \in Clients : InvestmentOrder(c)
  BY <1>6 DEF IngestBankEvent, BankEventHeld, BankEventSettled,
              BankEventInsufficient, InvestmentOrder, OrderHeld, OrderExecuted,
              OrderWithoutDebit
<1>7. CASE OnGoal
  BY <1>7 DEF OnGoal, OnlyGoalsChange, CreateGoal, ContributeGoal, CloseGoal,
              PauseGoal, ResumeGoal, SetGoalStatus, DissolveGoal
<1> QED
  BY <1>1, <1>2, <1>3, <1>4, <1>5, <1>6, <1>7 DEF Next

\* Such a step keeps the cache well typed and a paid key cached.
LEMMA CacheStepPreserves ==
    ASSUME idempotency \subseteq Keys, paid \in [Keys -> Nat], CacheStep
    PROVE  /\ idempotency' \subseteq Keys
           /\ paid' \in [Keys -> Nat]
           /\ UncachedUnpaid /\ OneDebitPerKey => UncachedUnpaid' /\ OneDebitPerKey'
<1> USE DEF UncachedUnpaid, OneDebitPerKey
<1>1. CASE UNCHANGED cacheVars
  BY <1>1 DEF cacheVars
<1>2. ASSUME NEW k \in Keys, Caches(k)
      PROVE  /\ idempotency' \subseteq Keys
             /\ paid' \in [Keys -> Nat]
             /\ UncachedUnpaid /\ OneDebitPerKey => UncachedUnpaid' /\ OneDebitPerKey'
  BY <1>2 DEF Caches
<1>3. ASSUME NEW k \in Keys, Evicts(k)
      PROVE  /\ idempotency' \subseteq Keys
             /\ paid' \in [Keys -> Nat]
             /\ UncachedUnpaid /\ OneDebitPerKey => UncachedUnpaid' /\ OneDebitPerKey'
  BY <1>3 DEF Evicts
<1> QED
  BY <1>1, <1>2, <1>3 DEF CacheStep

-----------------------------------------------------------------------------
(***************************************************************************)
(* How a step may move money: not at all, by a payment that is covered, by *)
(* a contribution to a goal, or by the refund of one.                      *)
(***************************************************************************)
Pays(a) == Covered(a) /\ Pay(a)

MoneyStep ==
    \/ UNCHANGED accountVars /\ (goals' = goals \/ OnGoal)
    \/ \E a \in Nat : Pays(a) /\ goals' = goals
    \/ \E g \in 1..Len(goals), a \in Amounts, k \in Keys \cup {NoKey} :
          ContributeGoal(g, a, k)
    \/ \E g \in 1..Len(goals) : DissolveGoal(g)

\* Every step of the specification moves money in one of these ways.
LEMMA NextMoneyStep == TypeOK /\ [Next]_vars => MoneyStep
<1> SUFFICES ASSUME TypeOK, [Next]_vars PROVE MoneyStep
  OBVIOUS
<1> USE DEF MoneyStep, goalVars
<1>1. CASE UNCHANGED vars
  BY <1>1 DEF vars
<1>2. CASE \E c \in Clients : Initiate(c)
  <2>1. PICK c \in Clients : Initiate(c)
    BY <1>2
  <2>2. CASE InitiateReplay(c) \/ \E k \in Keys : InitiateFrozen(c, k)
    BY <2>2 DEF InitiateReplay, InitiateFrozen
  <2>3. ASSUME NEW k \in Keys, NEW a \in Amounts, InitiateSettled(c, k, a)
        PROVE  MoneyStep
    BY <2>3 DEF InitiateSettled, Pays
  <2>4. ASSUME NEW k \in Keys, NEW a \in Amounts, InitiateInsufficient(c, k, a)
        PROVE  MoneyStep
    BY <2>4 DEF InitiateInsufficient
  <2>5. ASSUME NEW k \in Keys, NEW a \in Amounts, NEW d \in RiskDecision,
               \/ InitiateViolation(c, k, a, d)
               \/ InitiateChainError(c, k, a, d)
               \/ InitiateHeld(c, k, a, d)
        PROVE  MoneyStep
    BY <2>5 DEF InitiateViolation, InitiateChainError, InitiateHeld
  <2> QED
    BY <2>1, <2>2, <2>3, <2>4, <2>5 DEF Initiate
<1>3. CASE \E c \in Clients : Override(c)
  <2>1. PICK c \in Clients : Override(c)
    BY <1>3
  <2>2. ASSUME NEW i \in 1..Len(transactions), OverrideSettled(c, i)
        PROVE  MoneyStep
    <3>1. transactions[i] \in Txn
      BY DEF TypeOK
    <3>2. transactions[i].amount \in Nat
      BY <3>1 DEF Txn
    <3> QED
      BY <2>2, <3>2 DEF OverrideSettled, Pays
  <2>3. CASE OverrideRefused(c) \/ \E i \in 1..Len(transactions) : OverrideInsufficient(c, i)
    BY <2>3 DEF OverrideRefused, OverrideInsufficient
  <2> QED
    BY <2>1, <2>2, <2>3 DEF Override
<1>4. CASE (\E c \in Clients : Admit(c)) \/ (\E k \in Keys : Evict(k))
  BY <1>4 DEF Admit, Evict
<1>5. CASE OnTransaction \/ Locks
  BY <1>5 DEF OnTransaction, ValidateRisk, Schedule, CoolingOffEnds, Locks,
              EmergencyFreeze, Unfreeze, LedgerWindowEnds, OrderWindowEnds
<1>6. CASE IngestBankEvent \/ \E c \in Clients : InvestmentOrder(c)
  BY <1>6 DEF IngestBankEvent, BankEventHeld, BankEventSettled,
              BankEventInsufficient, InvestmentOrder, OrderHeld, OrderExecuted,
              OrderWithoutDebit, Pays
<1>7. CASE OnGoal
  BY <1>7 DEF OnGoal, CreateGoal, CloseGoal, PauseGoal, ResumeGoal, SetGoalStatus
<1> QED
  BY <1>1, <1>2, <1>3, <1>4, <1>5, <1>6, <1>7 DEF Next

\* A goal of the history is a record; Amounts and Targets are natural numbers.
LEMMA GoalTypes ==
    ASSUME goals \in Seq(Goal), NEW g \in 1..Len(goals)
    PROVE  /\ goals[g] \in Goal
           /\ goals[g].saved \in Nat
           /\ \A st \in GoalStatus : [goals[g] EXCEPT !.status = st] \in Goal
           /\ \A n \in Nat, st \in GoalStatus :
                  [goals[g] EXCEPT !.saved = n, !.status = st] \in Goal
           /\ \A n \in Nat, st \in GoalStatus :
                  [goals[g] EXCEPT !.status = st, !.saved = n] \in Goal
<1>1. goals[g] \in Goal
  OBVIOUS
<1>2. goals[g].saved \in Nat
  BY <1>1 DEF Goal
<1>3. \A st \in GoalStatus : [goals[g] EXCEPT !.status = st] \in Goal
  BY <1>1 DEF Goal
<1>4. \A n \in Nat, st \in GoalStatus :
        [goals[g] EXCEPT !.saved = n, !.status = st] \in Goal
  BY <1>1 DEF Goal
<1>5. \A n \in Nat, st \in GoalStatus :
        [goals[g] EXCEPT !.status = st, !.saved = n] \in Goal
  BY <1>1 DEF Goal
<1> QED
  BY <1>1, <1>2, <1>3, <1>4, <1>5

\* ContributeGoal takes from the accounts what it adds to the goal.
LEMMA ContributionMoves ==
    ASSUME TypeOK, NEW g \in 1..Len(goals), NEW a \in Amounts,
           NEW k \in Keys \cup {NoKey}, ContributeGoal(g, a, k)
    PROVE  /\ first' \in Nat /\ others' \in Nat
           /\ goals' \in Seq(Goal)
           /\ Contribution(g)
<1> DEFINE st == IF goals[g].saved + a >= goals[g].target THEN "completed"
                                                          ELSE goals[g].status
           goal == [goals[g] EXCEPT !.saved = goals[g].saved + a, !.status = st]
<1>0. first \in Nat /\ others \in Nat /\ spent \in Nat /\ goals \in Seq(Goal)
  BY DEF TypeOK
<1>1. a \in Nat /\ a > 0
  OBVIOUS
<1>2. first' \in Nat /\ others' \in Nat /\ first' + others' + a = first + others
  BY <1>1, DebitTakesAmount DEF ContributeGoal, TypeOK
<1>3. goals[g] \in Goal /\ goals[g].saved \in Nat
  BY GoalTypes DEF TypeOK
<1>4. st \in GoalStatus /\ goals[g].saved + a \in Nat
  BY <1>1, <1>3 DEF Goal, GoalStatus
<1>5. goal \in Goal
  BY <1>4, GoalTypes DEF TypeOK
<1>6. goal.saved = goals[g].saved + a
  BY <1>3 DEF Goal
<1>7. goals' = [goals EXCEPT ![g] = goal]
  BY DEF ContributeGoal, SetGoal
<1>8. goals' \in Seq(Goal) /\ goals'[g] = goal
  <2> HIDE DEF goal
  <2> QED
    BY <1>0, <1>5, <1>7, UpdateSeq
<1>9. spent' = spent
  BY DEF ContributeGoal
<1>10. first' + others' + goals'[g].saved = first + others + goals[g].saved
  <2>1. PICK p \in Nat, q \in Nat : first' = p /\ others' = q
    BY <1>2
  <2>2. p + q + (goals[g].saved + a) = first + others + goals[g].saved
    BY <1>0, <1>1, <1>2, <1>3, <2>1
  <2> QED
    BY <1>6, <1>8, <2>1, <2>2
<1>11. goals'[g].saved > goals[g].saved
  BY <1>1, <1>3, <1>6, <1>8
<1> QED
  BY <1>2, <1>8, <1>9, <1>10, <1>11 DEF Contribution

\* DissolveGoal returns to the accounts what it takes out of the goal.
LEMMA RefundMoves ==
    ASSUME TypeOK, NEW g \in 1..Len(goals), DissolveGoal(g)
    PROVE  /\ first' \in Nat /\ others' \in Nat
           /\ goals' \in Seq(Goal)
           /\ Refund(g)
<1> DEFINE goal == [goals[g] EXCEPT !.status = "dissolved", !.saved = 0]
<1>0. first \in Nat /\ others \in Nat /\ spent \in Nat /\ goals \in Seq(Goal)
  BY DEF TypeOK
<1>1. goals[g] \in Goal /\ goals[g].saved \in Nat
  BY <1>0, GoalTypes
<1>2. goal \in Goal
  BY GoalTypes DEF TypeOK, GoalStatus
<1>3. goal.saved = 0
  BY <1>1 DEF Goal
<1>4. goals' = [goals EXCEPT ![g] = goal]
  BY DEF DissolveGoal, SetGoal
<1>5. goals' \in Seq(Goal) /\ goals'[g] = goal
  <2> HIDE DEF goal
  <2> QED
    BY <1>0, <1>2, <1>4, UpdateSeq
<1>6. first' = first + goals[g].saved /\ others' = others /\ spent' = spent
  BY DEF DissolveGoal
<1> QED
  BY <1>0, <1>1, <1>3, <1>5, <1>6 DEF Refund

\* A payment moves its amount from the accounts to what was spent.
LEMMA PaymentMoves ==
    ASSUME TypeOK, NEW a \in Nat, Pays(a)
    PROVE  /\ first' \in Nat /\ others' \in Nat /\ spent' \in Nat
           /\ first' + others' + spent' = first + others + spent
<1>0. first \in Nat /\ others \in Nat /\ spent \in Nat
  BY DEF TypeOK
<1>1. first' \in Nat /\ others' \in Nat /\ first' + others' + a = first + others
  BY <1>0, DebitTakesAmount DEF Pays, Pay
<1>2. spent' = spent + a
  BY DEF Pays, Pay
<1>3. spent' \in Nat
  BY <1>0, <1>2
<1>4. first' + others' + spent' = first + others + spent
  <2>1. PICK p \in Nat, q \in Nat : first' = p /\ others' = q
    BY <1>1
  <2> QED
    BY <1>0, <1>1, <1>2, <2>1
<1> QED
  BY <1>1, <1>3, <1>4

\* A goal handler other than these two keeps the goals well typed.
LEMMA GoalHandlersTyped ==
    ASSUME goals \in Seq(Goal), OnGoal, UNCHANGED accountVars
    PROVE  \/ goals' \in Seq(Goal)
           \/ \E g \in 1..Len(goals), a \in Amounts, k \in Keys \cup {NoKey} :
                 ContributeGoal(g, a, k)
           \/ \E g \in 1..Len(goals) : DissolveGoal(g)
<1>1. ASSUME NEW target \in Targets, CreateGoal(target)
      PROVE  goals' \in Seq(Goal)
  <2> DEFINE goal == [target |-> target, saved |-> 0, status |-> "active"]
  <2>1. goal \in Goal
    BY DEF Goal, GoalStatus
  <2>2. goals' = Append(goals, goal)
    BY <1>1 DEF CreateGoal
  <2> HIDE DEF goal
  <2> QED
    BY <2>1, <2>2, AppendSeq
<1>2. ASSUME NEW g \in 1..Len(goals), CloseGoal(g) \/ PauseGoal(g) \/ ResumeGoal(g)
      PROVE  goals' \in Seq(Goal)
  <2>1. PICK st \in GoalStatus : goals' = [goals EXCEPT ![g] = [goals[g] EXCEPT !.status = st]]
    BY <1>2 DEF CloseGoal, PauseGoal, ResumeGoal, SetGoalStatus, SetGoal, GoalStatus
  <2> DEFINE goal == [goals[g] EXCEPT !.status = st]
  <2>2. goal \in Goal
    BY GoalTypes
  <2>3. goals' = [goals EXCEPT ![g] = goal]
    BY <2>1
  <2> HIDE DEF goal
  <2> QED
    BY <2>2, <2>3, UpdateSeq
<1>3. CASE \E target \in Targets : CreateGoal(target)
  BY <1>1, <1>3
<1>4. ASSUME NEW g \in 1..Len(goals),
             \/ \E a \in Amounts, k \in Keys \cup {NoKey} : ContributeGoal(g, a, k)
             \/ CloseGoal(g) \/ PauseGoal(g) \/ ResumeGoal(g)
             \/ DissolveGoal(g)
      PROVE  \/ goals' \in Seq(Goal)
             \/ \E a \in Amounts, k \in Keys \cup {NoKey} : ContributeGoal(g, a, k)
             \/ DissolveGoal(g)
  BY <1>2, <1>4
<1> QED
  BY <1>3, <1>4 DEF OnGoal

\* The accounts and the goals stay well typed: no balance is ever negative.
LEMMA MoneyTyped ==
    ASSUME TypeOK, MoneyStep
    PROVE  first' \in Nat /\ others' \in Nat /\ spent' \in Nat /\ goals' \in Seq(Goal)
<1>0. first \in Nat /\ others \in Nat /\ spent \in Nat /\ goals \in Seq(Goal)
  BY DEF TypeOK
<1>1. ASSUME NEW g \in 1..Len(goals), NEW a \in Amounts, NEW k \in Keys \cup {NoKey},
             ContributeGoal(g, a, k)
      PROVE  first' \in Nat /\ others' \in Nat /\ spent' \in Nat /\ goals' \in Seq(Goal)
  BY <1>0, <1>1, ContributionMoves DEF Contribution
<1>2. ASSUME NEW g \in 1..Len(goals), DissolveGoal(g)
      PROVE  first' \in Nat /\ others' \in Nat /\ spent' \in Nat /\ goals' \in Seq(Goal)
  BY <1>0, <1>2, RefundMoves DEF Refund
<1>3. ASSUME NEW a \in Nat, Pays(a), goals' = goals
      PROVE  first' \in Nat /\ others' \in Nat /\ spent' \in Nat /\ goals' \in Seq(Goal)
  BY <1>0, <1>3, PaymentMoves
<1>4. CASE UNCHANGED accountVars /\ (goals' = goals \/ OnGoal)
  BY <1>0, <1>1, <1>2, <1>4, GoalHandlersTyped DEF accountVars
<1> QED
  BY <1>1, <1>2, <1>3, <1>4 DEF MoneyStep

\* The freeze and the windows are switches.
LEMMA LocksTyped ==
    ASSUME frozen \in BOOLEAN, chainBlocked \in BOOLEAN, orderHeld \in BOOLEAN,
           fabric \in BOOLEAN, opening \in Nat, [Next]_vars
    PROVE  /\ frozen' \in BOOLEAN /\ chainBlocked' \in BOOLEAN
           /\ orderHeld' \in BOOLEAN /\ fabric' \in BOOLEAN /\ opening' \in Nat
<1> USE DEF lockVars, fixedVars
<1>1. CASE UNCHANGED vars
  BY <1>1, Zenon DEF vars
<1>2. CASE \E c \in Clients : Initiate(c)
  <2>1. \/ UNCHANGED <<lockVars, fixedVars>>
        \/ \E c \in Clients, k \in Keys : InitiateFrozen(c, k)
    BY <1>2 DEF Initiate, InitiateReplay, InitiateViolation, InitiateChainError,
                InitiateHeld, InitiateSettled, InitiateInsufficient
  <2> QED
    BY <2>1, Zenon DEF InitiateFrozen
<1>3. CASE \E c \in Clients : Admit(c) \/ Override(c)
  BY <1>3, Zenon DEF Admit, Override, OverrideRefused, OverrideSettled, OverrideInsufficient
<1>4. CASE (\E k \in Keys : Evict(k)) \/ OnTransaction
  BY <1>4, Zenon DEF Evict, OnTransaction, ValidateRisk, Schedule, CoolingOffEnds
<1>5. CASE Locks
  BY <1>5, Zenon DEF Locks, EmergencyFreeze, Unfreeze, LedgerWindowEnds, OrderWindowEnds
<1>6. CASE IngestBankEvent \/ \E c \in Clients : InvestmentOrder(c)
  BY <1>6, Zenon DEF IngestBankEvent, BankEventHeld, BankEventSettled,
              BankEventInsufficient, InvestmentOrder, OrderHeld, OrderExecuted,
              OrderWithoutDebit
<1>7. CASE OnGoal
  <2>1. OnlyGoalsChange
    BY <1>7 DEF OnGoal, CreateGoal, ContributeGoal, CloseGoal, PauseGoal,
                ResumeGoal, SetGoalStatus, DissolveGoal
  <2> QED
    BY <2>1, Zenon DEF OnlyGoalsChange
<1> QED
  BY <1>1, <1>2, <1>3, <1>4, <1>5, <1>6, <1>7, Zenon DEF Next

\* The book only grows, a request is idle or admitted, and a goal remembers the
\* keys it was contributed to with.
LEMMA RestTyped ==
    ASSUME TypeOK, [Next]_vars
    PROVE  /\ posted' \in Nat
           /\ client' \in [Clients -> {"idle", "admitted"}]
           /\ goalIdempotency' \subseteq Nat \X Keys
<1>0. /\ posted \in Nat /\ client \in [Clients -> {"idle", "admitted"}]
      /\ goalIdempotency \subseteq Nat \X Keys
      /\ goals \in Seq(Goal)
  BY DEF TypeOK
<1> USE DEF goalVars
<1>1. CASE UNCHANGED vars
  BY <1>0, <1>1 DEF vars
<1>2. CASE \E c \in Clients : Initiate(c)
  <2>1. PICK c \in Clients : Initiate(c)
    BY <1>2
  <2>2. Handle(c) /\ goalIdempotency' = goalIdempotency
    BY <2>1 DEF Initiate, InitiateReplay, InitiateFrozen, InitiateViolation,
                InitiateChainError, InitiateHeld, InitiateSettled,
                InitiateInsufficient, Fresh
  <2>3. posted' = posted \/ \E a \in Amounts : posted' = posted + a
    BY <2>1 DEF Initiate, InitiateReplay, InitiateFrozen, InitiateViolation,
                InitiateChainError, InitiateHeld, InitiateSettled,
                InitiateInsufficient
  <2> QED
    BY <1>0, <2>2, <2>3 DEF Handle
<1>3. CASE \E c \in Clients : Override(c)
  BY <1>0, <1>3 DEF Override, OverrideRefused, OverrideSettled,
                    OverrideInsufficient, Handle
<1>4. CASE (\E c \in Clients : Admit(c)) \/ (\E k \in Keys : Evict(k))
  BY <1>0, <1>4 DEF Admit, Evict
<1>5. CASE OnTransaction \/ Locks
  BY <1>0, <1>5 DEF OnTransaction, ValidateRisk, Schedule, CoolingOffEnds, Locks,
                    EmergencyFreeze, Unfreeze, LedgerWindowEnds, OrderWindowEnds
<1>6. CASE IngestBankEvent \/ \E c \in Clients : InvestmentOrder(c)
  BY <1>0, <1>6 DEF IngestBankEvent, BankEventHeld, BankEventSettled,
                    BankEventInsufficient, InvestmentOrder, OrderHeld,
                    OrderExecuted, OrderWithoutDebit, Handle
<1>7. CASE OnGoal
  <2>1. OnlyGoalsChange
    BY <1>7 DEF OnGoal, CreateGoal, ContributeGoal, CloseGoal, PauseGoal,
                ResumeGoal, SetGoalStatus, DissolveGoal
  <2>2. posted' = posted /\ client' = client
    BY <2>1 DEF OnlyGoalsChange
  <2>3. \/ goalIdempotency' = goalIdempotency
        \/ \E g \in 1..Len(goals), k \in Keys :
              goalIdempotency' = goalIdempotency \cup {<<g, k>>}
    BY <1>7 DEF OnGoal, CreateGoal, ContributeGoal, CloseGoal, PauseGoal,
                ResumeGoal, SetGoalStatus, DissolveGoal
  <2> QED
    BY <1>0, <2>2, <2>3
<1> QED
  BY <1>1, <1>2, <1>3, <1>4, <1>5, <1>6, <1>7 DEF Next

-----------------------------------------------------------------------------
(***************************************************************************)
(* The inductive invariant.                                                *)
(***************************************************************************)
IndInv ==
    /\ TypeOK
    /\ UncachedUnpaid
    /\ OneDebitPerKey
    /\ AllBounded

\* A user whose accounts were just opened satisfies it.
LEMMA InitEstablishes == Init => IndInv
<1> SUFFICES ASSUME Init PROVE IndInv
  OBVIOUS
<1>1. /\ frozen \in BOOLEAN /\ chainBlocked \in BOOLEAN
      /\ orderHeld \in BOOLEAN /\ fabric \in BOOLEAN
  BY Zenon DEF Init
<1>2. /\ first \in Nat /\ others \in Nat /\ spent \in Nat /\ posted \in Nat
      /\ opening \in Nat
  BY DEF Init
<1>3. transactions \in Seq(Txn) /\ goals \in Seq(Goal)
  BY DEF Init
<1>4. /\ idempotency \subseteq Keys /\ goalIdempotency \subseteq Nat \X Keys
      /\ client \in [Clients -> {"idle", "admitted"}]
      /\ paid \in [Keys -> Nat]
  BY DEF Init
<1>5. TypeOK
  BY <1>1, <1>2, <1>3, <1>4 DEF TypeOK
<1>6. UncachedUnpaid /\ OneDebitPerKey
  BY DEF Init, UncachedUnpaid, OneDebitPerKey
<1>7. AllBounded
  BY DEF Init, AllBounded
<1> QED
  BY <1>5, <1>6, <1>7 DEF IndInv

\* Every step of every handler preserves it.
LEMMA NextPreserves == IndInv /\ [Next]_vars => IndInv'
<1> SUFFICES ASSUME IndInv, [Next]_vars PROVE IndInv'
  OBVIOUS
<1>0. TypeOK
  BY DEF IndInv
<1>1. transactions' \in Seq(Txn) /\ AllBounded'
  <2>1. transactions \in Seq(Txn) /\ AllBounded
    BY DEF IndInv, TypeOK
  <2> QED
    BY <1>0, <2>1, NextTransactionStep, TransactionStepPreserves
<1>2. /\ idempotency' \subseteq Keys /\ paid' \in [Keys -> Nat]
      /\ UncachedUnpaid' /\ OneDebitPerKey'
  <2>1. idempotency \subseteq Keys /\ paid \in [Keys -> Nat]
    BY <1>0 DEF TypeOK
  <2>2. UncachedUnpaid /\ OneDebitPerKey
    BY DEF IndInv
  <2> QED
    BY <2>1, <2>2, NextCacheStep, CacheStepPreserves
<1>3. first' \in Nat /\ others' \in Nat /\ spent' \in Nat /\ goals' \in Seq(Goal)
  BY <1>0, NextMoneyStep, MoneyTyped
<1>4. /\ frozen' \in BOOLEAN /\ chainBlocked' \in BOOLEAN
      /\ orderHeld' \in BOOLEAN /\ fabric' \in BOOLEAN /\ opening' \in Nat
  <2>1. /\ frozen \in BOOLEAN /\ chainBlocked \in BOOLEAN /\ orderHeld \in BOOLEAN
        /\ fabric \in BOOLEAN /\ opening \in Nat
    BY <1>0, Zenon DEF TypeOK
  <2> QED
    BY <2>1, LocksTyped, Zenon
<1>5. /\ posted' \in Nat
      /\ client' \in [Clients -> {"idle", "admitted"}]
      /\ goalIdempotency' \subseteq Nat \X Keys
  BY <1>0, RestTyped
<1>6. TypeOK'
  BY <1>1, <1>2, <1>3, <1>4, <1>5 DEF TypeOK
<1> QED
  BY <1>1, <1>2, <1>6 DEF IndInv

\* It therefore holds in every reachable state of the payment service.
THEOREM Inductive == Spec => []IndInv
BY InitEstablishes, NextPreserves, PTL DEF Spec

(***************************************************************************)
(* The state of the service keeps its type; in particular no handler,      *)
(* whatever the interleaving, drives an account balance below zero.        *)
(***************************************************************************)
THEOREM TypeCorrect == Spec => []TypeOK
<1>1. IndInv => TypeOK
  BY DEF IndInv
<1> QED
  BY <1>1, Inductive, PTL

(***************************************************************************)
(* InitiateTransaction debits at most once per idempotency key between two *)
(* evictions of the key, for any number of racing clients.                 *)
(***************************************************************************)
THEOREM IdempotencyEngine == Spec => []OneDebitPerKey
<1>1. IndInv => OneDebitPerKey
  BY DEF IndInv
<1> QED
  BY <1>1, Inductive, PTL

(***************************************************************************)
(* A transaction is debited at most once more than reviews demoted it.     *)
(***************************************************************************)
THEOREM DebitsBounded == Spec => []DebitsBoundedByReviews
<1>1. IndInv => DebitsBoundedByReviews
  BY DEF IndInv, AllBounded, TxnBounded, DebitsBoundedByReviews
<1> QED
  BY <1>1, Inductive, PTL

(***************************************************************************)
(* No handler creates or destroys money in a step: what the accounts lose  *)
(* is spent or gained by one goal, and they gain only what one goal gives  *)
(* back in full.                                                           *)
(***************************************************************************)
THEOREM NoMoneyFromNothing == Spec => MoneyMovesOnce
<1> DEFINE Moves == \/ first' + others' + spent' = first + others + spent
                    \/ \E g \in 1..Len(goals) : Refund(g) \/ Contribution(g)
<1>1. TypeOK /\ [Next]_vars => [Moves]_vars
  <2> SUFFICES ASSUME TypeOK, [Next]_vars PROVE Moves
    OBVIOUS
  <2>1. MoneyStep
    BY NextMoneyStep
  <2>2. CASE UNCHANGED accountVars
    BY <2>2 DEF accountVars
  <2>3. ASSUME NEW a \in Nat, Pays(a) PROVE Moves
    BY <2>3, PaymentMoves
  <2>4. ASSUME NEW g \in 1..Len(goals), NEW a \in Amounts, NEW k \in Keys \cup {NoKey},
               ContributeGoal(g, a, k)
        PROVE  Moves
    BY <2>4, ContributionMoves
  <2>5. ASSUME NEW g \in 1..Len(goals), DissolveGoal(g) PROVE Moves
    BY <2>5, RefundMoves
  <2> HIDE DEF Moves
  <2> QED
    BY <2>1, <2>2, <2>3, <2>4, <2>5 DEF MoneyStep
<1> QED
  BY <1>1, TypeCorrect, PTL DEF Spec, MoneyMovesOnce

-----------------------------------------------------------------------------
(***************************************************************************)
(* Conservation.  The sum over the goals is a recursive function; running  *)
(* totals f witness what it computes, and every handler of the goals has   *)
(* new totals from the old ones.                                           *)
(***************************************************************************)
Totals(f, gs) ==
    /\ f \in [0..Len(gs) -> Int]
    /\ f[0] = 0
    /\ \A n \in 1..Len(gs) : f[n] = f[n - 1] + gs[n].saved

\* What the user opened with, told with running totals.
Balanced ==
    \E f : Totals(f, goals) /\ first + others + f[Len(goals)] + spent = opening

LEMMA SmallestNat ==
    ASSUME NEW T \in SUBSET Nat, T # {}
    PROVE  \E x \in T : \A y \in T : x <= y
<1>1. PICK x \in T : \A y \in T : ~(<<y, x>> \in OpToRel(<, Nat))
  BY NatLessThanWellFounded, WFMin
<1>2. \A y \in T : ~(y < x)
  BY <1>1, Zenon DEF OpToRel
<1> QED
  BY <1>2

\* Two functions with the totals' recurrence agree: there is no least position
\* where they differ.
LEMMA TotalsAgree ==
    ASSUME NEW gs \in Seq(Goal), NEW f, Totals(f, gs), NEW t,
           t = [n \in 0..Len(gs) |-> IF n = 0 THEN 0 ELSE t[n - 1] + gs[n].saved]
    PROVE  t[Len(gs)] = f[Len(gs)]
<1>1. PICK m \in Nat : m = Len(gs)
  OBVIOUS
<1>2. t[0] = 0 /\ \A n \in 1..m : t[n] = t[n - 1] + gs[n].saved
  <2>1. \A n \in 0..m : t[n] = IF n = 0 THEN 0 ELSE t[n - 1] + gs[n].saved
    BY <1>1
  <2>2. 0 \in 0..m /\ \A n \in 1..m : n \in 0..m /\ n # 0
    OBVIOUS
  <2> QED
    BY <2>1, <2>2, Zenon
<1> DEFINE D == {n \in 0..m : t[n] # f[n]}
<1>3. D = {}
  <2> SUFFICES ASSUME D # {} PROVE FALSE
    OBVIOUS
  <2>1. D \in SUBSET Nat
    OBVIOUS
  <2>2. PICK x \in D : \A y \in D : x <= y
    BY <2>1, SmallestNat
  <2>3. x \in 0..m /\ t[x] # f[x]
    BY <2>2
  <2>4. x # 0
    BY <1>2, <2>3 DEF Totals
  <2>5. x \in 1..m /\ x - 1 \in 0..m /\ ~(x <= x - 1)
    BY <2>3, <2>4
  <2>6. x - 1 \notin D
    BY <2>2, <2>5
  <2>7. t[x - 1] = f[x - 1]
    BY <2>5, <2>6
  <2>8. t[x] = t[x - 1] + gs[x].saved /\ f[x] = f[x - 1] + gs[x].saved
    BY <1>1, <1>2, <2>5 DEF Totals
  <2> QED
    BY <2>3, <2>7, <2>8
<1>4. m \in 0..m
  OBVIOUS
<1>5. t[m] = f[m]
  BY <1>3, <1>4, Zenon
<1> QED
  BY <1>1, <1>5

LEMMA SavedIsLastTotal ==
    ASSUME NEW gs \in Seq(Goal), NEW f, Totals(f, gs)
    PROVE  SavedIn(gs) = f[Len(gs)]
<1> DEFINE t == CHOOSE h : h = [n \in 0..Len(gs) |-> IF n = 0 THEN 0 ELSE h[n - 1] + gs[n].saved]
<1>1. f = [n \in 0..Len(gs) |-> IF n = 0 THEN 0 ELSE f[n - 1] + gs[n].saved]
  <2>1. \A n \in 0..Len(gs) : f[n] = IF n = 0 THEN 0 ELSE f[n - 1] + gs[n].saved
    BY DEF Totals
  <2>2. f = [n \in 0..Len(gs) |-> f[n]]
    BY DEF Totals
  <2> QED
    BY <2>1, <2>2
<1>2. t = [n \in 0..Len(gs) |-> IF n = 0 THEN 0 ELSE t[n - 1] + gs[n].saved]
  BY <1>1
<1>3. SavedIn(gs) = t[Len(gs)]
  BY DEF SavedIn
<1> HIDE DEF t
<1> QED
  BY <1>2, <1>3, TotalsAgree

\* One goal changes: the totals from it on change by the difference.
OneChanged(gs, hs, g) ==
    /\ gs \in Seq(Goal) /\ hs \in Seq(Goal) /\ Len(hs) = Len(gs)
    /\ g \in 1..Len(gs)
    /\ \A j \in 1..Len(gs) : j # g => hs[j] = gs[j]

\* The last total changes by as much.
Shifted(f, gs, h, hs, g) ==
    h[Len(hs)] + gs[g].saved = f[Len(gs)] + hs[g].saved

LEMMA TotalsUpdate ==
    ASSUME NEW gs, NEW hs, NEW g, OneChanged(gs, hs, g), NEW f, Totals(f, gs)
    PROVE  \E h : Totals(h, hs) /\ Shifted(f, gs, h, hs, g)
<1> USE DEF OneChanged
<1>1. PICK m \in Nat : m = Len(gs) /\ m = Len(hs)
  OBVIOUS
<1>2. PICK a \in Nat, b \in Nat : a = gs[g].saved /\ b = hs[g].saved
  <2>1. gs[g] \in Goal /\ hs[g] \in Goal
    BY <1>1
  <2> QED
    BY <2>1 DEF Goal
<1>3. g \in 1..m /\ \A n \in 0..m : f[n] \in Int
  BY <1>1 DEF Totals
<1> DEFINE h == [n \in 0..m |-> IF n < g THEN f[n] ELSE f[n] + (b - a)]
<1>4. h \in [0..m -> Int]
  BY <1>3
<1>5. \A n \in 0..m : h[n] = IF n < g THEN f[n] ELSE f[n] + (b - a)
  OBVIOUS
<1> HIDE DEF h
<1>6. h[0] = 0
  <2>1. 0 \in 0..m /\ 0 < g
    BY <1>3
  <2> QED
    BY <1>5, <2>1 DEF Totals
<1>7. ASSUME NEW n \in 1..m
      PROVE  h[n] = h[n - 1] + hs[n].saved
  <2>1. n \in 0..m /\ n - 1 \in 0..m
    OBVIOUS
  <2>2. f[n] = f[n - 1] + gs[n].saved
    BY <1>1 DEF Totals
  <2>3. CASE n < g
    <3>1. n - 1 < g /\ n # g
      BY <2>3
    <3>2. hs[n] = gs[n]
      BY <1>1, <3>1
    <3> QED
      BY <1>5, <2>1, <2>2, <2>3, <3>1, <3>2
  <2>4. CASE n = g
    <3>1. h[n] = f[n] + (b - a) /\ h[n - 1] = f[n - 1]
      BY <1>5, <2>1, <2>4
    <3>2. f[n] = f[n - 1] + a
      BY <1>2, <2>2, <2>4
    <3>3. h[n] = h[n - 1] + b
      BY <1>3, <2>1, <3>1, <3>2
    <3> QED
      BY <1>2, <2>4, <3>3
  <2>5. CASE n > g
    <3>1. hs[n] = gs[n] /\ ~(n < g) /\ ~(n - 1 < g)
      BY <1>1, <2>5
    <3>2. PICK c \in Nat : c = gs[n].saved
      <4>1. gs[n] \in Goal
        BY <1>1
      <4> QED
        BY <4>1 DEF Goal
    <3>3. h[n] = f[n] + (b - a) /\ h[n - 1] = f[n - 1] + (b - a)
      BY <1>5, <2>1, <3>1
    <3>4. h[n] = h[n - 1] + c
      BY <1>3, <2>1, <2>2, <3>2, <3>3
    <3> QED
      BY <3>1, <3>2, <3>4
  <2> QED
    BY <2>3, <2>4, <2>5
<1>8. Totals(h, hs)
  BY <1>1, <1>4, <1>6, <1>7 DEF Totals
<1>9. h[m] + a = f[m] + b
  <2>1. m \in 0..m /\ ~(m < g)
    BY <1>3
  <2>2. h[m] = f[m] + (b - a)
    BY <1>5, <2>1
  <2> QED
    BY <1>3, <2>1, <2>2
<1>10. Shifted(f, gs, h, hs, g)
  BY <1>1, <1>2, <1>9 DEF Shifted
<1> QED
  BY <1>8, <1>10

\* CreateGoal: a goal with nothing saved leaves the last total as it is.
LEMMA TotalsAppend ==
    ASSUME NEW gs \in Seq(Goal), NEW goal \in Goal, goal.saved = 0,
           NEW f, Totals(f, gs)
    PROVE  \E h : Totals(h, Append(gs, goal)) /\ h[Len(Append(gs, goal))] = f[Len(gs)]
<1>1. PICK m \in Nat : m = Len(gs)
  OBVIOUS
<1>2. PICK hs : hs = Append(gs, goal)
  OBVIOUS
<1>3. Len(hs) = m + 1 /\ \A j \in 1..(m + 1) : hs[j] = IF j <= m THEN gs[j] ELSE goal
  BY <1>1, <1>2
<1> DEFINE h == [n \in 0..(m + 1) |-> IF n <= m THEN f[n] ELSE f[m]]
<1>4. \A n \in 0..m : f[n] \in Int
  BY <1>1 DEF Totals
<1>5. h \in [0..(m + 1) -> Int]
  BY <1>4
<1>6. \A n \in 0..(m + 1) : h[n] = IF n <= m THEN f[n] ELSE f[m]
  OBVIOUS
<1> HIDE DEF h
<1>7. h[0] = 0
  <2>1. 0 \in 0..(m + 1) /\ 0 <= m
    OBVIOUS
  <2> QED
    BY <1>6, <2>1 DEF Totals
<1>8. ASSUME NEW n \in 1..(m + 1)
      PROVE  h[n] = h[n - 1] + hs[n].saved
  <2>1. n \in 0..(m + 1) /\ n - 1 \in 0..(m + 1) /\ n - 1 <= m
    OBVIOUS
  <2>2. CASE n <= m
    <3>1. hs[n] = gs[n] /\ f[n] = f[n - 1] + gs[n].saved
      BY <1>1, <1>3, <2>2 DEF Totals
    <3> QED
      BY <1>6, <2>1, <2>2, <3>1
  <2>3. CASE n = m + 1
    <3>1. hs[n] = goal /\ n - 1 = m /\ ~(n <= m)
      BY <1>3, <2>3
    <3>2. h[n] = f[m] /\ h[n - 1] = f[m]
      BY <1>6, <2>1, <3>1
    <3> QED
      BY <1>4, <3>1, <3>2
  <2> QED
    BY <2>2, <2>3
<1>9. h[m + 1] = f[m]
  <2>1. m + 1 \in 0..(m + 1) /\ ~(m + 1 <= m)
    OBVIOUS
  <2> QED
    BY <1>6, <2>1
<1>10. Totals(h, hs)
  BY <1>3, <1>5, <1>7, <1>8 DEF Totals
<1> QED
  BY <1>1, <1>2, <1>3, <1>9, <1>10

\* What the accounts opened with is never rewritten.
LEMMA OpeningFixed ==
    ASSUME [Next]_vars
    PROVE  opening' = opening
<1> USE DEF fixedVars
<1>1. CASE UNCHANGED vars
  BY <1>1, Zenon DEF vars
<1>2. CASE \E c \in Clients : Initiate(c)
  BY <1>2 DEF Initiate, InitiateReplay, InitiateViolation, InitiateChainError,
              InitiateHeld, InitiateSettled, InitiateInsufficient, InitiateFrozen
<1>3. CASE \E c \in Clients : Admit(c) \/ Override(c)
  BY <1>3 DEF Admit, Override, OverrideRefused, OverrideSettled, OverrideInsufficient
<1>4. CASE (\E k \in Keys : Evict(k)) \/ OnTransaction
  BY <1>4 DEF Evict, OnTransaction, ValidateRisk, Schedule, CoolingOffEnds
<1>5. CASE Locks
  BY <1>5 DEF Locks, EmergencyFreeze, Unfreeze, LedgerWindowEnds, OrderWindowEnds
<1>6. CASE IngestBankEvent \/ \E c \in Clients : InvestmentOrder(c)
  BY <1>6 DEF IngestBankEvent, BankEventHeld, BankEventSettled,
              BankEventInsufficient, InvestmentOrder, OrderHeld, OrderExecuted,
              OrderWithoutDebit
<1>7. CASE OnGoal
  BY <1>7 DEF OnGoal, OnlyGoalsChange, CreateGoal, ContributeGoal, CloseGoal,
              PauseGoal, ResumeGoal, SetGoalStatus, DissolveGoal
<1> QED
  BY <1>1, <1>2, <1>3, <1>4, <1>5, <1>6, <1>7 DEF Next

\* A handler that changes one goal and moves the difference.
LEMMA GoalChangeBalanced ==
    ASSUME TypeOK, Balanced, opening' = opening, first' \in Nat, others' \in Nat,
           spent' = spent, goals' \in Seq(Goal), NEW g \in 1..Len(goals), NEW goal,
           goals' = [goals EXCEPT ![g] = goal],
           first' + others' + goals'[g].saved = first + others + goals[g].saved
    PROVE  Balanced'
<1>1. /\ first \in Nat /\ others \in Nat /\ spent \in Nat /\ opening \in Nat
      /\ goals \in Seq(Goal)
  BY DEF TypeOK
<1>2. PICK f : Totals(f, goals) /\ first + others + f[Len(goals)] + spent = opening
  BY DEF Balanced
<1>3. Len(goals') = Len(goals) /\ \A j \in 1..Len(goals) : j # g => goals'[j] = goals[j]
  BY <1>1
<1>4. PICK h : Totals(h, goals') /\ Shifted(f, goals, h, goals', g)
  <2>1. OneChanged(goals, goals', g)
    BY <1>1, <1>3 DEF OneChanged
  <2> QED
    BY <1>2, <2>1, TotalsUpdate
<1>5. PICK a \in Nat, b \in Nat : a = goals[g].saved /\ b = goals'[g].saved
  <2>1. goals[g] \in Goal /\ goals'[g] \in Goal
    BY <1>1, <1>3
  <2> QED
    BY <2>1 DEF Goal
<1>6. PICK x \in Int, y \in Int : x = f[Len(goals)] /\ y = h[Len(goals')]
  <2>1. Len(goals) \in 0..Len(goals) /\ Len(goals') \in 0..Len(goals')
    BY <1>1
  <2> QED
    BY <1>2, <1>4, <2>1 DEF Totals
<1>7. PICK p \in Nat, q \in Nat : p = first' /\ q = others'
  OBVIOUS
<1>8. p + q + y + spent = opening
  <2>1. p + q + b = first + others + a /\ y + a = x + b /\ first + others + x + spent = opening
    BY <1>2, <1>4, <1>5, <1>6, <1>7 DEF Shifted
  <2> QED
    BY <1>1, <2>1
<1>9. first' + others' + h[Len(goals')] + spent' = opening'
  BY <1>6, <1>7, <1>8
<1> QED
  BY <1>4, <1>9 DEF Balanced

LEMMA BalancedPreserved == TypeOK /\ TypeOK' /\ Balanced /\ [Next]_vars => Balanced'
<1> SUFFICES ASSUME TypeOK, TypeOK', Balanced, [Next]_vars PROVE Balanced'
  OBVIOUS
<1>0. /\ first \in Nat /\ others \in Nat /\ spent \in Nat /\ goals \in Seq(Goal)
      /\ first' \in Nat /\ others' \in Nat /\ spent' \in Nat /\ goals' \in Seq(Goal)
      /\ opening' = opening /\ opening \in Nat
  BY OpeningFixed DEF TypeOK
<1>1. PICK f : Totals(f, goals) /\ first + others + f[Len(goals)] + spent = opening
  BY DEF Balanced
<1>2. f[Len(goals)] \in Int
  <2>1. Len(goals) \in 0..Len(goals)
    BY <1>0
  <2> QED
    BY <1>1, <2>1 DEF Totals
<1>3. ASSUME NEW a \in Nat, Pays(a), goals' = goals
      PROVE  Balanced'
  <2>1. first' + others' + spent' = first + others + spent
    BY <1>3, PaymentMoves
  <2>2. first' + others' + f[Len(goals)] + spent' = opening
    <3>1. PICK p \in Nat, q \in Nat : p = first' /\ q = others'
      BY <1>0
    <3>2. PICK r \in Nat, x \in Int : r = spent' /\ x = f[Len(goals)]
      BY <1>0, <1>2
    <3>3. p + q + r = first + others + spent /\ first + others + x + spent = opening
      BY <1>1, <2>1, <3>1, <3>2
    <3>4. p + q + x + r = opening
      BY <1>0, <3>3
    <3> QED
      BY <3>1, <3>2, <3>4
  <2> QED
    BY <1>0, <1>1, <1>3, <2>2 DEF Balanced
<1>4. ASSUME NEW g \in 1..Len(goals), NEW a \in Amounts, NEW k \in Keys \cup {NoKey},
             ContributeGoal(g, a, k)
      PROVE  Balanced'
  <2>1. Contribution(g)
    BY <1>4, ContributionMoves
  <2>2. PICK goal : goals' = [goals EXCEPT ![g] = goal]
    BY <1>4 DEF ContributeGoal, SetGoal
  <2> QED
    BY <1>0, <2>1, <2>2, GoalChangeBalanced DEF Contribution
<1>5. ASSUME NEW g \in 1..Len(goals), DissolveGoal(g)
      PROVE  Balanced'
  <2>1. Refund(g)
    BY <1>5, RefundMoves
  <2>2. PICK goal : goals' = [goals EXCEPT ![g] = goal]
    BY <1>5 DEF DissolveGoal, SetGoal
  <2>3. first' + others' + goals'[g].saved = first + others + goals[g].saved
    BY <1>0, <2>1 DEF Refund
  <2> QED
    BY <1>0, <2>1, <2>2, <2>3, GoalChangeBalanced DEF Refund
<1>6. ASSUME NEW target \in Targets, CreateGoal(target)
      PROVE  Balanced'
  <2>1. PICK goal : goal = [target |-> target, saved |-> 0, status |-> "active"]
    OBVIOUS
  <2>2. goal \in Goal /\ goal.saved = 0
    BY <2>1 DEF Goal, GoalStatus
  <2>3. goals' = Append(goals, goal) /\ UNCHANGED accountVars
    BY <1>6, <2>1 DEF CreateGoal
  <2>4. PICK h : Totals(h, goals') /\ h[Len(goals')] = f[Len(goals)]
    BY <1>0, <1>1, <2>2, <2>3, TotalsAppend
  <2> QED
    BY <1>0, <1>1, <2>3, <2>4 DEF Balanced, accountVars
<1>7. ASSUME NEW g \in 1..Len(goals), CloseGoal(g) \/ PauseGoal(g) \/ ResumeGoal(g)
      PROVE  Balanced'
  <2>1. PICK st : goals' = [goals EXCEPT ![g] = [goals[g] EXCEPT !.status = st]]
    BY <1>7 DEF CloseGoal, PauseGoal, ResumeGoal, SetGoalStatus, SetGoal
  <2>2. UNCHANGED accountVars
    BY <1>7 DEF CloseGoal, PauseGoal, ResumeGoal, SetGoalStatus
  <2>3. goals[g] \in Goal
    BY <1>0
  <2>4. goals'[g] = [goals[g] EXCEPT !.status = st]
    BY <1>0, <2>1
  <2>5. goals'[g].saved = goals[g].saved
    BY <2>3, <2>4 DEF Goal
  <2>6. first' + others' + goals'[g].saved = first + others + goals[g].saved
    BY <2>2, <2>5 DEF accountVars
  <2> QED
    BY <1>0, <2>1, <2>2, <2>6, GoalChangeBalanced DEF accountVars
<1>8. CASE UNCHANGED accountVars /\ goals' = goals
  BY <1>0, <1>1, <1>8 DEF Balanced, accountVars
<1>9. CASE OnGoal
  BY <1>4, <1>5, <1>6, <1>7, <1>9 DEF OnGoal
<1>10. MoneyStep
  BY NextMoneyStep
<1> QED
  BY <1>3, <1>4, <1>5, <1>8, <1>9, <1>10 DEF MoneyStep

(***************************************************************************)
(* Whatever handlers run and in whatever order, for any number of clients, *)
(* goals and amounts: what the user opened with is in the accounts, saved  *)
(* in goals, or was spent.                                                 *)
(***************************************************************************)
THEOREM Conservation == Spec => []MoneyConserved
<1>1. Init => Balanced
  <2> SUFFICES ASSUME Init PROVE Balanced
    OBVIOUS
  <2> DEFINE f == [n \in 0..0 |-> 0]
  <2>1. /\ goals = << >> /\ Len(goals) = 0 /\ first \in Nat /\ others \in Nat
        /\ spent = 0 /\ opening = first + others
    BY DEF Init
  <2>2. 0 \in 0..0
    OBVIOUS
  <2>3. f \in [0..0 -> Int] /\ f[0] = 0
    BY <2>2
  <2> HIDE DEF f
  <2>4. Totals(f, goals)
    BY <2>1, <2>3 DEF Totals
  <2>5. first + others + f[Len(goals)] + spent = opening
    BY <2>1, <2>3
  <2> QED
    BY <2>4, <2>5 DEF Balanced
<1>2. TypeOK /\ Balanced => MoneyConserved
  <2> SUFFICES ASSUME TypeOK, Balanced PROVE MoneyConserved
    OBVIOUS
  <2>1. PICK f : Totals(f, goals) /\ first + others + f[Len(goals)] + spent = opening
    BY DEF Balanced
  <2>2. goals \in Seq(Goal)
    BY DEF TypeOK
  <2>3. SavedIn(goals) = f[Len(goals)]
    BY <2>1, <2>2, SavedIsLastTotal
  <2> QED
    BY <2>1, <2>3 DEF MoneyConserved, Saved
<1> QED
  BY <1>1, <1>2, BalancedPreserved, TypeCorrect, PTL DEF Spec
=============================================================================
