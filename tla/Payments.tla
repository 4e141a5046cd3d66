------------------------------ MODULE Payments ------------------------------
(***************************************************************************)
(* The money of one user of the platform service (service.go): accounts,   *)
(* outgoing transactions, goals, the double-entry book and the             *)
(* idempotency cache, under everything that moves money or changes the     *)
(* status of a transaction.                                                *)
(*                                                                         *)
(* Handlers of the service run under Service.mu, so each is one step.  The *)
(* cooling-off middleware in front of three of them (initiate, override,   *)
(* investment order) is not: it looks at the state, lets the request       *)
(* through, and the handler runs later.  A client is therefore idle, or    *)
(* admitted by the middleware to a handler it has not reached yet; the     *)
(* routes share the check, so which of the handlers it is need not be said *)
(* before it runs.                                                         *)
(*                                                                         *)
(* Users share nothing here except the capacity of the idempotency cache,  *)
(* whose evictions are the environment's step Evict.  Risk scoring,        *)
(* step-up checks and the validator's verdicts are inputs, chosen freely.  *)
(* The accounts are those the service started with or read from the        *)
(* database: one linked later opens with nothing and never receives money, *)
(* so LinkAccount changes nothing of what is modelled here.                *)
(***************************************************************************)
EXTENDS Integers, Sequences, FiniteSets, FiniteSetsExt

CONSTANTS
    Clients,        \* concurrent requests of the user
    Keys,           \* idempotency keys
    NoKey,          \* stands for the absence of one
    Amounts,        \* amounts a request may carry, in paise
    Openings,       \* balances the first account may open with
    OtherOpenings,  \* balances the remaining accounts may open with, pooled
    Targets,        \* target amounts of goals
    MaxTxns,        \* bound on the length of the transaction history
    MaxGoals,       \* bound on the number of goals
    MaxReviews      \* bound on post-settlement demotions, per transaction

ASSUME PaymentsAssumption ==
    /\ NoKey \notin Keys
    /\ Amounts \subseteq Nat \ {0}
    /\ Openings \subseteq Nat
    /\ OtherOpenings \subseteq Nat
    /\ Targets \subseteq Nat \ {0}
    /\ MaxTxns \in Nat
    /\ MaxGoals \in Nat
    /\ MaxReviews \in Nat

VARIABLES
    first,          \* balance of accounts[0], which also receives refunds
    others,         \* total balance of the remaining accounts
    transactions,   \* s.transactions[user]
    goals,          \* s.goals[user]
    idempotency,    \* keys with a result in s.idempotencyResult
    goalIdempotency,\* s.goalIdempotency: pairs <<goal, key>> already applied
    frozen,         \* s.freezeState[user]
    chainBlocked,   \* a transaction_blocked event of the last 6 hours is on the ledger
    orderHeld,      \* an investment order of the user is inside its cooling-off
    fabric,         \* the ledger is Fabric-backed (set at start-up)
    posted,         \* debits posted to accounts[0] in the double-entry book
    client,         \* what each concurrent request is doing
    opening,        \* history: what the accounts opened with
    spent,          \* history: money that left the accounts for good
    paid            \* history: debits by InitiateTransaction under a key since the
                    \* key's last eviction from the cache

accountVars == <<first, others, spent>>
goalVars == <<goals, goalIdempotency>>
cacheVars == <<idempotency, paid>>
lockVars == <<frozen, chainBlocked, orderHeld>>
fixedVars == <<fabric, opening>>

vars == <<accountVars, goalVars, cacheVars, lockVars, fixedVars, transactions,
          posted, client>>

Status == {"success", "warning_ack_required", "blocked", "scheduled"}
PendingOverride == {"blocked", "warning_ack_required"}
RiskDecision == {"success", "warning_ack_required", "blocked"}
CoolingOff == {"none", "active", "expired"}
GoalStatus == {"active", "paused", "completed", "closed", "dissolved"}

(***************************************************************************)
(* A transaction, with two history fields: how often it was debited, and   *)
(* how often a review demoted it to a pending status.                      *)
(***************************************************************************)
Txn == [amount : Nat, status : Status, cooling : CoolingOff,
        key : Keys \cup {NoKey}, debits : Nat, reviews : Nat]

Goal == [target : Nat, saved : Nat, status : GoalStatus]

TypeOK ==
    /\ first \in Nat
    /\ others \in Nat
    /\ transactions \in Seq(Txn)
    /\ goals \in Seq(Goal)
    /\ idempotency \subseteq Keys
    /\ goalIdempotency \subseteq Nat \X Keys
    /\ frozen \in BOOLEAN
    /\ chainBlocked \in BOOLEAN
    /\ orderHeld \in BOOLEAN
    /\ fabric \in BOOLEAN
    /\ posted \in Nat
    /\ client \in [Clients -> {"idle", "admitted"}]
    /\ opening \in Nat
    /\ spent \in Nat
    /\ paid \in [Keys -> Nat]

Init ==
    /\ first \in Openings
    /\ others \in OtherOpenings
    /\ transactions = <<>>
    /\ goals = <<>>
    /\ idempotency = {}
    /\ goalIdempotency = {}
    /\ frozen = FALSE
    /\ chainBlocked = FALSE
    /\ orderHeld = FALSE
    /\ fabric \in BOOLEAN
    /\ posted = 0
    /\ client = [c \in Clients |-> "idle"]
    /\ opening = first + others
    /\ spent = 0
    /\ paid = [k \in Keys |-> 0]

-----------------------------------------------------------------------------
(***************************************************************************)
(* totalBalanceLocked and applyDebitToFirstAccountLocked: the whole amount *)
(* must be there, and it is taken from the accounts in order.              *)
(***************************************************************************)
\* Mutant: any money at all is enough.
MutCovered(a) == first + others > 0

Covered(a) == first + others >= a

\* Mutant: an overdrawn account is zeroed and the rest of the amount forgotten.
MutDebit(a) ==
    /\ first' = IF first >= a THEN first - a ELSE 0
    /\ UNCHANGED others

Debit(a) ==
    /\ first' = IF first >= a THEN first - a ELSE 0
    /\ others' = IF first >= a THEN others ELSE others - (a - first)

\* Money that leaves for a payee or an investment.
Pay(a) == Debit(a) /\ spent' = spent + a

-----------------------------------------------------------------------------
(***************************************************************************)
(* EnforceCoolingOff with CoolingOffState for the whole user.  A Fabric    *)
(* ledger is asked for an on-chain window first, but an unreachable one is *)
(* skipped, so only the local windows are a guard.                         *)
(***************************************************************************)
InCoolingOff(i) == transactions[i].cooling = "active"

Admit(c) ==
    /\ client[c] = "idle"
    /\ ~orderHeld
    /\ \A i \in DOMAIN transactions : ~InCoolingOff(i)
    /\ client' = [client EXCEPT ![c] = "admitted"]
    /\ UNCHANGED <<accountVars, goalVars, cacheVars, lockVars, fixedVars,
                   transactions, posted>>

\* The request of c has reached its handler, which returns in this step.
Handle(c) ==
    /\ client[c] = "admitted"
    /\ client' = [client EXCEPT ![c] = "idle"]

-----------------------------------------------------------------------------
(***************************************************************************)
(* InitiateTransaction, one action per way through the handler.            *)
(***************************************************************************)
NewTxn(k, a, st, cool, n) ==
    [amount |-> a, status |-> st, cooling |-> cool, key |-> k, debits |-> n,
     reviews |-> 0]

Record(t) ==
    /\ Len(transactions) < MaxTxns
    /\ transactions' = Append(transactions, t)

\* The handler writes through its pointer to the i-th transaction.
SetTxn(i, t) == transactions' = [transactions EXCEPT ![i] = t]

\* Mutant: a full cache drops the new entry instead of an old one.
MutSetIdempotent(k) == UNCHANGED idempotency

\* setIdempotentLocked.  Its pruning of this user's other entries is Evict.
SetIdempotent(k) == idempotency' = idempotency \cup {k}

CoolingFor(d) == IF d = "blocked" THEN "active" ELSE "none"

\* A cached result is returned as it is, and nothing else happens.  Requests
\* the handler turns down for their amount or recipient end the same way.
InitiateReplay(c) ==
    /\ Handle(c)
    /\ UNCHANGED <<accountVars, goalVars, cacheVars, lockVars, fixedVars,
                   transactions, posted>>

Fresh(c, k) == Handle(c) /\ k \notin idempotency

\* On a frozen account the refusal is cached and written to the ledger as
\* transaction_blocked; no transaction is recorded.  WriteEvent's error is
\* ignored, so a Fabric ledger may miss the event.
InitiateFrozen(c, k) ==
    /\ Fresh(c, k)
    /\ frozen
    /\ SetIdempotent(k)
    /\ \/ chainBlocked' = TRUE
       \/ fabric /\ UNCHANGED chainBlocked
    /\ UNCHANGED <<accountVars, goalVars, fixedVars, frozen, orderHeld,
                   transactions, posted, paid>>

\* WriteEventStrict reports a violation of the in-memory contract rules: the
\* recorded transaction is flipped to blocked and the error is not cached.
InitiateViolation(c, k, a, d) ==
    /\ Fresh(c, k)
    /\ ~frozen
    /\ ~fabric
    /\ chainBlocked
    /\ Record(NewTxn(k, a, "blocked", CoolingFor(d), 0))
    /\ UNCHANGED <<accountVars, goalVars, cacheVars, lockVars, fixedVars, posted>>

\* A Fabric ledger rejects the event or cannot be reached.  Neither error is
\* ErrSmartContractViolation, so the transaction keeps the status it was given.
InitiateChainError(c, k, a, d) ==
    /\ Fresh(c, k)
    /\ ~frozen
    /\ fabric
    /\ Record(NewTxn(k, a, d, CoolingFor(d), 0))
    /\ UNCHANGED <<accountVars, goalVars, cacheVars, lockVars, fixedVars, posted>>

\* The risk decision holds the transaction back.
InitiateHeld(c, k, a, d) ==
    /\ Fresh(c, k)
    /\ ~frozen
    /\ ~chainBlocked
    /\ d # "success"
    /\ Record(NewTxn(k, a, d, CoolingFor(d), 0))
    /\ SetIdempotent(k)
    /\ UNCHANGED <<accountVars, goalVars, lockVars, fixedVars, posted, paid>>

\* The payment is posted to the book, then debited.
InitiateSettled(c, k, a) ==
    /\ Fresh(c, k)
    /\ ~frozen
    /\ ~chainBlocked
    /\ Covered(a)
    /\ Pay(a)
    /\ posted' = posted + a
    /\ Record(NewTxn(k, a, "success", "none", 1))
    /\ SetIdempotent(k)
    /\ paid' = [paid EXCEPT ![k] = @ + 1]
    /\ UNCHANGED <<goalVars, lockVars, fixedVars>>

\* The debit fails after the posting: the handler returns the error and leaves
\* the posting and the status "success" behind, with nothing cached.
InitiateInsufficient(c, k, a) ==
    /\ Fresh(c, k)
    /\ ~frozen
    /\ ~chainBlocked
    /\ ~Covered(a)
    /\ posted' = posted + a
    /\ Record(NewTxn(k, a, "success", "none", 0))
    /\ UNCHANGED <<accountVars, goalVars, cacheVars, lockVars, fixedVars>>

Initiate(c) ==
    \/ InitiateReplay(c)
    \/ \E k \in Keys :
          \/ InitiateFrozen(c, k)
          \/ \E a \in Amounts :
                \/ InitiateSettled(c, k, a)
                \/ InitiateInsufficient(c, k, a)
                \/ \E d \in RiskDecision :
                      \/ InitiateViolation(c, k, a, d)
                      \/ InitiateChainError(c, k, a, d)
                      \/ InitiateHeld(c, k, a, d)

(***************************************************************************)
(* pruneIdempotencyLocked, and the expiry check on read: the entry's TTL   *)
(* has passed, or requests of other users pushed it out of the full cache. *)
(***************************************************************************)
Evict(k) ==
    /\ k \in idempotency
    /\ idempotency' = idempotency \ {k}
    /\ paid' = [paid EXCEPT ![k] = 0]
    /\ UNCHANGED <<accountVars, goalVars, lockVars, fixedVars, transactions,
                   posted, client>>

-----------------------------------------------------------------------------
(***************************************************************************)
(* OverrideTransaction.  The OTP is checked first and may fail; then the   *)
(* transaction must be pending.  The status is set before the debit and    *)
(* stays when the debit fails.                                             *)
(***************************************************************************)
\* Mutant: a transaction of any status may be overridden.
MutOverridable(i) == i \in DOMAIN transactions

Overridable(i) ==
    i \in DOMAIN transactions /\ transactions[i].status \in PendingOverride

OverrideRefused(c) ==
    /\ Handle(c)
    /\ UNCHANGED <<accountVars, goalVars, cacheVars, lockVars, fixedVars,
                   transactions, posted>>

OverrideSettled(c, i) ==
    /\ Handle(c)
    /\ Overridable(i)
    /\ Covered(transactions[i].amount)
    /\ Pay(transactions[i].amount)
    /\ SetTxn(i, [transactions[i] EXCEPT !.status = "success", !.debits = @ + 1])
    /\ UNCHANGED <<goalVars, cacheVars, lockVars, fixedVars, posted>>

OverrideInsufficient(c, i) ==
    /\ Handle(c)
    /\ Overridable(i)
    /\ ~Covered(transactions[i].amount)
    /\ SetTxn(i, [transactions[i] EXCEPT !.status = "success"])
    /\ UNCHANGED <<accountVars, goalVars, cacheVars, lockVars, fixedVars, posted>>

Override(c) ==
    \/ OverrideRefused(c)
    \/ \E i \in 1..Len(transactions) :
          OverrideSettled(c, i) \/ OverrideInsufficient(c, i)

-----------------------------------------------------------------------------
(***************************************************************************)
(* ValidateRisk: the verdict of the validation service on a transaction of *)
(* any status.  "critical" is a verdict that agrees with the model but     *)
(* escalates; the others disagree and recommend an action.                 *)
(***************************************************************************)
Verdict == {"critical", "step_up", "block", "dismiss"}

ReviewedStatus(st, v) ==
    CASE v \in {"critical", "block"} -> "blocked"
      [] v = "step_up" -> IF st = "blocked" THEN st ELSE "warning_ack_required"
      [] v = "dismiss" -> IF st \in PendingOverride THEN "success" ELSE st

\* A review that puts a transaction back to a pending status.
Demotes(st, v) ==
    st \notin PendingOverride /\ ReviewedStatus(st, v) \in PendingOverride

ValidateRisk(i, v) ==
    LET t == transactions[i]
        n == IF Demotes(t.status, v) THEN t.reviews + 1 ELSE t.reviews
    IN  /\ t.cooling # "expired"
        /\ n <= MaxReviews
        /\ SetTxn(i, [t EXCEPT !.status = ReviewedStatus(t.status, v), !.reviews = n])
        /\ UNCHANGED <<accountVars, goalVars, cacheVars, lockVars, fixedVars,
                       posted, client>>

\* tx_schedule, on a transaction of any status: nothing executes it later.
Schedule(i) ==
    /\ SetTxn(i, [transactions[i] EXCEPT !.status = "scheduled", !.cooling = "active"])
    /\ UNCHANGED <<accountVars, goalVars, cacheVars, lockVars, fixedVars,
                   posted, client>>

\* The clock passes a transaction's CoolingOffUntil.
CoolingOffEnds(i) ==
    /\ InCoolingOff(i)
    /\ SetTxn(i, [transactions[i] EXCEPT !.cooling = "expired"])
    /\ UNCHANGED <<accountVars, goalVars, cacheVars, lockVars, fixedVars,
                   posted, client>>

OnTransaction ==
    \E i \in 1..Len(transactions) :
        \/ \E v \in Verdict : ValidateRisk(i, v)
        \/ Schedule(i)
        \/ CoolingOffEnds(i)

-----------------------------------------------------------------------------
(***************************************************************************)
(* EmergencyFreeze and Unfreeze, and the windows that end by themselves:   *)
(* the ledger's six hours and an investment order's cooling-off.           *)
(***************************************************************************)
EmergencyFreeze ==
    /\ frozen' = TRUE
    /\ UNCHANGED <<accountVars, goalVars, cacheVars, fixedVars, chainBlocked,
                   orderHeld, transactions, posted, client>>

Unfreeze ==
    /\ frozen' = FALSE
    /\ UNCHANGED <<accountVars, goalVars, cacheVars, fixedVars, chainBlocked,
                   orderHeld, transactions, posted, client>>

LedgerWindowEnds ==
    /\ chainBlocked
    /\ chainBlocked' = FALSE
    /\ UNCHANGED <<accountVars, goalVars, cacheVars, fixedVars, frozen,
                   orderHeld, transactions, posted, client>>

OrderWindowEnds ==
    /\ orderHeld
    /\ orderHeld' = FALSE
    /\ UNCHANGED <<accountVars, goalVars, cacheVars, fixedVars, frozen,
                   chainBlocked, transactions, posted, client>>

Locks == EmergencyFreeze \/ Unfreeze \/ LedgerWindowEnds \/ OrderWindowEnds

-----------------------------------------------------------------------------
(***************************************************************************)
(* IngestBankEvent: a transaction seen at the bank is recorded and, when   *)
(* the risk level lets it pass, posted and debited.  A failed debit flips  *)
(* it to blocked.  Neither the freeze nor the windows apply, and nothing   *)
(* recognises an event delivered twice.                                    *)
(***************************************************************************)
BankEventHeld(a, d) ==
    /\ d # "success"
    /\ Record(NewTxn(NoKey, a, d, "none", 0))
    /\ UNCHANGED <<accountVars, goalVars, cacheVars, lockVars, fixedVars,
                   posted, client>>

BankEventSettled(a) ==
    /\ Covered(a)
    /\ Pay(a)
    /\ posted' = posted + a
    /\ Record(NewTxn(NoKey, a, "success", "none", 1))
    /\ UNCHANGED <<goalVars, cacheVars, lockVars, fixedVars, client>>

BankEventInsufficient(a) ==
    /\ ~Covered(a)
    /\ posted' = posted + a
    /\ Record(NewTxn(NoKey, a, "blocked", "none", 0))
    /\ UNCHANGED <<accountVars, goalVars, cacheVars, lockVars, fixedVars, client>>

IngestBankEvent ==
    \E a \in Amounts :
        \/ \E d \in RiskDecision : BankEventHeld(a, d)
        \/ BankEventSettled(a)
        \/ BankEventInsufficient(a)

(***************************************************************************)
(* investment_order, behind the same middleware: a buy is debited before   *)
(* it is recorded as executed; one the fraud graph distrusts is held and   *)
(* debits nothing, now or later.  A sale moves no money here, and a buy    *)
(* without funds or with a refused step-up is turned down.                 *)
(***************************************************************************)
OrderExecuted(c, a) ==
    /\ Handle(c)
    /\ Covered(a)
    /\ Pay(a)
    /\ UNCHANGED <<goalVars, cacheVars, lockVars, fixedVars, transactions, posted>>

OrderHeld(c) ==
    /\ Handle(c)
    /\ orderHeld' = TRUE
    /\ UNCHANGED <<accountVars, goalVars, cacheVars, fixedVars, frozen,
                   chainBlocked, transactions, posted>>

OrderWithoutDebit(c) ==
    /\ Handle(c)
    /\ UNCHANGED <<accountVars, goalVars, cacheVars, lockVars, fixedVars,
                   transactions, posted>>

InvestmentOrder(c) ==
    \/ \E a \in Amounts : OrderExecuted(c, a)
    \/ OrderHeld(c)
    \/ OrderWithoutDebit(c)

-----------------------------------------------------------------------------
(***************************************************************************)
(* Goals: money is moved out of the accounts into a goal and, when the     *)
(* goal is dissolved, back into the first account.                         *)
(***************************************************************************)
OnlyGoalsChange ==
    UNCHANGED <<cacheVars, lockVars, fixedVars, transactions, posted, client>>

SetGoal(g, goal) == goals' = [goals EXCEPT ![g] = goal]

CreateGoal(target) ==
    /\ Len(goals) < MaxGoals
    /\ goals' = Append(goals, [target |-> target, saved |-> 0, status |-> "active"])
    /\ UNCHANGED <<accountVars, goalIdempotency>>
    /\ OnlyGoalsChange

\* ContributeGoal, with an idempotency key or (NoKey) without.  A key seen
\* before returns the first result.
ContributeGoal(g, a, k) ==
    LET saved == goals[g].saved + a IN
    /\ <<g, k>> \notin goalIdempotency
    /\ goals[g].status = "active"
    /\ Covered(a)
    /\ Debit(a)
    /\ SetGoal(g, [goals[g] EXCEPT !.saved = saved,
                                   !.status = IF saved >= goals[g].target
                                              THEN "completed" ELSE @])
    /\ goalIdempotency' = IF k = NoKey THEN goalIdempotency
                                       ELSE goalIdempotency \cup {<<g, k>>}
    /\ UNCHANGED spent
    /\ OnlyGoalsChange

\* CloseGoal and the pause/resume pair only change the status.
SetGoalStatus(g, st) ==
    /\ SetGoal(g, [goals[g] EXCEPT !.status = st])
    /\ UNCHANGED <<accountVars, goalIdempotency>>
    /\ OnlyGoalsChange

CloseGoal(g) == SetGoalStatus(g, "closed")
PauseGoal(g) == goals[g].status = "active" /\ SetGoalStatus(g, "paused")
ResumeGoal(g) == goals[g].status = "paused" /\ SetGoalStatus(g, "active")

\* Mutant: the refund is paid but the goal keeps its savings.
MutDissolveGoal(g) ==
    /\ goals[g].status # "dissolved"
    /\ first' = first + goals[g].saved
    /\ SetGoal(g, [goals[g] EXCEPT !.status = "dissolved"])
    /\ UNCHANGED <<others, spent, goalIdempotency>>
    /\ OnlyGoalsChange

DissolveGoal(g) ==
    /\ goals[g].status # "dissolved"
    /\ first' = first + goals[g].saved
    /\ SetGoal(g, [goals[g] EXCEPT !.status = "dissolved", !.saved = 0])
    /\ UNCHANGED <<others, spent, goalIdempotency>>
    /\ OnlyGoalsChange

OnGoal ==
    \/ \E target \in Targets : CreateGoal(target)
    \/ \E g \in 1..Len(goals) :
          \/ \E a \in Amounts, k \in Keys \cup {NoKey} : ContributeGoal(g, a, k)
          \/ CloseGoal(g)
          \/ PauseGoal(g)
          \/ ResumeGoal(g)
          \/ DissolveGoal(g)

-----------------------------------------------------------------------------
Next ==
    \/ \E c \in Clients :
          \/ Admit(c)
          \/ Initiate(c)
          \/ Override(c)
          \/ InvestmentOrder(c)
    \/ \E k \in Keys : Evict(k)
    \/ OnTransaction
    \/ Locks
    \/ IngestBankEvent
    \/ OnGoal

Spec == Init /\ [][Next]_vars

-----------------------------------------------------------------------------
(***************************************************************************)
(* Money is conserved: what the user opened with is in the accounts, saved *)
(* in goals, or was spent.  No debit that fails, no status a review or an  *)
(* override gives, and no order of closing, dissolving and contributing    *)
(* creates or destroys a paisa ("creating money out of nothing", C-5).     *)
(***************************************************************************)
SavedIn(gs) ==
    LET total[n \in 0..Len(gs)] == IF n = 0 THEN 0 ELSE total[n - 1] + gs[n].saved
    IN  total[Len(gs)]

Saved == SavedIn(goals)

MoneyConserved == first + others + Saved + spent = opening

(***************************************************************************)
(* Step by step: the accounts grow only by the refund of one goal, which   *)
(* is emptied by the same step, and shrink only by what is spent or what   *)
(* one goal gains.                                                         *)
(***************************************************************************)
Refund(g) ==
    /\ first' + others' = first + others + goals[g].saved
    /\ goals'[g].saved = 0
    /\ spent' = spent

Contribution(g) ==
    /\ first' + others' + goals'[g].saved = first + others + goals[g].saved
    /\ goals'[g].saved > goals[g].saved
    /\ spent' = spent

MoneyMovesOnce ==
    [][\/ first' + others' + spent' = first + others + spent
       \/ \E g \in 1..Len(goals) : Refund(g) \/ Contribution(g)]_vars

(***************************************************************************)
(* The idempotency engine: between two evictions of a key, at most one     *)
(* request carrying it was debited by InitiateTransaction, however many    *)
(* clients raced with it, replays came in, or attempts failed half-way.    *)
(***************************************************************************)
OneDebitPerKey == \A k \in Keys : paid[k] <= 1

(***************************************************************************)
(* A transaction is debited once, plus once for every time a review put it *)
(* back to a pending status after that: override cannot settle the same    *)
(* transaction twice on its own.                                           *)
(***************************************************************************)
DebitsBoundedByReviews ==
    \A i \in 1..Len(transactions) :
        transactions[i].debits <= 1 + transactions[i].reviews

(***************************************************************************)
(* What the comment of AccountingLedger.GetBalance says of the book, "This *)
(* is THE source of truth for balances": what the accounts lost since they *)
(* opened is what the book posted.                                         *)
(***************************************************************************)
BookIsSourceOfTruth == first + others = opening - posted

(***************************************************************************)
(* What the router promises of the cooling-off gate (H-7) and the ledger's *)
(* rule of the "cooling period before funds can be released": while a      *)
(* window of the user is open, neither initiate nor override settles a     *)
(* transaction the user asked for.                                         *)
(***************************************************************************)
Payouts(txns) ==
    MapThenSumSet(LAMBDA i : IF txns[i].key \in Keys THEN txns[i].debits ELSE 0,
                  DOMAIN txns)

NoPayoutInCoolingOff ==
    [][(\E i \in DOMAIN transactions : InCoolingOff(i))
         => Payouts(transactions') = Payouts(transactions)]_vars
=============================================================================
