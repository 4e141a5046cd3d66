---------------------------- MODULE EventLedger ----------------------------
(***************************************************************************)
(* The event ledger without Fabric (domain/blockchain/ledger.go): a hash   *)
(* chain in memory whose rules are evaluated on every write.  WriteEvent   *)
(* records violations, WriteEventStrict also reports them to its caller.   *)
(* The writers are those of the platform service: a transaction is         *)
(* initiated or blocked, a consent is set, accounts are linked, updated or *)
(* synchronised.  Most of them write twice, the second event being that of *)
(* the audit trail.                                                        *)
(***************************************************************************)
EXTENDS Integers, Sequences, SequencesExt, FiniteSetsExt

CONSTANTS
    LedgerUsers,
    LedgerPayloads,     \* the transactions, as far as their payloads differ
    CoolingOffWindow,   \* the six hours of CoolingOffRule
    MaxLedgerEvents,    \* bound on the events
    MaxLedgerTime       \* bound on the clock

\* A transaction's payload is not that of an event of another kind.
ASSUME LedgerAssumption ==
    /\ LedgerPayloads \cap {"payment", "blocked", "consent", "audit"} = {}
    /\ CoolingOffWindow \in Nat
    /\ MaxLedgerEvents \in Nat
    /\ MaxLedgerTime \in Nat

VARIABLES
    events,             \* Ledger.events
    consents,           \* Service.consents, for the one type of data sharing
    ledgerNow,          \* the clock
    accepted            \* history: indices of strict writes that succeeded

ledgerVars == <<events, consents, ledgerNow, accepted>>

LedgerInit ==
    /\ events = << >>
    /\ consents = [u \in LedgerUsers |-> TRUE]
    /\ ledgerNow = 0
    /\ accepted = {}

-----------------------------------------------------------------------------
(***************************************************************************)
(* The rules, over the events s recorded before.  A payload is a pair:     *)
(* what it is of, and a number that tells apart those with their own id.   *)
(***************************************************************************)
\* eventIndex: the events of a user with an action, and the first one of a
\* user with a payload.
EventsByUserAndAction(s, u, a) == {e \in ToSet(s) : e.user = u /\ e.action = a}

EventByPayload(s, u, p) == {i \in DOMAIN s : s[i].user = u /\ s[i].payload = p}

\* Mutant: the window ends a tick too soon.
MutInMemoryCoolingOff(s, e) ==
    e.action \in {"transaction_blocked", "transaction_initiated"} =>
        \A b \in EventsByUserAndAction(s, e.user, "transaction_blocked") :
            e.time - b.time >= CoolingOffWindow - 1

\* CoolingOffRule.Evaluate.
InMemoryCoolingOff(s, e) ==
    e.action \in {"transaction_blocked", "transaction_initiated"} =>
        \A b \in EventsByUserAndAction(s, e.user, "transaction_blocked") :
            e.time - b.time >= CoolingOffWindow

\* ConsentRevocationRule.Evaluate.
InMemoryConsent(s, e) ==
    e.resource \in {"account_aggregator", "data_export"} =>
        \A c \in EventsByUserAndAction(s, e.user, "consent_revoked") : c.time >= e.time

\* DoubleSpendRule.Evaluate.
InMemoryDoubleSpend(s, e) ==
    LET same == EventByPayload(s, e.user, e.payload) IN
    (e.action = "transaction_initiated" /\ same # {}) =>
        s[Min(same)].action # "transaction_initiated"

\* SHA-256, taken to be collision-free, is the tuple it digests.
LedgerHash(prev, e) == <<prev, e.payload, e.user, e.action, e.resource, e.time>>

\* writeEventInMemory: the event is appended whatever the rules say.
Written(s, u, action, resource, payload) ==
    LET e == [user |-> u, action |-> action, resource |-> resource,
              payload |-> payload, time |-> ledgerNow]
        prev == IF s = << >> THEN << >> ELSE Last(s).hash
    IN  [user |-> u, action |-> action, resource |-> resource,
         payload |-> payload, time |-> ledgerNow,
         prevHash |-> prev, hash |-> LedgerHash(prev, e),
         violated |-> ~(InMemoryCoolingOff(s, e) /\ InMemoryConsent(s, e)
                         /\ InMemoryDoubleSpend(s, e))]

Recording(s, u, action, resource, payload) ==
    Append(s, Written(s, u, action, resource, payload))

\* appendAuditLocked: an item with an id of its own.
AppendAudit(s, u, action, resource) ==
    Recording(s, u, action, resource, <<"audit", Len(s)>>)

-----------------------------------------------------------------------------
(***************************************************************************)
(* The writers.                                                            *)
(***************************************************************************)
HasRoom(n) == Len(events) + n <= MaxLedgerEvents

\* InitiateTransaction: WriteEventStrict, and the audit trail of a violation
\* or of the outcome, unless the debit between the two is refused.
InitiateStrict(u, p, refused) ==
    LET e == Written(events, u, "transaction_initiated", "transaction", <<p, 0>>)
        s == Append(events, e) IN
    /\ HasRoom(2)
    /\ e.violated => ~refused
    /\ events' = IF refused THEN s ELSE AppendAudit(s, u, "transaction_initiated", "transaction")
    /\ accepted' = IF e.violated THEN accepted ELSE accepted \cup {Len(events) + 1}
    /\ UNCHANGED <<consents, ledgerNow>>

\* InitiatePayment: the audit trail first, then WriteEventStrict.  No rule looks
\* at payment_initiated, so there is no violation to report.
InitiatePaymentStrict(u) ==
    LET s == AppendAudit(events, u, "payment_initiated", "payment")
        e == Written(s, u, "payment_initiated", "payment", <<"payment", Len(s)>>) IN
    /\ HasRoom(2)
    /\ events' = Append(s, e)
    /\ accepted' = IF e.violated THEN accepted ELSE accepted \cup {Len(s) + 1}
    /\ UNCHANGED <<consents, ledgerNow>>

\* InitiateTransaction on a frozen account: the audit trail, and WriteEvent.
RecordBlocked(u) ==
    LET s == AppendAudit(events, u, "transaction_blocked", "transaction") IN
    /\ HasRoom(2)
    /\ events' = Recording(s, u, "transaction_blocked", "transaction", <<"blocked", Len(s)>>)
    /\ UNCHANGED <<consents, ledgerNow, accepted>>

\* SetConsent, in whichever direction: one event for the audit trail and one
\* for the ledger, both named consent_updated.
SetConsent(u, granted) ==
    LET s == AppendAudit(events, u, "consent_updated", "consent") IN
    /\ HasRoom(2)
    /\ consents' = [consents EXCEPT ![u] = granted]
    /\ events' = Recording(s, u, "consent_updated", "consent", <<"consent", 0>>)
    /\ UNCHANGED <<ledgerNow, accepted>>

\* appendAuditLocked of LinkAccount, UpdateAccount and SyncAggregator.
AccessAccounts(u) ==
    /\ HasRoom(1)
    /\ events' = AppendAudit(events, u, "aggregator_sync_completed", "account_aggregator")
    /\ UNCHANGED <<consents, ledgerNow, accepted>>

LedgerTick ==
    /\ ledgerNow < MaxLedgerTime
    /\ ledgerNow' = ledgerNow + 1
    /\ UNCHANGED <<events, consents, accepted>>

LedgerNext ==
    \/ \E u \in LedgerUsers :
          \/ \E p \in LedgerPayloads, refused \in BOOLEAN : InitiateStrict(u, p, refused)
          \/ InitiatePaymentStrict(u)
          \/ RecordBlocked(u)
          \/ \E granted \in BOOLEAN : SetConsent(u, granted)
          \/ AccessAccounts(u)
    \/ LedgerTick

LedgerSpec == LedgerInit /\ [][LedgerNext]_ledgerVars

-----------------------------------------------------------------------------
\* VerifyIntegrity: links and hashes from the first event on.
VerifyIntegrity ==
    \A i \in DOMAIN events :
        LET e == events[i] IN
        /\ e.prevHash = IF i = 1 THEN << >> ELSE events[i - 1].hash
        /\ e.hash = LedgerHash(e.prevHash, e)

\* What the rules amount to over any history of writes, the rejected ones
\* included, which are recorded too: a transaction that was let through lies a
\* whole window after every blocked one of its user, none was let through
\* twice, and the chain verifies.
EnforcedTransactions ==
    /\ VerifyIntegrity
    /\ \A i \in accepted : events[i].action = "transaction_initiated" =>
          \A j \in 1..(i - 1) : events[j].user = events[i].user =>
             /\ events[j].action = "transaction_blocked" =>
                   events[i].time - events[j].time >= CoolingOffWindow
             /\ (j \in accepted /\ events[j].action = "transaction_initiated") =>
                   events[j].payload # events[i].payload
=============================================================================
