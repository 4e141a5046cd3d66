--------------------------- MODULE RecordsProofs ---------------------------
(***************************************************************************)
(* What is on record stays on record.  The in-memory ledger: its chain     *)
(* verifies and its rules are enforced on transactions, for any number of  *)
(* users, payloads and events.  The database: choices and saved records    *)
(* survive any number of crashes, outages and restarts.                    *)
(***************************************************************************)
EXTENDS EventLedger, Persistence, WellFoundedInduction, SequenceTheorems, TLAPS

-----------------------------------------------------------------------------
(***************************************************************************)
(* Every non-empty set of natural numbers has a least element.             *)
(***************************************************************************)
LEMMA LeastNatural ==
    ASSUME NEW T \in SUBSET Nat, T # {}
    PROVE  /\ Min(T) \in T
           /\ \A y \in T : Min(T) <= y
<1>1. PICK x \in T : \A y \in T : ~(<<y, x>> \in OpToRel(<, Nat))
  BY NatLessThanWellFounded, WFMin
<1>2. \A y \in T : ~(y < x)
  BY <1>1, Zenon DEF OpToRel
<1>3. \A y \in T : x <= y
  BY <1>2
<1>4. \E z \in T : \A y \in T : z =< y
  BY <1>3
<1> QED
  BY <1>4 DEF Min

-----------------------------------------------------------------------------
(***************************************************************************)
(* The ledger without Fabric.                                              *)
(*                                                                         *)
(* Only transactions have the payload of a transaction, for an item of the *)
(* audit trail has an id of its own: the first event with such a payload,  *)
(* which is the one DoubleSpendRule looks at, is then a transaction.       *)
(***************************************************************************)
TxPayloads == {<<p, 0>> : p \in LedgerPayloads}

Recorded(e) ==
    /\ e.time \in Nat
    /\ e.payload \in TxPayloads => e.action = "transaction_initiated"

\* An event links to the chain s.
Linked(s, e) ==
    /\ e.prevHash = IF s = << >> THEN << >> ELSE Last(s).hash
    /\ e.hash = LedgerHash(e.prevHash, e)

Chain(s) ==
    \A i \in DOMAIN s :
        /\ s[i].prevHash = IF i = 1 THEN << >> ELSE s[i - 1].hash
        /\ s[i].hash = LedgerHash(s[i].prevHash, s[i])

\* A transaction e is let through behind the events s.
Permitted(s, e) ==
    e.action = "transaction_initiated" =>
        \A j \in DOMAIN s : s[j].user = e.user =>
            /\ s[j].action = "transaction_blocked" => e.time - s[j].time >= CoolingOffWindow
            /\ s[j].action = "transaction_initiated" => s[j].payload # e.payload

\* What was accepted was permitted behind the events before it.
Enforced(s, acc) ==
    \A i \in acc : s[i].action = "transaction_initiated" =>
        \A j \in 1..(i - 1) : s[j].user = s[i].user =>
            /\ s[j].action = "transaction_blocked" => s[i].time - s[j].time >= CoolingOffWindow
            /\ (j \in acc /\ s[j].action = "transaction_initiated") =>
                  s[j].payload # s[i].payload

GoodLedger(s, acc) ==
    /\ \E S : s \in Seq(S)
    /\ acc \subseteq DOMAIN s
    /\ \A i \in DOMAIN s : Recorded(s[i])
    /\ Chain(s)
    /\ Enforced(s, acc)

LedgerInv == GoodLedger(events, accepted) /\ ledgerNow \in Nat

\* writeEventInMemory: the event is linked to the chain, and one that no rule
\* objects to is permitted.
LEMMA WrittenProperties ==
    ASSUME NEW s, NEW acc, GoodLedger(s, acc), ledgerNow \in Nat,
           NEW u, NEW action, NEW resource, NEW payload,
           payload \in TxPayloads => action = "transaction_initiated"
    PROVE  LET e == Written(s, u, action, resource, payload) IN
           /\ Recorded(e) /\ Linked(s, e) /\ e.action = action
           /\ (payload \in TxPayloads /\ ~e.violated) => Permitted(s, e)
<1> DEFINE r == [user |-> u, action |-> action, resource |-> resource,
                 payload |-> payload, time |-> ledgerNow]
           e == Written(s, u, action, resource, payload)
<1>1. /\ e.user = u /\ e.action = action /\ e.payload = payload /\ e.time = ledgerNow
      /\ e.resource = resource
      /\ e.prevHash = IF s = << >> THEN << >> ELSE Last(s).hash
      /\ e.hash = LedgerHash(e.prevHash, r)
      /\ e.violated = ~(InMemoryCoolingOff(s, r) /\ InMemoryConsent(s, r)
                         /\ InMemoryDoubleSpend(s, r))
  BY DEF Written
<1>2. LedgerHash(e.prevHash, r) = LedgerHash(e.prevHash, e)
  BY <1>1 DEF LedgerHash
<1>3. Recorded(e)
  BY <1>1 DEF Recorded
<1>4. Linked(s, e)
  BY <1>1, <1>2 DEF Linked
<1>5. (payload \in TxPayloads /\ ~e.violated) => Permitted(s, e)
  <2> SUFFICES ASSUME action = "transaction_initiated", payload \in TxPayloads, ~e.violated,
                      NEW j \in DOMAIN s, s[j].user = u
               PROVE  /\ s[j].action = "transaction_blocked" =>
                            ledgerNow - s[j].time >= CoolingOffWindow
                      /\ s[j].action = "transaction_initiated" => s[j].payload # payload
    BY <1>1 DEF Permitted
  <2>1. InMemoryCoolingOff(s, r) /\ InMemoryDoubleSpend(s, r)
    BY <1>1
  <2>2. s[j].action = "transaction_blocked" => ledgerNow - s[j].time >= CoolingOffWindow
    BY <2>1 DEF InMemoryCoolingOff, EventsByUserAndAction, ToSet
  <2>3. ASSUME s[j].action = "transaction_initiated", s[j].payload = payload
        PROVE  FALSE
    <3> DEFINE same == EventByPayload(s, u, payload)
    <3>1. same \in SUBSET Nat /\ j \in same
      BY <2>3 DEF EventByPayload, GoodLedger
    <3>2. Min(same) \in same
      BY <3>1, LeastNatural
    <3>3. s[Min(same)].action = "transaction_initiated"
      BY <3>2 DEF EventByPayload, GoodLedger, Recorded
    <3> QED
      BY <2>1, <3>1, <3>3 DEF InMemoryDoubleSpend
  <2> QED
    BY <2>2, <2>3
<1> QED
  BY <1>1, <1>3, <1>4, <1>5

\* One append, of an event that is accepted only if it is permitted.
LEMMA Appended ==
    ASSUME NEW s, NEW acc, GoodLedger(s, acc), NEW e, Recorded(e), Linked(s, e),
           NEW new \in {acc, acc \cup {Len(s) + 1}}, new # acc => Permitted(s, e)
    PROVE  GoodLedger(Append(s, e), new)
<1> DEFINE t == Append(s, e)
<1> USE DEF GoodLedger
<1>1. PICK S : s \in Seq(S)
  OBVIOUS
<1>2. s \in Seq(S \cup {e})
  <2>1. s \in [1..Len(s) -> S \cup {e}] /\ Len(s) \in Nat
    BY <1>1
  <2> QED
    BY <2>1
<1>3. /\ t \in Seq(S \cup {e}) /\ Len(t) = Len(s) + 1 /\ Len(s) \in Nat
      /\ \A i \in DOMAIN s : t[i] = s[i] /\ i \in 1..Len(s)
      /\ t[Len(s) + 1] = e
      /\ \A i \in DOMAIN t : i \in DOMAIN s \/ i = Len(s) + 1
      /\ DOMAIN s = 1..Len(s) /\ DOMAIN t = 1..(Len(s) + 1)
  BY <1>2
<1> HIDE DEF t
<1>4. \A i \in DOMAIN t : Recorded(t[i])
  BY <1>3
<1>5. Chain(t)
  <2> SUFFICES ASSUME NEW i \in DOMAIN t
               PROVE  /\ t[i].prevHash = IF i = 1 THEN << >> ELSE t[i - 1].hash
                      /\ t[i].hash = LedgerHash(t[i].prevHash, t[i])
    BY DEF Chain
  <2>1. CASE i \in DOMAIN s
    <3>1. i # 1 => i - 1 \in DOMAIN s
      BY <1>3, <2>1
    <3> QED
      BY <1>3, <2>1, <3>1 DEF Chain
  <2>2. CASE i = Len(s) + 1
    <3>1. s = << >> <=> Len(s) = 0
      BY <1>1, EmptySeq
    <3>2. Len(s) # 0 => Len(s) \in DOMAIN s
      BY <1>3
    <3> QED
      BY <1>3, <2>2, <3>1, <3>2 DEF Linked, Last
  <2> QED
    BY <1>3, <2>1, <2>2
<1>6. Enforced(t, new)
  <2> SUFFICES ASSUME NEW i \in new, t[i].action = "transaction_initiated",
                      NEW j \in 1..(i - 1), t[j].user = t[i].user
               PROVE  /\ t[j].action = "transaction_blocked" =>
                            t[i].time - t[j].time >= CoolingOffWindow
                      /\ (j \in new /\ t[j].action = "transaction_initiated") =>
                            t[j].payload # t[i].payload
    BY DEF Enforced
  <2>1. CASE i \in acc
    <3>1. i \in DOMAIN s /\ j \in DOMAIN s /\ (j \in new => j \in acc)
      BY <1>3, <2>1
    <3> QED
      BY <1>3, <2>1, <3>1 DEF Enforced
  <2>2. CASE i \notin acc
    <3>1. i = Len(s) + 1 /\ j \in DOMAIN s /\ Permitted(s, e)
      BY <1>3, <2>2
    <3> QED
      BY <1>3, <3>1 DEF Permitted
  <2> QED
    BY <2>1, <2>2
<1>7. new \subseteq DOMAIN t
  BY <1>3
<1> QED
  BY <1>3, <1>4, <1>5, <1>6, <1>7 DEF t

\* Items of the audit trail, and whatever else is not a transaction.
LEMMA NoTransaction ==
    ASSUME NEW kind \in {"payment", "blocked", "consent", "audit"}, NEW n
    PROVE  <<kind, n>> \notin TxPayloads
<1> SUFFICES ASSUME NEW p \in LedgerPayloads, <<kind, n>> = <<p, 0>>
             PROVE  FALSE
  BY DEF TxPayloads
<1>1. kind = p
  OBVIOUS
<1> QED
  BY <1>1, LedgerAssumption

LEMMA RecordingKeeps ==
    ASSUME NEW s, NEW acc, GoodLedger(s, acc), ledgerNow \in Nat,
           NEW u, NEW action, NEW resource, NEW payload, payload \notin TxPayloads
    PROVE  GoodLedger(Recording(s, u, action, resource, payload), acc)
<1> DEFINE e == Written(s, u, action, resource, payload)
<1>1. Recorded(e) /\ Linked(s, e)
  BY WrittenProperties
<1> HIDE DEF e
<1>2. GoodLedger(Append(s, e), acc)
  BY <1>1, Appended
<1> QED
  BY <1>2 DEF Recording, e

LEMMA AuditKeeps ==
    ASSUME NEW s, NEW acc, GoodLedger(s, acc), ledgerNow \in Nat, NEW u, NEW action, NEW resource
    PROVE  GoodLedger(AppendAudit(s, u, action, resource), acc)
BY NoTransaction, RecordingKeeps DEF AppendAudit

-----------------------------------------------------------------------------
LEMMA LedgerInitially == LedgerInit => LedgerInv
<1> SUFFICES ASSUME LedgerInit PROVE LedgerInv
  OBVIOUS
<1>1. << >> \in Seq({})
  OBVIOUS
<1> QED
  BY <1>1 DEF LedgerInit, LedgerInv, GoodLedger, Chain, Enforced

LEMMA LedgerPreserved == LedgerInv /\ [LedgerNext]_ledgerVars => LedgerInv'
<1> SUFFICES ASSUME LedgerInv, [LedgerNext]_ledgerVars PROVE LedgerInv'
  OBVIOUS
<1>1. GoodLedger(events, accepted) /\ ledgerNow \in Nat
  BY DEF LedgerInv
<1>2. ASSUME NEW u \in LedgerUsers, NEW p \in LedgerPayloads, NEW refused \in BOOLEAN,
             InitiateStrict(u, p, refused)
      PROVE  LedgerInv'
  <2> DEFINE e == Written(events, u, "transaction_initiated", "transaction", <<p, 0>>)
             s == Append(events, e)
             new == IF e.violated THEN accepted ELSE accepted \cup {Len(events) + 1}
  <2>1. <<p, 0>> \in TxPayloads
    BY DEF TxPayloads
  <2>2. Recorded(e) /\ Linked(events, e) /\ (~e.violated => Permitted(events, e))
    BY <1>1, <2>1, WrittenProperties
  <2> HIDE DEF e
  <2>3. GoodLedger(s, new)
    BY <1>1, <2>2, Appended
  <2> HIDE DEF s, new
  <2>4. GoodLedger(AppendAudit(s, u, "transaction_initiated", "transaction"), new)
    BY <1>1, <2>3, AuditKeeps
  <2>5. /\ events' = IF refused THEN s
                     ELSE AppendAudit(s, u, "transaction_initiated", "transaction")
        /\ accepted' = new /\ ledgerNow' = ledgerNow
    BY <1>2 DEF InitiateStrict, e, s, new
  <2> QED
    BY <2>3, <2>4, <2>5 DEF LedgerInv
<1>3. ASSUME NEW u \in LedgerUsers, InitiatePaymentStrict(u)
      PROVE  LedgerInv'
  <2> DEFINE s == AppendAudit(events, u, "payment_initiated", "payment")
             e == Written(s, u, "payment_initiated", "payment", <<"payment", Len(s)>>)
             new == IF e.violated THEN accepted ELSE accepted \cup {Len(s) + 1}
  <2>1. GoodLedger(s, accepted)
    BY <1>1, AuditKeeps
  <2> HIDE DEF s
  <2>2. <<"payment", Len(s)>> \notin TxPayloads
    BY NoTransaction
  <2>3. Recorded(e) /\ Linked(s, e) /\ e.action = "payment_initiated"
    BY <1>1, <2>1, <2>2, WrittenProperties
  <2> HIDE DEF e
  <2>4. Permitted(s, e)
    BY <2>3 DEF Permitted
  <2>5. GoodLedger(Append(s, e), new)
    BY <2>1, <2>3, <2>4, Appended
  <2>6. events' = Append(s, e) /\ accepted' = new /\ ledgerNow' = ledgerNow
    BY <1>3 DEF InitiatePaymentStrict, s, e
  <2> QED
    BY <2>5, <2>6 DEF LedgerInv
<1>4. ASSUME NEW u \in LedgerUsers, RecordBlocked(u)
      PROVE  LedgerInv'
  <2> DEFINE s == AppendAudit(events, u, "transaction_blocked", "transaction")
  <2>1. GoodLedger(s, accepted)
    BY <1>1, AuditKeeps
  <2> HIDE DEF s
  <2>2. <<"blocked", Len(s)>> \notin TxPayloads
    BY NoTransaction
  <2>3. GoodLedger(Recording(s, u, "transaction_blocked", "transaction",
                             <<"blocked", Len(s)>>), accepted)
    BY <1>1, <2>1, <2>2, RecordingKeeps
  <2> QED
    BY <1>4, <2>3 DEF RecordBlocked, LedgerInv, s
<1>5. ASSUME NEW u \in LedgerUsers, NEW granted \in BOOLEAN, SetConsent(u, granted)
      PROVE  LedgerInv'
  <2> DEFINE s == AppendAudit(events, u, "consent_updated", "consent")
  <2>1. GoodLedger(s, accepted)
    BY <1>1, AuditKeeps
  <2> HIDE DEF s
  <2>2. GoodLedger(Recording(s, u, "consent_updated", "consent", <<"consent", 0>>), accepted)
    BY <1>1, <2>1, NoTransaction, RecordingKeeps
  <2> QED
    BY <1>5, <2>2 DEF SetConsent, LedgerInv, s
<1>6. ASSUME NEW u \in LedgerUsers, AccessAccounts(u)
      PROVE  LedgerInv'
  BY <1>1, <1>6, AuditKeeps DEF AccessAccounts, LedgerInv
<1>7. CASE LedgerTick
  BY <1>7, LedgerAssumption DEF LedgerTick, LedgerInv
<1>8. CASE UNCHANGED ledgerVars
  BY <1>8 DEF ledgerVars, LedgerInv
<1> QED
  BY <1>2, <1>3, <1>4, <1>5, <1>6, <1>7, <1>8 DEF LedgerNext

(***************************************************************************)
(* The in-memory rules, which are evaluated over every event on record,    *)
(* the rejected ones included, are enforced on the transactions that were  *)
(* let through, and VerifyIntegrity succeeds after any history of writes.  *)
(***************************************************************************)
THEOREM LedgerEnforced == LedgerSpec => []EnforcedTransactions
<1>1. LedgerInv => EnforcedTransactions
  BY DEF LedgerInv, GoodLedger, Chain, Enforced, EnforcedTransactions, VerifyIntegrity
<1> QED
  BY <1>1, LedgerInitially, LedgerPreserved, PTL DEF LedgerSpec

-----------------------------------------------------------------------------
(***************************************************************************)
(* Persistence.  The types the argument needs.                             *)
(***************************************************************************)
AllTables == RowTables \cup Preferences \cup {"users"}

Row == [obj : Nat, ver : Int]

SaveRecord ==
    [table : AllTables \cup {"answer"}, row : Row, choice : BOOLEAN,
     as : {"none", "usr", "uuid"}]

MemoryOK(m) ==
    /\ m = [t \in RowTables \cup Preferences |-> m[t]]
    /\ \A t \in RowTables : m[t] \in Seq(Row)
    /\ \A t \in Preferences : m[t] \in BOOLEAN

DatabaseOK(d) ==
    /\ d = [t \in AllTables |-> d[t]]
    /\ \A t \in RowTables : d[t] \in Seq(Row)
    /\ \A t \in Preferences : d[t] \in SUBSET BOOLEAN
    /\ d["users"] \in BOOLEAN

PersistTypeOK ==
    /\ ops \in Nat
    /\ who \in {"none", "usr", "uuid"}
    /\ MemoryOK(mem)
    /\ DatabaseOK(db)
    /\ jobs \in Seq(SaveRecord)
    /\ persisting \in Seq(SaveRecord)
    /\ saved \in [RowTables -> SUBSET Nat]
    /\ wanted \in [freeze : BOOLEAN, consent : BOOLEAN]

Objects(rows) == {rows[i].obj : i \in DOMAIN rows}

\* A process that is down knows nobody, and without a customer nothing is
\* under way; the saves of a payment are of transactions and accounts.
NothingPending ==
    /\ ~running => who = "none"
    /\ who = "none" => jobs = << >> /\ persisting = << >>

PaymentSaves ==
    /\ \A s \in ToSet(persisting) : s.table \in {"transactions", "accounts", "answer"}
    /\ \A s \in ToSet(jobs) : s.table # "answer"

(***************************************************************************)
(* A choice whose save did not go wrong is on its way to the database or   *)
(* there, and nothing else is on its way: for a freeze, as long as it is   *)
(* wanted; for the consent, from the registration on.                      *)
(***************************************************************************)
Pending(t) == {s \in ToSet(jobs) : s.table = t}

FreezeUnderWay ==
    (wanted.freeze /\ "freeze" \notin spoiled) =>
        /\ \A s \in Pending("freeze") : s.choice
        /\ Pending("freeze") # {} \/ TRUE \in db["freeze"]

ConsentUnderWay ==
    ("consent" \notin spoiled /\ (db["users"] \/ who # "none")) =>
        /\ \A s \in Pending("consent") : s.choice = wanted.consent
        /\ Pending("consent") # {} \/ (TRUE \in db["consent"] <=> wanted.consent)

ChoiceInv == FreezeUnderWay /\ ConsentUnderWay /\ ChoicesSurvive

(***************************************************************************)
(* What was inserted stays in its table; what is about to be inserted is   *)
(* in memory, unless the customer has removed it.                          *)
(***************************************************************************)
SavedInDatabase == \A t \in RowTables : saved[t] \subseteq Objects(db[t])

Held(s) == s.table \in RowTables => s.row.obj \in Objects(mem[s.table]) \cup removed

SavesHeld == \A s \in ToSet(jobs) \cup ToSet(persisting) : Held(s)

RecordInv == SavedInDatabase /\ SavesHeld /\ SavedRecordsRestored

PersistInv ==
    /\ PersistTypeOK
    /\ NothingPending
    /\ PaymentSaves
    /\ ChoiceInv
    /\ RecordInv

-----------------------------------------------------------------------------
(***************************************************************************)
(* Sequences as the sets of their entries.                                 *)
(***************************************************************************)
LEMMA EntriesAppend ==
    ASSUME NEW S, NEW s \in Seq(S), NEW x \in S
    PROVE  Append(s, x) \in Seq(S) /\ ToSet(Append(s, x)) = ToSet(s) \cup {x}
<1>1. /\ Append(s, x) \in Seq(S)
      /\ DOMAIN Append(s, x) = DOMAIN s \cup {Len(s) + 1}
      /\ \A i \in DOMAIN s : Append(s, x)[i] = s[i]
      /\ Append(s, x)[Len(s) + 1] = x
  OBVIOUS
<1> QED
  BY <1>1, Zenon DEF ToSet

LEMMA EntriesRemoveAt ==
    ASSUME NEW S, NEW s \in Seq(S), NEW i \in DOMAIN s
    PROVE  /\ RemoveAt(s, i) \in Seq(S)
           /\ ToSet(RemoveAt(s, i)) \subseteq ToSet(s)
           /\ ToSet(s) \subseteq ToSet(RemoveAt(s, i)) \cup {s[i]}
<1> DEFINE a == SubSeq(s, 1, i - 1)
           b == SubSeq(s, i + 1, Len(s))
           r == RemoveAt(s, i)
<1>1. /\ a \in Seq(S) /\ Len(a) = i - 1
      /\ \A j \in 1..(i - 1) : a[j] = s[j]
  <2>1. (\A j \in 1..(i - 1) : s[j] \in S) /\ i - 1 \in Int
    OBVIOUS
  <2> QED
    BY <2>1, SubSeqProperties
<1>2. /\ b \in Seq(S) /\ Len(b) = Len(s) - i
      /\ \A j \in 1..(Len(s) - i) : b[j] = s[i + j]
  <2>1. (\A j \in (i + 1)..Len(s) : s[j] \in S) /\ i + 1 \in Int /\ Len(s) \in Int
    OBVIOUS
  <2>2. /\ SubSeq(s, i + 1, Len(s)) \in Seq(S)
        /\ Len(SubSeq(s, i + 1, Len(s))) =
              IF i + 1 <= Len(s) THEN Len(s) - (i + 1) + 1 ELSE 0
        /\ \A j \in 1..(Len(s) - (i + 1) + 1) :
              SubSeq(s, i + 1, Len(s))[j] = s[(i + 1) + j - 1]
    BY <2>1, SubSeqProperties
  <2> QED
    BY <2>2
<1>3. r = a \o b
  BY DEF RemoveAt
<1> HIDE DEF a, b, r
<1>4. /\ r \in Seq(S) /\ Len(r) = Len(s) - 1
      /\ \A j \in 1..(Len(s) - 1) : r[j] = IF j < i THEN s[j] ELSE s[j + 1]
  BY <1>1, <1>2, <1>3, ConcatProperties
<1>5. ASSUME NEW x \in ToSet(r) PROVE x \in ToSet(s)
  <2>1. PICK j \in DOMAIN r : x = r[j]
    BY DEF ToSet
  <2>2. \E k \in DOMAIN s : x = s[k]
    BY <1>4, <2>1
  <2> QED
    BY <2>2 DEF ToSet
<1>6. ASSUME NEW k \in DOMAIN s, k # i PROVE \E j \in DOMAIN r : r[j] = s[k]
  <2>1. CASE k < i
    BY <1>4, <2>1
  <2>2. CASE k > i
    <3>1. k - 1 \in DOMAIN r /\ r[k - 1] = s[k]
      BY <1>4, <2>2
    <3> QED
      BY <3>1
  <2> QED
    BY <1>6, <2>1, <2>2
<1>7. ToSet(s) \subseteq ToSet(r) \cup {s[i]}
  BY <1>6 DEF ToSet
<1> QED
  BY <1>4, <1>5, <1>7 DEF r

LEMMA EntriesTail ==
    ASSUME NEW S, NEW s \in Seq(S), s # << >>
    PROVE  /\ Tail(s) \in Seq(S)
           /\ Head(s) \in ToSet(s)
           /\ ToSet(Tail(s)) \subseteq ToSet(s)
<1>1. /\ Tail(s) \in Seq(S) /\ Len(Tail(s)) = Len(s) - 1
      /\ \A i \in 1..Len(Tail(s)) : Tail(s)[i] = s[i + 1]
      /\ 1 \in DOMAIN s /\ Head(s) = s[1]
  BY HeadTailProperties
<1>2. \A i \in DOMAIN Tail(s) : i + 1 \in DOMAIN s /\ Tail(s)[i] = s[i + 1]
  BY <1>1
<1> QED
  BY <1>1, <1>2 DEF ToSet

LEMMA EntriesType ==
    ASSUME NEW S, NEW s \in Seq(S) PROVE ToSet(s) \subseteq S
BY DEF ToSet

LEMMA NoEntries == ToSet(<< >>) = {}
BY DEF ToSet

LEMMA ObjectsEntries == \A rows : Objects(rows) = {r.obj : r \in ToSet(rows)}
BY DEF Objects, ToSet

-----------------------------------------------------------------------------
(***************************************************************************)
(* Operations on rows: the memory first, perhaps a save of what it then    *)
(* holds.                                                                  *)
(***************************************************************************)
LEMMA RowsOnly ==
    ASSUME PersistInv, who # "none",
           UNCHANGED <<running, who, db, wanted, spoiled, saved, unread>>, ops' \in Nat,
           MemoryOK(mem'), \A t \in Preferences : mem'[t] = mem[t],
           \A t \in RowTables : Objects(mem[t]) \subseteq Objects(mem'[t]) \cup removed',
           removed \subseteq removed',
           jobs' \in Seq(SaveRecord), ToSet(jobs) \subseteq ToSet(jobs'),
           \A s \in ToSet(jobs') \ ToSet(jobs) :
              s.table \in RowTables /\ s.row.obj \in Objects(mem'[s.table]),
           persisting' \in Seq(SaveRecord),
           \A s \in ToSet(persisting') \ ToSet(persisting) :
              /\ s.table \in {"transactions", "accounts", "answer"}
              /\ s.table \in RowTables => s.row.obj \in Objects(mem'[s.table])
    PROVE  PersistInv'
<1> USE DEF PersistInv
<1>1. PersistTypeOK'
  BY DEF PersistTypeOK
<1>2. NothingPending' /\ PaymentSaves'
  BY DEF NothingPending, PaymentSaves, RowTables
<1>3. \A t \in Preferences : Pending(t)' = Pending(t)
  BY DEF Pending, RowTables, Preferences
<1>4. /\ Pending("freeze")' = Pending("freeze") /\ Pending("consent")' = Pending("consent")
      /\ mem'["freeze"] = mem["freeze"] /\ mem'["consent"] = mem["consent"]
  BY <1>3 DEF Preferences
<1>5. FreezeUnderWay' /\ ConsentUnderWay'
  BY <1>4 DEF ChoiceInv, FreezeUnderWay, ConsentUnderWay
<1>6. ChoicesSurvive'
  BY <1>4 DEF ChoiceInv, ChoicesSurvive
<1>7. SavedInDatabase'
  BY DEF RecordInv, SavedInDatabase
<1>8. SavesHeld'
  BY DEF RecordInv, SavesHeld, Held
<1>9. SavedRecordsRestored'
  <2> SUFFICES ASSUME running, who = "uuid", NEW t \in RowTables \ unread,
                      NEW o \in saved[t] \ removed'
               PROVE  o \in Objects(mem'[t])
    BY DEF SavedRecordsRestored, Objects
  <2>1. o \in Objects(mem[t])
    BY DEF RecordInv, SavedRecordsRestored, Objects
  <2> QED
    BY <2>1
<1> QED
  BY <1>1, <1>2, <1>5, <1>6, <1>7, <1>8, <1>9 DEF ChoiceInv, RecordInv

\* A record that changes but describes the same thing.
LEMMA RowChanges ==
    ASSUME NEW rows \in Seq(Row), NEW i \in DOMAIN rows, NEW row \in Row,
           row.obj = rows[i].obj
    PROVE  /\ [rows EXCEPT ![i] = row] \in Seq(Row)
           /\ Objects([rows EXCEPT ![i] = row]) = Objects(rows)
           /\ row \in ToSet([rows EXCEPT ![i] = row])
<1> DEFINE new == [rows EXCEPT ![i] = row]
<1>1. /\ new \in Seq(Row) /\ DOMAIN new = DOMAIN rows /\ new[i] = row
      /\ \A j \in DOMAIN rows : new[j].obj = rows[j].obj
  OBVIOUS
<1> HIDE DEF new
<1>2. Objects(new) = Objects(rows)
  BY <1>1 DEF Objects
<1>3. row \in ToSet(new)
  BY <1>1 DEF ToSet
<1> QED
  BY <1>1, <1>2, <1>3 DEF new

\* The memory after one table of rows has changed.
LEMMA TableChanges ==
    ASSUME MemoryOK(mem), NEW t \in RowTables, NEW rows \in Seq(Row),
           mem' = [mem EXCEPT ![t] = rows]
    PROVE  /\ MemoryOK(mem')
           /\ mem'[t] = rows
           /\ \A u \in RowTables : u # t => mem'[u] = mem[u]
           /\ \A p \in Preferences : mem'[p] = mem[p]
<1>1. /\ mem' = [u \in RowTables \cup Preferences |-> mem'[u]]
      /\ mem'[t] = rows
      /\ \A u \in RowTables \cup Preferences : u # t => mem'[u] = mem[u]
  BY DEF MemoryOK
<1>2. t \notin Preferences
  BY DEF RowTables, Preferences
<1> QED
  BY <1>1, <1>2 DEF MemoryOK

LEMMA SaveType ==
    ASSUME PersistInv, NEW t \in AllTables \cup {"answer"}, NEW row \in Row
    PROVE  /\ Save(t, row) \in SaveRecord
           /\ Save(t, row).table = t /\ Save(t, row).row = row
BY DEF Save, SaveRecord, PersistInv, PersistTypeOK

LEMMA CreateKeeps ==
    ASSUME PersistInv, NEW t \in RowTables, Create(Save(t, NewRow))
    PROVE  PersistInv'
<1> DEFINE s == Save(t, NewRow)
<1>1. ops \in Nat /\ MemoryOK(mem) /\ mem[t] \in Seq(Row) /\ jobs \in Seq(SaveRecord)
  BY DEF PersistInv, PersistTypeOK, MemoryOK
<1>2. NewRow \in Row
  BY <1>1 DEF NewRow, Row
<1>3. s \in SaveRecord /\ s.table = t /\ s.row = NewRow
  BY <1>2, SaveType DEF AllTables
<1>4. /\ mem' = [mem EXCEPT ![t] = Append(mem[t], NewRow)]
      /\ jobs' = Append(jobs, s)
      /\ who # "none" /\ ops' = ops + 1
      /\ UNCHANGED <<running, who, db, wanted, spoiled, saved, unread, removed, persisting>>
  BY <1>3 DEF Create, Known, Operating
<1> HIDE DEF s
<1>5. /\ Append(mem[t], NewRow) \in Seq(Row)
      /\ ToSet(Append(mem[t], NewRow)) = ToSet(mem[t]) \cup {NewRow}
  BY <1>1, <1>2, EntriesAppend
<1>6. /\ MemoryOK(mem') /\ mem'[t] = Append(mem[t], NewRow)
      /\ \A u \in RowTables : u # t => mem'[u] = mem[u]
      /\ \A p \in Preferences : mem'[p] = mem[p]
  BY <1>1, <1>4, <1>5, TableChanges
<1>7. jobs' \in Seq(SaveRecord) /\ ToSet(jobs') = ToSet(jobs) \cup {s}
  BY <1>1, <1>3, <1>4, EntriesAppend
<1>8. Objects(mem[t]) \subseteq Objects(mem'[t]) /\ NewRow.obj \in Objects(mem'[t])
  BY <1>5, <1>6, ObjectsEntries
<1>9. \A u \in RowTables : Objects(mem[u]) \subseteq Objects(mem'[u]) \cup removed'
  BY <1>6, <1>8
<1>10. persisting' \in Seq(SaveRecord)
  BY <1>4 DEF PersistInv, PersistTypeOK
<1> QED
  BY <1>1, <1>3, <1>4, <1>6, <1>7, <1>8, <1>9, <1>10, RowsOnly

LEMMA ReceiptKeeps ==
    ASSUME PersistInv, NEW i \in DOMAIN mem.payments, VerifyPaymentReceipt(i)
    PROVE  PersistInv'
<1> DEFINE row == [mem.payments[i] EXCEPT !.ver = 2]
           rows == [mem["payments"] EXCEPT ![i] = row]
           s == Save("payments", row)
<1>1. /\ ops \in Nat /\ MemoryOK(mem) /\ mem["payments"] \in Seq(Row)
      /\ jobs \in Seq(SaveRecord) /\ "payments" \in RowTables
  BY DEF PersistInv, PersistTypeOK, MemoryOK, RowTables
<1>2. row \in Row /\ row.obj = mem["payments"][i].obj
  <2>1. mem["payments"][i] \in Row
    BY <1>1
  <2> QED
    BY <2>1 DEF Row
<1>3. s \in SaveRecord /\ s.table = "payments" /\ s.row = row
  BY <1>1, <1>2, SaveType DEF AllTables
<1>4. /\ mem' = [mem EXCEPT !["payments"] = rows]
      /\ jobs' = Append(jobs, s)
      /\ who # "none" /\ ops' = ops + 1
      /\ UNCHANGED <<running, who, db, wanted, spoiled, saved, unread, removed, persisting>>
  BY DEF VerifyPaymentReceipt, Known, Operating, SavePaymentToDB
<1>5. rows \in Seq(Row) /\ Objects(rows) = Objects(mem["payments"]) /\ row \in ToSet(rows)
  BY <1>1, <1>2, RowChanges
<1> HIDE DEF row, rows, s
<1>6. /\ MemoryOK(mem') /\ mem'["payments"] = rows
      /\ \A u \in RowTables : u # "payments" => mem'[u] = mem[u]
      /\ \A p \in Preferences : mem'[p] = mem[p]
  BY <1>1, <1>4, <1>5, TableChanges
<1>7. jobs' \in Seq(SaveRecord) /\ ToSet(jobs') = ToSet(jobs) \cup {s}
  BY <1>1, <1>3, <1>4, EntriesAppend
<1>8. row.obj \in Objects(mem'["payments"])
  BY <1>5, <1>6, ObjectsEntries
<1>9. \A u \in RowTables : Objects(mem[u]) \subseteq Objects(mem'[u]) \cup removed'
  BY <1>5, <1>6
<1>10. persisting' \in Seq(SaveRecord)
  BY <1>4 DEF PersistInv, PersistTypeOK
<1> QED
  BY <1>1, <1>3, <1>4, <1>6, <1>7, <1>8, <1>9, <1>10, RowsOnly

LEMMA ContributeKeeps ==
    ASSUME PersistInv, NEW i \in DOMAIN mem.goals, ContributeToGoal(i)
    PROVE  PersistInv'
<1> DEFINE row == [mem["goals"][i] EXCEPT !.ver = @ + 1]
           rows == [mem["goals"] EXCEPT ![i] = row]
<1>1. ops \in Nat /\ MemoryOK(mem) /\ mem["goals"] \in Seq(Row) /\ "goals" \in RowTables
  BY DEF PersistInv, PersistTypeOK, MemoryOK, RowTables
<1>2. row \in Row /\ row.obj = mem["goals"][i].obj
  <2>1. mem["goals"][i] \in Row
    BY <1>1
  <2> QED
    BY <2>1 DEF Row
<1>3. /\ mem' = [mem EXCEPT !["goals"] = rows]
      /\ who # "none" /\ ops' = ops + 1
      /\ UNCHANGED <<running, who, db, wanted, spoiled, saved, unread, removed, persisting,
                     jobs>>
  BY DEF ContributeToGoal, Known, Operating
<1>4. rows \in Seq(Row) /\ Objects(rows) = Objects(mem["goals"])
  BY <1>1, <1>2, RowChanges
<1> HIDE DEF row, rows
<1>5. /\ MemoryOK(mem') /\ mem'["goals"] = rows
      /\ \A u \in RowTables : u # "goals" => mem'[u] = mem[u]
      /\ \A p \in Preferences : mem'[p] = mem[p]
  BY <1>1, <1>3, <1>4, TableChanges
<1>6. \A u \in RowTables : Objects(mem[u]) \subseteq Objects(mem'[u]) \cup removed'
  BY <1>4, <1>5
<1>7. persisting' \in Seq(SaveRecord) /\ jobs' \in Seq(SaveRecord)
  BY <1>3 DEF PersistInv, PersistTypeOK
<1> QED
  BY <1>1, <1>3, <1>5, <1>6, <1>7, RowsOnly

LEMMA RemoveKeeps ==
    ASSUME PersistInv, NEW t \in RowTables, NEW i \in DOMAIN mem[t], RemoveRecord(t, i)
    PROVE  PersistInv'
<1>1. ops \in Nat /\ MemoryOK(mem) /\ mem[t] \in Seq(Row)
  BY DEF PersistInv, PersistTypeOK, MemoryOK
<1>2. /\ mem' = [mem EXCEPT ![t] = RemoveAt(mem[t], i)]
      /\ removed' = removed \cup {mem[t][i].obj}
      /\ who # "none" /\ ops' = ops + 1
      /\ UNCHANGED <<running, who, db, wanted, spoiled, saved, unread, persisting, jobs>>
  BY DEF RemoveRecord, Known, Operating
<1>3. /\ RemoveAt(mem[t], i) \in Seq(Row)
      /\ ToSet(mem[t]) \subseteq ToSet(RemoveAt(mem[t], i)) \cup {mem[t][i]}
  BY <1>1, EntriesRemoveAt
<1>4. /\ MemoryOK(mem') /\ mem'[t] = RemoveAt(mem[t], i)
      /\ \A u \in RowTables : u # t => mem'[u] = mem[u]
      /\ \A p \in Preferences : mem'[p] = mem[p]
  BY <1>1, <1>2, <1>3, TableChanges
<1>5. Objects(mem[t]) \subseteq Objects(mem'[t]) \cup removed'
  BY <1>2, <1>3, <1>4, ObjectsEntries
<1>6. \A u \in RowTables : Objects(mem[u]) \subseteq Objects(mem'[u]) \cup removed'
  BY <1>4, <1>5
<1>7. persisting' \in Seq(SaveRecord) /\ jobs' \in Seq(SaveRecord)
  BY <1>2 DEF PersistInv, PersistTypeOK
<1> QED
  BY <1>1, <1>2, <1>4, <1>6, <1>7, RowsOnly

\* InitiateTransaction saves the transaction and the accounts it has in memory.
LEMMA DebitKeeps ==
    ASSUME PersistInv, Debit
    PROVE  PersistInv'
<1> DEFINE first == [mem["accounts"][1] EXCEPT !.ver = @ - 1]
           accounts == [mem["accounts"] EXCEPT ![1] = first]
           txn == NewRow
           a == <<Save("transactions", txn)>>
           b == [i \in DOMAIN accounts |-> Save("accounts", accounts[i])]
           c == <<Save("answer", txn)>>
<1>1. /\ ops \in Nat /\ MemoryOK(mem) /\ jobs \in Seq(SaveRecord)
      /\ mem["accounts"] \in Seq(Row) /\ mem["transactions"] \in Seq(Row)
      /\ "accounts" \in RowTables /\ "transactions" \in RowTables
  BY DEF PersistInv, PersistTypeOK, MemoryOK, RowTables
<1>2. /\ mem' = [mem EXCEPT !["accounts"] = accounts,
                            !["transactions"] = Append(mem["transactions"], txn)]
      /\ persisting' = (a \o b) \o c
      /\ mem["accounts"] # << >>
      /\ who # "none" /\ ops' = ops + 1
      /\ UNCHANGED <<running, who, db, wanted, spoiled, saved, unread, removed, jobs>>
  BY DEF Debit, Known, Operating, SaveTransactionToDB, SaveAccountToDB
<1>3. 1 \in DOMAIN mem["accounts"] /\ mem["accounts"][1] \in Row
  BY <1>1, <1>2
<1>4. first \in Row /\ first.obj = mem["accounts"][1].obj
  BY <1>3 DEF Row
<1>5. accounts \in Seq(Row) /\ Objects(accounts) = Objects(mem["accounts"])
  BY <1>1, <1>3, <1>4, RowChanges
<1>6. txn \in Row
  BY <1>1 DEF NewRow, Row
<1> HIDE DEF first, accounts, txn
<1>7. /\ Append(mem["transactions"], txn) \in Seq(Row)
      /\ ToSet(Append(mem["transactions"], txn)) = ToSet(mem["transactions"]) \cup {txn}
  BY <1>1, <1>6, EntriesAppend
<1>8. /\ mem' = [u \in RowTables \cup Preferences |-> mem'[u]]
      /\ mem'["accounts"] = accounts
      /\ mem'["transactions"] = Append(mem["transactions"], txn)
      /\ \A u \in RowTables \cup Preferences :
            u \notin {"accounts", "transactions"} => mem'[u] = mem[u]
  BY <1>1, <1>2 DEF MemoryOK
<1>9. \A p \in Preferences : p \notin {"accounts", "transactions"} /\ mem'[p] = mem[p]
  BY <1>8 DEF Preferences
<1>10. MemoryOK(mem')
  BY <1>1, <1>5, <1>7, <1>8, <1>9 DEF MemoryOK
<1>11. /\ Objects(mem["transactions"]) \subseteq Objects(mem'["transactions"])
       /\ txn.obj \in Objects(mem'["transactions"])
  BY <1>7, <1>8, ObjectsEntries
<1>12. \A u \in RowTables : Objects(mem[u]) \subseteq Objects(mem'[u]) \cup removed'
  BY <1>5, <1>8, <1>11
<1>13. /\ a \in Seq(SaveRecord) /\ b \in Seq(SaveRecord) /\ c \in Seq(SaveRecord)
       /\ Len(a) = 1 /\ a[1] = Save("transactions", txn)
       /\ Len(c) = 1 /\ c[1] = Save("answer", txn)
       /\ \A i \in DOMAIN b : i \in DOMAIN accounts /\ b[i] = Save("accounts", accounts[i])
  <2>1. /\ Save("transactions", txn) \in SaveRecord
        /\ Save("answer", txn) \in SaveRecord
    BY <1>1, <1>6, SaveType DEF AllTables
  <2>2. \A i \in DOMAIN accounts : Save("accounts", accounts[i]) \in SaveRecord
    <3>1. \A i \in DOMAIN accounts : accounts[i] \in Row
      BY <1>5
    <3> QED
      BY <1>1, <3>1, SaveType DEF AllTables
  <2>3. DOMAIN accounts = 1..Len(accounts) /\ Len(accounts) \in Nat
    BY <1>5
  <2>4. b \in Seq(SaveRecord)
    BY <2>2, <2>3
  <2> QED
    BY <2>1, <2>4
<1> HIDE DEF a, b, c
<1>14. /\ persisting' \in Seq(SaveRecord)
       /\ \A s \in ToSet(persisting') : s \in ToSet(a) \cup ToSet(b) \cup ToSet(c)
  <2> DEFINE ab == a \o b
  <2>1. /\ ab \in Seq(SaveRecord) /\ Len(ab) = Len(a) + Len(b)
        /\ \A i \in 1..(Len(a) + Len(b)) :
              ab[i] = IF i <= Len(a) THEN a[i] ELSE b[i - Len(a)]
    BY <1>13, ConcatProperties
  <2>2. \A i \in DOMAIN ab : \/ i \in DOMAIN a /\ ab[i] = a[i]
                             \/ i - Len(a) \in DOMAIN b /\ ab[i] = b[i - Len(a)]
    BY <1>13, <2>1
  <2>3. \A i \in DOMAIN ab : ab[i] \in ToSet(a) \cup ToSet(b)
    BY <2>2 DEF ToSet
  <2> HIDE DEF ab
  <2>4. ab \in Seq(SaveRecord) /\ c \in Seq(SaveRecord)
    BY <1>13, <2>1
  <2>5. /\ ab \o c \in Seq(SaveRecord) /\ Len(ab \o c) = Len(ab) + Len(c)
        /\ \A i \in 1..(Len(ab) + Len(c)) :
              (ab \o c)[i] = IF i <= Len(ab) THEN ab[i] ELSE c[i - Len(ab)]
    BY <2>4, ConcatProperties
  <2>6. \A i \in DOMAIN (ab \o c) : \/ i \in DOMAIN ab /\ (ab \o c)[i] = ab[i]
                                    \/ i - Len(ab) \in DOMAIN c
                                       /\ (ab \o c)[i] = c[i - Len(ab)]
    BY <1>13, <2>1, <2>5
  <2>7. \A i \in DOMAIN (ab \o c) : (ab \o c)[i] \in ToSet(a) \cup ToSet(b) \cup ToSet(c)
    BY <2>3, <2>6 DEF ToSet
  <2>8. persisting' = ab \o c
    BY <1>2 DEF ab
  <2> QED
    BY <2>5, <2>7, <2>8 DEF ToSet
<1>15. \A s \in ToSet(persisting') :
          /\ s.table \in {"transactions", "accounts", "answer"}
          /\ s.table \in RowTables => s.row.obj \in Objects(mem'[s.table])
  <2>1. ASSUME NEW s \in ToSet(a)
        PROVE  s.table = "transactions" /\ s.row.obj \in Objects(mem'["transactions"])
    <3>1. s = Save("transactions", txn)
      BY <1>13, <2>1 DEF ToSet
    <3> QED
      BY <1>11, <3>1 DEF Save
  <2>2. ASSUME NEW s \in ToSet(b)
        PROVE  s.table = "accounts" /\ s.row.obj \in Objects(mem'["accounts"])
    <3>1. PICK i \in DOMAIN accounts : s = Save("accounts", accounts[i])
      BY <1>13, <2>2 DEF ToSet
    <3>2. accounts[i].obj \in Objects(mem'["accounts"])
      BY <1>8 DEF Objects
    <3> QED
      BY <3>1, <3>2 DEF Save
  <2>3. ASSUME NEW s \in ToSet(c)
        PROVE  s.table = "answer"
    <3>1. s = Save("answer", txn)
      BY <1>13, <2>3 DEF ToSet
    <3> QED
      BY <3>1 DEF Save
  <2>4. "answer" \notin RowTables
    BY DEF RowTables
  <2> QED
    BY <1>14, <2>1, <2>2, <2>3, <2>4
<1>16. jobs' \in Seq(SaveRecord)
  BY <1>1, <1>2
<1>17. ops' \in Nat
  BY <1>1, <1>2
<1>18. /\ removed \subseteq removed' /\ ToSet(jobs) \subseteq ToSet(jobs')
       /\ ToSet(jobs') \ ToSet(jobs) = {}
  BY <1>2
<1>19. \A p \in Preferences : mem'[p] = mem[p]
  BY <1>9
<1> QED
  BY <1>2, <1>10, <1>12, <1>14, <1>15, <1>16, <1>17, <1>18, <1>19, RowsOnly

-----------------------------------------------------------------------------
(***************************************************************************)
(* Saves.                                                                  *)
(***************************************************************************)
\* The statements of infra/repo: rows are added, a choice is replaced.
LEMMA StoredProperties ==
    ASSUME PersistInv, NEW s \in SaveRecord, s.table # "answer"
    PROVE  /\ DatabaseOK(Stored(s))
           /\ \A t \in Preferences :
                 Stored(s)[t] = IF Executes(s) /\ s.table = t THEN {s.choice} ELSE db[t]
           /\ s.table # "users" => Stored(s)["users"] = db["users"]
           /\ SavedObjects(s) \in [RowTables -> SUBSET Nat]
           /\ \A t \in RowTables :
                 /\ SavedObjects(s)[t] \subseteq Objects(Stored(s)[t])
                 /\ \A o \in SavedObjects(s)[t] :
                       o \in saved[t] \/ (t = s.table /\ o = s.row.obj)
<1>1. /\ DatabaseOK(db) /\ saved \in [RowTables -> SUBSET Nat]
      /\ \A t \in RowTables : saved[t] \subseteq Objects(db[t])
      /\ s.table \in AllTables /\ s.row \in Row /\ s.row.obj \in Nat /\ s.choice \in BOOLEAN
  BY DEF PersistInv, PersistTypeOK, RecordInv, SavedInDatabase, SaveRecord, Row
<1>2. "users" \notin RowTables \cup Preferences /\ RowTables \cap Preferences = {}
  BY DEF RowTables, Preferences
<1>3. CASE ~Executes(s)
  BY <1>1, <1>3 DEF Stored, SavedObjects
<1>4. CASE Executes(s) /\ s.table = "users"
  <2>1. /\ Stored(s) = [db EXCEPT !["users"] = TRUE]
        /\ SavedObjects(s) = saved
    BY <1>2, <1>4 DEF Stored, SavedObjects
  <2>2. /\ Stored(s) = [t \in AllTables |-> Stored(s)[t]]
        /\ \A t \in AllTables : t # "users" => Stored(s)[t] = db[t]
        /\ Stored(s)["users"] \in BOOLEAN
    <3>1. db = [t \in AllTables |-> db[t]] /\ "users" \in AllTables
      BY <1>1 DEF DatabaseOK, AllTables
    <3> QED
      BY <2>1, <3>1, Zenon
  <2>3. \A t \in RowTables \cup Preferences : Stored(s)[t] = db[t]
    BY <1>2, <2>2 DEF AllTables
  <2>4. DatabaseOK(Stored(s))
    BY <1>1, <2>2, <2>3 DEF DatabaseOK
  <2> QED
    BY <1>1, <1>2, <1>4, <2>1, <2>3, <2>4
<1>5. CASE Executes(s) /\ s.table \in Preferences
  <2>1. /\ Stored(s) = [db EXCEPT ![s.table] = {s.choice}]
        /\ SavedObjects(s) = saved
    BY <1>2, <1>5 DEF Stored, SavedObjects, Upsert
  <2>2. /\ Stored(s) = [t \in AllTables |-> Stored(s)[t]]
        /\ Stored(s)[s.table] = {s.choice}
        /\ \A t \in AllTables : t # s.table => Stored(s)[t] = db[t]
    BY <1>1, <2>1 DEF DatabaseOK
  <2>3. DatabaseOK(Stored(s))
    BY <1>1, <1>2, <1>5, <2>2 DEF DatabaseOK, AllTables
  <2> QED
    BY <1>1, <1>2, <1>5, <2>1, <2>2, <2>3 DEF AllTables
<1>6. CASE Executes(s) /\ s.table \in RowTables
  <2> DEFINE rows == Append(db[s.table], s.row)
  <2>1. /\ Stored(s) = [db EXCEPT ![s.table] = rows]
        /\ SavedObjects(s) = [saved EXCEPT ![s.table] = saved[s.table] \cup {s.row.obj}]
    BY <1>2, <1>6 DEF Stored, SavedObjects
  <2>2. rows \in Seq(Row) /\ ToSet(rows) = ToSet(db[s.table]) \cup {s.row}
    <3>1. db[s.table] \in Seq(Row)
      BY <1>1, <1>6 DEF DatabaseOK
    <3> QED
      BY <1>1, <3>1, EntriesAppend
  <2> HIDE DEF rows
  <2>3. /\ Stored(s) = [t \in AllTables |-> Stored(s)[t]]
        /\ Stored(s)[s.table] = rows
        /\ \A t \in AllTables : t # s.table => Stored(s)[t] = db[t]
    BY <1>1, <2>1 DEF DatabaseOK
  <2>4. DatabaseOK(Stored(s))
    BY <1>1, <1>2, <1>6, <2>2, <2>3 DEF DatabaseOK, AllTables
  <2>5. Objects(rows) = Objects(db[s.table]) \cup {s.row.obj}
    BY <2>2, ObjectsEntries
  <2>6. /\ SavedObjects(s) \in [RowTables -> SUBSET Nat]
        /\ SavedObjects(s)[s.table] = saved[s.table] \cup {s.row.obj}
        /\ \A t \in RowTables : t # s.table => SavedObjects(s)[t] = saved[t]
    BY <1>1, <1>6, <2>1
  <2>7. \A t \in RowTables :
           /\ SavedObjects(s)[t] \subseteq Objects(Stored(s)[t])
           /\ \A o \in SavedObjects(s)[t] :
                 o \in saved[t] \/ (t = s.table /\ o = s.row.obj)
    BY <1>1, <2>3, <2>5, <2>6 DEF AllTables
  <2> QED
    BY <1>2, <1>6, <2>3, <2>4, <2>6, <2>7 DEF AllTables
<1> QED
  BY <1>1, <1>3, <1>4, <1>5, <1>6 DEF AllTables

\* A save that someone holds is executed: the records.
LEMMA SaveKeepsRecords ==
    ASSUME PersistInv, NEW s \in SaveRecord, s.table # "answer", Held(s),
           UNCHANGED <<running, who, mem, removed, unread>>,
           db' = Stored(s), saved' = SavedObjects(s),
           ToSet(jobs') \subseteq ToSet(jobs),
           ToSet(persisting') \subseteq ToSet(persisting)
    PROVE  RecordInv'
<1>1. /\ \A t \in RowTables :
            /\ saved'[t] \subseteq Objects(db'[t])
            /\ \A o \in saved'[t] : o \in saved[t] \/ (t = s.table /\ o = s.row.obj)
  BY StoredProperties
<1>2. SavedInDatabase'
  BY <1>1 DEF SavedInDatabase
<1>3. SavesHeld'
  BY DEF PersistInv, RecordInv, SavesHeld, Held
<1>4. SavedRecordsRestored'
  <2> SUFFICES ASSUME running, who = "uuid", NEW t \in RowTables \ unread,
                      NEW o \in saved'[t] \ removed
               PROVE  o \in Objects(mem[t])
    BY DEF SavedRecordsRestored, Objects
  <2>1. CASE o \in saved[t]
    BY <2>1 DEF PersistInv, RecordInv, SavedRecordsRestored, Objects
  <2>2. CASE t = s.table /\ o = s.row.obj
    BY <2>2 DEF Held
  <2> QED
    BY <1>1, <2>1, <2>2
<1> QED
  BY <1>2, <1>3, <1>4 DEF RecordInv

LEMMA RunJobKeeps ==
    ASSUME PersistInv, NEW i \in DOMAIN jobs, RunJob(i)
    PROVE  PersistInv'
<1> DEFINE s == jobs[i]
<1>1. /\ jobs \in Seq(SaveRecord) /\ persisting \in Seq(SaveRecord) /\ s \in SaveRecord
      /\ s \in ToSet(jobs) /\ jobs # << >> /\ who # "none" /\ Held(s)
      /\ s.table # "answer"
  BY DEF PersistInv, PersistTypeOK, ToSet, NothingPending, PaymentSaves, RecordInv, SavesHeld
<1>2. /\ db' = Stored(s) /\ saved' = SavedObjects(s) /\ jobs' = RemoveAt(jobs, i)
      /\ spoiled' = IF Executes(s) THEN spoiled ELSE spoiled \cup ({s.table} \cap Preferences)
      /\ UNCHANGED <<running, who, mem, persisting, wanted, removed, unread, ops>>
  BY DEF RunJob
<1>3. /\ jobs' \in Seq(SaveRecord) /\ ToSet(jobs') \subseteq ToSet(jobs)
      /\ ToSet(jobs) \subseteq ToSet(jobs') \cup {s}
  BY <1>1, <1>2, EntriesRemoveAt
<1> HIDE DEF s
<1>4. /\ DatabaseOK(db') /\ saved' \in [RowTables -> SUBSET Nat]
      /\ \A t \in Preferences :
            db'[t] = IF Executes(s) /\ s.table = t THEN {s.choice} ELSE db[t]
      /\ s.table # "users" => db'["users"] = db["users"]
  BY <1>1, <1>2, StoredProperties DEF s
<1>5. PersistTypeOK' /\ NothingPending' /\ PaymentSaves'
  BY <1>1, <1>2, <1>3, <1>4
  DEF PersistInv, PersistTypeOK, NothingPending, PaymentSaves
<1>6. RecordInv'
  BY <1>1, <1>2, <1>3, SaveKeepsRecords DEF s
<1>7. /\ Pending("freeze")' \subseteq Pending("freeze")
      /\ Pending("freeze") \subseteq Pending("freeze")' \cup {s}
      /\ Pending("consent")' \subseteq Pending("consent")
      /\ Pending("consent") \subseteq Pending("consent")' \cup {s}
      /\ s.table # "freeze" => Pending("freeze")' = Pending("freeze")
      /\ s.table # "consent" => Pending("consent")' = Pending("consent")
      /\ s.table = "freeze" => s \in Pending("freeze")
      /\ s.table = "consent" => s \in Pending("consent")
  BY <1>1, <1>3 DEF Pending
<1>8. "freeze" \in Preferences /\ "consent" \in Preferences
  BY DEF Preferences
<1>9. FreezeUnderWay'
  <2>1. CASE s.table # "freeze"
    BY <1>2, <1>4, <1>7, <1>8, <2>1 DEF PersistInv, ChoiceInv, FreezeUnderWay
  <2>2. CASE s.table = "freeze" /\ Executes(s)
    <3> SUFFICES ASSUME wanted.freeze, "freeze" \notin spoiled
                 PROVE  (\A q \in Pending("freeze") : q.choice) /\ TRUE \in db'["freeze"]
      BY <1>2, <1>7, <2>2 DEF FreezeUnderWay
    <3>1. \A q \in Pending("freeze") : q.choice
      BY DEF PersistInv, ChoiceInv, FreezeUnderWay
    <3>2. s.choice /\ s.choice \in BOOLEAN
      BY <1>1, <1>7, <2>2, <3>1 DEF SaveRecord
    <3>3. db'["freeze"] = {s.choice}
      BY <1>4, <1>8, <2>2
    <3>4. s.choice = TRUE
      BY <3>2, Zenon
    <3> QED
      BY <3>1, <3>3, <3>4
  <2>3. CASE s.table = "freeze" /\ ~Executes(s)
    BY <1>2, <1>8, <2>3 DEF FreezeUnderWay
  <2> QED
    BY <2>1, <2>2, <2>3
<1>10. ConsentUnderWay'
  <2>1. CASE s.table # "consent"
    BY <1>1, <1>2, <1>4, <1>7, <1>8, <2>1 DEF PersistInv, ChoiceInv, ConsentUnderWay
  <2>2. CASE s.table = "consent" /\ Executes(s)
    <3> SUFFICES ASSUME "consent" \notin spoiled
                 PROVE  /\ \A q \in Pending("consent") : q.choice = wanted.consent
                        /\ TRUE \in db'["consent"] <=> wanted.consent
      BY <1>2, <1>7, <2>2 DEF ConsentUnderWay
    <3>1. \A q \in Pending("consent") : q.choice = wanted.consent
      BY <1>1 DEF PersistInv, ChoiceInv, ConsentUnderWay
    <3>2. s.choice = wanted.consent /\ wanted.consent \in BOOLEAN
      BY <1>1, <1>7, <2>2, <3>1 DEF PersistInv, PersistTypeOK
    <3>3. db'["consent"] = {wanted.consent}
      BY <1>4, <1>8, <2>2, <3>2
    <3>4. TRUE \in db'["consent"] <=> wanted.consent
      BY <3>2, <3>3, Zenon
    <3> QED
      BY <3>1, <3>4
  <2>3. CASE s.table = "consent" /\ ~Executes(s)
    BY <1>2, <1>8, <2>3 DEF ConsentUnderWay
  <2> QED
    BY <2>1, <2>2, <2>3
<1>11. ChoicesSurvive'
  BY <1>2 DEF PersistInv, ChoiceInv, ChoicesSurvive
<1> QED
  BY <1>5, <1>6, <1>9, <1>10, <1>11 DEF PersistInv, ChoiceInv

LEMMA PersistNextKeeps ==
    ASSUME PersistInv, NEW rejected \in BOOLEAN, PersistNext(rejected)
    PROVE  PersistInv'
<1> DEFINE s == Head(persisting)
<1>1. /\ persisting \in Seq(SaveRecord) /\ persisting # << >> /\ s.table # "answer"
      /\ persisting' = Tail(persisting)
      /\ \/ UNCHANGED <<db, saved>>
         \/ db' = Stored(s) /\ saved' = SavedObjects(s)
      /\ UNCHANGED <<running, who, mem, jobs, wanted, spoiled, removed, unread, ops>>
  BY DEF PersistNext, PersistInv, PersistTypeOK
<1>2. /\ persisting' \in Seq(SaveRecord) /\ s \in ToSet(persisting) /\ s \in SaveRecord
      /\ ToSet(persisting') \subseteq ToSet(persisting)
  BY <1>1, EntriesTail, EntriesType
<1> HIDE DEF s
<1>3. Held(s) /\ s.table \in {"transactions", "accounts"}
  BY <1>1, <1>2 DEF PersistInv, RecordInv, SavesHeld, PaymentSaves
<1>4. who # "none"
  BY <1>1 DEF PersistInv, NothingPending
<1>5. /\ DatabaseOK(db') /\ saved' \in [RowTables -> SUBSET Nat]
      /\ \A t \in Preferences \cup {"users"} : db'[t] = db[t]
  <2>1. CASE UNCHANGED <<db, saved>>
    BY <2>1 DEF PersistInv, PersistTypeOK
  <2>2. CASE db' = Stored(s) /\ saved' = SavedObjects(s)
    <3>1. s.table \notin Preferences \cup {"users"}
      BY <1>3 DEF Preferences
    <3> QED
      BY <1>1, <1>2, <2>2, <3>1, StoredProperties
  <2> QED
    BY <1>1, <2>1, <2>2
<1>6. PersistTypeOK' /\ NothingPending' /\ PaymentSaves'
  BY <1>1, <1>2, <1>4, <1>5
  DEF PersistInv, PersistTypeOK, NothingPending, PaymentSaves
<1>7. RecordInv'
  <2>1. CASE UNCHANGED <<db, saved>>
    <3>1. SavedInDatabase' /\ SavedRecordsRestored'
      BY <1>1, <2>1 DEF PersistInv, RecordInv, SavedInDatabase, SavedRecordsRestored
    <3>2. SavesHeld'
      BY <1>1, <1>2 DEF PersistInv, RecordInv, SavesHeld, Held
    <3> QED
      BY <3>1, <3>2 DEF RecordInv
  <2>2. CASE db' = Stored(s) /\ saved' = SavedObjects(s)
    BY <1>1, <1>2, <1>3, <2>2, SaveKeepsRecords
  <2> QED
    BY <1>1, <2>1, <2>2
<1>8. db'["freeze"] = db["freeze"] /\ db'["consent"] = db["consent"] /\ db'["users"] = db["users"]
  BY <1>5 DEF Preferences
<1>9. ChoiceInv'
  BY <1>1, <1>8
  DEF PersistInv, ChoiceInv, FreezeUnderWay, ConsentUnderWay, ChoicesSurvive, Pending
<1> QED
  BY <1>6, <1>7, <1>9 DEF PersistInv

-----------------------------------------------------------------------------
(***************************************************************************)
(* Choices of the customer.                                                *)
(***************************************************************************)
\* The records, when only preferences change and at most saves of them start.
LEMMA RecordsUntouched ==
    ASSUME PersistInv,
           UNCHANGED <<running, who, db, saved, removed, unread, persisting>>,
           \A t \in RowTables : mem'[t] = mem[t],
           \A s \in ToSet(jobs') \ ToSet(jobs) : s.table \notin RowTables
    PROVE  RecordInv'
<1>1. SavedInDatabase' /\ SavedRecordsRestored'
  BY DEF PersistInv, RecordInv, SavedInDatabase, SavedRecordsRestored
<1>2. SavesHeld'
  BY DEF PersistInv, RecordInv, SavesHeld, Held
<1> QED
  BY <1>1, <1>2 DEF RecordInv

\* The memory after a preference has changed.
LEMMA PreferenceChanges ==
    ASSUME MemoryOK(mem), NEW t \in Preferences, NEW v \in BOOLEAN,
           mem' = [mem EXCEPT ![t] = v]
    PROVE  /\ MemoryOK(mem')
           /\ mem'[t] = v
           /\ \A u \in RowTables : mem'[u] = mem[u]
           /\ \A p \in Preferences : p # t => mem'[p] = mem[p]
<1>1. /\ mem' = [u \in RowTables \cup Preferences |-> mem'[u]]
      /\ mem'[t] = v
      /\ \A u \in RowTables \cup Preferences : u # t => mem'[u] = mem[u]
  BY DEF MemoryOK
<1>2. t \notin RowTables
  BY DEF RowTables, Preferences
<1> QED
  BY <1>1, <1>2 DEF MemoryOK

LEMMA SaveChoiceType ==
    ASSUME PersistInv, NEW t \in Preferences, NEW v \in BOOLEAN
    PROVE  /\ SaveChoice(t, v) \in SaveRecord
           /\ SaveChoice(t, v).table = t /\ SaveChoice(t, v).choice = v
<1>1. NoRow \in Row
  BY DEF NoRow, Row
<1> QED
  BY <1>1 DEF SaveChoice, SaveRecord, PersistInv, PersistTypeOK, AllTables

LEMMA OvertakenMeans ==
    ASSUME NEW t PROVE Overtaken(t) <=> Pending(t) # {}
BY DEF Overtaken, Pending, ToSet

LEMMA FreezeKeeps ==
    ASSUME PersistInv, NEW testMode \in BOOLEAN, EmergencyFreeze(testMode)
    PROVE  PersistInv'
<1> DEFINE frozen == mem.freeze \/ ~testMode
           s == SaveChoice("freeze", frozen)
<1>1. /\ ops \in Nat /\ MemoryOK(mem) /\ jobs \in Seq(SaveRecord) /\ frozen \in BOOLEAN
      /\ "freeze" \in Preferences /\ "consent" \in Preferences
      /\ "freeze" \notin RowTables
  BY DEF PersistInv, PersistTypeOK, MemoryOK, Preferences, RowTables
<1>2. /\ mem' = [mem EXCEPT !["freeze"] = frozen]
      /\ jobs' = Append(jobs, s)
      /\ wanted' = IF testMode THEN wanted ELSE [wanted EXCEPT !.freeze = TRUE]
      /\ spoiled' = (IF testMode THEN spoiled ELSE spoiled \ {"freeze"})
                    \cup (IF Overtaken("freeze") THEN {"freeze"} ELSE {})
      /\ who # "none" /\ ops' = ops + 1
      /\ UNCHANGED <<running, who, db, saved, unread, removed, persisting>>
  BY DEF EmergencyFreeze, Known, Operating, SaveFreezeStateToDB
<1>3. s \in SaveRecord /\ s.table = "freeze" /\ s.choice = frozen
  BY <1>1, SaveChoiceType
<1>4. /\ MemoryOK(mem') /\ mem'["freeze"] = frozen /\ mem'["consent"] = mem["consent"]
      /\ \A u \in RowTables : mem'[u] = mem[u]
  BY <1>1, <1>2, PreferenceChanges
<1>5. frozen <=> mem["freeze"] \/ ~testMode
  OBVIOUS
<1> HIDE DEF s, frozen
<1>6. jobs' \in Seq(SaveRecord) /\ ToSet(jobs') = ToSet(jobs) \cup {s}
  BY <1>1, <1>2, <1>3, EntriesAppend
<1>7. wanted' \in [freeze : BOOLEAN, consent : BOOLEAN] /\ wanted'.consent = wanted.consent
  <2>1. wanted \in [freeze : BOOLEAN, consent : BOOLEAN]
    BY DEF PersistInv, PersistTypeOK
  <2>2. CASE testMode
    BY <1>2, <2>1, <2>2
  <2>3. CASE ~testMode
    <3>1. wanted' = [wanted EXCEPT !.freeze = TRUE]
      BY <1>2, <2>3
    <3> QED
      BY <2>1, <3>1, Zenon
  <2> QED
    BY <2>2, <2>3
<1>8. PersistTypeOK' /\ NothingPending' /\ PaymentSaves'
  BY <1>1, <1>2, <1>3, <1>4, <1>6, <1>7
  DEF PersistInv, PersistTypeOK, NothingPending, PaymentSaves
<1>9. RecordInv'
  BY <1>1, <1>2, <1>3, <1>4, <1>6, RecordsUntouched
<1>10. /\ Pending("freeze")' = Pending("freeze") \cup {s}
       /\ Pending("consent")' = Pending("consent")
  BY <1>3, <1>6 DEF Pending
<1>11. ("consent" \notin spoiled') => ("consent" \notin spoiled)
  BY <1>2
<1>12. ASSUME wanted'.freeze, "freeze" \notin spoiled'
       PROVE  frozen /\ Pending("freeze") = {}
  <2>1. Pending("freeze") = {}
    BY <1>2, <1>12, OvertakenMeans
  <2>2. CASE ~testMode
    BY <1>5, <2>1, <2>2
  <2>3. CASE testMode
    <3>1. wanted.freeze /\ "freeze" \notin spoiled
      BY <1>2, <1>12, <2>3
    <3>2. running
      BY <1>2 DEF PersistInv, NothingPending
    <3> QED
      BY <1>2, <1>5, <2>1, <3>1, <3>2 DEF PersistInv, ChoiceInv, ChoicesSurvive
  <2> QED
    BY <2>2, <2>3
<1>13. FreezeUnderWay'
  BY <1>3, <1>10, <1>12 DEF FreezeUnderWay
<1>14. ConsentUnderWay'
  BY <1>2, <1>7, <1>10, <1>11 DEF PersistInv, ChoiceInv, ConsentUnderWay
<1>15. ChoicesSurvive'
  BY <1>2, <1>4, <1>7, <1>11, <1>12 DEF PersistInv, ChoiceInv, ChoicesSurvive
<1> QED
  BY <1>8, <1>9, <1>13, <1>14, <1>15 DEF PersistInv, ChoiceInv

LEMMA UnfreezeKeeps ==
    ASSUME PersistInv, UnfreezeAccount
    PROVE  PersistInv'
<1>1. /\ ops \in Nat /\ MemoryOK(mem) /\ "freeze" \in Preferences /\ "consent" \in Preferences
      /\ wanted \in [freeze : BOOLEAN, consent : BOOLEAN]
  BY DEF PersistInv, PersistTypeOK, Preferences
<1>2. /\ mem' = [mem EXCEPT !["freeze"] = FALSE]
      /\ wanted' = [wanted EXCEPT !.freeze = FALSE]
      /\ who # "none" /\ ops' = ops + 1
      /\ UNCHANGED <<running, who, db, saved, unread, removed, persisting, jobs, spoiled>>
  BY DEF UnfreezeAccount, Known, Operating
<1>3. /\ MemoryOK(mem') /\ mem'["consent"] = mem["consent"]
      /\ \A u \in RowTables : mem'[u] = mem[u]
  BY <1>1, <1>2, PreferenceChanges
<1>4. /\ wanted' \in [freeze : BOOLEAN, consent : BOOLEAN]
      /\ wanted'.consent = wanted.consent /\ ~wanted'.freeze
  BY <1>1, <1>2, Zenon
<1>5. PersistTypeOK' /\ NothingPending' /\ PaymentSaves'
  BY <1>1, <1>2, <1>3, <1>4 DEF PersistInv, PersistTypeOK, NothingPending, PaymentSaves
<1>6. RecordInv'
  BY <1>2, <1>3, RecordsUntouched
<1>7. FreezeUnderWay' /\ ConsentUnderWay'
  BY <1>2, <1>4 DEF PersistInv, ChoiceInv, FreezeUnderWay, ConsentUnderWay, Pending
<1>8. ChoicesSurvive'
  BY <1>2, <1>3, <1>4 DEF PersistInv, ChoiceInv, ChoicesSurvive
<1> QED
  BY <1>5, <1>6, <1>7, <1>8 DEF PersistInv, ChoiceInv

LEMMA ConsentKeeps ==
    ASSUME PersistInv, NEW granted \in BOOLEAN, ChooseConsent(granted)
    PROVE  PersistInv'
<1> DEFINE s == SaveChoice("consent", granted)
<1>1. /\ ops \in Nat /\ MemoryOK(mem) /\ jobs \in Seq(SaveRecord)
      /\ "freeze" \in Preferences /\ "consent" \in Preferences
      /\ "consent" \notin RowTables
      /\ wanted \in [freeze : BOOLEAN, consent : BOOLEAN]
  BY DEF PersistInv, PersistTypeOK, Preferences, RowTables
<1>2. /\ mem' = [mem EXCEPT !["consent"] = granted]
      /\ jobs' = Append(jobs, s)
      /\ wanted' = [wanted EXCEPT !.consent = granted]
      /\ spoiled' = (spoiled \ {"consent"})
                    \cup (IF Overtaken("consent") THEN {"consent"} ELSE {})
      /\ who # "none" /\ ops' = ops + 1
      /\ UNCHANGED <<running, who, db, saved, unread, removed, persisting>>
  BY DEF ChooseConsent, Known, Operating, SaveConsentToDB
<1>3. s \in SaveRecord /\ s.table = "consent" /\ s.choice = granted
  BY <1>1, SaveChoiceType
<1>4. /\ MemoryOK(mem') /\ mem'["consent"] = granted /\ mem'["freeze"] = mem["freeze"]
      /\ \A u \in RowTables : mem'[u] = mem[u]
  BY <1>1, <1>2, PreferenceChanges
<1> HIDE DEF s
<1>5. jobs' \in Seq(SaveRecord) /\ ToSet(jobs') = ToSet(jobs) \cup {s}
  BY <1>1, <1>2, <1>3, EntriesAppend
<1>6. /\ wanted' \in [freeze : BOOLEAN, consent : BOOLEAN]
      /\ wanted'.consent = granted /\ wanted'.freeze = wanted.freeze
  BY <1>1, <1>2
<1>7. PersistTypeOK' /\ NothingPending' /\ PaymentSaves'
  BY <1>1, <1>2, <1>3, <1>4, <1>5, <1>6
  DEF PersistInv, PersistTypeOK, NothingPending, PaymentSaves
<1>8. RecordInv'
  BY <1>1, <1>2, <1>3, <1>4, <1>5, RecordsUntouched
<1>9. /\ Pending("consent")' = Pending("consent") \cup {s}
      /\ Pending("freeze")' = Pending("freeze")
  BY <1>3, <1>5 DEF Pending
<1>10. "freeze" \notin spoiled' => "freeze" \notin spoiled
  BY <1>2
<1>11. FreezeUnderWay'
  BY <1>2, <1>6, <1>9, <1>10 DEF PersistInv, ChoiceInv, FreezeUnderWay
<1>12. "consent" \notin spoiled' => Pending("consent") = {}
  BY <1>2, OvertakenMeans
<1>13. ConsentUnderWay'
  BY <1>3, <1>6, <1>9, <1>12 DEF ConsentUnderWay
<1>14. ChoicesSurvive'
  BY <1>2, <1>4, <1>6, <1>10 DEF PersistInv, ChoiceInv, ChoicesSurvive
<1> QED
  BY <1>7, <1>8, <1>11, <1>13, <1>14 DEF PersistInv, ChoiceInv

-----------------------------------------------------------------------------
(***************************************************************************)
(* Registration, failures and restarts.                                    *)
(***************************************************************************)
LEMMA BlankMemory ==
    /\ MemoryOK(Blank)
    /\ \A t \in RowTables : Blank[t] = << >>
    /\ \A t \in Preferences : Blank[t] = FALSE
<1>1. << >> \in Seq(Row)
  OBVIOUS
<1>2. /\ \A t \in RowTables : Blank[t] = << >>
      /\ \A t \in Preferences : Blank[t] = FALSE
  BY DEF Blank, RowTables, Preferences
<1>3. Blank = [t \in RowTables \cup Preferences |-> Blank[t]]
  BY DEF Blank
<1> QED
  BY <1>1, <1>2, <1>3 DEF MemoryOK

LEMMA RegisterKeeps ==
    ASSUME PersistInv, RegisterCustomer
    PROVE  PersistInv'
<1> DEFINE account == [obj |-> ops + 1, ver |-> 2]
           job(t) == [as |-> "usr", table |-> t, row |-> account, choice |-> TRUE]
<1>1. ops \in Nat /\ jobs = << >> /\ persisting = << >> /\ account \in Row
      /\ DatabaseOK(db) /\ saved \in [RowTables -> SUBSET Nat]
  BY DEF RegisterCustomer, PersistInv, PersistTypeOK, NothingPending, Row
<1>2. /\ who' = "usr" /\ ops' = ops + 1 /\ spoiled' = {} /\ running
      /\ mem' = [Blank EXCEPT !["accounts"] = <<account>>, !["consent"] = TRUE]
      /\ jobs' = [i \in 1..3 |-> job(<<"users", "accounts", "consent">>[i])]
      /\ wanted' = [freeze |-> FALSE, consent |-> TRUE]
      /\ UNCHANGED <<running, db, saved, unread, removed, persisting>>
  BY DEF RegisterCustomer, Operating
<1>3. job("users") \in SaveRecord /\ job("accounts") \in SaveRecord /\ job("consent") \in SaveRecord
  <2>1. {"users", "accounts", "consent"} \subseteq AllTables
    BY DEF AllTables, RowTables, Preferences
  <2> QED
    BY <1>1, <2>1, Zenon DEF SaveRecord
<1>0. \A t : job(t).table = t /\ job(t).row = account /\ job(t).choice
  BY Zenon
<1> HIDE DEF job
<1>4. jobs' \in Seq(SaveRecord) /\ ToSet(jobs') = {job("users"), job("accounts"), job("consent")}
  <2>1. /\ DOMAIN jobs' = 1..3 /\ jobs'[1] = job("users") /\ jobs'[2] = job("accounts")
        /\ jobs'[3] = job("consent")
    BY <1>2
  <2>2. jobs' \in [1..3 -> SaveRecord]
    <3>1. \A i \in 1..3 : jobs'[i] \in SaveRecord
      BY <1>3, <2>1
    <3>2. jobs' = [i \in 1..3 |-> jobs'[i]]
      BY <1>2
    <3> QED
      BY <3>1, <3>2
  <2>3. jobs' \in Seq(SaveRecord)
    BY <2>2, SeqDef
  <2>4. 1..3 = {1, 2, 3}
    OBVIOUS
  <2> QED
    BY <2>1, <2>3, <2>4, Zenon DEF ToSet
<1>5. /\ mem' = [t \in RowTables \cup Preferences |-> mem'[t]]
      /\ mem'["accounts"] = <<account>> /\ mem'["consent"] = TRUE
      /\ \A t \in RowTables \cup Preferences :
            t \notin {"accounts", "consent"} => mem'[t] = Blank[t]
  <2>1. Blank = [t \in RowTables \cup Preferences |-> Blank[t]]
    BY BlankMemory DEF MemoryOK
  <2>2. "accounts" \in RowTables \cup Preferences /\ "consent" \in RowTables \cup Preferences
    BY DEF RowTables, Preferences
  <2>3. "accounts" # "consent"
    OBVIOUS
  <2> DEFINE b == Blank  a == <<account>>
  <2> HIDE DEF b, a
  <2> QED
    BY <1>2, <2>1, <2>2, <2>3, Zenon DEF a
<1>6. MemoryOK(mem')
  <2>1. <<account>> \in Seq(Row)
    BY <1>1
  <2>2. \A t \in RowTables : mem'[t] \in Seq(Row)
    BY <1>5, <2>1, BlankMemory DEF RowTables, Preferences, MemoryOK
  <2>3. \A t \in Preferences : mem'[t] \in BOOLEAN
    <3>1. mem'["consent"] \in BOOLEAN
      BY <1>5, Zenon
    <3> QED
      BY <1>5, <3>1, BlankMemory DEF RowTables, Preferences
  <2> QED
    BY <1>5, <2>2, <2>3 DEF MemoryOK
<1>7. wanted' \in [freeze : BOOLEAN, consent : BOOLEAN] /\ wanted'.consent /\ ~wanted'.freeze
  BY <1>2, Zenon
<1>8. \A s \in ToSet(jobs') :
         s.table \in {"users", "accounts", "consent"} /\ s.row = account /\ s.choice
  BY <1>0, <1>4
<1>9. \E s \in ToSet(jobs') : s.table = "consent"
  BY <1>0, <1>4
<1>10. PersistTypeOK' /\ NothingPending' /\ PaymentSaves'
  <2>1. ToSet(persisting') = {}
    BY <1>1, <1>2, NoEntries
  <2>2. << >> \in Seq(SaveRecord)
    OBVIOUS
  <2>3. PersistTypeOK'
    BY <1>1, <1>2, <1>4, <1>6, <1>7, <2>2 DEF PersistTypeOK
  <2> QED
    BY <1>2, <1>8, <2>1, <2>3 DEF NothingPending, PaymentSaves
<1>11. ChoiceInv'
  <2>1. FreezeUnderWay'
    BY <1>7 DEF FreezeUnderWay
  <2>2. Pending("consent")' # {}
    BY <1>9 DEF Pending
  <2>3. \A s \in Pending("consent")' : s.choice = wanted'.consent
    <3>1. \A s \in Pending("consent")' : s.choice /\ s.choice \in BOOLEAN
      BY <1>4, <1>8, EntriesType DEF Pending, SaveRecord
    <3> QED
      BY <1>7, <3>1, Zenon
  <2>4. ConsentUnderWay'
    BY <2>2, <2>3 DEF ConsentUnderWay
  <2>5. ChoicesSurvive'
    <3>1. mem'["consent"] = wanted'.consent
      BY <1>2, <1>5
    <3> QED
      BY <1>7, <3>1 DEF ChoicesSurvive
  <2> QED
    BY <2>1, <2>4, <2>5 DEF ChoiceInv
<1>12. RecordInv'
  <2>1. SavedInDatabase' /\ SavedRecordsRestored'
    BY <1>2 DEF PersistInv, RecordInv, SavedInDatabase, SavedRecordsRestored
  <2>2. account.obj \in Objects(mem'["accounts"])
    <3>1. 1 \in DOMAIN mem'["accounts"] /\ mem'["accounts"][1] = account
      BY <1>5
    <3> QED
      BY <3>1, Zenon DEF Objects
  <2>3. SavesHeld'
    <3>1. ToSet(persisting') = {}
      BY <1>1, <1>2, NoEntries
    <3> QED
      BY <1>8, <2>2, <3>1 DEF SavesHeld, Held, RowTables
  <2> QED
    BY <2>1, <2>3 DEF RecordInv
<1> QED
  BY <1>10, <1>11, <1>12 DEF PersistInv

LEMMA AcknowledgeKeeps ==
    ASSUME PersistInv, Acknowledge
    PROVE  PersistInv'
<1>1. /\ persisting' = << >>
      /\ UNCHANGED <<running, who, mem, db, jobs, ops, wanted, spoiled, saved, removed, unread>>
  BY DEF Acknowledge
<1>2. ToSet(persisting') = {} /\ persisting' \in Seq(SaveRecord)
  BY <1>1, NoEntries
<1>3. PersistTypeOK' /\ NothingPending' /\ PaymentSaves'
  BY <1>1, <1>2 DEF PersistInv, PersistTypeOK, NothingPending, PaymentSaves
<1>4. ChoiceInv'
  BY <1>1 DEF PersistInv, ChoiceInv, FreezeUnderWay, ConsentUnderWay, ChoicesSurvive, Pending
<1>5. SavesHeld'
  BY <1>1, <1>2 DEF PersistInv, RecordInv, SavesHeld, Held
<1>6. RecordInv'
  BY <1>1, <1>5 DEF PersistInv, RecordInv, SavedInDatabase, SavedRecordsRestored
<1> QED
  BY <1>3, <1>4, <1>6 DEF PersistInv

LEMMA CrashKeeps ==
    ASSUME PersistInv, Crash
    PROVE  PersistInv'
<1>1. /\ running' = FALSE /\ who' = "none" /\ mem' = Blank
      /\ jobs' = << >> /\ persisting' = << >>
      /\ spoiled' = spoiled \cup ({jobs[i].table : i \in DOMAIN jobs} \cap Preferences)
      /\ UNCHANGED <<db, ops, wanted, saved, removed, unread>>
  BY DEF Crash
<1>2. /\ ToSet(jobs') = {} /\ ToSet(persisting') = {}
      /\ jobs' \in Seq(SaveRecord) /\ persisting' \in Seq(SaveRecord)
  BY <1>1, NoEntries
<1>3. PersistTypeOK' /\ NothingPending' /\ PaymentSaves'
  BY <1>1, <1>2, BlankMemory DEF PersistInv, PersistTypeOK, NothingPending, PaymentSaves
<1>4. \A t \in Preferences : t \notin spoiled' => t \notin spoiled /\ Pending(t) = {}
  BY <1>1 DEF Pending, ToSet
<1>5. \A t : Pending(t)' = {}
  BY <1>2 DEF Pending
<1>6. "freeze" \in Preferences /\ "consent" \in Preferences
  BY DEF Preferences
<1>7. FreezeUnderWay'
  BY <1>1, <1>4, <1>5, <1>6 DEF PersistInv, ChoiceInv, FreezeUnderWay
<1>8. ConsentUnderWay'
  BY <1>1, <1>4, <1>5, <1>6 DEF PersistInv, ChoiceInv, ConsentUnderWay
<1>9. ChoicesSurvive'
  BY <1>1 DEF ChoicesSurvive
<1>10. RecordInv'
  BY <1>1, <1>2
  DEF PersistInv, RecordInv, SavedInDatabase, SavesHeld, SavedRecordsRestored
<1> QED
  BY <1>3, <1>7, <1>8, <1>9, <1>10 DEF PersistInv, ChoiceInv

\* What HydrateFromDB makes of the tables.
LEMMA HydratedProperties ==
    ASSUME DatabaseOK(db)
    PROVE  /\ \A t \in RowTables \ Unreadable : Hydrated[t] = db[t]
           /\ \A t \in Preferences :
                 Hydrated[t] \in BOOLEAN /\ (Hydrated[t] <=> TRUE \in db[t])
<1>1. \A t \in RowTables \ Unreadable : Hydrated[t] = db[t]
  BY DEF RowTables, Unreadable, Hydrated, HydratePreferences, HydrateFinances,
         HydrateHoldings, ListAllAccounts, ListAllGoals, ListAllPayments,
         ListAllNetWorthAssets
<1>2. /\ HydratePreferences["freeze"] = (TRUE \in db["freeze"])
      /\ HydratePreferences["consent"] = (TRUE \in db["consent"])
      /\ DOMAIN HydratePreferences = {"freeze", "consent"}
  BY Zenon DEF HydratePreferences, ListFreezeStates, ListAllConsentGrants
<1>3. \A t \in {"freeze", "consent"} : Hydrated[t] = HydratePreferences[t]
  BY <1>2 DEF Hydrated, Preferences
<1>4. \A t \in {"freeze", "consent"} : Hydrated[t] = (TRUE \in db[t])
  BY <1>2, <1>3
<1>5. ASSUME NEW t \in {"freeze", "consent"}
      PROVE  Hydrated[t] \in BOOLEAN /\ (Hydrated[t] <=> TRUE \in db[t])
  <2>1. Hydrated[t] = (TRUE \in db[t])
    BY <1>4
  <2>2. (TRUE \in db[t]) \in BOOLEAN
    OBVIOUS
  <2>3. Hydrated[t] \in BOOLEAN
    BY <2>1, <2>2, Zenon
  <2> QED
    BY <2>1, <2>3, Zenon
<1> QED
  BY <1>1, <1>5 DEF Preferences

LEMMA StartKeeps ==
    ASSUME PersistInv, NEW failing, Start(failing)
    PROVE  PersistInv'
<1> DEFINE found == db["users"] /\ "users" \notin failing
<1>1. /\ running' = TRUE /\ unread' = failing \cup Unreadable
      /\ who' = IF found THEN "uuid" ELSE "none"
      /\ mem' = IF found
                THEN [t \in RowTables \cup Preferences |->
                        IF t \in unread' THEN Blank[t] ELSE Hydrated[t]]
                ELSE Blank
      /\ spoiled' = spoiled \cup (failing \cap Preferences)
      /\ UNCHANGED <<db, jobs, persisting, ops, wanted, saved, removed>>
  BY DEF Start
<1>2. /\ who = "none" /\ jobs = << >> /\ persisting = << >> /\ DatabaseOK(db)
      /\ ToSet(jobs') = {} /\ ToSet(persisting') = {}
  BY <1>1, NoEntries DEF Start, PersistInv, PersistTypeOK, NothingPending
<1>3. /\ \A t \in RowTables \ Unreadable : Hydrated[t] = db[t]
      /\ \A t \in Preferences :
            Hydrated[t] \in BOOLEAN /\ (Hydrated[t] <=> TRUE \in db[t])
  BY <1>2, HydratedProperties
<1>4. "freeze" \in Preferences \ Unreadable /\ "consent" \in Preferences \ Unreadable
  BY DEF Preferences, Unreadable
<1>5. found => \A t \in RowTables \cup Preferences :
                  mem'[t] = IF t \in unread' THEN Blank[t] ELSE Hydrated[t]
  BY <1>1
<1>6. MemoryOK(mem')
  <2>1. CASE ~found
    BY <1>1, <2>1, BlankMemory
  <2>2. CASE found
    <3>1. mem' = [t \in RowTables \cup Preferences |-> mem'[t]]
      BY <1>1, <2>2
    <3>2. \A t \in RowTables \ Unreadable : Hydrated[t] \in Seq(Row)
      BY <1>2, <1>3 DEF DatabaseOK
    <3>3. /\ \A t \in RowTables : Blank[t] \in Seq(Row)
          /\ \A t \in Preferences : Blank[t] \in BOOLEAN
      BY BlankMemory DEF MemoryOK
    <3>4. \A t \in RowTables : mem'[t] \in Seq(Row)
      BY <1>1, <1>5, <2>2, <3>2, <3>3
    <3>5. \A t \in Preferences : mem'[t] \in BOOLEAN
      BY <1>3, <1>5, <2>2, <3>3
    <3> QED
      BY <3>1, <3>4, <3>5 DEF MemoryOK
  <2> QED
    BY <2>1, <2>2
<1>7. PersistTypeOK' /\ NothingPending' /\ PaymentSaves'
  BY <1>1, <1>2, <1>6 DEF PersistInv, PersistTypeOK, NothingPending, PaymentSaves
<1>8. FreezeUnderWay' /\ ConsentUnderWay'
  BY <1>1 DEF PersistInv, ChoiceInv, FreezeUnderWay, ConsentUnderWay, Pending
<1>9. ChoicesSurvive'
  <2> SUFFICES ASSUME found
               PROVE  /\ wanted.freeze /\ "freeze" \notin spoiled' => mem'["freeze"]
                      /\ "consent" \notin spoiled' => mem'["consent"] = wanted.consent
    BY <1>1 DEF ChoicesSurvive
  <2>1. Pending("freeze") = {} /\ Pending("consent") = {}
    BY <1>1, <1>2 DEF Pending
  <2>2. ASSUME wanted.freeze, "freeze" \notin spoiled' PROVE mem'["freeze"]
    <3>1. "freeze" \notin failing /\ TRUE \in db["freeze"]
      BY <1>1, <1>4, <2>1, <2>2 DEF PersistInv, ChoiceInv, FreezeUnderWay
    <3> QED
      BY <1>1, <1>3, <1>4, <1>5, <3>1
  <2>3. ASSUME "consent" \notin spoiled' PROVE mem'["consent"] = wanted.consent
    <3>1. "consent" \notin failing /\ (TRUE \in db["consent"] <=> wanted.consent)
      BY <1>1, <1>4, <2>1, <2>3 DEF PersistInv, ChoiceInv, ConsentUnderWay
    <3>2. mem'["consent"] \in BOOLEAN /\ (mem'["consent"] <=> wanted.consent)
      BY <1>1, <1>3, <1>4, <1>5, <3>1
    <3>3. wanted.consent \in BOOLEAN
      BY DEF PersistInv, PersistTypeOK
    <3> QED
      BY <3>2, <3>3, Zenon
  <2> QED
    BY <2>2, <2>3
<1>10. RecordInv'
  <2>1. SavedInDatabase' /\ SavesHeld'
    BY <1>1, <1>2 DEF PersistInv, RecordInv, SavedInDatabase, SavesHeld
  <2>2. SavedRecordsRestored'
    <3> SUFFICES ASSUME found, NEW t \in RowTables \ unread', NEW o \in saved[t]
                 PROVE  o \in Objects(mem'[t])
      BY <1>1 DEF SavedRecordsRestored, Objects
    <3>1. mem'[t] = db[t]
      BY <1>1, <1>3, <1>5
    <3> QED
      BY <3>1 DEF PersistInv, RecordInv, SavedInDatabase
  <2> QED
    BY <2>1, <2>2 DEF RecordInv
<1> QED
  BY <1>7, <1>8, <1>9, <1>10 DEF PersistInv, ChoiceInv

-----------------------------------------------------------------------------
LEMMA PersistInitially == PersistInit => PersistInv
<1> SUFFICES ASSUME PersistInit PROVE PersistInv
  OBVIOUS
<1>1. DatabaseOK(Empty)
  <2>1. << >> \in Seq(Row) /\ {} \in SUBSET BOOLEAN
    OBVIOUS
  <2>2. /\ Empty = [t \in AllTables |-> Empty[t]]
        /\ \A t \in RowTables : Empty[t] = << >>
        /\ \A t \in Preferences : Empty[t] = {}
        /\ Empty["users"] = FALSE
    BY DEF Empty, AllTables, RowTables, Preferences
  <2> QED
    BY <2>1, <2>2 DEF DatabaseOK
<1>2. /\ who = "none" /\ mem = Blank /\ db = Empty /\ ops = 0 /\ running
      /\ jobs = << >> /\ persisting = << >> /\ saved = [t \in RowTables |-> {}]
      /\ wanted = [freeze |-> FALSE, consent |-> TRUE]
  BY DEF PersistInit
<1>3. wanted \in [freeze : BOOLEAN, consent : BOOLEAN] /\ ~wanted.freeze
  BY <1>2, Zenon
<1>4. /\ << >> \in Seq(SaveRecord) /\ ToSet(jobs) = {} /\ ToSet(persisting) = {}
      /\ saved \in [RowTables -> SUBSET Nat] /\ \A t \in RowTables : saved[t] = {}
  BY <1>2, NoEntries
<1>5. PersistTypeOK /\ NothingPending /\ PaymentSaves
  BY <1>1, <1>2, <1>3, <1>4, BlankMemory
  DEF PersistTypeOK, NothingPending, PaymentSaves
<1>6. Empty["users"] = FALSE
  BY DEF Empty
<1>7. ChoiceInv
  BY <1>2, <1>3, <1>6 DEF ChoiceInv, FreezeUnderWay, ConsentUnderWay, ChoicesSurvive
<1>8. RecordInv
  BY <1>2, <1>4 DEF RecordInv, SavedInDatabase, SavesHeld, SavedRecordsRestored
<1> QED
  BY <1>5, <1>7, <1>8 DEF PersistInv

LEMMA PersistPreserved == PersistInv /\ [PersistNextState]_persistVars => PersistInv'
<1> SUFFICES ASSUME PersistInv, [PersistNextState]_persistVars PROVE PersistInv'
  OBVIOUS
<1>1. ASSUME NEW t \in RowTables, Create(Save(t, NewRow)) PROVE PersistInv'
  BY <1>1, CreateKeeps
<1>2. CASE LinkAccount \/ CreateGoal \/ InitiatePayment \/ AddNetWorthAsset
           \/ AddEmergencyContact
  BY <1>1, <1>2
  DEF LinkAccount, CreateGoal, InitiatePayment, AddNetWorthAsset, AddEmergencyContact,
      SaveAccountToDB, SaveGoalToDB, SavePaymentToDB, SaveNetWorthAssetToDB,
      SaveEmergencyContactToDB, RowTables
<1>3. CASE \E i \in DOMAIN mem.assets : RemoveNetWorthAsset(i)
  BY <1>3, RemoveKeeps DEF RemoveNetWorthAsset, RowTables
<1>4. CASE \E i \in DOMAIN mem.contacts : DeleteEmergencyContact(i)
  BY <1>4, RemoveKeeps DEF DeleteEmergencyContact, RowTables
<1>5. CASE Outage \/ OutageEnds \/ UNCHANGED persistVars
  <2>1. UNCHANGED <<running, who, mem, db, jobs, persisting, ops, wanted, spoiled, saved,
                    removed, unread>>
    BY <1>5 DEF Outage, OutageEnds, persistVars
  <2>2. PersistTypeOK' /\ NothingPending' /\ PaymentSaves'
    BY <2>1 DEF PersistInv, PersistTypeOK, NothingPending, PaymentSaves
  <2>3. ChoiceInv'
    BY <2>1
    DEF PersistInv, ChoiceInv, FreezeUnderWay, ConsentUnderWay, ChoicesSurvive, Pending
  <2>4. RecordInv'
    BY <2>1
    DEF PersistInv, RecordInv, SavedInDatabase, SavesHeld, Held, SavedRecordsRestored
  <2> QED
    BY <2>2, <2>3, <2>4 DEF PersistInv
<1> QED
  BY <1>2, <1>3, <1>4, <1>5, RegisterKeeps, FreezeKeeps, UnfreezeKeeps, ConsentKeeps,
     ReceiptKeeps, ContributeKeeps, DebitKeeps, PersistNextKeeps, AcknowledgeKeeps,
     RunJobKeeps, CrashKeeps, StartKeeps
  DEF PersistNextState

(***************************************************************************)
(* A freeze the customer asked for and the consent chosen last are in      *)
(* force after any number of crashes, outages and restarts, unless their   *)
(* save failed, was lost or overtaken, or could not be read back: the      *)
(* upserts of SetFreezeState and UpsertConsentGrant and HydrateFromDB.     *)
(***************************************************************************)
THEOREM ChoicesDurable == PersistSpec => []ChoicesSurvive
<1>1. PersistInv => ChoicesSurvive
  BY DEF PersistInv, ChoiceInv
<1> QED
  BY <1>1, PersistInitially, PersistPreserved, PTL DEF PersistSpec

(***************************************************************************)
(* Whatever the Save...ToDB goroutines and saveWithCircuitBreaker managed  *)
(* to insert, which can be accounts, goals and assets only, is in memory   *)
(* after every start that reads its table, until the customer removes it.  *)
(***************************************************************************)
THEOREM RecordsDurable == PersistSpec => []SavedRecordsRestored
<1>1. PersistInv => SavedRecordsRestored
  BY DEF PersistInv, RecordInv
<1> QED
  BY <1>1, PersistInitially, PersistPreserved, PTL DEF PersistSpec
=============================================================================
