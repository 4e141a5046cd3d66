---------------------------- MODULE Persistence ----------------------------
(***************************************************************************)
(* What survives a restart: the maps of platform.Service, the tables of    *)
(* PostgreSQL behind infra/repo, the saves that goroutines start after the *)
(* lock is released, and HydrateFromDB with the seeding that follows it    *)
(* (platform/service.go, service_postgres.go, service_hydrate.go,          *)
(* service_payment.go, seed_data.go).                                      *)
(*                                                                         *)
(* One customer.  users.id is a UUID of the database's own making, and     *)
(* SaveUserToDB leaves the id of the memory behind: a customer registered  *)
(* since the last start is "usr", one read back is "uuid", and every other *)
(* table refers to users(id), so it takes rows of "uuid" only.             *)
(*                                                                         *)
(* The tables have the columns db.Migrate gives an empty database.  Its    *)
(* last migration fails, an index over a column that an earlier one did    *)
(* not create, and is rolled back: main logs it and goes on.               *)
(***************************************************************************)
EXTENDS Integers, Sequences, SequencesExt, FiniteSets

CONSTANTS
    MaxOps,        \* bound on the customer's operations
    MaxFaults      \* bound on crashes, database outages and failed reads

VARIABLES
    running,       \* the process is up
    dbUp,          \* the database answers
    who,           \* the customer in memory: "none", "usr" or "uuid"
    mem,           \* table -> what the service holds for the customer
    db,            \* table -> rows of the customer
    jobs,          \* the saves started and not yet executed, oldest first
    persisting,    \* InitiateTransaction between unlock and answer: its saves
    queued,        \* outbox: the operations enqueued in place of a save
    ops, faults,   \* how many there were
    wanted,        \* history: the freeze and the consent the customer chose
    spoiled,       \* history: choices whose save failed, was lost or overtaken
    acked,         \* history: payments acknowledged
    saved,         \* history: table -> the objects whose insert succeeded
    removed,       \* history: the objects the customer removed
    unread         \* the tables the last start could not read

persistVars == <<running, dbUp, who, mem, db, jobs, persisting, queued, ops, faults,
                 wanted, spoiled, acked, saved, removed, unread>>

\* Tables of rows, each row [obj, ver]: the thing it describes and its state
\* when it was written.  And two tables with at most one value for the
\* customer.
RowTables == {"accounts", "transactions", "goals", "payments", "assets", "contacts"}
Preferences == {"freeze", "consent"}

Blank == [t \in RowTables \cup Preferences |->
            IF t \in Preferences THEN FALSE ELSE << >>]

Empty == [t \in RowTables \cup Preferences \cup {"users"} |->
            IF t = "users" THEN FALSE ELSE IF t \in Preferences THEN {} ELSE << >>]

PersistInit ==
    /\ running = TRUE /\ dbUp = TRUE /\ who = "none"
    /\ mem = Blank
    /\ db = Empty
    /\ jobs = << >> /\ persisting = << >> /\ queued = {}
    /\ ops = 0 /\ faults = 0
    /\ wanted = [freeze |-> FALSE, consent |-> TRUE]
    /\ spoiled = {} /\ acked = {} /\ removed = {} /\ unread = {}
    /\ saved = [t \in RowTables |-> {}]

-----------------------------------------------------------------------------
(***************************************************************************)
(* The statements of infra/repo.                                           *)
(***************************************************************************)
\* CreateAccount, CreateGoal and CreateNetWorthAsset insert a row with an id of
\* its own, whatever rows of the same thing there are.  The database refuses
\* every other insert: CreateTransaction names 23 columns and gives 22 values,
\* CreatePayment gives no id to a key without a default, and
\* CreateEmergencyContact names columns that its table, created by the first
\* of two migrations, has under another name or not at all.
WellFormed(t) == t \notin {"transactions", "payments", "contacts"}

\* Nor can these be read: ListAllEmergencyContacts names the same columns, and
\* ListAllTransactions one that only the last migration adds.
Unreadable == {"transactions", "contacts"}

\* Every table but users refers to users(id).
KeyHolds(as) == as = "uuid" /\ db.users

Executes(s) ==
    /\ dbUp
    /\ IF s.table = "users" THEN ~db.users ELSE KeyHolds(s.as) /\ WellFormed(s.table)

\* Mutant: an existing value is kept (ON CONFLICT DO NOTHING).
MutUpsert(t, v) == IF db[t] = {} THEN {v} ELSE db[t]

\* SetFreezeState, UpsertConsentGrant: ON CONFLICT DO UPDATE.
Upsert(t, v) == {v}

\* One save reaches the database.
Stored(s) ==
    IF ~Executes(s) THEN db
    ELSE IF s.table = "users" THEN [db EXCEPT !.users = TRUE]
    ELSE IF s.table \in Preferences THEN [db EXCEPT ![s.table] = Upsert(s.table, s.choice)]
    ELSE [db EXCEPT ![s.table] = Append(@, s.row)]

SavedObjects(s) ==
    IF Executes(s) /\ s.table \in RowTables
    THEN [saved EXCEPT ![s.table] = @ \cup {s.row.obj}] ELSE saved

-----------------------------------------------------------------------------
(***************************************************************************)
(* Saves in goroutines: SaveUserToDB and its like, their error dropped.    *)
(***************************************************************************)
NoRow == [obj |-> 0, ver |-> 0]

Save(table, row) == [table |-> table, row |-> row, choice |-> FALSE, as |-> who]

SaveChoice(table, choice) ==
    [table |-> table, row |-> NoRow, choice |-> choice, as |-> who]

SaveTransactionToDB(row) == Save("transactions", row)
SaveAccountToDB(row) == Save("accounts", row)
SaveGoalToDB(row) == Save("goals", row)
SavePaymentToDB(row) == Save("payments", row)
SaveNetWorthAssetToDB(row) == Save("assets", row)
SaveEmergencyContactToDB(row) == Save("contacts", row)
SaveFreezeStateToDB(frozen) == SaveChoice("freeze", frozen)
SaveConsentToDB(granted) == SaveChoice("consent", granted)

\* A choice is overtaken when a save of it starts while another is pending.
Overtaken(t) == \E i \in DOMAIN jobs : jobs[i].table = t

\* Go runs the goroutines in any order.
RunJob(i) ==
    LET s == jobs[i] IN
    /\ running
    /\ db' = Stored(s) /\ saved' = SavedObjects(s)
    /\ spoiled' = IF Executes(s) THEN spoiled ELSE spoiled \cup ({s.table} \cap Preferences)
    /\ jobs' = RemoveAt(jobs, i)
    /\ UNCHANGED <<running, dbUp, who, mem, persisting, queued, ops, faults, wanted,
                   acked, removed, unread>>

-----------------------------------------------------------------------------
(***************************************************************************)
(* The operations of the customer.                                         *)
(***************************************************************************)
Operating ==
    /\ running /\ ops < MaxOps
    /\ ops' = ops + 1
    /\ UNCHANGED <<running, dbUp, db, faults, saved, unread>>

Known == Operating /\ who # "none" /\ UNCHANGED who

\* Register: only a mobile the memory does not know.  One goroutine saves the
\* user, the account and the consent; the last two fail whatever the order,
\* so three jobs stand for it.
RegisterCustomer ==
    LET account == [obj |-> ops + 1, ver |-> 2] IN
    /\ Operating /\ who = "none"
    /\ who' = "usr"
    /\ mem' = [Blank EXCEPT !.accounts = <<account>>, !.consent = TRUE]
    /\ jobs' = [i \in 1..3 |->
                  [as |-> "usr", table |-> <<"users", "accounts", "consent">>[i],
                   row |-> account, choice |-> TRUE]]
    /\ wanted' = [freeze |-> FALSE, consent |-> TRUE]
    /\ spoiled' = {}
    /\ UNCHANGED <<persisting, queued, acked, removed>>

\* EmergencyFreeze: a test leaves the state alone and saves it all the same.
EmergencyFreeze(testMode) ==
    LET frozen == mem.freeze \/ ~testMode IN
    /\ Known
    /\ mem' = [mem EXCEPT !.freeze = frozen]
    /\ jobs' = Append(jobs, SaveFreezeStateToDB(frozen))
    /\ wanted' = IF testMode THEN wanted ELSE [wanted EXCEPT !.freeze = TRUE]
    /\ spoiled' = (IF testMode THEN spoiled ELSE spoiled \ {"freeze"})
                  \cup (IF Overtaken("freeze") THEN {"freeze"} ELSE {})
    /\ UNCHANGED <<persisting, queued, acked, removed>>

\* Unfreeze: the memory only.
UnfreezeAccount ==
    /\ Known
    /\ mem' = [mem EXCEPT !.freeze = FALSE]
    /\ wanted' = [wanted EXCEPT !.freeze = FALSE]
    /\ UNCHANGED <<jobs, persisting, queued, acked, removed, spoiled>>

\* SetConsent, for one type of consent.
ChooseConsent(granted) ==
    /\ Known
    /\ mem' = [mem EXCEPT !.consent = granted]
    /\ jobs' = Append(jobs, SaveConsentToDB(granted))
    /\ wanted' = [wanted EXCEPT !.consent = granted]
    /\ spoiled' = (spoiled \ {"consent"})
                  \cup (IF Overtaken("consent") THEN {"consent"} ELSE {})
    /\ UNCHANGED <<persisting, queued, acked, removed>>

\* Append in memory, insert in a goroutine.
NewRow == [obj |-> ops + 1, ver |-> 1]

Create(save) ==
    /\ Known
    /\ mem' = [mem EXCEPT ![save.table] = Append(@, save.row)]
    /\ jobs' = Append(jobs, save)
    /\ UNCHANGED <<persisting, queued, acked, removed, wanted, spoiled>>

LinkAccount == Create(SaveAccountToDB(NewRow))
CreateGoal == Create(SaveGoalToDB(NewRow))
InitiatePayment == Create(SavePaymentToDB(NewRow))
AddNetWorthAsset == Create(SaveNetWorthAssetToDB(NewRow))
AddEmergencyContact == Create(SaveEmergencyContactToDB(NewRow))

\* VerifyPaymentReceipt: the payment completes, and is inserted again.
VerifyPaymentReceipt(i) ==
    LET row == [mem.payments[i] EXCEPT !.ver = 2] IN
    /\ Known
    /\ mem' = [mem EXCEPT !.payments[i] = row]
    /\ jobs' = Append(jobs, SavePaymentToDB(row))
    /\ UNCHANGED <<persisting, queued, acked, removed, wanted, spoiled>>

\* ContributeGoal: the memory only.
ContributeToGoal(i) ==
    /\ Known
    /\ mem' = [mem EXCEPT !.goals[i].ver = @ + 1]
    /\ UNCHANGED <<jobs, persisting, queued, acked, removed, wanted, spoiled>>

\* RemoveNetWorthAsset, DeleteEmergencyContact: the memory only.
RemoveRecord(t, i) ==
    /\ Known
    /\ mem' = [mem EXCEPT ![t] = RemoveAt(@, i)]
    /\ removed' = removed \cup {mem[t][i].obj}
    /\ UNCHANGED <<jobs, persisting, queued, acked, wanted, spoiled>>

RemoveNetWorthAsset(i) == RemoveRecord("assets", i)
DeleteEmergencyContact(i) == RemoveRecord("contacts", i)

\* InitiateTransaction, a payment of one unit that is let through (Payments):
\* the debit under the lock, the saves to come.
Debit ==
    LET accounts == [mem.accounts EXCEPT ![1].ver = @ - 1]
        txn == NewRow IN
    /\ Known /\ persisting = << >>
    /\ ~mem.freeze /\ mem.accounts # << >> /\ mem.accounts[1].ver > 0
    /\ mem' = [mem EXCEPT !.accounts = accounts, !.transactions = Append(@, txn)]
    /\ persisting' = <<SaveTransactionToDB(txn)>>
                     \o [i \in DOMAIN accounts |-> SaveAccountToDB(accounts[i])]
                     \o <<Save("answer", txn)>>
    /\ UNCHANGED <<jobs, queued, acked, removed, wanted, spoiled>>

\* Its deferred persist: saveWithCircuitBreaker for each, where the breaker
\* may be open (CircuitBreaker); what does not succeed becomes an event of the
\* outbox (Outbox) with the name of the operation and the user, no more.
PersistNext(rejected) ==
    LET s == Head(persisting) IN
    /\ running /\ persisting # << >> /\ s.table # "answer"
    /\ rejected => queued # {}    \* it only opens after failures
    /\ IF rejected THEN UNCHANGED <<db, saved>>
       ELSE db' = Stored(s) /\ saved' = SavedObjects(s)
    /\ queued' = IF rejected \/ ~Executes(s) THEN queued \cup {s.table} ELSE queued
    /\ persisting' = Tail(persisting)
    /\ UNCHANGED <<running, dbUp, who, mem, jobs, ops, faults, wanted, spoiled, acked,
                   removed, unread>>

\* The caller is answered.
Acknowledge ==
    /\ running /\ persisting # << >> /\ Head(persisting).table = "answer"
    /\ acked' = acked \cup {Head(persisting).row.obj}
    /\ persisting' = << >>
    /\ UNCHANGED <<running, dbUp, who, mem, db, jobs, queued, ops, faults, wanted, spoiled,
                   saved, removed, unread>>

-----------------------------------------------------------------------------
(***************************************************************************)
(* Failures and restarts.                                                  *)
(***************************************************************************)
Fault == faults < MaxFaults /\ faults' = faults + 1

\* The process ends: the memory, the pending saves and the outbox are gone.
Crash ==
    /\ running /\ Fault
    /\ running' = FALSE /\ who' = "none" /\ mem' = Blank
    /\ jobs' = << >> /\ persisting' = << >> /\ queued' = {}
    /\ spoiled' = spoiled \cup ({jobs[i].table : i \in DOMAIN jobs} \cap Preferences)
    /\ UNCHANGED <<dbUp, db, ops, wanted, acked, saved, removed, unread>>

Outage ==
    /\ dbUp /\ Fault
    /\ dbUp' = FALSE
    /\ UNCHANGED <<running, who, mem, db, jobs, persisting, queued, ops, wanted, spoiled,
                   acked, saved, removed, unread>>

OutageEnds ==
    /\ ~dbUp
    /\ dbUp' = TRUE
    /\ UNCHANGED <<running, who, mem, db, jobs, persisting, queued, ops, faults, wanted,
                   spoiled, acked, saved, removed, unread>>

\* What the tables give back.  A customer without a row is not frozen and has
\* granted nothing.
ListFreezeStates == TRUE \in db.freeze
ListAllConsentGrants == TRUE \in db.consent

\* Mutant: a row replaces the one before it.
MutListAllAccounts == IF db.accounts = << >> THEN << >> ELSE <<Last(db.accounts)>>

ListAllAccounts == db.accounts
ListAllGoals == db.goals
ListAllPayments == db.payments
ListAllNetWorthAssets == db.assets

\* HydrateFromDB, table by table: every row becomes a record of its user.
\* (Sessions are the subject of Sessions; nothing in the program writes
\* notification settings, investments, policies or loans to their tables.)
HydratePreferences == [freeze |-> ListFreezeStates, consent |-> ListAllConsentGrants]

HydrateFinances ==
    [accounts |-> ListAllAccounts, goals |-> ListAllGoals, payments |-> ListAllPayments]

HydrateHoldings == [assets |-> ListAllNetWorthAssets]

Hydrated ==
    [t \in (RowTables \ Unreadable) \cup Preferences |->
        IF t \in DOMAIN HydratePreferences THEN HydratePreferences[t]
        ELSE IF t \in DOMAIN HydrateFinances THEN HydrateFinances[t]
        ELSE HydrateHoldings[t]]

Readable == (RowTables \ Unreadable) \cup Preferences \cup {"users"}

\* NewRouter: every table is read or not, on its own, and the unreadable ones
\* never are; without a user the demo users are seeded, none of whom is this
\* customer.  KYC and biometric flags do not come back (SaveUserToDB does not
\* write them).
Start(failing) ==
    /\ ~running
    /\ failing # {} => faults < MaxFaults
    /\ ~dbUp => failing = Readable
    /\ running' = TRUE
    /\ faults' = IF failing = {} THEN faults ELSE faults + 1
    /\ unread' = failing \cup Unreadable
    /\ LET found == db.users /\ "users" \notin failing IN
       /\ who' = IF found THEN "uuid" ELSE "none"
       /\ mem' = IF found
                 THEN [t \in RowTables \cup Preferences |->
                         IF t \in unread' THEN Blank[t] ELSE Hydrated[t]]
                 ELSE Blank
    /\ spoiled' = spoiled \cup (failing \cap Preferences)
    /\ UNCHANGED <<dbUp, db, jobs, persisting, queued, ops, wanted, acked, saved, removed>>

\* The reads that may fail: one of them, or all.
ReadFailures == {{}, Readable} \cup {{t} : t \in Readable}

PersistNextState ==
    \/ RegisterCustomer
    \/ \E testMode \in BOOLEAN : EmergencyFreeze(testMode)
    \/ UnfreezeAccount
    \/ \E granted \in BOOLEAN : ChooseConsent(granted)
    \/ LinkAccount \/ CreateGoal \/ InitiatePayment \/ AddNetWorthAsset
    \/ AddEmergencyContact
    \/ \E i \in DOMAIN mem.payments : VerifyPaymentReceipt(i)
    \/ \E i \in DOMAIN mem.goals : ContributeToGoal(i)
    \/ \E i \in DOMAIN mem.assets : RemoveNetWorthAsset(i)
    \/ \E i \in DOMAIN mem.contacts : DeleteEmergencyContact(i)
    \/ Debit
    \/ \E rejected \in BOOLEAN : PersistNext(rejected)
    \/ Acknowledge
    \/ \E i \in DOMAIN jobs : RunJob(i)
    \/ Crash \/ Outage \/ OutageEnds
    \/ \E failing \in ReadFailures : Start(failing)

PersistSpec == PersistInit /\ [][PersistNextState]_persistVars

-----------------------------------------------------------------------------
(***************************************************************************)
(* Properties.                                                             *)
(***************************************************************************)
\* A freeze the customer asked for, and the consent chosen last, are in force
\* whenever the customer is known, after any number of restarts: unless the
\* save of the choice failed, was lost in a crash or overtook another, or the
\* start could not read the table.
ChoicesSurvive ==
    (running /\ who # "none") =>
        /\ wanted.freeze /\ "freeze" \notin spoiled => mem.freeze
        /\ "consent" \notin spoiled => mem.consent = wanted.consent

\* Whatever was once inserted for a customer (of accounts, goals and assets:
\* the statements for the other tables never succeed) is there after every
\* start that could read its table, until the customer removes it: no later
\* save and no restart loses it.
SavedRecordsRestored ==
    (running /\ who = "uuid") =>
        \A t \in RowTables \ unread :
            \A o \in saved[t] \ removed : \E i \in DOMAIN mem[t] : mem[t][i].obj = o

\* The note on InitiateTransaction: the transaction is durable in PostgreSQL
\* before the caller is acknowledged, unless the save became an event of the
\* outbox because the database did not answer or the breaker was open.
AcknowledgedIsDurable ==
    (faults = 0 /\ running) => acked \subseteq saved["transactions"]
=============================================================================
