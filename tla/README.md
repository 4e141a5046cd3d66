# Verification of the Finix banking backend

TLA+ models of the parts of this repository whose correctness depends on the
order of steps: the Go service in `backend/` that keeps a user's money, sessions
and step-up credentials in memory under a few mutexes, writes through to Postgres
behind a circuit breaker, and mirrors events to Hyperledger Fabric. Paths below
are relative to the repository; `platform/` is
`backend/internal/domain/platform/`, `security/` is
`backend/internal/domain/security/`, `middleware/` is
`backend/internal/api/middleware/`.

Run a check with `tlc -config <cfg> <module>`, a proof with
`tlapm <module>.tla`. `PROJECT.json` lists the components, the runs, the mutants
that show each property can fail, the line map from definitions to code, the
hazards and the theorems.

## 1. Inventory

### Components, their state and operations

| Component | Code | State | Operations | Module |
|---|---|---|---|---|
| Payments | `platform/service.go`, `service_expansion.go`, `aiml.go`, `middleware/cooling_off.go` | accounts, transactions, goals, idempotency cache, freeze flag, held orders | initiate, override, validate risk, schedule, bank event, investment order, freeze/unfreeze, goal create/contribute/close/pause/resume/dissolve, cache eviction | `Payments` |
| Double-entry book | `platform/ledger_accounting.go` | entries per account | post payment, balance, verify | `Payments` (postings) |
| Sessions | `security/jwt.go`, `platform/auth_pin.go`, `cmd/server/main.go` | revocation map, `jwt_revocations` rows, `s.sessions`, PIN | login, verify, refresh (check, claim, issue, swap), revoke, prune, set PIN, restart | `Sessions` |
| Step-up | `platform/service_expansion.go`, `security/webauthn.go`, `middleware/otp_gate.go`, `biometric_gate.go`, `stepup.go` | one-time code, attempts, lockout, passkey challenges | generate and verify codes, create, sweep and consume challenges, guarded routes | `StepUp` |
| Circuit breaker | `platform/infrastructure.go` | state, three counters, time of last change | `Execute` | `CircuitBreaker` |
| Outbox | `platform/infrastructure.go`, `service.go` | list of events with retries and flags | enqueue, dequeue, mark processed/failed, purge, worker loop | `Outbox` |
| Event ledger in memory | `backend/internal/domain/blockchain/ledger.go` | hash chain of events, index | write (strict or not), the three rules, integrity check | `EventLedger` |
| Chaincode | `chaincode/finix/main.go` | world state: events, head per user, cooling-off window | `RecordEvent` with its rules, window, cooling-off query, proof | `Chaincode`, abstractly `AppendLog` |
| Fabric sync | `backend/internal/infra/fabric/` | event stream, mirror table, watermark | subscribe, mirror, reconnect, read | `FabricSync` |
| Persistence and hydration | `platform/service.go`, `service_hydrate.go`, `service_postgres.go`, `service_payment.go`, `seed_data.go`, `backend/internal/infra/repo/` | the maps of the service, the rows, saves under way | saves in goroutines, write-through, crash, outage, `HydrateFromDB` | `Persistence` |
| Notifications | `platform/service.go`, `notifications.go`, `api/router.go` | stored entries, subscribers with bounded buffers | push, read, dismiss; subscribe, publish, unsubscribe | `Notifications` |
| HTTP router and middleware | `backend/internal/api/` | rate-limit buckets, keys bound to bodies, cached results | every route with its chain of gates and its handler | `Gateway` |
| Expanded endpoints | `platform/service_expansion.go`, `security/` | tables of `expandedState`, SIM bindings, orders, audit trail | the hundred-odd endpoints of `HandleExpandedEndpoint` | `Endpoints` |
| Payment intents | `platform/service_payment.go` | intents | initiate, verify receipt | `Persistence` (rows), `EventLedger` (events) |
| Risk engine, fraud graph, tiers of adaptive authentication, calculators, cryptography, adapters, OAuth store, AI proxy, configuration | see `PROJECT.json` | none, or external | scoring, arithmetic, I/O | not modelled |

### How they interact

A request passes the router's middleware (`Auth`, then for some routes
`EnforceCoolingOff`, `RequireOTPVerification`, `RequireBiometricChallenge` or
`RequireBiometricAboveAmount`) and then a handler of the platform service.
Handlers run under `Service.mu`; the middleware does not, so whatever it decided
may be stale when the handler runs. Three other locks matter: `exp.mu` (attempt
counters), `JWTManager.mu` (revocations) and `PasskeyManager.mu` (challenges),
taken in several short critical sections per request. Handlers that settle a
payment write to the event ledger (whose rules may veto), the double-entry book
and the accounts, and then save to Postgres through the circuit breaker; when it
rejects, they enqueue an event in the outbox, which a background worker drains.
Most other saves run in a goroutine that the handler starts and does not wait
for. With Fabric configured, events are submitted to the chaincode and come back
over a stream into a mirror table, from which the API reads. Notifications and
events are pushed to a customer's open streams by goroutines of their own. At a
start `NewRouter` reads the tables back into the maps.

### What is hard

* gates that look before the handler locks (cooling-off, first PIN, revocation);
* operations in several critical sections (refresh, `Execute`, `VerifyOTPToken`,
  passkey verification);
* steps of one handler of which a late one fails (book posted, debit refused);
* retries with an idempotency key, evictions from the cache;
* sequences of legal calls on one transaction, goal or credential;
* restarts that drop what is only in memory, saves lost in a crash or executed out
  of order, rows under an identifier the next start does not use;
* contract rules evaluated at endorsement, on an older state than the one the
  entry joins; a mirror that goes on past a failed write;
* channels closed by one goroutine and written to by another, full buffers;
* read-write locks taken one inside the other, with waiting writers;
* counters that drift, lockouts and thresholds at their boundary.

The list with lines is under `hazards` in `PROJECT.json`.

### What makes each component correct

* **Payments**: no account is overdrawn; money is neither created nor destroyed;
  one debit per idempotency key; a transaction is settled again only after a
  review demoted it; nothing is paid out in a cooling-off window; book and
  accounts agree.
* **Sessions**: a token is exchanged at most once; a revoked token stays dead; no
  login ever has two accepted tokens of one line; no session survives a PIN change.
* **Step-up**: codes and challenges are single-use; the lockout bounds the tries;
  no deadlock between the mutexes.
* **Circuit breaker**: opens on consecutive failures, closes only after successes in
  a row of one half-open period, never wedges, recovers in the end, one probe at a
  time.
* **Outbox**: nothing lost, nothing published again once acknowledged or given up,
  first attempts in order, every event settled.
* **Chaincode**: an append-only log per user of entries the rules permit where they
  stand; chain and head agree; the gate's query agrees with the rule.
* **Fabric sync**: complete behind the watermark; catches up; loses no more than what
  a failed write skips and what it misses while the watermark is at 0.
* **Event ledger**: what strict writes let through respects the rules over all of the
  history, the rejected writes in it included; the chain verifies.
* **Persistence**: the customer's choices and records survive restarts; what was
  acknowledged is durable.
* **Notifications**: an entry once in the feed, dismissed means read; no send on a
  closed channel; no subscriber holds up the others.
* **Gateway**: privileged routes need token and role; handlers find the user they
  ask for; guesses are bounded over all credential endpoints; a payment is not
  answered with the result of another one.
* **Endpoints**: no handlers stuck on each other's locks; orders on record are paid
  for; a SIM binding keeps its owner.

## 2. Modules

### CircuitBreaker

`Execute` takes the mutex twice and runs the guarded function in between
unlocked. `Enter(c)` is the first critical section (its three disjuncts are the
three ways in: closed, open with the reset timeout elapsed, half-open with a free
slot), `Finish(c)` the second. `halfOpenCount` is a signed counter as in the code:
the call that switches the breaker to half-open does not increment it but
decrements it on return, so it drifts below zero; and a call admitted while
closed may return in a half-open period and be counted there. `elapsed` stands
for the comparison of the clock with the reset timeout. `call` and `streak` are
history: the code keeps no record of who was let in when. `streak` counts the calls
that returned successfully since the breaker last found the timeout elapsed, and a
failure among them ends it. It counts whoever returns, as the code does: a call
admitted while closed that returns successfully in a half-open period is counted
like a probe, so `ClosesOnlyAfterRecovery` says that the successes lie in one
period, not that their calls were admitted in it.

### Outbox

One action per method of `Outbox`, strung together by the worker: `Tick` (its
`Dequeue`), `Publish` (one event of the batch, with `MarkProcessed` or
`MarkFailed`), `EndTick` (`Purge`). Handlers enqueue in between. The publisher may
fail at any time, as the one that `main.go` wires to Redis Streams does; without
Redis `publishOutboxEvent` is a no-op that succeeds. An XADD that fails may have
stored the event before its answer was lost: a failed `Publish` adds it to `stored`
or not. The retry then gives the downstream a second copy, so what the worker
guarantees is stated of acknowledged events only (`NotRepublished`).
The two loops over the slice are sets of positions (`Pending`, `Purged`), listed in
order by `InOrder` of module `Slices`. `Age` is the passing of the purge cutoff.

### Payments

One user. A client is idle or *admitted*: past the cooling-off middleware, its
handler not yet run. `Initiate` is `InitiateTransaction` with its outcomes as
disjuncts: replay of a cached result, frozen account, veto of the event ledger's
rules, ledger error, held by the risk decision, settled, and the debit refused
for lack of funds after the transaction was recorded and posted. `Override`,
`ValidateRisk`, `Schedule`, `IngestBankEvent`, `InvestmentOrder`,
`EmergencyFreeze`, `Unfreeze` and the goal handlers are one action each, with
everything the handler calls. `Debit` is `applyDebitToFirstAccountLocked`: the
first account pays, the others (pooled) what it cannot. Risk scores, verdicts and
step-up results are inputs. `Evict` covers the TTL and the cap of the idempotency
cache; `LedgerWindowEnds`, `OrderWindowEnds` and `CoolingOffEnds` are the clock.
History: `spent`, `paid`, and per transaction `debits` and `reviews`.

### Sessions

One user. `RefreshToken` is four steps: `RefreshCheck` (signature, expiry, grace,
revocation), `RefreshClaim` (`claimForRotation`, which persists the claim or fails
to), `RefreshIssue` (minting), `RefreshSwap` (replacing the session). PIN setting
is two: the check for an existing PIN and `SetPIN`. A lookup in Postgres may fail;
`failClosed` says what that means (`MayPass`). `Restart` drops what lives in
memory. The clock is discrete and bounded; `MaxLatency` bounds how long a refresh
stays in flight, since one that takes longer than the retention of a revocation
would outlive it.

### StepUp

One user with a registered key. A request goes through the *checks* of its route in
order, those of the middleware and those of the handler (`Checks`); some tolerate a
missing credential while the enforcement flag is off. A check of a code is
`OTPLookup` (take `exp.mu`, lockout, profile), then the comparison without
`Service.mu`, then `OTPClear` under it. `GenerateOTP` is three steps under
`Service.mu`, which a verifier that holds `exp.mu` interleaves with; what each of
these steps waits for is named (`MayStore`, `MayReset`, `MayLookup`, `MayClear`),
and `NoDeadlock` says of these guards that one holds. Its reset of the attempt
counter is a data race with the verifier's increment, modelled as a reset that may
be lost. A check of a challenge is `ChallengeRead` and `ChallengeCommit`, with other
requests, the expiry and the sweep in between. The model shows one more thing: on
the routes that check the same credential in the middleware and in the handler, the
first check consumes it and the second refuses.

### AppendLog, Chaincode, FabricSync

`AppendLog` is the abstract specification: one log per user, an entry is appended
only if the rules, restated declaratively, permit it after everything before it.
`Chaincode` is `chaincode/finix/main.go` on Fabric. `RecordEvent` is the simulation
at endorsement: it reads head and history, evaluates the three rules and proposes
an event. `CommitBlock` orders up to `MaxBlock` proposals and validates them: Fabric
drops a proposal whose reads are outdated, here one whose head key changed (external, from
how the chaincode uses its keys: every `RecordEvent` of a user reads and writes that
user's head). A hash is the tuple it digests. `BySeq` is the sort that
`queryByPartial` ends with. `Log` instantiates `AppendLog` with `LogOf`, the events of
a user in the order of their seq.

`FabricSync` adds the mirror: `Connect` (from the last mirrored block; from the next
one if nothing was mirrored yet), `Mirror` (upsert and watermark, of which the
second may fail), `MirrorFails` (logged, and the loop goes on), `CloseStream`. An event
gets lost to the mirror in two ways, kept apart in two history variables that the
properties except. `skipped`: its write failed; the comment at `sync.go:83` says "a
later replay can re-mirror", but the watermark passes a skipped event with the next
one, and no replay returns to it. `missed`: a stream was opened while the watermark
was 0 and begins with the next block. That is not the first stream alone: the
watermark stays at 0 until an update of it succeeds, and a reconnection before that
misses what was committed in the outage, although "a restart continues rather than
replaying the chain" (`sync.go:17`). `MirrorCompleteBehindWatermark` also says that
this ends there: no event of a block later than a positive watermark is missed.
With a mirror attached only calls that no rule looks at are made and the clock
stands still (`pool`): the chain does not depend on the mirror nor the mirror on what
events say, so the run explores the sum of the two instead of their product.

### EventLedger

The ledger without Fabric. Every write appends, whatever the rules say; a strict
write also reports a violation. One action per writer of the service, with the item
of the audit trail that most of them write beside their event (`AppendAudit`; for
`InitiateTransaction` under the same action, `transaction_initiated`, and not at all
when the debit after the strict write is refused). Three things the model makes
plain: a rejected payment stays in the history that later rules look
at; no rule looks at `payment_initiated`, so the strict write of `InitiatePayment`
(`service_payment.go:129`) never rejects; and the service records a revoked consent
as `consent_updated`, so the in-memory consent rule, which looks for
`consent_revoked`, never fires. A payload is a pair of what it is of and a number.
An audit item, a payment and a blocked result carry an id of their own, here the
length of the chain; a transaction's payload is one of `LedgerPayloads`, and
`LedgerAssumption` keeps the two apart as their JSON is. The service gives every
transaction a new id, so in the program payloads of transactions do not repeat; the
model lets them repeat, for otherwise the double-spend rule would never be asked.

### Notifications

The feed is the stored entries (`notifMu`, trimmed at a hundred) and those derived
from the customer's activity at every read. `DismissNotification` derives before it
locks, so it is two steps. Streams are channels in a registry under a read-write
lock; a publisher holds the read lock while it sends to each channel, dropping the
event where the buffer is full; subscribing and unsubscribing take the write lock.
Trimming may cut the stored copy of a dismissed derived entry, which is then shown
unread again: `DismissedUntilTrimmed` says exactly that.

### Gateway

Every route of `router.go` with its handler, its chain of gates in order (`Chain`),
what the handler asks of the request, and the status it answers with. `deployment`
is what the environment variables decide (JWT or opaque tokens, post-quantum
sessions, service tokens, development routes).
One action per gate, so calls interleave between gates; what they share is the
buckets of the limiters, the edge's binding of idempotency keys to bodies and the
service's cached results. Whether a call satisfies a step-up or cooling-off gate is an
input here. Two handlers ask for the user on a route without `Auth`. The one of
`/v1/oauth/authorize` answers 401 to everyone. `pinSet` goes on with the `userId` of
its body and answers 401 where there is none (`Nameless`); its "authenticated PIN
change (session present), the normal path" is never taken, whatever token a client
sends. Two operations keep results under the client's key, `InitiateTransaction` for
a day and `ContributeGoal` for good (`Keeps`, `Remembered`, `Cached`), and both ask
this cache first and look at no body. For payments `RequireIdempotency` has compared
the bodies; the routes of goals are not among those it is given, so a contribution
under the key of an earlier one is answered with that one's result whatever its
amount. `AnswersMatchBody` promises no more of it.

### Persistence

One customer. Memory, database, `jobs` (saves in goroutines, run in any order or
lost in a crash, their errors dropped), and the write-through of
`InitiateTransaction` (`Debit`, one `PersistNext` per save, `Acknowledge`), in which
breaker or database may reject and the save becomes an outbox event without data.
Inserts carry the id the customer has in memory; the tables refer to the id the
database made, so saves of a customer registered since the last start fail on the
foreign key. The schema is what `db.Migrate` makes of an empty database: its last
migration (`20260725090001`) fails, on an index over a column that an earlier one
did not create, and is rolled back, which `main` logs. (The other way to a schema,
the compose file's mount of the migrations as initialisation scripts, stops earlier
and is left aside.) Three inserts fail on that schema for everybody (`WellFormed`): those of
transactions (a placeholder short), of payments (no id for a key without a default)
and of emergency contacts (columns their table does not have, as it was first
created by `20260417090008`). Contacts and transactions cannot be read either
(`Unreadable`), the latter for a column that only the last migration adds. `Start`
reads each of the other tables or fails to. Consequences the properties step around, each a hazard in `PROJECT.json`: unfreezing is not saved, so the freeze
returns; deleted records come back; a changed account, goal or payment is saved as
one more row.

### Endpoints

Each endpoint is a program: a sequence of steps that take at most one of
`Service.mu` and `expandedState.mu`, have an effect on a table and release some
locks. Endpoints with one program behave alike, whatever they compute. `MayLock` is
`sync.RWMutex`, including that a waiting writer (`Wait`) keeps readers out.
The programs are tables of constants, and what the proofs need of them is stated as
`LockOrder` and `OrderSteps`, which TLC evaluates on every run of the module.
`Funds` pays for one buy order, so that handlers compete for it.
`VerifyOTPToken` appends to the audit trail without its lock: `BareAudit` lets one of
two simultaneous appends be lost. `settings_consent_history` and
`findInsurancePolicy` read maps of the service without its lock; as readers only
they are modelled without a step for it.

## 3. Runs

| Run | Checks | Bounds |
|---|---|---|
| `resilience` | breaker: `TypeOK`, `NeverWedged`, `ClosedBelowThreshold`, `ClosesOnlyAfterRecovery`, `Recovers`; outbox: `NothingLost`, `NotRepublished`, `FirstAttemptsInOrder`, `EventuallySettled` | 3 callers, thresholds 2 and 2, 5 failures; 3 events, batches of 2, 3 retries |
| `circuit_breaker_one_probe` | `OneProbeAtATime`: violated | same breaker |
| `payments` | `TypeOK`, `OneDebitPerKey`, `DebitsBoundedByReviews` | 2 clients, 1 key, amount 2, accounts 3 + 2, 2 transactions, 1 demotion |
| `payments_goals` | `MoneyConserved`, `MoneyMovesOnce` | 1 client, amounts 1 and 2, accounts 2 + 1, 1 transaction, 1 goal |
| `payments_book` | `BookIsSourceOfTruth`: violated | 1 client |
| `payments_cooling_off` | `NoPayoutInCoolingOff`: violated | 2 clients |
| `sessions` | `RotatedOnce`, `NoTokenDoubling`, `RevokedStaysDead` | 3 tokens, 2 refreshes, 1 PIN setter, TTL, grace and latency 1, 3 ticks |
| `sessions_pin_change` | `NoSessionSurvivesPINChange`: violated | 3 tokens |
| `step_up` | `CodeAcceptedOnce`, `ChallengeConsumedOnce`, `TriesBounded`, `NoDeadlock` | 2 requests in flight (any number in sequence), all 7 routes, 2 codes, 1 challenge, lockout after 2, enforcement off |
| `ledger` | `ChainIntact`, `ImplementsLog`, `GateAgreesWithRule`, `MirrorCompleteBehindWatermark`, `MirrorCatchesUp` | 2 users, windows 1 and 2, 3 events, 2 proposals in flight, blocks of 2, 1 tick, 1 failed write, 1 closed stream |
| `services` | gateway: `AdminNeedsBoth`, `HandlersKnowTheirUser`, `GuessesBounded`, `AnswersMatchBody` | every route, 6 environments, one flaw per call; 3 guesses, 3 payments or a payment and 2 contributions at once, limits 3, 1 and 1, window 2, key lifetime 2, clock 3 |
| | feed and streams: `EntriesUnique`, `DismissedUntilTrimmed`, `NoSendOnClosed`, `PublishersFinish` | 2 pushes, 1 other event, 3 streams of which 2 may be open, buffer 1, 2 dismissals, 2 entries stored |
| | ledger: `EnforcedTransactions` | 2 users, window 2, 5 events, 2 ticks |
| | persistence: `ChoicesSurvive`, `SavedRecordsRestored` | 3 operations, 2 faults |
| | endpoints: `EndpointsNeverStuck`, `OrdersFunded`, `BindingKeepsOwner` | every two programs by one user; SIM binding and re-verification by two |
| `persistence_durable` | `AcknowledgedIsDurable`: violated | 3 operations |

`resilience` and `services` put components side by side that share no state: the
variable `part`, fixed in the initial state, says which one moves, so the run
explores the sum of their states.

Why the bounds are enough to be interesting. *Breaker*: five failures open it,
fail a probe and open it again with drift left over; three callers give one stray
call beside two probes. *Outbox*: three events and batches of two leave one behind
a failing pair. *Payments*: amount 2 against 3 + 2 settles twice, the second time
spilling over into the other accounts, and is then refused; two clients race for
one key. *Goals*: the target is reached in one or two contributions, and one more
exceeds the funds. *Sessions*: three tokens give a login and two rotations; three
ticks take a token through expiry, grace and the pruning of its revocation.
*Step-up*: two codes give a replacement during a verification, and two requests a
race for one code or one challenge. `TriesBounded` is sharp: the code in fact
permits one try more than the threshold, that of a verifier already inside when
the new code was stored. *Ledger*: two proposals of one user race for one head, also
within a block; three events give a window that is opened twice, or a consent taken
back and given again; one tick is the difference between a window of 1 and of 2.
*Gateway*: every check refuses somebody; three guesses with a limit of one fall on
both sides of a window's end; three payments under one key meet its expiry, a
contribution under it meets another one's result. *In-memory ledger*: five events are
two writers with their audit items and one access more.
*Streams*: a third stream is refused until one leaves; a buffer of one is full after
one event. *Persistence*: three operations and two faults register a customer,
restart, make two choices and lose one of them. *Endpoints*: a deadlock between two
locks needs two handlers; every pair is tried.
Symmetry is used only for interchangeable clients, tokens, requests and codes, and
only in runs that check no liveness.

Deadlock is checked except in `sessions`, `ledger`, `services` and
`persistence_durable`, whose clocks, supplies of events and operations are bounded
and may run out; handlers that wait for each other are found by `NoDeadlock` and
`EndpointsNeverStuck`.

### Fairness

* `BreakerFairness`: calls in flight return (the guarded writes have
  timeouts), the clock advances, and somebody keeps calling (write traffic and the
  worker do not cease). No fairness for any particular caller. `MaxFailures` is
  the bound after which the dependency no longer fails: `Recovers` says what
  happens then.
* `OutboxFairness`: the worker's ticker fires and its loop goes on; handlers and
  the publisher owe nothing.
* `FabricSync!FairSpec`: `Run` reconnects after a backoff and reads on; nobody has
  to submit anything. Writes and streams fail a bounded number of times.
* `NotifFairness`: the scheduler runs every publisher that can run; nothing makes a
  client read its stream or leave it.
* The other specifications assert safety only.

### Findings

Five runs expect a violation: a comment says one thing and the code does another.

1. *One probe at a time* (`infrastructure.go:247`). The probe that opens the
   half-open period is not counted, so a second one is let in beside it.
2. *"THE source of truth for balances"* (`ledger_accounting.go:147`). A payment is
   posted before a debit that may fail and the posting stays; overrides, goals and
   orders change the accounts without a posting.
3. *Override gated by cooling-off* (`router.go:525`). The gate looks before the
   handler locks, and the handler does not look again: of two admitted requests
   the first opens a window, the second is settled inside it.
4. *No session survives a PIN change* (`auth_pin.go:332`). A refresh that has
   minted its token but not yet stored it is invisible to `SetPIN`.
5. *Durable before the caller is acknowledged* (`service.go:1735`).
   `CreateTransaction` names 23 columns and gives 22 placeholders, so every insert of
   a transaction fails, becomes an outbox event without data, and the payment is
   acknowledged; for a customer registered since the last start the foreign key is a
   second reason.

## 4. Proofs

A proof module extends the specifications it is about and TLAPS. The only
assumptions are the named `ASSUME`s of the specifications, which TLC evaluates on the
runs' instances:

* thresholds, limits, lifetimes and windows are naturals, the ones that the code
  never sets to zero positive; the markers `NoKey`, `NoToken`, `NoRequest`, `NoCode`
  and `NoChallenge` are not values;
* `SessionsAssumption`: `MaxLatency <= TokenTTL + RefreshGrace`, a refresh is not in
  flight for longer than its revocation is kept (15 seconds of write
  timeout against 20 minutes);
* `LedgerAssumption`: only transactions have the payload of a transaction;
* `NotifAssumption`: the ids of pushed entries are not those of derived ones;
* `GateAssumption`: a deployment has its service tokens set, random or blank;
* `BlockAssumption`, `WindowsAssumption`: the size of a block is a natural, the
  windows are positive;
* `CallsAssumption`, `MirroredAssumption`: what the backend submits to the chaincode
  (`Submitted`): only `InitiateTransaction` records blocked transactions, as the
  resource "transaction". `GateAgreesWithRule` needs it, as the gate's query filters
  by category and the rule by action alone;
* `LockOrder`, `OrderSteps`: facts about the table of programs of the endpoints.

Nothing is assumed of the number of callers, clients, keys, tokens, requests, users,
calls, handlers, goals, proposals or restarts, nor of the length of any history or
block.

**ResilienceProofs**, breaker: `TypeCorrect`, `NotWedged`, `ClosedMeansHealthy`,
`ClosesAfterRecovery`. The inductive invariant is `TypeOK`, `NeverWedged` and
`ClosedBelowThreshold` together with two facts they need:
`NoSlotOutsideHalfOpen` (outside half-open no slot is held, so a period starts at
zero or below: without it `halfOpenCount <= 1` is not inductive) and
`StreakIsSuccessCount` (in half-open the code's `successCount` is the number of calls
that returned successfully in a row in this period, whenever they were admitted). One lemma per critical section.

**ResilienceProofs**, outbox: `OutboxLosesNothing`, `OutboxPublishesPending`,
`OutboxInOrder`. `EntriesOK` says that the flags and retries of an entry agree with
what the publisher has seen of its event; `BatchOK` that what is left of the worker's
batch still waits, each event once, behind entries that were all tried before or are
in the batch before it. The second one is needed because a batch is taken under the
mutex and worked off without it while handlers enqueue.

**PaymentsProofs**: `TypeCorrect`, `IdempotencyEngine`, `DebitsBounded`,
`NoMoneyFromNothing`. The inductive invariant is `TypeOK`, `OneDebitPerKey`,
`UncachedUnpaid` (a key without a cached result has not been debited since its
eviction: this is why a cache miss may debit) and `AllBounded` (per transaction,
`debits <= reviews` while it is pending override and `debits <= 1 + reviews` in any
other status: this is why the status is a sufficient guard). The state splits into
three parts that hardly touch each other, so each handler is summarised by what it
does to each: `TransactionStep`, `CacheStep`, `MoneyStep` are proved of `Next` once
and the invariant's conjuncts from them. `DebitTakesAmount` is the fact about the
spill-over that the money argument rests on.

`Conservation` is the same account told as a sum. `Saved` adds up the goals, and what
a recursive function computes for every length cannot be proved; but a function with
the recursion's equations can be exhibited. `Totals(f, goals)` says that f holds the
running totals and `Balanced` that some such f makes the balance; every step gives
the next f, raised from the changed goal on (`TotalsUpdate`) or longer by one
(`TotalsAppend`), and two such functions agree, by their least difference
(`TotalsAgree`), so f ends with `Saved`.

**SessionsProofs**: `RevocationIsFinal`, `RotationExactlyOnce`, `OneLiveToken`.
`EntriesOutlive` is the heart: an entry of the revocation map outlives its token's
grace and every refresh already working on it, so `pruneLocked` forgets only what
nobody can claim again. With `ClaimsHeld` (a claim stays in the map,
and is one refresh's alone), `DeadRemembered` (a revocation is in this process's map
until the token is past refreshing, and in Postgres unless its row was lost) and
`NoSecondExchange` (whoever is still in flight with an exchanged token will lose at
the claim), a token has at most one child (`OneChild`) and an exchanged one is dead.
Tokens whose row was lost before a restart are excepted, as in the properties.

**StepUpProofs**: `CodeIsSingleUse`, `ChallengeIsSingleUse`, `LockoutBoundsTries`,
`LocksNeverCircular`.
`OneVerifier` (`exp.mu` admits one, and none during the lockout) and `CodesUnspent`
(what the profile holds or the verifier has matched was not accepted before) carry
the first; `CounterFollows` the last: the counter is at most one behind the wrong
tries on the live code, since between storing a code and resetting the counter only
the verifier already inside can try. `LocksHeld` carries the progress theorem: who
holds `exp.mu` is a request inside `VerifyOTPToken`, and a generator that has checked
has a code left to store.

**NotificationsProofs**: `StreamsSafe`, `FeedUnique`, `DismissalsLast`. Streams: the
registry holds open channels, each once, and the channels a publisher has still to
send to are open because it holds the read lock (`TargetsOpen`). Feed: an entry in
it was pushed, under an id no later push has (`PushedOnce`), and what was dismissed
is stored as read until trimmed (`DismissalKept`).

**RecordsProofs**, ledger: `LedgerEnforced`. `Chain` links every event to the one
before it; the rules look at all blocked events but only at the *first* one with a
payload, which is a transaction if the payload is a transaction's (`Recorded`, as no
audit item repeats it), and the step from there to all earlier events is
an argument by the least position (`LeastNatural`), which takes the place of
induction.

**RecordsProofs**, database: `ChoicesDurable`, `RecordsDurable`. A choice whose save
did not go wrong is pending or in its table, and every pending save of it carries
that choice (`FreezeUnderWay`, `ConsentUnderWay`): so the goroutines may run in any
order. What was inserted stays in its table and what is about to be inserted is in
memory unless removed (`SavedInDatabase`, `SavesHeld`), which is what `HydrateFromDB`
needs at a start. It is a statement about accounts, goals and assets: of the other
tables nothing is ever inserted.

**FabricProofs**, chain: `ChainStaysIntact`, `GateAgrees`, `ChainImplementsLog`. The
inductive invariant `ChainInv` (`ChainInductive`) has two halves. `ChainOK`: the
events of a user are numbered 1 to the head's seq without gaps (`Numbered`), each
links to the one before, and the head is the last. `ProposalOK`: a proposal does not
lead by more than one, and if it is still fresh, the rules admit it on the history
*now*, since the head it read cannot have come back. A block writes at most one event
per user (`OneSurvivor`), and that one was fresh when the block began. `SortedBySeq`
and `SortedAppend` turn the set of events into the sequence the rules read and show
that a commit appends to it. The refinement: `RulesPermit` is that the code's three
rules imply the declarative `Permitted`, and `StepsImplemented` that every step is a
step of `AppendLog` or leaves the log alone.

**FabricProofs**, mirror: `MirrorStaysComplete`. `EmittedOK`: the stream carries exactly
the events of the chain, with block numbers that do not go back. `MirrorInv`: what is
behind the watermark or the stream's position is stored, skipped or missed
(`Stored`), and missed events belong to blocks up to the watermark, if there is one
(`MissedEarly`). A
new stream starts at the watermark's block, of which some events may be mirrored
already: `StartsBehind` says that it leaves out only a prefix from earlier blocks, and
`UpsertAdds` that an upsert replaces nothing else. The last conjunct, that a reader
sees the chain, follows by comparing the two sets that `BySeq` sorts.

**ApiProofs**, gateway: `AdminGuarded`, `HandlersServed`, `AnswersOwn`,
`GuessesLimited`. `Passed(i, g)` says that gate g is behind call i in its chain;
`Privileges` what each gate behind a call has established of it, `CallsOK` that a
call only moves along its chain. `HandlersServed` is a fact about the routes: no
table of handlers has one that insists on the user on a route without `Auth`, except
`oauthAuthorize` (`HandlersPublic`), and in every other chain `Auth` comes before
the handler (`UserChain`) and leaves the user (`Users`); what is left is `pinSet`
without a `userId` (`Nameless`). For the keys,
`BindingsHold`: whoever passed the key gate was bound by the entry there now, or by
one that had ended; hence two bodies under one key are a lifetime apart
(`BodiesApart`), although the service's cache looks at no body. A result kept for a
payment is that of a call so bound (`ResultsOK`), one kept for a contribution only
that of a call with the same key (`Paired`). For the limiter, a
fixed window starts with its first request, so any period of a window's length meets
at most two windows (`WindowOK`, `PeriodsOK`), which gives twice the limit.

**ApiProofs**, endpoints: `HandlersNeverStuck`, `OrdersPaid`, `BindingsKept`.
`HandlersOK` says that a handler holds exactly what its program has taken and not
released by its step (`Kept`), so that facts about the table of programs become
facts about handlers wherever they are. The first theorem is a progress statement in
its state form: whoever holds `exp.mu` asks for `Service.mu` next, nobody keeps
`Service.mu` from one step to the next, so some handler's lock is free to take.
`OrderOK` says of each handler, from where it is, what it has debited and recorded;
the balance counts the debits, so none is made twice.

Left to TLC: the liveness properties (`Recovers`, `EventuallySettled`,
`MirrorCatchesUp`, `PublishersFinish`), which need fairness, and the five violations,
which are counterexamples. Every other property of a run is a theorem here. The type
invariants of the modules whose run checks none are stated in the proof modules, as
part of the inductive invariant.

## 5. Not modelled

Real-number and floating-point code (risk scores, health scores, amortisation),
cryptography and signatures (taken to be sound), calls to external banks, KYC, SIM
and AI services (their answers are inputs where they matter), configuration, seed
data and presentation. In `Payments`: beneficiaries, categories and notes, which
move no money, and the book's contributions and revenues, which nothing posts. In `Sessions`: the
opaque tokens of the biometric login, which live under `Service.mu` alone. In
`StepUp`: key registration and challenges bound to an action, which no route asks
for. In `EventLedger`: Merkle proofs, and the write to Fabric that falls back to
memory. In `Persistence`: tables that are saved and never read back, or read and
never written. In `Endpoints`: what the endpoints compute and return. In `Gateway`:
payloads, and the distributed limiter, which the router does not use. The threat
response records playbooks and carries none of them out; its records are in
`Endpoints`.

## 6. Plan

1. An abstract account specification that `Payments` refines.
2. The Fabric client's fallback to the in-memory ledger, with both ledgers in one
   model.
3. `StepUp`: a property on credentials that are verified twice on one route.
