----------------------------- MODULE FabricSync -----------------------------
(***************************************************************************)
(* The mirror of the chain in Postgres (infra/fabric/sync.go): a syncer     *)
(* streams chaincode events from the last mirrored block on, upserts each   *)
(* into ledger_events and advances a watermark.  Reads of the API are       *)
(* served from the mirror, proofs from the chain (adapter.go).              *)
(***************************************************************************)
EXTENDS Chaincode, SequencesExt

CONSTANTS
    MirroredCalls,      \* bound: the calls made while there is a mirror
    MaxFailures,        \* bound on the writes to Postgres that fail
    MaxDrops            \* bound on the streams that close

ASSUME MirroredAssumption == \A s \in MirroredCalls : Submitted(s)

VARIABLES
    pool,               \* Postgres is configured; without it Run returns at once
    mirror,             \* ledger_events: [event, block], unique in (user, seq)
    watermark,          \* ledger_sync_state.last_block_num
    stream,             \* position in emitted of the open stream, or Closed
    failures,           \* failed writes so far
    drops,              \* closed streams so far
    skipped,            \* history: events whose upsert failed
    missed              \* history: events a stream without a start block left
                        \* behind, though they were not mirrored

syncVars == <<pool, mirror, watermark, stream, failures, drops, skipped, missed>>
vars == <<chainVars, syncVars>>

Closed == -1

Init ==
    /\ ChainInit
    /\ pool \in BOOLEAN
    /\ mirror = {}
    /\ watermark = 0
    /\ stream = Closed
    /\ failures = 0
    /\ drops = 0
    /\ skipped = {}
    /\ missed = {}

-----------------------------------------------------------------------------
\* Mutant: a new stream starts behind the last mirrored block.
MutStartOf(block) ==
    IF block = 0 THEN Len(emitted)
    ELSE Cardinality({i \in DOMAIN emitted : emitted[i].block <= block})

\* Client.Events: without a start block the stream begins with the next block.
StartOf(block) ==
    IF block = 0 THEN Len(emitted)
    ELSE Cardinality({i \in DOMAIN emitted : emitted[i].block < block})

\* Run and the beginning of stream: read the watermark, subscribe.  The
\* watermark is 0 until the first update of it succeeds, whatever was mirrored
\* by then, so not only the first stream may begin with the next block.
Connect ==
    /\ pool
    /\ stream = Closed
    /\ stream' = StartOf(watermark)
    /\ missed' = IF watermark > 0 THEN missed
                 ELSE missed \cup {e.event : e \in ToSet(emitted) \ mirror}
    /\ UNCHANGED <<chainVars, pool, mirror, watermark, failures, drops, skipped>>

\* upsert: INSERT ... ON CONFLICT (user_id, seq) DO UPDATE.
Upsert(e) ==
    {r \in mirror : r.event.user # e.event.user \/ r.event.seq # e.event.seq} \cup {e}

\* One event of the stream, written; the update of the watermark may fail.
Mirror ==
    /\ stream # Closed
    /\ stream < Len(emitted)
    /\ mirror' = Upsert(emitted[stream + 1])
    /\ stream' = stream + 1
    /\ \/ /\ watermark' = emitted[stream + 1].block
          /\ UNCHANGED failures
       \/ /\ failures < MaxFailures
          /\ failures' = failures + 1
          /\ UNCHANGED watermark
    /\ UNCHANGED <<chainVars, pool, drops, skipped, missed>>

\* The upsert fails: the error is logged and the loop goes on.
MirrorFails ==
    /\ stream # Closed
    /\ stream < Len(emitted)
    /\ failures < MaxFailures
    /\ failures' = failures + 1
    /\ stream' = stream + 1
    /\ skipped' = skipped \cup {emitted[stream + 1].event}
    /\ UNCHANGED <<chainVars, pool, mirror, watermark, drops, missed>>

\* The stream closes, or the process stops: Run starts over with the watermark.
CloseStream ==
    /\ stream # Closed
    /\ drops < MaxDrops
    /\ drops' = drops + 1
    /\ stream' = Closed
    /\ UNCHANGED <<chainVars, pool, mirror, watermark, failures, skipped, missed>>

SyncNext == Connect \/ Mirror \/ MirrorFails \/ CloseStream

(***************************************************************************)
(* The rules of the chain do not depend on the mirror, nor the mirror on    *)
(* what the events say or when they happen: with the mirror attached only   *)
(* MirroredCalls are made and the clock stands still, which keeps the state *)
(* space to the sum of the two.                                             *)
(***************************************************************************)
Next ==
    \/ ChainNext(IF pool THEN MirroredCalls ELSE Calls) /\ UNCHANGED syncVars
    \/ ~pool /\ ChainTick /\ UNCHANGED syncVars
    \/ SyncNext

Spec == Init /\ [][Next]_vars

\* Run reconnects with a backoff and reads on; writes and streams fail for a
\* while only.  Nobody has to submit anything.
FairSpec == Spec /\ WF_vars(Connect) /\ WF_vars(Mirror)

-----------------------------------------------------------------------------
\* LedgerAdapter.QueryByUser: the rows of a user, ordered by seq.
ReadMirror(u) == BySeq({r.event : r \in {m \in mirror : m.event.user = u}})

(***************************************************************************)
(* However the submissions of a user race between endorsement and commit,   *)
(* GetProof finds the chain intact, gapless in seq, and the head key names  *)
(* its last event (main.go, RecordEvent with readHead and writeHead).       *)
(***************************************************************************)
ChainIntact ==
    \A u \in Users :
        /\ Intact(u)
        /\ \A ev \in world[u] : ev.seq \in 1..Cardinality(world[u])
        /\ head[u].seq = Cardinality(world[u])
        /\ world[u] # {} => head[u].hash = Last(QueryByUser(u)).hash

(***************************************************************************)
(* The chain implements the append-only log of permitted entries: rules     *)
(* evaluated at endorsement still hold where the entry is appended          *)
(* (main.go, enforceRules: "rule is genuinely enforced").                   *)
(***************************************************************************)
ImplementsLog == Log!Spec

(***************************************************************************)
(* What is behind the watermark is in the mirror, in one row with the block *)
(* that committed it, with two exceptions, and both are lost for good: what *)
(* a failed write skipped, and what was committed but not mirrored when a   *)
(* stream was opened with the watermark still at 0.  The second kind ends   *)
(* with the first successful update of the watermark: no event of a later   *)
(* block is ever missed.  A reader of a mirror that has caught up without   *)
(* either sees the chain (sync.go, stream and upsert; adapter.go,           *)
(* readMirror).                                                             *)
(***************************************************************************)
MirrorCompleteBehindWatermark ==
    /\ \A i \in DOMAIN emitted :
          emitted[i].block < watermark =>
              emitted[i] \in mirror \/ emitted[i].event \in skipped \cup missed
    /\ \A i \in DOMAIN emitted :
          0 < watermark /\ watermark < emitted[i].block =>
              emitted[i].event \notin missed
    /\ mirror \subseteq ToSet(emitted)
    /\ stream = Len(emitted) /\ skipped \cup missed = {} =>
          \A u \in Users : ReadMirror(u) = QueryByUser(u)

(***************************************************************************)
(* What VerifyCoolingOff reports to the gate in front of the handlers is    *)
(* what RecordEvent would enforce: it reports a window exactly when a       *)
(* payment recorded now would be refused because of one.                    *)
(***************************************************************************)
GateAgreesWithRule ==
    \A u \in Users :
        CoolingOffActive(u) <=>
            ~CoolingOffRule([action |-> "transaction_initiated", time |-> now], QueryByUser(u))

(***************************************************************************)
(* Every event on the chain reaches the mirror, whatever streams close and  *)
(* watermark updates fail, unless its own write failed or a stream was      *)
(* opened behind it while the watermark was still 0: the first one, or a    *)
(* later one if no update of the watermark had succeeded by then.           *)
(***************************************************************************)
MirrorCatchesUp ==
    \A u \in Users : \A n \in 1..MaxEvents :
        (pool /\ \E ev \in world[u] : ev.seq = n)
            ~> \/ \E r \in mirror : r.event.user = u /\ r.event.seq = n
               \/ \E ev \in skipped \cup missed : ev.user = u /\ ev.seq = n
=============================================================================
