----------------------------- MODULE Chaincode -----------------------------
(***************************************************************************)
(* The FINIX chaincode on Hyperledger Fabric (chaincode/finix/main.go): an  *)
(* event chain per user, whose rules are enforced by RecordEvent.           *)
(*                                                                          *)
(* Fabric runs a submission in three steps.  A peer simulates RecordEvent   *)
(* on the state committed so far and signs what it read and wrote           *)
(* (endorsement); the ordering service puts the proposals of a block in     *)
(* some order; every peer then validates them one by one and drops those    *)
(* whose reads are outdated.  Any number of submissions of one user may be  *)
(* between the first step and the last.                                     *)
(***************************************************************************)
EXTENDS Integers, Sequences, FiniteSets, FiniteSetsExt, Slices

CONSTANTS
    Users,
    Calls,              \* the calls of RecordEvent: [user, action, resource, payload]
    Windows,            \* durations SetCoolingOffWindow may be called with
    MaxEvents,          \* bound on the committed events
    MaxInFlight,        \* bound on the endorsed, uncommitted proposals
    MaxBlock,           \* the most proposals that are ordered into one block
    MaxTime             \* bound on the clock

ASSUME WindowsAssumption == Windows \subseteq Nat \ {0}
ASSUME BlockAssumption == MaxBlock \in Nat

\* What the backend submits: InitiateTransaction (service.go) is the only one
\* to record blocked transactions, as the resource "transaction".
Submitted(s) ==
    /\ s.user \in Users
    /\ s.action = "transaction_blocked" => s.resource = "transaction"

ASSUME CallsAssumption == \A s \in Calls : Submitted(s)

VARIABLES
    world,              \* world state: the events under a user's composite keys
    head,               \* world state: per user, [seq, hash] of the last event
    window,             \* world state: config~coolingOffWindow, or the default
    proposals,          \* endorsed submissions
    emitted,            \* the stream of chaincode events: [event, block]
    height,             \* number of the last block, counting those with events
    now                 \* the clock that gives transactions their timestamps

chainVars == <<world, head, window, proposals, emitted, height, now>>

NoHash == << >>

ChainInit ==
    /\ world = [u \in Users |-> {}]
    /\ head = [u \in Users |-> [seq |-> 0, hash |-> NoHash]]
    /\ window \in Windows
    /\ proposals = {}
    /\ emitted = << >>
    /\ height = 0
    /\ now = 0

-----------------------------------------------------------------------------
(***************************************************************************)
(* Helpers.                                                                *)
(***************************************************************************)
ValidCategories ==
    {"transaction", "payment", "consent", "kyc", "goal", "security", "audit",
     "blockchain_record"}

\* blockchain.categoryFor, which the backend applies before it submits.
CategoryFor(resource) == IF resource \in ValidCategories THEN resource ELSE "audit"

\* eventHash: SHA-256, taken to be collision-free, is the tuple it digests.
EventHash(ev) ==
    <<ev.prevHash, ev.payload, ev.user, ev.action, ev.category, ev.seq, ev.time>>

\* sort.SliceStable in queryByPartial: the event at position i has i - 1 events
\* before it.
BySeq(S) ==
    [i \in 1..Cardinality(S) |->
        CHOOSE ev \in S : Cardinality({e \in S : e.seq < ev.seq}) = i - 1]

\* queryByPartial: a user's events in the order of their seq.
QueryByUser(u) == BySeq(world[u])

\* Mutant: only the last event is looked at.
MutCoolingOffRule(ev, history) ==
    ev.action \in {"transaction_initiated", "transaction_override"} =>
        \A i \in DOMAIN history \cap {Len(history)} :
            history[i].action = "transaction_blocked" => ev.time - history[i].time >= window

\* coolingOffRule.
CoolingOffRule(ev, history) ==
    ev.action \in {"transaction_initiated", "transaction_override"} =>
        \A i \in DOMAIN history :
            history[i].action = "transaction_blocked" => ev.time - history[i].time >= window

\* consentRevocationRule: the last decision taken before the event counts.
ConsentRevocationRule(ev, history) ==
    LET decisions ==
          {i \in DOMAIN history :
              /\ history[i].action \in {"consent_revoked", "consent_granted", "consent_updated"}
              /\ history[i].time < ev.time}
        access == \/ ev.category \in {"account_aggregator", "data_export"}
                  \/ ev.action \in {"account_aggregator_sync", "data_exported"}
    IN  access /\ decisions # {} => history[Max(decisions)].action # "consent_revoked"

\* doubleSpendRule.
DoubleSpendRule(ev, history) ==
    ev.action = "transaction_initiated" =>
        ~ \E i \in DOMAIN history :
            /\ history[i].action = "transaction_initiated"
            /\ history[i].payload = ev.payload
            /\ history[i].time # ev.time

EnforceRules(ev, history) ==
    /\ CoolingOffRule(ev, history)
    /\ ConsentRevocationRule(ev, history)
    /\ DoubleSpendRule(ev, history)

\* Mutant: the window is counted from the first blocked transaction.
MutCoolingOffActive(u) ==
    LET blocked == {ev \in world[u] : /\ ev.category = "transaction"
                                      /\ ev.action = "transaction_blocked"}
    IN  blocked # {} /\ now < Min({ev.time : ev \in blocked}) + window

\* coolingOffState, as VerifyCoolingOff asks it.
CoolingOffActive(u) ==
    LET blocked == {ev \in world[u] : /\ ev.category = "transaction"
                                      /\ ev.action = "transaction_blocked"}
    IN  blocked # {} /\ now < Max({ev.time : ev \in blocked}) + window

\* GetProof: the links and the hashes of the chain, in the order of seq.
Intact(u) ==
    LET events == QueryByUser(u) IN
    \A i \in DOMAIN events :
        /\ events[i].prevHash = IF i = 1 THEN NoHash ELSE events[i - 1].hash
        /\ events[i].hash = EventHash(events[i])

-----------------------------------------------------------------------------
(***************************************************************************)
(* Operations.                                                             *)
(***************************************************************************)

\* The event RecordEvent builds from what it reads.
NewEvent(s) ==
    LET ev == [user |-> s.user, action |-> s.action, category |-> CategoryFor(s.resource),
               payload |-> s.payload, prevHash |-> head[s.user].hash,
               time |-> now, seq |-> head[s.user].seq + 1, hash |-> NoHash]
    IN  [ev EXCEPT !.hash = EventHash(ev)]

\* RecordEvent at endorsement.  A rule violation or an invalid argument is an
\* error to the caller and leaves nothing behind.
RecordEvent(s) ==
    LET ev == NewEvent(s) IN
    /\ Cardinality(proposals) < MaxInFlight
    /\ ev.category \in ValidCategories
    /\ EnforceRules(ev, QueryByUser(s.user))
    /\ proposals' = proposals \cup {ev}
    /\ UNCHANGED <<world, head, window, emitted, height, now>>

\* Mutant: the head names the seq of the next event.
MutHeadWritten(ev) == [seq |-> ev.seq + 1, hash |-> ev.hash]

\* writeHead.
HeadWritten(ev) == [seq |-> ev.seq, hash |-> ev.hash]

\* Validation: a proposal read its user's head key and event range, and is
\* dropped if either was written since, by an earlier proposal of the same
\* block too.
Fresh(ev) == head[ev.user] = [seq |-> ev.seq - 1, hash |-> ev.prevHash]

Survivors(block) ==
    {i \in DOMAIN block :
        /\ Fresh(block[i])
        /\ \A j \in 1..(i - 1) : ~(Fresh(block[j]) /\ block[j].user = block[i].user)}

\* What a block writes under the keys of a user: one event or none.
WrittenFor(u, block) == {block[i] : i \in {k \in Survivors(block) : block[k].user = u}}

\* The block is committed, and its events go out on the stream.
Commit(block, valid) ==
    /\ Len(emitted) + Len(valid) <= MaxEvents
    /\ world' = [u \in Users |-> world[u] \cup WrittenFor(u, block)]
    /\ head' = [u \in Users |->
                  IF WrittenFor(u, block) = {} THEN head[u]
                  ELSE HeadWritten(CHOOSE ev \in WrittenFor(u, block) : TRUE)]
    /\ emitted' = emitted \o [i \in DOMAIN valid |->
                                [event |-> block[valid[i]], block |-> height + 1]]
    /\ height' = height + (IF valid = << >> THEN 0 ELSE 1)
    /\ proposals' = proposals \ {block[i] : i \in DOMAIN block}
    /\ UNCHANGED <<window, now>>

\* Some of the proposals are ordered into a block, which every peer validates.
CommitBlock ==
    \E n \in 1..MaxBlock : \E block \in [1..n -> proposals] :
        /\ \A i, j \in 1..n : block[i] = block[j] => i = j
        /\ \E valid \in InOrder(Survivors(block)) : Commit(block, valid)

\* The gateway gives up on a proposal that is never ordered.
DropProposal ==
    \E ev \in proposals :
        /\ proposals' = proposals \ {ev}
        /\ UNCHANGED <<world, head, window, emitted, height, now>>

\* SetCoolingOffWindow, committed in a block of its own.  Every proposal in
\* flight has read the old value, so validation will drop it.
SetCoolingOffWindow(w) ==
    /\ w # window
    /\ window' = w
    /\ proposals' = {}
    /\ UNCHANGED <<world, head, emitted, height, now>>

ChainTick ==
    /\ now < MaxTime
    /\ now' = now + 1
    /\ UNCHANGED <<world, head, window, proposals, emitted, height>>

\* The steps in which only calls of the set C are made.
ChainNext(C) ==
    \/ \E s \in C : RecordEvent(s)
    \/ CommitBlock
    \/ DropProposal
    \/ \E w \in Windows : SetCoolingOffWindow(w)

-----------------------------------------------------------------------------
(***************************************************************************)
(* The world state is an append-only log per user whose entries the rules   *)
(* permit after everything before them, although the rules were evaluated   *)
(* at endorsement, on an older state than the one the entry joins.          *)
(***************************************************************************)
LogOf(u) ==
    LET events == QueryByUser(u) IN
    [i \in DOMAIN events |-> [action |-> events[i].action,
                              payload |-> events[i].payload,
                              time |-> events[i].time]]

Log == INSTANCE AppendLog WITH log <- [u \in Users |-> LogOf(u)], window <- window
=============================================================================
