------------------------------- MODULE Outbox -------------------------------
(***************************************************************************)
(* The in-memory outbox of the platform service and the background worker  *)
(* that drains it (infrastructure.go, service.go startOutboxWorker).       *)
(*                                                                         *)
(* Every method of Outbox is one critical section of its mutex; the worker *)
(* strings them together without holding it, so request handlers enqueue   *)
(* while a batch is being published.  The worker holds pointers to the     *)
(* events of its batch; here it holds their identifiers.                   *)
(***************************************************************************)
EXTENDS Naturals, Sequences, FiniteSets, Slices

CONSTANTS
    Events,         \* events the handlers will enqueue
    BatchLimit,     \* the argument of Dequeue, 50 in the code
    MaxRetries      \* failed publications before an event is dead-lettered

ASSUME OutboxAssumption ==
    /\ BatchLimit \in Nat \ {0}
    /\ MaxRetries \in Nat \ {0}

VARIABLES
    events,     \* o.events: sequence of entries in order of arrival
    batch,      \* per worker: identifiers of its dequeued events still to publish
    ticking,    \* per worker: TRUE from Dequeue to the end of the tick
    attempts,   \* history: publications tried, per event
    acks,       \* history: publications that succeeded, per event
    stored,     \* history: events of which the downstream has a copy
    enqueued    \* history: events handed to Enqueue

outboxVars == <<events, batch, ticking, attempts, acks, stored, enqueued>>

(***************************************************************************)
(* NewService starts exactly one worker.                                   *)
(***************************************************************************)
\* Mutant: the router starts a second worker on the same outbox, as it once did.
MutWorkers == {"service", "router"}

Workers == {"service"}

OutboxInit ==
    /\ events = <<>>
    /\ batch = [w \in Workers |-> <<>>]
    /\ ticking = [w \in Workers |-> FALSE]
    /\ attempts = [e \in Events |-> 0]
    /\ acks = [e \in Events |-> 0]
    /\ stored = {}
    /\ enqueued = {}

-----------------------------------------------------------------------------
(***************************************************************************)
(* Outbox.Enqueue, called by the request handlers.                         *)
(***************************************************************************)
Enqueue(e) ==
    /\ e \notin enqueued
    /\ enqueued' = enqueued \cup {e}
    /\ events' = Append(events, [id |-> e, retries |-> 0, processed |-> FALSE,
                                 old |-> FALSE])
    /\ UNCHANGED <<batch, ticking, attempts, acks, stored>>

(***************************************************************************)
(* Outbox.Dequeue: the first `limit' unprocessed events, left in place.    *)
(***************************************************************************)
Pending == {i \in DOMAIN events : ~events[i].processed}

\* Mutant: the newest events are taken first.
MutDequeue(order, limit) ==
    LET n == IF Len(order) < limit THEN Len(order) ELSE limit
    IN  [i \in 1..n |-> events[order[Len(order) + 1 - i]].id]

Dequeue(order, limit) ==
    LET n == IF Len(order) < limit THEN Len(order) ELSE limit
    IN  [i \in 1..n |-> events[order[i]].id]

Tick(w) ==
    /\ ~ticking[w]
    /\ ticking' = [ticking EXCEPT ![w] = TRUE]
    /\ \E order \in InOrder(Pending) :
          batch' = [batch EXCEPT ![w] = Dequeue(order, BatchLimit)]
    /\ UNCHANGED <<events, attempts, acks, stored, enqueued>>

\* Apply Op to the entry with this identifier, if it is still there.
OnEntry(e, Op(_)) ==
    [i \in DOMAIN events |-> IF events[i].id = e THEN Op(events[i]) ELSE events[i]]

MarkProcessed(e) == OnEntry(e, LAMBDA v : [v EXCEPT !.processed = TRUE])

\* Mutant: an event is given up on its first failure.
MutMarkFailed(e) ==
    OnEntry(e, LAMBDA v : [v EXCEPT !.retries = @ + 1, !.processed = TRUE])

MarkFailed(e) ==
    OnEntry(e, LAMBDA v : [v EXCEPT !.retries = @ + 1,
                                    !.processed = @ \/ v.retries + 1 >= MaxRetries])

(***************************************************************************)
(* One turn of the worker's loop over its batch: publishOutboxEvent, then  *)
(* MarkProcessed or MarkFailed.  Nothing else marks entries, so the call   *)
(* and the mark are one step.  The publisher is an XADD over a network: a  *)
(* call that fails has stored the entry or not, the worker cannot tell.    *)
(***************************************************************************)
Publish(w) ==
    LET e == Head(batch[w]) IN
    /\ batch[w] # <<>>
    /\ batch' = [batch EXCEPT ![w] = Tail(@)]
    /\ attempts' = [attempts EXCEPT ![e] = @ + 1]
    /\ \/ /\ events' = MarkProcessed(e)
          /\ acks' = [acks EXCEPT ![e] = @ + 1]
          /\ stored' = stored \cup {e}
       \/ /\ events' = MarkFailed(e)
          /\ stored' = stored \/ stored' = stored \cup {e}
          /\ UNCHANGED acks
    /\ UNCHANGED <<ticking, enqueued>>

(***************************************************************************)
(* Outbox.Purge at the end of a tick drops processed entries past the      *)
(* retention; unprocessed ones are kept.                                   *)
(***************************************************************************)
\* Mutant: everything past the retention is dropped.
MutPurged == {i \in DOMAIN events : events[i].old}

Purged == {i \in DOMAIN events : events[i].processed /\ events[i].old}

EndTick(w) ==
    /\ ticking[w]
    /\ batch[w] = <<>>
    /\ ticking' = [ticking EXCEPT ![w] = FALSE]
    /\ \E kept \in InOrder(DOMAIN events \ Purged) :
          events' = [i \in DOMAIN kept |-> events[kept[i]]]
    /\ UNCHANGED <<batch, attempts, acks, stored, enqueued>>

(***************************************************************************)
(* The clock: an entry's CreatedAt falls behind the retention.  Entries    *)
(* are created in order, so they also grow old in order.                   *)
(***************************************************************************)
Age ==
    \E i \in DOMAIN events :
        /\ ~events[i].old
        /\ \A j \in 1..(i - 1) : events[j].old
        /\ events' = [events EXCEPT ![i].old = TRUE]
        /\ UNCHANGED <<batch, ticking, attempts, acks, stored, enqueued>>

OutboxWorker(w) == Tick(w) \/ Publish(w) \/ EndTick(w)

OutboxNext ==
    \/ \E e \in Events : Enqueue(e)
    \/ \E w \in Workers : OutboxWorker(w)
    \/ Age

OutboxSpec == OutboxInit /\ [][OutboxNext]_outboxVars

(***************************************************************************)
(* Fairness of the worker only: its ticker fires, its loop makes progress. *)
(* Handlers owe nothing, and the publisher may fail every time.            *)
(***************************************************************************)
OutboxFairness == \A w \in Workers : WF_outboxVars(OutboxWorker(w))

-----------------------------------------------------------------------------
DeadLettered(e) == attempts[e] = MaxRetries /\ acks[e] = 0

Waiting(e) == \E i \in DOMAIN events : events[i].id = e /\ ~events[i].processed

(***************************************************************************)
(* No event is lost: whatever was enqueued is still waiting for the        *)
(* worker, has been published, or used up its retries ("only mark an event *)
(* processed when its downstream publish actually succeeds", M-12).        *)
(***************************************************************************)
NothingLost ==
    \A e \in enqueued : Waiting(e) \/ acks[e] > 0 \/ DeadLettered(e)

(***************************************************************************)
(* An event is published again only while no publication of it was         *)
(* acknowledged and its retries last: whatever handlers enqueue and the    *)
(* purge drops meanwhile, an acknowledged event is not handed to the       *)
(* publisher again, nor is a dead-lettered one.  The downstream may still  *)
(* get copies: an event it stored is sent again if the answer was lost.    *)
(***************************************************************************)
NotRepublished ==
    [][\A e \in Events :
          attempts'[e] # attempts[e] \/ e \in stored' \ stored
             => acks[e] = 0 /\ attempts[e] < MaxRetries]_outboxVars

(***************************************************************************)
(* Events are first offered downstream in the order they were enqueued,    *)
(* failures and concurrent arrivals included.                              *)
(***************************************************************************)
FirstAttemptsInOrder ==
    \A i, j \in DOMAIN events :
        i < j /\ attempts[events[j].id] > 0 => attempts[events[i].id] > 0

(***************************************************************************)
(* Every event is settled in the end: published, or dead-lettered after    *)
(* MaxRetries failures; none starves behind failing or newer events.       *)
(***************************************************************************)
EventuallySettled ==
    \A e \in Events : e \in enqueued ~> acks[e] > 0 \/ DeadLettered(e)
=============================================================================
