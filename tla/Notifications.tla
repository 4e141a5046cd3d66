--------------------------- MODULE Notifications ---------------------------
(***************************************************************************)
(* The notification feed of one customer and its event streams              *)
(* (platform/service.go, platform/notifications.go, sseStream in            *)
(* api/router.go).  The feed merges the entries the platform pushed, kept   *)
(* under notifMu and trimmed, with entries derived from the customer's      *)
(* activity at every read.  Streams are channels in a registry under the    *)
(* read-write lock sseMu; every event is published by a goroutine of its    *)
(* own.  Users share nothing here but the locks.                            *)
(***************************************************************************)
EXTENDS Integers, Sequences, SequencesExt, FiniteSets

CONSTANTS
    Pushes,          \* the notifications the platform may push
    BareEvents,      \* transaction, goal and threat events: streamed only
    Streams,         \* the event-stream requests
    Dismissals,      \* the dismiss requests
    MaxStored,       \* the 100 entries PushNotification keeps
    MaxConnections,  \* maxSSEConnectionsPerUser
    Buffer,          \* the 16 events a channel holds
    MaxActivity      \* bound on what the customer does

\* The ids of the derived entries.
DerivedIDs ==
    {"ntf_txn", "ntf_sec", "ntf_goal_25", "ntf_goal_50", "ntf_goal_75", "ntf_goal_100",
     "ntf_prem"}

\* PushNotification gives its entries ids of their own, which no derived entry has.
ASSUME NotifAssumption ==
    /\ Pushes \cap DerivedIDs = {}
    /\ MaxStored \in Nat \ {0}
    /\ MaxConnections \in Nat
    /\ Buffer \in Nat
    /\ MaxActivity \in Nat

VARIABLES
    activity,        \* what the feed derives entries from
    settings,        \* the categories the customer has switched on
    centre,          \* notificationCenter: entries [id, read], newest first
    dismissal,       \* the dismiss requests in progress
    dismissed,       \* history: the ids whose dismissal succeeded
    trimmed,         \* history: the ids PushNotification cut off
    subs,            \* sseSubscribers
    channel,         \* the channel of each stream
    publisher,       \* the goroutines running PublishSSE
    panicked         \* history: a send on a closed channel

notifVars == <<activity, settings, centre, dismissal, dismissed, trimmed,
               subs, channel, publisher, panicked>>

Categories == {"transactions", "security", "goals", "insights"}
Idle == [pc |-> "idle"]

\* One payment, one audit event, one policy and one goal, the last measured in
\* quarters of its target.  Register switches every category on; what
\* HydrateFromDB reads may differ, and no endpoint changes it.
NotifInit ==
    /\ activity = [payment |-> "none", audit |-> "none", goal |-> 0, due |-> FALSE,
                   count |-> 0]
    /\ settings \in {Categories, Categories \ {"goals"}}
    /\ centre = << >> /\ dismissed = {} /\ trimmed = {}
    /\ dismissal = [d \in Dismissals |-> Idle]
    /\ subs = << >>
    /\ channel = [c \in Streams |-> [state |-> "new", buf |-> << >>]]
    /\ publisher = [e \in Pushes \cup BareEvents |-> Idle]
    /\ panicked = FALSE

-----------------------------------------------------------------------------
(***************************************************************************)
(* The derived entries.                                                    *)
(***************************************************************************)
\* transactionNotificationsLocked: settled payments within the window.
TransactionEntries == IF activity.payment = "success" THEN {"ntf_txn"} ELSE {}

\* securityNotificationsLocked: the audit events that have a title.
SecurityEntries == IF activity.audit = "emergency_freeze" THEN {"ntf_sec"} ELSE {}

\* goalNotificationsLocked: only the highest milestone reached.
GoalEntries ==
    CASE activity.goal = 0 -> {}
      [] activity.goal = 1 -> {"ntf_goal_25"}
      [] activity.goal = 2 -> {"ntf_goal_50"}
      [] activity.goal = 3 -> {"ntf_goal_75"}
      [] OTHER             -> {"ntf_goal_100"}

\* dueDateNotificationsLocked: premiums due within the fortnight.
DueDateEntries == IF activity.due THEN {"ntf_prem"} ELSE {}

\* derivedNotifications, under the read lock of the service.
Derived ==
    UNION {IF "transactions" \in settings THEN TransactionEntries ELSE {},
           IF "security" \in settings THEN SecurityEntries ELSE {},
           IF "goals" \in settings THEN GoalEntries ELSE {},
           IF "insights" \in settings THEN DueDateEntries ELSE {}}

StoredIDs == {centre[i].id : i \in DOMAIN centre}

\* Mutant: the derived entries are added whatever is stored.
MutNotificationCentre ==
    ToSet(centre) \cup {[id |-> d, read |-> FALSE] : d \in Derived}

\* NotificationCentre: the stored copy of an entry is authoritative.  (Order
\* and paging are left out: the feed is the set of its entries.)
NotificationCentre ==
    ToSet(centre) \cup {[id |-> d, read |-> FALSE] : d \in Derived \ StoredIDs}

-----------------------------------------------------------------------------
(***************************************************************************)
(* What the customer and the platform do.                                  *)
(***************************************************************************)
\* A payment is made and settles, leaves the window; the audit trail and the
\* goal grow; a premium falls due.
Act ==
    LET Becomes(field, value) ==
            activity' = [activity EXCEPT ![field] = value, !.count = @ + 1] IN
    /\ activity.count < MaxActivity
    /\ \/ activity.payment = "none" /\ Becomes("payment", "success")
       \/ activity.payment = "success" /\ Becomes("payment", "old")
       \/ activity.audit = "none" /\ \E a \in {"emergency_freeze", "consent_updated"} :
             Becomes("audit", a)
       \/ \E g \in (activity.goal + 1)..4 : Becomes("goal", g)
       \/ ~activity.due /\ Becomes("due", TRUE)
    /\ UNCHANGED <<settings, centre, dismissal, dismissed, trimmed,
                   subs, channel, publisher, panicked>>

\* DismissNotification, up to notifMu: the derived entries are computed.
DismissReads(d, id) ==
    /\ dismissal[d] = Idle
    /\ dismissal' = [dismissal EXCEPT ![d] = [pc |-> "read", id |-> id, derived |-> Derived]]
    /\ UNCHANGED <<activity, settings, centre, dismissed, trimmed,
                   subs, channel, publisher, panicked>>

\* Mutant: a derived entry is appended without looking for it again.
MutDismissed(r) ==
    IF r.id \in r.derived THEN Append(centre, [id |-> r.id, read |-> TRUE])
    ELSE [i \in DOMAIN centre |-> IF centre[i].id = r.id
                                  THEN [centre[i] EXCEPT !.read = TRUE] ELSE centre[i]]

\* Its critical section: the stored entry is marked, else a read copy of the
\* derived one is appended, else nothing is found.
Dismissed(r) ==
    IF r.id \in StoredIDs
    THEN [i \in DOMAIN centre |-> IF centre[i].id = r.id
                                  THEN [centre[i] EXCEPT !.read = TRUE] ELSE centre[i]]
    ELSE IF r.id \in r.derived THEN Append(centre, [id |-> r.id, read |-> TRUE])
    ELSE centre

DismissWrites(d) ==
    LET r == dismissal[d] IN
    /\ r.pc = "read"
    /\ centre' = Dismissed(r)
    /\ dismissed' = IF r.id \in StoredIDs \cup r.derived
                    THEN dismissed \cup {r.id} ELSE dismissed
    /\ dismissal' = [dismissal EXCEPT ![d] = [pc |-> "done"]]
    /\ UNCHANGED <<activity, settings, trimmed, subs, channel, publisher, panicked>>

\* PushNotification: prepend, trim, and start the publisher.
PushNotification(n) ==
    LET items == <<[id |-> n, read |-> FALSE]>> \o centre IN
    /\ publisher[n] = Idle
    /\ centre' = SubSeq(items, 1, IF Len(items) > MaxStored THEN MaxStored ELSE Len(items))
    /\ trimmed' = trimmed \cup {items[i].id : i \in {j \in DOMAIN items : j > MaxStored}}
    /\ publisher' = [publisher EXCEPT ![n] = [pc |-> "started"]]
    /\ UNCHANGED <<activity, settings, dismissal, dismissed, subs, channel, panicked>>

\* PushTransactionEvent, PushGoalEvent: only the publisher.
PushEvent(e) ==
    /\ publisher[e] = Idle
    /\ publisher' = [publisher EXCEPT ![e] = [pc |-> "started"]]
    /\ UNCHANGED <<activity, settings, centre, dismissal, dismissed, trimmed,
                   subs, channel, panicked>>

-----------------------------------------------------------------------------
(***************************************************************************)
(* The streams.                                                            *)
(***************************************************************************)
Readers == {e \in DOMAIN publisher : publisher[e].pc = "sending"}

feedVars == <<activity, settings, centre, dismissal, dismissed, trimmed>>

\* sseStream opens: SubscribeSSE, under the write lock.
SubscribeSSE(c) ==
    /\ channel[c].state = "new" /\ Readers = {}
    /\ IF Len(subs) >= MaxConnections
       THEN /\ channel' = [channel EXCEPT ![c].state = "refused"]
            /\ subs' = subs
       ELSE /\ channel' = [channel EXCEPT ![c].state = "open"]
            /\ subs' = Append(subs, c)
    /\ UNCHANGED <<feedVars, publisher, panicked>>

\* sseStream writes an event to its client.
StreamEvent(c) ==
    /\ channel[c].state = "open" /\ channel[c].buf # << >>
    /\ channel' = [channel EXCEPT ![c].buf = Tail(@)]
    /\ UNCHANGED <<feedVars, subs, publisher, panicked>>

\* Mutant: only the read lock is taken.
MutUnsubscribeSSE(c) ==
    /\ channel[c].state = "open"
    /\ \E i \in DOMAIN subs : subs[i] = c /\ subs' = RemoveAt(subs, i)
    /\ channel' = [channel EXCEPT ![c].state = "closed"]
    /\ UNCHANGED <<feedVars, publisher, panicked>>

\* The client goes away: the deferred UnsubscribeSSE, under the write lock.
UnsubscribeSSE(c) ==
    /\ channel[c].state = "open" /\ Readers = {}
    /\ \E i \in DOMAIN subs : subs[i] = c /\ subs' = RemoveAt(subs, i)
    /\ channel' = [channel EXCEPT ![c].state = "closed"]
    /\ UNCHANGED <<feedVars, publisher, panicked>>

\* PublishSSE takes the read lock and the list of channels.
PublishStarts(e) ==
    /\ publisher[e].pc = "started"
    /\ publisher' = [publisher EXCEPT ![e] = [pc |-> "sending", to |-> subs]]
    /\ UNCHANGED <<feedVars, subs, channel, panicked>>

\* Mutant: the send waits for room.
MutPublishSends(e) ==
    /\ publisher[e].pc = "sending" /\ publisher[e].to # << >>
    /\ LET c == Head(publisher[e].to) IN
       /\ Len(channel[c].buf) < Buffer
       /\ channel' = [channel EXCEPT ![c].buf = Append(@, e)]
       /\ panicked' = (panicked \/ channel[c].state = "closed")
    /\ publisher' = [publisher EXCEPT ![e].to = Tail(@)]
    /\ UNCHANGED <<feedVars, subs>>

\* One turn of its loop: a full channel misses the event, a closed one panics.
PublishSends(e) ==
    /\ publisher[e].pc = "sending" /\ publisher[e].to # << >>
    /\ LET c == Head(publisher[e].to) IN
       /\ channel' = IF Len(channel[c].buf) < Buffer
                     THEN [channel EXCEPT ![c].buf = Append(@, e)] ELSE channel
       /\ panicked' = (panicked \/ channel[c].state = "closed")
    /\ publisher' = [publisher EXCEPT ![e].to = Tail(@)]
    /\ UNCHANGED <<feedVars, subs>>

\* The read lock is released.
PublishEnds(e) ==
    /\ publisher[e].pc = "sending" /\ publisher[e].to = << >>
    /\ publisher' = [publisher EXCEPT ![e] = [pc |-> "done"]]
    /\ UNCHANGED <<feedVars, subs, channel, panicked>>

Publish(e) == PublishStarts(e) \/ PublishSends(e) \/ PublishEnds(e)

FeedNext ==
    \/ Act
    \/ \E d \in Dismissals : \E id \in StoredIDs \cup Derived : DismissReads(d, id)
    \/ \E d \in Dismissals : DismissWrites(d)
    \/ \E n \in Pushes : PushNotification(n)

StreamNext ==
    \/ \E n \in Pushes : PushNotification(n)
    \/ \E e \in BareEvents : PushEvent(e)
    \/ \E c \in Streams : SubscribeSSE(c) \/ StreamEvent(c) \/ UnsubscribeSSE(c)
    \/ \E e \in DOMAIN publisher : Publish(e)

NotifNext == FeedNext \/ StreamNext

NotifSpec == NotifInit /\ [][NotifNext]_notifVars

\* The Go scheduler runs every goroutine that can run; nothing makes a client
\* read its stream or leave it.
NotifFairness == \A e \in Pushes \cup BareEvents : WF_notifVars(Publish(e))

-----------------------------------------------------------------------------
(***************************************************************************)
(* Properties.                                                             *)
(***************************************************************************)
\* No event is sent on a channel that UnsubscribeSSE has closed (a panic that
\* would end the process), though streams end while publishers run.
NoSendOnClosed == ~panicked

\* Two dismissals of one derived entry, each of which computed the entries
\* before the lock, store a single copy of it: an entry is in the feed once.
EntriesUnique ==
    \A i, j \in DOMAIN centre : centre[i].id = centre[j].id => i = j

\* A dismissed entry is never shown as unread, unless PushNotification has
\* trimmed the stored copy that remembers the dismissal.
DismissedUntilTrimmed ==
    \A item \in NotificationCentre : item.id \in dismissed \ trimmed => item.read

\* No client can hold the streams of the others up: the lock of the registry
\* becomes free again and again, however little the subscribers read.
PublishersFinish == []<>(Readers = {})
=============================================================================
