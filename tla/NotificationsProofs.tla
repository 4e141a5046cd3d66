------------------------ MODULE NotificationsProofs ------------------------
(***************************************************************************)
(* Safety of the notification feed and its event streams, for any number   *)
(* of notifications, streams, publishers and dismissals, and any limits.   *)
(***************************************************************************)
EXTENDS Notifications, SequenceTheorems, TLAPS

USE NotifAssumption

-----------------------------------------------------------------------------
(***************************************************************************)
(* The types the argument needs.                                           *)
(***************************************************************************)
IDs == Pushes \cup DerivedIDs

Entry == [id : IDs, read : BOOLEAN]

DismissalState ==
    [pc : {"idle", "done"}] \cup [pc : {"read"}, id : IDs, derived : SUBSET DerivedIDs]

Channel ==
    [state : {"new", "refused", "open", "closed"}, buf : Seq(Pushes \cup BareEvents)]

PublisherState ==
    [pc : {"idle", "started", "done"}] \cup [pc : {"sending"}, to : Seq(Streams)]

FeedTypeOK ==
    /\ centre \in Seq(Entry)
    /\ dismissal \in [Dismissals -> DismissalState]

StreamTypeOK ==
    /\ subs \in Seq(Streams)
    /\ channel \in [Streams -> Channel]
    /\ publisher \in [Pushes \cup BareEvents -> PublisherState]

(***************************************************************************)
(* The feed.  A notification in it was pushed, which gave it an id no      *)
(* later push has; what was dismissed is stored as read until it is        *)
(* trimmed.                                                                *)
(***************************************************************************)
PushedOnce ==
    \A i \in DOMAIN centre : centre[i].id \in Pushes => publisher[centre[i].id] # Idle

DismissalKept ==
    \A id \in dismissed \ trimmed : \E i \in DOMAIN centre : centre[i].id = id /\ centre[i].read

FeedInv ==
    /\ FeedTypeOK
    /\ PushedOnce
    /\ EntriesUnique
    /\ DismissalKept

(***************************************************************************)
(* The streams.  The registry holds open channels, each once; the channels *)
(* a publisher has still to send to are open, since it holds the read lock *)
(* and UnsubscribeSSE closes under the write lock.                         *)
(***************************************************************************)
RegisteredOnce == \A i, j \in DOMAIN subs : subs[i] = subs[j] => i = j

RegisteredOpen == \A i \in DOMAIN subs : channel[subs[i]].state = "open"

TargetsOpen ==
    \A e \in Readers : \A i \in DOMAIN publisher[e].to :
        channel[publisher[e].to[i]].state = "open"

StreamInv ==
    /\ StreamTypeOK
    /\ RegisteredOnce
    /\ RegisteredOpen
    /\ TargetsOpen
    /\ NoSendOnClosed

IndInv == FeedInv /\ StreamInv

-----------------------------------------------------------------------------
(***************************************************************************)
(* Operators.                                                              *)
(***************************************************************************)
\* derivedNotifications: only ids of the four kinds.
LEMMA DerivedKnown == Derived \subseteq DerivedIDs
BY DEF Derived, DerivedIDs, TransactionEntries, SecurityEntries, GoalEntries,
       DueDateEntries

\* append(subs[:i], subs[i+1:]...): the entries behind i move up by one.
LEMMA Removed ==
    ASSUME NEW S, NEW s \in Seq(S), NEW i \in DOMAIN s
    PROVE  /\ RemoveAt(s, i) \in Seq(S)
           /\ Len(RemoveAt(s, i)) = Len(s) - 1
           /\ \A j \in 1..(Len(s) - 1) :
                 RemoveAt(s, i)[j] = IF j < i THEN s[j] ELSE s[j + 1]
<1> DEFINE a == SubSeq(s, 1, i - 1)
           b == SubSeq(s, i + 1, Len(s))
<1>1. /\ a \in Seq(S) /\ Len(a) = i - 1
      /\ \A j \in 1..(i - 1) : a[j] = s[j]
  <2>1. \A j \in 1..(i - 1) : s[j] \in S
    OBVIOUS
  <2>2. i - 1 \in Int
    OBVIOUS
  <2> QED
    BY <2>1, <2>2, SubSeqProperties
<1>2. /\ b \in Seq(S) /\ Len(b) = Len(s) - i
      /\ \A j \in 1..(Len(s) - i) : b[j] = s[i + j]
  <2>1. \A j \in (i + 1)..Len(s) : s[j] \in S
    OBVIOUS
  <2>2. i + 1 \in Int /\ Len(s) \in Int
    OBVIOUS
  <2>3. /\ SubSeq(s, i + 1, Len(s)) \in Seq(S)
        /\ Len(SubSeq(s, i + 1, Len(s))) =
              IF i + 1 <= Len(s) THEN Len(s) - (i + 1) + 1 ELSE 0
        /\ \A j \in 1..(Len(s) - (i + 1) + 1) :
              SubSeq(s, i + 1, Len(s))[j] = s[(i + 1) + j - 1]
    BY <2>1, <2>2, SubSeqProperties
  <2> QED
    BY <2>3
<1>3. RemoveAt(s, i) = a \o b
  BY DEF RemoveAt
<1> HIDE DEF a, b
<1> QED
  BY <1>1, <1>2, <1>3, ConcatProperties

-----------------------------------------------------------------------------
(***************************************************************************)
(* The streams.                                                            *)
(***************************************************************************)
\* A step that leaves the registry and the channels alone and gives no
\* publisher the read lock.
LEMMA StreamsUntouched ==
    ASSUME StreamInv, UNCHANGED <<subs, channel, panicked>>,
           publisher' \in [Pushes \cup BareEvents -> PublisherState],
           \A e \in Pushes \cup BareEvents :
               publisher'[e] = publisher[e] \/ publisher'[e].pc # "sending"
    PROVE  StreamInv'
<1>1. StreamTypeOK' /\ RegisteredOnce' /\ RegisteredOpen' /\ NoSendOnClosed'
  BY DEF StreamInv, StreamTypeOK, RegisteredOnce, RegisteredOpen, NoSendOnClosed
<1>2. TargetsOpen'
  BY DEF StreamInv, StreamTypeOK, TargetsOpen, Readers
<1> QED
  BY <1>1, <1>2 DEF StreamInv

\* The go statement: the publisher of e exists from now on.
LEMMA StartsPublisher ==
    ASSUME StreamInv, NEW e \in Pushes \cup BareEvents,
           publisher' = [publisher EXCEPT ![e] = [pc |-> "started"]],
           UNCHANGED <<subs, channel, panicked>>
    PROVE  StreamInv'
<1>1. [pc |-> "started"] \in PublisherState
  BY DEF PublisherState
<1>2. publisher' \in [Pushes \cup BareEvents -> PublisherState]
  BY <1>1 DEF StreamInv, StreamTypeOK
<1>3. \A f \in Pushes \cup BareEvents :
         publisher'[f] = publisher[f] \/ publisher'[f].pc # "sending"
  BY DEF StreamInv, StreamTypeOK
<1> QED
  BY <1>2, <1>3, StreamsUntouched

LEMMA SubscribeKeeps ==
    ASSUME StreamInv, NEW c \in Streams, SubscribeSSE(c)
    PROVE  StreamInv'
<1> USE DEF StreamInv, StreamTypeOK
<1>1. channel' \in [Streams -> Channel]
  BY DEF Channel, SubscribeSSE
<1>2. /\ \A d \in Streams : d # c => channel'[d] = channel[d]
      /\ subs' = subs \/ (subs' = Append(subs, c) /\ channel'[c].state = "open")
      /\ publisher' = publisher /\ panicked' = panicked
      /\ channel[c].state = "new" /\ Readers = {}
  <2>1. CASE channel' = [channel EXCEPT ![c].state = "refused"] /\ subs' = subs
    BY <2>1 DEF SubscribeSSE
  <2>2. CASE /\ channel' = [channel EXCEPT ![c].state = "open"]
             /\ subs' = Append(subs, c)
    BY <2>2 DEF SubscribeSSE, Channel
  <2> QED
    BY <2>1, <2>2 DEF SubscribeSSE
<1>3. \A i \in DOMAIN subs : subs[i] \in Streams /\ subs[i] # c
  BY <1>2 DEF RegisteredOpen
<1>4. TargetsOpen' /\ NoSendOnClosed'
  BY <1>2 DEF TargetsOpen, Readers, NoSendOnClosed
<1>5. CASE subs' = subs
  <2>1. StreamTypeOK' /\ RegisteredOnce' /\ RegisteredOpen'
    BY <1>1, <1>2, <1>3, <1>5 DEF RegisteredOnce, RegisteredOpen
  <2> QED
    BY <1>4, <2>1
<1>6. CASE subs' = Append(subs, c) /\ channel'[c].state = "open"
  <2>1. /\ subs' \in Seq(Streams)
        /\ \A i \in DOMAIN subs' : \/ i \in DOMAIN subs /\ subs'[i] = subs[i]
                                   \/ i = Len(subs) + 1 /\ subs'[i] = c
    BY <1>6
  <2>2. StreamTypeOK'
    BY <1>1, <1>2, <2>1
  <2>3. RegisteredOnce'
    BY <1>3, <2>1 DEF RegisteredOnce
  <2>4. RegisteredOpen'
    BY <1>2, <1>3, <1>6, <2>1 DEF RegisteredOpen
  <2> QED
    BY <1>4, <2>2, <2>3, <2>4
<1> QED
  BY <1>2, <1>5, <1>6

LEMMA UnsubscribeKeeps ==
    ASSUME StreamInv, NEW c \in Streams, UnsubscribeSSE(c)
    PROVE  StreamInv'
<1> USE DEF StreamInv, StreamTypeOK
<1>1. PICK i \in DOMAIN subs : subs[i] = c /\ subs' = RemoveAt(subs, i)
  BY DEF UnsubscribeSSE
<1>2. /\ subs' \in Seq(Streams)
      /\ Len(subs') = Len(subs) - 1
      /\ \A j \in 1..(Len(subs) - 1) :
            subs'[j] = IF j < i THEN subs[j] ELSE subs[j + 1]
  BY <1>1, Removed
<1>3. /\ channel' \in [Streams -> Channel]
      /\ \A d \in Streams : d # c => channel'[d] = channel[d]
  BY DEF Channel, UnsubscribeSSE
<1>4. \A j \in DOMAIN subs' : \E k \in DOMAIN subs :
         k # i /\ subs'[j] = subs[k] /\ k = (IF j < i THEN j ELSE j + 1)
  BY <1>2
<1>5. StreamTypeOK'
  BY <1>2, <1>3 DEF UnsubscribeSSE
<1>6. RegisteredOnce'
  BY <1>2, <1>4 DEF RegisteredOnce
<1>7. RegisteredOpen'
  BY <1>1, <1>2, <1>3, <1>4 DEF RegisteredOnce, RegisteredOpen
<1>8. TargetsOpen' /\ NoSendOnClosed'
  BY DEF TargetsOpen, Readers, NoSendOnClosed, UnsubscribeSSE
<1> QED
  BY <1>5, <1>6, <1>7, <1>8

\* A channel's buffer says nothing about its state.
LEMMA BufferChanges ==
    ASSUME StreamInv, channel' \in [Streams -> Channel],
           \A c \in Streams : channel'[c].state = channel[c].state,
           UNCHANGED <<subs, publisher, panicked>>
    PROVE  StreamInv'
<1>1. StreamTypeOK' /\ RegisteredOnce' /\ NoSendOnClosed'
  BY DEF StreamInv, StreamTypeOK, RegisteredOnce, NoSendOnClosed
<1>2. RegisteredOpen'
  BY DEF StreamInv, StreamTypeOK, RegisteredOpen
<1>3. TargetsOpen'
  <2> SUFFICES ASSUME NEW e \in Readers, NEW i \in DOMAIN publisher[e].to
               PROVE  channel'[publisher[e].to[i]].state = "open"
    BY DEF TargetsOpen, Readers
  <2>1. publisher[e].to \in Seq(Streams)
    BY DEF StreamInv, StreamTypeOK, Readers, PublisherState
  <2>2. channel[publisher[e].to[i]].state = "open" /\ publisher[e].to[i] \in Streams
    BY <2>1 DEF StreamInv, TargetsOpen
  <2> QED
    BY <2>2
<1> QED
  BY <1>1, <1>2, <1>3 DEF StreamInv

LEMMA StreamEventKeeps ==
    ASSUME StreamInv, NEW c \in Streams, StreamEvent(c)
    PROVE  StreamInv'
<1>1. Tail(channel[c].buf) \in Seq(Pushes \cup BareEvents)
  <2>1. channel[c].buf \in Seq(Pushes \cup BareEvents) /\ channel[c].buf # << >>
    BY DEF StreamInv, StreamTypeOK, Channel, StreamEvent
  <2> QED
    BY <2>1, HeadTailProperties
<1>2. /\ channel' \in [Streams -> Channel]
      /\ \A d \in Streams : channel'[d].state = channel[d].state
  BY <1>1 DEF StreamInv, StreamTypeOK, Channel, StreamEvent
<1> QED
  BY <1>2, BufferChanges DEF StreamEvent

LEMMA PublishKeeps ==
    ASSUME StreamInv, NEW e \in Pushes \cup BareEvents, Publish(e)
    PROVE  StreamInv'
<1>1. CASE PublishStarts(e)
  <2>1. /\ publisher' \in [Pushes \cup BareEvents -> PublisherState]
        /\ publisher'[e] = [pc |-> "sending", to |-> subs]
        /\ \A f \in Pushes \cup BareEvents : f # e => publisher'[f] = publisher[f]
        /\ UNCHANGED <<subs, channel, panicked>>
    <3>1. [pc |-> "sending", to |-> subs] \in PublisherState
      BY DEF StreamInv, StreamTypeOK, PublisherState
    <3> QED
      BY <1>1, <3>1 DEF PublishStarts, StreamInv, StreamTypeOK
  <2>2. StreamTypeOK' /\ RegisteredOnce' /\ RegisteredOpen' /\ NoSendOnClosed'
    BY <2>1 DEF StreamInv, StreamTypeOK, RegisteredOnce, RegisteredOpen, NoSendOnClosed
  <2>3. TargetsOpen'
    BY <2>1 DEF StreamInv, StreamTypeOK, RegisteredOpen, TargetsOpen, Readers
  <2> QED
    BY <2>2, <2>3 DEF StreamInv
<1>2. CASE PublishSends(e)
  <2> DEFINE to == publisher[e].to
             c == Head(to)
  <2>1. /\ to \in Seq(Streams) /\ to # << >>
        /\ c = to[1] /\ 1 \in DOMAIN to /\ c \in Streams
        /\ Tail(to) \in Seq(Streams)
        /\ \A i \in DOMAIN Tail(to) : i + 1 \in DOMAIN to /\ Tail(to)[i] = to[i + 1]
    <3>1. to \in Seq(Streams) /\ to # << >>
      BY <1>2 DEF PublishSends, StreamInv, StreamTypeOK, PublisherState
    <3> QED
      BY <3>1, HeadTailProperties
  <2>2. channel[c].state = "open" /\ \A i \in DOMAIN to : channel[to[i]].state = "open"
    BY <1>2, <2>1 DEF PublishSends, StreamInv, StreamTypeOK, TargetsOpen, Readers
  <2>3. /\ channel' \in [Streams -> Channel]
        /\ \A d \in Streams : channel'[d].state = channel[d].state
    <3>1. Append(channel[c].buf, e) \in Seq(Pushes \cup BareEvents)
      BY <2>1 DEF StreamInv, StreamTypeOK, Channel
    <3>2. CASE channel' = channel
      BY <3>2 DEF StreamInv, StreamTypeOK
    <3>3. CASE channel' = [channel EXCEPT ![c].buf = Append(@, e)]
      BY <2>1, <3>1, <3>3 DEF StreamInv, StreamTypeOK, Channel
    <3> QED
      BY <1>2, <3>2, <3>3 DEF PublishSends
  <2>4. ~panicked'
    BY <1>2, <2>2 DEF PublishSends, StreamInv, NoSendOnClosed
  <2>5. /\ publisher' \in [Pushes \cup BareEvents -> PublisherState]
        /\ publisher'[e].to = Tail(to)
        /\ \A f \in Pushes \cup BareEvents : f # e => publisher'[f] = publisher[f]
    <3>1. publisher[e] \in [pc : {"sending"}, to : Seq(Streams)]
      BY <1>2 DEF PublishSends, StreamInv, StreamTypeOK, PublisherState
    <3>2. [publisher[e] EXCEPT !.to = Tail(to)] \in [pc : {"sending"}, to : Seq(Streams)]
      BY <2>1, <3>1
    <3>3. publisher' = [publisher EXCEPT ![e] = [publisher[e] EXCEPT !.to = Tail(to)]]
      BY <1>2 DEF PublishSends
    <3> QED
      BY <3>1, <3>2, <3>3 DEF StreamInv, StreamTypeOK, PublisherState
  <2>6. subs' = subs
    BY <1>2 DEF PublishSends
  <2>7. StreamTypeOK' /\ RegisteredOnce' /\ RegisteredOpen' /\ NoSendOnClosed'
    BY <2>3, <2>4, <2>5, <2>6
    DEF StreamInv, StreamTypeOK, RegisteredOnce, RegisteredOpen, NoSendOnClosed
  <2>8. TargetsOpen'
    <3> SUFFICES ASSUME NEW f \in Readers', NEW i \in DOMAIN publisher'[f].to
                 PROVE  channel'[publisher'[f].to[i]].state = "open"
      BY DEF TargetsOpen
    <3>1. f \in Pushes \cup BareEvents
      BY <2>5 DEF Readers, StreamTypeOK
    <3>2. CASE f = e
      <4>1. i + 1 \in DOMAIN to /\ publisher'[f].to[i] = to[i + 1]
        BY <2>1, <2>5, <3>2
      <4>2. to[i + 1] \in Streams /\ channel[to[i + 1]].state = "open"
        BY <2>1, <2>2, <4>1
      <4> QED
        BY <2>3, <4>1, <4>2
    <3>3. CASE f # e
      <4>1. f \in Readers /\ publisher'[f] = publisher[f]
        BY <2>5, <3>1, <3>3 DEF Readers, StreamInv, StreamTypeOK
      <4>2. publisher[f].to \in Seq(Streams)
        BY <3>1, <4>1 DEF Readers, StreamInv, StreamTypeOK, PublisherState
      <4> QED
        BY <2>3, <4>1, <4>2 DEF StreamInv, TargetsOpen
    <3> QED
      BY <3>2, <3>3
  <2> QED
    BY <2>7, <2>8 DEF StreamInv
<1>3. CASE PublishEnds(e)
  <2>1. [pc |-> "done"] \in PublisherState
    BY DEF PublisherState
  <2>2. publisher' \in [Pushes \cup BareEvents -> PublisherState]
    BY <1>3, <2>1 DEF PublishEnds, StreamInv, StreamTypeOK
  <2>3. \A f \in Pushes \cup BareEvents :
           publisher'[f] = publisher[f] \/ publisher'[f].pc # "sending"
    BY <1>3 DEF PublishEnds, StreamInv, StreamTypeOK
  <2> QED
    BY <1>3, <2>2, <2>3, StreamsUntouched DEF PublishEnds
<1> QED
  BY <1>1, <1>2, <1>3 DEF Publish

-----------------------------------------------------------------------------
(***************************************************************************)
(* The feed.                                                               *)
(***************************************************************************)
LEMMA FeedUntouched ==
    ASSUME FeedInv, StreamInv, UNCHANGED <<centre, dismissed, trimmed>>, FeedTypeOK',
           \A n \in Pushes : publisher'[n] = Idle => publisher[n] = Idle
    PROVE  FeedInv'
<1>1. PushedOnce'
  BY DEF FeedInv, FeedTypeOK, PushedOnce
<1>2. EntriesUnique' /\ DismissalKept'
  BY DEF FeedInv, EntriesUnique, DismissalKept
<1> QED
  BY <1>1, <1>2 DEF FeedInv

LEMMA DismissReadsKeeps ==
    ASSUME FeedInv, StreamInv, NEW d \in Dismissals, NEW id \in StoredIDs \cup Derived,
           DismissReads(d, id)
    PROVE  FeedInv'
<1>1. id \in IDs
  <2>1. ASSUME NEW i \in DOMAIN centre PROVE centre[i].id \in IDs
    <3>1. centre[i] \in Entry
      BY DEF FeedInv, FeedTypeOK
    <3> QED
      BY <3>1 DEF Entry
  <2> QED
    BY <2>1, DerivedKnown DEF IDs, StoredIDs
<1>2. [pc |-> "read", id |-> id, derived |-> Derived] \in DismissalState
  BY <1>1, DerivedKnown DEF DismissalState
<1>3. FeedTypeOK'
  BY <1>2 DEF DismissReads, FeedInv, FeedTypeOK
<1> QED
  BY <1>3, FeedUntouched DEF DismissReads

\* Its critical section: whatever the feed was when the derived entries were
\* computed, the entry is stored once afterwards and marked as read.
LEMMA DismissWritesKeeps ==
    ASSUME FeedInv, StreamInv, NEW d \in Dismissals, DismissWrites(d)
    PROVE  FeedInv'
<1> DEFINE r == dismissal[d]
           found == r.id \in StoredIDs \cup r.derived
<1>1. /\ r.id \in IDs /\ r.derived \in SUBSET DerivedIDs
      /\ centre' = Dismissed(r)
      /\ dismissed' = IF found THEN dismissed \cup {r.id} ELSE dismissed
      /\ UNCHANGED <<trimmed, publisher>>
  BY DEF DismissWrites, FeedInv, FeedTypeOK, DismissalState
<1>2. dismissal' \in [Dismissals -> DismissalState]
  BY DEF DismissWrites, FeedInv, FeedTypeOK, DismissalState
<1> HIDE DEF r
<1> USE DEF FeedInv, FeedTypeOK
<1>3. CASE r.id \in StoredIDs
  <2>1. centre' = [i \in DOMAIN centre |-> IF centre[i].id = r.id
                       THEN [centre[i] EXCEPT !.read = TRUE] ELSE centre[i]]
    BY <1>1, <1>3 DEF Dismissed
  <2>2. /\ DOMAIN centre' = DOMAIN centre
        /\ \A i \in DOMAIN centre :
              /\ centre'[i] \in Entry
              /\ centre'[i].id = centre[i].id
              /\ centre[i].read => centre'[i].read
              /\ centre[i].id = r.id => centre'[i].read
    <3>1. \A i \in DOMAIN centre : centre[i] \in Entry
      OBVIOUS
    <3> QED
      BY <2>1, <3>1, Zenon DEF Entry
  <2>3. centre' \in Seq(Entry)
    <3>1. Len(centre) \in Nat /\ DOMAIN centre' = 1..Len(centre)
      BY <2>2
    <3>2. centre' = [i \in 1..Len(centre) |-> centre'[i]]
      BY <2>1, <3>1
    <3> QED
      BY <2>2, <3>1, <3>2, IsASeq
  <2>4. PushedOnce' /\ EntriesUnique'
    BY <1>1, <2>2 DEF PushedOnce, EntriesUnique
  <2>5. DismissalKept'
    <3>1. \E i \in DOMAIN centre : centre[i].id = r.id
      BY <1>3 DEF StoredIDs
    <3> QED
      BY <1>1, <2>2, <3>1 DEF DismissalKept
  <2> QED
    BY <1>2, <2>3, <2>4, <2>5
<1>4. CASE r.id \notin StoredIDs /\ r.id \in r.derived
  <2> DEFINE new == [id |-> r.id, read |-> TRUE]
  <2>1. centre' = Append(centre, new) /\ new \in Entry
    BY <1>1, <1>4 DEF Dismissed, Entry
  <2>2. /\ centre' \in Seq(Entry)
        /\ Len(centre') = Len(centre) + 1
        /\ \A i \in DOMAIN centre : i \in DOMAIN centre' /\ centre'[i] = centre[i]
        /\ \A i \in DOMAIN centre' : i \in DOMAIN centre \/ i = Len(centre) + 1
        /\ centre'[Len(centre) + 1] = new /\ Len(centre) + 1 \in DOMAIN centre'
    BY <2>1
  <2>3. r.id \notin Pushes /\ \A i \in DOMAIN centre : centre[i].id # r.id
    BY <1>1, <1>4 DEF StoredIDs
  <2>4. PushedOnce'
    BY <1>1, <2>2, <2>3 DEF PushedOnce
  <2>5. EntriesUnique'
    BY <2>2, <2>3 DEF EntriesUnique
  <2>6. new.id = r.id /\ new.read
    OBVIOUS
  <2> HIDE DEF new
  <2>7. DismissalKept'
    BY <1>1, <2>2, <2>6 DEF DismissalKept
  <2> QED
    BY <1>2, <2>2, <2>4, <2>5, <2>7
<1>5. CASE r.id \notin StoredIDs /\ r.id \notin r.derived
  <2>1. centre' = centre /\ dismissed' = dismissed
    BY <1>1, <1>5 DEF Dismissed
  <2> QED
    BY <1>1, <1>2, <2>1, FeedUntouched
<1> QED
  BY <1>3, <1>4, <1>5

\* PushNotification: what it cuts off is trimmed, the rest moves down by one.
LEMMA PushKeeps ==
    ASSUME FeedInv, StreamInv, NEW n \in Pushes, PushNotification(n)
    PROVE  FeedInv'
<1> DEFINE new == [id |-> n, read |-> FALSE]
           items == <<new>> \o centre
           m == IF Len(items) > MaxStored THEN MaxStored ELSE Len(items)
<1> USE DEF FeedInv, FeedTypeOK
<1>1. /\ new \in Entry
      /\ items \in Seq(Entry) /\ Len(items) = Len(centre) + 1
      /\ items[1] = new
      /\ \A i \in DOMAIN centre : items[i + 1] = centre[i]
  <2>1. new \in Entry
    BY DEF Entry, IDs
  <2>2. <<new>> \in Seq(Entry) /\ Len(<<new>>) = 1 /\ <<new>>[1] = new
    BY <2>1
  <2> HIDE DEF new
  <2>3. /\ items \in Seq(Entry)
        /\ Len(items) = 1 + Len(centre)
        /\ \A i \in 1..(1 + Len(centre)) :
              items[i] = IF i <= 1 THEN <<new>>[i] ELSE centre[i - 1]
    BY <2>2, ConcatProperties
  <2> QED
    BY <2>1, <2>2, <2>3
<1>2. m \in Nat /\ 1 <= m /\ m <= Len(items)
  BY <1>1
<1>3. /\ centre' = SubSeq(items, 1, m)
      /\ trimmed' = trimmed \cup {items[i].id : i \in {j \in DOMAIN items : j > MaxStored}}
      /\ UNCHANGED <<dismissal, dismissed>>
      /\ publisher' = [publisher EXCEPT ![n] = [pc |-> "started"]] /\ publisher[n] = Idle
  BY DEF PushNotification
<1>4. new.id = n
  OBVIOUS
<1>5. \A j \in DOMAIN items : j > m => items[j].id \in trimmed'
  BY <1>1, <1>2, <1>3
<1> HIDE DEF new, items, m
<1>6. /\ centre' \in Seq(Entry) /\ Len(centre') = m
      /\ \A i \in 1..m : centre'[i] = items[i]
  <2>1. \A i \in 1..m : items[i] \in Entry
    BY <1>1, <1>2
  <2> QED
    BY <1>2, <1>3, <2>1, SubSeqProperties
<1>7. /\ centre'[1] = new
      /\ \A i \in DOMAIN centre' : i # 1 => i - 1 \in DOMAIN centre /\ centre'[i] = centre[i - 1]
  BY <1>1, <1>2, <1>6
<1>8. /\ publisher'[n] # Idle
      /\ \A p \in Pushes : publisher'[p] = Idle => publisher[p] = Idle
  BY <1>3 DEF StreamInv, StreamTypeOK, Idle
<1>9. \A i \in DOMAIN centre : centre[i].id # n
  BY <1>3 DEF PushedOnce
<1>10. FeedTypeOK'
  BY <1>3, <1>6
<1>11. PushedOnce'
  BY <1>4, <1>6, <1>7, <1>8 DEF PushedOnce
<1>12. EntriesUnique'
  BY <1>4, <1>6, <1>7, <1>9 DEF EntriesUnique
<1>13. DismissalKept'
  <2> SUFFICES ASSUME NEW id \in dismissed \ trimmed'
               PROVE  \E i \in DOMAIN centre' : centre'[i].id = id /\ centre'[i].read
    BY <1>3 DEF DismissalKept
  <2>1. PICK i \in DOMAIN centre : centre[i].id = id /\ centre[i].read
    BY <1>3 DEF DismissalKept
  <2>2. i + 1 \in DOMAIN items /\ items[i + 1] = centre[i]
    BY <1>1
  <2>3. i + 1 <= m
    BY <1>2, <1>5, <2>1, <2>2
  <2> QED
    BY <1>6, <2>1, <2>2, <2>3
<1> QED
  BY <1>10, <1>11, <1>12, <1>13

-----------------------------------------------------------------------------
LEMMA Initially == NotifInit => IndInv
<1> SUFFICES ASSUME NotifInit PROVE IndInv
  OBVIOUS
<1>1. FeedInv
  BY DEF NotifInit, FeedInv, FeedTypeOK, PushedOnce, EntriesUnique, DismissalKept,
         DismissalState, Idle
<1>2. StreamTypeOK
  BY DEF NotifInit, StreamTypeOK, Channel, PublisherState, Idle
<1>3. RegisteredOnce /\ RegisteredOpen /\ TargetsOpen /\ NoSendOnClosed
  BY DEF NotifInit, RegisteredOnce, RegisteredOpen, TargetsOpen, Readers, NoSendOnClosed,
         Idle
<1> QED
  BY <1>1, <1>2, <1>3 DEF IndInv, StreamInv

LEMMA Preserved == IndInv /\ [NotifNext]_notifVars => IndInv'
<1> SUFFICES ASSUME IndInv, [NotifNext]_notifVars PROVE IndInv'
  OBVIOUS
<1> USE DEF IndInv
<1>1. ASSUME UNCHANGED <<centre, dismissal, dismissed, trimmed>>,
             \A n \in Pushes : publisher'[n] = Idle => publisher[n] = Idle
      PROVE  FeedInv'
  <2>1. FeedTypeOK'
    BY <1>1 DEF FeedInv, FeedTypeOK
  <2> QED
    BY <1>1, <2>1, FeedUntouched
<1>2. ASSUME UNCHANGED <<subs, channel, publisher, panicked>>
      PROVE  StreamInv'
  BY <1>2, StreamsUntouched DEF StreamInv, StreamTypeOK
<1>3. CASE Act
  BY <1>1, <1>2, <1>3 DEF Act
<1>4. ASSUME NEW d \in Dismissals, NEW id \in StoredIDs \cup Derived, DismissReads(d, id)
      PROVE  IndInv'
  BY <1>2, <1>4, DismissReadsKeeps DEF DismissReads
<1>5. ASSUME NEW d \in Dismissals, DismissWrites(d)
      PROVE  IndInv'
  BY <1>2, <1>5, DismissWritesKeeps DEF DismissWrites
<1>6. ASSUME NEW n \in Pushes, PushNotification(n)
      PROVE  IndInv'
  BY <1>6, PushKeeps, StartsPublisher DEF PushNotification
<1>7. ASSUME NEW e \in BareEvents, PushEvent(e)
      PROVE  IndInv'
  <2>1. \A n \in Pushes : publisher'[n] = Idle => publisher[n] = Idle
    BY <1>7 DEF PushEvent, StreamInv, StreamTypeOK, Idle
  <2> QED
    BY <1>1, <1>7, <2>1, StartsPublisher DEF PushEvent
<1>8. ASSUME NEW c \in Streams, SubscribeSSE(c) \/ StreamEvent(c) \/ UnsubscribeSSE(c)
      PROVE  IndInv'
  BY <1>1, <1>8, SubscribeKeeps, StreamEventKeeps, UnsubscribeKeeps
  DEF SubscribeSSE, StreamEvent, UnsubscribeSSE, feedVars
<1>9. ASSUME NEW e \in Pushes \cup BareEvents, Publish(e)
      PROVE  IndInv'
  <2>1. publisher'[e] # Idle /\ \A n \in Pushes : n # e => publisher'[n] = publisher[n]
    <3>1. /\ publisher[e] \in PublisherState
          /\ publisher \in [Pushes \cup BareEvents -> PublisherState]
      BY DEF StreamInv, StreamTypeOK
    <3>2. CASE PublishStarts(e) \/ PublishEnds(e)
      BY <3>1, <3>2 DEF PublishStarts, PublishEnds, Idle
    <3>3. CASE PublishSends(e)
      BY <3>1, <3>3 DEF PublishSends, PublisherState, Idle
    <3> QED
      BY <1>9, <3>2, <3>3 DEF Publish
  <2>2. UNCHANGED feedVars
    BY <1>9 DEF Publish, PublishStarts, PublishSends, PublishEnds
  <2> QED
    BY <1>1, <1>9, <2>1, <2>2, PublishKeeps DEF feedVars
<1>10. CASE UNCHANGED notifVars
  BY <1>1, <1>2, <1>10 DEF notifVars
<1>11. DOMAIN publisher = Pushes \cup BareEvents
  BY DEF StreamInv, StreamTypeOK
<1> QED
  BY <1>3, <1>4, <1>5, <1>6, <1>7, <1>8, <1>9, <1>10, <1>11
  DEF NotifNext, FeedNext, StreamNext

THEOREM Inductive == NotifSpec => []IndInv
BY Initially, Preserved, PTL DEF NotifSpec

(***************************************************************************)
(* PublishSSE never sends on a channel that UnsubscribeSSE has closed,     *)
(* however many streams end while however many publishers run.             *)
(***************************************************************************)
THEOREM StreamsSafe == NotifSpec => []NoSendOnClosed
<1>1. IndInv => NoSendOnClosed
  BY DEF IndInv, StreamInv
<1> QED
  BY <1>1, Inductive, PTL

(***************************************************************************)
(* DismissNotification and PushNotification keep every entry single,       *)
(* although a dismissal computes the derived entries before it takes the   *)
(* lock.                                                                   *)
(***************************************************************************)
THEOREM FeedUnique == NotifSpec => []EntriesUnique
<1>1. IndInv => EntriesUnique
  BY DEF IndInv, FeedInv
<1> QED
  BY <1>1, Inductive, PTL

(***************************************************************************)
(* NotificationCentre shows no dismissed entry as unread until             *)
(* PushNotification has trimmed its stored copy.                           *)
(***************************************************************************)
THEOREM DismissalsLast == NotifSpec => []DismissedUntilTrimmed
<1>1. IndInv => DismissedUntilTrimmed
  <2> SUFFICES ASSUME IndInv, NEW item \in NotificationCentre,
                      item.id \in dismissed \ trimmed
               PROVE  item.read
    BY DEF DismissedUntilTrimmed
  <2>1. PICK i \in DOMAIN centre : centre[i].id = item.id /\ centre[i].read
    BY DEF IndInv, FeedInv, DismissalKept
  <2>2. CASE item \in ToSet(centre)
    BY <2>1, <2>2 DEF ToSet, IndInv, FeedInv, EntriesUnique
  <2>3. CASE item \in {[id |-> d, read |-> FALSE] : d \in Derived \ StoredIDs}
    <3>1. item.id \notin StoredIDs
      BY <2>3
    <3> QED
      BY <2>1, <3>1 DEF StoredIDs
  <2> QED
    BY <2>2, <2>3 DEF NotificationCentre
<1> QED
  BY <1>1, Inductive, PTL
=============================================================================
