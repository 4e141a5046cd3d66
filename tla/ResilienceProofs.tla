-------------------------- MODULE ResilienceProofs --------------------------
(***************************************************************************)
(* The circuit breaker, for any number of callers and any thresholds, and  *)
(* the outbox, for any events, batch limit and number of retries.          *)
(***************************************************************************)
EXTENDS CircuitBreaker, Outbox, FiniteSetTheorems, SequenceTheorems, TLAPS

(***************************************************************************)
(* Outside half-open no slot is taken: the counter only goes up while the  *)
(* breaker is half-open, and the call that ends such a period gives one    *)
(* back first.                                                             *)
(***************************************************************************)
NoSlotOutsideHalfOpen == state # "half_open" => halfOpenCount <= 0

(***************************************************************************)
(* In a half-open period the code's success count is the number of calls   *)
(* that returned in a row without a failure, and has not reached the       *)
(* threshold: a failure would have ended the period.                       *)
(***************************************************************************)
StreakIsSuccessCount ==
    state = "half_open" => streak = successCount /\ successCount < SuccessThreshold

IndInv ==
    /\ TypeOK
    /\ NoSlotOutsideHalfOpen
    /\ NeverWedged
    /\ ClosedBelowThreshold
    /\ StreakIsSuccessCount

USE BreakerAssumption

\* A breaker as NewCircuitBreaker makes it satisfies the inductive invariant.
LEMMA InitEstablishes == Init => IndInv
<1> SUFFICES ASSUME Init PROVE IndInv
  OBVIOUS
<1>1. elapsed \in BOOLEAN
  BY Zenon DEF Init
<1>2. TypeOK
  BY <1>1 DEF Init, TypeOK, CircuitState, CallState
<1>3. NoSlotOutsideHalfOpen /\ NeverWedged /\ StreakIsSuccessCount
  BY DEF Init, NoSlotOutsideHalfOpen, NeverWedged, StreakIsSuccessCount
<1>4. ClosedBelowThreshold
  BY DEF Init, ClosedBelowThreshold
<1> QED
  BY <1>2, <1>3, <1>4 DEF IndInv

\* The first critical section of Execute preserves the inductive invariant.
LEMMA EnterPreserves ==
    ASSUME IndInv, NEW c \in Callers, Enter(c)
    PROVE  IndInv'
<1> USE DEF IndInv
<1>1. CASE EnterClosed(c)
  BY <1>1 DEF Enter, EnterClosed, TypeOK, NoSlotOutsideHalfOpen, NeverWedged,
              ClosedBelowThreshold, StreakIsSuccessCount, CallState
<1>2. CASE EnterAfterTimeout(c)
  <2>1. elapsed' \in BOOLEAN
    BY <1>2, Zenon DEF EnterAfterTimeout
  <2>2. TypeOK'
    BY <1>2, <2>1 DEF Enter, EnterAfterTimeout, TypeOK, CircuitState, CallState
  <2>3. NoSlotOutsideHalfOpen' /\ NeverWedged'
    BY <1>2 DEF EnterAfterTimeout, TypeOK, NoSlotOutsideHalfOpen, NeverWedged
  <2>4. ClosedBelowThreshold' /\ StreakIsSuccessCount'
    BY <1>2 DEF EnterAfterTimeout, ClosedBelowThreshold, StreakIsSuccessCount
  <2> QED
    BY <2>2, <2>3, <2>4
<1>3. CASE EnterHalfOpen(c)
  <2>1. TypeOK'
    BY <1>3 DEF Enter, EnterHalfOpen, TypeOK, CallState
  <2>2. NeverWedged'
    \* The caller that took the slot is in flight itself.
    <3>1. call'[c] = "probe"
      BY <1>3 DEF EnterHalfOpen, TypeOK
    <3> QED
      BY <3>1 DEF NeverWedged, InFlight
  <2>3. NoSlotOutsideHalfOpen' /\ ClosedBelowThreshold' /\ StreakIsSuccessCount'
    BY <1>3 DEF EnterHalfOpen, NoSlotOutsideHalfOpen, ClosedBelowThreshold,
                StreakIsSuccessCount
  <2> QED
    BY <2>1, <2>2, <2>3
<1> QED
  BY <1>1, <1>2, <1>3 DEF Enter

\* Giving the slot back leaves none taken, whatever the state.
LEMMA ReleaseLeavesNone ==
    ASSUME IndInv, ReleaseSlot
    PROVE  halfOpenCount' \in Int /\ halfOpenCount' <= 0
BY DEF IndInv, TypeOK, NoSlotOutsideHalfOpen, ReleaseSlot

\* The second critical section of Execute preserves the inductive invariant.
LEMMA FinishPreserves ==
    ASSUME IndInv, NEW c \in Callers, Finish(c)
    PROVE  IndInv'
<1> USE DEF IndInv
<1>1. ReleaseSlot
  BY DEF Finish, FinishFailure, FinishSuccess
<1>2. halfOpenCount' \in Int /\ halfOpenCount' <= 0
  BY <1>1, ReleaseLeavesNone
<1>3. NoSlotOutsideHalfOpen' /\ NeverWedged'
  BY <1>2 DEF NoSlotOutsideHalfOpen, NeverWedged
<1>4. CASE FinishFailure(c)
  <2>0. elapsed' \in BOOLEAN
    BY <1>4, Zenon DEF FinishFailure, TypeOK
  <2>1. TypeOK'
    <3>1. state' \in CircuitState /\ call' \in [Callers -> CallState]
      BY <1>4 DEF FinishFailure, TypeOK, CircuitState, CallState
    <3>2. failureCount' \in Nat /\ successCount' \in Nat /\ streak' \in 0..SuccessThreshold
      BY <1>4 DEF FinishFailure, TypeOK
    <3>3. failuresLeft' \in 0..MaxFailures
      BY <1>4 DEF FinishFailure, TypeOK
    <3> QED
      BY <1>2, <2>0, <3>1, <3>2, <3>3 DEF TypeOK
  <2>2. ClosedBelowThreshold'
    BY <1>4 DEF FinishFailure, TypeOK, ClosedBelowThreshold
  <2>3. StreakIsSuccessCount'
    BY <1>4 DEF FinishFailure, StreakIsSuccessCount
  <2> QED
    BY <1>3, <2>1, <2>2, <2>3
<1>5. CASE FinishSuccess(c)
  <2>0. elapsed' \in BOOLEAN
    BY <1>5, Zenon DEF FinishSuccess, TypeOK
  <2>1. TypeOK'
    <3>1. state' \in CircuitState /\ call' \in [Callers -> CallState]
      BY <1>5 DEF FinishSuccess, TypeOK, CircuitState, CallState
    <3>2. failureCount' \in Nat /\ successCount' \in Nat /\ streak' \in 0..SuccessThreshold
      BY <1>5 DEF FinishSuccess, TypeOK
    <3>3. failuresLeft' \in 0..MaxFailures
      BY <1>5 DEF FinishSuccess, TypeOK
    <3> QED
      BY <1>2, <2>0, <3>1, <3>2, <3>3 DEF TypeOK
  <2>2. ClosedBelowThreshold'
    BY <1>5 DEF FinishSuccess, ClosedBelowThreshold
  <2>3. StreakIsSuccessCount'
    BY <1>5 DEF FinishSuccess, TypeOK, StreakIsSuccessCount
  <2> QED
    BY <1>3, <2>1, <2>2, <2>3
<1> QED
  BY <1>4, <1>5 DEF Finish

\* Every step of the breaker preserves the inductive invariant.
LEMMA NextPreserves == IndInv /\ [Next]_vars => IndInv'
<1> SUFFICES ASSUME IndInv, [Next]_vars PROVE IndInv'
  OBVIOUS
<1>1. CASE \E c \in Callers : Enter(c)
  BY <1>1, EnterPreserves
<1>2. CASE \E c \in Callers : Finish(c)
  BY <1>2, FinishPreserves
<1>3. CASE ResetTimeout
  BY <1>3 DEF IndInv, ResetTimeout, TypeOK, NoSlotOutsideHalfOpen, NeverWedged,
              InFlight, ClosedBelowThreshold, StreakIsSuccessCount
<1>4. CASE UNCHANGED vars
  BY <1>4 DEF IndInv, vars, TypeOK, NoSlotOutsideHalfOpen, NeverWedged,
              InFlight, ClosedBelowThreshold, StreakIsSuccessCount
<1> QED
  BY <1>1, <1>2, <1>3, <1>4 DEF Next

\* The inductive invariant holds in every reachable state of Execute's callers.
THEOREM Inductive == Spec => []IndInv
BY InitEstablishes, NextPreserves, PTL DEF Spec

(***************************************************************************)
(* The fields of the breaker keep their types and the half-open counter    *)
(* never exceeds one.                                                      *)
(***************************************************************************)
THEOREM TypeCorrect == Spec => []TypeOK
<1>1. IndInv => TypeOK
  BY DEF IndInv
<1> QED
  BY <1>1, Inductive, PTL

(***************************************************************************)
(* Execute never leaves the breaker half-open, turning everybody away,     *)
(* with nobody in flight to give the slot back.                            *)
(***************************************************************************)
THEOREM NotWedged == Spec => []NeverWedged
<1>1. IndInv => NeverWedged
  BY DEF IndInv
<1> QED
  BY <1>1, Inductive, PTL

(***************************************************************************)
(* A closed breaker has seen fewer than FailureThreshold failures in a     *)
(* row, late returns of calls admitted before it opened included.          *)
(***************************************************************************)
THEOREM ClosedMeansHealthy == Spec => []ClosedBelowThreshold
<1>1. IndInv => ClosedBelowThreshold
  BY DEF IndInv
<1> QED
  BY <1>1, Inductive, PTL

(***************************************************************************)
(* Execute closes the breaker only out of a half-open period, after        *)
(* SuccessThreshold calls returned in a row successfully since the reset   *)
(* timeout was found elapsed, whenever they were admitted.                 *)
(***************************************************************************)
THEOREM ClosesAfterRecovery == Spec => ClosesOnlyAfterRecovery
<1> DEFINE Closes == state # "closed" /\ state' = "closed"
           Recovered == state = "half_open" /\ streak' = SuccessThreshold
<1>1. IndInv /\ [Next]_vars => [Closes => Recovered]_vars
  <2> SUFFICES ASSUME IndInv, Next, Closes PROVE Recovered
    BY DEF vars
  <2>1. PICK c \in Callers : FinishSuccess(c)
    BY DEF Next, Enter, EnterClosed, EnterAfterTimeout, EnterHalfOpen, Finish,
           FinishFailure, ResetTimeout
  <2> QED
    BY <2>1 DEF FinishSuccess, IndInv, TypeOK, StreakIsSuccessCount, CircuitState
<1> QED
  BY <1>1, Inductive, PTL DEF Spec, ClosesOnlyAfterRecovery

-----------------------------------------------------------------------------
(***************************************************************************)
(* The outbox.  What an entry says agrees with what was done with its      *)
(* event; and whoever is in the worker's batch still waits, once, behind   *)
(* entries that were tried before or are tried first.                      *)
(***************************************************************************)
Entries == [id : Events, retries : Nat, processed : BOOLEAN, old : BOOLEAN]

OutboxTypeOK ==
    /\ events \in Seq(Entries)
    /\ batch \in [Workers -> Seq(Events)]
    /\ attempts \in [Events -> Nat] /\ acks \in [Events -> Nat]
    /\ enqueued \subseteq Events
    /\ \A e \in Events \ enqueued : attempts[e] = 0 /\ acks[e] = 0

EntryOK(i) ==
    /\ events[i].id \in enqueued
    /\ events[i].processed => /\ attempts[events[i].id] > 0
                              /\ acks[events[i].id] = 1 \/ DeadLettered(events[i].id)
    /\ ~events[i].processed => /\ attempts[events[i].id] = events[i].retries
                               /\ events[i].retries < MaxRetries
                               /\ acks[events[i].id] = 0

EntriesOK ==
    /\ \A i \in DOMAIN events : EntryOK(i)
    /\ \A i, j \in DOMAIN events : events[i].id = events[j].id => i = j

\* The entry i is ahead of everything in the batch b behind position m.
Ahead(i, b, m) ==
    attempts[events[i].id] > 0 \/ \E l \in 1..(m - 1) : b[l] = events[i].id

BatchOK(b) ==
    /\ \A m \in DOMAIN b : Waiting(b[m])
    /\ \A l, m \in DOMAIN b : b[l] = b[m] => l = m
    /\ \A m \in DOMAIN b : \A i, j \in DOMAIN events :
          i < j /\ events[j].id = b[m] => Ahead(i, b, m)

OutboxInv ==
    /\ OutboxTypeOK /\ EntriesOK
    /\ NothingLost /\ FirstAttemptsInOrder
    /\ BatchOK(batch["service"])

LEMMA OutboxInitially == OutboxInit => OutboxInv
<1> SUFFICES ASSUME OutboxInit PROVE OutboxInv
  OBVIOUS
<1>1. /\ events = << >> /\ DOMAIN events = {} /\ batch["service"] = << >>
      /\ batch = [w \in Workers |-> << >>] /\ enqueued = {}
      /\ attempts = [e \in Events |-> 0] /\ acks = [e \in Events |-> 0]
  BY DEF OutboxInit, Workers
<1>2. OutboxTypeOK
  BY <1>1 DEF OutboxTypeOK
<1>3. EntriesOK /\ NothingLost /\ FirstAttemptsInOrder
  BY <1>1 DEF EntriesOK, NothingLost, FirstAttemptsInOrder
<1>4. BatchOK(batch["service"])
  BY <1>1 DEF BatchOK
<1> QED
  BY <1>2, <1>3, <1>4 DEF OutboxInv

\* A new entry waits behind all the others.
LEMMA EnqueueKeeps ==
    ASSUME OutboxInv, NEW e \in Events, Enqueue(e)
    PROVE  OutboxInv'
<1> DEFINE new == [id |-> e, retries |-> 0, processed |-> FALSE, old |-> FALSE]
<1>0. PICK n : n = Len(events) + 1
  OBVIOUS
<1>1. /\ events \in Seq(Entries) /\ attempts[e] = 0 /\ acks[e] = 0 /\ e \notin enqueued
      /\ events' = Append(events, new) /\ enqueued' = enqueued \cup {e}
      /\ UNCHANGED <<batch, attempts, acks, stored>>
  BY DEF Enqueue, OutboxInv, OutboxTypeOK
<1>2. new \in Entries
  BY DEF Entries
<1>3. new.id = e /\ new.retries = 0 /\ ~new.processed
  BY Zenon
<1> HIDE DEF new
<1>4. /\ events' \in Seq(Entries) /\ DOMAIN events' = DOMAIN events \cup {n}
      /\ n \notin DOMAIN events /\ events'[n] = new /\ n \in Nat
      /\ \A i \in DOMAIN events : events'[i] = events[i] /\ i \in Nat /\ i < n
  BY <1>0, <1>1, <1>2, AppendProperties, LenProperties
<1>5. OutboxTypeOK'
  BY <1>1, <1>4 DEF OutboxInv, OutboxTypeOK
<1>6. ASSUME NEW i \in DOMAIN events PROVE EntryOK(i)' /\ events[i].id # e
  BY <1>1, <1>4 DEF OutboxInv, EntriesOK, EntryOK, DeadLettered
<1>7. EntryOK(n)'
  <2>1. 0 < MaxRetries
    BY OutboxAssumption
  <2>2. ~events'[n].processed
    BY <1>3, <1>4, Zenon
  <2>3. /\ events'[n].id \in enqueued' /\ attempts'[events'[n].id] = events'[n].retries
        /\ events'[n].retries < MaxRetries /\ acks'[events'[n].id] = 0
    BY <1>1, <1>3, <1>4, <2>1
  <2> QED
    BY <2>2, <2>3, Zenon DEF EntryOK
<1>8. EntriesOK'
  <2>1. \A i, j \in DOMAIN events' : events'[i].id = events'[j].id => i = j
    BY <1>3, <1>4, <1>6 DEF EntriesOK, OutboxInv
  <2>2. \A i \in DOMAIN events' : EntryOK(i)'
    BY <1>4, <1>6, <1>7
  <2> QED
    BY <2>1, <2>2 DEF EntriesOK
<1>9. \A x : Waiting(x) => Waiting(x)'
  BY <1>4 DEF Waiting
<1>10. NothingLost'
  <2>1. Waiting(e)'
    BY <1>3, <1>4 DEF Waiting
  <2> QED
    BY <1>1, <1>9, <2>1 DEF OutboxInv, NothingLost, DeadLettered
<1>12. FirstAttemptsInOrder'
  <2> SUFFICES ASSUME NEW i \in DOMAIN events', NEW j \in DOMAIN events', i < j,
                      attempts'[events'[j].id] > 0
               PROVE  attempts'[events'[i].id] > 0
    BY DEF FirstAttemptsInOrder
  <2>1. j # n
    BY <1>1, <1>3, <1>4
  <2>2. i \in DOMAIN events /\ j \in DOMAIN events
    BY <1>4, <2>1
  <2> QED
    BY <1>1, <1>4, <2>2 DEF OutboxInv, FirstAttemptsInOrder
<1>13. BatchOK(batch["service"])'
  <2> DEFINE b == batch["service"]
  <2>1. BatchOK(b) /\ b' = b
    BY <1>1 DEF OutboxInv
  <2>2. ASSUME NEW m \in DOMAIN b, NEW i \in DOMAIN events', NEW j \in DOMAIN events', i < j,
               events'[j].id = b[m]
        PROVE  Ahead(i, b, m)'
    <3>1. b[m] # e
      BY <1>6, <2>1 DEF BatchOK, Waiting
    <3>2. j # n
      BY <1>3, <1>4, <2>2, <3>1
    <3>3. i \in DOMAIN events /\ j \in DOMAIN events
      BY <1>4, <2>2, <3>2
    <3>4. Ahead(i, b, m)
      BY <1>4, <2>1, <2>2, <3>3 DEF BatchOK
    <3> QED
      BY <1>1, <1>4, <3>3, <3>4 DEF Ahead
  <2>3. \A m \in DOMAIN b : Waiting(b[m])'
    BY <1>1, <1>4, <2>1 DEF BatchOK, Waiting
  <2> QED
    BY <2>1, <2>2, <2>3 DEF BatchOK
<1> QED
  BY <1>5, <1>8, <1>10, <1>12, <1>13 DEF OutboxInv

\* The batch holds the pending entries from the first on.
LEMMA TickKeeps ==
    ASSUME OutboxInv, NEW w \in Workers, Tick(w)
    PROVE  OutboxInv'
<1>1. PICK order \in InOrder(Pending) :
         batch' = [batch EXCEPT ![w] = Dequeue(order, BatchLimit)]
  BY DEF Tick
<1>2. w = "service" /\ UNCHANGED <<events, attempts, acks, stored, enqueued>>
  BY DEF Workers, Tick
<1> DEFINE b == Dequeue(order, BatchLimit)
           size == Cardinality(Pending)
           n == IF Len(order) < BatchLimit THEN Len(order) ELSE BatchLimit
<1>3. batch'["service"] = b
  BY <1>1, <1>2 DEF OutboxInv, OutboxTypeOK
<1>4. /\ events \in Seq(Entries) /\ Len(events) \in Nat /\ DOMAIN events = 1..Len(events)
      /\ Pending \subseteq DOMAIN events
  BY LenProperties DEF OutboxInv, OutboxTypeOK, Pending
<1>5. size \in Nat
  <2>1. IsFiniteSet(DOMAIN events)
    BY <1>4, FS_Interval
  <2> QED
    BY <1>4, <2>1, FS_Subset, FS_CardinalityType
<1>6. /\ order \in [1..size -> Pending]
      /\ \A i, j \in 1..size : i < j => order[i] < order[j]
      /\ \A k \in Pending : \E i \in 1..size : order[i] = k
  BY <1>1 DEF InOrder
<1>7. order \in Seq(Pending) /\ Len(order) = size
  BY <1>5, <1>6
<1>8. n \in 0..size
  BY <1>5, <1>7, OutboxAssumption
<1>9. b = [i \in 1..n |-> events[order[i]].id]
  BY DEF Dequeue
<1> HIDE DEF b, n, size
<1>10. \A m \in 1..n : /\ order[m] \in DOMAIN events /\ ~events[order[m]].processed
                       /\ b[m] = events[order[m]].id /\ m \in 1..size
  <2>1. \A m \in 1..n : m \in 1..size
    BY <1>5, <1>8
  <2>2. \A m \in 1..n : order[m] \in Pending
    BY <1>6, <2>1
  <2> QED
    BY <1>9, <2>1, <2>2, Zenon DEF Pending
<1>11. b \in Seq(Events)
  <2>1. \A m \in 1..n : events[order[m]] \in Entries
    BY <1>4, <1>10, ElementOfSeq
  <2>2. \A m \in 1..n : b[m] \in Events
    BY <1>10, <2>1 DEF Entries
  <2> QED
    BY <1>5, <1>8, <1>9, <2>2
<1>12. OutboxTypeOK'
  BY <1>1, <1>2, <1>11 DEF OutboxInv, OutboxTypeOK, b
<1>13. \A m \in 1..n : Waiting(b[m])
  BY <1>10, Zenon DEF Waiting
<1>14. ASSUME NEW l \in 1..n, NEW m \in 1..n, b[l] = b[m] PROVE l = m
  <2>1. order[l] = order[m]
    BY <1>10, <1>14 DEF OutboxInv, EntriesOK
  <2>2. order[l] \in Nat
    BY <1>4, <1>10
  <2> QED
    BY <1>5, <1>6, <1>8, <1>10, <2>1, <2>2
<1>15. ASSUME NEW m \in 1..n, NEW i \in DOMAIN events, NEW j \in DOMAIN events, i < j,
              events[j].id = b[m]
       PROVE  Ahead(i, b, m)
  <2>1. j = order[m]
    BY <1>10, <1>15 DEF OutboxInv, EntriesOK
  <2>2. CASE events[i].processed
    BY <2>2 DEF OutboxInv, EntriesOK, EntryOK, Ahead
  <2>3. CASE ~events[i].processed
    <3>1. i \in Pending
      BY <2>3, Zenon DEF Pending
    <3>2. PICK l \in 1..size : order[l] = i
      BY <1>6, <3>1
    <3>3. m \in 1..size /\ order[m] \in Nat /\ i \in Nat
      BY <1>4, <1>10
    <3>4. l < m
      <4>1. CASE m < l
        BY <1>6, <1>15, <2>1, <3>2, <3>3, <4>1
      <4>2. CASE m = l
        BY <1>15, <2>1, <3>2, <3>3, <4>2
      <4> QED
        BY <1>5, <3>3, <4>1, <4>2
    <3>5. l \in 1..n /\ l \in 1..(m - 1)
      BY <1>5, <1>8, <3>4
    <3>6. b[l] = events[i].id
      BY <1>10, <3>2, <3>5
    <3> QED
      BY <3>5, <3>6 DEF Ahead
  <2> QED
    BY <2>2, <2>3
<1>16. DOMAIN b = 1..n
  BY <1>9
<1>17. BatchOK(b)
  BY <1>13, <1>14, <1>15, <1>16 DEF BatchOK
<1>18. BatchOK(batch["service"])'
  BY <1>2, <1>3, <1>17 DEF BatchOK, Waiting, Ahead
<1> QED
  BY <1>2, <1>12, <1>18
  DEF OutboxInv, EntriesOK, EntryOK, DeadLettered, NothingLost,
      FirstAttemptsInOrder, Waiting

\* What is dropped was published or given up.
LEMMA EndTickKeeps ==
    ASSUME OutboxInv, NEW w \in Workers, EndTick(w)
    PROVE  OutboxInv'
<1> DEFINE T == DOMAIN events \ Purged
           size == Cardinality(T)
<1>1. PICK kept \in InOrder(T) : events' = [i \in DOMAIN kept |-> events[kept[i]]]
  BY DEF EndTick
<1>2. /\ w = "service" /\ UNCHANGED <<batch, attempts, acks, stored, enqueued>>
      /\ batch["service"] = << >>
  BY DEF Workers, EndTick
<1>3. events \in Seq(Entries) /\ Len(events) \in Nat /\ DOMAIN events = 1..Len(events)
  BY LenProperties DEF OutboxInv, OutboxTypeOK
<1>4. size \in Nat /\ T \subseteq DOMAIN events
  <2>1. IsFiniteSet(DOMAIN events)
    BY <1>3, FS_Interval
  <2> QED
    BY <2>1, FS_Subset, FS_CardinalityType
<1>5. /\ kept \in [1..size -> T]
      /\ \A i, j \in 1..size : i < j => kept[i] < kept[j]
      /\ \A k \in T : \E i \in 1..size : kept[i] = k
  BY <1>1 DEF InOrder
<1>6. /\ DOMAIN events' = 1..size
      /\ \A i \in 1..size : events'[i] = events[kept[i]] /\ kept[i] \in DOMAIN events
  BY <1>1, <1>4, <1>5
<1>7. \A k \in DOMAIN events : ~events[k].processed => k \in T
  BY Zenon DEF Purged
<1> HIDE DEF T, size
<1>8. events' \in Seq(Entries)
  <2>1. \A i \in 1..size : events[kept[i]] \in Entries
    BY <1>3, <1>6, ElementOfSeq
  <2>2. events' = [i \in 1..size |-> events[kept[i]]]
    BY <1>1, <1>5
  <2> QED
    BY <1>4, <2>1, <2>2
<1>9. OutboxTypeOK'
  BY <1>2, <1>8 DEF OutboxInv, OutboxTypeOK
<1>10. \A i \in 1..size : EntryOK(i)'
  BY <1>2, <1>6 DEF OutboxInv, EntriesOK, EntryOK, DeadLettered
<1>11. ASSUME NEW i \in 1..size, NEW j \in 1..size, events'[i].id = events'[j].id
       PROVE  i = j
  <2>1. kept[i] = kept[j] /\ kept[i] \in Nat
    BY <1>3, <1>6, <1>11 DEF OutboxInv, EntriesOK
  <2> QED
    BY <1>4, <1>5, <2>1
<1>12. \A x : Waiting(x) => Waiting(x)'
  <2> SUFFICES ASSUME NEW x, NEW k \in DOMAIN events, events[k].id = x, ~events[k].processed
               PROVE  Waiting(x)'
    BY Zenon DEF Waiting
  <2>1. PICK i \in 1..size : kept[i] = k
    BY <1>5, <1>7
  <2>2. i \in DOMAIN events' /\ events'[i] = events[k]
    BY <1>6, <2>1
  <2> QED
    BY <2>2, Zenon DEF Waiting
<1>13. NothingLost'
  BY <1>2, <1>12 DEF OutboxInv, NothingLost, DeadLettered
<1>14. FirstAttemptsInOrder'
  <2> SUFFICES ASSUME NEW i \in 1..size, NEW j \in 1..size, i < j,
                      attempts[events'[j].id] > 0
               PROVE  attempts[events'[i].id] > 0
    BY <1>2, <1>6 DEF FirstAttemptsInOrder
  <2>1. kept[i] < kept[j]
    BY <1>5
  <2> QED
    BY <1>6, <2>1 DEF OutboxInv, FirstAttemptsInOrder
<1>15. BatchOK(batch["service"])'
  BY <1>2 DEF BatchOK
<1> QED
  BY <1>6, <1>9, <1>10, <1>11, <1>13, <1>14, <1>15 DEF OutboxInv, EntriesOK

\* Time passes.
LEMMA AgeKeeps ==
    ASSUME OutboxInv, Age
    PROVE  OutboxInv'
<1>1. PICK k \in DOMAIN events : events' = [events EXCEPT ![k].old = TRUE]
  BY DEF Age
<1>2. UNCHANGED <<batch, attempts, acks, stored, enqueued>>
  BY DEF Age
<1>3. events \in Seq(Entries) /\ Len(events) \in Nat /\ DOMAIN events = 1..Len(events)
  BY LenProperties DEF OutboxInv, OutboxTypeOK
<1>4. events[k] \in Entries
  BY <1>3, ElementOfSeq
<1> DEFINE new == [events[k] EXCEPT !.old = TRUE]
<1>5. new \in Entries /\ new.id = events[k].id /\ new.retries = events[k].retries
  BY <1>4 DEF Entries
<1>6. new.processed = events[k].processed
  BY <1>4 DEF Entries
<1>7. events' = [events EXCEPT ![k] = new]
  BY <1>1
<1> HIDE DEF new
<1>8. events' \in Seq(Entries) /\ DOMAIN events' = DOMAIN events
  BY <1>3, <1>5, <1>7, ExceptSeq
<1>9. \A i \in DOMAIN events :
         /\ events'[i].id = events[i].id /\ events'[i].retries = events[i].retries
         /\ events'[i].processed = events[i].processed
  BY <1>3, <1>5, <1>6, <1>7
<1>10. OutboxTypeOK'
  BY <1>2, <1>8 DEF OutboxInv, OutboxTypeOK
<1>11. \A i \in DOMAIN events : EntryOK(i)'
  BY <1>2, <1>9 DEF OutboxInv, EntriesOK, EntryOK, DeadLettered
<1>12. EntriesOK'
  BY <1>8, <1>9, <1>11 DEF OutboxInv, EntriesOK
<1>13. \A x : Waiting(x)' <=> Waiting(x)
  BY <1>8, <1>9, Zenon DEF Waiting
<1>14. NothingLost' /\ FirstAttemptsInOrder'
  BY <1>2, <1>8, <1>9, <1>13
  DEF OutboxInv, NothingLost, FirstAttemptsInOrder, DeadLettered
<1>15. BatchOK(batch["service"])'
  <2>0. PICK b : b = batch["service"]
    OBVIOUS
  <2>1. BatchOK(b) /\ batch'["service"] = b
    BY <1>2, <2>0 DEF OutboxInv
  <2>2. \A m \in DOMAIN b : Waiting(b[m])'
    BY <1>13, <2>1 DEF BatchOK
  <2>3. \A i \in DOMAIN events, m \in DOMAIN b : Ahead(i, b, m)' <=> Ahead(i, b, m)
    BY <1>2, <1>9, <2>1 DEF Ahead
  <2>4. BatchOK(b)'
    BY <1>8, <1>9, <2>1, <2>2, <2>3 DEF BatchOK
  <2> QED
    BY <2>1, <2>4 DEF BatchOK, Waiting, Ahead
<1> QED
  BY <1>10, <1>12, <1>14, <1>15 DEF OutboxInv

\* What publishing does to the one entry of event e, at position p: it is
\* settled, or waits for another try.
Tried(e, p, done) ==
    /\ events' \in Seq(Entries) /\ DOMAIN events' = DOMAIN events
    /\ \A i \in DOMAIN events : i # p => events'[i] = events[i]
    /\ events'[p].id = e
    /\ attempts' = [attempts EXCEPT ![e] = @ + 1]
    /\ \/ done /\ events'[p].processed /\ acks' = [acks EXCEPT ![e] = @ + 1]
       \/ /\ ~done /\ events'[p].retries = events[p].retries + 1 /\ acks' = acks
          /\ events'[p].processed <=> events[p].retries + 1 >= MaxRetries

LEMMA PublishTries ==
    ASSUME OutboxInv, Publish("service"), NEW e, e = Head(batch["service"])
    PROVE  \E p \in DOMAIN events :
              /\ events[p].id = e /\ ~events[p].processed
              /\ Tried(e, p, TRUE) \/ Tried(e, p, FALSE)
<1> DEFINE b == batch["service"]
<1>1. b \in Seq(Events) /\ b # << >> /\ BatchOK(b) /\ e = b[1] /\ 1 \in DOMAIN b
  BY HeadTailProperties, EmptySeq DEF Publish, OutboxInv, OutboxTypeOK, Workers
<1>2. PICK p \in DOMAIN events : events[p].id = e /\ ~events[p].processed
  BY <1>1, Zenon DEF BatchOK, Waiting
<1>3. events \in Seq(Entries) /\ Len(events) \in Nat /\ DOMAIN events = 1..Len(events)
  BY LenProperties DEF OutboxInv, OutboxTypeOK
<1>4. events[p] \in Entries
  BY <1>3, ElementOfSeq
<1>5. \A i \in DOMAIN events : events[i].id = e => i = p
  BY <1>2 DEF OutboxInv, EntriesOK
<1>6. ASSUME NEW new, new \in Entries, new.id = e,
             events' = [i \in DOMAIN events |-> IF events[i].id = e THEN new ELSE events[i]]
      PROVE  /\ events' \in Seq(Entries) /\ DOMAIN events' = DOMAIN events
             /\ \A i \in DOMAIN events : i # p => events'[i] = events[i]
             /\ events'[p] = new
  <2>1. \A i \in DOMAIN events : events[i] \in Entries
    BY <1>3, ElementOfSeq
  <2>2. events' \in [1..Len(events) -> Entries]
    BY <1>3, <1>6, <2>1
  <2> QED
    BY <1>2, <1>3, <1>5, <1>6, <2>2
<1>7. attempts' = [attempts EXCEPT ![e] = @ + 1]
  BY DEF Publish
<1>8. CASE events' = MarkProcessed(e) /\ acks' = [acks EXCEPT ![e] = @ + 1]
  <2> DEFINE new == [events[p] EXCEPT !.processed = TRUE]
  <2>1. new \in Entries /\ new.id = e
    BY <1>2, <1>4 DEF Entries
  <2>2. new.processed
    BY <1>4 DEF Entries
  <2>3. events' = [i \in DOMAIN events |-> IF events[i].id = e THEN new ELSE events[i]]
    BY <1>5, <1>8 DEF MarkProcessed, OnEntry
  <2> HIDE DEF new
  <2>4. /\ events' \in Seq(Entries) /\ DOMAIN events' = DOMAIN events
        /\ \A i \in DOMAIN events : i # p => events'[i] = events[i]
        /\ events'[p] = new
    BY <1>6, <2>1, <2>3
  <2>5. events'[p].processed
    BY <2>2, <2>4, Zenon
  <2>6. Tried(e, p, TRUE)
    BY <1>7, <1>8, <2>1, <2>4, <2>5, Zenon DEF Tried
  <2> QED
    BY <1>2, <2>6
<1>9. CASE events' = MarkFailed(e) /\ acks' = acks
  <2> DEFINE last == events[p].retries + 1 >= MaxRetries
             new == [events[p] EXCEPT !.retries = events[p].retries + 1,
                                      !.processed = events[p].processed \/ last]
  <2>1. events[p].retries \in Nat
    BY <1>4 DEF Entries
  <2>2. new \in Entries /\ new.id = e /\ new.retries = events[p].retries + 1
    <3>1. (events[p].processed \/ last) \in BOOLEAN
      BY Zenon
    <3>2. PICK v \in BOOLEAN : v = (events[p].processed \/ last)
      BY <3>1, Zenon
    <3>3. new = [events[p] EXCEPT !.retries = events[p].retries + 1, !.processed = v]
      BY <3>2, Zenon
    <3> HIDE DEF new, last
    <3>4. events[p].retries + 1 \in Nat /\ v \in BOOLEAN
      BY <2>1
    <3>5. ASSUME NEW r \in Nat, NEW u \in BOOLEAN
          PROVE  [events[p] EXCEPT !.retries = r, !.processed = u] \in Entries
      BY <1>4 DEF Entries
    <3>6. new \in Entries
      BY <3>3, <3>4, <3>5
    <3>7. new.id = events[p].id /\ new.retries = events[p].retries + 1
      BY <1>4, <3>3 DEF Entries
    <3> QED
      BY <1>2, <3>6, <3>7
  <2>3. new.processed <=> last
    <3>1. new.processed = (events[p].processed \/ last)
      BY <1>4 DEF Entries
    <3> QED
      BY <1>2, <3>1, Zenon
  <2>4. events' = [i \in DOMAIN events |-> IF events[i].id = e THEN new ELSE events[i]]
    BY <1>5, <1>9 DEF MarkFailed, OnEntry
  <2> HIDE DEF new
  <2>5. /\ events' \in Seq(Entries) /\ DOMAIN events' = DOMAIN events
        /\ \A i \in DOMAIN events : i # p => events'[i] = events[i]
        /\ events'[p] = new
    BY <1>6, <2>2, <2>4
  <2>6. events'[p].processed <=> last
    BY <2>3, <2>5, Zenon
  <2>7. Tried(e, p, FALSE)
    BY <1>7, <1>9, <2>2, <2>5, <2>6, Zenon DEF Tried
  <2> QED
    BY <1>2, <2>7
<1> QED
  BY <1>8, <1>9 DEF Publish

\* A turn of the worker's loop.
LEMMA PublishKeeps ==
    ASSUME OutboxInv, Publish("service")
    PROVE  OutboxInv'
<1>1. PICK e : e = Head(batch["service"])
  OBVIOUS
<1>2. PICK p \in DOMAIN events :
         /\ events[p].id = e /\ ~events[p].processed
         /\ Tried(e, p, TRUE) \/ Tried(e, p, FALSE)
  BY <1>1, PublishTries
<1>3. PICK b : b = batch["service"]
  OBVIOUS
<1>4. /\ b \in Seq(Events) /\ b # << >> /\ BatchOK(b) /\ e = b[1] /\ e \in Events
      /\ batch' = [batch EXCEPT !["service"] = Tail(b)] /\ enqueued' = enqueued
  BY <1>1, <1>3, HeadTailProperties DEF Publish, OutboxInv, OutboxTypeOK, Workers
<1>5. /\ events \in Seq(Entries) /\ Len(events) \in Nat /\ DOMAIN events = 1..Len(events)
      /\ events' \in Seq(Entries) /\ DOMAIN events' = DOMAIN events
      /\ \A i \in DOMAIN events : i # p => events'[i] = events[i]
      /\ \A i \in DOMAIN events : events'[i].id = events[i].id
  BY <1>2, LenProperties DEF Tried, OutboxInv, OutboxTypeOK
<1>6. /\ attempts \in [Events -> Nat] /\ acks \in [Events -> Nat]
      /\ attempts' \in [Events -> Nat] /\ acks' \in [Events -> Nat]
      /\ attempts'[e] = attempts[e] + 1
      /\ \A x \in Events : x # e => attempts'[x] = attempts[x] /\ acks'[x] = acks[x]
  <2>1. attempts \in [Events -> Nat] /\ acks \in [Events -> Nat]
    BY DEF OutboxInv, OutboxTypeOK
  <2>2. /\ attempts' = [attempts EXCEPT ![e] = @ + 1]
        /\ acks' = acks \/ acks' = [acks EXCEPT ![e] = @ + 1]
    BY <1>2, Zenon DEF Tried
  <2>3. /\ attempts' \in [Events -> Nat] /\ attempts'[e] = attempts[e] + 1
        /\ \A x \in Events : x # e => attempts'[x] = attempts[x]
    BY <1>4, <2>1, <2>2
  <2>4. acks' \in [Events -> Nat] /\ \A x \in Events : x # e => acks'[x] = acks[x]
    <3>1. CASE acks' = acks
      BY <2>1, <3>1
    <3>2. CASE acks' = [acks EXCEPT ![e] = @ + 1]
      BY <1>4, <2>1, <3>2
    <3> QED
      BY <2>2, <3>1, <3>2
  <2> QED
    BY <2>1, <2>3, <2>4
<1>7. \A x \in Events : attempts[x] > 0 => attempts'[x] > 0
  BY <1>6
<1>8. \A i \in DOMAIN events : events[i].id \in Events /\ (events[i].id = e => i = p)
  BY <1>2 DEF OutboxInv, OutboxTypeOK, EntriesOK, EntryOK
<1>9. /\ attempts[e] = events[p].retries /\ events[p].retries < MaxRetries /\ acks[e] = 0
      /\ e \in enqueued /\ events[p].retries \in Nat /\ MaxRetries \in Nat
  <2>1. EntryOK(p)
    BY DEF OutboxInv, EntriesOK
  <2>2. /\ attempts[e] = events[p].retries /\ events[p].retries < MaxRetries /\ acks[e] = 0
        /\ e \in enqueued
    BY <1>2, <2>1, Zenon DEF EntryOK
  <2>3. attempts[e] \in Nat
    BY <1>4, <1>6
  <2> QED
    BY <2>2, <2>3, OutboxAssumption
<1>10. OutboxTypeOK'
  <2>1. batch' \in [Workers -> Seq(Events)]
    BY <1>4, HeadTailProperties DEF OutboxInv, OutboxTypeOK, Workers
  <2> QED
    BY <1>4, <1>5, <1>6, <1>9, <2>1 DEF OutboxInv, OutboxTypeOK
<1>11. \/ events'[p].processed /\ acks'[e] = 1
       \/ /\ events'[p].processed /\ acks'[e] = 0 /\ attempts'[e] = MaxRetries
       \/ /\ ~events'[p].processed /\ acks'[e] = 0 /\ attempts'[e] = events'[p].retries
          /\ events'[p].retries < MaxRetries
  <2>1. CASE Tried(e, p, TRUE)
    <3>1. events'[p].processed /\ acks' = [acks EXCEPT ![e] = @ + 1]
      BY <2>1, Zenon DEF Tried
    <3> QED
      BY <1>4, <1>6, <1>9, <3>1
  <2>2. CASE Tried(e, p, FALSE)
    <3>1. /\ events'[p].retries = events[p].retries + 1 /\ acks' = acks
          /\ events'[p].processed <=> events[p].retries + 1 >= MaxRetries
      BY <2>2, Zenon DEF Tried
    <3>2. CASE events'[p].processed
      <4>1. events[p].retries + 1 >= MaxRetries
        BY <3>1, <3>2, Zenon
      <4> QED
        BY <1>6, <1>9, <3>1, <3>2, <4>1
    <3>3. CASE ~events'[p].processed
      <4>1. ~(events[p].retries + 1 >= MaxRetries)
        BY <3>1, <3>3, Zenon
      <4> QED
        BY <1>6, <1>9, <3>1, <3>3, <4>1
    <3> QED
      BY <3>2, <3>3
  <2> QED
    BY <1>2, <2>1, <2>2
<1>12. attempts'[e] > 0
  BY <1>6, <1>9
<1>13. EntryOK(p)'
  BY <1>2, <1>4, <1>5, <1>9, <1>11, <1>12 DEF EntryOK, DeadLettered
<1>14. ASSUME NEW i \in DOMAIN events, i # p PROVE EntryOK(i)'
  <2>1. events'[i] = events[i] /\ events[i].id # e /\ events[i].id \in Events
    BY <1>5, <1>8, <1>14
  <2> QED
    BY <1>4, <1>6, <2>1 DEF OutboxInv, EntriesOK, EntryOK, DeadLettered
<1>15. EntriesOK'
  BY <1>5, <1>13, <1>14 DEF OutboxInv, EntriesOK
<1>16. ASSUME NEW x, x # e, Waiting(x) PROVE Waiting(x)'
  <2>1. PICK i \in DOMAIN events : events[i].id = x /\ ~events[i].processed
    BY <1>16, Zenon DEF Waiting
  <2>2. i # p /\ i \in DOMAIN events' /\ events'[i] = events[i]
    BY <1>2, <1>5, <1>16, <2>1
  <2> QED
    BY <2>1, <2>2, Zenon DEF Waiting
<1>17. NothingLost'
  <2> SUFFICES ASSUME NEW x \in enqueued
               PROVE  Waiting(x)' \/ acks'[x] > 0 \/ DeadLettered(x)'
    BY <1>4 DEF NothingLost
  <2>1. CASE x = e
    <3>1. CASE ~events'[p].processed
      BY <1>2, <1>5, <2>1, <3>1, Zenon DEF Waiting
    <3>2. CASE events'[p].processed
      BY <1>11, <2>1, <3>2 DEF DeadLettered
    <3> QED
      BY <3>1, <3>2
  <2>2. CASE x # e
    <3>1. x \in Events
      BY DEF OutboxInv, OutboxTypeOK
    <3> QED
      BY <1>6, <1>16, <2>2, <3>1 DEF OutboxInv, NothingLost, DeadLettered
  <2> QED
    BY <2>1, <2>2
<1>19. \A i \in DOMAIN events : i < p => attempts[events[i].id] > 0
  <2> SUFFICES ASSUME NEW i \in DOMAIN events, i < p PROVE attempts[events[i].id] > 0
    OBVIOUS
  <2>1. 1 \in DOMAIN b
    BY <1>4, EmptySeq, LenProperties
  <2>2. Ahead(i, b, 1)
    BY <1>2, <1>4, <2>1 DEF BatchOK
  <2> QED
    BY <2>2 DEF Ahead
<1>20. FirstAttemptsInOrder'
  <2> SUFFICES ASSUME NEW i \in DOMAIN events, NEW j \in DOMAIN events, i < j,
                      attempts'[events[j].id] > 0
               PROVE  attempts'[events[i].id] > 0
    BY <1>5 DEF FirstAttemptsInOrder
  <2>1. CASE j = p
    BY <1>7, <1>8, <1>19, <2>1
  <2>2. CASE j # p
    <3>1. events[j].id # e /\ attempts[events[j].id] > 0
      BY <1>6, <1>8, <2>2
    <3>2. attempts[events[i].id] > 0
      BY <3>1 DEF OutboxInv, FirstAttemptsInOrder
    <3> QED
      BY <1>7, <1>8, <3>2
  <2> QED
    BY <2>1, <2>2
<1>21. BatchOK(batch["service"])'
  <2>1. PICK t : t = Tail(b)
    OBVIOUS
  <2>2. /\ batch'["service"] = t /\ Len(b) \in Nat /\ DOMAIN b = 1..Len(b)
        /\ DOMAIN t = 1..(Len(b) - 1) /\ \A m \in DOMAIN t : t[m] = b[m + 1]
    <3>1. batch'["service"] = t
      BY <1>4, <2>1 DEF OutboxInv, OutboxTypeOK, Workers
    <3>2. Len(b) \in Nat /\ DOMAIN b = 1..Len(b)
      BY <1>4, LenProperties
    <3>3. Len(t) = Len(b) - 1 /\ t \in Seq(Events) /\ \A m \in 1..Len(t) : t[m] = b[m + 1]
      BY <1>4, <2>1, HeadTailProperties
    <3>4. DOMAIN t = 1..Len(t)
      BY <3>3, LenProperties
    <3> QED
      BY <3>1, <3>2, <3>3, <3>4
  <2>3. \A m \in DOMAIN t : m + 1 \in DOMAIN b /\ m \in Nat /\ t[m] = b[m + 1] /\ t[m] # e
    <3>1. \A m \in DOMAIN t : m + 1 \in DOMAIN b /\ m + 1 # 1 /\ 1 \in DOMAIN b /\ m \in Nat
      BY <2>2
    <3> QED
      BY <1>4, <2>2, <3>1 DEF BatchOK
  <2>4. \A m \in DOMAIN t : Waiting(t[m])'
    BY <1>4, <1>16, <2>3 DEF BatchOK
  <2>5. ASSUME NEW l \in DOMAIN t, NEW m \in DOMAIN t, t[l] = t[m] PROVE l = m
    <3>1. l + 1 = m + 1
      BY <1>4, <2>3, <2>5 DEF BatchOK
    <3> QED
      BY <2>3, <3>1
  <2>6. ASSUME NEW m \in DOMAIN t, NEW i \in DOMAIN events, NEW j \in DOMAIN events, i < j,
               events[j].id = t[m]
        PROVE  Ahead(i, t, m)'
    <3>1. Ahead(i, b, m + 1)
      BY <1>4, <2>3, <2>6 DEF BatchOK
    <3>2. CASE attempts[events[i].id] > 0
      BY <1>5, <1>7, <1>8, <3>2 DEF Ahead
    <3>3. CASE \E l \in 1..((m + 1) - 1) : b[l] = events[i].id
      <4>1. PICK l \in 1..((m + 1) - 1) : b[l] = events[i].id
        BY <3>3
      <4>2. CASE l = 1
        BY <1>4, <1>5, <1>12, <4>1, <4>2 DEF Ahead
      <4>3. CASE l # 1
        <5>1. l - 1 \in 1..(m - 1) /\ l - 1 \in DOMAIN t /\ (l - 1) + 1 = l
          BY <2>2, <2>3, <4>1, <4>3
        <5>2. t[l - 1] = events[i].id
          BY <2>3, <4>1, <5>1
        <5> QED
          BY <1>5, <5>1, <5>2 DEF Ahead
      <4> QED
        BY <4>2, <4>3
    <3> QED
      BY <3>1, <3>2, <3>3 DEF Ahead
  <2>7. BatchOK(t)'
    BY <1>5, <2>4, <2>5, <2>6 DEF BatchOK
  <2> QED
    BY <2>2, <2>7 DEF BatchOK, Waiting, Ahead
<1> QED
  BY <1>10, <1>15, <1>17, <1>20, <1>21 DEF OutboxInv

LEMMA OutboxPreserved == OutboxInv /\ [OutboxNext]_outboxVars => OutboxInv'
<1> SUFFICES ASSUME OutboxInv, [OutboxNext]_outboxVars PROVE OutboxInv'
  OBVIOUS
<1>1. CASE UNCHANGED outboxVars
  BY <1>1 DEF outboxVars, OutboxInv, OutboxTypeOK, EntriesOK, EntryOK, BatchOK, Ahead,
     Waiting, DeadLettered, NothingLost, FirstAttemptsInOrder
<1>2. ASSUME NEW w \in Workers, Publish(w) PROVE OutboxInv'
  <2>1. w = "service"
    BY DEF Workers
  <2> QED
    BY <1>2, <2>1, PublishKeeps
<1> QED
  BY <1>1, <1>2, EnqueueKeeps, TickKeeps, EndTickKeeps, AgeKeeps DEF OutboxNext, OutboxWorker

\* "only mark an event processed when its downstream publish actually
\* succeeds" (M-12): whatever handlers enqueue while the worker publishes,
\* whatever fails and whatever Purge drops, no event is lost.
THEOREM OutboxLosesNothing == OutboxSpec => []NothingLost
BY OutboxInitially, OutboxPreserved, PTL DEF OutboxSpec, OutboxInv

\* What the worker hands to the publisher was not acknowledged before and has
\* retries left: its entry still waits, and says so.
LEMMA PublishesPending ==
    ASSUME OutboxInv, Publish("service"), NEW x \in Events,
           attempts'[x] # attempts[x] \/ x \in stored' \ stored
    PROVE  acks[x] = 0 /\ attempts[x] < MaxRetries
<1>1. PICK e : e = Head(batch["service"])
  OBVIOUS
<1>2. PICK p \in DOMAIN events : events[p].id = e /\ ~events[p].processed
  BY <1>1, PublishTries
<1>3. x = e
  <2>1. /\ attempts' = [attempts EXCEPT ![e] = @ + 1]
        /\ stored' = stored \/ stored' = stored \cup {e}
    BY <1>1 DEF Publish
  <2> QED
    BY <2>1 DEF OutboxInv, OutboxTypeOK
<1>4. EntryOK(p)
  BY DEF OutboxInv, EntriesOK
<1>5. /\ attempts[e] = events[p].retries /\ events[p].retries < MaxRetries
      /\ acks[e] = 0
  BY <1>2, <1>4, Zenon DEF EntryOK
<1> QED
  BY <1>3, <1>5

\* The one worker never hands an acknowledged event to the publisher again,
\* nor one that used up its retries; and nothing else reaches the downstream.
THEOREM OutboxPublishesPending == OutboxSpec => NotRepublished
<1> DEFINE OnlyPending ==
             \A e \in Events :
                attempts'[e] # attempts[e] \/ e \in stored' \ stored
                   => acks[e] = 0 /\ attempts[e] < MaxRetries
<1>1. OutboxInv /\ [OutboxNext]_outboxVars => [OnlyPending]_outboxVars
  <2> SUFFICES ASSUME OutboxInv, OutboxNext, NEW x \in Events,
                      attempts'[x] # attempts[x] \/ x \in stored' \ stored
               PROVE  acks[x] = 0 /\ attempts[x] < MaxRetries
    BY DEF outboxVars
  <2>1. PICK w \in Workers : Publish(w)
    BY DEF OutboxNext, OutboxWorker, Enqueue, Tick, EndTick, Age
  <2>2. w = "service"
    BY DEF Workers
  <2> QED
    BY <2>1, <2>2, PublishesPending
<1> QED
  BY <1>1, OutboxInitially, OutboxPreserved, PTL DEF OutboxSpec, NotRepublished

\* First attempts follow the order of Enqueue, for every batch limit.
THEOREM OutboxInOrder == OutboxSpec => []FirstAttemptsInOrder
BY OutboxInitially, OutboxPreserved, PTL DEF OutboxSpec, OutboxInv
=============================================================================
