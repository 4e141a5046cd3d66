--------------------------- MODULE CircuitBreaker ---------------------------
(***************************************************************************)
(* The circuit breaker that guards the database writes of the platform     *)
(* service (backend/internal/domain/platform/infrastructure.go).           *)
(*                                                                         *)
(* Execute takes the mutex twice: once to decide whether the call is       *)
(* admitted and once, after the guarded function returned, to account for  *)
(* the result.  Between the two the breaker is unlocked, so any number of  *)
(* other calls may change its state; the two critical sections are the     *)
(* actions Enter and Finish of each caller.                                *)
(***************************************************************************)
EXTENDS Integers, FiniteSets

CONSTANTS
    Callers,            \* goroutines that go through Execute
    FailureThreshold,   \* consecutive failures that open the breaker
    SuccessThreshold,   \* half-open successes that close it
    MaxFailures         \* bound: failures the guarded dependency produces

ASSUME BreakerAssumption ==
    /\ FailureThreshold \in Nat \ {0}
    /\ SuccessThreshold \in Nat \ {0}
    /\ MaxFailures \in Nat

VARIABLES
    state,          \* cb.state
    failureCount,   \* cb.failureCount
    successCount,   \* cb.successCount
    halfOpenCount,  \* cb.halfOpenCount, a signed counter
    elapsed,        \* time.Since(cb.lastStateChange) > cb.resetTimeout
    call,           \* what each caller is doing
    failuresLeft,   \* failures the dependency may still produce
    streak          \* history: calls that returned successfully in a row, since
                    \* the reset timeout was last found elapsed; counted up to
                    \* SuccessThreshold

vars == <<state, failureCount, successCount, halfOpenCount, elapsed, call,
          failuresLeft, streak>>

CircuitState == {"closed", "open", "half_open"}

(***************************************************************************)
(* A caller is idle, or inside fn().  A call in flight remembers the state *)
(* in which the breaker let it in: the code keeps no such record, the      *)
(* properties need it.                                                     *)
(***************************************************************************)
CallState == {"idle", "normal", "probe"}

InFlight == {c \in Callers : call[c] # "idle"}

TypeOK ==
    /\ state \in CircuitState
    /\ failureCount \in Nat
    /\ successCount \in Nat
    /\ halfOpenCount \in Int
    /\ halfOpenCount <= 1
    /\ elapsed \in BOOLEAN
    /\ call \in [Callers -> CallState]
    /\ failuresLeft \in 0..MaxFailures
    /\ streak \in 0..SuccessThreshold

Init ==
    /\ state = "closed"
    /\ failureCount = 0
    /\ successCount = 0
    /\ halfOpenCount = 0
    /\ elapsed = FALSE
    /\ call = [c \in Callers |-> "idle"]
    /\ failuresLeft = MaxFailures
    /\ streak = 0

-----------------------------------------------------------------------------
(***************************************************************************)
(* First critical section of Execute.  A rejected call returns             *)
(* ErrCircuitOpen and changes nothing, so only admissions are actions.     *)
(***************************************************************************)
EnterClosed(c) ==
    /\ state = "closed"
    /\ call' = [call EXCEPT ![c] = "normal"]
    /\ UNCHANGED <<state, failureCount, successCount, halfOpenCount, elapsed,
                   streak>>

\* Mutant: the success count of the previous half-open period is kept.
MutEnterAfterTimeout(c) ==
    /\ state = "open"
    /\ elapsed
    /\ state' = "half_open"
    /\ elapsed' = FALSE
    /\ call' = [call EXCEPT ![c] = "probe"]
    /\ streak' = 0
    /\ UNCHANGED <<failureCount, successCount, halfOpenCount>>

\* The call that finds the reset timeout elapsed becomes the first probe.  The
\* switch leaves its CircuitOpen branch without touching halfOpenCount.
EnterAfterTimeout(c) ==
    /\ state = "open"
    /\ elapsed
    /\ state' = "half_open"
    /\ successCount' = 0
    /\ elapsed' = FALSE
    /\ call' = [call EXCEPT ![c] = "probe"]
    /\ streak' = 0
    /\ UNCHANGED <<failureCount, halfOpenCount>>

\* Mutant: any number of probes is admitted.
MutEnterHalfOpen(c) ==
    /\ state = "half_open"
    /\ halfOpenCount' = halfOpenCount + 1
    /\ call' = [call EXCEPT ![c] = "probe"]
    /\ UNCHANGED <<state, failureCount, successCount, elapsed, streak>>

EnterHalfOpen(c) ==
    /\ state = "half_open"
    /\ halfOpenCount <= 0
    /\ halfOpenCount' = halfOpenCount + 1
    /\ call' = [call EXCEPT ![c] = "probe"]
    /\ UNCHANGED <<state, failureCount, successCount, elapsed, streak>>

Enter(c) ==
    /\ call[c] = "idle"
    /\ EnterClosed(c) \/ EnterAfterTimeout(c) \/ EnterHalfOpen(c)
    /\ UNCHANGED failuresLeft

-----------------------------------------------------------------------------
(***************************************************************************)
(* Second critical section.  The half-open counter is decremented whenever *)
(* the breaker is half-open at the return, whichever way the call came in. *)
(***************************************************************************)
MutReleaseSlot == UNCHANGED halfOpenCount     \* mutant: the slot is never returned

ReleaseSlot ==
    halfOpenCount' = IF state = "half_open" THEN halfOpenCount - 1
                                            ELSE halfOpenCount

\* Mutant: the threshold is compared before the failure is counted.
MutFinishFailure(c) ==
    LET opens == failureCount >= FailureThreshold \/ state = "half_open"
    IN  /\ call[c] # "idle"
        /\ failuresLeft > 0
        /\ failuresLeft' = failuresLeft - 1
        /\ ReleaseSlot
        /\ failureCount' = failureCount + 1
        /\ state' = IF opens THEN "open" ELSE state
        /\ elapsed' = IF opens THEN FALSE ELSE elapsed
        /\ call' = [call EXCEPT ![c] = "idle"]
        /\ streak' = 0
        /\ UNCHANGED successCount

FinishFailure(c) ==
    LET opens == failureCount + 1 >= FailureThreshold \/ state = "half_open"
    IN  /\ call[c] # "idle"
        /\ failuresLeft > 0
        /\ failuresLeft' = failuresLeft - 1
        /\ ReleaseSlot
        /\ failureCount' = failureCount + 1
        /\ state' = IF opens THEN "open" ELSE state
        /\ elapsed' = IF opens THEN FALSE ELSE elapsed
        /\ call' = [call EXCEPT ![c] = "idle"]
        /\ streak' = 0
        /\ UNCHANGED successCount

FinishSuccess(c) ==
    LET counted == state = "half_open"
        closes  == counted /\ successCount + 1 >= SuccessThreshold
    IN  /\ call[c] # "idle"
        /\ ReleaseSlot
        /\ failureCount' = 0
        /\ successCount' = IF counted THEN successCount + 1 ELSE successCount
        /\ state' = IF closes THEN "closed" ELSE state
        /\ elapsed' = IF closes THEN FALSE ELSE elapsed
        /\ call' = [call EXCEPT ![c] = "idle"]
        /\ streak' = IF streak < SuccessThreshold THEN streak + 1 ELSE streak
        /\ UNCHANGED failuresLeft

Finish(c) == FinishFailure(c) \/ FinishSuccess(c)

(***************************************************************************)
(* The clock: resetTimeout passes since the last state change.  Only the   *)
(* open state ever looks at it.                                            *)
(***************************************************************************)
ResetTimeout ==
    /\ state = "open"
    /\ ~elapsed
    /\ elapsed' = TRUE
    /\ UNCHANGED <<state, failureCount, successCount, halfOpenCount, call,
                   failuresLeft, streak>>

Next ==
    \/ \E c \in Callers : Enter(c) \/ Finish(c)
    \/ ResetTimeout

Spec == Init /\ [][Next]_vars

(***************************************************************************)
(* Fairness: an admitted call returns, the clock advances, and traffic     *)
(* does not dry up (some caller that could be admitted is, in the end).    *)
(***************************************************************************)
BreakerFairness ==
    /\ WF_vars(ResetTimeout)
    /\ WF_vars(\E c \in Callers : Enter(c))
    /\ \A c \in Callers : WF_vars(Finish(c))

-----------------------------------------------------------------------------
(***************************************************************************)
(* A half-open breaker that turns callers away has a call in flight whose  *)
(* return will decrement the counter: the counter can drift, but never so  *)
(* that the breaker is stuck half-open rejecting everybody.                *)
(***************************************************************************)
NeverWedged ==
    state = "half_open" /\ halfOpenCount > 0 => InFlight # {}

(***************************************************************************)
(* While the breaker lets everything through, fewer than FailureThreshold  *)
(* failures in a row have been seen since the last success, including the  *)
(* failures of calls admitted before it last opened.                       *)
(***************************************************************************)
ClosedBelowThreshold ==
    state = "closed" => failureCount < FailureThreshold

(***************************************************************************)
(* The breaker closes only out of a half-open period, and only when since  *)
(* the reset timeout was found elapsed at least SuccessThreshold calls     *)
(* returned in a row, all of them successfully.  No count is carried over  *)
(* from an earlier period and no failure lies in between.  Which calls     *)
(* these are does not matter: Execute counts whoever returns in half-open, *)
(* a call that was admitted while the breaker was still closed like a      *)
(* probe, so the calls that close it may all be such latecomers.           *)
(***************************************************************************)
ClosesOnlyAfterRecovery ==
    [][state # "closed" /\ state' = "closed"
         => /\ state = "half_open"
            /\ streak' = SuccessThreshold]_vars

(***************************************************************************)
(* Once the dependency stops failing the breaker closes and stays closed,  *)
(* whatever drift earlier half-open periods left in the counter.           *)
(***************************************************************************)
Recovers == <>[](state = "closed")

(***************************************************************************)
(* What the comment of the half-open branch says: "Only allow ONE request  *)
(* at a time in half-open state".                                          *)
(***************************************************************************)
OneProbeAtATime ==
    state = "half_open" => Cardinality({c \in Callers : call[c] = "probe"}) <= 1

=============================================================================
