--------------------------- MODULE MCResilience ---------------------------
(***************************************************************************)
(* The breaker and the outbox, which saveWithCircuitBreaker puts one after *)
(* the other and which share no state: a behaviour runs one of them.       *)
(***************************************************************************)
EXTENDS CircuitBreaker, Outbox

VARIABLE part    \* the component that moves

ResilienceInit == part \in {"breaker", "outbox"} /\ Init /\ OutboxInit

ResilienceNext ==
    \/ part = "breaker" /\ Next /\ UNCHANGED <<part, outboxVars>>
    \/ part = "outbox" /\ OutboxNext /\ UNCHANGED <<part, vars>>

ResilienceSpec ==
    /\ ResilienceInit /\ [][ResilienceNext]_<<part, vars, outboxVars>>
    /\ part = "breaker" => BreakerFairness
    /\ part = "outbox" => OutboxFairness
=============================================================================
