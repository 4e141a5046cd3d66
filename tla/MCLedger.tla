------------------------------ MODULE MCLedger ------------------------------
EXTENDS FabricSync

CONSTANTS u1, u2

Call(u, a, r) == [user |-> u, action |-> a, resource |-> r, payload |-> "p"]

\* One user pays and is blocked; the other gives and takes back consent, and
\* has data read.
PaymentsAndConsents ==
    {Call(u1, "transaction_initiated", "transaction"),
     Call(u1, "transaction_blocked", "transaction"),
     Call(u2, "consent_revoked", "consent"),
     Call(u2, "consent_granted", "consent"),
     Call(u2, "account_aggregator_sync", "account_aggregator")}

\* Two users with events that no rule is about.
Neutral == {Call(u, "goal_created", "goal") : u \in {u1, u2}}
=============================================================================
