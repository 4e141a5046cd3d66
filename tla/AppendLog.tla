----------------------------- MODULE AppendLog -----------------------------
(***************************************************************************)
(* What the Fabric ledger promises the backend, whoever submits and however *)
(* submissions interleave: one append-only log per user, and an entry gets  *)
(* in only if the contract rules permit it after everything before it in    *)
(* the same log.  Module Chaincode implements this.                         *)
(***************************************************************************)
EXTENDS Naturals, Sequences

CONSTANTS
    Users,
    Windows             \* the admissible lengths of the cooling-off window

VARIABLES
    log,                \* per user, a sequence of [action, payload, time]
    window              \* the length of the cooling-off window now in force

PayOut == {"transaction_initiated", "transaction_override"}
DataAccess == {"account_aggregator_sync", "data_exported"}
ConsentGiven == {"consent_granted", "consent_updated"}

\* No money leaves within the window after a blocked transaction.
AfterWindow(e, l, w) ==
    e.action \in PayOut =>
        \A i \in DOMAIN l : l[i].action = "transaction_blocked" => e.time >= l[i].time + w

\* Data is read only if no revocation stands, that is, was not followed by a
\* new consent.  Decisions count from the instant after they were taken.
WithConsent(e, l) ==
    e.action \in DataAccess =>
        \A i \in DOMAIN l :
            l[i].action = "consent_revoked" /\ l[i].time < e.time =>
                \E j \in DOMAIN l :
                    j > i /\ l[j].action \in ConsentGiven /\ l[j].time < e.time

\* A payment is not recorded again at another instant.
NotReplayed(e, l) ==
    e.action = "transaction_initiated" =>
        \A i \in DOMAIN l :
            (l[i].action = e.action /\ l[i].payload = e.payload) => l[i].time = e.time

Permitted(e, l, w) == AfterWindow(e, l, w) /\ WithConsent(e, l) /\ NotReplayed(e, l)

Init ==
    /\ log = [u \in Users |-> << >>]
    /\ window \in Windows

\* A block appends at most one entry to each log.
Grow(u) ==
    LET e == log'[u][Len(log[u]) + 1] IN
    /\ Len(log'[u]) = Len(log[u]) + 1
    /\ log'[u] = Append(log[u], e)
    /\ Permitted(e, log[u], window)

AppendBlock ==
    /\ \E S \in (SUBSET Users) \ {{}} :
          /\ \A u \in S : Grow(u)
          /\ \A u \in Users \ S : log'[u] = log[u]
    /\ UNCHANGED window

SetWindow ==
    /\ window' \in Windows
    /\ UNCHANGED log

Next == AppendBlock \/ SetWindow

Spec == Init /\ [][Next]_<<log, window>>
=============================================================================
