---------------------------- MODULE MCServices ----------------------------
(***************************************************************************)
(* Components that share no state, checked in one run: every behaviour     *)
(* picks one of them and leaves the others in an initial state.  The feed  *)
(* and the streams of Notifications meet in PushNotification only, which   *)
(* both have.                                                              *)
(***************************************************************************)
EXTENDS Gateway, Notifications, EventLedger, Persistence, Endpoints

VARIABLE part    \* the component that moves

Good(route) ==
    [route |-> route, client |-> "c1", credential |-> "jwt", role |-> "admin",
     token |-> "right", key |-> "k", body |-> "a", flaw |-> ""]

\* One call on every route: in order, or with one thing wrong.
OneFlaw(route) ==
    {Good(route)}
    \cup {[Good(route) EXCEPT !.credential = x] : x \in {"none", "opaque", "expired", "unknown"}}
    \cup {[Good(route) EXCEPT !.role = x] : x \in {"", "agent", "compliance_officer", "auditor"}}
    \cup {[Good(route) EXCEPT !.token = x] : x \in {"none", "wrong"}}
    \cup {[Good(route) EXCEPT !.key = ""]}
    \cup {[Good(route) EXCEPT !.flaw = x] :
            x \in {"origin", "cross_site", "fingerprint", "pqc", "step_up",
                   "cooling_off", "body", "no_user_id", "service"}}

Guess(route, client) == [Good(route) EXCEPT !.client = client, !.credential = "none"]

Pay(key, body) == [Good("initiateTransaction") EXCEPT !.key = key, !.body = body]
Contribute(key, body) == [Good("contributeGoal") EXCEPT !.key = key, !.body = body]

Production == [jwt |-> TRUE, pqc |-> FALSE, tokens |-> "set", dev |-> FALSE]

Environments ==
    {Production, [Production EXCEPT !.jwt = FALSE], [Production EXCEPT !.pqc = TRUE],
     [Production EXCEPT !.tokens = "random"], [Production EXCEPT !.tokens = "blank"],
     [Production EXCEPT !.dev = TRUE]}

\* Each single call in each environment; three guesses of one client; three
\* payments under one key; a payment and two contributions under one key.
MCWorkloads ==
    [in : Environments, of : {<<r>> : r \in UNION {OneFlaw(route) : route \in Routes}}]
    \cup {[in |-> Production,
           of |-> <<Guess("loginChallenge", "c1"), Guess("pinLogin", "c1"),
                    Guess("loginVerify", "c1")>>],
          [in |-> Production, of |-> <<Pay("k", "a"), Pay("k", "b"), Pay("k", "a")>>],
          [in |-> Production,
           of |-> <<Contribute("k", "a"), Contribute("k", "b"), Pay("k", "a")>>]}

NoCalls ==
    /\ deployment = Production
    /\ calls = << >> /\ buckets = << >> /\ seen = << >> /\ results = << >>
    /\ clock = 0 /\ admitted = {}

\* Every two endpoints with different programs, and every one with itself, of
\* one customer; binding and re-verification of a SIM by two.
Shapes ==
    {CHOOSE e \in DOMAIN Programs : Programs[e] = p : p \in {Programs[e] : e \in DOMAIN Programs}}

CallsOf(u, endpoints, v) ==
    {<<[endpoint |-> a, user |-> u], [endpoint |-> b, user |-> v]>> : a, b \in endpoints}

MCEndpointCalls ==
    CallsOf("u1", Shapes, "u1")
    \cup CallsOf("u1", {"auth_sim_bind", "auth_sim_bind_reverify"}, "u2")

NoEndpoints ==
    /\ handling = << >> /\ tables = << >> /\ bindings = << >>
    /\ balance = Funds /\ orders = {} /\ debited = {} /\ trail = {}

ServicesInit ==
    /\ \/ part = "gateway" /\ GateInit /\ NoEndpoints
       \/ part = "endpoints" /\ EndpointsInit /\ NoCalls
       \/ part \in {"feed", "streams", "ledger", "persistence"} /\ NoCalls /\ NoEndpoints
    /\ NotifInit /\ LedgerInit /\ PersistInit
    /\ part # "feed" => settings = Categories

ServicesNext ==
    /\ UNCHANGED part
    /\ \/ part = "gateway" /\ GateNext
          /\ UNCHANGED <<notifVars, ledgerVars, persistVars, endpointVars>>
       \/ part = "feed" /\ FeedNext
          /\ UNCHANGED <<gateVars, ledgerVars, persistVars, endpointVars>>
       \/ part = "streams" /\ StreamNext
          /\ UNCHANGED <<gateVars, ledgerVars, persistVars, endpointVars>>
       \/ part = "ledger" /\ LedgerNext
          /\ UNCHANGED <<gateVars, notifVars, persistVars, endpointVars>>
       \/ part = "persistence" /\ PersistNextState
          /\ UNCHANGED <<gateVars, notifVars, ledgerVars, endpointVars>>
       \/ part = "endpoints" /\ EndpointsNext
          /\ UNCHANGED <<gateVars, notifVars, ledgerVars, persistVars>>

serviceVars == <<part, gateVars, notifVars, ledgerVars, persistVars, endpointVars>>

ServicesSpec ==
    ServicesInit /\ [][ServicesNext]_serviceVars /\ NotifFairness
=============================================================================
