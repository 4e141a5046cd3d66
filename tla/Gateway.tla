------------------------------ MODULE Gateway ------------------------------
(***************************************************************************)
(* The HTTP gateway (api/router.go, api/middleware): which handler a route *)
(* leads to, the gates a call passes on its way there and in which order,  *)
(* and the state the gates share between calls that run concurrently: the  *)
(* buckets of the rate limiters, the keys RequireIdempotency has bound to  *)
(* a body, and the results the service keeps under the same keys.          *)
(*                                                                         *)
(* A route is named after its handler, an expanded endpoint after its id.  *)
(* The one-time codes and passkeys behind the step-up gates are the subject*)
(* of StepUp, the tokens behind Auth that of Sessions, the cooling-off     *)
(* state that of Payments: here a call simply satisfies a gate or not.     *)
(***************************************************************************)
EXTENDS Integers, Sequences, FiniteSets

CONSTANTS
    Workloads,       \* [in |-> an environment, of |-> the requests that arrive]
    GlobalLimit,     \* the 240 requests a minute of every client
    AuthLimit,       \* the 20 of authLimiter
    RegisterLimit,   \* the 10 of registerLimiter
    Window,          \* the minute
    KeyTTL,          \* the 24 hours a key lives, at the edge and in the service
    MaxClock         \* bound on the clock

ASSUME GateAssumption ==
    /\ Window \in Nat \ {0} /\ KeyTTL \in Nat /\ MaxClock \in Nat
    /\ GlobalLimit \in Nat /\ AuthLimit \in Nat /\ RegisterLimit \in Nat
    /\ \A w \in Workloads : w.in.tokens \in {"set", "random", "blank"}

VARIABLES
    deployment,      \* the environment variables: [jwt, pqc, tokens, dev]
    calls,           \* the calls, in the order they were sent
    buckets,         \* the buckets of the limiters
    seen,            \* RequireIdempotency: key -> [body, expires]
    results,         \* idempotencyResult and goalIdempotency:
                     \* <<route, key>> -> [by, expires]
    clock,
    admitted         \* history: <<limiter, client, call, time>>

gateVars == <<deployment, calls, buckets, seen, results, clock, admitted>>

-----------------------------------------------------------------------------
(***************************************************************************)
(* The handlers.  Four shapes: whether the handler asks for the user Auth  *)
(* left in the context (else 401), and whether it decodes a body (else     *)
(* 400).  After that it calls the service, whose errors it turns into an   *)
(* answer.                                                                 *)
(***************************************************************************)
Open(names) == [h \in names |-> [user |-> FALSE, body |-> FALSE]]
OpenBody(names) == [h \in names |-> [user |-> FALSE, body |-> TRUE]]
User(names) == [h \in names |-> [user |-> TRUE, body |-> FALSE]]
UserBody(names) == [h \in names |-> [user |-> TRUE, body |-> TRUE]]

\* Tables of handlers put together; every handler is in one of them.
Merged(tables) ==
    [h \in UNION {DOMAIN t : t \in tables} |-> (CHOOSE t \in tables : h \in DOMAIN t)[h]]

AssetHandlers ==
    Merged({User({"netWorthSnapshot", "removeNetWorthAsset", "portfolioImpact",
                  "emergencyContacts", "deleteEmergencyContact"}),
            UserBody({"addNetWorthAsset", "addEmergencyContact", "dissolveGoal"}),
            Open({"availableScenarios", "marketNews", "marketNarration",
                  "marketTrends", "securityTips"})})

NudgeAndNotificationHandlers ==
    Merged({User({"pauseGoal", "resumeGoal", "featureFlags", "notificationCentre",
                  "dismissNotification", "sseStream"}),
            UserBody({"goalNudge"}),
            Open({"helpArticles"})})

SystemHandlers == Open({"openAPISpec", "healthDeep", "metrics"})

KeyHandlers ==
    Merged({Open({"pqcInit", "pqcKeyInfo", "dilithiumPublicKey"}),
            OpenBody({"pqcEncapsulate"})})

\* refreshToken takes its token from the header, or else from the body, whose
\* decoding may fail.
OnboardingHandlers ==
    Merged({OpenBody({"register", "verifyEKYC", "registerBiometric",
                      "loginChallenge", "loginVerify", "pinLogin"}),
            Open({"refreshToken"})})

\* pinSet looks for the user but also goes on without (see Nameless, Operation).
PinAndOAuthHandlers ==
    Merged({OpenBody({"pinSet", "oauthToken"}),
            Open({"dummyBankVerifyUPI", "dummyBankVerifyIFSC", "dummyBankBalance"}),
            UserBody({"oauthAuthorize"}),
            User({"stepupChallenge", "otpGenerate"})})

ProfileAndAccountHandlers ==
    Merged({User({"authProfile", "kycProfile", "dashboard", "listAccounts"}),
            UserBody({"updateAuthProfile", "upsertKYCProfile", "linkAccount",
                      "updateAccount"})})

BeneficiaryAndAIHandlers ==
    Merged({User({"listBeneficiaries", "aggregatorStatus", "predictBehaviour",
                  "recommendInvestments"}),
            UserBody({"createBeneficiary", "approveBeneficiary", "syncAggregator",
                      "connectBankAPI"}),
            OpenBody({"generateSyntheticDataset"}),
            Open({"bankAPIReadiness"})})

\* The body of syntheticBankEventStream is optional.
BankAndTransactionHandlers ==
    Merged({User({"bankConnection", "realtimeDetections", "transactionHistory",
                  "syntheticBankEventStream"}),
            UserBody({"ingestBankEvent", "initiateTransaction",
                      "overrideTransaction"})})

PaymentAndGoalHandlers ==
    Merged({User({"listPayments", "getPayment", "healthScore", "listGoals",
                  "goalByID"}),
            UserBody({"initiatePayment", "verifyPaymentReceipt", "createGoal"})})

PortfolioHandlers ==
    Merged({User({"closeGoal", "portfolioSummary", "portfolioInvestments",
                  "portfolioInsurance", "portfolioLoans", "insightsFeed",
                  "insightsMarket"}),
            UserBody({"contributeGoal", "runSimulation"})})

SecurityAndTaxHandlers ==
    Merged({User({"insightsPersona", "securityHealth", "taxDashboard",
                  "taxRegimeCompare", "taxDeductions"}),
            UserBody({"scanSMS", "emergencyFreeze", "unfreeze", "reportFraud"})})

ConsentHandlers ==
    Merged({User({"taxCapitalGains", "profile"}),
            UserBody({"chat", "setConsent"})})

SettingsAndAuditHandlers ==
    Merged({User({"notificationSettings", "auditLogs", "auditIntegrity",
                  "ledgerEntries"}),
            UserBody({"setNudgePreference", "submitFeedback"})})

PublicConsentHandler == OpenBody({"setPublicPrivacyConsent"})

ValidateRiskHandler == OpenBody({"validateRisk"})

\* The expanded endpoints behind Auth: expandedEndpoint(id, true, requireBody).
ExpandedAuthedRoutes ==
    Merged({User({"auth_kin", "dashboard_net_worth_history",
                  "dashboard_market_snapshot", "security_freeze_status",
                  "tx_cooling_off_status", "tx_schedule", "tx_risk_score",
                  "goals_recalculate", "goals_archived", "goals_milestones",
                  "goals_history", "goals_market_impact_recalculate",
                  "health_pillars", "health_history", "investment_detail",
                  "investment_liquidation_check", "investment_rebalance_suggestion",
                  "investment_tax_loss_harvest", "insurance_detail",
                  "insurance_delete", "insurance_gap_analysis",
                  "insurance_protection_score", "insurance_claims_list",
                  "insurance_claim_detail", "insurance_network_hospitals",
                  "loan_detail", "loan_foreclosure_check",
                  "loan_credit_utilisation", "loan_bnpl",
                  "loan_optimisation_strategy", "loan_repayment_integrity",
                  "loan_debt_free_date", "simulations_history", "simulations_types",
                  "insights_market_brief", "insights_sector_heatmap",
                  "insights_ipo_calendar", "insights_fund_compare",
                  "insights_rate_history", "insights_news_sources",
                  "insights_nudge_log", "security_bank_contacts",
                  "security_emergency_freeze_test", "tax_advance_schedule",
                  "tax_deductions_tracker", "tax_literacy_spending",
                  "chatbot_history", "chatbot_history_delete",
                  "settings_data_export_status", "settings_data_sharing_log",
                  "settings_data_retention", "settings_consent_history",
                  "settings_grievance_contact", "settings_transparency_report",
                  "settings_ethical_charter", "audit_logs_export",
                  "audit_logs_integrity_proof", "blockchain_news_whitelist",
                  "beneficiary_delete", "beneficiary_detail", "beneficiaries_recent"}),
            UserBody({"auth_sim_bind_reverify", "upi_pin_set", "upi_pin_reset",
                      "beneficiary_risk_check", "health_simulate",
                      "investment_order", "investment_sip_start",
                      "investment_sip_pause", "investment_sip_stop",
                      "investment_sip_modify", "security_url_scan", "insurance_add",
                      "insurance_nominee_change", "insurance_verify_document",
                      "insurance_claim_create", "insurance_claim_update",
                      "insurance_premium_payment", "loan_prepayment_simulate",
                      "loan_rate_update_notify", "loan_verify_payment_link",
                      "insights_persona_contest", "insights_feedback",
                      "insights_panic_check", "aiml_behaviour_persona_contest",
                      "security_forward_nccp", "tax_pre_sale_check",
                      "chatbot_query_voice", "settings_data_export_create"})})

-----------------------------------------------------------------------------
(***************************************************************************)
(* The routes outside /v1's authenticated group.                           *)
(***************************************************************************)
SystemRoutes == {"metrics", "consent_pp_status", "setPublicPrivacyConsent"}

\* Registered only where isDevEnv holds.
DevRoutes ==
    {"openAPISpec", "healthDeep", "dummyBankVerifyUPI", "dummyBankVerifyIFSC",
     "dummyBankBalance"}

\* authLimiter: one limiter for all of these, so guesses cannot be spread.
CredentialRoutes ==
    {"auth_sim_bind", "verifyEKYC", "loginChallenge", "pinLogin", "pinSet",
     "loginVerify", "refreshToken", "oauthToken", "oauthAuthorize"}

RegisterRoutes == {"register", "registerBiometric"}

KeyRoutes == {"pqcInit", "pqcEncapsulate", "pqcKeyInfo", "dilithiumPublicKey"}

InternalRoutes ==
    {"blockchain_consent_record", "blockchain_insurance_claim",
     "blockchain_loan_repayment", "blockchain_investment_trade",
     "blockchain_cooling_off"}

RiskValidationRoutes == {"validateRisk"}

ComplianceRoutes == {"compliance_breach_notify"}
AdminRoutes == {"aiml_bias_audit"}

\* Mutant: the public SIM binding is registered as one that needs a user.
MutUnauthedExpanded ==
    Merged({OpenBody({"blockchain_consent_record", "blockchain_insurance_claim",
                      "blockchain_loan_repayment", "blockchain_investment_trade",
                      "compliance_breach_notify"}),
            UserBody({"auth_sim_bind"}),
            Open({"blockchain_cooling_off", "aiml_bias_audit", "consent_pp_status"})})

\* The expanded endpoints registered outside the group: requireAuth is false.
UnauthedExpanded ==
    Merged({OpenBody({"auth_sim_bind", "blockchain_consent_record",
                      "blockchain_insurance_claim", "blockchain_loan_repayment",
                      "blockchain_investment_trade", "compliance_breach_notify"}),
            Open({"blockchain_cooling_off", "aiml_bias_audit", "consent_pp_status"})})

Handlers ==
    Merged({AssetHandlers, NudgeAndNotificationHandlers, SystemHandlers, KeyHandlers,
            OnboardingHandlers, PinAndOAuthHandlers, ProfileAndAccountHandlers,
            BeneficiaryAndAIHandlers, BankAndTransactionHandlers,
            PaymentAndGoalHandlers, PortfolioHandlers, SecurityAndTaxHandlers,
            ConsentHandlers, SettingsAndAuditHandlers, PublicConsentHandler,
            ValidateRiskHandler, ExpandedAuthedRoutes, UnauthedExpanded})

Routes == DOMAIN Handlers

\* Methods other than GET.  Every handler with a body is one; so are these.
BodylessWrites ==
    {"removeNetWorthAsset", "deleteEmergencyContact", "pauseGoal", "resumeGoal",
     "closeGoal", "dismissNotification", "stepupChallenge", "otpGenerate",
     "refreshToken", "syntheticBankEventStream", "tx_schedule", "goals_recalculate",
     "goals_market_impact_recalculate", "insurance_delete",
     "security_emergency_freeze_test", "chatbot_history_delete",
     "audit_logs_export", "beneficiary_delete"}

Writes(route) == Handlers[route].body \/ route \in BodylessWrites

\* POST and PATCH under the prefixes given to RequireIdempotency.
KeyedRoutes ==
    {"initiateTransaction", "overrideTransaction", "tx_schedule", "emergencyFreeze",
     "security_emergency_freeze_test", "unfreeze"}

StepUpRoutes ==
    {"upi_pin_set", "upi_pin_reset", "investment_order", "investment_sip_pause",
     "investment_sip_stop", "investment_sip_modify", "insurance_nominee_change",
     "unfreeze"}

CoolingOffRoutes == {"initiateTransaction", "overrideTransaction", "investment_order"}

-----------------------------------------------------------------------------
(***************************************************************************)
(* The gates of a route, in order.                                         *)
(***************************************************************************)
\* The chain every request passes.
GlobalChain == <<"cors", "csrf", "global_limit", "pin">>

\* Mutant: the compliance routes are left with the static token alone.
MutPrivilegedChain(route) == <<"scope_token">>

\* The service token, then a user, then a role.
PrivilegedChain(route) == <<"scope_token", "auth", "role">>

\* The /v1 group and the gates of single routes in it.
GroupChain(route) ==
    <<"auth", "pqc", "key">>
    \o (IF route \in StepUpRoutes THEN <<"step_up">> ELSE << >>)
    \o (IF route \in CoolingOffRoutes THEN <<"cooling_off">> ELSE << >>)

Chain(route) ==
    GlobalChain
    \o (CASE route \in SystemRoutes \cup KeyRoutes -> << >>
          [] route \in DevRoutes /\ deployment.dev -> << >>
          [] route \in CredentialRoutes -> <<"auth_limit">>
          [] route \in RegisterRoutes -> <<"register_limit">>
          [] route \in InternalRoutes \cup RiskValidationRoutes -> <<"scope_token">>
          [] route \in ComplianceRoutes \cup AdminRoutes -> PrivilegedChain(route)
          [] OTHER -> GroupChain(route))
    \o <<"handler">>

-----------------------------------------------------------------------------
(***************************************************************************)
(* A call.  What the client sent: a credential, a role of its owner, a     *)
(* service token, a key, a body, and `flaw`, the one gate it fails (if any)*)
(* among those that keep no state here.                                    *)
(***************************************************************************)
NoCall == 0

GateInit ==
    /\ \E w \in Workloads :
         /\ deployment = w.in
         /\ calls = [i \in DOMAIN w.of |->
                       LET sent == w.of[i] IN
                       [route |-> sent.route, client |-> sent.client,
                        credential |-> sent.credential, role |-> sent.role,
                        token |-> sent.token, key |-> sent.key, body |-> sent.body,
                        flaw |-> sent.flaw, at |-> 1, user |-> FALSE, status |-> 0,
                        by |-> "", boundAt |-> 0, answer |-> NoCall, did |-> ""]]
    /\ buckets = << >> /\ seen = << >> /\ results = << >>
    /\ clock = 0
    /\ admitted = {}

\* The gate call i is at.
At(i, gate) ==
    /\ calls[i].status = 0
    /\ Chain(calls[i].route)[calls[i].at] = gate

Pass(i) == calls' = [calls EXCEPT ![i].at = @ + 1]

Refuse(i, status) ==
    calls' = [calls EXCEPT ![i].status = status,
                           ![i].by = Chain(calls[i].route)[calls[i].at]]

\* A gate without state: it lets the call pass or answers.
Gate(i, ok, status) ==
    /\ IF ok THEN Pass(i) ELSE Refuse(i, status)
    /\ UNCHANGED <<deployment, buckets, seen, results, clock, admitted>>

\* corsMiddleware: an origin that is not listed.  (No preflight.)
Cors(i) == At(i, "cors") /\ Gate(i, calls[i].flaw # "origin", 403)

\* csrfDefense.
CsrfDefense(i) ==
    At(i, "csrf") /\ Gate(i, ~(calls[i].flaw = "cross_site" /\ Writes(calls[i].route)), 403)

\* PinVerificationMiddleware.
PinVerification(i) == At(i, "pin") /\ Gate(i, calls[i].flaw # "fingerprint", 403)

\* RequireScopedToken, with tokenOrDefault: a token that is not configured is
\* a random one nobody knows, a blank one closes the route.
ScopedToken(i) ==
    /\ At(i, "scope_token")
    /\ LET sent == IF deployment.tokens = "random" /\ calls[i].token = "right"
                   THEN "wrong" ELSE calls[i].token IN
       Gate(i, deployment.tokens # "blank" /\ sent = "right",
            IF deployment.tokens = "blank" THEN 503
            ELSE IF sent = "none" THEN 401 ELSE 403)

\* jwtVerifier and Auth: a token that is not one of our JWTs is tried as an
\* opaque one; every other failure stops the call.
Accepted(credential) ==
    \/ credential = "jwt" /\ deployment.jwt
    \/ credential = "opaque"

Auth(i) ==
    /\ At(i, "auth")
    /\ IF Accepted(calls[i].credential)
       THEN calls' = [calls EXCEPT ![i].at = @ + 1, ![i].user = TRUE]
       ELSE Refuse(i, 401)
    /\ UNCHANGED <<deployment, buckets, seen, results, clock, admitted>>

\* ParseRole: whatever is not a known role is a customer.
ParseRole(role) ==
    IF role \in {"agent", "compliance_officer", "admin", "auditor"} THEN role ELSE "customer"

AllowedRoles(route) ==
    IF route \in ComplianceRoutes THEN {"compliance_officer", "admin"} ELSE {"admin", "auditor"}

\* RequireRole.
RequireRole(i) ==
    At(i, "role") /\ Gate(i, ParseRole(calls[i].role) \in AllowedRoles(calls[i].route), 403)

\* RequirePQCSession, where the deployment enforces it.
PQCSession(i) ==
    At(i, "pqc") /\ Gate(i, ~deployment.pqc \/ calls[i].flaw # "pqc", 401)

\* The step-up gates and EnforceCoolingOff.
StepUpGate(i) == At(i, "step_up") /\ Gate(i, calls[i].flaw # "step_up", 401)
CoolingOffGate(i) == At(i, "cooling_off") /\ Gate(i, calls[i].flaw # "cooling_off", 423)

-----------------------------------------------------------------------------
\* m[key] = value, for a map m of Go.
Assigned(m, key, value) ==
    [k \in DOMAIN m \cup {key} |-> IF k = key THEN value ELSE m[k]]

\* Mutant: every route builds a limiter of its own.
MutLimiter(gate, route) == <<gate, route>>

\* RateLimit is called once for each limiter, not once for each route.
Limiter(gate, route) == gate

LimitOf(gate) ==
    CASE gate = "global_limit" -> GlobalLimit
      [] gate = "auth_limit" -> AuthLimit
      [] OTHER -> RegisterLimit

\* A fixed window that starts with its first request.  The sweep only drops
\* buckets that the next request would restart.
RateLimit(i, gate) ==
    LET key == <<Limiter(gate, calls[i].route), calls[i].client>>
        live == key \in DOMAIN buckets /\ clock - buckets[key].start < Window
        count == 1 + (IF live THEN buckets[key].count ELSE 0)
        start == IF live THEN buckets[key].start ELSE clock
    IN
    /\ At(i, gate)
    /\ buckets' = Assigned(buckets, key, [start |-> start, count |-> count])
    /\ IF count > LimitOf(gate)
       THEN Refuse(i, 429) /\ UNCHANGED admitted
       ELSE /\ Pass(i)
            /\ admitted' = admitted \cup {<<gate, calls[i].client, i, clock>>}
    /\ UNCHANGED <<deployment, seen, results, clock>>

\* Mutant: the body is not compared.
MutRequireIdempotency(i) ==
    LET key == <<calls[i].route, calls[i].key>>
        live == key \in DOMAIN seen /\ clock < seen[key].expires
        entry == IF live THEN seen[key]
                 ELSE [body |-> calls[i].body, expires |-> clock + KeyTTL]
    IN
    /\ At(i, "key")
    /\ IF calls[i].route \notin KeyedRoutes \/ calls[i].key = ""
       THEN Pass(i) /\ UNCHANGED seen
       ELSE /\ calls' = [calls EXCEPT ![i].at = @ + 1,
                                      ![i].boundAt = entry.expires - KeyTTL]
            /\ seen' = Assigned(seen, key, entry)
    /\ UNCHANGED <<deployment, buckets, results, clock, admitted>>

\* RequireIdempotency: a key is bound to the body it first came with, until
\* it expires.  (One user; the sweep only drops entries that have expired.)
RequireIdempotency(i) ==
    LET key == <<calls[i].route, calls[i].key>>
        live == key \in DOMAIN seen /\ clock < seen[key].expires
        entry == IF live THEN seen[key]
                 ELSE [body |-> calls[i].body, expires |-> clock + KeyTTL]
    IN
    /\ At(i, "key")
    /\ IF calls[i].route \notin KeyedRoutes THEN Pass(i) /\ UNCHANGED seen
       ELSE IF calls[i].key = "" THEN Refuse(i, 400) /\ UNCHANGED seen
       ELSE IF entry.body # calls[i].body THEN Refuse(i, 409) /\ UNCHANGED seen
       ELSE /\ calls' = [calls EXCEPT ![i].at = @ + 1,
                                      ![i].boundAt = entry.expires - KeyTTL]
            /\ seen' = Assigned(seen, key, entry)
    /\ UNCHANGED <<deployment, buckets, results, clock, admitted>>

-----------------------------------------------------------------------------
\* What a handler has the service do.  pinSet changes the PIN of a user that
\* Auth has identified, and else sets the first PIN of the account its body
\* names.
Operation(i) ==
    IF calls[i].route # "pinSet" THEN calls[i].route
    ELSE IF calls[i].user THEN "SetPIN" ELSE "SetInitialPIN"

\* The status of a success.
Success(route) ==
    IF route \in {"addNetWorthAsset", "addEmergencyContact", "register", "linkAccount",
                  "createBeneficiary", "initiatePayment", "createGoal", "reportFraud",
                  "submitFeedback"} THEN 201 ELSE 200

\* The statuses of a failure of the service, none for a handler that has no
\* such branch.  statusForExpandedError chooses by the text of the error.
Failures(route) ==
    CASE route \in {"availableScenarios", "marketNews", "marketNarration",
                    "marketTrends", "emergencyContacts", "securityTips",
                    "featureFlags", "helpArticles", "openAPISpec", "healthDeep",
                    "metrics", "transactionHistory", "listGoals", "ledgerEntries",
                    "bankAPIReadiness", "generateSyntheticDataset",
                    "setPublicPrivacyConsent", "oauthAuthorize"} -> {}
      [] route \in {"loginVerify", "pinLogin", "refreshToken"} -> {401}
      [] route \in {"getPayment", "goalByID"} -> {404}
      [] route \in {"pqcInit", "pqcKeyInfo", "dilithiumPublicKey"} -> {503}
      [] route = "pqcEncapsulate" -> {400, 503}
      [] route = "sseStream" -> {429}
      [] route = "validateRisk" -> {400, 409}
      [] route \in DOMAIN ExpandedAuthedRoutes \cup DOMAIN UnauthedExpanded ->
             {400, 401, 403, 404, 423}
      [] OTHER -> {400}

\* The two operations whose results the service keeps under the key of the
\* request.  Without a key idempotencyKeyOrGenerate makes one up, which never
\* comes back.
Keeps(i) ==
    calls[i].route \in {"initiateTransaction", "contributeGoal"} /\ calls[i].key # ""

\* A result of a payment is kept for a while, one of a contribution for good.
\* (One user and one goal.)
Remembered(key) ==
    /\ key \in DOMAIN results
    /\ key[1] = "initiateTransaction" => clock < results[key].expires

\* The cache is asked first, so a result in it also answers a request that
\* the service would refuse.
Cached(i) == Keeps(i) /\ Remembered(<<calls[i].route, calls[i].key>>)

\* The handler, and the service's result: under a key that has a result,
\* that one, whatever the body.
Serve(i) ==
    LET key == <<calls[i].route, calls[i].key>> IN
    /\ calls' = [calls EXCEPT ![i].status = Success(calls[i].route), ![i].by = "service",
                              ![i].answer = IF Cached(i) THEN results[key].by ELSE i,
                              ![i].did = Operation(i)]
    /\ results' = IF Keeps(i) /\ ~Cached(i)
                  THEN Assigned(results, key, [by |-> i, expires |-> clock + KeyTTL])
                  ELSE results

ServiceFails(i) ==
    /\ \E status \in Failures(calls[i].route) :
          calls' = [calls EXCEPT ![i].status = status, ![i].by = "service"]
    /\ UNCHANGED results

\* pinSet finds neither the user of the call nor a userId in its body.
Nameless(i) ==
    calls[i].route = "pinSet" /\ ~calls[i].user /\ calls[i].flaw = "no_user_id"

Handle(i) ==
    LET c == calls[i]
        shape == Handlers[c.route] IN
    /\ At(i, "handler")
    /\ IF c.route \in DevRoutes /\ ~deployment.dev THEN Refuse(i, 404) /\ UNCHANGED results
       ELSE IF shape.user /\ ~c.user THEN Refuse(i, 401) /\ UNCHANGED results
       ELSE IF shape.body /\ c.flaw = "body" THEN Refuse(i, 400) /\ UNCHANGED results
       ELSE IF Nameless(i) THEN Refuse(i, 401) /\ UNCHANGED results
       ELSE IF c.flaw = "service" /\ Failures(c.route) # {} /\ ~Cached(i) THEN ServiceFails(i)
       ELSE Serve(i)
    /\ UNCHANGED <<deployment, buckets, seen, clock, admitted>>

GateTick ==
    /\ Len(calls) > 1 /\ clock < MaxClock
    /\ clock' = clock + 1
    /\ UNCHANGED <<deployment, calls, buckets, seen, results, admitted>>

GateNext ==
    \/ \E i \in DOMAIN calls :
          \/ Cors(i) \/ CsrfDefense(i) \/ PinVerification(i) \/ ScopedToken(i)
          \/ Auth(i) \/ RequireRole(i) \/ PQCSession(i)
          \/ StepUpGate(i) \/ CoolingOffGate(i)
          \/ \E gate \in {"global_limit", "auth_limit", "register_limit"} : RateLimit(i, gate)
          \/ RequireIdempotency(i) \/ Handle(i)
    \/ GateTick

GateSpec == GateInit /\ [][GateNext]_gateVars

-----------------------------------------------------------------------------
(***************************************************************************)
(* Properties.                                                             *)
(***************************************************************************)
\* The comment on /v1/compliance: an admin action requires BOTH the service
\* token AND an authenticated principal holding a privileged role.  Whatever
\* runs under the compliance and admin routes came with a configured token,
\* a credential Auth accepts and a role of the route.
AdminNeedsBoth ==
    \A i \in DOMAIN calls :
        (calls[i].did # "" /\ calls[i].route \in ComplianceRoutes \cup AdminRoutes) =>
            /\ calls[i].token = "right" /\ deployment.tokens = "set"
            /\ Accepted(calls[i].credential)
            /\ calls[i].role \in AllowedRoles(calls[i].route)

\* A handler that asks for the user of the call sits behind Auth: none of the
\* calls that come with a good credential is told by the handler that it is
\* unauthorized.  Two handlers ask for the user on a route without Auth, and
\* so never find one: oauthAuthorize answers 401 to everyone, and pinSet, in
\* spite of its "authenticated PIN change, the normal path", to everyone who
\* does not name the account in the body.
HandlersKnowTheirUser ==
    \A i \in DOMAIN calls :
        (calls[i].status = 401 /\ calls[i].by = "handler"
           /\ Accepted(calls[i].credential)) =>
            \/ calls[i].route = "oauthAuthorize"
            \/ calls[i].route = "pinSet" /\ calls[i].flaw = "no_user_id"

\* The comment on authLimiter: guesses cannot be spread across the credential
\* endpoints.  Whichever of them a client calls, and however its calls fall
\* around the end of a window, at most twice the limit is let through in any
\* period of the window's length.
GuessesBounded ==
    \A c \in {calls[i].client : i \in DOMAIN calls}, t \in 0..MaxClock :
        Cardinality({a \in admitted : a[1] = "auth_limit" /\ a[2] = c
                                      /\ a[4] \in t..(t + Window - 1)}) <= 2 * AuthLimit

\* Who is shown the result of another call sent the same key to the same
\* route, and, if it was a payment, the same body.  For the service answers
\* from its cache whatever the body, and relies on the edge to have refused a
\* key that comes back with another one: two payments whose bodies differ
\* share a result only if the edge bound the key twice, a lifetime apart (it
\* binds a key before the service stores its result, so its binding ends
\* first).  Contributions to a goal do not pass RequireIdempotency: under a
\* key of an earlier one, one of another amount is answered with its result.
AnswersMatchBody ==
    \A i \in DOMAIN calls :
        LET j == calls[i].answer IN
        (j # NoCall /\ j # i) =>
            /\ calls[j].route = calls[i].route /\ calls[j].key = calls[i].key
            /\ (calls[i].route # "contributeGoal" /\ calls[j].body # calls[i].body) =>
                  \/ calls[i].boundAt - calls[j].boundAt >= KeyTTL
                  \/ calls[j].boundAt - calls[i].boundAt >= KeyTTL
=============================================================================
