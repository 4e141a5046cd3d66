----------------------------- MODULE Endpoints -----------------------------
(***************************************************************************)
(* HandleExpandedEndpoint (platform/service_expansion.go): some hundred     *)
(* endpoints over two locks, Service.mu ("svc") and expandedState.mu        *)
(* ("exp").  A handler is a sequence of steps.  A step takes at most one    *)
(* lock, has its effect, and releases some; a section that takes one lock   *)
(* and lets it go is one step, since whoever holds it waits for nobody.     *)
(* The other mutexes on the way (ledger, passkeys, SIM bindings, threats)   *)
(* are always taken last.                                                   *)
(*                                                                          *)
(* sync.RWMutex: a writer that waits keeps new readers out.                 *)
(***************************************************************************)
EXTENDS Integers, Sequences, SequencesExt, FiniteSets, TLC

CONSTANT
    EndpointCalls    \* the concurrent calls: a set of sequences of
                     \* [endpoint, user], of one user where they share tables

VARIABLES
    handling,        \* call -> where its handler is
    tables,          \* table -> the customer's entries, by the call that wrote them
    bindings,        \* exp.simBindings: token -> user, NoUser if not linked
    balance,         \* the account that orders are paid from
    orders,          \* exp.investmentOrders: the calls with their status
    debited,         \* history: the calls that debited the account
    trail            \* s.audit: the calls with an entry

endpointVars == <<handling, tables, bindings, balance, orders, debited, trail>>

NoUser == ""
Seeded == 0          \* an entry no call wrote

-----------------------------------------------------------------------------
(***************************************************************************)
(* Steps.  `does' names the effect, `to' the tables it is on.              *)
(***************************************************************************)
Step(lock, mode, does, to, frees) ==
    [lock |-> lock, mode |-> mode, does |-> does, to |-> to, frees |-> frees]

Section(lock, mode, does, to) == Step(lock, mode, does, to, {lock})

Check == Section("svc", "read", "check", {})       \* requireUser, a lookup
Read(lock) == Section(lock, "read", "read", {})
Log(t) == Section("exp", "write", "log", t)        \* append an entry
Put(t) == Section("exp", "write", "put", {t})      \* set the one entry
Fill(t) == Section("exp", "write", "fill", {t})    \* an entry if there is none
Amend(lock, t) == Section(lock, "write", "amend", {t})
Verify == Step("none", "read", "check", {}, {})    \* fields, passkey challenge
Audited == Section("svc", "write", "audit", {})    \* recordExpandedAudit

Inquiry == <<Check>>
Lookup == <<Check, Read("svc")>>
Recorded(t) == <<Check, Log(t), Audited>>

\* VerifyOTPToken (see StepUp) keeps exp.mu throughout, takes Service.mu twice
\* and appends to the audit trail without it.
VerifyOTPToken ==
    <<Check,
      Step("exp", "write", "check", {}, {}),
      Step("svc", "read", "check", {}, {"svc"}),
      Step("svc", "write", "read", {}, {"svc"}),
      Step("none", "read", "bare_audit", {}, {"exp"})>>

CoolingOffState == <<Check, Read("svc"), Read("exp")>>

-----------------------------------------------------------------------------
(***************************************************************************)
(* The handlers, by the functions that HandleExpandedEndpoint asks in turn. *)
(***************************************************************************)
Each(endpoints, program) == [e \in endpoints |-> program]

AuthAndUPIEndpoints ==
    [auth_sim_bind |-> <<Verify, Read("svc"), Section("exp", "write", "bind", {}), Audited>>,
     auth_sim_bind_reverify |->
        <<Check, Section("exp", "write", "claim", {}),
          Step("none", "read", "threat", {"activeThreats"}, {}), Audited>>,
     auth_kin |-> <<Check, Section("svc", "write", "read", {})>>,
     upi_pin_set |-> <<Check, Check>> \o VerifyOTPToken \o <<Put("upiPins"), Audited>>,
     \* (on a trusted device, as upi_pin_set)
     upi_pin_reset |->
        <<Check, Check>> \o VerifyOTPToken
        \o <<Section("exp", "read", "check", {}), Put("upiPins"), Audited>>]

DashboardEndpoints ==
    Each({"dashboard_net_worth_history", "dashboard_market_snapshot"}, Lookup)
    @@ [security_freeze_status |-> Lookup \o <<Read("exp")>>]

TransactionEndpoints ==
    [tx_cooling_off_status |-> <<Check>> \o CoolingOffState,
     tx_schedule |-> <<Check, Amend("svc", "transactions")>>,
     tx_risk_score |-> Lookup, beneficiary_risk_check |-> Inquiry]

GoalEndpoints ==
    [goals_recalculate |-> <<Check, Check, Log({"goalHistory"}), Audited>>,
     goals_archived |-> Lookup, goals_milestones |-> Lookup,
     goals_history |-> <<Check, Read("exp")>>,
     goals_market_impact_recalculate |-> Lookup \o <<Audited>>]

\* health_history asks HealthScore for its first snapshots under exp.mu.
HealthEndpoints ==
    [health_pillars |-> Lookup,
     health_history |->
        <<Check, Step("exp", "write", "unless", {"healthSnapshots"}, {}),
          Step("svc", "read", "read", {}, {"svc"}),
          Step("none", "read", "fill", {"healthSnapshots"}, {"exp"})>>,
     health_simulate |-> <<Check, Log({"simHistory"})>>]

\* An order asks for a passkey challenge above a limit, debits the account
\* under Service.mu if it has to be paid for now, and is recorded under exp.mu.
OrderEndpoints ==
    [investment_detail |-> Lookup,
     investment_order |->
        <<Check, Verify, Step("none", "read", "decide", {}, {}),
          Section("svc", "write", "debit", {}),
          Section("exp", "write", "order", {"blockchainData"}), Audited>>]

SIPEndpoints ==
    [investment_sip_start |-> Recorded({"sipActions"})]
    @@ Each({"investment_sip_pause", "investment_sip_stop", "investment_sip_modify"},
            <<Check>> \o VerifyOTPToken \o <<Put("sipActions"), Audited>>)

PortfolioEndpoints ==
    [investment_liquidation_check |-> Lookup \o <<Read("exp")>>,
     investment_rebalance_suggestion |-> Inquiry, investment_tax_loss_harvest |-> Inquiry,
     security_url_scan |-> Recorded({"urlScans", "blockchainData"})]

\* The policies of the service are copied when first looked up.
PolicyEndpoints ==
    [insurance_add |-> Recorded({"insuranceData"}),
     insurance_detail |-> <<Check, Fill("insuranceData")>>,
     insurance_delete |-> <<Check, Amend("exp", "insuranceData"), Audited>>,
     insurance_nominee_change |->
        <<Check>> \o VerifyOTPToken \o <<Verify, Log({"nomineeChanges"}), Audited>>]
    @@ Each({"insurance_gap_analysis", "insurance_protection_score",
             "insurance_verify_document"}, Inquiry)

ClaimEndpoints ==
    [insurance_claim_create |-> Recorded({"insuranceClaims", "blockchainData"}),
     insurance_claims_list |-> <<Check, Read("exp")>>,
     insurance_claim_detail |-> <<Check, Read("exp")>>,
     insurance_claim_update |-> <<Check, Amend("exp", "insuranceClaims"), Audited>>,
     insurance_network_hospitals |-> Inquiry,
     insurance_premium_payment |-> <<Check, Verify, Log({"blockchainData"}), Audited>>]

LoanEndpoints ==
    Each({"loan_detail", "loan_prepayment_simulate", "loan_foreclosure_check",
          "loan_repayment_integrity"}, <<Check, Check>>)

DebtEndpoints ==
    Each({"loan_optimisation_strategy", "loan_rate_update_notify", "loan_debt_free_date"},
         Lookup)
    @@ Each({"loan_credit_utilisation", "loan_bnpl", "loan_verify_payment_link"}, Inquiry)

SimulationEndpoints ==
    [simulations_history |-> <<Check, Read("exp")>>, simulations_types |-> Inquiry]

InsightsEndpoints ==
    Each({"insights_persona_contest", "aiml_behaviour_persona_contest"}, <<Check, Audited>>)
    @@ Each({"insights_market_brief", "insights_sector_heatmap", "insights_ipo_calendar",
             "insights_fund_compare", "insights_rate_history", "insights_panic_check",
             "insights_news_sources"}, Inquiry)
    @@ [insights_feedback |-> <<Check, Log({"insightFeedback"})>>,
        insights_nudge_log |-> <<Check, Fill("nudgeLog")>>]

SecurityEndpoints ==
    [security_emergency_contacts_list |-> <<Check, Read("exp")>>,
     security_emergency_contacts_add |-> <<Check, Verify, Log({"emergencyContact"}), Audited>>,
     security_emergency_contacts_delete |->
        <<Check, Section("exp", "write", "drop", {"emergencyContact"}), Audited>>,
     security_tips |-> <<Check, Read("exp")>>,
     security_forward_nccp |-> <<Check, Verify, Put("fraudForwarded"), Audited>>]
    @@ Each({"security_bank_contacts", "security_emergency_freeze_test"}, Inquiry)

TaxEndpoints ==
    Each({"tax_advance_schedule", "tax_pre_sale_check", "tax_deductions_tracker",
          "tax_literacy_spending"}, Inquiry)

ChatbotEndpoints ==
    [chatbot_history |-> <<Check, Fill("chatbotHistory")>>,
     chatbot_query_voice |-> <<Check, Verify>>,
     chatbot_history_delete |->
        <<Check, Section("exp", "write", "clear", {"chatbotHistory"}), Audited>>]

\* consent_pp_status needs no user; settings_consent_history reads the
\* consents without Service.mu.
SettingsEndpoints ==
    [consent_pp_status |-> <<Section("svc", "write", "read", {}), Read("svc")>>,
     settings_data_export_create |-> Recorded({"dataExports"}),
     settings_data_export_status |-> <<Check, Amend("exp", "dataExports")>>,
     settings_data_sharing_log |-> <<Check, Fill("sharingLog")>>,
     settings_consent_history |-> <<Check, Fill("consentHistory")>>]
    @@ Each({"settings_data_retention", "settings_grievance_contact",
             "settings_transparency_report", "settings_ethical_charter"}, Inquiry)

AuditEndpoints ==
    [audit_logs_export |-> <<Check, Audited>>, audit_logs_integrity_proof |-> Lookup]

BlockchainEndpoints ==
    Each({"blockchain_consent_record", "blockchain_insurance_claim",
          "blockchain_loan_repayment", "blockchain_investment_trade"},
         <<Verify, Log({"blockchainData"})>>)
    @@ [blockchain_news_whitelist |-> Inquiry,
        blockchain_cooling_off |-> <<Verify>> \o CoolingOffState]

BeneficiaryEndpoints ==
    [beneficiary_delete |-> <<Check, Amend("svc", "beneficiaryRecords")>>,
     beneficiary_detail |-> Lookup, beneficiaries_recent |-> Lookup]

ComplianceEndpoints ==
    [compliance_breach_notify |-> <<Verify>>, aiml_bias_audit |-> <<Verify>>]

Programs ==
    AuthAndUPIEndpoints @@ DashboardEndpoints @@ TransactionEndpoints @@ GoalEndpoints
    @@ HealthEndpoints @@ OrderEndpoints @@ SIPEndpoints @@ PortfolioEndpoints
    @@ PolicyEndpoints @@ ClaimEndpoints @@ LoanEndpoints @@ DebtEndpoints
    @@ SimulationEndpoints @@ InsightsEndpoints @@ SecurityEndpoints @@ TaxEndpoints
    @@ ChatbotEndpoints @@ SettingsEndpoints @@ AuditEndpoints @@ BlockchainEndpoints
    @@ BeneficiaryEndpoints @@ ComplianceEndpoints

\* The locks that program p holds before its step i.
Kept(p, i) ==
    {[lock |-> p[j].lock, mode |-> p[j].mode] :
        j \in {j \in 1..(i - 1) : /\ p[j].lock # "none"
                                 /\ \A k \in j..(i - 1) : p[j].lock \notin p[k].frees}}

Steps ==
    [lock : {"none", "svc", "exp"}, mode : {"read", "write"}, does : STRING,
     to : SUBSET STRING, frees : SUBSET {"svc", "exp"}]

ASSUME CallsAssumption ==
    \A w \in EndpointCalls : \A c \in DOMAIN w : w[c].endpoint \in DOMAIN Programs

\* The tables above, as TLC evaluates them: a handler keeps no lock but exp.mu
\* from one step to the next, takes exp.mu first, and has let it go at the end.
ASSUME LockOrder ==
    \A e \in DOMAIN Programs :
        LET p == Programs[e] IN
        /\ p \in Seq(Steps)
        /\ \A i \in 1..(Len(p) + 1) : \A h \in Kept(p, i) : h.lock = "exp"
        /\ \A i \in DOMAIN p : p[i].lock = "exp" => Kept(p, i) = {}
        /\ Kept(p, Len(p) + 1) = {}

\* An order is decided, debited and recorded, one after the other, once, and
\* without a lock that outlives one of these steps; nothing else debits or
\* records one.
ASSUME OrderSteps ==
    \A e \in DOMAIN Programs :
        LET p == Programs[e] IN
        \A i \in DOMAIN p :
            /\ p[i].does = "decide" =>
                  /\ i + 2 \in DOMAIN p /\ p[i].mode = "read"
                  /\ \A j \in i..(i + 2) : Kept(p, j) = {}
                  /\ p[i + 1].does = "debit" /\ p[i + 2].does = "order"
                  /\ \A j \in DOMAIN p : p[j].does = "decide" => j = i
            /\ p[i].does = "debit" => i - 1 \in DOMAIN p /\ p[i - 1].does = "decide"
            /\ p[i].does = "order" => i - 2 \in DOMAIN p /\ p[i - 2].does = "decide"

TableNames == UNION {UNION {p[i].to : i \in DOMAIN p} : p \in {Programs[e] : e \in DOMAIN Programs}}

-----------------------------------------------------------------------------
Funds == 1           \* money for one order

\* newExpandedState, and one customer with a transaction, a beneficiary and
\* these funds; a token was bound before its mobile was registered.
EndpointsInit ==
    /\ \E w \in EndpointCalls :
         handling = [c \in DOMAIN w |->
            [endpoint |-> w[c].endpoint, user |-> w[c].user, at |-> 1, held |-> {},
             waits |-> FALSE, order |-> "none"]]
    /\ tables = [t \in TableNames |->
                   IF t \in {"transactions", "beneficiaryRecords"} THEN <<Seeded>> ELSE << >>]
    /\ bindings = <<NoUser>>
    /\ balance = Funds
    /\ orders = {} /\ debited = {} /\ trail = {}

Program(c) == Programs[handling[c].endpoint]
Busy(c) == handling[c].at <= Len(Program(c))
Now(c) == Program(c)[handling[c].at]

Others(c) == DOMAIN handling \ {c}
Holds(d, lock, modes) == \E h \in handling[d].held : h.lock = lock /\ h.mode \in modes
WaitsToWrite(d, lock) == Busy(d) /\ handling[d].waits /\ Now(d).lock = lock

\* Lock and RLock return.
MayLock(c) ==
    \/ Now(c).lock = "none"
    \/ /\ Now(c).mode = "read"
       /\ \A d \in DOMAIN handling :
            ~Holds(d, Now(c).lock, {"write"}) /\ ~WaitsToWrite(d, Now(c).lock)
    \/ /\ Now(c).mode = "write"
       /\ \A d \in DOMAIN handling : ~Holds(d, Now(c).lock, {"read", "write"})

\* Lock does not return yet, and from now on readers wait.
Wait(c) ==
    /\ Busy(c) /\ Now(c).mode = "write" /\ ~handling[c].waits /\ ~MayLock(c)
    /\ handling' = [handling EXCEPT ![c].waits = TRUE]
    /\ UNCHANGED <<tables, bindings, balance, orders, debited, trail>>

Ready(c, does) == Busy(c) /\ MayLock(c) /\ Now(c).does = does

\* The step is done: its lock is kept or released, with those it frees.
Advanced(c) ==
    LET taken == IF Now(c).lock = "none" THEN {}
                 ELSE {[lock |-> Now(c).lock, mode |-> Now(c).mode]} IN
    [handling[c] EXCEPT
        !.at = @ + 1, !.waits = FALSE,
        !.held = {h \in @ \cup taken : h.lock \notin Now(c).frees}]

Proceed(c) == handling' = [handling EXCEPT ![c] = Advanced(c)]

\* Mutant: the unlock is not deferred, so an early return leaves it out.
MutAnswer(c) ==
    handling' = [handling EXCEPT ![c].at = Len(Program(c)) + 1, ![c].waits = FALSE]

\* An early return: an error, the deferred unlocks.
Answer(c) ==
    handling' = [handling EXCEPT ![c].at = Len(Program(c)) + 1, ![c].held = {},
                                 ![c].waits = FALSE]

Unrelated == UNCHANGED <<bindings, balance, orders, debited>>

Passes(c) ==
    /\ Ready(c, "check") /\ (Proceed(c) \/ Answer(c))
    /\ Unrelated /\ UNCHANGED <<tables, trail>>

Reads(c) == Ready(c, "read") /\ Proceed(c) /\ Unrelated /\ UNCHANGED <<tables, trail>>

OnTables(c, new) ==
    tables' = [t \in TableNames |-> IF t \in Now(c).to THEN new[t] ELSE tables[t]]

Logs(c) ==
    /\ Ready(c, "log") /\ Proceed(c)
    /\ OnTables(c, [t \in TableNames |-> Append(tables[t], c)])
    /\ Unrelated /\ UNCHANGED trail

Puts(c) ==
    /\ Ready(c, "put") /\ Proceed(c)
    /\ OnTables(c, [t \in TableNames |-> <<c>>])
    /\ Unrelated /\ UNCHANGED trail

\* len(...) == 0, or the answer is what there is.
Unless(c) ==
    /\ Ready(c, "unless")
    /\ IF \A t \in Now(c).to : tables[t] = << >> THEN Proceed(c) ELSE Answer(c)
    /\ Unrelated /\ UNCHANGED <<tables, trail>>

Fills(c) ==
    /\ Ready(c, "fill") /\ Proceed(c)
    /\ OnTables(c, [t \in TableNames |->
                      IF tables[t] = << >> THEN <<Seeded>> ELSE tables[t]])
    /\ Unrelated /\ UNCHANGED trail

\* Something not found is answered with an error.
Absent(c) ==
    /\ Ready(c, "amend") \/ Ready(c, "drop")
    /\ Answer(c)
    /\ Unrelated /\ UNCHANGED <<tables, trail>>

Amends(c) ==
    /\ Ready(c, "amend") /\ Proceed(c)
    /\ \E t \in Now(c).to : \E i \in DOMAIN tables[t] : tables' = [tables EXCEPT ![t][i] = c]
    /\ trail' = IF Now(c).lock = "svc" THEN trail \cup {c} ELSE trail
    /\ Unrelated

Drops(c) ==
    /\ Ready(c, "drop") /\ Proceed(c)
    /\ \E t \in Now(c).to : \E i \in DOMAIN tables[t] :
         tables' = [tables EXCEPT ![t] = RemoveAt(@, i)]
    /\ Unrelated /\ UNCHANGED trail

Clears(c) ==
    /\ Ready(c, "clear") /\ Proceed(c)
    /\ OnTables(c, [t \in TableNames |-> << >>])
    /\ Unrelated /\ UNCHANGED trail

Audits(c) ==
    /\ Ready(c, "audit") /\ Proceed(c)
    /\ trail' = trail \cup {c}
    /\ Unrelated /\ UNCHANGED tables

\* append to s.audit without its lock: of two appends at the same time one may
\* be lost.
BareAudit(c) ==
    /\ Ready(c, "bare_audit")
    /\ \/ Proceed(c) /\ trail' = trail \cup {c}
       \/ \E d \in Others(c) :
            /\ Ready(d, "audit")
            /\ handling' = [handling EXCEPT ![c] = Advanced(c), ![d] = Advanced(d)]
            /\ trail' \in {trail \cup {c}, trail \cup {d}}
    /\ Unrelated /\ UNCHANGED tables

-----------------------------------------------------------------------------
(***************************************************************************)
(* SIM bindings and orders.                                                *)
(***************************************************************************)
\* auth_sim_bind: a fresh token, of the user with this mobile, or of nobody
\* and without an audit.
Binds(c) ==
    /\ Ready(c, "bind")
    /\ \/ Proceed(c) /\ bindings' = Append(bindings, handling[c].user)
       \/ Answer(c) /\ bindings' = Append(bindings, NoUser)
    /\ UNCHANGED <<tables, balance, orders, debited, trail>>

\* Mutant: whoever presents the token gets it.
MutMayClaimBinding(c, token) == TRUE

MayClaimBinding(c, token) == bindings[token] \in {NoUser, handling[c].user}

\* auth_sim_bind_reverify.
Claims(c) ==
    /\ Ready(c, "claim")
    /\ \/ \E token \in DOMAIN bindings :
            /\ MayClaimBinding(c, token)
            /\ Proceed(c)
            /\ bindings' = [bindings EXCEPT ![token] = handling[c].user]
       \/ Answer(c) /\ UNCHANGED bindings
    /\ UNCHANGED <<tables, balance, orders, debited, trail>>

\* DetectSIMSwap, and the playbook for it, which is recorded only.
Threatens(c) ==
    /\ Ready(c, "threat") /\ Proceed(c)
    /\ \/ OnTables(c, [t \in TableNames |-> Append(tables[t], c)])
       \/ UNCHANGED tables
    /\ Unrelated /\ UNCHANGED trail

\* Only a buy order is paid for now, nothing moves for a sell order nor for one
\* held because of the risk of its instrument: they skip the debit.
Decides(c) ==
    /\ Ready(c, "decide")
    /\ \E kind \in {"buy", "sell", "cooling_off"} :
         handling' = [handling EXCEPT ![c].order = kind,
                                      ![c].at = IF kind = "buy" THEN @ + 1 ELSE @ + 2]
    /\ Unrelated /\ UNCHANGED <<tables, trail>>

\* Mutant: the error of the debit is not looked at.
MutDebits(c) ==
    /\ Ready(c, "debit") /\ Proceed(c)
    /\ IF balance = 0 THEN UNCHANGED <<balance, debited>>
       ELSE balance' = balance - 1 /\ debited' = debited \cup {c}
    /\ UNCHANGED <<tables, bindings, orders, trail>>

Debits(c) ==
    /\ Ready(c, "debit")
    /\ IF balance = 0
       THEN Answer(c) /\ UNCHANGED <<balance, debited>>
       ELSE Proceed(c) /\ balance' = balance - 1 /\ debited' = debited \cup {c}
    /\ UNCHANGED <<tables, bindings, orders, trail>>

RecordsOrder(c) ==
    /\ Ready(c, "order") /\ Proceed(c)
    /\ orders' = orders \cup {[by |-> c, kind |-> handling[c].order]}
    /\ OnTables(c, [t \in TableNames |-> Append(tables[t], c)])
    /\ UNCHANGED <<bindings, balance, debited, trail>>

EndpointsNext ==
    \E c \in DOMAIN handling :
        \/ Wait(c) \/ Passes(c) \/ Reads(c) \/ Unless(c)
        \/ Logs(c) \/ Puts(c) \/ Fills(c) \/ Absent(c) \/ Amends(c) \/ Drops(c) \/ Clears(c)
        \/ Audits(c) \/ BareAudit(c)
        \/ Binds(c) \/ Claims(c) \/ Threatens(c)
        \/ Decides(c) \/ Debits(c) \/ RecordsOrder(c)

EndpointsSpec == EndpointsInit /\ [][EndpointsNext]_endpointVars

-----------------------------------------------------------------------------
(***************************************************************************)
(* Properties.                                                             *)
(***************************************************************************)
\* Whatever endpoints meet, some handler can go on: no order in which they
\* take the two locks, one inside the other in VerifyOTPToken and
\* health_history, leaves them waiting for each other, waiting writers that
\* keep readers out included.
EndpointsNeverStuck ==
    (\E c \in DOMAIN handling : Busy(c)) =>
        \E c \in DOMAIN handling : Busy(c) /\ MayLock(c)

\* M-13, "we can't report a phantom execution with no corresponding debit": the
\* buy orders on record are paid for, once each, and a payment without its
\* order belongs to a handler that is about to record it.
OrdersFunded ==
    LET recorded == {o.by : o \in {x \in orders : x.kind = "buy"}} IN
    /\ recorded \subseteq debited /\ balance + Cardinality(debited) = Funds
    /\ \A c \in debited \ recorded : Busy(c) /\ Now(c).does = "order"

\* A token of a SIM binding that belongs to a user stays with that user,
\* however binding and re-verification of two users are interleaved.
BindingKeepsOwner ==
    [][\A token \in DOMAIN bindings :
         bindings[token] # NoUser => bindings'[token] = bindings[token]]_bindings
=============================================================================
