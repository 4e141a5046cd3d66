----------------------------- MODULE ApiProofs -----------------------------
(***************************************************************************)
(* The API.  The gateway, for any number of concurrent calls, clients and  *)
(* limits: the gates a call has passed bind what its handler may do.  The  *)
(* expanded endpoints, for any number of concurrent handlers: the order of *)
(* the two locks keeps them from waiting for each other, and orders are    *)
(* paid for.                                                               *)
(***************************************************************************)
EXTENDS Gateway, Endpoints, FiniteSetTheorems, SequenceTheorems, TLAPS

-----------------------------------------------------------------------------
(***************************************************************************)
(* Calls, and the gates they have passed.                                  *)
(***************************************************************************)
CallFields ==
    {"route", "client", "credential", "role", "token", "key", "body", "flaw", "at",
     "user", "status", "by", "boundAt", "answer", "did"}

CallsOK ==
    /\ calls = [i \in DOMAIN calls |-> calls[i]]
    /\ \A i \in DOMAIN calls :
          /\ calls[i] = [f \in CallFields |-> calls[i][f]]
          /\ calls[i].at \in DOMAIN Chain(calls[i].route)

\* What call i has behind it.
Passed(i, gate) ==
    \E k \in 1..(calls[i].at - 1) : Chain(calls[i].route)[k] = gate

\* A step of call i that changes these fields of it.
ChangesOnly(i, fields) ==
    /\ calls' = [j \in DOMAIN calls |-> calls'[j]]
    /\ \A j \in DOMAIN calls : j # i => calls'[j] = calls[j]
    /\ calls'[i] = [f \in CallFields |-> calls'[i][f]]
    /\ \A f \in CallFields \ fields : calls'[i][f] = calls[i][f]

LEMMA CallChanges ==
    ASSUME CallsOK, NEW i \in DOMAIN calls, NEW new, NEW fields,
           calls' = [calls EXCEPT ![i] = new],
           new = [f \in CallFields |-> new[f]],
           \A f \in CallFields \ fields : new[f] = calls[i][f]
    PROVE  ChangesOnly(i, fields) /\ calls'[i] = new
<1>1. calls = [j \in DOMAIN calls |-> calls[j]]
  BY DEF CallsOK
<1>2. calls' = [j \in DOMAIN calls |-> IF j = i THEN new ELSE calls[j]]
  BY <1>1, Zenon
<1>3. /\ calls' = [j \in DOMAIN calls |-> calls'[j]]
      /\ \A j \in DOMAIN calls : j # i => calls'[j] = calls[j]
      /\ calls'[i] = new
  BY <1>2, Zenon
<1> QED
  BY <1>3 DEF ChangesOnly

LEMMA PassChanges ==
    ASSUME CallsOK, NEW i \in DOMAIN calls, Pass(i)
    PROVE  ChangesOnly(i, {"at"}) /\ calls'[i].at = calls[i].at + 1
<1> DEFINE new == [calls[i] EXCEPT !.at = calls[i].at + 1]
<1>1. calls' = [calls EXCEPT ![i] = new]
  BY DEF Pass
<1>2. calls[i] = [f \in CallFields |-> calls[i][f]] /\ "at" \in CallFields
  BY DEF CallsOK, CallFields
<1>3. /\ new = [f \in CallFields |-> new[f]] /\ new["at"] = calls[i].at + 1
      /\ \A f \in CallFields \ {"at"} : new[f] = calls[i][f]
  BY <1>2, Zenon
<1> HIDE DEF new
<1> QED
  BY <1>1, <1>3, CallChanges

LEMMA RefuseChanges ==
    ASSUME CallsOK, NEW i \in DOMAIN calls, NEW status, NEW by,
           calls' = [calls EXCEPT ![i].status = status, ![i].by = by]
    PROVE  ChangesOnly(i, {"status", "by"}) /\ calls'[i].status = status /\ calls'[i].by = by
<1> DEFINE new == [calls[i] EXCEPT !.status = status, !.by = by]
<1>1. calls' = [calls EXCEPT ![i] = new]
  BY DEF CallsOK
<1>2. calls[i] = [f \in CallFields |-> calls[i][f]] /\ {"status", "by"} \subseteq CallFields
  BY DEF CallsOK, CallFields
<1>3. /\ new = [f \in CallFields |-> new[f]] /\ new["status"] = status /\ new["by"] = by
      /\ \A f \in CallFields \ {"status", "by"} : new[f] = calls[i][f]
  BY <1>2
<1> HIDE DEF new
<1> QED
  BY <1>1, <1>3, CallChanges

-----------------------------------------------------------------------------
(***************************************************************************)
(* The steps of a call, by what they do to the state the argument needs:   *)
(* one at a gate without such state, one that binds a key, one that calls  *)
(* the service.                                                            *)
(***************************************************************************)
\* What a gate that lets call i pass has made sure of.
Granted(i, gate) ==
    /\ gate = "scope_token" => calls[i].token = "right" /\ deployment.tokens = "set"
    /\ gate = "auth" => Accepted(calls[i].credential)
    /\ gate = "role" => ParseRole(calls[i].role) \in AllowedRoles(calls[i].route)
    /\ gate = "key" => calls[i].route \notin KeyedRoutes
    /\ gate # "handler"

\* The handler has told the client of call i that it is unauthorized.
Told(i) == calls[i].status = 401 /\ calls[i].by = "handler"

\* A call that is with a handler that asks for the user, and Auth has left none.
Unidentified(i) ==
    /\ Chain(calls[i].route)[calls[i].at] = "handler"
    /\ (Handlers[calls[i].route].user /\ ~calls[i].user) \/ Nameless(i)

\* The call passes, and has a user behind Auth; or it is answered, with a 401
\* of the handler only if it has no user.
LetThrough(i, gate) ==
    /\ calls'[i].at = calls[i].at + 1 /\ calls'[i].status = calls[i].status
    /\ calls'[i].user = IF gate = "auth" THEN TRUE ELSE calls[i].user

Answered(i) ==
    /\ calls'[i].at = calls[i].at /\ calls'[i].user = calls[i].user
    /\ Told(i)' => Unidentified(i)

PlainStep(i, gate) ==
    /\ At(i, gate)
    /\ ChangesOnly(i, {"at", "user", "status", "by"})
    /\ \/ Answered(i)
       \/ LetThrough(i, gate) /\ Granted(i, gate)
    /\ UNCHANGED <<deployment, seen, results, clock>>

KeyOf(i) == <<calls[i].route, calls[i].key>>

\* The binding RequireIdempotency finds or makes.
Live(i) == KeyOf(i) \in DOMAIN seen /\ clock < seen[KeyOf(i)].expires

Entry(i) ==
    IF Live(i) THEN seen[KeyOf(i)] ELSE [body |-> calls[i].body, expires |-> clock + KeyTTL]

BindStep(i) ==
    /\ At(i, "key") /\ calls[i].route \in KeyedRoutes /\ Entry(i).body = calls[i].body
    /\ ChangesOnly(i, {"at", "boundAt"})
    /\ calls'[i].at = calls[i].at + 1
    /\ calls'[i].boundAt = Entry(i).expires - KeyTTL
    /\ seen' = Assigned(seen, KeyOf(i), Entry(i))
    /\ UNCHANGED <<deployment, results, clock>>

ServeStep(i) ==
    /\ At(i, "handler")
    /\ ChangesOnly(i, {"status", "by", "answer", "did"})
    /\ calls'[i].status # 0 /\ calls'[i].by = "service"
    /\ calls'[i].answer = IF Cached(i) THEN results[KeyOf(i)].by ELSE i
    /\ results' = IF Keeps(i) /\ ~Cached(i)
                  THEN Assigned(results, KeyOf(i), [by |-> i, expires |-> clock + KeyTTL])
                  ELSE results
    /\ UNCHANGED <<deployment, seen, clock>>

LEMMA ChangesWeaken ==
    ASSUME NEW i, NEW fields, NEW more, ChangesOnly(i, fields), fields \subseteq more
    PROVE  ChangesOnly(i, more)
BY DEF ChangesOnly

LEMMA PlainMoves ==
    ASSUME NEW i, NEW gate, PlainStep(i, gate)
    PROVE  \/ calls'[i].at = calls[i].at
           \/ calls'[i].at = calls[i].at + 1 /\ Granted(i, gate)
BY Zenon DEF PlainStep, LetThrough, Answered

\* An answer, of a gate or of a handler that has its user.
LEMMA RefusePlain ==
    ASSUME CallsOK, NEW i \in DOMAIN calls, NEW gate, NEW status, At(i, gate),
           Refuse(i, status), UNCHANGED <<deployment, seen, results, clock>>,
           (status = 401 /\ gate = "handler") => Unidentified(i)
    PROVE  PlainStep(i, gate)
<1>1. ChangesOnly(i, {"status", "by"}) /\ calls'[i].status = status /\ calls'[i].by = gate
  BY RefuseChanges DEF Refuse, At
<1>2. calls'[i].at = calls[i].at /\ calls'[i].user = calls[i].user
  BY <1>1 DEF ChangesOnly, CallFields
<1>3. Answered(i)
  BY <1>1, <1>2 DEF Answered, Told
<1>4. ChangesOnly(i, {"at", "user", "status", "by"})
  BY <1>1, ChangesWeaken
<1> QED
  BY <1>3, <1>4 DEF PlainStep

LEMMA PassPlain ==
    ASSUME CallsOK, NEW i \in DOMAIN calls, NEW gate, At(i, gate), Granted(i, gate),
           gate # "auth", Pass(i), UNCHANGED <<deployment, seen, results, clock>>
    PROVE  PlainStep(i, gate)
<1>1. ChangesOnly(i, {"at"}) /\ calls'[i].at = calls[i].at + 1
  BY PassChanges
<1>2. calls'[i].status = calls[i].status /\ calls'[i].user = calls[i].user
  BY <1>1 DEF ChangesOnly, CallFields
<1>3. LetThrough(i, gate)
  BY <1>1, <1>2 DEF LetThrough
<1>4. ChangesOnly(i, {"at", "user", "status", "by"})
  BY <1>1, ChangesWeaken
<1> QED
  BY <1>3, <1>4 DEF PlainStep

LEMMA GatePlain ==
    ASSUME CallsOK, NEW i \in DOMAIN calls, NEW gate, NEW ok, NEW status,
           At(i, gate), Gate(i, ok, status), ok => Granted(i, gate),
           gate # "handler", gate # "auth"
    PROVE  PlainStep(i, gate)
<1>1. UNCHANGED <<deployment, seen, results, clock>>
  BY DEF Gate
<1>2. CASE ok
  BY <1>1, <1>2, PassPlain DEF Gate
<1>3. CASE ~ok
  BY <1>1, <1>3, RefusePlain DEF Gate
<1> QED
  BY <1>2, <1>3

LEMMA AuthPlain ==
    ASSUME CallsOK, NEW i \in DOMAIN calls, Auth(i)
    PROVE  PlainStep(i, "auth")
<1>1. At(i, "auth") /\ UNCHANGED <<deployment, seen, results, clock>>
  BY DEF Auth
<1>2. CASE Accepted(calls[i].credential)
  <2> DEFINE new == [calls[i] EXCEPT !.at = calls[i].at + 1, !.user = TRUE]
  <2>1. calls' = [calls EXCEPT ![i].at = @ + 1, ![i].user = TRUE]
    BY <1>2, Zenon DEF Auth
  <2>2. calls[i] = [f \in CallFields |-> calls[i][f]] /\ {"at", "user"} \subseteq CallFields
    BY DEF CallsOK, CallFields
  <2>3. "at" # "user"
    OBVIOUS
  <2>4. /\ new = [f \in CallFields |-> new[f]] /\ new["at"] = calls[i].at + 1
        /\ new["user"] = TRUE
        /\ \A f \in CallFields \ {"at", "user"} : new[f] = calls[i][f]
    BY <2>2, <2>3, Zenon
  <2>5. calls = [j \in DOMAIN calls |-> calls[j]]
    BY DEF CallsOK
  <2>6. calls' = [calls EXCEPT ![i] = new]
    BY <2>1, <2>5, Zenon
  <2> HIDE DEF new
  <2>7. ChangesOnly(i, {"at", "user"}) /\ calls'[i].at = calls[i].at + 1
        /\ calls'[i] = new
    BY <2>4, <2>6, CallChanges
  <2>8. Granted(i, "auth")
    BY <1>2 DEF Granted
  <2>9. calls'[i].user = TRUE
    BY <2>4, <2>7, Zenon
  <2>10. calls'[i].status = calls[i].status
    BY <2>7 DEF ChangesOnly, CallFields
  <2>11. LetThrough(i, "auth")
    BY <2>7, <2>9, <2>10, Zenon DEF LetThrough
  <2> QED
    BY <1>1, <2>7, <2>8, <2>11, ChangesWeaken DEF PlainStep
<1>3. CASE ~Accepted(calls[i].credential)
  BY <1>1, <1>3, RefusePlain DEF Auth
<1> QED
  BY <1>2, <1>3

LEMMA LimitPlain ==
    ASSUME CallsOK, NEW i \in DOMAIN calls,
           NEW gate \in {"global_limit", "auth_limit", "register_limit"}, RateLimit(i, gate)
    PROVE  PlainStep(i, gate)
<1>1. /\ At(i, gate) /\ UNCHANGED <<deployment, seen, results, clock>>
      /\ Refuse(i, 429) \/ Pass(i)
  BY DEF RateLimit
<1>2. Granted(i, gate)
  BY DEF Granted
<1> QED
  BY <1>1, <1>2, RefusePlain, PassPlain

LEMMA KeyCases ==
    ASSUME CallsOK, NEW i \in DOMAIN calls, RequireIdempotency(i)
    PROVE  PlainStep(i, "key") \/ BindStep(i)
<1>1. At(i, "key") /\ UNCHANGED <<deployment, results, clock>>
  BY DEF RequireIdempotency
<1>2. \/ calls[i].route \notin KeyedRoutes /\ Pass(i) /\ UNCHANGED seen
      \/ Refuse(i, 400) /\ UNCHANGED seen
      \/ Refuse(i, 409) /\ UNCHANGED seen
      \/ /\ calls[i].route \in KeyedRoutes /\ Entry(i).body = calls[i].body
         /\ calls' = [calls EXCEPT ![i].at = @ + 1, ![i].boundAt = Entry(i).expires - KeyTTL]
         /\ seen' = Assigned(seen, KeyOf(i), Entry(i))
  BY DEF RequireIdempotency, Entry, Live, KeyOf
<1>3. CASE calls[i].route \notin KeyedRoutes /\ Pass(i) /\ UNCHANGED seen
  BY <1>1, <1>3, PassPlain DEF Granted
<1>4. CASE (Refuse(i, 400) \/ Refuse(i, 409)) /\ UNCHANGED seen
  BY <1>1, <1>4, RefusePlain
<1>5. CASE /\ calls[i].route \in KeyedRoutes /\ Entry(i).body = calls[i].body
           /\ calls' = [calls EXCEPT ![i].at = @ + 1, ![i].boundAt = Entry(i).expires - KeyTTL]
           /\ seen' = Assigned(seen, KeyOf(i), Entry(i))
  <2> DEFINE since == Entry(i).expires - KeyTTL
             new == [calls[i] EXCEPT !.at = calls[i].at + 1, !.boundAt = since]
  <2> HIDE DEF since
  <2>1. calls[i] = [f \in CallFields |-> calls[i][f]] /\ {"at", "boundAt"} \subseteq CallFields
        /\ calls = [j \in DOMAIN calls |-> calls[j]]
    BY DEF CallsOK, CallFields
  <2>2. /\ new = [f \in CallFields |-> new[f]] /\ new["at"] = calls[i].at + 1
        /\ new["boundAt"] = since
        /\ \A f \in CallFields \ {"at", "boundAt"} : new[f] = calls[i][f]
    BY <2>1
  <2>3. calls' = [calls EXCEPT ![i] = new]
    BY <1>5, <2>1 DEF since
  <2> HIDE DEF new
  <2>4. /\ ChangesOnly(i, {"at", "boundAt"}) /\ calls'[i].at = calls[i].at + 1
        /\ calls'[i].boundAt = since
    BY <2>2, <2>3, CallChanges
  <2> QED
    BY <1>1, <1>5, <2>4 DEF BindStep, since
<1> QED
  BY <1>2, <1>3, <1>4, <1>5

LEMMA HandleCases ==
    ASSUME CallsOK, NEW i \in DOMAIN calls, Handle(i)
    PROVE  PlainStep(i, "handler") \/ ServeStep(i)
<1>1. At(i, "handler") /\ UNCHANGED <<deployment, seen, clock>>
  BY DEF Handle
<1>2. \/ (Refuse(i, 404) \/ Refuse(i, 400)) /\ UNCHANGED results
      \/ Refuse(i, 401) /\ Unidentified(i) /\ UNCHANGED results
      \/ ServiceFails(i)
      \/ Serve(i)
  BY Zenon DEF Handle, Unidentified, At
<1>3. CASE \/ (Refuse(i, 404) \/ Refuse(i, 400)) /\ UNCHANGED results
           \/ Refuse(i, 401) /\ Unidentified(i) /\ UNCHANGED results
  BY <1>1, <1>3, RefusePlain
<1>4. CASE ServiceFails(i)
  <2>1. PICK status : calls' = [calls EXCEPT ![i].status = status, ![i].by = "service"]
    BY <1>4 DEF ServiceFails
  <2>2. UNCHANGED results
    BY <1>4 DEF ServiceFails
  <2>3. ChangesOnly(i, {"status", "by"}) /\ calls'[i].by = "service"
    BY <2>1, RefuseChanges
  <2>4. calls'[i].at = calls[i].at /\ calls'[i].user = calls[i].user
    BY <2>3 DEF ChangesOnly, CallFields
  <2>5. Answered(i)
    BY <2>3, <2>4 DEF Answered, Told
  <2> QED
    BY <1>1, <2>2, <2>3, <2>5, ChangesWeaken DEF PlainStep
<1>5. CASE Serve(i)
  <2> DEFINE answer == IF Cached(i) THEN results[KeyOf(i)].by ELSE i
             status == Success(calls[i].route)
             did == Operation(i)
             new == [calls[i] EXCEPT !.status = status, !.by = "service",
                                     !.answer = answer, !.did = did]
  <2>1. /\ calls' = [calls EXCEPT ![i].status = status, ![i].by = "service",
                                  ![i].answer = answer, ![i].did = did]
        /\ results' = IF Keeps(i) /\ ~Cached(i)
                      THEN Assigned(results, KeyOf(i), [by |-> i, expires |-> clock + KeyTTL])
                      ELSE results
    BY <1>5 DEF Serve, KeyOf
  <2>2. status # 0
    BY DEF Success
  <2> HIDE DEF answer, status, did
  <2>3. /\ calls[i] = [f \in CallFields |-> calls[i][f]]
        /\ {"status", "by", "answer", "did"} \subseteq CallFields
        /\ calls = [j \in DOMAIN calls |-> calls[j]]
    BY DEF CallsOK, CallFields
  <2>4. /\ new = [f \in CallFields |-> new[f]]
        /\ new["status"] = status /\ new["answer"] = answer /\ new["by"] = "service"
        /\ \A f \in CallFields \ {"status", "by", "answer", "did"} : new[f] = calls[i][f]
    BY <2>3
  <2>5. calls' = [calls EXCEPT ![i] = new]
    BY <2>1, <2>3
  <2> HIDE DEF new
  <2>6. /\ ChangesOnly(i, {"status", "by", "answer", "did"})
        /\ calls'[i].status = status /\ calls'[i].answer = answer
        /\ calls'[i].by = "service"
    BY <2>4, <2>5, CallChanges
  <2> QED
    BY <1>1, <2>1, <2>2, <2>6 DEF ServeStep, answer
<1> QED
  BY <1>2, <1>3, <1>4, <1>5

\* RequireScopedToken lets pass what came with the token that is configured.
LEMMA TokenPlain ==
    ASSUME CallsOK, NEW i \in DOMAIN calls, ScopedToken(i),
           deployment.tokens \in {"set", "random", "blank"}
    PROVE  PlainStep(i, "scope_token")
<1> DEFINE sent == IF deployment.tokens = "random" /\ calls[i].token = "right"
                   THEN "wrong" ELSE calls[i].token
           ok == deployment.tokens # "blank" /\ sent = "right"
           status == IF deployment.tokens = "blank" THEN 503
                     ELSE IF sent = "none" THEN 401 ELSE 403
<1>1. At(i, "scope_token") /\ Gate(i, ok, status)
  BY DEF ScopedToken
<1>2. ok => Granted(i, "scope_token")
  BY DEF Granted
<1> HIDE DEF ok, status
<1> QED
  BY <1>1, <1>2, GatePlain

LEMMA StepCases ==
    ASSUME CallsOK, deployment.tokens \in {"set", "random", "blank"}, GateNext
    PROVE  \/ \E i \in DOMAIN calls :
                 (\E gate : PlainStep(i, gate)) \/ BindStep(i) \/ ServeStep(i)
           \/ GateTick
<1> SUFFICES ASSUME ~GateTick
             PROVE  \E i \in DOMAIN calls :
                       (\E gate : PlainStep(i, gate)) \/ BindStep(i) \/ ServeStep(i)
  OBVIOUS
<1>1. PICK i \in DOMAIN calls :
          \/ Cors(i) \/ CsrfDefense(i) \/ PinVerification(i) \/ ScopedToken(i)
          \/ Auth(i) \/ RequireRole(i) \/ PQCSession(i)
          \/ StepUpGate(i) \/ CoolingOffGate(i)
          \/ \E gate \in {"global_limit", "auth_limit", "register_limit"} : RateLimit(i, gate)
          \/ RequireIdempotency(i) \/ Handle(i)
  BY DEF GateNext
<1>2. ASSUME NEW gate \in {"cors", "csrf", "pin", "pqc", "step_up", "cooling_off"},
             NEW ok, NEW status, At(i, gate), Gate(i, ok, status)
      PROVE  PlainStep(i, gate)
  BY <1>2, GatePlain DEF Granted
<1>3. CASE Cors(i)
  BY <1>2, <1>3 DEF Cors
<1>4. CASE CsrfDefense(i)
  BY <1>2, <1>4 DEF CsrfDefense
<1>5. CASE PinVerification(i)
  BY <1>2, <1>5 DEF PinVerification
<1>6. CASE RequireRole(i)
  <2> DEFINE ok == ParseRole(calls[i].role) \in AllowedRoles(calls[i].route)
  <2>1. At(i, "role") /\ Gate(i, ok, 403) /\ (ok => Granted(i, "role"))
    BY <1>6 DEF RequireRole, Granted
  <2> HIDE DEF ok
  <2> QED
    BY <2>1, GatePlain
<1>7. CASE PQCSession(i)
  BY <1>2, <1>7 DEF PQCSession
<1>8. CASE StepUpGate(i) \/ CoolingOffGate(i)
  BY <1>2, <1>8 DEF StepUpGate, CoolingOffGate
<1> QED
  BY <1>1, <1>3, <1>4, <1>5, <1>6, <1>7, <1>8, TokenPlain, AuthPlain, LimitPlain,
     KeyCases, HandleCases

-----------------------------------------------------------------------------
(***************************************************************************)
(* The chains of the routes the properties are about.                      *)
(***************************************************************************)
GateNames ==
    {"cors", "csrf", "global_limit", "pin", "auth_limit", "register_limit", "scope_token",
     "auth", "role", "pqc", "key", "step_up", "cooling_off", "handler"}

FullChain(gates) == GlobalChain \o gates \o <<"handler">>

LEMMA ChainEntries ==
    ASSUME NEW gates \in Seq(GateNames), NEW chain, chain = FullChain(gates)
    PROVE  /\ chain \in Seq(GateNames) /\ Len(chain) = Len(gates) + 5 /\ Len(gates) \in Nat
           /\ \A k \in 1..4 : chain[k] # "handler"
           /\ \A k \in 1..Len(gates) : chain[k + 4] = gates[k]
           /\ chain[Len(gates) + 5] = "handler"
<1> DEFINE a == GlobalChain  b == GlobalChain \o gates  z == <<"handler">>
           c == b \o z
<1>1. /\ a \in Seq(GateNames) /\ Len(a) = 4 /\ a[1] = "cors" /\ a[2] = "csrf"
      /\ a[3] = "global_limit" /\ a[4] = "pin"
  BY DEF GlobalChain, GateNames
<1>2. z \in Seq(GateNames) /\ Len(z) = 1 /\ z[1] = "handler"
  BY DEF GateNames
<1> HIDE DEF a, z
<1>3. /\ b \in Seq(GateNames) /\ Len(b) = 4 + Len(gates) /\ Len(gates) \in Nat
      /\ \A k \in 1..(4 + Len(gates)) : b[k] = IF k <= 4 THEN a[k] ELSE gates[k - 4]
  <2>1. b = a \o gates
    BY DEF a
  <2>2. /\ a \o gates \in Seq(GateNames) /\ Len(a \o gates) = Len(a) + Len(gates)
        /\ \A k \in 1..(Len(a) + Len(gates)) :
              (a \o gates)[k] = IF k <= Len(a) THEN a[k] ELSE gates[k - Len(a)]
    BY <1>1, ConcatProperties
  <2> HIDE DEF b
  <2>3. Len(gates) \in Nat
    OBVIOUS
  <2> QED
    BY <1>1, <2>1, <2>2, <2>3
<1> HIDE DEF b
<1>4. /\ c \in Seq(GateNames) /\ Len(c) = 5 + Len(gates)
      /\ \A k \in 1..(5 + Len(gates)) :
            c[k] = IF k <= 4 + Len(gates) THEN b[k] ELSE z[k - (4 + Len(gates))]
  <2>1. /\ b \o z \in Seq(GateNames) /\ Len(b \o z) = Len(b) + Len(z)
        /\ \A k \in 1..(Len(b) + Len(z)) :
              (b \o z)[k] = IF k <= Len(b) THEN b[k] ELSE z[k - Len(b)]
    BY <1>2, <1>3, ConcatProperties
  <2> DEFINE d == b \o z
  <2> HIDE DEF d
  <2>2. /\ d \in Seq(GateNames) /\ Len(d) = Len(b) + Len(z)
        /\ \A k \in 1..(Len(b) + Len(z)) : d[k] = IF k <= Len(b) THEN b[k] ELSE z[k - Len(b)]
    BY <2>1 DEF d
  <2>3. /\ d \in Seq(GateNames) /\ Len(d) = 5 + Len(gates)
        /\ \A k \in 1..(5 + Len(gates)) :
              d[k] = IF k <= 4 + Len(gates) THEN b[k] ELSE z[k - (4 + Len(gates))]
    BY <1>2, <1>3, <2>2
  <2> QED
    BY <2>3 DEF d
<1> HIDE DEF c
<1>5. \A k \in 1..4 : c[k] # "handler"
  BY <1>1, <1>3, <1>4
<1>6. \A k \in 1..Len(gates) : c[k + 4] = gates[k]
  BY <1>3, <1>4
<1>7. c[Len(gates) + 5] = "handler"
  BY <1>2, <1>3, <1>4
<1>8. chain = c
  BY DEF c, b, z, FullChain
<1> HIDE DEF c
<1> QED
  BY <1>3, <1>4, <1>5, <1>6, <1>7, <1>8

\* Every chain ends with the handler.
LEMMA ChainEnds ==
    ASSUME NEW route
    PROVE  /\ Chain(route) \in Seq(GateNames) /\ Len(Chain(route)) \in Nat \ {0}
           /\ Chain(route)[Len(Chain(route))] = "handler"
<1>1. ASSUME NEW gates \in Seq(GateNames), Chain(route) = FullChain(gates)
      PROVE  /\ Chain(route) \in Seq(GateNames) /\ Len(Chain(route)) \in Nat \ {0}
             /\ Chain(route)[Len(Chain(route))] = "handler"
  BY <1>1, ChainEntries
<1>2. /\ << >> \in Seq(GateNames) /\ <<"auth_limit">> \in Seq(GateNames)
      /\ <<"register_limit">> \in Seq(GateNames) /\ <<"scope_token">> \in Seq(GateNames)
      /\ PrivilegedChain(route) \in Seq(GateNames)
  BY DEF PrivilegedChain, GateNames
<1>3. GroupChain(route) \in Seq(GateNames)
  <2>1. /\ <<"auth", "pqc", "key">> \in Seq(GateNames)
        /\ (IF route \in StepUpRoutes THEN <<"step_up">> ELSE << >>) \in Seq(GateNames)
        /\ (IF route \in CoolingOffRoutes THEN <<"cooling_off">> ELSE << >>) \in Seq(GateNames)
    <3>1. /\ << >> \in Seq(GateNames) /\ <<"step_up">> \in Seq(GateNames)
          /\ <<"cooling_off">> \in Seq(GateNames) /\ <<"auth", "pqc", "key">> \in Seq(GateNames)
      BY DEF GateNames
    <3> QED
      BY <3>1, Zenon
  <2> QED
    BY <2>1, ConcatProperties DEF GroupChain
<1> HIDE DEF GroupChain, PrivilegedChain
<1>4. \E gates \in Seq(GateNames) : Chain(route) = FullChain(gates)
  BY <1>2, <1>3 DEF Chain, FullChain
<1> QED
  BY <1>1, <1>4

LEMMA AdminChain ==
    ASSUME NEW route \in ComplianceRoutes \cup AdminRoutes
    PROVE  /\ DOMAIN Chain(route) = 1..8 /\ \A k \in 1..7 : Chain(route)[k] # "handler"
           /\ Chain(route)[5] = "scope_token" /\ Chain(route)[6] = "auth"
           /\ Chain(route)[7] = "role"
<1>1. /\ route \notin SystemRoutes \cup KeyRoutes /\ route \notin DevRoutes
      /\ route \notin CredentialRoutes /\ route \notin RegisterRoutes
      /\ route \notin InternalRoutes \cup RiskValidationRoutes
  BY DEF ComplianceRoutes, AdminRoutes, SystemRoutes, KeyRoutes, DevRoutes,
         CredentialRoutes, RegisterRoutes, InternalRoutes, RiskValidationRoutes
<1>2. Chain(route) = FullChain(PrivilegedChain(route))
  BY <1>1 DEF Chain, FullChain
<1> QED
  <2> DEFINE gates == <<"scope_token", "auth", "role">>  c == Chain(route)
  <2>1. /\ gates \in Seq(GateNames) /\ Len(gates) = 3
        /\ gates[1] = "scope_token" /\ gates[2] = "auth" /\ gates[3] = "role"
    BY DEF GateNames
  <2>2. c = FullChain(gates)
    BY <1>2 DEF PrivilegedChain
  <2> HIDE DEF gates, c
  <2>3. /\ c \in Seq(GateNames) /\ Len(c) = 8
        /\ \A k \in 1..4 : c[k] # "handler"
        /\ \A k \in 1..3 : c[k + 4] = gates[k]
    <3>1. /\ c \in Seq(GateNames) /\ Len(c) = Len(gates) + 5
          /\ \A k \in 1..4 : c[k] # "handler"
          /\ \A k \in 1..Len(gates) : c[k + 4] = gates[k]
      BY <2>1, <2>2, ChainEntries
    <3> QED
      BY <2>1, <3>1
  <2>4. c[5] = gates[1] /\ c[6] = gates[2] /\ c[7] = gates[3]
    BY <2>3
  <2> QED
    BY <2>1, <2>3, <2>4 DEF c

LEMMA PayChain ==
    /\ DOMAIN Chain("initiateTransaction") = 1..9
    /\ \A k \in 1..8 : Chain("initiateTransaction")[k] # "handler"
    /\ Chain("initiateTransaction")[7] = "key"
<1> DEFINE route == "initiateTransaction"
<1>1. /\ route \notin SystemRoutes \cup KeyRoutes /\ route \notin DevRoutes
      /\ route \notin CredentialRoutes /\ route \notin RegisterRoutes
      /\ route \notin InternalRoutes \cup RiskValidationRoutes
      /\ route \notin ComplianceRoutes \cup AdminRoutes
      /\ route \notin StepUpRoutes /\ route \in CoolingOffRoutes
  BY DEF ComplianceRoutes, AdminRoutes, SystemRoutes, KeyRoutes, DevRoutes,
         CredentialRoutes, RegisterRoutes, InternalRoutes, RiskValidationRoutes,
         StepUpRoutes, CoolingOffRoutes
<1>2. Chain(route) = FullChain(GroupChain(route))
  BY <1>1 DEF Chain, FullChain
<1>3. GroupChain(route) = <<"auth", "pqc", "key">> \o << >> \o <<"cooling_off">>
  BY <1>1 DEF GroupChain
<1>4. GroupChain(route) = <<"auth", "pqc", "key", "cooling_off">>
  BY <1>3
<1> QED
  <2> DEFINE gates == <<"auth", "pqc", "key", "cooling_off">>  c == Chain(route)
  <2>1. /\ gates \in Seq(GateNames) /\ Len(gates) = 4
        /\ gates[1] = "auth" /\ gates[2] = "pqc" /\ gates[3] = "key"
        /\ gates[4] = "cooling_off"
    BY DEF GateNames
  <2>2. c = FullChain(gates)
    BY <1>2, <1>4
  <2> HIDE DEF gates, c
  <2>3. /\ c \in Seq(GateNames) /\ Len(c) = 9
        /\ \A k \in 1..4 : c[k] # "handler"
        /\ \A k \in 1..4 : c[k + 4] = gates[k]
    <3>1. /\ c \in Seq(GateNames) /\ Len(c) = Len(gates) + 5
          /\ \A k \in 1..4 : c[k] # "handler"
          /\ \A k \in 1..Len(gates) : c[k + 4] = gates[k]
      BY <2>1, <2>2, ChainEntries
    <3> QED
      BY <2>1, <3>1
  <2>4. c[5] = gates[1] /\ c[6] = gates[2] /\ c[7] = gates[3] /\ c[8] = gates[4]
    BY <2>3
  <2> QED
    BY <2>1, <2>3, <2>4 DEF c

-----------------------------------------------------------------------------
(***************************************************************************)
(* What holds of every call, wherever the others are.                      *)
(***************************************************************************)
Served(i) == calls[i].did # ""

Privileges ==
    \A i \in DOMAIN calls :
        /\ Passed(i, "scope_token") =>
              calls[i].token = "right" /\ deployment.tokens = "set"
        /\ Passed(i, "auth") => Accepted(calls[i].credential)
        /\ Passed(i, "role") => ParseRole(calls[i].role) \in AllowedRoles(calls[i].route)
        /\ Served(i) => calls[i].status # 0 /\ Chain(calls[i].route)[calls[i].at] = "handler"

PrivilegeInv ==
    /\ CallsOK
    /\ deployment.tokens \in {"set", "random", "blank"}
    /\ Privileges

LEMMA PassedSteps ==
    ASSUME CallsOK, NEW i \in DOMAIN calls, NEW gate, At(i, gate), NEW x,
           deployment' = deployment, calls'[i].route = calls[i].route,
           calls'[i].at \in {calls[i].at, calls[i].at + 1}, Passed(i, x)'
    PROVE  Passed(i, x) \/ (x = gate /\ calls'[i].at = calls[i].at + 1)
<1>1. PICK k \in 1..(calls'[i].at - 1) : Chain(calls[i].route)'[k] = x
  BY DEF Passed
<1>2. Chain(calls[i].route)' = Chain(calls[i].route)
  BY DEF Chain
<1>3. calls[i].at \in Nat
  BY ChainEnds DEF CallsOK
<1>4. CASE k \in 1..(calls[i].at - 1)
  BY <1>1, <1>2, <1>4 DEF Passed
<1>5. CASE k = calls[i].at /\ calls'[i].at = calls[i].at + 1
  BY <1>1, <1>2, <1>5 DEF At
<1> QED
  BY <1>1, <1>3, <1>4, <1>5

LEMMA PassedOthers ==
    ASSUME NEW j, calls'[j] = calls[j], deployment' = deployment, NEW x
    PROVE  Passed(j, x)' <=> Passed(j, x)
BY DEF Passed, Chain

\* Steps leave calls where they can be.
LEMMA CallsStay ==
    ASSUME CallsOK, NEW i \in DOMAIN calls, NEW gate, At(i, gate), NEW fields,
           "route" \notin fields, ChangesOnly(i, fields), deployment' = deployment,
           \/ calls'[i].at = calls[i].at
           \/ calls'[i].at = calls[i].at + 1 /\ gate # "handler"
    PROVE  CallsOK'
<1>1. DOMAIN calls' = DOMAIN calls /\ calls'[i].route = calls[i].route
  BY DEF ChangesOnly, CallFields
<1>2. \A route : Chain(route)' = Chain(route)
  BY DEF Chain
<1>3. calls'[i].at \in DOMAIN Chain(calls[i].route)
  <2>1. calls[i].at \in DOMAIN Chain(calls[i].route)
    BY DEF CallsOK
  <2>2. ASSUME gate # "handler" PROVE calls[i].at + 1 \in DOMAIN Chain(calls[i].route)
    <3>1. calls[i].at # Len(Chain(calls[i].route))
      BY <2>2, ChainEnds DEF At
    <3> QED
      BY <2>1, <3>1, ChainEnds
  <2> QED
    BY <2>1, <2>2
<1>4. \A j \in DOMAIN calls :
         /\ calls'[j] = [f \in CallFields |-> calls'[j][f]]
         /\ calls'[j].at \in DOMAIN Chain(calls'[j].route)
  BY <1>1, <1>3 DEF CallsOK, ChangesOnly
<1>5. calls' = [j \in DOMAIN calls' |-> calls'[j]]
  BY <1>1 DEF ChangesOnly
<1> QED
  BY <1>1, <1>2, <1>4, <1>5 DEF CallsOK

LEMMA PrivilegesStep ==
    ASSUME PrivilegeInv, NEW i \in DOMAIN calls,
           (\E gate : PlainStep(i, gate)) \/ BindStep(i) \/ ServeStep(i)
    PROVE  PrivilegeInv'
<1>1. PICK gate :
         /\ At(i, gate) /\ deployment' = deployment
         /\ ChangesOnly(i, {"at", "user", "status", "by", "boundAt", "answer", "did"})
         /\ \/ calls'[i].at = calls[i].at
            \/ /\ calls'[i].at = calls[i].at + 1
               /\ Granted(i, gate) \/ gate = "key"
         /\ \/ calls'[i].did = calls[i].did
            \/ gate = "handler" /\ calls'[i].at = calls[i].at /\ calls'[i].status # 0
  <2>1. CASE \E gate : PlainStep(i, gate)
    <3>1. PICK gate : PlainStep(i, gate)
      BY <2>1
    <3>2. calls'[i].did = calls[i].did
      BY <3>1 DEF PlainStep, ChangesOnly, CallFields
    <3> QED
      BY <3>1, <3>2, PlainMoves, ChangesWeaken DEF PlainStep
  <2>2. CASE BindStep(i)
    <3>1. calls'[i].did = calls[i].did
      BY <2>2 DEF BindStep, ChangesOnly, CallFields
    <3> QED
      BY <2>2, <3>1, ChangesWeaken DEF BindStep
  <2>3. CASE ServeStep(i)
    <3>1. calls'[i].at = calls[i].at
      BY <2>3 DEF ServeStep, ChangesOnly, CallFields
    <3> QED
      BY <2>3, <3>1, ChangesWeaken DEF ServeStep
  <2> QED
    BY <2>1, <2>2, <2>3
<1>2. CallsOK
  BY DEF PrivilegeInv
<1>3. /\ DOMAIN calls' = DOMAIN calls
      /\ \A j \in DOMAIN calls : j # i => calls'[j] = calls[j]
      /\ calls'[i].route = calls[i].route /\ calls'[i].token = calls[i].token
      /\ calls'[i].credential = calls[i].credential /\ calls'[i].role = calls[i].role
  BY <1>1 DEF ChangesOnly, CallFields
<1>4. CallsOK'
  BY <1>1, <1>2, CallsStay DEF Granted
<1>5. \A route : Chain(route)' = Chain(route)
  BY <1>1 DEF Chain
<1>6. \A c : Accepted(c)' = Accepted(c)
  BY <1>1 DEF Accepted
<1>7. ASSUME NEW j \in DOMAIN calls, j # i
      PROVE  /\ Passed(j, "scope_token")' =>
                   calls'[j].token = "right" /\ deployment'.tokens = "set"
             /\ Passed(j, "auth")' => Accepted(calls[j].credential)'
             /\ Passed(j, "role")' =>
                   ParseRole(calls'[j].role) \in AllowedRoles(calls'[j].route)
             /\ Served(j)' =>
                   calls'[j].status # 0 /\ Chain(calls[j].route)'[calls'[j].at] = "handler"
  <2>1. /\ calls'[j] = calls[j] /\ (Passed(j, "scope_token")' <=> Passed(j, "scope_token"))
        /\ Passed(j, "auth")' <=> Passed(j, "auth")
        /\ Passed(j, "role")' <=> Passed(j, "role")
    BY <1>1, <1>3, <1>7, PassedOthers
  <2> QED
    <3>1. Served(j)' <=> Served(j)
      BY <2>1, Zenon DEF Served
    <3> QED
      BY <1>1, <1>5, <1>6, <2>1, <3>1 DEF PrivilegeInv, Privileges, Accepted
<1>8. /\ Passed(i, "scope_token")' =>
            calls'[i].token = "right" /\ deployment'.tokens = "set"
      /\ Passed(i, "auth")' => Accepted(calls[i].credential)'
      /\ Passed(i, "role")' =>
            ParseRole(calls'[i].role) \in AllowedRoles(calls'[i].route)
      /\ Served(i)' =>
            calls'[i].status # 0 /\ Chain(calls[i].route)'[calls'[i].at] = "handler"
  <2>1. \A x : Passed(i, x)' => Passed(i, x) \/ (x = gate /\ calls'[i].at = calls[i].at + 1)
    BY <1>1, <1>2, <1>3, PassedSteps
  <2>2. calls[i].at # calls[i].at + 1
    BY <1>2, ChainEnds DEF CallsOK
  <2>a. ASSUME NEW x, x # "key", Passed(i, x)' PROVE Passed(i, x) \/ (x = gate /\ Granted(i, gate))
    BY <1>1, <2>1, <2>2, <2>a
  <2>3. Passed(i, "scope_token")' =>
            calls'[i].token = "right" /\ deployment'.tokens = "set"
    <3>1. Passed(i, "scope_token")' =>
             Passed(i, "scope_token") \/ ("scope_token" = gate /\ Granted(i, gate))
      BY <2>a
    <3> QED
      BY <1>1, <1>3, <3>1 DEF PrivilegeInv, Privileges, Granted
  <2>4. Passed(i, "auth")' => Accepted(calls[i].credential)
    <3>1. Passed(i, "auth")' => Passed(i, "auth") \/ ("auth" = gate /\ Granted(i, gate))
      BY <2>a
    <3> QED
      BY <3>1 DEF PrivilegeInv, Privileges, Granted
  <2>5. Passed(i, "role")' =>
            ParseRole(calls'[i].role) \in AllowedRoles(calls'[i].route)
    <3>1. Passed(i, "role")' => Passed(i, "role") \/ ("role" = gate /\ Granted(i, gate))
      BY <2>a
    <3> QED
      BY <1>3, <3>1 DEF PrivilegeInv, Privileges, Granted
  <2>6. ASSUME Served(i)'
        PROVE  calls'[i].status # 0 /\ Chain(calls[i].route)'[calls'[i].at] = "handler"
    <3>1. ~Served(i)
      BY <1>1 DEF At, PrivilegeInv, Privileges
    <3>2. calls'[i].did # calls[i].did
      BY <2>6, <3>1, Zenon DEF Served
    <3> QED
      BY <1>1, <1>3, <1>5, <3>2 DEF At, Chain
  <2> QED
    BY <1>1, <1>3, <2>3, <2>4, <2>5, <2>6 DEF Accepted
<1>9. deployment'.tokens \in {"set", "random", "blank"}
  BY <1>1 DEF PrivilegeInv
<1> QED
  BY <1>3, <1>4, <1>7, <1>8, <1>9 DEF PrivilegeInv, Privileges

LEMMA PrivilegesInitially == GateInit => PrivilegeInv
<1> SUFFICES ASSUME GateInit PROVE PrivilegeInv
  OBVIOUS
<1>1. PICK w \in Workloads :
         /\ deployment = w.in
         /\ calls = [i \in DOMAIN w.of |->
                       LET sent == w.of[i] IN
                       [route |-> sent.route, client |-> sent.client,
                        credential |-> sent.credential, role |-> sent.role,
                        token |-> sent.token, key |-> sent.key, body |-> sent.body,
                        flaw |-> sent.flaw, at |-> 1, user |-> FALSE, status |-> 0,
                        by |-> "", boundAt |-> 0, answer |-> NoCall, did |-> ""]]
  BY DEF GateInit
<1>2. /\ calls = [i \in DOMAIN calls |-> calls[i]]
      /\ \A i \in DOMAIN calls : calls[i].at = 1 /\ ~Served(i)
  BY <1>1, Zenon DEF Served
<1>3. \A i \in DOMAIN calls : calls[i] = [f \in CallFields |-> calls[i][f]]
  BY <1>1 DEF CallFields
<1>4. \A i \in DOMAIN calls : calls[i].at \in DOMAIN Chain(calls[i].route)
  <2>1. \A route : 1 \in DOMAIN Chain(route)
    BY ChainEnds
  <2> QED
    BY <1>2, <2>1
<1>5. ASSUME NEW i \in DOMAIN calls, NEW gate PROVE ~Passed(i, gate)
  <2>1. calls[i].at = 1
    BY <1>2
  <2> QED
    BY <2>1 DEF Passed
<1>6. deployment.tokens \in {"set", "random", "blank"}
  BY <1>1, GateAssumption
<1> QED
  BY <1>2, <1>3, <1>4, <1>5, <1>6 DEF PrivilegeInv, CallsOK, Privileges

LEMMA PrivilegesPreserved == PrivilegeInv /\ [GateNext]_gateVars => PrivilegeInv'
<1> SUFFICES ASSUME PrivilegeInv, [GateNext]_gateVars PROVE PrivilegeInv'
  OBVIOUS
<1>1. CASE GateNext /\ ~GateTick
  BY <1>1, StepCases, PrivilegesStep DEF PrivilegeInv
<1>2. CASE GateTick \/ UNCHANGED gateVars
  <2>1. UNCHANGED <<calls, deployment>>
    BY <1>2 DEF GateTick, gateVars
  <2>2. \A route : Chain(route)' = Chain(route)
    BY <2>1 DEF Chain
  <2>3. CallsOK'
    BY <2>1, <2>2 DEF PrivilegeInv, CallsOK
  <2>4. \A i, gate : Passed(i, gate)' <=> Passed(i, gate)
    BY <2>1, PassedOthers
  <2>5. Privileges'
    <3>1. \A i : Served(i)' <=> Served(i)
      BY <2>1, Zenon DEF Served
    <3> QED
      BY <2>1, <2>2, <2>4, <3>1 DEF PrivilegeInv, Privileges, Accepted
  <2> QED
    BY <2>1, <2>3, <2>5 DEF PrivilegeInv
<1> QED
  BY <1>1, <1>2

(***************************************************************************)
(* The comment on /v1/compliance, "BOTH the service token AND an           *)
(* authenticated principal holding a privileged role", for any number of   *)
(* concurrent calls in any deployment: the chain of these routes (api/     *)
(* router.go) has the three gates before the handler, and no call skips    *)
(* one.                                                                    *)
(***************************************************************************)
THEOREM AdminGuarded == GateSpec => []AdminNeedsBoth
<1>1. ASSUME PrivilegeInv PROVE AdminNeedsBoth
  <2> SUFFICES ASSUME NEW i \in DOMAIN calls, Served(i),
                      calls[i].route \in ComplianceRoutes \cup AdminRoutes
               PROVE  /\ calls[i].token = "right" /\ deployment.tokens = "set"
                      /\ Accepted(calls[i].credential)
                      /\ calls[i].role \in AllowedRoles(calls[i].route)
    BY Zenon DEF AdminNeedsBoth, Served
  <2> DEFINE c == Chain(calls[i].route)
  <2>1. /\ DOMAIN c = 1..8 /\ \A k \in 1..7 : c[k] # "handler"
        /\ c[5] = "scope_token" /\ c[6] = "auth" /\ c[7] = "role"
    BY AdminChain
  <2>2. c[calls[i].at] = "handler" /\ calls[i].at \in DOMAIN c
    BY <1>1 DEF PrivilegeInv, Privileges, CallsOK
  <2> HIDE DEF c
  <2>3. calls[i].at = 8
    <3>1. calls[i].at \in 1..8 /\ calls[i].at \notin 1..7
      BY <2>1, <2>2
    <3> QED
      BY <3>1
  <2>4. Passed(i, "scope_token") /\ Passed(i, "auth") /\ Passed(i, "role")
    <3>1. \A gate : Passed(i, gate) <=> \E k \in 1..7 : c[k] = gate
      BY <2>3 DEF Passed, c
    <3>2. 5 \in 1..7 /\ 6 \in 1..7 /\ 7 \in 1..7
      OBVIOUS
    <3> QED
      BY <2>1, <3>1, <3>2
  <2>5. ParseRole(calls[i].role) \in AllowedRoles(calls[i].route)
    BY <1>1, <2>4 DEF PrivilegeInv, Privileges
  <2>6. calls[i].role \in AllowedRoles(calls[i].route)
    BY <2>5 DEF ParseRole, AllowedRoles
  <2> QED
    BY <1>1, <2>4, <2>6 DEF PrivilegeInv, Privileges
<1> QED
  BY <1>1, PrivilegesInitially, PrivilegesPreserved, PTL DEF GateSpec

-----------------------------------------------------------------------------
(***************************************************************************)
(* Handlers that ask for the user.  A route without Auth leads to a handler*)
(* that does not, as every table of handlers shows; on the others Auth has *)
(* left the user before the handler is reached.                            *)
(***************************************************************************)
\* The routes without Auth.
PublicRoutes ==
    SystemRoutes \cup KeyRoutes \cup DevRoutes \cup CredentialRoutes \cup RegisterRoutes
    \cup InternalRoutes \cup RiskValidationRoutes

\* What holds of every table of handlers.
PublicNeedsNone(t) ==
    \A r \in DOMAIN t \cap PublicRoutes : t[r].user => r = "oauthAuthorize"

LEMMA MergedEntry ==
    ASSUME NEW groups, NEW h \in DOMAIN Merged(groups)
    PROVE  \E t \in groups : h \in DOMAIN t /\ Merged(groups)[h] = t[h]
<1> DEFINE of(x) == CHOOSE t \in groups : x \in DOMAIN t
<1>1. /\ DOMAIN Merged(groups) = UNION {DOMAIN t : t \in groups}
      /\ Merged(groups)[h] = of(h)[h]
  BY DEF Merged
<1>2. \E t \in groups : h \in DOMAIN t
  BY <1>1
<1>3. of(h) \in groups /\ h \in DOMAIN of(h)
  BY <1>2
<1> QED
  BY <1>1, <1>3

LEMMA MergedPublic ==
    ASSUME NEW groups, \A t \in groups : PublicNeedsNone(t)
    PROVE  PublicNeedsNone(Merged(groups))
<1> SUFFICES ASSUME NEW r \in DOMAIN Merged(groups), r \in PublicRoutes,
                    Merged(groups)[r].user
             PROVE  r = "oauthAuthorize"
  BY Zenon DEF PublicNeedsNone
<1>1. PICK t \in groups : r \in DOMAIN t /\ Merged(groups)[r] = t[r]
  BY MergedEntry
<1> QED
  BY <1>1, Zenon DEF PublicNeedsNone

LEMMA OpenPublic ==
    ASSUME NEW names
    PROVE  PublicNeedsNone(Open(names)) /\ PublicNeedsNone(OpenBody(names))
BY DEF PublicNeedsNone, Open, OpenBody

LEMMA UserPublic ==
    ASSUME NEW names, names \cap PublicRoutes \subseteq {"oauthAuthorize"}
    PROVE  PublicNeedsNone(User(names)) /\ PublicNeedsNone(UserBody(names))
BY DEF PublicNeedsNone, User, UserBody

LEMMA HandlersPublic == PublicNeedsNone(Handlers)
<1> USE OpenPublic, UserPublic, MergedPublic
    DEF PublicRoutes, SystemRoutes, KeyRoutes, DevRoutes, CredentialRoutes, RegisterRoutes,
        InternalRoutes, RiskValidationRoutes
<1>1. PublicNeedsNone(AssetHandlers)
  BY DEF AssetHandlers
<1>2. PublicNeedsNone(NudgeAndNotificationHandlers)
  BY DEF NudgeAndNotificationHandlers
<1>3. PublicNeedsNone(SystemHandlers)
  BY DEF SystemHandlers
<1>4. PublicNeedsNone(KeyHandlers)
  BY DEF KeyHandlers
<1>5. PublicNeedsNone(OnboardingHandlers)
  BY DEF OnboardingHandlers
<1>6. PublicNeedsNone(PinAndOAuthHandlers)
  BY DEF PinAndOAuthHandlers
<1>7. PublicNeedsNone(ProfileAndAccountHandlers)
  BY DEF ProfileAndAccountHandlers
<1>8. PublicNeedsNone(BeneficiaryAndAIHandlers)
  BY DEF BeneficiaryAndAIHandlers
<1>9. PublicNeedsNone(BankAndTransactionHandlers)
  BY DEF BankAndTransactionHandlers
<1>10. PublicNeedsNone(PaymentAndGoalHandlers)
  BY DEF PaymentAndGoalHandlers
<1>11. PublicNeedsNone(PortfolioHandlers)
  BY DEF PortfolioHandlers
<1>12. PublicNeedsNone(SecurityAndTaxHandlers)
  BY DEF SecurityAndTaxHandlers
<1>13. PublicNeedsNone(ConsentHandlers)
  BY DEF ConsentHandlers
<1>14. PublicNeedsNone(SettingsAndAuditHandlers)
  BY DEF SettingsAndAuditHandlers
<1>15. PublicNeedsNone(PublicConsentHandler)
  BY DEF PublicConsentHandler
<1>16. PublicNeedsNone(ValidateRiskHandler)
  BY DEF ValidateRiskHandler
<1>17. PublicNeedsNone(ExpandedAuthedRoutes)
  BY DEF ExpandedAuthedRoutes
<1>18. PublicNeedsNone(UnauthedExpanded)
  BY DEF UnauthedExpanded
<1> QED
  BY <1>1, <1>2, <1>3, <1>4, <1>5, <1>6, <1>7, <1>8, <1>9, <1>10, <1>11, <1>12, <1>13, <1>14, <1>15, <1>16, <1>17, <1>18 DEF Handlers

\* A route with no gate for users is one of the routes there are.
LEMMA PublicRouted == PublicRoutes \subseteq DOMAIN Handlers
<1>1. \A groups : \A t \in groups : DOMAIN t \subseteq DOMAIN Merged(groups)
  BY DEF Merged
<1>2. ASSUME NEW names
      PROVE  DOMAIN Open(names) = names /\ DOMAIN OpenBody(names) = names
  BY DEF Open, OpenBody
<1>3. /\ DOMAIN SystemHandlers \subseteq DOMAIN Handlers
      /\ DOMAIN KeyHandlers \subseteq DOMAIN Handlers
      /\ DOMAIN OnboardingHandlers \subseteq DOMAIN Handlers
      /\ DOMAIN PinAndOAuthHandlers \subseteq DOMAIN Handlers
      /\ DOMAIN PublicConsentHandler \subseteq DOMAIN Handlers
      /\ DOMAIN ValidateRiskHandler \subseteq DOMAIN Handlers
      /\ DOMAIN UnauthedExpanded \subseteq DOMAIN Handlers
  BY <1>1 DEF Handlers
<1>4. SystemRoutes \cup RiskValidationRoutes \subseteq DOMAIN Handlers
  <2>1. "metrics" \in DOMAIN SystemHandlers
    BY <1>2 DEF SystemHandlers
  <2>2. "consent_pp_status" \in DOMAIN UnauthedExpanded
    BY <1>1, <1>2 DEF UnauthedExpanded
  <2>3. "setPublicPrivacyConsent" \in DOMAIN PublicConsentHandler
    BY <1>2 DEF PublicConsentHandler
  <2>4. "validateRisk" \in DOMAIN ValidateRiskHandler
    BY <1>2 DEF ValidateRiskHandler
  <2> QED
    BY <1>3, <2>1, <2>2, <2>3, <2>4 DEF SystemRoutes, RiskValidationRoutes
<1>5. KeyRoutes \subseteq DOMAIN KeyHandlers
  BY <1>1, <1>2 DEF KeyHandlers, KeyRoutes
<1>6. DevRoutes \subseteq DOMAIN SystemHandlers \cup DOMAIN PinAndOAuthHandlers
  BY <1>1, <1>2 DEF SystemHandlers, PinAndOAuthHandlers, DevRoutes
<1>7. CredentialRoutes \ {"oauthAuthorize"} \subseteq
          DOMAIN UnauthedExpanded \cup DOMAIN OnboardingHandlers \cup DOMAIN PinAndOAuthHandlers
  BY <1>1, <1>2 DEF UnauthedExpanded, OnboardingHandlers, PinAndOAuthHandlers, CredentialRoutes
<1>8. "oauthAuthorize" \in DOMAIN PinAndOAuthHandlers
  BY <1>1 DEF PinAndOAuthHandlers, UserBody
<1>9. RegisterRoutes \subseteq DOMAIN OnboardingHandlers
  BY <1>1, <1>2 DEF OnboardingHandlers, RegisterRoutes
<1>10. InternalRoutes \subseteq DOMAIN UnauthedExpanded
  BY <1>1, <1>2 DEF UnauthedExpanded, InternalRoutes
<1> QED
  BY <1>3, <1>4, <1>5, <1>6, <1>7, <1>8, <1>9, <1>10 DEF PublicRoutes

LEMMA StartsAlike ==
    ASSUME NEW s \in Seq(GateNames), NEW t \in Seq(GateNames), Len(s) >= 3,
           s[1] = "auth"
    PROVE  /\ s \o t \in Seq(GateNames) /\ Len(s \o t) \in Nat /\ Len(s \o t) >= 3
           /\ (s \o t)[1] = "auth"
<1>1. Len(s) \in Nat /\ Len(t) \in Nat
  OBVIOUS
<1>2. s \o t \in Seq(GateNames) /\ Len(s \o t) = Len(s) + Len(t)
  BY ConcatProperties
<1>3. (s \o t)[1] = s[1]
  BY <1>1, ConcatProperties
<1> QED
  BY <1>1, <1>2, <1>3

LEMMA GroupAuth ==
    ASSUME NEW route, NEW chain, chain = FullChain(GroupChain(route))
    PROVE  chain[5] = "auth" /\ \A k \in 1..5 : chain[k] # "handler"
<1> DEFINE a == <<"auth", "pqc", "key">>
           b == IF route \in StepUpRoutes THEN <<"step_up">> ELSE << >>
           c == IF route \in CoolingOffRoutes THEN <<"cooling_off">> ELSE << >>
           ab == a \o b
           gates == GroupChain(route)
<1>1. a \in Seq(GateNames) /\ Len(a) = 3 /\ a[1] = "auth"
  BY DEF GateNames
<1>2. b \in Seq(GateNames) /\ c \in Seq(GateNames)
  <2>1. /\ << >> \in Seq(GateNames) /\ <<"step_up">> \in Seq(GateNames)
        /\ <<"cooling_off">> \in Seq(GateNames)
    BY DEF GateNames
  <2> QED
    BY <2>1, Zenon
<1>3. gates = ab \o c
  BY DEF GroupChain
<1> HIDE DEF a, b, c, gates
<1>4. ab \in Seq(GateNames) /\ Len(ab) \in Nat /\ Len(ab) >= 3 /\ ab[1] = "auth"
  <2>1. Len(a) >= 3
    BY <1>1
  <2> QED
    BY <1>1, <1>2, <2>1, StartsAlike, Zenon
<1> HIDE DEF ab
<1>5. gates \in Seq(GateNames) /\ Len(gates) \in Nat /\ Len(gates) >= 3 /\ gates[1] = "auth"
  BY <1>2, <1>3, <1>4, StartsAlike
<1>6. /\ \A k \in 1..4 : chain[k] # "handler"
      /\ \A k \in 1..Len(gates) : chain[k + 4] = gates[k]
  <2>1. gates = GroupChain(route)
    BY DEF gates
  <2> QED
    BY <1>5, <2>1, ChainEntries
<1>7. chain[5] = "auth"
  BY <1>5, <1>6
<1> QED
  BY <1>6, <1>7

\* Every other route has Auth among its gates.
LEMMA UserChain ==
    ASSUME NEW route, route \notin PublicRoutes
    PROVE  \E k \in 5..6 : /\ Chain(route)[k] = "auth"
                           /\ \A j \in 1..k : Chain(route)[j] # "handler"
<1>1. /\ route \notin SystemRoutes \cup KeyRoutes /\ route \notin DevRoutes
      /\ route \notin CredentialRoutes /\ route \notin RegisterRoutes
      /\ route \notin InternalRoutes \cup RiskValidationRoutes
  BY DEF PublicRoutes
<1>2. CASE route \in ComplianceRoutes \cup AdminRoutes
  <2>1. /\ \A k \in 1..7 : Chain(route)[k] # "handler"
        /\ Chain(route)[6] = "auth"
    BY <1>2, AdminChain
  <2> QED
    BY <2>1
<1>3. CASE route \notin ComplianceRoutes \cup AdminRoutes
  <2>1. Chain(route) = FullChain(GroupChain(route))
    BY <1>1, <1>3 DEF Chain, FullChain
  <2>2. Chain(route)[5] = "auth" /\ \A k \in 1..5 : Chain(route)[k] # "handler"
    BY <2>1, GroupAuth
  <2> QED
    BY <2>2
<1> QED
  BY <1>2, <1>3

Identified(i) == calls[i].user

\* A call behind Auth has a user, and a handler that answers 401 had none.
Users ==
    \A i \in DOMAIN calls :
        /\ Passed(i, "auth") => Identified(i)
        /\ Told(i) => Unidentified(i)

UserInv == PrivilegeInv /\ Users

\* What a step does to the user of its call.
UserStep(i, gate) ==
    /\ At(i, gate) /\ deployment' = deployment
    /\ ChangesOnly(i, {"at", "user", "status", "by", "boundAt", "answer", "did"})
    /\ \/ LetThrough(i, gate)
       \/ /\ calls'[i].at = calls[i].at /\ calls'[i].user = calls[i].user
          /\ Told(i)' => Unidentified(i)

LEMMA UserSteps ==
    ASSUME NEW i, (\E gate : PlainStep(i, gate)) \/ BindStep(i) \/ ServeStep(i)
    PROVE  \E gate : UserStep(i, gate)
<1> DEFINE all == {"at", "user", "status", "by", "boundAt", "answer", "did"}
<1>1. CASE \E gate : PlainStep(i, gate)
  <2>1. PICK gate : PlainStep(i, gate)
    BY <1>1
  <2>2. ChangesOnly(i, all)
    BY <2>1, ChangesWeaken DEF PlainStep
  <2> QED
    BY <2>1, <2>2, Zenon DEF PlainStep, UserStep, Answered
<1>2. CASE BindStep(i)
  <2>1. ChangesOnly(i, all)
    BY <1>2, ChangesWeaken DEF BindStep
  <2>2. calls'[i].status = calls[i].status /\ calls'[i].user = calls[i].user
    BY <1>2 DEF BindStep, ChangesOnly, CallFields
  <2>3. LetThrough(i, "key")
    BY <1>2, <2>2 DEF BindStep, LetThrough
  <2> QED
    BY <1>2, <2>1, <2>3, Zenon DEF BindStep, UserStep
<1>3. CASE ServeStep(i)
  <2>1. ChangesOnly(i, all)
    BY <1>3, ChangesWeaken DEF ServeStep
  <2>2. calls'[i].at = calls[i].at /\ calls'[i].user = calls[i].user
    BY <1>3 DEF ServeStep, ChangesOnly, CallFields
  <2>3. ~Told(i)'
    BY <1>3 DEF ServeStep, Told
  <2> QED
    BY <1>3, <2>1, <2>2, <2>3, Zenon DEF ServeStep, UserStep
<1> QED
  BY <1>1, <1>2, <1>3

LEMMA UsersStep ==
    ASSUME UserInv, NEW i \in DOMAIN calls, NEW gate, UserStep(i, gate)
    PROVE  Users'
<1>1. /\ At(i, gate) /\ deployment' = deployment /\ CallsOK
      /\ ChangesOnly(i, {"at", "user", "status", "by", "boundAt", "answer", "did"})
  BY DEF UserStep, UserInv, PrivilegeInv
<1>2. /\ DOMAIN calls' = DOMAIN calls /\ calls'[i].route = calls[i].route
      /\ calls'[i].flaw = calls[i].flaw
      /\ \A j \in DOMAIN calls : j # i => calls'[j] = calls[j]
  BY <1>1 DEF ChangesOnly, CallFields
<1>3. \A route : Chain(route)' = Chain(route)
  BY <1>1 DEF Chain
<1>4. ASSUME NEW j \in DOMAIN calls, j # i
      PROVE  (Passed(j, "auth")' => Identified(j)') /\ (Told(j)' => Unidentified(j)')
  <2>1. calls'[j] = calls[j] /\ (Passed(j, "auth")' <=> Passed(j, "auth"))
    BY <1>1, <1>2, <1>4, PassedOthers
  <2>2. Identified(j)' <=> Identified(j)
    BY <2>1, Zenon DEF Identified
  <2>3. (Told(j)' <=> Told(j)) /\ (Unidentified(j)' <=> Unidentified(j))
    BY <1>3, <2>1, Zenon DEF Told, Unidentified, Nameless
  <2> QED
    BY <2>1, <2>2, <2>3 DEF UserInv, Users
<1>5. Passed(i, "auth")' => Identified(i)'
  <2>1. calls[i].at \in Nat
    BY <1>1, ChainEnds DEF CallsOK
  <2>2. /\ calls'[i].at \in {calls[i].at, calls[i].at + 1}
        /\ calls'[i].at = calls[i].at + 1 => LetThrough(i, gate)
    <3>1. LetThrough(i, gate) \/ calls'[i].at = calls[i].at
      BY Zenon DEF UserStep
    <3>2. LetThrough(i, gate) => calls'[i].at = calls[i].at + 1
      BY Zenon DEF LetThrough
    <3>3. calls[i].at # calls[i].at + 1
      BY <2>1
    <3> QED
      BY <3>1, <3>2, <3>3
  <2>3. ASSUME Passed(i, "auth")'
        PROVE  Passed(i, "auth") \/ ("auth" = gate /\ LetThrough(i, gate))
    BY <1>1, <1>2, <2>2, <2>3, PassedSteps
  <2>4. CASE "auth" = gate /\ LetThrough(i, gate)
    BY <2>4, Zenon DEF LetThrough, Identified
  <2>5. CASE Passed(i, "auth")
    <3>1. Identified(i)
      BY <2>5 DEF UserInv, Users
    <3> QED
      BY <3>1, Zenon DEF UserStep, LetThrough, Identified
  <2> QED
    BY <2>3, <2>4, <2>5
<1>6. Told(i)' => Unidentified(i)'
  <2>1. CASE LetThrough(i, gate)
    BY <1>1, <2>1 DEF LetThrough, At, Told
  <2>2. CASE /\ calls'[i].at = calls[i].at /\ calls'[i].user = calls[i].user
             /\ Told(i)' => Unidentified(i)
    BY <1>2, <1>3, <2>2, Zenon DEF Unidentified, Nameless
  <2> QED
    BY <2>1, <2>2, Zenon DEF UserStep
<1> QED
  BY <1>2, <1>4, <1>5, <1>6 DEF Users

LEMMA UsersInitially == GateInit => UserInv
<1> SUFFICES ASSUME GateInit PROVE UserInv
  OBVIOUS
<1>1. \A i \in DOMAIN calls : calls[i].at = 1 /\ calls[i].status = 0
  <2>1. PICK w \in Workloads :
           calls = [i \in DOMAIN w.of |->
                      LET sent == w.of[i] IN
                      [route |-> sent.route, client |-> sent.client,
                       credential |-> sent.credential, role |-> sent.role,
                       token |-> sent.token, key |-> sent.key, body |-> sent.body,
                       flaw |-> sent.flaw, at |-> 1, user |-> FALSE, status |-> 0,
                       by |-> "", boundAt |-> 0, answer |-> NoCall, did |-> ""]]
    BY Zenon DEF GateInit
  <2> QED
    BY <2>1, Zenon
<1>2. ASSUME NEW i \in DOMAIN calls PROVE ~Passed(i, "auth") /\ ~Told(i)
  BY <1>1 DEF Passed, Told
<1> QED
  BY <1>2, PrivilegesInitially DEF UserInv, Users

LEMMA UsersPreserved == UserInv /\ [GateNext]_gateVars => UserInv'
<1> SUFFICES ASSUME UserInv, [GateNext]_gateVars PROVE UserInv'
  OBVIOUS
<1>1. PrivilegeInv'
  BY PrivilegesPreserved DEF UserInv
<1>2. CASE GateNext /\ ~GateTick
  BY <1>1, <1>2, StepCases, UserSteps, UsersStep DEF UserInv, PrivilegeInv
<1>3. CASE GateTick \/ UNCHANGED gateVars
  <2>1. calls' = calls /\ deployment' = deployment
    BY <1>3 DEF GateTick, gateVars
  <2>2. \A route : Chain(route)' = Chain(route)
    BY <2>1 DEF Chain
  <2>3. ASSUME NEW i
        PROVE  /\ (Passed(i, "auth")' <=> Passed(i, "auth"))
               /\ (Identified(i)' <=> Identified(i))
               /\ (Told(i)' <=> Told(i)) /\ (Unidentified(i)' <=> Unidentified(i))
    <3>1. Passed(i, "auth")' <=> Passed(i, "auth")
      BY <2>1, PassedOthers
    <3> QED
      BY <2>1, <2>2, <3>1, Zenon DEF Identified, Told, Unidentified, Nameless
  <2> QED
    BY <1>1, <2>1, <2>3 DEF UserInv, Users
<1> QED
  BY <1>2, <1>3

(***************************************************************************)
(* The handlers that ask for the user (userID, ok := ctxUserID; api/       *)
(* router.go) are those behind Auth, for any number of concurrent calls in *)
(* any deployment: no call with a good credential is told by a handler that*)
(* it is unauthorized, but by oauthAuthorize and, if its body names no     *)
(* account, by pinSet, which both ask for the user on a route without Auth.*)
(***************************************************************************)
THEOREM HandlersServed == GateSpec => []HandlersKnowTheirUser
<1>1. ASSUME UserInv PROVE HandlersKnowTheirUser
  <2> SUFFICES ASSUME NEW i \in DOMAIN calls, Told(i)
               PROVE  \/ calls[i].route = "oauthAuthorize"
                      \/ calls[i].route = "pinSet" /\ calls[i].flaw = "no_user_id"
    BY DEF HandlersKnowTheirUser, Told
  <2> DEFINE route == calls[i].route
  <2>1. /\ Chain(route)[calls[i].at] = "handler" /\ ~Identified(i)
        /\ calls[i].at \in DOMAIN Chain(route)
    <3>1. Unidentified(i)
      BY <1>1 DEF UserInv, Users
    <3> QED
      BY <1>1, <3>1 DEF Unidentified, Nameless, Identified, UserInv, PrivilegeInv, CallsOK
  <2>2. CASE route \notin PublicRoutes
    <3>1. PICK k \in 5..6 : /\ Chain(route)[k] = "auth"
                            /\ \A j \in 1..k : Chain(route)[j] # "handler"
      BY <2>2, UserChain
    <3>2. calls[i].at \in Nat /\ calls[i].at >= 1
      BY <2>1, ChainEnds
    <3>3. calls[i].at \notin 1..k
      BY <2>1, <3>1
    <3>4. k \in 1..(calls[i].at - 1)
      BY <3>2, <3>3
    <3>5. Passed(i, "auth")
      BY <3>1, <3>4 DEF Passed
    <3> QED
      BY <1>1, <2>1, <3>5 DEF UserInv, Users
  <2>3. CASE route \in PublicRoutes
    <3>1. (Handlers[route].user /\ route \in DOMAIN Handlers) \/ Nameless(i)
      BY <1>1, <2>3, PublicRouted, Zenon DEF UserInv, Users, Unidentified
    <3>2. CASE Nameless(i)
      BY <3>2, Zenon DEF Nameless
    <3>3. CASE Handlers[route].user /\ route \in DOMAIN Handlers
      BY <2>3, <3>3, HandlersPublic, Zenon DEF PublicNeedsNone
    <3> QED
      BY <3>1, <3>2, <3>3
  <2> QED
    BY <2>2, <2>3
<1> QED
  BY <1>1, UsersInitially, UsersPreserved, PTL DEF GateSpec

-----------------------------------------------------------------------------
(***************************************************************************)
(* Idempotency keys.  The edge binds a key to a body until it expires, the *)
(* service keeps a result under the key; the two tables age on their own.  *)
(*                                                                         *)
(* A call that was let through at the key gate was bound by the entry that *)
(* is there now, or by one that had ended when it was made.                *)
(***************************************************************************)
Bound(i) == calls[i].route \in KeyedRoutes /\ Passed(i, "key")

SeenOK ==
    /\ clock \in Nat
    /\ \A k \in DOMAIN seen : seen[k].expires \in Int
    /\ \A i \in DOMAIN calls : calls[i].boundAt \in Int

BindingsHold ==
    \A i \in DOMAIN calls : Bound(i) =>
        /\ KeyOf(i) \in DOMAIN seen
        /\ LET since == seen[KeyOf(i)].expires - KeyTTL IN
           \/ since = calls[i].boundAt /\ seen[KeyOf(i)].body = calls[i].body
           \/ since - calls[i].boundAt >= KeyTTL

Apart(i, j) ==
    \/ calls[i].boundAt - calls[j].boundAt >= KeyTTL
    \/ calls[j].boundAt - calls[i].boundAt >= KeyTTL

BodiesApart ==
    \A i, j \in DOMAIN calls :
        (Bound(i) /\ Bound(j) /\ KeyOf(i) = KeyOf(j) /\ calls[i].body # calls[j].body) =>
            Apart(i, j)

\* Contributions to a goal do not pass the key gate.
Paired(i, j) == calls[i].route = "contributeGoal" \/ (Bound(i) /\ Bound(j))

\* Results are those of calls under the key, which the edge has bound, too, if
\* they are payments.
ResultsOK ==
    \A k \in DOMAIN results :
        LET j == results[k].by IN
        j \in DOMAIN calls /\ KeyOf(j) = k /\ Paired(j, j)

AnswersOK ==
    \A i \in DOMAIN calls :
        LET j == calls[i].answer IN
        (j # NoCall /\ j # i) =>
            j \in DOMAIN calls /\ KeyOf(i) = KeyOf(j) /\ Paired(i, j)

KeyInv == SeenOK /\ BindingsHold /\ BodiesApart /\ ResultsOK /\ AnswersOK

\* A step that binds nothing and stores nothing.
LEMMA KeysPlain ==
    ASSUME PrivilegeInv, KeyInv, NEW i \in DOMAIN calls, NEW gate, PlainStep(i, gate)
    PROVE  KeyInv'
<1>1. /\ At(i, gate) /\ ChangesOnly(i, {"at", "user", "status", "by"})
      /\ UNCHANGED <<deployment, seen, results, clock>> /\ CallsOK
  BY DEF PlainStep, PrivilegeInv
<1>2. /\ DOMAIN calls' = DOMAIN calls
      /\ \A j \in DOMAIN calls :
            /\ calls'[j].route = calls[j].route /\ calls'[j].key = calls[j].key
            /\ calls'[j].body = calls[j].body /\ calls'[j].boundAt = calls[j].boundAt
            /\ calls'[j].answer = calls[j].answer
      /\ \A j \in DOMAIN calls : j # i => calls'[j] = calls[j]
  BY <1>1 DEF ChangesOnly, CallFields
<1>3. \A j \in DOMAIN calls : KeyOf(j)' = KeyOf(j)
  BY <1>2 DEF KeyOf
<1>4. ASSUME NEW j \in DOMAIN calls PROVE Bound(j)' => Bound(j)
  <2>1. CASE j # i
    BY <1>1, <1>2, <2>1, PassedOthers DEF Bound
  <2>2. CASE j = i
    <3>1. Passed(i, "key")' =>
             Passed(i, "key") \/ ("key" = gate /\ calls'[i].at = calls[i].at + 1)
      BY <1>1, <1>2, PassedSteps, PlainMoves DEF PlainStep
    <3>2. calls[i].at # calls[i].at + 1
      BY <1>1, ChainEnds DEF CallsOK
    <3>3. "key" = gate /\ calls'[i].at = calls[i].at + 1 => calls[i].route \notin KeyedRoutes
      BY <3>2, PlainMoves DEF Granted
    <3> QED
      BY <1>2, <2>2, <3>1, <3>3 DEF Bound
  <2> QED
    BY <2>1, <2>2
<1>5. ASSUME NEW j \in DOMAIN calls, Bound(j) PROVE Bound(j)'
  <2>1. CASE j # i
    BY <1>1, <1>2, <1>5, <2>1, PassedOthers DEF Bound
  <2>2. CASE j = i
    <3>1. /\ calls[i].at \in Nat
          /\ calls'[i].at = calls[i].at \/ calls'[i].at = calls[i].at + 1
      <4>1. calls[i].at \in Nat
        BY <1>1, ChainEnds DEF CallsOK
      <4> QED
        BY <4>1, PlainMoves
    <3>2. PICK k \in 1..(calls[i].at - 1) : Chain(calls[i].route)[k] = "key"
      BY <1>5, <2>2 DEF Bound, Passed
    <3>3. k \in 1..(calls'[i].at - 1)
      BY <3>1, <3>2
    <3>4. Chain(calls[i].route)'[k] = "key"
      BY <1>1, <1>2, <3>2 DEF Chain
    <3> QED
      BY <1>2, <1>5, <2>2, <3>3, <3>4 DEF Bound, Passed
  <2> QED
    BY <2>1, <2>2
<1>6. SeenOK' /\ BindingsHold'
  BY <1>1, <1>2, <1>3, <1>4 DEF KeyInv, SeenOK, BindingsHold
<1>7. BodiesApart'
  BY <1>2, <1>3, <1>4 DEF KeyInv, BodiesApart, Apart
<1>8. ResultsOK'
  BY <1>1, <1>2, <1>3, <1>5 DEF KeyInv, ResultsOK, Paired
<1>9. AnswersOK'
  BY <1>2, <1>3, <1>5 DEF KeyInv, AnswersOK, Paired
<1> QED
  BY <1>6, <1>7, <1>8, <1>9 DEF KeyInv

\* RequireIdempotency lets a keyed call through: its entry is the one there
\* is, or begins now, when the one before it has ended.
LEMMA KeysBind ==
    ASSUME PrivilegeInv, KeyInv, NEW i \in DOMAIN calls, BindStep(i)
    PROVE  KeyInv'
<1> DEFINE e == Entry(i)
<1>1. /\ At(i, "key") /\ ChangesOnly(i, {"at", "boundAt"}) /\ e.body = calls[i].body
      /\ calls'[i].boundAt = e.expires - KeyTTL
      /\ calls'[i].at = calls[i].at + 1
      /\ seen' = Assigned(seen, KeyOf(i), e)
      /\ UNCHANGED <<deployment, results, clock>> /\ CallsOK
  BY DEF BindStep, PrivilegeInv
<1>2. /\ DOMAIN calls' = DOMAIN calls
      /\ \A j \in DOMAIN calls :
            /\ calls'[j].route = calls[j].route /\ calls'[j].key = calls[j].key
            /\ calls'[j].body = calls[j].body /\ calls'[j].answer = calls[j].answer
      /\ \A j \in DOMAIN calls : j # i => calls'[j] = calls[j]
  BY <1>1 DEF ChangesOnly, CallFields
<1>3. \A j \in DOMAIN calls : KeyOf(j)' = KeyOf(j)
  BY <1>2 DEF KeyOf
<1>4. ASSUME NEW j \in DOMAIN calls, Bound(j)' PROVE Bound(j) \/ j = i
  BY <1>1, <1>2, <1>4, PassedOthers DEF Bound
<1>5. ASSUME NEW j \in DOMAIN calls, Bound(j) PROVE Bound(j)'
  <2>1. CASE j # i
    BY <1>1, <1>2, <1>5, <2>1, PassedOthers DEF Bound
  <2>2. CASE j = i
    <3>1. calls[i].at \in Nat
      BY <1>1, ChainEnds DEF CallsOK
    <3>2. PICK k \in 1..(calls[i].at - 1) : Chain(calls[i].route)[k] = "key"
      BY <1>5, <2>2 DEF Bound, Passed
    <3>3. k \in 1..(calls'[i].at - 1)
      BY <1>1, <3>1, <3>2
    <3>4. Chain(calls[i].route)'[k] = "key"
      BY <1>1, <1>2, <3>2 DEF Chain
    <3> QED
      BY <1>2, <1>5, <2>2, <3>3, <3>4 DEF Bound, Passed
  <2> QED
    BY <2>1, <2>2
<1>6. /\ DOMAIN seen' = DOMAIN seen \cup {KeyOf(i)} /\ seen'[KeyOf(i)] = e
      /\ \A k \in DOMAIN seen : k # KeyOf(i) => seen'[k] = seen[k]
  BY <1>1 DEF Assigned
<1>7. /\ KeyTTL \in Nat /\ clock \in Nat
      /\ Live(i) => e = seen[KeyOf(i)] /\ KeyOf(i) \in DOMAIN seen
      /\ ~Live(i) => e.expires = clock + KeyTTL
      /\ ~Live(i) /\ KeyOf(i) \in DOMAIN seen => clock >= seen[KeyOf(i)].expires
      /\ e.expires \in Int
  BY GateAssumption DEF Entry, Live, KeyInv, SeenOK
<1> HIDE DEF e
<1>8. SeenOK'
  BY <1>1, <1>2, <1>6, <1>7 DEF KeyInv, SeenOK
<1>9. ASSUME NEW j \in DOMAIN calls, Bound(j), KeyOf(j) = KeyOf(i)
      PROVE  \/ calls'[i].boundAt = calls[j].boundAt /\ e.body = calls[j].body
             \/ calls'[i].boundAt - calls[j].boundAt >= KeyTTL
  <2>1. /\ KeyOf(i) \in DOMAIN seen /\ calls[j].boundAt \in Int
        /\ seen[KeyOf(i)].expires \in Int
        /\ \/ /\ seen[KeyOf(i)].expires - KeyTTL = calls[j].boundAt
              /\ seen[KeyOf(i)].body = calls[j].body
           \/ seen[KeyOf(i)].expires - KeyTTL - calls[j].boundAt >= KeyTTL
    BY <1>9 DEF KeyInv, BindingsHold, SeenOK
  <2>2. CASE Live(i)
    BY <1>1, <1>7, <2>1, <2>2
  <2>3. CASE ~Live(i)
    BY <1>1, <1>7, <2>1, <2>3
  <2> QED
    BY <2>2, <2>3
<1>10. BindingsHold'
  <2> SUFFICES ASSUME NEW j \in DOMAIN calls, Bound(j)'
               PROVE  /\ KeyOf(j) \in DOMAIN seen'
                      /\ \/ /\ seen'[KeyOf(j)].expires - KeyTTL = calls'[j].boundAt
                            /\ seen'[KeyOf(j)].body = calls'[j].body
                         \/ seen'[KeyOf(j)].expires - KeyTTL - calls'[j].boundAt >= KeyTTL
    BY <1>2, <1>3 DEF BindingsHold
  <2>1. CASE j = i
    BY <1>1, <1>2, <1>6, <2>1
  <2>2. CASE j # i /\ KeyOf(j) = KeyOf(i)
    <3>1. Bound(j) /\ calls'[j] = calls[j]
      BY <1>2, <1>4, <2>2
    <3> QED
      BY <1>1, <1>6, <1>9, <2>2, <3>1
  <2>3. CASE j # i /\ KeyOf(j) # KeyOf(i)
    <3>1. Bound(j) /\ calls'[j] = calls[j]
      BY <1>2, <1>4, <2>3
    <3> QED
      BY <1>6, <2>3, <3>1 DEF KeyInv, BindingsHold
  <2> QED
    BY <2>1, <2>2, <2>3
<1>11. BodiesApart'
  <2>1. ASSUME NEW j \in DOMAIN calls, j # i, Bound(j)', KeyOf(j) = KeyOf(i),
               calls'[j].body # calls'[i].body
        PROVE  calls'[i].boundAt - calls'[j].boundAt >= KeyTTL
    BY <1>1, <1>2, <1>4, <1>9, <2>1
  <2>2. ASSUME NEW j \in DOMAIN calls, NEW k \in DOMAIN calls, j # i, k # i, Bound(j)',
               Bound(k)', KeyOf(j) = KeyOf(k), calls'[j].body # calls'[k].body
        PROVE  Apart(j, k)'
    BY <1>2, <1>4, <2>2 DEF KeyInv, BodiesApart, Apart
  <2> QED
    BY <1>2, <1>3, <2>1, <2>2 DEF BodiesApart, Apart
<1>12. ResultsOK'
  BY <1>1, <1>2, <1>3, <1>5 DEF KeyInv, ResultsOK, Paired
<1>13. AnswersOK'
  BY <1>2, <1>3, <1>5 DEF KeyInv, AnswersOK, Paired
<1> QED
  BY <1>8, <1>10, <1>11, <1>12, <1>13 DEF KeyInv

LEMMA KeepsRoutes ==
    ASSUME NEW i, Keeps(i)
    PROVE  calls[i].route = "initiateTransaction" \/ calls[i].route = "contributeGoal"
BY Zenon DEF Keeps

\* The handler: a payment it stores or answers with was bound under its key.
LEMMA KeysServe ==
    ASSUME PrivilegeInv, KeyInv, NEW i \in DOMAIN calls, ServeStep(i)
    PROVE  KeyInv'
<1>1. /\ At(i, "handler") /\ ChangesOnly(i, {"status", "by", "answer", "did"})
      /\ calls'[i].answer = IF Cached(i) THEN results[KeyOf(i)].by ELSE i
      /\ results' = IF Keeps(i) /\ ~Cached(i)
                    THEN Assigned(results, KeyOf(i), [by |-> i, expires |-> clock + KeyTTL])
                    ELSE results
      /\ UNCHANGED <<deployment, seen, clock>> /\ CallsOK
  BY DEF ServeStep, PrivilegeInv
<1>2. /\ DOMAIN calls' = DOMAIN calls
      /\ \A j \in DOMAIN calls :
            /\ calls'[j].route = calls[j].route /\ calls'[j].key = calls[j].key
            /\ calls'[j].body = calls[j].body /\ calls'[j].boundAt = calls[j].boundAt
            /\ calls'[j].at = calls[j].at
      /\ \A j \in DOMAIN calls : j # i => calls'[j] = calls[j]
  BY <1>1 DEF ChangesOnly, CallFields
<1>3. \A j \in DOMAIN calls : KeyOf(j)' = KeyOf(j)
  BY <1>2 DEF KeyOf
<1>4. \A j \in DOMAIN calls : Bound(j)' <=> Bound(j)
  BY <1>1, <1>2 DEF Bound, Passed, Chain
<1>5. SeenOK' /\ BindingsHold'
  BY <1>1, <1>2, <1>3, <1>4 DEF KeyInv, SeenOK, BindingsHold
<1>6. BodiesApart'
  BY <1>2, <1>3, <1>4 DEF KeyInv, BodiesApart, Apart
<1>7. Keeps(i) => Paired(i, i)
  <2> SUFFICES ASSUME calls[i].route = "initiateTransaction"
               PROVE  Bound(i)
    BY KeepsRoutes DEF Paired
  <2>1. /\ calls[i].at \in 1..9 /\ calls[i].at \notin 1..8
        /\ Chain(calls[i].route)[7] = "key"
    BY <1>1, PayChain DEF CallsOK, At
  <2>2. calls[i].at = 9
    BY <2>1
  <2>3. 7 \in 1..(calls[i].at - 1)
    BY <2>2
  <2>4. Passed(i, "key")
    BY <2>1, <2>3 DEF Passed
  <2> QED
    BY <2>4 DEF Bound, KeyedRoutes
<1>8. ResultsOK'
  <2>1. CASE results' = results
    BY <1>2, <1>3, <1>4, <2>1 DEF KeyInv, ResultsOK, Paired
  <2>2. CASE results' # results
    <3>1. Keeps(i) /\ results' = Assigned(results, KeyOf(i), [by |-> i, expires |-> clock + KeyTTL])
      BY <1>1, <2>2
    <3>2. /\ DOMAIN results' = DOMAIN results \cup {KeyOf(i)}
          /\ results'[KeyOf(i)].by = i
          /\ \A k \in DOMAIN results : k # KeyOf(i) => results'[k] = results[k]
      BY <3>1 DEF Assigned
    <3> QED
      BY <1>2, <1>3, <1>4, <1>7, <3>1, <3>2 DEF KeyInv, ResultsOK, Paired
  <2> QED
    BY <2>1, <2>2
<1>9. AnswersOK'
  <2>1. ASSUME NEW j, j = calls'[i].answer, j # i
        PROVE  j \in DOMAIN calls /\ KeyOf(i) = KeyOf(j) /\ Paired(i, j)
    <3>1. Cached(i) /\ j = results[KeyOf(i)].by
      BY <1>1, <2>1
    <3>2. Keeps(i) /\ KeyOf(i) \in DOMAIN results
      BY <3>1 DEF Cached, Remembered, KeyOf
    <3>3. j \in DOMAIN calls /\ KeyOf(j) = KeyOf(i) /\ Paired(j, j)
      BY <3>1, <3>2 DEF KeyInv, ResultsOK
    <3>4. calls[j].route = calls[i].route
      BY <3>3 DEF KeyOf
    <3> QED
      BY <1>7, <3>2, <3>3, <3>4 DEF Paired
  <2>2. ASSUME NEW k \in DOMAIN calls, k # i, calls'[k].answer # NoCall, calls'[k].answer # k
        PROVE  /\ calls'[k].answer \in DOMAIN calls /\ Paired(k, calls'[k].answer)
               /\ KeyOf(k) = KeyOf(calls'[k].answer)
    BY <1>2, <2>2 DEF KeyInv, AnswersOK
  <2> SUFFICES ASSUME NEW k \in DOMAIN calls, NEW j, j = calls'[k].answer, j # NoCall, j # k
               PROVE  j \in DOMAIN calls /\ Paired(k, j)' /\ KeyOf(k)' = KeyOf(j)'
    BY <1>2 DEF AnswersOK
  <2> QED
    BY <1>2, <1>3, <1>4, <2>1, <2>2 DEF Paired
<1> QED
  BY <1>5, <1>6, <1>8, <1>9 DEF KeyInv

LEMMA KeysInitially == GateInit => KeyInv
<1> SUFFICES ASSUME GateInit PROVE KeyInv
  OBVIOUS
<1>1. PICK w \in Workloads :
         calls = [i \in DOMAIN w.of |->
                    LET sent == w.of[i] IN
                    [route |-> sent.route, client |-> sent.client,
                     credential |-> sent.credential, role |-> sent.role,
                     token |-> sent.token, key |-> sent.key, body |-> sent.body,
                     flaw |-> sent.flaw, at |-> 1, user |-> FALSE, status |-> 0,
                     by |-> "", boundAt |-> 0, answer |-> NoCall, did |-> ""]]
  BY DEF GateInit
<1>2. \A i \in DOMAIN calls :
         calls[i].at = 1 /\ calls[i].boundAt = 0 /\ calls[i].answer = NoCall
  BY <1>1, Zenon
<1>3. ASSUME NEW i \in DOMAIN calls PROVE ~Bound(i)
  <2>1. calls[i].at = 1
    BY <1>2
  <2> QED
    BY <2>1 DEF Bound, Passed
<1>4. seen = << >> /\ results = << >> /\ clock = 0
  BY DEF GateInit
<1> QED
  BY <1>2, <1>3, <1>4
  DEF KeyInv, SeenOK, BindingsHold, BodiesApart, ResultsOK, AnswersOK

LEMMA KeysPreserved ==
    PrivilegeInv /\ KeyInv /\ [GateNext]_gateVars => KeyInv'
<1> SUFFICES ASSUME PrivilegeInv, KeyInv, [GateNext]_gateVars PROVE KeyInv'
  OBVIOUS
<1>1. CASE GateNext /\ ~GateTick
  BY <1>1, StepCases, KeysPlain, KeysBind, KeysServe DEF PrivilegeInv
<1>2. CASE GateTick \/ UNCHANGED gateVars
  <2>1. UNCHANGED <<calls, deployment, seen, results>> /\ clock' \in Nat
    BY <1>2 DEF GateTick, gateVars, KeyInv, SeenOK
  <2>2. \A i : (Bound(i)' <=> Bound(i)) /\ KeyOf(i)' = KeyOf(i)
    BY <2>1, PassedOthers DEF Bound, KeyOf
  <2> QED
    BY <2>1, <2>2
    DEF KeyInv, SeenOK, BindingsHold, BodiesApart, Apart, ResultsOK, AnswersOK, Paired
<1> QED
  BY <1>1, <1>2

(***************************************************************************)
(* Idempotency at the edge and in the service together.  The service       *)
(* answers under a key whatever the body: no call is shown the result of   *)
(* another operation, no payment that of another body, unless the edge     *)
(* bound the key a second time a lifetime later.  Contributions, which do  *)
(* not pass the edge's check, are promised no more than their own key's.   *)
(* For any number of calls, whatever they send, and any lifetime of keys.  *)
(***************************************************************************)
THEOREM AnswersOwn == GateSpec => []AnswersMatchBody
<1>1. ASSUME KeyInv PROVE AnswersMatchBody
  <2> SUFFICES ASSUME NEW i \in DOMAIN calls, NEW j, j = calls[i].answer, j # NoCall, j # i
               PROVE  /\ calls[j].route = calls[i].route /\ calls[j].key = calls[i].key
                      /\ (calls[i].route # "contributeGoal" /\ calls[j].body # calls[i].body) =>
                            Apart(i, j)
    BY DEF AnswersMatchBody, Apart
  <2>1. j \in DOMAIN calls /\ KeyOf(i) = KeyOf(j) /\ Paired(i, j)
    BY <1>1 DEF KeyInv, AnswersOK
  <2>2. calls[j].route = calls[i].route /\ calls[j].key = calls[i].key
    BY <2>1 DEF KeyOf
  <2>3. (calls[i].route # "contributeGoal" /\ calls[j].body # calls[i].body) => Apart(i, j)
    BY <1>1, <2>1 DEF KeyInv, BodiesApart, Paired
  <2> QED
    BY <2>2, <2>3
<1> QED
  BY <1>1, PrivilegesInitially, PrivilegesPreserved, KeysInitially, KeysPreserved, PTL
  DEF GateSpec

-----------------------------------------------------------------------------
(***************************************************************************)
(* Guesses.  A fixed window starts with its first request, so a period of  *)
(* the window's length meets at most two windows, however it falls.        *)
(*                                                                         *)
(* G is what was admitted of one client, [start, count] its bucket.        *)
(***************************************************************************)
Between(G, from, to) == {a \in G : a[4] >= from /\ a[4] <= to}
From(G, from) == {a \in G : a[4] >= from}

WindowOK(G, start, count) ==
    /\ IsFiniteSet(G) /\ \A a \in G : a[4] \in Nat
    /\ start \in Nat /\ count \in Nat
    /\ \A a \in G : a[4] < start + Window
    /\ Cardinality(From(G, start)) <= count
    /\ Cardinality(From(G, start)) <= AuthLimit
    /\ \A t \in Int : t + Window > start =>
          Cardinality(Between(G, t, start - 1)) <= AuthLimit

PeriodsOK(G) ==
    \A t \in Int : Cardinality(Between(G, t, t + Window - 1)) <= 2 * AuthLimit

LEMMA PartsFinite ==
    ASSUME NEW G, IsFiniteSet(G), NEW H, H \subseteq G
    PROVE  IsFiniteSet(H) /\ Cardinality(H) \in Nat
BY FS_Subset, FS_CardinalityType

\* A refused request counts.
LEMMA Recounted ==
    ASSUME NEW G, NEW start, NEW count, WindowOK(G, start, count)
    PROVE  WindowOK(G, start, count + 1)
<1>1. From(G, start) \subseteq G
  BY DEF From
<1>2. Cardinality(From(G, start)) \in Nat
  BY <1>1, PartsFinite DEF WindowOK
<1>3. Cardinality(From(G, start)) <= count + 1 /\ count + 1 \in Nat
  BY <1>2 DEF WindowOK
<1> QED
  BY <1>3 DEF WindowOK

\* A window that has ended makes room for one that starts now.
LEMMA Restarted ==
    ASSUME NEW G, NEW now \in Nat,
           G = {} \/ \E start, count : WindowOK(G, start, count) /\ now - start >= Window
    PROVE  WindowOK(G, now, 0)
<1> USE GateAssumption
<1>1. CASE G = {}
  <2>1. /\ IsFiniteSet(G) /\ From(G, now) = {} /\ Cardinality({}) = 0
        /\ \A t : Between(G, t, now - 1) = {}
    BY <1>1, FS_EmptySet DEF From, Between
  <2> QED
    BY <1>1, <2>1 DEF WindowOK
<1>2. CASE \E start, count : WindowOK(G, start, count) /\ now - start >= Window
  <2>1. PICK start, count : WindowOK(G, start, count) /\ now - start >= Window
    BY <1>2
  <2>2. /\ IsFiniteSet(G) /\ start \in Nat /\ \A a \in G : a[4] \in Nat /\ a[4] < start + Window
        /\ Cardinality(From(G, start)) <= AuthLimit
    BY <2>1 DEF WindowOK
  <2>3. From(G, now) = {} /\ \A a \in G : a[4] < now + Window
    BY <2>1, <2>2 DEF From
  <2>4. ASSUME NEW t \in Int, t + Window > now
        PROVE  Cardinality(Between(G, t, now - 1)) <= AuthLimit
    <3>1. Between(G, t, now - 1) \subseteq From(G, start) /\ From(G, start) \subseteq G
      BY <2>1, <2>2, <2>4 DEF Between, From
    <3>2. /\ IsFiniteSet(From(G, start)) /\ Cardinality(From(G, start)) \in Nat
          /\ Cardinality(Between(G, t, now - 1)) \in Nat
          /\ Cardinality(Between(G, t, now - 1)) <= Cardinality(From(G, start))
      BY <2>2, <3>1, FS_Subset, FS_CardinalityType
    <3> QED
      BY <2>2, <3>2
  <2> QED
    BY <2>2, <2>3, <2>4, FS_EmptySet DEF WindowOK
<1> QED
  BY <1>1, <1>2

\* A request is admitted.
LEMMA AdmittedOne ==
    ASSUME NEW G, NEW start, NEW count, WindowOK(G, start, count), PeriodsOK(G),
           NEW x, x[4] \in Nat, x[4] >= start, x[4] < start + Window,
           count + 1 <= AuthLimit
    PROVE  WindowOK(G \cup {x}, start, count + 1) /\ PeriodsOK(G \cup {x})
<1> USE GateAssumption
<1> DEFINE H == G \cup {x}
<1>1. /\ IsFiniteSet(G) /\ start \in Nat /\ count \in Nat
      /\ \A a \in G : a[4] \in Nat /\ a[4] < start + Window
      /\ Cardinality(From(G, start)) <= count
      /\ \A t \in Int : t + Window > start =>
            Cardinality(Between(G, t, start - 1)) <= AuthLimit
  BY DEF WindowOK
<1>2. IsFiniteSet(H)
  BY <1>1, FS_AddElement
<1>3. From(G, start) \subseteq G /\ From(H, start) = From(G, start) \cup {x}
  BY DEF From
<1>4. /\ IsFiniteSet(From(G, start)) /\ Cardinality(From(G, start)) \in Nat
      /\ IsFiniteSet(From(H, start))
      /\ Cardinality(From(H, start)) <= Cardinality(From(G, start)) + 1
      /\ Cardinality(From(H, start)) \in Nat
  <2>1. IsFiniteSet(From(G, start)) /\ Cardinality(From(G, start)) \in Nat
    BY <1>1, <1>3, FS_Subset, FS_CardinalityType
  <2>2. /\ IsFiniteSet(From(G, start) \cup {x})
        /\ \/ Cardinality(From(G, start) \cup {x}) = Cardinality(From(G, start))
           \/ Cardinality(From(G, start) \cup {x}) = Cardinality(From(G, start)) + 1
    BY <2>1, FS_AddElement
  <2>3. Cardinality(From(H, start)) \in Nat /\ IsFiniteSet(From(H, start))
    BY <1>3, <2>2, FS_CardinalityType
  <2>4. \/ Cardinality(From(H, start)) = Cardinality(From(G, start))
        \/ Cardinality(From(H, start)) = Cardinality(From(G, start)) + 1
    BY <1>3, <2>2
  <2> HIDE DEF H
  <2> QED
    BY <2>1, <2>3, <2>4
<1>5. Cardinality(From(H, start)) <= count + 1 /\ Cardinality(From(H, start)) <= AuthLimit
  BY <1>1, <1>4
<1>6. \A t \in Int : Between(H, t, start - 1) = Between(G, t, start - 1)
  BY <1>1 DEF Between
<1>7. \A a \in H : a[4] \in Nat /\ a[4] < start + Window
  BY <1>1
<1>8. WindowOK(H, start, count + 1)
  BY <1>1, <1>2, <1>5, <1>6, <1>7 DEF WindowOK
<1>9. ASSUME NEW t \in Int
      PROVE  Cardinality(Between(H, t, t + Window - 1)) <= 2 * AuthLimit
  <2> DEFINE P == Between(H, t, t + Window - 1)
             T == Between(G, t, start - 1)
             F == From(H, start)
  <2>1. CASE t + Window <= start
    <3>1. P = Between(G, t, t + Window - 1)
      BY <1>1, <2>1 DEF Between
    <3> QED
      BY <3>1 DEF PeriodsOK
  <2>2. CASE t >= start
    <3>1. P \subseteq F
      BY <1>1, <1>7, <2>2 DEF Between, From
    <3>2. Cardinality(P) <= Cardinality(F) /\ Cardinality(P) \in Nat
      BY <1>4, <3>1, FS_Subset, FS_CardinalityType
    <3> HIDE DEF P, F
    <3>3. Cardinality(F) <= AuthLimit /\ Cardinality(F) \in Nat
      BY <1>4, <1>5 DEF F
    <3> QED
      BY <3>2, <3>3 DEF P
  <2>3. CASE t < start /\ t + Window > start
    <3>1. P \subseteq T \cup F /\ T \subseteq G
      BY <1>1, <1>6, <1>7, <2>3 DEF Between, From
    <3>2. /\ IsFiniteSet(T) /\ Cardinality(T) \in Nat
          /\ IsFiniteSet(F) /\ Cardinality(F) \in Nat
      BY <1>1, <1>4, <3>1, FS_Subset, FS_CardinalityType
    <3>3. Cardinality(T) <= AuthLimit /\ Cardinality(F) <= AuthLimit
      BY <1>1, <1>5, <2>3
    <3> HIDE DEF P, T, F
    <3>4. /\ IsFiniteSet(T \cup F) /\ Cardinality(T \cap F) \in Nat
          /\ Cardinality(T \cup F) = Cardinality(T) + Cardinality(F) - Cardinality(T \cap F)
      <4>1. IsFiniteSet(T \cap F)
        BY <3>2, FS_Subset
      <4> QED
        BY <3>2, <4>1, FS_Union, FS_CardinalityType
    <3>5. Cardinality(P) <= Cardinality(T \cup F) /\ Cardinality(P) \in Nat
      BY <3>1, <3>4, FS_Subset, FS_CardinalityType
    <3> QED
      BY <3>2, <3>3, <3>4, <3>5 DEF P
  <2> QED
    BY <1>1, <2>1, <2>2, <2>3
<1> QED
  BY <1>8, <1>9 DEF PeriodsOK

\* What the limiter of the credential endpoints let through of client c.
Guesses(c) == {a \in admitted : a[1] = "auth_limit" /\ a[2] = c}
GuessKey(c) == <<"auth_limit", c>>

BucketOK(c) ==
    /\ buckets[GuessKey(c)].start <= clock
    /\ WindowOK(Guesses(c), buckets[GuessKey(c)].start, buckets[GuessKey(c)].count)

GuessInv ==
    /\ clock \in Nat
    /\ \A c : /\ GuessKey(c) \in DOMAIN buckets => BucketOK(c)
              /\ GuessKey(c) \notin DOMAIN buckets => Guesses(c) = {}
              /\ PeriodsOK(Guesses(c))

LEMMA NoGuesses ==
    ASSUME NEW G, G = {}
    PROVE  PeriodsOK(G)
<1>1. \A t : Between(G, t, t + Window - 1) = {}
  BY DEF Between
<1>2. Cardinality({}) = 0
  BY FS_EmptySet
<1> QED
  BY <1>1, <1>2, GateAssumption DEF PeriodsOK

\* Steps that leave the client's bucket and guesses alone.
LEMMA GuessesOthers ==
    ASSUME GuessInv, NEW c, clock' \in Nat, clock' >= clock,
           GuessKey(c) \in DOMAIN buckets' <=> GuessKey(c) \in DOMAIN buckets,
           GuessKey(c) \in DOMAIN buckets => buckets'[GuessKey(c)] = buckets[GuessKey(c)],
           Guesses(c)' = Guesses(c)
    PROVE  /\ GuessKey(c) \in DOMAIN buckets' => BucketOK(c)'
           /\ GuessKey(c) \notin DOMAIN buckets' => Guesses(c)' = {}
           /\ PeriodsOK(Guesses(c))'
<1>1. PeriodsOK(Guesses(c))' <=> PeriodsOK(Guesses(c)')
  BY DEF PeriodsOK, Between
<1>2. ASSUME GuessKey(c) \in DOMAIN buckets PROVE BucketOK(c)'
  <2>1. BucketOK(c) /\ GuessKey(c)' = GuessKey(c)
    BY <1>2 DEF GuessInv, GuessKey
  <2>2. buckets[GuessKey(c)].start \in Nat
    BY <2>1 DEF BucketOK, WindowOK
  <2>3. buckets[GuessKey(c)].start <= clock'
    BY <2>1, <2>2 DEF BucketOK, GuessInv
  <2> QED
    BY <1>2, <2>1, <2>3 DEF BucketOK, WindowOK, From, Between
<1> QED
  BY <1>1, <1>2 DEF GuessInv

\* RateLimit, seen from the client whose call it is.
LEMMA GuessesLimit ==
    ASSUME GuessInv, NEW i \in DOMAIN calls, RateLimit(i, "auth_limit")
    PROVE  GuessInv'
<1> USE GateAssumption
<1>0. PICK c : c = calls[i].client
  OBVIOUS
<1> DEFINE live == GuessKey(c) \in DOMAIN buckets
                     /\ clock - buckets[GuessKey(c)].start < Window
           base == IF live THEN buckets[GuessKey(c)].count ELSE 0
           count == 1 + base
           start == IF live THEN buckets[GuessKey(c)].start ELSE clock
           x == <<"auth_limit", c, i, clock>>
<1>1. /\ buckets' = Assigned(buckets, GuessKey(c), [start |-> start, count |-> count])
      /\ clock' = clock
      /\ \/ count > AuthLimit /\ admitted' = admitted
         \/ ~(count > AuthLimit) /\ admitted' = admitted \cup {x}
  BY <1>0 DEF RateLimit, Limiter, LimitOf, GuessKey
<1>2. /\ clock \in Nat
      /\ GuessKey(c) \in DOMAIN buckets => BucketOK(c)
      /\ GuessKey(c) \notin DOMAIN buckets => Guesses(c) = {}
      /\ PeriodsOK(Guesses(c))
  BY DEF GuessInv
<1>3. WindowOK(Guesses(c), start, base) /\ start <= clock /\ clock < start + Window
  <2>1. CASE live
    <3>1. BucketOK(c) /\ buckets[GuessKey(c)].start \in Nat
      BY <1>2, <2>1 DEF BucketOK, WindowOK
    <3> QED
      BY <1>2, <2>1, <3>1 DEF BucketOK
  <2>2. CASE ~live
    <3>1. start = clock /\ base = 0
      BY <2>2
    <3>2. Guesses(c) = {} \/ \E s, n : WindowOK(Guesses(c), s, n) /\ clock - s >= Window
      <4>1. CASE GuessKey(c) \in DOMAIN buckets
        <5>1. BucketOK(c) /\ buckets[GuessKey(c)].start \in Nat
          BY <1>2, <4>1 DEF BucketOK, WindowOK
        <5>2. clock - buckets[GuessKey(c)].start >= Window
          BY <1>2, <2>2, <4>1, <5>1
        <5> QED
          BY <5>1, <5>2 DEF BucketOK
      <4> QED
        BY <1>2, <4>1
    <3> QED
      BY <1>2, <3>1, <3>2, Restarted
  <2> QED
    BY <2>1, <2>2
<1>4. base \in Nat /\ start \in Nat
  BY <1>3 DEF WindowOK
<1>5. /\ GuessKey(c) \in DOMAIN buckets'
      /\ buckets'[GuessKey(c)] = [start |-> start, count |-> count]
      /\ \A d : d # c =>
            /\ GuessKey(d) \in DOMAIN buckets' <=> GuessKey(d) \in DOMAIN buckets
            /\ GuessKey(d) \in DOMAIN buckets => buckets'[GuessKey(d)] = buckets[GuessKey(d)]
  <2> HIDE DEF start, count
  <2> QED
    BY <1>1 DEF Assigned, GuessKey
<1>6. /\ \A d : d # c => Guesses(d)' = Guesses(d)
      /\ count > AuthLimit => Guesses(c)' = Guesses(c)
      /\ ~(count > AuthLimit) => Guesses(c)' = Guesses(c) \cup {x}
  <2> HIDE DEF start, count
  <2> QED
    BY <1>1 DEF Guesses, x
<1>7. WindowOK(Guesses(c)', start, count) /\ PeriodsOK(Guesses(c)')
  <2>1. CASE count > AuthLimit
    <3>1. WindowOK(Guesses(c), start, base + 1)
      BY <1>3, Recounted
    <3>2. count = base + 1
      BY <1>4
    <3> QED
      BY <1>2, <1>6, <2>1, <3>1, <3>2
  <2>2. CASE ~(count > AuthLimit)
    <3> HIDE DEF start, base
    <3>1. base + 1 <= AuthLimit /\ base + 1 = count
      BY <1>4, <2>2
    <3>2. x[4] = clock
      OBVIOUS
    <3> HIDE DEF x, count
    <3>3. WindowOK(Guesses(c) \cup {x}, start, base + 1) /\ PeriodsOK(Guesses(c) \cup {x})
      BY <1>2, <1>3, <3>1, <3>2, AdmittedOne
    <3> QED
      BY <1>6, <2>2, <3>1, <3>3
  <2> QED
    BY <2>1, <2>2
<1> HIDE DEF start, count, x, base, live
<1>8. /\ GuessKey(c) \in DOMAIN buckets' /\ BucketOK(c)' /\ PeriodsOK(Guesses(c))'
  <2>1. buckets'[GuessKey(c)].start = start /\ buckets'[GuessKey(c)].count = count
    BY <1>5
  <2>2. WindowOK(Guesses(c)', buckets'[GuessKey(c)].start, buckets'[GuessKey(c)].count)
    BY <1>7, <2>1
  <2>3. buckets'[GuessKey(c)].start <= clock'
    BY <1>1, <1>3, <2>1
  <2>4. BucketOK(c)'
    BY <2>2, <2>3 DEF BucketOK, GuessKey, WindowOK, From, Between
  <2>5. PeriodsOK(Guesses(c))'
    BY <1>7 DEF PeriodsOK, Between
  <2> QED
    BY <1>5, <2>4, <2>5 DEF GuessKey
<1>9. ASSUME NEW d PROVE
         /\ GuessKey(d) \in DOMAIN buckets' => BucketOK(d)'
         /\ GuessKey(d) \notin DOMAIN buckets' => Guesses(d)' = {}
         /\ PeriodsOK(Guesses(d))'
  <2>1. CASE d = c
    BY <1>8, <2>1
  <2>2. CASE d # c
    BY <1>1, <1>2, <1>5, <1>6, <2>2, GuessesOthers
  <2> QED
    BY <2>1, <2>2
<1> QED
  BY <1>1, <1>2, <1>9 DEF GuessInv, GuessKey

LEMMA GuessesInitially == GateInit => GuessInv
<1> SUFFICES ASSUME GateInit PROVE GuessInv
  OBVIOUS
<1>0. clock = 0 /\ buckets = << >> /\ admitted = {}
  BY Zenon DEF GateInit
<1>1. clock = 0 /\ DOMAIN buckets = {} /\ admitted = {}
  BY <1>0
<1>2. \A c : Guesses(c) = {}
  BY <1>1 DEF Guesses
<1>3. \A c : PeriodsOK(Guesses(c))
  BY <1>2, NoGuesses
<1> QED
  BY <1>1, <1>2, <1>3 DEF GuessInv

LEMMA GuessesPreserved ==
    GuessInv /\ [GateNext]_gateVars => GuessInv'
<1> SUFFICES ASSUME GuessInv, [GateNext]_gateVars PROVE GuessInv'
  OBVIOUS
<1>1. CASE \E i \in DOMAIN calls : RateLimit(i, "auth_limit")
  BY <1>1, GuessesLimit
<1>2. ASSUME NEW i \in DOMAIN calls, NEW gate \in {"global_limit", "register_limit"},
             RateLimit(i, gate)
      PROVE  /\ clock' = clock
             /\ \A c : /\ GuessKey(c) \in DOMAIN buckets' <=> GuessKey(c) \in DOMAIN buckets
                       /\ GuessKey(c) \in DOMAIN buckets =>
                             buckets'[GuessKey(c)] = buckets[GuessKey(c)]
                       /\ Guesses(c)' = Guesses(c)
  <2>1. PICK start, count :
           /\ buckets' = Assigned(buckets, <<gate, calls[i].client>>,
                                  [start |-> start, count |-> count])
           /\ clock' = clock
           /\ \/ admitted' = admitted
              \/ admitted' = admitted \cup {<<gate, calls[i].client, i, clock>>}
    BY <1>2 DEF RateLimit, Limiter
  <2>2. gate # "auth_limit"
    BY <1>2
  <2>3. \A c : /\ GuessKey(c) \in DOMAIN buckets' <=> GuessKey(c) \in DOMAIN buckets
               /\ GuessKey(c) \in DOMAIN buckets =>
                     buckets'[GuessKey(c)] = buckets[GuessKey(c)]
    BY <2>1, <2>2 DEF Assigned, GuessKey
  <2>4. \A c : Guesses(c)' = Guesses(c)
    BY <2>1, <2>2 DEF Guesses
  <2> QED
    BY <2>1, <2>3, <2>4
<1>3. CASE \E i \in DOMAIN calls : \E gate \in {"global_limit", "register_limit"} :
              RateLimit(i, gate)
  <2>1. /\ clock' = clock
        /\ \A c : /\ GuessKey(c) \in DOMAIN buckets' <=> GuessKey(c) \in DOMAIN buckets
                  /\ GuessKey(c) \in DOMAIN buckets =>
                        buckets'[GuessKey(c)] = buckets[GuessKey(c)]
                  /\ Guesses(c)' = Guesses(c)
    BY <1>2, <1>3
  <2>2. clock' \in Nat /\ clock' >= clock
    BY <2>1 DEF GuessInv
  <2> QED
    BY <2>1, <2>2, GuessesOthers DEF GuessInv, GuessKey
<1>4. CASE UNCHANGED <<buckets, admitted>> /\ (clock' = clock \/ clock' = clock + 1)
  <2>1. clock' \in Nat /\ clock' >= clock /\ \A c : Guesses(c)' = Guesses(c)
    BY <1>4 DEF GuessInv, Guesses
  <2> QED
    BY <1>4, <2>1, GuessesOthers DEF GuessInv, GuessKey
<1>5. CASE GateTick \/ UNCHANGED gateVars
  BY <1>4, <1>5 DEF GateTick, gateVars
<1>6. CASE \E i \in DOMAIN calls :
              \/ Cors(i) \/ CsrfDefense(i) \/ PinVerification(i) \/ ScopedToken(i)
              \/ Auth(i) \/ RequireRole(i) \/ PQCSession(i)
              \/ StepUpGate(i) \/ CoolingOffGate(i)
  BY <1>4, <1>6 DEF Cors, CsrfDefense, PinVerification, ScopedToken, Auth, RequireRole,
     PQCSession, StepUpGate, CoolingOffGate, Gate
<1>7. CASE \E i \in DOMAIN calls : RequireIdempotency(i) \/ Handle(i)
  BY <1>4, <1>7, Zenon DEF RequireIdempotency, Handle
<1> QED
  BY <1>1, <1>3, <1>5, <1>6, <1>7 DEF GateNext

(***************************************************************************)
(* The comment on authLimiter, "guesses cannot be spread across            *)
(* endpoints": RateLimit is called once for all the credential routes, so  *)
(* its windows bound what a client is let through of all of them, in any   *)
(* period of the window's length and whatever the limit.                   *)
(***************************************************************************)
THEOREM GuessesLimited == GateSpec => []GuessesBounded
<1>1. ASSUME GuessInv PROVE GuessesBounded
  <2> SUFFICES ASSUME NEW c, NEW t \in 0..MaxClock
               PROVE  Cardinality({a \in admitted : a[1] = "auth_limit" /\ a[2] = c
                                      /\ a[4] \in t..(t + Window - 1)}) <= 2 * AuthLimit
    BY DEF GuessesBounded
  <2>1. \A a \in Guesses(c) : a[4] \in Nat
    BY <1>1 DEF GuessInv, BucketOK, WindowOK
  <2>2. {a \in admitted : a[1] = "auth_limit" /\ a[2] = c /\ a[4] \in t..(t + Window - 1)}
          = Between(Guesses(c), t, t + Window - 1)
    BY <2>1, GateAssumption DEF Guesses, Between
  <2>3. t \in Int /\ PeriodsOK(Guesses(c))
    BY <1>1, GateAssumption DEF GuessInv
  <2> QED
    BY <2>2, <2>3 DEF PeriodsOK
<1> QED
  BY <1>1, GuessesInitially, GuessesPreserved, PTL DEF GateSpec

-----------------------------------------------------------------------------
(***************************************************************************)
(* The expanded endpoints.  A handler holds what its program has taken and *)
(* not released by its step; so what holds of the programs (LockOrder)     *)
(* holds of the handlers, wherever they are.                               *)
(***************************************************************************)
HandlerFields == {"endpoint", "user", "at", "held", "waits", "order"}

HandlerOK(c) ==
    /\ handling[c] = [f \in HandlerFields |-> handling[c][f]]
    /\ handling[c].endpoint \in DOMAIN Programs
    /\ handling[c].at \in 1..(Len(Program(c)) + 1)
    /\ handling[c].held = Kept(Program(c), handling[c].at)
    /\ handling[c].waits => Busy(c) /\ Now(c).mode = "write" /\ Now(c).lock # "none"

HandlersOK ==
    /\ handling = [c \in DOMAIN handling |-> handling[c]]
    /\ \A c \in DOMAIN handling : HandlerOK(c)

\* What a step may make of handler c.
Becomes(c, at, held, waits, order) ==
    /\ handling'[c] = [f \in HandlerFields |-> handling'[c][f]]
    /\ handling'[c].endpoint = handling[c].endpoint /\ handling'[c].user = handling[c].user
    /\ handling'[c].at = at /\ handling'[c].held = held
    /\ handling'[c].waits = waits /\ handling'[c].order = order

Taken(c) ==
    IF Now(c).lock = "none" THEN {} ELSE {[lock |-> Now(c).lock, mode |-> Now(c).mode]}

Still(c) == handling'[c] = handling[c]

Waited(c) ==
    /\ Busy(c) /\ Now(c).mode = "write" /\ Now(c).lock # "none"
    /\ Becomes(c, handling[c].at, handling[c].held, TRUE, handling[c].order)

Went(c) ==
    /\ Busy(c)
    /\ Becomes(c, handling[c].at + 1,
               {h \in handling[c].held \cup Taken(c) : h.lock \notin Now(c).frees},
               FALSE, handling[c].order)

Left(c) ==
    Busy(c) /\ Becomes(c, Len(Program(c)) + 1, {}, FALSE, handling[c].order)

Decided(c) ==
    /\ Busy(c) /\ Now(c).does = "decide"
    /\ \E kind, at : /\ \/ kind = "buy" /\ at = handling[c].at + 1
                        \/ kind # "buy" /\ at = handling[c].at + 2
                     /\ Becomes(c, at, handling[c].held, handling[c].waits, kind)

LEMMA HandlerChange ==
    ASSUME HandlersOK, NEW c \in DOMAIN handling, NEW new,
           handling' = [handling EXCEPT ![c] = new]
    PROVE  /\ handling' = [d \in DOMAIN handling |-> handling'[d]]
           /\ handling'[c] = new
           /\ \A d \in DOMAIN handling : d # c => Still(d)
<1>1. handling = [d \in DOMAIN handling |-> handling[d]]
  BY DEF HandlersOK
<1>2. handling' = [d \in DOMAIN handling |-> IF d = c THEN new ELSE handling[d]]
  BY <1>1, Zenon
<1> QED
  BY <1>2, Zenon DEF Still

LEMMA HandlerMoves ==
    ASSUME HandlersOK, NEW c \in DOMAIN handling
    PROVE  /\ handling'[c] = Advanced(c) /\ Busy(c) => Went(c)
           /\ handling'[c] = [handling[c] EXCEPT !.at = Len(Program(c)) + 1, !.held = {},
                                                 !.waits = FALSE] /\ Busy(c) => Left(c)
           /\ \A kind, at :
                 handling'[c] = [handling[c] EXCEPT !.order = kind, !.at = at] =>
                    Becomes(c, at, handling[c].held, handling[c].waits, kind)
           /\ handling'[c] = [handling[c] EXCEPT !.waits = TRUE] =>
                Becomes(c, handling[c].at, handling[c].held, TRUE, handling[c].order)
<1>1. handling[c] = [f \in HandlerFields |-> handling[c][f]]
  BY DEF HandlersOK, HandlerOK
<1>2. ASSUME handling'[c] = Advanced(c), Busy(c) PROVE Went(c)
  BY <1>1, <1>2 DEF Went, Advanced, Becomes, HandlerFields, Taken
<1>3. ASSUME handling'[c] = [handling[c] EXCEPT !.at = Len(Program(c)) + 1, !.held = {},
                                                !.waits = FALSE], Busy(c)
      PROVE  Left(c)
  BY <1>1, <1>3 DEF Left, Becomes, HandlerFields
<1>4. ASSUME NEW kind, NEW at,
             handling'[c] = [handling[c] EXCEPT !.order = kind, !.at = at]
      PROVE  Becomes(c, at, handling[c].held, handling[c].waits, kind)
  BY <1>1, <1>4 DEF Becomes, HandlerFields
<1>5. ASSUME handling'[c] = [handling[c] EXCEPT !.waits = TRUE]
      PROVE  Becomes(c, handling[c].at, handling[c].held, TRUE, handling[c].order)
  BY <1>1, <1>5 DEF Becomes, HandlerFields
<1> QED
  BY <1>2, <1>3, <1>4, <1>5

\* A step that is not about an order: whoever goes on is elsewhere.
Plain(c) ==
    \/ Still(c) \/ Waited(c)
    \/ (Went(c) \/ Left(c)) /\ Now(c).does \notin {"decide", "debit", "order"}

LEMMA OneMoves ==
    ASSUME HandlersOK, NEW c \in DOMAIN handling, Busy(c)
    PROVE  /\ Proceed(c) => /\ handling' = [d \in DOMAIN handling |-> handling'[d]]
                            /\ Went(c)
                            /\ \A d \in DOMAIN handling : d # c => Still(d)
           /\ Answer(c) => /\ handling' = [d \in DOMAIN handling |-> handling'[d]]
                           /\ Left(c)
                           /\ \A d \in DOMAIN handling : d # c => Still(d)
<1>1. ASSUME Proceed(c)
      PROVE  /\ handling' = [d \in DOMAIN handling |-> handling'[d]]
             /\ Went(c)
             /\ \A d \in DOMAIN handling : d # c => Still(d)
  BY <1>1, HandlerChange, HandlerMoves DEF Proceed
<1>2. ASSUME Answer(c)
      PROVE  /\ handling' = [d \in DOMAIN handling |-> handling'[d]]
             /\ Left(c)
             /\ \A d \in DOMAIN handling : d # c => Still(d)
  <2> DEFINE new == [handling[c] EXCEPT !.at = Len(Program(c)) + 1, !.held = {},
                                        !.waits = FALSE]
  <2>1. handling' = [handling EXCEPT ![c] = new]
    BY <1>2 DEF Answer
  <2>2. /\ handling' = [d \in DOMAIN handling |-> handling'[d]]
        /\ handling'[c] = new
        /\ \A d \in DOMAIN handling : d # c => Still(d)
    <3> HIDE DEF new
    <3> QED
      BY <2>1, HandlerChange
  <2> QED
    BY <2>2, HandlerMoves
<1> QED
  BY <1>1, <1>2

LEMMA Moves ==
    ASSUME HandlersOK, EndpointsNext
    PROVE  /\ handling' = [d \in DOMAIN handling |-> handling'[d]]
           /\ \/ /\ \A d \in DOMAIN handling : Plain(d)
                 /\ UNCHANGED <<balance, orders, debited>>
              \/ \E c \in DOMAIN handling :
                    /\ Busy(c)
                    /\ \A d \in DOMAIN handling : d # c => Still(d)
                    /\ \/ Decides(c) /\ Decided(c)
                       \/ Debits(c) /\ (Went(c) \/ Left(c))
                       \/ RecordsOrder(c) /\ Went(c)
<1>1. PICK c \in DOMAIN handling :
        \/ Wait(c) \/ Passes(c) \/ Reads(c) \/ Unless(c)
        \/ Logs(c) \/ Puts(c) \/ Fills(c) \/ Absent(c) \/ Amends(c) \/ Drops(c) \/ Clears(c)
        \/ Audits(c) \/ BareAudit(c)
        \/ Binds(c) \/ Claims(c) \/ Threatens(c)
        \/ Decides(c) \/ Debits(c) \/ RecordsOrder(c)
  BY DEF EndpointsNext
<1> DEFINE Form == handling' = [d \in DOMAIN handling |-> handling'[d]]
           Quiet == /\ \A d \in DOMAIN handling : Plain(d)
                    /\ UNCHANGED <<balance, orders, debited>>
<1>2. ASSUME Busy(c), Now(c).does \notin {"decide", "debit", "order"},
             Proceed(c) \/ Answer(c), UNCHANGED <<balance, orders, debited>>
      PROVE  Form /\ Quiet
  BY <1>2, OneMoves DEF Plain
<1>3. CASE Wait(c)
  <2>1. Busy(c) /\ Now(c).mode = "write" /\ Now(c).lock # "none"
    BY <1>3 DEF Wait, MayLock
  <2> DEFINE new == [handling[c] EXCEPT !.waits = TRUE]
  <2>2. handling' = [handling EXCEPT ![c] = new]
    BY <1>3 DEF Wait
  <2>3. Form /\ handling'[c] = new /\ \A d \in DOMAIN handling : d # c => Still(d)
    <3> HIDE DEF new
    <3> QED
      BY <2>2, HandlerChange
  <2>4. Waited(c)
    BY <2>1, <2>3, HandlerMoves DEF Waited
  <2> QED
    BY <1>3, <2>3, <2>4 DEF Plain, Wait
<1>4. CASE Passes(c) \/ Reads(c) \/ Unless(c) \/ Absent(c)
  BY <1>2, <1>4 DEF Passes, Reads, Unless, Absent, Ready, Unrelated
<1>5. CASE Logs(c) \/ Puts(c) \/ Fills(c) \/ Amends(c) \/ Drops(c) \/ Clears(c)
  BY <1>2, <1>5 DEF Logs, Puts, Fills, Amends, Drops, Clears, Ready, Unrelated
<1>6. CASE Audits(c) \/ Binds(c) \/ Claims(c) \/ Threatens(c)
  BY <1>2, <1>6 DEF Audits, Binds, Claims, Threatens, Ready, Unrelated
<1>7. CASE BareAudit(c)
  <2>1. CASE Proceed(c)
    BY <1>2, <1>7, <2>1 DEF BareAudit, Ready, Unrelated
  <2>2. CASE \E d \in Others(c) :
               /\ Ready(d, "audit")
               /\ handling' = [handling EXCEPT ![c] = Advanced(c), ![d] = Advanced(d)]
    <3>1. PICK d \in Others(c) :
               /\ Ready(d, "audit")
               /\ handling' = [handling EXCEPT ![c] = Advanced(c), ![d] = Advanced(d)]
      BY <2>2
    <3>2. d \in DOMAIN handling /\ d # c /\ handling = [e \in DOMAIN handling |-> handling[e]]
      BY <3>1 DEF Others, HandlersOK
    <3>3. handling' = [e \in DOMAIN handling |->
                         IF e = d THEN Advanced(d) ELSE IF e = c THEN Advanced(c) ELSE handling[e]]
      BY <3>1, <3>2
    <3>4. /\ Form /\ handling'[c] = Advanced(c) /\ handling'[d] = Advanced(d)
          /\ \A e \in DOMAIN handling : e \notin {c, d} => Still(e)
      BY <3>2, <3>3 DEF Still
    <3>5. /\ Busy(c) /\ Now(c).does = "bare_audit" /\ Busy(d) /\ Now(d).does = "audit"
          /\ UNCHANGED <<balance, orders, debited>>
      BY <1>7, <3>1 DEF BareAudit, Ready, Unrelated
    <3>6. Went(c) /\ Went(d)
      BY <3>2, <3>4, <3>5, HandlerMoves
    <3> QED
      BY <3>4, <3>5, <3>6 DEF Plain
  <2> QED
    BY <1>7, <2>1, <2>2 DEF BareAudit
<1>8. CASE Decides(c)
  <2>1. PICK kind \in {"buy", "sell", "cooling_off"} :
           handling' = [handling EXCEPT ![c].order = kind,
                                        ![c].at = IF kind = "buy" THEN @ + 1 ELSE @ + 2]
    BY <1>8 DEF Decides
  <2> DEFINE at == IF kind = "buy" THEN handling[c].at + 1 ELSE handling[c].at + 2
             new == [handling[c] EXCEPT !.order = kind, !.at = at]
  <2>2. handling' = [handling EXCEPT ![c] = new]
    BY <2>1
  <2>3. Form /\ handling'[c] = new /\ \A d \in DOMAIN handling : d # c => Still(d)
    <3> HIDE DEF new
    <3> QED
      BY <2>2, HandlerChange
  <2>4. Becomes(c, at, handling[c].held, handling[c].waits, kind)
    BY <2>3, HandlerMoves
  <2>5. Busy(c) /\ Now(c).does = "decide"
    BY <1>8 DEF Decides, Ready
  <2>6. \/ kind = "buy" /\ at = handling[c].at + 1
        \/ kind # "buy" /\ at = handling[c].at + 2
    OBVIOUS
  <2> HIDE DEF at, new
  <2>7. Decided(c)
    BY <2>4, <2>5, <2>6 DEF Decided
  <2> QED
    BY <1>8, <2>3, <2>5, <2>7
<1>9. CASE Debits(c) \/ RecordsOrder(c)
  BY <1>9, OneMoves DEF Debits, RecordsOrder, Ready
<1> QED
  BY <1>1, <1>3, <1>4, <1>5, <1>6, <1>7, <1>8, <1>9

\* What a program holds, step by step.
LEMMA KeptStep ==
    ASSUME NEW p, NEW i \in Nat \ {0}
    PROVE  Kept(p, i + 1) =
             {h \in Kept(p, i) \cup
                      (IF p[i].lock = "none" THEN {}
                       ELSE {[lock |-> p[i].lock, mode |-> p[i].mode]}) :
                 h.lock \notin p[i].frees}
<1> DEFINE held(n) == {j \in 1..(n - 1) : /\ p[j].lock # "none"
                                          /\ \A k \in j..(n - 1) : p[j].lock \notin p[k].frees}
           lockOf(j) == [lock |-> p[j].lock, mode |-> p[j].mode]
<1>1. \A n : Kept(p, n) = {lockOf(j) : j \in held(n)}
  BY DEF Kept
<1>2. \A j : j \in held(i + 1) <=>
               \/ j \in held(i) /\ p[j].lock \notin p[i].frees
               \/ j = i /\ p[i].lock # "none" /\ p[i].lock \notin p[i].frees
  <2> SUFFICES ASSUME NEW j
               PROVE  j \in held(i + 1) <=>
                        \/ j \in held(i) /\ p[j].lock \notin p[i].frees
                        \/ j = i /\ p[i].lock # "none" /\ p[i].lock \notin p[i].frees
    OBVIOUS
  <2>1. (i + 1) - 1 = i
    OBVIOUS
  <2>2. CASE j \in 1..(i - 1)
    <3>1. \A k : k \in j..i <=> k \in j..(i - 1) \/ k = i
      BY <2>2
    <3> QED
      BY <2>1, <2>2, <3>1
  <2>3. CASE j = i
    <3>1. i \in 1..i /\ i \notin 1..(i - 1) /\ \A k : k \in i..i <=> k = i
      OBVIOUS
    <3> QED
      BY <2>1, <2>3, <3>1
  <2>4. CASE j \notin 1..(i - 1) /\ j # i
    <3>1. j \notin 1..i
      BY <2>4
    <3> QED
      BY <2>1, <2>4, <3>1
  <2> QED
    BY <2>2, <2>3, <2>4
<1>3. \A j : lockOf(j).lock = p[j].lock
  OBVIOUS
<1> HIDE DEF held, lockOf
<1>4. CASE p[i].lock = "none"
  BY <1>1, <1>2, <1>3, <1>4
<1>5. CASE p[i].lock # "none"
  <2>1. {[lock |-> p[i].lock, mode |-> p[i].mode]} = {lockOf(i)}
    BY DEF lockOf
  <2> QED
    BY <1>1, <1>2, <1>3, <1>5, <2>1
<1> QED
  BY <1>4, <1>5

\* What is needed of a program.
LEMMA ProgramFacts ==
    ASSUME HandlersOK, NEW c \in DOMAIN handling
    PROVE  /\ Program(c) \in Seq(Steps)
           /\ Len(Program(c)) \in Nat /\ DOMAIN Program(c) = 1..Len(Program(c))
           /\ handling[c].at \in Nat \ {0}
           /\ Busy(c) <=> handling[c].at \in DOMAIN Program(c)
           /\ ~Busy(c) <=> handling[c].at = Len(Program(c)) + 1
           /\ Kept(Program(c), Len(Program(c)) + 1) = {}
           /\ \A h \in handling[c].held : h.lock = "exp"
           /\ Busy(c) => Now(c) \in Steps /\ (Now(c).lock = "exp" => handling[c].held = {})
           /\ ~Busy(c) => handling[c].held = {}
<1>1. HandlerOK(c) /\ Program(c) = Programs[handling[c].endpoint]
  BY DEF HandlersOK, Program
<1>2. /\ Program(c) \in Seq(Steps)
      /\ \A i \in 1..(Len(Program(c)) + 1) : \A h \in Kept(Program(c), i) : h.lock = "exp"
      /\ \A i \in DOMAIN Program(c) :
            Program(c)[i].lock = "exp" => Kept(Program(c), i) = {}
      /\ Kept(Program(c), Len(Program(c)) + 1) = {}
  BY <1>1, LockOrder DEF HandlerOK
<1>3. /\ Len(Program(c)) \in Nat /\ DOMAIN Program(c) = 1..Len(Program(c))
      /\ \A i \in DOMAIN Program(c) : Program(c)[i] \in Steps
  <2> DEFINE p == Program(c)
  <2>1. p \in Seq(Steps)
    BY <1>2
  <2> HIDE DEF p
  <2>2. Len(p) \in Nat /\ DOMAIN p = 1..Len(p) /\ \A i \in DOMAIN p : p[i] \in Steps
    BY <2>1
  <2> QED
    BY <2>2 DEF p
<1>4. handling[c].at \in 1..(Len(Program(c)) + 1)
  BY <1>1 DEF HandlerOK
<1>5. /\ handling[c].at \in Nat \ {0}
      /\ Busy(c) <=> handling[c].at \in DOMAIN Program(c)
      /\ ~Busy(c) <=> handling[c].at = Len(Program(c)) + 1
  BY <1>3, <1>4 DEF Busy
<1>6. handling[c].held = Kept(Program(c), handling[c].at)
  BY <1>1 DEF HandlerOK
<1> QED
  BY <1>2, <1>3, <1>4, <1>5, <1>6 DEF Now

LEMMA HandlersInitially == EndpointsInit => HandlersOK
<1> SUFFICES ASSUME EndpointsInit PROVE HandlersOK
  OBVIOUS
<1>1. PICK w \in EndpointCalls :
        handling = [c \in DOMAIN w |->
            [endpoint |-> w[c].endpoint, user |-> w[c].user, at |-> 1, held |-> {},
             waits |-> FALSE, order |-> "none"]]
  BY Zenon DEF EndpointsInit
<1>2. ASSUME NEW c \in DOMAIN handling PROVE HandlerOK(c)
  <2>1. /\ handling[c] = [f \in HandlerFields |-> handling[c][f]]
        /\ handling[c].endpoint \in DOMAIN Programs
        /\ handling[c].at = 1 /\ handling[c].held = {} /\ ~handling[c].waits
    BY <1>1, CallsAssumption DEF HandlerFields
  <2>2. Len(Program(c)) \in Nat
    <3>1. Program(c) \in Seq(Steps)
      BY <2>1, LockOrder DEF Program
    <3> QED
      BY <3>1, LenProperties
  <2>3. Kept(Program(c), 1) = {}
    BY DEF Kept
  <2>4. 1 \in 1..(Len(Program(c)) + 1)
    BY <2>2
  <2> QED
    BY <2>1, <2>3, <2>4, Zenon DEF HandlerOK
<1> QED
  BY <1>1, <1>2 DEF HandlersOK

LEMMA HandlerKept ==
    ASSUME HandlersOK, NEW c \in DOMAIN handling,
           Still(c) \/ Waited(c) \/ Went(c) \/ Left(c) \/ Decided(c)
    PROVE  HandlerOK(c)'
<1> USE DEF Program
<1>1. HandlerOK(c)
  BY DEF HandlersOK
<1>2. /\ Len(Program(c)) \in Nat /\ DOMAIN Program(c) = 1..Len(Program(c))
      /\ handling[c].at \in Nat \ {0}
      /\ Busy(c) <=> handling[c].at \in DOMAIN Program(c)
      /\ Kept(Program(c), Len(Program(c)) + 1) = {}
  BY ProgramFacts
<1>3. CASE Still(c)
  BY <1>1, <1>3 DEF Still, HandlerOK, Busy, Now
<1>4. ASSUME NEW at, NEW held, NEW order, at \in 1..(Len(Program(c)) + 1),
             held = Kept(Program(c), at), Becomes(c, at, held, FALSE, order)
      PROVE  HandlerOK(c)'
  <2>1. ~handling'[c].waits
    BY <1>4, Zenon DEF Becomes
  <2>2. Program(c)' = Program(c) /\ handling'[c].endpoint \in DOMAIN Programs
    BY <1>1, <1>4 DEF Becomes, HandlerOK
  <2>3. /\ handling'[c] = [f \in HandlerFields |-> handling'[c][f]]
        /\ handling'[c].at \in 1..(Len(Program(c)') + 1)
        /\ handling'[c].held = Kept(Program(c)', handling'[c].at)
    BY <1>4, <2>2, Zenon DEF Becomes
  <2> QED
    BY <2>1, <2>2, <2>3, Zenon DEF HandlerOK, Kept
<1>5. CASE Waited(c)
  <2>1. /\ Becomes(c, handling[c].at, handling[c].held, TRUE, handling[c].order)
        /\ Busy(c) /\ Now(c).mode = "write" /\ Now(c).lock # "none"
    BY <1>5 DEF Waited
  <2>2. Program(c)' = Program(c) /\ handling'[c].at = handling[c].at
    BY <2>1 DEF Becomes
  <2>3. Busy(c)' /\ Now(c)' = Now(c)
    BY <2>1, <2>2 DEF Busy, Now
  <2> QED
    BY <1>1, <2>1, <2>2, <2>3 DEF HandlerOK, Becomes
<1>6. CASE Went(c)
  <2>1. handling[c].at \in 1..Len(Program(c))
    BY <1>2, <1>6 DEF Went
  <2>2. handling[c].at + 1 \in 1..(Len(Program(c)) + 1)
    BY <1>2, <2>1
  <2>3. handling[c].held = Kept(Program(c), handling[c].at)
    BY <1>1 DEF HandlerOK
  <2>4. {h \in handling[c].held \cup Taken(c) : h.lock \notin Now(c).frees}
          = Kept(Program(c), handling[c].at + 1)
    BY <1>2, <2>3, KeptStep DEF Taken, Now
  <2> QED
    BY <1>4, <1>6, <2>2, <2>4 DEF Went
<1>7. CASE Left(c)
  <2>1. Len(Program(c)) + 1 \in 1..(Len(Program(c)) + 1)
    BY <1>2
  <2> QED
    BY <1>2, <1>4, <1>7, <2>1 DEF Left
<1>8. CASE Decided(c)
  <2>1. PICK kind, at :
           /\ at \in {handling[c].at + 1, handling[c].at + 2}
           /\ Becomes(c, at, handling[c].held, handling[c].waits, kind)
    BY <1>8 DEF Decided
  <2>2. /\ handling[c].at \in DOMAIN Program(c)
        /\ Program(c)[handling[c].at].does = "decide"
        /\ handling[c].endpoint \in DOMAIN Programs
    BY <1>1, <1>2, <1>8 DEF Decided, Now, HandlerOK
  <2>3. /\ handling[c].at + 2 \in DOMAIN Program(c)
        /\ Program(c)[handling[c].at].mode = "read"
        /\ \A j \in handling[c].at..(handling[c].at + 2) : Kept(Program(c), j) = {}
    BY <2>2, OrderSteps
  <2>4. handling[c].held = {} /\ Kept(Program(c), at) = {}
    <3>1. /\ handling[c].at \in handling[c].at..(handling[c].at + 2)
          /\ at \in handling[c].at..(handling[c].at + 2)
      BY <1>2, <2>1
    <3>2. Kept(Program(c), handling[c].at) = {} /\ Kept(Program(c), at) = {}
      BY <2>3, <3>1
    <3> QED
      BY <1>1, <3>2 DEF HandlerOK
  <2>5. at \in 1..(Len(Program(c)) + 1)
    BY <1>2, <2>1, <2>3
  <2>6. ~handling[c].waits
    <3>1. Now(c).mode # "write"
      BY <2>3 DEF Now
    <3> QED
      BY <1>1, <3>1, Zenon DEF HandlerOK
  <2>7. ~handling'[c].waits
    BY <2>1, <2>6, Zenon DEF Becomes
  <2>8. Program(c)' = Program(c) /\ handling'[c].endpoint \in DOMAIN Programs
    BY <1>1, <2>1 DEF Becomes, HandlerOK
  <2>9. /\ handling'[c] = [f \in HandlerFields |-> handling'[c][f]]
        /\ handling'[c].at \in 1..(Len(Program(c)') + 1)
        /\ handling'[c].held = Kept(Program(c)', handling'[c].at)
    BY <2>1, <2>4, <2>5, <2>8, Zenon DEF Becomes
  <2> QED
    BY <2>7, <2>8, <2>9, Zenon DEF HandlerOK, Kept
<1> QED
  BY <1>3, <1>5, <1>6, <1>7, <1>8

LEMMA HandlersPreserved == HandlersOK /\ [EndpointsNext]_endpointVars => HandlersOK'
<1> SUFFICES ASSUME HandlersOK, [EndpointsNext]_endpointVars PROVE HandlersOK'
  OBVIOUS
<1>1. CASE EndpointsNext
  <2>1. handling' = [d \in DOMAIN handling |-> handling'[d]]
    BY <1>1, Moves
  <2>2. \A d \in DOMAIN handling :
           Still(d) \/ Waited(d) \/ Went(d) \/ Left(d) \/ Decided(d)
    BY <1>1, Moves DEF Plain
  <2>3. \A d \in DOMAIN handling : HandlerOK(d)'
    BY <2>2, HandlerKept
  <2>4. DOMAIN handling' = DOMAIN handling
    BY <2>1
  <2> QED
    BY <2>1, <2>3, <2>4 DEF HandlersOK
<1>2. CASE UNCHANGED endpointVars
  <2>1. handling' = handling
    BY <1>2 DEF endpointVars
  <2>2. \A d \in DOMAIN handling : HandlerOK(d)'
    BY <2>1, HandlerKept DEF Still
  <2> QED
    BY <2>1, <2>2 DEF HandlersOK
<1> QED
  BY <1>1, <1>2

\* Where nobody holds the lock a handler asks for, it gets it or a writer that
\* keeps it out does.
LEMMA FreeLockIsTaken ==
    ASSUME HandlersOK, NEW c \in DOMAIN handling, Busy(c), Now(c).lock # "none",
           \A d \in DOMAIN handling : \A h \in handling[d].held : h.lock # Now(c).lock
    PROVE  \E d \in DOMAIN handling : Busy(d) /\ MayLock(d)
<1>1. \A d \in DOMAIN handling : \A modes : ~Holds(d, Now(c).lock, modes)
  BY DEF Holds
<1>2. CASE \E d \in DOMAIN handling : WaitsToWrite(d, Now(c).lock)
  <2>1. PICK d \in DOMAIN handling : WaitsToWrite(d, Now(c).lock)
    BY <1>2
  <2>2. Busy(d) /\ handling[d].waits /\ Now(d).lock = Now(c).lock
    BY <2>1 DEF WaitsToWrite
  <2>3. Now(d).mode = "write"
    BY <2>2, Zenon DEF HandlersOK, HandlerOK
  <2>4. MayLock(d)
    BY <1>1, <2>2, <2>3, Zenon DEF MayLock
  <2> QED
    BY <2>2, <2>4
<1>3. CASE ~\E d \in DOMAIN handling : WaitsToWrite(d, Now(c).lock)
  <2>1. Now(c).mode \in {"read", "write"}
    BY ProgramFacts DEF Steps
  <2>2. MayLock(c)
    BY <1>1, <1>3, <2>1 DEF MayLock
  <2> QED
    BY <2>2
<1> QED
  BY <1>2, <1>3

(***************************************************************************)
(* Any number of concurrent handlers of HandleExpandedEndpoint, on any     *)
(* endpoints: as long as one is on its way, one can take its next step.    *)
(* Whoever holds expandedState.mu asks for Service.mu next and nobody      *)
(* keeps Service.mu over a step, so one of those who ask for Service.mu    *)
(* gets it; and if all ask for expandedState.mu, nobody has it.            *)
(***************************************************************************)
THEOREM HandlersNeverStuck == EndpointsSpec => []EndpointsNeverStuck
<1>1. ASSUME HandlersOK PROVE EndpointsNeverStuck
  <2> SUFFICES ASSUME NEW b \in DOMAIN handling, Busy(b)
               PROVE  \E d \in DOMAIN handling : Busy(d) /\ MayLock(d)
    BY DEF EndpointsNeverStuck
  <2>1. \A d \in DOMAIN handling : Busy(d) => Now(d).lock \in {"none", "svc", "exp"}
    BY <1>1, ProgramFacts DEF Steps
  <2>2. CASE \E c \in DOMAIN handling : Busy(c) /\ Now(c).lock = "none"
    BY <2>2 DEF MayLock
  <2>3. CASE \E c \in DOMAIN handling : Busy(c) /\ Now(c).lock = "svc"
    <3>1. PICK c \in DOMAIN handling : Busy(c) /\ Now(c).lock = "svc"
      BY <2>3
    <3>2. \A d \in DOMAIN handling : \A h \in handling[d].held : h.lock = "exp"
      BY <1>1, ProgramFacts
    <3>3. \A d \in DOMAIN handling : \A h \in handling[d].held : h.lock # Now(c).lock
      BY <3>1, <3>2
    <3> QED
      BY <1>1, <3>1, <3>3, FreeLockIsTaken
  <2>4. CASE \A c \in DOMAIN handling : Busy(c) => Now(c).lock = "exp"
    <3>1. \A d \in DOMAIN handling : handling[d].held = {}
      BY <1>1, <2>4, ProgramFacts
    <3>2. \A d \in DOMAIN handling : \A h \in handling[d].held : h.lock # Now(b).lock
      BY <3>1
    <3> QED
      BY <1>1, <2>4, <3>2, FreeLockIsTaken
  <2> QED
    BY <2>1, <2>2, <2>3, <2>4
<1> QED
  BY <1>1, HandlersInitially, HandlersPreserved, PTL DEF EndpointsSpec

-----------------------------------------------------------------------------
(***************************************************************************)
(* Orders.  Where a handler is tells what it has done of its order.        *)
(***************************************************************************)
Bought(c) == \E o \in orders : o.by = c /\ o.kind = "buy"

OrderOK(c) ==
    /\ Bought(c) => c \in debited
    /\ c \in debited /\ ~Bought(c) =>
          Busy(c) /\ Now(c).does = "order" /\ handling[c].order = "buy"
    /\ Busy(c) /\ Now(c).does = "debit" => handling[c].order = "buy"
    /\ Busy(c) /\ Now(c).does = "order" /\ handling[c].order = "buy" => c \in debited
    /\ \A j \in DOMAIN Program(c) :
          Program(c)[j].does = "debit" /\ handling[c].at <= j => c \notin debited

OrderInv ==
    /\ HandlersOK
    /\ \A c \in DOMAIN handling : OrderOK(c)
    /\ \A o \in orders : o.by \in DOMAIN handling
    /\ debited \subseteq DOMAIN handling
    /\ IsFiniteSet(debited) /\ balance \in Int
    /\ balance + Cardinality(debited) = Funds

\* Where the steps of an order are.
LEMMA OrderPlaces ==
    ASSUME HandlersOK, NEW c \in DOMAIN handling, NEW i \in DOMAIN Program(c)
    PROVE  LET p == Program(c) IN
           /\ p[i].does = "decide" =>
                 /\ i + 1 \in DOMAIN p /\ i + 2 \in DOMAIN p
                 /\ p[i + 1].does = "debit" /\ p[i + 2].does = "order"
           /\ p[i].does = "debit" =>
                 /\ i # 1 /\ p[i - 1].does = "decide"
                 /\ i + 1 \in DOMAIN p /\ p[i + 1].does = "order"
                 /\ \A j \in DOMAIN p : p[j].does = "debit" => j = i
           /\ p[i].does = "order" => i # 1 /\ i - 1 \in DOMAIN p /\ p[i - 1].does = "debit"
<1> DEFINE p == Program(c)
<1>1. DOMAIN p = 1..Len(p) /\ Len(p) \in Nat
  BY ProgramFacts
<1>2. handling[c].endpoint \in DOMAIN Programs
  BY DEF HandlersOK, HandlerOK
<1>3. \A k \in DOMAIN p :
        /\ p[k].does = "decide" =>
              /\ k + 2 \in DOMAIN p
              /\ p[k + 1].does = "debit" /\ p[k + 2].does = "order"
              /\ \A j \in DOMAIN p : p[j].does = "decide" => j = k
        /\ p[k].does = "debit" => k - 1 \in DOMAIN p /\ p[k - 1].does = "decide"
        /\ p[k].does = "order" => k - 2 \in DOMAIN p /\ p[k - 2].does = "decide"
  BY <1>2, OrderSteps DEF Program
<1> HIDE DEF p
<1>4. i \in 1..Len(p)
  BY <1>1 DEF p
<1>5. ASSUME p[i].does = "decide"
      PROVE  /\ i + 1 \in DOMAIN p /\ i + 2 \in DOMAIN p
             /\ p[i + 1].does = "debit" /\ p[i + 2].does = "order"
  BY <1>1, <1>3, <1>4, <1>5
<1>6. ASSUME p[i].does = "debit"
      PROVE  /\ i # 1 /\ p[i - 1].does = "decide"
             /\ i + 1 \in DOMAIN p /\ p[i + 1].does = "order"
             /\ \A j \in DOMAIN p : p[j].does = "debit" => j = i
  <2>1. i - 1 \in DOMAIN p /\ p[i - 1].does = "decide" /\ i # 1
    BY <1>1, <1>3, <1>4, <1>6
  <2>2. (i - 1) + 2 \in DOMAIN p /\ p[(i - 1) + 2].does = "order"
    BY <1>3, <2>1
  <2>3. (i - 1) + 2 = i + 1
    BY <1>4
  <2>4. ASSUME NEW j \in DOMAIN p, p[j].does = "debit" PROVE j = i
    <3>1. j - 1 \in DOMAIN p /\ p[j - 1].does = "decide"
      BY <1>3, <2>4
    <3>2. j - 1 = i - 1
      BY <1>3, <2>1, <3>1
    <3> QED
      BY <1>1, <1>4, <3>2
  <2> QED
    BY <2>1, <2>2, <2>3, <2>4
<1>7. ASSUME p[i].does = "order"
      PROVE  i # 1 /\ i - 1 \in DOMAIN p /\ p[i - 1].does = "debit"
  <2>1. i - 2 \in DOMAIN p /\ p[i - 2].does = "decide"
    BY <1>3, <1>4, <1>1, <1>7
  <2>2. p[(i - 2) + 1].does = "debit"
    BY <1>3, <2>1
  <2>3. (i - 2) + 1 = i - 1 /\ i # 1 /\ i - 1 \in 1..Len(p)
    BY <1>1, <1>4, <2>1
  <2> QED
    BY <1>1, <2>2, <2>3
<1> QED
  BY <1>5, <1>6, <1>7 DEF p

LEMMA OrdersQuiet ==
    ASSUME HandlersOK, NEW c \in DOMAIN handling, OrderOK(c), Plain(c),
           UNCHANGED <<orders, debited>>
    PROVE  OrderOK(c)'
<1>1. Bought(c)' <=> Bought(c)
  BY DEF Bought
<1>2. /\ Len(Program(c)) \in Nat /\ DOMAIN Program(c) = 1..Len(Program(c))
      /\ handling[c].at \in Nat \ {0}
      /\ Busy(c) <=> handling[c].at \in DOMAIN Program(c)
  BY ProgramFacts
<1>3. CASE Still(c) \/ Waited(c)
  <2>1. /\ handling'[c].endpoint = handling[c].endpoint
        /\ handling'[c].at = handling[c].at /\ handling'[c].order = handling[c].order
    BY <1>3 DEF Still, Waited, Becomes
  <2>2. Program(c)' = Program(c)
    BY <2>1 DEF Program
  <2>3. (Busy(c)' <=> Busy(c)) /\ Now(c)' = Now(c)
    BY <2>1, <2>2 DEF Busy, Now
  <2> QED
    BY <1>1, <2>1, <2>2, <2>3 DEF OrderOK
<1>4. CASE Left(c) /\ Now(c).does \notin {"decide", "debit", "order"}
  <2>1. /\ handling'[c].endpoint = handling[c].endpoint
        /\ handling'[c].at = Len(Program(c)) + 1
    BY <1>4 DEF Left, Becomes
  <2>2. Program(c)' = Program(c)
    BY <2>1 DEF Program
  <2>3. ~Busy(c)' /\ \A j \in DOMAIN Program(c) : ~(handling'[c].at <= j)
    BY <1>2, <2>1, <2>2 DEF Busy
  <2> QED
    BY <1>1, <1>4, <2>2, <2>3 DEF OrderOK
<1>5. CASE Went(c) /\ Now(c).does \notin {"decide", "debit", "order"}
  <2>1. /\ handling'[c].endpoint = handling[c].endpoint
        /\ handling'[c].at = handling[c].at + 1 /\ Busy(c)
    BY <1>5 DEF Went, Becomes
  <2>2. Program(c)' = Program(c)
    BY <2>1 DEF Program
  <2>3. ASSUME Busy(c)' PROVE Now(c)'.does \notin {"debit", "order"}
    <3>1. handling[c].at + 1 \in DOMAIN Program(c)
      BY <1>2, <2>1, <2>2, <2>3 DEF Busy
    <3>2. (handling[c].at + 1) - 1 = handling[c].at
      BY <1>2
    <3>3. /\ Program(c)[handling[c].at + 1].does = "debit" =>
                Program(c)[handling[c].at].does = "decide"
          /\ Program(c)[handling[c].at + 1].does = "order" =>
                Program(c)[handling[c].at].does = "debit"
      BY <3>1, <3>2, OrderPlaces
    <3> QED
      BY <1>5, <2>1, <2>2, <3>3 DEF Now
  <2>4. \A j \in DOMAIN Program(c) : handling'[c].at <= j => handling[c].at <= j
    BY <1>2, <2>1
  <2> QED
    BY <1>1, <1>5, <2>2, <2>3, <2>4 DEF OrderOK
<1> QED
  BY <1>3, <1>4, <1>5 DEF Plain

LEMMA OrdersDecided ==
    ASSUME HandlersOK, NEW c \in DOMAIN handling, OrderOK(c), Decided(c),
           UNCHANGED <<orders, debited>>
    PROVE  OrderOK(c)'
<1>1. Bought(c)' <=> Bought(c)
  BY DEF Bought
<1>2. /\ Len(Program(c)) \in Nat /\ DOMAIN Program(c) = 1..Len(Program(c))
      /\ handling[c].at \in Nat \ {0} /\ handling[c].at \in DOMAIN Program(c)
      /\ Now(c).does = "decide"
  BY ProgramFacts DEF Decided
<1>3. PICK kind, at :
        /\ \/ kind = "buy" /\ at = handling[c].at + 1
           \/ kind # "buy" /\ at = handling[c].at + 2
        /\ Becomes(c, at, handling[c].held, handling[c].waits, kind)
  BY DEF Decided
<1>4. /\ handling'[c].endpoint = handling[c].endpoint
      /\ handling'[c].at = at /\ handling'[c].order = kind
  BY <1>3 DEF Becomes
<1>5. Program(c)' = Program(c)
  BY <1>4 DEF Program
<1>6. /\ Program(c)[handling[c].at + 1].does = "debit"
      /\ Program(c)[handling[c].at + 2].does = "order"
  BY <1>2, OrderPlaces DEF Now
<1>7. /\ Now(c)'.does = "debit" => handling'[c].order = "buy"
      /\ ~(Now(c)'.does = "order" /\ handling'[c].order = "buy")
  BY <1>3, <1>4, <1>5, <1>6 DEF Now
<1>8. \A j \in DOMAIN Program(c) : handling'[c].at <= j => handling[c].at <= j
  BY <1>2, <1>3, <1>4
<1> QED
  BY <1>1, <1>2, <1>5, <1>7, <1>8 DEF OrderOK

LEMMA OrdersDebited ==
    ASSUME OrderInv, NEW c \in DOMAIN handling, Debits(c), Went(c) \/ Left(c),
           \A d \in DOMAIN handling : d # c => Still(d),
           DOMAIN handling' = DOMAIN handling, HandlersOK'
    PROVE  OrderInv'
<1>0. HandlersOK /\ OrderOK(c)
  BY DEF OrderInv
<1>1. /\ Len(Program(c)) \in Nat /\ DOMAIN Program(c) = 1..Len(Program(c))
      /\ handling[c].at \in Nat \ {0} /\ handling[c].at \in DOMAIN Program(c)
      /\ Now(c).does = "debit" /\ Busy(c) /\ orders' = orders
  BY <1>0, ProgramFacts DEF Debits, Ready
<1>2. handling'[c].endpoint = handling[c].endpoint /\ handling'[c].order = handling[c].order
  BY DEF Went, Left, Becomes
<1>3. Program(c)' = Program(c)
  BY <1>2 DEF Program
<1>4. c \notin debited /\ ~Bought(c) /\ handling[c].order = "buy"
  <2>1. handling[c].at <= handling[c].at /\ Program(c)[handling[c].at].does = "debit"
    BY <1>1 DEF Now
  <2> QED
    BY <1>0, <1>1, <2>1 DEF OrderOK
<1>5. \A d : Bought(d)' <=> Bought(d)
  BY <1>1 DEF Bought
<1>6. CASE balance = 0
  <2>1. Answer(c) /\ UNCHANGED <<balance, debited>>
    BY <1>6 DEF Debits
  <2>2. Left(c)
    BY <1>0, <1>1, <2>1, OneMoves
  <2>3. handling'[c].at = Len(Program(c)) + 1
    BY <2>2 DEF Left, Becomes
  <2>4. ~Busy(c)' /\ c \notin debited'
    BY <1>1, <1>3, <1>4, <2>1, <2>3 DEF Busy
  <2>5. OrderOK(c)'
    BY <1>4, <1>5, <2>4 DEF OrderOK
  <2>6. ASSUME NEW d \in DOMAIN handling, d # c PROVE OrderOK(d)'
    BY <1>0, <1>1, <2>1, <2>6, OrdersQuiet DEF Plain, OrderInv
  <2> QED
    BY <1>1, <2>1, <2>5, <2>6 DEF OrderInv
<1>7. CASE balance # 0
  <2>1. Proceed(c) /\ balance' = balance - 1 /\ debited' = debited \cup {c}
    BY <1>7 DEF Debits
  <2>2. Went(c)
    BY <1>0, <1>1, <2>1, OneMoves
  <2>3. handling'[c].at = handling[c].at + 1
    BY <2>2 DEF Went, Becomes
  <2>4. /\ handling[c].at + 1 \in DOMAIN Program(c)
        /\ Program(c)[handling[c].at + 1].does = "order"
        /\ \A j \in DOMAIN Program(c) : Program(c)[j].does = "debit" => j = handling[c].at
    BY <1>0, <1>1, OrderPlaces DEF Now
  <2>5. Busy(c)' /\ Now(c)'.does = "order"
    BY <1>1, <1>3, <2>3, <2>4 DEF Busy, Now
  <2>6. \A j \in DOMAIN Program(c) :
           ~(Program(c)[j].does = "debit" /\ handling'[c].at <= j)
    BY <1>1, <2>3, <2>4
  <2>7. OrderOK(c)'
    BY <1>2, <1>3, <1>4, <2>1, <2>5, <2>6 DEF OrderOK
  <2>8. ASSUME NEW d \in DOMAIN handling, d # c PROVE OrderOK(d)'
    <3>1. OrderOK(d) /\ Still(d) /\ (d \in debited' <=> d \in debited)
      BY <2>1, <2>8 DEF OrderInv
    <3>2. /\ Program(d)' = Program(d) /\ (Busy(d)' <=> Busy(d)) /\ Now(d)' = Now(d)
          /\ handling'[d] = handling[d]
      BY <3>1 DEF Still, Program, Busy, Now
    <3> QED
      BY <1>5, <3>1, <3>2 DEF OrderOK
  <2>9. /\ IsFiniteSet(debited') /\ Cardinality(debited') = Cardinality(debited) + 1
        /\ Cardinality(debited) \in Nat
    BY <1>4, <2>1, FS_AddElement, FS_CardinalityType DEF OrderInv
  <2>10. balance' \in Int /\ balance' + Cardinality(debited') = Funds
    BY <2>1, <2>9 DEF OrderInv
  <2> QED
    BY <1>1, <2>1, <2>7, <2>8, <2>9, <2>10 DEF OrderInv
<1> QED
  BY <1>6, <1>7

LEMMA OrdersRecorded ==
    ASSUME OrderInv, NEW c \in DOMAIN handling, RecordsOrder(c), Went(c),
           \A d \in DOMAIN handling : d # c => Still(d),
           DOMAIN handling' = DOMAIN handling, HandlersOK'
    PROVE  OrderInv'
<1>0. HandlersOK /\ OrderOK(c)
  BY DEF OrderInv
<1>1. /\ Len(Program(c)) \in Nat /\ DOMAIN Program(c) = 1..Len(Program(c))
      /\ handling[c].at \in Nat \ {0} /\ handling[c].at \in DOMAIN Program(c)
      /\ Now(c).does = "order" /\ Busy(c) /\ UNCHANGED <<balance, debited>>
      /\ orders' = orders \cup {[by |-> c, kind |-> handling[c].order]}
  BY <1>0, ProgramFacts DEF RecordsOrder, Ready
<1>2. /\ handling'[c].endpoint = handling[c].endpoint
      /\ handling'[c].at = handling[c].at + 1
  BY DEF Went, Becomes
<1>3. Program(c)' = Program(c)
  BY <1>2 DEF Program
<1>4. /\ Bought(c)' <=> Bought(c) \/ handling[c].order = "buy"
      /\ \A d \in DOMAIN handling : d # c => (Bought(d)' <=> Bought(d))
  <2> DEFINE new == [by |-> c, kind |-> handling[c].order]
  <2>1. new.by = c /\ new.kind = handling[c].order /\ orders' = orders \cup {new}
    BY <1>1
  <2> HIDE DEF new
  <2>2. \A d : Bought(d)' <=> Bought(d) \/ (new.by = d /\ new.kind = "buy")
    BY <2>1 DEF Bought
  <2> QED
    BY <2>1, <2>2
<1>5. ASSUME Busy(c)' PROVE Now(c)'.does \notin {"debit", "order"}
  <2>1. handling[c].at + 1 \in DOMAIN Program(c)
    BY <1>1, <1>2, <1>3, <1>5 DEF Busy
  <2>2. (handling[c].at + 1) - 1 = handling[c].at
    BY <1>1
  <2>3. /\ Program(c)[handling[c].at + 1].does = "debit" =>
              Program(c)[handling[c].at].does = "decide"
        /\ Program(c)[handling[c].at + 1].does = "order" =>
              Program(c)[handling[c].at].does = "debit"
    BY <1>0, <2>1, <2>2, OrderPlaces
  <2> QED
    BY <1>1, <1>2, <1>3, <2>3 DEF Now
<1>6. \A j \in DOMAIN Program(c) : handling'[c].at <= j => handling[c].at <= j
  BY <1>1, <1>2
<1>7. OrderOK(c)'
  BY <1>0, <1>1, <1>3, <1>4, <1>5, <1>6 DEF OrderOK
<1>8. ASSUME NEW d \in DOMAIN handling, d # c PROVE OrderOK(d)'
  <2>1. OrderOK(d) /\ Still(d) /\ (Bought(d)' <=> Bought(d))
    BY <1>4, <1>8 DEF OrderInv
  <2>2. /\ Program(d)' = Program(d) /\ (Busy(d)' <=> Busy(d)) /\ Now(d)' = Now(d)
        /\ handling'[d] = handling[d]
    BY <2>1 DEF Still, Program, Busy, Now
  <2> QED
    BY <1>1, <2>1, <2>2 DEF OrderOK
<1>9. \A o \in orders' : o.by \in DOMAIN handling
  BY <1>1 DEF OrderInv
<1> QED
  BY <1>1, <1>7, <1>8, <1>9 DEF OrderInv

LEMMA OrdersInitially == EndpointsInit => OrderInv
<1> SUFFICES ASSUME EndpointsInit PROVE OrderInv
  OBVIOUS
<1>1. HandlersOK
  BY HandlersInitially
<1>2. balance = Funds /\ orders = {} /\ debited = {}
  BY Zenon DEF EndpointsInit
<1>3. PICK w \in EndpointCalls :
        handling = [c \in DOMAIN w |->
            [endpoint |-> w[c].endpoint, user |-> w[c].user, at |-> 1, held |-> {},
             waits |-> FALSE, order |-> "none"]]
  BY Zenon DEF EndpointsInit
<1>4. ASSUME NEW c \in DOMAIN handling PROVE OrderOK(c)
  <2>1. handling[c].at = 1 /\ handling[c].order = "none"
    BY <1>3
  <2>2. ASSUME Busy(c) PROVE Now(c).does \notin {"debit", "order"}
    <3>1. 1 \in DOMAIN Program(c)
      BY <1>1, <2>1, <2>2, ProgramFacts
    <3>2. Program(c)[1].does \notin {"debit", "order"}
      BY <1>1, <3>1, OrderPlaces
    <3> QED
      BY <2>1, <3>2 DEF Now
  <2> QED
    BY <1>2, <2>2 DEF OrderOK, Bought
<1>5. IsFiniteSet({}) /\ Cardinality({}) = 0
  BY FS_EmptySet
<1> QED
  BY <1>1, <1>2, <1>4, <1>5 DEF OrderInv, Funds

LEMMA OrdersPreserved == OrderInv /\ [EndpointsNext]_endpointVars => OrderInv'
<1> SUFFICES ASSUME OrderInv, [EndpointsNext]_endpointVars PROVE OrderInv'
  OBVIOUS
<1>1. HandlersOK /\ HandlersOK'
  BY HandlersPreserved DEF OrderInv
<1>2. CASE UNCHANGED endpointVars
  <2>1. UNCHANGED <<handling, balance, orders, debited>>
    BY <1>2 DEF endpointVars
  <2>2. \A c \in DOMAIN handling : OrderOK(c)'
    BY <1>1, <2>1, OrdersQuiet DEF Plain, Still, OrderInv
  <2> QED
    BY <1>1, <2>1, <2>2 DEF OrderInv
<1>3. CASE EndpointsNext
  <2>1. DOMAIN handling' = DOMAIN handling
    <3>1. handling' = [d \in DOMAIN handling |-> handling'[d]]
      BY <1>1, <1>3, Moves
    <3> QED
      BY <3>1
  <2>2. CASE (\A d \in DOMAIN handling : Plain(d)) /\ UNCHANGED <<balance, orders, debited>>
    <3>1. \A c \in DOMAIN handling : OrderOK(c)'
      BY <1>1, <2>2, OrdersQuiet DEF OrderInv
    <3> QED
      BY <1>1, <2>1, <2>2, <3>1 DEF OrderInv
  <2>3. ASSUME NEW c \in DOMAIN handling, Decides(c), Decided(c),
               \A d \in DOMAIN handling : d # c => Still(d)
        PROVE  OrderInv'
    <3>1. UNCHANGED <<balance, orders, debited>>
      BY <2>3 DEF Decides, Unrelated
    <3>2. OrderOK(c)'
      BY <1>1, <2>3, <3>1, OrdersDecided DEF OrderInv
    <3>3. ASSUME NEW d \in DOMAIN handling, d # c PROVE OrderOK(d)'
      BY <1>1, <2>3, <3>1, <3>3, OrdersQuiet DEF Plain, OrderInv
    <3> QED
      BY <1>1, <2>1, <3>1, <3>2, <3>3 DEF OrderInv
  <2> QED
    BY <1>1, <1>3, <2>1, <2>2, <2>3, Moves, OrdersDebited, OrdersRecorded
<1> QED
  BY <1>2, <1>3

(***************************************************************************)
(* M-13, "we can't report a phantom execution with no corresponding        *)
(* debit", for any number of concurrent handlers: between the debit under  *)
(* Service.mu and the record under expandedState.mu nothing is held, and   *)
(* still a buy order on record is paid for, once, and a payment is either  *)
(* recorded or its handler is about to record it.                          *)
(***************************************************************************)
THEOREM OrdersPaid == EndpointsSpec => []OrdersFunded
<1>1. ASSUME OrderInv PROVE OrdersFunded
  <2> DEFINE recorded == {o.by : o \in {x \in orders : x.kind = "buy"}}
  <2>1. \A c : c \in recorded <=> Bought(c)
    BY DEF Bought
  <2>2. recorded \subseteq DOMAIN handling
    BY <1>1 DEF OrderInv
  <2>3. recorded \subseteq debited
    BY <1>1, <2>1, <2>2 DEF OrderInv, OrderOK
  <2>4. \A c \in debited \ recorded : Busy(c) /\ Now(c).does = "order"
    BY <1>1, <2>1 DEF OrderInv, OrderOK
  <2> QED
    BY <1>1, <2>3, <2>4 DEF OrdersFunded, OrderInv
<1> QED
  BY <1>1, OrdersInitially, OrdersPreserved, PTL DEF EndpointsSpec

-----------------------------------------------------------------------------
(***************************************************************************)
(* SIM bindings.                                                           *)
(***************************************************************************)
Owners == {NoUser} \cup {handling[c].user : c \in DOMAIN handling}

BindingInv == HandlersOK /\ bindings \in Seq(Owners)

\* What becomes of the bindings.
LEMMA BindingSteps ==
    ASSUME HandlersOK, EndpointsNext
    PROVE  /\ \/ bindings' = bindings
              \/ \E u \in Owners : bindings' = Append(bindings, u)
              \/ \E token \in DOMAIN bindings : \E u \in Owners :
                    /\ bindings[token] \in {NoUser, u}
                    /\ bindings' = [bindings EXCEPT ![token] = u]
           /\ Owners' = Owners
<1>1. Owners' = Owners
  <2>1. handling' = [d \in DOMAIN handling |-> handling'[d]]
    BY Moves
  <2>2. DOMAIN handling' = DOMAIN handling
    BY <2>1
  <2>3. \A d \in DOMAIN handling : handling'[d].user = handling[d].user
    BY Moves DEF Plain, Still, Waited, Went, Left, Decided, Becomes
  <2> QED
    BY <2>2, <2>3, Zenon DEF Owners, NoUser
<1>2. PICK c \in DOMAIN handling :
        \/ Binds(c) \/ Claims(c) \/ UNCHANGED bindings
  <2>1. PICK c \in DOMAIN handling :
        \/ Wait(c) \/ Passes(c) \/ Reads(c) \/ Unless(c)
        \/ Logs(c) \/ Puts(c) \/ Fills(c) \/ Absent(c) \/ Amends(c) \/ Drops(c) \/ Clears(c)
        \/ Audits(c) \/ BareAudit(c)
        \/ Binds(c) \/ Claims(c) \/ Threatens(c)
        \/ Decides(c) \/ Debits(c) \/ RecordsOrder(c)
    BY DEF EndpointsNext
  <2>2. CASE Wait(c) \/ Debits(c) \/ RecordsOrder(c)
    BY <2>2 DEF Wait, Debits, RecordsOrder
  <2>3. CASE Passes(c) \/ Reads(c) \/ Unless(c) \/ Logs(c) \/ Puts(c) \/ Fills(c)
    BY <2>3 DEF Passes, Reads, Unless, Logs, Puts, Fills, Unrelated
  <2>4. CASE Absent(c) \/ Amends(c) \/ Drops(c) \/ Clears(c) \/ Audits(c)
    BY <2>4 DEF Absent, Amends, Drops, Clears, Audits, Unrelated
  <2>5. CASE BareAudit(c) \/ Threatens(c) \/ Decides(c)
    BY <2>5 DEF BareAudit, Threatens, Decides, Unrelated
  <2> QED
    BY <2>1, <2>2, <2>3, <2>4, <2>5
<1>3. handling[c].user \in Owners /\ NoUser \in Owners
  BY DEF Owners
<1>4. CASE Binds(c)
  BY <1>1, <1>3, <1>4 DEF Binds
<1>5. CASE Claims(c)
  BY <1>1, <1>3, <1>5 DEF Claims, MayClaimBinding
<1> QED
  BY <1>1, <1>2, <1>4, <1>5

LEMMA BindingsInitially == EndpointsInit => BindingInv
<1> SUFFICES ASSUME EndpointsInit PROVE BindingInv
  OBVIOUS
<1>1. bindings = <<NoUser>>
  BY Zenon DEF EndpointsInit
<1>2. NoUser \in Owners
  BY DEF Owners
<1> QED
  BY <1>1, <1>2, HandlersInitially DEF BindingInv

LEMMA BindingsPreserved ==
    ASSUME BindingInv, [EndpointsNext]_endpointVars
    PROVE  /\ BindingInv'
           /\ \A token \in DOMAIN bindings :
                 bindings[token] # NoUser => bindings'[token] = bindings[token]
<1>1. HandlersOK /\ HandlersOK' /\ bindings \in Seq(Owners)
  BY HandlersPreserved DEF BindingInv
<1>2. CASE UNCHANGED endpointVars
  <2>1. UNCHANGED <<handling, bindings>>
    BY <1>2 DEF endpointVars
  <2>2. Owners' = Owners
    BY <2>1, Zenon DEF Owners, NoUser
  <2> QED
    BY <1>1, <2>1, <2>2 DEF BindingInv
<1>3. CASE EndpointsNext
  <2>1. Owners' = Owners
    BY <1>1, <1>3, BindingSteps
  <2>2. CASE bindings' = bindings
    BY <1>1, <2>1, <2>2 DEF BindingInv
  <2>3. ASSUME NEW u \in Owners, bindings' = Append(bindings, u)
        PROVE  /\ bindings' \in Seq(Owners)
               /\ \A token \in DOMAIN bindings : bindings'[token] = bindings[token]
    BY <1>1, <2>3, AppendProperties
  <2>4. ASSUME NEW token \in DOMAIN bindings, NEW u \in Owners,
               bindings[token] \in {NoUser, u}, bindings' = [bindings EXCEPT ![token] = u]
        PROVE  /\ bindings' \in Seq(Owners)
               /\ \A t \in DOMAIN bindings :
                     bindings[t] # NoUser => bindings'[t] = bindings[t]
    BY <1>1, <2>4, ExceptSeq
  <2> QED
    BY <1>1, <1>3, <2>1, <2>2, <2>3, <2>4, BindingSteps DEF BindingInv
<1> QED
  BY <1>2, <1>3

(***************************************************************************)
(* auth_sim_bind and auth_sim_bind_reverify, of any number of users at the *)
(* same time: mayClaimBinding is decided under expandedState.mu together   *)
(* with the assignment, so a token that belongs to a user never changes    *)
(* hands.                                                                  *)
(***************************************************************************)
THEOREM BindingsKept == EndpointsSpec => BindingKeepsOwner
<1>1. BindingInv /\ [EndpointsNext]_endpointVars => BindingInv'
  BY BindingsPreserved
<1>2. BindingInv /\ [EndpointsNext]_endpointVars =>
        [\A token \in DOMAIN bindings :
            bindings[token] # NoUser => bindings'[token] = bindings[token]]_bindings
  BY BindingsPreserved
<1> QED
  BY <1>1, <1>2, BindingsInitially, PTL DEF EndpointsSpec, BindingKeepsOwner
=============================================================================
