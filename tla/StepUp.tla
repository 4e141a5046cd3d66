------------------------------- MODULE StepUp -------------------------------
(***************************************************************************)
(* Step-up authentication of one user: one-time codes (GenerateOTP and     *)
(* VerifyOTPToken in service_expansion.go), passkey challenges             *)
(* (security/webauthn.go), and the routes that ask for them, some in a     *)
(* middleware and once more in the handler (api/router.go).                *)
(*                                                                         *)
(* Three locks are involved.  VerifyOTPToken holds exp.mu throughout and   *)
(* takes Service.mu twice for a moment, to find the profile and to clear   *)
(* the code; in between it reads the profile with exp.mu alone.            *)
(* GenerateOTP holds Service.mu throughout and writes the attempt counter  *)
(* and the lockout, which exp.mu is there to guard, without it.  A passkey *)
(* challenge is read under one critical section of the passkey manager and *)
(* consumed in another.                                                    *)
(*                                                                         *)
(* The user has a profile and a registered key.  Challenges bound to an    *)
(* action are not modelled: no route asks for one.                         *)
(***************************************************************************)
EXTENDS Naturals, Sequences, FiniteSets

CONSTANTS
    Requests,       \* requests of the user to guarded routes
    NoRequest,      \* stands for the absence of one
    Routes,         \* the routes they go to
    Codes,          \* one-time codes, each generated at most once
    NoCode,         \* stands for the absence of one
    Challenges,     \* passkey challenges
    NoChallenge,    \* stands for the absence of one
    MaxAttempts,    \* failed verifications before the lockout, 3 in the code
    Enforced        \* FINIX_REQUIRE_BIOMETRIC_CHALLENGE

ASSUME StepUpAssumption ==
    /\ NoRequest \notin Requests
    /\ NoCode \notin Codes
    /\ NoChallenge \notin Challenges
    /\ MaxAttempts \in Nat \ {0}
    /\ Enforced \in BOOLEAN

VARIABLES
    code,       \* profile.OTPCode
    expiry,     \* where the clock is with regard to profile.OTPExpiryTime
    attempts,   \* s.exp.otpAttempts
    locked,     \* s.exp.otpLockUntil is in the future
    generator,  \* the call of GenerateOTP that holds Service.mu, if any
    verifier,   \* the request whose VerifyOTPToken holds exp.mu, if any
    challenge,  \* the passkey manager's challenges
    request,    \* what each request is doing
    generated,  \* history: codes generated so far
    accepted,   \* history: how often each code was accepted
    wrong,      \* history: how often each code was compared with a wrong one
    consumed    \* history: how often each challenge was accepted

otpVars == <<code, expiry, attempts, locked>>
historyVars == <<generated, accepted, wrong, consumed>>
vars == <<otpVars, generator, verifier, challenge, request, historyVars>>

(***************************************************************************)
(* The checks on the way to each handler's effect, those of its middleware *)
(* first.  A check that is not strict lets a request without the           *)
(* credential pass unless the challenge is enforced.                       *)
(***************************************************************************)
OTP == [kind |-> "otp", strict |-> TRUE]
Bio == [kind |-> "bio", strict |-> TRUE]
LaxOTP == [kind |-> "otp", strict |-> FALSE]
LaxBio == [kind |-> "bio", strict |-> FALSE]

Checks(route) ==
    CASE route = "override"  -> <<OTP>>
      [] route = "unfreeze"  -> <<LaxBio, LaxOTP>>
      [] route = "order"     -> <<Bio, Bio>>
      [] route = "upi_set"   -> <<OTP, OTP>>
      [] route = "upi_reset" -> <<OTP, LaxBio, OTP>>
      [] route = "sip"       -> <<OTP, OTP>>
      [] route = "nominee"   -> <<OTP, LaxBio, OTP, Bio>>

(***************************************************************************)
(* A client is idle, or its request is at one of its route's checks, or    *)
(* inside it: it found the profile, its code matched, its signature        *)
(* verified.                                                               *)
(***************************************************************************)
Idle == [pc |-> "idle", route |-> "none", at |-> 0, code |-> NoCode,
         challenge |-> NoChallenge]

Init ==
    /\ code = NoCode
    /\ expiry = "none"
    /\ attempts = 0
    /\ locked = FALSE
    /\ generator = "idle"
    /\ verifier = NoRequest
    /\ challenge = [h \in Challenges |-> [status |-> "none", used |-> FALSE]]
    /\ request = [q \in Requests |-> Idle]
    /\ generated = {}
    /\ accepted = [c \in Codes |-> 0]
    /\ wrong = [c \in Codes |-> 0]
    /\ consumed = [h \in Challenges |-> 0]

-----------------------------------------------------------------------------
(***************************************************************************)
(* GenerateOTP, under Service.mu: it looks at the lockout, stores the code *)
(* in the profile, then resets the counter and the lockout.  A verifier    *)
(* that holds exp.mu runs in between.  The reset races with the increment  *)
(* of such a verifier: when it falls between the read and the write of the *)
(* increment it is lost, as if it had not been made.  (The Go runtime may  *)
(* also notice two writers of the map and stop the process, and with it    *)
(* every state of this module.)                                            *)
(***************************************************************************)
GenerateCheck ==
    /\ generator = "idle"
    /\ generated # Codes
    /\ ~locked
    /\ generator' = "checked"
    /\ UNCHANGED <<otpVars, verifier, challenge, request, historyVars>>

MayStore(c) == generator = "checked" /\ c \notin generated

GenerateStore(c) ==
    /\ MayStore(c)
    /\ code' = c
    /\ expiry' = "live"
    /\ generated' = generated \cup {c}
    /\ generator' = "stored"
    /\ UNCHANGED <<attempts, locked, verifier, challenge, request,
                   accepted, wrong, consumed>>

\* Mutant: exp.mu is taken for the reset, inside Service.mu.
MutMayReset == generator = "stored" /\ verifier = NoRequest

MayReset == generator = "stored"

GenerateReset ==
    /\ MayReset
    /\ \/ attempts' = 0
       \/ verifier # NoRequest /\ attempts' = attempts
    /\ locked' = FALSE
    /\ generator' = "idle"
    /\ UNCHANGED <<code, expiry, verifier, challenge, request, historyVars>>

-----------------------------------------------------------------------------
(***************************************************************************)
(* A request arrives with the credentials its route asks for, or without.  *)
(***************************************************************************)
AsksFor(route, kind) == \E i \in DOMAIN Checks(route) : Checks(route)[i].kind = kind

Arrive(q, route, c, h) ==
    /\ request[q].pc = "idle"
    /\ c # NoCode => AsksFor(route, "otp")
    /\ h # NoChallenge => AsksFor(route, "bio")
    /\ request' = [request EXCEPT ![q] = [pc |-> "check", route |-> route, at |-> 1,
                                          code |-> c, challenge |-> h]]
    /\ UNCHANGED <<otpVars, generator, verifier, challenge, historyVars>>

Check(q) == Checks(request[q].route)[request[q].at]

At(q, kind) == request[q].pc = "check" /\ Check(q).kind = kind

Missing(q) ==
    \/ At(q, "otp") /\ request[q].code = NoCode
    \/ At(q, "bio") /\ request[q].challenge = NoChallenge

\* The request passes its check: on to the next one, or to the effect.
Passed(q) ==
    IF request[q].at = Len(Checks(request[q].route))
    THEN Idle
    ELSE [request[q] EXCEPT !.pc = "check", !.at = @ + 1]

Pass(q) == request' = [request EXCEPT ![q] = Passed(q)]
Move(q, pc) == request' = [request EXCEPT ![q].pc = pc]
End(q) == request' = [request EXCEPT ![q] = Idle]

\* A gate without its credential: tolerated by a lax check, refused otherwise.
NoCredential(q) ==
    /\ Missing(q)
    /\ IF Check(q).strict \/ Enforced THEN End(q) ELSE Pass(q)
    /\ UNCHANGED <<otpVars, generator, verifier, challenge, historyVars>>

\* A handler turns a request down for its fields before it verifies anything itself.
Drop(q) ==
    /\ request[q].pc = "check"
    /\ End(q)
    /\ UNCHANGED <<otpVars, generator, verifier, challenge, historyVars>>

-----------------------------------------------------------------------------
(***************************************************************************)
(* VerifyOTPToken.  It takes exp.mu, looks at the lockout, and takes       *)
(* Service.mu to find the profile.                                         *)
(***************************************************************************)
MayLookup(q) ==
    /\ At(q, "otp")
    /\ ~Missing(q)
    /\ verifier = NoRequest
    /\ locked \/ generator = "idle"

OTPLookup(q) ==
    /\ MayLookup(q)
    /\ \/ /\ locked
          /\ End(q)
          /\ UNCHANGED verifier
       \/ /\ ~locked
          /\ Move(q, "found")
          /\ verifier' = q
    /\ UNCHANGED <<otpVars, generator, challenge, historyVars>>

Matches(q) == expiry = "live" /\ request[q].code = code

\* Mutant: the lockout comes one failure late.
MutLocksOut == attempts >= MaxAttempts

LocksOut == attempts + 1 >= MaxAttempts

\* The code has expired or differs: the attempt is counted, and the last one
\* starts the lockout and the count anew.
OTPFails(q) ==
    /\ request[q].pc = "found"
    /\ ~Matches(q)
    /\ attempts' = IF LocksOut THEN 0 ELSE attempts + 1
    /\ locked' = (locked \/ LocksOut)
    /\ wrong' = IF expiry = "live" THEN [wrong EXCEPT ![code] = @ + 1] ELSE wrong
    /\ End(q)
    /\ verifier' = NoRequest
    /\ UNCHANGED <<code, expiry, generator, challenge, generated,
                   accepted, consumed>>

OTPMatches(q) ==
    /\ request[q].pc = "found"
    /\ Matches(q)
    /\ Move(q, "matched")
    /\ UNCHANGED <<otpVars, generator, verifier, challenge, historyVars>>

\* Mutant: the code is left to its expiry.
MutOTPClear(q) ==
    /\ request[q].pc = "matched"
    /\ generator = "idle"
    /\ attempts' = 0
    /\ locked' = FALSE
    /\ accepted' = [accepted EXCEPT ![request[q].code] = @ + 1]
    /\ Pass(q)
    /\ verifier' = NoRequest
    /\ UNCHANGED <<code, expiry, generator, challenge, generated, wrong,
                   consumed>>

\* Whatever code the profile holds by now is cleared, under Service.mu.
MayClear(q) == request[q].pc = "matched" /\ generator = "idle"

OTPClear(q) ==
    /\ MayClear(q)
    /\ code' = NoCode
    /\ expiry' = "none"
    /\ attempts' = 0
    /\ locked' = FALSE
    /\ accepted' = [accepted EXCEPT ![request[q].code] = @ + 1]
    /\ Pass(q)
    /\ verifier' = NoRequest
    /\ UNCHANGED <<generator, challenge, generated, wrong, consumed>>

-----------------------------------------------------------------------------
(***************************************************************************)
(* The passkey manager.  Creating a challenge sweeps the expired ones.     *)
(***************************************************************************)
CreateChallenge(h) ==
    /\ challenge[h].status = "none"
    /\ challenge' = [g \in Challenges |->
                       CASE g = h -> [challenge[g] EXCEPT !.status = "live"]
                         [] challenge[g].status = "expired" ->
                              [challenge[g] EXCEPT !.status = "pruned"]
                         [] OTHER -> challenge[g]]
    /\ UNCHANGED <<otpVars, generator, verifier, request, historyVars>>

\* The read phase and the signature, which may be bad: that consumes nothing.
ChallengeRead(q) ==
    LET h == request[q].challenge IN
    /\ At(q, "bio")
    /\ ~Missing(q)
    /\ \/ challenge[h].status = "live" /\ ~challenge[h].used /\ Move(q, "signed")
       \/ End(q)
    /\ UNCHANGED <<otpVars, generator, verifier, challenge, historyVars>>

\* Mutant: the commit trusts the read phase.
MutConsumable(h) == challenge[h].status \in {"live", "expired"}

Consumable(h) == challenge[h].status \in {"live", "expired"} /\ ~challenge[h].used

\* The commit phase looks again, but not at the expiry.
ChallengeCommit(q) ==
    LET h == request[q].challenge IN
    /\ request[q].pc = "signed"
    /\ \/ /\ Consumable(h)
          /\ challenge' = [challenge EXCEPT ![h].used = TRUE]
          /\ consumed' = [consumed EXCEPT ![h] = @ + 1]
          /\ Pass(q)
       \/ /\ ~Consumable(h)
          /\ End(q)
          /\ UNCHANGED <<challenge, consumed>>
    /\ UNCHANGED <<otpVars, generator, verifier, generated, accepted, wrong>>

-----------------------------------------------------------------------------
(***************************************************************************)
(* The clock.  A code lives for 10 minutes and a lockout lasts 30, so the  *)
(* code that was live when it began is past when it ends.                  *)
(***************************************************************************)
CodeExpires ==
    /\ expiry = "live"
    /\ expiry' = "past"
    /\ UNCHANGED <<code, attempts, locked, generator, verifier, challenge,
                   request, historyVars>>

LockoutEnds ==
    /\ locked
    /\ expiry # "live"
    /\ locked' = FALSE
    /\ UNCHANGED <<code, expiry, attempts, generator, verifier, challenge,
                   request, historyVars>>

ChallengeExpires(h) ==
    /\ challenge[h].status = "live"
    /\ challenge' = [challenge EXCEPT ![h].status = "expired"]
    /\ UNCHANGED <<otpVars, generator, verifier, request, historyVars>>

Clock == CodeExpires \/ LockoutEnds \/ \E h \in Challenges : ChallengeExpires(h)

Generate == GenerateCheck \/ (\E c \in Codes : GenerateStore(c)) \/ GenerateReset

\* A request in flight goes on.
Proceed(q) ==
    \/ NoCredential(q)
    \/ Drop(q)
    \/ OTPLookup(q)
    \/ OTPFails(q)
    \/ OTPMatches(q)
    \/ OTPClear(q)
    \/ ChallengeRead(q)
    \/ ChallengeCommit(q)

Next ==
    \/ Generate
    \/ \E q \in Requests :
          \/ \E route \in Routes, c \in Codes \cup {NoCode},
                h \in Challenges \cup {NoChallenge} : Arrive(q, route, c, h)
          \/ Proceed(q)
    \/ \E h \in Challenges : CreateChallenge(h)
    \/ Clock

Spec == Init /\ [][Next]_vars

-----------------------------------------------------------------------------
(***************************************************************************)
(* A one-time code is accepted at most once (M-4: "a valid OTP can't be    *)
(* replayed by two concurrent requests"), whatever GenerateOTP does        *)
(* between the comparison and the clearing.                                *)
(***************************************************************************)
CodeAcceptedOnce == \A c \in Codes : accepted[c] <= 1

(***************************************************************************)
(* A passkey challenge authorises at most one request, although its state  *)
(* is read before the signature is checked and consumed after it, and may  *)
(* expire or be swept in between.                                          *)
(***************************************************************************)
ChallengeConsumedOnce == \A h \in Challenges : consumed[h] <= 1

(***************************************************************************)
(* The lockout bounds the wrong tries against one code, although a new     *)
(* code resets the counter without exp.mu.  The reset can cost one try:    *)
(* that of the verifier that was already inside when the code was stored.  *)
(***************************************************************************)
TriesBounded == \A c \in Codes : wrong[c] <= MaxAttempts + 1

(***************************************************************************)
(* Nobody waits in a circle: VerifyOTPToken waits for Service.mu while it  *)
(* holds exp.mu, GenerateOTP holds Service.mu while it writes what exp.mu  *)
(* guards.  While a call is under way, one of those under way can go on,   *)
(* and not only because a handler may turn its request down.               *)
(***************************************************************************)
MayProceed(q) ==
    \/ request[q].pc \in {"found", "signed"}
    \/ MayClear(q)
    \/ MayLookup(q) \/ Missing(q)
    \/ request[q].pc = "check" /\ ~At(q, "otp")

NoDeadlock ==
    generator # "idle" \/ (\E q \in Requests : request[q].pc # "idle") =>
        \/ MayReset
        \/ \E c \in Codes : MayStore(c)
        \/ \E q \in Requests : MayProceed(q)
=============================================================================
