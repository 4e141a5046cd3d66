---------------------------- MODULE StepUpProofs ----------------------------
(***************************************************************************)
(* Safety of one-time codes and passkey challenges, for any number of      *)
(* concurrent requests, codes and challenges and any lockout threshold.    *)
(***************************************************************************)
EXTENDS StepUp, TLAPS

(***************************************************************************)
(* The types the argument needs.                                           *)
(***************************************************************************)
RequestRecord ==
    [pc : {"idle", "check", "found", "matched", "signed"},
     route : Routes \cup {"none"}, at : Nat,
     code : Codes \cup {NoCode}, challenge : Challenges \cup {NoChallenge}]

ChallengeRecord ==
    [status : {"none", "live", "expired", "pruned"}, used : BOOLEAN]

TypeOK ==
    /\ code \in Codes \cup {NoCode}
    /\ expiry \in {"none", "live", "past"}
    /\ attempts \in 0..(MaxAttempts - 1)
    /\ locked \in BOOLEAN
    /\ generator \in {"idle", "checked", "stored"}
    /\ verifier \in Requests \cup {NoRequest}
    /\ challenge \in [Challenges -> ChallengeRecord]
    /\ request \in [Requests -> RequestRecord]
    /\ generated \subseteq Codes
    /\ accepted \in [Codes -> Nat]
    /\ wrong \in [Codes -> Nat]
    /\ consumed \in [Challenges -> Nat]

\* Inside VerifyOTPToken, between taking exp.mu and letting it go.
Verifying(q) == request[q].pc \in {"found", "matched"}

(***************************************************************************)
(* exp.mu admits one verifier, which came with a code, and none is inside  *)
(* while the lockout is in force.  A signature was checked for a challenge *)
(* that was presented.                                                     *)
(***************************************************************************)
OneVerifier ==
    /\ \A q \in Requests : Verifying(q) => verifier = q /\ request[q].code \in Codes
    /\ \A q \in Requests : request[q].pc = "signed" => request[q].challenge \in Challenges
    /\ locked => verifier = NoRequest

(***************************************************************************)
(* A code that can still be accepted, because the profile holds it or a    *)
(* verifier has matched it, was not accepted before; and one that has not  *)
(* been generated yet was never seen.                                      *)
(***************************************************************************)
CodesUnspent ==
    /\ expiry = "live" => code \in Codes
    /\ code \in Codes => code \in generated /\ accepted[code] = 0
    /\ \A c \in Codes \ generated : accepted[c] = 0 /\ wrong[c] = 0
    /\ \A q \in Requests : request[q].pc = "matched" =>
          request[q].code \in generated /\ accepted[request[q].code] = 0

ChallengesUnspent ==
    \A h \in Challenges : consumed[h] <= 1 /\ (~challenge[h].used => consumed[h] = 0)

(***************************************************************************)
(* The attempt counter is at most one behind the wrong tries against the   *)
(* live code: between GenerateOTP's storing it and the reset of the counter *)
(* only the verifier that was already inside can try, once.  While the     *)
(* lockout is in force nobody tries, and it outlasts the code.             *)
(***************************************************************************)
CounterFollows ==
    expiry = "live" =>
        /\ generator = "stored" =>
              /\ wrong[code] <= 1
              /\ verifier # NoRequest => wrong[code] = 0
        /\ (generator # "stored" /\ ~locked) => wrong[code] <= attempts + 1

IndInv ==
    /\ TypeOK
    /\ OneVerifier
    /\ CodesUnspent
    /\ CodeAcceptedOnce
    /\ ChallengesUnspent
    /\ TriesBounded
    /\ CounterFollows

USE StepUpAssumption

-----------------------------------------------------------------------------
(***************************************************************************)
(* What becomes of a request's record.                                     *)
(***************************************************************************)
\* A request that is turned down, or passes a check, is inside none.
LEMMA LeavesCheck ==
    ASSUME TypeOK, NEW q \in Requests
    PROVE  /\ Idle \in RequestRecord /\ Idle.pc = "idle"
           /\ Passed(q) \in RequestRecord /\ Passed(q).pc \in {"idle", "check"}
<1>1. Idle \in RequestRecord /\ Idle.pc = "idle"
  BY DEF Idle, RequestRecord
<1>2. request[q] \in RequestRecord
  BY DEF TypeOK
<1>3. \A n \in Nat : [request[q] EXCEPT !.pc = "check", !.at = n] \in RequestRecord
  BY <1>2 DEF RequestRecord
<1>4. request[q].at + 1 \in Nat
  BY <1>2 DEF RequestRecord
<1>5. /\ [request[q] EXCEPT !.pc = "check", !.at = @ + 1] \in RequestRecord
      /\ [request[q] EXCEPT !.pc = "check", !.at = @ + 1].pc = "check"
  BY <1>2, <1>3, <1>4 DEF RequestRecord
<1> QED
  BY <1>1, <1>5 DEF Passed

\* A request moves on inside a check with its credentials.
LEMMA MovesInside ==
    ASSUME TypeOK, NEW q \in Requests, NEW p \in {"found", "matched", "signed"}, Move(q, p)
    PROVE  \E v \in RequestRecord :
              /\ request' = [request EXCEPT ![q] = v]
              /\ v.pc = p /\ v.code = request[q].code /\ v.challenge = request[q].challenge
<1> DEFINE v == [request[q] EXCEPT !.pc = p]
<1>1. v \in RequestRecord /\ v.pc = p /\ v.code = request[q].code
        /\ v.challenge = request[q].challenge
  BY DEF TypeOK, RequestRecord
<1>2. request' = [request EXCEPT ![q] = v]
  BY DEF Move
<1> QED
  BY <1>1, <1>2

\* What holds of one request's record, in relation to the rest of the state.
LEMMA ReplacesRecord ==
    ASSUME TypeOK, NEW q \in Requests, NEW v \in RequestRecord,
           request' = [request EXCEPT ![q] = v]
    PROVE  /\ request' \in [Requests -> RequestRecord]
           /\ request'[q] = v
           /\ \A p \in Requests \ {q} : request'[p] = request[p]
BY DEF TypeOK

-----------------------------------------------------------------------------
(***************************************************************************)
(* Steps that change nothing but where requests are.                       *)
(***************************************************************************)
\* A request goes to a place where nothing is required of it.
LEMMA StaysOutside ==
    ASSUME IndInv, NEW q \in Requests, NEW v \in RequestRecord,
           request' = [request EXCEPT ![q] = v],
           v.pc \in {"idle", "check"} \/ (v.pc = "signed" /\ v.challenge \in Challenges),
           UNCHANGED <<otpVars, generator, verifier, challenge, historyVars>>
    PROVE  IndInv'
<1> USE DEF IndInv, otpVars, historyVars
<1>1. /\ request' \in [Requests -> RequestRecord]
      /\ request'[q] = v
      /\ \A p \in Requests \ {q} : request'[p] = request[p]
  BY ReplacesRecord
<1>2. TypeOK'
  BY <1>1 DEF TypeOK
<1>3. OneVerifier' /\ CodesUnspent'
  BY <1>1 DEF OneVerifier, CodesUnspent, Verifying
<1>4. CodeAcceptedOnce' /\ ChallengesUnspent' /\ TriesBounded' /\ CounterFollows'
  BY DEF CodeAcceptedOnce, ChallengesUnspent, TriesBounded, CounterFollows
<1> QED
  BY <1>2, <1>3, <1>4

\* Arrivals, and requests refused or let through without a credential.
LEMMA TransitPreserves ==
    ASSUME IndInv, NEW q \in Requests,
           \/ \E route \in Routes, c \in Codes \cup {NoCode},
                 h \in Challenges \cup {NoChallenge} : Arrive(q, route, c, h)
           \/ NoCredential(q)
           \/ Drop(q)
    PROVE  IndInv'
<1>0. TypeOK
  BY DEF IndInv
<1>1. ASSUME NEW route \in Routes, NEW c \in Codes \cup {NoCode},
             NEW h \in Challenges \cup {NoChallenge}, Arrive(q, route, c, h)
      PROVE  IndInv'
  <2> DEFINE v == [pc |-> "check", route |-> route, at |-> 1, code |-> c, challenge |-> h]
  <2>1. v \in RequestRecord /\ v.pc = "check"
    BY DEF RequestRecord
  <2> QED
    BY <1>1, <2>1, StaysOutside DEF Arrive
<1>2. CASE NoCredential(q)
  <2>1. PICK v \in {Idle, Passed(q)} : request' = [request EXCEPT ![q] = v]
    BY <1>2 DEF NoCredential, End, Pass
  <2> QED
    BY <1>0, <1>2, <2>1, LeavesCheck, StaysOutside DEF NoCredential
<1>3. CASE Drop(q)
  BY <1>0, <1>3, LeavesCheck, StaysOutside DEF Drop, End
<1> QED
  BY <1>1, <1>2, <1>3

\* The read phase of a passkey verification.
LEMMA ChallengeReadPreserves ==
    ASSUME IndInv, NEW q \in Requests, ChallengeRead(q)
    PROVE  IndInv'
<1>0. TypeOK
  BY DEF IndInv
<1>1. CASE Move(q, "signed")
  <2>1. PICK v \in RequestRecord :
          request' = [request EXCEPT ![q] = v] /\ v.pc = "signed"
            /\ v.challenge = request[q].challenge
    BY <1>0, <1>1, MovesInside
  <2>2. request[q].challenge \in Challenges
    BY <1>0 DEF ChallengeRead, Missing, TypeOK, RequestRecord
  <2> QED
    BY <2>1, <2>2, StaysOutside DEF ChallengeRead
<1>2. CASE End(q)
  BY <1>0, <1>2, LeavesCheck, StaysOutside DEF ChallengeRead, End
<1> QED
  BY <1>1, <1>2 DEF ChallengeRead

-----------------------------------------------------------------------------
(***************************************************************************)
(* VerifyOTPToken.                                                         *)
(***************************************************************************)
\* exp.mu is taken, or the lockout refuses.
LEMMA OTPLookupPreserves ==
    ASSUME IndInv, NEW q \in Requests, OTPLookup(q)
    PROVE  IndInv'
<1> USE DEF IndInv
<1>1. CASE locked
  BY <1>1, LeavesCheck, StaysOutside DEF OTPLookup, End
<1>2. CASE ~locked
  <2>1. /\ verifier = NoRequest /\ verifier' = q /\ generator = "idle"
        /\ Move(q, "found")
        /\ UNCHANGED <<code, expiry, attempts, locked, generator, challenge,
                       generated, accepted, wrong, consumed>>
    BY <1>2 DEF OTPLookup, MayLookup, otpVars, historyVars
  <2>2. PICK v \in RequestRecord :
          /\ request' = [request EXCEPT ![q] = v]
          /\ v.pc = "found" /\ v.code = request[q].code
    BY <2>1, MovesInside
  <2>3. /\ request' \in [Requests -> RequestRecord]
        /\ request'[q] = v
        /\ \A p \in Requests \ {q} : request'[p] = request[p]
    BY <2>2, ReplacesRecord
  <2>4. v.code \in Codes
    BY <2>2 DEF OTPLookup, MayLookup, Missing, At, TypeOK, RequestRecord
  <2>5. TypeOK'
    BY <2>1, <2>3 DEF TypeOK
  <2>6. OneVerifier'
    BY <1>2, <2>1, <2>2, <2>3, <2>4 DEF OneVerifier, Verifying
  <2>7. CodesUnspent'
    BY <2>1, <2>2, <2>3 DEF CodesUnspent
  <2>8. CodeAcceptedOnce' /\ ChallengesUnspent' /\ TriesBounded' /\ CounterFollows'
    BY <2>1 DEF CodeAcceptedOnce, ChallengesUnspent, TriesBounded, CounterFollows
  <2> QED
    BY <2>5, <2>6, <2>7, <2>8
<1> QED
  BY <1>1, <1>2

\* The code matches: it is the live one, so nobody has spent it.
LEMMA OTPMatchesPreserves ==
    ASSUME IndInv, NEW q \in Requests, OTPMatches(q)
    PROVE  IndInv'
<1> USE DEF IndInv
<1>1. /\ request[q].pc = "found" /\ expiry = "live" /\ request[q].code = code
      /\ Move(q, "matched")
      /\ UNCHANGED <<code, expiry, attempts, locked, generator, verifier, challenge,
                     generated, accepted, wrong, consumed>>
  BY DEF OTPMatches, Matches, otpVars, historyVars
<1>2. PICK v \in RequestRecord :
        /\ request' = [request EXCEPT ![q] = v]
        /\ v.pc = "matched" /\ v.code = request[q].code
  BY <1>1, MovesInside
<1>3. /\ request' \in [Requests -> RequestRecord]
      /\ request'[q] = v
      /\ \A p \in Requests \ {q} : request'[p] = request[p]
  BY <1>2, ReplacesRecord
<1>4. TypeOK'
  BY <1>1, <1>3 DEF TypeOK
<1>5. OneVerifier' /\ CodesUnspent'
  BY <1>1, <1>2, <1>3 DEF OneVerifier, CodesUnspent, Verifying
<1>6. CodeAcceptedOnce' /\ ChallengesUnspent' /\ TriesBounded' /\ CounterFollows'
  BY <1>1 DEF CodeAcceptedOnce, ChallengesUnspent, TriesBounded, CounterFollows
<1> QED
  BY <1>4, <1>5, <1>6

\* A wrong try is counted, and the last one starts the lockout.
LEMMA OTPFailsPreserves ==
    ASSUME IndInv, NEW q \in Requests, OTPFails(q)
    PROVE  IndInv'
<1> USE DEF IndInv
<1>1. /\ request[q].pc = "found" /\ verifier = q
      /\ attempts' = IF LocksOut THEN 0 ELSE attempts + 1
      /\ locked' = (locked \/ LocksOut)
      /\ wrong' = IF expiry = "live" THEN [wrong EXCEPT ![code] = @ + 1] ELSE wrong
      /\ verifier' = NoRequest
      /\ request' = [request EXCEPT ![q] = Idle]
      /\ UNCHANGED <<code, expiry, generator, challenge, generated, accepted, consumed>>
  BY DEF OTPFails, End, OneVerifier, Verifying
<1>2. ~locked
  BY <1>1 DEF OneVerifier
<1>3. /\ request' \in [Requests -> RequestRecord]
      /\ request'[q] = Idle /\ Idle.pc = "idle"
      /\ \A p \in Requests \ {q} : request'[p] = request[p]
  BY <1>1, LeavesCheck, ReplacesRecord
<1>4. attempts' \in 0..(MaxAttempts - 1)
  BY <1>1 DEF TypeOK, LocksOut
<1>5. wrong' \in [Codes -> Nat]
  BY <1>1 DEF TypeOK, CodesUnspent
<1>6. TypeOK'
  <2>1. locked' \in BOOLEAN
    BY <1>1, Zenon
  <2> QED
    BY <1>1, <1>3, <1>4, <1>5, <2>1 DEF TypeOK
<1>7. OneVerifier'
  BY <1>1, <1>3 DEF OneVerifier, Verifying
<1>8. CodesUnspent'
  <2>1. \A c \in Codes \ generated : wrong'[c] = 0
    BY <1>1 DEF TypeOK, CodesUnspent
  <2> QED
    BY <1>1, <1>3, <2>1 DEF CodesUnspent
<1>9. CodeAcceptedOnce' /\ ChallengesUnspent'
  BY <1>1 DEF CodeAcceptedOnce, ChallengesUnspent
<1>10. /\ expiry = "live" => wrong'[code] = wrong[code] + 1 /\ wrong[code] \in Nat
       /\ \A c \in Codes : (expiry = "live" /\ c = code) \/ wrong'[c] = wrong[c]
  BY <1>1 DEF TypeOK, CodesUnspent
<1>11. TriesBounded'
  <2>1. expiry = "live" => wrong'[code] <= MaxAttempts + 1
    BY <1>1, <1>2, <1>10 DEF TypeOK, CounterFollows
  <2> QED
    BY <1>10, <2>1 DEF TriesBounded
<1>12. CounterFollows'
  <2>1. CASE generator = "stored"
    BY <1>1, <1>10, <2>1 DEF CounterFollows, TypeOK
  <2>2. CASE generator # "stored" /\ LocksOut
    BY <1>1, <2>2 DEF CounterFollows
  <2>3. CASE generator # "stored" /\ ~LocksOut
    BY <1>1, <1>2, <1>10, <2>3 DEF CounterFollows, TypeOK
  <2> QED
    BY <2>1, <2>2, <2>3
<1> QED
  BY <1>6, <1>7, <1>8, <1>9, <1>11, <1>12

\* The code is accepted and whatever the profile holds is cleared.
LEMMA OTPClearPreserves ==
    ASSUME IndInv, NEW q \in Requests, OTPClear(q)
    PROVE  IndInv'
<1> USE DEF IndInv
<1>1. /\ request[q].pc = "matched" /\ verifier = q
      /\ code' = NoCode /\ expiry' = "none" /\ attempts' = 0 /\ locked' = FALSE
      /\ accepted' = [accepted EXCEPT ![request[q].code] = @ + 1]
      /\ request' = [request EXCEPT ![q] = Passed(q)]
      /\ verifier' = NoRequest
      /\ UNCHANGED <<generator, challenge, generated, wrong, consumed>>
  BY DEF OTPClear, MayClear, Pass, OneVerifier, Verifying
<1>2. /\ request' \in [Requests -> RequestRecord]
      /\ request'[q] = Passed(q) /\ Passed(q).pc \in {"idle", "check"}
      /\ \A p \in Requests \ {q} : request'[p] = request[p]
  BY <1>1, LeavesCheck, ReplacesRecord
<1>3. /\ request[q].code \in Codes /\ request[q].code \in generated
      /\ accepted[request[q].code] = 0
  BY <1>1 DEF OneVerifier, CodesUnspent, Verifying
<1>4. /\ accepted' \in [Codes -> Nat]
      /\ accepted'[request[q].code] = 1
      /\ \A c \in Codes \ {request[q].code} : accepted'[c] = accepted[c]
  BY <1>1, <1>3 DEF TypeOK
<1>5. TypeOK'
  <2>1. locked' \in BOOLEAN
    BY <1>1, Zenon
  <2> QED
    BY <1>1, <1>2, <1>4, <2>1 DEF TypeOK
<1>6. \A p \in Requests : ~Verifying(p)'
  BY <1>1, <1>2 DEF OneVerifier, Verifying
<1>7. OneVerifier'
  BY <1>1, <1>2, <1>6 DEF OneVerifier
<1>8. CodesUnspent'
  BY <1>1, <1>3, <1>4, <1>6 DEF CodesUnspent, Verifying
<1>9. CodeAcceptedOnce'
  BY <1>3, <1>4 DEF CodeAcceptedOnce
<1>10. ChallengesUnspent' /\ TriesBounded' /\ CounterFollows'
  BY <1>1 DEF ChallengesUnspent, TriesBounded, CounterFollows
<1> QED
  BY <1>5, <1>7, <1>8, <1>9, <1>10

-----------------------------------------------------------------------------
(***************************************************************************)
(* GenerateOTP.                                                            *)
(***************************************************************************)
\* It looks at the lockout, stores a new code, resets the counter.
LEMMA GeneratePreserves ==
    ASSUME IndInv, Generate
    PROVE  IndInv'
<1> USE DEF IndInv
<1>1. CASE GenerateCheck
  <2>1. /\ generator = "idle" /\ generator' = "checked"
        /\ UNCHANGED <<code, expiry, attempts, locked, verifier, challenge, request,
                       generated, accepted, wrong, consumed>>
    BY <1>1 DEF GenerateCheck, otpVars, historyVars
  <2>2. TypeOK' /\ OneVerifier' /\ CodesUnspent'
    BY <2>1 DEF TypeOK, OneVerifier, CodesUnspent, Verifying
  <2>3. CodeAcceptedOnce' /\ ChallengesUnspent' /\ TriesBounded' /\ CounterFollows'
    BY <2>1 DEF CodeAcceptedOnce, ChallengesUnspent, TriesBounded, CounterFollows
  <2> QED
    BY <2>2, <2>3
<1>2. ASSUME NEW c \in Codes, GenerateStore(c)
      PROVE  IndInv'
  <2>1. /\ c \notin generated
        /\ code' = c /\ expiry' = "live" /\ generated' = generated \cup {c}
        /\ generator' = "stored"
        /\ UNCHANGED <<attempts, locked, verifier, challenge, request,
                       accepted, wrong, consumed>>
    BY <1>2 DEF GenerateStore, MayStore
  <2>2. accepted[c] = 0 /\ wrong[c] = 0
    BY <2>1 DEF CodesUnspent
  <2>3. TypeOK' /\ OneVerifier'
    BY <2>1 DEF TypeOK, OneVerifier, Verifying
  <2>4. CodesUnspent' /\ CounterFollows'
    BY <2>1, <2>2 DEF CodesUnspent, CounterFollows
  <2>5. CodeAcceptedOnce' /\ ChallengesUnspent' /\ TriesBounded'
    BY <2>1 DEF CodeAcceptedOnce, ChallengesUnspent, TriesBounded
  <2> QED
    BY <2>3, <2>4, <2>5
<1>3. CASE GenerateReset
  <2>1. /\ generator = "stored" /\ generator' = "idle" /\ locked' = FALSE
        /\ attempts' = 0 \/ (verifier # NoRequest /\ attempts' = attempts)
        /\ UNCHANGED <<code, expiry, verifier, challenge, request,
                       generated, accepted, wrong, consumed>>
    BY <1>3 DEF GenerateReset, MayReset, historyVars
  <2>2. TypeOK'
    <3>1. locked' \in BOOLEAN
      BY <2>1, Zenon
    <3>2. attempts' \in 0..(MaxAttempts - 1)
      BY <2>1 DEF TypeOK
    <3> QED
      BY <2>1, <3>1, <3>2 DEF TypeOK
  <2>3. OneVerifier' /\ CodesUnspent'
    BY <2>1 DEF OneVerifier, CodesUnspent, Verifying
  <2>4. CodeAcceptedOnce' /\ ChallengesUnspent' /\ TriesBounded'
    BY <2>1 DEF CodeAcceptedOnce, ChallengesUnspent, TriesBounded
  <2>5. CounterFollows'
    BY <2>1 DEF CounterFollows, TypeOK
  <2> QED
    BY <2>2, <2>3, <2>4, <2>5
<1> QED
  BY <1>1, <1>2, <1>3 DEF Generate

-----------------------------------------------------------------------------
(***************************************************************************)
(* The passkey manager and the clock.                                      *)
(***************************************************************************)
\* The commit phase looks again whether the challenge was used.
LEMMA ChallengeCommitPreserves ==
    ASSUME IndInv, NEW q \in Requests, ChallengeCommit(q)
    PROVE  IndInv'
<1> USE DEF IndInv
<1> DEFINE h == request[q].challenge
<1>1. request[q].pc = "signed" /\ h \in Challenges
  BY DEF ChallengeCommit, OneVerifier
<1>2. CASE ~Consumable(h)
  <2>1. /\ request' = [request EXCEPT ![q] = Idle]
        /\ UNCHANGED <<otpVars, generator, verifier, challenge, historyVars>>
    BY <1>2 DEF ChallengeCommit, End, otpVars, historyVars
  <2> QED
    BY <2>1, LeavesCheck, StaysOutside
<1>3. CASE Consumable(h)
  <2>1. /\ ~challenge[h].used
        /\ challenge' = [challenge EXCEPT ![h].used = TRUE]
        /\ consumed' = [consumed EXCEPT ![h] = @ + 1]
        /\ request' = [request EXCEPT ![q] = Passed(q)]
        /\ UNCHANGED <<code, expiry, attempts, locked, generator, verifier,
                       generated, accepted, wrong>>
    BY <1>3 DEF ChallengeCommit, Consumable, Pass, otpVars
  <2>2. /\ request' \in [Requests -> RequestRecord]
        /\ request'[q] = Passed(q) /\ Passed(q).pc \in {"idle", "check"}
        /\ \A p \in Requests \ {q} : request'[p] = request[p]
    BY <2>1, LeavesCheck, ReplacesRecord
  <2>3. /\ challenge' \in [Challenges -> ChallengeRecord]
        /\ consumed' \in [Challenges -> Nat]
    <3>1. \A b \in BOOLEAN : [challenge[h] EXCEPT !.used = b] \in ChallengeRecord
      BY <1>1 DEF TypeOK, ChallengeRecord
    <3>2. [challenge[h] EXCEPT !.used = TRUE] \in ChallengeRecord
      BY <3>1, Zenon
    <3>3. challenge' = [challenge EXCEPT ![h] = [challenge[h] EXCEPT !.used = TRUE]]
      BY <2>1
    <3> QED
      BY <1>1, <2>1, <3>2, <3>3 DEF TypeOK
  <2>4. TypeOK'
    BY <2>1, <2>2, <2>3 DEF TypeOK
  <2>5. OneVerifier' /\ CodesUnspent'
    BY <2>1, <2>2 DEF OneVerifier, CodesUnspent, Verifying
  <2>6. CodeAcceptedOnce' /\ TriesBounded' /\ CounterFollows'
    BY <2>1 DEF CodeAcceptedOnce, TriesBounded, CounterFollows
  <2>7. ChallengesUnspent'
    <3>1. consumed[h] = 0
      BY <1>1, <2>1 DEF ChallengesUnspent
    <3>2. consumed'[h] = 1 /\ challenge'[h].used
      BY <1>1, <2>1, <3>1 DEF TypeOK, ChallengeRecord
    <3>3. \A g \in Challenges \ {h} : consumed'[g] = consumed[g] /\ challenge'[g] = challenge[g]
      BY <1>1, <2>1 DEF TypeOK
    <3> QED
      BY <1>1, <3>2, <3>3 DEF ChallengesUnspent
  <2> QED
    BY <2>4, <2>5, <2>6, <2>7
<1> QED
  BY <1>2, <1>3

\* A challenge is created, swept or expires: none is used by that.
LEMMA ChallengeClockPreserves ==
    ASSUME IndInv, NEW h \in Challenges, CreateChallenge(h) \/ ChallengeExpires(h)
    PROVE  IndInv'
<1> USE DEF IndInv
<1>1. UNCHANGED <<code, expiry, attempts, locked, generator, verifier, request,
                  generated, accepted, wrong, consumed>>
  BY DEF CreateChallenge, ChallengeExpires, otpVars, historyVars
<1>2. /\ challenge' \in [Challenges -> ChallengeRecord]
      /\ \A g \in Challenges : challenge'[g].used = challenge[g].used
  <2>1. \A g \in Challenges, st \in {"live", "expired", "pruned"} :
          /\ [challenge[g] EXCEPT !.status = st] \in ChallengeRecord
          /\ [challenge[g] EXCEPT !.status = st].used = challenge[g].used
    BY DEF TypeOK, ChallengeRecord
  <2>2. CASE CreateChallenge(h)
    BY <2>1, <2>2 DEF CreateChallenge, TypeOK
  <2>3. CASE ChallengeExpires(h)
    <3>1. challenge' = [challenge EXCEPT ![h] = [challenge[h] EXCEPT !.status = "expired"]]
      BY <2>3 DEF ChallengeExpires
    <3> QED
      BY <2>1, <3>1 DEF TypeOK
  <2> QED
    BY <2>2, <2>3
<1>3. TypeOK'
  BY <1>1, <1>2 DEF TypeOK
<1>4. OneVerifier' /\ CodesUnspent' /\ CodeAcceptedOnce' /\ TriesBounded' /\ CounterFollows'
  BY <1>1 DEF OneVerifier, CodesUnspent, Verifying, CodeAcceptedOnce, TriesBounded,
              CounterFollows
<1>5. ChallengesUnspent'
  BY <1>1, <1>2 DEF ChallengesUnspent
<1> QED
  BY <1>3, <1>4, <1>5

\* A code expires, a lockout ends.
LEMMA OTPClockPreserves ==
    ASSUME IndInv, CodeExpires \/ LockoutEnds
    PROVE  IndInv'
<1> USE DEF IndInv
<1>1. /\ expiry' # "live" /\ expiry' \in {"none", "past"}
      /\ locked' = locked \/ locked' = FALSE
      /\ UNCHANGED <<code, attempts, generator, verifier, challenge, request,
                     generated, accepted, wrong, consumed>>
  BY DEF CodeExpires, LockoutEnds, historyVars, TypeOK
<1>2. locked' => locked
  BY <1>1 DEF TypeOK
<1>3. TypeOK'
  <2>1. locked' \in BOOLEAN
    BY <1>1, Zenon DEF TypeOK
  <2> QED
    BY <1>1, <2>1 DEF TypeOK
<1>4. OneVerifier' /\ CodesUnspent'
  BY <1>1, <1>2 DEF OneVerifier, CodesUnspent, Verifying
<1>5. CodeAcceptedOnce' /\ ChallengesUnspent' /\ TriesBounded' /\ CounterFollows'
  BY <1>1 DEF CodeAcceptedOnce, ChallengesUnspent, TriesBounded, CounterFollows
<1> QED
  BY <1>3, <1>4, <1>5

-----------------------------------------------------------------------------
\* A user without codes, challenges or requests.
LEMMA InitEstablishes == Init => IndInv
<1> SUFFICES ASSUME Init PROVE IndInv
  OBVIOUS
<1>1. TypeOK
  <2>1. locked \in BOOLEAN
    BY Zenon DEF Init
  <2>2. challenge \in [Challenges -> ChallengeRecord] /\ request \in [Requests -> RequestRecord]
    BY DEF Init, ChallengeRecord, RequestRecord, Idle
  <2> QED
    BY <2>1, <2>2 DEF Init, TypeOK
<1>2. OneVerifier /\ CodesUnspent /\ CounterFollows
  BY DEF Init, OneVerifier, CodesUnspent, CounterFollows, Verifying, Idle
<1>3. CodeAcceptedOnce /\ ChallengesUnspent /\ TriesBounded
  BY DEF Init, CodeAcceptedOnce, ChallengesUnspent, TriesBounded
<1> QED
  BY <1>1, <1>2, <1>3 DEF IndInv

\* Every step of requests, generators and clocks preserves the invariant.
LEMMA NextPreserves == IndInv /\ [Next]_vars => IndInv'
<1> SUFFICES ASSUME IndInv, [Next]_vars PROVE IndInv'
  OBVIOUS
<1>1. CASE Generate
  BY <1>1, GeneratePreserves
<1>2. ASSUME NEW q \in Requests,
             \E route \in Routes, c \in Codes \cup {NoCode},
                h \in Challenges \cup {NoChallenge} : Arrive(q, route, c, h)
      PROVE  IndInv'
  BY <1>2, TransitPreserves
<1>3. ASSUME NEW q \in Requests, Proceed(q)
      PROVE  IndInv'
  BY <1>3, TransitPreserves, OTPLookupPreserves, OTPFailsPreserves, OTPMatchesPreserves,
     OTPClearPreserves, ChallengeReadPreserves, ChallengeCommitPreserves DEF Proceed
<1>4. ASSUME NEW h \in Challenges, CreateChallenge(h)
      PROVE  IndInv'
  BY <1>4, ChallengeClockPreserves
<1>5. CASE Clock
  BY <1>5, OTPClockPreserves, ChallengeClockPreserves DEF Clock
<1>6. CASE UNCHANGED vars
  BY <1>6 DEF vars, otpVars, historyVars, IndInv, TypeOK, OneVerifier, CodesUnspent,
              Verifying, CodeAcceptedOnce, ChallengesUnspent, TriesBounded, CounterFollows
<1> QED
  BY <1>1, <1>2, <1>3, <1>4, <1>5, <1>6 DEF Next

\* The inductive invariant holds in every reachable state of the step-up checks.
THEOREM Inductive == Spec => []IndInv
BY InitEstablishes, NextPreserves, PTL DEF Spec

(***************************************************************************)
(* VerifyOTPToken accepts a code at most once, whatever requests race for  *)
(* it and whatever GenerateOTP stores between comparison and clearing.     *)
(***************************************************************************)
THEOREM CodeIsSingleUse == Spec => []CodeAcceptedOnce
<1>1. IndInv => CodeAcceptedOnce
  BY DEF IndInv
<1> QED
  BY <1>1, Inductive, PTL

(***************************************************************************)
(* The passkey manager accepts a challenge at most once, although reading  *)
(* and consuming it are two critical sections.                             *)
(***************************************************************************)
THEOREM ChallengeIsSingleUse == Spec => []ChallengeConsumedOnce
<1>1. IndInv => ChallengeConsumedOnce
  BY DEF IndInv, ChallengesUnspent, ChallengeConsumedOnce
<1> QED
  BY <1>1, Inductive, PTL

(***************************************************************************)
(* The lockout of VerifyOTPToken bounds the wrong tries against a code,    *)
(* for any threshold, lost resets of the counter included.                 *)
(***************************************************************************)
THEOREM LockoutBoundsTries == Spec => []TriesBounded
<1>1. IndInv => TriesBounded
  BY DEF IndInv
<1> QED
  BY <1>1, Inductive, PTL

-----------------------------------------------------------------------------
(***************************************************************************)
(* Who holds exp.mu is inside VerifyOTPToken, and a call of GenerateOTP    *)
(* that looked at the lockout has a code left to store.                    *)
(***************************************************************************)
LocksHeld ==
    /\ verifier # NoRequest => verifier \in Requests /\ Verifying(verifier)
    /\ generator = "checked" => generated # Codes

\* A request that is not inside VerifyOTPToken goes on, outside or into it.
LEMMA OthersHold ==
    ASSUME TypeOK, LocksHeld, NEW q \in Requests, ~Verifying(q),
           NEW v, request' = [request EXCEPT ![q] = v],
           UNCHANGED <<generator, generated>>,
           verifier' = verifier \/ (verifier' = q /\ v.pc = "found")
    PROVE  LocksHeld'
<1>1. request'[q] = v /\ \A p \in Requests \ {q} : request'[p] = request[p]
  BY DEF TypeOK
<1> QED
  BY <1>1 DEF LocksHeld, Verifying

\* The verifier goes on, or leaves and lets exp.mu go.
LEMMA VerifierHolds ==
    ASSUME TypeOK, LocksHeld, NEW q \in Requests, UNCHANGED <<generator, generated>>,
           \/ verifier' = NoRequest
           \/ verifier = q /\ verifier' = q /\ request'[q].pc = "matched"
    PROVE  LocksHeld'
BY DEF LocksHeld, Verifying

LEMMA HoldsPreserved == IndInv /\ LocksHeld /\ [Next]_vars => LocksHeld'
<1> SUFFICES ASSUME IndInv, LocksHeld, [Next]_vars PROVE LocksHeld'
  OBVIOUS
<1>0. TypeOK /\ OneVerifier
  BY DEF IndInv
<1>1. CASE Generate
  BY <1>1 DEF Generate, GenerateCheck, GenerateStore, GenerateReset, LocksHeld,
              Verifying, historyVars
<1>2. ASSUME NEW q \in Requests, NEW route \in Routes, NEW c \in Codes \cup {NoCode},
             NEW h \in Challenges \cup {NoChallenge}, Arrive(q, route, c, h)
      PROVE  LocksHeld'
  <2>1. /\ request[q].pc = "idle" /\ UNCHANGED <<generator, generated, verifier>>
        /\ \E v : request' = [request EXCEPT ![q] = v]
    BY <1>2 DEF Arrive, historyVars
  <2> QED
    BY <1>0, <2>1, OthersHold DEF Verifying
<1>3. ASSUME NEW q \in Requests,
             NoCredential(q) \/ Drop(q) \/ ChallengeRead(q) \/ ChallengeCommit(q)
      PROVE  LocksHeld'
  <2>1. /\ request[q].pc \in {"check", "signed"}
        /\ UNCHANGED <<generator, generated, verifier>>
    BY <1>3 DEF NoCredential, Drop, ChallengeRead, ChallengeCommit, Missing, At, historyVars
  <2>2. \/ End(q) \/ Pass(q)
        \/ /\ request[q].pc = "check" /\ Move(q, "signed")
    BY <1>3 DEF NoCredential, Drop, ChallengeRead, ChallengeCommit, At
  <2>3. \E v : request' = [request EXCEPT ![q] = v]
    BY <2>2 DEF End, Pass, Move
  <2> QED
    BY <1>0, <2>1, <2>3, OthersHold DEF Verifying
<1>4. ASSUME NEW q \in Requests, OTPLookup(q)
      PROVE  LocksHeld'
  <2>1. /\ request[q].pc = "check" /\ UNCHANGED <<generator, generated>>
        /\ \/ End(q) /\ verifier' = verifier
           \/ Move(q, "found") /\ verifier' = q
    BY <1>4 DEF OTPLookup, MayLookup, At, historyVars
  <2>2. CASE End(q) /\ verifier' = verifier
    BY <1>0, <2>1, <2>2, OthersHold DEF End, Verifying
  <2>3. CASE Move(q, "found") /\ verifier' = q
    <3>1. PICK v \in RequestRecord :
            request' = [request EXCEPT ![q] = v] /\ v.pc = "found"
      BY <1>0, <2>3, MovesInside
    <3> QED
      BY <1>0, <2>1, <2>3, <3>1, OthersHold DEF Verifying
  <2> QED
    BY <2>1, <2>2, <2>3
<1>5. ASSUME NEW q \in Requests, OTPFails(q) \/ OTPClear(q)
      PROVE  LocksHeld'
  <2>1. verifier' = NoRequest /\ UNCHANGED <<generator, generated>>
    BY <1>5 DEF OTPFails, OTPClear
  <2> QED
    BY <1>0, <2>1, VerifierHolds
<1>6. ASSUME NEW q \in Requests, OTPMatches(q)
      PROVE  LocksHeld'
  <2>1. /\ request[q].pc = "found" /\ Move(q, "matched")
        /\ UNCHANGED <<generator, generated, verifier>>
    BY <1>6 DEF OTPMatches, historyVars
  <2>2. verifier = q
    BY <1>0, <2>1 DEF OneVerifier, Verifying
  <2>3. PICK v \in RequestRecord :
          request' = [request EXCEPT ![q] = v] /\ v.pc = "matched"
    BY <1>0, <2>1, MovesInside
  <2>4. request'[q].pc = "matched"
    BY <1>0, <2>3 DEF TypeOK
  <2> QED
    BY <1>0, <2>1, <2>2, <2>4, VerifierHolds
<1>7. CASE Clock \/ \E h \in Challenges : CreateChallenge(h)
  BY <1>7 DEF Clock, CodeExpires, LockoutEnds, ChallengeExpires, CreateChallenge,
              historyVars, LocksHeld, Verifying
<1>8. CASE UNCHANGED vars
  BY <1>8 DEF vars, historyVars, LocksHeld, Verifying
<1> QED
  BY <1>1, <1>2, <1>3, <1>4, <1>5, <1>6, <1>7, <1>8 DEF Next, Proceed

(***************************************************************************)
(* For any number of requests, codes and challenges: the order in which    *)
(* VerifyOTPToken and GenerateOTP take exp.mu and Service.mu never leaves  *)
(* everybody waiting.  Whoever holds Service.mu can go on; while nobody    *)
(* does, whoever holds exp.mu can; while nobody holds either, everybody.   *)
(***************************************************************************)
THEOREM LocksNeverCircular == Spec => []NoDeadlock
<1>1. Init => LocksHeld
  BY DEF Init, LocksHeld
<1>2. IndInv /\ LocksHeld => NoDeadlock
  <2> SUFFICES ASSUME IndInv, LocksHeld,
                      generator # "idle" \/ \E q \in Requests : request[q].pc # "idle"
               PROVE  \/ MayReset
                      \/ \E c \in Codes : MayStore(c)
                      \/ \E q \in Requests : MayProceed(q)
    BY DEF NoDeadlock
  <2>1. TypeOK
    BY DEF IndInv
  <2>2. CASE generator = "stored"
    BY <2>2 DEF MayReset
  <2>3. CASE generator = "checked"
    <3>1. \E c \in Codes : c \notin generated
      BY <2>1, <2>3 DEF LocksHeld, TypeOK
    <3> QED
      BY <2>3, <3>1 DEF MayStore
  <2>4. CASE generator = "idle" /\ verifier # NoRequest
    BY <2>4 DEF LocksHeld, Verifying, MayProceed, MayClear
  <2>5. CASE generator = "idle" /\ verifier = NoRequest
    <3>1. PICK q \in Requests : request[q].pc # "idle"
      BY <2>5
    <3>2. request[q] \in RequestRecord
      BY <2>1 DEF TypeOK
    <3>3. request[q].pc \in {"check", "found", "matched", "signed"}
      BY <3>1, <3>2 DEF RequestRecord
    <3> QED
      BY <2>5, <3>3 DEF MayProceed, MayClear, MayLookup
  <2> QED
    BY <2>1, <2>2, <2>3, <2>4, <2>5 DEF TypeOK
<1> QED
  BY <1>1, <1>2, HoldsPreserved, Inductive, PTL DEF Spec
=============================================================================
