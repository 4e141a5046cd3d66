------------------------------ MODULE Sessions ------------------------------
(***************************************************************************)
(* The sessions of one user: the JWT manager (security/jwt.go), the login, *)
(* refresh and PIN-setting handlers (auth_pin.go, service.go) and the      *)
(* Postgres table of revocations wired in by cmd/server/main.go.           *)
(*                                                                         *)
(* Two locks are involved, Service.mu and JWTManager.mu, and neither is    *)
(* held across a whole refresh or a whole SetInitialPIN: each is a         *)
(* sequence of steps between which other requests run and time passes.     *)
(* Signatures, device fingerprints and PIN digits are not modelled: every  *)
(* request carries the right ones.  Nor are the opaque tokens of the       *)
(* biometric login, which live and die in s.sessions under Service.mu.     *)
(***************************************************************************)
EXTENDS Naturals, FiniteSets, Functions

CONSTANTS
    Tokens,         \* token identities (jti) that can be minted
    NoToken,        \* stands for the absence of one
    Refreshers,     \* concurrent calls of RefreshToken
    Setters,        \* concurrent calls of SetInitialPIN
    TokenTTL,       \* lifetime of a token, in clock ticks
    RefreshGrace,   \* how long an expired token may still be refreshed
    MaxLatency,     \* bound: ticks a refresh may stay in flight
    MaxLogins,      \* bound: successful logins
    MaxTime         \* bound: ticks of the clock

ASSUME SessionsAssumption ==
    /\ NoToken \notin Tokens
    /\ TokenTTL \in Nat \ {0}
    /\ RefreshGrace \in Nat
    /\ MaxLatency \in Nat
    /\ MaxLatency <= TokenTTL + RefreshGrace
    /\ MaxLogins \in Nat
    /\ MaxTime \in Nat

VARIABLES
    now,        \* the clock
    failClosed, \* m.failClosed: a failing lookup in Postgres denies
    revoked,    \* m.revoked: jti -> time after which the entry may be pruned
    persisted,  \* rows of jwt_revocations
    token,      \* what is known of each token
    sessions,   \* tokens in s.sessions
    profile,    \* the user's entry in s.authProfiles is there
    pin,        \* its PasswordHash is set
    refresh,    \* calls of RefreshToken in flight
    setter,     \* calls of SetInitialPIN in flight
    dead,       \* history: tokens whose revocation has been carried out
    lost,       \* history: those of them whose row did not reach Postgres
    era,        \* history: how often the PIN was set
    restarted   \* history: the process was restarted

jwtVars == <<revoked, persisted, dead, lost>>
userVars == <<profile, pin, setter, era>>
vars == <<now, failClosed, jwtVars, userVars, token, sessions, refresh, restarted>>

(***************************************************************************)
(* A JWT: parent is the token it was exchanged for, era the number of PIN  *)
(* settings that preceded the login it descends from.                      *)
(***************************************************************************)
Unused == [minted |-> FALSE, iat |-> 0, parent |-> NoToken, era |-> 0]

IdleRefresh == [pc |-> "idle", at |-> 0, old |-> NoToken, new |-> NoToken]

Init ==
    /\ now = 0
    /\ failClosed \in BOOLEAN
    /\ revoked = [t \in {} |-> 0]
    /\ persisted = {}
    /\ token = [t \in Tokens |-> Unused]
    /\ sessions = {}
    /\ profile = TRUE
    /\ pin \in BOOLEAN
    /\ era = 0
    /\ refresh = [r \in Refreshers |-> IdleRefresh]
    /\ setter = [s \in Setters |-> "idle"]
    /\ dead = {}
    /\ lost = {}
    /\ restarted = FALSE

-----------------------------------------------------------------------------
(***************************************************************************)
(* The JWT manager.                                                        *)
(***************************************************************************)
Exp(t) == token[t].iat + TokenTTL

\* Mutant: only the table is asked, not the set in memory.
MutMayPass(t) == t \notin persisted \/ ~failClosed

\* revocationDenies says no: the set in memory does not hold the jti, and the
\* table does not either, or could not be asked and the policy is fail-open.
MayPass(t) ==
    /\ t \notin DOMAIN revoked
    /\ t \notin persisted \/ ~failClosed

\* VerifyToken, the first and for a JWT the only check of the Auth middleware.
Accepts(t) == token[t].minted /\ MayPass(t) /\ now < Exp(t)

\* The checks of JWTManager.RefreshToken before the claim.  The cap on the age
\* of a token (24 hours) is far beyond the grace window and never decides.
Refreshable(t) ==
    token[t].minted /\ MayPass(t) /\ now < Exp(t) + RefreshGrace

\* Mutant: the entry holds the time of the revocation instead of its end.
MutRetention == now

\* RevokeToken and claimForRotation keep an entry for TTL + grace from now.
Retention == now + TokenTTL + RefreshGrace

\* The entries of S are added, then pruneLocked drops the outdated ones.
Revoked(S) ==
    LET all == [t \in S \cup DOMAIN revoked |->
                  IF t \in S THEN Retention ELSE revoked[t]]
    IN  Restrict(all, {t \in DOMAIN all : all[t] >= now})

\* The persister runs after the lock is released; a failure is only logged.  A
\* server without Postgres is one whose every attempt fails.
Persist(S) ==
    /\ \E rows \in SUBSET S :
          /\ persisted' = persisted \cup rows
          /\ lost' = lost \cup (S \ rows)
    /\ dead' = dead \cup S

\* IssueToken.
Mint(t, parent, n) ==
    /\ ~token[t].minted
    /\ token' = [token EXCEPT ![t] = [minted |-> TRUE, iat |-> now,
                                      parent |-> parent, era |-> n]]

-----------------------------------------------------------------------------
(***************************************************************************)
(* LoginWithPIN, when it succeeds.                                         *)
(***************************************************************************)
Logins == {t \in Tokens : token[t].minted /\ token[t].parent = NoToken}

LoginWithPIN(t) ==
    /\ profile
    /\ pin
    /\ Cardinality(Logins) < MaxLogins
    /\ Mint(t, NoToken, era)
    /\ sessions' = sessions \cup {t}
    /\ UNCHANGED <<now, failClosed, jwtVars, userVars, refresh, restarted>>

\* AuthenticateToken meets a session past its expiry and deletes it.  The Auth
\* middleware never gets there with a JWT; the public privacy-consent endpoints
\* do.  The fallback to the session store finds no expiry and ends the same way.
ExpireSession(t) ==
    /\ t \in sessions
    /\ now > Exp(t)
    /\ sessions' = sessions \ {t}
    /\ UNCHANGED <<now, failClosed, jwtVars, userVars, token, refresh, restarted>>

-----------------------------------------------------------------------------
(***************************************************************************)
(* Service.RefreshToken, in the steps between which no lock is held.       *)
(***************************************************************************)
RefreshCheck(r, t) ==
    /\ refresh[r].pc = "idle"
    /\ Refreshable(t)
    /\ refresh' = [refresh EXCEPT ![r] = [pc |-> "checked", at |-> now, old |-> t,
                                          new |-> NoToken]]
    /\ UNCHANGED <<now, failClosed, jwtVars, userVars, token, sessions, restarted>>

\* Mutant: the claim does not look whether the jti is already revoked.
MutMayClaim(t) == TRUE

MayClaim(t) == t \notin DOMAIN revoked

\* claimForRotation, in one critical section of JWTManager.mu.
RefreshClaim(r) ==
    LET old == refresh[r].old IN
    /\ refresh[r].pc = "checked"
    /\ \/ /\ MayClaim(old)
          /\ revoked' = Revoked({old})
          /\ refresh' = [refresh EXCEPT ![r].pc = "claimed"]
       \/ /\ ~MayClaim(old)
          /\ refresh' = [refresh EXCEPT ![r] = IdleRefresh]
          /\ UNCHANGED revoked
    /\ UNCHANGED <<now, failClosed, persisted, dead, lost, userVars, token, sessions,
                   restarted>>

\* The claim is persisted, then the new token is minted and verified.  The
\* verification fails only when the table cannot be asked and that denies.
RefreshIssue(r, t) ==
    LET old == refresh[r].old IN
    /\ refresh[r].pc = "claimed"
    /\ Persist({old})
    /\ \/ /\ Mint(t, old, token[old].era)
          /\ refresh' = [refresh EXCEPT ![r].pc = "issued", ![r].new = t]
       \/ /\ failClosed
          /\ refresh' = [refresh EXCEPT ![r] = IdleRefresh]
          /\ UNCHANGED token
    /\ UNCHANGED <<now, failClosed, revoked, userVars, sessions, restarted>>

\* Under Service.mu, the old session is replaced by the new one.
RefreshSwap(r) ==
    /\ refresh[r].pc = "issued"
    /\ sessions' = (sessions \ {refresh[r].old}) \cup {refresh[r].new}
    /\ refresh' = [refresh EXCEPT ![r] = IdleRefresh]
    /\ UNCHANGED <<now, failClosed, jwtVars, userVars, token, restarted>>

-----------------------------------------------------------------------------
(***************************************************************************)
(* The pinSet route carries no authentication middleware, so every call    *)
(* goes through SetInitialPIN: it looks whether there is a PIN, releases   *)
(* the lock, and SetPIN takes it again.                                    *)
(***************************************************************************)
SetInitialPINCheck(s) ==
    /\ setter[s] = "idle"
    /\ profile
    /\ ~pin
    /\ setter' = [setter EXCEPT ![s] = "checked"]
    /\ UNCHANGED <<now, failClosed, jwtVars, profile, pin, era, token, sessions,
                   refresh, restarted>>

\* SetPIN refuses a PIN of the wrong length.
SetPINRejected(s) ==
    /\ setter[s] = "checked"
    /\ setter' = [setter EXCEPT ![s] = "idle"]
    /\ UNCHANGED <<now, failClosed, jwtVars, profile, pin, era, token, sessions,
                   refresh, restarted>>

\* invalidateAllSessionsLocked revokes the tokens it finds among the sessions.
SetPIN(s) ==
    /\ setter[s] = "checked"
    /\ setter' = [setter EXCEPT ![s] = "idle"]
    /\ pin' = TRUE
    /\ era' = era + 1
    /\ sessions' = {}
    /\ revoked' = IF sessions = {} THEN revoked ELSE Revoked(sessions)
    /\ Persist(sessions)
    /\ UNCHANGED <<now, failClosed, profile, token, refresh, restarted>>

\* UpdateAuthProfile, behind the Auth middleware, makes a profile without a PIN
\* when it finds none.  Otherwise it changes nothing of what is modelled here.
UpdateAuthProfile(t) ==
    /\ Accepts(t)
    /\ ~profile
    /\ profile' = TRUE
    /\ UNCHANGED <<now, failClosed, jwtVars, pin, setter, era, token, sessions,
                   refresh, restarted>>

-----------------------------------------------------------------------------
\* The clock.  A refresh stays in flight for at most MaxLatency ticks.
Tick ==
    /\ now < MaxTime
    /\ \A r \in Refreshers : refresh[r].pc # "idle" => now < refresh[r].at + MaxLatency
    /\ now' = now + 1
    /\ UNCHANGED <<failClosed, jwtVars, userVars, token, sessions, refresh, restarted>>

(***************************************************************************)
(* A crash or redeployment.  Requests in flight are gone, and so is all    *)
(* that was in memory: HydrateFromDB brings back neither the PIN profiles  *)
(* nor the sessions, which are never saved.  Tokens already handed out     *)
(* still verify, since the signing secret is in the environment.           *)
(***************************************************************************)
Restart ==
    /\ ~restarted
    /\ restarted' = TRUE
    /\ revoked' = [t \in {} |-> 0]
    /\ sessions' = {}
    /\ profile' = FALSE
    /\ pin' = FALSE
    /\ refresh' = [r \in Refreshers |-> IdleRefresh]
    /\ setter' = [s \in Setters |-> "idle"]
    /\ UNCHANGED <<now, failClosed, persisted, dead, lost, era, token>>

Next ==
    \/ \E t \in Tokens : LoginWithPIN(t) \/ ExpireSession(t) \/ UpdateAuthProfile(t)
    \/ \E r \in Refreshers :
          \/ \E t \in Tokens : RefreshCheck(r, t) \/ RefreshIssue(r, t)
          \/ RefreshClaim(r)
          \/ RefreshSwap(r)
    \/ \E s \in Setters : SetInitialPINCheck(s) \/ SetPINRejected(s) \/ SetPIN(s)
    \/ Tick
    \/ Restart

Spec == Init /\ [][Next]_vars

-----------------------------------------------------------------------------
(***************************************************************************)
(* Where a revocation can be relied on: in the process that made it, and   *)
(* after a restart when its row reached Postgres and the policy is         *)
(* fail-closed.                                                            *)
(***************************************************************************)
Durable(t) == ~restarted \/ (failClosed /\ t \notin lost)

(***************************************************************************)
(* Rotation is exactly-once (M-2): a token is exchanged for at most one    *)
(* other, whatever refreshes race for it, and across a restart that falls  *)
(* between its claim, the persisting of the claim and the new token.       *)
(***************************************************************************)
RotatedOnce ==
    \A t \in Tokens :
        Durable(t) => Cardinality({u \in Tokens : token[u].parent = t}) <= 1

(***************************************************************************)
(* A revoked token stays dead: pruning its entry, the clock and a restart  *)
(* never make it pass VerifyToken or RefreshToken again.                   *)
(***************************************************************************)
RevokedStaysDead ==
    \A t \in dead : Durable(t) => ~Accepts(t) /\ ~Refreshable(t)

(***************************************************************************)
(* One login, one live token: without a restart, of all tokens descending  *)
(* from one login by refreshes at most one is accepted at any time.  Two   *)
(* of them would be a token and one it was exchanged for.                  *)
(***************************************************************************)
NoTokenDoubling ==
    ~restarted =>
        \A t, u \in Tokens :
            token[u].parent = t => ~Accepts(t)

(***************************************************************************)
(* What the comment in SetPIN says (M-10): "a compromised session cannot   *)
(* survive the user's security action of changing their PIN".  Every token *)
(* that is accepted descends from a login made since the PIN was last set, *)
(* as long as no restart dropped the revocations.                          *)
(***************************************************************************)
NoSessionSurvivesPINChange ==
    ~restarted => \A t \in Tokens : Accepts(t) => token[t].era = era
=============================================================================
