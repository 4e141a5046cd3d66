--------------------------- MODULE SessionsProofs ---------------------------
(***************************************************************************)
(* Safety of the JWT rotation, for any number of tokens, refreshes and PIN *)
(* settings, any lifetimes, and restarts at any point.                     *)
(***************************************************************************)
EXTENDS Sessions, FiniteSetTheorems, TLAPS

-----------------------------------------------------------------------------
(***************************************************************************)
(* The types the argument needs.                                           *)
(***************************************************************************)
TokenRecord ==
    [minted : BOOLEAN, iat : Nat, parent : Tokens \cup {NoToken}, era : Nat]

RefreshRecord ==
    [pc : {"idle", "checked", "claimed", "issued"}, at : Nat,
     old : Tokens \cup {NoToken}, new : Tokens \cup {NoToken}]

TypeOK ==
    /\ now \in Nat
    /\ era \in Nat
    /\ token \in [Tokens -> TokenRecord]
    /\ refresh \in [Refreshers -> RefreshRecord]
    /\ sessions \subseteq Tokens
    /\ dead \subseteq Tokens
    /\ persisted \subseteq Tokens
    /\ DOMAIN revoked \subseteq Tokens
    /\ \A t \in DOMAIN revoked : revoked[t] \in Nat

InFlight(r) == refresh[r].pc # "idle"

(***************************************************************************)
(* What is handed around are tokens that were issued, and not in the       *)
(* future; one that was not issued has no parent.                          *)
(***************************************************************************)
Issued ==
    /\ \A t \in Tokens : token[t].minted => token[t].iat <= now
    /\ \A t \in Tokens : ~token[t].minted => token[t].parent = NoToken
    /\ \A t \in sessions \cup dead \cup DOMAIN revoked : token[t].minted
    /\ \A r \in Refreshers : InFlight(r) =>
          refresh[r].old \in Tokens /\ token[refresh[r].old].minted
    /\ \A r \in Refreshers : refresh[r].pc = "issued" =>
          refresh[r].new \in Tokens /\ token[refresh[r].new].minted

\* The clock waits for refreshes in flight.
Prompt ==
    \A r \in Refreshers : InFlight(r) =>
        refresh[r].at <= now /\ now <= refresh[r].at + MaxLatency

(***************************************************************************)
(* An entry of the revocation map outlives its token's grace period and    *)
(* every refresh that is already working on the token, so that pruneLocked *)
(* drops it only when nobody can claim the token again.                    *)
(***************************************************************************)
EntriesOutlive ==
    /\ \A t \in DOMAIN revoked : Exp(t) + RefreshGrace <= revoked[t]
    /\ \A r \in Refreshers : (InFlight(r) /\ refresh[r].old \in DOMAIN revoked) =>
          refresh[r].at + MaxLatency <= revoked[refresh[r].old]

\* A claim stays in the map, and is one refresh's alone.
ClaimsHeld ==
    /\ \A r \in Refreshers :
          refresh[r].pc = "claimed" => refresh[r].old \in DOMAIN revoked
    /\ \A r, q \in Refreshers :
          (refresh[r].pc = "claimed" /\ refresh[q].pc = "claimed"
             /\ refresh[r].old = refresh[q].old) => r = q

(***************************************************************************)
(* A revocation that was carried out is remembered in the process that     *)
(* made it until its token is past refreshing, and in Postgres unless its  *)
(* row was lost.                                                           *)
(***************************************************************************)
DeadRemembered ==
    /\ \A t \in dead : t \in lost \/ t \in persisted
    /\ ~restarted => \A t \in dead :
          t \in DOMAIN revoked \/ Exp(t) + RefreshGrace <= now

HasChild(t) == \E u \in Tokens : token[u].parent = t

\* A token that was exchanged is dead; no refresh can exchange it again.
ExchangedIsDead == \A u \in Tokens : token[u].parent # NoToken => token[u].parent \in dead

NoSecondExchange ==
    \A r \in Refreshers :
        (Durable(refresh[r].old) /\ InFlight(r) /\ HasChild(refresh[r].old)) =>
            /\ refresh[r].pc # "claimed"
            /\ refresh[r].pc = "checked" => refresh[r].old \in DOMAIN revoked

OneChild ==
    \A t, u, v \in Tokens :
        (Durable(t) /\ token[u].parent = t /\ token[v].parent = t) => u = v

IndInv ==
    /\ TypeOK
    /\ Issued
    /\ Prompt
    /\ EntriesOutlive
    /\ ClaimsHeld
    /\ DeadRemembered
    /\ ExchangedIsDead
    /\ NoSecondExchange
    /\ OneChild

USE SessionsAssumption

-----------------------------------------------------------------------------
(***************************************************************************)
(* The JWT manager's operators.                                            *)
(***************************************************************************)
\* A token past verification is past refreshing: the grace period only adds.
LEMMA AcceptsIsRefreshable ==
    ASSUME IndInv, NEW t \in Tokens, Accepts(t)
    PROVE  Refreshable(t)
BY DEF IndInv, TypeOK, TokenRecord, Accepts, Refreshable, Exp

\* revocationDenies denies a revoked token for as long as it matters.
LEMMA DeadIsRefused ==
    ASSUME IndInv, NEW t \in dead, Durable(t)
    PROVE  ~Refreshable(t)
BY DEF IndInv, TypeOK, TokenRecord, DeadRemembered, Durable, Refreshable, MayPass, Exp

\* RevokeToken and claimForRotation with pruneLocked: what the map holds after
\* the tokens S were revoked, and what the pruning can have dropped.
LEMMA RevokedEntries ==
    ASSUME IndInv, NEW S \in SUBSET Tokens
    PROVE  /\ DOMAIN Revoked(S) \subseteq S \cup DOMAIN revoked
           /\ \A t \in DOMAIN Revoked(S) :
                 Revoked(S)[t] = IF t \in S THEN Retention ELSE revoked[t]
           /\ S \subseteq DOMAIN Revoked(S)
           /\ \A t \in DOMAIN revoked : revoked[t] >= now => t \in DOMAIN Revoked(S)
           /\ Retention \in Nat
<1> DEFINE all == [t \in S \cup DOMAIN revoked |-> IF t \in S THEN Retention ELSE revoked[t]]
           kept == {t \in DOMAIN all : all[t] >= now}
<1>1. Retention \in Nat /\ Retention >= now
  BY DEF Retention, IndInv, TypeOK
<1>2. Revoked(S) = [t \in kept |-> all[t]]
  BY DEF Revoked, Restrict
<1> QED
  BY <1>1, <1>2

-----------------------------------------------------------------------------
(***************************************************************************)
(* One lemma per action.                                                   *)
(***************************************************************************)
\* A server that starts for the first time.
LEMMA InitEstablishes == Init => IndInv
<1> SUFFICES ASSUME Init PROVE IndInv
  OBVIOUS
<1>1. TypeOK
  BY DEF Init, TypeOK, TokenRecord, RefreshRecord, Unused, IdleRefresh
<1>2. Issued /\ Prompt /\ EntriesOutlive /\ ClaimsHeld /\ DeadRemembered
  BY DEF Init, Issued, Prompt, EntriesOutlive, ClaimsHeld, DeadRemembered, InFlight,
         Unused, IdleRefresh
<1>3. ExchangedIsDead /\ NoSecondExchange /\ OneChild
  BY DEF Init, ExchangedIsDead, NoSecondExchange, OneChild, HasChild, InFlight,
         Unused, IdleRefresh
<1> QED
  BY <1>1, <1>2, <1>3 DEF IndInv

\* A session is deleted or a profile is touched, and no token is.
LEMMA QuietPreserves ==
    ASSUME IndInv, sessions' \subseteq sessions,
           UNCHANGED <<now, failClosed, jwtVars, era, token, refresh, restarted>>
    PROVE  IndInv'
<1> USE DEF IndInv, jwtVars
<1>1. TypeOK'
  BY DEF TypeOK
<1>2. Issued'
  BY DEF Issued, InFlight
<1>3. Prompt' /\ EntriesOutlive' /\ ClaimsHeld' /\ DeadRemembered'
  BY DEF Prompt, EntriesOutlive, ClaimsHeld, DeadRemembered, InFlight, Exp
<1>4. ExchangedIsDead' /\ NoSecondExchange' /\ OneChild'
  BY DEF ExchangedIsDead, NoSecondExchange, OneChild, HasChild, InFlight, Durable
<1> QED
  BY <1>1, <1>2, <1>3, <1>4

\* LoginWithPIN: a new token without a parent.
LEMMA LoginPreserves ==
    ASSUME IndInv, NEW t \in Tokens, LoginWithPIN(t)
    PROVE  IndInv'
<1> USE DEF IndInv
<1>1. /\ ~token[t].minted
      /\ token' = [token EXCEPT ![t] = [minted |-> TRUE, iat |-> now,
                                        parent |-> NoToken, era |-> era]]
      /\ sessions' = sessions \cup {t}
      /\ UNCHANGED <<now, failClosed, revoked, persisted, dead, lost, era, refresh, restarted>>
  BY DEF LoginWithPIN, Mint, jwtVars, userVars
<1>2. TypeOK'
  BY <1>1 DEF TypeOK, TokenRecord
<1>3. token[t].parent = NoToken
  BY <1>1 DEF Issued
<1>4. /\ \A u \in Tokens : token'[u].parent = token[u].parent
      /\ \A u \in Tokens : token[u].minted => token'[u] = token[u]
      /\ token'[t].minted /\ token'[t].iat = now
      /\ \A u \in Tokens \ {t} : token'[u] = token[u]
  BY <1>1, <1>3 DEF TypeOK
<1>5. Issued'
  BY <1>1, <1>3, <1>4 DEF TypeOK, Issued, InFlight
<1>6. EntriesOutlive' /\ DeadRemembered'
  BY <1>1, <1>4 DEF TypeOK, Issued, EntriesOutlive, DeadRemembered, InFlight, Exp
<1>7. Prompt' /\ ClaimsHeld'
  BY <1>1 DEF Prompt, ClaimsHeld, InFlight
<1>8. ExchangedIsDead' /\ NoSecondExchange' /\ OneChild'
  BY <1>1, <1>4 DEF ExchangedIsDead, NoSecondExchange, OneChild, HasChild, InFlight, Durable
<1> QED
  BY <1>2, <1>5, <1>6, <1>7, <1>8

\* The checks of RefreshToken let no exchanged token through.
LEMMA RefreshCheckPreserves ==
    ASSUME IndInv, NEW r \in Refreshers, NEW t \in Tokens, RefreshCheck(r, t)
    PROVE  IndInv'
<1> USE DEF IndInv
<1>1. /\ Refreshable(t)
      /\ refresh' = [refresh EXCEPT ![r] = [pc |-> "checked", at |-> now, old |-> t,
                                            new |-> NoToken]]
      /\ UNCHANGED <<now, failClosed, revoked, persisted, dead, lost, era, token, sessions,
                     restarted>>
  BY DEF RefreshCheck, jwtVars, userVars
<1>2. TypeOK'
  BY <1>1 DEF TypeOK, RefreshRecord
<1>3. /\ refresh'[r] = [pc |-> "checked", at |-> now, old |-> t, new |-> NoToken]
      /\ \A q \in Refreshers \ {r} : refresh'[q] = refresh[q]
      /\ t \notin DOMAIN revoked /\ token[t].minted
  BY <1>1 DEF TypeOK, Refreshable, MayPass
<1>4. Issued'
  BY <1>1, <1>3 DEF Issued, InFlight
<1>5. Prompt' /\ EntriesOutlive' /\ ClaimsHeld' /\ DeadRemembered'
  BY <1>1, <1>3 DEF TypeOK, Prompt, EntriesOutlive, ClaimsHeld, DeadRemembered, InFlight, Exp
<1>6. ExchangedIsDead' /\ OneChild'
  BY <1>1 DEF ExchangedIsDead, OneChild, Durable
<1>7. ~(Durable(t) /\ HasChild(t))
  <2>1. HasChild(t) => t \in dead
    BY DEF HasChild, ExchangedIsDead
  <2> QED
    BY <1>1, <2>1, DeadIsRefused
<1>8. NoSecondExchange'
  BY <1>1, <1>3, <1>7 DEF NoSecondExchange, HasChild, InFlight, Durable
<1> QED
  BY <1>2, <1>4, <1>5, <1>6, <1>8

\* claimForRotation: the claim enters the map, and pruning spares the others'.
LEMMA RefreshClaimPreserves ==
    ASSUME IndInv, NEW r \in Refreshers, RefreshClaim(r)
    PROVE  IndInv'
<1> USE DEF IndInv
<1> DEFINE old == refresh[r].old
<1>0. /\ refresh[r].pc = "checked" /\ old \in Tokens /\ token[old].minted
      /\ refresh[r].at <= now
      /\ UNCHANGED <<now, failClosed, persisted, dead, lost, era, token, sessions, restarted>>
  BY DEF RefreshClaim, Issued, Prompt, InFlight, userVars
<1>1. CASE ~MayClaim(old)
  <2>1. refresh' = [refresh EXCEPT ![r] = IdleRefresh] /\ revoked' = revoked
    BY <1>1 DEF RefreshClaim
  <2>2. TypeOK'
    BY <1>0, <2>1 DEF TypeOK, RefreshRecord, IdleRefresh
  <2>3. /\ refresh'[r] = IdleRefresh
        /\ \A q \in Refreshers \ {r} : refresh'[q] = refresh[q]
    BY <2>1 DEF TypeOK
  <2>4. Issued' /\ Prompt' /\ EntriesOutlive' /\ ClaimsHeld' /\ DeadRemembered'
    BY <1>0, <2>1, <2>3 DEF Issued, Prompt, EntriesOutlive, ClaimsHeld, DeadRemembered,
                            InFlight, Exp, IdleRefresh
  <2>5. ExchangedIsDead' /\ NoSecondExchange' /\ OneChild'
    BY <1>0, <2>1, <2>3 DEF ExchangedIsDead, NoSecondExchange, OneChild, HasChild,
                            InFlight, Durable, IdleRefresh
  <2> QED
    BY <2>2, <2>4, <2>5
<1>2. CASE MayClaim(old)
  <2>1. /\ refresh' = [refresh EXCEPT ![r].pc = "claimed"] /\ revoked' = Revoked({old})
        /\ old \notin DOMAIN revoked
    BY <1>2 DEF RefreshClaim, MayClaim
  <2>2. /\ DOMAIN revoked' \subseteq {old} \cup DOMAIN revoked
        /\ old \in DOMAIN revoked' /\ revoked'[old] = Retention
        /\ \A t \in DOMAIN revoked' \ {old} : revoked'[t] = revoked[t]
        /\ \A t \in DOMAIN revoked : revoked[t] >= now => t \in DOMAIN revoked'
        /\ Retention \in Nat
    BY <1>0, <2>1, RevokedEntries
  <2>3. /\ refresh'[r].pc = "claimed" /\ refresh'[r].old = old
        /\ refresh'[r].at = refresh[r].at /\ refresh'[r].new = refresh[r].new
        /\ \A q \in Refreshers \ {r} : refresh'[q] = refresh[q]
    BY <2>1 DEF TypeOK, RefreshRecord
  <2>4. TypeOK'
    <3>1. refresh' \in [Refreshers -> RefreshRecord]
      BY <2>1 DEF TypeOK, RefreshRecord
    <3> QED
      BY <1>0, <2>2, <3>1 DEF TypeOK
  <2>5. Issued'
    BY <1>0, <2>2, <2>3 DEF Issued, InFlight
  <2>6. Prompt'
    BY <1>0, <2>3 DEF Prompt, InFlight
  <2>7. \A q \in Refreshers : InFlight(q) =>
          /\ refresh[q].old \in DOMAIN revoked => refresh[q].old \in DOMAIN revoked'
          /\ refresh[q].at + MaxLatency <= Retention
    BY <1>0, <2>2 DEF TypeOK, RefreshRecord, Prompt, EntriesOutlive, Retention, InFlight
  <2>8. EntriesOutlive'
    <3>1. Exp(old) + RefreshGrace <= Retention
      BY <1>0 DEF TypeOK, TokenRecord, Issued, Exp, Retention
    <3> QED
      BY <1>0, <2>2, <2>3, <2>7, <3>1 DEF TypeOK, EntriesOutlive, InFlight, Exp
  <2>9. ClaimsHeld'
    <3>1. \A q \in Refreshers \ {r} : refresh'[q].pc = "claimed" => refresh'[q].old # old
      BY <2>1, <2>3 DEF ClaimsHeld
    <3>2. \A q \in Refreshers : refresh'[q].pc = "claimed" => refresh'[q].old \in DOMAIN revoked'
      BY <2>2, <2>3, <2>7 DEF ClaimsHeld, InFlight
    <3> QED
      BY <2>3, <3>1, <3>2 DEF ClaimsHeld
  <2>10. DeadRemembered'
    <3>1. ASSUME NEW t \in dead, t \in DOMAIN revoked, t \notin DOMAIN revoked'
          PROVE  Exp(t) + RefreshGrace <= now
      <4>1. revoked[t] < now
        BY <2>2, <3>1 DEF TypeOK
      <4> QED
        BY <3>1, <4>1 DEF TypeOK, TokenRecord, EntriesOutlive, Exp
    <3> QED
      BY <1>0, <3>1 DEF DeadRemembered, Exp
  <2>11. ExchangedIsDead' /\ OneChild'
    BY <1>0 DEF ExchangedIsDead, OneChild, Durable
  <2>12. NoSecondExchange'
    <3>1. ~(Durable(old) /\ HasChild(old))
      BY <1>0, <2>1 DEF NoSecondExchange, InFlight
    <3> QED
      BY <1>0, <2>3, <2>7, <3>1 DEF NoSecondExchange, HasChild, InFlight, Durable
  <2> QED
    BY <2>4, <2>5, <2>6, <2>8, <2>9, <2>10, <2>11, <2>12
<1> QED
  BY <1>1, <1>2

\* The claim is persisted and the new token minted, or refused to the caller.
LEMMA RefreshIssuePreserves ==
    ASSUME IndInv, NEW r \in Refreshers, NEW t \in Tokens, RefreshIssue(r, t)
    PROVE  IndInv'
<1> USE DEF IndInv
<1> DEFINE old == refresh[r].old
<1>0. /\ refresh[r].pc = "claimed" /\ old \in Tokens /\ token[old].minted
      /\ old \in DOMAIN revoked
      /\ UNCHANGED <<now, failClosed, revoked, era, sessions, restarted>>
  BY DEF RefreshIssue, Issued, ClaimsHeld, InFlight, userVars
<1>1. /\ dead' = dead \cup {old}
      /\ persisted \subseteq persisted' /\ lost \subseteq lost'
      /\ persisted' \subseteq Tokens
      /\ old \in persisted' \/ old \in lost'
  BY <1>0 DEF RefreshIssue, Persist, TypeOK
<1>2. \A u \in Tokens : Durable(u)' => Durable(u)
  BY <1>0, <1>1 DEF Durable
<1>4. CASE /\ Mint(t, old, token[old].era)
           /\ refresh' = [refresh EXCEPT ![r].pc = "issued", ![r].new = t]
  <2>1. /\ ~token[t].minted /\ token[t].parent = NoToken
        /\ token' = [token EXCEPT ![t] = [minted |-> TRUE, iat |-> now, parent |-> old,
                                          era |-> token[old].era]]
    BY <1>4 DEF Mint, Issued
  <2>2. /\ token'[t].minted /\ token'[t].iat = now /\ token'[t].parent = old
        /\ \A u \in Tokens \ {t} : token'[u] = token[u]
        /\ t # old
    BY <1>0, <2>1 DEF TypeOK
  <2>3. /\ refresh'[r].pc = "issued" /\ refresh'[r].old = old
        /\ refresh'[r].at = refresh[r].at /\ refresh'[r].new = t
        /\ \A q \in Refreshers \ {r} : refresh'[q] = refresh[q]
    BY <1>4 DEF TypeOK, RefreshRecord
  <2>4. TypeOK'
    <3>1. refresh' \in [Refreshers -> RefreshRecord]
      BY <1>4 DEF TypeOK, RefreshRecord
    <3>2. token' \in [Tokens -> TokenRecord]
      BY <1>0, <2>1 DEF TypeOK, TokenRecord
    <3> QED
      BY <1>0, <1>1, <3>1, <3>2 DEF TypeOK
  <2>5. Issued'
    BY <1>0, <1>1, <2>1, <2>2, <2>3 DEF TypeOK, Issued, InFlight
  <2>6. \A u \in Tokens : token[u].minted => token'[u] = token[u]
    BY <2>1, <2>2
  <2>7. Prompt' /\ ClaimsHeld'
    BY <1>0, <2>3 DEF Prompt, ClaimsHeld, InFlight
  <2>8. EntriesOutlive'
    BY <1>0, <2>3, <2>6 DEF TypeOK, Issued, EntriesOutlive, InFlight, Exp
  <2>9. DeadRemembered'
    BY <1>0, <1>1, <2>6 DEF TypeOK, Issued, DeadRemembered, Exp
  <2>10. ExchangedIsDead'
    BY <1>1, <2>2 DEF ExchangedIsDead
  <2>11. \A u \in Tokens : u # old => (HasChild(u)' => HasChild(u))
    BY <2>2 DEF HasChild
  <2>12. NoSecondExchange'
    BY <1>0, <1>2, <2>3, <2>11 DEF NoSecondExchange, ClaimsHeld, Issued, InFlight
  <2>13. OneChild'
    <3>1. Durable(old) => \A u \in Tokens : token[u].parent # old
      BY <1>0 DEF NoSecondExchange, HasChild, InFlight
    <3>2. ASSUME NEW o \in Tokens, NEW u \in Tokens, NEW v \in Tokens,
                 Durable(o)', token'[u].parent = o, token'[v].parent = o
          PROVE  u = v
      <4>1. CASE o = old
        BY <1>2, <2>2, <3>1, <3>2, <4>1
      <4>2. CASE o # old
        BY <1>2, <2>2, <3>2, <4>2 DEF OneChild
      <4> QED
        BY <4>1, <4>2
    <3> QED
      BY <3>2 DEF OneChild
  <2> QED
    BY <2>4, <2>5, <2>7, <2>8, <2>9, <2>10, <2>12, <2>13
<1>5. CASE refresh' = [refresh EXCEPT ![r] = IdleRefresh] /\ token' = token
  <2>1. /\ refresh'[r] = IdleRefresh
        /\ \A q \in Refreshers \ {r} : refresh'[q] = refresh[q]
    BY <1>5 DEF TypeOK
  <2>2. TypeOK'
    BY <1>0, <1>1, <1>5 DEF TypeOK, RefreshRecord, IdleRefresh
  <2>3. Issued' /\ Prompt' /\ EntriesOutlive' /\ ClaimsHeld'
    BY <1>0, <1>1, <1>5, <2>1 DEF Issued, Prompt, EntriesOutlive, ClaimsHeld, InFlight,
                                  Exp, IdleRefresh
  <2>4. DeadRemembered' /\ ExchangedIsDead'
    BY <1>0, <1>1, <1>5 DEF DeadRemembered, ExchangedIsDead, Exp
  <2>5. NoSecondExchange' /\ OneChild'
    BY <1>0, <1>2, <1>5, <2>1 DEF NoSecondExchange, OneChild, HasChild, InFlight,
                                  Issued, IdleRefresh
  <2> QED
    BY <2>2, <2>3, <2>4, <2>5
<1> QED
  BY <1>4, <1>5 DEF RefreshIssue

\* The session is replaced and the refresh is over.
LEMMA RefreshSwapPreserves ==
    ASSUME IndInv, NEW r \in Refreshers, RefreshSwap(r)
    PROVE  IndInv'
<1> USE DEF IndInv
<1>1. /\ refresh[r].pc = "issued"
      /\ refresh' = [refresh EXCEPT ![r] = IdleRefresh]
      /\ sessions' \subseteq sessions \cup {refresh[r].new}
      /\ UNCHANGED <<now, failClosed, revoked, persisted, dead, lost, era, token, restarted>>
  BY DEF RefreshSwap, jwtVars, userVars
<1>2. /\ refresh'[r] = IdleRefresh
      /\ \A q \in Refreshers \ {r} : refresh'[q] = refresh[q]
  BY <1>1 DEF TypeOK
<1>3. TypeOK'
  BY <1>1 DEF TypeOK, Issued, RefreshRecord, IdleRefresh
<1>4. Issued'
  BY <1>1, <1>2 DEF Issued, InFlight, IdleRefresh
<1>5. Prompt' /\ EntriesOutlive' /\ ClaimsHeld' /\ DeadRemembered'
  BY <1>1, <1>2 DEF Prompt, EntriesOutlive, ClaimsHeld, DeadRemembered, InFlight, Exp,
                    IdleRefresh
<1>6. ExchangedIsDead' /\ NoSecondExchange' /\ OneChild'
  BY <1>1, <1>2 DEF ExchangedIsDead, NoSecondExchange, OneChild, HasChild, InFlight,
                    Durable, IdleRefresh
<1> QED
  BY <1>3, <1>4, <1>5, <1>6

\* invalidateAllSessionsLocked revokes every session it finds.
LEMMA SetPINPreserves ==
    ASSUME IndInv, NEW s \in Setters, SetPIN(s)
    PROVE  IndInv'
<1> USE DEF IndInv
<1>1. /\ sessions' = {} /\ era' = era + 1
      /\ dead' = dead \cup sessions
      /\ UNCHANGED <<now, failClosed, token, refresh, restarted>>
  BY DEF SetPIN, Persist
<1>2. /\ persisted \subseteq persisted' /\ lost \subseteq lost'
      /\ persisted' \subseteq Tokens
      /\ \A t \in sessions : t \in persisted' \/ t \in lost'
  BY DEF SetPIN, Persist, TypeOK
<1>3. sessions \in SUBSET Tokens
  BY DEF TypeOK
<1>4. /\ DOMAIN revoked' \subseteq sessions \cup DOMAIN revoked
      /\ \A t \in DOMAIN revoked' :
            revoked'[t] = IF t \in sessions THEN Retention ELSE revoked[t]
      /\ sessions \subseteq DOMAIN revoked'
      /\ \A t \in DOMAIN revoked : revoked[t] >= now => t \in DOMAIN revoked'
      /\ Retention \in Nat
  <2>1. CASE sessions = {}
    BY <1>3, <2>1, RevokedEntries DEF SetPIN
  <2>2. CASE sessions # {}
    BY <1>3, <2>2, RevokedEntries DEF SetPIN
  <2> QED
    BY <2>1, <2>2
<1>5. \A t \in Tokens : Durable(t)' => Durable(t)
  BY <1>1, <1>2 DEF Durable
<1>6. TypeOK'
  BY <1>1, <1>2, <1>3, <1>4 DEF TypeOK
<1>7. Issued'
  BY <1>1, <1>4 DEF Issued, InFlight
<1>8. Prompt'
  BY <1>1 DEF Prompt, InFlight
<1>9. \A q \in Refreshers : InFlight(q) =>
        /\ refresh[q].old \in DOMAIN revoked => refresh[q].old \in DOMAIN revoked'
        /\ refresh[q].at + MaxLatency <= Retention
  BY <1>4 DEF TypeOK, RefreshRecord, Prompt, EntriesOutlive, Retention, InFlight
<1>10. EntriesOutlive'
  <2>1. \A t \in sessions : Exp(t) + RefreshGrace <= Retention
    BY <1>3 DEF TypeOK, TokenRecord, Issued, Exp, Retention
  <2>2. \A t \in DOMAIN revoked' : Exp(t) + RefreshGrace <= revoked'[t]
    BY <1>4, <2>1 DEF EntriesOutlive
  <2>3. \A q \in Refreshers : (InFlight(q) /\ refresh[q].old \in DOMAIN revoked') =>
          refresh[q].at + MaxLatency <= revoked'[refresh[q].old]
    BY <1>4, <1>9 DEF EntriesOutlive
  <2> QED
    BY <1>1, <2>2, <2>3 DEF EntriesOutlive, Exp, InFlight
<1>11. ClaimsHeld'
  BY <1>1, <1>9 DEF ClaimsHeld, InFlight
<1>12. DeadRemembered'
  <2>1. ASSUME NEW t \in dead, t \in DOMAIN revoked, t \notin DOMAIN revoked'
        PROVE  Exp(t) + RefreshGrace <= now
    <3>1. revoked[t] < now
      BY <1>4, <2>1 DEF TypeOK
    <3> QED
      BY <2>1, <3>1 DEF TypeOK, TokenRecord, EntriesOutlive, Exp
  <2> QED
    BY <1>1, <1>2, <1>4, <2>1 DEF DeadRemembered, Exp
<1>13. ExchangedIsDead' /\ OneChild'
  BY <1>1, <1>5 DEF ExchangedIsDead, OneChild
<1>14. NoSecondExchange'
  BY <1>1, <1>5, <1>9 DEF NoSecondExchange, HasChild, Issued, InFlight
<1> QED
  BY <1>6, <1>7, <1>8, <1>10, <1>11, <1>12, <1>13, <1>14

\* Time passes, but no refresh in flight falls behind its bound.
LEMMA TickPreserves ==
    ASSUME IndInv, Tick
    PROVE  IndInv'
<1> USE DEF IndInv
<1>1. /\ now' = now + 1
      /\ \A r \in Refreshers : InFlight(r) => now < refresh[r].at + MaxLatency
      /\ UNCHANGED <<failClosed, revoked, persisted, dead, lost, era, token, sessions,
                     refresh, restarted>>
  BY DEF Tick, InFlight, jwtVars, userVars
<1>2. TypeOK'
  BY <1>1 DEF TypeOK
<1>3. Issued'
  BY <1>1 DEF TypeOK, TokenRecord, Issued, InFlight
<1>4. Prompt'
  BY <1>1 DEF TypeOK, RefreshRecord, Prompt, InFlight
<1>5. EntriesOutlive' /\ ClaimsHeld'
  BY <1>1 DEF EntriesOutlive, ClaimsHeld, InFlight, Exp
<1>6. DeadRemembered'
  BY <1>1 DEF TypeOK, TokenRecord, DeadRemembered, Exp
<1>7. ExchangedIsDead' /\ NoSecondExchange' /\ OneChild'
  BY <1>1 DEF ExchangedIsDead, NoSecondExchange, OneChild, HasChild, InFlight, Durable
<1> QED
  BY <1>2, <1>3, <1>4, <1>5, <1>6, <1>7

\* A restart forgets the map, and with it every refresh in flight.
LEMMA RestartPreserves ==
    ASSUME IndInv, Restart
    PROVE  IndInv'
<1> USE DEF IndInv
<1>1. /\ restarted' /\ DOMAIN revoked' = {} /\ sessions' = {}
      /\ refresh' = [r \in Refreshers |-> IdleRefresh]
      /\ UNCHANGED <<now, failClosed, persisted, dead, lost, era, token>>
  BY DEF Restart
<1>2. \A r \in Refreshers : refresh'[r].pc = "idle"
  BY <1>1 DEF IdleRefresh
<1>3. \A t \in Tokens : Durable(t)' => Durable(t)
  BY <1>1 DEF Durable
<1>4. TypeOK'
  BY <1>1 DEF TypeOK, RefreshRecord, IdleRefresh
<1>5. Issued' /\ Prompt' /\ EntriesOutlive' /\ ClaimsHeld' /\ DeadRemembered'
  BY <1>1, <1>2 DEF Issued, Prompt, EntriesOutlive, ClaimsHeld, DeadRemembered, InFlight
<1>6. ExchangedIsDead' /\ NoSecondExchange' /\ OneChild'
  BY <1>1, <1>2, <1>3 DEF ExchangedIsDead, NoSecondExchange, OneChild, InFlight
<1> QED
  BY <1>4, <1>5, <1>6

\* Every step of the handlers and the clock preserves the inductive invariant.
LEMMA NextPreserves == IndInv /\ [Next]_vars => IndInv'
<1> SUFFICES ASSUME IndInv, [Next]_vars PROVE IndInv'
  OBVIOUS
<1>1. ASSUME NEW t \in Tokens, LoginWithPIN(t) \/ ExpireSession(t) \/ UpdateAuthProfile(t)
      PROVE  IndInv'
  <2>1. CASE LoginWithPIN(t)
    BY <2>1, LoginPreserves
  <2>2. CASE ExpireSession(t)
    BY <2>2, QuietPreserves DEF ExpireSession, userVars
  <2>3. CASE UpdateAuthProfile(t)
    BY <2>3, QuietPreserves DEF UpdateAuthProfile
  <2> QED
    BY <1>1, <2>1, <2>2, <2>3
<1>2. ASSUME NEW r \in Refreshers,
             \/ \E t \in Tokens : RefreshCheck(r, t) \/ RefreshIssue(r, t)
             \/ RefreshClaim(r)
             \/ RefreshSwap(r)
      PROVE  IndInv'
  BY <1>2, RefreshCheckPreserves, RefreshIssuePreserves, RefreshClaimPreserves,
     RefreshSwapPreserves
<1>3. ASSUME NEW s \in Setters, SetInitialPINCheck(s) \/ SetPINRejected(s) \/ SetPIN(s)
      PROVE  IndInv'
  <2>1. CASE SetInitialPINCheck(s) \/ SetPINRejected(s)
    BY <2>1, QuietPreserves DEF SetInitialPINCheck, SetPINRejected
  <2>2. CASE SetPIN(s)
    BY <2>2, SetPINPreserves
  <2> QED
    BY <1>3, <2>1, <2>2
<1>4. CASE Tick
  BY <1>4, TickPreserves
<1>5. CASE Restart
  BY <1>5, RestartPreserves
<1>6. CASE UNCHANGED vars
  BY <1>6, QuietPreserves DEF vars, userVars
<1> QED
  BY <1>1, <1>2, <1>3, <1>4, <1>5, <1>6 DEF Next

\* The inductive invariant holds in every reachable state of the JWT manager.
THEOREM Inductive == Spec => []IndInv
BY InitEstablishes, NextPreserves, PTL DEF Spec

-----------------------------------------------------------------------------
(***************************************************************************)
(* RevokeToken is final: neither pruneLocked nor the clock nor a restart   *)
(* makes VerifyToken or RefreshToken take a revoked token again, wherever  *)
(* the revocation can be relied on.                                        *)
(***************************************************************************)
THEOREM RevocationIsFinal == Spec => []RevokedStaysDead
<1>1. IndInv => RevokedStaysDead
  <2> SUFFICES ASSUME IndInv, NEW t \in dead, Durable(t)
               PROVE  ~Accepts(t) /\ ~Refreshable(t)
    BY DEF RevokedStaysDead
  <2>1. t \in Tokens
    BY DEF IndInv, TypeOK
  <2> QED
    BY <2>1, DeadIsRefused, AcceptsIsRefreshable
<1> QED
  BY <1>1, Inductive, PTL

(***************************************************************************)
(* claimForRotation makes rotation exactly-once: however many refreshes    *)
(* race for a token, and wherever a restart falls, it is exchanged for at  *)
(* most one other.                                                         *)
(***************************************************************************)
THEOREM RotationExactlyOnce == Spec => []RotatedOnce
<1>1. IndInv => RotatedOnce
  <2> SUFFICES ASSUME IndInv, NEW t \in Tokens, Durable(t)
               PROVE  Cardinality({u \in Tokens : token[u].parent = t}) <= 1
    BY DEF RotatedOnce
  <2> DEFINE Children == {u \in Tokens : token[u].parent = t}
  <2>1. CASE Children = {}
    BY <2>1, FS_EmptySet
  <2>2. CASE Children # {}
    <3>1. PICK u : Children = {u}
      BY <2>2 DEF IndInv, OneChild
    <3>2. Cardinality({u}) = 1
      BY FS_Singleton
    <3> QED
      BY <3>1, <3>2
  <2> QED
    BY <2>1, <2>2
<1> QED
  BY <1>1, Inductive, PTL

(***************************************************************************)
(* RefreshToken never doubles a session: a token that was exchanged is not *)
(* accepted any more, so of one login's tokens at most one is.             *)
(***************************************************************************)
THEOREM OneLiveToken == Spec => []NoTokenDoubling
<1>1. IndInv => NoTokenDoubling
  <2> SUFFICES ASSUME IndInv, ~restarted, NEW t \in Tokens, NEW u \in Tokens,
                      token[u].parent = t
               PROVE  ~Accepts(t)
    BY DEF NoTokenDoubling
  <2>1. t \in dead /\ Durable(t)
    BY DEF IndInv, ExchangedIsDead, Durable
  <2> QED
    BY <2>1, DeadIsRefused, AcceptsIsRefreshable
<1> QED
  BY <1>1, Inductive, PTL
=============================================================================
