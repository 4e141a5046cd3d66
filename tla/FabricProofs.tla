---------------------------- MODULE FabricProofs ----------------------------
(***************************************************************************)
(* The chain and its mirror, for any number of users, proposals in flight, *)
(* events per block, failed writes and closed streams: the chain of a user *)
(* has no gaps and its rules hold where an event joins it, so that it      *)
(* implements the append-only log; and the mirror is complete behind its   *)
(* watermark.                                                              *)
(***************************************************************************)
EXTENDS FabricSync, FiniteSetTheorems, FunctionTheorems, SequenceTheorems,
        WellFoundedInduction, TLAPS

USE WindowsAssumption, BlockAssumption, CallsAssumption, MirroredAssumption

-----------------------------------------------------------------------------
(***************************************************************************)
(* Least and greatest elements.                                            *)
(***************************************************************************)
LEMMA SmallestExists ==
    ASSUME NEW T \in SUBSET Nat, T # {}
    PROVE  \E x \in T : \A y \in T : x <= y
<1>1. PICK x \in T : \A y \in T : ~(<<y, x>> \in OpToRel(<, Nat))
  BY NatLessThanWellFounded, WFMin
<1>2. \A y \in T : ~(y < x)
  BY <1>1, Zenon DEF OpToRel
<1> QED
  BY <1>2

LEMMA MaxOfBounded ==
    ASSUME NEW T \in SUBSET Nat, T # {}, NEW n \in Nat, \A t \in T : t <= n
    PROVE  /\ Max(T) \in T
           /\ \A y \in T : y <= Max(T)
<1> DEFINE D == {n - t : t \in T}
<1>1. D \in SUBSET Nat /\ D # {}
  <2>1. \A t \in T : t \in Nat /\ n - t \in Nat
    OBVIOUS
  <2> QED
    BY <2>1
<1>2. PICK d \in D : \A e \in D : d <= e
  BY <1>1, SmallestExists
<1>3. PICK t \in T : d = n - t
  BY <1>2
<1>4. \A y \in T : t >= y
  <2> TAKE y \in T
  <2>1. n - y \in D
    OBVIOUS
  <2> QED
    BY <1>2, <1>3, <2>1
<1>5. \E x \in T : \A y \in T : x >= y
  BY <1>4
<1>6. Max(T) \in T /\ \A y \in T : Max(T) >= y
  BY <1>5 DEF Max
<1> QED
  BY <1>6

-----------------------------------------------------------------------------
(***************************************************************************)
(* queryByPartial on a chain without gaps: the event at position i is the  *)
(* one with the sequence number i.                                         *)
(***************************************************************************)
Numbered(S, n) ==
    /\ \A e \in S : e.seq \in 1..n
    /\ \A e, f \in S : e.seq = f.seq => e = f
    /\ \A k \in 1..n : \E e \in S : e.seq = k

LEMMA CountBelow ==
    ASSUME NEW S, NEW n \in Nat, Numbered(S, n), NEW k \in 0..n
    PROVE  LET B == {e \in S : e.seq <= k} IN IsFiniteSet(B) /\ Cardinality(B) = k
<1> DEFINE B == {e \in S : e.seq <= k}
           f == [i \in 1..k |-> CHOOSE e \in S : e.seq = i]
<1>1. \A i \in 1..k : f[i] \in S /\ f[i].seq = i
  BY DEF Numbered
<1>2. f \in [1..k -> B]
  BY <1>1
<1>3. \A i, j \in 1..k : f[i] = f[j] => i = j
  BY <1>1
<1>4. \A e \in B : e.seq \in 1..k /\ f[e.seq] = e
  BY <1>1 DEF Numbered
<1>5. f \in Bijection(1..k, B)
  <2>1. f \in Injection(1..k, B)
    BY <1>2, <1>3 DEF Injection, IsInjective
  <2>2. f \in Surjection(1..k, B)
    BY <1>2, <1>4 DEF Surjection
  <2> QED
    BY <2>1, <2>2 DEF Bijection
<1>6. ExistsBijection(1..k, B)
  BY <1>5 DEF ExistsBijection
<1>7. IsFiniteSet(1..k) /\ Cardinality(1..k) = k
  BY FS_Interval
<1> QED
  BY <1>6, <1>7, FS_Bijection

LEMMA SortedBySeq ==
    ASSUME NEW S, NEW n \in Nat, Numbered(S, n)
    PROVE  /\ IsFiniteSet(S) /\ Cardinality(S) = n
           /\ BySeq(S) \in [1..n -> S] /\ BySeq(S) \in Seq(S) /\ Len(BySeq(S)) = n
           /\ \A i \in 1..n : BySeq(S)[i].seq = i
           /\ \A e \in S : BySeq(S)[e.seq] = e
<1>1. IsFiniteSet(S) /\ Cardinality(S) = n
  <2>1. {e \in S : e.seq <= n} = S
    BY DEF Numbered
  <2> QED
    BY <2>1, CountBelow
<1>2. \A e \in S : Cardinality({g \in S : g.seq < e.seq}) = e.seq - 1
  <2> TAKE e \in S
  <2>1. e.seq \in 1..n
    BY DEF Numbered
  <2>2. {g \in S : g.seq < e.seq} = {g \in S : g.seq <= e.seq - 1}
    BY <2>1 DEF Numbered
  <2> QED
    BY <2>1, <2>2, CountBelow
<1>3. \A i \in 1..n : BySeq(S)[i] = CHOOSE e \in S : Cardinality({g \in S : g.seq < e.seq}) = i - 1
  BY <1>1 DEF BySeq
<1>4. \A i \in 1..n : BySeq(S)[i] \in S /\ BySeq(S)[i].seq = i
  <2> TAKE i \in 1..n
  <2>1. PICK e \in S : e.seq = i
    BY DEF Numbered
  <2>2. Cardinality({g \in S : g.seq < e.seq}) = i - 1
    BY <1>2, <2>1
  <2>3. /\ BySeq(S)[i] \in S
        /\ Cardinality({g \in S : g.seq < BySeq(S)[i].seq}) = i - 1
    BY <1>3, <2>2
  <2>4. BySeq(S)[i].seq \in 1..n /\ BySeq(S)[i].seq - 1 = i - 1
    BY <1>2, <2>3 DEF Numbered
  <2> QED
    BY <2>3, <2>4
<1>5. BySeq(S) \in [1..n -> S]
  BY <1>1, <1>4 DEF BySeq
<1>6. \A e \in S : BySeq(S)[e.seq] = e
  BY <1>4 DEF Numbered
<1> QED
  BY <1>1, <1>4, <1>5, <1>6

\* One more event, numbered next.
LEMMA SortedAppend ==
    ASSUME NEW S, NEW n \in Nat, Numbered(S, n), NEW ev, ev.seq = n + 1
    PROVE  /\ Numbered(S \cup {ev}, n + 1)
           /\ BySeq(S \cup {ev}) = Append(BySeq(S), ev)
<1>1. Numbered(S \cup {ev}, n + 1)
  BY DEF Numbered
<1>2. /\ BySeq(S) \in [1..n -> S] /\ BySeq(S) \in Seq(S) /\ Len(BySeq(S)) = n
      /\ \A i \in 1..n : BySeq(S)[i].seq = i
  BY SortedBySeq
<1>3a. PICK T : T = S \cup {ev}
  OBVIOUS
<1>3b. PICK m \in Nat : m = n + 1
  OBVIOUS
<1>3. T = S \cup {ev} /\ m = n + 1
  BY <1>3a, <1>3b
<1>4. /\ BySeq(T) \in [1..m -> T] /\ BySeq(T) \in Seq(T) /\ Len(BySeq(T)) = m
      /\ \A e \in T : BySeq(T)[e.seq] = e
  BY <1>1, <1>3, SortedBySeq
<1>5. \A i \in 1..n : BySeq(T)[i] = BySeq(S)[i]
  BY <1>2, <1>3, <1>4
<1>6. BySeq(T)[m] = ev
  BY <1>3, <1>4
<1>7. BySeq(S) \in Seq(T) /\ ev \in T
  BY <1>2, <1>3
<1>8. /\ Append(BySeq(S), ev) \in Seq(T) /\ Len(Append(BySeq(S), ev)) = m
      /\ Append(BySeq(S), ev)[m] = ev
      /\ \A i \in 1..n : Append(BySeq(S), ev)[i] = BySeq(S)[i]
  BY <1>2, <1>3, <1>7, AppendProperties
<1>9. \A i \in 1..m : BySeq(T)[i] = Append(BySeq(S), ev)[i]
  <2>1. \A i \in 1..m : i \in 1..n \/ i = m
    BY <1>3b
  <2> QED
    BY <1>5, <1>6, <1>8, <2>1, Zenon
<1>10. BySeq(T) = Append(BySeq(S), ev)
  BY <1>4, <1>8, <1>9, SeqEqual
<1> QED
  BY <1>1, <1>3, <1>10

-----------------------------------------------------------------------------
(***************************************************************************)
(* The chain.  An event as RecordEvent builds it; the chain of a user; and *)
(* what is known of a proposal in flight: it can only be the next event of *)
(* its chain, and if nothing was committed since it was endorsed, the      *)
(* rules hold on the history there is now.                                 *)
(***************************************************************************)
WellFormed(ev) ==
    /\ ev.user \in Users
    /\ ev.time \in Nat /\ ev.time <= now
    /\ ev.seq \in Nat \ {0}
    /\ ev.hash = EventHash(ev)
    /\ ev.action = "transaction_blocked" => ev.category = "transaction"

ChainOK(u) ==
    /\ head[u].seq \in Nat
    /\ Numbered(world[u], head[u].seq)
    /\ \A ev \in world[u] : WellFormed(ev) /\ ev.user = u
    /\ \A ev \in world[u] : ev.seq = 1 => ev.prevHash = NoHash
    /\ \A ev, next \in world[u] : next.seq = ev.seq + 1 => next.prevHash = ev.hash
    /\ head[u].seq = 0 => head[u].hash = NoHash
    /\ \A ev \in world[u] : ev.seq = head[u].seq => head[u].hash = ev.hash

ProposalOK(ev) ==
    /\ WellFormed(ev)
    /\ ev.seq <= head[ev.user].seq + 1
    /\ Fresh(ev) => EnforceRules(ev, QueryByUser(ev.user))

ChainInv ==
    /\ now \in Nat
    /\ window \in Windows
    /\ DOMAIN world = Users /\ DOMAIN head = Users
    /\ \A u \in Users : ChainOK(u)
    /\ \A ev \in proposals : ProposalOK(ev)

LEMMA ChainInitially == ChainInit => ChainInv
<1> SUFFICES ASSUME ChainInit PROVE ChainInv
  OBVIOUS
<1>1. \A u \in Users : world[u] = {} /\ head[u].seq = 0 /\ head[u].hash = NoHash
  BY DEF ChainInit
<1>2. \A u \in Users : ChainOK(u)
  BY <1>1 DEF ChainOK, Numbered
<1> QED
  BY <1>2 DEF ChainInit, ChainInv

(***************************************************************************)
(* The steps, by what they do to the chain of a user.                      *)
(***************************************************************************)
Stays(u) == world'[u] = world[u] /\ head'[u] = head[u]

Joins(u, ev) ==
    /\ ev \in proposals /\ ev.user = u /\ Fresh(ev)
    /\ world'[u] = world[u] \cup {ev}
    /\ head'[u] = [seq |-> ev.seq, hash |-> ev.hash]

\* Validation leaves at most one proposal of a user.
LEMMA OneSurvivor ==
    ASSUME NEW n \in Nat, NEW block \in [1..n -> proposals],
           NEW i \in Survivors(block), NEW j \in Survivors(block),
           block[i].user = block[j].user
    PROVE  i = j
<1>1. i \in 1..n /\ j \in 1..n /\ Fresh(block[i]) /\ Fresh(block[j])
  BY DEF Survivors
<1>2. ~(j < i)
  BY <1>1 DEF Survivors
<1>3. ~(i < j)
  BY <1>1 DEF Survivors
<1> QED
  BY <1>1, <1>2, <1>3

LEMMA OneWrite ==
    ASSUME NEW n \in Nat, NEW block \in [1..n -> proposals], NEW u
    PROVE  \/ WrittenFor(u, block) = {}
           \/ \E ev \in proposals : /\ WrittenFor(u, block) = {ev}
                                    /\ ev.user = u /\ Fresh(ev)
<1>1. ASSUME WrittenFor(u, block) # {}
      PROVE  \E ev \in proposals : /\ WrittenFor(u, block) = {ev}
                                   /\ ev.user = u /\ Fresh(ev)
  <2>1. PICK i \in Survivors(block) : block[i].user = u
    BY <1>1 DEF WrittenFor
  <2>2. Fresh(block[i]) /\ block[i] \in proposals
    BY <2>1 DEF Survivors
  <2>3. \A j \in Survivors(block) : block[j].user = u => j = i
    BY <2>1, OneSurvivor
  <2>4. WrittenFor(u, block) = {block[i]}
    BY <2>1, <2>3 DEF WrittenFor
  <2> QED
    BY <2>1, <2>2, <2>4
<1> QED
  BY <1>1

LEMMA CommitSteps ==
    ASSUME ChainInv, NEW n \in Nat, NEW block \in [1..n -> proposals], NEW valid,
           Commit(block, valid), NEW u \in Users
    PROVE  \/ Stays(u) /\ WrittenFor(u, block) = {}
           \/ \E ev \in proposals : Joins(u, ev) /\ WrittenFor(u, block) = {ev}
<1>1. /\ world'[u] = world[u] \cup WrittenFor(u, block)
      /\ head'[u] = IF WrittenFor(u, block) = {} THEN head[u]
                    ELSE HeadWritten(CHOOSE ev \in WrittenFor(u, block) : TRUE)
  BY DEF Commit
<1>2. CASE WrittenFor(u, block) = {}
  BY <1>1, <1>2 DEF Stays
<1>3. ASSUME NEW ev \in proposals, WrittenFor(u, block) = {ev}, ev.user = u, Fresh(ev)
      PROVE  Joins(u, ev)
  <2>1. (CHOOSE e \in {ev} : TRUE) = ev
    OBVIOUS
  <2> QED
    BY <1>1, <1>3, <2>1 DEF Joins, HeadWritten
<1> QED
  BY <1>2, <1>3, OneWrite

\* The clock only goes forward.
LEMMA StaysWellFormed ==
    ASSUME NEW ev, WellFormed(ev), now \in Nat, now' \in Nat, now <= now'
    PROVE  WellFormed(ev)'
BY DEF WellFormed, EventHash

LEMMA ChainStayed ==
    ASSUME ChainInv, NEW u \in Users, Stays(u), now' \in Nat, now <= now'
    PROVE  ChainOK(u)' /\ QueryByUser(u)' = QueryByUser(u)
<1>1. ChainOK(u) /\ now \in Nat /\ world'[u] = world[u] /\ head'[u] = head[u]
  BY DEF ChainInv, Stays
<1>2. \A ev \in world[u] : WellFormed(ev)' /\ ev.user = u
  BY <1>1, StaysWellFormed DEF ChainOK
<1>3. ChainOK(u)'
  BY <1>1, <1>2 DEF ChainOK
<1> QED
  BY <1>1, <1>3 DEF QueryByUser

LEMMA ChainJoined ==
    ASSUME ChainInv, NEW u \in Users, NEW ev \in proposals, Joins(u, ev),
           now' \in Nat, now <= now'
    PROVE  ChainOK(u)' /\ QueryByUser(u)' = Append(QueryByUser(u), ev)
<1>1. ChainOK(u) /\ now \in Nat
  BY DEF ChainInv
<1>2. /\ world'[u] = world[u] \cup {ev} /\ ev.user = u
      /\ head'[u].seq = ev.seq /\ head'[u].hash = ev.hash
  BY DEF Joins
<1>3. head[u].seq = ev.seq - 1 /\ head[u].hash = ev.prevHash
  BY <1>2 DEF Joins, Fresh
<1>4. WellFormed(ev) /\ ev.seq \in Nat \ {0}
  BY DEF ChainInv, ProposalOK, WellFormed
<1>5. head[u].seq \in Nat /\ Numbered(world[u], head[u].seq) /\ ev.seq = head[u].seq + 1
  BY <1>1, <1>3, <1>4 DEF ChainOK
<1>6. /\ Numbered(world'[u], head'[u].seq)
      /\ BySeq(world'[u]) = Append(BySeq(world[u]), ev)
  <2>1. /\ Numbered(world[u] \cup {ev}, head[u].seq + 1)
        /\ BySeq(world[u] \cup {ev}) = Append(BySeq(world[u]), ev)
    BY <1>5, SortedAppend
  <2> QED
    BY <1>2, <1>5, <2>1
<1>7. \A e \in world'[u] : WellFormed(e)' /\ e.user = u
  BY <1>1, <1>2, <1>4, StaysWellFormed DEF ChainOK
<1>8. \A e \in world[u] : e.seq \in 1..head[u].seq
  BY <1>5 DEF Numbered
<1>9. \A e \in world'[u] : e.seq = 1 => e.prevHash = NoHash
  BY <1>1, <1>2, <1>3, <1>5, <1>8 DEF ChainOK
<1>10. \A e, next \in world'[u] : next.seq = e.seq + 1 => next.prevHash = e.hash
  <2> SUFFICES ASSUME NEW e \in world'[u], NEW next \in world'[u], next.seq = e.seq + 1
               PROVE  next.prevHash = e.hash
    OBVIOUS
  <2>1. CASE next \in world[u]
    <3>1. e \in world[u]
      BY <1>2, <1>5, <1>8, <2>1
    <3> QED
      BY <1>1, <2>1, <3>1 DEF ChainOK
  <2>2. CASE next = ev
    <3>1. e \in world[u] /\ e.seq = head[u].seq
      BY <1>2, <1>5, <1>8, <2>2
    <3> QED
      BY <1>1, <1>3, <2>2, <3>1 DEF ChainOK
  <2> QED
    BY <1>2, <2>1, <2>2
<1>11. \A e \in world'[u] : e.seq = head'[u].seq => head'[u].hash = e.hash
  BY <1>2, <1>5, <1>8
<1>12. head'[u].seq \in Nat /\ head'[u].seq # 0
  BY <1>2, <1>4
<1>13. ChainOK(u)'
  BY <1>6, <1>7, <1>9, <1>10, <1>11, <1>12 DEF ChainOK
<1> QED
  BY <1>6, <1>13 DEF QueryByUser

\* Whatever else happens, a proposal that may still be committed was checked
\* against the history there is.
LEMMA ProposalStays ==
    ASSUME ChainInv, NEW ev \in proposals, window' = window, now' \in Nat, now <= now',
           Stays(ev.user) \/ \E e \in proposals : Joins(ev.user, e)
    PROVE  ProposalOK(ev)'
<1>1. ProposalOK(ev) /\ now \in Nat
  BY DEF ChainInv
<1>2. WellFormed(ev)' /\ ev.user \in Users /\ ev.seq \in Nat \ {0}
  BY <1>1, StaysWellFormed DEF ProposalOK, WellFormed
<1>3. CASE Stays(ev.user)
  <2>1. QueryByUser(ev.user)' = QueryByUser(ev.user) /\ head'[ev.user] = head[ev.user]
    BY <1>2, <1>3, ChainStayed DEF Stays
  <2>2. Fresh(ev)' => EnforceRules(ev, QueryByUser(ev.user))'
    BY <1>1, <2>1 DEF ProposalOK, Fresh, EnforceRules, CoolingOffRule,
                      ConsentRevocationRule, DoubleSpendRule
  <2> QED
    BY <1>1, <1>2, <2>1, <2>2 DEF ProposalOK
<1>4. ASSUME NEW e \in proposals, Joins(ev.user, e)
      PROVE  ProposalOK(ev)'
  <2>1. head'[ev.user].seq = e.seq /\ head[ev.user].seq = e.seq - 1
    BY <1>4 DEF Joins, Fresh
  <2>2. ev.seq <= head[ev.user].seq + 1 /\ head[ev.user].seq \in Nat
    BY <1>1, <1>2 DEF ProposalOK, ChainInv, ChainOK
  <2>3. e.seq \in Nat
    BY DEF ChainInv, ProposalOK, WellFormed
  <2>4. ev.seq <= head'[ev.user].seq
    BY <1>2, <2>1, <2>2, <2>3
  <2>5. ~Fresh(ev)'
    BY <1>2, <2>1, <2>3, <2>4 DEF Fresh
  <2> QED
    BY <1>2, <2>1, <2>3, <2>4, <2>5 DEF ProposalOK
<1> QED
  BY <1>3, <1>4

\* RecordEvent at endorsement.
LEMMA RecordEventOK ==
    ASSUME ChainInv, NEW s, Submitted(s), RecordEvent(s)
    PROVE  ChainInv'
<1> DEFINE ev == NewEvent(s)
<1>1. /\ proposals' = proposals \cup {ev}
      /\ EnforceRules(ev, QueryByUser(s.user))
      /\ UNCHANGED <<world, head, window, now>>
  BY DEF RecordEvent
<1>2. /\ ev.user = s.user /\ ev.action = s.action /\ ev.category = CategoryFor(s.resource)
      /\ ev.time = now /\ ev.seq = head[s.user].seq + 1
      /\ ev.hash = EventHash(ev)
  BY DEF NewEvent, EventHash
<1> HIDE DEF ev
<1>3. s.user \in Users /\ ChainOK(s.user) /\ now \in Nat
  BY DEF Submitted, ChainInv
<1>4. ev.action = "transaction_blocked" => ev.category = "transaction"
  BY <1>2 DEF Submitted, CategoryFor, ValidCategories
<1>5. WellFormed(ev)
  BY <1>2, <1>3, <1>4 DEF WellFormed, ChainOK
<1>6. ProposalOK(ev)
  BY <1>1, <1>2, <1>3, <1>5 DEF ProposalOK, ChainOK
<1>7. \A e \in proposals' : ProposalOK(e)
  BY <1>1, <1>6 DEF ChainInv
<1>8. \A e \in proposals' : ProposalOK(e)'
  <2> TAKE e \in proposals'
  <2>1. ProposalOK(e) /\ WellFormed(e)'
    BY <1>1, <1>3, <1>7, StaysWellFormed DEF ProposalOK
  <2>2. /\ QueryByUser(e.user)' = QueryByUser(e.user)
        /\ head'[e.user] = head[e.user]
    BY <1>1 DEF QueryByUser
  <2>3. Fresh(e)' => EnforceRules(e, QueryByUser(e.user))'
    BY <1>1, <2>1, <2>2 DEF ProposalOK, Fresh, EnforceRules, CoolingOffRule,
                            ConsentRevocationRule, DoubleSpendRule
  <2> QED
    BY <2>1, <2>2, <2>3 DEF ProposalOK
<1>9. \A u \in Users : ChainOK(u)'
  BY <1>1 DEF ChainInv, ChainOK, WellFormed, EventHash
<1> QED
  BY <1>1, <1>8, <1>9 DEF ChainInv

\* What a block does to all users.
LEMMA CommitOK ==
    ASSUME ChainInv, NEW n \in Nat, NEW block \in [1..n -> proposals], NEW valid,
           Commit(block, valid)
    PROVE  ChainInv'
<1>1. /\ window' = window /\ now' = now /\ now \in Nat
      /\ proposals' \subseteq proposals
      /\ DOMAIN world' = Users /\ DOMAIN head' = Users
  BY DEF Commit, ChainInv
<1>2. \A u \in Users : Stays(u) \/ \E ev \in proposals : Joins(u, ev)
  BY CommitSteps
<1>3. \A u \in Users : ChainOK(u)'
  BY <1>1, <1>2, ChainStayed, ChainJoined
<1>4. \A ev \in proposals : ProposalOK(ev)'
  <2> TAKE ev \in proposals
  <2>1. ev.user \in Users
    BY DEF ChainInv, ProposalOK, WellFormed
  <2> QED
    BY <1>1, <1>2, <2>1, ProposalStays
<1> QED
  BY <1>1, <1>3, <1>4 DEF ChainInv

LEMMA BlocksAreFinite ==
    ASSUME NEW n \in 1..MaxBlock
    PROVE  n \in Nat
OBVIOUS

LEMMA CommitBlockOK == ASSUME ChainInv, CommitBlock PROVE ChainInv'
<1>1. PICK n \in 1..MaxBlock :
        \E block \in [1..n -> proposals] :
            \E valid \in InOrder(Survivors(block)) : Commit(block, valid)
  BY DEF CommitBlock
<1>2. n \in Nat
  BY BlocksAreFinite
<1> QED
  BY <1>1, <1>2, CommitOK

\* Steps that write nothing to the chain.
LEMMA QuietOK ==
    ASSUME ChainInv, world' = world, head' = head, window' \in Windows,
           now' \in Nat, now <= now', proposals' \subseteq proposals,
           window' = window \/ proposals' = {}
    PROVE  ChainInv'
<1>1. \A u \in Users : Stays(u)
  BY DEF Stays
<1>2. \A u \in Users : ChainOK(u)'
  BY <1>1, ChainStayed
<1>3. \A ev \in proposals' : ProposalOK(ev)'
  <2> TAKE ev \in proposals'
  <2>1. ev \in proposals /\ ev.user \in Users /\ window' = window
    BY DEF ChainInv, ProposalOK, WellFormed
  <2> QED
    BY <1>1, <2>1, ProposalStays
<1> QED
  BY <1>2, <1>3 DEF ChainInv

LEMMA ChainPreserved == ChainInv /\ [Next]_vars => ChainInv'
<1> SUFFICES ASSUME ChainInv, [Next]_vars PROVE ChainInv'
  OBVIOUS
<1>0. now \in Nat /\ window \in Windows
  BY DEF ChainInv
<1>1. CASE ChainNext(IF pool THEN MirroredCalls ELSE Calls)
  <2>1. ASSUME NEW s \in Calls \cup MirroredCalls, RecordEvent(s)
        PROVE  ChainInv'
    BY <2>1, RecordEventOK
  <2>2. CASE CommitBlock
    BY <2>2, CommitBlockOK
  <2>3. CASE DropProposal
    BY <1>0, <2>3, QuietOK DEF DropProposal
  <2>4. ASSUME NEW w \in Windows, SetCoolingOffWindow(w)
        PROVE  ChainInv'
    BY <1>0, <2>4, QuietOK DEF SetCoolingOffWindow
  <2> QED
    BY <1>1, <2>1, <2>2, <2>3, <2>4 DEF ChainNext
<1>2. CASE ChainTick
  BY <1>0, <1>2, QuietOK DEF ChainTick
<1>3. CASE SyncNext
  BY <1>0, <1>3, QuietOK DEF SyncNext, Connect, Mirror, MirrorFails, CloseStream, chainVars
<1>4. CASE UNCHANGED vars
  BY <1>0, <1>4, QuietOK DEF vars, chainVars
<1> QED
  BY <1>1, <1>2, <1>3, <1>4 DEF Next

THEOREM ChainInductive == Spec => []ChainInv
<1>1. Init => ChainInv
  BY ChainInitially DEF Init
<1> QED
  BY <1>1, ChainPreserved, PTL DEF Spec

LEMMA History ==
    ASSUME ChainInv, NEW u \in Users
    PROVE  /\ IsFiniteSet(world[u]) /\ Cardinality(world[u]) = head[u].seq
           /\ head[u].seq \in Nat
           /\ QueryByUser(u) \in [1..head[u].seq -> world[u]]
           /\ QueryByUser(u) \in Seq(world[u]) /\ Len(QueryByUser(u)) = head[u].seq
           /\ \A i \in 1..head[u].seq : QueryByUser(u)[i].seq = i
           /\ \A ev \in world[u] : ev.seq \in 1..head[u].seq /\ QueryByUser(u)[ev.seq] = ev
<1>1. head[u].seq \in Nat /\ Numbered(world[u], head[u].seq)
  BY DEF ChainInv, ChainOK
<1>2. \A ev \in world[u] : ev.seq \in 1..head[u].seq
  BY <1>1 DEF Numbered
<1> QED
  BY <1>1, <1>2, SortedBySeq DEF QueryByUser

(***************************************************************************)
(* RecordEvent, readHead and writeHead, for any number of submissions of a *)
(* user between endorsement and commit and blocks of any size: GetProof    *)
(* finds the chain intact, without gaps, and the head names its last       *)
(* event.                                                                  *)
(***************************************************************************)
THEOREM ChainStaysIntact == Spec => []ChainIntact
<1>1. ChainInv => ChainIntact
  <2> SUFFICES ASSUME ChainInv, NEW u \in Users
               PROVE  /\ Intact(u)
                      /\ \A ev \in world[u] : ev.seq \in 1..Cardinality(world[u])
                      /\ head[u].seq = Cardinality(world[u])
                      /\ world[u] # {} => head[u].hash = Last(QueryByUser(u)).hash
    BY DEF ChainIntact
  <2>1. PICK h, n : h = QueryByUser(u) /\ n = head[u].seq
    OBVIOUS
  <2>2. /\ n \in Nat /\ Cardinality(world[u]) = n
        /\ h \in [1..n -> world[u]] /\ Len(h) = n
        /\ \A i \in 1..n : h[i].seq = i
        /\ \A ev \in world[u] : ev.seq \in 1..n /\ h[ev.seq] = ev
    BY <2>1, History
  <2>3. ChainOK(u)
    BY DEF ChainInv
  <2>4. \A i \in 1..n : h[i] \in world[u] /\ h[i].hash = EventHash(h[i])
    BY <2>2, <2>3 DEF ChainOK, WellFormed
  <2>5. \A i \in 1..n : h[i].prevHash = IF i = 1 THEN NoHash ELSE h[i - 1].hash
    <3> TAKE i \in 1..n
    <3>1. CASE i = 1
      BY <2>2, <2>3, <2>4, <3>1 DEF ChainOK
    <3>2. CASE i # 1
      <4>1. i - 1 \in 1..n /\ i = (i - 1) + 1
        BY <2>2, <3>2
      <4>2. h[i].seq = h[i - 1].seq + 1 /\ h[i] \in world[u] /\ h[i - 1] \in world[u]
        BY <2>2, <2>4, <4>1
      <4> QED
        BY <2>3, <3>2, <4>2 DEF ChainOK
    <3> QED
      BY <3>1, <3>2
  <2>6. Intact(u)
    BY <2>1, <2>2, <2>4, <2>5 DEF Intact
  <2>7. ASSUME world[u] # {} PROVE head[u].hash = Last(h).hash
    <3>1. n \in 1..n
      BY <2>2, <2>7
    <3>2. h[n] \in world[u] /\ h[n].seq = n
      BY <2>2, <3>1
    <3> QED
      BY <2>1, <2>2, <2>3, <3>2 DEF ChainOK, Last
  <2> QED
    BY <2>1, <2>2, <2>6, <2>7
<1> QED
  BY <1>1, ChainInductive, PTL

(***************************************************************************)
(* VerifyCoolingOff takes the latest blocked transaction of one category,  *)
(* coolingOffRule looks at all blocked events of the user: they agree at   *)
(* every instant, for any window.                                          *)
(***************************************************************************)
THEOREM GateAgrees == Spec => []GateAgreesWithRule
<1>1. ChainInv => GateAgreesWithRule
  <2> SUFFICES ASSUME ChainInv, NEW u \in Users
               PROVE  CoolingOffActive(u) <=>
                        ~CoolingOffRule([action |-> "transaction_initiated", time |-> now],
                                        QueryByUser(u))
    BY DEF GateAgreesWithRule
  <2> DEFINE blocked == {ev \in world[u] : ev.action = "transaction_blocked"}
             T == {ev.time : ev \in blocked}
             h == QueryByUser(u)
  <2>1. /\ now \in Nat /\ window \in Nat
        /\ \A ev \in world[u] : ev.time \in Nat /\ ev.time <= now
    BY DEF ChainInv, ChainOK, WellFormed
  <2>2. blocked = {ev \in world[u] : /\ ev.category = "transaction"
                                     /\ ev.action = "transaction_blocked"}
    BY DEF ChainInv, ChainOK, WellFormed
  <2>3. CoolingOffActive(u) <=> blocked # {} /\ now < Max(T) + window
    BY <2>2 DEF CoolingOffActive
  <2>4. T \in SUBSET Nat /\ \A t \in T : t <= now
    BY <2>1
  <2>5. blocked # {} => Max(T) \in T /\ \A t \in T : t <= Max(T)
    BY <2>1, <2>4, MaxOfBounded
  <2>6. (blocked # {} /\ now < Max(T) + window) <=>
           \E ev \in blocked : ~(now - ev.time >= window)
    <3>1. ASSUME NEW ev \in blocked, ~(now - ev.time >= window)
          PROVE  now < Max(T) + window
      <4>1. ev.time \in T /\ Max(T) \in Nat /\ ev.time <= Max(T)
        BY <2>4, <2>5
      <4> QED
        BY <2>1, <3>1, <4>1
    <3>2. ASSUME blocked # {}, now < Max(T) + window
          PROVE  \E ev \in blocked : ~(now - ev.time >= window)
      <4>1. PICK ev \in blocked : ev.time = Max(T)
        BY <2>5, <3>2
      <4> QED
        BY <2>1, <3>2, <4>1
    <3> QED
      BY <3>1, <3>2
  <2>7. \A ev : ev \in world[u] <=> \E i \in DOMAIN h : h[i] = ev
    BY History
  <2>8. CoolingOffRule([action |-> "transaction_initiated", time |-> now], h) <=>
           \A ev \in blocked : now - ev.time >= window
    BY <2>7 DEF CoolingOffRule
  <2> QED
    BY <2>3, <2>6, <2>8
<1> QED
  BY <1>1, ChainInductive, PTL

-----------------------------------------------------------------------------
(***************************************************************************)
(* The chain implements AppendLog.                                         *)
(***************************************************************************)
LogEntry(ev) == [action |-> ev.action, payload |-> ev.payload, time |-> ev.time]

LEMMA LogProperties ==
    ASSUME ChainInv, NEW u \in Users
    PROVE  /\ LogOf(u) = [i \in 1..head[u].seq |-> LogEntry(QueryByUser(u)[i])]
           /\ LogOf(u) \in Seq({LogEntry(ev) : ev \in world[u]})
           /\ Len(LogOf(u)) = head[u].seq
<1>1. /\ head[u].seq \in Nat /\ QueryByUser(u) \in [1..head[u].seq -> world[u]]
  BY History
<1>2. LogOf(u) = [i \in 1..head[u].seq |-> LogEntry(QueryByUser(u)[i])]
  BY <1>1 DEF LogOf, LogEntry
<1>3. LogOf(u) \in [1..head[u].seq -> {LogEntry(ev) : ev \in world[u]}]
  BY <1>1, <1>2
<1> QED
  BY <1>1, <1>2, <1>3

\* The rules the chaincode evaluates imply the rules as the log states them.
LEMMA RulesPermit ==
    ASSUME ChainInv, NEW u \in Users, NEW ev, EnforceRules(ev, QueryByUser(u)),
           ev.time \in Nat
    PROVE  Log!Permitted(LogEntry(ev), LogOf(u), window)
<1>1. PICK h, n, l : h = QueryByUser(u) /\ n = head[u].seq /\ l = LogOf(u)
  OBVIOUS
<1>2. /\ n \in Nat /\ h \in [1..n -> world[u]] /\ DOMAIN l = 1..n
      /\ \A i \in 1..n : /\ l[i].action = h[i].action /\ l[i].payload = h[i].payload
                         /\ l[i].time = h[i].time
  <2>1. n \in Nat /\ h \in [1..n -> world[u]]
    BY <1>1, History
  <2>2. l = [i \in 1..n |-> LogEntry(h[i])]
    BY <1>1, LogProperties
  <2> QED
    BY <2>1, <2>2 DEF LogEntry
<1>3. \A i \in 1..n : h[i].time \in Nat
  BY <1>2 DEF ChainInv, ChainOK, WellFormed
<1>4. window \in Nat
  BY DEF ChainInv
<1>5. CoolingOffRule(ev, h) /\ ConsentRevocationRule(ev, h) /\ DoubleSpendRule(ev, h)
  BY <1>1 DEF EnforceRules
<1>6. Log!AfterWindow(LogEntry(ev), l, window)
  BY <1>2, <1>3, <1>4, <1>5 DEF Log!AfterWindow, Log!PayOut, CoolingOffRule, LogEntry
<1>7. Log!WithConsent(LogEntry(ev), l)
  <2> SUFFICES ASSUME ev.action \in Log!DataAccess, NEW i \in 1..n,
                      h[i].action = "consent_revoked", h[i].time < ev.time
               PROVE  \E j \in 1..n : /\ j > i /\ h[j].action \in Log!ConsentGiven
                                      /\ h[j].time < ev.time
    BY <1>2 DEF Log!WithConsent, LogEntry
  <2> DEFINE decisions ==
          {k \in DOMAIN h :
              /\ h[k].action \in {"consent_revoked", "consent_granted", "consent_updated"}
              /\ h[k].time < ev.time}
  <2>1. decisions \in SUBSET Nat /\ i \in decisions /\ \A k \in decisions : k <= n
    BY <1>2
  <2>2. PICK j : j = Max(decisions)
    OBVIOUS
  <2>3. j \in decisions /\ i <= j
    BY <1>2, <2>1, <2>2, MaxOfBounded
  <2>4. h[j].action # "consent_revoked"
    BY <1>5, <2>1, <2>2 DEF ConsentRevocationRule, Log!DataAccess
  <2>5. j \in 1..n /\ j # i
    BY <1>2, <2>3, <2>4
  <2> QED
    BY <2>3, <2>4, <2>5 DEF Log!ConsentGiven
<1>8. Log!NotReplayed(LogEntry(ev), l)
  BY <1>2, <1>5 DEF Log!NotReplayed, DoubleSpendRule, LogEntry
<1> QED
  BY <1>1, <1>6, <1>7, <1>8 DEF Log!Permitted

\* An event that joins the chain is one more entry of the log.
LEMMA LogGrows ==
    ASSUME ChainInv, NEW u \in Users, NEW ev \in proposals, Joins(u, ev),
           now' \in Nat, now <= now'
    PROVE  /\ LogOf(u)' = Append(LogOf(u), LogEntry(ev))
           /\ Len(LogOf(u)') = Len(LogOf(u)) + 1
           /\ LogOf(u)'[Len(LogOf(u)) + 1] = LogEntry(ev)
<1>1. QueryByUser(u)' = Append(QueryByUser(u), ev)
  BY ChainJoined
<1>2. PICK n \in Nat : n = head[u].seq
  BY History
<1>3. ev.seq \in Nat \ {0} /\ head'[u].seq = ev.seq /\ ev.seq = n + 1
  BY <1>2 DEF Joins, Fresh, ChainInv, ProposalOK, WellFormed
<1>4. /\ QueryByUser(u) \in Seq(world[u]) /\ Len(QueryByUser(u)) = n
      /\ \A i \in 1..n : QueryByUser(u)'[i] = QueryByUser(u)[i]
      /\ QueryByUser(u)'[n + 1] = ev
  BY <1>1, <1>2, History
<1>5. PICK S : S = {LogEntry(e) : e \in world[u] \cup {ev}}
  OBVIOUS
<1>6. /\ LogOf(u) \in Seq(S) /\ Len(LogOf(u)) = n
      /\ \A i \in 1..n : LogOf(u)[i] = LogEntry(QueryByUser(u)[i])
  <2>1. {LogEntry(e) : e \in world[u]} \subseteq S
    BY <1>5
  <2>2. /\ LogOf(u) = [i \in 1..n |-> LogEntry(QueryByUser(u)[i])]
        /\ LogOf(u) \in Seq({LogEntry(e) : e \in world[u]})
        /\ Len(LogOf(u)) = n
    BY <1>2, LogProperties
  <2>3. LogOf(u) \in Seq(S)
    BY <2>1, <2>2, SeqMonotonic
  <2> QED
    BY <2>2, <2>3
<1>7. LogOf(u)' = [i \in 1..(n + 1) |-> LogEntry(QueryByUser(u)'[i])]
  <2>1. DOMAIN QueryByUser(u)' = 1..(n + 1)
    BY <1>1, <1>4
  <2> QED
    BY <2>1 DEF LogOf, LogEntry
<1>8. LogOf(u)' \in Seq(S) /\ Len(LogOf(u)') = n + 1
  <2>1. \A i \in 1..(n + 1) : i \in 1..n \/ i = n + 1
    BY <1>2
  <2>2. \A i \in 1..n : QueryByUser(u)'[i] \in world[u]
    BY <1>4
  <2>3. \A i \in 1..(n + 1) : QueryByUser(u)'[i] \in world[u] \cup {ev}
    BY <1>4, <2>1, <2>2, Zenon
  <2>4. LogOf(u)' \in [1..(n + 1) -> S]
    BY <1>5, <1>7, <2>3
  <2> QED
    BY <1>2, <2>4
<1>9. LogEntry(ev) \in S
  BY <1>5
<1>10. /\ Append(LogOf(u), LogEntry(ev)) \in Seq(S)
       /\ Len(Append(LogOf(u), LogEntry(ev))) = n + 1
       /\ Append(LogOf(u), LogEntry(ev))[n + 1] = LogEntry(ev)
       /\ \A i \in 1..n : Append(LogOf(u), LogEntry(ev))[i] = LogOf(u)[i]
  BY <1>6, <1>9, AppendProperties
<1>11. \A i \in 1..(n + 1) : LogOf(u)'[i] = LogEntry(QueryByUser(u)'[i])
  BY <1>7
<1>12. \A i \in 1..(n + 1) : LogOf(u)'[i] = Append(LogOf(u), LogEntry(ev))[i]
  <2> TAKE i \in 1..(n + 1)
  <2>1. CASE i = n + 1
    BY <1>4, <1>10, <1>11, <2>1
  <2>2. CASE i \in 1..n
    BY <1>4, <1>6, <1>10, <1>11, <2>2
  <2>3. i \in 1..n \/ i = n + 1
    BY <1>2
  <2> QED
    BY <2>1, <2>2, <2>3, Zenon
<1>13. LogOf(u)' = Append(LogOf(u), LogEntry(ev))
  BY <1>8, <1>10, <1>12, SeqEqual
<1> QED
  BY <1>6, <1>8, <1>10, <1>13

AbstractLog == [u \in Users |-> LogOf(u)]

\* A user's log is left alone, or grows by an entry that is permitted there.
LEMMA LogUserSteps ==
    ASSUME ChainInv, NEW u \in Users, now' \in Nat, now <= now'
    PROVE  /\ Stays(u) => LogOf(u)' = LogOf(u)
           /\ \A ev \in proposals : Joins(u, ev) =>
                 /\ LogOf(u)' = Append(LogOf(u), LogEntry(ev))
                 /\ Len(LogOf(u)') = Len(LogOf(u)) + 1
                 /\ LogOf(u)'[Len(LogOf(u)) + 1] = LogEntry(ev)
                 /\ Log!Permitted(LogEntry(ev), LogOf(u), window)
<1>1. Stays(u) => LogOf(u)' = LogOf(u)
  BY DEF Stays, LogOf, QueryByUser
<1>2. ASSUME NEW ev \in proposals, Joins(u, ev)
      PROVE  Log!Permitted(LogEntry(ev), LogOf(u), window)
  <2>1. EnforceRules(ev, QueryByUser(u)) /\ ev.time \in Nat
    BY <1>2 DEF ChainInv, ProposalOK, WellFormed, Joins
  <2> QED
    BY <2>1, RulesPermit
<1> QED
  BY <1>1, <1>2, LogGrows

LEMMA QuietLog ==
    ASSUME world' = world
    PROVE  AbstractLog' = AbstractLog
BY DEF AbstractLog, LogOf, QueryByUser

\* A block appends to the logs of the users whose proposals survive it.
LEMMA CommitAppends ==
    ASSUME ChainInv, CommitBlock
    PROVE  [Log!Next]_<<AbstractLog, window>>
<1>1. PICK n \in 1..MaxBlock : \E block \in [1..n -> proposals] :
            \E valid \in InOrder(Survivors(block)) : Commit(block, valid)
  BY DEF CommitBlock
<1>2. PICK block \in [1..n -> proposals] : \E valid : Commit(block, valid)
  BY <1>1
<1>3. PICK valid : Commit(block, valid)
  BY <1>2
<1>4. n \in Nat /\ window' = window /\ now' = now /\ now \in Nat
  BY <1>3, BlocksAreFinite DEF Commit, ChainInv
<1>5. \A u \in Users : Stays(u) \/ \E ev \in proposals : Joins(u, ev)
  BY <1>3, <1>4, CommitSteps
<1> DEFINE S == {u \in Users : ~Stays(u)}
<1>6. \A u \in Users \ S : AbstractLog'[u] = AbstractLog[u]
  BY <1>4, LogUserSteps DEF AbstractLog
<1>7. CASE S = {}
  <2>1. AbstractLog' = AbstractLog
    BY <1>6, <1>7 DEF AbstractLog
  <2> QED
    BY <1>4, <2>1
<1>8. CASE S # {}
  <2>1. \A u \in S : Log!Grow(u)
    <3> TAKE u \in S
    <3>1. u \in Users /\ now <= now'
      BY <1>4
    <3>2. PICK ev \in proposals : Joins(u, ev)
      BY <1>5
    <3>3. /\ LogOf(u)' = Append(LogOf(u), LogEntry(ev))
          /\ Len(LogOf(u)') = Len(LogOf(u)) + 1
          /\ LogOf(u)'[Len(LogOf(u)) + 1] = LogEntry(ev)
          /\ Log!Permitted(LogEntry(ev), LogOf(u), window)
      BY <1>4, <3>1, <3>2, LogUserSteps
    <3> QED
      BY <3>1, <3>3 DEF Log!Grow
  <2>2. S \in (SUBSET Users) \ {{}}
    BY <1>8
  <2>3. Log!AppendBlock
    BY <1>4, <1>6, <2>1, <2>2 DEF Log!AppendBlock, AbstractLog
  <2> QED
    BY <2>3 DEF Log!Next
<1> QED
  BY <1>7, <1>8

LEMMA StepsImplemented == ChainInv /\ [Next]_vars => [Log!Next]_<<AbstractLog, window>>
<1> SUFFICES ASSUME ChainInv, [Next]_vars PROVE [Log!Next]_<<AbstractLog, window>>
  OBVIOUS
<1>1. ASSUME world' = world, window' = window
      PROVE  [Log!Next]_<<AbstractLog, window>>
  BY <1>1, QuietLog
<1>2. ASSUME NEW w \in Windows, SetCoolingOffWindow(w)
      PROVE  Log!Next
  <2>1. world' = world /\ window' = w
    BY <1>2 DEF SetCoolingOffWindow
  <2> QED
    BY <2>1, QuietLog DEF Log!Next, Log!SetWindow, AbstractLog
<1>3. CASE ChainNext(IF pool THEN MirroredCalls ELSE Calls)
  <2>1. ASSUME NEW s, RecordEvent(s)
        PROVE  [Log!Next]_<<AbstractLog, window>>
    BY <1>1, <2>1 DEF RecordEvent
  <2>2. CASE DropProposal
    BY <1>1, <2>2 DEF DropProposal
  <2> QED
    BY <1>2, <1>3, <2>1, <2>2, CommitAppends DEF ChainNext
<1>4. CASE ChainTick
  BY <1>1, <1>4 DEF ChainTick
<1>5. CASE SyncNext
  BY <1>1, <1>5 DEF SyncNext, Connect, Mirror, MirrorFails, CloseStream, chainVars
<1>6. CASE UNCHANGED vars
  BY <1>1, <1>6 DEF vars, chainVars
<1> QED
  BY <1>3, <1>4, <1>5, <1>6 DEF Next

(***************************************************************************)
(* The chaincode on Fabric implements the append-only log of permitted     *)
(* entries (main.go, enforceRules: "rule is genuinely enforced"): a rule   *)
(* is evaluated at endorsement, on an older state, but validation lets a   *)
(* proposal through only if the history it was checked against is the one  *)
(* it joins.                                                               *)
(***************************************************************************)
THEOREM ChainImplementsLog == Spec => ImplementsLog
<1>1. Init => Log!Init
  <2> SUFFICES ASSUME Init PROVE Log!Init
    OBVIOUS
  <2>1. \A u \in Users : LogOf(u) = << >>
    <3> TAKE u \in Users
    <3>1. ChainInv /\ head[u].seq = 0
      BY ChainInitially DEF Init, ChainInit
    <3>2. /\ LogOf(u) \in Seq({LogEntry(ev) : ev \in world[u]})
          /\ Len(LogOf(u)) = 0
      BY <3>1, LogProperties
    <3> QED
      BY <3>2, EmptySeq
  <2>2. [u \in Users |-> LogOf(u)] = [u \in Users |-> << >>]
    BY <2>1
  <2> QED
    BY <2>2 DEF Log!Init, Init, ChainInit
<1>2. ChainInv /\ [Next]_vars => [Log!Next]_<<[u \in Users |-> LogOf(u)], window>>
  BY StepsImplemented DEF AbstractLog
<1> QED
  BY <1>1, <1>2, ChainInductive, PTL DEF Spec, ImplementsLog, Log!Spec

-----------------------------------------------------------------------------
(***************************************************************************)
(* The stream of chaincode events: block after block, each event of the    *)
(* chain once.                                                             *)
(***************************************************************************)
EmittedOK ==
    /\ height \in Nat
    /\ \E S : emitted \in Seq(S)
    /\ \A i \in DOMAIN emitted :
          /\ emitted[i].block \in 1..height
          /\ emitted[i].event.user \in Users
          /\ emitted[i].event \in world[emitted[i].event.user]
    /\ \A u \in Users : \A ev \in world[u] : \E i \in DOMAIN emitted : emitted[i].event = ev
    /\ \A i, j \in DOMAIN emitted : i < j => emitted[i].block <= emitted[j].block
    /\ \A i, j \in DOMAIN emitted :
          (/\ emitted[i].event.user = emitted[j].event.user
           /\ emitted[i].event.seq = emitted[j].event.seq) => i = j

\* What a block puts on the stream.
Emits(new) ==
    /\ \E S : new \in Seq(S)
    /\ emitted' = emitted \o new
    /\ \A k \in DOMAIN new :
          /\ new[k].block = height + 1
          /\ new[k].event.user \in Users
          /\ new[k].event \in proposals
          /\ Joins(new[k].event.user, new[k].event)
    /\ \A k, l \in DOMAIN new : new[k].event.user = new[l].event.user => k = l
    /\ \A u \in Users : Stays(u) \/ \E k \in DOMAIN new : Joins(u, new[k].event)
    /\ height' \in Nat /\ height <= height'
    /\ DOMAIN new # {} => height' = height + 1

LEMMA CommitEmits ==
    ASSUME ChainInv, EmittedOK, NEW n \in Nat, NEW block \in [1..n -> proposals],
           NEW valid \in InOrder(Survivors(block)), Commit(block, valid)
    PROVE  \E new : Emits(new)
<1> DEFINE T == Survivors(block)
           new == [k \in DOMAIN valid |-> [event |-> block[valid[k]], block |-> height + 1]]
<1>1. T \in SUBSET (1..n) /\ IsFiniteSet(1..n)
  BY FS_Interval DEF Survivors
<1>2. PICK m \in Nat : m = Cardinality(T)
  BY <1>1, FS_Subset, FS_CardinalityType
<1>3. /\ valid \in [1..m -> T]
      /\ \A i, j \in 1..m : i < j => valid[i] < valid[j]
      /\ \A k \in T : \E i \in 1..m : valid[i] = k
  BY <1>2 DEF InOrder
<1>4. DOMAIN new = 1..m /\ \A k \in 1..m : /\ new[k].event = block[valid[k]]
                                           /\ new[k].block = height + 1
  BY <1>3
<1>5. new \in Seq({new[k] : k \in 1..m})
  <2>1. new \in [1..m -> {new[k] : k \in 1..m}]
    BY <1>3
  <2> QED
    BY <1>2, <2>1
<1>6. emitted' = emitted \o new
  BY DEF Commit
<1>7. height' = height + (IF valid = << >> THEN 0 ELSE 1) /\ height \in Nat
  BY DEF Commit, EmittedOK
<1> HIDE DEF new
<1>8. ASSUME NEW k \in 1..m
      PROVE  LET ev == new[k].event IN
             /\ ev \in proposals /\ ev.user \in Users /\ Joins(ev.user, ev)
  <2>1. PICK ev : ev = new[k].event /\ ev = block[valid[k]]
    BY <1>4
  <2>2. valid[k] \in T /\ ev \in proposals
    BY <1>1, <1>3, <2>1
  <2>3. ev.user \in Users
    BY <2>2 DEF ChainInv, ProposalOK, WellFormed
  <2>4. ev \in WrittenFor(ev.user, block)
    BY <2>1, <2>2 DEF WrittenFor
  <2>5. Joins(ev.user, ev)
    BY <2>3, <2>4, CommitSteps
  <2> QED
    BY <2>1, <2>2, <2>3, <2>5
<1>9. ASSUME NEW k \in 1..m, NEW l \in 1..m, new[k].event.user = new[l].event.user
      PROVE  k = l
  <2>1. block[valid[k]].user = block[valid[l]].user /\ valid[k] \in T /\ valid[l] \in T
    BY <1>3, <1>4, <1>9
  <2>2. valid[k] = valid[l]
    BY <2>1, OneSurvivor
  <2>3. valid[k] \in 1..n
    BY <1>1, <2>1
  <2> QED
    BY <1>3, <2>2, <2>3
<1>10. ASSUME NEW u \in Users, ~Stays(u)
       PROVE  \E k \in 1..m : Joins(u, new[k].event)
  <2>1. PICK ev \in proposals : Joins(u, ev) /\ WrittenFor(u, block) = {ev}
    BY <1>10, CommitSteps
  <2>2. PICK i \in T : block[i] = ev
    BY <2>1 DEF WrittenFor
  <2>3. PICK k \in 1..m : valid[k] = i
    BY <1>3, <2>2
  <2> QED
    BY <1>4, <2>1, <2>2, <2>3
<1>11. height' \in Nat /\ height <= height' /\ (1..m # {} => height' = height + 1)
  <2>1. 1..m # {} => valid # << >>
    <3>1. DOMAIN valid = 1..m
      BY <1>3
    <3>2. DOMAIN << >> = {}
      OBVIOUS
    <3> QED
      BY <3>1, <3>2
  <2> QED
    BY <1>7, <2>1
<1>12. Emits(new)
  BY <1>4, <1>5, <1>6, <1>8, <1>9, <1>10, <1>11 DEF Emits
<1> QED
  BY <1>12

\* The stream so far, and what is appended to it.
LEMMA Appended ==
    ASSUME EmittedOK, NEW new, \E S : new \in Seq(S), emitted' = emitted \o new
    PROVE  \E m \in Nat, q \in Nat :
             /\ m = Len(emitted) /\ DOMAIN emitted = 1..m /\ DOMAIN new = 1..q
             /\ Len(emitted') = m + q /\ DOMAIN emitted' = 1..(m + q)
             /\ \A i \in 1..m : emitted'[i] = emitted[i]
             /\ \A k \in 1..q : emitted'[m + k] = new[k]
             /\ \A i \in 1..(m + q) : i \in 1..m \/ \E k \in 1..q : i = m + k
             /\ \E S : emitted' \in Seq(S)
<1>1. PICK S1 : emitted \in Seq(S1)
  BY DEF EmittedOK
<1>2. PICK S2 : new \in Seq(S2)
  OBVIOUS
<1>3. PICK S : S = S1 \cup S2
  OBVIOUS
<1>4. emitted \in Seq(S) /\ new \in Seq(S)
  BY <1>1, <1>2, <1>3, SeqMonotonic
<1>5. PICK m \in Nat : m = Len(emitted)
  BY <1>4
<1>6. PICK q \in Nat : q = Len(new)
  BY <1>4
<1>7. DOMAIN emitted = 1..m /\ DOMAIN new = 1..q
  BY <1>4, <1>5, <1>6
<1>8. /\ emitted' \in Seq(S) /\ Len(emitted') = m + q
      /\ \A i \in 1..(m + q) : emitted'[i] = IF i <= m THEN emitted[i] ELSE new[i - m]
  BY <1>4, <1>5, <1>6, ConcatProperties
<1>9. DOMAIN emitted' = 1..(m + q)
  BY <1>8
<1>10. \A i \in 1..m : emitted'[i] = emitted[i]
  BY <1>8
<1>11. \A k \in 1..q : emitted'[m + k] = new[k]
  <2> TAKE k \in 1..q
  <2>1. m + k \in 1..(m + q) /\ ~(m + k <= m) /\ (m + k) - m = k
    OBVIOUS
  <2> QED
    BY <1>8, <2>1
<1>12. \A i \in 1..(m + q) : i \in 1..m \/ \E k \in 1..q : i = m + k
  <2> TAKE i \in 1..(m + q)
  <2>1. i \in 1..m \/ (i - m \in 1..q /\ i = m + (i - m))
    OBVIOUS
  <2> QED
    BY <2>1
<1> QED
  BY <1>5, <1>7, <1>8, <1>9, <1>10, <1>11, <1>12

LEMMA EmitsOK ==
    ASSUME ChainInv, EmittedOK, NEW new, Emits(new)
    PROVE  EmittedOK'
<1>1. PICK m \in Nat, q \in Nat :
        /\ m = Len(emitted) /\ DOMAIN emitted = 1..m /\ DOMAIN new = 1..q
        /\ Len(emitted') = m + q /\ DOMAIN emitted' = 1..(m + q)
        /\ \A i \in 1..m : emitted'[i] = emitted[i]
        /\ \A k \in 1..q : emitted'[m + k] = new[k]
        /\ \A i \in 1..(m + q) : i \in 1..m \/ \E k \in 1..q : i = m + k
        /\ \E S : emitted' \in Seq(S)
  BY Appended DEF Emits
<1>2. height \in Nat /\ height' \in Nat /\ height <= height'
  BY DEF EmittedOK, Emits
<1>3. \A u \in Users : world[u] \subseteq world'[u]
  <2> TAKE u \in Users
  <2>1. Stays(u) \/ \E k \in DOMAIN new : Joins(u, new[k].event)
    BY DEF Emits
  <2>2. CASE Stays(u)
    BY <2>2 DEF Stays
  <2>3. ASSUME NEW k \in DOMAIN new, Joins(u, new[k].event)
        PROVE  world[u] \subseteq world'[u]
    BY <2>3 DEF Joins
  <2> QED
    BY <2>1, <2>2, <2>3
<1>4. \A i \in 1..m : /\ emitted[i].block \in 1..height
                      /\ emitted[i].event.user \in Users
                      /\ emitted[i].event \in world[emitted[i].event.user]
  BY <1>1 DEF EmittedOK
<1>5. \A k \in 1..q : /\ new[k].block = height + 1 /\ height' = height + 1
                      /\ new[k].event.user \in Users
                      /\ new[k].event \in world'[new[k].event.user]
                      /\ Joins(new[k].event.user, new[k].event)
  <2> TAKE k \in 1..q
  <2>1. /\ DOMAIN new # {} /\ new[k].block = height + 1 /\ new[k].event.user \in Users
        /\ Joins(new[k].event.user, new[k].event)
    BY <1>1 DEF Emits
  <2> QED
    BY <2>1 DEF Emits, Joins
\* The old events of a user come before the new one.
<1>6. \A i \in 1..m, k \in 1..q :
        emitted[i].event.user = new[k].event.user =>
            emitted[i].event.seq # new[k].event.seq
  <2> SUFFICES ASSUME NEW i \in 1..m, NEW k \in 1..q, NEW u, u = new[k].event.user,
                      emitted[i].event.user = u
               PROVE  emitted[i].event.seq # new[k].event.seq
    OBVIOUS
  <2>1. u \in Users /\ emitted[i].event \in world[u] /\ Joins(u, new[k].event)
    BY <1>4, <1>5
  <2>2. emitted[i].event.seq \in 1..head[u].seq /\ head[u].seq \in Nat
    BY <2>1, History
  <2>3. head[u].seq = new[k].event.seq - 1 /\ new[k].event.seq \in Nat
    <3>1. PICK ev : ev = new[k].event
      OBVIOUS
    <3>2. ev \in proposals /\ ev.user = u /\ Fresh(ev)
      BY <2>1, <3>1 DEF Joins
    <3>3. head[u] = [seq |-> ev.seq - 1, hash |-> ev.prevHash]
      BY <3>2 DEF Fresh
    <3>4. ev.seq \in Nat
      BY <3>2 DEF ChainInv, ProposalOK, WellFormed
    <3>5. head[u].seq = ev.seq - 1
      BY <3>3
    <3> QED
      BY <3>1, <3>4, <3>5
  <2> QED
    BY <2>2, <2>3
<1>7. \A i \in DOMAIN emitted' :
        /\ emitted'[i].block \in 1..height'
        /\ emitted'[i].event.user \in Users
        /\ emitted'[i].event \in world'[emitted'[i].event.user]
  <2> SUFFICES ASSUME NEW i \in 1..(m + q)
               PROVE  /\ emitted'[i].block \in 1..height'
                      /\ emitted'[i].event.user \in Users
                      /\ emitted'[i].event \in world'[emitted'[i].event.user]
    BY <1>1
  <2>1. CASE i \in 1..m
    BY <1>1, <1>2, <1>3, <1>4, <2>1
  <2>2. ASSUME NEW k \in 1..q, i = m + k
        PROVE  /\ emitted'[i].block \in 1..height'
               /\ emitted'[i].event.user \in Users
               /\ emitted'[i].event \in world'[emitted'[i].event.user]
    <3>1. emitted'[i] = new[k]
      BY <1>1, <2>2
    <3>2. height + 1 \in 1..height' /\ new[k].block = height + 1
      BY <1>2, <1>5
    <3> QED
      BY <1>5, <3>1, <3>2
  <2> QED
    BY <1>1, <2>1, <2>2
<1>8. \A u \in Users : \A ev \in world'[u] : \E i \in DOMAIN emitted' : emitted'[i].event = ev
  <2> TAKE u \in Users
  <2> TAKE ev \in world'[u]
  <2>1. CASE ev \in world[u]
    <3>1. PICK i \in 1..m : emitted[i].event = ev
      BY <1>1, <2>1 DEF EmittedOK
    <3>2. i \in 1..(m + q) /\ emitted'[i].event = ev
      BY <1>1, <3>1
    <3> QED
      BY <1>1, <3>2
  <2>2. CASE ev \notin world[u]
    <3>1. PICK k \in 1..q : Joins(u, new[k].event)
      BY <1>1, <2>2 DEF Emits, Stays
    <3>2. ev = new[k].event
      BY <2>2, <3>1 DEF Joins
    <3>3. m + k \in 1..(m + q) /\ emitted'[m + k].event = ev
      BY <1>1, <3>2
    <3> QED
      BY <1>1, <3>3
  <2> QED
    BY <2>1, <2>2
<1>9. \A i, j \in DOMAIN emitted' : i < j => emitted'[i].block <= emitted'[j].block
  <2> SUFFICES ASSUME NEW i \in 1..(m + q), NEW j \in 1..(m + q), i < j
               PROVE  emitted'[i].block <= emitted'[j].block
    BY <1>1
  <2>1. CASE j \in 1..m
    <3>1. i \in 1..m
      BY <2>1
    <3>2. emitted'[i] = emitted[i] /\ emitted'[j] = emitted[j]
      BY <1>1, <2>1, <3>1
    <3>3. emitted[i].block <= emitted[j].block
      BY <1>1, <2>1, <3>1 DEF EmittedOK
    <3> QED
      BY <3>2, <3>3
  <2>2. ASSUME NEW k \in 1..q, j = m + k
        PROVE  emitted'[i].block <= emitted'[j].block
    <3>1. emitted'[j].block = height' /\ height' \in Nat
      BY <1>1, <1>2, <1>5, <2>2
    <3>2. emitted'[i].block \in 1..height'
      BY <1>1, <1>7
    <3> QED
      BY <3>1, <3>2
  <2> QED
    BY <1>1, <2>1, <2>2
<1>10. \A i, j \in DOMAIN emitted' :
        (/\ emitted'[i].event.user = emitted'[j].event.user
         /\ emitted'[i].event.seq = emitted'[j].event.seq) => i = j
  <2> SUFFICES ASSUME NEW i \in 1..(m + q), NEW j \in 1..(m + q),
                      emitted'[i].event.user = emitted'[j].event.user,
                      emitted'[i].event.seq = emitted'[j].event.seq
               PROVE  i = j
    BY <1>1
  <2>1. CASE i \in 1..m /\ j \in 1..m
    BY <1>1, <2>1 DEF EmittedOK
  <2>2. ASSUME NEW k \in 1..q, NEW l \in 1..q, i = m + k, j = m + l
        PROVE  i = j
    <3>1. new[k].event.user = new[l].event.user
      BY <1>1, <2>2
    <3> QED
      BY <1>1, <2>2, <3>1 DEF Emits
  <2>3. ASSUME NEW k \in 1..q, i \in 1..m, j = m + k
        PROVE  FALSE
    <3>1. emitted'[i] = emitted[i] /\ emitted'[j] = new[k]
      BY <1>1, <2>3
    <3> QED
      BY <1>6, <2>3, <3>1
  <2>4. ASSUME NEW k \in 1..q, j \in 1..m, i = m + k
        PROVE  FALSE
    <3>1. emitted'[j] = emitted[j] /\ emitted'[i] = new[k]
      BY <1>1, <2>4
    <3> QED
      BY <1>6, <2>4, <3>1
  <2> QED
    BY <1>1, <2>1, <2>2, <2>3, <2>4
<1> QED
  BY <1>1, <1>2, <1>7, <1>8, <1>9, <1>10 DEF EmittedOK

LEMMA QuietEmitted ==
    ASSUME EmittedOK, world' = world, emitted' = emitted, height' = height
    PROVE  EmittedOK'
BY DEF EmittedOK

-----------------------------------------------------------------------------
(***************************************************************************)
(* The mirror.  Whatever the stream has passed, or the watermark says is   *)
(* done, is in the mirror or was skipped or missed; and the watermark      *)
(* names a block that exists, so that the events of a later block are not  *)
(* behind it.  What lies ahead of the stream is not from before the        *)
(* watermark's block, so the watermark never goes back; and what was       *)
(* missed is behind the stream as long as the watermark is 0, and no later *)
(* than the watermark's block from then on.                                *)
(***************************************************************************)
Stored(e) == e \in mirror \/ e.event \in skipped \cup missed

Early(i) ==
    IF watermark = 0 THEN stream = Closed \/ i <= stream
                     ELSE emitted[i].block <= watermark

MissedEarly ==
    /\ missed \subseteq {emitted[i].event : i \in DOMAIN emitted}
    /\ \A i \in DOMAIN emitted : emitted[i].event \in missed => Early(i)
    /\ \A i \in DOMAIN emitted :
          stream # Closed /\ stream < i => watermark <= emitted[i].block

MirrorInv ==
    /\ EmittedOK
    /\ mirror \subseteq ToSet(emitted)
    /\ watermark \in 0..height
    /\ stream = Closed \/ stream \in 0..Len(emitted)
    /\ \A i \in DOMAIN emitted :
          emitted[i].block < watermark \/ i <= stream => Stored(emitted[i])
    /\ MissedEarly

LEMMA MirrorInitially == Init => MirrorInv
<1> SUFFICES ASSUME Init PROVE MirrorInv
  OBVIOUS
<1>1. emitted = << >> /\ emitted \in Seq({}) /\ DOMAIN emitted = {}
  BY DEF Init, ChainInit
<1>2. \A u \in Users : world[u] = {}
  BY DEF Init, ChainInit
<1>3. EmittedOK
  BY <1>1, <1>2 DEF EmittedOK, Init, ChainInit
<1>4. MissedEarly
  BY <1>1 DEF MissedEarly, Init
<1> QED
  BY <1>1, <1>3, <1>4 DEF MirrorInv, Init, ChainInit

\* Client.Events from a block on: as blocks do not go back, the events before
\* it are a prefix of the stream, which the new stream leaves out.
LEMMA StartsBehind ==
    ASSUME EmittedOK, NEW w \in Nat \ {0}
    PROVE  /\ StartOf(w) \in 0..Len(emitted)
           /\ \A i \in DOMAIN emitted : i <= StartOf(w) <=> emitted[i].block < w
<1>1. PICK m \in Nat : m = Len(emitted) /\ DOMAIN emitted = 1..m
  BY DEF EmittedOK
<1>2. \A i \in 1..m : emitted[i].block \in Nat
  BY <1>1 DEF EmittedOK
<1> DEFINE T == {i \in 1..(m + 1) : i = m + 1 \/ ~(emitted[i].block < w)}
<1>3. PICK k \in T : \A i \in T : k <= i
  <2>1. m + 1 \in T /\ T \in SUBSET Nat
    OBVIOUS
  <2> QED
    BY <2>1, SmallestExists
<1>4. k \in 1..(m + 1) /\ k - 1 \in 0..m
  BY <1>3
<1>5. ASSUME NEW i \in 1..m
      PROVE  emitted[i].block < w <=> i <= k - 1
  <2>1. CASE i < k
    <3>1. i \notin T
      BY <1>3, <1>4, <2>1
    <3> QED
      BY <1>4, <2>1, <3>1
  <2>2. CASE i >= k
    <3>1. k \in 1..m /\ ~(emitted[k].block < w)
      BY <1>3, <1>4, <2>2
    <3>2. emitted[k].block <= emitted[i].block
      <4>1. CASE i = k
        BY <1>2, <3>1, <4>1
      <4>2. CASE k < i
        BY <1>1, <3>1, <4>2 DEF EmittedOK
      <4> QED
        BY <1>4, <2>2, <4>1, <4>2
    <3> QED
      BY <1>2, <1>4, <2>2, <3>1, <3>2
  <2> QED
    BY <1>4, <2>1, <2>2
<1>6. {i \in DOMAIN emitted : emitted[i].block < w} = 1..(k - 1)
  BY <1>1, <1>4, <1>5
<1>7. Cardinality(1..(k - 1)) = k - 1
  BY <1>4, FS_Interval
<1>8. StartOf(w) = k - 1
  BY <1>6, <1>7 DEF StartOf
<1> QED
  BY <1>1, <1>4, <1>5, <1>8

\* upsert: the row of an event of the stream can only be that event's.
LEMMA UpsertAdds ==
    ASSUME MirrorInv, NEW i \in DOMAIN emitted
    PROVE  Upsert(emitted[i]) = mirror \cup {emitted[i]}
<1>1. ASSUME NEW r \in mirror, r.event.user = emitted[i].event.user,
             r.event.seq = emitted[i].event.seq
      PROVE  r = emitted[i]
  <2>1. PICK j \in DOMAIN emitted : r = emitted[j]
    BY DEF MirrorInv, ToSet
  <2>2. i = j
    BY <1>1, <2>1 DEF MirrorInv, EmittedOK
  <2> QED
    BY <2>1, <2>2
<1> QED
  BY <1>1 DEF Upsert

LEMMA QuietMirror ==
    ASSUME MirrorInv, world' = world, emitted' = emitted, height' = height,
           UNCHANGED <<mirror, watermark, skipped, missed, stream>>
    PROVE  MirrorInv'
<1>1. EmittedOK'
  BY QuietEmitted DEF MirrorInv
<1>2. MissedEarly'
  BY DEF MirrorInv, MissedEarly, Early
<1> QED
  BY <1>1, <1>2 DEF MirrorInv, Stored

LEMMA ConnectOK ==
    ASSUME MirrorInv, Connect
    PROVE  MirrorInv'
<1>1. EmittedOK /\ watermark \in Nat
  BY DEF MirrorInv, EmittedOK
<1>2. EmittedOK'
  BY <1>1, QuietEmitted DEF Connect, chainVars
<1>3. /\ emitted' = emitted /\ height' = height /\ mirror' = mirror /\ watermark' = watermark
      /\ stream' = StartOf(watermark) /\ skipped' = skipped /\ stream = Closed
  BY DEF Connect, chainVars
<1>4. PICK m \in Nat : m = Len(emitted) /\ DOMAIN emitted = 1..m
  BY <1>1 DEF EmittedOK
<1>5. CASE watermark = 0
  <2>1. stream' = m
    BY <1>3, <1>4, <1>5 DEF StartOf
  <2>2. missed' = missed \cup {e.event : e \in ToSet(emitted) \ mirror}
    BY <1>5 DEF Connect
  <2>3. \A i \in 1..m : Stored(emitted[i])'
    <3> TAKE i \in 1..m
    <3>1. emitted[i] \in ToSet(emitted)
      BY <1>4 DEF ToSet
    <3> QED
      BY <1>3, <2>2, <3>1 DEF Stored
  <2>4. MissedEarly'
    <3>1. missed' \subseteq {emitted[i].event : i \in DOMAIN emitted}
      BY <2>2 DEF MirrorInv, MissedEarly, ToSet
    <3>2. \A i \in DOMAIN emitted : Early(i)'
      BY <1>3, <1>4, <1>5, <2>1 DEF Early
    <3>3. \A i \in DOMAIN emitted : ~(m < i)
      BY <1>4
    <3> QED
      BY <1>3, <2>1, <3>1, <3>2, <3>3 DEF MissedEarly
  <2> QED
    BY <1>2, <1>3, <1>4, <2>1, <2>3, <2>4 DEF MirrorInv, Stored
<1>6. CASE watermark # 0
  <2>1. /\ StartOf(watermark) \in 0..Len(emitted)
        /\ \A i \in DOMAIN emitted : i <= StartOf(watermark) <=> emitted[i].block < watermark
    BY <1>1, <1>6, StartsBehind
  <2>2. stream' \in 0..Len(emitted)
    BY <1>3, <2>1
  <2>3. \A i \in DOMAIN emitted :
          emitted[i].block < watermark \/ i <= stream' => Stored(emitted[i])
    BY <1>3, <2>1 DEF MirrorInv
  <2>4. missed' = missed
    BY <1>1, <1>6 DEF Connect
  <2>5. MissedEarly'
    <3>1. \A i \in DOMAIN emitted : emitted[i].event \in missed => Early(i)'
      BY <1>3, <1>6 DEF MirrorInv, MissedEarly, Early
    <3>2. ASSUME NEW i \in DOMAIN emitted, stream' < i
          PROVE  watermark <= emitted[i].block
      <4>1. ~(emitted[i].block < watermark)
        BY <1>3, <1>4, <2>1, <2>2, <3>2
      <4> QED
        BY <1>1, <4>1 DEF EmittedOK
    <3> QED
      BY <1>3, <2>4, <3>1, <3>2 DEF MirrorInv, MissedEarly
  <2> QED
    BY <1>2, <1>3, <2>2, <2>3, <2>4, <2>5 DEF MirrorInv, Stored
<1> QED
  BY <1>5, <1>6

LEMMA MirrorOK ==
    ASSUME MirrorInv, Mirror
    PROVE  MirrorInv'
<1>1. EmittedOK
  BY DEF MirrorInv
<1>2. EmittedOK'
  BY <1>1, QuietEmitted DEF Mirror, chainVars
<1>3. PICK m \in Nat : m = Len(emitted) /\ DOMAIN emitted = 1..m
  BY <1>1 DEF EmittedOK
<1>4. stream \in 0..m /\ stream + 1 \in 1..m
  BY <1>3 DEF Mirror, MirrorInv
<1>5. PICK n \in 1..m : n = stream + 1
  BY <1>4
<1>6. mirror' = mirror \cup {emitted[n]}
  BY <1>3, <1>5, UpsertAdds DEF Mirror
<1>7. /\ emitted' = emitted /\ height' = height /\ skipped' = skipped /\ missed' = missed
      /\ stream' = n
      /\ watermark' = watermark \/ watermark' = emitted[n].block
  BY <1>5 DEF Mirror, chainVars
<1>8. \A i \in 1..m : emitted[i].block \in 1..height
  BY <1>1, <1>3 DEF EmittedOK
<1>9. watermark' \in 0..height
  BY <1>7, <1>8 DEF MirrorInv
<1>10. mirror' \subseteq ToSet(emitted)
  BY <1>3, <1>5, <1>6 DEF MirrorInv, ToSet
<1>11. ASSUME NEW i \in 1..m, emitted[i].block < watermark' \/ i <= n
       PROVE  Stored(emitted[i])'
  <2>1. CASE Stored(emitted[i])
    BY <1>6, <1>7, <2>1 DEF Stored
  <2>2. CASE i = n
    BY <1>6, <1>7, <2>2 DEF Stored
  <2>3. CASE i <= stream \/ emitted[i].block < watermark
    BY <1>3, <2>1, <2>3 DEF MirrorInv
  <2>4. CASE i > n /\ watermark' = emitted[n].block
    <3>1. emitted[n].block <= emitted[i].block
      BY <1>1, <1>3, <2>4 DEF EmittedOK
    <3> QED
      BY <1>8, <1>11, <2>4, <3>1
  <2>5. i = n \/ i <= stream \/ i > n
    BY <1>4, <1>5
  <2> QED
    BY <1>7, <1>11, <2>2, <2>3, <2>4, <2>5
<1>12. \A i \in DOMAIN emitted' :
         emitted'[i].block < watermark' \/ i <= stream' => Stored(emitted[i])'
  BY <1>3, <1>7, <1>11
<1>13. ASSUME NEW i \in 1..m, stream < i
       PROVE  watermark <= emitted[i].block
  BY <1>3, <1>4, <1>13 DEF MirrorInv, MissedEarly, Closed
<1>14. ASSUME NEW i \in 1..m, n < i
       PROVE  watermark' <= emitted[i].block
  <2>1. CASE watermark' = watermark
    BY <1>4, <1>5, <1>13, <1>14, <2>1
  <2>2. CASE watermark' = emitted[n].block
    BY <1>1, <1>3, <1>14, <2>2 DEF EmittedOK
  <2> QED
    BY <1>7, <2>1, <2>2
<1>15. ASSUME NEW i \in 1..m, emitted[i].event \in missed
       PROVE  Early(i)'
  <2>0. Early(i) /\ emitted[i].block \in 1..height /\ emitted[n].block \in 1..height
    BY <1>3, <1>8, <1>15 DEF MirrorInv, MissedEarly
  <2>1. CASE watermark' = watermark
    BY <1>3, <1>4, <1>5, <1>7, <2>0, <2>1 DEF Early, Closed
  <2>2. CASE watermark' = emitted[n].block
    <3>1. CASE watermark = 0
      <4>1. i < n
        BY <1>3, <1>4, <1>5, <2>0, <3>1 DEF Early, Closed
      <4>2. emitted[i].block <= emitted[n].block
        BY <1>1, <1>3, <4>1 DEF EmittedOK
      <4> QED
        BY <1>7, <2>0, <2>2, <4>2 DEF Early
    <3>2. CASE watermark # 0
      <4>1. emitted[i].block <= watermark /\ watermark <= emitted[n].block
        BY <1>4, <1>5, <1>13, <2>0, <3>2 DEF Early
      <4>2. watermark \in Nat
        BY <1>1 DEF MirrorInv, EmittedOK
      <4>3. emitted[i].block <= emitted[n].block
        BY <2>0, <4>1, <4>2
      <4> QED
        BY <1>7, <2>0, <2>2, <4>3 DEF Early
    <3> QED
      BY <3>1, <3>2
  <2> QED
    BY <1>7, <2>1, <2>2
<1>16. MissedEarly'
  BY <1>3, <1>7, <1>14, <1>15 DEF MirrorInv, MissedEarly
<1> QED
  BY <1>2, <1>3, <1>7, <1>9, <1>10, <1>12, <1>16 DEF MirrorInv, Stored

LEMMA MirrorFailsOK ==
    ASSUME MirrorInv, MirrorFails
    PROVE  MirrorInv'
<1>1. EmittedOK
  BY DEF MirrorInv
<1>2. EmittedOK'
  BY <1>1, QuietEmitted DEF MirrorFails, chainVars
<1>3. PICK m \in Nat : m = Len(emitted) /\ DOMAIN emitted = 1..m
  BY <1>1 DEF EmittedOK
<1>4. stream \in 0..m /\ stream + 1 \in 1..m
  BY <1>3 DEF MirrorFails, MirrorInv
<1>5. /\ emitted' = emitted /\ height' = height /\ mirror' = mirror
      /\ watermark' = watermark /\ stream' = stream + 1
      /\ skipped' = skipped \cup {emitted[stream + 1].event} /\ missed' = missed
  BY DEF MirrorFails, chainVars
<1>6. ASSUME NEW i \in 1..m, emitted[i].block < watermark \/ i <= stream + 1
      PROVE  Stored(emitted[i])'
  <2>1. CASE i = stream + 1
    BY <1>5, <2>1 DEF Stored
  <2>2. CASE emitted[i].block < watermark \/ i <= stream
    BY <1>3, <1>5, <2>2 DEF MirrorInv, Stored
  <2> QED
    BY <1>4, <1>6, <2>1, <2>2
<1>7. MissedEarly'
  <2>1. \A i \in 1..m : Early(i) => Early(i)'
    BY <1>4, <1>5 DEF Early, Closed
  <2>2. \A i \in 1..m : stream + 1 < i => stream # Closed /\ stream < i
    BY <1>4 DEF Closed
  <2> QED
    BY <1>3, <1>5, <2>1, <2>2 DEF MirrorInv, MissedEarly
<1> QED
  BY <1>2, <1>3, <1>4, <1>5, <1>6, <1>7 DEF MirrorInv, Stored

LEMMA CloseStreamOK ==
    ASSUME MirrorInv, CloseStream
    PROVE  MirrorInv'
<1>1. EmittedOK
  BY DEF MirrorInv
<1>2. EmittedOK'
  BY <1>1, QuietEmitted DEF CloseStream, chainVars
<1>3. PICK m \in Nat : m = Len(emitted) /\ DOMAIN emitted = 1..m
  BY <1>1 DEF EmittedOK
<1>4. \A i \in 1..m : ~(i <= Closed)
  BY DEF Closed
<1>5. MissedEarly'
  BY DEF MirrorInv, MissedEarly, Early, CloseStream, chainVars
<1> QED
  BY <1>2, <1>3, <1>4, <1>5 DEF MirrorInv, Stored, CloseStream, chainVars

\* A block commits: its events are neither behind the watermark nor read.
LEMMA MirrorLagsBehind ==
    ASSUME ChainInv, MirrorInv, NEW new, Emits(new),
           UNCHANGED <<mirror, watermark, skipped, missed, stream>>
    PROVE  MirrorInv'
<1>1. EmittedOK /\ EmittedOK'
  BY EmitsOK DEF MirrorInv
<1>2. PICK m \in Nat, q \in Nat :
        /\ m = Len(emitted) /\ DOMAIN emitted = 1..m /\ DOMAIN new = 1..q
        /\ Len(emitted') = m + q /\ DOMAIN emitted' = 1..(m + q)
        /\ \A i \in 1..m : emitted'[i] = emitted[i]
        /\ \A k \in 1..q : emitted'[m + k] = new[k]
        /\ \A i \in 1..(m + q) : i \in 1..m \/ \E k \in 1..q : i = m + k
        /\ \E S : emitted' \in Seq(S)
  BY <1>1, Appended DEF Emits
<1>3. height \in Nat /\ height' \in Nat /\ height <= height'
  BY <1>1 DEF EmittedOK, Emits
<1>4. mirror' \subseteq ToSet(emitted')
  <2> SUFFICES ASSUME NEW r \in mirror PROVE r \in ToSet(emitted')
    OBVIOUS
  <2>1. PICK i \in 1..m : r = emitted[i]
    BY <1>2 DEF MirrorInv, ToSet
  <2>2. i \in DOMAIN emitted' /\ r = emitted'[i]
    BY <1>2, <2>1
  <2> QED
    BY <2>2 DEF ToSet
<1>5. watermark' \in 0..height'
  BY <1>3 DEF MirrorInv
<1>6. stream' = Closed \/ stream' \in 0..Len(emitted')
  BY <1>2 DEF MirrorInv
<1>7. ASSUME NEW i \in 1..(m + q), emitted'[i].block < watermark \/ i <= stream
      PROVE  Stored(emitted'[i])
  <2>1. CASE i \in 1..m
    <3>1. emitted'[i] = emitted[i]
      BY <1>2, <2>1
    <3> QED
      BY <1>2, <1>7, <2>1, <3>1 DEF MirrorInv
  <2>2. ASSUME NEW k \in 1..q, i = m + k
        PROVE  FALSE
    <3>1. emitted'[i] = new[k]
      BY <1>2, <2>2
    <3>2. emitted'[i].block = height + 1
      <4>1. new[k].block = height + 1
        BY <1>2 DEF Emits
      <4> QED
        BY <3>1, <4>1
    <3>3. ~(emitted'[i].block < watermark)
      BY <1>3, <3>2 DEF MirrorInv
    <3>4. stream = -1 \/ stream \in 0..m
      BY <1>2 DEF MirrorInv, Closed
    <3> QED
      BY <1>7, <2>2, <3>3, <3>4
  <2> QED
    BY <1>2, <2>1, <2>2
<1>8. \A i \in DOMAIN emitted' :
        emitted'[i].block < watermark' \/ i <= stream' => Stored(emitted'[i])
  BY <1>2, <1>7
<1>9. \A i \in 1..(m + q) : i \in 1..m \/ emitted'[i].block = height + 1
  <2> TAKE i \in 1..(m + q)
  <2>1. ASSUME NEW k \in 1..q, i = m + k
        PROVE  emitted'[i].block = height + 1
    <3>1. new[k].block = height + 1
      BY <1>2 DEF Emits
    <3> QED
      BY <1>2, <2>1, <3>1
  <2> QED
    BY <1>2, <2>1
<1>10. ASSUME NEW i \in 1..(m + q), emitted'[i].event \in missed
       PROVE  i \in 1..m /\ emitted'[i] = emitted[i]
  <2>1. PICK j \in 1..m : emitted'[i].event = emitted[j].event
    BY <1>2, <1>10 DEF MirrorInv, MissedEarly
  <2>2. j \in 1..(m + q) /\ emitted'[j] = emitted[j]
    BY <1>2, <2>1
  <2>3. i = j
    <3>1. \A k, l \in DOMAIN emitted' : emitted'[k].event = emitted'[l].event => k = l
      BY <1>1 DEF EmittedOK
    <3>2. i \in DOMAIN emitted' /\ j \in DOMAIN emitted'
      BY <1>2, <2>2
    <3>3. emitted'[i].event = emitted'[j].event
      BY <2>1, <2>2
    <3> QED
      BY <3>1, <3>2, <3>3
  <2> QED
    BY <2>2, <2>3
<1>11. MissedEarly'
  <2>1. missed \subseteq {emitted'[i].event : i \in DOMAIN emitted'}
    <3> SUFFICES ASSUME NEW e \in missed PROVE \E i \in DOMAIN emitted' : e = emitted'[i].event
      OBVIOUS
    <3>1. PICK j \in 1..m : e = emitted[j].event
      BY <1>2 DEF MirrorInv, MissedEarly
    <3> QED
      BY <1>2, <3>1
  <2>2. ASSUME NEW i \in 1..(m + q), emitted'[i].event \in missed
        PROVE  Early(i)'
    <3>1. i \in 1..m /\ emitted'[i] = emitted[i]
      BY <1>10, <2>2
    <3>2. Early(i)
      BY <1>2, <2>2, <3>1 DEF MirrorInv, MissedEarly
    <3> QED
      BY <3>1, <3>2 DEF Early
  <2>3. ASSUME NEW i \in 1..(m + q), stream # Closed, stream < i
        PROVE  watermark <= emitted'[i].block
    <3>1. CASE i \in 1..m
      BY <1>2, <2>3, <3>1 DEF MirrorInv, MissedEarly
    <3>2. CASE emitted'[i].block = height + 1
      BY <1>3, <3>2 DEF MirrorInv
    <3> QED
      BY <1>9, <3>1, <3>2
  <2> QED
    BY <1>2, <2>1, <2>2, <2>3 DEF MissedEarly
<1> QED
  BY <1>1, <1>4, <1>5, <1>6, <1>8, <1>11 DEF MirrorInv, Stored

LEMMA MirrorPreserved == ChainInv /\ MirrorInv /\ [Next]_vars => MirrorInv'
<1> SUFFICES ASSUME ChainInv, MirrorInv, [Next]_vars PROVE MirrorInv'
  OBVIOUS
<1>1. CASE ChainNext(IF pool THEN MirroredCalls ELSE Calls) /\ UNCHANGED syncVars
  <2>0. UNCHANGED <<mirror, watermark, skipped, missed, stream>>
    BY <1>1 DEF syncVars
  <2>1. ASSUME NEW s, RecordEvent(s)
        PROVE  MirrorInv'
    BY <2>0, <2>1, QuietMirror DEF RecordEvent
  <2>2. CASE CommitBlock
    <3>1. PICK n \in 1..MaxBlock : \E block \in [1..n -> proposals] :
            \E valid \in InOrder(Survivors(block)) : Commit(block, valid)
      BY <2>2 DEF CommitBlock
    <3>2. PICK block \in [1..n -> proposals] :
            \E valid \in InOrder(Survivors(block)) : Commit(block, valid)
      BY <3>1
    <3>3. PICK valid \in InOrder(Survivors(block)) : Commit(block, valid)
      BY <3>2
    <3>4. n \in Nat /\ EmittedOK
      BY <3>1 DEF MirrorInv
    <3>5. PICK new : Emits(new)
      BY <3>3, <3>4, CommitEmits
    <3> QED
      BY <2>0, <3>5, MirrorLagsBehind
  <2>3. CASE DropProposal
    BY <2>0, <2>3, QuietMirror DEF DropProposal
  <2>4. ASSUME NEW w, SetCoolingOffWindow(w)
        PROVE  MirrorInv'
    BY <2>0, <2>4, QuietMirror DEF SetCoolingOffWindow
  <2> QED
    BY <1>1, <2>1, <2>2, <2>3, <2>4 DEF ChainNext
<1>2. CASE ChainTick /\ UNCHANGED syncVars
  BY <1>2, QuietMirror DEF ChainTick, syncVars
<1>3. CASE SyncNext
  BY <1>3, ConnectOK, MirrorOK, MirrorFailsOK, CloseStreamOK DEF SyncNext
<1>4. CASE UNCHANGED vars
  BY <1>4, QuietMirror DEF vars, chainVars, syncVars
<1> QED
  BY <1>1, <1>2, <1>3, <1>4 DEF Next

(***************************************************************************)
(* stream, upsert and readMirror, for any number of events, failed writes  *)
(* and closed streams: what is behind the watermark is in the mirror       *)
(* unless it was skipped or missed, nothing of a block after the watermark *)
(* is missed any more once there is one, the mirror holds nothing else     *)
(* than what the chain emitted, and once caught up it reads like it.       *)
(***************************************************************************)
THEOREM MirrorStaysComplete == Spec => []MirrorCompleteBehindWatermark
<1>1. ChainInv /\ MirrorInv => MirrorCompleteBehindWatermark
  <2> SUFFICES ASSUME ChainInv, MirrorInv PROVE MirrorCompleteBehindWatermark
    OBVIOUS
  <2>1. PICK m \in Nat : m = Len(emitted) /\ DOMAIN emitted = 1..m
    BY DEF MirrorInv, EmittedOK
  <2>2. ASSUME stream = Len(emitted), skipped \cup missed = {}, NEW u \in Users
        PROVE  {r.event : r \in {e \in mirror : e.event.user = u}} = world[u]
    <3>1. ASSUME NEW r \in mirror, r.event.user = u
          PROVE  r.event \in world[u]
      <4>1. PICK i \in DOMAIN emitted : r = emitted[i]
        BY DEF MirrorInv, ToSet
      <4> QED
        BY <3>1, <4>1 DEF MirrorInv, EmittedOK
    <3>2. ASSUME NEW ev \in world[u]
          PROVE  \E r \in mirror : r.event.user = u /\ r.event = ev
      <4>1. PICK i \in DOMAIN emitted : emitted[i].event = ev
        BY DEF MirrorInv, EmittedOK
      <4>2. Stored(emitted[i])
        BY <2>1, <2>2, <4>1 DEF MirrorInv
      <4>3. ev.user = u
        BY DEF ChainInv, ChainOK
      <4> QED
        BY <2>2, <4>1, <4>2, <4>3 DEF Stored
    <3> QED
      BY <3>1, <3>2
  <2>3. stream = Len(emitted) /\ skipped \cup missed = {}
          => \A u \in Users : ReadMirror(u) = QueryByUser(u)
    BY <2>2 DEF ReadMirror, QueryByUser
  <2>4. \A i \in DOMAIN emitted : emitted[i].block < watermark => Stored(emitted[i])
    BY DEF MirrorInv
  <2>5. \A i \in DOMAIN emitted :
          0 < watermark /\ watermark < emitted[i].block => emitted[i].event \notin missed
    <3> SUFFICES ASSUME NEW i \in DOMAIN emitted, emitted[i].event \in missed, 0 < watermark
                 PROVE  ~(watermark < emitted[i].block)
      OBVIOUS
    <3>1. Early(i) /\ watermark \in Nat /\ emitted[i].block \in Nat
      BY DEF MirrorInv, MissedEarly, EmittedOK
    <3> QED
      BY <3>1 DEF Early
  <2> QED
    BY <2>3, <2>4, <2>5 DEF MirrorCompleteBehindWatermark, Stored, MirrorInv
<1>2. Spec => []MirrorInv
  <2>1. ChainInv /\ MirrorInv /\ [Next]_vars => MirrorInv'
    BY MirrorPreserved
  <2> QED
    BY <2>1, MirrorInitially, ChainInductive, PTL DEF Spec
<1> QED
  BY <1>1, <1>2, ChainInductive, PTL
=============================================================================
