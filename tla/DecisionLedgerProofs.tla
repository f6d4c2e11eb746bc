------------------------ MODULE DecisionLedgerProofs -----------------------
(***************************************************************************)
(* Proofs about the ledger automation/decisions/ on protected main: how    *)
(* decisions reach it (DecisionQueue), for every catalogue of decisions and *)
(* any number of faults, and what the admission gate that reads it makes   *)
(* of it (PublicationGate), for every policy and any number of changes.    *)
(***************************************************************************)
EXTENDS DecisionQueue, PublicationGate, FiniteSetTheorems, SequenceTheorems, TLAPS

Readable(ledger) ==
  WellFormed(SecurityRecords(ledger)) /\ WellFormed(ReleaseRecords(ledger))

\* The records that compete with a decision to be in force.
Peers(d, ledger) ==
  IF Kind[d] = "release-product" THEN ReleaseRecords(ledger) ELSE SecurityRecords(ledger)

------------------------------------------------------------------------------
(* The ledger.                                                             *)

\* Two elements of a set with at most one are the same: active_security's
\* "Ambiguous concurrent security decisions" test.
LEMMA AtMostOne ==
  ASSUME NEW S, IsFiniteSet(S), ~ (Cardinality(S) > 1), NEW x \in S, NEW y \in S
  PROVE  x = y
<1>1. SUFFICES ASSUME x # y PROVE FALSE
  OBVIOUS
<1>2. IsFiniteSet({x}) /\ Cardinality({x}) = 1
  BY FS_Singleton
<1>3. Cardinality({x} \cup {y}) = 2
  <2>1. y \notin {x}
    BY <1>1
  <2>2. Cardinality({x} \cup {y}) = Cardinality({x}) + 1
    BY <1>2, <2>1, FS_AddElement
  <2> QED BY <1>2, <2>2
<1>4. Cardinality({x} \cup {y}) <= Cardinality(S)
  <2>1. {x} \cup {y} \subseteq S
    OBVIOUS
  <2> QED BY <2>1, FS_Subset
<1>5. Cardinality(S) \in Nat
  BY FS_CardinalityType
<1> QED BY <1>3, <1>4, <1>5

\* What active_security returns: nothing, or the only unsuperseded decision.
LEMMA ActiveMeans ==
  ASSUME NEW candidates \in SUBSET Decision, Active(candidates) # Invalid
  PROVE  /\ WellFormed(candidates)
         /\ \/ Active(candidates) = NoDecision /\ Leaves(candidates) = {}
            \/ Active(candidates) \in Decision /\ Leaves(candidates) = {Active(candidates)}
<1>1. /\ WellFormed(candidates)
      /\ ~ (Cardinality(Leaves(candidates)) > 1)
      /\ Active(candidates) = IF Leaves(candidates) = {} THEN NoDecision
                              ELSE CHOOSE d \in Leaves(candidates) : TRUE
  BY DEF Active
<1>2. Leaves(candidates) \subseteq Decision
  BY DEF Leaves
<1>3. IsFiniteSet(Leaves(candidates))
  BY <1>2, LedgerAssumption, FS_Subset
<1>4. ASSUME Leaves(candidates) # {}
      PROVE  Active(candidates) \in Leaves(candidates)
  BY <1>1, <1>4
<1>5. ASSUME Leaves(candidates) # {}, NEW d \in Leaves(candidates)
      PROVE  d = Active(candidates)
  BY <1>1, <1>3, <1>4, <1>5, AtMostOne
<1> QED BY <1>1, <1>2, <1>4, <1>5

\* A ledger that a decision joins whose parents it has stays well-formed.
LEMMA JoinWellFormed ==
  ASSUME NEW candidates \in SUBSET Decision, WellFormed(candidates),
         NEW d \in Decision, d \notin candidates, Parents[d] \subseteq candidates,
         Kind[d] = "security-revocation" =>
           /\ Disposition[d] = "revoked" /\ Cardinality(Parents[d]) = 1
           /\ \A p \in Parents[d] : Disposition[p] = "accepted"
  PROVE  WellFormed(candidates \cup {d})
<1>1. \A e \in candidates \cup {d} : Parents[e] \subseteq (candidates \cup {d}) \ {e}
  BY DEF WellFormed
<1>2. ASSUME NEW e \in candidates \cup {d}, Kind[e] = "security-revocation"
      PROVE  /\ Disposition[e] = "revoked" /\ Cardinality(Parents[e]) = 1
             /\ \A p \in Parents[e] : Disposition[p] = "accepted"
  BY <1>2 DEF WellFormed
<1>3. ASSUME NEW S \in SUBSET (candidates \cup {d}), S # {}
      PROVE  \E e \in S : Parents[e] \cap S = {}
  <2>1. CASE S \ {d} = {}
    BY <1>3, <2>1
  <2>2. CASE S \ {d} # {}
    <3>1. S \ {d} \in SUBSET candidates
      OBVIOUS
    <3>2. PICK e \in S \ {d} : Parents[e] \cap (S \ {d}) = {}
      BY <2>2, <3>1 DEF WellFormed, Acyclic
    <3>3. Parents[e] \subseteq candidates
      BY <3>1, <3>2 DEF WellFormed
    <3> QED BY <3>2, <3>3
  <2> QED BY <2>1, <2>2
<1> QED BY <1>1, <1>2, <1>3 DEF WellFormed, Acyclic

\* When it supersedes exactly the decision in force, it is the one in force.
LEMMA JoinInForce ==
  ASSUME NEW candidates \in SUBSET Decision, Active(candidates) # Invalid,
         NEW d \in Decision, d \notin candidates,
         Parents[d] = IF Active(candidates) = NoDecision THEN {} ELSE {Active(candidates)},
         WellFormed(candidates \cup {d})
  PROVE  Active(candidates \cup {d}) # Invalid
<1>1. /\ WellFormed(candidates)
      /\ Leaves(candidates) = Parents[d]
  BY ActiveMeans, LedgerAssumption
<1>2. Superseded(candidates \cup {d}) = Superseded(candidates) \cup Parents[d]
  BY DEF Superseded
<1>3. Superseded(candidates) \subseteq candidates
  BY <1>1 DEF Superseded, WellFormed
<1>4. Leaves(candidates \cup {d}) = {d}
  BY <1>1, <1>2, <1>3 DEF Leaves
<1>5. Cardinality({d}) = 1
  BY FS_Singleton
<1>6. Active(candidates \cup {d}) = CHOOSE e \in {d} : TRUE
  BY <1>4, <1>5 DEF Active
<1>7. Active(candidates \cup {d}) = d
  BY <1>6
<1> QED BY <1>7, LedgerAssumption

\* What parent selection promises of the ledger it read, whatever the ledger
\* has become when the decision joins it.
LEMMA SelectedJoins ==
  ASSUME NEW ledger \in SUBSET Decision, Readable(ledger),
         NEW basis \in SUBSET ledger, NEW d \in Decision, d \notin ledger, Selects(d, basis)
  PROVE  /\ Parents[d] \subseteq Peers(d, ledger)
         /\ Readable(ledger \cup {d})
<1> DEFINE active == Active(Peers(d, basis))
<1>1. /\ active # Invalid
      /\ Parents[d] = IF active = NoDecision THEN {} ELSE {active}
      /\ Kind[d] = "security-revocation" => Accepts(active) /\ Disposition[d] = "revoked"
  BY DEF Selects, Peers, ActiveSecurity, ActiveRelease
<1>2. Peers(d, basis) \subseteq Peers(d, ledger) /\ Peers(d, ledger) \in SUBSET Decision
  BY DEF Peers, SecurityRecords, ReleaseRecords
<1>3. active = NoDecision \/ active \in Peers(d, basis)
  <2>1. Leaves(Peers(d, basis)) \subseteq Peers(d, basis)
    BY DEF Leaves
  <2> QED BY <1>1, <1>2, <2>1, ActiveMeans
<1>4. Parents[d] \subseteq Peers(d, ledger)
  BY <1>1, <1>2, <1>3
<1>5. Kind[d] = "security-revocation" =>
        /\ Disposition[d] = "revoked" /\ Cardinality(Parents[d]) = 1
        /\ \A p \in Parents[d] : Disposition[p] = "accepted"
  <2> SUFFICES ASSUME Kind[d] = "security-revocation"
               PROVE  /\ Disposition[d] = "revoked" /\ Cardinality(Parents[d]) = 1
                      /\ \A p \in Parents[d] : Disposition[p] = "accepted"
    OBVIOUS
  <2>1. Accepts(active) /\ Parents[d] = {active}
    BY <1>1, LedgerAssumption DEF Accepts
  <2> QED BY <1>1, <2>1, FS_Singleton DEF Accepts
<1>6. WellFormed(Peers(d, ledger)) /\ d \notin Peers(d, ledger)
  BY DEF Peers, Readable, SecurityRecords, ReleaseRecords
<1>7. WellFormed(Peers(d, ledger) \cup {d})
  BY <1>2, <1>4, <1>5, <1>6, JoinWellFormed
<1>8. \/ /\ Peers(d, ledger) = ReleaseRecords(ledger)
         /\ ReleaseRecords(ledger \cup {d}) = ReleaseRecords(ledger) \cup {d}
         /\ SecurityRecords(ledger \cup {d}) = SecurityRecords(ledger)
      \/ /\ Peers(d, ledger) = SecurityRecords(ledger)
         /\ SecurityRecords(ledger \cup {d}) = SecurityRecords(ledger) \cup {d}
         /\ ReleaseRecords(ledger \cup {d}) = ReleaseRecords(ledger)
  BY LedgerAssumption DEF Peers, ReleaseRecords, SecurityRecords, SecurityKinds
<1> QED BY <1>4, <1>7, <1>8 DEF Readable

\* Checked on the ledger it joins, a decision leaves one decision in force.
LEMMA SelectedUnambiguous ==
  ASSUME NEW ledger \in SUBSET Decision, Readable(ledger),
         NEW d \in Decision, d \notin ledger, Selects(d, ledger),
         ActiveSecurity(ledger) # Invalid, ActiveRelease(ledger) # Invalid
  PROVE  /\ ActiveSecurity(ledger \cup {d}) # Invalid
         /\ ActiveRelease(ledger \cup {d}) # Invalid
<1>1. Readable(ledger \cup {d})
  BY SelectedJoins
<1>2. SecurityRecords(ledger) \in SUBSET Decision /\ ReleaseRecords(ledger) \in SUBSET Decision
  BY DEF SecurityRecords, ReleaseRecords
<1>3. CASE Kind[d] = "release-product"
  <2>1. /\ ReleaseRecords(ledger \cup {d}) = ReleaseRecords(ledger) \cup {d}
        /\ d \notin ReleaseRecords(ledger)
        /\ SecurityRecords(ledger \cup {d}) = SecurityRecords(ledger)
    BY <1>3 DEF ReleaseRecords, SecurityRecords, SecurityKinds
  <2>2. /\ Active(ReleaseRecords(ledger)) # Invalid
        /\ Parents[d] = IF Active(ReleaseRecords(ledger)) = NoDecision THEN {}
                        ELSE {Active(ReleaseRecords(ledger))}
    BY <1>3 DEF Selects, ActiveRelease
  <2>3. WellFormed(ReleaseRecords(ledger) \cup {d})
    BY <1>1, <2>1 DEF Readable
  <2>4. Active(ReleaseRecords(ledger) \cup {d}) # Invalid
    BY <1>2, <2>1, <2>2, <2>3, JoinInForce
  <2> QED BY <2>1, <2>4 DEF ActiveRelease, ActiveSecurity
<1>4. CASE Kind[d] # "release-product"
  <2>1. /\ SecurityRecords(ledger \cup {d}) = SecurityRecords(ledger) \cup {d}
        /\ d \notin SecurityRecords(ledger)
        /\ ReleaseRecords(ledger \cup {d}) = ReleaseRecords(ledger)
    BY <1>4, LedgerAssumption DEF ReleaseRecords, SecurityRecords, SecurityKinds
  <2>2. /\ Active(SecurityRecords(ledger)) # Invalid
        /\ Parents[d] = IF Active(SecurityRecords(ledger)) = NoDecision THEN {}
                        ELSE {Active(SecurityRecords(ledger))}
    BY <1>4 DEF Selects, ActiveSecurity
  <2>3. WellFormed(SecurityRecords(ledger) \cup {d})
    BY <1>1, <2>1 DEF Readable
  <2>4. Active(SecurityRecords(ledger) \cup {d}) # Invalid
    BY <1>2, <2>1, <2>2, <2>3, JoinInForce
  <2> QED BY <2>1, <2>4 DEF ActiveRelease, ActiveSecurity
<1> QED BY <1>3, <1>4

------------------------------------------------------------------------------
(* The queue.                                                              *)

\* The decisions whose merge commits are built.
Foremost(q) == {q[i] : i \in {j \in 1 .. Len(q) : j <= Capacity}}

LEMMA FrontBuilt ==
  ASSUME NEW q \in Seq(Decision)
  PROVE  ToSet(SubSeq(q, 1, IF Len(q) < Capacity THEN Len(q) ELSE Capacity)) = Foremost(q)
<1> DEFINE n == IF Len(q) < Capacity THEN Len(q) ELSE Capacity
<1>1. Len(q) \in Nat /\ n \in Nat /\ n <= Len(q) /\ n <= Capacity
  BY QueueAssumption, LenProperties
<1>2. Len(SubSeq(q, 1, n)) = n /\ \A i \in 1 .. n : SubSeq(q, 1, n)[i] = q[i]
  BY <1>1, SubSeqProperties
<1>3. DOMAIN SubSeq(q, 1, n) = 1 .. n
  BY <1>1, <1>2
<1>4. {j \in 1 .. Len(q) : j <= Capacity} = 1 .. n
  BY <1>1, QueueAssumption
<1> HIDE DEF n
<1>5. ToSet(SubSeq(q, 1, n)) = Foremost(q)
  BY <1>2, <1>3, <1>4 DEF ToSet, Foremost
<1> QED BY <1>5 DEF n

\* A decision joins the end of the queue.
LEMMA QueueAppend ==
  ASSUME NEW q \in Seq(Decision), IsInjective(q), NEW d \in Decision, d \notin ToSet(q)
  PROVE  /\ Append(q, d) \in Seq(Decision) /\ IsInjective(Append(q, d))
         /\ ToSet(Append(q, d)) = ToSet(q) \cup {d}
         /\ Foremost(q) \subseteq Foremost(Append(q, d))
<1> DEFINE r == Append(q, d)
<1>1. /\ r \in Seq(Decision) /\ Len(r) = Len(q) + 1 /\ Len(q) \in Nat
      /\ r[Len(q) + 1] = d /\ \A i \in 1 .. Len(q) : r[i] = q[i]
  BY AppendProperties, LenProperties
<1>2. DOMAIN q = 1 .. Len(q) /\ DOMAIN r = 1 .. (Len(q) + 1)
  BY <1>1, LenProperties
<1> HIDE DEF r
<1>3. ToSet(r) = ToSet(q) \cup {d}
  <2>1. ASSUME NEW e \in ToSet(r) PROVE e \in ToSet(q) \cup {d}
    BY <1>1, <1>2, <2>1 DEF ToSet
  <2>2. d \in ToSet(r)
    BY <1>1, <1>2 DEF ToSet
  <2>3. ASSUME NEW e \in ToSet(q) PROVE e \in ToSet(r)
    BY <1>1, <1>2, <2>3 DEF ToSet
  <2> QED BY <2>1, <2>2, <2>3
<1>4. IsInjective(r)
  BY <1>1, <1>2 DEF IsInjective, ToSet
<1>5. Foremost(q) \subseteq Foremost(r)
  BY <1>1 DEF Foremost
<1> QED BY <1>1, <1>3, <1>4, <1>5 DEF r

\* The first decision leaves the queue.
LEMMA QueueTail ==
  ASSUME NEW q \in Seq(Decision), IsInjective(q), q # <<>>
  PROVE  /\ Head(q) \in Foremost(q)
         /\ Tail(q) \in Seq(Decision) /\ IsInjective(Tail(q))
         /\ ToSet(Tail(q)) = ToSet(q) \ {Head(q)}
         /\ Foremost(q) \subseteq Foremost(Tail(q)) \cup {Head(q)}
<1> DEFINE r == Tail(q)
<1>1. /\ r \in Seq(Decision) /\ Len(q) \in Nat \ {0} /\ Len(r) = Len(q) - 1 /\ Head(q) = q[1]
      /\ \A i \in 1 .. Len(r) : r[i] = q[i + 1]
  BY HeadTailProperties, LenProperties, EmptySeq
<1>2. DOMAIN q = 1 .. Len(q) /\ DOMAIN r = 1 .. (Len(q) - 1)
  BY <1>1, LenProperties
<1> HIDE DEF r
<1>3. Head(q) \in Foremost(q)
  BY <1>1, QueueAssumption DEF Foremost
<1>4. IsInjective(r)
  BY <1>1, <1>2 DEF IsInjective
<1>5. ToSet(r) = ToSet(q) \ {Head(q)}
  <2>1. ASSUME NEW e \in ToSet(r) PROVE e \in ToSet(q) \ {Head(q)}
    BY <1>1, <1>2 DEF ToSet, IsInjective
  <2>2. ASSUME NEW e \in ToSet(q), e # Head(q) PROVE e \in ToSet(r)
    <3>1. PICK i \in 1 .. Len(q) : e = q[i]
      BY <1>2 DEF ToSet
    <3>2. i - 1 \in 1 .. Len(r) /\ r[i - 1] = q[i]
      BY <1>1, <2>2, <3>1
    <3> QED BY <1>1, <1>2, <3>1, <3>2 DEF ToSet
  <2> QED BY <2>1, <2>2
<1>6. ASSUME NEW e \in Foremost(q), e # Head(q) PROVE e \in Foremost(r)
  <2>1. PICK i \in 1 .. Len(q) : i <= Capacity /\ e = q[i]
    BY DEF Foremost
  <2>2. i - 1 \in 1 .. Len(r) /\ r[i - 1] = q[i] /\ i - 1 <= Capacity
    BY <1>1, <1>6, <2>1, QueueAssumption
  <2> QED BY <2>1, <2>2 DEF Foremost
<1> QED BY <1>1, <1>3, <1>4, <1>5, <1>6 DEF r

\* Any decision leaves it; those before it stay where they were.
LEMMA QueueRemove ==
  ASSUME NEW q \in Seq(Decision), IsInjective(q), NEW k \in DOMAIN q
  PROVE  /\ RemoveAt(q, k) \in Seq(Decision) /\ IsInjective(RemoveAt(q, k))
         /\ ToSet(RemoveAt(q, k)) \subseteq ToSet(q)
         /\ Foremost(q) \subseteq Foremost(RemoveAt(q, k)) \cup ToSet(SubSeq(q, k, Len(q)))
<1> DEFINE r == RemoveAt(q, k)
           before == SubSeq(q, 1, k - 1)
           after == SubSeq(q, k + 1, Len(q))
           rest == SubSeq(q, k, Len(q))
<1>1. Len(q) \in Nat /\ k \in 1 .. Len(q) /\ DOMAIN q = 1 .. Len(q)
  BY LenProperties
<1>2. /\ before \in Seq(Decision) /\ Len(before) = k - 1
      /\ \A i \in 1 .. (k - 1) : before[i] = q[i]
  BY <1>1, SubSeqProperties
<1>3. /\ after \in Seq(Decision) /\ Len(after) = Len(q) - k
      /\ \A i \in 1 .. (Len(q) - k) : after[i] = q[k + i]
  BY <1>1, SubSeqProperties
<1>4. /\ rest \in Seq(Decision) /\ Len(rest) = Len(q) - k + 1
      /\ \A i \in 1 .. (Len(q) - k + 1) : rest[i] = q[k + i - 1]
  BY <1>1, SubSeqProperties
<1>5. r = before \o after
  BY DEF RemoveAt
<1> HIDE DEF r, before, after, rest
<1>6. /\ r \in Seq(Decision) /\ Len(r) = Len(q) - 1
      /\ \A i \in 1 .. Len(r) : r[i] = IF i <= k - 1 THEN before[i] ELSE after[i - (k - 1)]
  <2>1. /\ r \in Seq(Decision) /\ Len(r) = Len(before) + Len(after)
        /\ \A i \in 1 .. Len(before) + Len(after) :
             r[i] = IF i <= Len(before) THEN before[i] ELSE after[i - Len(before)]
    BY <1>2, <1>3, <1>5, ConcatProperties
  <2>2. Len(before) + Len(after) = Len(q) - 1
    BY <1>1, <1>2, <1>3
  <2> QED BY <1>2, <2>1, <2>2
<1>7. \A i \in 1 .. Len(r) : r[i] = IF i < k THEN q[i] ELSE q[i + 1]
  <2> TAKE i \in 1 .. Len(r)
  <2>0. i \in Nat /\ k \in Nat
    BY <1>1, <1>6
  <2>1. CASE i < k
    <3>1. i \in 1 .. (k - 1)
      BY <1>1, <1>6, <2>1
    <3>2. r[i] = before[i]
      BY <1>1, <1>6, <3>1
    <3> QED BY <1>2, <2>1, <3>1, <3>2
  <2>2. CASE ~ (i < k)
    <3>1. i - (k - 1) \in 1 .. (Len(q) - k) /\ k + (i - (k - 1)) = i + 1
      BY <1>1, <1>6, <2>2
    <3>2. r[i] = after[i - (k - 1)]
      <4>1. ~ (i <= k - 1)
        BY <2>0, <2>2
      <4> QED BY <1>6, <4>1
    <3>3. after[i - (k - 1)] = q[k + (i - (k - 1))]
      BY <1>3, <3>1
    <3> QED BY <2>2, <3>1, <3>2, <3>3
  <2> QED BY <2>1, <2>2
<1>8. DOMAIN r = 1 .. (Len(q) - 1) /\ DOMAIN rest = 1 .. (Len(q) - k + 1)
  BY <1>1, <1>4, <1>6
<1>9. IsInjective(r)
  <2> SUFFICES ASSUME NEW i \in 1 .. (Len(q) - 1), NEW j \in 1 .. (Len(q) - 1), r[i] = r[j]
               PROVE  i = j
    BY <1>8 DEF IsInjective
  <2> DEFINE at(l) == IF l < k THEN l ELSE l + 1
  <2>1. at(i) \in 1 .. Len(q) /\ at(j) \in 1 .. Len(q)
    BY <1>1
  <2>2. r[i] = q[at(i)] /\ r[j] = q[at(j)]
    BY <1>6, <1>7
  <2>3. at(i) = at(j)
    BY <1>1, <2>1, <2>2 DEF IsInjective
  <2> QED BY <1>1, <2>3
<1>10. ToSet(r) \subseteq ToSet(q)
  <2> SUFFICES ASSUME NEW i \in 1 .. Len(r) PROVE r[i] \in ToSet(q)
    BY <1>6, <1>8 DEF ToSet
  <2>1. i \in DOMAIN q /\ i + 1 \in DOMAIN q
    BY <1>1, <1>6
  <2> QED BY <1>7, <2>1 DEF ToSet
<1>11. ASSUME NEW e \in Foremost(q) PROVE e \in Foremost(r) \cup ToSet(rest)
  <2>1. PICK i \in 1 .. Len(q) : i <= Capacity /\ e = q[i]
    BY DEF Foremost
  <2>2. CASE i < k
    <3>1. i \in 1 .. Len(r)
      BY <1>1, <1>6, <2>1, <2>2
    <3>2. r[i] = q[i]
      BY <1>7, <2>2, <3>1
    <3> QED BY <2>1, <3>1, <3>2 DEF Foremost
  <2>3. CASE i >= k
    <3>1. i - k + 1 \in 1 .. (Len(q) - k + 1) /\ k + (i - k + 1) - 1 = i
      BY <1>1, <2>1, <2>3
    <3> QED BY <1>4, <1>8, <2>1, <3>1 DEF ToSet
  <2> QED BY <1>1, <2>1, <2>2, <2>3
<1> QED BY <1>6, <1>9, <1>10, <1>11 DEF r, rest

------------------------------------------------------------------------------
(* The invariant.                                                          *)

\* A run that is to open a pull request has made the branch; only an open pull
\* request has auto-merge.
RunOK ==
  /\ run \in Run /\ auto \subseteq Decision /\ faults \in 0 .. MaxFaults
  /\ late \subseteq Decision \X {"arm", "enqueue"}
  /\ On("open") => proposal[run.of] = "branch"
  /\ \A d \in auto : proposal[d] = "open"

QueueOK ==
  /\ queue \in Seq(Decision) /\ IsInjective(queue)
  /\ \A d \in ToSet(queue) : proposal[d] = "open"

MainOK ==
  /\ main \in SUBSET Decision /\ overtaken \in BOOLEAN
  /\ proposal \in [Decision -> Stage]
  /\ main = {d \in Decision : proposal[d] = "merged"}

\* A check that succeeded selected the parent on a ledger main had.
Judged(c, check) ==
  /\ check.read \subseteq main /\ check.basis \subseteq main
  /\ check.posted = "success" => Selects(c[1], check.basis)

ChecksOK ==
  /\ checks \in [Commit -> Check]
  /\ \A d \in Decision : d \notin Foremost(queue) => checks[<<d, "queued">>] = Unchecked
  /\ \A d \in Decision : proposal[d] # "open" => checks[<<d, "head">>] = Unchecked
  /\ \A c \in Commit : Judged(c, checks[c])

\* Main can always be read; it names two decisions in force only when some
\* decision was merged onto another ledger than its check had read.
LedgerOK == Readable(main) /\ (Ambiguous => overtaken)

IInv == RunOK /\ QueueOK /\ MainOK /\ ChecksOK /\ LedgerOK

LEMMA TypesHold == IInv => TypeOK
<1> SUFFICES ASSUME IInv PROVE TypeOK
  OBVIOUS
<1>1. ToSet(Built) = Foremost(queue)
  BY FrontBuilt DEF IInv, QueueOK, Built
<1>2. \A d \in Decision : /\ d \notin ToSet(Built) => checks[<<d, "queued">>] = Unchecked
                          /\ proposal[d] # "open" => checks[<<d, "head">>] = Unchecked /\ d \notin auto
  BY <1>1 DEF IInv, RunOK, ChecksOK
<1>3. \A d \in ToSet(queue) : proposal[d] = "open"
  BY DEF IInv, QueueOK
<1> QED BY <1>2, <1>3 DEF IInv, RunOK, QueueOK, MainOK, ChecksOK, TypeOK

LEMMA InitInvariant == Init => IInv
<1> SUFFICES ASSUME Init PROVE IInv
  OBVIOUS
<1>1. RunOK
  BY QueueAssumption DEF Init, RunOK, Run, Idle, On
<1>2. QueueOK
  <2>1. <<>> \in Seq(Decision) /\ DOMAIN <<>> = {}
    BY EmptySeq
  <2> QED BY <2>1 DEF Init, QueueOK, IsInjective, ToSet
<1>3. MainOK
  <2>1. /\ main \in SUBSET Decision
        /\ proposal = [d \in Decision |-> IF d \in main THEN "merged" ELSE "none"]
        /\ overtaken = FALSE
    BY DEF Init
  <2> QED BY <2>1 DEF MainOK, Stage
<1>4. ChecksOK
  <2>1. Unchecked \in Check /\ \A c \in Commit : Judged(c, Unchecked)
    BY DEF Unchecked, Check, Point, Judged
  <2>2. checks = [c \in Commit |-> Unchecked]
    BY DEF Init
  <2>3. \A d \in Decision : <<d, "queued">> \in Commit /\ <<d, "head">> \in Commit
    BY DEF Commit
  <2> QED BY <2>1, <2>2, <2>3 DEF ChecksOK
<1>5. LedgerOK
  <2>1. ActiveSecurity(main) # Invalid /\ ActiveRelease(main) # Invalid /\ main \in SUBSET Decision
    BY DEF Init, Ambiguous
  <2>2. SecurityRecords(main) \in SUBSET Decision /\ ReleaseRecords(main) \in SUBSET Decision
    BY <2>1 DEF SecurityRecords, ReleaseRecords
  <2>3. Readable(main)
    BY <2>1, <2>2, ActiveMeans DEF ActiveSecurity, ActiveRelease, Readable
  <2> QED BY <2>1, <2>3 DEF LedgerOK, Ambiguous
<1> QED BY <1>1, <1>2, <1>3, <1>4, <1>5 DEF IInv

------------------------------------------------------------------------------
(* Its steps.                                                              *)

\* A step of the run, or of a person or GitHub, that only changes the run.
LEMMA RunStep ==
  ASSUME IInv, RunOK', UNCHANGED <<main, proposal, queue, checks, overtaken>>
  PROVE  IInv'
<1>1. QueueOK' /\ MainOK'
  BY DEF IInv, QueueOK, MainOK
<1>2. ChecksOK'
  BY DEF IInv, ChecksOK, Judged
<1>3. LedgerOK'
  BY DEF IInv, LedgerOK, Ambiguous
<1> QED BY <1>1, <1>2, <1>3 DEF IInv

\* A worker's step.
LEMMA CheckStep ==
  ASSUME IInv, NEW c \in Commit, Live(c), NEW check \in Check, Judged(c, check),
         Update(c, check), UNCHANGED runVars
  PROVE  IInv'
<1>1. /\ checks' = [checks EXCEPT ![c] = check]
      /\ UNCHANGED <<main, proposal, queue, overtaken, run, auto, late, faults>>
  BY DEF Update, runVars
<1>2. RunOK' /\ QueueOK' /\ MainOK' /\ LedgerOK'
  <2>1. RunOK'
    BY <1>1 DEF IInv, RunOK, On
  <2>2. QueueOK' /\ MainOK'
    BY <1>1 DEF IInv, QueueOK, MainOK
  <2>3. LedgerOK'
    BY <1>1 DEF IInv, LedgerOK, Ambiguous
  <2> QED BY <2>1, <2>2, <2>3
<1>3. ChecksOK'
  <2>1. checks \in [Commit -> Check] /\ checks' \in [Commit -> Check]
    BY <1>1 DEF IInv, ChecksOK
  <2>2. \A b \in Commit : checks'[b] = IF b = c THEN check ELSE checks[b]
    BY <1>1, <2>1
  <2>3. ASSUME NEW d \in Decision, d \notin Foremost(queue')
        PROVE  checks'[<<d, "queued">>] = Unchecked
    <3>1. d \notin Foremost(queue) /\ checks[<<d, "queued">>] = Unchecked
      BY <1>1, <2>3 DEF IInv, ChecksOK
    <3>2. c # <<d, "queued">>
      <4>1. ToSet(Built) = Foremost(queue)
        BY FrontBuilt DEF IInv, QueueOK, Built
      <4> QED BY <3>1, <4>1 DEF Live
    <3> QED BY <2>2, <3>1, <3>2 DEF Commit
  <2>4. ASSUME NEW d \in Decision, proposal'[d] # "open"
        PROVE  checks'[<<d, "head">>] = Unchecked
    <3>1. proposal[d] # "open" /\ checks[<<d, "head">>] = Unchecked
      BY <1>1, <2>4 DEF IInv, ChecksOK
    <3>2. c # <<d, "head">>
      BY <3>1 DEF Live
    <3> QED BY <2>2, <3>1, <3>2 DEF Commit
  <2>5. (\A b \in Commit : Judged(b, checks[b]))'
    BY <1>1, <2>2 DEF IInv, ChecksOK, Judged
  <2> QED BY <2>1, <2>3, <2>4, <2>5 DEF ChecksOK
<1> QED BY <1>2, <1>3 DEF IInv

\* A decision joins the queue.
LEMMA EnqueueStep ==
  ASSUME IInv, RunOK', NEW d \in Decision, Clean(d), queue' = Append(queue, d),
         UNCHANGED <<main, proposal, checks, overtaken>>
  PROVE  IInv'
<1>1. proposal[d] = "open" /\ d \notin ToSet(queue)
  BY DEF Clean, Waiting, Enqueued
<1>2. queue \in Seq(Decision) /\ IsInjective(queue)
  BY DEF IInv, QueueOK
<1>3. /\ queue' \in Seq(Decision) /\ IsInjective(queue')
      /\ ToSet(queue') = ToSet(queue) \cup {d}
      /\ Foremost(queue) \subseteq Foremost(queue')
  BY <1>1, <1>2, QueueAppend
<1>4. QueueOK'
  BY <1>1, <1>3 DEF IInv, QueueOK
<1>5. MainOK' /\ LedgerOK'
  BY DEF IInv, MainOK, LedgerOK, Ambiguous
<1>6. ChecksOK'
  BY <1>3 DEF IInv, ChecksOK, Judged
<1> QED BY <1>4, <1>5, <1>6 DEF IInv

LEMMA QueueElements ==
  ASSUME NEW q \in Seq(Decision)
  PROVE  ToSet(q) \subseteq Decision
<1>1. \A i \in DOMAIN q : q[i] \in Decision
  BY LenProperties, ElementOfSeq
<1> QED BY <1>1 DEF ToSet

\* The checks of a pull request that leaves are forgotten, and nothing else
\* about checks changes.
LEMMA ForgetKeeps ==
  ASSUME ChecksOK, NEW d \in Decision, main \subseteq main',
         checks' = [c \in Commit |-> IF c[1] = d THEN Unchecked ELSE checks[c]],
         Foremost(queue) \subseteq Foremost(queue') \cup {d},
         \A e \in Decision \ {d} : proposal'[e] = proposal[e]
  PROVE  ChecksOK'
<1>1. Unchecked \in Check /\ \A c \in Commit : Judged(c, Unchecked)'
  BY DEF Unchecked, Check, Point, Judged
<1>2. checks' \in [Commit -> Check]
  BY <1>1 DEF ChecksOK
<1>3. ASSUME NEW e \in Decision, e \notin Foremost(queue')
      PROVE  checks'[<<e, "queued">>] = Unchecked
  <2>1. e # d => checks[<<e, "queued">>] = Unchecked
    BY <1>3 DEF ChecksOK
  <2> QED BY <2>1 DEF Commit
<1>4. ASSUME NEW e \in Decision, proposal'[e] # "open"
      PROVE  checks'[<<e, "head">>] = Unchecked
  <2>1. e # d => checks[<<e, "head">>] = Unchecked
    BY <1>4 DEF ChecksOK
  <2> QED BY <2>1 DEF Commit
<1>5. (\A c \in Commit : Judged(c, checks[c]))'
  <2>1. \A c \in Commit : checks'[c] = Unchecked \/ checks'[c] = checks[c]
    OBVIOUS
  <2> QED BY <1>1, <2>1 DEF ChecksOK, Judged
<1> QED BY <1>2, <1>3, <1>4, <1>5 DEF ChecksOK

\* Any entry leaves the queue; those behind it are to be checked anew.
LEMMA EjectStep ==
  ASSUME IInv, NEW k \in DOMAIN queue, Eject(k)
  PROVE  IInv'
<1> DEFINE behind == ToSet(SubSeq(queue, k, Len(queue)))
<1>1. /\ queue' = RemoveAt(queue, k)
      /\ checks' = [c \in Commit |-> IF c[2] = "queued" /\ c[1] \in behind
                                     THEN Unchecked ELSE checks[c]]
      /\ UNCHANGED <<main, proposal, overtaken, run, auto, late, faults>>
  BY DEF Eject, runVars
<1>2. queue \in Seq(Decision) /\ IsInjective(queue)
  BY DEF IInv, QueueOK
<1>3. /\ queue' \in Seq(Decision) /\ IsInjective(queue')
      /\ ToSet(queue') \subseteq ToSet(queue)
      /\ Foremost(queue) \subseteq Foremost(queue') \cup behind
  BY <1>1, <1>2, QueueRemove
<1> HIDE DEF behind
<1>4. RunOK' /\ QueueOK'
  BY <1>1, <1>3 DEF IInv, RunOK, QueueOK, On
<1>5. MainOK' /\ LedgerOK'
  BY <1>1 DEF IInv, MainOK, LedgerOK, Ambiguous
<1>6. ChecksOK'
  <2>1. Unchecked \in Check /\ \A c \in Commit : Judged(c, Unchecked)'
    BY DEF Unchecked, Check, Point, Judged
  <2>2. checks' \in [Commit -> Check]
    BY <1>1, <2>1 DEF IInv, ChecksOK
  <2>3. \A c \in Commit : checks'[c] = Unchecked \/ checks'[c] = checks[c]
    BY <1>1
  <2>4. ASSUME NEW d \in Decision, d \notin Foremost(queue')
        PROVE  checks'[<<d, "queued">>] = Unchecked
    <3>1. CASE d \in behind
      BY <1>1, <3>1 DEF Commit
    <3>2. CASE d \notin Foremost(queue)
      <4>1. checks[<<d, "queued">>] = Unchecked
        BY <3>2 DEF IInv, ChecksOK
      <4> QED BY <2>3, <4>1 DEF Commit
    <3> QED BY <1>3, <2>4, <3>1, <3>2
  <2>5. ASSUME NEW d \in Decision, proposal'[d] # "open"
        PROVE  checks'[<<d, "head">>] = Unchecked
    <3>1. checks[<<d, "head">>] = Unchecked
      BY <1>1, <2>5 DEF IInv, ChecksOK
    <3> QED BY <2>3, <3>1 DEF Commit
  <2>6. (\A c \in Commit : Judged(c, checks[c]))'
    BY <1>1, <2>1, <2>3 DEF IInv, ChecksOK, Judged
  <2> QED BY <2>2, <2>4, <2>5, <2>6 DEF ChecksOK
<1> QED BY <1>4, <1>5, <1>6 DEF IInv

\* A pull request is closed.
LEMMA LeaveStep ==
  ASSUME IInv, NEW d \in Decision, Leave(d)
  PROVE  IInv'
<1>1. /\ proposal[d] = "open" /\ d \notin ToSet(queue)
      /\ proposal' = [proposal EXCEPT ![d] = "closed"]
      /\ auto' = auto \ {d} /\ late' = {request \in late : request[1] # d}
      /\ checks' = [c \in Commit |-> IF c[1] = d THEN Unchecked ELSE checks[c]]
      /\ UNCHANGED <<main, queue, overtaken, run, faults>>
  BY DEF Leave, Waiting, Enqueued, Forget
<1>2. /\ proposal \in [Decision -> Stage] /\ proposal' \in [Decision -> Stage]
      /\ \A e \in Decision : proposal'[e] = IF e = d THEN "closed" ELSE proposal[e]
  BY <1>1 DEF IInv, MainOK, Stage
<1>3. RunOK'
  <2>1. run.at = "open" => run.of \in Decision
    BY DEF IInv, RunOK, Run, Idle
  <2>2. On("open")' => proposal'[run'.of] = "branch"
    BY <1>1, <1>2, <2>1 DEF IInv, RunOK, On
  <2>3. \A e \in auto' : proposal'[e] = "open"
    BY <1>1, <1>2 DEF IInv, RunOK
  <2>4. auto' \subseteq Decision /\ late' \subseteq Decision \X {"arm", "enqueue"}
    BY <1>1 DEF IInv, RunOK
  <2>5. run' \in Run /\ faults' \in 0 .. MaxFaults
    BY <1>1 DEF IInv, RunOK
  <2> QED BY <2>2, <2>3, <2>4, <2>5 DEF RunOK
<1>4. QueueOK'
  <2>1. ToSet(queue) \subseteq Decision
    BY QueueElements DEF IInv, QueueOK
  <2> QED BY <1>1, <1>2, <2>1 DEF IInv, QueueOK
<1>5. MainOK'
  <2>1. main' = {e \in Decision : proposal'[e] = "merged"}
    BY <1>1, <1>2 DEF IInv, MainOK
  <2> QED BY <1>1, <1>2, <2>1 DEF IInv, MainOK
<1>6. LedgerOK'
  BY <1>1 DEF IInv, LedgerOK, Ambiguous
<1>7. ChecksOK'
  BY <1>1, <1>2, ForgetKeeps DEF IInv, Forget
<1> QED BY <1>3, <1>4, <1>5, <1>6, <1>7 DEF IInv

\* What merges is new to main, and its parent was selected on a ledger main had.
LEMMA MergeSelected ==
  ASSUME IInv, Merge
  PROVE  \E d \in Decision :
           /\ d = Head(queue) /\ d \notin main /\ main' = main \cup {d}
           /\ proposal[d] = "open" /\ proposal' = [proposal EXCEPT ![d] = "merged"]
           /\ checks[<<d, "queued">>].basis \subseteq main
           /\ Selects(d, checks[<<d, "queued">>].basis)
           /\ overtaken' = (overtaken \/ checks[<<d, "queued">>].basis # main)
           /\ auto' = auto \ {d} /\ late' = {request \in late : request[1] # d}
           /\ checks' = [c \in Commit |-> IF c[1] = d THEN Unchecked ELSE checks[c]]
           /\ queue' = Tail(queue) /\ UNCHANGED <<run, faults>>
<1> DEFINE d == Head(queue)
           check == checks[<<d, "queued">>]
<1>1. queue \in Seq(Decision) /\ queue # <<>>
  BY DEF IInv, QueueOK, Merge
<1>2. d \in Decision /\ d \in ToSet(queue)
  <2>1. /\ d \in Decision /\ d = queue[1] /\ Len(queue) \in Nat \ {0}
    BY <1>1, HeadTailProperties, LenProperties, EmptySeq
  <2>2. 1 \in DOMAIN queue
    BY <1>1, <2>1, LenProperties
  <2> QED BY <2>1, <2>2 DEF ToSet
<1>3. proposal[d] = "open" /\ d \notin main
  BY <1>2 DEF IInv, QueueOK, MainOK
<1>4. /\ check.posted = "success" /\ main' = main \cup {d}
      /\ proposal' = [proposal EXCEPT ![d] = "merged"]
      /\ overtaken' = (overtaken \/ check.basis # main)
      /\ Forget(d) /\ queue' = Tail(queue) /\ UNCHANGED <<run, faults>>
  BY DEF Merge
<1>5. Judged(<<d, "queued">>, check)
  BY <1>2 DEF IInv, ChecksOK, Commit
<1>6. check.basis \subseteq main /\ Selects(d, check.basis)
  BY <1>4, <1>5 DEF Judged
<1> QED BY <1>2, <1>3, <1>4, <1>6 DEF Forget

LEMMA MergeStep ==
  ASSUME IInv, Merge
  PROVE  IInv'
<1>1. PICK d \in Decision :
           /\ d = Head(queue) /\ d \notin main /\ main' = main \cup {d}
           /\ proposal[d] = "open" /\ proposal' = [proposal EXCEPT ![d] = "merged"]
           /\ checks[<<d, "queued">>].basis \subseteq main
           /\ Selects(d, checks[<<d, "queued">>].basis)
           /\ overtaken' = (overtaken \/ checks[<<d, "queued">>].basis # main)
           /\ auto' = auto \ {d} /\ late' = {request \in late : request[1] # d}
           /\ checks' = [c \in Commit |-> IF c[1] = d THEN Unchecked ELSE checks[c]]
           /\ queue' = Tail(queue) /\ UNCHANGED <<run, faults>>
  BY MergeSelected
<1>2. /\ proposal \in [Decision -> Stage] /\ proposal' \in [Decision -> Stage]
      /\ \A e \in Decision : proposal'[e] = IF e = d THEN "merged" ELSE proposal[e]
  BY <1>1 DEF IInv, MainOK, Stage
<1>3. queue \in Seq(Decision) /\ IsInjective(queue) /\ queue # <<>>
  BY DEF IInv, QueueOK, Merge
<1>4. /\ queue' \in Seq(Decision) /\ IsInjective(queue')
      /\ ToSet(queue') = ToSet(queue) \ {d}
      /\ Foremost(queue) \subseteq Foremost(queue') \cup {d}
  BY <1>1, <1>3, QueueTail
<1>5. RunOK'
  <2>1. run.at = "open" => run.of \in Decision
    BY DEF IInv, RunOK, Run, Idle
  <2>2. On("open")' => proposal'[run'.of] = "branch"
    BY <1>1, <1>2, <2>1 DEF IInv, RunOK, On
  <2>3. \A e \in auto' : proposal'[e] = "open"
    BY <1>1, <1>2 DEF IInv, RunOK
  <2>4. auto' \subseteq Decision /\ late' \subseteq Decision \X {"arm", "enqueue"}
    BY <1>1 DEF IInv, RunOK
  <2>5. run' \in Run /\ faults' \in 0 .. MaxFaults
    BY <1>1 DEF IInv, RunOK
  <2> QED BY <2>2, <2>3, <2>4, <2>5 DEF RunOK
<1>6. QueueOK'
  <2>1. ToSet(queue) \subseteq Decision
    BY <1>3, QueueElements
  <2> QED BY <1>2, <1>4, <2>1 DEF IInv, QueueOK
<1>7. MainOK'
  <2>1. main' = {e \in Decision : proposal'[e] = "merged"}
    BY <1>1, <1>2 DEF IInv, MainOK
  <2>2. overtaken' \in BOOLEAN
    BY <1>1, Zenon
  <2>3. main' \in SUBSET Decision
    BY <1>1 DEF IInv, MainOK
  <2> QED BY <1>2, <2>1, <2>2, <2>3 DEF MainOK
<1>8. ChecksOK'
  BY <1>1, <1>2, <1>4, ForgetKeeps DEF IInv
<1>9. LedgerOK'
  <2>1. main \in SUBSET Decision /\ Readable(main)
    BY DEF IInv, MainOK, LedgerOK
  <2>2. Readable(main')
    BY <1>1, <2>1, SelectedJoins
  <2>3. ASSUME ~ overtaken' PROVE ~ Ambiguous'
    <3>1. checks[<<d, "queued">>].basis = main /\ ~ overtaken
      BY <1>1, <2>3
    <3>2. ~ Ambiguous
      BY <3>1 DEF IInv, LedgerOK
    <3> QED BY <1>1, <2>1, <3>1, <3>2, SelectedUnambiguous DEF Ambiguous
  <2> QED BY <2>2, <2>3 DEF LedgerOK
<1> QED BY <1>5, <1>6, <1>7, <1>8, <1>9 DEF IInv

\* A worker reads main, then posts what it read.
LEMMA WorkStep ==
  ASSUME IInv, NEW c \in Commit, Work(c)
  PROVE  IInv'
<1>1. checks[c] \in Check /\ Judged(c, checks[c])
  BY DEF IInv, ChecksOK
<1>2. main \in SUBSET Decision
  BY DEF IInv, MainOK
<1>3. ASSUME NEW point \in Point, Update(c, [checks[c] EXCEPT !.read = main, !.at = point]),
             Live(c), UNCHANGED runVars
      PROVE  IInv'
  <2> DEFINE check == [checks[c] EXCEPT !.read = main, !.at = point]
  <2>1. /\ check \in Check /\ check.read = main
        /\ check.basis = checks[c].basis /\ check.posted = checks[c].posted
    BY <1>1, <1>2 DEF Check
  <2>2. Judged(c, check)
    BY <1>1, <2>1 DEF Judged
  <2> HIDE DEF check
  <2>3. Update(c, check)
    BY <1>3 DEF check
  <2> QED BY <1>3, <2>1, <2>2, <2>3, CheckStep
<1>4. CASE Select(c)
  <2> DEFINE point == IF Selects(c[1], main) /\ Kind[c[1]] # "security-revocation"
                      THEN "verify" ELSE "post"
  <2>1. point \in Point
    BY DEF Point
  <2>2. Update(c, [checks[c] EXCEPT !.read = main, !.at = point]) /\ Live(c) /\ UNCHANGED runVars
    BY <1>4 DEF Select, At
  <2> HIDE DEF point
  <2> QED BY <1>3, <2>1, <2>2
<1>5. CASE Verify(c)
  <2>1. Update(c, [checks[c] EXCEPT !.read = main, !.at = "post"]) /\ Live(c) /\ UNCHANGED runVars
    BY <1>5 DEF Verify, At
  <2> QED BY <1>3, <2>1 DEF Point
<1>6. CASE Post(c)
  <2> DEFINE check == [at |-> "idle", read |-> {}, basis |-> checks[c].read,
                       posted |-> IF Selects(c[1], checks[c].read) THEN "success" ELSE "failure"]
  <2>1. Update(c, check) /\ Live(c) /\ UNCHANGED runVars
    BY <1>6 DEF Post, At
  <2>2. check \in Check
    BY <1>1 DEF Check, Point
  <2>3. Judged(c, check)
    BY <1>1 DEF Judged
  <2> HIDE DEF check
  <2> QED BY <2>1, <2>2, <2>3, CheckStep
<1> QED BY <1>4, <1>5, <1>6 DEF Work

\* A proposal gets its branch or its pull request.
LEMMA ProposalStep ==
  ASSUME IInv, RunOK', NEW d \in Decision, NEW stage \in {"branch", "open"},
         proposal[d] # "open", proposal[d] # "merged",
         proposal' = [proposal EXCEPT ![d] = stage],
         UNCHANGED <<main, queue, checks, overtaken>>
  PROVE  IInv'
<1>1. /\ proposal' \in [Decision -> Stage]
      /\ \A e \in Decision : proposal'[e] = IF e = d THEN stage ELSE proposal[e]
  BY DEF IInv, MainOK, Stage
<1>2. QueueOK'
  <2>1. ToSet(queue) \subseteq Decision
    BY QueueElements DEF IInv, QueueOK
  <2> QED BY <1>1, <2>1 DEF IInv, QueueOK
<1>3. MainOK'
  BY <1>1 DEF IInv, MainOK
<1>4. ChecksOK'
  BY <1>1 DEF IInv, ChecksOK, Judged
<1>5. LedgerOK'
  BY DEF IInv, LedgerOK, Ambiguous
<1> QED BY <1>2, <1>3, <1>4, <1>5 DEF IInv

\* The run's own steps.
LEMMA ReconcileStep ==
  ASSUME IInv, Reconcile \/ Abandon \/ \E d \in Decision : Draft(d)
  PROVE  IInv'
<1>1. /\ run \in Run /\ auto \subseteq Decision /\ faults \in 0 .. MaxFaults
      /\ late \subseteq Decision \X {"arm", "enqueue"}
      /\ On("open") => proposal[run.of] = "branch"
      /\ \A d \in auto : proposal[d] = "open"
  BY DEF IInv, RunOK
<1>2. run.at # "idle" => run.of \in Decision /\ run.at \in Step
  BY <1>1 DEF Run, Idle
<1>3. \A point \in Step : run.at # "idle" => [run EXCEPT !.at = point] \in Run
  BY <1>1, <1>2 DEF Run, Idle
<1>4. Idle \in Run /\ Idle.at # "open"
  BY DEF Run, Idle
<1>5. ASSUME NEW point \in Step \ {"open"}, run.at # "idle", Go(point), Quiet,
             UNCHANGED proposal, Elsewhere
      PROVE  IInv'
  <2>1. run' \in Run /\ run'.at # "open"
    BY <1>1, <1>3, <1>5 DEF Go, Run, Idle
  <2>2. RunOK'
    BY <1>1, <1>5, <2>1 DEF Quiet, RunOK, On
  <2> QED BY <1>5, <2>2, RunStep DEF Elsewhere
<1>6. ASSUME End, auto' = auto, late' \subseteq late, faults' \in 0 .. MaxFaults,
             UNCHANGED proposal, Elsewhere
      PROVE  IInv'
  <2>1. RunOK'
    BY <1>1, <1>4, <1>6 DEF End, RunOK, On
  <2> QED BY <1>6, <2>1, RunStep DEF Elsewhere
<1>7. ASSUME Fault PROVE faults' \in 0 .. MaxFaults
  BY <1>1, <1>7, QueueAssumption DEF Fault
<1>8. CASE \E d \in Decision : Draft(d)
  <2>1. PICK d \in Decision : Draft(d)
    BY <1>8
  <2>2. run' \in Run /\ run'.at # "open"
    BY <2>1 DEF Draft, Run, Step
  <2>3. RunOK'
    BY <1>1, <2>1, <2>2 DEF Draft, Quiet, RunOK, On
  <2> QED BY <2>1, <2>3, RunStep DEF Draft, Elsewhere
<1>9. CASE Validate
  <2>1. run.at # "idle" /\ (Go("validated") \/ End) /\ Quiet /\ UNCHANGED proposal /\ Elsewhere
    BY <1>9 DEF Validate, On
  <2> QED BY <1>1, <1>5, <1>6, <2>1 DEF Step, Quiet
<1>10. CASE Read
  <2>1. /\ run.at # "idle" /\ Quiet /\ UNCHANGED proposal /\ Elsewhere
        /\ Go("ready") \/ Go("arm") \/ Go("enqueue") \/ End
    BY <1>10 DEF Read, On
  <2> QED BY <1>1, <1>5, <1>6, <2>1 DEF Step, Quiet
<1>11. CASE Open
  <2> DEFINE d == run.of
  <2>1. run.at # "idle" /\ d \in Decision /\ Quiet /\ Elsewhere
    BY <1>2, <1>11 DEF Open, On
  <2>2. CASE Go("state") /\ UNCHANGED proposal
    BY <1>5, <2>1, <2>2 DEF Step
  <2>3. CASE End /\ UNCHANGED proposal
    BY <1>1, <1>6, <2>1, <2>3 DEF Quiet
  <2>4. CASE /\ proposal[d] = "none" /\ Go("open")
             /\ proposal' = [proposal EXCEPT ![d] = "branch"]
    <3>1. run' \in Run /\ run'.of = d
      BY <1>1, <1>3, <2>1, <2>4 DEF Go, Step, Run, Idle
    <3>2. proposal' \in [Decision -> Stage] /\ proposal[d] # "open" /\ proposal[d] # "merged"
          /\ \A e \in Decision : proposal'[e] = IF e = d THEN "branch" ELSE proposal[e]
      BY <2>1, <2>4 DEF IInv, MainOK, Stage
    <3>3. RunOK'
      BY <1>1, <2>1, <3>1, <3>2 DEF RunOK, On, Quiet
    <3> QED BY <2>1, <2>4, <3>2, <3>3, ProposalStep DEF Elsewhere
  <2>5. CASE /\ On("open") /\ Go("state") /\ proposal' = [proposal EXCEPT ![d] = "open"]
    <3>1. run' \in Run /\ run'.at # "open"
      BY <1>1, <1>3, <2>1, <2>5 DEF Go, Step, Run, Idle
    <3>2. proposal' \in [Decision -> Stage] /\ proposal[d] # "open" /\ proposal[d] # "merged"
          /\ \A e \in Decision : proposal'[e] = IF e = d THEN "open" ELSE proposal[e]
      BY <1>1, <2>1, <2>5 DEF IInv, MainOK, Stage
    <3>3. RunOK'
      BY <1>1, <2>1, <3>1, <3>2 DEF RunOK, On, Quiet
    <3> QED BY <2>1, <2>5, <3>2, <3>3, ProposalStep DEF Elsewhere
  <2> QED BY <1>11, <2>1, <2>2, <2>3, <2>4, <2>5 DEF Open
<1>12. CASE Arm
  <2> DEFINE d == run.of
  <2>1. run.at # "idle" /\ d \in Decision /\ UNCHANGED proposal /\ Elsewhere
    BY <1>2, <1>12 DEF Arm, On
  <2>2. ASSUME NEW point \in {"ready", "read back"}, Go(point),
               auto' \subseteq auto \cup {d}, proposal[d] = "open" \/ auto' = auto,
               late' \subseteq late \cup {<<d, "arm">>}, faults' \in 0 .. MaxFaults
        PROVE  IInv'
    <3>1. run' \in Run /\ run'.at # "open"
      BY <1>1, <1>3, <2>1, <2>2 DEF Go, Step, Run, Idle
    <3>2. auto' \subseteq Decision /\ \A e \in auto' : proposal'[e] = "open"
      BY <1>1, <2>1, <2>2
    <3>3. late' \subseteq Decision \X {"arm", "enqueue"}
      <4>1. <<d, "arm">> \in Decision \X {"arm", "enqueue"}
        BY <2>1
      <4> HIDE DEF d
      <4> QED BY <1>1, <2>2, <4>1
    <3>4. RunOK'
      BY <2>2, <3>1, <3>2, <3>3 DEF RunOK, On
    <3> QED BY <2>1, <3>4, RunStep DEF Elsewhere
  <2>3. CASE proposal[d] = "open" /\ auto' = auto \cup {d} /\ Go("ready") /\ UNCHANGED <<late, faults>>
    BY <1>1, <2>2, <2>3
  <2>4. CASE Go("read back") /\ Quiet
    BY <1>1, <2>2, <2>4 DEF Quiet
  <2>5. CASE late' = late \cup {<<d, "arm">>} /\ Go("read back") /\ Fault /\ UNCHANGED auto
    BY <1>1, <1>7, <2>2, <2>5
  <2> QED BY <1>12, <2>3, <2>4, <2>5 DEF Arm
<1>13. CASE RequestEntry
  <2> DEFINE d == run.of
  <2>1. /\ run.at # "idle" /\ d \in Decision /\ End
        /\ UNCHANGED <<main, proposal, checks, overtaken, auto>>
    BY <1>2, <1>13 DEF RequestEntry, On
  <2>2. CASE Clean(d) /\ queue' = Append(queue, d) /\ UNCHANGED <<late, faults>>
    <3>1. RunOK'
      BY <1>1, <1>4, <2>1, <2>2 DEF End, RunOK, On
    <3> QED BY <2>1, <2>2, <3>1, EnqueueStep
  <2>3. CASE queue' = queue /\ UNCHANGED <<late, faults>>
    BY <1>1, <1>6, <2>1, <2>3 DEF Elsewhere
  <2>4. CASE late' = late \cup {<<d, "enqueue">>} /\ Fault /\ UNCHANGED queue
    <3>1. RunOK'
      BY <1>1, <1>4, <1>7, <2>1, <2>4 DEF End, RunOK, On
    <3> QED BY <2>1, <2>4, <3>1, RunStep
  <2> QED BY <1>13, <2>2, <2>3, <2>4 DEF RequestEntry
<1>14. CASE Abandon
  BY <1>1, <1>6, <1>7, <1>14 DEF Abandon
<1> QED BY <1>8, <1>9, <1>10, <1>11, <1>12, <1>13, <1>14 DEF Reconcile

LEMMA StepInvariant == IInv /\ [Next]_vars => IInv'
<1> SUFFICES ASSUME IInv, [Next]_vars PROVE IInv'
  OBVIOUS
<1>1. CASE Reconcile \/ Abandon \/ \E d \in Decision : Draft(d)
  BY <1>1, ReconcileStep
<1>2. CASE \E d \in Decision : Leave(d)
  BY <1>2, LeaveStep
<1>3. ASSUME NEW d \in Decision, Enqueue(d) PROVE IInv'
  <2>1. RunOK'
    BY <1>3 DEF Enqueue, runVars, IInv, RunOK, On
  <2> QED BY <1>3, <2>1, EnqueueStep DEF Enqueue
<1>4. ASSUME NEW d \in Decision, NEW request \in {"arm", "enqueue"}, TakeEffect(d, request)
      PROVE  IInv'
  <2>1. late' \subseteq late /\ UNCHANGED <<main, proposal, checks, overtaken, run, faults>>
    BY <1>4 DEF TakeEffect
  <2>2. CASE proposal[d] = "open" /\ auto' = auto \cup {d} /\ UNCHANGED queue
    <3>1. RunOK'
      BY <2>1, <2>2 DEF IInv, RunOK, On
    <3> QED BY <2>1, <2>2, <3>1, RunStep
  <2>3. CASE Clean(d) /\ queue' = Append(queue, d) /\ UNCHANGED auto
    <3>1. RunOK'
      BY <2>1, <2>3 DEF IInv, RunOK, On
    <3> QED BY <2>1, <2>3, <3>1, EnqueueStep
  <2>4. CASE UNCHANGED <<auto, queue>>
    <3>1. RunOK'
      BY <2>1, <2>4 DEF IInv, RunOK, On
    <3> QED BY <2>1, <2>4, <3>1, RunStep
  <2> QED BY <1>4, <2>2, <2>3, <2>4 DEF TakeEffect
<1>5. CASE \E c \in Commit : Work(c)
  BY <1>5, WorkStep
<1>6. CASE \E k \in DOMAIN queue : Eject(k)
  BY <1>6, EjectStep
<1>7. CASE Merge
  BY <1>7, MergeStep
<1>8. CASE UNCHANGED vars
  <2>1. UNCHANGED <<main, proposal, queue, checks, overtaken>> /\ UNCHANGED <<run, auto, late, faults>>
    BY <1>8 DEF vars, runVars
  <2>2. RunOK'
    BY <2>1 DEF IInv, RunOK, On
  <2> QED BY <2>1, <2>2, RunStep
<1> QED BY <1>1, <1>2, <1>3, <1>4, <1>5, <1>6, <1>7, <1>8 DEF Next

\* However runs, requests, checks and the queue interleave, a commit is judged
\* only on ledgers main has had, and main stays a ledger that can be read.
THEOREM QueueInvariance == Spec => []IInv
BY InitInvariant, StepInvariant, PTL DEF Spec

\* As long as nothing reaches main between a decision's check and its merge, the
\* check alone keeps one decision in force.
THEOREM OneInForce == Spec => []AmbiguousOnlyOvertaken
<1>1. IInv => AmbiguousOnlyOvertaken
  BY TypesHold DEF IInv, LedgerOK, AmbiguousOnlyOvertaken
<1> QED BY <1>1, QueueInvariance, PTL

------------------------------------------------------------------------------
(* The ledger that readers of main see.                                    *)

LEMMA ReadableAlike ==
  ASSUME NEW ledger
  PROVE  Log!Readable(ledger) <=> Readable(ledger)
<1>1. /\ Log!SecurityRecords(ledger) = SecurityRecords(ledger)
      /\ Log!ReleaseRecords(ledger) = ReleaseRecords(ledger)
  BY DEF Log!SecurityRecords, Log!ReleaseRecords, Log!SecurityKinds, SecurityRecords,
         ReleaseRecords, SecurityKinds
<1>2. ASSUME NEW candidates
      PROVE  Log!WellFormed(candidates) <=> WellFormed(candidates)
  <2>1. Log!Acyclic(candidates) <=> Acyclic(candidates)
    BY Zenon DEF Log!Acyclic, Acyclic
  <2> QED BY <2>1, Zenon DEF Log!WellFormed, WellFormed, Log!Cardinality, Cardinality
<1> QED BY <1>1, <1>2, Zenon DEF Log!Readable, Readable

\* Only a merge changes main.
LEMMA MainKept ==
  ASSUME IInv, [Next]_vars, ~ Merge
  PROVE  main' = main
BY DEF Next, Reconcile, Draft, Validate, Open, Read, Arm, RequestEntry, Abandon, Elsewhere,
       TakeEffect, Enqueue, Leave, Work, Select, Verify, Post, Update, Eject, vars

LEMMA StepRefines == IInv /\ [Next]_vars => [Log!Next]_main
<1> SUFFICES ASSUME IInv, [Next]_vars PROVE Log!Next \/ main' = main
  OBVIOUS
<1>1. CASE Merge
  <2>1. PICK d \in Decision :
          /\ d \notin main /\ main' = main \cup {d}
          /\ checks[<<d, "queued">>].basis \subseteq main
          /\ Selects(d, checks[<<d, "queued">>].basis)
    BY <1>1, MergeSelected
  <2>2. main \in SUBSET Decision /\ Readable(main)
    BY DEF IInv, MainOK, LedgerOK
  <2>3. Parents[d] \subseteq Peers(d, main) /\ Readable(main')
    BY <2>1, <2>2, SelectedJoins
  <2>4. Parents[d] \subseteq main
    BY <2>3 DEF Peers, SecurityRecords, ReleaseRecords
  <2>5. Log!Add(d)
    BY <2>1, <2>3, <2>4, ReadableAlike DEF Log!Add
  <2> QED BY <2>5 DEF Log!Next
<1>2. CASE ~ Merge
  BY <1>2, MainKept
<1> QED BY <1>1, <1>2

\* Readers of protected main see a log: decisions are added one at a time, each
\* names decisions that are there, none ever changes or disappears, and the
\* whole can be read, although its merges were checked against older ledgers.
THEOREM LogRefinement == Spec => ImplementsLog
<1>1. IInv => Log!Init \/ ~ Init
  BY ReadableAlike DEF IInv, MainOK, LedgerOK, Log!Init
<1>2. Init => Log!Init
  BY <1>1, InitInvariant
<1> QED BY <1>2, StepRefines, QueueInvariance, PTL DEF Spec, ImplementsLog, Log!Spec

------------------------------------------------------------------------------
(* The gate.                                                               *)

\* Main grows by one decision, whose parents it has.
Grows == \E d \in Decision : d \notin main /\ Parents[d] \subseteq main /\ main' = main \cup {d}

\* The gate reads ledgers as the queue writes them: closed under parents, and
\* growing by one decision at a time.
THEOREM QueueFeedsGate == Spec => []ClosedUnderParents(main) /\ [][Grows]_main
<1>1. IInv => ClosedUnderParents(main)
  <2> SUFFICES ASSUME IInv, NEW d \in main PROVE Parents[d] \subseteq main
    BY DEF ClosedUnderParents
  <2>1. d \in SecurityRecords(main) \/ d \in ReleaseRecords(main)
    BY LedgerAssumption DEF IInv, MainOK, SecurityRecords, ReleaseRecords
  <2> QED BY <2>1 DEF IInv, LedgerOK, Readable, WellFormed, SecurityRecords, ReleaseRecords
<1>2. IInv /\ [Next]_vars => [Grows]_main
  BY StepRefines DEF Grows, Log!Next, Log!Add
<1> QED BY <1>1, <1>2, QueueInvariance, PTL DEF Spec

\* A gate past its second ledger read.
Late == {"security", "reviewer", "reviewer again", "main", "policy", "rules", "passed"}

\* What the gate has established, from the point at which it did.  As long as
\* main is still the pinned revision, its ledger and policy are the ones read.
Established ==
  /\ gate.at \notin {"start", "config", "blocked"} => Configured \in Enabled
  /\ gate.at \in {"product", "product again", "again"} \cup Late =>
       Accepts(ActiveSecurity(gate.first)) /\ ActiveSecurity(gate.first) \in Covering
  /\ gate.at \in {"product again", "again"} \cup Late =>
       Accepts(ActiveRelease(gate.first)) /\ gate.release = ActiveRelease(gate.first)
  /\ gate.at \in Late =>
       /\ gate.second = gate.first
       /\ gate.pinned = revision => records = gate.second /\ policy = gate.policy
  /\ gate.at = "main" => gate.release \in standing \/ gate.shaken

GateInv == GateTypeOK /\ Established

------------------------------------------------------------------------------
(* The ledger.                                                             *)

\* When the decision in force accepts, every other decision of its kind that
\* does not accept has been superseded.
LEMMA RejectionsSuperseded ==
  ASSUME NEW candidates \in SUBSET Decision, Accepts(Active(candidates)),
         NEW r \in candidates, Disposition[r] # "accepted"
  PROVE  \E d \in candidates : r \in Parents[d]
<1>1. SUFFICES ASSUME r \in Leaves(candidates) PROVE FALSE
  BY DEF Leaves, Superseded
<1>2. Active(candidates) # Invalid
  BY LedgerAssumption DEF Accepts
<1>3. Active(candidates) = r
  BY <1>1, <1>2, ActiveMeans
<1> QED BY <1>3 DEF Accepts

------------------------------------------------------------------------------
(* The invariant.                                                          *)

LEMMA ActiveType ==
  ASSUME NEW ledger \in SUBSET Decision, Accepts(ActiveRelease(ledger))
  PROVE  ActiveRelease(ledger) \in Decision
BY DEF Accepts

LEMMA GateInitInvariant == GateInit => GateInv
<1> SUFFICES ASSUME GateInit PROVE GateInv
  OBVIOUS
<1>1. gate \in Gate
  BY GateAssumption DEF GateInit, Gate, GatePoint
<1>2. GateTypeOK
  BY <1>1, GateAssumption DEF GateInit, GateTypeOK
<1>3. Established
  BY DEF GateInit, Established, Late
<1> QED BY <1>2, <1>3 DEF GateInv

LEMMA GateStepInvariant == GateInv /\ [GateNext]_gateVars => GateInv'
<1> SUFFICES ASSUME GateInv, [GateNext]_gateVars PROVE GateInv'
  OBVIOUS
<1> USE GateAssumption DEF GateInv, Require, GateAt, Onto, world, Gate, Late
<1>1. CASE Start
  <2>1. GateTypeOK'
    BY <1>1 DEF Start, GateTypeOK, GatePoint
  <2>2. Established'
    BY <1>1 DEF Start, GateTypeOK, Established
  <2> QED BY <2>1, <2>2
<1>20. CASE Configure
  <2>1. GateTypeOK'
    BY <1>20 DEF Configure, GateTypeOK, GatePoint
  <2>2. Established'
    BY <1>20 DEF Configure, GateTypeOK, Established
  <2> QED BY <2>1, <2>2
<1>21. CASE Enforce
  <2>1. GateTypeOK'
    BY <1>21 DEF Enforce, GateTypeOK, GatePoint
  <2>2. Established'
    BY <1>21 DEF Enforce, GateTypeOK, Established
  <2> QED BY <2>1, <2>2
<1>22. CASE ReadLedger
  <2>1. GateTypeOK'
    BY <1>22 DEF ReadLedger, GateTypeOK, GatePoint
  <2>2. Established'
    BY <1>22 DEF ReadLedger, GateTypeOK, Established
  <2> QED BY <2>1, <2>2
<1>2. CASE Scans
  <2>1. GateTypeOK'
    BY <1>2 DEF Scans, GateTypeOK, GatePoint
  <2>2. Established'
    BY <1>2 DEF Scans, GateTypeOK, Established
  <2> QED BY <2>1, <2>2
<1>3. CASE Admission
  <2>1. GateTypeOK'
    BY <1>3 DEF Admission, GateTypeOK, GatePoint
  <2>2. Established'
    BY <1>3 DEF Admission, GateTypeOK, Established
  <2> QED BY <2>1, <2>2
<1>4. CASE Product
  <2>1. gate.first \in SUBSET Decision
    BY DEF GateTypeOK
  <2>2. Accepts(ActiveRelease(gate.first)) => ActiveRelease(gate.first) \in Decision
    BY <2>1, ActiveType
  <2>3. gate' \in Gate /\ gate'.pinned = gate.pinned
    <3>1. CASE gate' = [gate EXCEPT !.at = "blocked"]
      BY <3>1 DEF GateTypeOK, GatePoint
    <3>2. CASE /\ Accepts(ActiveRelease(gate.first))
               /\ gate' = [gate EXCEPT !.at = "product again", !.release = ActiveRelease(gate.first)]
      BY <2>2, <3>2 DEF GateTypeOK, GatePoint
    <3> QED BY <1>4, <3>1, <3>2 DEF Product, Authorized
  <2>4. GateTypeOK'
    BY <1>4, <2>3 DEF Product, GateTypeOK
  <2>5. Established'
    <3>1. CASE gate' = [gate EXCEPT !.at = "blocked"]
      BY <3>1 DEF GateTypeOK, Established
    <3>2. CASE /\ Accepts(ActiveRelease(gate.first))
               /\ gate' = [gate EXCEPT !.at = "product again", !.release = ActiveRelease(gate.first)]
      <4>1. /\ gate'.at = "product again" /\ gate'.first = gate.first
            /\ gate'.release = ActiveRelease(gate.first)
        BY <3>2 DEF GateTypeOK
      <4>2. /\ Configured \in Enabled
            /\ Accepts(ActiveSecurity(gate.first)) /\ ActiveSecurity(gate.first) \in Covering
        BY <1>4 DEF Product, Established
      <4> QED BY <3>2, <4>1, <4>2 DEF Established
    <3> QED BY <1>4, <3>1, <3>2 DEF Product, Authorized
  <2> QED BY <2>4, <2>5
<1>5. CASE ReadAgain
  <2>1. UNCHANGED world /\ GateAt("again")
    BY <1>5 DEF ReadAgain
  <2>2. CASE gate' = [gate EXCEPT !.at = "blocked"]
    BY <2>1, <2>2 DEF GateTypeOK, Established, GatePoint
  <2>3. CASE /\ records = gate.first
             /\ gate' = [gate EXCEPT !.at = "security", !.second = records,
                                     !.pinned = revision, !.policy = policy]
    <3>1. gate' \in Gate /\ gate'.pinned = revision
      BY <2>3 DEF GateTypeOK, GatePoint
    <3>2. GateTypeOK'
      BY <2>1, <3>1 DEF GateTypeOK
    <3>3. Established'
      BY <2>1, <2>3 DEF GateTypeOK, Established
    <3> QED BY <3>2, <3>3
  <2> QED BY <1>5, <2>2, <2>3 DEF ReadAgain
<1>6. CASE Security
  <2>1. GateTypeOK'
    BY <1>6 DEF Security, GateTypeOK, GatePoint
  <2>2. Established'
    BY <1>6 DEF Security, GateTypeOK, Established
  <2> QED BY <2>1, <2>2
<1>7. CASE Reviewer
  <2>1. GateTypeOK'
    BY <1>7 DEF Reviewer, GateTypeOK, GatePoint
  <2>2. Established'
    BY <1>7 DEF Reviewer, GateTypeOK, Established
  <2> QED BY <2>1, <2>2
<1>23. ASSUME NEW here, NEW next,
              \/ here = "product again" /\ next = "again"
              \/ here = "reviewer again" /\ next = "main",
              Confirm(here, next)
       PROVE  GateInv'
  <2>1. GateTypeOK'
    BY <1>23 DEF Confirm, GateTypeOK, GatePoint
  <2>2. Established'
    BY <1>23 DEF Confirm, GateTypeOK, Established
  <2> QED BY <2>1, <2>2
<1>8. CASE Main
  <2>1. GateTypeOK'
    BY <1>8 DEF Main, GateTypeOK, GatePoint
  <2>2. Established'
    BY <1>8 DEF Main, GateTypeOK, Established
  <2> QED BY <2>1, <2>2
<1>9. CASE PolicyUnchanged
  <2>1. GateTypeOK'
    BY <1>9 DEF PolicyUnchanged, GateTypeOK, GatePoint
  <2>2. Established'
    BY <1>9 DEF PolicyUnchanged, GateTypeOK, Established
  <2> QED BY <2>1, <2>2
<1>10. CASE Rules
  <2>1. GateTypeOK'
    BY <1>10 DEF Rules, GateTypeOK, GatePoint
  <2>2. Established'
    BY <1>10 DEF Rules, GateTypeOK, Established
  <2> QED BY <2>1, <2>2
<1>11. CASE Raise
  <2>1. GateTypeOK'
    BY <1>11 DEF Raise, GateTypeOK, GatePoint
  <2>2. Established'
    BY <1>11 DEF Raise, GateTypeOK, Established
  <2> QED BY <2>1, <2>2
<1>12. ASSUME NEW ledger \in SUBSET Decision, NEW file \in Policy, MainMoves(ledger, file)
       PROVE  GateInv'
  <2>1. GateTypeOK'
    BY <1>12 DEF MainMoves, Change, GateTypeOK
  <2>2. gate' = gate /\ revision' = revision + 1
    BY <1>12 DEF MainMoves
  <2>3. gate'.pinned # revision'
    BY <2>2 DEF GateTypeOK
  <2>4. standing' = standing
    BY <1>12 DEF MainMoves
  <2>5. Established'
    BY <2>2, <2>3, <2>4 DEF Established
  <2> QED BY <2>1, <2>5
<1>13. CASE \E d \in Decision : MergeDecision(d)
  <2>1. PICK d \in Decision : MergeDecision(d)
    BY <1>13
  <2>2. records \cup {d} \in SUBSET Decision /\ policy \in Policy
    BY DEF GateTypeOK
  <2> QED BY <2>1, <2>2, <1>12 DEF MergeDecision
<1>14. CASE \E d \in Decision : ChangeStanding(d)
  <2>1. PICK d \in Decision : ChangeStanding(d)
    BY <1>14
  <2>2. GateTypeOK'
    <3>1. gate' \in Gate /\ gate'.pinned = gate.pinned
      BY <2>1 DEF ChangeStanding, GateTypeOK, GatePoint
    <3>2. standing' \subseteq Decision
      BY <2>1 DEF ChangeStanding, GateTypeOK
    <3>3. changes' \in 0 .. MaxChanges
      <4>1. changes < MaxChanges /\ changes' = changes + 1
        BY <2>1 DEF ChangeStanding, Change
      <4>2. changes \in 0 .. MaxChanges
        BY DEF GateTypeOK
      <4> QED BY <4>1, <4>2
    <3> QED BY <2>1, <3>1, <3>2, <3>3 DEF ChangeStanding, GateTypeOK
  <2>3. Established'
    BY <2>1 DEF ChangeStanding, Change, GateTypeOK, Established
  <2> QED BY <2>2, <2>3
<1>15. CASE \E file \in Policy : MergePolicy(file)
  <2>1. PICK file \in Policy : MergePolicy(file)
    BY <1>15
  <2>2. records \in SUBSET Decision
    BY DEF GateTypeOK
  <2> QED BY <2>1, <2>2, <1>12 DEF MergePolicy
<1>16. CASE MergeOther
  <2>1. records \in SUBSET Decision /\ policy \in Policy
    BY DEF GateTypeOK
  <2> QED BY <1>16, <2>1, <1>12 DEF MergeOther
<1>17. CASE EditRules
  <2>1. GateTypeOK'
    BY <1>17 DEF EditRules, Change, GateTypeOK
  <2>2. Established'
    BY <1>17 DEF EditRules, Established
  <2> QED BY <2>1, <2>2
<1>18. CASE Expire
  <2>0. fresh' \in BOOLEAN
    BY <1>18, Zenon DEF Expire
  <2>1. changes' \in 0 .. MaxChanges
    BY <1>18 DEF Expire, Change, GateTypeOK
  <2>2. UNCHANGED <<revision, records, policy, standing, enforced, gate>>
    BY <1>18 DEF Expire
  <2>3. GateTypeOK'
    BY <2>0, <2>1, <2>2 DEF GateTypeOK
  <2>4. Established'
    BY <2>2 DEF Established
  <2> QED BY <2>3, <2>4
<1>19. CASE UNCHANGED gateVars
  BY <1>19 DEF gateVars, GateTypeOK, Established
<1> QED
  BY <1>1, <1>2, <1>3, <1>4, <1>5, <1>6, <1>7, <1>8, <1>9, <1>10, <1>11,
     <1>13, <1>14, <1>15, <1>16, <1>17, <1>18, <1>19, <1>20, <1>21, <1>22, <1>23
  DEF GateNext, GateStep, Around

\* The types, and a gate never pins a revision main has not reached.
THEOREM GateTypeCorrect == GateSpec => []GateTypeOK
<1>1. GateInv => GateTypeOK
  BY DEF GateInv
<1> QED BY <1>1, GateInitInvariant, GateStepInvariant, PTL DEF GateSpec

LEMMA GateInvariance == GateSpec => []GateInv
BY GateInitInvariant, GateStepInvariant, PTL DEF GateSpec

------------------------------------------------------------------------------
(* What the gate is for.                                                   *)

\* A gate that passes its last read of main was right at that moment: the
\* ledger and policy in force admit the product (_gate of common.py).
THEOREM LastReadSoundness == GateSpec => RightAtLastRead
<1> DEFINE Right ==
      GateAt("main") /\ GateAt("policy")' /\ gate'.policy = Configured =>
        /\ InForce
        /\ gate.release = ActiveRelease(records)
        /\ gate.release \in standing \/ gate.shaken
<1>1. ASSUME GateInv, [GateNext]_gateVars PROVE Right
  <2> SUFFICES ASSUME GateAt("main"), GateAt("policy")', gate'.policy = Configured
               PROVE  /\ InForce
                      /\ gate.release = ActiveRelease(records)
                      /\ gate.release \in standing \/ gate.shaken
    OBVIOUS
  <2>0. gate \in Gate
    BY <1>1 DEF GateInv, GateTypeOK
  <2>1. Main
    BY <1>1, <2>0 DEF GateNext, GateStep, Around, Start, Configure, Enforce, ReadLedger, Scans, Admission, Product, ReadAgain,
       Security, Reviewer, Confirm, PolicyUnchanged, Rules, Raise, MergeDecision, MergePolicy,
       MergeOther, MainMoves, ChangeStanding, EditRules, Expire, Require, GateAt, Onto, gateVars, Gate
  <2>2. revision = gate.pinned /\ gate' = Onto("policy")
    BY <2>1 DEF Main, Require, GateAt, Onto
  <2>3. gate.policy = Configured
    BY <2>0, <2>2 DEF Onto, Gate
  <2>4. /\ gate.second = gate.first /\ records = gate.second /\ policy = gate.policy
        /\ Accepts(ActiveSecurity(gate.first)) /\ ActiveSecurity(gate.first) \in Covering
        /\ Accepts(ActiveRelease(gate.first)) /\ gate.release = ActiveRelease(gate.first)
        /\ gate.release \in standing \/ gate.shaken
        /\ Configured \in Enabled
    BY <1>1, <2>2 DEF GateInv, Established, GateAt, Late
  <2> QED BY <2>3, <2>4 DEF InForce
<1>2. GateInv /\ [GateNext]_gateVars => [Right]_gateVars
  BY <1>1
<1> QED BY <1>2, GateInvariance, PTL DEF GateSpec, RightAtLastRead

\* Nothing passes while a revocation or rejection on main is unsuperseded.
THEOREM RevocationsBlock == GateSpec => []NeverAgainstRevocation
<1>1. ASSUME GateInv PROVE NeverAgainstRevocation
  <2> SUFFICES ASSUME gate.at = "passed", NEW r \in gate.second, Disposition[r] # "accepted"
               PROVE  \E d \in gate.second : r \in Parents[d]
    BY DEF NeverAgainstRevocation
  <2>1. /\ gate.second = gate.first /\ gate.first \in SUBSET Decision
        /\ Accepts(ActiveSecurity(gate.first)) /\ Accepts(ActiveRelease(gate.first))
    BY <1>1 DEF GateInv, GateTypeOK, Established, Late, Gate
  <2>2. r \in SecurityRecords(gate.first) \/ r \in ReleaseRecords(gate.first)
    BY <2>1, LedgerAssumption DEF SecurityRecords, ReleaseRecords
  <2>3. ASSUME NEW candidates \in SUBSET gate.first, Accepts(Active(candidates)), r \in candidates
        PROVE  \E d \in gate.second : r \in Parents[d]
    BY <2>1, <2>3, RejectionsSuperseded
  <2>4. /\ SecurityRecords(gate.first) \in SUBSET gate.first
        /\ ReleaseRecords(gate.first) \in SUBSET gate.first
    BY DEF SecurityRecords, ReleaseRecords
  <2> QED BY <2>1, <2>2, <2>3, <2>4 DEF ActiveSecurity, ActiveRelease
<1> QED BY <1>1, GateInvariance, PTL
=============================================================================
