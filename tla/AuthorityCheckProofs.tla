------------------------ MODULE AuthorityCheckProofs ------------------------
(***************************************************************************)
(* Proofs about the authority check, for any reviewers, heads and merge-   *)
(* queue commits, any number of reviews, changes, events, workers and      *)
(* faults: what merges was approved, an overtaken result is discarded, and *)
(* the last word on a commit is the right one.                             *)
(***************************************************************************)
EXTENDS AuthorityCheck, FiniteSetTheorems, TLAPS
LOCAL INSTANCE BagsExt

Concluded == {"reread", "resnapshot", "requeue", "post"}

------------------------------------------------------------------------------
(* What merges.                                                            *)

\* The reviews rs are part of the history, as far as they concern the head h.
Noted(rs, h) ==
  /\ \A i \in DOMAIN rs :
       rs[i].commit = h /\ rs[i].state \in {"APPROVED", "approve"} => rs[i].user \in endorsers[h]
  /\ ~ drifted /\ Approved(rs, eligible, h) => h \in approvedOnce

\* Somebody with standing approved the head, and nobody vetoed it then.
Vetted(h) ==
  /\ endorsers[h] \cap stoodOnce # {}
  /\ ~ drifted => h \in approvedOnce

Grantable(h) == h \in Governed => Sound(h) /\ Vetted(h)

\* What a worker goes on with was vetted, is about its own commit, and a queue
\* commit has a head's worker only while that head is queued for it.
Vetting(w, c) ==
  /\ c \in Target /\ w.at # "collect" => carries[c] # None
  /\ c \in Target /\ queued = c /\ w.at \notin {"collect", "pin"} => w.expected = head
  /\ w.at \notin Concluded => w.conclusion = None
  /\ w.at = "qualify" => w.seen \in Seq(Review) /\ \A h \in Revision : Noted(w.seen, h)
  /\ w.at = "requalify" => Vetted(w.judged)
  /\ w.at = "conclude" => Grantable(w.judged)
  /\ w.conclusion = "success" =>
       /\ Grantable(w.judged)
       /\ c \in Target /\ w.judged \in Governed => carries[c] = w.judged
       /\ w.at # "reread" => w.judged = w.expected

MergeInv ==
  /\ eligible \subseteq stoodOnce
  /\ \A h \in Revision : Noted(reviews, h)
  /\ queued # NoTarget => carries[queued] # None
  /\ \A c \in Commit, w \in Worker : running[c] = w => Vetting(w, c)
  /\ \A t \in Target : check[t] = "success" =>
       /\ carries[t] # None
       /\ queued = t /\ head \in Governed => carries[t] = head /\ Grantable(head)
  /\ merged # NoTarget =>
       /\ queued = NoTarget
       /\ head \in Governed => carries[merged] = head /\ Grantable(head)

------------------------------------------------------------------------------
(* Results overtaken by a review.                                          *)

\* Without edits a review only ever becomes dismissed.
Became(r, now) ==
  \/ now = r
  \/ r.state \in {"APPROVED", "CHANGES_REQUESTED"} /\ now.state = "DISMISSED"

Descends(rs, fingerprint) ==
  \A p \in fingerprint : p[1] \in DOMAIN rs /\ Became(p[2], rs[p[1]])

\* While the reviews still have the fingerprint, what the worker read of them
\* has it too, and what it concluded is so.
Comparing(w) ==
  /\ w.at = "resnapshot" => w.fingerprint # None
  /\ w.fingerprint # None /\ ~ edited =>
       /\ Descends(reviews, w.fingerprint)
       /\ Fingerprint(reviews, w.expected) = w.fingerprint =>
            /\ w.at = "qualify" => Fingerprint(w.seen, w.expected) = w.fingerprint
            /\ /\ ~ drifted /\ w.judged = w.expected /\ w.judged \in Governed
               /\ (w.at \in {"requalify", "conclude"} \/ w.conclusion = "success")
               => Approved(reviews, eligible, w.expected)

OvertakenInv == \A c \in Commit, w \in Worker : running[c] = w => Comparing(w)

------------------------------------------------------------------------------
(* The last word.                                                          *)

\* An event or a discovery will still start a worker for the commit.
Pending(c) ==
  \/ \E e \in BagToSet(events) : e \in {PullEvent, c}
  \/ \E d \in BagToSet(discoveries) : Ask(c) \in d.targets

\* A job about the head as it is, which will find its commit among the targets.
Fresh(job, c) == job.expected = head /\ job.event \in {PullEvent} \cup (Target \cap {c})

Right(c, conclusion) ==
  /\ conclusion \in Conclusion
  /\ conclusion = "success" => Entitled(c)
  /\ faults = 0 /\ Entitled(c) => conclusion = "success"

\* A worker that will post what is right if nothing moves any more.
OnTrack(w, c) ==
  /\ Fresh(w, c)
  /\ w.at \notin {"collect", "pin", "resnapshot", "requeue", "post"} => w.opened = TRUE
  /\ w.fingerprint \in {None, Fingerprint(reviews, head)}
  /\ w.at \in {"review", "qualify", "requalify", "conclude"} => w.judged = head
  /\ w.at \in {"review", "qualify", "requalify"} => head \in Governed
  /\ w.at = "qualify" => w.seen = reviews
  /\ w.at = "requalify" => w.chosen \in eligible /\ Approved(reviews, eligible, head)
  /\ w.at = "conclude" /\ head \in Governed => Sound(head) /\ Approved(reviews, eligible, head)
  /\ w.at \in Concluded =>
       /\ Right(c, w.conclusion)
       /\ w.conclusion = "success" => w.judged = head

\* The last in line for a commit, be it an event, a waiting job, a running
\* worker or the check itself, is right.
LastRight(c) ==
  \/ Pending(c)
  \/ \E job \in Job : waiting[c] = job /\ Fresh(job, c)
  \/ waiting[c] = NoJob /\ \E w \in Worker : running[c] = w /\ OnTrack(w, c)
  \/ waiting[c] = NoJob /\ ~ Busy(c) /\ Right(c, check[c])

SettlingInv ==
  /\ \A d \in BagToSet(discoveries) :
       \A t \in d.targets : d.event \in {PullEvent} \cup (Target \cap {t})
  /\ ~ lost /\ ~ drifted => \A c \in LiveCommits : LastRight(c)

IInv == TypeOK /\ MergeInv /\ OvertakenInv /\ SettlingInv

------------------------------------------------------------------------------
(* Bags, reviews, and types.                                               *)

LEMMA AddedToBag ==
  ASSUME NEW B, NEW x PROVE BagToSet(BagAdd(B, x)) = BagToSet(B) \cup {x}
BY DEF BagAdd, BagToSet

LEMMA RemovedFromBag ==
  ASSUME NEW B, NEW x
  PROVE  BagToSet(BagRemove(B, x)) \in {BagToSet(B), BagToSet(B) \ {x}}
BY DEF BagRemove, BagToSet

LEMMA Bags == BagToSet(EmptyBag) = {} /\ \A x : BagToSet(SetToBag({x})) = {x}
BY DEF BagToSet, EmptyBag, SetToBag

\* A worker begins with its job and nothing else.
LEMMA StartType == ASSUME NEW job \in Job PROVE Start(job) \in Worker /\ Start(job) # NoJob
<1>1. Start(job) \in Worker
  BY DEF Start, Job, Worker, Point
<1>2. QED BY <1>1, WorkerAssumption

LEMMA FingerprintType ==
  ASSUME NEW rs \in Seq(Review), NEW h
  PROVE  Fingerprint(rs, h) \in SUBSET (Nat \X Review)
BY DEF Fingerprint, EffectiveIds

\* What people do keeps the types if what they change has its type.
LEMMA PeopleType ==
  ASSUME TypeOK, NEW n \in Event \cup {None}, Change(n), live' \in BOOLEAN, head' \in Revision,
         queued' \in Target \cup {NoTarget}, carries' \in [Target -> Revision \cup {None}],
         reviews' \in Seq(Review), Len(reviews') <= MaxReviews, eligible' \subseteq Reviewer,
         {drifted', edited'} \subseteq BOOLEAN, approvedOnce' \subseteq Revision,
         stoodOnce' \subseteq Reviewer, endorsers' \in [Revision -> SUBSET Reviewer]
  PROVE  TypeOK'
<1>1. BagToSet(events') \subseteq Event
  <2>1. events' = events \/ (n \in Event /\ events' = BagAdd(events, n))
    BY DEF Change
  <2>2. QED BY <2>1, AddedToBag DEF TypeOK
<1>2. changes' \in 0 .. MaxChanges
  BY AuthorityAssumption DEF Change, TypeOK
<1>3. UNCHANGED <<merged, check, discoveries, running, waiting, faults, lost>>
  BY DEF Change
<1>4. QED BY <1>1, <1>2, <1>3 DEF TypeOK, Busy

LEMMA DecideType ==
  ASSUME TypeOK, NEW rs \in Seq(Review), NEW q \in SUBSET Reviewer, Decide(rs, q)
  PROVE  /\ reviews' = rs /\ eligible' = q /\ approvedOnce' \subseteq Revision
         /\ stoodOnce' \subseteq Reviewer /\ endorsers' \in [Revision -> SUBSET Reviewer]
<1>1. \A i \in DOMAIN rs : rs[i] \in Review
  OBVIOUS
<1>1a. \A r \in Range(rs) : r.user \in Reviewer
  BY <1>1 DEF Range, Review
<1>2. QED BY <1>1a DEF Decide, TypeOK

LEMMA PeopleKeepType == ASSUME TypeOK, People PROVE TypeOK'
<1> USE DEF TypeOK
<1>1. ASSUME NEW u \in Reviewer, NEW s \in Verb, Submit(u, s) PROVE TypeOK'
  <2> DEFINE rs == Append(reviews, [user |-> u, commit |-> head, state |-> s])
  <2>1. rs \in Seq(Review) /\ Len(rs) = Len(reviews) + 1
    BY AuthorityAssumption DEF Review
  <2>2. Decide(rs, eligible) /\ Change(PullEvent) /\ Len(rs) <= MaxReviews
    BY <1>1, <2>1, AuthorityAssumption DEF Submit
  <2> HIDE DEF rs
  <2>3. /\ reviews' = rs /\ eligible' = eligible /\ approvedOnce' \subseteq Revision
        /\ stoodOnce' \subseteq Reviewer /\ endorsers' \in [Revision -> SUBSET Reviewer]
    BY <2>1, <2>2, DecideType
  <2>4. UNCHANGED <<live, head, queued, carries, drifted, edited>>
    BY <1>1 DEF Submit
  <2>5. QED BY <2>1, <2>2, <2>3, <2>4, PeopleType DEF Event
<1>2. ASSUME NEW i \in DOMAIN reviews, NEW s \in ReviewState, Restate(i, s), edited' \in BOOLEAN
      PROVE  TypeOK'
  <2> DEFINE rs == [reviews EXCEPT ![i].state = s]
  <2>1. rs \in Seq(Review) /\ Len(rs) = Len(reviews)
    <3>1. reviews[i] \in Review
      OBVIOUS
    <3>2. [reviews[i] EXCEPT !.state = s] \in Review
      BY <3>1 DEF Review
    <3>3. QED BY <3>2
  <2>2. Decide(rs, eligible) /\ Change(PullEvent)
    BY <1>2 DEF Restate
  <2> HIDE DEF rs
  <2>3. /\ reviews' = rs /\ eligible' = eligible /\ approvedOnce' \subseteq Revision
        /\ stoodOnce' \subseteq Reviewer /\ endorsers' \in [Revision -> SUBSET Reviewer]
    BY <2>1, <2>2, DecideType
  <2>4. UNCHANGED <<live, head, queued, carries, drifted>>
    BY <1>2 DEF Restate
  <2>5. QED BY <1>2, <2>1, <2>2, <2>3, <2>4, PeopleType DEF Event
<1>3. ASSUME NEW u \in Reviewer, ChangeStanding(u) PROVE TypeOK'
  <2>1. PICK q \in SUBSET Reviewer : Decide(reviews, q)
    BY <1>3 DEF ChangeStanding
  <2>2. /\ reviews' = reviews /\ eligible' = q /\ approvedOnce' \subseteq Revision
        /\ stoodOnce' \subseteq Reviewer /\ endorsers' \in [Revision -> SUBSET Reviewer]
    BY <2>1, DecideType
  <2>3. Change(None) /\ drifted' = TRUE /\ UNCHANGED <<live, head, queued, carries, edited>>
    BY <1>3 DEF ChangeStanding
  <2>4. QED BY <2>2, <2>3, PeopleType
<1>4. ASSUME NEW h \in Revision, Push(h) PROVE TypeOK'
  BY <1>4, PeopleType DEF Push, Event, history
<1>5. ASSUME NEW h \in Revision, NEW t \in Target, Enqueue(t, h) PROVE TypeOK'
  <2>1. Change(t) /\ t \in Event \cup {None}
    BY <1>5 DEF Enqueue, Event
  <2>2. carries' \in [Target -> Revision \cup {None}] /\ queued' \in Target \cup {NoTarget}
    BY <1>5 DEF Enqueue
  <2>3. UNCHANGED <<live, head, reviews, eligible, history>>
    BY <1>5 DEF Enqueue
  <2>4. QED BY <2>1, <2>2, <2>3, PeopleType DEF history
<1>6. CASE Close
  BY <1>6, PeopleType DEF Close, history
<1>7. CASE Reopen
  BY <1>7, PeopleType DEF Reopen, Event, history
<1>8. CASE Dequeue
  BY <1>8, PeopleType DEF Dequeue, history
<1>9. CASE Merge
  BY <1>9 DEF Merge, history, jobVars, Busy
<1>10. ASSUME NEW i \in DOMAIN reviews, Dismiss(i) PROVE TypeOK'
  BY <1>10, <1>2 DEF Dismiss, ReviewState, Native
<1>11. ASSUME NEW i \in DOMAIN reviews, NEW s \in Verb \ Native, Edit(i, s) PROVE TypeOK'
  BY <1>11, <1>2, AuthorityAssumption DEF Edit
<1>12. QED
  BY <1>1, <1>3, <1>4, <1>5, <1>6, <1>7, <1>8, <1>9, <1>10, <1>11 DEF People

\* A worker's step keeps the types if the worker keeps its own.
LEMMA ContinueType ==
  ASSUME TypeOK, NEW c \in Commit, Busy(c), NEW w \in Worker, Continue(c, w),
         UNCHANGED <<environment, check, events, discoveries>>,
         faults' \in 0 .. MaxFaults, lost' \in BOOLEAN
  PROVE  TypeOK' /\ \A d \in Commit : running'[d] = (IF d = c THEN w ELSE running[d])
<1>1. running' \in [Commit -> Worker \cup {NoJob}] /\ waiting' = waiting
  BY DEF Continue, TypeOK
<1>2. \A d \in Commit : running'[d] = (IF d = c THEN w ELSE running[d])
  BY DEF Continue, TypeOK
<1>3. \A d \in Commit : waiting'[d] # NoJob => Busy(d)'
  BY <1>1, <1>2, WorkerAssumption DEF TypeOK, Busy
<1>4. UNCHANGED <<live, head, queued, carries, reviews, eligible, merged, changes, drifted,
                  edited, approvedOnce, endorsers, stoodOnce, check, events, discoveries>>
  BY DEF environment, pullVars, history
<1>5. QED BY <1>1, <1>2, <1>3, <1>4 DEF TypeOK

LEMMA ReleaseType ==
  ASSUME TypeOK, NEW c \in Commit, Busy(c), Release(c),
         UNCHANGED <<environment, events, discoveries>>,
         check' \in [Commit -> Conclusion \cup {None}],
         faults' \in 0 .. MaxFaults, lost' \in BOOLEAN
  PROVE  TypeOK' /\ \A d \in Commit :
           running'[d] = (IF d # c THEN running[d]
                          ELSE IF waiting[c] = NoJob THEN NoJob ELSE Start(waiting[c]))
<1> DEFINE w == IF waiting[c] = NoJob THEN NoJob ELSE Start(waiting[c])
<1>1. w \in Worker \cup {NoJob}
  BY StartType DEF TypeOK
<1>2. running' = [running EXCEPT ![c] = w] /\ waiting' = [waiting EXCEPT ![c] = NoJob]
  BY DEF Release
<1> HIDE DEF w
<1>3. running' \in [Commit -> Worker \cup {NoJob}] /\ waiting' \in [Commit -> Job \cup {NoJob}]
  BY <1>1, <1>2 DEF TypeOK
<1>4. \A d \in Commit : waiting'[d] # NoJob => d # c /\ waiting[d] # NoJob
  BY <1>2 DEF TypeOK
<1>5. \A d \in Commit : running'[d] = (IF d # c THEN running[d] ELSE w)
  BY <1>2 DEF TypeOK
<1>6. \A d \in Commit : waiting'[d] # NoJob => Busy(d)'
  BY <1>4, <1>5 DEF TypeOK, Busy
<1>7. UNCHANGED <<live, head, queued, carries, reviews, eligible, merged, changes, drifted,
                  edited, approvedOnce, endorsers, stoodOnce, events, discoveries>>
  BY DEF environment, pullVars, history
<1>8. TypeOK'
  BY <1>3, <1>6, <1>7 DEF TypeOK
<1>9. QED BY <1>5, <1>8 DEF w

LEMMA DiscoverType ==
  ASSUME TypeOK, NEW e \in BagToSet(events), Discover(e)
  PROVE  TypeOK'
<1> DEFINE d == [event |-> e, targets |-> CollectorTargets(e)]
<1>1. e \in Event /\ d \in Discovery
  BY DEF TypeOK, Discovery, CollectorTargets, QueueTargets
<1>2. BagToSet(events') \subseteq Event
  BY RemovedFromBag DEF Discover, TypeOK
<1>3. BagToSet(discoveries') \subseteq Discovery
  BY <1>1, AddedToBag DEF Discover, TypeOK
<1>4. UNCHANGED <<live, head, queued, carries, reviews, eligible, merged, changes, drifted, edited,
                  approvedOnce, endorsers, stoodOnce, check, running, waiting, faults, lost>>
  BY DEF Discover, environment, pullVars, history
<1>5. QED BY <1>2, <1>3, <1>4 DEF TypeOK, Busy

\* The commits a discovery starts workers for.
Scheduled(d) == IF live THEN {IF t = NoTarget THEN head ELSE t : t \in d.targets} ELSE {}

LEMMA ScheduleType ==
  ASSUME TypeOK, NEW d \in BagToSet(discoveries), Schedule(d),
         NEW job, job = [event |-> d.event, expected |-> head]
  PROVE  /\ TypeOK' /\ job \in Job
         /\ \A c \in Commit :
              /\ running'[c] = (IF c \in Scheduled(d) /\ ~ Busy(c) THEN Start(job) ELSE running[c])
              /\ waiting'[c] = (IF c \in Scheduled(d) /\ Busy(c) THEN job ELSE waiting[c])
<1>1. job \in Job
  BY DEF TypeOK, Job, Discovery
<1>2. /\ running' = [c \in Commit |->
            IF c \in Scheduled(d) /\ ~ Busy(c) THEN Start(job) ELSE running[c]]
      /\ waiting' = [c \in Commit |-> IF c \in Scheduled(d) /\ Busy(c) THEN job ELSE waiting[c]]
      /\ discoveries' = BagRemove(discoveries, d)
  BY DEF Schedule, Scheduled
<1>3. Start(job) \in Worker /\ Start(job) # NoJob
  BY <1>1, StartType
<1>4. running' \in [Commit -> Worker \cup {NoJob}] /\ waiting' \in [Commit -> Job \cup {NoJob}]
  BY <1>1, <1>2, <1>3 DEF TypeOK
<1>5. \A c \in Commit : waiting'[c] # NoJob => Busy(c)'
  BY <1>2, <1>3 DEF TypeOK, Busy
<1>6. BagToSet(discoveries') \subseteq Discovery
  BY <1>2, RemovedFromBag DEF TypeOK
<1>7. UNCHANGED <<live, head, queued, carries, reviews, eligible, merged, changes, drifted, edited,
                  approvedOnce, endorsers, stoodOnce, check, events, faults, lost>>
  BY DEF Schedule, environment, pullVars, history
<1>8. TypeOK'
  BY <1>4, <1>5, <1>6, <1>7 DEF TypeOK
<1>9. QED BY <1>1, <1>2, <1>8

LEMMA LoseDiscoveryType == ASSUME TypeOK, LoseDiscovery PROVE TypeOK'
<1>1. BagToSet(events') \subseteq Event /\ BagToSet(discoveries') \subseteq Discovery
  BY RemovedFromBag DEF LoseDiscovery, TypeOK
<1>2. faults' \in 0 .. MaxFaults /\ lost' = TRUE
  BY AuthorityAssumption DEF LoseDiscovery, TypeOK
<1>3. UNCHANGED <<live, head, queued, carries, reviews, eligible, merged, changes, drifted, edited,
                  approvedOnce, endorsers, stoodOnce, check, running, waiting>>
  BY DEF LoseDiscovery, environment, pullVars, history
<1>4. QED BY <1>1, <1>2, <1>3 DEF TypeOK, Busy

------------------------------------------------------------------------------
(* Reviews.                                                                *)

\* An approval that counts was given by somebody with standing, on this head.
LEMMA ApprovedBySomebody ==
  ASSUME NEW rs \in Seq(Review), NEW q, NEW h, Approved(rs, q, h)
  PROVE  \E i \in DOMAIN rs : /\ rs[i].commit = h /\ rs[i].user \in q
                              /\ rs[i].state \in {"APPROVED", "approve"}
<1>1. PICK i \in Accepted(rs, q, h) : TRUE
  BY DEF Approved
<1>2. /\ i \in DOMAIN rs /\ rs[i].commit = h /\ rs[i].user \in q
      /\ EffectiveState(rs[i], h) = "APPROVED"
  BY DEF Accepted, Latest, EffectiveIds
<1>3. rs[i].state \in {"APPROVED", "approve"}
  BY <1>2 DEF EffectiveState, Native, Ineffective
<1>4. QED BY <1>2, <1>3

\* approval() looks at nothing that review_fingerprint leaves out.
LEMMA FingerprintDecides ==
  ASSUME NEW rs \in Seq(Review), NEW ss \in Seq(Review), NEW q, NEW h,
         Fingerprint(rs, h) = Fingerprint(ss, h), Approved(rs, q, h)
  PROVE  Approved(ss, q, h)
<1>1. \A i : i \in EffectiveIds(rs, h) <=> i \in EffectiveIds(ss, h)
  <2>1. \A i \in EffectiveIds(rs, h) : <<i, rs[i]>> \in Fingerprint(ss, h)
    BY DEF Fingerprint
  <2>2. \A i \in EffectiveIds(ss, h) : <<i, ss[i]>> \in Fingerprint(rs, h)
    BY DEF Fingerprint
  <2>3. QED BY <2>1, <2>2 DEF Fingerprint
<1>2. \A i \in EffectiveIds(rs, h) : rs[i] = ss[i]
  <2>1. \A i \in EffectiveIds(rs, h) : <<i, rs[i]>> \in Fingerprint(ss, h)
    BY DEF Fingerprint
  <2>2. QED BY <2>1 DEF Fingerprint
<1>3. EffectiveIds(ss, h) = EffectiveIds(rs, h)
  BY <1>1
<1>4. Latest(ss, h) = Latest(rs, h)
  BY <1>2, <1>3 DEF Latest
<1>5. \A i \in Latest(rs, h) : rs[i] = ss[i]
  BY <1>2 DEF Latest
<1>6. Vetoes(ss, q, h) = Vetoes(rs, q, h) /\ Accepted(ss, q, h) = Accepted(rs, q, h)
  BY <1>4, <1>5 DEF Vetoes, Accepted
<1>7. QED BY <1>6 DEF Approved

LEMMA OneToN == \A n \in Nat : 1 .. n \subseteq Nat
OBVIOUS

LEMMA LargestExists ==
  ASSUME NEW n \in Nat, NEW S \in SUBSET (1 .. n), S # {}
  PROVE  Max(S) \in S
<1> DEFINE Above(i) == {j \in S : j > i}
           T == {Above(i) : i \in S}
<1>1. T \subseteq FiniteSubsetsOf(Nat)
  <2>1. IsFiniteSet(1 .. n)
    BY FS_Interval
  <2>2. ASSUME NEW i \in S PROVE Above(i) \in FiniteSubsetsOf(Nat)
    <3>1. Above(i) \in SUBSET (1 .. n)
      OBVIOUS
    <3> HIDE DEF Above
    <3>2. IsFiniteSet(Above(i))
      BY <2>1, <3>1, FS_Subset
    <3>3. Above(i) \subseteq Nat
      BY <3>1, OneToN
    <3>4. QED BY <3>2, <3>3 DEF FiniteSubsetsOf
  <2>3. QED BY <2>2
<1>2. T # {}
  OBVIOUS
<1>3. IsWellFoundedOn(StrictSubsetOrdering(Nat), FiniteSubsetsOf(Nat))
  BY FS_StrictSubsetOrderingWellFounded
<1>4. \E x \in T : \A y \in T : ~ (<<y, x>> \in StrictSubsetOrdering(Nat))
  <2> HIDE DEF T
  <2>1. QED BY <1>1, <1>2, <1>3, WFMin
<1>5. PICK i \in S : \A j \in S : ~ (<<Above(j), Above(i)>> \in StrictSubsetOrdering(Nat))
  BY <1>4
<1>6. ASSUME NEW j \in S, j > i PROVE FALSE
  <2>1. Above(j) \subseteq Above(i)
    <3>1. SUFFICES ASSUME NEW k \in S, k > j PROVE k > i
      OBVIOUS
    <3>2. i \in Nat /\ j \in Nat /\ k \in Nat
      BY OneToN
    <3>3. QED BY <1>6, <3>1, <3>2
  <2>2. j \in Above(i) /\ j \notin Above(j)
    BY <1>6
  <2>3. Above(i) \subseteq Nat /\ Above(j) \subseteq Nat
    BY OneToN
  <2>4. <<Above(j), Above(i)>> \in StrictSubsetOrdering(Nat)
    BY <2>1, <2>2, <2>3 DEF StrictSubsetOrdering
  <2>5. QED BY <1>5, <2>4
<1>7. \A j \in S : i >= j
  BY <1>6
<1>8. QED BY <1>7 DEF Max

\* The approval that approval() selects is one that counts.
LEMMA SelectedQualified ==
  ASSUME NEW rs \in Seq(Review), NEW q, NEW h, Approved(rs, q, h)
  PROVE  Selected(rs, q, h) \in q
<1> DEFINE S == Accepted(rs, q, h)
<1>1. S \in SUBSET (1 .. Len(rs)) /\ S # {} /\ Len(rs) \in Nat
  BY DEF Approved, Accepted, Latest, EffectiveIds
<1>2. Max(S) \in S
  BY <1>1, LargestExists
<1>3. QED BY <1>2 DEF Selected, Accepted

------------------------------------------------------------------------------
(* What stays true of a worker whatever people do.                         *)

\* Histories grow, a queue commit keeps its content, and a commit is queued
\* only once.
Onwards ==
  /\ \A h \in Revision : endorsers[h] \subseteq endorsers'[h]
  /\ approvedOnce \subseteq approvedOnce' /\ stoodOnce \subseteq stoodOnce'
  /\ ~ drifted' => ~ drifted /\ eligible' = eligible
  /\ \A t \in Target : carries[t] # None => carries'[t] = carries[t]
  /\ \/ queued' = NoTarget
     \/ queued' = queued /\ head' = head
     \/ queued' \in Target /\ carries[queued'] = None

LEMMA NotedOnwards ==
  ASSUME Onwards, NEW rs, NEW h \in Revision, Noted(rs, h)
  PROVE  Noted(rs, h)'
BY DEF Onwards, Noted

LEMMA GrantableOnwards ==
  ASSUME Onwards, NEW h \in Revision
  PROVE  (Vetted(h) => Vetted(h)') /\ (Grantable(h) => Grantable(h)')
BY DEF Onwards, Vetted, Grantable

LEMMA VettingOnwards ==
  ASSUME Onwards, NEW c \in Commit, NEW w \in Worker, Vetting(w, c)
  PROVE  Vetting(w, c)'
<1>1. w.judged \in Revision
  BY DEF Worker
<1>2. ASSUME w.at = "qualify" PROVE \A h \in Revision : Noted(w.seen, h)'
  BY <1>2, NotedOnwards DEF Vetting
<1>3. /\ Vetted(w.judged) => Vetted(w.judged)'
      /\ Grantable(w.judged) => Grantable(w.judged)'
  BY <1>1, GrantableOnwards
<1>4. c \in Target /\ w.at # "collect" => carries[c] # None /\ carries'[c] = carries[c]
  BY DEF Vetting, Onwards
<1>5. w.conclusion = "success" => w.at # "collect"
  BY WorkerAssumption DEF Vetting, Concluded, Conclusion
<1>6. c \in Target /\ queued' = c /\ w.at \notin {"collect", "pin"} => w.expected = head'
  BY <1>4, AuthorityAssumption DEF Vetting, Onwards
<1>7. /\ w.at \notin Concluded => w.conclusion = None
      /\ w.at = "qualify" => w.seen \in Seq(Review)
      /\ w.at = "requalify" => Vetted(w.judged)
      /\ w.at = "conclude" => Grantable(w.judged)
      /\ w.conclusion = "success" =>
           /\ Grantable(w.judged)
           /\ c \in Target /\ w.judged \in Governed => carries[c] = w.judged
           /\ w.at # "reread" => w.judged = w.expected
  BY DEF Vetting
<1>8. QED BY <1>2, <1>3, <1>4, <1>5, <1>6, <1>7 DEF Vetting

\* What people do keeps MergeInv if the reviews they leave are in the history.
LEMMA OnwardsMerge ==
  ASSUME TypeOK, MergeInv, Onwards, eligible' \subseteq stoodOnce',
         \A h \in Revision : Noted(reviews, h)',
         queued' # NoTarget => carries'[queued'] # None,
         UNCHANGED <<check, running, merged>>, merged = NoTarget \/ UNCHANGED <<queued, head>>,
         head' \in Revision
  PROVE  MergeInv'
<1>1. \A c \in Commit, w \in Worker : running'[c] = w => Vetting(w, c)'
  BY VettingOnwards DEF MergeInv
<1>2. \A h \in Revision : Grantable(h) => Grantable(h)'
  BY GrantableOnwards
<1>3. ASSUME NEW t \in Target, check'[t] = "success"
      PROVE  /\ carries'[t] # None
             /\ queued' = t /\ head' \in Governed => carries'[t] = head' /\ Grantable(head)'
  <2>1. carries[t] # None /\ carries'[t] = carries[t]
    BY <1>3 DEF MergeInv, Onwards
  <2>2. ASSUME queued' = t PROVE queued = t /\ head' = head
    BY <2>1, <2>2, AuthorityAssumption DEF Onwards
  <2>3. PICK h \in Revision : h = head'
    OBVIOUS
  <2>4. ASSUME queued' = t, head' \in Governed PROVE carries'[t] = head' /\ Grantable(head)'
    <3>1. carries[t] = head /\ Grantable(head) /\ head = h
      BY <1>3, <2>2, <2>3, <2>4 DEF MergeInv
    <3>2. Grantable(h)'
      BY <3>1, <1>2
    <3>3. QED BY <3>1, <3>2, <2>1, <2>3 DEF Grantable, Vetted
  <2>5. QED BY <2>1, <2>4
<1>4. ASSUME merged' # NoTarget
      PROVE  /\ queued' = NoTarget
             /\ head' \in Governed => carries'[merged'] = head' /\ Grantable(head)'
  <2>1. queued' = NoTarget /\ head' = head /\ merged \in Target
    BY <1>4 DEF MergeInv, TypeOK
  <2>2. PICK h \in Revision : h = head
    BY DEF TypeOK
  <2>3. ASSUME head \in Governed PROVE carries'[merged] = head /\ Grantable(head)'
    <3>1. carries[merged] = head /\ Grantable(h)
      BY <1>4, <2>2, <2>3 DEF MergeInv
    <3>2. None # head
      BY WorkerAssumption DEF Commit, TypeOK
    <3>3. Grantable(h)'
      BY <3>1, <1>2
    <3>4. QED BY <2>1, <2>2, <3>1, <3>2, <3>3 DEF Onwards, Grantable, Vetted
  <2>4. QED BY <2>1, <2>3
<1>5. QED BY <1>1, <1>3, <1>4 DEF MergeInv

\* Deciding keeps the history up to date with the reviews it leaves.
LEMMA DecideNotes ==
  ASSUME TypeOK, MergeInv, NEW rs \in Seq(Review), NEW q \in SUBSET Reviewer, Decide(rs, q)
  PROVE  /\ \A h \in Revision : Noted(reviews, h)'
         /\ eligible' \subseteq stoodOnce'
         /\ \A h \in Revision : endorsers[h] \subseteq endorsers'[h]
         /\ approvedOnce \subseteq approvedOnce' /\ stoodOnce \subseteq stoodOnce'
<1>1. /\ reviews' = rs /\ eligible' = q /\ stoodOnce' = stoodOnce \cup q
      /\ approvedOnce' = approvedOnce \cup {h \in Revision : Approved(rs, q, h)}
      /\ \A h \in Revision :
           endorsers'[h] = endorsers[h] \cup {r.user : r \in {x \in Range(rs) :
                             x.commit = h /\ x.state \in {"APPROVED", "approve"}}}
  BY DEF Decide
<1>2. \A i \in DOMAIN rs : rs[i] \in Range(rs)
  BY DEF Range
<1>3. QED BY <1>1, <1>2 DEF Noted

\* No change, or one that leaves reviews and standing alone.
LEMMA SameReviews ==
  ASSUME MergeInv, UNCHANGED <<reviews, eligible, history>>
  PROVE  /\ \A h \in Revision : Noted(reviews, h)'
         /\ eligible' \subseteq stoodOnce'
         /\ \A h \in Revision : endorsers[h] \subseteq endorsers'[h]
         /\ approvedOnce \subseteq approvedOnce' /\ stoodOnce \subseteq stoodOnce'
         /\ ~ drifted' => ~ drifted /\ eligible' = eligible
BY DEF MergeInv, Noted, history

LEMMA SubmittedReviews ==
  ASSUME TypeOK, NEW u \in Reviewer, NEW s \in Verb
  PROVE  Append(reviews, [user |-> u, commit |-> head, state |-> s]) \in Seq(Review)
BY AuthorityAssumption DEF TypeOK, Review

LEMMA RestatedReviews ==
  ASSUME TypeOK, NEW i \in DOMAIN reviews, NEW s \in ReviewState
  PROVE  [reviews EXCEPT ![i].state = s] \in Seq(Review)
<1>1. reviews[i] \in Review
  BY DEF TypeOK
<1>2. [reviews[i] EXCEPT !.state = s] \in Review
  BY <1>1 DEF Review
<1>3. QED BY <1>2 DEF TypeOK

LEMMA ChangeMerges ==
  ASSUME TypeOK, MergeInv, Onwards, NEW n, Change(n), eligible' \subseteq stoodOnce',
         \A h \in Revision : Noted(reviews, h)',
         queued' # NoTarget => carries'[queued'] # None, head' \in Revision
  PROVE  MergeInv'
BY OnwardsMerge DEF Change

LEMMA PeopleMerge == ASSUME TypeOK, MergeInv, People PROVE MergeInv'
<1>0. /\ TypeOK'
      /\ head' \in Revision
  BY PeopleKeepType DEF TypeOK
<1>1. ASSUME NEW u \in Reviewer, NEW s \in Verb, Submit(u, s) PROVE MergeInv'
  <2>1. /\ Change(PullEvent) /\ UNCHANGED <<live, head, queued, carries, drifted, edited>>
    BY <1>1 DEF Submit
  <2>2. PICK rs \in Seq(Review) : Decide(rs, eligible)
    BY <1>1, SubmittedReviews DEF Submit
  <2>3. eligible \in SUBSET Reviewer /\ eligible' = eligible
    BY <2>2 DEF TypeOK, Decide
  <2>4. Onwards
    BY <2>1, <2>2, <2>3, DecideNotes DEF Onwards
  <2>5. queued' # NoTarget => carries'[queued'] # None
    BY <2>1 DEF MergeInv
  <2>6. QED BY <1>0, <2>1, <2>2, <2>3, <2>4, <2>5, DecideNotes, ChangeMerges
<1>2. ASSUME NEW i \in DOMAIN reviews, NEW s \in ReviewState, Restate(i, s) PROVE MergeInv'
  <2>1. Change(PullEvent) /\ UNCHANGED <<live, head, queued, carries, drifted>>
    BY <1>2 DEF Restate
  <2>2. PICK rs \in Seq(Review) : Decide(rs, eligible)
    BY <1>2, RestatedReviews DEF Restate
  <2>3. eligible \in SUBSET Reviewer /\ eligible' = eligible
    BY <2>2 DEF TypeOK, Decide
  <2>4. Onwards
    BY <2>1, <2>2, <2>3, DecideNotes DEF Onwards
  <2>5. queued' # NoTarget => carries'[queued'] # None
    BY <2>1 DEF MergeInv
  <2>6. QED BY <1>0, <2>1, <2>2, <2>3, <2>4, <2>5, DecideNotes, ChangeMerges
<1>3. ASSUME NEW u \in Reviewer, ChangeStanding(u) PROVE MergeInv'
  <2>1. Change(None) /\ drifted' = TRUE /\ UNCHANGED <<live, head, queued, carries, edited>>
    BY <1>3 DEF ChangeStanding
  <2>2. PICK q \in SUBSET Reviewer : Decide(reviews, q)
    BY <1>3 DEF ChangeStanding, TypeOK
  <2>3. reviews \in Seq(Review)
    BY DEF TypeOK
  <2>4. Onwards
    BY <2>1, <2>2, <2>3, DecideNotes DEF Onwards
  <2>5. queued' # NoTarget => carries'[queued'] # None
    BY <2>1 DEF MergeInv
  <2>6. QED BY <1>0, <2>1, <2>2, <2>3, <2>4, <2>5, DecideNotes, ChangeMerges
<1>4. ASSUME NEW h \in Revision, Push(h) PROVE MergeInv'
  <2>1. /\ Change(PullEvent) /\ queued' = NoTarget /\ UNCHANGED <<reviews, eligible, history>>
        /\ carries' = carries
    BY <1>4 DEF Push
  <2>2. Onwards
    BY <2>1, SameReviews DEF Onwards
  <2>3. QED BY <1>0, <2>1, <2>2, SameReviews, ChangeMerges
<1>5. ASSUME NEW h \in Revision, NEW t \in Target, Enqueue(t, h) PROVE MergeInv'
  <2>1. /\ Change(t) /\ queued' = t /\ UNCHANGED <<reviews, eligible, history>>
        /\ carries[t] = None /\ carries' = [carries EXCEPT ![t] = h]
    BY <1>5 DEF Enqueue
  <2>2. carries'[t] # None /\ \A x \in Target : carries[x] # None => carries'[x] = carries[x]
    BY <2>1, WorkerAssumption DEF TypeOK, Commit
  <2>3. Onwards
    BY <2>1, <2>2, SameReviews DEF Onwards
  <2>4. QED BY <1>0, <2>1, <2>2, <2>3, SameReviews, ChangeMerges
<1>6. CASE Close
  <2>1. /\ Change(None) /\ queued' = NoTarget /\ UNCHANGED <<reviews, eligible, history>>
        /\ carries' = carries
    BY <1>6 DEF Close
  <2>2. Onwards
    BY <2>1, SameReviews DEF Onwards
  <2>3. QED BY <1>0, <2>1, <2>2, SameReviews, ChangeMerges
<1>7. CASE Reopen
  <2>1. /\ Change(PullEvent) /\ UNCHANGED <<reviews, eligible, history>>
        /\ UNCHANGED <<head, queued, carries>>
    BY <1>7 DEF Reopen
  <2>2. Onwards /\ (queued' # NoTarget => carries'[queued'] # None)
    BY <2>1, SameReviews DEF Onwards, MergeInv
  <2>3. QED BY <1>0, <2>1, <2>2, SameReviews, ChangeMerges
<1>8. CASE Dequeue
  <2>1. /\ Change(None) /\ queued' = NoTarget /\ UNCHANGED <<reviews, eligible, history>>
        /\ carries' = carries
    BY <1>8 DEF Dequeue
  <2>2. Onwards
    BY <2>1, SameReviews DEF Onwards
  <2>3. QED BY <1>0, <2>1, <2>2, SameReviews, ChangeMerges
<1>9. CASE Merge
  <2>1. /\ queued \in Target /\ check[queued] = "success" /\ merged' = queued /\ queued' = NoTarget
        /\ UNCHANGED <<head, carries, reviews, eligible, check, running, history>>
    BY <1>9 DEF Merge, TypeOK, jobVars
  <2>2. Onwards
    BY <2>1, SameReviews DEF Onwards
  <2>3. \A c \in Commit, w \in Worker : running'[c] = w => Vetting(w, c)'
    BY <2>1, <2>2, VettingOnwards DEF MergeInv
  <2>4. PICK h \in Revision : h = head
    BY DEF TypeOK
  <2>5. head \in Governed => carries[queued] = head /\ Grantable(h) /\ Grantable(h)'
    BY <2>1, <2>2, <2>4, GrantableOnwards DEF MergeInv
  <2>6. head' \in Governed => carries'[merged'] = head' /\ Grantable(head)'
    BY <2>1, <2>4, <2>5 DEF Grantable, Vetted
  <2>7. \A t \in Target : check'[t] = "success" => carries'[t] # None
    BY <2>1 DEF MergeInv
  <2>8. NoTarget \notin Target
    BY AuthorityAssumption
  <2>9. QED BY <2>1, <2>2, <2>3, <2>6, <2>7, <2>8, SameReviews DEF MergeInv
<1>10. ASSUME NEW i \in DOMAIN reviews, Dismiss(i) PROVE MergeInv'
  BY <1>10, <1>2 DEF Dismiss, ReviewState, Native
<1>11. ASSUME NEW i \in DOMAIN reviews, NEW s \in Verb \ Native, Edit(i, s) PROVE MergeInv'
  BY <1>11, <1>2, AuthorityAssumption DEF Edit
<1>12. QED
  BY <1>1, <1>3, <1>4, <1>5, <1>6, <1>7, <1>8, <1>9, <1>10, <1>11 DEF People

------------------------------------------------------------------------------
(* A worker's step.                                                        *)

LEMMA SameEnvironment ==
  ASSUME UNCHANGED environment
  PROVE  /\ UNCHANGED <<live, head, queued, carries, reviews, eligible, merged, changes,
                        drifted, edited, approvedOnce, endorsers, stoodOnce, history>>
         /\ Onwards
BY DEF environment, pullVars, history, Onwards

LEMMA ComparingSteady ==
  ASSUME NEW w, UNCHANGED <<reviews, eligible, drifted, edited>>, Comparing(w)
  PROVE  Comparing(w)'
BY DEF Comparing, Descends

LEMMA RightSteady ==
  ASSUME NEW c, NEW x, UNCHANGED <<head, reviews, eligible>>,
         c \in Target => carries'[c] = carries[c], faults' = 0 => faults = 0
  PROVE  Right(c, x) => Right(c, x)'
BY DEF Right, Entitled

LEMMA OnTrackSteady ==
  ASSUME NEW c, NEW w, UNCHANGED <<head, reviews, eligible>>,
         c \in Target => carries'[c] = carries[c], faults' = 0 => faults = 0, OnTrack(w, c)
  PROVE  OnTrack(w, c)'
<1>1. w.at \in Concluded => Right(c, w.conclusion)'
  BY RightSteady DEF OnTrack
<1>2. QED BY <1>1 DEF OnTrack, Fresh

\* A commit whose own line stays as it is keeps its last word.
LEMMA LastRightSteady ==
  ASSUME NEW c, LastRight(c), UNCHANGED <<head, reviews, eligible>>,
         c \in Target => carries'[c] = carries[c], faults' = 0 => faults = 0,
         running'[c] = running[c], waiting'[c] = waiting[c], check'[c] = check[c],
         Pending(c) => Pending(c)'
  PROVE  LastRight(c)'
<1>1. CASE Pending(c)
  BY <1>1 DEF LastRight
<1>2. ASSUME NEW job \in Job, waiting[c] = job, Fresh(job, c) PROVE LastRight(c)'
  BY <1>2 DEF LastRight, Fresh
<1>3. ASSUME waiting[c] = NoJob, NEW w \in Worker, running[c] = w, OnTrack(w, c)
      PROVE  LastRight(c)'
  BY <1>3, OnTrackSteady DEF LastRight
<1>4. CASE waiting[c] = NoJob /\ ~ Busy(c) /\ Right(c, check[c])
  <2>1. PICK x : x = check[c]
    OBVIOUS
  <2>2. Right(c, x)'
    BY <1>4, <2>1, RightSteady
  <2>3. Right(c, check[c])'
    BY <2>1, <2>2 DEF Right, Entitled
  <2>4. QED BY <1>4, <2>3 DEF LastRight, Busy
<1>5. QED BY <1>1, <1>2, <1>3, <1>4 DEF LastRight

LEMMA LiveCommit == ASSUME TypeOK, NEW c \in LiveCommits PROVE c \in Commit /\ live
BY DEF TypeOK, LiveCommits, QueueTargets, Commit

LEMMA StartOnTrack ==
  ASSUME NEW job \in Job, NEW c, Fresh(job, c) PROVE OnTrack(Start(job), c)
BY DEF Start, OnTrack, Fresh, Concluded

LEMMA StartVets ==
  ASSUME NEW job, NEW c PROVE Vetting(Start(job), c) /\ Comparing(Start(job))
BY WorkerAssumption DEF Start, Vetting, Comparing, Concluded, Conclusion

LEMMA ContinueKeeps ==
  ASSUME IInv, NEW c \in Commit, NEW v \in Worker, running[c] = v, NEW w \in Worker,
         Continue(c, w), UNCHANGED <<environment, check, events, discoveries>>,
         faults' \in 0 .. MaxFaults, lost' \in BOOLEAN, lost => lost', faults' = 0 => faults = 0,
         Vetting(w, c), Comparing(w),
         ~ lost' /\ ~ drifted /\ c \in LiveCommits /\ OnTrack(v, c) => OnTrack(w, c)'
  PROVE  IInv'
<1>0. TypeOK /\ MergeInv /\ OvertakenInv /\ SettlingInv
  BY DEF IInv
<1>1. Busy(c)
  BY WorkerAssumption DEF Busy
<1>2. TypeOK' /\ \A d \in Commit : running'[d] = (IF d = c THEN w ELSE running[d])
  BY <1>0, <1>1, ContinueType
<1>3. /\ UNCHANGED <<live, head, queued, carries, reviews, eligible, merged, changes,
                     drifted, edited, approvedOnce, endorsers, stoodOnce, history>>
      /\ Onwards
  BY SameEnvironment
<1>4. \A d \in Commit, x \in Worker : running'[d] = x => Vetting(x, d) /\ Comparing(x)
  BY <1>0, <1>2 DEF MergeInv, OvertakenInv
<1>5. MergeInv'
  <2>1. \A d \in Commit, x \in Worker : running'[d] = x => Vetting(x, d)'
    BY <1>3, <1>4, VettingOnwards
  <2>2. QED BY <1>0, <1>3, <2>1 DEF MergeInv, Noted, Grantable, Vetted
<1>6. OvertakenInv'
  BY <1>3, <1>4, ComparingSteady DEF OvertakenInv
<1>7. ASSUME ~ lost', ~ drifted', NEW d \in LiveCommits PROVE LastRight(d)'
  <2>1. LastRight(d) /\ d \in Commit /\ ~ lost
    BY <1>0, <1>3, <1>7, LiveCommit DEF SettlingInv
  <2>2. waiting' = waiting /\ (Pending(d) => Pending(d)')
    BY DEF Continue, Pending
  <2>3. CASE d # c
    BY <1>2, <1>3, <2>1, <2>2, <2>3, LastRightSteady
  <2>4. CASE d = c
    <3>1. CASE Pending(c)
      BY <2>2, <2>4, <3>1 DEF LastRight
    <3>2. ASSUME NEW job \in Job, waiting[c] = job, Fresh(job, c) PROVE LastRight(c)'
      BY <1>3, <2>2, <3>2 DEF LastRight, Fresh
    <3>3. ASSUME waiting[c] = NoJob, NEW x \in Worker, running[c] = x, OnTrack(x, c)
          PROVE  LastRight(c)'
      BY <1>2, <1>3, <1>7, <2>2, <2>4, <3>3 DEF LastRight
    <3>4. QED BY <1>1, <2>1, <2>4, <3>1, <3>2, <3>3 DEF LastRight
  <2>5. QED BY <2>3, <2>4
<1>8. LiveCommits' = LiveCommits
  BY <1>3 DEF LiveCommits, QueueTargets
<1>9. SettlingInv'
  BY <1>0, <1>7, <1>8 DEF SettlingInv
<1>10. QED BY <1>2, <1>5, <1>6, <1>9 DEF IInv

LEMMA ReleaseKeeps ==
  ASSUME IInv, NEW c \in Commit, NEW v \in Worker, running[c] = v,
         Release(c), UNCHANGED <<environment, events, discoveries>>,
         NEW x \in Conclusion \cup {None}, check' = [check EXCEPT ![c] = x],
         faults' \in 0 .. MaxFaults, lost' \in BOOLEAN, lost => lost', faults' = 0 => faults = 0,
         c \in Target /\ x = "success" =>
           /\ carries[c] # None
           /\ queued = c /\ head \in Governed => carries[c] = head /\ Grantable(head),
         ~ lost' /\ ~ drifted /\ c \in LiveCommits /\ OnTrack(v, c) => Right(c, x)'
  PROVE  IInv'
<1>0. TypeOK /\ MergeInv /\ OvertakenInv /\ SettlingInv
  BY DEF IInv
<1>1. Busy(c)
  BY WorkerAssumption DEF Busy
<1>a. /\ check' \in [Commit -> Conclusion \cup {None}]
      /\ \A d \in Commit : check'[d] = IF d = c THEN x ELSE check[d]
  BY <1>0 DEF TypeOK
<1>2. TypeOK' /\ \A d \in Commit :
           running'[d] = (IF d # c THEN running[d]
                          ELSE IF waiting[c] = NoJob THEN NoJob ELSE Start(waiting[c]))
  BY <1>0, <1>1, <1>a, ReleaseType
<1>b. /\ waiting[c] \in Job \cup {NoJob}
      /\ \A d \in Commit : waiting'[d] = IF d = c THEN NoJob ELSE waiting[d]
  BY <1>0 DEF TypeOK, Release
<1>3. /\ UNCHANGED <<live, head, queued, carries, reviews, eligible, merged, changes,
                     drifted, edited, approvedOnce, endorsers, stoodOnce, history>>
      /\ Onwards
  BY SameEnvironment
<1>4. \A d \in Commit, w \in Worker : running'[d] = w => Vetting(w, d) /\ Comparing(w)
  BY <1>0, <1>2, StartVets, WorkerAssumption DEF MergeInv, OvertakenInv
<1>5. MergeInv'
  <2>1. \A d \in Commit, w \in Worker : running'[d] = w => Vetting(w, d)'
    BY <1>3, <1>4, VettingOnwards
  <2>2. PICK h \in Revision : h = head
    BY <1>0 DEF TypeOK
  <2>3. Grantable(h) = Grantable(h)' /\ Grantable(head) = Grantable(h)
    BY <1>3, <2>2 DEF Grantable, Vetted
  <2>4. ASSUME NEW t \in Target, check'[t] = "success"
        PROVE  /\ carries[t] # None
               /\ queued = t /\ head \in Governed => carries[t] = head /\ Grantable(h)
    <3>1. t \in Commit
      BY DEF Commit
    <3>2. QED BY <1>0, <1>a, <2>3, <2>4, <3>1 DEF MergeInv
  <2>5. Grantable(head)' = Grantable(h)'
    BY <1>3, <2>2 DEF Grantable, Vetted
  <2>6. QED BY <1>0, <1>3, <2>1, <2>3, <2>4, <2>5 DEF MergeInv, Noted
<1>6. OvertakenInv'
  BY <1>3, <1>4, ComparingSteady DEF OvertakenInv
<1>7. ASSUME ~ lost', ~ drifted', NEW d \in LiveCommits PROVE LastRight(d)'
  <2>1. LastRight(d) /\ d \in Commit /\ ~ lost
    BY <1>0, <1>3, <1>7, LiveCommit DEF SettlingInv
  <2>2. Pending(d) => Pending(d)'
    BY DEF Pending
  <2>3. CASE d # c
    <3>1. running'[d] = running[d] /\ waiting'[d] = waiting[d] /\ check'[d] = check[d]
      BY <1>2, <1>a, <1>b, <2>1, <2>3
    <3>2. QED BY <1>3, <2>1, <2>2, <3>1, LastRightSteady
  <2>4. CASE d = c
    <3>1. CASE Pending(c)
      BY <2>2, <2>4, <3>1 DEF LastRight
    <3>2. ASSUME NEW job \in Job, waiting[c] = job, Fresh(job, c) PROVE LastRight(c)'
      <4>1. PICK w : w = Start(job)
        OBVIOUS
      <4>2. w \in Worker /\ running'[c] = w /\ waiting'[c] = NoJob
        BY <1>2, <1>b, <3>2, <4>1, StartType, WorkerAssumption
      <4>3. OnTrack(w, c)
        BY <3>2, <4>1, StartOnTrack
      <4>4. OnTrack(w, c)'
        BY <1>3, <4>3, OnTrackSteady
      <4>5. QED BY <4>2, <4>4 DEF LastRight
    <3>3. ASSUME waiting[c] = NoJob, NEW w \in Worker, running[c] = w, OnTrack(w, c)
          PROVE  LastRight(c)'
      <4>1. Right(c, x)'
        BY <1>3, <1>7, <2>4, <3>3
      <4>2. Right(c, check[c])'
        BY <1>a, <4>1 DEF Right, Entitled
      <4>3. running'[c] = NoJob /\ waiting'[c] = NoJob
        BY <1>2, <1>b, <3>3
      <4>4. QED BY <4>2, <4>3 DEF LastRight, Busy
    <3>4. QED BY <1>1, <2>1, <2>4, <3>1, <3>2, <3>3 DEF LastRight
  <2>5. QED BY <2>3, <2>4
<1>8. LiveCommits' = LiveCommits
  BY <1>3 DEF LiveCommits, QueueTargets
<1>9. SettlingInv'
  BY <1>0, <1>7, <1>8 DEF SettlingInv
<1>10. QED BY <1>2, <1>5, <1>6, <1>9 DEF IInv

LEMMA ReleaseUnposted ==
  ASSUME IInv, NEW c \in Commit, NEW v \in Worker, running[c] = v,
         Release(c), UNCHANGED <<environment, check, events, discoveries>>,
         faults' \in 0 .. MaxFaults, lost' \in BOOLEAN, lost => lost', faults' = 0 => faults = 0,
         lost' \/ c \notin LiveCommits \/ ~ OnTrack(v, c)
  PROVE  IInv'
<1>1. TypeOK /\ MergeInv
  BY DEF IInv
<1>2. PICK x \in Conclusion \cup {None} : x = check[c] /\ check' = [check EXCEPT ![c] = x]
  BY <1>1 DEF TypeOK
<1>3. c \in Target /\ x = "success" =>
        /\ carries[c] # None
        /\ queued = c /\ head \in Governed => carries[c] = head /\ Grantable(head)
  BY <1>1, <1>2 DEF MergeInv
<1>4. QED BY <1>2, <1>3, ReleaseKeeps

\* The worker of a busy commit, as the invariant describes it.
LEMMA TheWorker ==
  ASSUME IInv, NEW c \in Commit, Busy(c)
  PROVE  \E v \in Worker : running[c] = v /\ Vetting(v, c) /\ Comparing(v)
BY DEF IInv, TypeOK, MergeInv, OvertakenInv, Busy

LEMMA CallsLeave ==
  ASSUME IInv, Calls
  PROVE  /\ UNCHANGED <<environment, check, events, discoveries>>
         /\ faults' \in 0 .. MaxFaults /\ lost' \in BOOLEAN
         /\ lost => lost'
         /\ faults' = 0 => faults = 0
BY DEF IInv, TypeOK, Calls

LEMMA FailingLeaves ==
  ASSUME IInv, Fault
  PROVE  faults' \in 0 .. MaxFaults /\ faults' # 0
BY AuthorityAssumption DEF IInv, TypeOK, Fault

\* A live commit is among the targets of any event it may have.
LEMMA Found ==
  ASSUME TypeOK, NEW c \in LiveCommits, NEW job, Fresh(job, c)
  PROVE  /\ Ask(c) \in CollectorTargets(job.event)
         /\ c \in Target => c = queued /\ c \in CollectorTargets(job.event)
<1>1. live /\ (c = head \/ (c = queued /\ queued # NoTarget))
  BY DEF LiveCommits, QueueTargets
<1>2. head \notin Target
  BY AuthorityAssumption DEF TypeOK
<1>3. CASE c = queued /\ queued # NoTarget
  <2>1. c \in Target /\ Ask(c) = c /\ QueueTargets = {c}
    BY <1>3 DEF TypeOK, Ask, QueueTargets
  <2>2. QED BY <1>1, <1>3, <2>1 DEF CollectorTargets, Fresh
<1>4. CASE c = head
  <2>1. c \notin Target /\ Ask(c) = NoTarget /\ job.event = PullEvent
    BY <1>2, <1>4 DEF Ask, Fresh
  <2>2. QED BY <1>1, <2>1 DEF CollectorTargets
<1>5. QED BY <1>1, <1>3, <1>4

LEMMA CollectKeeps == ASSUME IInv, NEW c \in Commit, Collect(c) PROVE IInv'
<1>1. PICK v \in Worker : running[c] = v /\ Vetting(v, c) /\ Comparing(v)
  BY TheWorker DEF Collect, At
<1>2. Calls /\ v.at = "collect" /\ TypeOK /\ MergeInv
  BY <1>1 DEF Collect, At, IInv
<1>3. ASSUME Ask(c) \in CollectorTargets(v.event) PROVE IInv'
  <2>1. PICK w \in Worker : w = [v EXCEPT !.at = "pin"]
    BY DEF Worker, Point
  <2>2. /\ w.at = "pin" /\ w.event = v.event /\ w.expected = v.expected
        /\ w.conclusion = v.conclusion /\ w.fingerprint = v.fingerprint
        /\ w.judged = v.judged
    BY <2>1 DEF Worker
  <2>3. c \in Target => carries[c] # None
    <3>1. SUFFICES ASSUME c \in Target PROVE carries[c] # None
      OBVIOUS
    <3>2. c \in QueueTargets
      BY <1>3, <3>1, AuthorityAssumption DEF Ask, CollectorTargets
    <3>3. QED BY <1>2, <3>2 DEF QueueTargets, MergeInv
  <2>4. v.conclusion = None /\ None # "success"
    BY <1>1, <1>2, WorkerAssumption DEF Vetting, Concluded, Conclusion
  <2>5. Vetting(w, c)
    BY <2>2, <2>3, <2>4 DEF Vetting, Concluded
  <2>6. Comparing(w)
    BY <1>1, <2>2, <2>4 DEF Comparing
  <2>7. OnTrack(v, c) => OnTrack(w, c)
    BY <2>2 DEF OnTrack, Fresh, Concluded
  <2>8. OnTrack(v, c) => OnTrack(w, c)'
    BY <1>2, <2>7, CallsLeave, SameEnvironment, OnTrackSteady
  <2>9. Continue(c, w)
    BY <1>1, <1>3, <2>1 DEF Collect, Goto
  <2>10. QED BY <1>1, <1>2, <2>5, <2>6, <2>8, <2>9, CallsLeave, ContinueKeeps
<1>4. ASSUME Ask(c) \notin CollectorTargets(v.event) PROVE IInv'
  <2>1. Release(c)
    BY <1>1, <1>4 DEF Collect
  <2>2. c \notin LiveCommits \/ ~ OnTrack(v, c)
    BY <1>2, <1>4, Found DEF OnTrack
  <2>3. QED BY <1>1, <1>2, <2>1, <2>2, CallsLeave, ReleaseUnposted
<1>5. QED BY <1>3, <1>4

LEMMA PinKeeps == ASSUME IInv, NEW c \in Commit, Pin(c) PROVE IInv'
<1>1. PICK v \in Worker : running[c] = v /\ Vetting(v, c) /\ Comparing(v)
  BY TheWorker DEF Pin, At
<1>2. Calls /\ v.at = "pin" /\ TypeOK
  BY <1>1 DEF Pin, At, IInv
<1>3. ASSUME head = v.expected PROVE IInv'
  <2>1. PICK w \in Worker : w = [v EXCEPT !.at = "snapshot", !.opened = live]
    BY <1>2 DEF Worker, Point, TypeOK
  <2>2. /\ w.at = "snapshot" /\ w.event = v.event /\ w.expected = v.expected
        /\ w.conclusion = v.conclusion /\ w.fingerprint = v.fingerprint
        /\ w.judged = v.judged /\ w.opened = live
    BY <2>1 DEF Worker
  <2>3. v.conclusion = None /\ None # "success"
    BY <1>1, <1>2, WorkerAssumption DEF Vetting, Concluded, Conclusion
  <2>4. Vetting(w, c)
    BY <1>1, <1>2, <1>3, <2>2, <2>3 DEF Vetting, Concluded
  <2>5. Comparing(w)
    BY <1>1, <2>2, <2>3 DEF Comparing
  <2>6. c \in LiveCommits /\ OnTrack(v, c) => OnTrack(w, c)
    BY <1>2, <2>2, LiveCommit DEF OnTrack, Fresh, Concluded, TypeOK
  <2>7. c \in LiveCommits /\ OnTrack(v, c) => OnTrack(w, c)'
    BY <1>2, <2>6, CallsLeave, SameEnvironment, OnTrackSteady
  <2>8. Continue(c, w)
    BY <1>1, <1>3, <2>1 DEF Pin
  <2>9. QED BY <1>1, <1>2, <2>4, <2>5, <2>7, <2>8, CallsLeave, ContinueKeeps
<1>4. ASSUME head # v.expected PROVE IInv'
  <2>1. Release(c)
    BY <1>1, <1>4 DEF Pin
  <2>2. ~ OnTrack(v, c)
    BY <1>4 DEF OnTrack, Fresh
  <2>3. QED BY <1>1, <1>2, <2>1, <2>2, CallsLeave, ReleaseUnposted
<1>5. QED BY <1>3, <1>4

LEMMA SnapshotKeeps == ASSUME IInv, NEW c \in Commit, Snapshot(c) PROVE IInv'
<1>1. PICK v \in Worker : running[c] = v /\ Vetting(v, c) /\ Comparing(v)
  BY TheWorker DEF Snapshot, At
<1>2. Calls /\ v.at = "snapshot" /\ TypeOK /\ reviews \in Seq(Review)
  BY <1>1 DEF Snapshot, At, IInv, TypeOK
<1>3. PICK F \in SUBSET (Nat \X Review) : F = Fingerprint(reviews, v.expected)
  BY <1>2, FingerprintType
<1>4. PICK w \in Worker : w = [v EXCEPT !.at = "inspect", !.fingerprint = F]
  BY DEF Worker, Point
<1>5. /\ w.at = "inspect" /\ w.event = v.event /\ w.expected = v.expected
      /\ w.conclusion = v.conclusion /\ w.fingerprint = F
      /\ w.judged = v.judged /\ w.opened = v.opened
  BY <1>4 DEF Worker
<1>6. v.conclusion = None /\ None # "success"
  BY <1>1, <1>2, WorkerAssumption DEF Vetting, Concluded, Conclusion
<1>7. Vetting(w, c)
  BY <1>1, <1>2, <1>5, <1>6 DEF Vetting, Concluded
<1>8. Descends(reviews, F)
  BY <1>3 DEF Descends, Became, Fingerprint, EffectiveIds
<1>9. Comparing(w)
  BY <1>5, <1>6, <1>8 DEF Comparing
<1>10. OnTrack(v, c) => OnTrack(w, c)
  BY <1>2, <1>3, <1>5 DEF OnTrack, Fresh, Concluded
<1>11. OnTrack(v, c) => OnTrack(w, c)'
  BY <1>2, <1>10, CallsLeave, SameEnvironment, OnTrackSteady
<1>12. Continue(c, w)
  BY <1>1, <1>3, <1>4 DEF Snapshot
<1>13. QED BY <1>1, <1>2, <1>7, <1>9, <1>11, <1>12, CallsLeave, ContinueKeeps

\* A conclusion: success only of what was found approved, and what is right if
\* nothing moves any more.
LEMMA ConcludeKeeps ==
  ASSUME IInv, NEW c \in Commit, NEW v \in Worker, running[c] = v, Vetting(v, c), Comparing(v),
         NEW x \in Conclusion, Conclude(c, x), UNCHANGED <<environment, check, events, discoveries>>,
         faults' \in 0 .. MaxFaults, lost' \in BOOLEAN, lost => lost', faults' = 0 => faults = 0,
         v.at \in {"snapshot", "inspect", "review", "qualify", "requalify", "conclude"},
         x = "success" =>
           v.at = "conclude" /\ (c \in Target /\ v.judged \in Governed => carries[c] = v.judged),
         ~ lost' /\ ~ drifted /\ c \in LiveCommits /\ OnTrack(v, c) =>
           Right(c, x)' /\ (x = "success" => v.judged = head)
  PROVE  IInv'
<1>1. PICK w \in Worker : w = [v EXCEPT !.at = "reread", !.conclusion = x,
                                        !.seen = None, !.chosen = None]
  BY DEF Worker, Point
<1>2. /\ w.at = "reread" /\ w.event = v.event /\ w.expected = v.expected
      /\ w.conclusion = x /\ w.fingerprint = v.fingerprint
      /\ w.judged = v.judged /\ w.opened = v.opened
  BY <1>1 DEF Worker
<1>3. Vetting(w, c)
  BY <1>2 DEF Vetting, Concluded
<1>4. Comparing(w)
  BY <1>2 DEF Comparing
<1>5. ASSUME ~ lost' /\ ~ drifted /\ c \in LiveCommits /\ OnTrack(v, c) PROVE OnTrack(w, c)'
  <2>1. /\ v.expected = head /\ v.event \in {PullEvent} \cup (Target \cap {c}) /\ v.opened = TRUE
        /\ v.fingerprint \in {None, Fingerprint(reviews, head)}
    BY <1>5 DEF OnTrack, Fresh
  <2>2. head' = head /\ reviews' = reviews
    BY SameEnvironment
  <2>3. QED BY <1>2, <1>5, <2>1, <2>2 DEF OnTrack, Fresh, Concluded
<1>6. Continue(c, w)
  BY <1>1 DEF Conclude
<1>7. QED BY <1>3, <1>4, <1>5, <1>6, ContinueKeeps

LEMMA InspectKeeps == ASSUME IInv, NEW c \in Commit, Inspect(c) PROVE IInv'
<1>1. PICK v \in Worker : running[c] = v /\ Vetting(v, c) /\ Comparing(v)
  BY TheWorker DEF Inspect, At
<1>2. Calls /\ v.at = "inspect" /\ TypeOK /\ head \in Revision
  BY <1>1 DEF Inspect, At, IInv, TypeOK
<1>3. ASSUME ~ live PROVE IInv'
  <2>1. Conclude(c, "failure") /\ "failure" \in Conclusion
    BY <1>3 DEF Inspect, Conclusion
  <2>2. c \notin LiveCommits
    BY <1>3 DEF LiveCommits
  <2>3. QED BY <1>1, <1>2, <2>1, <2>2, CallsLeave, ConcludeKeeps
<1>4. ASSUME live PROVE IInv'
  <2>1. PICK w \in Worker : w = [v EXCEPT !.judged = head,
                                   !.at = IF head \in Governed THEN "review" ELSE "conclude"]
    BY <1>2 DEF Worker, Point
  <2>2. /\ w.at = IF head \in Governed THEN "review" ELSE "conclude"
        /\ w.event = v.event /\ w.expected = v.expected
        /\ w.conclusion = v.conclusion /\ w.fingerprint = v.fingerprint
        /\ w.judged = head /\ w.opened = v.opened
    BY <2>1 DEF Worker
  <2>3. v.conclusion = None /\ None # "success"
    BY <1>1, <1>2, WorkerAssumption DEF Vetting, Concluded, Conclusion
  <2>4. Vetting(w, c)
    BY <1>1, <1>2, <2>2, <2>3 DEF Vetting, Concluded, Grantable
  <2>5. Comparing(w)
    BY <1>1, <2>2, <2>3 DEF Comparing
  <2>6. OnTrack(v, c) => OnTrack(w, c)
    BY <1>2, <2>2 DEF OnTrack, Fresh, Concluded
  <2>7. OnTrack(v, c) => OnTrack(w, c)'
    BY <1>2, <2>6, CallsLeave, SameEnvironment, OnTrackSteady
  <2>8. Continue(c, w)
    BY <1>1, <1>4, <2>1 DEF Inspect
  <2>9. QED BY <1>1, <1>2, <2>4, <2>5, <2>7, <2>8, CallsLeave, ContinueKeeps
<1>5. QED BY <1>3, <1>4

LEMMA ReadReviewsKeeps == ASSUME IInv, NEW c \in Commit, ReadReviews(c) PROVE IInv'
<1>1. PICK v \in Worker : running[c] = v /\ Vetting(v, c) /\ Comparing(v)
  BY TheWorker DEF ReadReviews, At
<1>2. Calls /\ v.at = "review" /\ TypeOK /\ MergeInv /\ reviews \in Seq(Review)
  BY <1>1 DEF ReadReviews, At, IInv, TypeOK
<1>3. PICK rs \in Seq(Review) : rs = reviews
  BY <1>2
<1>4. PICK w \in Worker : w = [v EXCEPT !.at = "qualify", !.seen = rs]
  BY DEF Worker, Point
<1>5. /\ w.at = "qualify" /\ w.event = v.event /\ w.expected = v.expected
      /\ w.conclusion = v.conclusion /\ w.fingerprint = v.fingerprint
      /\ w.judged = v.judged /\ w.opened = v.opened /\ w.seen = rs
  BY <1>4 DEF Worker
<1>6. v.conclusion = None /\ None # "success"
  BY <1>1, <1>2, WorkerAssumption DEF Vetting, Concluded, Conclusion
<1>7. \A h \in Revision : Noted(rs, h)
  BY <1>2, <1>3 DEF MergeInv
<1>8. Vetting(w, c)
  BY <1>1, <1>2, <1>5, <1>6, <1>7 DEF Vetting, Concluded
<1>9. Comparing(w)
  BY <1>1, <1>3, <1>5, <1>6 DEF Comparing
<1>10. OnTrack(v, c) => OnTrack(w, c)
  BY <1>2, <1>3, <1>5 DEF OnTrack, Fresh, Concluded
<1>11. OnTrack(v, c) => OnTrack(w, c)'
  BY <1>2, <1>10, CallsLeave, SameEnvironment, OnTrackSteady
<1>12. Continue(c, w)
  BY <1>1, <1>3, <1>4 DEF ReadReviews
<1>13. QED BY <1>1, <1>2, <1>8, <1>9, <1>11, <1>12, CallsLeave, ContinueKeeps

LEMMA QualifyKeeps == ASSUME IInv, NEW c \in Commit, Qualify(c) PROVE IInv'
<1>1. PICK v \in Worker : running[c] = v /\ Vetting(v, c) /\ Comparing(v)
  BY TheWorker DEF Qualify, At
<1>2. Calls /\ v.at = "qualify" /\ TypeOK /\ MergeInv /\ reviews \in Seq(Review)
  BY <1>1 DEF Qualify, At, IInv, TypeOK
<1>3. v.seen \in Seq(Review) /\ \A h \in Revision : Noted(v.seen, h)
  BY <1>1, <1>2 DEF Vetting
<1>4. ASSUME Approved(v.seen, eligible, v.judged) PROVE IInv'
  <2>1. Selected(v.seen, eligible, v.judged) \in eligible
    BY <1>3, <1>4, SelectedQualified
  <2>2. PICK u \in Reviewer : u = Selected(v.seen, eligible, v.judged) /\ u \in eligible
    BY <1>2, <2>1 DEF TypeOK
  <2>3. PICK w \in Worker : w = [v EXCEPT !.at = "requalify", !.seen = None, !.chosen = u]
    BY DEF Worker, Point
  <2>4. /\ w.at = "requalify" /\ w.event = v.event /\ w.expected = v.expected
        /\ w.conclusion = v.conclusion /\ w.fingerprint = v.fingerprint
        /\ w.judged = v.judged /\ w.opened = v.opened /\ w.chosen = u
    BY <2>3 DEF Worker
  <2>5. v.conclusion = None /\ None # "success"
    BY <1>1, <1>2, WorkerAssumption DEF Vetting, Concluded, Conclusion
  <2>6. Vetted(v.judged)
    <3>1. v.judged \in Revision
      BY DEF Worker
    <3>2. PICK i \in DOMAIN v.seen : /\ v.seen[i].commit = v.judged /\ v.seen[i].user \in eligible
                                     /\ v.seen[i].state \in {"APPROVED", "approve"}
      BY <1>3, <1>4, ApprovedBySomebody
    <3>3. v.seen[i].user \in endorsers[v.judged] /\ v.seen[i].user \in stoodOnce
      BY <1>2, <1>3, <3>1, <3>2 DEF Noted, MergeInv
    <3>4. ~ drifted => v.judged \in approvedOnce
      BY <1>3, <1>4, <3>1 DEF Noted
    <3>5. QED BY <3>3, <3>4 DEF Vetted
  <2>7. Vetting(w, c)
    BY <1>1, <1>2, <2>4, <2>5, <2>6 DEF Vetting, Concluded
  <2>8. Comparing(w)
    <3>1. Fingerprint(v.seen, v.expected) = Fingerprint(reviews, v.expected)
            /\ v.judged = v.expected => Approved(reviews, eligible, v.expected)
      BY <1>2, <1>3, <1>4, FingerprintDecides
    <3>2. QED BY <1>1, <1>2, <2>4, <2>5, <3>1 DEF Comparing
  <2>9. OnTrack(v, c) => OnTrack(w, c)
    BY <1>2, <1>4, <2>2, <2>4 DEF OnTrack, Fresh, Concluded
  <2>10. OnTrack(v, c) => OnTrack(w, c)'
    BY <1>2, <2>9, CallsLeave, SameEnvironment, OnTrackSteady
  <2>11. Continue(c, w)
    BY <1>1, <1>4, <2>2, <2>3 DEF Qualify
  <2>12. QED BY <1>1, <1>2, <2>7, <2>8, <2>10, <2>11, CallsLeave, ContinueKeeps
<1>5. ASSUME ~ Approved(v.seen, eligible, v.judged) PROVE IInv'
  <2>1. Conclude(c, "failure") /\ "failure" \in Conclusion
    BY <1>1, <1>5 DEF Qualify, Conclusion
  <2>2. OnTrack(v, c) => Right(c, "failure")
    BY <1>2, <1>5 DEF OnTrack, Right, Entitled, Conclusion
  <2>3. OnTrack(v, c) => Right(c, "failure")'
    BY <1>2, <2>2, CallsLeave, SameEnvironment, RightSteady
  <2>4. QED BY <1>1, <1>2, <2>1, <2>3, CallsLeave, ConcludeKeeps
<1>6. QED BY <1>4, <1>5

LEMMA RequalifyKeeps == ASSUME IInv, NEW c \in Commit, Requalify(c) PROVE IInv'
<1>1. PICK v \in Worker : running[c] = v /\ Vetting(v, c) /\ Comparing(v)
  BY TheWorker DEF Requalify, At
<1>2. Calls /\ v.at = "requalify"
  BY <1>1 DEF Requalify, At
<1>3. ASSUME v.chosen \in eligible, Sound(v.judged) PROVE IInv'
  <2>1. PICK w \in Worker : w = [v EXCEPT !.at = "conclude", !.chosen = None]
    BY DEF Worker, Point
  <2>2. /\ w.at = "conclude" /\ w.event = v.event /\ w.expected = v.expected
        /\ w.conclusion = v.conclusion /\ w.fingerprint = v.fingerprint
        /\ w.judged = v.judged /\ w.opened = v.opened
    BY <2>1 DEF Worker
  <2>3. v.conclusion = None /\ None # "success"
    BY <1>1, <1>2, WorkerAssumption DEF Vetting, Concluded, Conclusion
  <2>4. Vetting(w, c)
    BY <1>1, <1>2, <1>3, <2>2, <2>3 DEF Vetting, Concluded, Grantable
  <2>5. Comparing(w)
    BY <1>1, <1>2, <2>2, <2>3 DEF Comparing
  <2>6. OnTrack(v, c) => OnTrack(w, c)
    BY <1>2, <1>3, <2>2 DEF OnTrack, Fresh, Concluded
  <2>7. OnTrack(v, c) => OnTrack(w, c)'
    BY <1>2, <2>6, CallsLeave, SameEnvironment, OnTrackSteady
  <2>8. Continue(c, w)
    BY <1>1, <1>3, <2>1 DEF Requalify
  <2>9. QED BY <1>1, <1>2, <2>4, <2>5, <2>7, <2>8, CallsLeave, ContinueKeeps
<1>4. ASSUME ~ (v.chosen \in eligible /\ Sound(v.judged)) PROVE IInv'
  <2>1. Conclude(c, "failure") /\ "failure" \in Conclusion
    BY <1>1, <1>4 DEF Requalify, Conclusion
  <2>2. OnTrack(v, c) => Right(c, "failure")
    BY <1>2, <1>4 DEF OnTrack, Right, Entitled, Conclusion
  <2>3. OnTrack(v, c) => Right(c, "failure")'
    BY <1>2, <2>2, CallsLeave, SameEnvironment, RightSteady
  <2>4. QED BY <1>1, <1>2, <2>1, <2>3, CallsLeave, ConcludeKeeps
<1>5. QED BY <1>3, <1>4

LEMMA JudgeKeeps == ASSUME IInv, NEW c \in Commit, Judge(c) PROVE IInv'
<1>1. PICK v \in Worker : running[c] = v /\ Vetting(v, c) /\ Comparing(v)
  BY TheWorker DEF Judge, At
<1>2. Calls /\ v.at = "conclude" /\ TypeOK
  BY <1>1 DEF Judge, At, IInv
<1>3. PICK x \in Conclusion :
         /\ Conclude(c, x)
         /\ x = "success" <=> /\ c \in Target /\ v.judged \in Governed => carries[c] = v.judged
                              /\ live /\ head = v.judged
  BY <1>1 DEF Judge, Conclusion
<1>4. ASSUME c \in LiveCommits, OnTrack(v, c) PROVE Right(c, x)
  <2>1. live /\ v.judged = head
    BY <1>2, <1>4, LiveCommit DEF OnTrack
  <2>2. head \in Governed => Sound(head) /\ Approved(reviews, eligible, head)
    BY <1>2, <1>4 DEF OnTrack
  <2>3. QED BY <1>3, <2>1, <2>2 DEF Right, Entitled
<1>5. c \in LiveCommits /\ OnTrack(v, c) => Right(c, x)'
  BY <1>2, <1>4, CallsLeave, SameEnvironment, RightSteady
<1>6. QED BY <1>1, <1>2, <1>3, <1>5, CallsLeave, ConcludeKeeps

\* Going on with a conclusion after the second look at the pull request.
LEMMA GoesOn ==
  ASSUME IInv, NEW c \in Commit, NEW v \in Worker, running[c] = v, Vetting(v, c), Comparing(v),
         v.at = "reread", NEW x \in {None} \cup Conclusion,
         Continue(c, [AfterReread(v) EXCEPT !.conclusion = x]),
         UNCHANGED <<environment, check, events, discoveries>>,
         faults' \in 0 .. MaxFaults, lost' \in BOOLEAN, lost => lost', faults' = 0 => faults = 0,
         x = "success" => v.conclusion = "success" /\ v.judged = v.expected,
         ~ lost' /\ ~ drifted /\ c \in LiveCommits /\ OnTrack(v, c) => Right(c, x)'
  PROVE  IInv'
<1>1. PICK w \in Worker : w = [AfterReread(v) EXCEPT !.conclusion = x]
  BY DEF Worker, Point, AfterReread
<1>2. /\ w.at = (IF v.fingerprint # None THEN "resnapshot" ELSE "requeue")
      /\ w.event = v.event /\ w.expected = v.expected
      /\ w.conclusion = x /\ w.fingerprint = v.fingerprint
      /\ w.judged = v.judged
  BY <1>1 DEF Worker, AfterReread
<1>3. Vetting(w, c)
  BY <1>2 DEF Vetting, Concluded
<1>4. Comparing(w)
  BY <1>2 DEF Comparing
<1>5. ASSUME ~ lost' /\ ~ drifted /\ c \in LiveCommits /\ OnTrack(v, c) PROVE OnTrack(w, c)'
  <2>1. /\ v.expected = head /\ v.event \in {PullEvent} \cup (Target \cap {c})
        /\ v.fingerprint \in {None, Fingerprint(reviews, head)}
    BY <1>5 DEF OnTrack, Fresh
  <2>2. head' = head /\ reviews' = reviews
    BY SameEnvironment
  <2>3. QED BY <1>2, <1>5, <2>1, <2>2 DEF OnTrack, Fresh, Concluded
<1>6. Continue(c, w)
  BY <1>1
<1>7. QED BY <1>3, <1>4, <1>5, <1>6, ContinueKeeps

LEMMA RereadKeeps == ASSUME IInv, NEW c \in Commit, Reread(c) PROVE IInv'
<1>1. PICK v \in Worker : running[c] = v /\ Vetting(v, c) /\ Comparing(v)
  BY TheWorker DEF Reread, At
<1>2. Calls /\ v.at = "reread" /\ TypeOK
  BY <1>1 DEF Reread, At, IInv
<1>3. ASSUME live /\ head = v.expected /\ (v.conclusion = "success" => v.judged = v.expected)
      PROVE  IInv'
  <2>1. PICK x \in {None} \cup Conclusion : x = v.conclusion
    BY DEF Worker
  <2>2. [AfterReread(v) EXCEPT !.conclusion = x] = AfterReread(v)
    BY <2>1 DEF AfterReread, Worker
  <2>3. Continue(c, [AfterReread(v) EXCEPT !.conclusion = x])
    BY <1>1, <1>3, <2>2 DEF Reread
  <2>4. OnTrack(v, c) => Right(c, x)
    BY <1>2, <2>1 DEF OnTrack, Concluded
  <2>5. OnTrack(v, c) => Right(c, x)'
    BY <1>2, <2>4, CallsLeave, SameEnvironment, RightSteady
  <2>6. QED BY <1>1, <1>2, <1>3, <2>1, <2>3, <2>5, CallsLeave, GoesOn
<1>4. ASSUME ~ (live /\ head = v.expected /\ (v.conclusion = "success" => v.judged = v.expected))
      PROVE  IInv'
  <2>1. Release(c)
    BY <1>1, <1>4 DEF Reread, Obsolete
  <2>2. c \notin LiveCommits \/ ~ OnTrack(v, c)
    BY <1>2, <1>4, LiveCommit DEF OnTrack, Fresh, Concluded
  <2>3. QED BY <1>1, <1>2, <2>1, <2>2, CallsLeave, ReleaseUnposted
<1>5. QED BY <1>3, <1>4

\* Going on to the queue once the fingerprint has served.
LEMMA GoesToQueue ==
  ASSUME IInv, NEW c \in Commit, NEW v \in Worker, running[c] = v, Vetting(v, c), Comparing(v),
         v.at = "resnapshot", NEW x \in {None} \cup Conclusion,
         Continue(c, [v EXCEPT !.conclusion = x, !.at = "requeue", !.fingerprint = None]),
         UNCHANGED <<environment, check, events, discoveries>>,
         faults' \in 0 .. MaxFaults, lost' \in BOOLEAN, lost => lost', faults' = 0 => faults = 0,
         x = "success" => v.conclusion = "success",
         ~ lost' /\ ~ drifted /\ c \in LiveCommits /\ OnTrack(v, c) => Right(c, x)'
  PROVE  IInv'
<1>1. PICK w \in Worker : w = [v EXCEPT !.conclusion = x, !.at = "requeue", !.fingerprint = None]
  BY DEF Worker, Point
<1>2. /\ w.at = "requeue" /\ w.event = v.event /\ w.expected = v.expected
      /\ w.conclusion = x /\ w.fingerprint = None /\ w.judged = v.judged
  BY <1>1 DEF Worker
<1>3. Vetting(w, c)
  BY <1>2 DEF Vetting, Concluded
<1>4. Comparing(w)
  BY <1>2 DEF Comparing
<1>5. ASSUME ~ lost' /\ ~ drifted /\ c \in LiveCommits /\ OnTrack(v, c) PROVE OnTrack(w, c)'
  <2>1. /\ v.expected = head /\ v.event \in {PullEvent} \cup (Target \cap {c})
        /\ v.conclusion = "success" => v.judged = head
    BY <1>5 DEF OnTrack, Fresh, Concluded
  <2>2. head' = head /\ reviews' = reviews
    BY SameEnvironment
  <2>3. QED BY <1>2, <1>5, <2>1, <2>2 DEF OnTrack, Fresh, Concluded
<1>6. Continue(c, w)
  BY <1>1
<1>7. QED BY <1>3, <1>4, <1>5, <1>6, ContinueKeeps

LEMMA ResnapshotKeeps == ASSUME IInv, NEW c \in Commit, Resnapshot(c) PROVE IInv'
<1>1. PICK v \in Worker : running[c] = v /\ Vetting(v, c) /\ Comparing(v)
  BY TheWorker DEF Resnapshot, At
<1>2. Calls /\ v.at = "resnapshot"
  BY <1>1 DEF Resnapshot, At
<1>3. ASSUME Fingerprint(reviews, v.expected) = v.fingerprint PROVE IInv'
  <2>1. PICK x \in {None} \cup Conclusion : x = v.conclusion
    BY DEF Worker
  <2>2. [v EXCEPT !.conclusion = x, !.at = "requeue", !.fingerprint = None]
          = [v EXCEPT !.at = "requeue", !.fingerprint = None]
    BY <2>1 DEF Worker
  <2>3. Continue(c, [v EXCEPT !.conclusion = x, !.at = "requeue", !.fingerprint = None])
    BY <1>1, <1>3, <2>2 DEF Resnapshot
  <2>4. OnTrack(v, c) => Right(c, x)
    BY <1>2, <2>1 DEF OnTrack, Concluded
  <2>5. OnTrack(v, c) => Right(c, x)'
    BY <1>2, <2>4, CallsLeave, SameEnvironment, RightSteady
  <2>6. QED BY <1>1, <1>2, <2>1, <2>3, <2>5, CallsLeave, GoesToQueue
<1>4. ASSUME Fingerprint(reviews, v.expected) # v.fingerprint PROVE IInv'
  <2>1. Release(c)
    BY <1>1, <1>4 DEF Resnapshot, Obsolete
  <2>2. v.fingerprint # None
    BY <1>1, <1>2 DEF Comparing
  <2>3. ~ OnTrack(v, c)
    BY <1>4, <2>2 DEF OnTrack, Fresh
  <2>4. QED BY <1>1, <1>2, <2>1, <2>3, CallsLeave, ReleaseUnposted
<1>5. QED BY <1>3, <1>4

LEMMA RequeueKeeps == ASSUME IInv, NEW c \in Commit, Requeue(c) PROVE IInv'
<1>1. PICK v \in Worker : running[c] = v /\ Vetting(v, c) /\ Comparing(v)
  BY TheWorker DEF Requeue, At
<1>2. Calls /\ v.at = "requeue" /\ TypeOK
  BY <1>1 DEF Requeue, At, IInv
<1>3. ASSUME c \in Target => c \in CollectorTargets(v.event) PROVE IInv'
  <2>1. PICK w \in Worker : w = [v EXCEPT !.at = "post"]
    BY DEF Worker, Point
  <2>2. /\ w.at = "post" /\ w.event = v.event /\ w.expected = v.expected
        /\ w.conclusion = v.conclusion /\ w.fingerprint = v.fingerprint
        /\ w.judged = v.judged
    BY <2>1 DEF Worker
  <2>3. Vetting(w, c)
    BY <1>1, <1>2, <2>2 DEF Vetting, Concluded
  <2>4. Comparing(w)
    BY <1>1, <1>2, <2>2 DEF Comparing
  <2>5. OnTrack(v, c) => OnTrack(w, c)
    BY <1>2, <2>2 DEF OnTrack, Fresh, Concluded
  <2>6. OnTrack(v, c) => OnTrack(w, c)'
    BY <1>2, <2>5, CallsLeave, SameEnvironment, OnTrackSteady
  <2>7. Continue(c, w)
    BY <1>1, <1>3, <2>1 DEF Requeue, Goto
  <2>8. QED BY <1>1, <1>2, <2>3, <2>4, <2>6, <2>7, CallsLeave, ContinueKeeps
<1>4. ASSUME ~ (c \in Target => c \in CollectorTargets(v.event)) PROVE IInv'
  <2>1. Release(c)
    BY <1>1, <1>4 DEF Requeue
  <2>2. c \notin LiveCommits \/ ~ OnTrack(v, c)
    BY <1>2, <1>4, Found DEF OnTrack
  <2>3. QED BY <1>1, <1>2, <2>1, <2>2, CallsLeave, ReleaseUnposted
<1>5. QED BY <1>3, <1>4

LEMMA PostKeeps == ASSUME IInv, NEW c \in Commit, Post(c) PROVE IInv'
<1>1. PICK v \in Worker : running[c] = v /\ Vetting(v, c) /\ Comparing(v)
  BY TheWorker DEF Post, At
<1>2. /\ v.at = "post" /\ Release(c) /\ UNCHANGED <<environment, events, discoveries, faults, lost>>
      /\ check' = [check EXCEPT ![c] = v.conclusion]
  BY <1>1 DEF Post, At
<1>3. /\ TypeOK /\ faults' \in 0 .. MaxFaults /\ lost' \in BOOLEAN /\ (lost => lost')
      /\ faults' = 0 => faults = 0
  BY <1>2 DEF IInv, TypeOK
<1>4. PICK x \in Conclusion \cup {None} : x = v.conclusion
  BY DEF Worker
<1>5. c \in Target /\ x = "success" =>
        /\ carries[c] # None
        /\ queued = c /\ head \in Governed => carries[c] = head /\ Grantable(head)
  BY <1>1, <1>2, <1>4 DEF Vetting
<1>6. OnTrack(v, c) => Right(c, x)
  BY <1>2, <1>4 DEF OnTrack, Concluded
<1>7. OnTrack(v, c) => Right(c, x)'
  BY <1>2, <1>6, SameEnvironment, RightSteady
<1>8. QED BY <1>1, <1>2, <1>3, <1>4, <1>5, <1>7, ReleaseKeeps

LEMMA ReadFailsKeeps == ASSUME IInv, NEW c \in Commit, ReadFails(c) PROVE IInv'
<1>1. PICK v \in Worker : running[c] = v /\ Vetting(v, c) /\ Comparing(v)
  BY TheWorker DEF ReadFails
<1>2. UNCHANGED <<environment, check, events, discoveries>> /\ lost' = lost /\ Fault
  BY DEF ReadFails, Failing
<1>3. /\ TypeOK /\ faults' \in 0 .. MaxFaults /\ lost' \in BOOLEAN /\ (lost => lost') /\ faults' # 0
      /\ faults' = 0 => faults = 0
  BY <1>2, FailingLeaves DEF IInv, TypeOK
<1>4. "failure" \in Conclusion /\ Right(c, "failure")'
  BY <1>3 DEF Conclusion, Right
<1>5. CASE /\ v.at \in {"snapshot", "inspect", "review", "qualify", "requalify", "conclude"}
           /\ Conclude(c, "failure")
  BY <1>1, <1>2, <1>3, <1>4, <1>5, ConcludeKeeps
<1>6. CASE v.at = "reread" /\ v.opened
           /\ Continue(c, [AfterReread(v) EXCEPT !.conclusion = "failure"])
  BY <1>1, <1>2, <1>3, <1>4, <1>6, GoesOn
<1>7. CASE v.at = "reread" /\ ~ v.opened /\ Obsolete(c)
  <2>1. ~ OnTrack(v, c)
    BY <1>7 DEF OnTrack
  <2>2. QED BY <1>1, <1>2, <1>3, <1>7, <2>1, ReleaseUnposted DEF Obsolete
<1>8. CASE /\ v.at = "resnapshot"
           /\ Continue(c, [v EXCEPT !.conclusion = "failure", !.at = "requeue",
                                    !.fingerprint = None])
  BY <1>1, <1>2, <1>3, <1>4, <1>8, GoesToQueue
<1>9. QED BY <1>1, <1>5, <1>6, <1>7, <1>8 DEF ReadFails

LEMMA LoseWorkerKeeps == ASSUME IInv, NEW c \in Commit, LoseWorker(c) PROVE IInv'
<1>1. PICK v \in Worker : running[c] = v
  BY TheWorker DEF LoseWorker
<1>2. UNCHANGED <<environment, check, events, discoveries>> /\ lost' = TRUE /\ Fault /\ Release(c)
  BY DEF LoseWorker, Failing
<1>3. faults' \in 0 .. MaxFaults /\ (faults' = 0 => faults = 0)
  BY <1>2, FailingLeaves
<1>4. QED BY <1>1, <1>2, <1>3, ReleaseUnposted

------------------------------------------------------------------------------
(* Discovery.                                                              *)

\* Everything but the jobs stays as it was, and a worker is an old one or one
\* that has just begun.
LEMMA JobsMerge ==
  ASSUME TypeOK, MergeInv, OvertakenInv, UNCHANGED <<environment, check>>,
         \A c \in Commit : running'[c] = running[c] \/ \E job \in Job : running'[c] = Start(job)
  PROVE  MergeInv' /\ OvertakenInv'
<1>1. /\ UNCHANGED <<live, head, queued, carries, reviews, eligible, merged, changes,
                     drifted, edited, approvedOnce, endorsers, stoodOnce, history>>
      /\ Onwards
  BY SameEnvironment
<1>2. \A d \in Commit, w \in Worker : running'[d] = w => Vetting(w, d) /\ Comparing(w)
  BY StartVets DEF MergeInv, OvertakenInv
<1>3. \A d \in Commit, w \in Worker : running'[d] = w => Vetting(w, d)'
  BY <1>1, <1>2, VettingOnwards
<1>4. MergeInv'
  BY <1>1, <1>3 DEF MergeInv, Noted, Grantable, Vetted
<1>5. OvertakenInv'
  BY <1>1, <1>2, ComparingSteady DEF OvertakenInv
<1>6. QED BY <1>4, <1>5

LEMMA DiscoverKeeps ==
  ASSUME IInv, NEW e \in BagToSet(events), Discover(e) PROVE IInv'
<1>1. TypeOK /\ MergeInv /\ OvertakenInv /\ SettlingInv
  BY DEF IInv
<1>2. TypeOK'
  BY <1>1, DiscoverType
<1>3. UNCHANGED <<environment, check, running, waiting, faults, lost>>
  BY DEF Discover
<1>4. MergeInv' /\ OvertakenInv'
  BY <1>1, <1>3, JobsMerge
<1>5. /\ UNCHANGED <<live, head, queued, carries, reviews, eligible, drifted>>
  BY <1>3, SameEnvironment
<1>6. PICK d : d = [event |-> e, targets |-> CollectorTargets(e)]
  OBVIOUS
<1>7. /\ BagToSet(events) \subseteq BagToSet(events') \cup {e}
      /\ BagToSet(discoveries') = BagToSet(discoveries) \cup {d}
  BY <1>6, RemovedFromBag, AddedToBag DEF Discover
<1>8. e \in {PullEvent} \cup Target
  BY <1>1 DEF TypeOK, Event
<1>9. \A t \in d.targets : d.event \in {PullEvent} \cup (Target \cap {t})
  BY <1>6, <1>8 DEF CollectorTargets
<1>10. ASSUME NEW c \in LiveCommits, Pending(c) PROVE Pending(c)'
  <2>1. CASE e \in {PullEvent, c}
    <3>1. PICK job : job = [event |-> e, expected |-> head]
      OBVIOUS
    <3>2. Fresh(job, c)
      BY <1>8, <2>1, <3>1 DEF Fresh
    <3>3. Ask(c) \in d.targets
      BY <1>1, <1>6, <3>1, <3>2, Found
    <3>4. QED BY <1>7, <3>3 DEF Pending
  <2>2. CASE e \notin {PullEvent, c}
    BY <1>7, <1>10, <2>2 DEF Pending
  <2>3. QED BY <2>1, <2>2
<1>11. ASSUME ~ lost', ~ drifted', NEW c \in LiveCommits PROVE LastRight(c)'
  <2>1. LastRight(c) /\ c \in Commit
    BY <1>1, <1>3, <1>5, <1>11, LiveCommit DEF SettlingInv
  <2>2. QED BY <1>3, <1>5, <1>10, <2>1, LastRightSteady
<1>12. LiveCommits' = LiveCommits
  BY <1>5 DEF LiveCommits, QueueTargets
<1>13. SettlingInv'
  BY <1>1, <1>7, <1>9, <1>11, <1>12 DEF SettlingInv
<1>14. QED BY <1>2, <1>4, <1>13 DEF IInv

LEMMA ScheduleKeeps ==
  ASSUME IInv, NEW d \in BagToSet(discoveries), Schedule(d) PROVE IInv'
<1>1. TypeOK /\ MergeInv /\ OvertakenInv /\ SettlingInv
  BY DEF IInv
<1>2. PICK job : job = [event |-> d.event, expected |-> head]
  OBVIOUS
<1>3. /\ TypeOK' /\ job \in Job
      /\ \A c \in Commit :
           /\ running'[c] = (IF c \in Scheduled(d) /\ ~ Busy(c) THEN Start(job) ELSE running[c])
           /\ waiting'[c] = (IF c \in Scheduled(d) /\ Busy(c) THEN job ELSE waiting[c])
  BY <1>1, <1>2, ScheduleType
<1>4. /\ UNCHANGED <<environment, check, events, faults, lost>>
      /\ discoveries' = BagRemove(discoveries, d)
  BY DEF Schedule
<1>5. MergeInv' /\ OvertakenInv'
  BY <1>1, <1>3, <1>4, JobsMerge
<1>6. UNCHANGED <<live, head, queued, carries, reviews, eligible, drifted>>
  BY <1>4, SameEnvironment
<1>7. /\ BagToSet(discoveries) \subseteq BagToSet(discoveries') \cup {d}
      /\ BagToSet(discoveries') \subseteq BagToSet(discoveries)
  BY <1>4, RemovedFromBag
<1>8. head \notin Target /\ NoTarget \notin Target /\ d.targets \subseteq Target \cup {NoTarget}
  BY <1>1, AuthorityAssumption DEF TypeOK, Discovery
<1>9. ASSUME ~ lost', ~ drifted', NEW c \in LiveCommits PROVE LastRight(c)'
  <2>1. LastRight(c) /\ c \in Commit /\ live
    BY <1>1, <1>4, <1>6, <1>9, LiveCommit DEF SettlingInv
  <2>2. c = head \/ c \in Target
    BY <1>1 DEF TypeOK, LiveCommits, QueueTargets
  <2>3. c \in Scheduled(d) <=> Ask(c) \in d.targets
    BY <1>8, <2>1, <2>2 DEF Scheduled, Ask
  <2>4. CASE c \in Scheduled(d)
    <3>1. d.event \in {PullEvent} \cup (Target \cap {Ask(c)})
      BY <1>1, <2>3, <2>4 DEF SettlingInv
    <3>2. d.event \in {PullEvent} \cup (Target \cap {c})
      BY <1>8, <3>1 DEF Ask
    <3>3. Fresh(job, c)
      BY <1>2, <3>2 DEF Fresh
    <3>4. CASE Busy(c)
      <4>1. waiting'[c] = job
        BY <1>3, <2>1, <2>4, <3>4
      <4>2. Fresh(job, c)'
        BY <1>6, <3>3 DEF Fresh
      <4>3. QED BY <1>3, <4>1, <4>2 DEF LastRight
    <3>5. CASE ~ Busy(c)
      <4>1. PICK w : w = Start(job)
        OBVIOUS
      <4>2. w \in Worker /\ running'[c] = w
        BY <1>3, <2>1, <2>4, <3>5, <4>1, StartType
      <4>3. waiting'[c] = NoJob
        BY <1>1, <1>3, <2>1, <3>5 DEF TypeOK
      <4>4. OnTrack(w, c)
        BY <1>3, <3>3, <4>1, StartOnTrack
      <4>5. OnTrack(w, c)'
        BY <1>4, <1>6, <4>4, OnTrackSteady
      <4>6. QED BY <4>2, <4>3, <4>5 DEF LastRight
    <3>6. QED BY <3>4, <3>5
  <2>5. CASE c \notin Scheduled(d)
    <3>1. running'[c] = running[c] /\ waiting'[c] = waiting[c] /\ check'[c] = check[c]
      BY <1>3, <1>4, <2>1, <2>5
    <3>2. Pending(c) => Pending(c)'
      BY <1>4, <1>7, <2>3, <2>5 DEF Pending
    <3>3. QED BY <1>4, <1>6, <2>1, <3>1, <3>2, LastRightSteady
  <2>6. QED BY <2>4, <2>5
<1>10. LiveCommits' = LiveCommits
  BY <1>6 DEF LiveCommits, QueueTargets
<1>11. SettlingInv'
  BY <1>1, <1>7, <1>9, <1>10 DEF SettlingInv
<1>12. QED BY <1>3, <1>5, <1>11 DEF IInv

LEMMA LoseDiscoveryKeeps == ASSUME IInv, LoseDiscovery PROVE IInv'
<1>1. TypeOK /\ MergeInv /\ OvertakenInv /\ SettlingInv
  BY DEF IInv
<1>2. UNCHANGED <<environment, check, running, waiting>> /\ lost' = TRUE
  BY DEF LoseDiscovery
<1>3. MergeInv' /\ OvertakenInv'
  BY <1>1, <1>2, JobsMerge
<1>4. BagToSet(discoveries') \subseteq BagToSet(discoveries)
  BY RemovedFromBag DEF LoseDiscovery
<1>5. SettlingInv'
  BY <1>1, <1>2, <1>4 DEF SettlingInv
<1>6. QED BY <1>1, <1>3, <1>5, LoseDiscoveryType DEF IInv

------------------------------------------------------------------------------
(* People and what was compared.                                           *)

\* What people do keeps a worker's comparison if, while the fingerprint is the
\* same, so are the reviews that decide.
LEMMA ComparingKept ==
  ASSUME TypeOK, reviews' \in Seq(Review), ~ drifted' => ~ drifted /\ eligible' = eligible,
         edited => edited', NEW w \in Worker, Comparing(w),
         w.fingerprint # None /\ ~ edited' => Descends(reviews, w.fingerprint)' ,
         ~ edited' /\ Descends(reviews, w.fingerprint)
           /\ Fingerprint(reviews', w.expected) = w.fingerprint
           => Fingerprint(reviews, w.expected) = w.fingerprint
  PROVE  Comparing(w)'
<1>1. ASSUME w.fingerprint # None, ~ edited', Fingerprint(reviews', w.expected) = w.fingerprint
      PROVE  /\ w.at = "qualify" => Fingerprint(w.seen, w.expected) = w.fingerprint
             /\ /\ ~ drifted' /\ w.judged = w.expected /\ w.judged \in Governed
                /\ (w.at \in {"requalify", "conclude"} \/ w.conclusion = "success")
                => Approved(reviews', eligible', w.expected)
  <2>1. Fingerprint(reviews, w.expected) = w.fingerprint
    BY <1>1 DEF Comparing
  <2>2. w.at = "qualify" => Fingerprint(w.seen, w.expected) = w.fingerprint
    BY <1>1, <2>1 DEF Comparing
  <2>3. ASSUME ~ drifted', w.judged = w.expected, w.judged \in Governed,
               w.at \in {"requalify", "conclude"} \/ w.conclusion = "success"
        PROVE  Approved(reviews', eligible', w.expected)
    <3>1. Approved(reviews, eligible, w.expected) /\ eligible' = eligible
      BY <1>1, <2>1, <2>3 DEF Comparing
    <3>2. reviews \in Seq(Review)
      BY DEF TypeOK
    <3>3. QED BY <1>1, <2>1, <3>1, <3>2, FingerprintDecides
  <2>4. QED BY <2>2, <2>3
<1>2. w.at = "resnapshot" => w.fingerprint # None
  BY DEF Comparing
<1>3. QED BY <1>1, <1>2 DEF Comparing

\* A new review that counts cannot already be in a fingerprint.
LEMMA AppendedCompares ==
  ASSUME NEW rs \in Seq(Review), NEW r \in Review, NEW F, NEW h, Descends(rs, F)
  PROVE  /\ Descends(Append(rs, r), F)
         /\ Fingerprint(Append(rs, r), h) = F => Fingerprint(rs, h) = F
<1> DEFINE ss == Append(rs, r)
<1>1. /\ DOMAIN rs = 1 .. Len(rs) /\ DOMAIN ss = 1 .. Len(rs) + 1 /\ Len(rs) \in Nat
      /\ \A i \in DOMAIN rs : i \in DOMAIN ss /\ ss[i] = rs[i]
  OBVIOUS
<1> HIDE DEF ss
<1>2. Descends(ss, F)
  BY <1>1 DEF Descends
<1>3. ASSUME Fingerprint(ss, h) = F PROVE Fingerprint(rs, h) = F
  <2>1. \A i \in EffectiveIds(ss, h) : i \in DOMAIN rs
    <3>1. \A i \in EffectiveIds(ss, h) : <<i, ss[i]>> \in F
      BY <1>3 DEF Fingerprint
    <3>2. QED BY <3>1 DEF Descends
  <2>2. EffectiveIds(ss, h) = EffectiveIds(rs, h)
    BY <1>1, <2>1 DEF EffectiveIds
  <2>3. \A i \in EffectiveIds(rs, h) : ss[i] = rs[i]
    BY <1>1 DEF EffectiveIds
  <2>4. QED BY <1>3, <2>2, <2>3 DEF Fingerprint
<1>4. QED BY <1>2, <1>3 DEF ss

\* Nor can a fingerprint hold a dismissal that was not there when it was taken.
LEMMA DismissedCompares ==
  ASSUME NEW rs \in Seq(Review), NEW i \in DOMAIN rs,
         rs[i].state \in {"APPROVED", "CHANGES_REQUESTED"}, NEW F, NEW h, Descends(rs, F)
  PROVE  /\ Descends([rs EXCEPT ![i].state = "DISMISSED"], F)
         /\ Fingerprint([rs EXCEPT ![i].state = "DISMISSED"], h) # F
<1>1. PICK r : r = [rs[i] EXCEPT !.state = "DISMISSED"]
  OBVIOUS
<1>2. r.state = "DISMISSED"
  <2>1. rs[i] \in Review
    OBVIOUS
  <2>2. QED BY <1>1, <2>1 DEF Review
<1>3. PICK ss : ss = [rs EXCEPT ![i].state = "DISMISSED"]
  OBVIOUS
<1>4. DOMAIN ss = DOMAIN rs /\ ss[i] = r /\ \A j \in DOMAIN rs : j # i => ss[j] = rs[j]
  BY <1>1, <1>3
<1>5. Descends(ss, F)
  BY <1>2, <1>4 DEF Descends, Became
<1>6. Fingerprint(ss, h) # F
  <2>1. i \in EffectiveIds(ss, h)
    BY <1>2, <1>4 DEF EffectiveIds, EffectiveState, Native, Ineffective
  <2>2. <<i, r>> \in Fingerprint(ss, h)
    BY <1>4, <2>1 DEF Fingerprint
  <2>3. ~ Became(r, rs[i])
    BY <1>2 DEF Became
  <2>4. <<i, r>> \notin F
    BY <2>3 DEF Descends
  <2>5. QED BY <2>2, <2>4
<1>7. QED BY <1>3, <1>5, <1>6

LEMMA PeopleOvertaken ==
  ASSUME TypeOK, OvertakenInv, People PROVE OvertakenInv'
<1>0. reviews \in Seq(Review) /\ reviews' \in Seq(Review)
  BY PeopleKeepType DEF TypeOK
<1>1. ASSUME NEW u \in Reviewer, NEW s \in Verb, Submit(u, s) PROVE OvertakenInv'
  <2>1. PICK r \in Review : reviews' = Append(reviews, r)
    BY <1>1, AuthorityAssumption DEF Submit, Decide, Review, TypeOK
  <2>2. eligible' = eligible /\ drifted' = drifted /\ edited' = edited /\ running' = running
    BY <1>1 DEF Submit, Decide, Change
  <2>3. ASSUME NEW w \in Worker, Comparing(w) PROVE Comparing(w)'
    <3>1. ASSUME Descends(reviews, w.fingerprint)
          PROVE  /\ Descends(reviews, w.fingerprint)'
                 /\ Fingerprint(reviews', w.expected) = w.fingerprint
                      => Fingerprint(reviews, w.expected) = w.fingerprint
      BY <1>0, <2>1, <3>1, AppendedCompares DEF Descends
    <3>2. w.fingerprint # None /\ ~ edited' => Descends(reviews, w.fingerprint)
      BY <2>2, <2>3 DEF Comparing
    <3>3. QED BY <1>0, <2>2, <2>3, <3>1, <3>2, ComparingKept
  <2>4. QED BY <2>2, <2>3 DEF OvertakenInv
<1>2. ASSUME NEW i \in DOMAIN reviews, Dismiss(i) PROVE OvertakenInv'
  <2>1. /\ reviews' = [reviews EXCEPT ![i].state = "DISMISSED"]
        /\ reviews[i].state \in {"APPROVED", "CHANGES_REQUESTED"}
    BY <1>2 DEF Dismiss, Restate, Decide
  <2>2. eligible' = eligible /\ drifted' = drifted /\ edited' = edited /\ running' = running
    BY <1>2 DEF Dismiss, Restate, Decide, Change
  <2>3. ASSUME NEW w \in Worker, Comparing(w) PROVE Comparing(w)'
    <3>1. ASSUME Descends(reviews, w.fingerprint)
          PROVE  /\ Descends(reviews, w.fingerprint)'
                 /\ Fingerprint(reviews', w.expected) # w.fingerprint
      <4>1. PICK ss : ss = [reviews EXCEPT ![i].state = "DISMISSED"]
        OBVIOUS
      <4>2. Descends(ss, w.fingerprint) /\ Fingerprint(ss, w.expected) # w.fingerprint
        BY <1>0, <2>1, <3>1, <4>1, DismissedCompares
      <4>3. QED BY <2>1, <4>1, <4>2 DEF Descends
    <3>2. w.fingerprint # None /\ ~ edited' => Descends(reviews, w.fingerprint)
      BY <2>2, <2>3 DEF Comparing
    <3>3. QED BY <1>0, <2>2, <2>3, <3>1, <3>2, ComparingKept
  <2>4. QED BY <2>2, <2>3 DEF OvertakenInv
<1>3. ASSUME NEW i \in DOMAIN reviews, NEW s \in Verb \ Native, Edit(i, s) PROVE OvertakenInv'
  <2>1. edited' /\ running' = running
    BY <1>3 DEF Edit, Restate, Change
  <2>2. QED BY <2>1 DEF OvertakenInv, Comparing
<1>4. ASSUME reviews' = reviews, running' = running, edited' = edited,
             ~ drifted' => ~ drifted /\ eligible' = eligible
      PROVE  OvertakenInv'
  BY <1>4 DEF OvertakenInv, Comparing, Descends
<1>5. ASSUME NEW u \in Reviewer, ChangeStanding(u) PROVE OvertakenInv'
  BY <1>4, <1>5 DEF ChangeStanding, Decide, Change
<1>6. ASSUME NEW h \in Revision, Push(h) PROVE OvertakenInv'
  BY <1>4, <1>6 DEF Push, Change, history
<1>7. ASSUME NEW h \in Revision, NEW t \in Target, Enqueue(t, h) PROVE OvertakenInv'
  BY <1>4, <1>7 DEF Enqueue, Change, history
<1>8. CASE Close
  BY <1>4, <1>8 DEF Close, Change, history
<1>9. CASE Reopen
  BY <1>4, <1>9 DEF Reopen, Change, history
<1>10. CASE Dequeue
  BY <1>4, <1>10 DEF Dequeue, Change, history
<1>11. CASE Merge
  BY <1>4, <1>11 DEF Merge, jobVars, history
<1>12. QED
  BY <1>1, <1>2, <1>3, <1>5, <1>6, <1>7, <1>8, <1>9, <1>10, <1>11 DEF People

------------------------------------------------------------------------------
(* People and the last word.                                               *)

\* A change that GitHub sends a pull request event about puts every commit
\* back in line.
LEMMA NotifiedIsPending ==
  ASSUME NEW n \in Event, Change(n)
  PROVE  /\ UNCHANGED <<discoveries, running, waiting, check, faults, lost>>
         /\ BagToSet(events') = BagToSet(events) \cup {n}
         /\ \A c : n \in {PullEvent, c} => Pending(c)'
<1>1. events' = BagAdd(events, n)
  BY WorkerAssumption DEF Change
<1>2. BagToSet(events') = BagToSet(events) \cup {n}
  BY <1>1, AddedToBag
<1>3. QED BY <1>2 DEF Change, Pending

LEMMA NotifiedSettles ==
  ASSUME SettlingInv, Change(PullEvent) PROVE SettlingInv'
<1>1. /\ UNCHANGED <<discoveries, running, waiting, check, faults, lost>>
      /\ \A c : Pending(c)'
  BY NotifiedIsPending DEF Event
<1>2. QED BY <1>1 DEF SettlingInv, LastRight

LEMMA PeopleSettle ==
  ASSUME TypeOK, SettlingInv, People PROVE SettlingInv'
<1>1. ASSUME NEW u \in Reviewer, NEW s \in Verb, Submit(u, s) PROVE SettlingInv'
  BY <1>1, NotifiedSettles DEF Submit
<1>2. ASSUME NEW i \in DOMAIN reviews, Dismiss(i) PROVE SettlingInv'
  BY <1>2, NotifiedSettles DEF Dismiss, Restate
<1>3. ASSUME NEW i \in DOMAIN reviews, NEW s \in Verb \ Native, Edit(i, s) PROVE SettlingInv'
  BY <1>3, NotifiedSettles DEF Edit, Restate
<1>4. ASSUME NEW u \in Reviewer, ChangeStanding(u) PROVE SettlingInv'
  BY <1>4 DEF ChangeStanding, Change, SettlingInv
<1>5. ASSUME NEW h \in Revision, Push(h) PROVE SettlingInv'
  BY <1>5, NotifiedSettles DEF Push
<1>6. ASSUME NEW h \in Revision, NEW t \in Target, Enqueue(t, h) PROVE SettlingInv'
  <2>1. /\ Change(t) /\ queued = NoTarget /\ queued' = t /\ live
        /\ carries' = [carries EXCEPT ![t] = h]
        /\ UNCHANGED <<live, head, reviews, eligible, drifted>>
    BY <1>6 DEF Enqueue, history
  <2>2. /\ UNCHANGED <<discoveries, running, waiting, check, faults, lost>>
        /\ BagToSet(events) \subseteq BagToSet(events') /\ Pending(t)'
    BY <2>1, NotifiedIsPending DEF Event
  <2>3. head \notin Target /\ t # NoTarget
    BY AuthorityAssumption DEF TypeOK
  <2>4. LiveCommits' = {head, t} /\ LiveCommits = {head}
    BY <2>1, <2>3 DEF LiveCommits, QueueTargets
  <2>5. ASSUME ~ lost', ~ drifted', NEW c \in LiveCommits' PROVE LastRight(c)'
    <3>1. CASE c = t
      BY <2>2, <3>1 DEF LastRight
    <3>2. CASE c = head
      <4>1. LastRight(c)
        BY <2>1, <2>2, <2>4, <2>5, <3>2 DEF SettlingInv
      <4>2. Pending(c) => Pending(c)'
        BY <2>2 DEF Pending
      <4>3. c \notin Target
        BY <2>3, <3>2
      <4>4. QED BY <2>1, <2>2, <4>1, <4>2, <4>3, LastRightSteady
    <3>3. QED BY <2>4, <3>1, <3>2
  <2>6. QED BY <2>2, <2>5 DEF SettlingInv
<1>7. CASE Close
  BY <1>7 DEF Close, Change, SettlingInv, LiveCommits
<1>8. CASE Reopen
  BY <1>8, NotifiedSettles DEF Reopen
<1>9. CASE Dequeue
  <2>1. /\ UNCHANGED <<live, head, carries, reviews, eligible, drifted, events, discoveries,
                       running, waiting, check, faults, lost>>
        /\ queued' = NoTarget
    BY <1>9 DEF Dequeue, Change, history
  <2>2. LiveCommits' \subseteq LiveCommits
    BY <2>1 DEF LiveCommits, QueueTargets
  <2>3. ASSUME ~ lost', ~ drifted', NEW c \in LiveCommits' PROVE LastRight(c)'
    <3>1. LastRight(c)
      BY <2>1, <2>2, <2>3 DEF SettlingInv
    <3>2. Pending(c) => Pending(c)'
      BY <2>1 DEF Pending
    <3>3. QED BY <2>1, <3>1, <3>2, LastRightSteady
  <2>4. QED BY <2>1, <2>3 DEF SettlingInv
<1>10. CASE Merge
  BY <1>10 DEF Merge, jobVars, SettlingInv, LiveCommits
<1>11. QED
  BY <1>1, <1>2, <1>3, <1>4, <1>5, <1>6, <1>7, <1>8, <1>9, <1>10 DEF People

LEMMA PeopleKeep == ASSUME IInv, People PROVE IInv'
BY PeopleKeepType, PeopleMerge, PeopleOvertaken, PeopleSettle DEF IInv

------------------------------------------------------------------------------
(* The theorems.                                                           *)

LEMMA InitKeeps == ASSUME Init PROVE IInv
<1>1. TypeOK
  <2>1. BagToSet(events) = {PullEvent} /\ BagToSet(discoveries) = {}
    BY Bags DEF Init
  <2>2. BagToSet(events) \subseteq Event /\ BagToSet(discoveries) \subseteq Discovery
    BY <2>1 DEF Event
  <2>3. check \in [Commit -> Conclusion \cup {None}]
    BY DEF Init
  <2>4. /\ running \in [Commit -> Worker \cup {NoJob}]
        /\ waiting \in [Commit -> Job \cup {NoJob}]
        /\ \A c \in Commit : waiting[c] # NoJob => Busy(c)
    BY DEF Init
  <2>5. reviews \in Seq(Review) /\ Len(reviews) <= MaxReviews
    BY AuthorityAssumption DEF Init
  <2>6. changes \in 0 .. MaxChanges /\ faults \in 0 .. MaxFaults
    BY AuthorityAssumption DEF Init
  <2>7. QED BY <2>2, <2>3, <2>4, <2>5, <2>6 DEF Init, TypeOK
<1>2. \A c \in Commit, w \in Worker : running[c] # w
  BY WorkerAssumption DEF Init
<1>3. MergeInv
  <2>1. \A h \in Revision : Noted(reviews, h)
    BY DEF Init, Noted, Approved, Accepted, Latest, EffectiveIds
  <2>2. \A t \in Target : check[t] # "success"
    BY WorkerAssumption DEF Init, Commit, Conclusion
  <2>3. merged = NoTarget /\ queued = NoTarget
    BY <1>2 DEF Init
  <2>4. QED BY <1>2, <2>1, <2>2, <2>3 DEF Init, MergeInv
<1>4. OvertakenInv
  BY <1>2 DEF OvertakenInv
<1>5. SettlingInv
  BY Bags DEF Init, SettlingInv, LastRight, Pending
<1>6. QED BY <1>1, <1>3, <1>4, <1>5 DEF IInv

LEMMA NextKeeps == ASSUME IInv, [Next]_vars PROVE IInv'
<1>1. CASE People
  BY <1>1, PeopleKeep
<1>2. CASE Controller
  <2>1. ASSUME NEW c \in Commit, Work(c) PROVE IInv'
    BY <2>1, CollectKeeps, PinKeeps, SnapshotKeeps, InspectKeeps, ReadReviewsKeeps,
       QualifyKeeps, RequalifyKeeps, JudgeKeeps, RereadKeeps, ResnapshotKeeps,
       RequeueKeeps, PostKeeps DEF Work
  <2>2. QED BY <1>2, <2>1, DiscoverKeeps, ScheduleKeeps DEF Controller
<1>3. CASE Failures
  BY <1>3, LoseDiscoveryKeeps, ReadFailsKeeps, LoseWorkerKeeps DEF Failures
<1>4. CASE UNCHANGED vars
  <2>1. UNCHANGED <<environment, check, events, discoveries, running, waiting, faults, lost>>
    BY <1>4 DEF vars, pullVars, jobVars, history, environment
  <2>2. UNCHANGED <<live, head, queued, carries, reviews, eligible, merged, changes, drifted,
                    edited, approvedOnce, endorsers, stoodOnce>>
    BY <2>1, SameEnvironment
  <2>3. TypeOK'
    BY <2>1, <2>2 DEF IInv, TypeOK, Busy
  <2>4. MergeInv' /\ OvertakenInv'
    BY <2>1, JobsMerge DEF IInv
  <2>5. \A c \in LiveCommits : LastRight(c) => LastRight(c)'
    BY <2>1, <2>2, LastRightSteady, LiveCommit DEF IInv, Pending
  <2>6. LiveCommits' = LiveCommits
    BY <2>2 DEF LiveCommits, QueueTargets
  <2>7. SettlingInv'
    BY <2>1, <2>2, <2>5, <2>6 DEF IInv, SettlingInv
  <2>8. QED BY <2>3, <2>4, <2>7 DEF IInv
<1>5. QED BY <1>1, <1>2, <1>3, <1>4 DEF Next, Stop

\* What a worker goes on with was vetted, what it compared was approved, and
\* the last in line for a live commit is right: together with the types, this
\* is inductive.
THEOREM Invariance == Spec => []IInv
<1>1. Init => IInv
  BY InitKeeps
<1>2. IInv /\ [Next]_vars => IInv'
  BY NextKeeps
<1>3. QED BY <1>1, <1>2, PTL DEF Spec

\* Every variable has its type, and a job waits only behind a running worker
\* of its concurrency group.
THEOREM TypeCorrect == Spec => []TypeOK
<1>1. IInv => TypeOK
  BY DEF IInv
<1>2. QED BY <1>1, Invariance, PTL

\* Whatever is lost, fails or races, main receives governed content only of a
\* well-formed head that somebody with standing approved (check_pr and
\* approval, and the ruleset that merges on the check).
THEOREM MergedWasApproved == Spec => []MergedApproved
<1>1. IInv => MergedApproved
  BY DEF IInv, MergeInv, Grantable, Vetted, MergedApproved
<1>2. QED BY <1>1, Invariance, PTL

\* Without lost jobs, a live commit nothing will visit again has the check its
\* reviews and content entitle it to.
THEOREM LastWordRight == Spec => []SettledCorrect
<1>1. IInv => SettledCorrect
  <2>1. SUFFICES ASSUME IInv, ~ lost, ~ drifted, NEW c \in LiveCommits, ~ Revisited(c)
        PROVE  Right(c, check[c]) /\ None \notin Conclusion
    BY DEF IInv, SettledCorrect, Right
  <2>2. TypeOK /\ LastRight(c)
    BY <2>1 DEF IInv, SettlingInv
  <2>3. c \in Commit /\ ~ Busy(c) /\ ~ Pending(c)
    BY <2>1, <2>2, LiveCommit DEF Revisited, Pending
  <2>4. waiting[c] = NoJob
    BY <2>2, <2>3 DEF TypeOK
  <2>5. NoJob \notin Worker \cup Job /\ None \notin Conclusion
    BY WorkerAssumption
  <2>6. QED BY <2>2, <2>3, <2>4, <2>5 DEF LastRight, Busy
<1>2. QED BY <1>1, Invariance, PTL

\* A success passes the second snapshot only if the head is approved at that
\* moment (run_checks compares review_fingerprint before it posts).
THEOREM OvertakenResults == Spec => OvertakenDiscarded
<1>1. ASSUME IInv, [Next]_vars, NEW c \in Commit,
             At(c, "resnapshot") /\ At(c, "requeue")', running'[c].conclusion = "success"
      PROVE  \/ drifted \/ edited
             \/ running[c].expected \notin Governed
             \/ Approved(reviews, eligible, running[c].expected)
  <2>1. SUFFICES ASSUME At(c, "resnapshot"), Busy(c)', running'[c].at = "requeue",
                        running'[c].conclusion = "success", ~ drifted, ~ edited,
                        running[c].expected \in Governed
                 PROVE  Approved(reviews, eligible, running[c].expected)
    BY <1>1 DEF At
  <2>2. PICK v \in Worker : running[c] = v /\ Vetting(v, c) /\ Comparing(v)
    BY <1>1, <2>1, TheWorker DEF At
  <2>3. v.at = "resnapshot" /\ Busy(c) /\ TypeOK
    BY <1>1, <2>1, <2>2 DEF At, IInv
  <2>4. running'[c] # running[c]
    BY <2>1, <2>2, <2>3
  <2>5. ~ Release(c)
    BY <2>1, <2>3 DEF Release, Start, Busy, TypeOK
  <2>6. ASSUME NEW d \in Commit, d # c PROVE ~ Work(d) /\ ~ ReadFails(d) /\ ~ LoseWorker(d)
    <3>1. \A x : running' = [running EXCEPT ![d] = x] => running'[c] = running[c]
      BY <2>3, <2>6 DEF TypeOK
    <3>2. ~ Release(d) /\ \A w : ~ Continue(d, w)
      BY <2>4, <3>1 DEF Release, Continue
    <3>3. ~ LoseWorker(d)
      BY <3>2 DEF LoseWorker
    <3>4. ~ ReadFails(d)
      BY <3>2 DEF ReadFails, Conclude, Obsolete
    <3>5. ~ Work(d)
      BY <3>2 DEF Work, Collect, Pin, Snapshot, Inspect, ReadReviews, Qualify, Requalify,
                  Judge, Reread, Resnapshot, Requeue, Post, Goto, Conclude, Obsolete
    <3>6. QED BY <3>3, <3>4, <3>5
  <2>7. ~ People
    BY <2>4 DEF People, Submit, Dismiss, Edit, Restate, ChangeStanding, Push, Enqueue, Close,
                Reopen, Dequeue, Merge, Change, jobVars
  <2>8. ASSUME NEW e, Discover(e) PROVE FALSE
    BY <2>4, <2>8 DEF Discover
  <2>9. ASSUME NEW d, Schedule(d) PROVE FALSE
    BY <2>3, <2>4, <2>9 DEF Schedule
  <2>10. ~ LoseDiscovery /\ ~ UNCHANGED vars
    BY <2>4 DEF LoseDiscovery, vars, jobVars
  <2>11. ~ ReadFails(c)
    <3>1. SUFFICES ASSUME ReadFails(c) PROVE FALSE
      OBVIOUS
    <3>2. PICK w : w = [v EXCEPT !.conclusion = "failure", !.at = "requeue", !.fingerprint = None]
      OBVIOUS
    <3>3. running' = [running EXCEPT ![c] = w]
      BY <2>2, <2>3, <3>1, <3>2 DEF ReadFails, Continue
    <3>4. running'[c] = w /\ w.conclusion = "failure"
      BY <2>3, <3>2, <3>3 DEF TypeOK, Worker
    <3>5. QED BY <2>1, <3>4
  <2>12. ~ LoseWorker(c)
    BY <2>5 DEF LoseWorker
  <2>13. Resnapshot(c)
    <3>1. Work(c)
      BY <1>1, <2>6, <2>7, <2>8, <2>9, <2>10, <2>11, <2>12
         DEF Next, Controller, Failures, Stop
    <3>2. QED BY <2>2, <2>3, <3>1
         DEF Work, At, Collect, Pin, Snapshot, Inspect, ReadReviews, Qualify, Requalify,
             Judge, Reread, Requeue, Post
  <2>14. Fingerprint(reviews, v.expected) = v.fingerprint
    BY <2>2, <2>5, <2>13 DEF Resnapshot, Obsolete
  <2>15. v.conclusion = "success"
    <3>1. PICK w : w = [v EXCEPT !.at = "requeue", !.fingerprint = None]
      OBVIOUS
    <3>2. running' = [running EXCEPT ![c] = w]
      BY <2>2, <2>13, <2>14, <3>1 DEF Resnapshot, Continue
    <3>3. running'[c] = w /\ w.conclusion = v.conclusion
      BY <2>3, <3>1, <3>2 DEF TypeOK, Worker
    <3>4. QED BY <2>1, <3>3
  <2>16. v.judged = v.expected
    BY <2>2, <2>3, <2>15 DEF Vetting
  <2>17. v.fingerprint # None
    BY <2>2, <2>3 DEF Comparing
  <2>18. QED BY <2>1, <2>2, <2>14, <2>15, <2>16, <2>17 DEF Comparing
<1>2. IInv /\ [Next]_vars =>
        [\A c \in Commit :
           /\ At(c, "resnapshot") /\ At(c, "requeue")'
           /\ running'[c].conclusion = "success"
           =>
             \/ drifted \/ edited
             \/ running[c].expected \notin Governed
             \/ Approved(reviews, eligible, running[c].expected)]_vars
  BY <1>1
<1>3. QED BY <1>2, Invariance, PTL DEF Spec, OvertakenDiscarded
=============================================================================
