--------------------------- MODULE AuthorityCheck ---------------------------
(***************************************************************************)
(* The "Maintainer decision authority" check of one pull request.          *)
(*                                                                         *)
(* Pull request, review and merge-queue events start a collector run       *)
(* (.github/workflows/decision-events.yml).  Each finished run wakes       *)
(* .github/workflows/decision-authority.yml: a discovery job without       *)
(* credentials (resolve_targets of ci/decisions/check.py) lists the live   *)
(* targets, the pull request's head and its merge-queue commits, and one   *)
(* worker per target (run_checks) judges the reviews and posts the check.  *)
(* Workers for the same target run one at a time; a newer waiting worker   *)
(* replaces an older waiting one (the job's concurrency group).            *)
(*                                                                         *)
(* A worker reads GitHub call by call while people push, review, dismiss,  *)
(* edit, queue and lose their standing, so every call that reads state a   *)
(* person can change is an action of its own.  GitHub's own part (reviews, *)
(* queue, concurrency groups) is modelled from how the code uses it.       *)
(***************************************************************************)
EXTENDS ReviewAuthority, Bags
LOCAL INSTANCE BagsExt

CONSTANTS
  Target,       \* merge-queue commits
  Governed,     \* heads that change governed paths
  Malformed,    \* heads whose decision proposals do not validate
  Verb,         \* what people submit reviews as
  NoTarget, NoJob, None,
  MaxReviews,   \* bound: reviews submitted
  MaxChanges,   \* bound: changes people make
  MaxFaults     \* bound: failing calls

ASSUME AuthorityAssumption ==
  /\ Governed \subseteq Revision /\ Malformed \subseteq Governed
  /\ Revision \cap Target = {}
  /\ Verb \subseteq ReviewState \ {"DISMISSED"}
  /\ NoTarget \notin Target
  /\ MaxReviews \in Nat /\ MaxChanges \in Nat /\ MaxFaults \in Nat

VARIABLES
  live,         \* the pull request is open and targets main
  head,         \* its head
  queued,       \* the commit the merge queue holds for it, or NoTarget
  carries,      \* per queue commit: the head whose governed content it has
  reviews,      \* native reviews, by id
  eligible,     \* people with standing to decide (admins, team members)
  merged,       \* the queue commit that was merged, or NoTarget
  check,        \* per commit: the App's latest check, or None
  events,       \* bag of finished collector runs not yet discovered
  discoveries,  \* bag of discovery jobs between their two reads
  running,      \* per commit: the running worker, or NoJob
  waiting,      \* per commit: the waiting job, or NoJob
  changes, faults,
  lost,         \* history: a discovery or worker died without an outcome
  drifted,      \* history: somebody's standing changed; GitHub sends no event
  edited,       \* history: a command's text was edited
  approvedOnce, \* history: heads approved at some moment
  endorsers,    \* history: per head, who approved it at some moment
  stoodOnce     \* history: who had standing at some moment

pullVars == <<live, head, queued, carries, reviews, eligible, merged>>
jobVars == <<events, discoveries, running, waiting>>
history == <<drifted, edited, approvedOnce, endorsers, stoodOnce>>
vars == <<pullVars, jobVars, check, changes, faults, lost, history>>

Commit == Revision \cup Target
PullEvent == "pull"                  \* pull_request and pull_request_review
Event == {PullEvent} \cup Target     \* the rest: merge_group for that commit
Conclusion == {"success", "failure"}
Job == [event : Event, expected : Revision]
Discovery == [event : Event, targets : SUBSET (Target \cup {NoTarget})]

\* The points between two calls of run_checks and of check_pr below it.
Point == {"collect", "pin", "snapshot", "inspect", "review", "qualify",
          "requalify", "conclude", "reread", "resnapshot", "requeue", "post"}

\* A worker: its job, whether it found the pull request open, the fingerprint
\* it took (None: it has none), the head check_pr judged, the reviews and the
\* reviewer it based that on, and the conclusion so far (None: not judged yet).
\* A field nothing reads any more goes back to None.
Worker == [event : Event, expected : Revision, at : Point,
           opened : {None} \cup BOOLEAN, judged : Revision,
           conclusion : {None} \cup Conclusion,
           fingerprint : {None} \cup SUBSET (Nat \X Review),
           seen : {None} \cup Seq(Review), chosen : {None} \cup Reviewer]

ASSUME WorkerAssumption ==
  /\ PullEvent \notin Target /\ NoJob \notin Worker \cup Job
  /\ None \notin Commit \cup Event \cup Conclusion

Start(job) == [event |-> job.event, expected |-> job.expected, at |-> "collect",
               opened |-> None, judged |-> job.expected, conclusion |-> None,
               fingerprint |-> None, seen |-> None, chosen |-> None]

Busy(c) == running[c] # NoJob

------------------------------------------------------------------------------
(* What the code decides from what it read.                                *)

Sound(h) == h \notin Malformed

\* collector_targets: the live targets of an event; NoTarget is the head.
QueueTargets == IF queued = NoTarget THEN {} ELSE {queued}

\* (Faulty variant: review events forget the queue commit.)
CollectorTargetsHeadOnly(event) ==
  IF event = PullEvent THEN IF live THEN {NoTarget} ELSE {}
  ELSE QueueTargets \cap {event}

CollectorTargets(event) ==
  IF event = PullEvent
  THEN IF live THEN {NoTarget} \cup QueueTargets ELSE {}
  ELSE QueueTargets \cap {event}

\* How a worker names its own target in that inventory.
Ask(c) == IF c \in Target THEN c ELSE NoTarget

\* What the check of a commit ought to say now.
Entitled(c) ==
  \/ head \notin Governed
  \/ /\ Sound(head)
     /\ Approved(reviews, eligible, head)
     /\ c \in Target => carries[c] = head

LiveCommits == IF live THEN {head} \cup QueueTargets ELSE {}

\* No collector run, discovery or worker is outstanding.
Quiet == events = EmptyBag /\ discoveries = EmptyBag /\ \A c \in Commit : ~ Busy(c)

\* Something outstanding will look at this commit again.
Revisited(c) ==
  \/ \E e \in BagToSet(events) : e \in {PullEvent, c}
  \/ \E d \in BagToSet(discoveries) : Ask(c) \in d.targets
  \/ Busy(c)

------------------------------------------------------------------------------
(* People and the merge queue.                                             *)

\* Reviews and standing change only here.  endorsers is kept without the code's
\* own reading of a review, so that MergedApproved can judge that reading.
Decide(rs, qualified) ==
  /\ reviews' = rs /\ eligible' = qualified
  /\ approvedOnce' = approvedOnce \cup {h \in Revision : Approved(rs, qualified, h)}
  /\ stoodOnce' = stoodOnce \cup qualified
  /\ endorsers' = [h \in Revision |->
       endorsers[h] \cup {r.user : r \in {x \in Range(rs) :
                             x.commit = h /\ x.state \in {"APPROVED", "approve"}}}]

Change(notifies) ==
  /\ merged = NoTarget
  /\ changes < MaxChanges /\ changes' = changes + 1
  /\ events' = IF notifies = None THEN events ELSE BagAdd(events, notifies)
  /\ UNCHANGED <<merged, check, discoveries, running, waiting, faults, lost>>

\* A review on the current head: "submitted".
Submit(u, state) ==
  /\ Len(reviews) < MaxReviews
  /\ Decide(Append(reviews, [user |-> u, commit |-> head, state |-> state]), eligible)
  /\ Change(PullEvent)
  /\ UNCHANGED <<live, head, queued, carries, drifted, edited>>

Restate(i, state) ==
  /\ Decide([reviews EXCEPT ![i].state = state], eligible)
  /\ Change(PullEvent)
  /\ UNCHANGED <<live, head, queued, carries, drifted>>

Dismiss(i) ==
  /\ reviews[i].state \in {"APPROVED", "CHANGES_REQUESTED"}
  /\ Restate(i, "DISMISSED") /\ UNCHANGED edited

\* A Comment review's body is edited: a command removed, or typed later.
Edit(i, state) ==
  /\ reviews[i].state \notin Native /\ state # reviews[i].state
  /\ Restate(i, state) /\ edited' = TRUE

\* Somebody gains or loses standing.  Nothing wakes up.
ChangeStanding(u) ==
  /\ Decide(reviews, IF u \in eligible THEN eligible \ {u} ELSE eligible \cup {u})
  /\ drifted' = TRUE
  /\ Change(None)
  /\ UNCHANGED <<live, head, queued, carries, edited>>

\* A push, possibly back to an earlier commit; it leaves the queue.
Push(h) ==
  /\ live /\ h # head
  /\ head' = h /\ queued' = NoTarget
  /\ Change(PullEvent)
  /\ UNCHANGED <<live, carries, reviews, eligible, history>>

Close ==
  /\ live /\ live' = FALSE /\ queued' = NoTarget
  /\ Change(None)
  /\ UNCHANGED <<head, carries, reviews, eligible, history>>

Reopen ==
  /\ ~ live /\ live' = TRUE
  /\ Change(PullEvent)
  /\ UNCHANGED <<head, queued, carries, reviews, eligible, history>>

\* The queue builds a merge commit for a head whose check succeeded.  Main may
\* have changed a governed file, and then it does not carry the head's content.
Enqueue(t, h) ==
  /\ live /\ queued = NoTarget /\ check[head] = "success"
  /\ carries[t] = None
  /\ carries' = [carries EXCEPT ![t] = h] /\ queued' = t
  /\ Change(t)
  /\ UNCHANGED <<live, head, reviews, eligible, history>>

Dequeue ==
  /\ queued # NoTarget /\ queued' = NoTarget
  /\ Change(None)
  /\ UNCHANGED <<live, head, carries, reviews, eligible, history>>

\* The ruleset merges a queue commit once its check succeeded.
Merge ==
  /\ queued # NoTarget /\ check[queued] = "success"
  /\ merged' = queued /\ queued' = NoTarget /\ live' = FALSE
  /\ UNCHANGED <<head, carries, reviews, eligible, check, jobVars,
                 changes, faults, lost, history>>

------------------------------------------------------------------------------
(* Discovery: resolve_targets, and the concurrency groups of its matrix.   *)

environment == <<pullVars, changes, history>>

Discover(event) ==
  /\ BagIn(event, events) /\ events' = BagRemove(events, event)
  /\ discoveries' = BagAdd(discoveries,
                      [event |-> event, targets |-> CollectorTargets(event)])
  /\ UNCHANGED <<environment, check, running, waiting, faults, lost>>

\* Faulty variant: a job that finds its group busy is dropped.
ScheduleDropping(d) ==
  LET commits == IF live THEN {IF t = NoTarget THEN head ELSE t : t \in d.targets} ELSE {}
      job == [event |-> d.event, expected |-> head]
  IN /\ BagIn(d, discoveries) /\ discoveries' = BagRemove(discoveries, d)
     /\ running' = [c \in Commit |->
          IF c \in commits /\ ~ Busy(c) THEN Start(job) ELSE running[c]]
     /\ UNCHANGED <<environment, check, events, waiting, faults, lost>>

\* Each target gets the head read after the inventory; a pull request that is
\* no longer live gets no worker.
Schedule(d) ==
  LET commits == IF live THEN {IF t = NoTarget THEN head ELSE t : t \in d.targets} ELSE {}
      job == [event |-> d.event, expected |-> head]
  IN /\ BagIn(d, discoveries) /\ discoveries' = BagRemove(discoveries, d)
     /\ running' = [c \in Commit |->
          IF c \in commits /\ ~ Busy(c) THEN Start(job) ELSE running[c]]
     /\ waiting' = [c \in Commit |->
          IF c \in commits /\ Busy(c) THEN job ELSE waiting[c]]
     /\ UNCHANGED <<environment, check, events, faults, lost>>

\* A discovery job dies: a failing call, or its runner.
LoseDiscovery ==
  /\ faults < MaxFaults /\ faults' = faults + 1 /\ lost' = TRUE
  /\ \/ \E e \in BagToSet(events) : events' = BagRemove(events, e) /\ UNCHANGED discoveries
     \/ \E d \in BagToSet(discoveries) : discoveries' = BagRemove(discoveries, d) /\ UNCHANGED events
  /\ UNCHANGED <<environment, check, running, waiting>>

------------------------------------------------------------------------------
(* A worker, call by call.                                                 *)

At(c, point) == Busy(c) /\ running[c].at = point

\* The worker ends and its group's waiting job starts.
Release(c) ==
  /\ running' = [running EXCEPT ![c] = IF waiting[c] = NoJob THEN NoJob ELSE Start(waiting[c])]
  /\ waiting' = [waiting EXCEPT ![c] = NoJob]

Continue(c, w) == running' = [running EXCEPT ![c] = w] /\ UNCHANGED waiting
Goto(c, point) == Continue(c, [running[c] EXCEPT !.at = point])
Conclude(c, conclusion) ==
  Continue(c, [running[c] EXCEPT !.at = "reread", !.conclusion = conclusion,
                                 !.seen = None, !.chosen = None])

Calls == UNCHANGED <<environment, check, events, discoveries, faults, lost>>

\* The collector run and its targets, read anew; a worker whose target is not
\* among them raises and posts nothing.
Collect(c) ==
  /\ At(c, "collect") /\ Calls
  /\ IF Ask(c) \in CollectorTargets(running[c].event) THEN Goto(c, "pin") ELSE Release(c)

\* The head must still be the one that was discovered.
Pin(c) ==
  /\ At(c, "pin") /\ Calls
  /\ IF head = running[c].expected
     THEN Continue(c, [running[c] EXCEPT !.at = "snapshot", !.opened = live])
     ELSE Release(c)

Snapshot(c) ==
  /\ At(c, "snapshot") /\ Calls
  /\ Continue(c, [running[c] EXCEPT !.at = "inspect",
                    !.fingerprint = Fingerprint(reviews, running[c].expected)])

\* check_pr: the pull request and its files, as they are at this call.
Inspect(c) ==
  /\ At(c, "inspect") /\ Calls
  /\ IF ~ live THEN Conclude(c, "failure")
     ELSE Continue(c, [running[c] EXCEPT !.judged = head,
                         !.at = IF head \in Governed THEN "review" ELSE "conclude"])

\* approval: first the reviews, then each author's standing, then the standing
\* of the selected author again.
ReadReviews(c) ==
  /\ At(c, "review") /\ Calls
  /\ Continue(c, [running[c] EXCEPT !.at = "qualify", !.seen = reviews])

Qualify(c) ==
  LET w == running[c]
  IN /\ At(c, "qualify") /\ Calls
     /\ IF Approved(w.seen, eligible, w.judged)
        THEN Continue(c, [w EXCEPT !.at = "requalify", !.seen = None,
                            !.chosen = Selected(w.seen, eligible, w.judged)])
        ELSE Conclude(c, "failure")

Requalify(c) ==
  /\ At(c, "requalify") /\ Calls
  /\ IF running[c].chosen \in eligible /\ Sound(running[c].judged)
     THEN Continue(c, [running[c] EXCEPT !.at = "conclude", !.chosen = None])
     ELSE Conclude(c, "failure")

\* The queue commit's governed content against the judged head's, and the pull
\* request once more.
Judge(c) ==
  LET w == running[c]
  IN /\ At(c, "conclude") /\ Calls
     /\ Conclude(c, IF /\ c \in Target /\ w.judged \in Governed => carries[c] = w.judged
                       /\ live /\ head = w.judged
                    THEN "success" ELSE "failure")

Obsolete(c) == Release(c)

AfterReread(w) ==
  [w EXCEPT !.opened = None,
            !.at = IF w.fingerprint # None THEN "resnapshot" ELSE "requeue"]

\* run_checks again: a worker overtaken by a push or a close posts nothing.
\* Only a result of check_pr names the head it judged.
Reread(c) ==
  LET w == running[c]
  IN /\ At(c, "reread") /\ Calls
     /\ IF live /\ head = w.expected /\ (w.conclusion = "success" => w.judged = w.expected)
        THEN Continue(c, AfterReread(w))
        ELSE Obsolete(c)

\* Nor one overtaken by a review.  (Faulty variant: the second snapshot is not
\* compared with the first.)
ResnapshotBlind(c) ==
  /\ At(c, "resnapshot") /\ Calls
  /\ Continue(c, [running[c] EXCEPT !.at = "requeue", !.fingerprint = None])

Resnapshot(c) ==
  /\ At(c, "resnapshot") /\ Calls
  /\ IF Fingerprint(reviews, running[c].expected) = running[c].fingerprint
     THEN Continue(c, [running[c] EXCEPT !.at = "requeue", !.fingerprint = None])
     ELSE Obsolete(c)

\* A queue commit must still be queued; otherwise the worker raises.
Requeue(c) ==
  /\ At(c, "requeue") /\ Calls
  /\ IF c \in Target => c \in CollectorTargets(running[c].event)
     THEN Goto(c, "post") ELSE Release(c)

Post(c) ==
  /\ At(c, "post")
  /\ check' = [check EXCEPT ![c] = running[c].conclusion]
  /\ Release(c)
  /\ UNCHANGED <<environment, events, discoveries, faults, lost>>

Fault == faults < MaxFaults /\ faults' = faults + 1
Failing == UNCHANGED <<environment, check, events, discoveries>>

\* A call fails where the code turns that into a failure conclusion: inside
\* the judgement, at the fresh read (the one made at the pin then stands for
\* it) and at the second snapshot.
ReadFails(c) ==
  LET w == running[c]
  IN /\ Busy(c) /\ Fault /\ Failing /\ UNCHANGED lost
     /\ \/ /\ w.at \in {"snapshot", "inspect", "review", "qualify", "requalify", "conclude"}
           /\ Conclude(c, "failure")
        \/ /\ w.at = "reread"
           /\ IF w.opened THEN Continue(c, [AfterReread(w) EXCEPT !.conclusion = "failure"])
                           ELSE Obsolete(c)
        \/ /\ w.at = "resnapshot"
           /\ Continue(c, [w EXCEPT !.conclusion = "failure", !.at = "requeue",
                                    !.fingerprint = None])

\* The worker dies: its runner does, or a call outside those fails.
LoseWorker(c) ==
  /\ Busy(c) /\ Fault /\ Failing /\ lost' = TRUE
  /\ Release(c)

Work(c) ==
  \/ Collect(c) \/ Pin(c) \/ Snapshot(c) \/ Inspect(c) \/ ReadReviews(c)
  \/ Qualify(c) \/ Requalify(c) \/ Judge(c) \/ Reread(c) \/ Resnapshot(c)
  \/ Requeue(c) \/ Post(c)

------------------------------------------------------------------------------
(* The specification.                                                      *)

\* A pull request has just been opened.
Init ==
  /\ live = TRUE /\ head \in Revision /\ queued = NoTarget
  /\ carries = [t \in Target |-> None]
  /\ reviews = <<>> /\ eligible \in SUBSET Reviewer /\ merged = NoTarget
  /\ check = [c \in Commit |-> None]
  /\ events = SetToBag({PullEvent}) /\ discoveries = EmptyBag
  /\ running = [c \in Commit |-> NoJob] /\ waiting = [c \in Commit |-> NoJob]
  /\ changes = 0 /\ faults = 0 /\ lost = FALSE /\ drifted = FALSE /\ edited = FALSE
  /\ approvedOnce = {} /\ endorsers = [h \in Revision |-> {}] /\ stoodOnce = eligible

People ==
  \/ \E u \in Reviewer :
       \/ \E s \in Verb : Submit(u, s)
       \/ ChangeStanding(u)
  \/ \E i \in DOMAIN reviews :
       Dismiss(i) \/ \E s \in Verb \ Native : Edit(i, s)
  \/ \E h \in Revision : Push(h) \/ \E t \in Target : Enqueue(t, h)
  \/ Close \/ Reopen \/ Dequeue \/ Merge

Controller ==
  \/ \E e \in BagToSet(events) : Discover(e)
  \/ \E d \in BagToSet(discoveries) : Schedule(d)
  \/ \E c \in Commit : Work(c)

Failures == LoseDiscovery \/ \E c \in Commit : ReadFails(c) \/ LoseWorker(c)

\* All work is done and nobody has changes left.
Stop == Quiet /\ UNCHANGED vars

Next == People \/ Controller \/ Failures \/ Stop

Spec == Init /\ [][Next]_vars

\* GitHub delivers events and runs its jobs; a started worker goes on.  People
\* need never do anything.
FairSpec ==
  /\ Spec
  /\ WF_vars(\E e \in BagToSet(events) : Discover(e))
  /\ WF_vars(\E d \in BagToSet(discoveries) : Schedule(d))
  /\ \A c \in Commit : WF_vars(Work(c))

------------------------------------------------------------------------------
(* Properties.                                                             *)

\* Types; besides, a job waits only behind a running worker of its group, so
\* a concurrency group never holds a worker that nothing will start.
TypeOK ==
  /\ live \in BOOLEAN /\ head \in Revision /\ eligible \subseteq Reviewer
  /\ queued \in Target \cup {NoTarget} /\ merged \in Target \cup {NoTarget}
  /\ carries \in [Target -> Revision \cup {None}]
  /\ reviews \in Seq(Review) /\ Len(reviews) <= MaxReviews
  /\ check \in [Commit -> Conclusion \cup {None}]
  /\ BagToSet(events) \subseteq Event /\ BagToSet(discoveries) \subseteq Discovery
  /\ running \in [Commit -> Worker \cup {NoJob}]
  /\ waiting \in [Commit -> Job \cup {NoJob}]
  /\ \A c \in Commit : waiting[c] # NoJob => Busy(c)
  /\ changes \in 0 .. MaxChanges /\ faults \in 0 .. MaxFaults
  /\ {lost, drifted, edited} \subseteq BOOLEAN
  /\ approvedOnce \subseteq Revision /\ stoodOnce \subseteq Reviewer
  /\ endorsers \in [Revision -> SUBSET Reviewer]

\* Types; and a live commit that no outstanding event, discovery or worker will visit
\* again has a check, and that check grants success only to what the reviews
\* grant now; without failing calls it says exactly that.  So a result computed
\* from an older head, review or queue never has the last word (check.py:
\* "must not overwrite the new decision"), and none is ever left out.
SettledCorrect ==
  /\ TypeOK
  /\ ~ lost /\ ~ drifted =>
       \A c \in LiveCommits :
         ~ Revisited(c) =>
           /\ check[c] # None
           /\ check[c] = "success" => Entitled(c)
           /\ faults = 0 /\ Entitled(c) => check[c] = "success"

\* Whatever is lost, fails or races, main receives the governed content only of
\* a well-formed head somebody with standing approved; and, unless standing
\* changed meanwhile, only of a head that was, at one moment, approved by an
\* eligible reviewer and vetoed by none.
MergedApproved ==
  merged # NoTarget /\ head \in Governed =>
    /\ carries[merged] = head /\ Sound(head)
    /\ endorsers[head] \cap stoodOnce # {}
    /\ ~ drifted => head \in approvedOnce

\* A success goes on to be posted only when the head is approved at the second
\* snapshot: a result overtaken by a review or a dismissal while it was computed
\* is discarded.  (A command edited away and back between the snapshots leaves
\* them equal; only the edits' own workers correct that result.)
OvertakenDiscarded ==
  [][\A c \in Commit :
       /\ At(c, "resnapshot") /\ At(c, "requeue")'
       /\ running'[c].conclusion = "success"
       =>
         \/ drifted \/ edited
         \/ running[c].expected \notin Governed
         \/ Approved(reviews, eligible, running[c].expected)]_vars

\* Unless work is lost, an open pull request's head ends up with a check: the
\* "obsolete" outcomes, which post nothing, never leave it without an answer.
HeadAnswered == <>[](lost \/ ~ live \/ check[head] # None)

=============================================================================
