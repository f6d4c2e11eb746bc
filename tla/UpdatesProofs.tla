---------------------------- MODULE UpdatesProofs ----------------------------
(***************************************************************************)
(* Proofs about an update pull request, for every set of candidates,       *)
(* foreign and forbidden commits, any number of attempts and of changes by *)
(* people: what is enrolled was validated, and nothing unseen is replaced. *)
(***************************************************************************)
EXTENDS Updates, TLAPS

------------------------------------------------------------------------------
(* The invariant.                                                          *)

RequestType ==
  /\ upstream \in Candidate /\ branch \in Commit \cup {None} /\ open \in BOOLEAN
  /\ open => branch # None
  /\ DOMAIN ci = Commit

BranchType ==
  /\ DOMAIN run = {"at", "candidate", "unwarmed", "lease", "attempt", "pushed", "undrafted", "calm"}
  /\ run.at # "idle" => run.candidate \in Candidate
  /\ late # None => late.candidate \in Candidate

WorkType ==
  /\ DOMAIN job = {"at", "expected", "seen", "calm", "moved"}
  /\ job.calm \in BOOLEAN /\ job.moved \in BOOLEAN
  /\ job.at \in {"rest", "files", "pull", "ci", "authorize", "reviews", "permission",
                 "reread", "reviews2", "permission2", "merge"}
  /\ job.at # "rest" => job.expected \in Commit

\* A branch nobody pushed to is the one listed, with the files that were
\* checked.
Listed ==
  ~ job.moved =>
    /\ job.at # "rest" => branch = job.expected
    /\ job.at \notin {"rest", "files"} => branch \notin Forbidden

\* CI that succeeded stays so.
Tested ==
  job.at \in {"reviews", "permission", "reread", "reviews2", "permission2", "merge"}
    => ci[job.expected] = "success"

\* What the last round read still holds unless somebody intervened.
Reviewed ==
  job.calm =>
    /\ job.at \in {"reviews2", "permission2", "merge"} => ~ draft
    /\ job.at = "permission2" /\ job.seen => job.expected \in approvals
    /\ job.at = "merge" /\ policy = "trusted-maintainer" => job.expected \in approvals /\ standing

IInv == RequestType /\ BranchType /\ WorkType /\ Listed /\ Tested /\ Reviewed

LEMMA Initial == Init => IInv
<1> SUFFICES ASSUME Init PROVE IInv
  OBVIOUS
<1>1. RequestType
  BY DEF Init, RequestInit, RequestType
<1>2. BranchType
  BY DEF Init, BranchInit, Idle, BranchType
<1>3. WorkType /\ Listed /\ Tested /\ Reviewed
  BY DEF Init, TrustedInit, NoWork, WorkType, Listed, Tested, Reviewed
<1>4. QED BY <1>1, <1>2, <1>3 DEF IInv

------------------------------------------------------------------------------
(* What the steps of the others leave alone.                               *)

\* Nobody takes a success back, and the policy is fixed.
Kept ==
  /\ policy' = policy /\ DOMAIN ci' = DOMAIN ci
  /\ \A c \in Commit : ci[c] = "success" => ci'[c] = "success"

LEMMA PushKeeps ==
  ASSUME NEW c \in Commit, DOMAIN ci = Commit, PushTo(c)
  PROVE  /\ branch' = c /\ DOMAIN ci' = DOMAIN ci
         /\ \A d \in Commit : ci[d] = "success" => ci'[d] = "success"
BY DEF PushTo

LEMMA PeopleKeep ==
  ASSUME RequestType, People \/ GitHub
  PROVE  Kept /\ RequestType'
<1> USE DEF RequestType, Kept, ciVars
<1>1. CASE People
  <2>1. ASSUME NEW c \in Candidate, ReleaseUpstream(c) PROVE Kept /\ RequestType'
    BY <2>1 DEF ReleaseUpstream
  <2>2. ASSUME NEW c \in Foreign, PushForeign(c) PROVE Kept /\ RequestType'
    <3>1. c \in Commit /\ c # None
      BY UpdateAssumption DEF Commit
    <3>2. QED BY <2>2, <3>1, PushKeeps DEF PushForeign
  <2>3. CASE Close
    BY <2>3 DEF Close
  <2>4. CASE Dequeue \/ ToggleDraft
    BY <2>4 DEF Dequeue, ToggleDraft
  <2>5. CASE Review \/ ChangeStanding
    BY <2>5 DEF Review, ChangeStanding
  <2>6. QED BY <1>1, <2>1, <2>2, <2>3, <2>4, <2>5 DEF People
<1>2. CASE GitHub
  <2>1. ASSUME NEW c \in Commit, FinishCi(c) PROVE Kept /\ RequestType'
    BY <2>1 DEF FinishCi
  <2>2. CASE Enqueue
    BY <2>2 DEF Enqueue
  <2>3. CASE Merge
    BY <2>3 DEF Merge
  <2>4. QED BY <1>2, <2>1, <2>2, <2>3 DEF GitHub
<1>3. QED BY <1>1, <1>2

LEMMA UpdaterKeeps ==
  ASSUME RequestType, BranchType, Update \/ Disruption \/ (LatePush /\ RunWatches)
  PROVE  Kept /\ RequestType' /\ BranchType'
<1> USE DEF RequestType, BranchType, Kept, ciVars, requestVars, pullVars, At, Goto, End, Idle
<1>0. None \notin Commit /\ Candidate \subseteq Commit
  BY UpdateAssumption DEF Commit
<1>1. ASSUME PushArrives, run.at = "push", policy' = policy, upstream' = upstream
      PROVE  Kept /\ RequestType'
  BY <1>0, <1>1, PushKeeps DEF PushArrives
<1>2. CASE StartRun
  BY <1>2 DEF StartRun, Start
<1>3. CASE CancelRun
  BY <1>3 DEF CancelRun, Start
<1>4. CASE List
  BY <1>4 DEF List
<1>5. CASE Push
  BY <1>1, <1>5 DEF Push
<1>6. CASE PushRefused \/ PushLocked
  BY <1>6 DEF PushRefused, PushLocked
<1>7. CASE PushTransient
  <2>1. Kept /\ RequestType'
    <3>1. CASE UNCHANGED <<branch, ci, open, draft, auto, queued>>
      BY <1>7, <3>1 DEF PushTransient
    <3>2. CASE PushArrives
      BY <1>1, <1>7, <3>2 DEF PushTransient
    <3>3. QED BY <1>7, <3>1, <3>2 DEF PushTransient
  <2>2. BranchType'
    BY <1>7 DEF PushTransient
  <2>3. QED BY <2>1, <2>2
<1>8. CASE ReadEntry
  <2>1. Kept /\ RequestType' /\ late' = late
    BY <1>8 DEF ReadEntry
  <2>2. \/ run' = Idle
        \/ run' = [run EXCEPT !.at = "push", !.attempt = @ + 1]
        \/ run' = [run EXCEPT !.at = "dequeue"]
    BY <1>8 DEF ReadEntry, Retry
  <2>3. run.at # "idle"
    BY <1>8 DEF ReadEntry
  <2>4. BranchType'
    <3>1. CASE run' = Idle
      BY <2>1, <3>1
    <3>2. CASE run' = [run EXCEPT !.at = "push", !.attempt = @ + 1]
      BY <2>1, <2>3, <3>2
    <3>3. CASE run' = [run EXCEPT !.at = "dequeue"]
      BY <2>1, <2>3, <3>3
    <3>4. QED BY <2>2, <3>1, <3>2, <3>3
  <2>5. QED BY <2>1, <2>4
<1>9. CASE DequeueEntry
  BY <1>9 DEF DequeueEntry, Retry
<1>10. CASE FindPull
  BY <1>10 DEF FindPull
<1>11. CASE EditPull
  BY <1>11 DEF EditPull
<1>12. CASE UndoReady
  BY <1>12 DEF UndoReady
<1>13. ASSUME Creates, policy' = policy, upstream' = upstream, branch' = branch
       PROVE  Kept /\ RequestType'
  BY <1>13 DEF Creates
<1>14. CASE CreatePull
  BY <1>13, <1>14 DEF CreatePull
<1>15. CASE CreateRefused
  BY <1>15 DEF CreateRefused
<1>16. CASE FailRun
  <2>1. Kept /\ RequestType'
    <3>1. CASE UNCHANGED <<open, draft, ci, auto, queued>>
      BY <1>16, <3>1 DEF FailRun
    <3>2. CASE Creates
      BY <1>13, <1>16, <3>2 DEF FailRun
    <3>3. CASE UNCHANGED <<open, draft, ci>>
      BY <1>16, <3>3 DEF FailRun
    <3>4. QED BY <1>16, <3>1, <3>2, <3>3 DEF FailRun
  <2>2. BranchType'
    BY <1>16 DEF FailRun
  <2>3. QED BY <2>1, <2>2
<1>17. CASE LatePush /\ RunWatches
  <2>1. BranchType'
    BY <1>17 DEF LatePush, RunWatches
  <2>2. CASE UNCHANGED <<branch, ci>>
    BY <1>17, <2>1, <2>2 DEF LatePush
  <2>3. CASE PushTo(late.candidate)
    <3>1. late.candidate \in Commit /\ late.candidate # None
      BY <1>0, <1>17 DEF LatePush
    <3>2. QED BY <1>17, <2>1, <2>3, <3>1, PushKeeps DEF LatePush
  <2>4. QED BY <1>17, <2>2, <2>3 DEF LatePush
<1>18. QED
  BY <1>2, <1>3, <1>4, <1>5, <1>6, <1>7, <1>8, <1>9, <1>10, <1>11, <1>12, <1>14, <1>15, <1>16,
     <1>17 DEF Update, Disruption

\* The run's history field changes nothing its type speaks of.
LEMMA RunStays ==
  ASSUME BranchType, RunWatches, late' = late
  PROVE  BranchType'
BY DEF BranchType, RunWatches

\* The controller while something else acts.
LEMMA JobStays ==
  ASSUME IInv, Kept, JobWatches
  PROVE  WorkType' /\ Listed' /\ Tested' /\ Reviewed'
<1>1. /\ DOMAIN job' = DOMAIN job /\ job'.at = job.at /\ job'.expected = job.expected
      /\ job'.seen = job.seen
  BY DEF IInv, WorkType, JobWatches
<1>2. /\ job'.calm = (job.calm /\ Still)
      /\ job'.moved = (job.moved \/ (~ On("rest") /\ branch' # branch))
  BY DEF IInv, WorkType, JobWatches
<1>3. /\ job'.calm \in BOOLEAN /\ (job'.calm => job.calm /\ Still)
      /\ job'.moved \in BOOLEAN
      /\ ~ job'.moved => ~ job.moved /\ (job.at = "rest" \/ branch' = branch)
  BY <1>2 DEF IInv, WorkType, On
<1>4. WorkType'
  BY <1>1, <1>3 DEF IInv, WorkType
<1>5. Listed'
  BY <1>1, <1>3 DEF IInv, Listed
<1>6. Tested'
  BY <1>1 DEF IInv, WorkType, Tested, Kept
<1>7. Reviewed'
  <2>1. SUFFICES ASSUME job'.calm PROVE Reviewed'
    BY DEF Reviewed
  <2>2. draft' = draft /\ approvals' = approvals /\ standing' = standing /\ policy' = policy
    BY <1>3, <2>1 DEF Still, Kept
  <2>3. job.calm
    BY <1>3, <2>1
  <2>4. ASSUME job.at \in {"reviews2", "permission2", "merge"} PROVE ~ draft'
    BY <2>2, <2>3, <2>4 DEF IInv, Reviewed
  <2>5. ASSUME job.at = "merge", policy = "trusted-maintainer" PROVE standing'
    BY <2>2, <2>3, <2>5 DEF IInv, Reviewed
  <2>6. QED BY <1>1, <2>2, <2>3, <2>4, <2>5 DEF IInv, Reviewed
<1>8. QED BY <1>4, <1>5, <1>6, <1>7

------------------------------------------------------------------------------
(* The controller's own steps.                                             *)

World == <<policy, branch, draft, approvals, standing>>

LEMMA ReadsKeep ==
  ASSUME RequestType, Reads
  PROVE  Kept /\ RequestType' /\ ci' = ci /\ UNCHANGED World
BY DEF RequestType, Reads, Kept, requestVars, pullVars, ciVars, World

\* Work that is given up.
LEMMA RestKeeps ==
  ASSUME job' = NoWork
  PROVE  WorkType' /\ Listed' /\ Tested' /\ Reviewed'
BY DEF NoWork, WorkType, Listed, Tested, Reviewed

LEMMA WorkPreserves ==
  ASSUME IInv, Reconcile \/ FailWork
  PROVE  Kept /\ RequestType' /\ WorkType' /\ Listed' /\ Tested' /\ Reviewed'
<1> DEFINE Goal == WorkType' /\ Listed' /\ Tested' /\ Reviewed'
<1> USE DEF IInv, WorkType, Listed, Tested, Reviewed, World, Resume, On
<1>1. ASSUME Reads, job' = NoWork PROVE Kept /\ RequestType' /\ Goal
  BY <1>1, ReadsKeep, RestKeeps
<1>2. ASSUME Reads, Goal PROVE Kept /\ RequestType' /\ Goal
  BY <1>2, ReadsKeep
<1>3. CASE ListCandidates
  <2>1. branch \in Commit
    BY <1>3 DEF ListCandidates, RequestType
  <2>2. Goal
    BY <1>3, <2>1, ReadsKeep DEF ListCandidates, NoWork
  <2>3. QED BY <1>2, <1>3, <2>2 DEF ListCandidates
<1>4. CASE CheckPaths
  <2>1. CASE job' = NoWork
    BY <1>1, <1>4, <2>1 DEF CheckPaths
  <2>2. CASE job' = [job EXCEPT !.at = "pull"] /\ branch \notin Forbidden
    <3>1. Goal
      BY <1>4, <2>2, ReadsKeep DEF CheckPaths
    <3>2. QED BY <1>2, <1>4, <3>1 DEF CheckPaths
  <2>3. QED BY <1>4, <2>1, <2>2 DEF CheckPaths, Done
<1>5. CASE ReadPull
  <2>1. CASE job' = NoWork
    BY <1>1, <1>5, <2>1 DEF ReadPull
  <2>2. CASE job' = [job EXCEPT !.at = "ci"]
    <3>1. Goal
      BY <1>5, <2>2, ReadsKeep DEF ReadPull
    <3>2. QED BY <1>2, <1>5, <3>1 DEF ReadPull
  <2>3. QED BY <1>5, <2>1, <2>2 DEF ReadPull, Done
<1>6. CASE ReadCi
  <2>1. CASE job' = NoWork
    BY <1>1, <1>6, <2>1 DEF ReadCi
  <2>2. ASSUME NEW point \in {"authorize", "reread", "reviews"},
               job' = [job EXCEPT !.at = point],
               point # "authorize" => ci[job.expected] = "success"
        PROVE  Kept /\ RequestType' /\ Goal
    <3>1. Goal
      BY <1>6, <2>2, ReadsKeep DEF ReadCi
    <3>2. QED BY <1>2, <1>6, <3>1 DEF ReadCi
  <2>3. CASE ci[job.expected] = "held"
    BY <1>6, <2>2, <2>3 DEF ReadCi
  <2>4. CASE ci[job.expected] = "success"
    <3>1. \E point \in {"reread", "reviews"} : job' = [job EXCEPT !.at = point]
      BY <1>6, <2>4 DEF ReadCi
    <3>2. QED BY <2>2, <2>4, <3>1
  <2>5. CASE ci[job.expected] \notin {"held", "success"}
    BY <1>6, <2>1, <2>5 DEF ReadCi, Done
  <2>6. QED BY <2>3, <2>4, <2>5
<1>7. CASE AuthorizeCi
  BY <1>7, RestKeeps DEF AuthorizeCi, Authorized, Done, Kept, RequestType
<1>8. ASSUME NEW here, NEW next, <<here, next>> \in {<<"reviews", "permission">>, <<"reviews2", "permission2">>},
             ReadReviews(here, next)
      PROVE  Kept /\ RequestType' /\ Goal
  <2> DEFINE approved == job.expected \in approvals
  <2>1. job' = [job EXCEPT !.at = next, !.seen = approved] /\ job.at = here
    BY <1>8 DEF ReadReviews, ExactHeadReviewed
  <2>2. /\ DOMAIN job' = DOMAIN job /\ job'.at = next /\ job'.seen = approved
        /\ job'.expected = job.expected /\ job'.calm = job.calm /\ job'.moved = job.moved
    <3> HIDE DEF approved
    <3>1. QED BY <2>1
  <2>3. Goal
    <3>1. ci' = ci /\ UNCHANGED World
      BY <1>8, ReadsKeep DEF ReadReviews
    <3>2. WorkType' /\ Listed' /\ Tested'
      BY <1>8, <2>1, <2>2, <3>1
    <3>3. job'.seen => job.expected \in approvals
      BY <2>2
    <3>4. Reviewed'
      BY <1>8, <2>1, <2>2, <3>1, <3>3
    <3>5. QED BY <3>2, <3>4
  <2>4. QED BY <1>2, <1>8, <2>3 DEF ReadReviews
<1>9. ASSUME NEW here, NEW next, <<here, next>> \in {<<"permission", "reread">>, <<"permission2", "merge">>},
             ReadPermission(here, next)
      PROVE  Kept /\ RequestType' /\ Goal
  <2>1. CASE job' = NoWork
    BY <1>1, <1>9, <2>1 DEF ReadPermission
  <2>2. CASE job.seen /\ standing /\ job' = [job EXCEPT !.at = next, !.seen = FALSE]
    <3>1. Goal
      BY <1>9, <2>2, ReadsKeep DEF ReadPermission
    <3>2. QED BY <1>2, <1>9, <3>1 DEF ReadPermission
  <2>3. QED BY <1>9, <2>1, <2>2 DEF ReadPermission, Done
<1>10. CASE Reread
  <2>1. CASE job' = NoWork
    BY <1>1, <1>10, <2>1 DEF Reread
  <2>2. CASE ~ draft /\ job' = [job EXCEPT !.at = IF policy = "automatic" THEN "merge" ELSE "reviews2",
                                           !.calm = TRUE]
    <3>1. Goal
      BY <1>10, <2>2, ReadsKeep DEF Reread
    <3>2. QED BY <1>2, <1>10, <3>1 DEF Reread
  <2>3. QED BY <1>10, <2>1, <2>2 DEF Reread, Valid, Done
<1>11. CASE Enroll
  BY <1>11, RestKeeps DEF Enroll, Done, Kept, RequestType, ciVars
<1>12. CASE FailWork
  BY <1>12, RestKeeps DEF FailWork, Authorized, Done, Kept, RequestType
<1>13. QED
  BY <1>3, <1>4, <1>5, <1>6, <1>7, <1>8, <1>9, <1>10, <1>11, <1>12 DEF Reconcile

------------------------------------------------------------------------------
(* Theorems.                                                               *)

\* What the controller knows of the head it works on, whatever updaters, people
\* and GitHub do between its calls.
THEOREM Invariance == Spec => []IInv
<1>1. IInv /\ [Next]_vars => IInv'
  <2>1. SUFFICES ASSUME IInv, [Next]_vars PROVE IInv'
    OBVIOUS
  <2>2. CASE UNCHANGED vars
    BY <2>1, <2>2 DEF vars, requestVars, pullVars, ciVars, runVars, IInv, RequestType, BranchType,
                      WorkType, Listed, Tested, Reviewed
  <2>3. CASE (People \/ GitHub) /\ UNCHANGED late /\ RunWatches /\ JobWatches
    BY <2>1, <2>3, PeopleKeep, RunStays, JobStays DEF IInv
  <2>4. CASE LatePush /\ RunWatches /\ JobWatches
    BY <2>1, <2>4, UpdaterKeeps, JobStays DEF IInv
  <2>5. CASE (Update \/ Disruption) /\ JobWatches
    BY <2>1, <2>5, UpdaterKeeps, JobStays DEF IInv
  <2>6. CASE (Reconcile \/ FailWork) /\ UNCHANGED late /\ RunWatches
    BY <2>1, <2>6, WorkPreserves, RunStays DEF IInv
  <2>7. QED BY <2>1, <2>2, <2>3, <2>4, <2>5, <2>6 DEF Next
<1>2. QED BY <1>1, Initial, PTL DEF Spec

\* Only validated heads are enrolled (trusted-update.sh, from the listing to
\* gh pr merge).
THEOREM EnrolmentValidated == Spec => EnrolledValidated
<1> DEFINE Enrolled == auto' /\ ~ auto =>
       /\ ci[branch] = "success"
       /\ job.moved \/ branch \notin Forbidden
       /\ job.calm =>
            /\ ~ draft
            /\ policy = "trusted-maintainer" => branch \in approvals /\ standing
<1>1. ASSUME IInv, [Next]_vars PROVE [Enrolled]_vars
  <2>1. SUFFICES ASSUME auto' /\ ~ auto PROVE Enrolled
    OBVIOUS
  <2>2. On("merge") /\ Enrolls
    <3>1. ~ UNCHANGED vars
      BY <2>1 DEF vars, requestVars, pullVars
    <3>2. ~ (People \/ GitHub)
      BY <2>1 DEF People, GitHub, ReleaseUpstream, PushForeign, Close, Dequeue, ToggleDraft, Review,
                  ChangeStanding, FinishCi, Enqueue, Merge
    <3>3. ~ (LatePush \/ Update)
      BY <2>1 DEF LatePush, Update, StartRun, List, Push, PushRefused, PushLocked, ReadEntry,
                  DequeueEntry, FindPull, EditPull, UndoReady, CreatePull, CreateRefused,
                  PushArrives, requestVars, pullVars
    <3>4. ~ Disruption
      BY <2>1 DEF Disruption, CancelRun, PushTransient, FailRun, PushArrives, pullVars
    <3>5. Reconcile \/ FailWork
      BY <1>1, <3>1, <3>2, <3>3, <3>4 DEF Next
    <3>6. ASSUME Reads PROVE FALSE
      BY <2>1, <3>6 DEF Reads, requestVars, pullVars
    <3>7. Enroll \/ FailWork
      BY <2>1, <3>5, <3>6 DEF Reconcile, ListCandidates, CheckPaths, ReadPull, ReadCi, AuthorizeCi,
                       ReadReviews, ReadPermission, Reread
    <3>8. QED BY <2>1, <3>7 DEF Enroll, FailWork
  <2>3. QED BY <1>1, <2>2 DEF IInv, WorkType, Listed, Tested, Reviewed, On, Enrolls
<1>2. QED BY <1>1, Invariance, PTL DEF Spec, EnrolledValidated

\* Nothing a person pushed is replaced unseen (open-update-pr.sh, the leased
\* push and its retries).
THEOREM ForeignCommitsKept == Spec => ForeignKept
<1> DEFINE Replaced == (branch \in Foreign /\ branch' \in Candidate) =>
       branch = run.lease \/ (late # None /\ branch = late.lease)
<1>1. ASSUME [Next]_vars PROVE [Replaced]_vars
  <2>1. SUFFICES ASSUME branch \in Foreign, branch' \in Candidate
                 PROVE  branch = run.lease \/ (late # None /\ branch = late.lease)
    OBVIOUS
  <2>2. branch' # branch /\ branch' # None
    BY <2>1, UpdateAssumption DEF Commit
  <2>3. ~ UNCHANGED vars /\ ~ UNCHANGED pullVars
    BY <2>2 DEF vars, requestVars, pullVars
  <2>4. ~ (People \/ GitHub)
    BY <2>1, <2>2, UpdateAssumption
    DEF People, GitHub, ReleaseUpstream, PushForeign, PushTo, Close, Dequeue, ToggleDraft, Review,
        ChangeStanding, FinishCi, Enqueue, Merge
  <2>5. ~ (Reconcile \/ FailWork)
    BY <2>2, <2>3 DEF Reconcile, ListCandidates, CheckPaths, ReadPull, ReadCi, AuthorizeCi, ReadReviews,
                 ReadPermission, Reread, Enroll, FailWork, Reads, requestVars
  <2>6. ASSUME Leased, PushArrives PROVE branch = run.lease
    BY <2>2, <2>6 DEF Leased, UpToDate, PushArrives, PushTo
  <2>7. CASE LatePush
    BY <2>2, <2>7 DEF LatePush
  <2>8. CASE Update
    BY <2>2, <2>3, <2>6, <2>8 DEF Update, StartRun, List, Push, PushRefused, PushLocked, ReadEntry,
                  DequeueEntry, FindPull, EditPull, UndoReady, CreatePull, CreateRefused, requestVars
  <2>9. CASE Disruption
    BY <2>2, <2>3, <2>6, <2>9 DEF Disruption, CancelRun, PushTransient, FailRun
  <2>10. QED BY <1>1, <2>3, <2>4, <2>5, <2>7, <2>8, <2>9 DEF Next
<1>2. QED BY <1>1, PTL DEF Spec, ForeignKept

------------------------------------------------------------------------------
(* What a run leaves.                                                      *)

\* Since the candidate was put or found on the branch nothing else touched the
\* request, or calm is FALSE: the branch holds the candidate, and the request
\* is as the run found it.
RunInv ==
  /\ run.calm \in BOOLEAN
  /\ run.at \in {"idle", "list", "push", "queue", "dequeue"} => ~ run.calm
  /\ run.calm =>
       /\ branch = run.candidate
       /\ run.at \in {"edit", "undo"} => open
       /\ run.at = "edit" /\ ~ draft => run.undrafted

\* While something else acts.
LEMMA WatchedRun ==
  ASSUME IInv, RunInv, RunWatches PROVE RunInv'
<1>1. /\ run'.at = run.at /\ run'.candidate = run.candidate /\ run'.undrafted = run.undrafted
      /\ run'.calm = (run.calm /\ Still)
  BY DEF IInv, BranchType, RunWatches
<1>2. run'.calm \in BOOLEAN /\ (run'.calm => run.calm /\ Still)
  BY <1>1 DEF RunInv
<1>3. run'.calm => branch' = branch /\ open' = open /\ draft' = draft
  BY <1>2 DEF Still
<1>4. QED
  <2>1. CASE ~ run'.calm
    BY <1>1, <1>2, <2>1 DEF RunInv
  <2>2. CASE run'.calm
    BY <1>1, <1>2, <1>3, <2>2 DEF RunInv
  <2>3. QED BY <2>1, <2>2

LEMMA RunStep ==
  ASSUME IInv, RunInv, Update \/ Disruption PROVE RunInv'
<1> USE DEF At, Goto, End
<1>1. DOMAIN run = {"at", "candidate", "unwarmed", "lease", "attempt", "pushed", "undrafted", "calm"}
  BY DEF IInv, BranchType
<1>2. ASSUME run'.calm = FALSE PROVE RunInv'
  BY <1>2 DEF RunInv
<1>3. ASSUME run' = Idle PROVE RunInv'
  BY <1>2, <1>3 DEF Idle
<1>4. ASSUME NEW here \in {"push", "queue", "dequeue"}, run.at = here, run'.calm = run.calm PROVE RunInv'
  BY <1>2, <1>4 DEF RunInv
<1>5. CASE StartRun \/ CancelRun
  BY <1>2, <1>5 DEF StartRun, CancelRun, Start, Idle
<1>6. CASE List
  <2> DEFINE there == branch = run.candidate
  <2>1. /\ run'.at = (IF branch = run.candidate THEN "find" ELSE "push")
        /\ run'.candidate = run.candidate /\ run'.calm = (branch = run.candidate) /\ branch' = branch
    BY <1>1, <1>6 DEF List, requestVars, pullVars
  <2>2. QED BY <2>1 DEF RunInv
<1>7. CASE Push
  <2>1. /\ run'.at = "find" /\ run'.calm = TRUE /\ run'.candidate = run.candidate
        /\ branch' = run.candidate
    BY <1>1, <1>7 DEF Push, PushArrives, PushTo
  <2>2. QED BY <2>1 DEF RunInv
<1>8. CASE PushRefused \/ PushLocked \/ ReadEntry \/ DequeueEntry \/ PushTransient
  <2>1. run' = Idle \/ run'.calm = run.calm
    BY <1>1, <1>8 DEF PushRefused, PushLocked, ReadEntry, DequeueEntry, PushTransient, Retry
  <2>2. run.at \in {"push", "queue", "dequeue"}
    BY <1>8 DEF PushRefused, PushLocked, ReadEntry, DequeueEntry, PushTransient
  <2>3. QED BY <1>3, <1>4, <2>1, <2>2
<1>9. CASE FindPull
  <2> DEFINE ready == open /\ ~ draft
  <2>1. /\ run'.at = (IF open THEN "edit" ELSE "create") /\ run'.undrafted = ready
        /\ run'.candidate = run.candidate /\ run'.calm = run.calm
        /\ branch' = branch /\ open' = open /\ draft' = draft
    <3> HIDE DEF ready
    <3>1. run' = [run EXCEPT !.at = IF open THEN "edit" ELSE "create", !.undrafted = ready]
      BY <1>9 DEF FindPull, ready
    <3>2. QED BY <1>1, <1>9, <3>1 DEF FindPull, requestVars, pullVars
  <2>2. run'.at = "edit" => open
    BY <2>1
  <2>3. run'.at = "edit" /\ ~ draft => run'.undrafted
    BY <2>1, <2>2
  <2>4. run'.at \in {"edit", "create"}
    BY <2>1
  <2>5. run'.calm \in BOOLEAN /\ (run'.calm => branch' = run'.candidate)
    BY <2>1 DEF RunInv
  <2>6. QED BY <2>1, <2>2, <2>3, <2>4, <2>5 DEF RunInv
<1>10. CASE EditPull
  <2>1. CASE run' = Idle
    BY <1>3, <2>1
  <2>2. CASE run' = [run EXCEPT !.at = "undo"]
    BY <1>1, <1>10, <2>2 DEF EditPull, RunInv, requestVars, pullVars
  <2>3. QED BY <1>10, <2>1, <2>2 DEF EditPull
<1>11. CASE UndoReady \/ CreatePull \/ CreateRefused \/ FailRun
  BY <1>3, <1>11 DEF UndoReady, CreatePull, CreateRefused, FailRun
<1>12. QED
  BY <1>5, <1>6, <1>7, <1>8, <1>9, <1>10, <1>11 DEF Update, Disruption

LEMMA RunInvariance == Spec => []RunInv
<1>1. Init => RunInv
  BY DEF Init, BranchInit, Idle, RunInv
<1>2. IInv /\ RunInv /\ [Next]_vars => RunInv'
  <2> SUFFICES ASSUME IInv, RunInv, [Next]_vars PROVE RunInv'
    OBVIOUS
  <2>1. CASE UNCHANGED vars
    BY <2>1 DEF vars, requestVars, pullVars, runVars, RunInv
  <2>2. CASE RunWatches
    BY <2>2, WatchedRun
  <2>3. CASE Update \/ Disruption
    BY <2>3, RunStep
  <2>4. QED BY <2>1, <2>2, <2>3 DEF Next
<1>3. QED BY <1>1, <1>2, Invariance, PTL DEF Spec

\* A run nobody disturbed leaves an open request for its candidate, a draft if
\* its prewarm failed (open-update-pr.sh, from the push on).
THEOREM RunLeavesRequest == Spec => RunPublishes
<1> DEFINE Published == (EditPull \/ UndoReady \/ CreatePull) /\ run' = Idle /\ run.calm =>
                          open' /\ branch' = run.candidate /\ (run.unwarmed => draft')
<1>1. RunInv /\ [Next]_vars => [Published]_vars
  <2> SUFFICES ASSUME RunInv, EditPull \/ UndoReady \/ CreatePull, run' = Idle, run.calm
               PROVE  open' /\ branch' = run.candidate /\ (run.unwarmed => draft')
    OBVIOUS
  <2>1. branch = run.candidate
    BY DEF RunInv
  <2>2. CASE EditPull
    <3>1. run.at = "edit" /\ open /\ open' = open /\ branch' = branch /\ draft' = draft
      BY <2>2 DEF EditPull, At, RunInv, requestVars, pullVars
    <3>2. ~ (run.unwarmed /\ run.undrafted)
      <4>1. SUFFICES ASSUME run.unwarmed /\ run.undrafted PROVE FALSE
        OBVIOUS
      <4>2. run' = [run EXCEPT !.at = "undo"]
        BY <2>2, <4>1 DEF EditPull, Goto
      <4>3. QED BY <4>2 DEF Idle
    <3>3. QED BY <2>1, <3>1, <3>2 DEF RunInv
  <2>3. CASE UndoReady
    BY <2>1, <2>3 DEF UndoReady, At, RunInv
  <2>4. CASE CreatePull
    <3>1. open' = TRUE /\ draft' = run.unwarmed /\ branch' = branch
      BY <2>4 DEF CreatePull, Creates
    <3>2. QED BY <2>1, <3>1
  <2>5. QED BY <2>2, <2>3, <2>4
<1>2. QED BY <1>1, RunInvariance, PTL DEF Spec, RunPublishes
=============================================================================
