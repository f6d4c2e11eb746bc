---------------------------- MODULE TrustedUpdate ----------------------------
(***************************************************************************)
(* ci/queue-automation.sh and ci/trusted-update.sh: the controller that    *)
(* enrols a trusted update pull request in the merge queue.  It lists the  *)
(* open candidates, checks the files of each, and then its pull request,   *)
(* its CI and, for a release, the approval of a maintainer, call by call.  *)
(* One controller runs at a time.                                          *)
(***************************************************************************)
EXTENDS UpdateRequest

VARIABLE job          \* the controller's work on this request

NoWork == [at |-> "rest", expected |-> None, seen |-> FALSE, calm |-> FALSE,
           moved |-> FALSE]

\* expected: the head listed; seen: the reviews just read approve it.  History:
\* calm, nobody touched the request since the last round of reads began; moved,
\* the branch was pushed to since the listing.
Work == [at : {"rest", "files", "pull", "ci", "authorize", "reviews", "permission",
               "reread", "reviews2", "permission2", "merge"},
         expected : Commit \cup {None}, seen : BOOLEAN, calm : BOOLEAN, moved : BOOLEAN]

TrustedInit == job = NoWork

On(point) == job.at = point
Resume(point) == job' = [job EXCEPT !.at = point]
Done == job' = NoWork
Reads == UNCHANGED requestVars

\* The pull requests queue-automation.sh takes up: open, not a draft, with the
\* branch, title and author of one kind of update.
ListCandidates ==
  /\ On("rest") /\ Reads /\ open /\ ~ draft
  /\ job' = [NoWork EXCEPT !.at = "files", !.expected = branch]

\* The changed files of the pull request as it is now.
CheckPaths ==
  /\ On("files") /\ Reads
  /\ IF open /\ branch \notin Forbidden THEN Resume("pull") ELSE Done

\* validate_pr.
Valid == open /\ ~ draft /\ branch = job.expected

ReadPull ==
  /\ On("pull") /\ Reads
  /\ IF Valid THEN Resume("ci") ELSE Done

\* The CI run of exactly the expected head.  (Faulty variant: a held run is
\* waited for like a running one.)
ReadCiWaiting ==
  /\ On("ci") /\ Reads
  /\ IF ci[job.expected] = "success"
     THEN Resume(IF policy = "automatic" THEN "reread" ELSE "reviews") ELSE Done

ReadCi ==
  /\ On("ci") /\ Reads
  /\ CASE ci[job.expected] = "held"    -> Resume("authorize")
       [] ci[job.expected] = "success" ->
            Resume(IF policy = "automatic" THEN "reread" ELSE "reviews")
       [] OTHER                        -> Done

Authorized ==
  ci' = IF ci[job.expected] = "held" THEN [ci EXCEPT ![job.expected] = "running"] ELSE ci

AuthorizeCi ==
  /\ On("authorize") /\ Done /\ Authorized
  /\ UNCHANGED <<policy, upstream, branch, open, draft, auto, queued, merged,
                 approvals, standing, changes>>

\* exact_head_reviewers: somebody's last review of exactly this head approves it.
ExactHeadReviewed(revision) == revision \in approvals

\* has_exact_head_maintainer_approval: the reviews, then the reviewer's
\* permission; twice, around the second read of the pull request.
ReadReviews(here, next) ==
  /\ On(here) /\ Reads
  /\ job' = [job EXCEPT !.at = next, !.seen = ExactHeadReviewed(job.expected)]

ReadPermission(here, next) ==
  /\ On(here) /\ Reads
  /\ IF job.seen /\ standing THEN job' = [job EXCEPT !.at = next, !.seen = FALSE] ELSE Done

\* (Faulty variant: the approval is not verified again.)
RereadOnly ==
  /\ On("reread") /\ Reads
  /\ IF Valid /\ ~ auto THEN job' = [job EXCEPT !.at = "merge", !.calm = TRUE] ELSE Done

Reread ==
  /\ On("reread") /\ Reads
  /\ IF Valid /\ ~ auto
     THEN job' = [job EXCEPT !.at = IF policy = "automatic" THEN "merge" ELSE "reviews2",
                             !.calm = TRUE]
     ELSE Done

\* gh pr merge --auto --match-head-commit.  When the call fails the controller
\* reads the request again only to report.
Enrolls == open /\ branch = job.expected

Enroll ==
  /\ On("merge") /\ Done
  /\ auto' = (auto \/ Enrolls)
  /\ UNCHANGED <<policy, upstream, branch, open, draft, queued, merged, ciVars, changes>>

\* A call fails, or the controller dies; enrolment or authorisation may have
\* been applied.
FailWork ==
  /\ ~ On("rest") /\ Done
  /\ Change
  /\ \/ UNCHANGED <<auto, ci>>
     \/ On("merge") /\ auto' = (auto \/ Enrolls) /\ UNCHANGED ci
     \/ On("authorize") /\ Authorized /\ UNCHANGED auto
  /\ UNCHANGED <<policy, upstream, branch, open, draft, queued, merged, approvals, standing>>

Reconcile ==
  \/ ListCandidates \/ CheckPaths \/ ReadPull \/ ReadCi \/ AuthorizeCi
  \/ ReadReviews("reviews", "permission") \/ ReadPermission("permission", "reread")
  \/ Reread
  \/ ReadReviews("reviews2", "permission2") \/ ReadPermission("permission2", "merge")
  \/ Enroll
=============================================================================
