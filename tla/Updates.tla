------------------------------- MODULE Updates -------------------------------
(***************************************************************************)
(* An update pull request from the upstream release to main: updater runs, *)
(* the enrolling controller, the merge queue and people, step by step.     *)
(***************************************************************************)
EXTENDS UpdateBranch, TrustedUpdate

vars == <<requestVars, runVars, job>>

\* The history fields of the two programs while something else acts.
Still == UNCHANGED <<branch, open, draft, approvals, standing>>
RunWatches == run' = [run EXCEPT !.calm = @ /\ Still]
JobWatches == job' = [job EXCEPT !.calm = @ /\ Still,
                                 !.moved = @ \/ (~ On("rest") /\ branch' # branch)]

Init == RequestInit /\ BranchInit /\ TrustedInit

Next ==
  \/ (People \/ GitHub) /\ UNCHANGED late /\ RunWatches /\ JobWatches
  \/ LatePush /\ RunWatches /\ JobWatches
  \/ (Update \/ Disruption) /\ JobWatches
  \/ (Reconcile \/ FailWork) /\ UNCHANGED late /\ RunWatches

Spec == Init /\ [][Next]_vars

\* Updaters start on a schedule and the controller on a schedule and on events;
\* both go on once started.  CI ends, and a head that keeps coming back to the
\* merge queue is merged in the end.  People need never do anything.
FairSpec ==
  /\ Spec
  /\ WF_vars(Update /\ JobWatches)
  /\ WF_vars(Reconcile /\ UNCHANGED late /\ RunWatches)
  /\ WF_vars(Enqueue /\ UNCHANGED late /\ RunWatches /\ JobWatches)
  /\ SF_vars(Merge /\ UNCHANGED late /\ RunWatches /\ JobWatches)
  /\ \A c \in Commit : WF_vars(FinishCi(c) /\ UNCHANGED late /\ RunWatches /\ JobWatches)

------------------------------------------------------------------------------
(* Properties.                                                             *)

\* What people pushed to the branch is replaced only by a run that listed it:
\* neither a retry, nor a dequeue in between, nor the push of a cancelled run
\* replaces a commit that run has not seen.
ForeignKept ==
  [][(branch \in Foreign /\ branch' \in Candidate) =>
       branch = run.lease \/ (late # None /\ branch = late.lease)]_vars

\* A run that succeeds leaves an open request for its candidate, a draft if
\* its prewarm failed, unless somebody else touched the branch, the request or
\* its reviews after the candidate was found or put on the branch.
RunPublishes ==
  [][(EditPull \/ UndoReady \/ CreatePull) /\ run' = Idle /\ run.calm =>
       open' /\ branch' = run.candidate /\ (run.unwarmed => draft')]_vars

\* The controller enrols only a head whose own CI run succeeded and whose files
\* it checked, unless the branch was pushed to during the pass; and unless
\* somebody intervened after the last round of reads began, the request is no
\* draft and, under the release policy, a maintainer approves exactly that head.
EnrolledValidated ==
  [][auto' /\ ~ auto =>
       /\ ci[branch] = "success"
       /\ job.moved \/ branch \notin Forbidden
       /\ job.calm =>
            /\ ~ draft
            /\ policy = "trusted-maintainer" => branch \in approvals /\ standing]_vars

\* In the end the newest upstream state is in main or in an open request: no
\* cancelled, failed or locked-out run leaves the branch so that later runs
\* cannot publish.
CandidateArrives == <>[](upstream \in merged \/ (open /\ branch = upstream))

\* Nor does a request that meets its policy stay outside the queue, or one of
\* an allowed head without CI.
Trusted == open /\ ~ draft /\ branch \notin Forbidden
RequestServed ==
  <>[](Trusted =>
         /\ ci[branch] # "held"
         /\ ci[branch] = "success" /\
              (policy = "automatic" \/ (branch \in approvals /\ standing)) => auto)
=============================================================================
