---------------------------- MODULE UpdateBranch ----------------------------
(***************************************************************************)
(* ci/open-update-pr.sh: one updater run brings its candidate to the       *)
(* update branch with a leased push and leaves a pull request for it.  The *)
(* update workflows cancel a run in progress when the next one starts, at  *)
(* any point; a push already sent may still arrive.                        *)
(***************************************************************************)
EXTENDS UpdateRequest

CONSTANT Attempts     \* XO_NIXPKG_RETRY_ATTEMPTS

ASSUME AttemptsAssumption == Attempts \in Nat \ {0}

VARIABLES
  run,          \* the updater run
  late          \* a cancelled run's push that is still under way, or None

runVars == <<run, late>>

Idle == [at |-> "idle", candidate |-> None, unwarmed |-> FALSE, lease |-> None,
         attempt |-> 0, pushed |-> FALSE, undrafted |-> FALSE, calm |-> FALSE]

\* calm is a history field: nobody else touched the request since the run
\* found its candidate on the branch.
Run == [at : {"idle", "list", "push", "queue", "dequeue", "find", "edit", "undo", "create"},
        candidate : Candidate \cup {None}, unwarmed : BOOLEAN,
        lease : Commit \cup {None}, attempt : 0..Attempts,
        pushed : BOOLEAN, undrafted : BOOLEAN, calm : BOOLEAN]

BranchInit == run = Idle /\ late = None

At(point) == run.at = point
Goto(point) == run' = [run EXCEPT !.at = point]
End == run' = Idle

\* The workflow computed a candidate that differs from main; unwarmed: its
\* prewarm build failed, so the request must be a draft.
Start ==
  /\ upstream \notin merged
  /\ \E unwarmed \in BOOLEAN :
       run' = [Idle EXCEPT !.at = "list", !.candidate = upstream, !.unwarmed = unwarmed]

StartRun == At("idle") /\ Start /\ UNCHANGED <<requestVars, late>>

\* A manual dispatch cancels the run in progress.
CancelRun ==
  /\ ~ At("idle") /\ Start /\ Change
  /\ late' \in {late} \cup 
               {IF At("push") THEN [candidate |-> run.candidate, lease |-> run.lease] ELSE late}
  /\ UNCHANGED pullVars

\* ls-remote, and the comparison of the fetched head's tree with the candidate.
List ==
  /\ At("list") /\ UNCHANGED <<requestVars, late>>
  /\ run' = [run EXCEPT !.lease = branch, !.attempt = 1,
                        !.at = IF branch = run.candidate THEN "find" ELSE "push",
                        !.calm = branch = run.candidate]

\* --force-with-lease: git refuses the push unless the branch is what the run
\* listed.  A run whose earlier push arrived without its answer finds the
\* branch up to date.
UpToDate == run.pushed /\ branch = run.candidate
Leased == UpToDate \/ branch = run.lease
Locked == ~ UpToDate /\ queued # None

PushArrives == PushTo(run.candidate) /\ UNCHANGED <<open, draft, auto, queued>>

\* (Faulty variant: the push is forced.)
PushUnleased ==
  /\ At("push") /\ ~ Locked /\ UNCHANGED changes
  /\ PushArrives
  /\ run' = [run EXCEPT !.at = "find", !.calm = TRUE]
  /\ UNCHANGED <<policy, upstream, merged, approvals, standing, late>>

Push ==
  /\ At("push") /\ Leased /\ ~ Locked /\ UNCHANGED changes
  /\ PushArrives
  /\ run' = [run EXCEPT !.at = "find", !.calm = TRUE]
  /\ UNCHANGED <<policy, upstream, merged, approvals, standing, late>>

PushRefused ==
  /\ At("push") /\ ~ Leased /\ End /\ UNCHANGED <<requestVars, late>>

\* The branch is in the merge queue: dequeue, unless no attempt would be left.
PushLocked ==
  /\ At("push") /\ Leased /\ Locked /\ UNCHANGED <<requestVars, late>>
  /\ IF run.attempt = Attempts THEN End ELSE Goto("queue")

\* A transient failure, with the push applied or not.
PushTransient ==
  /\ At("push") /\ Change
  /\ \/ UNCHANGED <<branch, ci, open, draft, auto, queued>>
     \/ Leased /\ ~ Locked /\ PushArrives
  /\ run' = IF run.attempt = Attempts THEN Idle
            ELSE [run EXCEPT !.attempt = @ + 1, !.pushed = @ \/ branch' # branch]
  /\ UNCHANGED <<policy, upstream, merged, approvals, standing, late>>

Retry == run' = [run EXCEPT !.at = "push", !.attempt = @ + 1]

\* dequeue_update_pr_if_needed: the open request, then its queue entry, then
\* the mutation, which takes out whatever entry is there by then.  (One that
\* fails ends the run: FailRun, applied or not.)
ReadEntry ==
  /\ At("queue") /\ UNCHANGED <<requestVars, late>>
  /\ IF ~ open THEN End ELSE IF queued = None THEN Retry ELSE Goto("dequeue")

DequeueEntry ==
  /\ At("dequeue") /\ UNCHANGED changes
  /\ auto' = FALSE /\ queued' = None /\ Retry
  /\ UNCHANGED <<policy, upstream, branch, open, draft, merged, ciVars, late>>

\* The request of the branch: edited, made a draft, or created.  (Faulty
\* variant: a request that was once created is taken to be open.)
FindPullAssumed ==
  /\ At("find") /\ UNCHANGED <<requestVars, late>>
  /\ run' = [run EXCEPT !.at = IF ci[branch] = "none" THEN "create" ELSE "edit"]

FindPull ==
  /\ At("find") /\ UNCHANGED <<requestVars, late>>
  /\ run' = [run EXCEPT !.at = IF open THEN "edit" ELSE "create",
                        !.undrafted = open /\ ~ draft]

\* (Faulty variant: an existing request is never made a draft.)
EditPullOnly == At("edit") /\ End /\ UNCHANGED <<requestVars, late>>

EditPull ==
  /\ At("edit") /\ UNCHANGED <<requestVars, late>>
  /\ IF run.unwarmed /\ run.undrafted THEN Goto("undo") ELSE End

\* A draft cannot stay in the queue.
UndoReady ==
  /\ At("undo") /\ UNCHANGED changes /\ End
  /\ IF open THEN draft' = TRUE /\ auto' = FALSE /\ queued' = None
             ELSE UNCHANGED <<draft, auto, queued>>
  /\ UNCHANGED <<policy, upstream, branch, open, merged, ciVars, late>>

\* GitHub refuses a second request, and one without a difference to main.
Creates ==
  /\ ~ open /\ branch # None /\ branch \notin merged
  /\ open' = TRUE /\ draft' = run.unwarmed
  /\ \E s \in {"held", "running"} :
       ci' = IF ci[branch] = "none" THEN [ci EXCEPT ![branch] = s] ELSE ci

CreatePull ==
  /\ At("create") /\ UNCHANGED changes /\ End /\ Creates
  /\ UNCHANGED <<policy, upstream, branch, auto, queued, merged, approvals, standing, late>>

CreateRefused ==
  /\ At("create") /\ (open \/ branch = None \/ branch \in merged)
  /\ End /\ UNCHANGED <<requestVars, late>>

\* The run fails: a call fails for good, or its runner dies.  The effect of a
\* creation or a dequeue may have been applied.
FailRun ==
  /\ ~ At("idle") /\ Change /\ End
  /\ \/ UNCHANGED <<open, draft, ci, auto, queued>>
     \/ At("create") /\ Creates /\ UNCHANGED <<auto, queued>>
     \/ At("dequeue") /\ auto' = FALSE /\ queued' = None /\ UNCHANGED <<open, draft, ci>>
  /\ UNCHANGED <<policy, upstream, branch, merged, approvals, standing, late>>

\* The push of a cancelled run arrives after all, or does not.
LatePush ==
  /\ late # None /\ late' = None /\ UNCHANGED changes
  /\ \/ UNCHANGED <<branch, ci>>
     \/ branch = late.lease /\ queued = None /\ PushTo(late.candidate)
  /\ UNCHANGED <<policy, upstream, open, draft, auto, queued, merged, approvals, standing>>

Update ==
  \/ StartRun \/ List \/ Push \/ PushRefused \/ PushLocked \/ ReadEntry
  \/ DequeueEntry \/ FindPull \/ EditPull \/ UndoReady \/ CreatePull
  \/ CreateRefused

Disruption == CancelRun \/ PushTransient \/ FailRun
=============================================================================
