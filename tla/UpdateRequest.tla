---------------------------- MODULE UpdateRequest ----------------------------
(***************************************************************************)
(* The update branch of one upstream source and its pull request, as       *)
(* ci/open-update-pr.sh and ci/trusted-update.sh find them on GitHub, and  *)
(* what other people and GitHub itself do to them.  GitHub's part is       *)
(* modelled from what those scripts send and expect.                       *)
(***************************************************************************)
EXTENDS Naturals, FiniteSets

CONSTANTS
  Candidate,    \* commits an updater run can produce: one per upstream state,
                \* a candidate committed again counts as the same commit
  Foreign,      \* commits people push to the update branch
  Forbidden,    \* commits that touch files outside the kind's allowlist
  None,
  MaxChanges    \* bound: upstream releases, manual runs, what people do, and failures

Commit == Candidate \cup Foreign

ASSUME UpdateAssumption ==
  /\ Candidate \cap Foreign = {} /\ Forbidden \subseteq Commit
  /\ None \notin Commit /\ MaxChanges \in Nat

VARIABLES
  policy,       \* "automatic" or "trusted-maintainer"
  upstream,     \* the candidate a run that starts now produces
  branch,       \* the head of the update branch, or None
  open, draft,  \* its pull request
  auto,         \* an auto-merge request or queue entry exists
  queued,       \* the head the merge queue holds, or None
  merged,       \* candidates main contains
  ci,           \* per commit: the state of its pull-request CI run
  approvals,    \* commits a maintainer approves
  standing,     \* that maintainer still has write permission
  changes

ciVars == <<ci, approvals, standing>>
pullVars == <<policy, upstream, branch, open, draft, auto, queued, merged, ciVars>>
requestVars == <<pullVars, changes>>

CiState == {"none", "held", "running", "success", "failure"}

RequestInit ==
  /\ policy \in {"automatic", "trusted-maintainer"}
  /\ upstream \in Candidate /\ branch = None /\ open = FALSE /\ draft = FALSE
  /\ auto = FALSE /\ queued = None /\ merged = {}
  /\ ci = [c \in Commit |-> "none"] /\ approvals = {} /\ standing = TRUE
  /\ changes = 0

\* A push starts the commit's CI, unless a first-time actor's run is held; the
\* auto-merge request stays.  Without a pull request no run starts.
PushTo(c) ==
  /\ branch' = c
  /\ \E s \in {"held", "running"} :
       ci' = IF open /\ ci[c] = "none" THEN [ci EXCEPT ![c] = s] ELSE ci

------------------------------------------------------------------------------
(* People.                                                                 *)

Change == changes < MaxChanges /\ changes' = changes + 1

ReleaseUpstream(c) ==
  /\ c # upstream /\ c \notin merged /\ upstream' = c /\ Change
  /\ UNCHANGED <<policy, branch, open, draft, auto, queued, merged, ciVars>>

\* GitHub refuses pushes to a branch in the merge queue.
PushForeign(c) ==
  /\ branch \notin {None, c} /\ queued = None /\ PushTo(c) /\ Change
  /\ UNCHANGED <<policy, upstream, open, draft, auto, queued, merged, approvals, standing>>

Close ==
  /\ open /\ open' = FALSE /\ auto' = FALSE /\ queued' = None /\ Change
  /\ UNCHANGED <<policy, upstream, branch, draft, merged, ciVars>>

Dequeue ==
  /\ auto /\ auto' = FALSE /\ queued' = None /\ Change
  /\ UNCHANGED <<policy, upstream, branch, open, draft, merged, ciVars>>

ToggleDraft ==
  /\ open /\ queued = None /\ draft' = ~ draft /\ Change
  /\ UNCHANGED <<policy, upstream, branch, open, auto, queued, merged, ciVars>>

Review ==
  /\ open
  /\ approvals' \in {approvals \cup {branch}, approvals \ {branch}} \ {approvals}
  /\ Change
  /\ UNCHANGED <<policy, upstream, branch, open, draft, auto, queued, merged, ci, standing>>

ChangeStanding ==
  /\ standing' = ~ standing /\ Change
  /\ UNCHANGED <<policy, upstream, branch, open, draft, auto, queued, merged, ci, approvals>>

People ==
  \/ \E c \in Candidate : ReleaseUpstream(c)
  \/ \E c \in Foreign : PushForeign(c)
  \/ Close \/ Dequeue \/ ToggleDraft \/ Review \/ ChangeStanding

------------------------------------------------------------------------------
(* GitHub: CI, the merge queue.                                            *)

FinishCi(c) ==
  /\ ci[c] = "running" /\ \E s \in {"success", "failure"} : ci' = [ci EXCEPT ![c] = s]
  /\ UNCHANGED <<policy, upstream, branch, open, draft, auto, queued, merged,
                 approvals, standing, changes>>

Enqueue ==
  /\ auto /\ ~ draft /\ queued = None /\ ci[branch] = "success"
  /\ queued' = branch
  /\ UNCHANGED <<policy, upstream, branch, open, draft, auto, merged, ciVars, changes>>

\* A merged request's branch may be deleted with it.
Merge ==
  /\ queued # None
  /\ merged' = merged \cup {queued}
  /\ branch' \in {None, branch}
  /\ open' = FALSE /\ auto' = FALSE /\ queued' = None
  /\ UNCHANGED <<policy, upstream, draft, ciVars, changes>>

GitHub == (\E c \in Commit : FinishCi(c)) \/ Enqueue \/ Merge
=============================================================================
