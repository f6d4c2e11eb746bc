---------------------------- MODULE DecisionQueue ----------------------------
(***************************************************************************)
(* How decisions reach the ledger on protected main: reconcile, propose,   *)
(* queue_proposal and validate_proposal_packet of                          *)
(* ci/decisions/reconciliation.py, the parent validation of the authority  *)
(* check that they share, and the merge queue of .github/rulesets/main.json. *)
(*                                                                         *)
(* A reconciliation drafts a decision that supersedes the one in force,    *)
(* opens a pull request for it, and asks for its merge.  The check of the  *)
(* pull request's head, and then of its merge-queue commit, selects the    *)
(* parent again on the main of that moment.  The queue builds the first    *)
(* Capacity commits on top of each other and merges the first one whose    *)
(* check succeeded.  Reconciliations run one at a time.                    *)
(*                                                                         *)
(* Abstracted: approval and the worker's other reads (AuthorityCheck), the *)
(* packet, which is immutable.  Every proposal here finds an approver, and *)
(* a head that somebody pushed finds none.  A read of main's head and then *)
(* of its ledger is one read.                                              *)
(***************************************************************************)
EXTENDS DecisionLedger, SequencesExt

CONSTANTS
  Capacity,   \* max_entries_to_build
  MaxFaults   \* bound: runs that die, requests with no answer

ASSUME QueueAssumption == Capacity \in Nat \ {0} /\ MaxFaults \in Nat

VARIABLES
  main,      \* the decisions on protected main
  proposal,  \* per decision: its branch and pull request
  auto,      \* the decisions whose pull request has auto-merge enabled
  run,       \* the reconciliation under way and the decision it is about
  late,      \* its requests that had no answer and may still take effect
  faults,
  queue,     \* the decisions whose merge commits are queued, first to last
  checks,    \* per commit: the latest check and the worker computing the next
  overtaken  \* history: a decision merged onto another ledger than it was checked on

runVars == <<run, auto, late, faults>>
vars == <<main, proposal, queue, checks, overtaken, runVars>>

\* "closed": or somebody pushed to its branch.
Stage == {"none", "branch", "open", "closed", "merged"}

Idle == [of |-> NoDecision, at |-> "idle"]
Step == {"drafted", "validated", "open", "state", "arm", "read back", "ready", "enqueue"}
Run == [of : Decision, at : Step] \cup {Idle}

\* A proposal's branch has one commit, and the queue at most one for it.
Commit == Decision \X {"head", "queued"}

\* "read" is the ledger a running worker has read, "basis" the one the posted
\* check was computed from.
Point == {"idle", "verify", "post"}
Check == [at : Point, read : SUBSET Decision,
          posted : {"none", "success", "failure"}, basis : SUBSET Decision]

Unchecked == [at |-> "idle", read |-> {}, posted |-> "none", basis |-> {}]

Enqueued(d) == d \in ToSet(queue)

\* validate_proposal_parent and, for revocations, validate_proposal_packet:
\* the decision supersedes the one in force, and nothing else.
\* (Faulty variants: the parent is not looked at; any parents on the ledger
\* will do.)
SelectsAny(d, ledger) == TRUE
SelectsStale(d, ledger) == Parents[d] \subseteq ledger

Selects(d, ledger) ==
  LET active == IF Kind[d] = "release-product" THEN ActiveRelease(ledger)
                ELSE ActiveSecurity(ledger)
  IN /\ active # Invalid
     /\ Parents[d] = IF active = NoDecision THEN {} ELSE {active}
     /\ Kind[d] = "security-revocation" => Accepts(active) /\ Disposition[d] = "revoked"

Ambiguous == ActiveSecurity(main) = Invalid \/ ActiveRelease(main) = Invalid

Init ==
  /\ main \in SUBSET Decision /\ ~ Ambiguous
  /\ proposal = [d \in Decision |-> IF d \in main THEN "merged" ELSE "none"]
  /\ queue = <<>> /\ overtaken = FALSE /\ checks = [c \in Commit |-> Unchecked]
  /\ run = Idle /\ auto = {} /\ late = {} /\ faults = 0

------------------------------------------------------------------------------
(* Reconciliation.                                                         *)

Elsewhere == UNCHANGED <<main, queue, checks, overtaken>>
Quiet == UNCHANGED <<auto, late, faults>>

On(point) == run.at = point
Go(point) == run' = [run EXCEPT !.at = point]
End == run' = Idle
Fault == faults < MaxFaults /\ faults' = faults + 1

\* reconcile: the decision in force becomes the new decision's parent.
Draft(d) ==
  /\ On("idle") /\ Selects(d, main) /\ run' = [of |-> d, at |-> "drafted"]
  /\ UNCHANGED proposal /\ Quiet /\ Elsewhere

\* validate_proposal_packet, at its last look at main.
Validate ==
  /\ On("drafted") /\ IF Selects(run.of, main) THEN Go("validated") ELSE End
  /\ UNCHANGED proposal /\ Quiet /\ Elsewhere

\* propose, whatever main holds by now: an open pull request of the same bytes
\* is taken up.  Otherwise a branch is made, which fails if it exists, and then
\* its pull request.  One that was closed, merged or pushed to is refused.
Open ==
  LET d == run.of
  IN /\ \/ On("validated") /\ proposal[d] = "none" /\ Go("open")
           /\ proposal' = [proposal EXCEPT ![d] = "branch"]
        \/ On("validated") /\ proposal[d] = "open" /\ Go("state") /\ UNCHANGED proposal
        \/ On("validated") /\ proposal[d] \notin {"none", "open"} /\ End /\ UNCHANGED proposal
        \/ On("open") /\ Go("state") /\ proposal' = [proposal EXCEPT ![d] = "open"]
     /\ Quiet /\ Elsewhere

\* queue_state's "waiting"; mergeStateStatus is clean when the check succeeded.
Waiting(d) == proposal[d] = "open" /\ ~ Enqueued(d)
Clean(d) == Waiting(d) /\ checks[<<d, "head">>].posted = "success"

\* The reads of queue_proposal, the first two in one.  (Faulty variant:
\* auto-merge alone is trusted to queue the proposal.)
ReadTrusting ==
  LET d == run.of
  IN /\ \/ On("state") /\ IF Waiting(d) /\ d \notin auto THEN Go("arm") ELSE End
        \/ On("read back") /\ IF Waiting(d) /\ d \in auto THEN Go("ready") ELSE End
        \/ On("ready") /\ IF Clean(d) THEN Go("enqueue") ELSE End
     /\ UNCHANGED proposal /\ Quiet /\ Elsewhere

Read ==
  LET d == run.of
  IN /\ \/ On("state") /\ IF Waiting(d) THEN Go(IF d \in auto THEN "ready" ELSE "arm") ELSE End
        \/ On("read back") /\ IF Waiting(d) /\ d \in auto THEN Go("ready") ELSE End
        \/ On("ready") /\ IF Clean(d) THEN Go("enqueue") ELSE End
     /\ UNCHANGED proposal /\ Quiet /\ Elsewhere

\* gh pr merge --auto: done, refused, or unanswered; a failure is read back.
Arm ==
  LET d == run.of
  IN /\ On("arm")
     /\ \/ proposal[d] = "open" /\ auto' = auto \cup {d} /\ Go("ready") /\ UNCHANGED <<late, faults>>
        \/ proposal[d] # "open" /\ Go("read back") /\ Quiet
        \/ late' = late \cup {<<d, "arm">>} /\ Go("read back") /\ Fault /\ UNCHANGED auto
     /\ UNCHANGED proposal /\ Elsewhere

\* enqueuePullRequest, once: the read after it only decides what is reported.
RequestEntry ==
  LET d == run.of
  IN /\ On("enqueue") /\ End
     /\ \/ /\ queue' = IF Clean(d) THEN Append(queue, d) ELSE queue
           /\ UNCHANGED <<late, faults>>
        \/ late' = late \cup {<<d, "enqueue">>} /\ Fault /\ UNCHANGED queue
     /\ UNCHANGED <<main, proposal, checks, overtaken, auto>>

\* An unanswered request takes effect later, or never.
TakeEffect(d, request) ==
  /\ <<d, request>> \in late /\ late' = late \ {<<d, request>>}
  /\ \/ request = "arm" /\ proposal[d] = "open" /\ auto' = auto \cup {d} /\ UNCHANGED queue
     \/ request = "enqueue" /\ Clean(d) /\ queue' = Append(queue, d) /\ UNCHANGED auto
     \/ UNCHANGED <<auto, queue>>
  /\ UNCHANGED <<main, proposal, checks, overtaken, run, faults>>

\* Any error ends the run.
Abandon ==
  /\ ~ On("idle") /\ End /\ Fault
  /\ UNCHANGED <<proposal, auto, late>> /\ Elsewhere

\* A pull request that was closed or merged has no check to answer, no
\* auto-merge and no request that could still take effect.
Forget(d) ==
  /\ auto' = auto \ {d} /\ late' = {request \in late : request[1] # d}
  /\ checks' = [c \in Commit |-> IF c[1] = d THEN Unchecked ELSE checks[c]]

\* A person closes the pull request or pushes to its branch: propose refuses
\* both, and no call of queue_proposal goes on with either.
Leave(d) ==
  /\ Waiting(d) /\ proposal' = [proposal EXCEPT ![d] = "closed"]
  /\ Forget(d) /\ UNCHANGED <<main, queue, overtaken, run, faults>>

------------------------------------------------------------------------------
(* The authority check of a commit.                                        *)

Built == SubSeq(queue, 1, IF Len(queue) < Capacity THEN Len(queue) ELSE Capacity)
Live(c) == IF c[2] = "head" THEN proposal[c[1]] = "open" ELSE c[1] \in ToSet(Built)

At(c, point) == Live(c) /\ checks[c].at = point
Update(c, check) ==
  checks' = [checks EXCEPT ![c] = check] /\ UNCHANGED <<main, proposal, queue, overtaken>>

\* A pull request, review or merge-group event wakes a worker; one that dies
\* leaves the check as it was.  A parent that is stale already needs no packet,
\* and a revocation has none of its own.
Select(c) ==
  /\ At(c, "idle")
  /\ Update(c, [checks[c] EXCEPT !.read = main,
                  !.at = IF Selects(c[1], main) /\ Kind[c[1]] # "security-revocation"
                         THEN "verify" ELSE "post"])
  /\ UNCHANGED runVars

\* After the packet was verified: main is read again, and the parent selected
\* again if main moved.
Verify(c) ==
  At(c, "verify") /\ Update(c, [checks[c] EXCEPT !.read = main, !.at = "post"]) /\ UNCHANGED runVars

\* post_check.
Post(c) ==
  LET check == checks[c]
  IN /\ At(c, "post")
     /\ Update(c, [at |-> "idle", read |-> {}, basis |-> check.read,
                   posted |-> IF Selects(c[1], check.read) THEN "success" ELSE "failure"])
     /\ UNCHANGED runVars

Work(c) == Select(c) \/ Verify(c) \/ Post(c)

------------------------------------------------------------------------------
(* The merge queue.                                                        *)

\* A person, or GitHub for a proposal with auto-merge; it may also never do.
Enqueue(d) ==
  /\ Clean(d) /\ queue' = Append(queue, d)
  /\ UNCHANGED <<main, proposal, checks, overtaken, runVars>>

\* The commits behind a removed one are built anew, and unchecked.
Eject(i) ==
  /\ queue' = RemoveAt(queue, i)
  /\ checks' = [c \in Commit |->
       IF c[2] = "queued" /\ c[1] \in ToSet(SubSeq(queue, i, Len(queue)))
       THEN Unchecked ELSE checks[c]]
  /\ UNCHANGED <<main, proposal, overtaken, runVars>>

\* The first commit of the queue merges when its check succeeded.
Merge ==
  /\ queue # <<>>
  /\ LET d == Head(queue)
         check == checks[<<d, "queued">>]
     IN /\ check.posted = "success"
        /\ main' = main \cup {d}
        /\ proposal' = [proposal EXCEPT ![d] = "merged"]
        /\ overtaken' = (overtaken \/ check.basis # main)
        /\ Forget(d)
  /\ queue' = Tail(queue) /\ UNCHANGED <<run, faults>>

Reconcile == Validate \/ Open \/ Read \/ Arm \/ RequestEntry

Next ==
  \/ \E d \in Decision : \/ Draft(d) \/ Leave(d) \/ Enqueue(d)
                         \/ \E request \in {"arm", "enqueue"} : TakeEffect(d, request)
  \/ Reconcile \/ Abandon
  \/ \E c \in Commit : Work(c)
  \/ \E i \in DOMAIN queue : Eject(i)
  \/ Merge

Spec == Init /\ [][Next]_vars

\* Whenever a decision could be drafted a reconciliation is asked for again and
\* again, and goes on, and workers judge the heads of proposals.  People need do
\* nothing, nor need auto-merge or the queue.
ServiceSpec ==
  /\ Spec
  /\ WF_vars(Reconcile)
  /\ \A d \in Decision : SF_vars(Draft(d)) /\ WF_vars(Work(<<d, "head">>))

\* Besides, the queue's commits are judged and merged.
FairSpec ==
  /\ ServiceSpec
  /\ SF_vars(Merge) /\ \A d \in Decision : WF_vars(Work(<<d, "queued">>))

------------------------------------------------------------------------------
(* Properties.                                                             *)

\* Types; besides, a queued decision has an open proposal and is queued once,
\* and only a live commit has a worker.
TypeOK ==
  /\ main \subseteq Decision /\ overtaken \in BOOLEAN
  /\ proposal \in [Decision -> Stage]
  /\ run \in Run /\ auto \subseteq Decision /\ faults \in 0..MaxFaults
  /\ late \subseteq Decision \X {"arm", "enqueue"}
  /\ queue \in Seq(Decision) /\ IsInjective(queue)
  /\ \A d \in ToSet(queue) : proposal[d] = "open"
  /\ main = {d \in Decision : proposal[d] = "merged"}
  /\ checks \in [Commit -> Check]
  /\ \A d \in Decision : /\ d \notin ToSet(Built) => checks[<<d, "queued">>] = Unchecked
                         /\ proposal[d] # "open" => checks[<<d, "head">>] = Unchecked /\ d \notin auto

\* Types; and two decisions of a kind are in force at once only if some decision was merged onto
\* another ledger than the one its check had read: as long as no decision
\* reaches main between another's check and its merge, the check alone keeps
\* the ledger linear.
AmbiguousOnlyOvertaken == TypeOK /\ (Ambiguous => overtaken)

\* Main receives only decisions whose parents it has, in a well-formed ledger:
\* the ledger the publication gate reads, however checks, queue and
\* reconciliations interleave.
Log == INSTANCE DecisionLog
ImplementsLog == Log!Spec

\* A proposal that stays open and current is queued in the end, whatever died or
\* went unanswered before, and though auto-merge may do nothing for a proposal
\* of the App.
ProposalServed ==
  \A d \in Decision : []<>(proposal[d] = "open" /\ Selects(d, main) => Enqueued(d))

\* reconciliation.py: "An advancing ledger must pass parent selection again."
\* A decision that reaches main supersedes what is in force on main then.
MergedSelected == [][\A d \in main' \ main : Selects(d, main)]_vars

\* common.py: "Ambiguous concurrent security decisions require explicit
\* reconciliation".  An ambiguous ledger can be reconciled.
Reconciled == Ambiguous ~> ~ Ambiguous
=============================================================================
