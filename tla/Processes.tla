------------------------------ MODULE Processes ------------------------------
(***************************************************************************)
(* Two ways the CI starts and stops processes: the plan runner and its     *)
(* workers, and supervised commands.  They share nothing; a behaviour is   *)
(* about one of them.                                                      *)
(***************************************************************************)
EXTENDS PlanRunner, Supervision

VARIABLE scene      \* "plan" or "supervised"

vars == <<scene, runnerVars, workerVars, supervisionVars>>

Init ==
  /\ scene \in {"plan", "supervised"} /\ PlanInit /\ SupervisionInit
  /\ scene = "plan" => command = Script /\ piped /\ stubborn = {}
  /\ scene # "plan" => jobs = CHOOSE j \in Parallel : TRUE
  /\ scene # "plan" => asked /\ strict

InPlan(step) ==
  scene = "plan" /\ step /\ UNCHANGED <<scene, supervisionVars>>
Supervised(step) ==
  scene = "supervised" /\ step /\ UNCHANGED <<scene, runnerVars, workerVars>>

Next == InPlan(RunPlan) \/ Supervised(Supervise)

Spec == Init /\ [][Next]_vars

\* Processes that may go on do; a build, a stubborn process or one that awaits
\* another need not end.
FairSpec ==
  /\ Spec
  /\ WF_vars(InPlan(RunnerStep))
  /\ \A t \in Target : WF_vars(InPlan(WorkerStep(t) \/ WorkerTold(t)))
  /\ WF_vars(Supervised(SupervisorStep))

------------------------------------------------------------------------------
(* Properties.                                                             *)

\* Links are made only of a complete plan: in whatever order workers end or
\* fail, a link means that every build of the plan succeeded, and that never
\* more workers lived than there are slots.  A manifest that was installed whole
\* says what became of every build.  The runner as packaged makes no link
\* without the manifest it was asked for; run from its file it may, since
\* nothing looks at whether the manifest could be installed.
LinksComplete ==
  /\ Cardinality({t \in Target : Live(t)}) <= jobs
  /\ manifest = <<>> \/ manifest = build
  /\ links # {} =>
       /\ \A t \in Target : build[t] = "success"
       /\ strict /\ asked => manifest = build

\* A cancelled runner leaves no build running, but for one whose process id was
\* not yet kept when the signal came.
CancelledStops ==
  at = "exited" /\ signal = "taken" =>
    \A t \in Target : build[t] = "running" => t \in unrecorded

\* A cancelled runner does not wait for its builds.
CancelledEnds == signal = "pending" ~> at = "exited"

\* A supervisor returns when nothing of the command is left, detached, stubborn
\* or interrupted as it may be, but for a transport that was started after the
\* first look at the family and not found by the second.
FamilyGone == outer = "done" => up \subseteq (IF started = "missed" THEN {Transport} ELSE {})

\* And it returns, though none of the processes ends by itself.
CleanupEnds == outer # "run" ~> outer = "done" \/ started = "missed"
=============================================================================
