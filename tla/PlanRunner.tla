------------------------------ MODULE PlanRunner ------------------------------
(***************************************************************************)
(* nix/flake-plan-runner.sh: it builds the targets of one plan in at most  *)
(* "jobs" worker processes, and makes result links only when all succeed.  *)
(* Bash runs a trap between two commands, or out of a wait.  As it is      *)
(* packaged (writeShellApplication) it is strict: a command that fails     *)
(* ends it; run from its file, as tests do, it goes on.                    *)
(***************************************************************************)
EXTENDS Naturals, FiniteSets, FiniteSetsExt

CONSTANTS
  N,            \* targets of the plan, in its order
  Linked,       \* those that name a result link
  Parallel      \* values of --jobs: 1 and 2

Target == 1..N

ASSUME PlanAssumption ==
  N \in Nat \ {0} /\ Linked \subseteq Target /\ Parallel \subseteq Nat \ {0}

VARIABLES
  jobs,
  asked,        \* --manifest was given
  strict,       \* errexit is set
  at,           \* the runner's next command
  launched,     \* targets whose worker was started: 1..launched
  active,       \* active_pids
  signal,       \* SIGTERM or SIGINT to the runner: "none", "pending", "taken"
  told,         \* workers the runner sent SIGTERM to
  worker, build,
  result,       \* result-N.json and timing-N.json, "none" until both are written
  manifest,     \* what a whole installed manifest says, or <<>>
  links,        \* result links made by this run
  tried,        \* targets whose link was made or could not be made
  unrecorded    \* history: started when a signal came, but its process id not yet
                \* kept, by the runner or by the build's worker

linkVars == <<links, tried>>
runnerVars == <<jobs, asked, strict, at, launched, active, signal, told, manifest, linkVars, unrecorded>>
workerVars == <<worker, build, result>>

WorkerState == {"none", "start", "armed", "started", "waiting", "report", "exited"}
BuildState == {"none", "running", "success", "failure", "killed"}

PlanInit ==
  /\ jobs \in Parallel /\ asked \in BOOLEAN /\ strict \in BOOLEAN
  /\ at = "launch" /\ launched = 0 /\ active = {}
  /\ signal = "none" /\ told = {} /\ manifest = <<>> /\ links = {} /\ tried = {}
  /\ unrecorded = {}
  /\ worker = [t \in Target |-> "none"] /\ build = [t \in Target |-> "none"]
  /\ result = [t \in Target |-> "none"]

Live(t) == worker[t] \notin {"none", "exited"}
Run(point) == at = point /\ signal # "pending"
Goto(point) == at' = point
Same(kept) == UNCHANGED <<jobs, asked, strict, signal, unrecorded, told, kept>>

Launch ==
  /\ Run("launch") /\ launched < N
  /\ launched' = launched + 1 /\ worker' = [worker EXCEPT ![launched + 1] = "start"]
  /\ Goto("record") /\ Same(<<active, manifest, linkVars, build, result>>)

Record ==
  /\ Run("record") /\ active' = active \cup {launched}
  /\ Goto(IF Cardinality(active') >= jobs THEN "wait" ELSE "launch")
  /\ Same(<<launched, manifest, linkVars, workerVars>>)

\* wait_for_worker: whichever worker ended, or, when Bash had already reaped
\* one, the first of those recorded.
WaitForWorker ==
  /\ Run("wait")
  /\ \E t \in {u \in active : worker[u] = "exited"} : active' = active \ {t}
  /\ Goto("launch") /\ Same(<<launched, manifest, linkVars, workerVars>>)

Drain ==
  /\ Run("launch") /\ launched = N /\ \A t \in active : ~ Live(t)
  /\ active' = {} /\ Goto("collect") /\ Same(<<launched, manifest, linkVars, workerVars>>)

\* Every worker must have reported; the manifest keeps the plan's order.
Collect ==
  /\ Run("collect")
  /\ Goto(IF \A t \in Target : result[t] # "none" THEN "manifest" ELSE "cleanup")
  /\ Same(<<launched, active, manifest, linkVars, workerVars>>)

\* Files are written: the manifest if it is asked for, and others; one that
\* cannot be written ends a strict runner.
Write(next) ==
  /\ Run("manifest")
  /\ \E written, failed \in BOOLEAN :
       /\ written => asked
       /\ asked /\ ~ written => failed
       /\ manifest' = IF written THEN result ELSE <<>>
       /\ Goto(IF failed /\ strict THEN "cleanup" ELSE next)
  /\ Same(<<launched, active, linkVars, workerVars>>)

\* (Faulty variant: failures are reported and forgotten.)
InstallForgiving == Write("links")

Install ==
  Write(IF \E t \in Target : result[t] = "failure" THEN "cleanup" ELSE "links")

\* The next link is made; or it is refused, as another file is there or the
\* build has not one output; or making it fails, which a strict runner heeds.
MakeLink ==
  /\ Run("links") /\ Same(<<launched, active, manifest, workerVars>>)
  /\ \/ Goto("cleanup") /\ UNCHANGED linkVars
     \/ LET t == Min(Linked \ tried)
        IN /\ tried # Linked /\ tried' = tried \cup {t} /\ UNCHANGED at
           /\ \/ links' = links \cup {t}
              \/ ~ strict /\ UNCHANGED links

Cancel ==
  /\ signal = "none" /\ at \notin {"cleanup", "stop", "exited"} /\ signal' = "pending"
  /\ UNCHANGED <<jobs, asked, strict, at, launched, active, told, manifest, linkVars, unrecorded, workerVars>>

TakeSignal ==
  /\ signal = "pending" /\ signal' = "taken" /\ Goto("cleanup")
  /\ unrecorded' = unrecorded \cup {t \in Target : Live(t) /\ t \notin active}
  /\ UNCHANGED <<jobs, asked, strict, launched, active, told, manifest, linkVars, workerVars>>

\* cleanup: the recorded workers are told to stop, and waited for.  (Faulty
\* variants: they are not told; they are not waited for.)
CleanupUntold ==
  /\ at = "cleanup" /\ Goto("stop")
  /\ UNCHANGED <<jobs, asked, strict, launched, active, signal, told, manifest, linkVars, unrecorded, workerVars>>

Cleanup ==
  /\ at = "cleanup" /\ told' = active /\ Goto("stop")
  /\ UNCHANGED <<jobs, asked, strict, launched, active, signal, manifest, linkVars, unrecorded, workerVars>>

StopAtOnce ==
  /\ at = "stop" /\ Goto("exited") /\ active' = {}
  /\ Same(<<launched, manifest, linkVars, workerVars>>)

Stop ==
  /\ at = "stop" /\ (\A t \in active : ~ Live(t)) /\ Goto("exited") /\ active' = {}
  /\ Same(<<launched, manifest, linkVars, workerVars>>)

\* build_target: set the trap, start the build, note its process, wait for it,
\* report.  The report may fail to be written.
WorkerStep(t) ==
  /\ t \notin told /\ UNCHANGED runnerVars
  /\ \/ /\ worker[t] = "start" /\ worker' = [worker EXCEPT ![t] = "armed"] /\ UNCHANGED <<build, result>>
     \/ /\ worker[t] = "armed" /\ worker' = [worker EXCEPT ![t] = "started"]
        /\ build' = [build EXCEPT ![t] = "running"] /\ UNCHANGED result
     \/ /\ worker[t] = "started" /\ worker' = [worker EXCEPT ![t] = "waiting"] /\ UNCHANGED <<build, result>>
     \/ /\ worker[t] = "waiting" /\ build[t] # "running"
        /\ worker' = [worker EXCEPT ![t] = "report"] /\ UNCHANGED <<build, result>>
     \/ /\ worker[t] = "report" /\ worker' = [worker EXCEPT ![t] = "exited"] /\ UNCHANGED build
        /\ \E written \in {build[t], "none"} : result' = [result EXCEPT ![t] = written]

\* SIGTERM: the trap stops the build that was noted.
WorkerTold(t) ==
  /\ t \in told /\ Live(t)
  /\ worker' = [worker EXCEPT ![t] = "exited"]
  /\ unrecorded' = IF worker[t] = "started" THEN unrecorded \cup {t} ELSE unrecorded
  /\ UNCHANGED <<jobs, asked, strict, at, launched, active, signal, told, manifest, linkVars, result>>
  /\ build' = IF worker[t] = "waiting" /\ build[t] = "running"
              THEN [build EXCEPT ![t] = "killed"] ELSE build

BuildEnds(t) ==
  /\ build[t] = "running" /\ \E outcome \in {"success", "failure"} : build' = [build EXCEPT ![t] = outcome]
  /\ UNCHANGED <<runnerVars, worker, result>>

RunnerStep ==
  \/ Launch \/ Record \/ WaitForWorker \/ Drain \/ Collect \/ Install \/ MakeLink
  \/ TakeSignal \/ Cleanup \/ Stop

RunPlan ==
  \/ RunnerStep \/ Cancel
  \/ \E t \in Target : WorkerStep(t) \/ WorkerTold(t) \/ BuildEnds(t)
=============================================================================
