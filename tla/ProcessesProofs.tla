--------------------------- MODULE ProcessesProofs ---------------------------
(***************************************************************************)
(* Proofs about the plan runner, for every plan, set of links and number   *)
(* of jobs, and about supervised commands, for every number of calls.      *)
(***************************************************************************)
EXTENDS Processes, FiniteSetTheorems, TLAPS

Occupied == {t \in Target : Live(t)}

------------------------------------------------------------------------------
(* The plan runner.                                                        *)

PlanType ==
  /\ jobs \in Nat \ {0} /\ launched \in 0..N
  /\ at \in {"launch", "record", "wait", "collect", "manifest", "links", "cleanup", "stop", "exited"}
  /\ at = "record" => launched > 0
  /\ active \subseteq Target /\ signal \in {"none", "pending", "taken"}
  /\ worker \in [Target -> WorkerState] /\ build \in [Target -> BuildState]
  /\ result \in [Target -> {"none", "success", "failure"}]

\* A target's worker, build and report keep step; a build without a live worker
\* was not yet recorded.
Stages ==
  \A t \in Target :
    /\ t > launched => worker[t] = "none"
    /\ worker[t] \in {"none", "start", "armed"} => build[t] = "none"
    /\ worker[t] = "report" => build[t] \in {"success", "failure"}
    /\ worker[t] \in {"started", "waiting"} => build[t] \in {"running", "success", "failure"}
    /\ build[t] = "running" => Live(t) \/ t \in unrecorded
    /\ result[t] # "none" => worker[t] = "exited" /\ result[t] = build[t]

\* Every live worker has a slot; only one that was just started has no record.
Slots ==
  /\ IsFiniteSet(active) /\ Cardinality(active) <= jobs
  /\ at \in {"launch", "record"} => Cardinality(active) < jobs
  /\ Occupied \subseteq active \cup {launched}
  /\ Occupied \subseteq active \/ Cardinality(active) < jobs
  /\ at \notin {"record", "cleanup", "stop", "exited"} => Occupied \subseteq active

\* A manifest comes after a complete set of reports, links after a successful
\* one; a strict runner that was asked for a manifest has then installed it.
Reports ==
  /\ at \in {"launch", "record", "wait", "collect", "manifest"} => links = {}
  /\ at = "manifest" \/ manifest # <<>> => \A t \in Target : result[t] # "none"
  /\ manifest = <<>> \/ manifest = result
  /\ at = "links" \/ links # {} =>
       /\ \A t \in Target : result[t] = "success"
       /\ strict /\ asked => manifest = result

\* After the signal nothing is started, and who lives was recorded or is known
\* not to have been.
Stopping ==
  signal = "taken" =>
    /\ at \in {"cleanup", "stop", "exited"}
    /\ Occupied \subseteq unrecorded \cup (IF at = "exited" THEN {} ELSE active)

PlanInv == PlanType /\ Stages /\ Slots /\ Reports /\ Stopping

LEMMA PlanInitial == PlanInit => PlanInv
<1> SUFFICES ASSUME PlanInit PROVE PlanInv
  OBVIOUS
<1>1. PlanType
  BY PlanAssumption DEF PlanInit, PlanType, WorkerState, BuildState
<1>2. Stages /\ Occupied = {}
  BY DEF PlanInit, Stages, Live, Occupied
<1>3. IsFiniteSet({}) /\ Cardinality({}) = 0
  BY FS_EmptySet
<1>4. Slots /\ Reports /\ Stopping
  BY <1>1, <1>2, <1>3 DEF PlanInit, PlanType, Slots, Reports, Stopping
<1>5. QED BY <1>1, <1>2, <1>4 DEF PlanInv

\* Steps of the runner that start and record nothing and leave the workers.
LEMMA RunnerQuiet ==
  ASSUME PlanInv, Drain \/ Collect \/ Install \/ MakeLink \/ Cancel \/ TakeSignal \/ Cleanup \/ Stop
  PROVE  PlanInv'
<1>0. IsFiniteSet({}) /\ Cardinality({}) = 0
  BY FS_EmptySet
<1>1. /\ jobs' = jobs /\ launched' = launched /\ worker' = worker /\ build' = build
      /\ asked' = asked /\ strict' = strict
      /\ result' = result /\ unrecorded \subseteq unrecorded' /\ Occupied' = Occupied
  BY DEF Drain, Collect, Install, Write, MakeLink, Cancel, TakeSignal, Cleanup, Stop, Same, workerVars, linkVars,
         Occupied, Live
<1>2. PlanType'
  BY <1>1 DEF PlanInv, PlanType, Drain, Collect, Install, Write, MakeLink, Cancel, TakeSignal, Cleanup,
              Stop, Same, Goto
<1>3. Stages'
  BY <1>1 DEF PlanInv, Stages, Live
<1>4. Slots'
  <2>1. CASE Drain \/ Stop
    <3>1. active' = {} /\ Occupied \cap active = {}
      BY <2>1 DEF Drain, Stop, Occupied
    <3>2. Drain => Occupied = {}
      BY <3>1 DEF PlanInv, Slots, Drain, Run
    <3>3. at' \in {"collect", "exited"} /\ (at' = "collect" => Drain)
      BY <2>1 DEF Drain, Stop, Goto
    <3>4. Occupied \subseteq {launched} /\ jobs \in Nat \ {0}
      BY <3>1 DEF PlanInv, PlanType, Slots
    <3>5. IsFiniteSet(active') /\ Cardinality(active') = 0
      BY <1>0, <3>1
    <3>6. Occupied' \subseteq {launched'} /\ (at' = "collect" => Occupied' = {})
      BY <1>1, <3>2, <3>3, <3>4
    <3>7. QED BY <1>1, <3>3, <3>4, <3>5, <3>6 DEF Slots
  <2>2. CASE Collect \/ Install \/ MakeLink \/ Cancel \/ TakeSignal \/ Cleanup
    <3>1. active' = active
      BY <2>2 DEF Collect, Install, Write, MakeLink, Cancel, TakeSignal, Cleanup, Same
    <3>2. \/ at' = at
          \/ /\ at' \notin {"launch", "record"}
             /\ at' \in {"cleanup", "stop"} \/ at \in {"collect", "manifest", "links"}
      <4>1. CASE Collect
        BY <4>1 DEF Collect, Goto, Run
      <4>2. CASE Install
        BY <4>2 DEF Install, Write, Goto, Run
      <4>3. CASE MakeLink
        <5>1. at = "links" /\ (at' = at \/ at' = "cleanup")
          BY <4>3 DEF MakeLink, Goto, Run
        <5>2. QED BY <5>1
      <4>4. CASE Cancel
        BY <4>4 DEF Cancel
      <4>5. CASE TakeSignal \/ Cleanup
        BY <4>5 DEF TakeSignal, Cleanup, Goto
      <4>6. QED BY <2>2, <4>1, <4>2, <4>3, <4>4, <4>5
    <3>3. QED BY <1>1, <3>1, <3>2 DEF PlanInv, PlanType, Slots
  <2>3. QED BY <2>1, <2>2
<1>5. Reports'
  <2>1. CASE Install
    <3>1. /\ at = "manifest" /\ links' = links /\ at' \in {"cleanup", "links"}
          /\ manifest' \in {result, <<>>} /\ (asked /\ strict /\ at' = "links" => manifest' = result)
      BY <2>1 DEF Install, Write, Run, Goto, Same, linkVars
    <3>2. at' = "links" => \A t \in Target : result[t] # "failure"
      BY <2>1 DEF Install, Write, Goto
    <3>3. \A t \in Target : result[t] \in {"success", "failure"}
      BY <3>1 DEF PlanInv, PlanType, Reports
    <3>4. links' = {}
      BY <3>1 DEF PlanInv, Reports
    <3>5. QED BY <1>1, <3>1, <3>2, <3>3, <3>4 DEF PlanInv, Reports
  <2>2. CASE Drain \/ Collect \/ MakeLink \/ Cancel \/ TakeSignal \/ Cleanup \/ Stop
    <3>1. manifest' = manifest /\ (links' = links \/ at = "links")
      BY <2>2 DEF Drain, Collect, MakeLink, Cancel, TakeSignal, Cleanup, Stop, Same, Run,
                  linkVars, workerVars
    <3>2. /\ at' = "links" => at = "links"
          /\ at' \in {"launch", "record", "wait", "collect", "manifest"} =>
               links' = links /\ at \in {"launch", "record", "wait", "collect", "manifest"}
      BY <2>2 DEF Drain, Collect, MakeLink, Cancel, TakeSignal, Cleanup, Stop, Goto, Run, Same,
                  linkVars
    <3>3. at' = "manifest" => at = "manifest" \/ \A t \in Target : result[t] # "none"
      BY <2>2 DEF Drain, Collect, MakeLink, Cancel, TakeSignal, Cleanup, Stop, Goto
    <3>4. QED BY <1>1, <3>1, <3>2, <3>3 DEF PlanInv, Reports
  <2>3. QED BY <2>1, <2>2
<1>6. Stopping'
  <2>1. CASE TakeSignal
    BY <1>1, <2>1 DEF TakeSignal, Goto, Stopping, Occupied
  <2>2. CASE Stop
    <3>1. Occupied \cap active = {}
      BY <2>2 DEF Stop, Occupied
    <3>2. QED BY <1>1, <2>2, <3>1 DEF PlanInv, Stopping, Stop, Goto, Same
  <2>3. CASE Drain \/ Collect \/ Install \/ MakeLink \/ Cancel \/ Cleanup
    BY <1>1, <2>3 DEF PlanInv, Stopping, Drain, Collect, Install, Write, MakeLink, Cancel, Cleanup, Goto,
                      Run, Same
  <2>4. QED BY <2>1, <2>2, <2>3
<1>7. QED BY <1>2, <1>3, <1>4, <1>5, <1>6 DEF PlanInv

LEMMA LaunchPreserves == ASSUME PlanInv, Launch PROVE PlanInv'
<1>1. /\ launched + 1 \in Target /\ launched' = launched + 1 /\ jobs' = jobs
      /\ active' = active /\ at = "launch" /\ at' = "record" /\ signal' = signal /\ signal # "pending"
      /\ build' = build /\ result' = result /\ links' = links /\ manifest' = manifest /\ asked' = asked /\ strict' = strict
      /\ unrecorded' = unrecorded /\ worker' = [worker EXCEPT ![launched + 1] = "start"]
  BY PlanAssumption DEF PlanInv, PlanType, Launch, Run, Goto, Same, linkVars, Target
<1>2. PlanType'
  BY <1>1, PlanAssumption DEF PlanInv, PlanType, WorkerState, Target
<1>3. Occupied' = Occupied \cup {launched'}
  BY <1>1 DEF PlanInv, PlanType, Occupied, Live
<1>4. Stages'
  <2> SUFFICES ASSUME NEW t \in Target PROVE Stages!(t)'
    BY DEF Stages
  <2> QED BY <1>1, PlanAssumption DEF PlanInv, PlanType, Stages, Live, Target
<1>5. Slots' /\ Reports' /\ Stopping'
  BY <1>1, <1>3 DEF PlanInv, PlanType, Slots, Reports, Stopping
<1>6. QED BY <1>2, <1>4, <1>5 DEF PlanInv

LEMMA RecordPreserves == ASSUME PlanInv, Record PROVE PlanInv'
<1>1. /\ active' = active \cup {launched} /\ at = "record" /\ jobs' = jobs /\ launched' = launched
      /\ signal' = signal /\ signal # "pending" /\ links' = links /\ manifest' = manifest /\ asked' = asked /\ strict' = strict
      /\ unrecorded' = unrecorded /\ worker' = worker /\ build' = build /\ result' = result
      /\ at' = IF Cardinality(active') >= jobs THEN "wait" ELSE "launch"
      /\ Occupied' = Occupied
  BY DEF Record, Run, Goto, Same, workerVars, linkVars, Occupied, Live
<1>2. launched \in Target /\ jobs \in Nat
  BY <1>1, PlanAssumption DEF PlanInv, PlanType, Target
<1>3. PlanType' /\ Stages'
  BY <1>1, <1>2 DEF PlanInv, PlanType, Stages, Live
<1>4. IsFiniteSet(active') /\ Cardinality(active') \in Nat /\ Cardinality(active') <= jobs
  <2>1. /\ IsFiniteSet(active) /\ Cardinality(active) < jobs /\ Cardinality(active) \in Nat
    BY <1>1, FS_CardinalityType DEF PlanInv, Slots
  <2>2. /\ IsFiniteSet(active \cup {launched})
        /\ Cardinality(active \cup {launched})
             = IF launched \in active THEN Cardinality(active) ELSE Cardinality(active) + 1
    BY <2>1, FS_AddElement
  <2>3. QED BY <1>1, <1>2, <2>1, <2>2
<1>5. Slots' /\ Reports' /\ Stopping'
  BY <1>1, <1>2, <1>4 DEF PlanInv, Slots, Reports, Stopping
<1>6. QED BY <1>3, <1>5 DEF PlanInv

LEMMA WaitPreserves == ASSUME PlanInv, WaitForWorker PROVE PlanInv'
<1>1. PICK t \in active : worker[t] = "exited" /\ active' = active \ {t}
  BY DEF WaitForWorker
<1>2. /\ at = "wait" /\ at' = "launch" /\ jobs' = jobs /\ launched' = launched
      /\ signal' = signal /\ signal # "pending" /\ links' = links /\ manifest' = manifest /\ asked' = asked /\ strict' = strict
      /\ unrecorded' = unrecorded /\ worker' = worker /\ build' = build /\ result' = result
      /\ Occupied' = Occupied /\ t \notin Occupied
  BY <1>1 DEF WaitForWorker, Run, Goto, Same, workerVars, linkVars, Occupied, Live
<1>3. PlanType' /\ Stages'
  BY <1>1, <1>2 DEF PlanInv, PlanType, Stages, Live
<1>4. IsFiniteSet(active') /\ Cardinality(active') < jobs /\ Cardinality(active') <= jobs
  <2>1. /\ IsFiniteSet(active) /\ Cardinality(active) <= jobs /\ Cardinality(active) \in Nat
        /\ jobs \in Nat
    BY <1>1, FS_CardinalityType DEF PlanInv, Slots, PlanType
  <2>2. IsFiniteSet(active \ {t}) /\ Cardinality(active \ {t}) = Cardinality(active) - 1
    BY <1>1, <2>1, FS_RemoveElement
  <2>3. QED BY <1>1, <2>1, <2>2
<1>5. Slots' /\ Reports' /\ Stopping'
  BY <1>1, <1>2, <1>4 DEF PlanInv, Slots, Reports, Stopping
<1>6. QED BY <1>3, <1>5 DEF PlanInv

LEMMA WorkersPreserve ==
  ASSUME PlanInv, NEW t \in Target, WorkerStep(t) \/ WorkerTold(t) \/ BuildEnds(t)
  PROVE  PlanInv'
<1>1. /\ jobs' = jobs /\ at' = at /\ launched' = launched /\ active' = active /\ signal' = signal
      /\ links' = links /\ manifest' = manifest /\ asked' = asked /\ strict' = strict /\ unrecorded \subseteq unrecorded'
  BY DEF WorkerStep, WorkerTold, BuildEnds, runnerVars, linkVars
<1>2. PlanType'
  BY <1>1 DEF PlanInv, PlanType, Stages, WorkerStep, WorkerTold, BuildEnds, WorkerState, BuildState
<1>3. Occupied' \subseteq Occupied
  BY DEF PlanInv, PlanType, Occupied, Live, WorkerStep, WorkerTold, BuildEnds
<1>4. \A u \in Target : u # t => worker'[u] = worker[u] /\ build'[u] = build[u] /\ result'[u] = result[u]
  BY DEF PlanInv, PlanType, WorkerStep, WorkerTold, BuildEnds
<1>5. Stages'
  <2>1. SUFFICES ASSUME NEW u \in Target PROVE Stages!(u)'
    BY DEF Stages
  <2>2. CASE u # t
    BY <1>1, <1>4, <2>2 DEF PlanInv, Stages, Live
  <2>3. CASE u = t /\ WorkerStep(t)
    BY <1>1, <2>3 DEF PlanInv, PlanType, Stages, Live, WorkerStep, runnerVars, linkVars
  <2>4. CASE u = t /\ WorkerTold(t)
    BY <1>1, <2>4 DEF PlanInv, PlanType, Stages, Live, WorkerTold, WorkerState
  <2>5. CASE u = t /\ BuildEnds(t)
    BY <1>1, <2>5 DEF PlanInv, PlanType, Stages, Live, BuildEnds, runnerVars, linkVars
  <2>6. QED BY <2>2, <2>3, <2>4, <2>5
<1>6. Slots' /\ Stopping'
  BY <1>1, <1>3 DEF PlanInv, Slots, Stopping
<1>7. ASSUME result[t] # "none" PROVE result' = result
  BY <1>7 DEF PlanInv, PlanType, Stages, WorkerStep, WorkerTold, BuildEnds
<1>8. Reports'
  BY <1>1, <1>7 DEF PlanInv, Reports
<1>9. QED BY <1>2, <1>5, <1>6, <1>8 DEF PlanInv

LEMMA PlanStep == ASSUME PlanInv, RunPlan PROVE PlanInv'
BY RunnerQuiet, LaunchPreserves, RecordPreserves, WaitPreserves, WorkersPreserve DEF RunPlan, RunnerStep

------------------------------------------------------------------------------
(* Supervised commands.                                                    *)

SupervisionType ==
  /\ command \in {Script, Helper} /\ up \subseteq Process /\ adopted \in BOOLEAN
  /\ outer \in OuterStep /\ helper \in HelperStep /\ family \subseteq Process
  /\ started \in {"early", "late", "missed"}

\* Until the deadline a transport has its helper, and a helper its caller.
Lineage ==
  /\ helper = "off" <=> Helper \notin up
  /\ command = Helper => Script \notin up
  /\ outer = "run" =>
       /\ ~ adopted /\ (Transport \in up => Helper \in up)
       /\ Helper \in up => command \in up

\* A transport of the first look is remembered; a later one was found by the
\* second look, or missed.
Known ==
  /\ outer # "run" /\ Transport \in up /\ started = "early" => Transport \in family
  /\ outer = "kill" /\ Transport \in up => Transport \in family \/ started = "missed"
  /\ outer \in {"killGroup", "drain", "done"} /\ Transport \in up => started = "missed"
  /\ outer \in {"drain", "done"} => up \subseteq {Transport}

SupervisionInv == SupervisionType /\ Lineage /\ Known

LEMMA SupervisionInitial == SupervisionInit => SupervisionInv
BY DEF SupervisionInit, SupervisionInv, SupervisionType, Lineage, Known, Process, OuterStep,
       HelperStep, Script, Helper, Transport

LEMMA SupervisionStep == ASSUME SupervisionInv, Supervise PROVE SupervisionInv'
<1> USE DEF SupervisionInv, SupervisionType, Lineage, Known, Process, OuterStep, HelperStep,
            Script, Helper, Transport, Fixed
<1>1. CASE CallHelper
  BY <1>1 DEF CallHelper
<1>2. CASE ScriptEnds
  BY <1>2 DEF ScriptEnds, Leave
<1>3. CASE InstallGuard
  BY <1>3 DEF InstallGuard
<1>4. CASE Enter
  BY <1>4 DEF Enter
<1>5. CASE Open
  BY <1>5 DEF Open, Beyond
<1>6. CASE TransportEnds \/ HelperEnds
  BY <1>6 DEF TransportEnds, HelperEnds, Leave
<1>7. CASE HelperDeadline
  BY <1>7 DEF HelperDeadline
<1>8. CASE HelperTerm
  BY <1>8 DEF HelperTerm
<1>9. CASE HelperKill
  BY <1>9 DEF HelperKill
<1>10. CASE Finish \/ Deadline
  BY <1>10 DEF Finish, Deadline, Tree
<1>11. CASE TermGroup
  BY <1>11 DEF TermGroup, Told
<1>12. CASE TermFamily
  BY <1>12 DEF TermFamily, Told
<1>13. CASE GraceOver \/ Look
  BY <1>13 DEF GraceOver, Look, Tree
<1>14. CASE KillFamily \/ KillGroup
  BY <1>14 DEF KillFamily, KillGroup, Leave
<1>15. CASE ReadToEnd
  BY <1>15 DEF ReadToEnd
<1>16. QED
  BY <1>1, <1>2, <1>3, <1>4, <1>5, <1>6, <1>7, <1>8,
     <1>9, <1>10, <1>11, <1>12, <1>13, <1>14, <1>15
     DEF Supervise, SupervisorStep

------------------------------------------------------------------------------
(* Theorems.                                                               *)

IInv == PlanInv /\ SupervisionInv

\* The runner's slots, reports and stops, and what a supervisor knows of the
\* command's family, for every plan and any number of calls.
THEOREM Invariance == Spec => []IInv
<1>1. Init => IInv
  BY PlanInitial, SupervisionInitial DEF Init, IInv
<1>2. IInv /\ [Next]_vars => IInv'
  <2>1. SUFFICES ASSUME IInv, [Next]_vars PROVE IInv'
    OBVIOUS
  <2>2. ASSUME UNCHANGED <<runnerVars, workerVars>> PROVE PlanInv'
    BY <2>1, <2>2 DEF IInv, PlanInv, PlanType, Stages, Slots, Reports, Stopping, Occupied, Live,
                      runnerVars, linkVars, workerVars
  <2>3. ASSUME UNCHANGED supervisionVars PROVE SupervisionInv'
    BY <2>1, <2>3 DEF IInv, SupervisionInv, SupervisionType, Lineage, Known, supervisionVars
  <2>4. QED BY <2>1, <2>2, <2>3, PlanStep, SupervisionStep
            DEF IInv, Next, InPlan, Supervised, vars
<1>3. QED BY <1>1, <1>2, PTL DEF Spec

\* Links mean that every build succeeded, and under errexit that the manifest
\* asked for was installed first; an installed manifest says what became of every
\* build; no more workers live than there are slots (flake-plan-runner.sh, from
\* the first worker to the last link).
THEOREM CompleteLinks == Spec => []LinksComplete
<1>1. IInv => LinksComplete
  <2>1. SUFFICES ASSUME PlanInv PROVE LinksComplete
    BY DEF IInv
  <2>2. Cardinality(Occupied) <= jobs
    <3>1. /\ IsFiniteSet(active) /\ Cardinality(active) \in Nat /\ Cardinality(active) <= jobs
          /\ jobs \in Nat
      BY <2>1, FS_CardinalityType DEF PlanInv, Slots, PlanType
    <3>2. CASE Occupied \subseteq active
      <4>1. Cardinality(Occupied) <= Cardinality(active) /\ IsFiniteSet(Occupied)
        BY <3>1, <3>2, FS_Subset
      <4>2. Cardinality(Occupied) \in Nat
        BY <4>1, FS_CardinalityType
      <4>3. QED BY <3>1, <4>1, <4>2
    <3>3. CASE Cardinality(active) < jobs
      <4>1. /\ IsFiniteSet(active \cup {launched})
            /\ Cardinality(active \cup {launched})
                 = IF launched \in active THEN Cardinality(active) ELSE Cardinality(active) + 1
        BY <3>1, FS_AddElement
      <4>2. Occupied \subseteq active \cup {launched}
        BY <2>1 DEF PlanInv, Slots
      <4>3. Cardinality(Occupied) <= Cardinality(active \cup {launched}) /\ IsFiniteSet(Occupied)
        BY <4>1, <4>2, FS_Subset
      <4>4. Cardinality(Occupied) \in Nat
        BY <4>3, FS_CardinalityType
      <4>5. QED BY <3>1, <3>3, <4>1, <4>3, <4>4
    <3>4. QED BY <2>1, <3>2, <3>3 DEF PlanInv, Slots
  <2>3. ASSUME \A t \in Target : result[t] # "none" PROVE result = build
    BY <2>1, <2>3 DEF PlanInv, PlanType, Stages
  <2>4. manifest = <<>> \/ manifest = build
    BY <2>1, <2>3 DEF PlanInv, Reports
  <2>5. links # {} =>
          /\ \A t \in Target : build[t] = "success"
          /\ strict /\ asked => manifest = build
    BY <2>1, <2>3 DEF PlanInv, Reports, Stages
  <2>6. QED BY <2>2, <2>4, <2>5 DEF LinksComplete, Occupied
<1>2. QED BY <1>1, Invariance, PTL

\* A cancelled runner leaves no recorded build running (flake-plan-runner.sh,
\* cleanup and the workers' trap).
THEOREM CancellationStops == Spec => []CancelledStops
<1>1. IInv => CancelledStops
  BY DEF IInv, PlanInv, Stages, Stopping, CancelledStops, Occupied
<1>2. QED BY <1>1, Invariance, PTL

\* A supervisor that returns has left nothing but, at most, the transport that
\* started between its two looks and that the second could not find
\* (operations.py, terminate).
THEOREM SupervisionComplete == Spec => []FamilyGone
<1>1. IInv => FamilyGone
  BY DEF IInv, SupervisionInv, Known, FamilyGone
<1>2. QED BY <1>1, Invariance, PTL
=============================================================================
