----------------------------- MODULE Supervision -----------------------------
(***************************************************************************)
(* ci/decisions/operations.py: a command runs in its own session until a   *)
(* deadline; then what it started is terminated.  The command is a helper, *)
(* itself a supervisor (bounded-gh.sh), or a script that calls helpers     *)
(* (fetch-evidence.sh); a helper runs one transport in another session.    *)
(***************************************************************************)
EXTENDS Naturals, FiniteSets

CONSTANTS MaxCalls      \* bound: helpers the script starts

ASSUME SupervisionAssumption == MaxCalls \in Nat \ {0}

Script == "script"
Helper == "helper"
Transport == "transport"
Process == {Script, Helper, Transport}

VARIABLES
  command,      \* the process supervised: Script or Helper
  piped,        \* its output is captured, and the supervisor reads to the end
  stubborn,     \* those of Script and Transport that ignore SIGTERM
  up,           \* processes that live; a dead parent's children are init's
  adopted,      \* the transport lost its helper
  helper,       \* what the helper does
  calls,
  outer,        \* the supervisor's step
  family,       \* identities it remembers
  started       \* history: the transport's start, "early" or, after the first look
                \* at the family, "late"; "missed" if the second did not find it

supervisionVars ==
  <<command, piped, stubborn, up, adopted, helper, calls, outer, family, started>>

HelperStep == {"off", "boot", "spawn", "opening", "watch", "interrupted", "grace", "await"}
OuterStep == {"run", "term", "family", "grace", "look", "kill", "killGroup", "drain", "done"}

SupervisionInit ==
  /\ command \in {Script, Helper} /\ piped \in BOOLEAN /\ stubborn \in SUBSET {Script, Transport}
  /\ up = {command} /\ adopted = FALSE /\ calls = 0 /\ outer = "run"
  /\ helper = (IF command = Helper THEN "boot" ELSE "off") /\ family = {} /\ started = "early"

Fixed == UNCHANGED <<command, piped, stubborn>>
Beyond == outer \notin {"run", "term", "family", "grace", "look"}

\* The command's tree, by live parents: descendants().
Tree ==
  IF command \notin up THEN {}
  ELSE up \ (IF adopted THEN {Transport} ELSE {})

\* A helper that dies leaves its transport to init.
Leave(gone) ==
  /\ up' = up \ gone
  /\ helper' = IF Helper \in gone THEN "off" ELSE helper
  /\ adopted' = (Transport \in up' /\ (adopted \/ Helper \in gone))

------------------------------------------------------------------------------
(* The processes.                                                          *)

CallHelper ==
  /\ Script \in up /\ Helper \notin up /\ Transport \notin up /\ calls < MaxCalls
  /\ up' = up \cup {Helper} /\ helper' = "boot" /\ calls' = calls + 1
  /\ family' = family \ {Helper}
  /\ Fixed /\ UNCHANGED <<adopted, outer, started>>

ScriptEnds ==
  /\ Script \in up /\ Helper \notin up /\ Leave({Script})
  /\ Fixed /\ UNCHANGED <<calls, outer, family, started>>

\* _run: the signal handler is set, then Popen starts the transport, then the
\* block is entered that terminates it.
InstallGuard ==
  /\ helper = "boot" /\ helper' = "spawn"
  /\ Fixed /\ UNCHANGED <<up, adopted, calls, outer, family, started>>

Open ==
  /\ helper = "spawn" /\ helper' = "opening" /\ up' = up \cup {Transport}
  /\ started' = (CASE outer = "run" -> "early" [] Beyond -> "missed" [] OTHER -> "late") /\ family' = family \ {Transport}
  /\ Fixed /\ UNCHANGED <<adopted, calls, outer>>

Enter ==
  /\ helper = "opening" /\ helper' = "watch"
  /\ Fixed /\ UNCHANGED <<up, adopted, calls, outer, family, started>>

TransportEnds ==
  /\ Transport \in up /\ Leave({Transport})
  /\ Fixed /\ UNCHANGED <<calls, outer, family, started>>

HelperEnds ==
  /\ helper \in {"watch", "grace", "await"} /\ Transport \notin up /\ Leave({Helper})
  /\ Fixed /\ UNCHANGED <<calls, outer, family, started>>

\* Its deadline is the supervisor's, or its own, earlier one.
HelperDeadline ==
  /\ helper = "watch" /\ helper' = "interrupted"
  /\ Fixed /\ UNCHANGED <<up, adopted, calls, outer, family, started>>

\* The helper's terminate: SIGTERM; after its grace, SIGKILL.
HelperTerm ==
  /\ helper = "interrupted" /\ helper' = "grace"
  /\ up' = IF Transport \in stubborn THEN up ELSE up \ {Transport}
  /\ Fixed /\ UNCHANGED <<adopted, calls, outer, family, started>>

HelperKill ==
  /\ helper = "grace" /\ helper' = "await" /\ up' = up \ {Transport}
  /\ Fixed /\ UNCHANGED <<adopted, calls, outer, family, started>>

\* SIGTERM to some of them: a helper without its handler, inside Popen, or in
\* its last wait dies; one that watches starts to terminate; one that had
\* started leaves that at the point it had reached.
Told(who) ==
  LET dying == (who \cap {Script, Transport}) \ stubborn
      killed == IF Helper \in who /\ helper \in {"boot", "spawn", "opening", "await"}
                THEN dying \cup {Helper} ELSE dying
      hurried == Helper \in who /\ helper = "grace"
      rest == up \ (killed \cup IF hurried THEN {Transport} ELSE {})
  IN /\ up' = rest
     /\ helper' = CASE Helper \in killed -> "off"
                    [] Helper \in who /\ helper = "watch" -> "interrupted"
                    [] Helper \in who /\ helper \in {"interrupted", "grace"} -> "await"
                    [] OTHER -> helper
     /\ adopted' = (Transport \in rest /\ (adopted \/ Helper \in killed))

------------------------------------------------------------------------------
(* The supervisor.                                                         *)

Finish ==
  /\ outer = "run" /\ command \notin up /\ (piped => Transport \notin up) /\ outer' = "done"
  /\ Fixed /\ UNCHANGED <<up, adopted, helper, calls, family, started>>

\* (Faulty variant: only the command is remembered.)
DeadlineAlone ==
  /\ outer = "run" /\ outer' = "term" /\ family' = Tree \cap {command}
  /\ Fixed /\ UNCHANGED <<up, adopted, helper, calls, started>>

\* The deadline, or a signal to the supervisor: the identities come first.
Deadline ==
  /\ outer = "run" /\ outer' = "term" /\ family' = Tree
  /\ Fixed /\ UNCHANGED <<up, adopted, helper, calls, started>>

TermGroup ==
  /\ outer = "term" /\ outer' = "family" /\ Told(up \ {Transport})
  /\ Fixed /\ UNCHANGED <<calls, family, started>>

TermFamily ==
  /\ outer = "family" /\ outer' = "grace" /\ Told(up \cap family)
  /\ Fixed /\ UNCHANGED <<calls, family, started>>

\* The command exits, and its output ends, or the grace is over.
GraceOver ==
  /\ outer = "grace" /\ outer' = "look"
  /\ Fixed /\ UNCHANGED <<up, adopted, helper, calls, family, started>>

\* The family is looked up again if the command is still there.
Look ==
  /\ outer = "look" /\ outer' = "kill" /\ family' = family \cup Tree
  /\ started' = (IF started = "late" /\ Transport \in up \ family' THEN "missed" ELSE started)
  /\ Fixed /\ UNCHANGED <<up, adopted, helper, calls>>

\* (Faulty variant: the processes that were told are trusted to stop.)
KillFamilyNever ==
  /\ outer = "kill" /\ outer' = "killGroup"
  /\ Fixed /\ UNCHANGED <<up, adopted, helper, calls, family, started>>

KillFamily ==
  /\ outer = "kill" /\ outer' = "killGroup" /\ Leave(up \cap family)
  /\ Fixed /\ UNCHANGED <<calls, family, started>>

KillGroup ==
  /\ outer = "killGroup" /\ outer' = "drain" /\ Leave(up \ {Transport})
  /\ Fixed /\ UNCHANGED <<calls, family, started>>

\* The last communicate() has no time limit.
ReadToEnd ==
  /\ outer = "drain" /\ command \notin up /\ (piped => Transport \notin up) /\ outer' = "done"
  /\ Fixed /\ UNCHANGED <<up, adopted, helper, calls, family, started>>

SupervisorStep ==
  Finish \/ TermGroup \/ TermFamily \/ GraceOver \/ Look \/ KillFamily \/ KillGroup \/ ReadToEnd

Supervise ==
  \/ SupervisorStep \/ Deadline
  \/ CallHelper \/ ScriptEnds \/ InstallGuard \/ Open \/ Enter \/ TransportEnds
  \/ HelperEnds \/ HelperDeadline \/ HelperTerm \/ HelperKill
=============================================================================
