--------------------------- MODULE DependencyPull ---------------------------
(***************************************************************************)
(* A pull request whose CI runs GitHub holds back ("action_required") and  *)
(* what people, Dependabot and GitHub do to it: the world of               *)
(* ci/decisions/ci_admission.py and ci/sync-dependabot-lock.py.            *)
(***************************************************************************)
EXTENDS DependencyDelta

CONSTANTS
  Candidate,         \* commits that can be the request's head
  Own,          \* those of people's own requests
  Base,         \* commits of main
  Person, Bot, Dependabot, None,
  MaxChanges    \* bound: what people and Dependabot do, and failures

Actor == Person \cup {Bot, Dependabot}

ASSUME PullAssumption ==
  /\ Candidate \subseteq Commit /\ Base \subseteq Commit /\ Candidate \cap Base = {}
  /\ Own \subseteq Candidate
  /\ Bot \notin Person /\ Dependabot \notin Person /\ None \notin Commit
  /\ MaxChanges \in Nat

VARIABLES
  user,         \* the request's author
  open, head,
  base,         \* main as the request reports it: GitHub may lag
  main,         \* the live head of main
  standing,     \* people the policy trusts
  run,          \* per head: its CI run, [state, actor, attempt]
  wake,         \* the waiting wake-up of the admission controller, or None
  changes

pullVars == <<user, open, head, base, main, standing>>
worldVars == <<pullVars, run, wake, changes>>

RunState == {"none", "held", "running"}
CiRun == [state : RunState, actor : Actor, attempt : 0..2]

Trusts(who) == who = Bot \/ who \in standing

\* A run that ends up held wakes the controller; GitHub keeps one waiting run
\* per concurrency group and replaces it by the next.
Wakes == wake' = head'

NewRun(h, actor) ==
  run' = IF run[h].state = "none"
         THEN [run EXCEPT ![h] = [state |-> "held", actor |-> actor, attempt |-> 1]]
         ELSE run

Heads == IF user = Dependabot THEN Candidate ELSE Own

WorldInit ==
  /\ user \in Person \cup {Dependabot} /\ open = TRUE /\ head \in Heads
  /\ main \in Base /\ base = main /\ MergeBase[head] = main
  /\ standing \in SUBSET Person
  /\ \E actor \in {user, Bot} :
       run = [h \in Candidate |-> IF h = head
                THEN [state |-> "held", actor |-> actor, attempt |-> 1]
                ELSE [state |-> "none", actor |-> actor, attempt |-> 0]]
  /\ wake = head /\ changes = 0

Change == changes < MaxChanges /\ changes' = changes + 1

Push(h, actor) ==
  /\ open /\ h # head /\ Change
  /\ head' = h /\ NewRun(h, actor) /\ Wakes
  /\ UNCHANGED <<user, open, base, main, standing>>

\* Somebody starts the run of the head again (once), and it is held again.
Rerun(actor) ==
  /\ run[head].state # "none" /\ run[head].attempt = 1 /\ Change
  /\ run' = [run EXCEPT ![head] = [state |-> "held", actor |-> actor, attempt |-> @.attempt + 1]]
  /\ UNCHANGED head /\ Wakes
  /\ UNCHANGED <<user, open, base, main, standing>>

Close ==
  /\ open /\ open' = FALSE /\ Change
  /\ UNCHANGED <<user, head, base, main, standing, run, wake>>

ChangeStanding(p) ==
  /\ standing' = (IF p \in standing THEN standing \ {p} ELSE standing \cup {p})
  /\ Change
  /\ UNCHANGED <<user, open, head, base, main, run, wake>>

AdvanceMain(b) ==
  /\ b # main /\ main' = b /\ Change
  /\ UNCHANGED <<user, open, head, base, standing, run, wake>>

ReportBase ==
  /\ base # main /\ base' = main
  /\ UNCHANGED <<user, open, head, main, standing, run, wake, changes>>

People ==
  \/ \E h \in Heads, a \in {user} \cup Person : Push(h, a)
  \/ \E a \in Person : Rerun(a) \/ ChangeStanding(a)
  \/ Close \/ \E b \in Base : AdvanceMain(b)
=============================================================================
