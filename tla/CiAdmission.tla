----------------------------- MODULE CiAdmission -----------------------------
(***************************************************************************)
(* ci/decisions/ci_admission.py: the controller that lets held CI runs of  *)
(* trusted people, of the repository's bot and of vetted Dependabot        *)
(* updates start.  A pass takes the run of one wake-up, or every held run  *)
(* (the schedule), and decides call by call; an exception ends the pass.   *)
(***************************************************************************)
EXTENDS DependencyPull

CONSTANT Other        \* a held run of some other pull request

VARIABLE pass         \* the controller's pass

NoPass == [at |-> "rest", todo |-> {}, head |-> None, bound |-> None,
           base |-> None, files |-> {}, calm |-> FALSE]

\* bound: the run as read first.  calm is a history field: nothing was done to
\* the request, its run or anyone's standing since the last checks began.
Pass == [at : {"rest", "next", "run", "pull", "users", "users2", "main", "files",
               "judge", "actors", "same", "same main", "repull", "rerun", "actors2",
               "same2", "same2 main", "rerun2", "post"},
         todo : SUBSET (Candidate \cup {Other}), head : Candidate \cup {None},
         bound : {None} \cup CiRun, base : Base \cup {None},
         files : SUBSET (ActionPath \cup LockPath \cup {"other"}), calm : BOOLEAN]

PassInit == pass = NoPass

At(point) == pass.at = point
Goto(point) == pass' = [pass EXCEPT !.at = point]
Begin(todo) == pass' = [NoPass EXCEPT !.at = "next", !.todo = todo]
Skip == Begin(pass.todo)
Abort == pass' = NoPass
Reading == UNCHANGED worldVars

Held == {h \in Candidate : run[h].state = "held"}

\* wake_runs and pending_runs.
WakePass ==
  /\ At("rest") /\ wake # None /\ Begin({wake})
  /\ wake' = None /\ UNCHANGED <<pullVars, run, changes>>

SchedulePass ==
  /\ At("rest") /\ Begin(Held \cup {Other}) /\ Reading

\* The list's order is GitHub's.  (Faulty variant: the pass never gets to
\* the last run.)
TakeRunOffByOne(r) ==
  /\ At("next") /\ r \in pass.todo /\ Reading
  /\ IF pass.todo = {r} THEN Abort
     ELSE IF r = Other THEN Abort \/ Begin(pass.todo \ {r})
     ELSE pass' = [pass EXCEPT !.at = "run", !.head = r, !.todo = @ \ {r}]

TakeRun(r) ==
  /\ At("next") /\ r \in pass.todo /\ Reading
  /\ IF r = Other THEN Abort \/ Begin(pass.todo \ {r})
     ELSE pass' = [pass EXCEPT !.at = "run", !.head = r, !.todo = @ \ {r}]

EndPass == At("next") /\ pass.todo = {} /\ Abort /\ Reading

ReadRun ==
  /\ At("run") /\ Reading
  /\ IF run[pass.head].state = "held"
     THEN pass' = [pass EXCEPT !.at = "pull", !.bound = run[pass.head]] ELSE Skip

Matches == open /\ head = pass.head

ReadPull ==
  /\ At("pull") /\ Reading
  /\ IF Matches THEN pass' = [pass EXCEPT !.at = IF user = Dependabot THEN "main" ELSE "users",
                                          !.base = base,
                                          !.files = Files[head]]
     ELSE Skip

\* A person's or the bot's request: author and actor, twice.
CheckUsers(here, next) ==
  /\ At(here) /\ Reading
  /\ IF Trusts(user) /\ Trusts(pass.bound.actor)
     THEN pass' = [pass EXCEPT !.at = next, !.calm = TRUE] ELSE Skip

\* Dependabot's: inspect reads main, then the request's files as they are now
\* (of which it knew the number), and the rest from immutable commits.
ReadMain ==
  /\ At("main") /\ Reading
  /\ IF main = pass.base THEN Goto("files") ELSE Skip

ReadFiles ==
  LET now == Files[head]
  IN /\ At("files") /\ Reading
     /\ IF Cardinality(now) # Cardinality(pass.files) THEN Abort
        ELSE pass' = [pass EXCEPT !.at = "judge", !.files = now]

Judge ==
  LET verdict == Judgement(pass.base, pass.head, pass.files)
  IN /\ At("judge") /\ Reading
     /\ CASE verdict = "admitted"    -> pass' = [pass EXCEPT !.at = "actors", !.files = {}]
          [] verdict = "unsupported" -> Skip
          [] verdict = "refused"     -> Abort

CheckActors(here, next) ==
  /\ At(here) /\ Reading
  /\ IF pass.bound.actor = Dependabot \/ Trusts(pass.bound.actor)
     THEN pass' = [pass EXCEPT !.at = next, !.calm = TRUE] ELSE Skip

\* revalidate: the request's identity, then main; both raise.
RevalidatePull(here, next) ==
  /\ At(here) /\ Reading
  /\ IF Matches /\ base = pass.base THEN Goto(next) ELSE Abort

RevalidateMain(here, next) ==
  /\ At(here) /\ Reading
  /\ IF main = pass.base THEN Goto(next) ELSE Abort

\* The request and the run again.  (Faulty variant: the request is not read
\* again.)
RepullSkipped == At("repull") /\ Reading /\ Goto("rerun")

Repull ==
  /\ At("repull") /\ Reading
  /\ IF Matches /\ base = pass.base THEN Goto("rerun") ELSE Skip

RereadRun(here, next) ==
  /\ At(here) /\ Reading
  /\ IF run[pass.head] = pass.bound THEN Goto(next) ELSE Skip

\* The approval is not repeated when it fails.
Approve ==
  /\ At("post")
  /\ IF run[pass.head].state = "held"
     THEN run' = [run EXCEPT ![pass.head].state = "running"] /\ Skip
     ELSE UNCHANGED run /\ Abort
  /\ UNCHANGED <<pullVars, wake, changes>>

\* A call fails or the pass dies; the approval may have been applied.
FailPass ==
  /\ ~ At("rest") /\ Abort /\ Change
  /\ run' \in {run} \cup {[run EXCEPT ![h].state = "running"] :
                           h \in {i \in Held : At("post") /\ i = pass.head}}
  /\ UNCHANGED <<pullVars, wake>>

Admit ==
  \/ WakePass \/ SchedulePass \/ (\E r \in pass.todo : TakeRun(r)) \/ EndPass
  \/ ReadRun \/ ReadPull
  \/ CheckUsers("users", "users2") \/ CheckUsers("users2", "repull")
  \/ ReadMain \/ ReadFiles \/ Judge
  \/ CheckActors("actors", "same")
  \/ RevalidatePull("same", "same main") \/ RevalidateMain("same main", "repull")
  \/ Repull
  \/ RereadRun("rerun", IF user = Dependabot THEN "actors2" ELSE "post")
  \/ CheckActors("actors2", "same2")
  \/ RevalidatePull("same2", "same2 main") \/ RevalidateMain("same2 main", "rerun2")
  \/ RereadRun("rerun2", "post")
  \/ Approve
=============================================================================
