--------------------------- MODULE AdmissionProofs ---------------------------
(***************************************************************************)
(* Proofs about the admission of held CI runs, for every set of commits,   *)
(* trees, people and published tags: what is admitted is vetted, and every *)
(* undisturbed approval is right at the moment it is given.                *)
(***************************************************************************)
EXTENDS Admission, TLAPS

------------------------------------------------------------------------------
(* The judgement of a delta is sound.                                      *)

\* An admitted delta is the complete one, of regular files, on its own base.
LEMMA AdmittedMeans ==
  ASSUME NEW b, NEW h, NEW files, Judgement(b, h, files) = "admitted"
  PROVE  /\ MergeBase[h] = b /\ Changed(b, h) = files
         /\ \A p \in files : Regular(b, h, p)
         /\ \/ \A p \in files : p \in ActionPath /\ PinsMoved(File(b, p).text, File(h, p).text)
            \/ /\ files \subseteq LockPath /\ "flake.lock" \in files
               /\ Synchronizable(b, h) /\ Synchronized(b, h)
BY DEF Judgement

LEMMA VerdictType ==
  ASSUME NEW b, NEW h, NEW files
  PROVE  Judgement(b, h, files) \in Verdict
BY DEF Judgement, Verdict

\* A pin moved by classify changes nothing but pins.
LEMMA PinsMovedSkeleton ==
  ASSUME NEW old, NEW new, PinsMoved(old, new)
  PROVE  /\ Skeleton(new) = Skeleton(old)
         /\ \A i \in DOMAIN new.pins : new.pins[i] = old.pins[i] \/ Published(new.pins[i])
<1>1. [i \in DOMAIN old.pins |-> old.pins[i].action] = [i \in DOMAIN new.pins |-> new.pins[i].action]
  BY DEF PinsMoved
<1>2. Skeleton(new) = Skeleton(old)
  BY <1>1 DEF PinsMoved, Skeleton
<1>3. QED BY <1>2 DEF PinsMoved

\* Whatever the trees, tags and privileges are, Judgement admits a delta only
\* if it moves published pins alone or pairs one nixpkgs identity in both locks.
THEOREM JudgementSound ==
  ASSUME NEW b, NEW h, NEW files, Judgement(b, h, files) = "admitted"
  PROVE  Vetted(h) /\ MergeBase[h] = b
<1>1. /\ MergeBase[h] = b /\ Changed(b, h) = files
      /\ \A p \in files : Regular(b, h, p)
  BY AdmittedMeans
<1>2. CASE \A p \in files : p \in ActionPath /\ PinsMoved(File(b, p).text, File(h, p).text)
  <2>1. SUFFICES ASSUME NEW p \in DOMAIN Tree[b] \cup DOMAIN Tree[h], File(h, p) # File(b, p)
                 PROVE  /\ p \in ActionPath /\ Regular(b, h, p)
                        /\ Skeleton(File(h, p).text) = Skeleton(File(b, p).text)
                        /\ \A i \in DOMAIN File(h, p).text.pins :
                             \/ File(h, p).text.pins[i] = File(b, p).text.pins[i]
                             \/ Published(File(h, p).text.pins[i])
    BY <1>1 DEF OnlyPinsMove, Vetted
  <2>2. p \in files
    BY <1>1, <2>1 DEF Changed
  <2>3. PinsMoved(File(b, p).text, File(h, p).text)
    BY <1>2, <2>2
  <2>4. QED BY <1>1, <1>2, <2>2, <2>3, PinsMovedSkeleton
<1>3. CASE /\ files \subseteq LockPath /\ "flake.lock" \in files
           /\ Synchronizable(b, h) /\ Synchronized(b, h)
  <2> DEFINE old == File(b, "flake.lock").text
             new == File(h, "flake.lock").text
             native == File(b, "devenv.lock").text
             paired == File(h, "devenv.lock").text
  <2>1. /\ old.nixpkgs = native.nixpkgs /\ old.rest = new.rest
        /\ old.nixpkgs.rev # new.nixpkgs.rev
    BY <1>3 DEF Synchronizable
  <2>2. paired = [nixpkgs |-> new.nixpkgs, rest |-> native.rest]
    BY <1>3 DEF Synchronized, Paired
  <2>3. paired.nixpkgs = new.nixpkgs /\ paired.rest = native.rest
    BY <2>2
  <2>4. File(b, "devenv.lock") # File(h, "devenv.lock")
    BY <2>1, <2>3
  <2>5. "devenv.lock" \in DOMAIN Tree[b] \cup DOMAIN Tree[h]
    BY <2>4 DEF File
  <2>6. files = LockPath
    BY <1>1, <1>3, <2>4, <2>5 DEF Changed, LockPath
  <2>7. OnlyNixpkgsMoves(b, h)
    BY <1>1, <2>1, <2>3, <2>6 DEF OnlyNixpkgsMoves, LocksPaired, LockPath
  <2>8. QED BY <1>1, <2>7 DEF Vetted
<1>4. QED BY <1>2, <1>3, AdmittedMeans

------------------------------------------------------------------------------
(* The invariant of a pass.                                                *)

Shape ==
  /\ DOMAIN pass = {"at", "todo", "head", "bound", "base", "files", "calm"}
  /\ pass.calm \in BOOLEAN

\* A request of Dependabot and one of a person take different ways.
Lanes ==
  IF user = Dependabot THEN pass.at \notin {"users", "users2"}
  ELSE pass.at \in {"rest", "next", "run", "pull", "users", "users2", "repull", "rerun", "post"}

\* From the judgement on, Dependabot's head is vetted on the base of the pass.
Judged ==
  user = Dependabot /\ pass.at \in {"actors", "same", "same main", "repull", "rerun",
                                    "actors2", "same2", "same2 main", "rerun2", "post"}
    => Vetted(pass.head) /\ MergeBase[pass.head] = pass.base

\* What was read since the last checks of the actors began still holds, as
\* long as nothing happened.
BotCalm ==
  user = Dependabot /\ pass.calm =>
    /\ pass.at \in {"same2", "same2 main", "rerun2", "post"}
         => pass.bound.actor = Dependabot \/ Trusts(pass.bound.actor)
    /\ pass.at \in {"same2 main", "rerun2", "post"} => Matches
    /\ pass.at \in {"rerun2", "post"} => main = pass.base
    /\ pass.at = "post" => run[pass.head] = pass.bound

PersonCalm ==
  user # Dependabot /\ pass.calm =>
    /\ pass.at \in {"users2", "repull", "rerun", "post"}
         => Trusts(user) /\ Trusts(pass.bound.actor)
    /\ pass.at \in {"rerun", "post"} => Matches
    /\ pass.at = "post" => run[pass.head] = pass.bound

PassInv == Shape /\ Lanes /\ Judged /\ BotCalm /\ PersonCalm

\* Nobody changes the author of a request.
LEMMA AuthorFixed == Next => user' = user
<1>1. People \/ ReportBase => user' = user
  BY DEF People, ReportBase, Push, Rerun, ChangeStanding, Close, AdvanceMain
<1>2. Synchronize \/ FailSync => user' = user
  BY DEF Synchronize, FailSync, SyncList, SyncMain, SyncPull, SyncFiles, SyncPull2, SyncWrite,
         Commits, Looking, worldVars, pullVars
<1>3. Admit \/ FailPass => user' = user
  BY DEF Admit, FailPass, WakePass, SchedulePass, TakeRun, EndPass, ReadRun, ReadPull, CheckUsers,
         ReadMain, ReadFiles, Judge, CheckActors, RevalidatePull, RevalidateMain, Repull,
         RereadRun, Approve, Reading, worldVars, pullVars
<1>4. QED BY <1>1, <1>2, <1>3 DEF Next

\* Steps of the others leave a pass where it is, and calm only if they do
\* nothing to the request.
LEMMA OthersPreserve ==
  ASSUME PassInv, PassWatches, user' = user
  PROVE  PassInv'
<1>1. /\ pass'.at = pass.at /\ pass'.head = pass.head /\ pass'.bound = pass.bound
      /\ pass'.base = pass.base /\ DOMAIN pass' = DOMAIN pass
  BY DEF PassInv, Shape, PassWatches
<1>2. pass'.calm = (pass.calm /\ UNCHANGED <<pullVars, run>>)
  BY DEF PassInv, Shape, PassWatches
<1>3. pass'.calm \in BOOLEAN /\ (pass'.calm => pass.calm /\ UNCHANGED <<pullVars, run>>)
  BY <1>2 DEF PassInv, Shape
<1>4. Shape' /\ Lanes' /\ Judged'
  BY <1>1, <1>3 DEF PassInv, Shape, Lanes, Judged
<1>5. ASSUME pass'.calm
      PROVE  /\ pass.calm /\ open' = open /\ head' = head /\ main' = main
             /\ standing' = standing /\ run' = run
  BY <1>3, <1>5 DEF pullVars
<1>6. ASSUME pass'.calm, Matches PROVE Matches'
  BY <1>1, <1>5, <1>6, Zenon DEF Matches
<1>7. ASSUME pass'.calm, NEW who, Trusts(who) PROVE Trusts(who)'
  BY <1>5, <1>7 DEF Trusts
<1>8. BotCalm' /\ PersonCalm'
  <2>1. SUFFICES ASSUME pass'.calm PROVE BotCalm' /\ PersonCalm'
    BY DEF BotCalm, PersonCalm
  <2>2. BotCalm /\ PersonCalm /\ pass.calm
    BY <1>5, <2>1 DEF PassInv
  <2>3. BotCalm'
    BY <1>1, <1>5, <1>6, <1>7, <2>1, <2>2 DEF BotCalm
  <2>4. PersonCalm'
    BY <1>1, <1>5, <1>6, <1>7, <2>1, <2>2 DEF PersonCalm
  <2>5. QED BY <2>3, <2>4
<1>9. QED BY <1>4, <1>8 DEF PassInv

\* A pass that ends, or turns to its next run, keeps the invariant.
LEMMA RestPreserves ==
  ASSUME user' = user, Abort \/ (\E todo : Begin(todo))
  PROVE  PassInv'
<1>1. /\ DOMAIN pass' = {"at", "todo", "head", "bound", "base", "files", "calm"}
      /\ pass'.calm = FALSE /\ pass'.at \in {"rest", "next"}
  <2>1. CASE Abort
    BY <2>1 DEF Abort, NoPass
  <2>2. ASSUME NEW todo, Begin(todo)
        PROVE  /\ DOMAIN pass' = {"at", "todo", "head", "bound", "base", "files", "calm"}
               /\ pass'.calm = FALSE /\ pass'.at = "next"
    BY <2>2 DEF Begin, NoPass
  <2>3. QED BY <2>1, <2>2
<1>2. QED BY <1>1 DEF PassInv, Shape, Lanes, Judged, BotCalm, PersonCalm

\* Each verdict has one consequence.
LEMMA JudgeMeans ==
  ASSUME Judge
  PROVE  \/ /\ Judgement(pass.base, pass.head, pass.files) = "admitted"
            /\ pass' = [pass EXCEPT !.at = "actors", !.files = {}]
         \/ Skip
         \/ Abort
<1> DEFINE verdict == Judgement(pass.base, pass.head, pass.files)
<1>1. CASE verdict = "admitted"
  BY <1>1 DEF Judge
<1>2. CASE verdict = "unsupported"
  BY <1>2 DEF Judge
<1>3. CASE verdict = "refused"
  BY <1>3 DEF Judge
<1>4. QED BY <1>1, <1>2, <1>3, VerdictType DEF Verdict

\* The controller's own steps.
LEMMA AdmitPreserves ==
  ASSUME PassInv, Admit, user' = user
  PROVE  PassInv'
<1> USE DEF PassInv, Shape, Lanes, Judged, BotCalm, PersonCalm, At, Goto, Reading, worldVars,
            pullVars, Matches, Trusts
<1>1. CASE WakePass \/ SchedulePass \/ EndPass
  BY <1>1, RestPreserves DEF WakePass, SchedulePass, EndPass
<1>2. ASSUME NEW r \in pass.todo, TakeRun(r) PROVE PassInv'
  <2>1. CASE Abort \/ Begin(pass.todo \ {r})
    BY <2>1, RestPreserves
  <2>2. CASE pass' = [pass EXCEPT !.at = "run", !.head = r, !.todo = @ \ {r}]
    BY <2>2
  <2>3. QED BY <1>2, <2>1, <2>2 DEF TakeRun
<1>3. CASE ReadRun
  <2>1. CASE Skip
    BY <2>1, RestPreserves DEF Skip
  <2>2. CASE pass' = [pass EXCEPT !.at = "pull", !.bound = run[pass.head]]
    BY <2>2
  <2>3. QED BY <1>3, <2>1, <2>2 DEF ReadRun
<1>4. CASE ReadPull
  <2>1. CASE Skip
    BY <2>1, RestPreserves DEF Skip
  <2>2. CASE pass' = [pass EXCEPT !.at = IF user = Dependabot THEN "main" ELSE "users",
                                  !.base = base, !.files = Files[head]]
    BY <2>2
  <2>3. QED BY <1>4, <2>1, <2>2 DEF ReadPull
<1>5. CASE CheckUsers("users", "users2") \/ CheckUsers("users2", "repull")
  <2>1. CASE Skip
    BY <2>1, RestPreserves DEF Skip
  <2>2. ASSUME NEW next \in {"users2", "repull"},
               pass' = [pass EXCEPT !.at = next, !.calm = TRUE],
               user # Dependabot, Trusts(user), Trusts(pass.bound.actor), Reading
        PROVE  PassInv'
    BY <2>2
  <2>3. Skip \/ (/\ user # Dependabot /\ Trusts(user) /\ Trusts(pass.bound.actor) /\ Reading
                 /\ \/ pass' = [pass EXCEPT !.at = "users2", !.calm = TRUE]
                    \/ pass' = [pass EXCEPT !.at = "repull", !.calm = TRUE])
    BY <1>5 DEF CheckUsers
  <2>4. QED BY <2>1, <2>2, <2>3
<1>6. CASE ReadMain
  <2>1. CASE Skip
    BY <2>1, RestPreserves DEF Skip
  <2>2. CASE ~ Skip
    BY <1>6, <2>2 DEF ReadMain
  <2>3. QED BY <2>1, <2>2
<1>7. CASE ReadFiles
  <2>1. CASE Abort
    BY <2>1, RestPreserves
  <2>2. CASE ~ Abort
    BY <1>7, <2>2 DEF ReadFiles
  <2>3. QED BY <2>1, <2>2
<1>8. CASE Judge
  <2>1. CASE Skip \/ Abort
    BY <2>1, RestPreserves DEF Skip
  <2>2. CASE ~ (Skip \/ Abort)
    <3>1. /\ Judgement(pass.base, pass.head, pass.files) = "admitted"
          /\ pass' = [pass EXCEPT !.at = "actors", !.files = {}]
      BY <1>8, <2>2, JudgeMeans
    <3>2. Vetted(pass.head) /\ MergeBase[pass.head] = pass.base
      BY <3>1, JudgementSound
    <3>3. QED BY <1>8, <3>1, <3>2 DEF Judge
  <2>3. QED BY <2>1, <2>2
<1>9. CASE CheckActors("actors", "same") \/ CheckActors("actors2", "same2")
  <2>1. CASE Skip
    BY <2>1, RestPreserves DEF Skip
  <2>2. CASE ~ Skip
    BY <1>9, <2>2 DEF CheckActors
  <2>3. QED BY <2>1, <2>2
<1>10. CASE RevalidatePull("same", "same main") \/ RevalidatePull("same2", "same2 main")
  <2>1. CASE Abort
    BY <2>1, RestPreserves
  <2>2. CASE ~ Abort
    BY <1>10, <2>2 DEF RevalidatePull
  <2>3. QED BY <2>1, <2>2
<1>11. CASE RevalidateMain("same main", "repull") \/ RevalidateMain("same2 main", "rerun2")
  <2>1. CASE Abort
    BY <2>1, RestPreserves
  <2>2. CASE ~ Abort
    BY <1>11, <2>2 DEF RevalidateMain
  <2>3. QED BY <2>1, <2>2
<1>12. CASE Repull
  <2>1. CASE Skip
    BY <2>1, RestPreserves DEF Skip
  <2>2. CASE ~ Skip
    BY <1>12, <2>2 DEF Repull
  <2>3. QED BY <2>1, <2>2
<1>13. CASE RereadRun("rerun", IF user = Dependabot THEN "actors2" ELSE "post")
              \/ RereadRun("rerun2", "post")
  <2>1. CASE Skip
    BY <2>1, RestPreserves DEF Skip
  <2>2. CASE ~ Skip
    BY <1>13, <2>2 DEF RereadRun
  <2>3. QED BY <2>1, <2>2
<1>14. CASE Approve
  BY <1>14, RestPreserves DEF Approve, Skip
<1>15. QED
  BY <1>1, <1>2, <1>3, <1>4, <1>5, <1>6, <1>7, <1>8, <1>9, <1>10, <1>11, <1>12, <1>13, <1>14
  DEF Admit

------------------------------------------------------------------------------
(* Theorems.                                                               *)

\* A pass keeps its lanes, its judgement and what it read, whatever the others
\* do between its calls.
THEOREM Invariance == Spec => []PassInv
<1>1. Init => PassInv
  BY DEF Init, PassInit, NoPass, PassInv, Shape, Lanes, Judged, BotCalm, PersonCalm
<1>2. PassInv /\ [Next]_vars => PassInv'
  <2>1. SUFFICES ASSUME PassInv, [Next]_vars PROVE PassInv'
    OBVIOUS
  <2>2. CASE UNCHANGED vars
    BY <2>1, <2>2 DEF vars, worldVars, pullVars, PassInv, Shape, Lanes, Judged, BotCalm,
                      PersonCalm, Matches, Trusts
  <2>3. CASE Next
    <3>1. user' = user
      BY <2>3, AuthorFixed
    <3>2. CASE PassWatches
      BY <2>1, <3>1, <3>2, OthersPreserve
    <3>3. CASE Admit
      BY <2>1, <3>1, <3>3, AdmitPreserves
    <3>4. CASE FailPass
      BY <3>1, <3>4, RestPreserves DEF FailPass
    <3>5. QED BY <2>3, <3>2, <3>3, <3>4 DEF Next
  <2>4. QED BY <2>1, <2>2, <2>3
<1>3. QED BY <1>1, <1>2, PTL DEF Spec

\* Dependabot's runs are approved only on vetted heads whose base was main when
\* the pass read the request (ci_admission.py, approve_run).
THEOREM AdmissionVetted == Spec => AdmittedVetted
<1>1. PassInv /\ [Next]_vars =>
        [run' # run /\ Approve /\ user = Dependabot =>
           Vetted(pass.head) /\ MergeBase[pass.head] = pass.base]_vars
  BY DEF PassInv, Judged, Approve, At
<1>2. QED BY <1>1, Invariance, PTL DEF Spec, AdmittedVetted

\* An approval no change of the request overtook since the last checks of the
\* actors began is right when it is given.
THEOREM AdmissionCurrent == Spec => AdmittedCurrent
<1>1. PassInv /\ [Next]_vars =>
        [run' # run /\ Approve /\ pass.calm =>
           /\ Matches
           /\ Trusts(run[head].actor) \/ (user = Dependabot /\ run[head].actor = Dependabot)
           /\ IF user = Dependabot THEN main = MergeBase[head] ELSE Trusts(user)]_vars
  BY DEF PassInv, Judged, BotCalm, PersonCalm, Approve, At, Matches
<1>2. QED BY <1>1, Invariance, PTL DEF Spec, AdmittedCurrent

------------------------------------------------------------------------------
(* The synchroniser.                                                       *)

\* From the comparison of the locks on, what it compared is known of the two
\* commits; a plan that finds the locks paired ends.
Compared ==
  /\ DOMAIN sync = {"at", "base", "expected", "files", "round"}
  /\ sync.at \in {"main2", "pull2", "write"} =>
       /\ \A p \in LockPath : Regular(sync.base, sync.expected, p)
       /\ Synchronizable(sync.base, sync.expected)
  /\ sync.at = "write" => ~ Synchronized(sync.base, sync.expected)

SyncInv == head \in Commit /\ Compared

LEMMA SyncStep == ASSUME SyncInv, Synchronize \/ FailSync PROVE Compared'
<1> USE DEF SyncInv, Compared, SyncAt, SyncGoto
<1>1. ASSUME Refuse PROVE Compared'
  BY <1>1 DEF Refuse, NoSync
<1>2. CASE SyncList
  BY <1>2 DEF SyncList, NoSync
<1>3. ASSUME NEW here, NEW next, SyncMain(here, next), next = "pull2" => here = "main2",
             next \notin {"main2", "write"}
      PROVE  Compared'
  <2>1. CASE Refuse
    BY <1>1, <2>1
  <2>2. CASE sync' = [sync EXCEPT !.at = next]
    BY <1>3, <2>2 DEF SyncMain
  <2>3. QED BY <1>3, <2>1, <2>2 DEF SyncMain
<1>4. CASE SyncPull
  <2>1. CASE Refuse
    BY <1>1, <2>1
  <2>2. CASE sync' = [sync EXCEPT !.at = "files", !.files = Files[head]]
    BY <2>2
  <2>3. QED BY <1>4, <2>1, <2>2 DEF SyncPull
<1>5. CASE SyncFiles
  <2>1. CASE Refuse
    BY <1>1, <2>1
  <2>2. CASE ~ Refuse
    BY <1>5, <2>2 DEF SyncFiles
  <2>3. QED BY <2>1, <2>2
<1>6. CASE SyncPull2
  <2>1. CASE Refuse
    BY <1>1, <2>1
  <2>2. CASE ~ Refuse
    <3>1. sync.at = "pull2" /\ ~ Synchronized(sync.base, sync.expected)
      BY <1>6, <2>2 DEF SyncPull2
    <3>2. sync' = [sync EXCEPT !.at = IF sync.round = Rounds THEN "write" ELSE "main",
                               !.files = {},
                               !.round = IF sync.round = Rounds THEN sync.round ELSE sync.round + 1]
      BY <1>6, <2>2 DEF SyncPull2
    <3>3. /\ sync'.base = sync.base /\ sync'.expected = sync.expected
          /\ sync'.at \in {"write", "main"} /\ DOMAIN sync' = DOMAIN sync
      BY <3>2
    <3>4. QED BY <3>1, <3>3
  <2>3. QED BY <2>1, <2>2
<1>7. CASE SyncWrite \/ FailSync
  BY <1>1, <1>7 DEF SyncWrite, FailSync
<1>8. QED BY <1>2, <1>3, <1>4, <1>5, <1>6, <1>7 DEF Synchronize

LEMMA SyncInvariance == Spec => []SyncInv
<1>1. Init => SyncInv
  BY PullAssumption DEF Init, WorldInit, SyncInit, NoSync, SyncInv, Compared, Heads
<1>2. SyncInv /\ [Next]_vars => SyncInv'
  <2> SUFFICES ASSUME SyncInv, [Next]_vars PROVE SyncInv'
    OBVIOUS
  <2>1. CASE UNCHANGED vars
    BY <2>1 DEF vars, worldVars, pullVars, SyncInv, Compared
  <2>2. CASE (People \/ ReportBase) /\ UNCHANGED sync
    <3>1. head' \in Commit
      BY <2>2, PullAssumption DEF People, ReportBase, Push, Rerun, Close, ChangeStanding, AdvanceMain,
                                  Heads, SyncInv
    <3>2. QED BY <2>2, <3>1 DEF SyncInv, Compared
  <2>3. CASE Synchronize \/ FailSync
    <3>1. head' \in Commit
      BY <2>3, PullAssumption DEF Synchronize, FailSync, SyncList, SyncMain, SyncPull, SyncFiles,
           SyncPull2, SyncWrite, Commits, Looking, worldVars, pullVars, SyncInv
    <3>2. QED BY <2>3, <3>1, SyncStep DEF SyncInv
  <2>4. CASE (Admit \/ FailPass) /\ UNCHANGED sync
    <3>1. head' = head
      BY <2>4 DEF Admit, FailPass, WakePass, SchedulePass, TakeRun, EndPass, ReadRun, ReadPull,
           CheckUsers, ReadMain, ReadFiles, Judge, CheckActors, RevalidatePull, RevalidateMain,
           Repull, RereadRun, Approve, Reading, worldVars, pullVars
    <3>2. QED BY <2>4, <3>1 DEF SyncInv, Compared
  <2>5. QED BY <2>1, <2>2, <2>3, <2>4 DEF Next
<1>3. QED BY <1>1, <1>2, PTL DEF Spec

\* What the commit on top of an expected head is.
LEMMA PairingMeans ==
  ASSUME NEW b, NEW h \in Commit, NEW c,
         \A p \in LockPath : Regular(b, h, p), Synchronizable(b, h), ~ Synchronized(b, h),
         Tree[c] = [Tree[h] EXCEPT !["devenv.lock"].text = Paired(@, File(h, "flake.lock").text)]
  PROVE  /\ Changed(h, c) = {"devenv.lock"} /\ LocksPaired(b, c)
         /\ Changed(b, h) \subseteq LockPath => Changed(b, c) = LockPath
<1> DEFINE native == File(h, "devenv.lock").text
           new == File(h, "flake.lock").text
<1>1. "devenv.lock" \in DOMAIN Tree[h] /\ "flake.lock" \in DOMAIN Tree[h]
  BY DEF Regular, File, LockPath
<1>2. DOMAIN Tree[c] = DOMAIN Tree[h]
  OBVIOUS
<1>3. \A p : p # "devenv.lock" => File(c, p) = File(h, p)
  BY <1>2 DEF File
<1>4. DOMAIN Tree[h]["devenv.lock"] = {"mode", "text"}
  BY <1>1, DeltaAssumption
<1>5. /\ File(c, "devenv.lock").text = Paired(native, new)
      /\ File(c, "devenv.lock").mode = File(h, "devenv.lock").mode
  BY <1>1, <1>2, <1>4 DEF File
<1>6. /\ native = File(b, "devenv.lock").text /\ native # Paired(native, new)
      /\ File(b, "flake.lock").text.nixpkgs = native.nixpkgs
      /\ File(b, "flake.lock").text.rest = new.rest
      /\ File(b, "flake.lock").text.nixpkgs.rev # new.nixpkgs.rev
  BY DEF Synchronizable, Synchronized
<1>7. Paired(native, new).nixpkgs = new.nixpkgs /\ Paired(native, new).rest = native.rest
  BY DEF Paired
<1>8. Changed(h, c) = {"devenv.lock"}
  BY <1>1, <1>2, <1>3, <1>5, <1>6 DEF Changed
<1>9. LocksPaired(b, c)
  <2>1. Regular(b, c, "flake.lock") /\ Regular(b, c, "devenv.lock")
    BY <1>3, <1>5 DEF Regular, LockPath
  <2>2. QED BY <1>3, <1>5, <1>6, <1>7, <2>1 DEF LocksPaired, LockPath
<1>10. ASSUME Changed(b, h) \subseteq LockPath PROVE Changed(b, c) = LockPath
  <2>1. ASSUME NEW p \in Changed(b, c), p # "devenv.lock" PROVE p \in LockPath
    <3>1. File(c, p) = File(h, p) /\ File(b, p) # File(c, p)
      BY <1>3, <2>1 DEF Changed
    <3>2. p \in Changed(b, h)
      BY <1>2, <2>1, <3>1 DEF Changed
    <3>3. QED BY <1>10, <3>2
  <2>2. "flake.lock" \in Changed(b, c)
    <3>1. File(c, "flake.lock").text = new
      BY <1>3
    <3>2. QED BY <1>1, <1>2, <1>6, <3>1 DEF Changed
  <2>3. "devenv.lock" \in Changed(b, c)
    <3>1. File(c, "devenv.lock").text.nixpkgs # File(b, "devenv.lock").text.nixpkgs
      BY <1>5, <1>6, <1>7
    <3>2. QED BY <1>1, <1>2, <3>1 DEF Changed
  <2>4. QED BY <2>1, <2>2, <2>3 DEF LockPath
<1>11. QED BY <1>8, <1>9, <1>10

\* The synchroniser's commit follows the head it planned for, touches the native
\* lock alone and pairs the locks, however often the branch moved meanwhile.
THEOREM PairingSound == Spec => PairingFollows
<1> DEFINE Follows == head' # head /\ sync' = NoSync /\ sync # NoSync =>
             /\ head = sync.expected /\ Changed(head, head') = {"devenv.lock"}
             /\ LocksPaired(sync.base, head')
             /\ Files[head] \subseteq LockPath /\ MergeBase[head] = sync.base =>
                  OnlyNixpkgsMoves(MergeBase[head'], head')
<1>1. SyncInv /\ [Next]_vars => [Follows]_vars
  <2> SUFFICES ASSUME SyncInv, Next, head' # head, sync' = NoSync, sync # NoSync PROVE Follows
    BY DEF vars
  <2>1. sync.at = "write" /\ head = sync.expected /\ Commits
    <3>1. Synchronize \/ FailSync
      BY DEF Next, Admit, FailPass, WakePass, SchedulePass, TakeRun, EndPass, ReadRun, ReadPull,
           CheckUsers, ReadMain, ReadFiles, Judge, CheckActors, RevalidatePull, RevalidateMain,
           Repull, RereadRun, Approve, Reading, worldVars, pullVars
    <3>2. QED BY <3>1 DEF Synchronize, FailSync, SyncAt, SyncList, SyncMain, SyncPull, SyncFiles,
           SyncPull2, SyncWrite, Looking, worldVars, pullVars
  <2>2. PICK c \in Candidate : Pairing(c) /\ head' = c
    BY <2>1 DEF Commits
  <2>3. /\ \A p \in LockPath : Regular(sync.base, head, p)
        /\ Synchronizable(sync.base, head) /\ ~ Synchronized(sync.base, head) /\ head \in Commit
    BY <2>1 DEF SyncInv, Compared
  <2>4. /\ MergeBase[c] = MergeBase[head]
        /\ Tree[c] = [Tree[head] EXCEPT !["devenv.lock"].text = Paired(@, File(head, "flake.lock").text)]
    BY <2>1, <2>2 DEF Pairing
  <2>5. /\ Changed(head, c) = {"devenv.lock"} /\ LocksPaired(sync.base, c)
        /\ Changed(sync.base, head) \subseteq LockPath => Changed(sync.base, c) = LockPath
    BY <2>3, <2>4, PairingMeans
  <2>6. ASSUME Files[head] \subseteq LockPath, MergeBase[head] = sync.base
        PROVE  OnlyNixpkgsMoves(MergeBase[c], c)
    BY <2>3, <2>4, <2>5, <2>6 DEF Files, OnlyNixpkgsMoves
  <2>7. QED BY <2>1, <2>2, <2>5, <2>6
<1>2. QED BY <1>1, SyncInvariance, PTL DEF Spec, PairingFollows
=============================================================================
