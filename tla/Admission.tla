------------------------------ MODULE Admission ------------------------------
(***************************************************************************)
(* Held CI runs of one pull request: the admission controller, the lock    *)
(* synchroniser, Dependabot and people, call by call.                      *)
(***************************************************************************)
EXTENDS CiAdmission, LockSync

vars == <<worldVars, pass, sync>>

Init == WorldInit /\ PassInit /\ SyncInit

PassWatches ==
  pass' = [pass EXCEPT !.calm = @ /\ UNCHANGED <<pullVars, run>>]

Next ==
  \/ (People \/ ReportBase) /\ PassWatches /\ UNCHANGED sync
  \/ (Synchronize \/ FailSync) /\ PassWatches
  \/ (Admit \/ FailPass) /\ UNCHANGED sync

Spec == Init /\ [][Next]_vars

\* The controller and the synchroniser run on a schedule and on events and go
\* on once started; GitHub reports the new base in the end.  An exception in
\* the evaluation of another request's run ends a pass: that does not happen
\* in every pass for ever.
FairSpec ==
  /\ Spec
  /\ WF_vars(Admit /\ UNCHANGED sync)
  /\ SF_vars(TakeRun(Other) /\ pass' # NoPass /\ UNCHANGED sync)
  /\ WF_vars(Synchronize /\ PassWatches)
  /\ WF_vars(ReportBase /\ PassWatches /\ UNCHANGED sync)

------------------------------------------------------------------------------
(* Properties.                                                             *)

\* Whatever moves while it decides, the controller lets Dependabot's CI run only
\* on a head that, compared with its whole base tree, moves nothing but pins to
\* published versions, or one nixpkgs identity in both locks; and its base was
\* main when the pass read the request.
AdmittedVetted ==
  [][run' # run /\ Approve /\ user = Dependabot =>
       Vetted(pass.head) /\ MergeBase[pass.head] = pass.base]_vars

\* Every approval is right when given, unless something was done to the request
\* after the last checks of the actors began: the request is open at the head
\* of the run, its people are trusted, and Dependabot's base is still main.
AdmittedCurrent ==
  [][run' # run /\ Approve /\ pass.calm =>
       /\ Matches
       /\ Trusts(run[head].actor) \/ (user = Dependabot /\ run[head].actor = Dependabot)
       /\ IF user = Dependabot THEN main = MergeBase[head] ELSE Trusts(user)]_vars

\* The synchroniser never discards a push: its commit follows the head it
\* planned for and changes nothing of it but the native lock, and the locks are
\* paired as main has them.  If the request changed only locks since that main,
\* so does the commit: a branch that was moved away and back while its files
\* were listed may have changed more, which the admission does not let run.
PairingFollows ==
  [][head' # head /\ sync' = NoSync /\ sync # NoSync =>
       /\ head = sync.expected /\ Changed(head, head') = {"devenv.lock"}
       /\ LocksPaired(sync.base, head')
       /\ Files[head] \subseteq LockPath /\ MergeBase[head] = sync.base =>
            OnlyNixpkgsMoves(MergeBase[head'], head')]_vars

\* A held run that may start does, by its wake-up or by the schedule.
Servable ==
  /\ open /\ IF user = Dependabot
             THEN /\ base = main
                  /\ Judgement(main, head, Files[head]) = "admitted"
                  /\ run[head].actor = Dependabot \/ Trusts(run[head].actor)
             ELSE Trusts(user) /\ Trusts(run[head].actor)
RunServed == <>[](Servable => run[head].state # "held")

\* An open Dependabot request on the live base whose lock can be paired gets
\* paired.
Pairable ==
  /\ open /\ user = Dependabot /\ MergeBase[head] = main
  /\ Changed(main, head) = {"flake.lock"} /\ Synchronizable(main, head)
LockPaired == <>[](~ Pairable)
=============================================================================
