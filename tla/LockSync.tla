------------------------------ MODULE LockSync ------------------------------
(***************************************************************************)
(* ci/sync-dependabot-lock.py: when Dependabot moves nixpkgs in flake.lock *)
(* a run on protected main adds the same identity to devenv.lock, as one   *)
(* commit on the request's branch.  The plan is made anew, once in         *)
(* discover and twice in execute, before the one write.                    *)
(***************************************************************************)
EXTENDS DependencyPull

CONSTANT Rounds       \* how often the plan is made: 3

ASSUME RoundsAssumption == Rounds \in Nat \ {0}

VARIABLE sync

NoSync == [at |-> "rest", base |-> None, expected |-> None, files |-> {}, round |-> 0]

Sync == [at : {"rest", "listed", "main", "pull", "files", "main2", "pull2", "write"},
         base : Base \cup {None}, expected : Candidate \cup {None},
         files : SUBSET (ActionPath \cup LockPath \cup {"other"}), round : 0..Rounds]

SyncInit == sync = NoSync

SyncAt(point) == sync.at = point
SyncGoto(point) == sync' = [sync EXCEPT !.at = point]
Refuse == sync' = NoSync
Looking == UNCHANGED worldVars

\* discover: main, the open nix requests of Dependabot, and main again.  A run
\* that finds none does nothing, so only one that does is a step.
SyncList ==
  /\ SyncAt("rest") /\ Looking
  /\ open /\ user = Dependabot /\ "flake.lock" \in Files[head] /\ base = main
  /\ sync' = [NoSync EXCEPT !.at = "listed", !.base = main, !.expected = head, !.round = 1]

SyncMain(here, next) ==
  /\ SyncAt(here) /\ Looking
  /\ IF main = sync.base THEN SyncGoto(next) ELSE Refuse

\* plan: the request must be the expected one, before and after its contents
\* were read.
Expected == open /\ head = sync.expected /\ base = sync.base

SyncPull ==
  /\ SyncAt("pull") /\ Looking
  /\ IF Expected THEN sync' = [sync EXCEPT !.at = "files", !.files = Files[head]]
                 ELSE Refuse

\* (Faulty variant: only a request that has both locks already.)
SyncFilesPairOnly ==
  /\ SyncAt("files") /\ Looking
  /\ IF Files[head] = LockPath /\ Synchronizable(sync.base, sync.expected)
     THEN SyncGoto("main2") ELSE Refuse

SyncFiles ==
  LET now == Files[head]
  IN /\ SyncAt("files") /\ Looking
     /\ IF /\ Cardinality(now) = Cardinality(sync.files)
           /\ "flake.lock" \in now /\ now \subseteq LockPath
           /\ \A p \in LockPath : Regular(sync.base, sync.expected, p)
           /\ Synchronizable(sync.base, sync.expected)
        THEN SyncGoto("main2") ELSE Refuse

SyncPull2 ==
  /\ SyncAt("pull2") /\ Looking
  /\ CASE ~ Expected \/ Synchronized(sync.base, sync.expected) -> Refuse
       [] OTHER -> sync' = [sync EXCEPT !.at = IF sync.round = Rounds THEN "write" ELSE "main",
                                        !.files = {},
                                        !.round = IF sync.round = Rounds THEN @ ELSE @ + 1]

\* The commit on top of a head that pairs its native lock.
Pairing(c) ==
  /\ MergeBase[c] = MergeBase[sync.expected]
  /\ Tree[c] = [Tree[sync.expected] EXCEPT !["devenv.lock"].text =
                  Paired(@, File(sync.expected, "flake.lock").text)]

Commits ==
  /\ \E c \in Candidate : Pairing(c) /\ head' = c /\ NewRun(c, Bot)
  /\ IF open THEN Wakes ELSE UNCHANGED wake
  /\ UNCHANGED <<user, open, base, main, standing>>

\* createCommitOnBranch, refused unless the branch is still at the expected
\* head.  What it reads afterwards only decides what it reports.  (Faulty
\* variant: the branch is set whatever its head.)
SyncWriteForced == SyncAt("write") /\ Refuse /\ UNCHANGED changes /\ Commits

SyncWrite ==
  /\ SyncAt("write") /\ Refuse /\ UNCHANGED changes
  /\ IF head = sync.expected THEN Commits ELSE UNCHANGED worldVars

\* A call fails; the write may have been applied.
FailSync ==
  /\ ~ SyncAt("rest") /\ Refuse /\ Change
  /\ \/ UNCHANGED <<pullVars, run, wake>>
     \/ SyncAt("write") /\ head = sync.expected /\ Commits

Synchronize ==
  \/ SyncList \/ SyncMain("listed", "main") \/ SyncMain("main", "pull")
  \/ SyncPull \/ SyncFiles \/ SyncMain("main2", "pull2") \/ SyncPull2 \/ SyncWrite
=============================================================================
