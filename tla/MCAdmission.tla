----------------------------- MODULE MCAdmission -----------------------------
(* A small repository: a workflow that runs a local action, two locks, two  *)
(* commits of main, and heads on them of every kind the code tells apart.   *)
EXTENDS Admission

CONSTANTS m1, m2, pins, rebased, script, flake, pair

Pin(version, sha) == [action |-> "checkout", version |-> version, sha |-> sha]
Doc(pin, rest) == [mode |-> "100644", text |-> [pins |-> <<pin>>, rest |-> rest]]
Lock(rev, rest) == [mode |-> "100644", text |-> [nixpkgs |-> [rev |-> rev], rest |-> rest]]

MCTreeOf(ci, act, lock, native, other) ==
  [p \in {"ci.yml", "act.yml", "flake.lock", "devenv.lock", "other"} |->
     CASE p = "ci.yml"      -> Doc(ci, "runs act")
       [] p = "act.yml"     -> Doc(Pin("v1", "a1"), act)
       [] p = "flake.lock"  -> Lock(lock, "flake")
       [] p = "devenv.lock" -> Lock(native, "devenv")
       [] p = "other"       -> [mode |-> "100644", text |-> other]]

MCTree == [c \in Commit |->
  LET old == Pin("v1", "a1")    new == Pin("v2", "a2")
  IN CASE c = m1      -> MCTreeOf(old, "plain", "r1", "r1", "x")
       [] c = m2      -> MCTreeOf(old, "plain", "r1", "r1", "y")
       [] c = pins    -> MCTreeOf(new, "plain", "r1", "r1", "x")
       [] c = rebased -> MCTreeOf(new, "plain", "r1", "r1", "y")
       [] c = script  -> [MCTreeOf(new, "plain", "r1", "r1", "x") EXCEPT
                            !["ci.yml"].text.rest = "runs act and more"]
       [] c = flake   -> MCTreeOf(old, "plain", "r2", "r1", "x")
       [] c = pair    -> MCTreeOf(old, "plain", "r2", "r2", "x")]

MCMergeBase == [c \in Commit |-> IF c \in {m2, rebased} THEN m2 ELSE m1]
MCUses == [rest \in {"runs act", "runs act and more", "plain"} |->
             IF rest = "plain" THEN {} ELSE {"act.yml"}]
MCTagRef == [t \in {<<"checkout", "v2">>} |-> "t2"]
MCTagObject == [o \in {"t2", "a2"} |->
  IF o = "t2" THEN [type |-> "tag", target |-> "a2"] ELSE [type |-> "commit", target |-> "a2"]]
=============================================================================
