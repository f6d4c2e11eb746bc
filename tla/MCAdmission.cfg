CONSTANTS
  m1 = m1
  m2 = m2
  pins = pins
  rebased = rebased
  script = script
  flake = flake
  pair = pair
  Commit = {m1, m2, pins, rebased, script, flake, pair}
  Candidate = {pins, rebased, script, flake, pair}
  Own = {pins, script}
  Base = {m1, m2}
  ActionPath = {"ci.yml", "act.yml"}
  CiPath = "ci.yml"
  Tree <- MCTree
  MergeBase <- MCMergeBase
  Uses <- MCUses
  Privileged = {"privileged"}
  TagRef <- MCTagRef
  TagObject <- MCTagObject
  Person = {u}
  Bot = Bot
  Dependabot = Dependabot
  Other = Other
  None = None
  Rounds = 2
  MaxChanges = 1
SPECIFICATION FairSpec
PROPERTIES AdmittedVetted AdmittedCurrent PairingFollows RunServed LockPaired
