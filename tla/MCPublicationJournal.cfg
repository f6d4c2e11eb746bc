CONSTANTS
  Controller = {c1, c2}
  CommitId = {k1, k2, k3}
  Step = {cache, handoff}
  Identity = {i1, i2}
  Verifier = {v1, v2}
  Handoff = handoff
  NoCommit = NoCommit
  Absent = Absent
  MaxReads = 2
SPECIFICATION FairSpec
INVARIANTS LinearHistory AcknowledgedDurable ReceiptsMatchSteps
PROPERTIES ImplementsRegister SaveTerminates
