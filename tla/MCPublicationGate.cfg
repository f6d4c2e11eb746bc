CONSTANTS
  a1 = a1
  a2 = a2
  a3 = a3
  r1 = r1
  l1 = l1
  l2 = l2
  l3 = l3
  Decision = {a1, a2, a3, r1, l1, l2, l3}
  Kind <- MCKind
  Disposition <- MCDisposition
  Parents <- MCParents
  NoDecision = NoDecision
  Invalid = Invalid
  Policy = {cfg, newcfg}
  Configured = cfg
  Enabled = {cfg, newcfg}
  Covering = {a1, a2, a3}
  MaxChanges = 4
SPECIFICATION GateSpec
INVARIANTS NeverAgainstRevocation
PROPERTY RightAtLastRead
CHECK_DEADLOCK FALSE
