CONSTANTS
  a1 = a1
  a2 = a2
  a3 = a3
  r1 = r1
  Decision = {a1, a2, r1}
  Kind <- MCKind
  Disposition <- MCDisposition
  Parents <- MCParents
  NoDecision = NoDecision
  Invalid = Invalid
  Capacity = 2
  MaxFaults = 0
SPECIFICATION Spec
PROPERTY MergedSelected
CHECK_DEADLOCK FALSE
