CONSTANTS
  p1 = p1
  p2 = p2
  xo = xo
  version = version
  Product = {p1, p2}
  Path = {a, b}
  Tag = {xo, version}
  XoTag <- MCXoTag
  ProjectTag <- MCProjectTag
  None = None
  MaxFaults = 1
  MaxWorld = 1
SPECIFICATION FairSpec
INVARIANTS CheckpointsHonest DownstreamLast RevocationStopsWrites VerifiedComplete
PROPERTY NotWedged
