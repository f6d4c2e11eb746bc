CONSTANTS
  d1 = d1
  d2 = d2
  Child = {c1, c2}
  Document = {d1, d2}
  Small = {d1}
  Ancestor = {d1}
  None = None
  Total = 4
  Cap = 2
  Named = {1, 3}
  Attempts = 3
  Fallback = 6
  MaxLive = 1
  Size <- MCSize
  MaxEntries = 1
  MaxBytes = 2
  MaxDamage = 1
  Caller = {p1, p2, p3}
  Member = {m}
  MaxFaults = 2
  Content = {x, y}
  Produced = {x}
  MaxBundles = 1
  MaxTampering = 3
SPECIFICATION FairSpec
INVARIANTS BudgetsKept ReadsTrue EntriesWhole
PROPERTIES PacketsIntact AttestedNow PacketServed
CHECK_DEADLOCK FALSE
