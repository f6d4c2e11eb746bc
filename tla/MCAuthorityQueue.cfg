CONSTANTS
  Reviewer = {u1}
  Revision = {h1, h2}
  Target = {t1}
  Governed = {h1, h2}
  Malformed = {h2}
  Verb = {"APPROVED"}
  NoTarget = NoTarget
  NoJob = NoJob
  None = None
  MaxReviews = 2
  MaxChanges = 3
  MaxFaults = 1
SPECIFICATION Spec
INVARIANTS SettledCorrect MergedApproved
