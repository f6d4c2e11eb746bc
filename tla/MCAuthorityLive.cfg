CONSTANTS
  Reviewer = {u1, u2}
  Revision = {h1, h2}
  Target = {}
  Governed = {h1, h2}
  Malformed = {}
  Verb = {"APPROVED", "withdraw", "comment", "CHANGES_REQUESTED"}
  NoTarget = NoTarget
  NoJob = NoJob
  None = None
  MaxReviews = 2
  MaxChanges = 2
  MaxFaults = 1
SPECIFICATION FairSpec
PROPERTIES OvertakenDiscarded HeadAnswered
