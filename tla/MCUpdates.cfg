CONSTANTS
  Candidate = {c1, c2}
  Foreign = {f}
  Forbidden = {f}
  None = None
  Attempts = 2
  MaxChanges = 2
SPECIFICATION FairSpec
PROPERTIES ForeignKept RunPublishes EnrolledValidated CandidateArrives RequestServed
CHECK_DEADLOCK FALSE
