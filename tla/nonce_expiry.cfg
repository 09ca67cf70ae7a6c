CONSTANTS
  None = None
  Cleaner = Cleaner
  Callers = {c1, c2}
  Entries = {e1, e2}
  MaxNonce = 1
  FirstNonces = {0}
SPECIFICATION FairSpec
PROPERTY EntryExpires
