CONSTANTS
  None = None
  Cleaner = Cleaner
  Callers = {c1, c2}
  Entries = {e1, e2, e3}
  MaxNonce = 2
  FirstNonces = {0, 1}
SPECIFICATION Spec
INVARIANT TypeOK
INVARIANT EntryExclusion
INVARIANT InvalidLeavesMap
INVARIANT NoNonceGap
INVARIANT LocksAreReleased
SYMMETRY Interchangeable
