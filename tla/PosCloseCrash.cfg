SPECIFICATION Spec
CONSTANTS
  Workers = {w1, w2}
  ClosingIds = {c1, c2, c3}
  Journals = {j1, j2}
  Cash = {0, 1, 2}
  Faults = {"crash"}
  None = None
SYMMETRY Symmetry
INVARIANTS
  JournalTracesToEntry
CHECK_DEADLOCK FALSE
