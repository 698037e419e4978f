SPECIFICATION BackOfficeSpec
CONSTANTS
  Workers = {w1, w2}
  ClosingIds = {c1, c2, c3}
  Journals = {j1, j2}
  Cash = {0, 1, 2}
  Faults = {"refuse", "lost", "crash"}
  None = None
  Clerks = {k1, k2}
  Sessions = {1, 2, 3}
  Hosts = {h1, h2}
  BatchLimit = 2
  MaxEdits = 1
  Baskets = {1, 2}
  Coins = {1, 2}
  MaxRows = 2
INVARIANTS
  BackOfficeTypeOK
  VarianceBookedOnce
  ClosedOverBooked
  EntryIsTheDrawer
  JournalAgreesWithEntry
  
  EditsDoWhatTheySay
  SeedsFindTheirParents
  AlertedOncePerEdit
  PaidReceiptIsTheTicket
PROPERTIES
  StateMovesForward
CHECK_DEADLOCK FALSE
