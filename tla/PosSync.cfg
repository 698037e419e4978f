SPECIFICATION FairSpec
CONSTANTS
  Workers = {w1, w2}
  Tickets = {t1, t2}
  u1 = u1
  u2 = u2
  f1 = f1
  c1 = c1
  n1 = n1
  n2 = n2
  Replays <- MCReplays
  Tenders <- MCTenders
  ReceiptOf <- MCReceiptOf
  Rate = 11
  Unit = 50
  MaxTenders = 3
  UuidUnique = FALSE
  Outbox = TRUE
  None = None
INVARIANTS
  TypeOK
  OneTicketPerUuid
  HeaderTellsItsRows
  ReturnedOnce
  AnswersHold
  PaidUpIsTold
PROPERTIES
  FinalizedIsFrozen
  PaidUpIsRecognised
CHECK_DEADLOCK FALSE
