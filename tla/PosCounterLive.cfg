SPECIFICATION FairSpec
CONSTANTS
  Workers = {w1, w2}
  Registers = {r1}
  Sessions = {s1, s2}
  Tickets = {t1}
  Tables = {}
  Totals = {0, 2}
  Amounts = {1, 2}
  MaxPaid = 3
  MaxMoved = 1
  MaxTriggers = 2
  None = None
INVARIANTS
  HeaderAgreesWithTenders
PROPERTIES
  TriggeredOncePerCrossing
  EveryRequestAnswered
CHECK_DEADLOCK FALSE
