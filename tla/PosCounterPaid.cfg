SPECIFICATION Spec
CONSTANTS
  Workers = {w1, w2}
  Registers = {r1}
  Sessions = {s1}
  Tickets = {t1}
  Tables = {}
  Totals = {1, 2}
  Amounts = {1}
  MaxPaid = 2
  MaxMoved = 0
  MaxTriggers = 2
  None = None
INVARIANT PaidIsFullyTendered
CHECK_DEADLOCK FALSE
