SPECIFICATION Spec
CONSTANTS
  Workers = {w1, w2}
  Registers = {r1, r2}
  Sessions = {s1, s2}
  Tickets = {t1, t2}
  Tables = {b1}
  Totals = {1}
  Amounts = {1}
  MaxPaid = 1
  MaxMoved = 1
  MaxTriggers = 1
  None = None
SYMMETRY Symmetry
INVARIANTS
  TypeOK
  NoDraftInClosedSession
  RequestsCanRely
  OneOpenSessionPerRegister
  OneDraftPerTable
PROPERTIES
  CloseRecordsTheDrawer
  ClosedSessionIsFrozen
  TicketKeepsItsSession
CHECK_DEADLOCK FALSE
