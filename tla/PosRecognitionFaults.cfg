SPECIFICATION Spec
CONSTANTS
  Workers = {w1, w2}
  Invoices = {i1, i2}
  Payments = {p1, p2}
  Notes = {n1}
  Amounts = {1, 2}
  StockTracked = TRUE
  Faults = {"decline", "lost", "crash", "guard", "replay"}
  None = None
SYMMETRY Symmetry
INVARIANTS
  TicketNamesItsBooks
  ToldAtMostOnce
