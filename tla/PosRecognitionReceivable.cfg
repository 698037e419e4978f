SPECIFICATION Spec
CONSTANTS
  Workers = {w1}
  Invoices = {i1}
  Payments = {p1}
  Notes = {n1}
  Amounts = {1, 2}
  StockTracked = TRUE
  Faults = {"decline", "replay"}
  None = None
SYMMETRY Symmetry
INVARIANTS
  ReceivableClears
