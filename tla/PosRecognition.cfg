SPECIFICATION FairSpec
CONSTANTS
  Workers = {w1, w2}
  Invoices = {i1, i2}
  Payments = {p1, p2}
  Notes = {n1, n2}
  Amounts = {1, 2}
  StockTracked = TRUE
  Faults = {"decline", "replay"}
  None = None
INVARIANTS
  TypeOK
  StockLeavesOnce
PROPERTIES
  SaleImplemented
  SaleCompletes
