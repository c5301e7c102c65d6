SPECIFICATION Spec
CONSTANTS
  Invoices = {a, b, c}
  Requests = {r1, r2}
  NoInvoice = NoInvoice
  NoRequest = NoRequest
  Series = {n}
  Texts = {x, y}
  MaxSequence = 3
  MaxFiles = 3
  ConcurrentEdits = TRUE
  SlowWrites = FALSE
PROPERTY OnlyDraftsChange
SYMMETRY Interchangeable
CHECK_DEADLOCK FALSE
