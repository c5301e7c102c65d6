SPECIFICATION Spec
CONSTANTS
  Invoices = {a, b, c}
  Requests = {r1, r2}
  NoInvoice = NoInvoice
  NoRequest = NoRequest
  Series = {n, m}
  Texts = {x}
  MaxSequence = 2
  MaxFiles = 3
  ConcurrentEdits = FALSE
  SlowWrites = FALSE
INVARIANTS TypeOK XmlMatchesRow OneDocumentPerName NumbersOnce NoGaps ReplacedStaysRejected
PROPERTIES NumberKept OnlyDraftsChange ImplementsLifecycle
SYMMETRY Interchangeable
CHECK_DEADLOCK FALSE
