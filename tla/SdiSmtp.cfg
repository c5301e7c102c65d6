SPECIFICATION Spec
CONSTANTS
  Invoices = {a, m}
  Imported = {m}
  NoInvoice = NoInvoice
  Senders = {s1}
  Syncs = {y1}
  Uploads = {u1}
  MaxTransmissions = 2
  MaxFiles = 3
  AssignedAtStart = TRUE
  SmtpAmbiguous = TRUE
INVARIANTS OutcomeGenuine SentIsAwaited
CHECK_DEADLOCK FALSE
