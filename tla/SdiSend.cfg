SPECIFICATION FairSpec
CONSTANTS
  Invoices = {a}
  Imported = {}
  NoInvoice = NoInvoice
  Senders = {s1, s2}
  Syncs = {y1}
  Uploads = {u1}
  MaxTransmissions = 2
  MaxFiles = 2
  AssignedAtStart = FALSE
  SmtpAmbiguous = FALSE
INVARIANTS TypeOK NoDuplicateDelivery IssuedOnce
PROPERTIES DeliveryDecided ImplementsLifecycle
CHECK_DEADLOCK FALSE
