SPECIFICATION Spec
CONSTANTS
  Syncs = {y1}
  MaxTransmissions = 1
  MaxMail = 2
  MaxValidity = 2
  SlowSyncs = {y1}
  SmtpAmbiguous = TRUE
  SlowLogins = FALSE
INVARIANTS NoReceiptSkipped
CHECK_DEADLOCK FALSE
