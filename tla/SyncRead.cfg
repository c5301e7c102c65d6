SPECIFICATION FairSpec
CONSTANTS
  Syncs = {y1, y2}
  MaxTransmissions = 1
  MaxMail = 2
  MaxValidity = 2
  SlowSyncs = {y1}
  SmtpAmbiguous = FALSE
  SlowLogins = FALSE
INVARIANTS TypeOK NoReceiptSkipped
PROPERTIES ReceiptsRead
CHECK_DEADLOCK FALSE
