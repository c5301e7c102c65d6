SPECIFICATION DeskSpec
CONSTANTS
  Documents = {d}
  Clerks = {r1, r2}
  NoClerk = nobody
  MaxPayments = 3
  Totals = {1, 2}
  Amounts <- BothSigns
  Quarters = {1}
  Payers = {r1, r2}
  MaxForms = 5
  AskedStatuses = {"PLANNED", "PAID"}
  OnePayer = TRUE
  LastDay = 3
  MaxLookback = 2
  Currencies = {usd, rub}
  Askers = {r1, r2}
  MAX_ARCHIVE_ENTRIES = 4
  MAX_ARCHIVE_EXTRACTED_BYTES = 6
  MAX_INVOICE_FILE_BYTES = 2
INVARIANTS DeskTypeOK CollectedWithinTotal QuarterPaidOnce InstallmentsOnce NearestQuotation DeadlinesRight ScheduleExact YearCloses ReturnAgrees InvoiceAddsUp ImportAsShown
SYMMETRY Interchangeable
CHECK_DEADLOCK FALSE
