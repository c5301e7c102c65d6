SPECIFICATION Spec
CONSTANTS
  Requests = {r1, r2}
  Years = {1, 2}
  MaxCredits = 2
  Dues = {1, 2}
  Excesses <- OverpaidOrOwed
  InpsExcesses = {0, 1}
  Entered = {1}
  EnteredYears = {1}
  Overlaps <- SafeOverlaps
  AnyReturn = FALSE
INVARIANTS TypeOK NotOverspent CarriedOnce
SYMMETRY Interchangeable
CHECK_DEADLOCK FALSE
