SPECIFICATION Spec
CONSTANTS
  Requests = {r1}
  Years = {1, 2}
  MaxCredits = 2
  Dues = {2}
  Excesses = {2}
  InpsExcesses = {0}
  Entered = {1}
  EnteredYears = {1}
  Overlaps = {}
  AnyReturn = TRUE
INVARIANT CarriedOnce
CHECK_DEADLOCK FALSE
