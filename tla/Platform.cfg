SPECIFICATION PlatformSpec
CONSTANTS
  Users = {u1, u2}
  NoUser = nobody
  Tenants = {t}
  NoTenant = none
  SessionIds = {s1, s2}
  Callers = {r1, r2}
  MaxPasswords = 2
  OneManager = TRUE
  Contents = {x, y}
  Activators = {r1, r2}
  MaxVersions = 4
INVARIANTS PlatformTypeOK VersionsDiffer SessionsCurrent
PROPERTIES ActiveStays AdminStays
SYMMETRY Interchangeable
CHECK_DEADLOCK FALSE
