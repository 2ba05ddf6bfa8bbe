SPECIFICATION Spec
CONSTANTS
  r1 = r1 r2 = r2 r3 = r3 r4 = r4 r5 = r5 r6 = r6
  Request = {r1, r2, r3, r4, r5, r6}
  Bucket = {"all"}
  Limit <- QuotaLimit
  Window <- QuotaWindow
  MaxWindow = 2
  Horizon = 4
SYMMETRY Interchangeable
INVARIANT WithinProviderDay
CHECK_DEADLOCK FALSE
