SPECIFICATION FairSpec
CONSTANTS
  Procs = {p1, p2}
  Portals = {"store", "owner"}
  MaxVerifyAttempts = 2
  MaxOtpRequests = 1
  Limiters = {"redis", "memory"}
  Users <- NewOrBlocked
  MaxOtps = 1
  MaxSessions = 2
INVARIANTS LimitsHold LoginsPerOtp
PROPERTIES RoleOnlyRises MemoryLimitLifts
CHECK_DEADLOCK FALSE
