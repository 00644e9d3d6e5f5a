SPECIFICATION Spec
CONSTANTS
  Users = {"owner"}
  Nonces = {n1}
  IDs = {s1, s2}
  Requests = {r1, r2}
  idleTimeout = 3
  maxAge = 4
  loginTTL = 2
  renewInterval = 1
  maxClockSkew = 3
  streamRecheck = 2
  EntraLag = 1
  EntraLead = 1
  MaxDelay = 1
  MaxTime = 8
INVARIANT NonceSingleUse
INVARIANT LifetimesCapped
INVARIANT RevokedForGood
INVARIANT StreamsEndSoon
CHECK_DEADLOCK FALSE
