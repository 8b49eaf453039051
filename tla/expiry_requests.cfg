SPECIFICATION FairSpec
CONSTANTS
  Events = {e1}
  Requests = {r1, r2}
  Grace = 1
  Limit = 1
  LastDate = 3
  MaxTime = 5
  MaxCrashes = 1
INVARIANTS ExpiryInv
PROPERTIES KeepsRetention OwnersForewarned ExpiredIsPurged
CHECK_DEADLOCK FALSE
