CONSTANTS
  r1 = r1
  r2 = r2
  r3 = r3
  Requests = {r1, r2, r3}
  Sent <- OneClient
  Limiters = {"default", "download"}
  Burst <- Bursts
  Period <- Periods
  MaxIdle = 2
  MaxPause = 0
  Second = 3
  Horizon = 3
  NoToken = ""
  NoBucket = NoBucket
  MaxConcurrent = 2
CHECK_DEADLOCK FALSE
SPECIFICATION FairSpec
INVARIANTS
  TypeOK
  InFlightBounded
  IdleServerHasRoom
  RateIsKept
  
  OrderlyExit
PROPERTIES
  ImplementsTokenBucket
  ServerReturns
