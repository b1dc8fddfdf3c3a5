SPECIFICATION FairSpec
CONSTANTS
  a1 = a1
  Skeletons = {none, s1}
  NoInbounds = none
  Accounts = {a1}
  Inbound = ib
  Quota <- BothQuotas
  Terms <- Never
  MaxTraffic = 1
  MaxTime = 0
PROPERTIES CoreRecovers StopReturns
