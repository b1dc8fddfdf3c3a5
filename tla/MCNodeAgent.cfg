SPECIFICATION Spec
CONSTANTS
  a1 = a1
  Skeletons = {none, s1}
  NoInbounds = none
  Accounts = {a1}
  Inbound = ib
  Quota <- BothQuotas
  Terms <- AnyTerm
  MaxTraffic = 2
  MaxTime = 1
INVARIANTS TypeOK NeverOvercharged Conserved UncleanIsMarked DiskMatchesMemory
PROPERTY SampleCutsOff
