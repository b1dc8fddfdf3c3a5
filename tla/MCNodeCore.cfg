SPECIFICATION CoreSpec
CONSTANTS
  Skeletons = {none, s1}
  NoInbounds = none
  Accounts = {a1, a2}
  MaxSpawns = 5
INVARIANTS TypeOK OneProcess BeliefIsTruth
PROPERTIES ContractSpec ApplyReturns
