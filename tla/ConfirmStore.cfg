SPECIFICATION Spec
CONSTANTS
  Calls = {p1, p2}
  Ids = {i1, i2}
  Ops = {terminate42, terminate43}
  TTL = 1
  Sec = 2
  MaxTime = 1
  MaxEpoch = 1
  MaxBack = 1
  NoCall = NoCall
INVARIANTS
  IInv
  Authorised
  RefusalsTruthful
PROPERTIES
  NoReplayWhileLive
  ContractSpec
SYMMETRY Symmetry
