SPECIFICATION Spec
CONSTANTS
  Calls = {p1, p2}
  Ids = {i1}
  Ops = {terminate42, terminate43}
  TTL = 2
  Sec = 2
  MaxTime = 3
  MaxEpoch = 0
  MaxBack = 0
  NoCall = NoCall
INVARIANT
  SingleUse
