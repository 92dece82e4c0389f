SPECIFICATION Spec
CONSTANTS
  Actions <- MCActions
  ClassOf <- MCClassOf
  CategoryOf <- MCCategoryOf
  Requests <- MCRequests
  Judged <- MCVerdicts
  Pols <- MCPolicies
  Calls = {c1, c2, c3}
  ClientErrors = {"timeout"}
  LogLevels = {"info", "warn"}
  NoToken = NoToken
  NoRequest = NoRequest
  NoCall = NoCall
  TTL = 1
  Sec = 2
  MaxTime = 1
  MaxEpoch = 1
  MaxBack = 0
INVARIANTS
  IInv
  TokenRunsOnceWhileLive
  RefusalsAreTrue
PROPERTIES
  SentWasConfirmed
  StoreSpec
SYMMETRY Symmetry
