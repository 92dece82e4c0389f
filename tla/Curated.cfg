SPECIFICATION CallSpec
CONSTANTS
  Misspelled = "clientid"
  MaxGiven = 5
  MaxOdd = 1
INVARIANTS
  GoodCallsArrive
  NothingInvented
  NeverUnbounded
