SPECIFICATION LifeSpec
CONSTANTS
  MaxRetries = 2
  MaxRedirects = 1
INVARIANTS
  WriteSentOnce
  ExitTellsTheTruth
PROPERTIES
  RetryDiscipline
  ContractSpec
  NothingSentForTheGone
  Ends
