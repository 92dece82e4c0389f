SPECIFICATION Spec
CONSTANTS
  w1 = w1
  w2 = w2
  Extra = 2
  MaxPage = 9
  Workers <- MCWorkers
  Sites <- MCSites
  SiteOf <- MCSiteOf
  Tables <- MCTables
  Lower <- MCLower
  Anchor <- MCAnchor
  Rank <- MCRank
  Ours <- MCOurs
INVARIANTS
  HandedOverSoundly
  RegistryIsTheSite
  WrittenIsSound
  SafeToServe
PROPERTY
  Terminates
