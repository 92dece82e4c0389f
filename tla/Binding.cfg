SPECIFICATION Spec
CONSTANTS
  Spellings <- MCSpellings
  Lower <- MCLower
  Trim <- MCTrim
  Params <- MCParams
  Identifiers = {"serviceid"}
  Deprecated = {"cvv"}
  Required = {"serviceid"}
  IdKey = "service_id"
  IdParam = "serviceid"
  Numbers = {0, 42}
  Strings = {42, Word}
  Word = Word
  Absent = Absent
  MaxArgs = 2
INVARIANTS
  AuthorisesTheSame
  SentWasPreviewed
  NothingIgnored
