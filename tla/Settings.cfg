SPECIFICATION MCSpec
CONSTANTS
  Kind <- MCKind
  NoFlag = {"auth_token"}
  Transport = "transport"
  Token = "auth_token"
  Addr = "addr"
  Size = "default_page_size"
  Ceiling = "max_page_size"
INVARIANTS
  ServedAsTold
  RefusedForCause
