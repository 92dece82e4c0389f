SPECIFICATION Spec
CONSTANTS
  Keys <- MCKeys
  Item = "[]"
  AllowedKeys = {"passwordchanged"}
  SecretKeys = {"password", "passwordchanged"}
  NotesKeys = {"adminnotes"}
  PIIKeys = {"phonenumber"}
  ProseKeys = {"adminnotes", "notes", "subject", "Subject", "customfields",
               "message"}
  IdKeys = {"ticketid"}
  Folded <- MCFolded
  Nested = "client"
  Container = "replies"
  Element = "reply"
  Records = "records"
  MaxDepth = 2
  Specs <- MCSpecs
  ReplySpec <- MCReplySpec
  Responses <- MCResponses
INVARIANTS
  NoSecretShown
  OptInsRespected
  ReportedOrKept
  ReturnedAsDeclared
