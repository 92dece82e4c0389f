------------------------------ MODULE MCSettings ------------------------------
(***************************************************************************)
(* Settings with one setting of each kind, both texts that decide on       *)
(* exposure and both page sizes.  A few settings at a time are given in    *)
(* every way; meanwhile the rest are as in a plain deployment, the         *)
(* required ones set in the environment and nothing else.                  *)
(***************************************************************************)
EXTENDS Settings

MCKind ==
  [whmcs_url |-> "url", api_secret |-> "credential", auth_token |-> "text",
   addr |-> "address", confirm_ttl |-> "checked", default_page_size |-> "checked",
   max_page_size |-> "checked", max_retries |-> "clamped",
   allow_destructive |-> "switch", transport |-> "choice", profile |-> "choice",
   tool_allowlist |-> "list"]

Numbers(default, flag, env, inFile) ==
  [flag |-> flag, env |-> env, file |-> inFile, default |-> default, refused |-> 0]

Together ==
  { {"transport", "auth_token", "addr"}, {"whmcs_url", "confirm_ttl"},
    {"api_secret", "transport"}, {"profile", "allow_destructive"},
    {"max_retries", "tool_allowlist"}, {"confirm_ttl", "profile"},
    {"default_page_size", "max_page_size"} }

\* Page sizes within the defaults, and on both sides of them and of each other.
MCPages ==
  { [default_page_size |-> Numbers(25, flag, 10, 300),
     max_page_size |-> Numbers(200, 10, 30, inFile)] :
      flag \in {30, 201}, inFile \in {24, 200} }

Plain(level) ==
  [s \in Names |-> IF level = "env" /\ Kind[s] \in Required THEN "env" ELSE "absent"]

Given(level, some) ==
  {[s \in Names |-> IF s \in some THEN g[s] ELSE Plain(level)[s]] :
     g \in {h \in [some -> Inputs] : \A s \in some : h[s] \in Values(s, level)}}

MCInit ==
  /\ file \in Files
  /\ \E some \in Together :
       \E flag \in Given("flag", some), env \in Given("env", some),
          inFile \in IF file = "read" THEN Given("file", some) ELSE {Nothing} :
         /\ given = [flag |-> flag, env |-> env, file |-> inFile]
         /\ pages \in IF PageSettings = some THEN MCPages ELSE {CHOOSE m \in MCPages : TRUE}
  /\ http \in {{}, {"env"}, {"file"}, Levels}
  /\ remote \in {{}, {"file"}, Levels}
  /\ Begin
  /\ given["flag"]["transport"] = "absent" /\ given["env"]["transport"] = "absent"
       /\ given["file"]["transport"] = "absent" => http = {} /\ remote = {}

MCSpec == MCInit /\ [][SettingsNext]_settingsVars
=============================================================================
