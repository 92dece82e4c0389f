------------------------------- MODULE Settings -------------------------------
(***************************************************************************)
(* How a start resolves its settings (internal/config, and whmcs.New): a   *)
(* flag over the environment over the env file over a default, what is     *)
(* malformed at each level, and the checks that refuse to start.  Startup  *)
(* begins where this ends.                                                 *)
(*                                                                         *)
(* The value of a setting is "absent", "blank", "malformed" for its kind,  *)
(* "refused" (well formed, but out of bounds), or a good one, which bears  *)
(* the name of the level that gives it.  Only of the two page sizes does   *)
(* the number matter, since one is held against the other.                 *)
(***************************************************************************)
EXTENDS Integers

CONSTANTS
  Kind,        \* the kind of each setting
  NoFlag,      \* settings that have no flag
  Transport,   \* the transport setting, a choice
  Token,       \* the bearer token of the http transport, a text
  Addr,        \* the address it listens on
  Size,        \* the page size of a call that gives none
  Ceiling      \* the largest page size

(* "url" and "credential" are required texts, and "text" one that is not;    *)
(* validate checks a "checked" number, and whmcs.New puts a "clamped" one    *)
(* right; a "choice" is one word of several.                                 *)
Kinds == {"url", "credential", "text", "address", "checked", "clamped",
          "switch", "choice", "list"}
Required == {"url", "credential"}
Numeric == {"checked", "clamped"}
Converted == Numeric \cup {"switch"}

Names == DOMAIN Kind
Levels == {"flag", "env", "file"}
PageSettings == {Size, Ceiling}

ASSUME KindsAssumption ==
  /\ Kind \in [Names -> Kinds]
  /\ {Transport, Token, Addr} \cup PageSettings \subseteq Names
  /\ \A s \in PageSettings : Kind[s] = "checked"
  /\ Kind[Transport] = "choice" /\ Kind[Token] = "text" /\ Kind[Addr] = "address"

VARIABLES
  given,    \* what each level gives for each setting
  http,     \* the levels whose transport, if they give a good one, is http
  remote,   \* the levels whose address, if they give one, is not loopback
  pages,    \* the numbers behind the values of the two page sizes
  file,     \* the env file: none named, or what becomes of reading it
  at,       \* the step Load is at
  value,    \* the settings as resolved so far
  named     \* the settings an error message names

inputVars == <<given, http, remote, pages, file>>
settingsVars == <<inputVars, at, value, named>>

\* A word no choice knows is malformed, so a choice is never refused later; any
\* text is well formed, and a list of nothing but commas is as good as a blank.
Values(s, level) ==
  IF level = "flag" /\ s \in NoFlag THEN {"absent"}
  ELSE {"absent", "blank", level}
         \cup (IF Kind[s] \in Converted \cup {"choice"} THEN {"malformed"} ELSE {})
         \cup (IF Kind[s] \in Numeric \cup {"url"} THEN {"refused"} ELSE {})

Inputs == {"absent", "blank", "malformed", "refused"} \cup Levels
Files == {"none", "missing", "shared", "bad line", "read"}

Settings(level) ==
  {g \in [Names -> Inputs] : \A s \in Names : g[s] \in Values(s, level)}
Nothing == [s \in Names |-> "absent"]

\* The default of a text that has none of its own is the empty string.
Default(s) == IF Kind[s] \in Required \cup {"text"} THEN "blank" ELSE "default"

Sizes == [PageSettings -> [Levels \cup {"default", "refused"} -> Int]]

\* Load, as it begins.  A page size is refused that is less than one, and by
\* default they are 25 and 200.
Begin ==
  /\ http \in SUBSET Levels
  /\ remote \in SUBSET Levels
  /\ pages \in Sizes
  /\ pages[Size]["default"] = 25 /\ pages[Ceiling]["default"] = 200
  /\ \A s \in PageSettings :
       pages[s]["refused"] < 1 /\ \A level \in Levels : pages[s][level] >= 1
  /\ at = "file"
  /\ value = [s \in Names |-> Default(s)]
  /\ named = {}

SettingsInit ==
  /\ file \in Files
  /\ \E flag \in Settings("flag"), env \in Settings("env"),
        inFile \in IF file = "read" THEN Settings("file") ELSE {Nothing} :
       given = [flag |-> flag, env |-> env, file |-> inFile]
  /\ Begin

Fail(names) == at' = "exit" /\ named' = names

\* loadEnvFile: the path comes from the flag or the environment only.
ReadFile ==
  /\ at = "file"
  /\ IF file \in {"none", "read"}
     THEN at' = "environment" /\ UNCHANGED named
     ELSE Fail({})
  /\ UNCHANGED <<inputVars, value>>

\* Mutant: a value that cannot be read leaves the setting to the file
LookupReadable(s) ==
  IF given["env"][s] \notin {"absent", "malformed"}
  THEN given["env"][s] ELSE given["file"][s]

\* source.lookup: a variable that is set wins, even when it is blank.
Lookup(s) == IF given["env"][s] # "absent" THEN given["env"][s] ELSE given["file"][s]

\* env, envBool, envInt, envDuration: what is to be converted and is blank or
\* cannot be is as good as none.
FromEnvironment(s) ==
  LET found == Lookup(s)
      nothing == {"absent"} \cup (IF Kind[s] \in Converted THEN {"blank", "malformed"} ELSE {})
  IN IF found \in nothing THEN Default(s) ELSE found

ReadEnvironment ==
  /\ at = "environment"
  /\ at' = "flags"
  /\ value' = [s \in Names |-> FromEnvironment(s)]
  /\ UNCHANGED <<inputVars, named>>

\* fs.Parse stops at the first value it cannot convert.
BadFlags == {s \in Names : Kind[s] \in Converted /\ given["flag"][s] \in {"blank", "malformed"}}

ParseFlags ==
  /\ at = "flags"
  /\ IF BadFlags # {}
     THEN (\E s \in BadFlags : Fail({s})) /\ UNCHANGED value
     ELSE /\ at' = "choices"
          /\ value' = [s \in Names |->
               IF given["flag"][s] = "absent" THEN value[s] ELSE given["flag"][s]]
          /\ UNCHANGED named
  /\ UNCHANGED inputVars

\* Mutant: a blank word is not taken for the default
UnknownOrBlank == {s \in Names : Kind[s] = "choice" /\ value[s] \in {"malformed", "blank"}}

\* ParseProfile, the transport and parseLevel, one after the other: an error of
\* one returns.
Unknown == {s \in Names : Kind[s] = "choice" /\ value[s] = "malformed"}

\* A blank word is the default one, and a blank list, for splitList, no list.
ParseChoices ==
  /\ at = "choices"
  /\ IF Unknown # {}
     THEN (\E s \in Unknown : Fail({s})) /\ UNCHANGED value
     ELSE /\ at' = "validate"
          /\ value' = [s \in Names |->
               IF Kind[s] \in {"choice", "list"} /\ value[s] = "blank"
               THEN "default" ELSE value[s]]
          /\ UNCHANGED named
  /\ UNCHANGED inputVars

\* Config.validate: the http transport without a token is for loopback only.  A
\* blank address is every address.
Exposed ==
  /\ value[Transport] \in http
  /\ value[Token] = "blank"
  /\ value[Addr] \in remote \cup {"blank"}

\* Config.validate: the default page size cannot exceed the largest, wherever the
\* two come from.
Oversized == pages[Size][value[Size]] > pages[Ceiling][value[Ceiling]]

\* Config.validate collects every problem.
Problems == {s \in Names : \/ Kind[s] \in Required /\ value[s] = "blank"
                           \/ Kind[s] = "checked" /\ value[s] = "refused"
                           \/ s \in PageSettings /\ Oversized}

Validate ==
  /\ at = "validate"
  /\ IF Exposed \/ Problems # {}
     THEN Fail(Problems)
     ELSE at' = "client" /\ UNCHANGED named
  /\ UNCHANGED <<inputVars, value>>

\* whmcs.New: the URL must be https, or local.
Plaintext == {s \in Names : Kind[s] = "url" /\ value[s] = "refused"}

NewClient ==
  /\ at = "client"
  /\ IF Plaintext # {}
     THEN Fail(Plaintext) /\ UNCHANGED value
     ELSE /\ at' = "serve"
          /\ value' = [s \in Names |-> IF value[s] = "refused" THEN "default" ELSE value[s]]
          /\ UNCHANGED named
  /\ UNCHANGED inputVars

Done == at \in {"serve", "exit"} /\ UNCHANGED settingsVars

SettingsNext ==
  \/ ReadFile \/ ReadEnvironment \/ ParseFlags \/ ParseChoices \/ Validate \/ NewClient
  \/ Done

SettingsSpec == SettingsInit /\ [][SettingsNext]_settingsVars

-----------------------------------------------------------------------------
SettingsTypeOK ==
  /\ given \in [flag : Settings("flag"), env : Settings("env"), file : Settings("file")]
  /\ http \subseteq Levels /\ remote \subseteq Levels /\ pages \in Sizes
  /\ file \in Files
  /\ at \in {"file", "environment", "flags", "choices", "validate", "client", "serve", "exit"}
  /\ value \in [Names -> Inputs \cup {"default"}]
  /\ named \subseteq Names
  /\ at # "exit" => named = {}

\* The value the levels give a setting
Consulted(s) == IF given["flag"][s] # "absent" THEN given["flag"][s] ELSE Lookup(s)

\* What the levels say of the server is an open control plane.
ToldToBeOpen ==
  /\ Consulted(Transport) \in http
  /\ Consulted(Token) \in {"absent", "blank"}
  /\ Consulted(Addr) \in remote \cup {"blank"}

\* The number the levels give for a page size, or the default's where they give
\* none; and the one they give for a call without is over the largest they allow.
Told(s) ==
  pages[s][IF Consulted(s) \in Levels \cup {"refused"} THEN Consulted(s) ELSE "default"]
ToldOver == Told(Size) > Told(Ceiling)

\* What the levels give a setting is to be refused, by itself or, as a page size
\* is, beside the other.
Wrong(s) ==
  \/ Kind[s] \in Required /\ Consulted(s) \in {"absent", "blank"}
  \/ Kind[s] \in {"url", "checked"} /\ Consulted(s) = "refused"
  \/ Kind[s] \in Converted /\ given["flag"][s] \in {"blank", "malformed"}
  \/ Kind[s] = "choice" /\ Consulted(s) = "malformed"
  \/ s \in PageSettings /\ ToldOver

\* What a setting may come to without a level that gives a good value.
Fallback(s) ==
  CASE Kind[s] \in Required  -> {}
    [] Kind[s] = "text"      -> {"blank"}
    [] Kind[s] = "address"   -> {"blank", "default"}
    [] OTHER                 -> {"default"}

(* A server that serves was told what it needs, by levels it could read, and *)
(* is not an open control plane; what a call gets that gives no page size is *)
(* within the largest, whichever levels the two come from.  And it was told  *)
(* by the right level: "An explicit setting from a wrapper or a systemd unit *)
(* is never silently overridden by a stale file" (envfile.go:27-28) and      *)
(* "flags win over the environment" (Load), also where what was set cannot   *)
(* be read: a switch that is garbled in one place is not turned on in        *)
(* another.                                                                  *)
ServedAsTold ==
  at = "serve" =>
    /\ file \in {"none", "read"} /\ ~ToldToBeOpen /\ ~ToldOver
    /\ \A s \in Names :
         /\ value[s] \in Levels \cup Fallback(s)
         /\ given["flag"][s] # "absent" => value[s] \notin {"env", "file"}
         /\ given["env"][s] # "absent" => value[s] # "file"
         /\ value[s] \in Levels => given[value[s]][s] = value[s]

(* No start is refused without a cause, and a setting that is named has one: *)
(* a missing file, an exposed address, or what a level that is consulted     *)
(* says of it, or of the two page sizes together, never what another level   *)
(* overrides (Load, Config.validate).                                        *)
RefusedForCause ==
  at = "exit" =>
    /\ file \notin {"none", "read"} \/ ToldToBeOpen \/ named # {}
    /\ \A s \in named : Wrong(s)
=============================================================================
