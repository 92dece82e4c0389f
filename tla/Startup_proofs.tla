---------------------------- MODULE Startup_proofs ----------------------------
(***************************************************************************)
(* Proofs about a start: how the settings are resolved, for any settings   *)
(* of each kind, and what policy and registration make of them, for any    *)
(* registry, table of tools and configuration.                             *)
(***************************************************************************)
EXTENDS Settings, Startup, TLAPS

-----------------------------------------------------------------------------
(***************************************************************************)
(* The settings.                                                           *)
(***************************************************************************)

\* The value of a setting once the flags have been read, once the words and
\* lists have been, and once the client has been built.
Flagged(s) ==
  IF given["flag"][s] = "absent" THEN FromEnvironment(s) ELSE given["flag"][s]
Chosen(s) ==
  IF Kind[s] \in {"choice", "list"} /\ Flagged(s) = "blank" THEN "default" ELSE Flagged(s)
Settled(s) == IF Chosen(s) = "refused" THEN "default" ELSE Chosen(s)

\* What validate lets through, in terms of what was given.
Cleared ==
  /\ ~ToldToBeOpen /\ ~ToldOver
  /\ \A s \in Names : /\ Kind[s] \in Required => Chosen(s) # "blank"
                      /\ Kind[s] = "checked" => Chosen(s) # "refused"

\* At each step the settings are those of the levels read so far, and what the
\* steps behind it refuse is not there.
LevelsInv ==
  /\ at \notin {"file", "exit"} => file \in {"none", "read"}
  /\ at = "flags" => value = [s \in Names |-> FromEnvironment(s)]
  /\ at = "choices" => value = [s \in Names |-> Flagged(s)]
  /\ at \in {"validate", "client"} => value = [s \in Names |-> Chosen(s)]
  /\ at = "serve" => value = [s \in Names |-> Settled(s)]
  /\ at \in {"choices", "validate", "client", "serve"} => BadFlags = {}
  /\ at \in {"validate", "client", "serve"} =>
       \A s \in Names : Kind[s] = "choice" => Flagged(s) # "malformed"
  /\ at \in {"client", "serve"} => Cleared
  /\ at = "serve" => \A s \in Names : Kind[s] = "url" => Chosen(s) # "refused"

SettingsInv == SettingsTypeOK /\ LevelsInv /\ RefusedForCause

(* What a level gives a setting is of the setting's kind.                    *)
LEMMA KindOfGiven ==
  ASSUME SettingsTypeOK, NEW s \in Names
  PROVE  /\ given["flag"][s] \in Values(s, "flag")
         /\ given["env"][s] \in Values(s, "env")
         /\ given["file"][s] \in Values(s, "file")
         /\ Lookup(s) \in Inputs
         /\ FromEnvironment(s) \in Inputs \cup {"default"}
         /\ Flagged(s) \in Inputs \cup {"default"}
         /\ Chosen(s) \in Inputs \cup {"default"}
         /\ Settled(s) \in Inputs \cup {"default"}
<1>1. /\ given["flag"][s] \in Values(s, "flag")
      /\ given["env"][s] \in Values(s, "env")
      /\ given["file"][s] \in Values(s, "file")
  BY DEF SettingsTypeOK, Settings
<1>2. /\ given["flag"][s] \in Inputs
      /\ given["env"][s] \in Inputs
      /\ given["file"][s] \in Inputs
  BY DEF SettingsTypeOK, Settings
<1>3. Lookup(s) \in Inputs
  BY <1>2 DEF Lookup
<1>4. FromEnvironment(s) \in Inputs \cup {"default"}
  BY <1>3 DEF FromEnvironment, Default, Inputs
<1>5. Flagged(s) \in Inputs \cup {"default"}
  BY <1>2, <1>4 DEF Flagged
<1> QED
  BY <1>1, <1>3, <1>4, <1>5 DEF Chosen, Settled

(* Nothing but the levels decides on what a setting comes to.                *)
LEMMA InputsDecide ==
  ASSUME UNCHANGED inputVars
  PROVE  /\ \A s : /\ Lookup(s)' = Lookup(s)
                   /\ FromEnvironment(s)' = FromEnvironment(s)
                   /\ Flagged(s)' = Flagged(s)
                   /\ Chosen(s)' = Chosen(s)
                   /\ Settled(s)' = Settled(s)
                   /\ Consulted(s)' = Consulted(s)
                   /\ Wrong(s)' = Wrong(s)
         /\ BadFlags' = BadFlags
         /\ ToldToBeOpen' = ToldToBeOpen /\ ToldOver' = ToldOver
         /\ Cleared' = Cleared
<1>1. given' = given /\ http' = http /\ remote' = remote /\ pages' = pages
  BY DEF inputVars
<1>2. \A s : Lookup(s)' = Lookup(s)
  BY <1>1 DEF Lookup
<1>3. \A s : FromEnvironment(s)' = FromEnvironment(s)
  BY <1>2 DEF FromEnvironment
<1>4. \A s : Flagged(s)' = Flagged(s) /\ Consulted(s)' = Consulted(s)
  BY <1>1, <1>2, <1>3 DEF Flagged, Consulted
<1>5. \A s : Chosen(s)' = Chosen(s)
  BY <1>4 DEF Chosen
<1>6. \A s : Settled(s)' = Settled(s)
  BY <1>5 DEF Settled
<1>o. ToldOver' = ToldOver
  <2>1. Told(Size)' = Told(Size) /\ Told(Ceiling)' = Told(Ceiling)
    BY <1>1, <1>4 DEF Told
  <2> QED
    BY <2>1 DEF ToldOver
<1>7. \A s : Wrong(s)' = Wrong(s)
  BY <1>1, <1>4, <1>o DEF Wrong
<1>8. BadFlags' = BadFlags
  BY <1>1 DEF BadFlags
<1>9. ToldToBeOpen' = ToldToBeOpen
  BY <1>1, <1>4 DEF ToldToBeOpen
<1>10. Cleared' = Cleared
  BY <1>5, <1>9, <1>o DEF Cleared
<1> QED
  BY <1>o, <1>2, <1>3, <1>4, <1>5, <1>6, <1>7, <1>8, <1>9, <1>10

(* What a setting comes to tells what was consulted: a good value, one that  *)
(* is refused and one that is malformed are those of the level consulted.    *)
LEMMA ComesFrom ==
  ASSUME SettingsTypeOK, NEW s \in Names
  PROVE  /\ Flagged(s) \in Levels \cup {"refused"} <=> Consulted(s) \in Levels \cup {"refused"}
         /\ Flagged(s) \in Levels \cup {"refused", "malformed"} => Consulted(s) = Flagged(s)
         /\ Consulted(s) \in Levels \cup {"refused"} => Flagged(s) = Consulted(s)
         /\ Kind[s] \in Required \cup {"text"} =>
              (Flagged(s) = "blank" <=> Consulted(s) \in {"absent", "blank"})
         /\ Kind[s] = "address" => (Flagged(s) = "blank" <=> Consulted(s) = "blank")
<1>1. given["flag"][s] \in Inputs /\ Lookup(s) \in Inputs
  BY KindOfGiven DEF SettingsTypeOK, Settings
<1>2. /\ FromEnvironment(s) \in Levels \cup {"refused", "malformed"} => Lookup(s) = FromEnvironment(s)
      /\ Lookup(s) \in Levels \cup {"refused"} => FromEnvironment(s) = Lookup(s)
  BY <1>1 DEF FromEnvironment, Default, Levels, Inputs
<1>3. Kind[s] \in Required \cup {"text"} =>
        (FromEnvironment(s) = "blank" <=> Lookup(s) \in {"absent", "blank"})
  BY <1>1 DEF FromEnvironment, Default, Converted, Numeric, Required
<1>4. Kind[s] = "address" => (FromEnvironment(s) = "blank" <=> Lookup(s) = "blank")
  BY <1>1 DEF FromEnvironment, Default, Converted, Numeric, Required
<1>5. CASE given["flag"][s] = "absent"
  BY <1>1, <1>2, <1>3, <1>4, <1>5 DEF Flagged, Consulted
<1>6. CASE given["flag"][s] # "absent"
  BY <1>1, <1>6 DEF Flagged, Consulted
<1> QED
  BY <1>5, <1>6

(* validate judges the exposure by the same values an operator would.        *)
LEMMA ExposedAsSaid ==
  ASSUME SettingsTypeOK, value = [s \in Names |-> Chosen(s)]
  PROVE  Exposed <=> ToldToBeOpen
<1>1. /\ Transport \in Names /\ Token \in Names /\ Addr \in Names
      /\ Kind[Transport] = "choice" /\ Kind[Token] = "text" /\ Kind[Addr] = "address"
  BY KindsAssumption
<1>2. value[Transport] \in http <=> Consulted(Transport) \in http
  <2>1. value[Transport] = Chosen(Transport) /\ http \subseteq Levels
    BY <1>1 DEF SettingsTypeOK
  <2>2. Chosen(Transport) \in Levels => Flagged(Transport) = Chosen(Transport)
    BY DEF Chosen, Levels
  <2>3. Flagged(Transport) \in Levels => Chosen(Transport) = Flagged(Transport)
    BY DEF Chosen, Levels
  <2> QED
    BY <1>1, <2>1, <2>2, <2>3, ComesFrom
<1>3. value[Token] = "blank" <=> Consulted(Token) \in {"absent", "blank"}
  <2>1. value[Token] = Flagged(Token)
    BY <1>1 DEF Chosen
  <2> QED
    BY <1>1, <2>1, ComesFrom
<1>4. value[Addr] \in remote \cup {"blank"} <=> Consulted(Addr) \in remote \cup {"blank"}
  <2>1. value[Addr] = Flagged(Addr) /\ remote \subseteq Levels
    BY <1>1 DEF Chosen, SettingsTypeOK
  <2> QED
    BY <1>1, <2>1, ComesFrom
<1> QED
  BY <1>2, <1>3, <1>4 DEF Exposed, ToldToBeOpen

(* validate holds the page sizes against each other by the numbers an        *)
(* operator would.                                                           *)
LEMMA OversizedAsSaid ==
  ASSUME SettingsTypeOK, BadFlags = {}, value = [s \in Names |-> Chosen(s)]
  PROVE  Oversized <=> ToldOver
<1>1. ASSUME NEW s \in PageSettings PROVE pages[s][value[s]] = Told(s)
  <2>1. s \in Names /\ Kind[s] = "checked"
    BY KindsAssumption
  <2>2. value[s] = Flagged(s) /\ given["flag"][s] \notin {"blank", "malformed"}
    BY <2>1 DEF Chosen, BadFlags, Converted, Numeric
  <2>3. FromEnvironment(s) \in Levels \cup {"refused", "default"}
    BY <2>1, KindOfGiven DEF FromEnvironment, Default, Converted, Numeric, Required, Inputs
  <2>4. Flagged(s) \in Levels \cup {"refused", "default"}
    BY <2>1, <2>2, <2>3, KindOfGiven DEF Flagged, SettingsTypeOK, Settings, Inputs
  <2>5. CASE Consulted(s) \in Levels \cup {"refused"}
    BY <2>1, <2>2, <2>5, ComesFrom DEF Told
  <2>6. CASE Consulted(s) \notin Levels \cup {"refused"}
    <3>1. Flagged(s) = "default"
      BY <2>1, <2>4, <2>6, ComesFrom
    <3> QED
      BY <2>2, <2>6, <3>1 DEF Told
  <2> QED
    BY <2>5, <2>6
<1> QED
  BY <1>1 DEF Oversized, ToldOver, PageSettings

LEMMA SettingsInvInit == SettingsInit => SettingsInv
<1> SUFFICES ASSUME SettingsInit PROVE SettingsInv
  OBVIOUS
<1>1. \E flag \in Settings("flag"), env \in Settings("env"), inFile \in Settings("file") :
        given = [flag |-> flag, env |-> env, file |-> inFile]
  <2>1. Nothing \in Settings("file")
    BY DEF Nothing, Settings, Values, Inputs
  <2> QED
    BY <2>1 DEF SettingsInit
<1>2. given \in [flag : Settings("flag"), env : Settings("env"), file : Settings("file")]
  BY <1>1
<1>3. value \in [Names -> Inputs \cup {"default"}]
  BY DEF SettingsInit, Begin, Default, Inputs
<1> QED
  BY <1>2, <1>3 DEF SettingsInit, Begin, SettingsInv, SettingsTypeOK, LevelsInv, RefusedForCause

LEMMA SettingsInvStep == SettingsInv /\ [SettingsNext]_settingsVars => SettingsInv'
<1> SUFFICES ASSUME SettingsInv, [SettingsNext]_settingsVars PROVE SettingsInv'
  OBVIOUS
<1>0. SettingsTypeOK /\ LevelsInv /\ RefusedForCause
  BY DEF SettingsInv
<1>i. UNCHANGED inputVars
  BY DEF SettingsNext, ReadFile, ReadEnvironment, ParseFlags, ParseChoices, Validate, NewClient,
         Done, settingsVars
<1>g. given' = given /\ http' = http /\ remote' = remote /\ pages' = pages /\ file' = file
  BY <1>i DEF inputVars
<1>1. CASE ReadFile
  BY <1>0, <1>g, <1>1 DEF ReadFile, Fail, SettingsInv, SettingsTypeOK, LevelsInv, RefusedForCause
<1>2. CASE ReadEnvironment
  <2>1. value' = [s \in Names |-> FromEnvironment(s)']
    BY <1>2, <1>i, InputsDecide DEF ReadEnvironment
  <2>2. value' \in [Names -> Inputs \cup {"default"}]
    BY <1>0, <1>2, KindOfGiven DEF ReadEnvironment
  <2> QED
    BY <1>0, <1>g, <1>2, <2>1, <2>2
       DEF ReadEnvironment, SettingsInv, SettingsTypeOK, LevelsInv, RefusedForCause
<1>3. CASE ParseFlags
  <2>0. at = "flags" /\ value = [s \in Names |-> FromEnvironment(s)] /\ file \in {"none", "read"}
    BY <1>0, <1>3 DEF ParseFlags, LevelsInv
  <2>1. CASE BadFlags # {}
    <3>1. PICK s \in BadFlags : Fail({s})
      BY <1>3, <2>1 DEF ParseFlags
    <3>2. s \in Names /\ Wrong(s)'
      BY <1>i, InputsDecide DEF BadFlags, Wrong
    <3> QED
      BY <1>0, <1>g, <1>3, <2>1, <3>1, <3>2
         DEF ParseFlags, Fail, SettingsInv, SettingsTypeOK, LevelsInv, RefusedForCause
  <2>2. CASE BadFlags = {}
    <3>1. at' = "choices" /\ named' = named /\ BadFlags' = {}
      BY <1>3, <1>i, <2>2, InputsDecide DEF ParseFlags
    <3>2. value' = [s \in Names |-> Flagged(s)]
      BY <1>3, <2>0, <2>2 DEF ParseFlags, Flagged
    <3>3. value' = [s \in Names |-> Flagged(s)']
      BY <1>i, <3>2, InputsDecide
    <3>4. value' \in [Names -> Inputs \cup {"default"}]
      BY <1>0, <3>2, KindOfGiven
    <3> QED
      BY <1>0, <1>g, <2>0, <3>1, <3>3, <3>4
         DEF SettingsInv, SettingsTypeOK, LevelsInv, RefusedForCause
  <2> QED
    BY <2>1, <2>2
<1>4. CASE ParseChoices
  <2>0. /\ at = "choices" /\ value = [s \in Names |-> Flagged(s)] /\ BadFlags = {}
        /\ file \in {"none", "read"}
    BY <1>0, <1>4 DEF ParseChoices, LevelsInv
  <2>1. CASE Unknown # {}
    <3>1. PICK s \in Unknown : Fail({s})
      BY <1>4, <2>1 DEF ParseChoices
    <3>2. s \in Names /\ Kind[s] = "choice" /\ Flagged(s) = "malformed"
      BY <2>0 DEF Unknown
    <3>3. Consulted(s) = "malformed"
      BY <1>0, <3>2, ComesFrom
    <3>4. Wrong(s)'
      BY <1>i, <3>2, <3>3, InputsDecide DEF Wrong
    <3> QED
      BY <1>0, <1>g, <1>4, <2>1, <3>1, <3>2, <3>4
         DEF ParseChoices, Fail, SettingsInv, SettingsTypeOK, LevelsInv, RefusedForCause
  <2>2. CASE Unknown = {}
    <3>1. at' = "validate" /\ named' = named /\ BadFlags' = {}
      BY <1>4, <1>i, <2>0, <2>2, InputsDecide DEF ParseChoices
    <3>2. value' = [s \in Names |-> Chosen(s)]
      BY <1>4, <2>0, <2>2 DEF ParseChoices, Chosen
    <3>3. value' = [s \in Names |-> Chosen(s)']
      BY <1>i, <3>2, InputsDecide
    <3>4. value' \in [Names -> Inputs \cup {"default"}]
      BY <1>0, <3>2, KindOfGiven
    <3>5. \A s \in Names : Kind[s] = "choice" => Flagged(s)' # "malformed"
      BY <1>i, <2>0, <2>2, InputsDecide DEF Unknown
    <3> QED
      BY <1>0, <1>g, <2>0, <3>1, <3>3, <3>4, <3>5
         DEF SettingsInv, SettingsTypeOK, LevelsInv, RefusedForCause
  <2> QED
    BY <2>1, <2>2
<1>5. CASE Validate
  <2>0. /\ at = "validate" /\ value = [s \in Names |-> Chosen(s)] /\ BadFlags = {}
        /\ \A s \in Names : Kind[s] = "choice" => Flagged(s) # "malformed"
        /\ file \in {"none", "read"} /\ value' = value
    BY <1>0, <1>5 DEF Validate, LevelsInv
  <2>1. (Exposed <=> ToldToBeOpen) /\ (Oversized <=> ToldOver)
    BY <1>0, <2>0, ExposedAsSaid, OversizedAsSaid
  <2>2. \A s \in Problems : s \in Names /\ Wrong(s)'
    <3> SUFFICES ASSUME NEW s \in Problems PROVE s \in Names /\ Wrong(s)'
      OBVIOUS
    <3>1. s \in Names /\ value[s] = Chosen(s)
      BY <2>0 DEF Problems
    <3>o. CASE s \in PageSettings /\ Oversized
      BY <1>i, <2>1, <3>1, <3>o, InputsDecide DEF Wrong
    <3>2. CASE Kind[s] \in Required /\ ~(s \in PageSettings /\ Oversized)
      <4>1. Flagged(s) = "blank"
        BY <3>1, <3>2 DEF Problems, Chosen, Required
      <4>2. Consulted(s) \in {"absent", "blank"}
        BY <1>0, <3>1, <3>2, <4>1, ComesFrom
      <4> QED
        BY <1>i, <3>1, <3>2, <4>2, InputsDecide DEF Wrong
    <3>3. CASE Kind[s] \notin Required /\ ~(s \in PageSettings /\ Oversized)
      <4>1. Kind[s] = "checked" /\ Flagged(s) = "refused"
        BY <3>1, <3>3 DEF Problems, Chosen
      <4>2. Consulted(s) = "refused"
        BY <1>0, <3>1, <4>1, ComesFrom
      <4> QED
        BY <1>i, <3>1, <4>1, <4>2, InputsDecide DEF Wrong
    <3> QED
      BY <3>o, <3>2, <3>3
  <2>3. CASE Exposed \/ Problems # {}
    <3>1. at' = "exit" /\ named' = Problems /\ ToldToBeOpen' = ToldToBeOpen
      BY <1>5, <1>i, <2>3, InputsDecide DEF Validate, Fail
    <3> QED
      BY <1>0, <1>g, <2>0, <2>1, <2>2, <2>3, <3>1
         DEF SettingsInv, SettingsTypeOK, LevelsInv, RefusedForCause
  <2>4. CASE ~(Exposed \/ Problems # {})
    <3>1. at' = "client" /\ named' = named
      BY <1>5, <2>4 DEF Validate
    <3>2. Cleared
      <4>1. ~Oversized
        BY <2>4, KindsAssumption DEF Problems, PageSettings
      <4> QED
        BY <2>0, <2>1, <2>4, <4>1 DEF Cleared, Problems
    <3>3. /\ Cleared' /\ BadFlags' = {}
          /\ value' = [s \in Names |-> Chosen(s)']
          /\ \A s \in Names : Kind[s] = "choice" => Flagged(s)' # "malformed"
      BY <1>i, <2>0, <3>2, InputsDecide
    <3> QED
      BY <1>0, <1>g, <2>0, <3>1, <3>3
         DEF SettingsInv, SettingsTypeOK, LevelsInv, RefusedForCause
  <2> QED
    BY <2>3, <2>4
<1>6. CASE NewClient
  <2>0. /\ at = "client" /\ value = [s \in Names |-> Chosen(s)] /\ BadFlags = {} /\ Cleared
        /\ \A s \in Names : Kind[s] = "choice" => Flagged(s) # "malformed"
        /\ file \in {"none", "read"}
    BY <1>0, <1>6 DEF NewClient, LevelsInv
  <2>1. CASE Plaintext # {}
    <3>1. at' = "exit" /\ named' = Plaintext /\ value' = value
      BY <1>6, <2>1 DEF NewClient, Fail
    <3>2. ASSUME NEW s \in Plaintext
          PROVE  s \in Names /\ Wrong(s)'
      <4>1. s \in Names /\ Kind[s] = "url" /\ Flagged(s) = "refused"
        BY <2>0 DEF Plaintext, Chosen
      <4>2. Consulted(s) = "refused"
        BY <1>0, <4>1, ComesFrom
      <4> QED
        BY <1>i, <4>1, <4>2, InputsDecide DEF Wrong
    <3> QED
      BY <1>0, <1>g, <2>0, <2>1, <3>1, <3>2
         DEF SettingsInv, SettingsTypeOK, LevelsInv, RefusedForCause
  <2>2. CASE Plaintext = {}
    <3>1. at' = "serve" /\ named' = named
      BY <1>6, <2>2 DEF NewClient
    <3>2. value' = [s \in Names |-> Settled(s)]
      BY <1>6, <2>0, <2>2 DEF NewClient, Settled
    <3>3. value' \in [Names -> Inputs \cup {"default"}]
      BY <1>0, <3>2, KindOfGiven
    <3>4. \A s \in Names : Kind[s] = "url" => Chosen(s) # "refused"
      BY <2>0, <2>2 DEF Plaintext
    <3>5. /\ Cleared' /\ BadFlags' = {}
          /\ value' = [s \in Names |-> Settled(s)']
          /\ \A s \in Names : Kind[s] = "choice" => Flagged(s)' # "malformed"
          /\ \A s \in Names : Kind[s] = "url" => Chosen(s)' # "refused"
      BY <1>i, <2>0, <3>2, <3>4, InputsDecide
    <3> QED
      BY <1>0, <1>g, <2>0, <3>1, <3>3, <3>5
         DEF SettingsInv, SettingsTypeOK, LevelsInv, RefusedForCause
  <2> QED
    BY <2>1, <2>2
<1>7. CASE UNCHANGED settingsVars
  <2>1. at' = at /\ value' = value /\ named' = named
    BY <1>7 DEF settingsVars
  <2>2. LevelsInv'
    BY <1>0, <1>g, <1>i, <2>1, InputsDecide DEF LevelsInv
  <2>3. RefusedForCause'
    BY <1>0, <1>g, <1>i, <2>1, InputsDecide DEF RefusedForCause
  <2> QED
    BY <1>0, <1>g, <2>1, <2>2, <2>3 DEF SettingsInv, SettingsTypeOK
<1> QED
  BY <1>1, <1>2, <1>3, <1>4, <1>5, <1>6, <1>7 DEF SettingsNext, Done

THEOREM SettingsInvariant == SettingsSpec => []SettingsInv
<1> QED
  BY SettingsInvInit, SettingsInvStep, PTL DEF SettingsSpec

(* SettingsTypeOK: the settings, at every step, have a value the levels can give.    *)
THEOREM SettingsTypeCorrect == SettingsSpec => []SettingsTypeOK
<1>1. SettingsInv => SettingsTypeOK
  BY DEF SettingsInv
<1> QED
  BY <1>1, SettingsInvariant, PTL

(* RefusedForCause: a start is refused for a cause, and what is named is one,*)
(* by itself or, of the page sizes, beside the other.                        *)
THEOREM RefusedOnlyForCause == SettingsSpec => []RefusedForCause
<1>1. SettingsInv => RefusedForCause
  BY DEF SettingsInv
<1> QED
  BY <1>1, SettingsInvariant, PTL

(* ServedAsTold: what a server serves with could be read, is complete, comes *)
(* from the highest level that sets it, and fits together.                   *)
THEOREM ServedIsAsTold == SettingsSpec => []ServedAsTold
<1>1. SettingsInv => ServedAsTold
  <2> SUFFICES ASSUME SettingsInv, at = "serve", NEW s \in Names
               PROVE  /\ file \in {"none", "read"} /\ ~ToldToBeOpen /\ ~ToldOver
                      /\ value[s] \in Levels \cup Fallback(s)
                      /\ given["flag"][s] # "absent" => value[s] \notin {"env", "file"}
                      /\ given["env"][s] # "absent" => value[s] # "file"
                      /\ value[s] \in Levels => given[value[s]][s] = value[s]
    BY DEF ServedAsTold, SettingsInv, LevelsInv, Cleared
  <2>0. SettingsTypeOK
    BY DEF SettingsInv
  <2>1. file \in {"none", "read"} /\ ~ToldToBeOpen /\ ~ToldOver
    BY DEF SettingsInv, LevelsInv, Cleared
  <2>2. /\ value[s] = Settled(s)
        /\ Kind[s] \in Required => Chosen(s) # "blank"
        /\ Kind[s] = "url" => Chosen(s) # "refused"
        /\ Kind[s] = "choice" => Flagged(s) # "malformed"
        /\ Kind[s] \in Converted => given["flag"][s] \notin {"blank", "malformed"}
    BY DEF SettingsInv, LevelsInv, Cleared, BadFlags
  <2>3. /\ given["flag"][s] \in Values(s, "flag")
        /\ given["env"][s] \in Values(s, "env")
        /\ given["file"][s] \in Values(s, "file")
    BY <2>0, KindOfGiven
  <2>4. Lookup(s) \in {"absent", "blank", "malformed", "refused", "env", "file"}
        /\ (Lookup(s) = "malformed" => Kind[s] \in Converted \cup {"choice"})
        /\ (Lookup(s) = "refused" => Kind[s] \in Numeric \cup {"url"})
        /\ (Lookup(s) = "env" => given["env"][s] = "env")
        /\ (Lookup(s) = "file" => given["file"][s] = "file" /\ given["env"][s] = "absent")
    BY <2>3 DEF Lookup, Values
  <2>5. given["flag"][s] \in {"absent", "blank", "malformed", "refused", "flag"}
        /\ (given["flag"][s] = "malformed" => Kind[s] \in Converted \cup {"choice"})
        /\ (given["flag"][s] = "refused" => Kind[s] \in Numeric \cup {"url"})
    BY <2>3 DEF Values
  <2>6. FromEnvironment(s) \in {"blank", "malformed", "refused", "env", "file", "default"}
        /\ (FromEnvironment(s) \in {"env", "file"} => FromEnvironment(s) = Lookup(s))
        /\ (FromEnvironment(s) = "malformed" => Kind[s] = "choice")
        /\ (FromEnvironment(s) = "refused" => Kind[s] \in Numeric \cup {"url"})
        /\ (FromEnvironment(s) = "blank" => Kind[s] \notin Converted)
        /\ (FromEnvironment(s) = "default" => Kind[s] \notin Required \cup {"text"})
    BY <2>4 DEF FromEnvironment, Default, Converted, Numeric, Required
  <2>7. /\ Flagged(s) \in {"blank", "malformed", "refused", "flag", "env", "file", "default"}
        /\ Flagged(s) # "malformed"
        /\ (Flagged(s) = "refused" => Kind[s] \in Numeric \cup {"url"})
        /\ (Flagged(s) = "blank" => Kind[s] \notin Converted)
        /\ (Flagged(s) = "default" => Kind[s] \notin Required \cup {"text"})
    BY <2>2, <2>5, <2>6 DEF Flagged
  <2>8. value[s] \in Levels \cup Fallback(s)
    <3>1. Kind[s] \in Kinds
      BY KindsAssumption
    <3>2. CASE Flagged(s) \in Levels
      BY <2>2, <3>2 DEF Settled, Chosen, Levels
    <3>3. CASE Flagged(s) = "refused"
      <4>1. Kind[s] \in Numeric /\ value[s] = "default"
        BY <2>2, <2>7, <3>3 DEF Settled, Chosen
      <4> QED
        BY <4>1 DEF Fallback, Numeric, Required
    <3>4. CASE Flagged(s) = "blank"
      <4>1. Kind[s] \in {"text", "address", "choice", "list"}
        BY <2>2, <2>7, <3>1, <3>4 DEF Kinds, Converted, Numeric, Required, Chosen
      <4>2. value[s] = IF Kind[s] \in {"choice", "list"} THEN "default" ELSE "blank"
        BY <2>2, <3>4 DEF Settled, Chosen
      <4> QED
        BY <4>1, <4>2 DEF Fallback, Required
    <3>5. CASE Flagged(s) = "default"
      <4>1. value[s] = "default"
        BY <2>2, <3>5 DEF Settled, Chosen
      <4> QED
        BY <2>7, <3>5, <4>1 DEF Fallback
    <3> QED
      BY <2>7, <3>2, <3>3, <3>4, <3>5 DEF Levels
  <2>9. /\ given["flag"][s] # "absent" => value[s] \notin {"env", "file"}
        /\ given["env"][s] # "absent" => value[s] # "file"
        /\ value[s] \in Levels => given[value[s]][s] = value[s]
    <3>1. value[s] \in Levels => value[s] = Flagged(s)
      BY <2>2 DEF Settled, Chosen, Levels
    <3>2. CASE given["flag"][s] = "absent"
      BY <2>4, <2>6, <3>1, <3>2 DEF Flagged, Levels
    <3>3. CASE given["flag"][s] # "absent"
      BY <2>5, <3>1, <3>3 DEF Flagged, Levels
    <3> QED
      BY <3>2, <3>3
  <2> QED
    BY <2>1, <2>8, <2>9
<1> QED
  BY <1>1, SettingsInvariant, PTL

USE PolicyAssumption, StartupAssumption

-----------------------------------------------------------------------------
(***************************************************************************)
(* The policy.                                                             *)
(***************************************************************************)

\* A blocked action is out of reach of every configuration: "enabling one
\* requires a code change and a review" (registry/types.go).
THEOREM BlockedIsOutOfReach ==
  ASSUME NEW pl \in Policies, NEW a \in Permitted(pl)
  PROVE  ClassOf[a] # "blocked"
BY DEF Permitted, AllowsAction

\* "Off by default in every profile including admin": without the opt-in no
\* profile permits a destructive action.
THEOREM DestructiveIsOptIn ==
  ASSUME NEW pl \in Policies, ~pl.allowDestructive, NEW a \in Permitted(pl)
  PROVE  ClassOf[a] # "destructive"
BY DEF Permitted, AllowsAction, Mutating

\* The profiles are bands: whatever the opt-in, readonly permits no more than
\* any other profile and admin permits no less.
THEOREM ProfilesAreBands ==
  ASSUME NEW pl \in Policies
  PROVE  /\ Permitted([pl EXCEPT !.profile = "readonly"]) \subseteq Permitted(pl)
         /\ Permitted(pl) \subseteq Permitted([pl EXCEPT !.profile = "admin"])
<1>1. /\ pl = [profile |-> pl.profile, allowDestructive |-> pl.allowDestructive]
      /\ pl.profile \in Profiles /\ pl.allowDestructive \in BOOLEAN
  BY DEF Policies
<1>2. ASSUME NEW a \in Permitted([pl EXCEPT !.profile = "readonly"])
      PROVE  a \in Permitted(pl)
  <2>1. /\ a \in Actions /\ ClassOf[a] # "blocked"
        /\ ~Mutating(ClassOf[a])
    BY <1>1, <1>2 DEF Permitted, AllowsAction, Policies
  <2> QED
    BY <2>1 DEF Permitted, AllowsAction
<1>3. ASSUME NEW a \in Permitted(pl)
      PROVE  a \in Permitted([pl EXCEPT !.profile = "admin"])
  <2> DEFINE adm == [pl EXCEPT !.profile = "admin"]
  <2>1. adm.profile = "admin" /\ adm.allowDestructive = pl.allowDestructive
    BY <1>1
  <2>2. MutableCategories("admin") = Categories
    BY DEF MutableCategories
  <2>3. a \in Actions /\ CategoryOf[a] \in Categories
    BY <1>3 DEF Permitted
  <2>4. /\ ClassOf[a] # "blocked"
        /\ Mutating(ClassOf[a]) /\ ClassOf[a] = "destructive" => pl.allowDestructive
    BY <1>3 DEF Permitted, AllowsAction
  <2>5. AllowsAction(adm, a) = "none"
    BY <2>1, <2>2, <2>3, <2>4 DEF AllowsAction
  <2> QED
    BY <2>3, <2>5 DEF Permitted
<1> QED
  BY <1>2, <1>3

\* The opt-in only ever adds.
THEOREM OptInOnlyAdds ==
  ASSUME NEW pl \in Policies
  PROVE  Permitted(pl) \subseteq Permitted([pl EXCEPT !.allowDestructive = TRUE])
<1>1. /\ pl = [profile |-> pl.profile, allowDestructive |-> pl.allowDestructive]
  BY DEF Policies
<1> SUFFICES ASSUME NEW a \in Permitted(pl)
             PROVE  AllowsAction([pl EXCEPT !.allowDestructive = TRUE], a) = "none"
  BY DEF Permitted
<1> QED
  BY <1>1 DEF Permitted, AllowsAction

-----------------------------------------------------------------------------
(***************************************************************************)
(* The registration.                                                       *)
(***************************************************************************)

\* A tool that has been looked at is registered exactly if it is granted and
\* the allowlist lets it through, and noted exactly if only the profile is in
\* its way; the policy is the one the configuration asks for.
RegisterInv ==
  /\ registered = {t \in Granted \ todo : AllowsTool(t)}
  /\ config.listed => ignored = {t \in (declared \ todo) \ Granted : AllowsTool(t)}
  /\ pc \in {"register", "serve"} =>
       pol = [profile |-> ParseProfile(config.profile),
              allowDestructive |-> config.allowDestructive]
  /\ pc = "load" => todo = declared
  /\ pc = "serve" => todo = {} /\ \A t \in declared : Fixed(t) => ActionOf[t] \in Actions
  /\ \A t \in declared \ todo :
       pc # "failed" /\ Fixed(t) => ActionOf[t] \in Actions

Inv == TypeOK /\ (pc # "failed" => RegisterInv)

LEMMA InitInv == Init => Inv
<1> SUFFICES ASSUME Init PROVE Inv
  OBVIOUS
<1>1. TypeOK
  BY DEF Init, TypeOK, Policies, Profiles
<1>2. RegisterInv
  BY DEF Init, RegisterInv, Granted
<1> QED
  BY <1>1, <1>2 DEF Inv

LEMMA StepInv == Inv /\ [Next]_startupVars => Inv'
<1> SUFFICES ASSUME Inv, [Next]_startupVars PROVE Inv'
  OBVIOUS
<1>0. TypeOK /\ (pc # "failed" => RegisterInv)
  BY DEF Inv
<1>1. CASE Load
  <2>1. TypeOK'
    <3>1. ParseProfile(config.profile) \in Profiles \union {"invalid"}
      BY DEF ParseProfile, Profiles
    <3> QED
      BY <1>0, <1>1, <3>1 DEF Load, TypeOK, Policies, Configs
  <2>2. ASSUME pc' # "failed" PROVE RegisterInv'
    <3>1. registered' = {} /\ todo' = declared'
      BY <1>0, <1>1 DEF Load, RegisterInv, TypeOK
    <3>2. config.listed => ignored = {}
      BY <1>0, <1>1 DEF Load, TypeOK, RegisterInv
    <3>3. (declared \ todo)' = {}
      BY <3>1
    <3>4. (Granted \ todo)' = {}
      BY <3>1 DEF Granted
    <3>5. pc' = "register" /\ pol' = [profile |-> ParseProfile(config.profile),
                                      allowDestructive |-> config.allowDestructive]
      BY <1>1, <2>2 DEF Load
    <3> QED
      BY <1>1, <3>1, <3>2, <3>3, <3>4, <3>5 DEF Load, RegisterInv, ParseProfile
  <2> QED
    BY <2>1, <2>2 DEF Inv
<1>2. ASSUME NEW t \in Tools, RegisterTool(t) PROVE Inv'
  <2>1. /\ t \in todo /\ todo' = todo \ {t} /\ pc = "register"
        /\ UNCHANGED <<config, declared, pol>>
        /\ pc' \in {"register", "failed"}
    BY <1>2 DEF RegisterTool
  <2>2. TypeOK'
    BY <1>0, <1>2 DEF RegisterTool, TypeOK
  <2>3. ASSUME pc' # "failed" PROVE RegisterInv'
    <3>1. /\ Granted' = Granted
          /\ \A u \in Tools : AllowsTool(u)' = AllowsTool(u)
      BY <2>1 DEF Granted, AllowsTool
    <3>2. t \in Granted <=> (Fixed(t) => AllowsAction(pol, ActionOf[t]) = "none")
      BY <1>0, <2>1 DEF Granted, TypeOK
    <3>3. /\ Fixed(t) => ActionOf[t] \in Actions
          /\ registered' = IF AllowsTool(t) /\ t \in Granted
                           THEN registered \union {t} ELSE registered
          /\ ignored' = IF AllowsTool(t) /\ t \notin Granted /\ config.listed
                        THEN ignored \union {t} ELSE ignored
      BY <1>2, <2>1, <2>3, <3>2 DEF RegisterTool
    <3>4. RegisterInv /\ t \in declared /\ declared \subseteq Tools
      BY <1>0, <2>1 DEF TypeOK
    <3>5. Granted \subseteq declared
      BY DEF Granted
    <3>6. registered' = {u \in Granted' \ todo' : AllowsTool(u)'}
      BY <2>1, <3>1, <3>3, <3>4, <3>5 DEF RegisterInv
    <3>7. config.listed =>
            ignored' = {u \in (declared' \ todo') \ Granted' : AllowsTool(u)'}
      BY <2>1, <3>1, <3>3, <3>4 DEF RegisterInv
    <3>8. \A u \in declared' \ todo' : Fixed(u) => ActionOf[u] \in Actions
      BY <2>1, <3>3, <3>4 DEF RegisterInv
    <3>9. pc' = "register"
      BY <2>1, <2>3
    <3> QED
      BY <2>1, <3>4, <3>6, <3>7, <3>8, <3>9 DEF RegisterInv, ParseProfile
  <2> QED
    BY <2>2, <2>3 DEF Inv
<1>3. CASE EndRegister
  <2>1. /\ UNCHANGED <<config, declared, pol, todo, registered, ignored>>
        /\ pc = "register" /\ todo = {} /\ pc' \in {"serve", "failed"}
    BY <1>3 DEF EndRegister
  <2>2. TypeOK'
    BY <1>0, <2>1 DEF TypeOK
  <2>3. RegisterInv'
    BY <1>0, <2>1 DEF RegisterInv, Granted, AllowsTool
  <2> QED
    BY <2>2, <2>3 DEF Inv
<1>4. CASE UNCHANGED startupVars \/ Started
  BY <1>0, <1>4
  DEF startupVars, Started, Inv, TypeOK, RegisterInv, Granted, AllowsTool
<1> QED
  BY <1>1, <1>2, <1>3, <1>4 DEF Next

LEMMA Invariance == Spec => []Inv
BY InitInv, StepInv, PTL DEF Spec

\* Every variable of the startup keeps its type.
THEOREM TypeCorrect == Spec => []TypeOK
<1>1. Inv => TypeOK
  BY DEF Inv
<1> QED
  BY Invariance, <1>1, PTL

\* A running server advertises exactly what profile and allowlist leave: nothing
\* the profile does not grant, whatever the allowlist says.
THEOREM AdvertisesExactly == Spec => []AdvertisedExactly
<1>1. Inv => AdvertisedExactly
  <2> SUFFICES ASSUME Inv, pc = "serve"
               PROVE  /\ registered = IF config.listed
                                      THEN Granted \intersect config.allowlist ELSE Granted
                      /\ config.listed =>
                           config.allowlist \intersect declared = registered \union ignored
    BY DEF AdvertisedExactly
  <2>1. /\ registered = {t \in Granted : AllowsTool(t)}
        /\ config.listed => ignored = {t \in declared \ Granted : AllowsTool(t)}
    BY DEF Inv, RegisterInv
  <2>2. Granted \subseteq declared
    BY DEF Granted
  <2>3. CASE config.listed
    BY <2>1, <2>2, <2>3 DEF AllowsTool
  <2>4. CASE ~config.listed
    BY <2>1, <2>4 DEF AllowsTool
  <2> QED
    BY <2>3, <2>4
<1> QED
  BY Invariance, <1>1, PTL

\* With no profile configured nothing in WHMCS can be changed.
THEOREM BlankProfileIsSafe == Spec => []BlankProfileChangesNothing
<1>1. Inv => BlankProfileChangesNothing
  <2> SUFFICES ASSUME Inv, pc = "serve", config.profile = ""
               PROVE  /\ \A t \in registered : Fixed(t) => ~Mutating(ClassOf[ActionOf[t]])
                      /\ \A a \in Permitted(pol) : ~Mutating(ClassOf[a])
    BY DEF BlankProfileChangesNothing
  <2>1. pol.profile = "readonly"
    <3>1. RegisterInv
      BY DEF Inv
    <3>2. pol = [profile |-> ParseProfile(config.profile),
                 allowDestructive |-> config.allowDestructive]
      BY <3>1 DEF RegisterInv
    <3>3. ParseProfile("") = "readonly"
      BY DEF ParseProfile, Profiles
    <3> QED
      BY <3>2, <3>3
  <2>2. \A a \in Permitted(pol) : ~Mutating(ClassOf[a])
    BY <2>1 DEF Permitted, AllowsAction
  <2>3. ASSUME NEW t \in registered, Fixed(t) PROVE ActionOf[t] \in Permitted(pol)
    <3>1. t \in Granted
      BY <2>3 DEF Inv, RegisterInv
    <3>2. AllowsAction(pol, ActionOf[t]) = "none"
      BY <2>3, <3>1 DEF Granted
    <3>3. ActionOf[t] \in Actions
      BY <3>2 DEF AllowsAction
    <3> QED
      BY <3>2, <3>3 DEF Permitted
  <2> QED
    BY <2>2, <2>3
<1> QED
  BY Invariance, <1>1, PTL

\* No tool can come to an action worse than it is announced as, and what is said
\* to be permitted is what a call is let through with.
THEOREM TellsTheTruth == Spec => []TellsWhatItLets
<1>1. Inv => TellsWhatItLets
  <2> SUFFICES ASSUME Inv, pc = "serve" PROVE TellsWhatItLets
    BY DEF TellsWhatItLets
  <2>1. ASSUME NEW t \in registered, NEW a \in Reach(t)
        PROVE  /\ Hints(t).readOnly => ~Mutating(ClassOf[a])
               /\ ~Hints(t).destructive => ClassOf[a] # "destructive"
               /\ NeedsConfirmation(ClassOf[a]) => Hints(t).takesToken
    <3>1. CASE Fixed(t)
      <4>1. t \in declared \ todo
        BY DEF Inv, TypeOK
      <4>2. a = ActionOf[t] /\ a \in Actions
        BY <3>1, <4>1 DEF Inv, RegisterInv, Reach
      <4>3. ToolClass(t) = ClassOf[a]
        BY <3>1, <4>2 DEF ToolClass, Fixed
      <4> QED
        BY <4>3 DEF Hints
    <3>2. CASE ActionOf[t] = AnyAction
      <4>1. ToolClass(t) = "destructive"
        BY <3>2 DEF ToolClass
      <4> QED
        BY <4>1 DEF Hints, Mutating, NeedsConfirmation
    <3>3. CASE ~Fixed(t) /\ ActionOf[t] # AnyAction
      BY <3>3 DEF Reach
    <3> QED
      BY <3>1, <3>2, <3>3
  <2>2. {a \in DOMAIN Listing : Listing[a]} = Permitted(pol)
    BY DEF Listing, Permitted, AllowsAction
  <2>3. \A a \in Actions : Describes(a) = "permitted" <=> a \in Permitted(pol)
    BY DEF Describes, Permitted, Resolve, AllowsAction
  <2> QED
    BY <2>1, <2>2, <2>3 DEF TellsWhatItLets
<1> QED
  BY Invariance, <1>1, PTL
===============================================================================
