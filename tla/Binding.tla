-------------------------------- MODULE Binding --------------------------------
(***************************************************************************)
(* What a confirmation token is bound to, and what the confirmed call then *)
(* sends: confirm.fingerprint, Args.Int and Args.String, genericParams,    *)
(* registry.Validate and the impact statement of a preview, for one        *)
(* destructive action reached through its purpose-built tool or through    *)
(* the escape hatch.                                                       *)
(*                                                                         *)
(* Arguments are a Go map from keys, as the caller spelled them, to JSON   *)
(* values.  fingerprint and Validate range over it, in an order that is    *)
(* not determined, and fold its keys, so where two spellings fold to one   *)
(* name either may be the one that counts.                                 *)
(*                                                                         *)
(* Abstractions.  A JSON value is null, a number or a string; a string is  *)
(* a number's decimal form or a word.  Lists and objects are refused       *)
(* before anything is done with them (genericParams), and here are words   *)
(* given to a number.  The token itself, its expiry and its consumption    *)
(* are ConfirmStore's.                                                     *)
(***************************************************************************)
EXTENDS Integers, FiniteSets

CONSTANTS
  Spellings,    \* keys a caller may use
  Lower,        \* strings.ToLower, on them
  Trim,         \* strings.TrimSpace, on lower-case keys
  Params,       \* parameters the action documents, in lower case
  Identifiers,  \* those that name a record: whole numbers from 1
  Deprecated,   \* those the vendor deprecates
  Required,     \* those the action needs
  IdKey,        \* the argument the purpose-built tool reads
  IdParam,      \* and the parameter it makes of it
  Numbers,      \* whole numbers a value may be
  Strings,      \* strings a value may be: the decimal form of one, or Word
  Word,         \* a string that is no number
  Absent,       \* no value: what an impact statement leaves blank
  MaxArgs       \* bound on the arguments of a call, for model checking

Raw == [kind : {"number"}, value : Numbers]
         \union [kind : {"string"}, value : Strings]

Null == [kind |-> "null"]

ASSUME BindingAssumption ==
  /\ Numbers \subseteq Int
  /\ Strings \subseteq Numbers \union {Word}
  /\ Word \notin Numbers
  /\ Absent \notin Numbers \union {Word}
  /\ Lower \in [Spellings -> Spellings]
  /\ Trim \in [Spellings -> Spellings]
  /\ Params \subseteq Spellings
  /\ Identifiers \subseteq Params
  /\ Deprecated \subseteq Params
  /\ Required \subseteq Params
  /\ IdKey \in Spellings
  /\ IdParam \in Identifiers \ Deprecated
  /\ Trim[Lower[IdParam]] = IdParam

Arguments ==
  UNION {[K -> Raw \union {Null}] :
           K \in {S \in SUBSET Spellings : Cardinality(S) <= MaxArgs}}

VARIABLES
  tool,    \* "curated" or "generic"
  stage,   \* "idle", "previewed", "mismatch", "authorised", "invalid", "sent"
  first,   \* arguments of the call that previewed
  bound,   \* the fingerprint its token was signed over
  impact,  \* the target its impact statement names
  second,  \* arguments of the call that presented the token
  form     \* the form values sent to WHMCS

bindingVars == <<tool, stage, first, bound, impact, second, form>>

Nothing == [k \in {} |-> Null]

(***************************************************************************)
(* Keys.                                                                   *)
(***************************************************************************)

\* Action.Param folds case and trims; fingerprint folds case only.
Canon(k) == Trim[Lower[k]]

\* Mutant: an argument that is null is left out, as Validate leaves it out.
FingerprintsNonNull(args) ==
  LET given == {k \in DOMAIN args : args[k] # Null}
      names == {Lower[k] : k \in given}
  IN  {fp \in [names -> {args[k] : k \in given}] :
         \A n \in names : \E k \in given : Lower[k] = n /\ fp[n] = args[k]}

\* fingerprint: a value per folded key, with its JSON type, from whichever
\* spelling the iteration met last.
Fingerprints(args) ==
  LET names == {Lower[k] : k \in DOMAIN args}
  IN  {fp \in [names -> {args[k] : k \in DOMAIN args}] :
         \A n \in names : \E k \in DOMAIN args : Lower[k] = n /\ fp[n] = args[k]}

(***************************************************************************)
(* Values.                                                                 *)
(***************************************************************************)

\* encode accepts the value for the parameter.
Encodable(p, raw) == p \in Identifiers => raw.value \in Numbers /\ raw.value >= 1

\* Tool.Params of the purpose-built tool: the identifier, or a refusal.
HasId(args) ==
  /\ IdKey \in DOMAIN args
  /\ args[IdKey] # Null
  /\ args[IdKey].value \in Numbers
  /\ args[IdKey].value >= 1

\* The parameters of the request: the identifier alone, all else ignored, or
\* the parameters object as it is.
Wanted(args) ==
  IF tool = "generic" THEN args
  ELSE [k \in {IdParam} |-> [kind |-> "number", value |-> args[IdKey].value]]

\* Mutant: parameters the action does not document are let through.
RefusedUnlessKnown(args) ==
  \E k \in DOMAIN args :
    \/ Canon(k) \in Deprecated
    \/ Canon(k) \in Params /\ args[k] # Null /\ ~Encodable(Canon(k), args[k])

\* registry.Validate's first loop: one argument it cannot take is enough.
Refused(args) ==
  \E k \in DOMAIN args :
    \/ Canon(k) \notin Params \ Deprecated
    \/ args[k] # Null /\ ~Encodable(Canon(k), args[k])

\* What the loop leaves in values: per parameter, one of the spellings given.
\* A number and its decimal string are encoded alike.
Forms(args) ==
  LET given == {k \in DOMAIN args : args[k] # Null}
      names == {Canon(k) : k \in given}
  IN  {f \in [names -> {args[k].value : k \in given}] :
         \A n \in names : \E k \in given : Canon(k) = n /\ f[n] = args[k].value}

\* Its second loop.
Complete(f) == Required \ Deprecated \subseteq DOMAIN f

(***************************************************************************)
(* The two calls.                                                          *)
(***************************************************************************)
Init ==
  /\ tool \in {"curated", "generic"}
  /\ stage = "idle"
  /\ first = Nothing
  /\ bound = Nothing
  /\ impact = Absent
  /\ second = Nothing
  /\ form = Nothing

\* Mutant: the impact statement prints another argument than the identifier.
ImpactOfAny(args) ==
  LET told == {k \in DOMAIN args : args[k].kind = "string"}
  IN  IF told # {} THEN args[CHOOSE k \in told : TRUE].value ELSE Absent

\* The purpose-built tool's Preview reads the target with Args.String, which
\* sees strings only; the escape hatch has none.
Impact(args) ==
  IF tool = "curated" /\ IdKey \in DOMAIN args /\ args[IdKey].kind = "string"
  THEN args[IdKey].value ELSE Absent

\* The call without a token: checkConfirmation issues one.
Preview(args) ==
  /\ stage = "idle"
  /\ stage' = "previewed"
  /\ first' = args
  /\ bound' \in Fingerprints(args)
  /\ impact' = Impact(args)
  /\ UNCHANGED <<tool, second, form>>

\* The call with the token: Verify compares fingerprints.  A mismatch leaves the
\* token as it was, so that a further attempt is like this one.
Present(args) ==
  /\ stage = "previewed"
  /\ second' = args
  /\ \E fp \in Fingerprints(args) :
       stage' = IF fp = bound THEN "authorised" ELSE "mismatch"
  /\ UNCHANGED <<tool, first, bound, impact, form>>

\* Params, Validate and the request.
Send ==
  /\ stage = "authorised"
  /\ IF (tool = "curated" /\ ~HasId(second)) \/ Refused(Wanted(second))
     THEN stage' = "invalid" /\ UNCHANGED form
     ELSE \E f \in Forms(Wanted(second)) :
            IF Complete(f) THEN stage' = "sent" /\ form' = f
            ELSE stage' = "invalid" /\ UNCHANGED form
  /\ UNCHANGED <<tool, first, bound, impact, second>>

\* The second call has its answer.
Answered == stage \in {"mismatch", "invalid", "sent"} /\ UNCHANGED bindingVars

Next ==
  \/ \E args \in Arguments : Preview(args) \/ Present(args)
  \/ Send
  \/ Answered

Spec == Init /\ [][Next]_bindingVars

(***************************************************************************)
(* Properties.                                                             *)
(***************************************************************************)

TypeOK ==
  /\ tool \in {"curated", "generic"}
  /\ stage \in {"idle", "previewed", "mismatch", "authorised", "invalid", "sent"}
  /\ \A args \in {first, second} :
       DOMAIN args \subseteq Spellings /\ args \in [DOMAIN args -> Raw \union {Null}]
  /\ bound \in Fingerprints(first)
  /\ impact \in Numbers \union {Word, Absent}
  /\ stage = "sent" => form \in Forms(Wanted(second)) /\ Complete(form)

\* No two keys name the same parameter.
Plain(args) == \A j, k \in DOMAIN args : Canon(j) = Canon(k) => j = k

\* The same arguments but for the case of their keys.
Same(a, b) ==
  /\ \A j \in DOMAIN a : \E k \in DOMAIN b : Lower[j] = Lower[k] /\ a[j] = b[k]
  /\ \A k \in DOMAIN b : \E j \in DOMAIN a : Lower[j] = Lower[k] /\ a[j] = b[k]

\* A token authorises the arguments it was issued for, types included, in any
\* order and any case, and authorises nothing else: "the operator approved a
\* specific rendering of the arguments" (confirm_test.go).
AuthorisesTheSame ==
  Plain(first) /\ Plain(second) =>
    /\ stage \in {"authorised", "invalid", "sent"} => Same(first, second)
    /\ stage = "mismatch" => ~Same(first, second)

\* The forms a human who read the preview has approved: those of the arguments
\* themselves or, for the purpose-built tool, of an argument with its name.
Approved(args) ==
  IF tool = "generic" THEN Forms(args)
  ELSE {[k \in {IdParam} |-> args[j].value] :
          j \in {k \in DOMAIN args : Lower[k] = Lower[IdKey] /\ args[k] # Null}}

\* What is sent is what was previewed, for arguments that name each parameter
\* once, however the second call spells them; and the human who approved was
\* shown no other target than the one acted on.  (The statement may name none:
\* Args.String reads a number as the empty string.)
SentWasPreviewed ==
  stage = "sent" /\ Plain(first) /\ Plain(second) =>
    /\ form \in Approved(first)
    /\ tool = "curated" => impact \in {form[IdParam], Absent}

\* "A misspelled parameter is an error rather than a silently ignored field":
\* what the escape hatch sends has a place for every value it was given, none
\* that was not, all the action needs and nothing deprecated.
NothingIgnored ==
  stage = "sent" /\ tool = "generic" =>
    /\ DOMAIN form = {Canon(k) : k \in {j \in DOMAIN second : second[j] # Null}}
    /\ Required \ Deprecated \subseteq DOMAIN form
    /\ DOMAIN form \subseteq Params \ Deprecated

(***************************************************************************)
(* Why they hold: the fingerprint of the token is one of the first call's  *)
(* arguments and, past the comparison, one of the second's too.            *)
(***************************************************************************)

BindingInv ==
  /\ bound \in Fingerprints(first)
  /\ impact = Impact(first)
  /\ stage \in {"authorised", "invalid", "sent"} => bound \in Fingerprints(second)
  /\ stage = "mismatch" => \E fp \in Fingerprints(second) : fp # bound
  /\ stage = "sent" =>
       /\ form \in Forms(Wanted(second)) /\ Complete(form)
       /\ ~Refused(Wanted(second))
       /\ tool = "curated" => HasId(second)
===============================================================================
