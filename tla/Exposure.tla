------------------------------ MODULE Exposure ------------------------------
(***************************************************************************)
(* What of a WHMCS response reaches the model: the projection of a curated *)
(* tool (internal/shape, the extractors of internal/tools/extract.go), the *)
(* denylist of internal/redact, and the envelopes of internal/untrusted as *)
(* the escape hatch applies them (filterGeneric, wrapUntrusted).           *)
(*                                                                         *)
(* A decoded response is the set of its leaves.  A leaf is the path that   *)
(* leads to it (field names, and Item for an element of a list) with the   *)
(* kind of its value.  The recursive walks over maps and lists become a    *)
(* condition on each path; an empty map or list has no leaf and is         *)
(* invisible here, and a list stands for one element, since Item does not  *)
(* tell its elements apart.  A name stands for the lists of substrings it  *)
(* matches.                                                                *)
(***************************************************************************)
EXTENDS Integers, Sequences

CONSTANTS
  Keys,         \* the field names of the responses
  Item,         \* the step from a list to one of its elements
  AllowedKeys,  \* names that match allowedSubstrings,
  SecretKeys,   \*   secretSubstrings,
  NotesKeys,    \*   notesSubstrings,
  PIIKeys,      \*   piiSubstrings
  ProseKeys,    \* names for which looksUntrusted does not return early
  IdKeys,       \* the identifiers ackExtract carries through
  Folded,       \* a name as strings.EqualFold sees it
  Nested,       \* the name objectExtract and mergedExtract look under
  Container,    \* the names collection looks under, the list's
  Element,      \*   and its element's
  Records,      \* the name listExtract returns a list under
  MaxDepth,     \* redact.MaxDepth
  Specs,        \* declared output shapes
  ReplySpec,    \* replySpec, which Register never sees
  Responses     \* responses of WHMCS

VARIABLES spec, phase, tool, opts, response, output

vars == <<spec, phase, tool, opts, response, output>>

Steps == Keys \cup {Item}
Tools == {"generic", "object", "merged", "list", "ticket", "ack"}
Kinds == {"plain", "untrusted", "pii", "notes"}
Options == [pii: BOOLEAN, notes: BOOLEAN]

\* What a leaf of a response holds.  A "stamp" is a string the escape hatch never
\* labels: an empty one, or one isNumeric or looksLikeTimestamp accepts; "prose" is
\* any other one, "scalar" a number or a truth value.
Upstream == {"prose", "stamp", "scalar", "null"}
Markers == {"withheld", "too deep"}
Strings == {"prose"} \cup Markers

Leaf == [path: Seq(Steps), value: Upstream]
Field == [name: Keys, from: Keys, kind: Kinds]

\* A leaf of a result: of is the path of the response it came from.
Shown == [path: Seq(Steps), value: Upstream \cup Markers, of: Seq(Steps),
          wrapped: BOOLEAN]

ASSUME KeysAssumption ==
  /\ Item \notin Keys
  /\ AllowedKeys \subseteq Keys /\ SecretKeys \subseteq Keys
  /\ NotesKeys \subseteq Keys /\ PIIKeys \subseteq Keys
  /\ ProseKeys \subseteq Keys /\ IdKeys \subseteq Keys
  /\ {Nested, Container, Element, Records} \subseteq Keys
  /\ MaxDepth \in Nat
  /\ Specs \subseteq SUBSET Field /\ ReplySpec \in SUBSET Field
  /\ Responses \subseteq SUBSET Leaf
  /\ \A doc \in Responses : \A l \in doc : l.path # <<>> /\ l.path[1] \in Keys

\* normalise lower-cases a name before it looks for the substrings.
ASSUME FoldAssumption ==
  \A k, n \in Keys : Folded[k] = Folded[n] =>
    /\ k \in AllowedKeys <=> n \in AllowedKeys
    /\ k \in SecretKeys <=> n \in SecretKeys
    /\ k \in NotesKeys <=> n \in NotesKeys
    /\ k \in PIIKeys <=> n \in PIIKeys

-----------------------------------------------------------------------------
\* redact.Classify: a name is withheld, dropped, or kept.
Withheld == SecretKeys \ AllowedKeys
Dropped(o) ==
  ((IF o.notes THEN {} ELSE NotesKeys) \cup (IF o.pii THEN {} ELSE PIIKeys))
    \ (AllowedKeys \cup SecretKeys)

\* The walk stops at a name it does not keep, and below MaxDepth.
StopsAt(path, i, o) == path[i] \in Withheld \cup Dropped(o) \/ i > MaxDepth
FirstStop(path, i, o) ==
  /\ i \in 1..Len(path) /\ StopsAt(path, i, o)
  /\ \A j \in 1..(i - 1) : ~StopsAt(path, j, o)

Kept(l, o) ==
  {m \in {l} : \A i \in 1..Len(l.path) : ~StopsAt(l.path, i, o)}

\* Mutant: a secret disappears with its name
CutSecrets(l, o) == {}
Cut(l, o) ==
  {[path |-> SubSeq(l.path, 1, i),
    value |-> IF l.path[i] \in Withheld THEN "withheld" ELSE "too deep",
    of |-> l.of] :
     i \in {j \in 1..Len(l.path) :
              FirstStop(l.path, j, o) /\ l.path[j] \notin Dropped(o)}}

\* redact.Map and redact.Value
Redact(doc, o) == UNION {Kept(l, o) \cup Cut(l, o) : l \in doc}

\* looksUntrusted: only the name a string hangs from directly is looked at.
LooksUntrusted(l) ==
  l.path # <<>> /\ l.path[Len(l.path)] \in ProseKeys /\ l.value \in Strings

Render(l, under, wrap) ==
  [path |-> under \o l.path, value |-> l.value, of |-> l.of, wrapped |-> wrap]

Sourced(doc) == {[path |-> l.path, value |-> l.value, of |-> l.path] : l \in doc}

\* filterGeneric, for a response within the size limit
Filter(doc, o) ==
  {Render(l, <<>>, LooksUntrusted(l)) : l \in Redact(Sourced(doc), o)}

-----------------------------------------------------------------------------
\* Mutant: only the name of a field is held against the denylist
DeclarableByName(s) ==
  s # {} /\ \A f, g \in s : f.name \notin Withheld /\ (f.name = g.name => f = g)

\* Spec.Validate
Declarable(s) ==
  /\ s # {}
  /\ \A f \in s : f.name \notin Withheld /\ f.from \notin Withheld
  /\ \A f, g \in s : f.name = g.name => f = g

Tops(doc) == {l.path[1] : l \in doc}

\* shape.lookup: the name itself, or else one that differs in case only
Found(doc, key) ==
  IF key \in Tops(doc) THEN {key}
  ELSE {k \in Tops(doc) : k \in Keys /\ Folded[k] = Folded[key]}

Under(doc, names) ==
  {[path |-> Tail(l.path), value |-> l.value, of |-> l.of] :
     l \in {m \in doc : m.path[1] \in names}}

Raw(doc, key) ==
  {l \in Under(doc, Found(doc, key)) : ~(l.path = <<>> /\ l.value = "null")}

\* Mutant: admin notes are not gated
OpenButNotes(f, o) == f.kind = "pii" => o.pii

\* The opt-in a field needs by its declared kind
Open(f, o) == (f.kind = "pii" => o.pii) /\ (f.kind = "notes" => o.notes)

\* One field of Spec.Project.  An envelope holds all of the value as text.
ProjectField(f, doc, o) ==
  IF ~Open(f, o) THEN {}
  ELSE IF f.kind = "untrusted"
  THEN {[path |-> <<f.name>>, value |-> l.value, of |-> l.of, wrapped |-> TRUE] :
          l \in Raw(doc, f.from)}
  ELSE {Render(l, <<f.name>>, FALSE) : l \in Redact(Raw(doc, f.from), o)}

Project(s, doc, o) == UNION {ProjectField(f, doc, o) : f \in s}

\* A leaf lies under a prefix, as a field of the object there.
Lies(l, prefix) ==
  /\ Len(l.path) > Len(prefix)
  /\ \A i \in 1..Len(prefix) : l.path[i] = prefix[i]
  /\ l.path[Len(prefix) + 1] \in Keys

\* The object at a prefix of the paths, when there is one
At(doc, prefix) ==
  {[path |-> SubSeq(l.path, Len(prefix) + 1, Len(l.path)), value |-> l.value,
    of |-> l.of] : l \in {m \in doc : Lies(m, prefix)}}

Inner(doc) == At(doc, <<Nested>>)

\* collection: a bare list, a list in an object, or its one element itself
ListPaths ==
  {<<Container, Item>>, <<Container, Element, Item>>, <<Container, Element>>}
Elements(doc) == UNION {At(doc, prefix) : prefix \in ListPaths}

Object(s, doc, o) ==
  Project(s, IF Inner(doc) = {} THEN doc ELSE Inner(doc), o)

Overlay(below, above) ==
  {b \in below : \A a \in above : a.path[1] # b.path[1]} \cup above

Merged(s, doc, o) == Overlay(Project(s, doc, o), Project(s, Inner(doc), o))

\* Spec.ProjectList, and the name its list is returned under
Listing(name, s, doc, o) ==
  {[x EXCEPT !.path = <<name, Item>> \o @] : x \in Project(s, Elements(doc), o)}

\* Mutant: with no reply projected, the declared field stays
DetailOrRaw(s, doc, o) ==
  Overlay(Project(s, doc, o), Listing(Container, ReplySpec, doc, o))

\* ticketDetailExtract: the replies take the place of the declared field, and
\* without one it goes.
Detail(s, doc, o) ==
  {x \in Project(s, doc, o) : x.path[1] # Container}
    \cup Listing(Container, ReplySpec, doc, o)

\* ackExtract copies its identifiers as they are.
Ack(doc) == {Render(l, <<>>, FALSE) : l \in {m \in doc : m.path[1] \in IdKeys}}

Result(t, s, doc, o) ==
  CASE t = "generic" -> Filter(doc, o)
    [] t = "object" -> Object(s, Sourced(doc), o)
    [] t = "merged" -> Merged(s, Sourced(doc), o)
    [] t = "list" -> Listing(Records, s, Sourced(doc), o)
    [] t = "ticket" -> Detail(s, Sourced(doc), o)
    [] t = "ack" -> Ack(Sourced(doc))

\* An identifier WHMCS minted is one value, and so is the text of a declared
\* untrusted field: what the extractors do with an object there is not modelled.
TextKeys ==
  {k \in Keys : \E s \in Specs \cup {ReplySpec} : \E f \in s :
     f.kind = "untrusted" /\ Folded[k] = Folded[f.from]}

ASSUME ResponsesAssumption ==
  \A doc \in Responses : \A l \in doc : \A i \in 1..Len(l.path) :
    l.path[i] \in IdKeys \cup TextKeys => i = Len(l.path)

\* The output shapes this server ships: personal data and admin notes are
\* declared as what they are, and the objects looked into are neither.  That
\* of a reply is one Validate would accept.  And the names of customer-authored
\* text in them are among those the escape hatch takes for it.
ASSUME ShippedAssumption ==
  /\ ({Nested, Container, Element} \cup IdKeys)
       \cap (SecretKeys \cup NotesKeys \cup PIIKeys) = {}
  /\ Declarable(ReplySpec)
  /\ TextKeys \subseteq ProseKeys
  /\ \A s \in Specs \cup {ReplySpec} : \A f \in s :
       /\ f.from \in PIIKeys \ (AllowedKeys \cup SecretKeys) => f.kind = "pii"
       /\ f.from \in NotesKeys \ (AllowedKeys \cup SecretKeys) => f.kind = "notes"

-----------------------------------------------------------------------------
NoOptIn == [pii |-> FALSE, notes |-> FALSE]

Init ==
  /\ spec \in Specs
  /\ phase = "starting"
  /\ tool = "generic" /\ opts = NoOptIn
  /\ response = {} /\ output = {}

\* Register validates every declared shape; one it refuses ends the start.
Register ==
  /\ phase = "starting"
  /\ phase' = IF Declarable(spec) THEN "serving" ELSE "refused"
  /\ UNCHANGED <<spec, tool, opts, response, output>>

\* dispatch: an opt-in counts only where the tool declares it, and
\* whmcs_call_action declares none.
Gated(t, asked) == IF t = "generic" THEN NoOptIn ELSE asked

Request ==
  /\ phase = "serving"
  /\ phase' = "received"
  /\ \E t \in Tools, asked \in Options, doc \in Responses :
       tool' = t /\ opts' = Gated(t, asked) /\ response' = doc
  /\ UNCHANGED <<spec, output>>

Answer ==
  /\ phase = "received"
  /\ phase' = "answered"
  /\ output' = Result(tool, spec, response, opts)
  /\ UNCHANGED <<spec, tool, opts, response>>

\* The escape hatch withholds a result of more than maxGenericResultBytes.
AnswerTooLarge ==
  /\ phase = "received" /\ tool = "generic"
  /\ phase' = "too large"
  /\ output' = {}
  /\ UNCHANGED <<spec, tool, opts, response>>

Done ==
  /\ phase \in {"refused", "answered", "too large"}
  /\ UNCHANGED vars

Next ==
  \/ Register
  \/ Request
  \/ Answer
  \/ AnswerTooLarge
  \/ Done

Spec == Init /\ [][Next]_vars

-----------------------------------------------------------------------------
TypeOK ==
  /\ spec \in Specs
  /\ phase \in {"starting", "refused", "serving", "received", "answered",
                "too large"}
  /\ tool \in Tools /\ opts \in Options
  /\ tool = "generic" => opts = NoOptIn
  /\ response \subseteq Leaf
  /\ output \subseteq Shown
  /\ phase = "too large" => tool = "generic"

FromWHMCS == {x \in output : x.value \in Upstream}

\* The tools whose result is made by a declared shape; of the other two, the
\* escape hatch has none, and an acknowledgement does not look at its own.
ProjectingTools == {"object", "merged", "list", "ticket"}
Projected == tool \in ProjectingTools

\* What a leaf of a projected result answers to: a reply to the shape of replies,
\* anything else to the tool's, by the name it stands under in its record.
InReply(x) == tool = "ticket" /\ x.path[1] = Container
InList(x) == tool = "list" \/ InReply(x)
ShapeOf(x) == IF InReply(x) THEN ReplySpec ELSE spec
NameOf(x) == x.path[IF InList(x) THEN 3 ELSE 1]

\* Where the tool finds a record in a response
Entries(x) ==
  IF InList(x) THEN ListPaths
  ELSE IF tool = "ticket" THEN {<<>>} ELSE {<<>>, <<Nested>>}

\* A path of a response leads through an entry to the field f reads.
ReadBy(f, of, entries) ==
  \E e \in entries :
    /\ Len(e) < Len(of)
    /\ \A i \in 1..Len(e) : of[i] = e[i]
    /\ of[Len(e) + 1] \in Keys /\ Folded[of[Len(e) + 1]] = Folded[f.from]

(* No value that WHMCS returned under a credential's name, at any depth and  *)
(* through any list, is in the result of any tool, whatever shape the tool   *)
(* declares (redact.Classify, shape.Spec.Validate, shape.Spec.Project).      *)
NoSecretShown ==
  \A x \in FromWHMCS : \A i \in 1..Len(x.of) : x.of[i] \notin Withheld

(* Personal data and admin notes reach a result only when the call opted in  *)
(* and the tool allows it: by name wherever a name is looked at, by the      *)
(* declared kind where a shape makes the result (redact.Classify,            *)
(* Spec.Project, dispatch).                                                  *)
OptInsRespected ==
  \A x \in FromWHMCS :
    /\ \A i \in 1..Len(x.of) : x.of[i] \notin Dropped(opts)
    /\ Projected => \A f \in ShapeOf(x) : f.name = NameOf(x) =>
         (f.kind = "pii" => opts.pii) /\ (f.kind = "notes" => opts.notes)

(* The denylist neither loses a harmless value nor hides that a secret is    *)
(* there: a leaf of a response under names that are all kept is in the       *)
(* escape hatch's result as it was, and under a first offending name that is *)
(* a credential's the placeholder stands at that name (redact.walk).         *)
ReportedOrKept ==
  phase = "answered" /\ tool = "generic" =>
    \A l \in response :
      /\ (\A i \in 1..Len(l.path) : ~StopsAt(l.path, i, opts)) =>
           \E x \in output : x.path = l.path /\ x.value = l.value
      /\ \A i \in 1..Len(l.path) :
           FirstStop(l.path, i, opts) /\ l.path[i] \in Withheld =>
             \E x \in output :
               x.path = SubSeq(l.path, 1, i) /\ x.value = "withheld"

(* What a result is made of, by the way it is made.  A tool with a shape     *)
(* returns nothing the shape does not declare, labelled as it declares it:   *)
(* every leaf has a declared name, every value in it comes from the field of *)
(* the response that the declaration names, in a record where the tool looks *)
(* for one, so a field a later WHMCS adds is not returned, and customer-     *)
(* authored text, and nothing else, is in an envelope, however deep it lies. *)
(* The conversation of a ticket never reaches the result by the tool's own   *)
(* shape, which declares it plain.  An acknowledgement does return what it   *)
(* does not declare, and this is all of it: the identifiers at the top of    *)
(* the response, whatever its shape says.  And what a shape would put in an  *)
(* envelope, the escape hatch does too, wherever in a response it finds it   *)
(* (Spec.Validate, Spec.Project, shape.lookup, collection, the extractors,   *)
(* ackExtract, looksUntrusted).                                              *)
ReturnedAsDeclared ==
  \A x \in output :
    /\ Projected =>
         /\ InList(x) => Len(x.path) >= 3 /\ x.path[2] = Item
         /\ \E f \in ShapeOf(x) : NameOf(x) = f.name /\ ReadBy(f, x.of, Entries(x))
         /\ \A f \in ShapeOf(x) :
              f.name = NameOf(x) => (x.wrapped <=> f.kind = "untrusted")
    /\ tool = "ack" => x.of \in {<<k>> : k \in IdKeys} /\ x.path = x.of
    /\ tool = "generic" /\ x.value = "prose" /\ x.of[Len(x.of)] \in TextKeys => x.wrapped

(* Nothing below MaxDepth is walked: no value of WHMCS is deeper than that   *)
(* in a result, below the names a projection and a list put above it         *)
(* (redact.walk, redact.MaxDepth).                                           *)
DepthBounded ==
  \A x \in FromWHMCS :
    Len(x.path) <= MaxDepth + (IF tool = "generic" THEN 0
                               ELSE IF tool \in {"list", "ticket"} THEN 3 ELSE 1)
=============================================================================
