---------------------------- MODULE ToolCalls_proofs ----------------------------
(***************************************************************************)
(* Proofs about what a tool call is bound to, how a list is walked and     *)
(* what a purpose-built tool sends.                                        *)
(*                                                                         *)
(* Binding: a token is bound to its arguments, for every set of keys,      *)
(* values and parameters.  What carries it is that the fingerprint of      *)
(* plain arguments is unique and gives every argument back.                *)
(*                                                                         *)
(* Paging: whatever the size of the collection, however much changes under *)
(* the walk and whatever the page sizes, a walk misses no more lasting     *)
(* records than were dropped and repeats none more often than records were *)
(* added.                                                                  *)
(*                                                                         *)
(* Curated: each tool agrees with its action, which is shown tool by tool; *)
(* from that, for every tool and all arguments, that calls arrive as they  *)
(* were made.                                                              *)
(***************************************************************************)
EXTENDS Binding, Paging, Curated, FiniteSetTheorems, SequenceTheorems, TLAPS

\* A map from keys to JSON values.
IsArguments(args) ==
  DOMAIN args \subseteq Spellings /\ args \in [DOMAIN args -> Raw \union {Null}]

\* A fingerprint of plain arguments holds each of them.
LEMMA FingerprintHolds ==
  ASSUME NEW args, Plain(args), NEW fp \in Fingerprints(args),
         NEW k \in DOMAIN args
  PROVE  Lower[k] \in DOMAIN fp /\ fp[Lower[k]] = args[k]
<1>1. DOMAIN fp = {Lower[j] : j \in DOMAIN args}
  BY DEF Fingerprints
<1>2. PICK j \in DOMAIN args : Lower[j] = Lower[k] /\ fp[Lower[k]] = args[j]
  BY <1>1 DEF Fingerprints
<1>3. j = k
  BY <1>2 DEF Plain, Canon
<1> QED
  BY <1>1, <1>2, <1>3

\* One fingerprint of two plain maps makes them the same.
LEMMA CommonFingerprint ==
  ASSUME NEW a, NEW b, Plain(a), Plain(b),
         NEW fp \in Fingerprints(a), fp \in Fingerprints(b)
  PROVE  Same(a, b)
<1>1. DOMAIN fp = {Lower[j] : j \in DOMAIN a} /\ DOMAIN fp = {Lower[j] : j \in DOMAIN b}
  BY DEF Fingerprints
<1>2. \A j \in DOMAIN a : \E k \in DOMAIN b : Lower[j] = Lower[k] /\ a[j] = b[k]
  <2> TAKE j \in DOMAIN a
  <2>1. fp[Lower[j]] = a[j]
    BY FingerprintHolds
  <2>2. PICK k \in DOMAIN b : Lower[k] = Lower[j]
    BY <1>1
  <2>3. fp[Lower[k]] = b[k]
    BY FingerprintHolds
  <2> QED
    BY <2>1, <2>2, <2>3
<1>3. \A k \in DOMAIN b : \E j \in DOMAIN a : Lower[j] = Lower[k] /\ a[j] = b[k]
  <2> TAKE k \in DOMAIN b
  <2>1. fp[Lower[k]] = b[k]
    BY FingerprintHolds
  <2>2. PICK j \in DOMAIN a : Lower[j] = Lower[k]
    BY <1>1
  <2>3. fp[Lower[j]] = a[j]
    BY FingerprintHolds
  <2> QED
    BY <2>1, <2>2, <2>3
<1> QED
  BY <1>2, <1>3 DEF Same

\* Maps that are the same have the same fingerprint.
LEMMA SameFingerprint ==
  ASSUME NEW a, NEW b, Plain(a), Plain(b), Same(a, b),
         NEW fp \in Fingerprints(a), NEW fq \in Fingerprints(b)
  PROVE  fp = fq
<1>1. DOMAIN fp = {Lower[j] : j \in DOMAIN a} /\ DOMAIN fq = {Lower[j] : j \in DOMAIN b}
  BY DEF Fingerprints
<1>2. DOMAIN fp = DOMAIN fq
  BY <1>1 DEF Same
<1>3. ASSUME NEW n \in DOMAIN fp PROVE fp[n] = fq[n]
  <2>1. PICK j \in DOMAIN a : Lower[j] = n
    BY <1>1
  <2>2. PICK k \in DOMAIN b : Lower[j] = Lower[k] /\ a[j] = b[k]
    BY DEF Same
  <2>3. fp[Lower[j]] = a[j] /\ fq[Lower[k]] = b[k]
    BY FingerprintHolds
  <2> QED
    BY <2>1, <2>2, <2>3
<1>4. fp = [n \in DOMAIN fp |-> fp[n]] /\ fq = [n \in DOMAIN fq |-> fq[n]]
  BY DEF Fingerprints
<1> QED
  BY <1>2, <1>3, <1>4

\* Maps that are the same stand for the same forms.
LEMMA SameForms ==
  ASSUME NEW a, NEW b, Same(a, b)
  PROVE  Forms(b) \subseteq Forms(a)
<1> DEFINE present(x) == {k \in DOMAIN x : x[k] # Null}
<1>1. SUFFICES ASSUME NEW f \in Forms(b) PROVE f \in Forms(a)
  OBVIOUS
<1>2. {Canon(k) : k \in present(b)} = {Canon(k) : k \in present(a)}
  BY DEF Same, Canon
<1>3. {b[k].value : k \in present(b)} = {a[k].value : k \in present(a)}
  BY DEF Same
<1>4. f \in [{Canon(k) : k \in present(b)} -> {b[k].value : k \in present(b)}]
  BY DEF Forms
<1>5. ASSUME NEW n \in {Canon(k) : k \in present(b)}
      PROVE  \E j \in present(a) : Canon(j) = n /\ f[n] = a[j].value
  <2>1. PICK k \in present(b) : Canon(k) = n /\ f[n] = b[k].value
    BY DEF Forms
  <2>2. PICK j \in DOMAIN a : Lower[j] = Lower[k] /\ a[j] = b[k]
    BY DEF Same
  <2> QED
    BY <2>1, <2>2 DEF Canon
<1> QED
  BY <1>2, <1>3, <1>4, <1>5 DEF Forms

-----------------------------------------------------------------------------
(***************************************************************************)
(* The invariants.                                                         *)
(***************************************************************************)

\* Every call has the values its type says, and the request is one that Validate
\* could have made of the second call.
THEOREM TypeCorrect == Spec => []TypeOK
<1>1. Init => TypeOK
  BY DEF Init, TypeOK, Nothing, Fingerprints
<1>2. TypeOK /\ [Next]_bindingVars => TypeOK'
  <2> SUFFICES ASSUME TypeOK, [Next]_bindingVars
               PROVE  TypeOK'
    OBVIOUS
  <2> USE DEF TypeOK
  <2>1. ASSUME NEW args \in Arguments
        PROVE  IsArguments(args)
    BY <2>1 DEF Arguments, IsArguments
  <2>2. ASSUME NEW args \in Arguments, Preview(args)
        PROVE  TypeOK'
    <3>1. IsArguments(args)
      BY <2>1, <2>2
    <3>2. Impact(args) \in Numbers \union {Word, Absent}
      <4>1. CASE tool = "curated" /\ IdKey \in DOMAIN args /\ args[IdKey].kind = "string"
        <5>1. args[IdKey] \in Raw \union {Null}
          BY <3>1, <4>1 DEF IsArguments
        <5>2. args[IdKey] \in [kind : {"string"}, value : Strings]
          BY <4>1, <5>1 DEF Raw, Null
        <5>3. args[IdKey].value \in Numbers \union {Word}
          BY <5>2, BindingAssumption
        <5> QED
          BY <4>1, <5>3 DEF Impact
      <4>2. CASE ~(tool = "curated" /\ IdKey \in DOMAIN args /\ args[IdKey].kind = "string")
        BY <4>2 DEF Impact
      <4> QED
        BY <4>1, <4>2
    <3> QED
      BY <2>2, <3>1, <3>2 DEF Preview, IsArguments
  <2>3. ASSUME NEW args \in Arguments, Present(args)
        PROVE  TypeOK'
    <3>1. IsArguments(args)
      BY <2>1, <2>3
    <3>2. stage' \in {"authorised", "mismatch"}
      BY <2>3 DEF Present
    <3> QED
      BY <2>3, <3>1, <3>2 DEF Present, IsArguments
  <2>4. CASE Send
    <3>1. CASE (tool = "curated" /\ ~HasId(second)) \/ Refused(Wanted(second))
      BY <2>4, <3>1 DEF Send
    <3>2. CASE ~((tool = "curated" /\ ~HasId(second)) \/ Refused(Wanted(second)))
      <4>1. PICK f \in Forms(Wanted(second)) :
              IF Complete(f) THEN stage' = "sent" /\ form' = f
              ELSE stage' = "invalid" /\ UNCHANGED form
        BY <2>4, <3>2 DEF Send
      <4>2. Wanted(second)' = Wanted(second)
        BY <2>4 DEF Send, Wanted
      <4>3. CASE Complete(f)
        BY <2>4, <4>1, <4>2, <4>3 DEF Send, Forms, Complete
      <4>4. CASE ~Complete(f)
        BY <2>4, <4>1, <4>4 DEF Send
      <4> QED
        BY <4>3, <4>4
    <3> QED
      BY <3>1, <3>2
  <2>5. CASE UNCHANGED bindingVars
    BY <2>5 DEF bindingVars, Wanted, Forms, Complete
  <2> QED
    BY <2>2, <2>3, <2>4, <2>5 DEF Next, Answered
<1> QED
  BY <1>1, <1>2, PTL DEF Spec

\* The comparison of fingerprints and Validate, remembered.
LEMMA Invariant == Spec => []BindingInv
<1>1. Init => BindingInv
  BY DEF Init, BindingInv, Nothing, Fingerprints, Impact
<1>2. BindingInv /\ [Next]_bindingVars => BindingInv'
  <2> SUFFICES ASSUME BindingInv, [Next]_bindingVars
               PROVE  BindingInv'
    OBVIOUS
  <2> USE DEF BindingInv, Impact
  <2>1. ASSUME NEW args \in Arguments, Preview(args)
        PROVE  BindingInv'
    BY <2>1 DEF Preview
  <2>2. ASSUME NEW args \in Arguments, Present(args)
        PROVE  BindingInv'
    <3>1. PICK fp \in Fingerprints(args) :
            stage' = IF fp = bound THEN "authorised" ELSE "mismatch"
      BY <2>2 DEF Present
    <3>2. CASE fp = bound
      BY <2>2, <3>1, <3>2 DEF Present
    <3>3. CASE fp # bound
      BY <2>2, <3>1, <3>3 DEF Present
    <3> QED
      BY <3>2, <3>3
  <2>3. CASE Send
    <3>1. CASE (tool = "curated" /\ ~HasId(second)) \/ Refused(Wanted(second))
      BY <2>3, <3>1 DEF Send
    <3>2. CASE ~((tool = "curated" /\ ~HasId(second)) \/ Refused(Wanted(second)))
      <4>1. PICK f \in Forms(Wanted(second)) :
              IF Complete(f) THEN stage' = "sent" /\ form' = f
              ELSE stage' = "invalid" /\ UNCHANGED form
        BY <2>3, <3>2 DEF Send
      <4>2. Wanted(second)' = Wanted(second) /\ HasId(second)' = HasId(second)
        BY <2>3 DEF Send, Wanted, HasId
      <4>3. CASE Complete(f)
        BY <2>3, <3>2, <4>1, <4>2, <4>3 DEF Send, Forms, Complete, Refused
      <4>4. CASE ~Complete(f)
        BY <2>3, <4>1, <4>4 DEF Send
      <4> QED
        BY <4>3, <4>4
    <3> QED
      BY <3>1, <3>2
  <2>4. CASE UNCHANGED bindingVars
    BY <2>4 DEF bindingVars, Wanted, HasId, Forms, Complete, Refused
  <2> QED
    BY <2>1, <2>2, <2>3, <2>4 DEF Next, Answered
<1> QED
  BY <1>1, <1>2, PTL DEF Spec

\* A token authorises the arguments it was issued for and nothing else.
THEOREM TokenAuthorisesTheSame == Spec => []AuthorisesTheSame
<1>1. BindingInv => AuthorisesTheSame
  <2> SUFFICES ASSUME BindingInv, Plain(first), Plain(second)
               PROVE  /\ stage \in {"authorised", "invalid", "sent"} => Same(first, second)
                      /\ stage = "mismatch" => ~Same(first, second)
    BY DEF AuthorisesTheSame
  <2>1. ASSUME stage \in {"authorised", "invalid", "sent"}
        PROVE  Same(first, second)
    BY <2>1, CommonFingerprint DEF BindingInv
  <2>2. ASSUME stage = "mismatch", Same(first, second)
        PROVE  FALSE
    BY <2>2, SameFingerprint DEF BindingInv
  <2> QED
    BY <2>1, <2>2
<1> QED
  BY <1>1, Invariant, PTL

\* The purpose-built tool stands for one form: its identifier.
LEMMA CuratedForm ==
  ASSUME NEW v, NEW f \in Forms([k \in {IdParam} |-> [kind |-> "number", value |-> v]])
  PROVE  f = [k \in {IdParam} |-> v]
<1> DEFINE w == [k \in {IdParam} |-> [kind |-> "number", value |-> v]]
           present == {k \in DOMAIN w : w[k] # Null}
<1>1. [kind |-> "number", value |-> v] # Null
  <2>1. [kind |-> "number", value |-> v].kind = "number" /\ Null.kind = "null"
    BY DEF Null
  <2> QED
    BY <2>1
<1>2. present = {IdParam} /\ Canon(IdParam) = IdParam
  BY <1>1, BindingAssumption DEF Canon
<1>3. {Canon(k) : k \in present} = {IdParam} /\ {w[k].value : k \in present} = {v}
  BY <1>2
<1>4. f \in [{IdParam} -> {v}]
  BY <1>3 DEF Forms
<1> QED
  BY <1>4

\* What is sent on a token is what its preview stood for.
THEOREM TokenSendsThePreviewed == Spec => []SentWasPreviewed
<1>1. TypeOK /\ BindingInv => SentWasPreviewed
  <2> SUFFICES ASSUME TypeOK, BindingInv, stage = "sent", Plain(first), Plain(second)
               PROVE  /\ form \in Approved(first)
                      /\ tool = "curated" => impact \in {form[IdParam], Absent}
    BY DEF SentWasPreviewed
  <2>1. Same(first, second)
    BY CommonFingerprint DEF BindingInv
  <2>2. form \in Forms(Wanted(second))
    BY DEF BindingInv
  <2>3. CASE tool = "generic"
    BY <2>1, <2>2, <2>3, SameForms DEF Wanted, Approved
  <2>4. CASE tool = "curated"
    <3>1. HasId(second)
      BY <2>4 DEF BindingInv
    <3>2. PICK j \in DOMAIN first : Lower[j] = Lower[IdKey] /\ first[j] = second[IdKey]
      BY <2>1, <3>1 DEF Same, HasId
    <3>3. form = [k \in {IdParam} |-> second[IdKey].value]
      BY <2>2, <2>4, CuratedForm DEF Wanted
    <3>4. first[j] # Null
      BY <3>1, <3>2 DEF HasId
    <3>5. form \in Approved(first)
      BY <2>4, <3>2, <3>3, <3>4 DEF Approved
    <3>6. ASSUME impact # Absent
          PROVE  impact = form[IdParam]
      <4>1. IdKey \in DOMAIN first /\ impact = first[IdKey].value
        BY <3>6 DEF BindingInv, Impact
      <4>2. PICK k \in DOMAIN second : Lower[k] = Lower[IdKey] /\ first[IdKey] = second[k]
        BY <2>1, <4>1 DEF Same
      <4>3. k = IdKey
        BY <3>1, <4>2 DEF HasId, Plain, Canon
      <4> QED
        BY <3>3, <4>1, <4>2, <4>3
    <3> QED
      BY <3>5, <3>6
  <2> QED
    BY <2>3, <2>4 DEF TypeOK
<1> QED
  BY <1>1, Invariant, TypeCorrect, PTL

\* The escape hatch sends everything it was given and nothing else.
THEOREM NothingIsIgnored == Spec => []NothingIgnored
<1>1. BindingInv => NothingIgnored
  <2> SUFFICES ASSUME BindingInv, stage = "sent", tool = "generic"
               PROVE  /\ DOMAIN form = {Canon(k) : k \in {j \in DOMAIN second : second[j] # Null}}
                      /\ Required \ Deprecated \subseteq DOMAIN form
                      /\ DOMAIN form \subseteq Params \ Deprecated
    BY DEF NothingIgnored
  <2>1. Wanted(second) = second
    BY DEF Wanted
  <2>2. DOMAIN form = {Canon(k) : k \in {j \in DOMAIN second : second[j] # Null}}
    BY <2>1 DEF BindingInv, Forms
  <2>3. Required \ Deprecated \subseteq DOMAIN form
    BY DEF BindingInv, Complete
  <2>4. \A k \in DOMAIN second : Canon(k) \in Params \ Deprecated
    BY <2>1 DEF BindingInv, Refused
  <2> QED
    BY <2>2, <2>3, <2>4
<1> QED
  BY <1>1, Invariant, PTL

(***************************************************************************)
(* The helpers on sequences.                                               *)
(***************************************************************************)

(* e is at place i of t, and the rest of t is s.                             *)
HasAt(t, e, i, s) ==
  /\ Len(t) = Len(s) + 1
  /\ \A j \in 1..(i - 1) : t[j] = s[j]
  /\ t[i] = e
  /\ \A j \in (i + 1)..(Len(s) + 1) : t[j] = s[j - 1]

(* A record is added at place i: those from i on move up by one.             *)
LEMMA Inserted ==
  ASSUME NEW S, NEW s \in Seq(S), NEW i \in 1..(Len(s) + 1), NEW e \in S
  PROVE  InsertAt(s, i, e) \in Seq(S) /\ HasAt(InsertAt(s, i, e), e, i, s)
<1> DEFINE a == SubSeq(s, 1, i - 1)
           b == SubSeq(s, i, Len(s))
<1>1. a \in Seq(S) /\ Len(a) = i - 1 /\ \A j \in 1..(i - 1) : a[j] = s[j]
  OBVIOUS
<1>2. b \in Seq(S) /\ Len(b) = Len(s) - i + 1 /\ \A j \in 1..(Len(s) - i + 1) : b[j] = s[i + j - 1]
  OBVIOUS
<1>3. InsertAt(s, i, e) = a \o <<e>> \o b
  BY DEF InsertAt
<1> HIDE DEF a, b
<1> DEFINE c == a \o <<e>>
<1>4. c \in Seq(S) /\ Len(c) = i /\ c[i] = e /\ \A j \in 1..(i - 1) : c[j] = s[j]
  BY <1>1
<1> HIDE DEF c
<1>5. InsertAt(s, i, e) = c \o b
  BY <1>3 DEF c
<1>6. /\ c \o b \in Seq(S) /\ Len(c \o b) = Len(s) + 1
      /\ \A j \in 1..i : (c \o b)[j] = c[j]
      /\ \A j \in (i + 1)..(Len(s) + 1) : (c \o b)[j] = b[j - i]
  <2>1. c \in Seq(S) /\ b \in Seq(S) /\ Len(c) = i /\ Len(b) = Len(s) - i + 1 /\ i \in Nat
        /\ Len(s) \in Nat
    BY <1>2, <1>4
  <2>2. c \o b \in Seq(S) /\ Len(c \o b) = Len(c) + Len(b)
    BY <2>1
  <2>3. ASSUME NEW j \in 1..(Len(c) + Len(b))
        PROVE  (c \o b)[j] = IF j <= Len(c) THEN c[j] ELSE b[j - Len(c)]
    BY <2>1
  <2>4. \A j \in 1..i : j \in 1..(Len(c) + Len(b)) /\ j <= Len(c)
    BY <2>1
  <2>5. \A j \in (i + 1)..(Len(s) + 1) : j \in 1..(Len(c) + Len(b)) /\ ~(j <= Len(c))
    BY <2>1
  <2> QED
    BY <2>1, <2>2, <2>3, <2>4, <2>5
<1>7. \A j \in (i + 1)..(Len(s) + 1) : j - i \in 1..(Len(s) - i + 1) /\ i + (j - i) - 1 = j - 1
  OBVIOUS
<1> QED
  BY <1>2, <1>4, <1>5, <1>6, <1>7 DEF HasAt

(* One is dropped from place i: those after it move down by one.             *)
LEMMA Removed ==
  ASSUME NEW S, NEW s \in Seq(S), NEW i \in DOMAIN s
  PROVE  /\ RemoveAt(s, i) \in Seq(S)
         /\ Len(RemoveAt(s, i)) = Len(s) - 1
         /\ \A j \in 1..(i - 1) : RemoveAt(s, i)[j] = s[j]
         /\ \A j \in i..(Len(s) - 1) : RemoveAt(s, i)[j] = s[j + 1]
<1> DEFINE a == SubSeq(s, 1, i - 1)
           b == SubSeq(s, i + 1, Len(s))
<1>0. i \in 1..Len(s)
  OBVIOUS
<1>1. a \in Seq(S) /\ Len(a) = i - 1 /\ \A j \in 1..(i - 1) : a[j] = s[j]
  BY <1>0
<1>2. b \in Seq(S) /\ Len(b) = Len(s) - i /\ \A j \in 1..(Len(s) - i) : b[j] = s[i + j]
  BY <1>0
<1>3. RemoveAt(s, i) = a \o b
  BY DEF RemoveAt
<1> HIDE DEF a, b
<1> QED
  BY <1>0, <1>1, <1>2, <1>3

(***************************************************************************)
(* Counting.                                                               *)
(***************************************************************************)

LEMMA NumbersFinite == IsFiniteSet(RecordNumbers) /\ IsFiniteSet(1..MaxSize)
BY PagingAssumption, FS_Interval DEF RecordNumbers

(* What is part of a set is no larger.                                       *)
LEMMA NoMore ==
  ASSUME NEW T, IsFiniteSet(T), NEW S, S \subseteq T, NEW k \in Nat, Cardinality(T) <= k
  PROVE  IsFiniteSet(S) /\ Cardinality(S) <= k
<1>1. IsFiniteSet(S) /\ Cardinality(S) <= Cardinality(T)
  BY FS_Subset
<1>2. Cardinality(S) \in Nat /\ Cardinality(T) \in Nat
  BY <1>1, FS_CardinalityType
<1> QED
  BY <1>1, <1>2

(* With one element besides, it is larger by one at most.                    *)
LEMMA OneMore ==
  ASSUME NEW T, IsFiniteSet(T), NEW x, NEW S, S \subseteq T \cup {x},
         NEW k \in Nat, Cardinality(T) <= k
  PROVE  IsFiniteSet(S) /\ Cardinality(S) <= k + 1
<1>1. IsFiniteSet(T \cup {x}) /\ Cardinality(T \cup {x}) <= k + 1
  <2>1. Cardinality(T) \in Nat
    BY FS_CardinalityType
  <2> QED
    BY <2>1, FS_AddElement
<1> QED
  BY <1>1, NoMore

(***************************************************************************)
(* A page.                                                                 *)
(***************************************************************************)

(* "No limit is never an option": whatever is configured and asked for, a    *)
(* page has room for at least one record and at most the ceiling, and a      *)
(* caller is told exactly when it gets less than it asked for.               *)
LEMMA PageHasRoom ==
  ASSUME settings \in Admitted, asked \in Asked
  PROVE  LET p == Page(settings, asked)
         IN  /\ p.limit \in 1..settings.max
             /\ p.clamped \in BOOLEAN
             /\ asked > 0 => (p.clamped <=> p.limit < asked)
<1>1. /\ settings.default \in Int /\ settings.max \in Int /\ asked \in Int
      /\ settings.default >= 1 /\ settings.default <= settings.max
  BY PagingAssumption DEF Admitted
<1>2. Resolve(settings).max = settings.max /\ Resolve(settings).default = settings.default
  BY <1>1 DEF Resolve, Lesser
<1>3. PICK wanted \in Int :
        /\ wanted >= 1 /\ (asked > 0 => wanted = asked)
        /\ wanted = IF asked > 0 THEN asked ELSE Resolve(settings).default
  BY <1>1, <1>2
<1> DEFINE told == wanted > settings.max
<1>4. Page(settings, asked) = [limit |-> Lesser(wanted, settings.max), clamped |-> told]
  BY <1>2, <1>3 DEF Page
<1>5. Lesser(wanted, settings.max) \in 1..settings.max
  BY <1>1, <1>3 DEF Lesser
<1>6. told \in BOOLEAN /\ (told <=> Lesser(wanted, settings.max) < wanted)
  BY <1>1, <1>3 DEF Lesser
<1> HIDE DEF told
<1> DEFINE p == Page(settings, asked)
<1>7. p.limit = Lesser(wanted, settings.max) /\ p.clamped = told
  BY <1>4
<1> HIDE DEF p
<1>8. p.clamped \in BOOLEAN /\ (p.clamped <=> p.limit < wanted)
  BY <1>6, <1>7
<1> QED
  BY <1>3, <1>5, <1>7, <1>8 DEF p

(* The records of a page, where the action takes the offset: those that      *)
(* stand behind it, up to the page size or the end.                          *)
LEMMA RecordsOfPage ==
  ASSUME WalkTypeOK, honours, NEW limit \in Nat, limit > 0
  PROVE  LET r == Records(offset, limit)
         IN  /\ Len(r) \in 0..limit
             /\ \A i \in DOMAIN collection :
                  offset < i /\ i <= offset + Len(r) => collection[i] \in ToSet(r)
             /\ \A n \in ToSet(r) : \E i \in DOMAIN collection :
                  offset < i /\ i <= offset + Len(r) /\ collection[i] = n
<1> DEFINE S == 1..(MaxSize + added)
           last == Lesser(offset + limit, Len(collection))
           r == Records(offset, limit)
<1>1. collection \in Seq(S) /\ offset \in Nat /\ Len(collection) \in Nat
  BY DEF WalkTypeOK
<1>2. r = SubSeq(collection, offset + 1, last)
  <2>1. (offset + 1) + limit - 1 = offset + limit
    BY <1>1
  <2> QED
    BY <2>1 DEF Records
<1>3. last \in Nat /\ last <= Len(collection) /\ last <= offset + limit
  BY <1>1 DEF Lesser
<1> HIDE DEF last, r
<1>4. CASE last <= offset
  <2>1. r = <<>>
    BY <1>1, <1>2, <1>3, <1>4
  <2>2. Len(r) = 0 /\ ToSet(r) = {}
    BY <2>1 DEF ToSet
  <2> QED
    BY <1>1, <2>2 DEF r
<1>5. CASE offset < last
  <2>1. /\ Len(r) = last - offset
        /\ \A j \in 1..(last - offset) : r[j] = collection[offset + j]
        /\ DOMAIN r = 1..(last - offset)
    BY <1>1, <1>2, <1>3, <1>5
  <2>2. \A i \in DOMAIN collection :
          offset < i /\ i <= offset + Len(r) => collection[i] \in ToSet(r)
    <3> SUFFICES ASSUME NEW i \in DOMAIN collection, offset < i, i <= offset + Len(r)
                 PROVE  collection[i] \in ToSet(r)
      OBVIOUS
    <3>1. i - offset \in 1..(last - offset) /\ offset + (i - offset) = i
      BY <1>1, <1>3, <2>1
    <3> QED
      BY <2>1, <3>1 DEF ToSet
  <2>3. \A n \in ToSet(r) : \E i \in DOMAIN collection :
          offset < i /\ i <= offset + Len(r) /\ collection[i] = n
    <3> SUFFICES ASSUME NEW j \in 1..(last - offset)
                 PROVE  \E i \in DOMAIN collection :
                          offset < i /\ i <= offset + Len(r) /\ collection[i] = r[j]
      BY <2>1 DEF ToSet
    <3>1. offset + j \in DOMAIN collection
      BY <1>1, <1>3
    <3> QED
      BY <1>1, <2>1, <3>1
  <2>4. Len(r) \in 0..limit
    BY <1>1, <1>3, <1>5, <2>1
  <2> QED
    BY <2>2, <2>3, <2>4 DEF r
<1> QED
  BY <1>1, <1>3, <1>4, <1>5
(***************************************************************************)
(* The invariant.                                                          *)
(***************************************************************************)

LEMMA WalkInvInit == WalkInit => WalkInv
<1> SUFFICES ASSUME WalkInit PROVE WalkInv
  OBVIOUS
<1>1. PICK n \in 0..MaxSize : collection = [i \in 1..n |-> i]
  BY DEF WalkInit
<1>2. WalkTypeOK
  <2>1. collection \in Seq(1..(MaxSize + added)) /\ DOMAIN collection = 1..n
    BY <1>1, PagingAssumption DEF WalkInit
  <2> QED
    BY <1>1, <2>1, PagingAssumption DEF WalkInit, WalkTypeOK
<1>3. Ahead = {} /\ Repeated = {} /\ Behind = {}
  <2>1. \A i \in DOMAIN collection : ~(i <= offset)
    BY <1>1 DEF WalkInit
  <2> QED
    BY <2>1 DEF WalkInit, Ahead, Repeated, Behind
<1>4. Cardinality(Ahead \cup Repeated) = 0 /\ Cardinality(Behind) = 0
  BY <1>3, FS_EmptySet
<1> QED
  BY <1>2, <1>3, <1>4 DEF WalkInit, WalkInv, PageIsSound, DamageIsLocal, RecordNumbers

(* Between two calls of the tool a record is added.                          *)
LEMMA AddKeeps == WalkInv /\ Add => WalkInv'
<1> SUFFICES ASSUME WalkInv, Add PROVE WalkInv'
  OBVIOUS
<1>0. WalkTypeOK /\ PageIsSound /\ DamageIsLocal
  BY DEF WalkInv
<1> DEFINE new == MaxSize + added + 1
<1>1. /\ walking /\ added + dropped < MaxChanges /\ added' = added + 1
      /\ UNCHANGED <<dropped, honours, counts, settings, asked, offset, page, seen, walking>>
  BY DEF Add, fixedVars, walkVars
<1>2. PICK i \in 1..(Len(collection) + 1) : collection' = InsertAt(collection, i, new)
  BY DEF Add
<1>3. /\ collection \in Seq(1..new) /\ Len(collection) \in Nat
      /\ DOMAIN collection = 1..Len(collection)
      /\ new \in 1..new /\ new = MaxSize + added' /\ new \in Nat
      /\ \A j \in DOMAIN collection : collection[j] \in 1..(MaxSize + added) /\ collection[j] # new
      /\ added \in Nat /\ dropped \in Nat /\ offset \in Nat
  BY <1>0, <1>1, PagingAssumption DEF WalkTypeOK
<1>m. new > MaxSize
  BY <1>3, PagingAssumption
<1>5. new \in RecordNumbers /\ seen[new] = 0 /\ seen \in [RecordNumbers -> Nat]
  BY <1>0, <1>1, <1>3, PagingAssumption DEF WalkTypeOK, RecordNumbers
<1> HIDE DEF new
<1>4. /\ collection' \in Seq(1..new)
      /\ DOMAIN collection' = 1..(Len(collection) + 1)
      /\ \A j \in 1..(i - 1) : collection'[j] = collection[j]
      /\ collection'[i] = new
      /\ \A j \in (i + 1)..(Len(collection) + 1) : collection'[j] = collection[j - 1]
  <2> DEFINE t == InsertAt(collection, i, new)
             W == 1..new
  <2>0. collection \in Seq(W) /\ new \in W /\ i \in 1..(Len(collection) + 1)
    BY <1>3
  <2> HIDE DEF W
  <2>1. /\ t \in Seq(W)
        /\ Len(t) = Len(collection) + 1
        /\ \A j \in 1..(i - 1) : t[j] = collection[j]
        /\ t[i] = new
        /\ \A j \in (i + 1)..(Len(collection) + 1) : t[j] = collection[j - 1]
    <3>1. t \in Seq(W) /\ HasAt(t, new, i, collection)
      BY <2>0, Inserted
    <3> HIDE DEF t
    <3> QED
      BY <3>1 DEF HasAt
  <2>2. collection' = t
    BY <1>2
  <2> HIDE DEF t
  <2> QED
    BY <2>1, <2>2 DEF W
<1>6. ASSUME NEW j \in DOMAIN collection'
      PROVE  \/ j < i /\ j \in DOMAIN collection /\ collection'[j] = collection[j]
             \/ j = i /\ collection'[j] = new
             \/ j > i /\ j - 1 \in DOMAIN collection /\ collection'[j] = collection[j - 1]
  <2>1. j \in 1..(Len(collection) + 1) /\ i \in Nat
    BY <1>3, <1>4
  <2>2. CASE j < i
    BY <1>3, <1>4, <2>1, <2>2
  <2>3. CASE j = i
    BY <1>4, <2>3
  <2>4. CASE j > i
    BY <1>3, <1>4, <2>1, <2>4
  <2> QED
    BY <2>1, <2>2, <2>3, <2>4
<1>7. WalkTypeOK'
  <2>1. \A j, k \in DOMAIN collection' : collection'[j] = collection'[k] => j = k
    <3> SUFFICES ASSUME NEW j \in DOMAIN collection', NEW k \in DOMAIN collection',
                        collection'[j] = collection'[k]
                 PROVE  j = k
      OBVIOUS
    <3>1. \A a, b \in DOMAIN collection : collection[a] = collection[b] => a = b
      BY <1>0 DEF WalkTypeOK
    <3>2. j \in Nat /\ k \in Nat /\ i \in Nat
      BY <1>3, <1>4
    <3> QED
      BY <1>3, <1>6, <3>1, <3>2
  <2>2. \A n \in RecordNumbers : n > MaxSize + added' => seen[n] = 0
    BY <1>0, <1>1, <1>3, PagingAssumption DEF WalkTypeOK, RecordNumbers
  <2>3. collection' \in Seq(1..(MaxSize + added'))
    BY <1>3, <1>4
  <2>4. added' \in Nat /\ dropped' \in Nat /\ added' + dropped' <= MaxChanges
    BY <1>1, <1>3, PagingAssumption
  <2> QED
    BY <1>0, <1>1, <2>1, <2>2, <2>3, <2>4 DEF WalkTypeOK, RecordNumbers, Admitted
<1>8. DamageIsLocal'
  <2> SUFFICES ASSUME honours PROVE DamageIsLocal'
    BY <1>1 DEF DamageIsLocal
  <2>1. /\ \A n \in RecordNumbers : seen[n] <= 1 + added
        /\ Cardinality(Ahead \cup Repeated) <= added
        /\ Cardinality(Behind) <= dropped
    BY <1>0, <1>1 DEF DamageIsLocal
  <2>2. Ahead' \subseteq Ahead \cup {collection[offset]}
    <3> SUFFICES ASSUME NEW n \in Ahead' PROVE n \in Ahead \/ n = collection[offset]
      OBVIOUS
    <3>1. PICK j \in DOMAIN collection' : j > offset /\ collection'[j] = n
      BY <1>1 DEF Ahead, StandsAt
    <3>2. n \in RecordNumbers /\ seen[n] > 0
      BY <1>1 DEF Ahead, RecordNumbers
    <3>3. n # new
      BY <1>5, <3>2
    <3>4. PICK k \in DOMAIN collection : collection[k] = n /\ (k = j \/ k = j - 1)
      BY <1>6, <3>1, <3>3
    <3>5. k > offset \/ k = offset
      BY <1>3, <1>4, <3>1, <3>4
    <3> QED
      BY <3>2, <3>4, <3>5 DEF Ahead, StandsAt
  <2>3. Repeated' = Repeated
    BY <1>1 DEF Repeated, RecordNumbers
  <2>4. Behind' \subseteq Behind
    <3> SUFFICES ASSUME NEW n \in Behind' PROVE n \in Behind
      OBVIOUS
    <3>1. PICK j \in DOMAIN collection' : j <= offset /\ collection'[j] = n
      BY <1>1 DEF Behind, StandsAt
    <3>2. n \in 1..MaxSize /\ seen[n] = 0
      BY <1>1 DEF Behind
    <3>3. n # new
      BY <1>3, <1>m, <3>2, PagingAssumption
    <3>4. PICK k \in DOMAIN collection : collection[k] = n /\ (k = j \/ k = j - 1)
      BY <1>6, <3>1, <3>3
    <3>5. k <= offset
      BY <1>3, <1>4, <3>1, <3>4
    <3> QED
      BY <3>2, <3>4, <3>5 DEF Behind, StandsAt
  <2>5. Cardinality((Ahead \cup Repeated)') <= added'
    <3>1. IsFiniteSet(Ahead \cup Repeated)
      BY NumbersFinite, FS_Subset DEF Ahead, Repeated
    <3>2. (Ahead \cup Repeated)' \subseteq (Ahead \cup Repeated) \cup {collection[offset]}
      BY <2>2, <2>3
    <3> QED
      BY <1>1, <1>3, <2>1, <3>1, <3>2, OneMore
  <2>6. Cardinality(Behind') <= dropped'
    <3>1. IsFiniteSet(Behind)
      BY NumbersFinite, FS_Subset DEF Behind
    <3> QED
      BY <1>1, <1>3, <2>1, <2>4, <3>1, NoMore
  <2>7. \A n \in RecordNumbers : seen[n] <= added'
    BY <1>1, <1>3, <1>5, <2>1
  <2>8. Ahead' \subseteq RecordNumbers /\ RecordNumbers' = RecordNumbers
    BY DEF Ahead, RecordNumbers
  <2>9. \A n \in RecordNumbers : seen[n] <= 1 + added'
    BY <1>1, <1>3, <1>5, <2>1
  <2> QED
    BY <1>1, <1>3, <1>5, <2>1, <2>5, <2>6, <2>7, <2>8, <2>9 DEF DamageIsLocal
<1> QED
  BY <1>0, <1>1, <1>7, <1>8 DEF WalkInv, PageIsSound
(* Between two calls of the tool a record is dropped.                        *)
LEMMA DropKeeps == WalkInv /\ Drop => WalkInv'
<1> SUFFICES ASSUME WalkInv, Drop PROVE WalkInv'
  OBVIOUS
<1>0. WalkTypeOK /\ PageIsSound /\ DamageIsLocal
  BY DEF WalkInv
<1>1. /\ walking /\ added + dropped < MaxChanges /\ dropped' = dropped + 1
      /\ UNCHANGED <<added, honours, counts, settings, asked, offset, page, seen, walking>>
  BY DEF Drop, fixedVars, walkVars
<1>2. PICK i \in DOMAIN collection : collection' = RemoveAt(collection, i)
  BY DEF Drop
<1> DEFINE W == 1..(MaxSize + added)
<1>3. /\ collection \in Seq(W) /\ Len(collection) \in Nat /\ DOMAIN collection = 1..Len(collection)
      /\ added \in Nat /\ dropped \in Nat /\ offset \in Nat
  BY <1>0 DEF WalkTypeOK
<1> HIDE DEF W
<1>4. /\ collection' \in Seq(W)
      /\ DOMAIN collection' = 1..(Len(collection) - 1)
      /\ \A j \in 1..(i - 1) : collection'[j] = collection[j]
      /\ \A j \in i..(Len(collection) - 1) : collection'[j] = collection[j + 1]
  <2> DEFINE t == RemoveAt(collection, i)
  <2>1. /\ t \in Seq(W)
        /\ Len(t) = Len(collection) - 1
        /\ \A j \in 1..(i - 1) : t[j] = collection[j]
        /\ \A j \in i..(Len(collection) - 1) : t[j] = collection[j + 1]
    BY <1>3, Removed
  <2>2. collection' = t
    BY <1>2
  <2> HIDE DEF t
  <2> QED
    BY <2>1, <2>2
<1>5. ASSUME NEW j \in DOMAIN collection'
      PROVE  \/ j < i /\ j \in DOMAIN collection /\ collection'[j] = collection[j]
             \/ j >= i /\ j + 1 \in DOMAIN collection /\ collection'[j] = collection[j + 1]
  <2>1. j \in 1..(Len(collection) - 1) /\ i \in 1..Len(collection)
    BY <1>3, <1>4
  <2>2. CASE j < i
    BY <1>3, <1>4, <2>1, <2>2
  <2>3. CASE j >= i
    BY <1>3, <1>4, <2>1, <2>3
  <2> QED
    BY <2>1, <2>2, <2>3
<1>6. WalkTypeOK'
  <2>1. \A j, k \in DOMAIN collection' : collection'[j] = collection'[k] => j = k
    <3> SUFFICES ASSUME NEW j \in DOMAIN collection', NEW k \in DOMAIN collection',
                        collection'[j] = collection'[k]
                 PROVE  j = k
      OBVIOUS
    <3>1. \A a, b \in DOMAIN collection : collection[a] = collection[b] => a = b
      BY <1>0 DEF WalkTypeOK
    <3>2. j \in Nat /\ k \in Nat /\ i \in Nat
      BY <1>3, <1>4
    <3> QED
      BY <1>5, <3>1, <3>2
  <2>2. collection' \in Seq(1..(MaxSize + added'))
    BY <1>1, <1>4 DEF W
  <2>3. dropped' \in Nat /\ added' + dropped' <= MaxChanges
    BY <1>1, <1>3, PagingAssumption
  <2> QED
    BY <1>0, <1>1, <2>1, <2>2, <2>3 DEF WalkTypeOK, RecordNumbers, Admitted
<1>7. DamageIsLocal'
  <2> SUFFICES ASSUME honours PROVE DamageIsLocal'
    BY <1>1 DEF DamageIsLocal
  <2>1. /\ \A n \in RecordNumbers : seen[n] <= 1 + added
        /\ \A n \in Ahead : seen[n] <= added
        /\ Cardinality(Ahead \cup Repeated) <= added
        /\ Cardinality(Behind) <= dropped
    BY <1>0, <1>1 DEF DamageIsLocal
  <2>2. Ahead' \subseteq Ahead
    <3> SUFFICES ASSUME NEW n \in Ahead' PROVE n \in Ahead
      OBVIOUS
    <3>1. PICK j \in DOMAIN collection' : j > offset /\ collection'[j] = n
      BY <1>1 DEF Ahead, StandsAt
    <3>2. n \in RecordNumbers /\ seen[n] > 0
      BY <1>1 DEF Ahead, RecordNumbers
    <3>3. PICK k \in DOMAIN collection : collection[k] = n /\ (k = j \/ k = j + 1)
      BY <1>5, <3>1
    <3>4. k > offset
      BY <1>3, <1>4, <3>1, <3>3
    <3> QED
      BY <3>2, <3>3, <3>4 DEF Ahead, StandsAt
  <2>3. Repeated' = Repeated
    BY <1>1 DEF Repeated, RecordNumbers
  <2>4. Behind' \subseteq Behind \cup {collection[offset + 1]}
    <3> SUFFICES ASSUME NEW n \in Behind' PROVE n \in Behind \/ n = collection[offset + 1]
      OBVIOUS
    <3>1. PICK j \in DOMAIN collection' : j <= offset /\ collection'[j] = n
      BY <1>1 DEF Behind, StandsAt
    <3>2. n \in 1..MaxSize /\ seen[n] = 0
      BY <1>1 DEF Behind
    <3>3. PICK k \in DOMAIN collection : collection[k] = n /\ (k = j \/ k = j + 1)
      BY <1>5, <3>1
    <3>4. k <= offset \/ k = offset + 1
      BY <1>3, <1>4, <3>1, <3>3
    <3> QED
      BY <3>2, <3>3, <3>4 DEF Behind, StandsAt
  <2>5. Cardinality((Ahead \cup Repeated)') <= added'
    <3>1. IsFiniteSet(Ahead \cup Repeated)
      BY NumbersFinite, FS_Subset DEF Ahead, Repeated
    <3>2. (Ahead \cup Repeated)' \subseteq Ahead \cup Repeated
      BY <2>2, <2>3
    <3> QED
      BY <1>1, <1>3, <2>1, <3>1, <3>2, NoMore
  <2>6. Cardinality(Behind') <= dropped'
    <3>1. IsFiniteSet(Behind)
      BY NumbersFinite, FS_Subset DEF Behind
    <3> QED
      BY <1>1, <1>3, <2>1, <2>4, <3>1, OneMore
  <2>7. RecordNumbers' = RecordNumbers
    BY DEF RecordNumbers
  <2> QED
    BY <1>1, <2>1, <2>2, <2>5, <2>6, <2>7 DEF DamageIsLocal
<1> QED
  BY <1>0, <1>1, <1>6, <1>7 DEF WalkInv, PageIsSound

(* A call of the tool.                                                       *)
LEMMA FetchKeeps == WalkInv /\ Fetch => WalkInv'
<1> SUFFICES ASSUME WalkInv, Fetch PROVE WalkInv'
  OBVIOUS
<1>0. WalkTypeOK /\ PageIsSound /\ DamageIsLocal
  BY DEF WalkInv
<1> DEFINE p == Page(settings, asked)
           r == Records(offset, p.limit)
           next == offset + Len(r)
           total == IF counts /\ collection # <<>> THEN Len(collection) ELSE next
           met == ToSet(r)
<1>1. /\ walking
      /\ UNCHANGED <<collection, added, dropped, honours, counts, settings, asked>>
      /\ page' = [records |-> r, limit |-> p.limit, clamped |-> p.clamped,
                  hasMore |-> next < total, next |-> next]
      /\ seen' = [n \in RecordNumbers |-> IF n \in met THEN seen[n] + 1 ELSE seen[n]]
      /\ walking' = (next < total)
      /\ offset' = IF next < total THEN next ELSE offset
  BY DEF Fetch, Envelope, fixedVars
<1>2. /\ settings \in Admitted /\ asked \in Asked /\ settings.max \in Int
      /\ offset \in Nat /\ added \in Nat /\ dropped \in Nat
      /\ Len(collection) \in Nat /\ DOMAIN collection = 1..Len(collection)
      /\ \A i \in DOMAIN collection : collection[i] \in 1..(MaxSize + added)
      /\ \A i, j \in DOMAIN collection : collection[i] = collection[j] => i = j
      /\ seen \in [RecordNumbers -> Nat]
  <2>1. settings \in Admitted => settings.max \in Int
    BY PagingAssumption DEF Admitted
  <2>2. \A W : collection \in Seq(W) =>
          /\ Len(collection) \in Nat /\ DOMAIN collection = 1..Len(collection)
          /\ \A i \in DOMAIN collection : collection[i] \in W
    OBVIOUS
  <2> QED
    BY <1>0, <2>1, <2>2 DEF WalkTypeOK
<1>3. /\ p.limit \in 1..settings.max
      /\ p.clamped \in BOOLEAN
      /\ asked > 0 => (p.clamped <=> p.limit < asked)
  BY <1>2, PageHasRoom
<1>4. p.limit \in Nat /\ p.limit > 0
  BY <1>2, <1>3
<1> HIDE DEF p
<1>5. Len(r) \in 0..p.limit /\ \A n \in met : \E i \in DOMAIN collection : collection[i] = n
  <2>1. CASE honours
    BY <1>0, <1>4, <2>1, RecordsOfPage
  <2>2. CASE ~honours
    <3> DEFINE last == Lesser(1 + p.limit - 1, Len(collection))
    <3>1. r = SubSeq(collection, 1, last)
      BY <2>2 DEF Records
    <3>2. last \in 0..Len(collection) /\ last <= p.limit
      BY <1>2, <1>4 DEF Lesser
    <3> HIDE DEF last, r
    <3>3. Len(r) = last /\ DOMAIN r = 1..last /\ \A j \in 1..last : r[j] = collection[j]
      BY <1>0, <1>2, <3>1, <3>2 DEF WalkTypeOK
    <3> QED
      BY <1>2, <1>4, <3>2, <3>3 DEF ToSet
  <2> QED
    BY <2>1, <2>2
<1> HIDE DEF r
<1>6. PageIsSound'
  <2>1. page'.limit = p.limit /\ page'.records = r /\ page'.clamped = p.clamped
    BY <1>1
  <2> HIDE DEF next, total, met
  <2> QED
    BY <1>1, <1>2, <1>3, <1>5, <2>1 DEF PageIsSound
<1>7. walking' \in BOOLEAN /\ next \in Nat /\ offset' \in Nat
  BY <1>1, <1>2, <1>4, <1>5
<1>8. /\ seen' \in [RecordNumbers -> Nat]
      /\ \A n \in RecordNumbers : n \in met => seen'[n] = seen[n] + 1
      /\ \A n \in RecordNumbers : n \notin met => seen'[n] = seen[n]
  BY <1>1, <1>2
<1> HIDE DEF met
<1>9. WalkTypeOK'
  <2>1. \A n \in RecordNumbers : n > MaxSize + added => seen'[n] = 0
    <3> SUFFICES ASSUME NEW n \in RecordNumbers, n > MaxSize + added PROVE seen'[n] = 0
      OBVIOUS
    <3>1. n \notin met
      BY <1>2, <1>5, PagingAssumption
    <3> QED
      BY <1>0, <1>8, <3>1 DEF WalkTypeOK
  <2> QED
    BY <1>0, <1>1, <1>2, <1>7, <1>8, <2>1 DEF WalkTypeOK, RecordNumbers, Admitted
<1>10. ASSUME honours PROVE DamageIsLocal'
  <2>1. /\ \A n \in RecordNumbers : seen[n] <= 1 + added
        /\ \A n \in Ahead : seen[n] <= added
        /\ Cardinality(Ahead \cup Repeated) <= added
        /\ Cardinality(Behind) <= dropped
    BY <1>0, <1>1, <1>10 DEF DamageIsLocal
  <2>2. /\ \A i \in DOMAIN collection : offset < i /\ i <= next => collection[i] \in met
        /\ \A n \in met : \E i \in DOMAIN collection :
             offset < i /\ i <= next /\ collection[i] = n
    BY <1>0, <1>4, <1>10, RecordsOfPage DEF met, r
  <2>3. ASSUME NEW n \in RecordNumbers, n \in met, seen[n] > 0 PROVE n \in Ahead
    BY <2>2, <2>3 DEF Ahead, StandsAt
  <2>4. Repeated' \subseteq Ahead \cup Repeated
    <3> SUFFICES ASSUME NEW n \in RecordNumbers, seen'[n] > 1 PROVE n \in Ahead \cup Repeated
      BY DEF Repeated, RecordNumbers
    <3>1. seen[n] \in Nat
      BY <1>2
    <3> QED
      BY <1>8, <2>3, <3>1 DEF Repeated
  <2>5. \A n \in RecordNumbers : seen'[n] <= 1 + added
    <3> SUFFICES ASSUME NEW n \in RecordNumbers PROVE seen'[n] <= 1 + added
      OBVIOUS
    <3>1. seen[n] \in Nat
      BY <1>2
    <3> QED
      BY <1>2, <1>8, <2>1, <2>3, <3>1
  <2>6. IsFiniteSet(Ahead \cup Repeated) /\ IsFiniteSet(Behind)
    BY NumbersFinite, FS_Subset DEF Ahead, Repeated, Behind
  <2>7. CASE next < total
    <3>0. walking' /\ offset' = next
      BY <1>1, <2>7
    <3>1. \A n \in Ahead' : n \notin met /\ n \in Ahead
      <4> SUFFICES ASSUME NEW n \in Ahead' PROVE n \notin met /\ n \in Ahead
        OBVIOUS
      <4>1. PICK i \in DOMAIN collection : i > next /\ collection[i] = n
        BY <1>1, <3>0 DEF Ahead, StandsAt
      <4>2. n \in RecordNumbers /\ seen'[n] > 0
        BY DEF Ahead, RecordNumbers
      <4>3. n \notin met
        BY <1>2, <1>7, <2>2, <4>1
      <4>4. i > offset
        BY <1>2, <1>5, <1>4, <4>1
      <4> QED
        BY <1>8, <4>1, <4>2, <4>3, <4>4 DEF Ahead, StandsAt
    <3>2. \A n \in Ahead' : seen'[n] <= added
      BY <1>8, <2>1, <3>1 DEF Ahead
    <3>3. Cardinality((Ahead \cup Repeated)') <= added
      <4>1. (Ahead \cup Repeated)' \subseteq Ahead \cup Repeated
        BY <2>4, <3>1
      <4> QED
        BY <1>2, <2>1, <2>6, <4>1, NoMore
    <3>4. Behind' \subseteq Behind
      <4> SUFFICES ASSUME NEW n \in Behind' PROVE n \in Behind
        OBVIOUS
      <4>1. PICK i \in DOMAIN collection : i <= next /\ collection[i] = n
        BY <1>1, <3>0 DEF Behind, StandsAt
      <4>2. n \in 1..MaxSize /\ n \in RecordNumbers /\ seen'[n] = 0 /\ seen[n] \in Nat
        BY <1>2, PagingAssumption DEF Behind, RecordNumbers
      <4>3. n \notin met /\ seen[n] = 0
        BY <1>8, <4>2
      <4>4. i <= offset
        BY <1>2, <1>7, <2>2, <4>1, <4>3
      <4> QED
        BY <4>1, <4>2, <4>3, <4>4 DEF Behind, StandsAt
    <3>5. Cardinality(Behind') <= dropped
      BY <1>2, <2>1, <2>6, <3>4, NoMore
    <3>6. UNCHANGED <<RecordNumbers, honours, added, dropped>>
      BY <1>1 DEF RecordNumbers
    <3> QED
      BY <2>5, <3>0, <3>2, <3>3, <3>5, <3>6 DEF DamageIsLocal
  <2>8. CASE ~(next < total)
    <3>0. ~walking'
      BY <1>1, <2>8
    <3>1. Cardinality(Repeated') <= added
      BY <1>2, <2>1, <2>4, <2>6, NoMore
    <3>2. ASSUME counts PROVE Missed' \subseteq Behind
      <4> SUFFICES ASSUME NEW i \in DOMAIN collection, collection[i] <= MaxSize,
                          seen'[collection[i]] = 0
                   PROVE  collection[i] \in Behind
        BY <1>1 DEF Missed, ToSet
      <4>1. collection[i] \in 1..MaxSize /\ collection[i] \in RecordNumbers
        BY <1>2, PagingAssumption DEF RecordNumbers
      <4>2. collection[i] \notin met /\ seen[collection[i]] = 0
        BY <1>2, <1>8, <4>1
      <4>3. collection # <<>>
        BY <1>2
      <4>4. next >= Len(collection)
        BY <1>2, <1>7, <2>8, <3>2, <4>3
      <4>5. i <= offset
        BY <1>2, <1>7, <2>2, <4>2, <4>4
      <4> QED
        BY <4>1, <4>2, <4>5 DEF Behind, StandsAt
    <3>3. counts => Cardinality(Missed') <= dropped
      BY <1>2, <2>1, <2>6, <3>2, NoMore
    <3>4. RecordNumbers' = RecordNumbers /\ UNCHANGED <<honours, added, dropped, counts>>
      BY <1>1 DEF RecordNumbers
    <3> QED
      BY <2>5, <3>0, <3>1, <3>3, <3>4 DEF DamageIsLocal
  <2> QED
    BY <2>7, <2>8
<1> QED
  BY <1>1, <1>6, <1>9, <1>10 DEF WalkInv, DamageIsLocal

(***************************************************************************)
(* The theorems.                                                           *)
(***************************************************************************)

(* The invariant of a walk is kept by every call of the tool and every       *)
(* change of the collection between two of them (Args.Page, listExtract).    *)
THEOREM WalkInductive == WalkSpec => []WalkInv
<1>1. WalkInv /\ [WalkNext]_pagingVars => WalkInv'
  <2> SUFFICES ASSUME WalkInv, [WalkNext]_pagingVars PROVE WalkInv'
    OBVIOUS
  <2>1. CASE UNCHANGED pagingVars
    <3>1. /\ UNCHANGED <<collection, honours, counts, settings, asked, offset, page, seen,
                         walking, added, dropped>>
          /\ RecordNumbers' = RecordNumbers /\ Admitted' = Admitted
      BY <2>1 DEF pagingVars, fixedVars, walkVars, RecordNumbers, Admitted
    <3>2. Ahead' = Ahead /\ Behind' = Behind /\ Repeated' = Repeated /\ Missed' = Missed
      BY <3>1 DEF Ahead, Behind, Repeated, Missed, StandsAt
    <3> QED
      BY <3>1, <3>2 DEF WalkInv, WalkTypeOK, PageIsSound, DamageIsLocal
  <2>2. CASE WalkNext
    BY <2>1, <2>2, AddKeeps, DropKeeps, FetchKeeps DEF WalkNext, Over
  <2> QED
    BY <2>1, <2>2
<1> QED
  BY <1>1, WalkInvInit, PTL DEF WalkSpec

(* A page has room and no more than the ceiling, its caller is told when it  *)
(* is cut short, and a walk over a collection that changes misses at most    *)
(* one lasting record for each that was dropped and repeats at most one for  *)
(* each that was added: a collection at rest is met whole, and once.         *)
THEOREM WalkSound == WalkSpec => []WalkIsSound
<1>1. WalkInv => WalkIsSound
  <2> SUFFICES ASSUME WalkInv PROVE WalkIsSound
    OBVIOUS
  <2>1. /\ PageIsSound /\ DamageIsLocal /\ walking \in BOOLEAN /\ added \in Nat
    BY DEF WalkInv, WalkTypeOK
  <2>2. honours /\ walking => Cardinality(Repeated) <= added
    BY <2>1, NumbersFinite, FS_Subset, NoMore DEF DamageIsLocal, Ahead, Repeated
  <2> QED
    BY <2>1, <2>2 DEF WalkIsSound, PageIsSound, DamageIsLocal
<1> QED
  BY <1>1, WalkInductive, PTL
-----------------------------------------------------------------------------
\* The tools one by one: each reads its arguments as its action takes them,
\* demands what the action requires and bounds what it asks for.
LEMMA ClientSearchAgrees == Agrees(ClientTools.whmcs_client_search) /\ Bounded(ClientTools.whmcs_client_search)
<1> USE DEF ClientTools, Tool, PageReads, Texts, Reads, GetClients, Documents
<1>1. OneWriter(ClientTools.whmcs_client_search)
  BY DEF OneWriter
<1>2. InForm(ClientTools.whmcs_client_search)
  BY DEF InForm, Parameters, Typed, EncodesAs
<1>3. Reads("page", "limit", "limitnum") \in ClientTools.whmcs_client_search.reads
  OBVIOUS
<1>4. Demands(ClientTools.whmcs_client_search)
  BY DEF Demands
<1>5. Bounded(ClientTools.whmcs_client_search)
  BY <1>3 DEF Bounded
<1> QED
  BY <1>1, <1>2, <1>4, <1>5 DEF Agrees

LEMMA ClientGetAgrees == Agrees(ClientTools.whmcs_client_get) /\ Bounded(ClientTools.whmcs_client_get)
<1> USE DEF ClientTools, Tool, PageReads, Texts, Reads, GetClientsDetails, Documents
<1>1. OneWriter(ClientTools.whmcs_client_get)
  BY DEF OneWriter
<1>2. InForm(ClientTools.whmcs_client_get)
  BY DEF InForm, Parameters, Typed, EncodesAs
<1>3. /\ Reads("id", "client_id", "clientid") \in ClientTools.whmcs_client_get.reads
      /\ \A n \in {"email"} : Reads("text", n, n) \in ClientTools.whmcs_client_get.reads
  OBVIOUS
<1>4. Demands(ClientTools.whmcs_client_get)
  BY <1>3 DEF Demands
<1>5. Bounded(ClientTools.whmcs_client_get)
  BY DEF Bounded
<1> QED
  BY <1>1, <1>2, <1>4, <1>5 DEF Agrees

LEMMA ClientServicesAgrees == Agrees(ClientTools.whmcs_client_services) /\ Bounded(ClientTools.whmcs_client_services)
<1> USE DEF ClientTools, Tool, PageReads, Texts, Reads, GetClientsProducts, Documents
<1>1. OneWriter(ClientTools.whmcs_client_services)
  BY DEF OneWriter
<1>2. InForm(ClientTools.whmcs_client_services)
  BY DEF InForm, Parameters, Typed, EncodesAs
<1>3. Reads("page", "limit", "limitnum") \in ClientTools.whmcs_client_services.reads
  OBVIOUS
<1>4. Demands(ClientTools.whmcs_client_services)
  BY DEF Demands
<1>5. Bounded(ClientTools.whmcs_client_services)
  BY <1>3 DEF Bounded
<1> QED
  BY <1>1, <1>2, <1>4, <1>5 DEF Agrees

LEMMA ClientDomainsAgrees == Agrees(ClientTools.whmcs_client_domains) /\ Bounded(ClientTools.whmcs_client_domains)
<1> USE DEF ClientTools, Tool, PageReads, Texts, Reads, GetClientsDomains, Documents
<1>1. OneWriter(ClientTools.whmcs_client_domains)
  BY DEF OneWriter
<1>2. InForm(ClientTools.whmcs_client_domains)
  BY DEF InForm, Parameters, Typed, EncodesAs
<1>3. Reads("page", "limit", "limitnum") \in ClientTools.whmcs_client_domains.reads
  OBVIOUS
<1>4. Demands(ClientTools.whmcs_client_domains)
  BY DEF Demands
<1>5. Bounded(ClientTools.whmcs_client_domains)
  BY <1>3 DEF Bounded
<1> QED
  BY <1>1, <1>2, <1>4, <1>5 DEF Agrees

LEMMA ClientUpdateAgrees == Agrees(ClientTools.whmcs_client_update) /\ Bounded(ClientTools.whmcs_client_update)
<1> USE DEF ClientTools, Tool, PageReads, Texts, Reads, UpdateClient, Documents
<1>1. OneWriter(ClientTools.whmcs_client_update)
  BY DEF OneWriter
<1>2. InForm(ClientTools.whmcs_client_update)
  BY DEF InForm, Parameters, Typed, EncodesAs
<1>3. /\ Reads("id", "client_id", "clientid") \in ClientTools.whmcs_client_update.reads
      /\ \A n \in {"firstname", "lastname", "companyname", "email",
                 "address1", "address2", "city", "state", "postcode", "country",
                 "phonenumber", "status"} :
           Reads("text", n, n) \in ClientTools.whmcs_client_update.reads
  OBVIOUS
<1>4. Demands(ClientTools.whmcs_client_update)
  <2>1. /\ ClientTools.whmcs_client_update.needs = {"client_id"}
        /\ ClientTools.whmcs_client_update.oneOf =
             {"firstname", "lastname", "companyname", "email", "address1", "address2",
              "city", "state", "postcode", "country", "phonenumber", "status"}
    OBVIOUS
  <2>2. \A a \in ClientTools.whmcs_client_update.oneOf : \E r \in ClientTools.whmcs_client_update.reads : r.arg = a
    <3> TAKE a \in ClientTools.whmcs_client_update.oneOf
    <3>1. Reads("text", a, a) \in ClientTools.whmcs_client_update.reads
      BY <1>3, <2>1
    <3>2. Reads("text", a, a).arg = a
      OBVIOUS
    <3> HIDE DEF ClientTools, Reads
    <3> QED
      BY <3>1, <3>2
  <2>3. \E r \in ClientTools.whmcs_client_update.reads : r.arg = "client_id"
    BY <1>3
  <2>4. ClientTools.whmcs_client_update.action.required = {}
    OBVIOUS
  <2> QED
    <3> HIDE DEF ClientTools, UpdateClient
    <3> QED
      BY <2>1, <2>2, <2>3, <2>4 DEF Demands
<1>5. Bounded(ClientTools.whmcs_client_update)
  BY DEF Bounded
<1> QED
  BY <1>1, <1>2, <1>4, <1>5 DEF Agrees

LEMMA ClientNoteAddAgrees == Agrees(ClientTools.whmcs_client_note_add) /\ Bounded(ClientTools.whmcs_client_note_add)
<1> USE DEF ClientTools, Tool, PageReads, Texts, Reads, AddClientNote, Documents
<1>1. OneWriter(ClientTools.whmcs_client_note_add)
  BY DEF OneWriter
<1>2. InForm(ClientTools.whmcs_client_note_add)
  BY DEF InForm, Parameters, Typed, EncodesAs
<1>4. Demands(ClientTools.whmcs_client_note_add)
  BY DEF Demands
<1>5. Bounded(ClientTools.whmcs_client_note_add)
  BY DEF Bounded
<1> QED
  BY <1>1, <1>2, <1>4, <1>5 DEF Agrees

LEMMA InvoiceListAgrees == Agrees(BillingTools.whmcs_invoice_list) /\ Bounded(BillingTools.whmcs_invoice_list)
<1> USE DEF BillingTools, Tool, PageReads, Texts, Reads, GetInvoices, Documents
<1>1. OneWriter(BillingTools.whmcs_invoice_list)
  BY DEF OneWriter
<1>2. InForm(BillingTools.whmcs_invoice_list)
  BY DEF InForm, Parameters, Typed, EncodesAs
<1>3. Reads("page", "limit", "limitnum") \in BillingTools.whmcs_invoice_list.reads
  OBVIOUS
<1>4. Demands(BillingTools.whmcs_invoice_list)
  BY DEF Demands
<1>5. Bounded(BillingTools.whmcs_invoice_list)
  BY <1>3 DEF Bounded
<1> QED
  BY <1>1, <1>2, <1>4, <1>5 DEF Agrees

LEMMA InvoiceGetAgrees == Agrees(BillingTools.whmcs_invoice_get) /\ Bounded(BillingTools.whmcs_invoice_get)
<1> USE DEF BillingTools, Tool, PageReads, Texts, Reads, GetInvoice, Documents
<1>1. OneWriter(BillingTools.whmcs_invoice_get)
  BY DEF OneWriter
<1>2. InForm(BillingTools.whmcs_invoice_get)
  BY DEF InForm, Parameters, Typed, EncodesAs
<1>4. Demands(BillingTools.whmcs_invoice_get)
  BY DEF Demands
<1>5. Bounded(BillingTools.whmcs_invoice_get)
  BY DEF Bounded
<1> QED
  BY <1>1, <1>2, <1>4, <1>5 DEF Agrees

LEMMA TransactionListAgrees == Agrees(BillingTools.whmcs_transaction_list) /\ Bounded(BillingTools.whmcs_transaction_list)
<1> USE DEF BillingTools, Tool, PageReads, Texts, Reads, GetTransactions, Documents
<1>1. OneWriter(BillingTools.whmcs_transaction_list)
  BY DEF OneWriter
<1>2. InForm(BillingTools.whmcs_transaction_list)
  BY DEF InForm, Parameters, Typed, EncodesAs
<1>4. Demands(BillingTools.whmcs_transaction_list)
  BY DEF Demands
<1>5. Bounded(BillingTools.whmcs_transaction_list)
  BY DEF Bounded
<1> QED
  BY <1>1, <1>2, <1>4, <1>5 DEF Agrees

LEMMA InvoicePaymentAddAgrees == Agrees(BillingTools.whmcs_invoice_payment_add) /\ Bounded(BillingTools.whmcs_invoice_payment_add)
<1> USE DEF BillingTools, Tool, PageReads, Texts, Reads, AddInvoicePayment, Documents
<1>1. OneWriter(BillingTools.whmcs_invoice_payment_add)
  BY DEF OneWriter
<1>2. InForm(BillingTools.whmcs_invoice_payment_add)
  BY DEF InForm, Parameters, Typed, EncodesAs
<1>4. Demands(BillingTools.whmcs_invoice_payment_add)
  BY DEF Demands
<1>5. Bounded(BillingTools.whmcs_invoice_payment_add)
  BY DEF Bounded
<1> QED
  BY <1>1, <1>2, <1>4, <1>5 DEF Agrees

LEMMA OrderListAgrees == Agrees(OrderTools.whmcs_order_list) /\ Bounded(OrderTools.whmcs_order_list)
<1> USE DEF OrderTools, Tool, PageReads, Texts, Reads, GetOrders, Documents
<1>1. OneWriter(OrderTools.whmcs_order_list)
  BY DEF OneWriter
<1>2. InForm(OrderTools.whmcs_order_list)
  BY DEF InForm, Parameters, Typed, EncodesAs
<1>3. Reads("page", "limit", "limitnum") \in OrderTools.whmcs_order_list.reads
  OBVIOUS
<1>4. Demands(OrderTools.whmcs_order_list)
  BY DEF Demands
<1>5. Bounded(OrderTools.whmcs_order_list)
  BY <1>3 DEF Bounded
<1> QED
  BY <1>1, <1>2, <1>4, <1>5 DEF Agrees

LEMMA OrderAcceptAgrees == Agrees(OrderTools.whmcs_order_accept) /\ Bounded(OrderTools.whmcs_order_accept)
<1> USE DEF OrderTools, Tool, PageReads, Texts, Reads, AcceptOrder, Documents
<1>1. OneWriter(OrderTools.whmcs_order_accept)
  BY DEF OneWriter
<1>2. InForm(OrderTools.whmcs_order_accept)
  BY DEF InForm, Parameters, Typed, EncodesAs
<1>4. Demands(OrderTools.whmcs_order_accept)
  BY DEF Demands
<1>5. Bounded(OrderTools.whmcs_order_accept)
  BY DEF Bounded
<1> QED
  BY <1>1, <1>2, <1>4, <1>5 DEF Agrees

LEMMA TicketListAgrees == Agrees(TicketTools.whmcs_ticket_list) /\ Bounded(TicketTools.whmcs_ticket_list)
<1> USE DEF TicketTools, Tool, PageReads, Texts, Reads, GetTickets, Documents
<1>1. OneWriter(TicketTools.whmcs_ticket_list)
  BY DEF OneWriter
<1>2. InForm(TicketTools.whmcs_ticket_list)
  BY DEF InForm, Parameters, Typed, EncodesAs
<1>3. Reads("page", "limit", "limitnum") \in TicketTools.whmcs_ticket_list.reads
  OBVIOUS
<1>4. Demands(TicketTools.whmcs_ticket_list)
  BY DEF Demands
<1>5. Bounded(TicketTools.whmcs_ticket_list)
  BY <1>3 DEF Bounded
<1> QED
  BY <1>1, <1>2, <1>4, <1>5 DEF Agrees

LEMMA TicketGetAgrees == Agrees(TicketTools.whmcs_ticket_get) /\ Bounded(TicketTools.whmcs_ticket_get)
<1> USE DEF TicketTools, Tool, PageReads, Texts, Reads, GetTicket, Documents
<1>1. OneWriter(TicketTools.whmcs_ticket_get)
  BY DEF OneWriter
<1>2. InForm(TicketTools.whmcs_ticket_get)
  BY DEF InForm, Parameters, Typed, EncodesAs
<1>4. Demands(TicketTools.whmcs_ticket_get)
  BY DEF Demands
<1>5. Bounded(TicketTools.whmcs_ticket_get)
  BY DEF Bounded
<1> QED
  BY <1>1, <1>2, <1>4, <1>5 DEF Agrees

LEMMA TicketReplyAgrees == Agrees(TicketTools.whmcs_ticket_reply) /\ Bounded(TicketTools.whmcs_ticket_reply)
<1> USE DEF TicketTools, Tool, PageReads, Texts, Reads, AddTicketReply, Documents
<1>1. OneWriter(TicketTools.whmcs_ticket_reply)
  BY DEF OneWriter
<1>2. InForm(TicketTools.whmcs_ticket_reply)
  BY DEF InForm, Parameters, Typed, EncodesAs
<1>3. /\ Reads("id", "ticket_id", "ticketid") \in TicketTools.whmcs_ticket_reply.reads
      /\ \A n \in {"message"} : Reads("text", n, n) \in TicketTools.whmcs_ticket_reply.reads
  OBVIOUS
<1>4. Demands(TicketTools.whmcs_ticket_reply)
  BY <1>3 DEF Demands
<1>5. Bounded(TicketTools.whmcs_ticket_reply)
  BY DEF Bounded
<1> QED
  BY <1>1, <1>2, <1>4, <1>5 DEF Agrees

LEMMA TicketNoteAddAgrees == Agrees(TicketTools.whmcs_ticket_note_add) /\ Bounded(TicketTools.whmcs_ticket_note_add)
<1> USE DEF TicketTools, Tool, PageReads, Texts, Reads, AddTicketNote, Documents
<1>1. OneWriter(TicketTools.whmcs_ticket_note_add)
  BY DEF OneWriter
<1>2. InForm(TicketTools.whmcs_ticket_note_add)
  BY DEF InForm, Parameters, Typed, EncodesAs
<1>3. /\ Reads("id", "ticket_id", "ticketid") \in TicketTools.whmcs_ticket_note_add.reads
      /\ \A n \in {"message"} : Reads("text", n, n) \in TicketTools.whmcs_ticket_note_add.reads
  OBVIOUS
<1>4. Demands(TicketTools.whmcs_ticket_note_add)
  BY <1>3 DEF Demands
<1>5. Bounded(TicketTools.whmcs_ticket_note_add)
  BY DEF Bounded
<1> QED
  BY <1>1, <1>2, <1>4, <1>5 DEF Agrees

LEMMA TicketUpdateAgrees == Agrees(TicketTools.whmcs_ticket_update) /\ Bounded(TicketTools.whmcs_ticket_update)
<1> USE DEF TicketTools, Tool, PageReads, Texts, Reads, UpdateTicket, Documents
<1>1. OneWriter(TicketTools.whmcs_ticket_update)
  BY DEF OneWriter
<1>2. InForm(TicketTools.whmcs_ticket_update)
  BY DEF InForm, Parameters, Typed, EncodesAs
<1>3. /\ Reads("id", "ticket_id", "ticketid") \in TicketTools.whmcs_ticket_update.reads
      /\ Reads("id", "department_id", "deptid") \in TicketTools.whmcs_ticket_update.reads
      /\ Reads("id", "flag", "flag") \in TicketTools.whmcs_ticket_update.reads
      /\ \A n \in {"status", "priority"} : Reads("text", n, n) \in TicketTools.whmcs_ticket_update.reads
  OBVIOUS
<1>4. Demands(TicketTools.whmcs_ticket_update)
  BY <1>3 DEF Demands
<1>5. Bounded(TicketTools.whmcs_ticket_update)
  BY DEF Bounded
<1> QED
  BY <1>1, <1>2, <1>4, <1>5 DEF Agrees

LEMMA ServiceSuspendAgrees == Agrees(ServiceTools.whmcs_service_suspend) /\ Bounded(ServiceTools.whmcs_service_suspend)
<1> USE DEF ServiceTools, Tool, PageReads, Texts, Reads, ModuleSuspend, Documents
<1>1. OneWriter(ServiceTools.whmcs_service_suspend)
  BY DEF OneWriter
<1>2. InForm(ServiceTools.whmcs_service_suspend)
  BY DEF InForm, Parameters, Typed, EncodesAs
<1>4. Demands(ServiceTools.whmcs_service_suspend)
  BY DEF Demands
<1>5. Bounded(ServiceTools.whmcs_service_suspend)
  BY DEF Bounded
<1> QED
  BY <1>1, <1>2, <1>4, <1>5 DEF Agrees

LEMMA ServiceUnsuspendAgrees == Agrees(ServiceTools.whmcs_service_unsuspend) /\ Bounded(ServiceTools.whmcs_service_unsuspend)
<1> USE DEF ServiceTools, Tool, PageReads, Texts, Reads, ModuleUnsuspend, Documents
<1>1. OneWriter(ServiceTools.whmcs_service_unsuspend)
  BY DEF OneWriter
<1>2. InForm(ServiceTools.whmcs_service_unsuspend)
  BY DEF InForm, Parameters, Typed, EncodesAs
<1>4. Demands(ServiceTools.whmcs_service_unsuspend)
  BY DEF Demands
<1>5. Bounded(ServiceTools.whmcs_service_unsuspend)
  BY DEF Bounded
<1> QED
  BY <1>1, <1>2, <1>4, <1>5 DEF Agrees

LEMMA ServiceTerminateAgrees == Agrees(ServiceTools.whmcs_service_terminate) /\ Bounded(ServiceTools.whmcs_service_terminate)
<1> USE DEF ServiceTools, Tool, PageReads, Texts, Reads, ModuleTerminate, Documents
<1>1. OneWriter(ServiceTools.whmcs_service_terminate)
  BY DEF OneWriter
<1>2. InForm(ServiceTools.whmcs_service_terminate)
  BY DEF InForm, Parameters, Typed, EncodesAs
<1>4. Demands(ServiceTools.whmcs_service_terminate)
  BY DEF Demands
<1>5. Bounded(ServiceTools.whmcs_service_terminate)
  BY DEF Bounded
<1> QED
  BY <1>1, <1>2, <1>4, <1>5 DEF Agrees

LEMMA StatsAgrees == Agrees(SystemTools.whmcs_stats)
<1> USE DEF SystemTools, Tool, PageReads, Texts, Reads, GetStats, Documents
<1>1. OneWriter(SystemTools.whmcs_stats)
  BY DEF OneWriter
<1>2. InForm(SystemTools.whmcs_stats)
  BY DEF InForm, Parameters, Typed, EncodesAs
<1>4. Demands(SystemTools.whmcs_stats)
  BY DEF Demands
<1> QED
  BY <1>1, <1>2, <1>4 DEF Agrees

\* What a tool demands and what its schema says agree with its action: the
\* tables, one after the other.
LEMMA TablesAgree ==
  ASSUME NEW table \in Tables, NEW n \in DOMAIN table
  PROVE  Agrees(table[n]) /\ (n # "whmcs_stats" => Bounded(table[n]))
<1>1. CASE table = ClientTools
  <2>1. DOMAIN ClientTools =
          {"whmcs_client_search", "whmcs_client_get", "whmcs_client_services",
           "whmcs_client_domains", "whmcs_client_update", "whmcs_client_note_add"}
    BY DEF ClientTools
  <2> QED
    BY <1>1, <2>1, ClientSearchAgrees, ClientGetAgrees, ClientServicesAgrees,
       ClientDomainsAgrees, ClientUpdateAgrees, ClientNoteAddAgrees
<1>2. CASE table = BillingTools
  <2>1. DOMAIN BillingTools =
          {"whmcs_invoice_list", "whmcs_invoice_get", "whmcs_transaction_list",
           "whmcs_invoice_payment_add"}
    BY DEF BillingTools
  <2> QED
    BY <1>2, <2>1, InvoiceListAgrees, InvoiceGetAgrees, TransactionListAgrees,
       InvoicePaymentAddAgrees
<1>3. CASE table = OrderTools
  <2>1. DOMAIN OrderTools = {"whmcs_order_list", "whmcs_order_accept"}
    BY DEF OrderTools
  <2> QED
    BY <1>3, <2>1, OrderListAgrees, OrderAcceptAgrees
<1>4. CASE table = TicketTools
  <2>1. DOMAIN TicketTools =
          {"whmcs_ticket_list", "whmcs_ticket_get", "whmcs_ticket_reply",
           "whmcs_ticket_note_add", "whmcs_ticket_update"}
    BY DEF TicketTools
  <2> QED
    BY <1>4, <2>1, TicketListAgrees, TicketGetAgrees, TicketReplyAgrees,
       TicketNoteAddAgrees, TicketUpdateAgrees
<1>5. CASE table = ServiceTools
  <2>1. DOMAIN ServiceTools =
          {"whmcs_service_suspend", "whmcs_service_unsuspend", "whmcs_service_terminate"}
    BY DEF ServiceTools
  <2> QED
    BY <1>5, <2>1, ServiceSuspendAgrees, ServiceUnsuspendAgrees, ServiceTerminateAgrees
<1>6. CASE table = SystemTools
  <2>1. DOMAIN SystemTools = {"whmcs_stats"}
    BY DEF SystemTools
  <2> QED
    BY <1>6, <2>1, StatsAgrees
<1> QED
  BY <1>1, <1>2, <1>3, <1>4, <1>5, <1>6 DEF Tables

LEMMA ToolsAgree ==
  ASSUME NEW n \in DOMAIN Tools
  PROVE  Agrees(Tools[n]) /\ (n # "whmcs_stats" => Bounded(Tools[n]))
<1>1. n \in UNION {DOMAIN table : table \in Tables}
  BY DEF Tools
<1> DEFINE table == CHOOSE tb \in Tables : n \in DOMAIN tb
<1>2. table \in Tables /\ n \in DOMAIN table
  BY <1>1
<1>3. Tools[n] = table[n]
  BY <1>1 DEF Tools
<1> HIDE DEF table
<1> QED
  BY <1>2, <1>3, TablesAgree

\* Six ways to read an argument
Manner(r) == r.how \in {"id", "page", "text", "always", "flag", "raw"}

\* An argument of the advertised type is passed on as it was given.
LEMMA TypedIsPassedOn ==
  ASSUME NEW r, Manner(r), NEW f \in Typed(r.how)
  PROVE  Values(r, f) = {f} /\ f \notin {"null", "blank"}
<1>1. CASE r.how \in {"id", "page"}
  BY <1>1 DEF Typed, Values, Whole
<1>2. CASE r.how \in {"text", "always"}
  BY <1>2 DEF Typed, Values, Text, String
<1>3. CASE r.how = "flag"
  BY <1>3 DEF Typed, Values, Flag, Has
<1>4. CASE r.how = "raw"
  BY <1>4 DEF Typed, Values, Has
<1> QED
  BY <1>1, <1>2, <1>3, <1>4 DEF Manner

\* Nothing comes of what was not said, but for a limit and what is always sent.
LEMMA NothingIsPassedOn ==
  ASSUME NEW r, Manner(r), r.how \notin {"page", "always"}, NEW f \in {"null", "blank"}
  PROVE  Values(r, f) = {}
<1>1. CASE r.how = "id"
  BY <1>1 DEF Values, Whole
<1>2. CASE r.how = "text"
  BY <1>2 DEF Values, Text, String
<1>3. CASE r.how = "flag"
  BY <1>3 DEF Values, Flag, Has
<1>4. CASE r.how = "raw"
  BY <1>4 DEF Values, Has
<1> QED
  BY <1>1, <1>2, <1>3, <1>4 DEF Manner

\* What r makes of the arguments g
Yield(r, g) == Values(r, Form(g, r.arg))

\* A parameter that is built has the value its one argument yields,
LEMMA BuiltFrom ==
  ASSUME NEW t, OneWriter(t), NEW g, NEW p \in DOMAIN Built(t, g)
  PROVE  \E r \in t.reads : r.param = p /\ Built(t, g)[p] \in Yield(r, g)
<1> DEFINE speaking == {q \in t.reads : Values(q, Form(g, q.arg)) # {}}
           from == {q \in t.reads : q.param = p /\ Values(q, Form(g, q.arg)) # {}}
           r == CHOOSE q \in from : TRUE
<1>1. p \in {q.param : q \in speaking}
  BY DEF Built
<1>2. r \in from
  BY <1>1
<1>3. Built(t, g)[p] = CHOOSE v \in Values(r, Form(g, r.arg)) : TRUE
  BY <1>1 DEF Built
<1> HIDE DEF r
<1>4. Built(t, g)[p] \in Values(r, Form(g, r.arg))
  BY <1>2, <1>3
<1> QED
  BY <1>2, <1>4 DEF Yield

\* and what yields a value is built.
LEMMA YieldIsBuilt ==
  ASSUME NEW t, OneWriter(t), NEW g, NEW r \in t.reads, Yield(r, g) # {}
  PROVE  r.param \in DOMAIN Built(t, g) /\ Built(t, g)[r.param] \in Yield(r, g)
<1>1. r.param \in DOMAIN Built(t, g)
  BY DEF Built, Yield
<1>2. PICK q \in t.reads : q.param = r.param /\ Built(t, g)[r.param] \in Yield(q, g)
  BY <1>1, BuiltFrom
<1> QED
  BY <1>1, <1>2 DEF OneWriter

\* The arguments g follow the schema the tool t advertises.
Follows(t, g) ==
  /\ DOMAIN g \subseteq Declared(t)
  /\ \A r \in t.reads : r.arg \in DOMAIN g => g[r.arg] \in Typed(r.how)
  /\ Demanded(t) \subseteq DOMAIN g
  /\ t.oneOf # {} => t.oneOf \intersect DOMAIN g # {}

\* A call that follows the schema is not refused, neither by the tool
LEMMA FollowedIsEnough ==
  ASSUME NEW t, Agrees(t), NEW g, Follows(t, g)
  PROVE  ~Lacks(t, g)
<1>1. ASSUME NEW a \in (t.needs \union t.oneOf) \intersect DOMAIN g
      PROVE  Read(t, g, a)
  <2>1. PICK r \in t.reads : r.arg = a
    BY <1>1 DEF Agrees, Demands
  <2>2. Manner(r) /\ g[a] \in Typed(r.how)
    BY <2>1, <1>1 DEF Agrees, InForm, Follows, Manner
  <2>3. Values(r, g[a]) = {g[a]}
    BY <2>2, TypedIsPassedOn
  <2> QED
    BY <2>1, <2>3, <1>1 DEF Read, Form
<1>2. \A a \in t.needs : Read(t, g, a)
  BY <1>1 DEF Follows, Demanded
<1>3. t.oneOf # {} => \E a \in t.oneOf : Read(t, g, a)
  BY <1>1 DEF Follows
<1> QED
  BY <1>2, <1>3 DEF Lacks

\* nor by the registry.
LEMMA FollowedIsValid ==
  ASSUME NEW t, Agrees(t), NEW g, Follows(t, g)
  PROVE  Valid(t.action, Built(t, g))
<1>1. OneWriter(t) /\ InForm(t) /\ Demands(t)
  BY DEF Agrees
<1>2. ASSUME NEW p \in DOMAIN Built(t, g)
      PROVE  p \in Parameters(t.action) /\ EncodesAs(t.action, p, Built(t, g)[p])
  <2>1. PICK r \in t.reads : r.param = p /\ Built(t, g)[p] \in Yield(r, g)
    BY <1>1, BuiltFrom
  <2>2. Manner(r)
    BY <1>1 DEF InForm, Manner
  <2>3. Built(t, g)[p] \in Typed(r.how)
    <3>1. CASE r.arg \in DOMAIN g
      <4>1. g[r.arg] \in Typed(r.how)
        BY <3>1 DEF Follows
      <4>2. Yield(r, g) = {g[r.arg]}
        BY <3>1, <4>1, <2>2, TypedIsPassedOn DEF Yield, Form
      <4> QED
        BY <2>1, <4>1, <4>2
    <3>2. CASE r.arg \notin DOMAIN g
      <4>1. Built(t, g)[p] \in Values(r, "null")
        BY <2>1, <3>2 DEF Yield, Form
      <4>2. r.how # "always"
        BY <3>2 DEF Follows, Demanded
      <4>3. r.how = "page"
        BY <4>1, <4>2, <2>2, NothingIsPassedOn
      <4> QED
        BY <4>1, <4>3 DEF Values, Typed
    <3> QED
      BY <3>1, <3>2
  <2> QED
    BY <2>1, <2>3, <1>1 DEF InForm
<1>3. ASSUME NEW p \in t.action.required
      PROVE  p \in DOMAIN Built(t, g) /\ Built(t, g)[p] # "blank"
  <2>1. PICK r \in t.reads : r.param = p /\ (r.arg \in t.needs \/ r.how = "always")
    BY <1>1 DEF Demands
  <2>2. r.arg \in DOMAIN g /\ g[r.arg] \in Typed(r.how) /\ Manner(r)
    BY <2>1, <1>1 DEF Follows, Demanded, InForm, Manner
  <2>3. Yield(r, g) = {g[r.arg]} /\ g[r.arg] # "blank"
    BY <2>2, TypedIsPassedOn DEF Yield, Form
  <2> QED
    BY <2>1, <2>3, <1>1, YieldIsBuilt
<1> QED
  BY <1>2, <1>3 DEF Valid

\* An argument that is as it should be is a form an argument can have.
LEMMA UsualForm ==
  ASSUME NEW t, Agrees(t), NEW a \in Declared(t) \union {Misspelled}
  PROVE  Usual(t, a) \in ArgForms
<1>1. CASE a = Misspelled
  BY <1>1 DEF Usual, ArgForms
<1>2. CASE a # Misspelled
  <2> DEFINE r == CHOOSE q \in t.reads : q.arg = a
  <2>1. r \in t.reads
    BY <1>2 DEF Declared
  <2>2. Usual(t, a) = CHOOSE f \in Typed(r.how) : f \in {"word", "on", "number"}
    BY <1>2 DEF Usual
  <2> HIDE DEF r
  <2>3. Manner(r)
    BY <2>1 DEF Agrees, InForm, Manner
  <2>4. Typed(r.how) \subseteq ArgForms
    BY <2>3 DEF Typed, ArgForms, Manner
  <2>5. \E f \in Typed(r.how) : f \in {"word", "on", "number"}
    BY <2>3 DEF Typed, Manner
  <2> QED
    BY <2>2, <2>4, <2>5
<1> QED
  BY <1>1, <1>2

(* What a step has found out about a call stays true: the parameters are     *)
(* what Tool.Params made of the arguments, a call that was sent passed both  *)
(* checks and one that was refused failed one (Tool.run, registry.Validate). *)
THEOREM CallInductive == CallSpec => []CallInv
<1>1. CallInit => CallInv
  <2> SUFFICES ASSUME CallInit PROVE CallInv
    OBVIOUS
  <2> DEFINE t == Tools[chosen]
  <2>1. chosen \in DOMAIN Tools /\ pc = "called"
    BY DEF CallInit
  <2>2. PICK names \in SUBSET (Declared(t) \union {Misspelled}) : given \in Calls(t, names)
    BY DEF CallInit
  <2>3. PICK as \in UNION {[some -> ArgForms] :
                    some \in {s \in SUBSET names : Cardinality(s) <= MaxOdd}} :
          given = [a \in names |-> IF a \in DOMAIN as THEN as[a] ELSE Usual(t, a)]
    BY <2>2 DEF Calls
  <2>4. \A a \in DOMAIN as : as[a] \in ArgForms
    BY <2>3
  <2>5. Agrees(t)
    BY <2>1, ToolsAgree
  <2> HIDE DEF t
  <2>6. ASSUME NEW a \in names PROVE given[a] \in ArgForms
    BY <2>2, <2>3, <2>4, <2>5, UsualForm
  <2>7. given \in [Given -> ArgForms]
    BY <2>3, <2>6 DEF Given
  <2> QED
    BY <2>1, <2>7 DEF CallInv
<1>2. CallInv /\ [CallNext]_vars => CallInv'
  <2> SUFFICES ASSUME CallInv, [CallNext]_vars PROVE CallInv'
    OBVIOUS
  <2>1. CASE PreviewCall
    BY <2>1 DEF CallInv, PreviewCall, Given
  <2>2. CASE Build
    BY <2>2 DEF CallInv, Build, Given
  <2>3. CASE SendCall
    BY <2>3 DEF CallInv, SendCall, Given
  <2>4. CASE UNCHANGED vars
    BY <2>4 DEF CallInv, vars, Given
  <2> QED
    BY <2>1, <2>2, <2>3, <2>4 DEF CallNext, Done
<1> QED
  BY <1>1, <1>2, PTL DEF CallSpec

(* For every call of every tool: what follows the advertised schema is not   *)
(* refused, and what is sent holds each argument of the advertised type as   *)
(* it was given, under a parameter of its own.                               *)
THEOREM CallsArrive == CallSpec => []GoodCallsArrive
<1>1. CallInv => GoodCallsArrive
  <2> SUFFICES ASSUME CallInv PROVE GoodCallsArrive
    OBVIOUS
  <2> DEFINE t == Tools[chosen]
  <2>1. Agrees(t) /\ OneWriter(t) /\ InForm(t)
    BY ToolsAgree DEF CallInv, Agrees
  <2>2. pc = "refused" => Lacks(t, given) \/ ~Valid(t.action, Built(t, given))
    BY DEF CallInv
  <2>3. pc = "sent" => sent = Built(t, given)
    BY DEF CallInv
  <2> HIDE DEF t
  <2>4. pc = "refused" => ~Follows(t, given)
    BY <2>1, <2>2, FollowedIsEnough, FollowedIsValid
  <2>5. ASSUME pc = "sent", NEW r \in t.reads, WellTyped(r)
        PROVE  /\ r.param \in DOMAIN sent /\ sent[r.param] = given[r.arg]
               /\ \A q \in t.reads : q.param = r.param => q = r
    <3>1. Manner(r) /\ r.arg \in DOMAIN given /\ given[r.arg] \in Typed(r.how)
      BY <2>1, <2>5 DEF InForm, Manner, WellTyped, Given
    <3>2. Yield(r, given) = {given[r.arg]}
      BY <3>1, TypedIsPassedOn DEF Yield, Form
    <3>3. r.param \in DOMAIN sent /\ sent[r.param] \in Yield(r, given)
      BY <2>1, <2>3, <2>5, <3>2, YieldIsBuilt
    <3>4. \A q \in t.reads : q.param = r.param => q = r
      BY <2>1 DEF OneWriter
    <3> QED
      BY <3>2, <3>3, <3>4
  <2>6. (/\ Given \subseteq Declared(t)
         /\ \A r \in t.reads : r.arg \in Given => WellTyped(r)
         /\ Demanded(t) \subseteq Given
         /\ t.oneOf # {} => t.oneOf \cap Given # {}) => Follows(t, given)
    BY DEF Follows, WellTyped, Given
  <2> QED
    BY <2>4, <2>5, <2>6 DEF GoodCallsArrive, t
<1> QED
  BY <1>1, CallInductive, PTL

(* For every call of every tool, nothing but the page size is in the request *)
(* that does not come from an argument the caller gave.                      *)
THEOREM NothingMadeUp == CallSpec => []NothingInvented
<1>1. CallInv => NothingInvented
  <2> SUFFICES ASSUME CallInv, pc = "sent", NEW p \in DOMAIN sent \ {"limitnum"}
               PROVE  \E r \in Tools[chosen].reads :
                        /\ r.param = p /\ r.arg \in Given
                        /\ given[r.arg] \notin {"null", "blank"}
                        /\ r.how = "id" => given[r.arg] \in {"number", "digits"}
    BY DEF NothingInvented
  <2> DEFINE t == Tools[chosen]
  <2>1. OneWriter(t) /\ InForm(t)
    BY ToolsAgree DEF CallInv, Agrees
  <2>2. sent = Built(t, given) /\ Valid(t.action, sent)
    BY DEF CallInv
  <2> HIDE DEF t
  <2>3. PICK r \in t.reads : r.param = p /\ sent[p] \in Yield(r, given)
    BY <2>1, <2>2, BuiltFrom
  <2>4. Manner(r) /\ r.how # "page"
    BY <2>1, <2>3 DEF InForm, Manner
  <2>5. Form(given, r.arg) \notin {"null", "blank"}
    <3>1. CASE r.how = "always"
      <4>1. p \in t.action.required
        BY <2>1, <2>3, <3>1 DEF InForm
      <4>2. sent[p] # "blank"
        BY <2>2, <4>1 DEF Valid
      <4>3. sent[p] = String(Form(given, r.arg))
        BY <2>3, <3>1 DEF Yield, Values
      <4> QED
        BY <4>2, <4>3 DEF String
    <3>2. CASE r.how # "always"
      BY <3>2, <2>3, <2>4, NothingIsPassedOn DEF Yield
    <3> QED
      BY <3>1, <3>2
  <2>6. r.arg \in Given /\ given[r.arg] = Form(given, r.arg)
    BY <2>5 DEF Form, Given
  <2>7. r.how = "id" => Form(given, r.arg) \in {"number", "digits"}
    BY <2>3 DEF Yield, Values, Whole
  <2> QED
    BY <2>3, <2>5, <2>6, <2>7 DEF t
<1> QED
  BY <1>1, CallInductive, PTL

(* For every call of every tool but the statistics, what is sent names what  *)
(* it changes and bounds what it reads.                                      *)
THEOREM NoneUnbounded == CallSpec => []NeverUnbounded
<1>1. CallInv => NeverUnbounded
  <2> SUFFICES ASSUME CallInv, pc = "sent", chosen # "whmcs_stats" PROVE NeverUnbounded
    BY DEF NeverUnbounded
  <2> DEFINE t == Tools[chosen]
             told(args) == {r \in t.reads : r.arg \in args /\ r.param \in DOMAIN sent}
  <2>1. OneWriter(t) /\ InForm(t) /\ Bounded(t)
    BY ToolsAgree DEF CallInv, Agrees
  <2>2. sent = Built(t, given) /\ ~Lacks(t, given)
    BY DEF CallInv
  <2> HIDE DEF t
  <2>3. ASSUME NEW a, Read(t, given, a)
        PROVE  \E r \in t.reads : r.arg = a /\ r.param \in DOMAIN sent
    <3>1. PICK r \in t.reads : r.arg = a /\ Yield(r, given) # {}
      BY <2>3 DEF Read, Yield
    <3> QED
      BY <3>1, <2>1, <2>2, YieldIsBuilt
  <2>4. \A a \in t.needs : \E r \in t.reads : r.arg = a /\ r.param \in DOMAIN sent
    BY <2>2, <2>3 DEF Lacks
  <2>5. t.oneOf # {} => told(t.oneOf) # {}
    <3> SUFFICES ASSUME t.oneOf # {} PROVE told(t.oneOf) # {}
      OBVIOUS
    <3>1. PICK a \in t.oneOf : Read(t, given, a)
      BY <2>2 DEF Lacks
    <3> QED
      BY <3>1, <2>3
  <2>6. t.class # "read" => \E r \in told(t.needs) : r.how = "id"
    <3> SUFFICES ASSUME t.class # "read" PROVE \E r \in told(t.needs) : r.how = "id"
      OBVIOUS
    <3>1. PICK a \in t.needs : \A r \in t.reads : r.arg = a => r.how = "id"
      BY <2>1 DEF Bounded
    <3>2. PICK r \in t.reads : r.arg = a /\ r.param \in DOMAIN sent
      BY <2>4
    <3> QED
      BY <3>1, <3>2
  <2>7. t.class = "read" => "limitnum" \in DOMAIN sent \/ told(t.needs \union t.oneOf) # {}
    <3> SUFFICES ASSUME t.class = "read"
                 PROVE  "limitnum" \in DOMAIN sent \/ told(t.needs \union t.oneOf) # {}
      OBVIOUS
    <3>1. CASE \E r \in t.reads : r.how = "page"
      <4>1. PICK r \in t.reads : r.how = "page"
        BY <3>1
      <4>2. Yield(r, given) # {} /\ r.param = "limitnum"
        BY <4>1, <2>1 DEF Yield, Values, InForm
      <4> QED
        BY <4>2, <2>1, <2>2, YieldIsBuilt
    <3>2. CASE t.needs # {}
      BY <3>2, <2>4
    <3>3. CASE t.oneOf # {}
      BY <3>3, <2>5
    <3> QED
      BY <3>1, <3>2, <3>3, <2>1 DEF Bounded
  <2> QED
    BY <2>5, <2>6, <2>7 DEF NeverUnbounded, t
<1> QED
  BY <1>1, CallInductive, PTL
=================================================================================
