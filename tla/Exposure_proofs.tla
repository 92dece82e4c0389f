---------------------------- MODULE Exposure_proofs ----------------------------
(***************************************************************************)
(* What reaches the model.                                                 *)
(*                                                                         *)
(* Exposure: what it claims of a result, for any names, any lists, any     *)
(* declared shapes and any responses that meet its assumptions.            *)
(*                                                                         *)
(* Untrusted: what the sanitiser makes of a text of any length.  The walk  *)
(* of the replacer is followed from its end: what it has made so far holds *)
(* no pattern, and begins with the rest of one only where the text does,   *)
(* so a symbol it keeps begins none.                                       *)
(***************************************************************************)
EXTENDS Exposure, Untrusted, FoldTheorems, SequenceTheorems, TLAPS

\* A leaf on its way through redaction, before and after it
Source == [path : Seq(Steps), value : Upstream, of : Seq(Steps)]
Redacted == [path : Seq(Steps), value : Upstream \cup Markers, of : Seq(Steps)]

Harmless(path, o) ==
  \A i \in 1..Len(path) : path[i] \notin Withheld \cup Dropped(o)

AllSpecs == Specs \cup {ReplySpec}

\* A leaf of an object that stands at a prefix of the response
EnteredBy(l, p) ==
  /\ Len(l.of) = Len(p) + Len(l.path)
  /\ \A i \in 1..Len(p) : l.of[i] = p[i]
  /\ \A i \in 1..Len(l.path) : l.of[Len(p) + i] = l.path[i]

\* Prefixes the walk over names has nothing to say about
Clean(P) ==
  /\ P \subseteq Seq(Steps)
  /\ \A p \in P : \A i \in 1..Len(p) :
       p[i] \notin SecretKeys \cup NotesKeys \cup PIIKeys

\* A response, or an object in one
SourceDoc(D) ==
  /\ D \subseteq Source
  /\ \A l \in D :
       /\ l.path # <<>> /\ l.path[1] \in Keys
       /\ \A i \in 1..Len(l.path) :
            l.path[i] \in IdKeys \cup TextKeys => i = Len(l.path)

(* Facts of sequences the walks are about.                                   *)
LEMMA ConsFacts ==
  ASSUME NEW e \in Steps, NEW p \in Seq(Steps)
  PROVE  /\ <<e>> \o p \in Seq(Steps)
         /\ Len(<<e>> \o p) = Len(p) + 1
         /\ (<<e>> \o p)[1] = e
         /\ \A i \in 1..Len(p) : (<<e>> \o p)[i + 1] = p[i]
         /\ \A i \in 2..(Len(p) + 1) : (<<e>> \o p)[i] = p[i - 1]
<1> QED
  OBVIOUS

LEMMA TailFacts ==
  ASSUME NEW p \in Seq(Steps), p # <<>>
  PROVE  /\ Tail(p) \in Seq(Steps)
         /\ Len(p) \in Nat /\ Len(p) >= 1
         /\ Len(Tail(p)) = Len(p) - 1
         /\ \A i \in 2..Len(p) : p[i] = Tail(p)[i - 1]
<1> QED
  OBVIOUS

LEMMA PrefixFacts ==
  ASSUME NEW p \in Seq(Steps), NEW i \in 1..Len(p)
  PROVE  SubSeq(p, 1, i) \in Seq(Steps) /\ Len(SubSeq(p, 1, i)) = i
<1> QED
  OBVIOUS

(* Redaction leaves of each leaf either the leaf, under names that are all   *)
(* kept and not too deep, or a marker.                                       *)
LEMMA RedactGives ==
  ASSUME NEW D, D \subseteq Source, NEW o, NEW x \in Redact(D, o)
  PROVE  \E l \in D :
           /\ x \in Redacted /\ x.of = l.of
           /\ \/ x = l /\ \A i \in 1..Len(l.path) : ~StopsAt(l.path, i, o)
              \/ x.value \in Markers
<1>1. PICK l \in D : x \in Kept(l, o) \cup Cut(l, o)
  BY DEF Redact
<1>2. l \in Source
  OBVIOUS
<1>3. CASE x \in Kept(l, o)
  BY <1>2, <1>3 DEF Kept, Source, Redacted
<1>4. CASE x \in Cut(l, o)
  <2>1. PICK i \in 1..Len(l.path) :
          x = [path |-> SubSeq(l.path, 1, i),
               value |-> IF l.path[i] \in Withheld THEN "withheld" ELSE "too deep",
               of |-> l.of]
    BY <1>4 DEF Cut
  <2>2. l.path \in Seq(Steps) /\ l.of \in Seq(Steps)
    BY <1>2 DEF Source
  <2>3. SubSeq(l.path, 1, i) \in Seq(Steps)
    BY <2>2, PrefixFacts
  <2> QED
    BY <2>1, <2>2, <2>3 DEF Redacted, Markers
<1> QED
  BY <1>1, <1>3, <1>4

LEMMA MarkersAreOurs == Markers \cap Upstream = {}
<1> QED
  BY DEF Markers, Upstream

LEMMA ResponseIsSource ==
  ASSUME NEW doc \in Responses
  PROVE  /\ SourceDoc(Sourced(doc))
         /\ \A l \in Sourced(doc) : l.of = l.path /\ EnteredBy(l, <<>>)
<1>1. ASSUME NEW l \in Sourced(doc)
      PROVE  /\ l \in Source /\ l.path # <<>> /\ l.path[1] \in Keys /\ l.of = l.path
             /\ \A i \in 1..Len(l.path) :
                  l.path[i] \in IdKeys \cup TextKeys => i = Len(l.path)
  <2>1. PICK m \in doc : l = [path |-> m.path, value |-> m.value, of |-> m.path]
    BY <1>1 DEF Sourced
  <2>2. m \in Leaf /\ m.path # <<>> /\ m.path[1] \in Keys
    BY KeysAssumption
  <2>3. \A i \in 1..Len(m.path) : m.path[i] \in IdKeys \cup TextKeys => i = Len(m.path)
    BY ResponsesAssumption
  <2> QED
    BY <2>1, <2>2, <2>3 DEF Leaf, Source
<1>2. ASSUME NEW l \in Sourced(doc)
      PROVE  EnteredBy(l, <<>>)
  <2>1. l.of = l.path /\ Len(l.path) \in Nat
    BY <1>1 DEF Source
  <2> QED
    BY <2>1 DEF EnteredBy
<1> QED
  BY <1>1, <1>2 DEF SourceDoc

(* What stands under names, in a document                                    *)
LEMMA UnderGives ==
  ASSUME NEW D, SourceDoc(D), NEW names, NEW r \in Under(D, names)
  PROVE  /\ r \in Source
         /\ \E m \in D : /\ m.path[1] \in names /\ r.of = m.of
                         /\ r.path = Tail(m.path) /\ r.value = m.value
<1>1. PICK m \in D : /\ m.path[1] \in names
                     /\ r = [path |-> Tail(m.path), value |-> m.value, of |-> m.of]
  BY DEF Under
<1>2. m \in Source /\ m.path # <<>>
  BY DEF SourceDoc
<1>3. Tail(m.path) \in Seq(Steps)
  BY <1>2, TailFacts DEF Source
<1> QED
  BY <1>1, <1>2, <1>3 DEF Source

(* An object at a prefix of a response                                       *)
LEMMA SuffixFacts ==
  ASSUME NEW q \in Seq(Steps), NEW n \in Nat, Len(q) > n
  PROVE  /\ SubSeq(q, n + 1, Len(q)) \in Seq(Steps)
         /\ Len(SubSeq(q, n + 1, Len(q))) = Len(q) - n
         /\ \A i \in 1..(Len(q) - n) : SubSeq(q, n + 1, Len(q))[i] = q[n + i]
<1> QED
  OBVIOUS

LEMMA AtIsSource ==
  ASSUME NEW doc \in Responses, NEW p \in Seq(Steps), NEW r \in At(Sourced(doc), p)
  PROVE  /\ r \in Source /\ r.path # <<>> /\ r.path[1] \in Keys
         /\ \A i \in 1..Len(r.path) :
              r.path[i] \in IdKeys \cup TextKeys => i = Len(r.path)
         /\ EnteredBy(r, p)
<1> DEFINE n == Len(p)
<1>1. PICK m \in Sourced(doc) :
        /\ Lies(m, p)
        /\ r = [path |-> SubSeq(m.path, n + 1, Len(m.path)), value |-> m.value,
                of |-> m.of]
  BY DEF At
<1>2. SourceDoc(Sourced(doc)) /\ m.of = m.path
  BY ResponseIsSource
<1>3. m \in Source /\ m.path \in Seq(Steps) /\ n \in Nat /\ Len(m.path) \in Nat
  BY <1>2 DEF SourceDoc, Source
<1>4. Len(m.path) > n /\ m.path[n + 1] \in Keys /\ \A i \in 1..n : m.path[i] = p[i]
  BY <1>1 DEF Lies
<1> HIDE DEF n
<1>5. /\ r.path \in Seq(Steps) /\ Len(r.path) = Len(m.path) - n
      /\ \A i \in 1..Len(r.path) : r.path[i] = m.path[n + i]
      /\ r.value = m.value /\ r.of = m.path
  BY <1>1, <1>2, <1>3, <1>4, SuffixFacts
<1>6. r \in Source
  BY <1>1, <1>3, <1>5 DEF Source
<1>7. r.path # <<>> /\ r.path[1] \in Keys
  BY <1>3, <1>4, <1>5
<1>8. ASSUME NEW i \in 1..Len(r.path), r.path[i] \in IdKeys \cup TextKeys
      PROVE  i = Len(r.path)
  <2>1. n + i \in 1..Len(m.path) /\ m.path[n + i] \in IdKeys \cup TextKeys
    BY <1>3, <1>4, <1>5, <1>8
  <2>2. n + i = Len(m.path)
    BY <1>2, <2>1 DEF SourceDoc
  <2> QED
    BY <1>3, <1>5, <2>2
<1>9. EnteredBy(r, p)
  BY <1>3, <1>4, <1>5 DEF EnteredBy, n
<1> QED
  BY <1>6, <1>7, <1>8, <1>9

LEMMA InnerIsSource ==
  ASSUME NEW doc \in Responses
  PROVE  /\ SourceDoc(Inner(Sourced(doc)))
         /\ \A l \in Inner(Sourced(doc)) : EnteredBy(l, <<Nested>>)
<1>1. <<Nested>> \in Seq(Steps)
  BY KeysAssumption DEF Steps
<1> QED
  BY <1>1, AtIsSource DEF Inner, SourceDoc

LEMMA ListPathsAreClean == Clean(ListPaths)
<1>1. /\ Container \in Steps /\ Element \in Steps /\ Item \in Steps
      /\ Item \notin SecretKeys \cup NotesKeys \cup PIIKeys
      /\ Container \notin SecretKeys \cup NotesKeys \cup PIIKeys
      /\ Element \notin SecretKeys \cup NotesKeys \cup PIIKeys
  BY KeysAssumption, ShippedAssumption DEF Steps
<1>2. ListPaths \subseteq Seq(Steps)
  BY <1>1 DEF ListPaths
<1>3. ASSUME NEW p \in ListPaths, NEW i \in 1..Len(p)
      PROVE  p[i] \in {Container, Element, Item}
  BY <1>3 DEF ListPaths
<1> QED
  BY <1>1, <1>2, <1>3 DEF Clean

LEMMA TopsAreClean == Clean({<<>>}) /\ Clean({<<>>, <<Nested>>})
<1>1. Nested \in Steps /\ Nested \notin SecretKeys \cup NotesKeys \cup PIIKeys
  BY KeysAssumption, ShippedAssumption DEF Steps
<1> QED
  BY <1>1 DEF Clean

LEMMA ElementsAreSource ==
  ASSUME NEW doc \in Responses
  PROVE  /\ SourceDoc(Elements(Sourced(doc)))
         /\ \A l \in Elements(Sourced(doc)) : \E p \in ListPaths : EnteredBy(l, p)
<1>1. ListPaths \subseteq Seq(Steps)
  BY ListPathsAreClean DEF Clean
<1>2. ASSUME NEW l \in Elements(Sourced(doc))
      PROVE  /\ l \in Source /\ l.path # <<>> /\ l.path[1] \in Keys
             /\ \A i \in 1..Len(l.path) :
                  l.path[i] \in IdKeys \cup TextKeys => i = Len(l.path)
             /\ \E p \in ListPaths : EnteredBy(l, p)
  <2>1. PICK p \in ListPaths : l \in At(Sourced(doc), p)
    BY <1>2 DEF Elements
  <2> QED
    BY <1>1, <2>1, AtIsSource
<1> QED
  BY <1>2 DEF SourceDoc

(* A declared field reads the field of the document its name folds to.       *)
LEMMA RawGives ==
  ASSUME NEW D, SourceDoc(D), NEW s \in AllSpecs, NEW f \in s, NEW r \in Raw(D, f.from)
  PROVE  /\ r \in Source
         /\ \E m \in D : /\ r.of = m.of /\ r.path = Tail(m.path) /\ r.value = m.value
                         /\ m.path[1] \in Keys
                         /\ Folded[m.path[1]] = Folded[f.from]
<1>1. r \in Under(D, Found(D, f.from))
  BY DEF Raw
<1>2. r \in Source
  BY <1>1, UnderGives
<1>3. PICK m \in D : /\ m.path[1] \in Found(D, f.from) /\ r.of = m.of
                     /\ r.path = Tail(m.path) /\ r.value = m.value
  BY <1>1, UnderGives
<1>4. m.path[1] \in Keys
  BY DEF SourceDoc
<1>5. Folded[m.path[1]] = Folded[f.from]
  BY <1>3 DEF Found
<1> QED
  BY <1>2, <1>3, <1>4, <1>5

(* The name a field of an accepted shape reads, as the response spells it,   *)
(* is neither a credential's nor one its opt-ins keep from the caller.       *)
LEMMA FieldIsHarmless ==
  ASSUME NEW s \in AllSpecs, Declarable(s), NEW f \in s, NEW o \in Options, Open(f, o),
         NEW k \in Keys, Folded[k] = Folded[f.from]
  PROVE  k \notin Withheld \cup Dropped(o)
<1>1. f.from \in Keys
  BY KeysAssumption DEF Field, AllSpecs
<1>2. /\ k \in AllowedKeys <=> f.from \in AllowedKeys
      /\ k \in SecretKeys <=> f.from \in SecretKeys
      /\ k \in NotesKeys <=> f.from \in NotesKeys
      /\ k \in PIIKeys <=> f.from \in PIIKeys
  BY <1>1, FoldAssumption
<1>3. k \notin Withheld
  BY <1>2 DEF Declarable, Withheld
<1>4. k \notin Dropped(o)
  <2>1. f.from \in PIIKeys \ (AllowedKeys \cup SecretKeys) => o.pii
    BY ShippedAssumption DEF Open, AllSpecs
  <2>2. f.from \in NotesKeys \ (AllowedKeys \cup SecretKeys) => o.notes
    BY ShippedAssumption DEF Open, AllSpecs
  <2> QED
    BY <1>2, <2>1, <2>2 DEF Dropped
<1> QED
  BY <1>3, <1>4

(* What Spec.Project makes of one field                                      *)
LEMMA FieldGives ==
  ASSUME NEW D, SourceDoc(D), NEW s \in AllSpecs, Declarable(s), NEW f \in s,
         NEW o \in Options, NEW x \in ProjectField(f, D, o)
  PROVE  /\ x \in Shown /\ x.path[1] = f.name /\ Open(f, o)
         /\ \E m \in D :
              /\ x.of = m.of /\ m.path[1] \in Keys
              /\ Folded[m.path[1]] = Folded[f.from]
              /\ x.value \in Upstream =>
                   Harmless(m.path, o) /\ Len(x.path) <= MaxDepth + 1
<1>0. Open(f, o) /\ f \in Field /\ f.name \in Steps /\ MaxDepth \in Nat
  <2>1. f \in Field /\ MaxDepth \in Nat
    BY KeysAssumption DEF AllSpecs
  <2> QED
    BY <2>1 DEF ProjectField, Field, Steps
<1>1. CASE f.kind = "untrusted"
  <2>1. PICK r \in Raw(D, f.from) :
          x = [path |-> <<f.name>>, value |-> r.value, of |-> r.of, wrapped |-> TRUE]
    BY <1>0, <1>1 DEF ProjectField
  <2>2. r \in Source
    BY RawGives
  <2>3. PICK m \in D : /\ r.of = m.of /\ r.path = Tail(m.path) /\ r.value = m.value
                       /\ m.path[1] \in Keys
                       /\ Folded[m.path[1]] = Folded[f.from]
    BY RawGives
  <2>4. <<f.name>> \in Seq(Steps) /\ Len(<<f.name>>) = 1 /\ <<f.name>>[1] = f.name
    BY <1>0
  <2>5. m.path \in Seq(Steps) /\ Len(m.path) \in Nat /\ Len(m.path) >= 1
    BY TailFacts DEF SourceDoc, Source
  <2>6. m.path[1] \in TextKeys
    <3>1. \E g \in s : g.kind = "untrusted" /\ Folded[m.path[1]] = Folded[g.from]
      BY <1>1, <2>3
    <3> QED
      BY <2>3, <3>1 DEF TextKeys, AllSpecs
  <2>7. Len(m.path) = 1
    <3>1. 1 \in 1..Len(m.path)
      BY <2>5
    <3> QED
      BY <2>6, <3>1 DEF SourceDoc
  <2>8. m.path[1] \notin Withheld \cup Dropped(o)
    BY <1>0, <2>3, FieldIsHarmless
  <2>9. Harmless(m.path, o)
    BY <2>7, <2>8 DEF Harmless
  <2>10. x \in Shown
    BY <2>1, <2>2, <2>4 DEF Shown, Source
  <2> QED
    BY <1>0, <2>1, <2>3, <2>4, <2>9, <2>10
<1>2. CASE f.kind # "untrusted"
  <2>1. PICK l \in Redact(Raw(D, f.from), o) : x = Render(l, <<f.name>>, FALSE)
    BY <1>0, <1>2 DEF ProjectField
  <2>2. Raw(D, f.from) \subseteq Source
    BY RawGives
  <2>3. PICK r \in Raw(D, f.from) :
          /\ l \in Redacted /\ l.of = r.of
          /\ \/ l = r /\ \A i \in 1..Len(r.path) : ~StopsAt(r.path, i, o)
             \/ l.value \in Markers
    BY <2>1, <2>2, RedactGives
  <2>4. PICK m \in D : /\ r.of = m.of /\ r.path = Tail(m.path) /\ r.value = m.value
                       /\ m.path[1] \in Keys
                       /\ Folded[m.path[1]] = Folded[f.from]
    BY RawGives
  <2>5. l.path \in Seq(Steps) /\ Len(l.path) \in Nat
    BY <2>3 DEF Redacted
  <2>6. /\ <<f.name>> \o l.path \in Seq(Steps)
        /\ Len(<<f.name>> \o l.path) = Len(l.path) + 1
        /\ (<<f.name>> \o l.path)[1] = f.name
    BY <1>0, <2>5, ConsFacts
  <2>7. x \in Shown /\ x.path[1] = f.name /\ x.of = m.of /\ x.value = l.value
        /\ Len(x.path) = Len(l.path) + 1
    BY <2>1, <2>3, <2>4, <2>6 DEF Render, Redacted, Shown
  <2>8. ASSUME x.value \in Upstream
        PROVE  Harmless(m.path, o) /\ Len(x.path) <= MaxDepth + 1
    <3>1. l = r /\ \A i \in 1..Len(r.path) : ~StopsAt(r.path, i, o)
      BY <2>3, <2>7, <2>8, MarkersAreOurs
    <3>2. Len(r.path) <= MaxDepth
      <4>1. Len(r.path) \in 1..Len(r.path) => Len(r.path) <= MaxDepth
        BY <1>0, <2>5, <3>1 DEF StopsAt
      <4> QED
        BY <1>0, <2>5, <3>1, <4>1
    <3>3. m.path[1] \notin Withheld \cup Dropped(o)
      BY <1>0, <2>4, FieldIsHarmless
    <3>4. /\ m.path \in Seq(Steps) /\ Len(m.path) \in Nat /\ Len(m.path) >= 1
          /\ Len(r.path) = Len(m.path) - 1
          /\ \A i \in 2..Len(m.path) : m.path[i] = r.path[i - 1]
      BY <2>4, TailFacts DEF SourceDoc, Source
    <3>5. ASSUME NEW i \in 1..Len(m.path)
          PROVE  m.path[i] \notin Withheld \cup Dropped(o)
      <4>1. CASE i = 1
        BY <3>3, <4>1
      <4>2. CASE i # 1
        <5>1. i \in 2..Len(m.path) /\ i - 1 \in 1..Len(r.path)
          BY <3>4, <4>2
        <5> QED
          BY <3>1, <3>4, <5>1 DEF StopsAt
      <4> QED
        BY <4>1, <4>2
    <3> QED
      BY <2>7, <3>1, <3>2, <3>5, <1>0, <2>5 DEF Harmless
  <2> QED
    BY <1>0, <2>4, <2>7, <2>8
<1> QED
  BY <1>1, <1>2

\* A leaf of a result is in an envelope if its field is declared untrusted.
Labelled(x, f) == x.wrapped <=> f.kind = "untrusted"

(* Spec.Project labels what it returns as the field is declared.             *)
LEMMA FieldLabels ==
  ASSUME NEW f, NEW D, NEW o, NEW x \in ProjectField(f, D, o)
  PROVE  Labelled(x, f)
<1>1. CASE f.kind = "untrusted"
  <2>1. PICK l \in Raw(D, f.from) :
          x = [path |-> <<f.name>>, value |-> l.value, of |-> l.of, wrapped |-> TRUE]
    BY <1>1 DEF ProjectField
  <2>2. x.wrapped = TRUE
    BY <2>1
  <2> QED
    BY <1>1, <2>2 DEF Labelled
<1>2. CASE f.kind # "untrusted"
  <2>1. PICK l \in Redact(Raw(D, f.from), o) : x = Render(l, <<f.name>>, FALSE)
    BY <1>2 DEF ProjectField
  <2>2. x.wrapped = FALSE
    BY <2>1 DEF Render
  <2> QED
    BY <1>2, <2>2 DEF Labelled
<1> QED
  BY <1>1, <1>2

(* A leaf of a projection stands under a name.                               *)
LEMMA FieldIsNamed ==
  ASSUME NEW D, SourceDoc(D), NEW s \in AllSpecs, NEW f \in s, NEW o,
         NEW x \in ProjectField(f, D, o)
  PROVE  Len(x.path) >= 1
<1>1. f.name \in Steps
  BY KeysAssumption DEF Field, Steps, AllSpecs
<1>2. CASE f.kind = "untrusted"
  <2>1. x.path = <<f.name>>
    BY <1>2 DEF ProjectField
  <2> QED
    BY <2>1
<1>3. CASE f.kind # "untrusted"
  <2>1. PICK l \in Redact(Raw(D, f.from), o) : x = Render(l, <<f.name>>, FALSE)
    BY <1>3 DEF ProjectField
  <2>2. Raw(D, f.from) \subseteq Source
    BY RawGives
  <2>3. l \in Redacted
    BY <2>1, <2>2, RedactGives
  <2>4. Len(<<f.name>> \o l.path) = Len(l.path) + 1 /\ Len(l.path) \in Nat
    BY <1>1, <2>3, ConsFacts DEF Redacted
  <2>5. x.path = <<f.name>> \o l.path
    BY <2>1 DEF Render
  <2> QED
    BY <2>4, <2>5
<1> QED
  BY <1>2, <1>3

\* All that the theorems say of one leaf of a projection, of records that
\* stand at the prefixes P of a response
Sound(x, s, o, P) ==
  /\ x \in Shown /\ Len(x.path) >= 1
  /\ \E f \in s : /\ x.path[1] = f.name /\ Open(f, o) /\ ReadBy(f, x.of, P)
                 /\ Labelled(x, f)
  /\ x.value \in Upstream => Harmless(x.of, o) /\ Len(x.path) <= MaxDepth + 1

(* A projection of records found at prefixes the denylist has nothing to say *)
(* about is sound.                                                           *)
LEMMA ProjectIsSound ==
  ASSUME NEW D, SourceDoc(D), NEW P, Clean(P),
         \A l \in D : \E p \in P : EnteredBy(l, p),
         NEW s \in AllSpecs, Declarable(s), NEW o \in Options,
         NEW x \in Project(s, D, o)
  PROVE  Sound(x, s, o, P)
<1>1. PICK f \in s : x \in ProjectField(f, D, o)
  BY DEF Project
<1>2. x \in Shown /\ x.path[1] = f.name /\ Open(f, o)
  BY <1>1, FieldGives
<1>3. PICK m \in D :
        /\ x.of = m.of /\ m.path[1] \in Keys
        /\ Folded[m.path[1]] = Folded[f.from]
        /\ x.value \in Upstream =>
             Harmless(m.path, o) /\ Len(x.path) <= MaxDepth + 1
  BY <1>1, FieldGives
<1>4. m.path \in Seq(Steps) /\ Len(m.path) \in Nat /\ Len(m.path) >= 1
  BY TailFacts DEF SourceDoc, Source
<1>5. PICK p \in P : EnteredBy(m, p)
  OBVIOUS
<1>6. p \in Seq(Steps) /\ Len(p) \in Nat
      /\ \A i \in 1..Len(p) : p[i] \notin SecretKeys \cup NotesKeys \cup PIIKeys
  BY DEF Clean
<1>7. /\ Len(x.of) = Len(p) + Len(m.path)
      /\ \A i \in 1..Len(p) : x.of[i] = p[i]
      /\ \A i \in 1..Len(m.path) : x.of[Len(p) + i] = m.path[i]
  BY <1>3, <1>5 DEF EnteredBy
<1>8. ReadBy(f, x.of, P)
  <2>1. Len(p) < Len(x.of) /\ x.of[Len(p) + 1] = m.path[1]
    BY <1>4, <1>6, <1>7
  <2> QED
    BY <1>3, <1>7, <2>1 DEF ReadBy
<1>9. ASSUME x.value \in Upstream
      PROVE  Harmless(x.of, o)
  <2>1. ASSUME NEW i \in 1..Len(x.of)
        PROVE  x.of[i] \notin Withheld \cup Dropped(o)
    <3>1. CASE i \in 1..Len(p)
      BY <1>6, <1>7, <3>1 DEF Withheld, Dropped
    <3>2. CASE i \notin 1..Len(p)
      <4>1. i - Len(p) \in 1..Len(m.path) /\ Len(p) + (i - Len(p)) = i
        BY <1>4, <1>6, <1>7, <3>2
      <4>2. m.path[i - Len(p)] \notin Withheld \cup Dropped(o)
        BY <1>3, <1>9, <4>1 DEF Harmless
      <4> QED
        BY <1>7, <4>1, <4>2
    <3> QED
      BY <3>1, <3>2
  <2> QED
    BY <2>1 DEF Harmless
<1>10. Labelled(x, f)
  BY <1>1, FieldLabels
<1>11. Len(x.path) >= 1
  BY <1>1, FieldIsNamed
<1> QED
  BY <1>1, <1>2, <1>3, <1>8, <1>9, <1>10, <1>11 DEF Sound

(* A list puts two steps above the leaves of its records and changes nothing *)
(* else about them.                                                          *)
LEMMA ListingGives ==
  ASSUME NEW doc \in Responses, NEW s \in AllSpecs, Declarable(s), NEW o \in Options,
         NEW name \in Keys, NEW x \in Listing(name, s, Sourced(doc), o)
  PROVE  \E y : /\ Sound(y, s, o, ListPaths) /\ x \in Shown
                /\ x.path[1] = name /\ x.path[2] = Item /\ x.path[3] = y.path[1]
                /\ Len(x.path) = Len(y.path) + 2
                /\ x.of = y.of /\ x.value = y.value /\ x.wrapped = y.wrapped
<1>1. PICK y \in Project(s, Elements(Sourced(doc)), o) :
        x = [y EXCEPT !.path = <<name, Item>> \o @]
  BY DEF Listing
<1>2. Sound(y, s, o, ListPaths)
  BY ElementsAreSource, ListPathsAreClean, ProjectIsSound
<1>3. y \in Shown /\ y.path \in Seq(Steps) /\ Len(y.path) >= 1 /\ Len(y.path) \in Nat
  BY <1>2 DEF Sound, Shown
<1>4. name \in Steps /\ Item \in Steps
  BY DEF Steps
<1>5. /\ <<name, Item>> \o y.path \in Seq(Steps)
      /\ Len(<<name, Item>> \o y.path) = Len(y.path) + 2
      /\ (<<name, Item>> \o y.path)[1] = name
      /\ (<<name, Item>> \o y.path)[2] = Item
      /\ (<<name, Item>> \o y.path)[3] = y.path[1]
  BY <1>3, <1>4
<1>6. /\ x.path = <<name, Item>> \o y.path
      /\ x.of = y.of /\ x.value = y.value /\ x.wrapped = y.wrapped
      /\ x \in Shown
  BY <1>1, <1>3, <1>5 DEF Shown
<1> QED
  BY <1>2, <1>5, <1>6

\* What stands for the state of a request in the properties
ReplyIn(t, x) == t = "ticket" /\ x.path[1] = Container
ListIn(t, x) == t = "list" \/ ReplyIn(t, x)

\* All that the theorems say of one leaf of a curated result
SoundResult(t, x, s, o) ==
  /\ x \in Shown
  /\ ListIn(t, x) => Len(x.path) >= 3 /\ x.path[2] = Item
  /\ \E f \in IF ReplyIn(t, x) THEN ReplySpec ELSE s :
       /\ x.path[IF ListIn(t, x) THEN 3 ELSE 1] = f.name
       /\ Open(f, o) /\ Labelled(x, f)
       /\ ReadBy(f, x.of, IF ListIn(t, x) THEN ListPaths
                          ELSE IF t = "ticket" THEN {<<>>} ELSE {<<>>, <<Nested>>})
  /\ x.value \in Upstream =>
       /\ Harmless(x.of, o)
       /\ Len(x.path) <= MaxDepth + (IF t \in {"list", "ticket"} THEN 3 ELSE 1)

LEMMA ListedIsSound ==
  ASSUME NEW doc \in Responses, NEW s, NEW o \in Options, NEW t \in {"list", "ticket"},
         NEW r \in AllSpecs, Declarable(r), NEW name \in Keys,
         t = "list" => r = s, t = "ticket" => r = ReplySpec /\ name = Container,
         NEW x \in Listing(name, r, Sourced(doc), o)
  PROVE  SoundResult(t, x, s, o)
<1>1. PICK y : /\ Sound(y, r, o, ListPaths) /\ x \in Shown
               /\ x.path[1] = name /\ x.path[2] = Item /\ x.path[3] = y.path[1]
               /\ Len(x.path) = Len(y.path) + 2
               /\ x.of = y.of /\ x.value = y.value /\ x.wrapped = y.wrapped
  BY ListingGives
<1>2. ListIn(t, x) /\ r = (IF ReplyIn(t, x) THEN ReplySpec ELSE s)
  BY <1>1 DEF ListIn, ReplyIn
<1>3. MaxDepth \in Nat /\ Len(y.path) \in Nat /\ Len(y.path) >= 1
  BY <1>1, KeysAssumption DEF Sound, Shown
<1>4. Len(x.path) >= 3
  BY <1>1, <1>3
<1>5. PICK f \in r : /\ y.path[1] = f.name /\ Open(f, o)
                     /\ ReadBy(f, y.of, ListPaths) /\ Labelled(y, f)
  BY <1>1 DEF Sound
<1>6. Labelled(x, f)
  BY <1>1, <1>5 DEF Labelled
<1>7. x.value \in Upstream => Harmless(x.of, o) /\ Len(x.path) <= MaxDepth + 3
  <2>1. x.value \in Upstream => Harmless(x.of, o) /\ Len(y.path) <= MaxDepth + 1
    BY <1>1 DEF Sound
  <2> QED
    BY <1>1, <1>3, <2>1
<1> QED
  BY <1>1, <1>2, <1>4, <1>5, <1>6, <1>7 DEF SoundResult

LEMMA CuratedIsSound ==
  ASSUME NEW doc \in Responses, NEW s \in Specs, Declarable(s), NEW o \in Options,
         NEW t \in ProjectingTools, NEW x \in Result(t, s, doc, o)
  PROVE  SoundResult(t, x, s, o)
<1> USE DEF ReplyIn, ListIn
<1>0. s \in AllSpecs /\ ReplySpec \in AllSpecs /\ Declarable(ReplySpec)
      /\ MaxDepth \in Nat /\ Container \in Keys /\ Records \in Keys
  BY KeysAssumption, ShippedAssumption DEF AllSpecs
<1>1. CASE t \in {"object", "merged"}
  <2>1. x \in Project(s, Sourced(doc), o) \cup Project(s, Inner(Sourced(doc)), o)
    BY <1>1 DEF Result, Object, Merged, Overlay
  <2> DEFINE P == {<<>>, <<Nested>>}
  <2>2. Clean(P)
    BY TopsAreClean
  <2>3. \A l \in Sourced(doc) : \E p \in P : EnteredBy(l, p)
    BY ResponseIsSource
  <2>4. \A l \in Inner(Sourced(doc)) : \E p \in P : EnteredBy(l, p)
    BY InnerIsSource
  <2>5. SourceDoc(Sourced(doc)) /\ SourceDoc(Inner(Sourced(doc)))
    BY ResponseIsSource, InnerIsSource
  <2>6. Sound(x, s, o, P)
    <3> HIDE DEF P
    <3> QED
      BY <1>0, <2>1, <2>2, <2>3, <2>4, <2>5, ProjectIsSound
  <2> QED
    BY <1>1, <2>6 DEF Sound, SoundResult
<1>2. CASE t = "list"
  <2>1. x \in Listing(Records, s, Sourced(doc), o)
    BY <1>2 DEF Result
  <2> QED
    BY <1>0, <1>2, <2>1, ListedIsSound
<1>3. CASE t = "ticket" /\ x.path[1] # Container
  <2>1. x \in Project(s, Sourced(doc), o) \cup Listing(Container, ReplySpec, Sourced(doc), o)
    BY <1>3 DEF Result, Detail
  <2>2. x \in Project(s, Sourced(doc), o)
    BY <1>0, <1>3, <2>1, ListingGives
  <2>3. Sound(x, s, o, {<<>>})
    BY <1>0, <2>2, TopsAreClean, ResponseIsSource, ProjectIsSound
  <2>4. x.value \in Upstream => Len(x.path) <= MaxDepth + 3
    <3>1. Len(x.path) \in Nat
      BY <2>3 DEF Sound, Shown
    <3> QED
      BY <1>0, <2>3, <3>1 DEF Sound
  <2> QED
    BY <1>3, <2>3, <2>4 DEF Sound, SoundResult
<1>4. CASE t = "ticket" /\ x.path[1] = Container
  <2>1. x \in Listing(Container, ReplySpec, Sourced(doc), o)
    BY <1>4 DEF Result, Detail
  <2> QED
    BY <1>0, <1>4, <2>1, ListedIsSound
<1> QED
  BY <1>1, <1>2, <1>3, <1>4 DEF ProjectingTools

(* The escape hatch shows what redaction leaves, and labels what it takes    *)
(* for text.                                                                 *)
LEMMA GenericIsSound ==
  ASSUME NEW doc \in Responses, NEW s, NEW o \in Options, NEW x \in Result("generic", s, doc, o)
  PROVE  /\ x \in Shown
         /\ x.value \in Upstream => Harmless(x.of, o) /\ Len(x.path) <= MaxDepth
         /\ x.value = "prose" /\ x.of[Len(x.of)] \in TextKeys => x.wrapped
<1>1. PICK l \in Redact(Sourced(doc), o) : x = Render(l, <<>>, LooksUntrusted(l))
  BY DEF Result, Filter
<1>2. Sourced(doc) \subseteq Source /\ \A r \in Sourced(doc) : r.of = r.path
  BY ResponseIsSource DEF SourceDoc
<1>3. PICK r \in Sourced(doc) :
        /\ l \in Redacted /\ l.of = r.of
        /\ \/ l = r /\ \A i \in 1..Len(r.path) : ~StopsAt(r.path, i, o)
           \/ l.value \in Markers
  BY <1>1, <1>2, RedactGives
<1>4. l.path \in Seq(Steps) /\ Len(l.path) \in Nat
  BY <1>3 DEF Redacted
<1>5. <<>> \o l.path = l.path
  BY <1>4
<1>6. LooksUntrusted(l) \in BOOLEAN
  BY DEF LooksUntrusted
<1>7. x \in Shown /\ x.path = l.path /\ x.value = l.value /\ x.of = r.path
  BY <1>1, <1>2, <1>3, <1>5, <1>6 DEF Render, Redacted, Shown
<1>8. ASSUME x.value \in Upstream
      PROVE  Harmless(x.of, o) /\ Len(x.path) <= MaxDepth
  <2>1. l = r /\ \A i \in 1..Len(r.path) : ~StopsAt(r.path, i, o)
    BY <1>3, <1>7, <1>8, MarkersAreOurs
  <2>2. MaxDepth \in Nat
    BY KeysAssumption
  <2>3. Len(l.path) \in 1..Len(l.path) => Len(l.path) <= MaxDepth
    BY <1>4, <2>1, <2>2 DEF StopsAt
  <2>4. Len(x.path) <= MaxDepth
    BY <1>4, <1>7, <2>2, <2>3
  <2> QED
    BY <1>7, <2>1, <2>4 DEF Harmless, StopsAt
<1>9. ASSUME x.value = "prose", x.of[Len(x.of)] \in TextKeys
      PROVE  x.wrapped
  <2>1. l = r /\ l.of = l.path
    BY <1>2, <1>3, <1>7, <1>9, MarkersAreOurs DEF Upstream
  <2>2. l.path # <<>> /\ l.path[Len(l.path)] \in ProseKeys
    BY <1>2, <1>3, <1>7, <1>9, <2>1, ResponseIsSource, ShippedAssumption DEF SourceDoc
  <2>3. LooksUntrusted(l)
    BY <1>7, <1>9, <2>2 DEF LooksUntrusted, Strings
  <2> QED
    BY <1>1, <2>3 DEF Render
<1> QED
  BY <1>7, <1>8, <1>9

(* An acknowledgement is of identifiers, each one value.                     *)
LEMMA AckIsSound ==
  ASSUME NEW doc \in Responses, NEW s, NEW o \in Options, NEW x \in Result("ack", s, doc, o)
  PROVE  /\ x \in Shown
         /\ x.value \in Upstream => Harmless(x.of, o) /\ Len(x.path) <= MaxDepth + 1
         /\ x.of \in {<<k>> : k \in IdKeys} /\ x.path = x.of
<1>1. PICK l \in Sourced(doc) : l.path[1] \in IdKeys /\ x = Render(l, <<>>, FALSE)
  BY DEF Result, Ack
<1>2. l \in Source /\ l.path # <<>> /\ l.of = l.path
  BY ResponseIsSource DEF SourceDoc
<1>3. l.path \in Seq(Steps) /\ Len(l.path) \in Nat /\ Len(l.path) >= 1
  BY <1>2, TailFacts DEF Source
<1>4. Len(l.path) = 1
  <2>1. \A i \in 1..Len(l.path) : l.path[i] \in IdKeys \cup TextKeys => i = Len(l.path)
    BY ResponseIsSource DEF SourceDoc
  <2>2. 1 \in 1..Len(l.path)
    BY <1>3
  <2> QED
    BY <1>1, <2>1, <2>2
<1>5. <<>> \o l.path = l.path
  BY <1>3
<1>6. x \in Shown /\ x.path = l.path /\ x.of = l.path
  BY <1>1, <1>2, <1>5 DEF Render, Source, Shown
<1>7. l.path[1] \notin Withheld \cup Dropped(o)
  BY <1>1, ShippedAssumption DEF Withheld, Dropped
<1>8. Harmless(x.of, o)
  BY <1>4, <1>6, <1>7 DEF Harmless
<1>9. Len(x.path) <= MaxDepth + 1
  <2>1. Len(x.path) = 1
    BY <1>4, <1>6
  <2>2. MaxDepth \in Nat
    BY KeysAssumption
  <2> QED
    BY ONLY <2>1, <2>2
<1>10. l.path = <<l.path[1]>>
  BY <1>3, <1>4
<1> QED
  BY <1>1, <1>6, <1>8, <1>9, <1>10

-----------------------------------------------------------------------------
(* The inductive invariant: a request is answered only after the shape was   *)
(* accepted, and a result is what Result makes of the request.               *)
ExpInv ==
  /\ spec \in Specs
  /\ phase \in {"starting", "refused", "serving", "received", "answered",
                "too large"}
  /\ tool \in Tools /\ opts \in Options
  /\ tool = "generic" => opts = NoOptIn
  /\ phase \in {"serving", "received", "answered", "too large"} => Declarable(spec)
  /\ phase \in {"received", "answered", "too large"} => response \in Responses
  /\ phase \in {"starting", "refused", "serving"} => response = {}
  /\ phase = "too large" => tool = "generic"
  /\ output = IF phase = "answered" THEN Result(tool, spec, response, opts) ELSE {}

LEMMA InvInit == Init => ExpInv
<1> QED
  BY DEF Init, ExpInv, Tools, Options, NoOptIn

LEMMA InvStep == ExpInv /\ [Next]_vars => ExpInv'
<1> SUFFICES ASSUME ExpInv, [Next]_vars
             PROVE  ExpInv'
  OBVIOUS
<1> USE DEF ExpInv
<1>1. CASE Register
  BY <1>1 DEF Register
<1>2. CASE Request
  <2>1. PICK t \in Tools, asked \in Options, doc \in Responses :
          tool' = t /\ opts' = Gated(t, asked) /\ response' = doc
    BY <1>2 DEF Request
  <2>2. opts' \in Options /\ (t = "generic" => opts' = NoOptIn)
    BY <2>1 DEF Gated, Options, NoOptIn
  <2> QED
    BY <1>2, <2>1, <2>2 DEF Request
<1>3. CASE Answer
  BY <1>3 DEF Answer
<1>4. CASE AnswerTooLarge
  BY <1>4 DEF AnswerTooLarge
<1>5. CASE UNCHANGED vars
  BY <1>5 DEF vars
<1> QED
  BY <1>1, <1>2, <1>3, <1>4, <1>5 DEF Next, Done

LEMMA Invariant == Spec => []ExpInv
<1> QED
  BY InvInit, InvStep, PTL DEF Spec

(* Every leaf of a result, whichever tool made it                            *)
LEMMA OutputIsSound ==
  ASSUME ExpInv, NEW x \in output
  PROVE  /\ x \in Shown
         /\ Projected => SoundResult(tool, x, spec, opts)
         /\ tool = "ack" => x.of \in {<<k>> : k \in IdKeys} /\ x.path = x.of
         /\ tool = "generic" /\ x.value = "prose" /\ x.of[Len(x.of)] \in TextKeys => x.wrapped
         /\ x.value \in Upstream =>
              /\ Harmless(x.of, opts)
              /\ Len(x.path) <=
                   MaxDepth + (IF tool = "generic" THEN 0
                               ELSE IF tool \in {"list", "ticket"} THEN 3 ELSE 1)
<1>1. /\ phase = "answered" /\ x \in Result(tool, spec, response, opts)
      /\ response \in Responses /\ spec \in Specs /\ Declarable(spec)
      /\ opts \in Options /\ tool \in Tools
  BY DEF ExpInv
<1>2. CASE tool \in ProjectingTools
  <2>1. SoundResult(tool, x, spec, opts)
    BY <1>1, <1>2, CuratedIsSound
  <2> QED
    BY <1>2, <2>1 DEF SoundResult, ProjectingTools
<1>3. CASE tool = "generic"
  <2>1. /\ x \in Shown
        /\ x.value \in Upstream => Harmless(x.of, opts) /\ Len(x.path) <= MaxDepth
        /\ x.value = "prose" /\ x.of[Len(x.of)] \in TextKeys => x.wrapped
    BY <1>1, <1>3, GenericIsSound
  <2>2. MaxDepth \in Nat
    BY KeysAssumption
  <2> QED
    BY <1>3, <2>1, <2>2 DEF Projected, ProjectingTools
<1>4. CASE tool = "ack"
  <2>1. /\ x \in Shown
        /\ x.value \in Upstream => Harmless(x.of, opts) /\ Len(x.path) <= MaxDepth + 1
        /\ x.of \in {<<k>> : k \in IdKeys} /\ x.path = x.of
    BY <1>1, <1>4, AckIsSound
  <2> QED
    BY <1>4, <2>1 DEF Projected, ProjectingTools
<1> QED
  BY <1>1, <1>2, <1>3, <1>4 DEF Tools, ProjectingTools

(* The state of the pipeline has the types it is given.                      *)
THEOREM TypeCorrect == Spec => []TypeOK
<1>1. ExpInv => TypeOK
  <2>1. SUFFICES ASSUME ExpInv
                 PROVE  TypeOK
    OBVIOUS
  <2>2. output \subseteq Shown
    BY <2>1, OutputIsSound
  <2>3. response \subseteq Leaf
    BY <2>1, KeysAssumption DEF ExpInv
  <2> QED
    BY <2>1, <2>2, <2>3 DEF ExpInv, TypeOK
<1> QED
  BY <1>1, Invariant, PTL

(* Whatever the lists, the shapes and the responses: no value returned under *)
(* a credential's name is in a result.                                       *)
THEOREM SecretsStayOut == Spec => []NoSecretShown
<1>1. ExpInv => NoSecretShown
  BY OutputIsSound DEF NoSecretShown, FromWHMCS, Harmless
<1> QED
  BY <1>1, Invariant, PTL

(* What a leaf of a curated result answers to, as the properties name it     *)
LEMMA ShapeGives ==
  ASSUME ExpInv, Projected, NEW x \in output
  PROVE  /\ InList(x) => Len(x.path) >= 3 /\ x.path[2] = Item
         /\ \E f \in ShapeOf(x) :
              /\ NameOf(x) = f.name /\ Open(f, opts) /\ Labelled(x, f)
              /\ ReadBy(f, x.of, Entries(x))
<1>1. SoundResult(tool, x, spec, opts)
  BY OutputIsSound
<1> QED
  BY <1>1 DEF SoundResult, InReply, InList, ReplyIn, ListIn, ShapeOf, NameOf, Entries

LEMMA ShapeIsDeclarable ==
  ASSUME ExpInv, NEW x \in output
  PROVE  Declarable(ShapeOf(x))
<1> QED
  BY ShippedAssumption DEF ExpInv, ShapeOf

(* Personal data and admin notes need their opt-ins, by name and by kind.    *)
THEOREM OptInsHold == Spec => []OptInsRespected
<1>1. ASSUME ExpInv, NEW x \in FromWHMCS
      PROVE  /\ \A i \in 1..Len(x.of) : x.of[i] \notin Dropped(opts)
             /\ Projected => \A f \in ShapeOf(x) : f.name = NameOf(x) =>
                  (f.kind = "pii" => opts.pii) /\ (f.kind = "notes" => opts.notes)
  <2>1. x \in output /\ x.value \in Upstream
    BY DEF FromWHMCS
  <2>2. Harmless(x.of, opts)
    BY <1>1, <2>1, OutputIsSound
  <2>3. ASSUME Projected, NEW f \in ShapeOf(x), f.name = NameOf(x)
        PROVE  (f.kind = "pii" => opts.pii) /\ (f.kind = "notes" => opts.notes)
    <3>1. PICK g \in ShapeOf(x) : NameOf(x) = g.name /\ Open(g, opts)
      BY <1>1, <2>1, <2>3, ShapeGives
    <3>2. f = g
      BY <1>1, <2>1, <2>3, <3>1, ShapeIsDeclarable DEF Declarable
    <3> QED
      BY <3>1, <3>2 DEF Open
  <2> QED
    BY <2>2, <2>3 DEF Harmless
<1>2. ExpInv => OptInsRespected
  BY <1>1 DEF OptInsRespected
<1> QED
  BY <1>2, Invariant, PTL

(* A tool with a shape returns what the shape declares, labelled as it says; *)
(* an acknowledgement returns identifiers only, declared or not; and the     *)
(* escape hatch labels the text a shape would.                               *)
THEOREM AsDeclared == Spec => []ReturnedAsDeclared
<1>1. ASSUME ExpInv, Projected, NEW x \in output
      PROVE  /\ InList(x) => Len(x.path) >= 3 /\ x.path[2] = Item
             /\ \E f \in ShapeOf(x) : NameOf(x) = f.name /\ ReadBy(f, x.of, Entries(x))
             /\ \A f \in ShapeOf(x) : f.name = NameOf(x) => Labelled(x, f)
  <2>1. PICK g \in ShapeOf(x) : /\ NameOf(x) = g.name /\ Labelled(x, g)
                                /\ ReadBy(g, x.of, Entries(x))
    BY <1>1, ShapeGives
  <2>2. \A f \in ShapeOf(x) : f.name = NameOf(x) => f = g
    BY <1>1, <2>1, ShapeIsDeclarable DEF Declarable
  <2> QED
    BY <1>1, <2>1, <2>2, ShapeGives
<1>2. ExpInv => ReturnedAsDeclared
  BY <1>1, OutputIsSound DEF ReturnedAsDeclared, Labelled
<1> QED
  BY <1>2, Invariant, PTL

(* No value of WHMCS is deeper in a result than the walk goes.               *)
THEOREM DepthIsBounded == Spec => []DepthBounded
<1>1. ExpInv => DepthBounded
  BY OutputIsSound DEF DepthBounded, FromWHMCS
<1> QED
  BY <1>1, Invariant, PTL

(* The denylist keeps what is harmless and reports what it withholds.        *)
THEOREM KeptOrReported == Spec => []ReportedOrKept
<1>1. ASSUME ExpInv, phase = "answered", tool = "generic", NEW l \in response
      PROVE  /\ (\A i \in 1..Len(l.path) : ~StopsAt(l.path, i, opts)) =>
                  \E x \in output : x.path = l.path /\ x.value = l.value
             /\ \A i \in 1..Len(l.path) :
                  FirstStop(l.path, i, opts) /\ l.path[i] \in Withheld =>
                    \E x \in output :
                      x.path = SubSeq(l.path, 1, i) /\ x.value = "withheld"
  <2> DEFINE r == [path |-> l.path, value |-> l.value, of |-> l.path]
  <2>1. output = Filter(response, opts) /\ response \in Responses
    BY <1>1 DEF ExpInv, Result
  <2>2. r \in Sourced(response)
    BY DEF Sourced
  <2>3. l.path \in Seq(Steps)
    BY <2>1, KeysAssumption DEF Leaf
  <2>4. ASSUME NEW y \in Kept(r, opts) \cup Cut(r, opts), y.path \in Seq(Steps)
        PROVE  \E x \in output : x.path = y.path /\ x.value = y.value
    <3>1. y \in Redact(Sourced(response), opts)
      BY <2>2 DEF Redact
    <3>2. Render(y, <<>>, LooksUntrusted(y)) \in output
      BY <2>1, <3>1 DEF Filter
    <3>3. <<>> \o y.path = y.path
      BY <2>4
    <3> QED
      BY <3>2, <3>3 DEF Render
  <2>5. ASSUME \A i \in 1..Len(l.path) : ~StopsAt(l.path, i, opts)
        PROVE  \E x \in output : x.path = l.path /\ x.value = l.value
    <3>1. r \in Kept(r, opts)
      BY <2>5 DEF Kept
    <3> QED
      BY <2>3, <2>4, <3>1
  <2>6. ASSUME NEW i \in 1..Len(l.path),
               FirstStop(l.path, i, opts), l.path[i] \in Withheld
        PROVE  \E x \in output :
                 x.path = SubSeq(l.path, 1, i) /\ x.value = "withheld"
    <3> DEFINE y == [path |-> SubSeq(l.path, 1, i), value |-> "withheld", of |-> l.path]
    <3>1. l.path[i] \notin Dropped(opts)
      BY <2>6 DEF Withheld, Dropped
    <3>2. y \in Cut(r, opts)
      BY <2>6, <3>1 DEF Cut
    <3>3. y.path \in Seq(Steps)
      BY <2>3, PrefixFacts
    <3> QED
      BY <2>4, <3>2, <3>3
  <2> QED
    BY <2>5, <2>6
<1>2. ExpInv => ReportedOrKept
  BY <1>1 DEF ReportedOrKept
<1> QED
  BY <1>2, Invariant, PTL
-----------------------------------------------------------------------------
Symbols == Typed \union Written

\* The pattern p from its element k on is in x at place i.
SuffixAt(p, k, x, i) ==
  \A m \in k..Len(p) : i + m - k <= Len(x) /\ x[i + m - k] = p[m]

\* No rule applies to x.
NoBoundary(x) ==
  \A r \in DOMAIN Rules : \A i \in 1..Len(x) : ~SuffixAt(Rules[r].old, 1, x, i)

LEMMA SeqTyped ==
  ASSUME NEW A, NEW B, A \subseteq B, NEW s \in Seq(A)
  PROVE  s \in Seq(B)
OBVIOUS

\* The rules, one by one
LEMMA RulesAre ==
  /\ DOMAIN Rules = 1..6
  /\ Rules[1].old = <<"lt", "bar">> /\ Rules[1].new = <<"lt", "box">>
  /\ Rules[2].old = <<"bar", "gt">> /\ Rules[2].new = <<"box", "gt">>
  /\ Rules[3].old = <<"tick", "tick", "tick">> /\ Rules[3].new = <<"quote", "quote", "quote">>
  /\ Rules[4].old = <<"newline", "newline", "Human">> /\ Rules[4].new = <<"newline", "newline", "bracketedHuman">>
  /\ Rules[5].old = <<"lt", "system", "gt">> /\ Rules[5].new = <<"bracketedSystem">>
  /\ Rules[6].old = <<"lt", "slash", "system", "gt">> /\ Rules[6].new = <<"bracketedEnd">>
BY DEF Rules, Rule

LEMMA RulesTyped ==
  ASSUME NEW r \in DOMAIN Rules
  PROVE  /\ Rules[r].old \in Seq(Symbols) /\ Len(Rules[r].old) \in 2..4
         /\ Rules[r].new \in Seq(Written \union {"lt", "gt", "newline"})
         /\ Len(Rules[r].new) \in 1..3
<1> DEFINE W == Written \union {"lt", "gt", "newline"}
<1>1. CASE r = 1
  <2>1. <<"lt", "bar">> \in Seq(Symbols) /\ <<"lt", "box">> \in Seq(W)
    BY DEF Symbols, Typed, Written
  <2>2. Len(<<"lt", "bar">>) \in 2..4 /\ Len(<<"lt", "box">>) \in 1..3
    OBVIOUS
  <2> QED
    BY <1>1, <2>1, <2>2, RulesAre
<1>2. CASE r = 2
  <2>1. <<"bar", "gt">> \in Seq(Symbols) /\ <<"box", "gt">> \in Seq(W)
    BY DEF Symbols, Typed, Written
  <2>2. Len(<<"bar", "gt">>) \in 2..4 /\ Len(<<"box", "gt">>) \in 1..3
    OBVIOUS
  <2> QED
    BY <1>2, <2>1, <2>2, RulesAre
<1>3. CASE r = 3
  <2>1. <<"tick", "tick", "tick">> \in Seq(Symbols) /\ <<"quote", "quote", "quote">> \in Seq(W)
    BY DEF Symbols, Typed, Written
  <2>2. Len(<<"tick", "tick", "tick">>) \in 2..4 /\ Len(<<"quote", "quote", "quote">>) \in 1..3
    OBVIOUS
  <2> QED
    BY <1>3, <2>1, <2>2, RulesAre
<1>4. CASE r = 4
  <2>1. <<"newline", "newline", "Human">> \in Seq(Symbols) /\ <<"newline", "newline", "bracketedHuman">> \in Seq(W)
    BY DEF Symbols, Typed, Written
  <2>2. Len(<<"newline", "newline", "Human">>) \in 2..4 /\ Len(<<"newline", "newline", "bracketedHuman">>) \in 1..3
    OBVIOUS
  <2> QED
    BY <1>4, <2>1, <2>2, RulesAre
<1>5. CASE r = 5
  <2>1. <<"lt", "system", "gt">> \in Seq(Symbols) /\ <<"bracketedSystem">> \in Seq(W)
    BY DEF Symbols, Typed, Written
  <2>2. Len(<<"lt", "system", "gt">>) \in 2..4 /\ Len(<<"bracketedSystem">>) \in 1..3
    OBVIOUS
  <2> QED
    BY <1>5, <2>1, <2>2, RulesAre
<1>6. CASE r = 6
  <2>1. <<"lt", "slash", "system", "gt">> \in Seq(Symbols) /\ <<"bracketedEnd">> \in Seq(W)
    BY DEF Symbols, Typed, Written
  <2>2. Len(<<"lt", "slash", "system", "gt">>) \in 2..4 /\ Len(<<"bracketedEnd">>) \in 1..3
    OBVIOUS
  <2> QED
    BY <1>6, <2>1, <2>2, RulesAre
<1> QED
  BY <1>1, <1>2, <1>3, <1>4, <1>5, <1>6, RulesAre

LEMMA PatternPlaces ==
  ASSUME NEW r \in DOMAIN Rules
  PROVE  LET n == Len(Rules[r].old)
         IN  /\ n \in Nat /\ n >= 1 /\ 1 \in 1..n /\ 1 \in 1..(n + 1)
             /\ \A k \in 2..n : k \in 1..n /\ k \in k..n /\ 1 + k - k = 1
<1> DEFINE n == Len(Rules[r].old)
<1>1. n \in 2..4
  BY RulesTyped
<1> HIDE DEF n
<1>2. /\ n \in Nat /\ n >= 1 /\ 1 \in 1..n /\ 1 \in 1..(n + 1)
      /\ \A k \in 2..n : k \in 1..n /\ k \in k..n /\ 1 + k - k = 1
  BY <1>1
<1> QED
  BY <1>2 DEF n

LEMMA OccursIsSuffix ==
  ASSUME NEW S, NEW p \in Seq(S), Len(p) >= 1, NEW x \in Seq(S), NEW i \in 1..(Len(x) + 1)
  PROVE  OccursAt(p, x, i) <=> SuffixAt(p, 1, x, i)
<1>1. Len(p) \in Nat /\ Len(x) \in Nat
  OBVIOUS
<1>2. ASSUME OccursAt(p, x, i) PROVE SuffixAt(p, 1, x, i)
  BY <1>1, <1>2 DEF OccursAt, SuffixAt
<1>3. ASSUME SuffixAt(p, 1, x, i) PROVE OccursAt(p, x, i)
  <2>1. \A m \in 1..Len(p) : i + m - 1 <= Len(x) /\ x[i + m - 1] = p[m]
    BY <1>3 DEF SuffixAt
  <2>2. Len(p) \in 1..Len(p)
    BY <1>1
  <2> QED
    BY <1>1, <2>1, <2>2 DEF OccursAt
<1> QED
  BY <1>2, <1>3

LEMMA SuffixStep ==
  ASSUME NEW S, NEW p \in Seq(S), NEW k \in 1..Len(p), NEW x \in Seq(S), NEW i \in Nat, i > 0
  PROVE  SuffixAt(p, k, x, i) <=>
           i <= Len(x) /\ x[i] = p[k] /\ SuffixAt(p, k + 1, x, i + 1)
<1>1. Len(p) \in Nat /\ Len(x) \in Nat
  OBVIOUS
<1>2. \A m \in Int : (i + 1) + m - (k + 1) = i + m - k
  BY <1>1
<1>3. ASSUME SuffixAt(p, k, x, i)
      PROVE  i <= Len(x) /\ x[i] = p[k] /\ SuffixAt(p, k + 1, x, i + 1)
  <2>1. i + k - k = i
    OBVIOUS
  <2>2. k \in k..Len(p)
    OBVIOUS
  <2>3. i <= Len(x) /\ x[i] = p[k]
    BY <1>3, <2>1, <2>2 DEF SuffixAt
  <2>4. ASSUME NEW m \in (k + 1)..Len(p)
        PROVE  (i + 1) + m - (k + 1) <= Len(x) /\ x[(i + 1) + m - (k + 1)] = p[m]
    <3>1. m \in k..Len(p) /\ m \in Int
      BY <2>4
    <3> QED
      BY <1>2, <1>3, <3>1 DEF SuffixAt
  <2> QED
    BY <2>3, <2>4 DEF SuffixAt
<1>4. ASSUME i <= Len(x), x[i] = p[k], SuffixAt(p, k + 1, x, i + 1)
      PROVE  SuffixAt(p, k, x, i)
  <2> SUFFICES ASSUME NEW m \in k..Len(p)
               PROVE  i + m - k <= Len(x) /\ x[i + m - k] = p[m]
    BY DEF SuffixAt
  <2>1. CASE m = k
    <3>1. i + m - k = i
      BY <2>1
    <3> QED
      BY <1>4, <2>1, <3>1
  <2>2. CASE m # k
    <3>1. m \in (k + 1)..Len(p) /\ m \in Int
      BY <2>2
    <3> QED
      BY <1>2, <1>4, <3>1 DEF SuffixAt
  <2> QED
    BY <2>1, <2>2
<1> QED
  BY <1>3, <1>4

\* What stands before does not matter.
LEMMA SuffixShift ==
  ASSUME NEW S, NEW p \in Seq(S), NEW k \in 1..(Len(p) + 1),
         NEW w \in Seq(S), NEW x \in Seq(S), NEW i \in Nat, i > 0
  PROVE  SuffixAt(p, k, w \o x, Len(w) + i) <=> SuffixAt(p, k, x, i)
<1>1. Len(p) \in Nat /\ Len(x) \in Nat /\ Len(w) \in Nat /\ Len(w \o x) = Len(w) + Len(x)
  OBVIOUS
<1>2. \A j \in 1..Len(x) : (w \o x)[Len(w) + j] = x[j]
  OBVIOUS
<1>3. ASSUME NEW m \in k..Len(p)
      PROVE  (Len(w) + i + m - k <= Len(w \o x) /\ (w \o x)[Len(w) + i + m - k] = p[m])
               <=> (i + m - k <= Len(x) /\ x[i + m - k] = p[m])
  <2> DEFINE j == i + m - k
  <2>1. j \in Nat /\ j > 0 /\ Len(w) + i + m - k = Len(w) + j
    BY <1>1
  <2>2. Len(w) + j <= Len(w \o x) <=> j <= Len(x)
    BY <1>1, <2>1
  <2>3. j <= Len(x) => (w \o x)[Len(w) + j] = x[j]
    BY <1>1, <1>2, <2>1
  <2> QED
    BY <2>1, <2>2, <2>3
<1> QED
  BY <1>3 DEF SuffixAt

\* As far as both go, w from place i on is p from place k on.
Fits(w, i, p, k) ==
  \A d \in 0..2 : i + d <= Len(w) /\ k + d <= Len(p) => w[i + d] = p[k + d]

\* A replacement neither holds the beginning of a pattern nor begins with the
\* rest of one.
LEMMA NoFit ==
  ASSUME NEW r \in DOMAIN Rules, NEW q \in DOMAIN Rules,
         NEW i \in 1..Len(Rules[r].new), NEW k \in 1..Len(Rules[q].old),
         i = 1 \/ k = 1
  PROVE  ~Fits(Rules[r].new, i, Rules[q].old, k)
<1>1. CASE r = 1
  <2> USE <1>1, RulesAre DEF Fits
  <2>1. CASE q = 1
    BY <2>1
  <2>2. CASE q = 2
    BY <2>2
  <2>3. CASE q = 3
    BY <2>3
  <2>4. CASE q = 4
    BY <2>4
  <2>5. CASE q = 5
    BY <2>5
  <2>6. CASE q = 6
    BY <2>6
  <2> QED
    BY <2>1, <2>2, <2>3, <2>4, <2>5, <2>6
<1>2. CASE r = 2
  <2> USE <1>2, RulesAre DEF Fits
  <2>1. CASE q = 1
    BY <2>1
  <2>2. CASE q = 2
    BY <2>2
  <2>3. CASE q = 3
    BY <2>3
  <2>4. CASE q = 4
    BY <2>4
  <2>5. CASE q = 5
    BY <2>5
  <2>6. CASE q = 6
    BY <2>6
  <2> QED
    BY <2>1, <2>2, <2>3, <2>4, <2>5, <2>6
<1>3. CASE r = 3
  <2> USE <1>3, RulesAre DEF Fits
  <2>1. CASE q = 1
    BY <2>1
  <2>2. CASE q = 2
    BY <2>2
  <2>3. CASE q = 3
    BY <2>3
  <2>4. CASE q = 4
    BY <2>4
  <2>5. CASE q = 5
    BY <2>5
  <2>6. CASE q = 6
    BY <2>6
  <2> QED
    BY <2>1, <2>2, <2>3, <2>4, <2>5, <2>6
<1>4. CASE r = 4
  <2> USE <1>4, RulesAre DEF Fits
  <2>1. CASE q = 1
    BY <2>1
  <2>2. CASE q = 2
    BY <2>2
  <2>3. CASE q = 3
    BY <2>3
  <2>4. CASE q = 4
    BY <2>4
  <2>5. CASE q = 5
    BY <2>5
  <2>6. CASE q = 6
    BY <2>6
  <2> QED
    BY <2>1, <2>2, <2>3, <2>4, <2>5, <2>6
<1>5. CASE r = 5
  <2> USE <1>5, RulesAre DEF Fits
  <2>1. CASE q = 1
    BY <2>1
  <2>2. CASE q = 2
    BY <2>2
  <2>3. CASE q = 3
    BY <2>3
  <2>4. CASE q = 4
    BY <2>4
  <2>5. CASE q = 5
    BY <2>5
  <2>6. CASE q = 6
    BY <2>6
  <2> QED
    BY <2>1, <2>2, <2>3, <2>4, <2>5, <2>6
<1>6. CASE r = 6
  <2> USE <1>6, RulesAre DEF Fits
  <2>1. CASE q = 1
    BY <2>1
  <2>2. CASE q = 2
    BY <2>2
  <2>3. CASE q = 3
    BY <2>3
  <2>4. CASE q = 4
    BY <2>4
  <2>5. CASE q = 5
    BY <2>5
  <2>6. CASE q = 6
    BY <2>6
  <2> QED
    BY <2>1, <2>2, <2>3, <2>4, <2>5, <2>6
<1> QED
  BY <1>1, <1>2, <1>3, <1>4, <1>5, <1>6, RulesAre

\* So it stays apart from what follows it.
LEMMA ReplacementFences ==
  ASSUME NEW r \in DOMAIN Rules, NEW x \in Seq(Symbols), NoBoundary(x)
  PROVE  /\ NoBoundary(Rules[r].new \o x)
         /\ \A q \in DOMAIN Rules : \A k \in 2..Len(Rules[q].old) :
              ~SuffixAt(Rules[q].old, k, Rules[r].new \o x, 1)
<1> DEFINE w == Rules[r].new
           y == w \o x
<1>1. w \in Seq(Symbols) /\ Len(w) \in 1..3
  <2>1. Written \union {"lt", "gt", "newline"} \subseteq Symbols
    BY DEF Symbols, Typed
  <2> QED
    BY <2>1, RulesTyped
<1>2. ASSUME NEW q \in DOMAIN Rules, NEW k \in 1..Len(Rules[q].old), NEW i \in 1..Len(w),
             i = 1 \/ k = 1, SuffixAt(Rules[q].old, k, y, i)
      PROVE  FALSE
  <2> DEFINE p == Rules[q].old
  <2>1. ~Fits(w, i, p, k)
    BY <1>2, NoFit
  <2>2. PICK d \in 0..2 : i + d <= Len(w) /\ k + d <= Len(p) /\ w[i + d] # p[k + d]
    BY <2>1 DEF Fits
  <2>3. Len(p) \in Nat /\ p \in Seq(Symbols)
    BY RulesTyped
  <2> HIDE DEF p, w
  <2>4. k + d \in k..Len(p) /\ i + (k + d) - k = i + d /\ i + d \in 1..Len(w)
    BY <1>1, <2>2, <2>3
  <2>5. y[i + d] = p[k + d]
    BY <1>2, <2>4 DEF SuffixAt, p
  <2>6. y[i + d] = w[i + d]
    BY <1>1, <2>4
  <2> QED
    BY <2>2, <2>5, <2>6
<1>3. ASSUME NEW q \in DOMAIN Rules, NEW i \in 1..Len(y), SuffixAt(Rules[q].old, 1, y, i)
      PROVE  FALSE
  <2>0. Len(Rules[q].old) \in 2..4 /\ Rules[q].old \in Seq(Symbols)
    BY RulesTyped
  <2> HIDE DEF w
  <2>1. CASE i \in 1..Len(w)
    <3> DEFINE n == Len(Rules[q].old)
    <3>1. n \in 2..4 => 1 \in 1..n
      <4> HIDE DEF n
      <4> QED
        OBVIOUS
    <3> QED
      BY <1>2, <1>3, <2>0, <2>1, <3>1
  <2>2. CASE i \notin 1..Len(w)
    <3> DEFINE j == i - Len(w)
    <3>1. j \in 1..Len(x) /\ i = Len(w) + j /\ j \in Nat /\ j > 0
      BY <1>1, <1>3, <2>2
    <3> DEFINE n == Len(Rules[q].old)
    <3>2. n \in 2..4 => 1 \in 1..(n + 1)
      <4> HIDE DEF n
      <4> QED
        OBVIOUS
    <3> HIDE DEF j
    <3>3. SuffixAt(Rules[q].old, 1, x, j)
      BY <1>1, <1>3, <2>0, <3>1, <3>2, SuffixShift
    <3> QED
      BY <3>1, <3>3 DEF NoBoundary
  <2> QED
    BY <2>1, <2>2
<1>4. ASSUME NEW q \in DOMAIN Rules, NEW k \in 2..Len(Rules[q].old),
             SuffixAt(Rules[q].old, k, y, 1)
      PROVE  FALSE
  <2>1. Len(Rules[q].old) \in 2..4
    BY RulesTyped
  <2> DEFINE n == Len(Rules[q].old)
             l == Len(w)
  <2>2. k \in 2..n => k \in 1..n
    <3> HIDE DEF n
    <3> QED
      OBVIOUS
  <2>3. l \in 1..3 => 1 \in 1..l
    <3> HIDE DEF l
    <3> QED
      OBVIOUS
  <2> HIDE DEF w, y
  <2> QED
    BY <1>1, <1>2, <1>4, <2>2, <2>3
<1> QED
  BY <1>3, <1>4 DEF NoBoundary

\* The first rule that matches at a place leads to a later one.
LEMMA FirstMatch ==
  ASSUME NEW s \in Seq(Symbols), NEW i \in 1..Len(s), Matching(s, i) # {}
  PROVE  LET r == Min(Matching(s, i))
         IN  /\ r \in DOMAIN Rules /\ OccursAt(Rules[r].old, s, i)
             /\ i + Len(Rules[r].old) \in (i + 1)..(Len(s) + 1)
<1> DEFINE M == Matching(s, i)
           r == Min(M)
<1>1. M \subseteq 1..6 /\ M # {}
  BY RulesAre DEF Matching
<1>2. \E a \in M : \A b \in M : a <= b
  <2> HIDE DEF M
  <2>1. CASE 1 \in M
    BY <1>1, <2>1
  <2>2. CASE 1 \notin M /\ 2 \in M
    BY <1>1, <2>2
  <2>3. CASE M \intersect {1, 2} = {} /\ 3 \in M
    BY <1>1, <2>3
  <2>4. CASE M \intersect {1, 2, 3} = {} /\ 4 \in M
    BY <1>1, <2>4
  <2>5. CASE M \intersect {1, 2, 3, 4} = {} /\ 5 \in M
    BY <1>1, <2>5
  <2>6. CASE M \intersect {1, 2, 3, 4, 5} = {}
    <3>1. ASSUME NEW b \in M PROVE b = 6
      <4>1. b \in 1..6 /\ b \notin {1, 2, 3, 4, 5}
        BY <1>1, <2>6
      <4> QED
        BY <4>1
    <3>2. 6 \in M
      BY <1>1, <3>1
    <3> QED
      BY <3>1, <3>2
  <2> QED
    BY <2>1, <2>2, <2>3, <2>4, <2>5, <2>6
<1>3. r \in M
  <2> HIDE DEF M
  <2> QED
    BY <1>2 DEF Min
<1>4. r \in DOMAIN Rules /\ OccursAt(Rules[r].old, s, i)
  BY <1>3 DEF Matching
<1> HIDE DEF r, M
<1> DEFINE n == Len(Rules[r].old)
<1>5. n \in 2..4
  BY <1>4, RulesTyped
<1>6. i + n - 1 <= Len(s)
  BY <1>4 DEF OccursAt
<1>7. i + n \in (i + 1)..(Len(s) + 1)
  <2>1. Len(s) \in Nat
    OBVIOUS
  <2> HIDE DEF n
  <2> QED
    BY <1>5, <1>6, <2>1
<1> QED
  BY <1>4, <1>7 DEF r, M

\* What Rewrite does at a place: it keeps the symbol that is there, or writes
\* the replacement of a pattern that is.
KeptAt(s, i, rest) == Matching(s, i) = {} /\ Rewrite(s, i, rest) = <<s[i]>> \o rest[i + 1]
ReplacedAt(s, i, rest, r) ==
  /\ r \in DOMAIN Rules /\ i + Len(Rules[r].old) \in (i + 1)..(Len(s) + 1)
  /\ Rewrite(s, i, rest) = Rules[r].new \o rest[i + Len(Rules[r].old)]

LEMMA RewriteDoes ==
  ASSUME NEW s \in Seq(Symbols), NEW i \in 1..Len(s), NEW rest
  PROVE  KeptAt(s, i, rest) \/ \E r \in DOMAIN Rules : ReplacedAt(s, i, rest, r)
<1>1. CASE Matching(s, i) = {}
  BY <1>1 DEF Rewrite, KeptAt
<1>2. CASE Matching(s, i) # {}
  <2> DEFINE r == Min(Matching(s, i))
  <2>1. ~(i > Len(s))
    OBVIOUS
  <2>2. Rewrite(s, i, rest) = Rules[r].new \o rest[i + Len(Rules[r].old)]
    BY <1>2, <2>1, Zenon DEF Rewrite
  <2>3. r \in DOMAIN Rules /\ i + Len(Rules[r].old) \in (i + 1)..(Len(s) + 1)
    BY <1>2, FirstMatch
  <2> HIDE DEF r
  <2> QED
    BY <2>2, <2>3 DEF ReplacedAt
<1> QED
  BY <1>1, <1>2

\* What becomes of s from each place on
IsWalk(s, R) ==
  /\ DOMAIN R = 1..(Len(s) + 1)
  /\ \A i \in 1..(Len(s) + 1) : R[i] = Rewrite(s, i, R)

\* The walk looks ahead only.
LEMMA RewriteLooksAhead ==
  ASSUME NEW s \in Seq(Symbols), NEW i \in 1..(Len(s) + 1), NEW f, NEW g,
         \A j \in (i + 1)..(Len(s) + 1) : f[j] = g[j]
  PROVE  Rewrite(s, i, f) = Rewrite(s, i, g)
<1>1. CASE i > Len(s)
  BY <1>1 DEF Rewrite
<1>2. CASE i <= Len(s)
  <2>1. i \in 1..Len(s) /\ i + 1 \in (i + 1)..(Len(s) + 1)
    BY <1>2
  <2>2. CASE Matching(s, i) = {}
    <3>1. f[i + 1] = g[i + 1]
      BY <2>1
    <3> QED
      BY <2>2, <3>1 DEF Rewrite
  <2>3. CASE Matching(s, i) # {}
    <3> DEFINE r == Min(Matching(s, i))
               n == i + Len(Rules[r].old)
    <3>1. n \in (i + 1)..(Len(s) + 1)
      BY <2>1, <2>3, FirstMatch
    <3>2. f[n] = g[n]
      BY <3>1
    <3>3. Rewrite(s, i, f) = Rules[r].new \o f[n] /\ Rewrite(s, i, g) = Rules[r].new \o g[n]
      <4>1. ~(i > Len(s))
        BY <1>2
      <4> QED
        BY <2>3, <4>1, Zenon DEF Rewrite
    <3> QED
      BY <3>2, <3>3
  <2> QED
    BY <2>2, <2>3
<1> QED
  BY <1>1, <1>2

\* There is such a walk, and Replace takes it.
LEMMA ReplaceWalks ==
  ASSUME NEW s \in Seq(Symbols)
  PROVE  \E R : IsWalk(s, R) /\ Replace(s) = R[1]
<1> DEFINE N == Len(s)
           Solved(k) == \E g : \A i \in (N + 1 - k)..(N + 1) : g[i] = Rewrite(s, i, g)
           S == {k \in 0..N : Solved(k)}
           Rhs(f) == [i \in 1..(N + 1) |-> Rewrite(s, i, f)]
           R == CHOOSE f : f = Rhs(f)
<1>0. N \in Nat
  OBVIOUS
<1>1. Solved(0)
  <2> DEFINE g == [i \in {N + 1} |-> << >>]
  <2>1. g[N + 1] = Rewrite(s, N + 1, g)
    <3>1. N + 1 > Len(s)
      BY <1>0
    <3>2. Rewrite(s, N + 1, g) = << >>
      BY <3>1, Zenon DEF Rewrite
    <3> QED
      BY <3>2
  <2>2. \A i \in (N + 1 - 0)..(N + 1) : i = N + 1
    BY <1>0
  <2> QED
    BY <2>1, <2>2
<1>2. ASSUME NEW k \in 1..N, Solved(k - 1) PROVE Solved(k)
  <2>1. PICK g : \A i \in (N + 1 - (k - 1))..(N + 1) : g[i] = Rewrite(s, i, g)
    BY <1>2
  <2> DEFINE a == N + 1 - k
             h == [i \in a..(N + 1) |-> IF i = a THEN Rewrite(s, a, g) ELSE g[i]]
  <2>2. a \in 1..N /\ N + 1 - (k - 1) = a + 1
    BY <1>0
  <2>3. \A j \in (a + 1)..(N + 1) : h[j] = g[j]
    <3> HIDE DEF N
    <3> QED
      BY <1>0, <2>2
  <2>4. h[a] = Rewrite(s, a, g)
    <3> HIDE DEF N
    <3> QED
      BY <1>0, <2>2
  <2>5. ASSUME NEW i \in a..(N + 1) PROVE h[i] = Rewrite(s, i, h)
    <3>1. i \in 1..(N + 1) /\ \A j \in (i + 1)..(N + 1) : j \in (a + 1)..(N + 1)
      BY <1>0, <2>2
    <3>2. \A j \in (i + 1)..(N + 1) : h[j] = g[j]
      BY <2>3, <3>1
    <3> HIDE DEF h
    <3>3. Rewrite(s, i, h) = Rewrite(s, i, g)
      BY <3>1, <3>2, RewriteLooksAhead
    <3>4. CASE i = a
      BY <2>4, <3>3, <3>4
    <3>5. CASE i # a
      <4>1. i \in (a + 1)..(N + 1)
        BY <1>0, <2>2, <3>5
      <4> QED
        BY <2>1, <2>2, <2>3, <3>3, <4>1
    <3> QED
      BY <3>4, <3>5
  <2> HIDE DEF h
  <2> QED
    BY <2>5
<1> HIDE DEF Solved
<1>3. N \in S
  <2>1. 0 \in S /\ \A k \in 1..N : k - 1 \in S => k \in S
    <3> HIDE DEF N
    <3> QED
      BY <1>0, <1>1, <1>2
  <2> HIDE DEF S, N
  <2>2. \A k \in 0..N : k \in S
    BY <1>0, <2>1, LoopInduction
  <2> QED
    BY <1>0, <2>2
<1>4. PICK g : \A i \in 1..(N + 1) : g[i] = Rewrite(s, i, g)
  <2>1. N + 1 - N = 1
    BY <1>0
  <2> QED
    BY <1>3, <2>1 DEF Solved
<1> DEFINE f == [i \in 1..(N + 1) |-> g[i]]
<1>5. f = Rhs(f)
  <2>1. ASSUME NEW i \in 1..(N + 1) PROVE Rewrite(s, i, f) = g[i]
    <3>1. \A j \in (i + 1)..(N + 1) : f[j] = g[j]
      <4> HIDE DEF N
      <4> QED
        BY <1>0
    <3> HIDE DEF f
    <3>2. Rewrite(s, i, f) = Rewrite(s, i, g)
      BY <3>1, RewriteLooksAhead
    <3> QED
      BY <1>4, <3>2
  <2> QED
    BY <2>1
<1>6. R = Rhs(R)
  <2> HIDE DEF f, Rhs
  <2> QED
    BY <1>5
<1>7. Replace(s) = R[1]
  BY DEF Replace
<1> HIDE DEF R
<1>8. IsWalk(s, R)
  BY <1>6 DEF IsWalk
<1> QED
  BY <1>7, <1>8

LEMMA WalkEndsEmpty ==
  ASSUME NEW s \in Seq(Symbols), NEW R, IsWalk(s, R)
  PROVE  R[Len(s) + 1] = << >>
<1>1. Len(s) \in Nat /\ Len(s) + 1 > Len(s) /\ Len(s) + 1 \in 1..(Len(s) + 1)
  OBVIOUS
<1>2. Rewrite(s, Len(s) + 1, R) = << >>
  BY <1>1, Zenon DEF Rewrite
<1> QED
  BY <1>1, <1>2 DEF IsWalk

\* What becomes of a text is made of its symbols and those replacements write.
LEMMA WalkTyped ==
  ASSUME NEW C, C \subseteq Symbols, Written \union {"lt", "gt", "newline"} \subseteq C,
         NEW s \in Seq(C), NEW R, IsWalk(s, R)
  PROVE  \A i \in 1..(Len(s) + 1) : R[i] \in Seq(C)
<1> DEFINE N == Len(s) + 1
           S == {i \in 1..N : R[i] \in Seq(C)}
<1>0. s \in Seq(Symbols) /\ N \in Nat /\ N > 0
  <2>1. s \in Seq(Symbols)
    BY SeqTyped
  <2> QED
    BY <2>1
<1>1. ASSUME NEW i \in 1..N, \A j \in (i + 1)..N : j \in S PROVE R[i] \in Seq(C)
  <2>1. CASE i = N
    <3>1. R[i] = << >>
      BY <1>0, <2>1, WalkEndsEmpty
    <3> QED
      BY <3>1
  <2>2. CASE i # N
    <3>1. i \in 1..Len(s)
      BY <1>0, <2>2
    <3>2. R[i] = Rewrite(s, i, R)
      BY DEF IsWalk
    <3>3. CASE KeptAt(s, i, R)
      <4>1. R[i] = <<s[i]>> \o R[i + 1]
        BY <3>2, <3>3 DEF KeptAt
      <4>2. i + 1 \in (i + 1)..N /\ s[i] \in C
        BY <1>0, <3>1
      <4>3. R[i + 1] \in Seq(C) /\ <<s[i]>> \in Seq(C)
        BY <1>1, <4>2
      <4> HIDE DEF N
      <4> QED
        BY <4>1, <4>3
    <3>4. ASSUME NEW r \in DOMAIN Rules, ReplacedAt(s, i, R, r) PROVE R[i] \in Seq(C)
      <4> DEFINE j == i + Len(Rules[r].old)
                 w == Rules[r].new
      <4>1. R[i] = w \o R[j] /\ j \in (i + 1)..N
        BY <3>2, <3>4 DEF ReplacedAt
      <4>2. w \in Seq(Written \union {"lt", "gt", "newline"})
        BY RulesTyped
      <4> HIDE DEF j, w, N
      <4>3. w \in Seq(C)
        BY <4>2, SeqTyped
      <4>4. R[j] \in Seq(C)
        BY <1>1, <4>1
      <4> QED
        BY <4>1, <4>3, <4>4
    <3> QED
      BY <1>0, <3>1, <3>3, <3>4, RewriteDoes
  <2> QED
    BY <2>1, <2>2
<1>2. \A i \in 1..N : i \in S
  <2>1. \A i \in 1..N : (\A j \in (i + 1)..N : j \in S) => i \in S
    BY <1>1
  <2> HIDE DEF N, S
  <2> QED
    BY <1>0, <2>1, BackwardInduction
<1> QED
  BY <1>2 DEF S

\* What becomes of the text from place i on holds no pattern, and begins with
\* the rest of one only where the text does.
Faithful(s, i, x) ==
  \A q \in DOMAIN Rules : \A k \in 2..Len(Rules[q].old) :
    SuffixAt(Rules[q].old, k, x, 1) => SuffixAt(Rules[q].old, k, s, i)

LEMMA NothingIsFaithful ==
  ASSUME NEW s, NEW i PROVE NoBoundary(<< >>) /\ Faithful(s, i, << >>)
<1>1. NoBoundary(<< >>)
  BY DEF NoBoundary
<1>2. ASSUME NEW q \in DOMAIN Rules, NEW k \in 2..Len(Rules[q].old),
             SuffixAt(Rules[q].old, k, << >>, 1)
      PROVE  FALSE
  <2>1. k \in k..Len(Rules[q].old) /\ 1 + k - k = 1
    BY PatternPlaces
  <2>2. 1 <= Len(<< >>)
    BY <1>2, <2>1 DEF SuffixAt
  <2> QED
    BY <2>2
<1> QED
  BY <1>1, <1>2 DEF Faithful

LEMMA KeepingIsFaithful ==
  ASSUME NEW s \in Seq(Symbols), NEW i \in 1..Len(s), Matching(s, i) = {},
         NEW x \in Seq(Symbols), NoBoundary(x), Faithful(s, i + 1, x)
  PROVE  NoBoundary(<<s[i]>> \o x) /\ Faithful(s, i, <<s[i]>> \o x)
<1> DEFINE c == <<s[i]>>
           y == c \o x
<1>1. /\ c \in Seq(Symbols) /\ Len(c) = 1 /\ y \in Seq(Symbols)
      /\ y[1] = s[i] /\ Len(y) = 1 + Len(x) /\ Len(x) \in Nat /\ i \in Nat /\ i > 0
  OBVIOUS
<1> HIDE DEF c, y
<1>2. ASSUME NEW q \in DOMAIN Rules, NEW k \in 1..Len(Rules[q].old),
             SuffixAt(Rules[q].old, k, y, 1)
      PROVE  SuffixAt(Rules[q].old, k, s, i)
  <2> DEFINE p == Rules[q].old
  <2>0. p \in Seq(Symbols) /\ Len(p) \in Nat
    BY RulesTyped, PatternPlaces
  <2> HIDE DEF p
  <2>1. k \in 1..Len(p) /\ SuffixAt(p, k, y, 1)
    BY <1>2 DEF p
  <2>2. y[1] = p[k] /\ SuffixAt(p, k + 1, y, 1 + 1)
    BY <1>1, <2>0, <2>1, SuffixStep
  <2>3. SuffixAt(p, k + 1, x, 1)
    <3> DEFINE l == k + 1
    <3>1. l \in 1..(Len(p) + 1)
      BY <2>0, <2>1
    <3>2. SuffixAt(p, l, c \o x, Len(c) + 1)
      BY <1>1, <2>2 DEF y
    <3> HIDE DEF l
    <3>3. c \in Seq(Symbols) /\ p \in Seq(Symbols) /\ 1 \in Nat /\ 1 > 0
      BY <1>1, <2>0
    <3>4. SuffixAt(p, l, c \o x, Len(c) + 1) <=> SuffixAt(p, l, x, 1)
      BY <3>1, <3>3, SuffixShift
    <3> QED
      BY <3>2, <3>4 DEF l
  <2>4. SuffixAt(p, k + 1, s, i + 1)
    <3>1. CASE k < Len(p)
      <4>1. k + 1 \in 2..Len(p)
        BY <2>0, <2>1, <3>1
      <4> QED
        BY <2>3, <4>1 DEF Faithful, p
    <3>2. CASE k = Len(p)
      <4>1. (k + 1)..Len(p) = {}
        BY <2>0, <3>2
      <4> QED
        BY <4>1 DEF SuffixAt
    <3> QED
      BY <2>0, <2>1, <3>1, <3>2
  <2>5. SuffixAt(p, k, s, i) <=>
          i <= Len(s) /\ s[i] = p[k] /\ SuffixAt(p, k + 1, s, i + 1)
    BY <1>1, <2>0, <2>1, SuffixStep
  <2>6. SuffixAt(p, k, s, i)
    BY <1>1, <2>2, <2>4, <2>5
  <2> QED
    BY <2>6 DEF p
<1>3. Faithful(s, i, y)
  <2> SUFFICES ASSUME NEW q \in DOMAIN Rules, NEW k \in 2..Len(Rules[q].old),
                      SuffixAt(Rules[q].old, k, y, 1)
               PROVE  SuffixAt(Rules[q].old, k, s, i)
    BY DEF Faithful
  <2>1. k \in 1..Len(Rules[q].old)
    BY PatternPlaces
  <2> QED
    BY <1>2, <2>1
<1>4. ASSUME NEW q \in DOMAIN Rules, NEW j \in 1..Len(y), SuffixAt(Rules[q].old, 1, y, j)
      PROVE  FALSE
  <2> DEFINE p == Rules[q].old
  <2>0. p \in Seq(Symbols) /\ Len(p) >= 1 /\ 1 \in 1..Len(p) /\ 1 \in 1..(Len(p) + 1)
    BY RulesTyped, PatternPlaces
  <2>1. CASE j = 1
    <3>2. SuffixAt(p, 1, s, i)
      BY <1>2, <1>4, <2>0, <2>1
    <3>3. OccursAt(p, s, i)
      <4> HIDE DEF p
      <4>1. i \in 1..(Len(s) + 1)
        OBVIOUS
      <4> QED
        BY <2>0, <3>2, <4>1, OccursIsSuffix
    <3> QED
      BY <3>3 DEF Matching
  <2>2. CASE j # 1
    <3> DEFINE l == j - 1
    <3>1. l \in 1..Len(x) /\ j = Len(c) + l /\ l \in Nat /\ l > 0
      BY <1>1, <2>2
    <3> HIDE DEF l
    <3>2. SuffixAt(p, 1, x, l)
      <4>1. SuffixAt(p, 1, y, j)
        BY <1>4
      <4> HIDE DEF p
      <4> QED
        BY <1>1, <2>0, <3>1, <4>1, SuffixShift DEF y
    <3> QED
      BY <3>1, <3>2 DEF NoBoundary
  <2> QED
    BY <2>1, <2>2
<1>5. NoBoundary(y)
  BY <1>4 DEF NoBoundary
<1> QED
  BY <1>3, <1>5 DEF y, c

\* No rule applies to what the rules have made.
LEMMA ReplaceLeavesNone ==
  ASSUME NEW s \in Seq(Symbols)
  PROVE  Replace(s) \in Seq(Symbols) /\ NoBoundary(Replace(s))
<1>1. PICK R : IsWalk(s, R) /\ Replace(s) = R[1]
  BY ReplaceWalks
<1> DEFINE N == Len(s) + 1
           S == {i \in 1..N : NoBoundary(R[i]) /\ Faithful(s, i, R[i])}
<1>2. \A i \in 1..N : R[i] \in Seq(Symbols)
  <2>1. Written \union {"lt", "gt", "newline"} \subseteq Symbols
    BY DEF Symbols, Typed
  <2> QED
    BY <1>1, <2>1, WalkTyped
<1>3. N \in Nat /\ N > 0 /\ Len(s) \in Nat
  OBVIOUS
<1>4. ASSUME NEW i \in 1..N, \A j \in (i + 1)..N : j \in S PROVE i \in S
  <2>1. CASE i = N
    BY <1>1, <2>1, WalkEndsEmpty, NothingIsFaithful
  <2>2. CASE i # N
    <3>1. i \in 1..Len(s)
      BY <1>3, <2>2
    <3>2. R[i] = Rewrite(s, i, R)
      BY <1>1 DEF IsWalk
    <3>3. CASE KeptAt(s, i, R)
      <4>1. Matching(s, i) = {} /\ R[i] = <<s[i]>> \o R[i + 1]
        BY <3>2, <3>3 DEF KeptAt
      <4>2. i + 1 \in (i + 1)..N /\ i + 1 \in 1..N
        BY <1>3, <3>1
      <4>3. R[i + 1] \in Seq(Symbols) /\ NoBoundary(R[i + 1]) /\ Faithful(s, i + 1, R[i + 1])
        BY <1>2, <1>4, <4>2
      <4> HIDE DEF N
      <4> QED
        BY <3>1, <4>1, <4>3, KeepingIsFaithful
    <3>4. ASSUME NEW r \in DOMAIN Rules, ReplacedAt(s, i, R, r) PROVE i \in S
      <4> DEFINE j == i + Len(Rules[r].old)
      <4>1. R[i] = Rules[r].new \o R[j] /\ j \in (i + 1)..N
        BY <3>2, <3>4 DEF ReplacedAt
      <4> HIDE DEF j
      <4>2. R[j] \in Seq(Symbols) /\ NoBoundary(R[j])
        <5>1. j \in 1..N
          BY <1>3, <3>1, <4>1
        <5> QED
          BY <1>2, <1>4, <4>1, <5>1
      <4>3. NoBoundary(R[i]) /\ \A q \in DOMAIN Rules : \A k \in 2..Len(Rules[q].old) :
                                  ~SuffixAt(Rules[q].old, k, R[i], 1)
        BY <4>1, <4>2, ReplacementFences
      <4> QED
        BY <4>3 DEF Faithful
    <3> QED
      BY <3>1, <3>3, <3>4, RewriteDoes
  <2> QED
    BY <2>1, <2>2
<1> HIDE DEF S
<1>5. \A i \in 1..N : i \in S
  <2> HIDE DEF N
  <2> QED
    BY <1>3, <1>4, BackwardInduction
<1>6. 1 \in 1..N
  BY <1>3
<1> QED
  BY <1>1, <1>2, <1>5, <1>6 DEF S

\* A text to which none applies stays as it is.
LEMMA ReplaceOfNone ==
  ASSUME NEW s \in Seq(Symbols), NoBoundary(s)
  PROVE  Replace(s) = s
<1>1. PICK R : IsWalk(s, R) /\ Replace(s) = R[1]
  BY ReplaceWalks
<1> DEFINE N == Len(s) + 1
           Same(i) == /\ Len(R[i]) = N - i
                      /\ \A k \in 1..(N - i) : R[i][k] = s[i + k - 1]
           S == {i \in 1..N : Same(i)}
<1>2. \A i \in 1..N : R[i] \in Seq(Symbols)
  <2>1. Written \union {"lt", "gt", "newline"} \subseteq Symbols
    BY DEF Symbols, Typed
  <2> QED
    BY <1>1, <2>1, WalkTyped
<1>3. N \in Nat /\ N > 0 /\ Len(s) \in Nat
  OBVIOUS
<1>4. \A i \in 1..Len(s) : Matching(s, i) = {}
  <2> SUFFICES ASSUME NEW i \in 1..Len(s), NEW r \in Matching(s, i) PROVE FALSE
    OBVIOUS
  <2> DEFINE p == Rules[r].old
  <2>1. r \in DOMAIN Rules /\ OccursAt(p, s, i)
    BY DEF Matching
  <2>2. p \in Seq(Symbols) /\ Len(p) >= 1
    BY <2>1, RulesTyped, PatternPlaces
  <2>3. SuffixAt(p, 1, s, i)
    <3> HIDE DEF p
    <3>1. i \in 1..(Len(s) + 1)
      OBVIOUS
    <3> QED
      BY <2>1, <2>2, <3>1, OccursIsSuffix
  <2> QED
    BY <2>1, <2>3 DEF NoBoundary
<1>5. ASSUME NEW i \in 1..N, \A j \in (i + 1)..N : j \in S PROVE Same(i)
  <2>1. CASE i = N
    BY <1>1, <1>3, <2>1, WalkEndsEmpty
  <2>2. CASE i # N
    <3>1. i \in 1..Len(s)
      BY <1>3, <2>2
    <3>2. R[i] = <<s[i]>> \o R[i + 1]
      <4>1. R[i] = Rewrite(s, i, R) /\ ~(i > Len(s))
        BY <1>1, <3>1 DEF IsWalk
      <4> QED
        BY <1>4, <3>1, <4>1, Zenon DEF Rewrite
    <3>3. i + 1 \in (i + 1)..N /\ i + 1 \in 1..N
      BY <1>3, <3>1
    <3>4. Same(i + 1) /\ R[i + 1] \in Seq(Symbols) /\ s[i] \in Symbols
      BY <1>2, <1>5, <3>1, <3>3
    <3> DEFINE x == R[i + 1]
    <3>5. /\ Len(<<s[i]>> \o x) = 1 + Len(x) /\ (<<s[i]>> \o x)[1] = s[i]
          /\ \A k \in 2..(1 + Len(x)) : (<<s[i]>> \o x)[k] = x[k - 1]
      <4> HIDE DEF x
      <4>1. x \in Seq(Symbols)
        BY <3>4 DEF x
      <4> QED
        BY <3>4, <4>1
    <3>6. Len(x) = N - (i + 1) /\ \A k \in 1..(N - (i + 1)) : x[k] = s[i + 1 + k - 1]
      BY <3>4
    <3> HIDE DEF x
    <3>7. Len(R[i]) = N - i
      BY <1>3, <3>1, <3>2, <3>5, <3>6 DEF x
    <3>8. ASSUME NEW k \in 1..(N - i) PROVE R[i][k] = s[i + k - 1]
      <4>1. CASE k = 1
        <5>1. i + 1 - 1 = i
          BY <3>1
        <5> QED
          BY <3>2, <3>5, <4>1, <5>1 DEF x
      <4>2. CASE k # 1
        <5>1. k \in 2..(1 + Len(x)) /\ k - 1 \in 1..(N - (i + 1)) /\ i + 1 + (k - 1) - 1 = i + k - 1
          BY <1>3, <3>1, <3>6, <4>2
        <5>2. R[i][k] = x[k - 1]
          BY <3>2, <3>5, <5>1 DEF x
        <5>3. x[k - 1] = s[i + 1 + (k - 1) - 1]
          BY <3>6, <5>1
        <5> QED
          BY <5>1, <5>2, <5>3
      <4> QED
        BY <4>1, <4>2
    <3> QED
      BY <3>7, <3>8
  <2> QED
    BY <2>1, <2>2
<1> HIDE DEF Same
<1>6. \A i \in 1..N : i \in S
  <2>1. \A i \in 1..N : (\A j \in (i + 1)..N : j \in S) => i \in S
    BY <1>5
  <2> HIDE DEF N, S
  <2> QED
    BY <1>3, <2>1, BackwardInduction
<1>7. Same(1) /\ R[1] \in Seq(Symbols)
  <2>1. 1 \in 1..N
    BY <1>3
  <2> QED
    BY <1>2, <1>6, <2>1
<1>8. Len(R[1]) = Len(s) /\ \A k \in 1..Len(s) : R[1][k] = s[k]
  <2>1. N - 1 = Len(s) /\ \A k \in 1..Len(s) : 1 + k - 1 = k
    BY <1>3
  <2> QED
    BY <1>7, <2>1 DEF Same
<1>9. R[1] = s
  BY <1>7, <1>8, SeqEqual
<1> QED
  BY <1>1, <1>9

\* What the first pass leaves
Seen == Symbols \ {"return", "unseen"}

LEMMA PassTyped ==
  ASSUME NEW out \in Seq(Seen), NEW c \in Symbols
  PROVE  Pass(out, c) \in Seq(Seen)
<1>1. CASE c = "unseen"
  BY <1>1 DEF Pass
<1>2. CASE c # "unseen"
  <2> DEFINE d == IF c = "return" THEN "newline" ELSE c
  <2>1. d \in Seen
    BY <1>2 DEF Seen, Symbols, Typed
  <2>2. Pass(out, c) = Append(out, d)
    BY <1>2 DEF Pass
  <2> HIDE DEF d
  <2> QED
    BY <2>1, <2>2
<1> QED
  BY <1>1, <1>2

\* The first pass goes through the text symbol by symbol.
LEMMA VisiblePasses ==
  ASSUME NEW s \in Seq(Symbols)
  PROVE  \E F : /\ F[0] = << >>
                /\ \A n \in 1..Len(s) : F[n] = Pass(F[n - 1], s[n])
                /\ Visible(s) = F[Len(s)]
<1> DEFINE N == Len(s)
           A == Seq(Seen)
           step == [x \in (1..N) \X A |-> Pass(x[2], s[x[1]])]
           Rhs(g) == [t \in SUBSET DOMAIN s |->
                        IF t = {} THEN << >> ELSE Pass(g[t \ {Max(t)}], s[Max(t)])]
           G == CHOOSE g : g = Rhs(g)
<1>1. N \in Nat /\ DOMAIN s = 1..N
  OBVIOUS
<1>2. << >> \in A
  OBVIOUS
<1>3. ASSUME NEW i \in 1..N, NEW out \in A PROVE Pass(out, s[i]) \in A
  BY <1>1, PassTyped
<1>4. PICK g \in [SUBSET (1..N) -> A] : IsFold(g, N, << >>, step)
  <2>1. N \in Nat
    BY <1>1
  <2>2. step \in [(1..N) \X A -> A]
    BY <1>3
  <2> HIDE DEF step, A, N
  <2> QED
    BY <1>2, <2>1, <2>2, FoldExists
<1>5. g = Rhs(g)
  <2>1. ASSUME NEW t \in SUBSET (1..N), t # {}
        PROVE  step[<<Max(t), g[t \ {Max(t)}]>>] = Pass(g[t \ {Max(t)}], s[Max(t)])
    <3>0. N \in Nat /\ t \subseteq 0..N
      BY <1>1, <2>1
    <3>1. Max(t) \in 1..N
      BY <2>1, <3>0, MaxOfPlaces
    <3>2. g[t \ {Max(t)}] \in A
      BY <2>1
    <3> HIDE DEF A
    <3> QED
      BY <3>1, <3>2
  <2>2. \A t \in SUBSET (1..N) :
          g[t] = IF t = {} THEN << >> ELSE Pass(g[t \ {Max(t)}], s[Max(t)])
    <3> HIDE DEF A, step, N
    <3> QED
      BY <1>4, <2>1 DEF IsFold
  <2> HIDE DEF A, step, N
  <2> QED
    BY <1>1, <2>2
<1>6. G = Rhs(G)
  <2> HIDE DEF Rhs
  <2> QED
    BY <1>5
<1>7. Visible(s) = G[DOMAIN s]
  BY DEF Visible, FoldLeft, MapThenFoldSet
<1> HIDE DEF G, A, N
<1>8. /\ G[{}] = << >>
      /\ \A t \in SUBSET (1..N) : t # {} => G[t] = Pass(G[t \ {Max(t)}], s[Max(t)])
  <2>1. G = [t \in SUBSET (1..N) |->
               IF t = {} THEN << >> ELSE Pass(G[t \ {Max(t)}], s[Max(t)])]
    BY <1>1, <1>6
  <2> QED
    BY <2>1
<1> DEFINE F == [n \in 0..N |-> G[1..n]]
<1>9. F[0] = << >>
  BY <1>1, <1>8, LastOfPrefix
<1>10. ASSUME NEW n \in 1..N PROVE F[n] = Pass(F[n - 1], s[n])
  <2>1. n \in Nat /\ n > 0 /\ 1..n \in SUBSET (1..N) /\ n - 1 \in 0..N /\ n \in 0..N
    BY <1>1
  <2>2. G[1..n] = Pass(G[1..(n - 1)], s[n])
    BY <1>8, <2>1, LastOfPrefix
  <2> QED
    BY <2>1, <2>2
<1>11. Visible(s) = F[N]
  BY <1>1, <1>7
<1> QED
  BY <1>9, <1>10, <1>11 DEF N

\* It leaves nothing invisible,
LEMMA VisibleTyped ==
  ASSUME NEW s \in Seq(Symbols)
  PROVE  Visible(s) \in Seq(Seen)
<1> DEFINE N == Len(s)
<1>1. PICK F : /\ F[0] = << >>
               /\ \A n \in 1..N : F[n] = Pass(F[n - 1], s[n])
               /\ Visible(s) = F[N]
  BY VisiblePasses
<1>2. N \in Nat /\ \A n \in 1..N : s[n] \in Symbols
  OBVIOUS
<1> HIDE DEF N
<1> DEFINE S == {n \in 0..N : F[n] \in Seq(Seen)}
<1>3. 0 \in S
  <2>1. << >> \in Seq(Seen) /\ 0 \in 0..N
    BY <1>2
  <2>2. F[0] \in Seq(Seen)
    BY <1>1, <2>1
  <2> QED
    BY <2>1, <2>2
<1>4. ASSUME NEW n \in 1..N, n - 1 \in S PROVE n \in S
  <2>1. F[n - 1] \in Seq(Seen) /\ s[n] \in Symbols /\ n \in 0..N
    BY <1>2, <1>4
  <2>2. F[n] = Pass(F[n - 1], s[n])
    BY <1>1
  <2>3. F[n] \in Seq(Seen)
    BY <2>1, <2>2, PassTyped
  <2> QED
    BY <2>1, <2>3
<1> HIDE DEF S
<1>5. \A n \in 0..N : n \in S
  BY <1>2, <1>3, <1>4, LoopInduction
<1> QED
  BY <1>1, <1>2, <1>5 DEF S

\* and a text with nothing invisible as it is.
LEMMA VisibleOfSeen ==
  ASSUME NEW s \in Seq(Seen)
  PROVE  Visible(s) = s
<1> DEFINE N == Len(s)
           Same(n, x) == Len(x) = n /\ \A k \in 1..n : x[k] = s[k]
<1>0. s \in Seq(Symbols)
  BY SeqTyped DEF Seen
<1>1. PICK F : /\ F[0] = << >>
               /\ \A n \in 1..N : F[n] = Pass(F[n - 1], s[n])
               /\ Visible(s) = F[N]
  BY <1>0, VisiblePasses
<1>2. N \in Nat /\ \A n \in 1..N : s[n] \in Seen
  OBVIOUS
<1> HIDE DEF N
<1> DEFINE S == {n \in 0..N : F[n] \in Seq(Seen) /\ Same(n, F[n])}
<1>3. 0 \in S
  <2>1. << >> \in Seq(Seen) /\ Same(0, << >>)
    OBVIOUS
  <2>2. 0 \in 0..N
    BY <1>2
  <2> HIDE DEF Same
  <2>3. F[0] \in Seq(Seen) /\ Same(0, F[0])
    <3>1. F[0] = << >>
      BY <1>1
    <3> QED
      BY <2>1, <3>1
  <2> QED
    BY <2>2, <2>3
<1>4. ASSUME NEW n \in 1..N, n - 1 \in S PROVE n \in S
  <2> DEFINE x == F[n - 1]
  <2>1. x \in Seq(Seen) /\ Same(n - 1, x) /\ F[n] = Pass(x, s[n])
    BY <1>1, <1>4
  <2>2. s[n] \in Seen /\ n \in 0..N /\ n \in Nat
    BY <1>2
  <2>3. F[n] = Append(x, s[n])
    BY <2>1, <2>2 DEF Pass, Seen
  <2> HIDE DEF x
  <2>4. Append(x, s[n]) \in Seq(Seen)
    BY <2>1, <2>2
  <2>5. Len(Append(x, s[n])) = n
    BY <2>1, <2>2
  <2>6. ASSUME NEW k \in 1..n PROVE Append(x, s[n])[k] = s[k]
    BY <2>1, <2>2
  <2>7. Same(n, Append(x, s[n]))
    BY <2>5, <2>6
  <2> HIDE DEF Same
  <2> QED
    BY <2>2, <2>3, <2>4, <2>7
<1> HIDE DEF S, Same
<1>5. \A n \in 0..N : n \in S
  BY <1>2, <1>3, <1>4, LoopInduction
<1>6. Visible(s) \in Seq(Seen) /\ Same(N, Visible(s))
  BY <1>1, <1>2, <1>5 DEF S
<1> QED
  BY <1>6, SeqEqual DEF N, Same

\* The length in bytes is a number, and of nothing it is 0.
LEMMA BytesIs ==
  ASSUME NEW s \in Seq(Symbols)
  PROVE  Bytes(s) \in Nat /\ (Len(s) = 0 => Bytes(s) = 0)
<1> DEFINE N == Len(s)
           upTo(n, f) == IF n = 0 THEN 0 ELSE f[n - 1] + Size[s[n]]
           Rhs(f) == [n \in 0..N |-> upTo(n, f)]
           G == CHOOSE f : f = Rhs(f)
           Solved(k) == \E g \in [0..k -> Nat] : \A n \in 0..k : g[n] = upTo(n, g)
           T == {k \in 0..N : Solved(k)}
<1>1. N \in Nat /\ \A n \in 1..N : Size[s[n]] \in Nat
  <2>1. \A c \in Symbols : Size[c] \in Nat
    BY DEF Size, Symbols
  <2> QED
    BY <2>1
<1> HIDE DEF N
<1>2. 0 \in T
  <2> DEFINE g == [n \in 0..0 |-> 0]
  <2>1. g \in [0..0 -> Nat] /\ \A n \in 0..0 : g[n] = upTo(n, g)
    OBVIOUS
  <2> HIDE DEF g, upTo
  <2> QED
    BY <1>1, <2>1
<1>3. ASSUME NEW k \in 1..N, k - 1 \in T PROVE k \in T
  <2>1. PICK g \in [0..(k - 1) -> Nat] : \A n \in 0..(k - 1) : g[n] = upTo(n, g)
    BY <1>3
  <2> DEFINE h == [n \in 0..k |-> IF n = k THEN g[k - 1] + Size[s[k]] ELSE g[n]]
  <2>2. k \in Nat /\ k > 0 /\ k - 1 \in 0..(k - 1) /\ Size[s[k]] \in Nat /\ g[k - 1] \in Nat
    BY <1>1
  <2>3. h \in [0..k -> Nat]
    BY <2>2
  <2>4. ASSUME NEW n \in 0..k PROVE h[n] = upTo(n, h)
    <3>1. CASE n = k
      BY <2>2, <3>1
    <3>2. CASE n # k
      <4>1. n \in 0..(k - 1) /\ h[n] = g[n] /\ (n # 0 => h[n - 1] = g[n - 1])
        BY <2>2, <3>2
      <4> HIDE DEF h
      <4> QED
        BY <2>1, <4>1
    <3> QED
      BY <3>1, <3>2
  <2> HIDE DEF h, upTo
  <2>5. Solved(k)
    BY <2>3, <2>4
  <2>6. k \in 0..N
    BY <1>1
  <2> HIDE DEF Solved
  <2> QED
    BY <2>5, <2>6
<1> HIDE DEF T
<1>4. \A n \in 0..N : n \in T
  BY <1>1, <1>2, <1>3, LoopInduction
<1>5. PICK g \in [0..N -> Nat] : \A n \in 0..N : g[n] = upTo(n, g)
  <2>1. N \in T
    BY <1>1, <1>4
  <2> HIDE DEF upTo
  <2> QED
    BY <2>1 DEF T
<1>6. g = Rhs(g)
  <2> HIDE DEF upTo
  <2> QED
    BY <1>5
<1>7. G = Rhs(G)
  <2> HIDE DEF Rhs
  <2> QED
    BY <1>6
<1>8. Bytes(s) = G[N]
  BY DEF Bytes, N
<1> HIDE DEF G
<1>9. \A n \in 0..N : G[n] = upTo(n, G)
  BY <1>7
<1> DEFINE S == {n \in 0..N : G[n] \in Nat}
<1>10. 0 \in S
  BY <1>1, <1>9
<1>11. ASSUME NEW n \in 1..N, n - 1 \in S PROVE n \in S
  <2>1. n \in 0..N /\ n # 0 /\ G[n - 1] \in Nat
    BY <1>11
  <2>2. G[n] = G[n - 1] + Size[s[n]]
    BY <1>9, <2>1
  <2> QED
    BY <1>1, <2>1, <2>2
<1> HIDE DEF S
<1>12. \A n \in 0..N : n \in S
  BY <1>1, <1>10, <1>11, LoopInduction
<1>13. N = 0 => G[N] = 0
  BY <1>1, <1>9
<1> QED
  BY <1>1, <1>8, <1>12, <1>13 DEF S, N

\* The last pass keeps a beginning that is within the bound, and all of a text
\* that is.
LEMMA TruncateIs ==
  ASSUME NEW s \in Seq(Symbols)
  PROVE  /\ \E n \in 0..Len(s) : Truncate(s) = SubSeq(s, 1, n)
         /\ Bytes(Truncate(s)) <= MaxContentLen
         /\ Bytes(s) <= MaxContentLen <=> Truncate(s) = s
<1> DEFINE N == Len(s)
           within == {n \in 0..N : Bytes(SubSeq(s, 1, n)) <= MaxContentLen}
           m == Max(within)
<1>1. N \in Nat
  OBVIOUS
<1>2. 0 \in within
  <2>1. SubSeq(s, 1, 0) \in Seq(Symbols) /\ Len(SubSeq(s, 1, 0)) = 0
    OBVIOUS
  <2>2. Bytes(SubSeq(s, 1, 0)) = 0
    BY <2>1, BytesIs
  <2> QED
    BY <1>1, <2>2, UntrustedAssumption
<1>3. within \subseteq 0..N /\ within # {}
  BY <1>2
<1>4. m \in within /\ \A n \in within : n <= m
  <2> HIDE DEF within, N
  <2> QED
    BY <1>1, <1>3, MaxOfPlaces
<1>5. Truncate(s) = SubSeq(s, 1, m)
  BY DEF Truncate
<1> HIDE DEF m
<1>6. m \in 0..N /\ Bytes(SubSeq(s, 1, m)) <= MaxContentLen
  BY <1>4
<1>7. SubSeq(s, 1, N) = s
  OBVIOUS
<1>8. Len(SubSeq(s, 1, m)) = m
  BY <1>6
<1>9. ASSUME Bytes(s) <= MaxContentLen PROVE Truncate(s) = s
  <2>1. N \in within
    <3> HIDE DEF N
    <3>1. Bytes(SubSeq(s, 1, N)) <= MaxContentLen
      BY <1>7, <1>9, Zenon
    <3>2. N \in 0..N
      BY <1>1
    <3> QED
      BY <3>1, <3>2
  <2>2. m = N
    BY <1>1, <1>4, <1>6, <2>1
  <2> QED
    BY <1>5, <1>7, <2>2
<1> QED
  BY <1>5, <1>6, <1>9

\* What is cut short holds no pattern either.
LEMMA PrefixHoldsNone ==
  ASSUME NEW s \in Seq(Symbols), NoBoundary(s), NEW n \in 0..Len(s)
  PROVE  NoBoundary(SubSeq(s, 1, n))
<1> DEFINE x == SubSeq(s, 1, n)
<1>1. Len(x) = n /\ n <= Len(s) /\ n \in Nat /\ Len(s) \in Nat /\ \A j \in 1..n : x[j] = s[j]
  OBVIOUS
<1> HIDE DEF x
<1> SUFFICES ASSUME NEW r \in DOMAIN Rules, NEW i \in 1..Len(x),
                    SuffixAt(Rules[r].old, 1, x, i)
             PROVE  FALSE
  BY DEF NoBoundary, x
<1> DEFINE p == Rules[r].old
<1>2. Len(p) \in Nat
  BY PatternPlaces
<1>3. \A k \in 1..Len(p) : i + k - 1 <= n /\ x[i + k - 1] = p[k]
  BY <1>1 DEF SuffixAt
<1> HIDE DEF p
<1>4. ASSUME NEW k \in 1..Len(p) PROVE i + k - 1 <= Len(s) /\ s[i + k - 1] = p[k]
  <2>1. i + k - 1 \in 1..n
    BY <1>1, <1>2, <1>3
  <2> QED
    BY <1>1, <1>3, <2>1
<1>5. SuffixAt(p, 1, s, i) /\ i \in 1..Len(s)
  BY <1>1, <1>4 DEF SuffixAt
<1> QED
  BY <1>5 DEF NoBoundary, p

\* To hold none of the patterns, in the words of the properties
LEMMA HoldsNone ==
  ASSUME NEW s \in Seq(Symbols)
  PROVE  NoBoundary(s) <=> \A r \in DOMAIN Rules : ~Holds(s, Rules[r].old)
<1> SUFFICES ASSUME NEW r \in DOMAIN Rules, NEW i \in 1..Len(s)
             PROVE  SuffixAt(Rules[r].old, 1, s, i) <=> OccursAt(Rules[r].old, s, i)
  BY DEF NoBoundary, Holds
<1> DEFINE p == Rules[r].old
<1>1. p \in Seq(Symbols) /\ Len(p) >= 1 /\ i \in 1..(Len(s) + 1)
  BY RulesTyped, PatternPlaces
<1> HIDE DEF p
<1>2. OccursAt(p, s, i) <=> SuffixAt(p, 1, s, i)
  BY <1>1, OccursIsSuffix
<1> QED
  BY <1>2 DEF p

\* What the sanitiser makes of a text, before it is cut and after
LEMMA SanitiseIs ==
  ASSUME NEW s \in Seq(Symbols)
  PROVE  LET out == Replace(Visible(s))
             content == Sanitise(s).content
         IN  /\ out \in Seq(Seen) /\ content \in Seq(Seen)
             /\ NoBoundary(content)
             /\ Bytes(content) <= MaxContentLen
             /\ Sanitise(s).truncated <=> content # out
             /\ Sanitise(s) = [content |-> Truncate(out),
                               truncated |-> Bytes(out) > MaxContentLen]
<1> DEFINE out == Replace(Visible(s))
           content == Sanitise(s).content
<1>1. Visible(s) \in Seq(Seen) /\ Visible(s) \in Seq(Symbols)
  BY VisibleTyped, SeqTyped DEF Seen
<1>2. out \in Seq(Seen)
  <2>1. Seen \subseteq Symbols /\ Written \union {"lt", "gt", "newline"} \subseteq Seen
    BY DEF Seen, Symbols, Typed, Written
  <2>2. PICK R : IsWalk(Visible(s), R) /\ out = R[1]
    BY <1>1, ReplaceWalks
  <2>3. 1 \in 1..(Len(Visible(s)) + 1)
    BY <1>1
  <2> HIDE DEF out
  <2> QED
    BY <1>1, <2>1, <2>2, <2>3, WalkTyped
<1>3. NoBoundary(out) /\ out \in Seq(Symbols)
  BY <1>1, ReplaceLeavesNone
<1>4. Sanitise(s) = [content |-> Truncate(out), truncated |-> Bytes(out) > MaxContentLen]
  BY DEF Sanitise
<1>5. content = Truncate(out) /\ Sanitise(s).truncated = (Bytes(out) > MaxContentLen)
  BY <1>4
<1> HIDE DEF out, content
<1>6. PICK n \in 0..Len(out) : content = SubSeq(out, 1, n)
  BY <1>3, <1>5, TruncateIs
<1>7. content \in Seq(Seen) /\ NoBoundary(content)
  <2>1. SubSeq(out, 1, n) \in Seq(Seen)
    BY <1>2
  <2> QED
    BY <1>3, <1>6, <2>1, PrefixHoldsNone
<1>8. Bytes(content) <= MaxContentLen
  BY <1>3, <1>5, TruncateIs
<1>9. Bytes(out) > MaxContentLen <=> content # out
  <2>1. Bytes(out) <= MaxContentLen <=> content = out
    BY <1>3, <1>5, TruncateIs
  <2>2. Bytes(out) \in Nat
    BY <1>3, BytesIs
  <2> QED
    BY <2>1, <2>2, UntrustedAssumption
<1> QED
  BY <1>2, <1>4, <1>5, <1>7, <1>8, <1>9 DEF out, content

\* A text with nothing invisible in it
LEMMA SeenIs ==
  ASSUME NEW s \in Seq(Symbols)
  PROVE  ToSet(s) \intersect {"return", "unseen"} = {} <=> s \in Seq(Seen)
<1>1. ASSUME ToSet(s) \intersect {"return", "unseen"} = {} PROVE s \in Seq(Seen)
  <2>1. \A i \in 1..Len(s) : s[i] \in Seen
    BY <1>1 DEF ToSet, Seen
  <2> QED
    BY <2>1
<1>2. ASSUME s \in Seq(Seen) PROVE ToSet(s) \intersect {"return", "unseen"} = {}
  BY <1>2 DEF ToSet, Seen
<1> QED
  BY <1>1, <1>2

\* A text is made of symbols.
IsText == text \in Seq(Symbols)

LEMMA TextTyped == TextSpec => []IsText
<1>1. TextInit => IsText
  BY DEF TextInit, IsText
<1>2. IsText /\ [TextNext]_text => IsText'
  <2> SUFFICES ASSUME IsText, [TextNext]_text PROVE IsText'
    OBVIOUS
  <2>1. CASE Type
    <3>1. PICK c \in Typed : text' = Append(text, c)
      BY <2>1 DEF Type
    <3>2. c \in Symbols
      BY DEF Symbols
    <3> QED
      BY <3>1, <3>2 DEF IsText
  <2>2. CASE UNCHANGED text
    BY <2>2 DEF IsText
  <2> QED
    BY <2>1, <2>2 DEF TextNext, Stop
<1> QED
  BY <1>1, <1>2, PTL DEF TextSpec

(* For every text of any length and every bound on its length, no imitation  *)
(* of a message boundary is left, and sanitising again changes nothing.      *)
THEOREM BoundariesGo == TextSpec => []NoBoundaryLeft
<1>1. IsText => NoBoundaryLeft
  <2> SUFFICES ASSUME text \in Seq(Symbols) PROVE NoBoundaryLeft
    BY DEF IsText
  <2>1. Content \in Seq(Seen) /\ NoBoundary(Content) /\ Bytes(Content) <= MaxContentLen
    BY SanitiseIs DEF Content
  <2> HIDE DEF Content
  <2>2. Content \in Seq(Symbols)
    BY <2>1, SeqTyped DEF Seen
  <2>3. \A r \in DOMAIN Rules : ~Holds(Content, Rules[r].old)
    BY <2>1, <2>2, HoldsNone
  <2>4. ToSet(Content) \intersect {"return", "unseen"} = {}
    BY <2>1, <2>2, SeenIs
  <2>5. Replace(Visible(Content)) = Content
    BY <2>1, <2>2, VisibleOfSeen, ReplaceOfNone
  <2>6. Sanitise(Content) = [content |-> Truncate(Content),
                             truncated |-> Bytes(Content) > MaxContentLen]
    BY <2>2, <2>5, SanitiseIs
  <2>7. Truncate(Content) = Content
    BY <2>1, <2>2, TruncateIs
  <2>8. (Bytes(Content) > MaxContentLen) = FALSE
    BY <2>1, <2>2, BytesIs, UntrustedAssumption
  <2> QED
    BY <2>3, <2>4, <2>6, <2>7, <2>8 DEF NoBoundaryLeft
<1> QED
  BY <1>1, TextTyped, PTL

(* For every text of any length and every bound, a plain text within it      *)
(* comes back as it was, and one is flagged exactly when something was cut.  *)
THEOREM StaysLegible == TextSpec => []Legible
<1>1. IsText => Legible
  <2> SUFFICES ASSUME text \in Seq(Symbols) PROVE Legible
    BY DEF IsText
  <2>1. /\ Sanitise(text).truncated <=> Sanitise(text).content # Replace(Visible(text))
        /\ Sanitise(text).content = Truncate(Replace(Visible(text)))
    BY SanitiseIs
  <2>2. ASSUME ToSet(text) \intersect {"return", "unseen"} = {},
               \A r \in DOMAIN Rules : ~Holds(text, Rules[r].old),
               Bytes(text) <= MaxContentLen
        PROVE  Sanitise(text).content = text
    <3>1. text \in Seq(Seen) /\ NoBoundary(text)
      BY <2>2, SeenIs, HoldsNone
    <3>2. Replace(Visible(text)) = text
      BY <3>1, VisibleOfSeen, ReplaceOfNone
    <3> QED
      BY <2>1, <2>2, <3>2, TruncateIs
  <2> QED
    BY <2>1, <2>2 DEF Legible
<1> QED
  BY <1>1, TextTyped, PTL
=============================================================================
