-------------------------------- MODULE Paging --------------------------------
(***************************************************************************)
(* The paging of collection tools: Limits.resolve and Args.Page of         *)
(* internal/tools/tools.go, pageParams and listExtract of extract.go, and  *)
(* a caller who follows next_offset until has_more is false.               *)
(*                                                                         *)
(* Paging is by offset and nothing holds the collection still: between two *)
(* pages the billing system may add a record anywhere in the order it      *)
(* lists them, or drop one.  The action behind the tool honours limitnum   *)
(* and limitstart, or it has no such parameters and answers with           *)
(* everything: GetTransactions.                                            *)
(***************************************************************************)
EXTENDS Integers, FiniteSets, SequencesExt

CONSTANTS
  Settings,   \* values a page size may be configured with
  Asked,      \* values of the limit argument, 0 for absent
  MaxSize,    \* bound on the size of the collection when the walk starts
  MaxChanges  \* bound on the records added and dropped during the walk

ASSUME PagingAssumption ==
  /\ Settings \subseteq Int
  /\ Asked \subseteq Int
  /\ MaxSize \in Nat
  /\ MaxChanges \in Nat

VARIABLES
  collection,  \* the records, by number, in the order the action lists them
  honours,     \* whether the action takes limitnum and limitstart
  counts,      \* whether the response carries totalresults
  settings,    \* [default, max]: WHMCS_MCP_DEFAULT_PAGE_SIZE and ..._MAX_PAGE_SIZE
  asked,       \* the limit argument of every call of the walk
  offset,      \* the offset argument of the next call
  page,        \* the envelope of the last call
  seen,        \* seen[n]: how often the walk has met record n
  walking,     \* whether the caller goes on
  added,       \* records added since the walk started
  dropped      \* records dropped since the walk started

fixedVars == <<honours, counts, settings, asked>>
walkVars == <<offset, page, seen, walking>>
pagingVars == <<collection, added, dropped, fixedVars, walkVars>>

Default == 25
Ceiling == 200

Lesser(a, b) == IF a < b THEN a ELSE b

\* Limits.resolve.
Resolve(s) ==
  LET max == IF s.max <= 0 THEN Ceiling ELSE s.max
  IN  [default |-> Lesser(IF s.default <= 0 THEN Default ELSE s.default, max),
       max     |-> max]

\* Mutant: the clamp is reported and not applied.
PageUnclamped(s, wanted) ==
  LET limit == IF wanted > 0 THEN wanted ELSE Resolve(s).default
  IN  [limit |-> limit, clamped |-> limit > Resolve(s).max]

\* Args.Page: an absent, zero or negative limit is the default.
Page(s, wanted) ==
  LET limit == IF wanted > 0 THEN wanted ELSE Resolve(s).default
  IN  [limit   |-> Lesser(limit, Resolve(s).max),
       clamped |-> limit > Resolve(s).max]

\* pageParams and WHMCS, then the cut to the page size, which is for actions
\* that ignore the parameters.
Records(from, limit) ==
  LET first == IF honours THEN from + 1 ELSE 1
  IN  SubSeq(collection, first, Lesser(first + limit - 1, Len(collection)))

\* Mutant: "up to the total" for "short of the total".
EnvelopeLax(from, p) ==
  LET records == Records(from, p.limit)
      next    == from + Len(records)
      total   == IF counts /\ collection # <<>> THEN Len(collection) ELSE next
  IN  [records |-> records, limit |-> p.limit, clamped |-> p.clamped,
       hasMore |-> next <= total, next |-> next]

\* Mutant: the next page starts where a full page would have ended, one further.
EnvelopeSkips(from, p) ==
  LET records == Records(from, p.limit)
      next    == from + Len(records)
      total   == IF counts /\ collection # <<>> THEN Len(collection) ELSE next
  IN  [records |-> records, limit |-> p.limit, clamped |-> p.clamped,
       hasMore |-> next < total, next |-> next + 1]

\* listExtract.  A total that is absent, or zero, is taken to be what the walk has
\* covered, so the page is the last.
Envelope(from, p) ==
  LET records == Records(from, p.limit)
      next    == from + Len(records)
      total   == IF counts /\ collection # <<>> THEN Len(collection) ELSE next
  IN  [records |-> records, limit |-> p.limit, clamped |-> p.clamped,
       hasMore |-> next < total, next |-> next]

NoPage == [records |-> <<>>, limit |-> 0, hasMore |-> TRUE, next |-> 0, clamped |-> FALSE]

\* config.validate: what a server that starts can be configured with.
Admitted ==
  {s \in [default : Settings, max : Settings] : s.default >= 1 /\ s.default <= s.max}

\* A record that is added gets the next free number.
RecordNumbers == 1..(MaxSize + MaxChanges)

WalkInit ==
  /\ \E n \in 0..MaxSize : collection = [i \in 1..n |-> i]
  /\ honours \in BOOLEAN
  /\ counts \in BOOLEAN
  /\ settings \in Admitted
  /\ asked \in Asked
  /\ offset = 0
  /\ page = NoPage
  /\ seen = [n \in RecordNumbers |-> 0]
  /\ walking = TRUE
  /\ added = 0
  /\ dropped = 0

\* One call of the tool, and the caller's decision to make another.
Fetch ==
  /\ walking
  /\ LET e   == Envelope(offset, Page(settings, asked))
         met == ToSet(e.records)
     IN  /\ page' = e
         /\ seen' = [n \in RecordNumbers |-> IF n \in met THEN seen[n] + 1 ELSE seen[n]]
         /\ walking' = e.hasMore
         /\ offset' = IF e.hasMore THEN e.next ELSE offset
  /\ UNCHANGED <<collection, added, dropped, fixedVars>>

\* The billing system adds a record.
Add ==
  /\ walking
  /\ page # NoPage
  /\ added + dropped < MaxChanges
  /\ \E i \in 1..(Len(collection) + 1) :
       collection' = InsertAt(collection, i, MaxSize + added + 1)
  /\ added' = added + 1
  /\ UNCHANGED <<dropped, fixedVars, walkVars>>

\* The billing system drops a record, or moves it out of what the call filters on.
Drop ==
  /\ walking
  /\ page # NoPage
  /\ added + dropped < MaxChanges
  /\ \E i \in DOMAIN collection : collection' = RemoveAt(collection, i)
  /\ dropped' = dropped + 1
  /\ UNCHANGED <<added, fixedVars, walkVars>>

\* The walk is over.
Over == ~walking /\ UNCHANGED pagingVars

WalkNext == Fetch \/ Add \/ Drop \/ Over

WalkSpec == WalkInit /\ [][WalkNext]_pagingVars /\ WF_pagingVars(Fetch)

(***************************************************************************)
(* Properties.                                                             *)
(***************************************************************************)

\* Records that were there from the first page to the last and were never met.
Missed == {n \in ToSet(collection) : n <= MaxSize /\ seen[n] = 0}

\* Records met more than once.
Repeated == {n \in RecordNumbers : seen[n] > 1}

\* Two promises of a walk.  "No limit is never an option": a page holds at least
\* one record's room and never more than the ceiling configured, and a caller who
\* gets less than it asked for is told, and only then.  And where the action pages
\* and counts, what changes under the walk does damage that is local: it misses at
\* most one lasting record for each one dropped and repeats at most one for each
\* one added, so a walk over a collection at rest meets every record once.
WalkIsSound ==
  /\ page # NoPage =>
       /\ page.limit \in 1..settings.max
       /\ Len(page.records) <= page.limit
       /\ asked > 0 => (page.clamped <=> page.limit < asked)
  /\ honours =>
       /\ Cardinality(Repeated) <= added
       /\ \A n \in RecordNumbers : seen[n] <= 1 + added
       /\ counts /\ ~walking => Cardinality(Missed) <= dropped

\* The walk ends, whatever changes under it, also where the action ignores the
\* offset or the total is missing.
WalkEnds == <>~walking

(***************************************************************************)
(* Why WalkIsSound holds where the action pages and counts: a record is    *)
(* met twice only if an addition pushed it ahead of the walk again, and    *)
(* missed only if a drop pulled it behind the walk.                        *)
(***************************************************************************)

\* Record n stands at place i.
StandsAt(n, i) == i \in DOMAIN collection /\ collection[i] = n

\* Records that were met and are to come again.
Ahead ==
  {n \in RecordNumbers : seen[n] > 0 /\ \E i \in DOMAIN collection : i > offset /\ StandsAt(n, i)}

\* Lasting records the walk has passed and not met.
Behind ==
  {n \in 1..MaxSize : seen[n] = 0 /\ \E i \in DOMAIN collection : i <= offset /\ StandsAt(n, i)}

\* The records are numbered as they came, and none is there twice.
WalkTypeOK ==
  /\ collection \in Seq(1..(MaxSize + added))
  /\ \A i, j \in DOMAIN collection : collection[i] = collection[j] => i = j
  /\ {honours, counts, walking} \subseteq BOOLEAN
  /\ settings \in Admitted
  /\ asked \in Asked
  /\ offset \in Nat
  /\ seen \in [RecordNumbers -> Nat]
  /\ \A n \in RecordNumbers : n > MaxSize + added => seen[n] = 0
  /\ added \in Nat /\ dropped \in Nat /\ added + dropped <= MaxChanges

\* What the last page promised.
PageIsSound ==
  page # NoPage =>
    /\ page.limit \in 1..settings.max
    /\ Len(page.records) <= page.limit
    /\ asked > 0 => (page.clamped <=> page.limit < asked)

\* Who was met again, or will be, was pushed there; who was passed was pulled there.
DamageIsLocal ==
  honours =>
    /\ \A n \in RecordNumbers : seen[n] <= 1 + added
    /\ walking =>
         /\ \A n \in Ahead : seen[n] <= added
         /\ Cardinality(Ahead \cup Repeated) <= added
         /\ Cardinality(Behind) <= dropped
    /\ ~walking =>
         /\ Cardinality(Repeated) <= added
         /\ counts => Cardinality(Missed) <= dropped

WalkInv == WalkTypeOK /\ PageIsSound /\ DamageIsLocal
===============================================================================
