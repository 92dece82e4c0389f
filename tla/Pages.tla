--------------------------------- MODULE Pages ---------------------------------
(***************************************************************************)
(* cmd/docgen/parse.go and emit.go: what the generator makes of the        *)
(* vendor's pages.                                                         *)
(*                                                                         *)
(* A page is the sequence of its elements in document order, which is the  *)
(* order the parser walks them in: headings, paragraphs, links, tables,    *)
(* and the rows of a table after it.  A row is the sequence of its cells   *)
(* <<name, type, description, requiredness>>, any of the last of which may *)
(* be missing.  Of the type and the requiredness only the words looked for *)
(* are kept, of a description only whether it is a fact short enough to be *)
(* taken over or prose.                                                    *)
(***************************************************************************)
EXTENDS Naturals, SequencesExt, FiniteSetsExt

CONSTANTS
  Lower,     \* strings.ToLower: a function on the names that have capitals
  Anchor,    \* the id of a heading that has none: a function on such headings
  Rank,      \* the order of strings: a function from names to numbers
  Ours,      \* registry.Description: <<action, parameter>> pairs, in lower case
  MaxPage    \* maxPageBytes, in elements

ToLower(name) == IF name \in DOMAIN Lower THEN Lower[name] ELSE name

H1 == [tag |-> "h1"]
H3(id, text) == [tag |-> "h3", id |-> id, text |-> text]
P(text) == [tag |-> "p", text |-> text]
Link(slug, text) == [tag |-> "a", slug |-> slug, text |-> text]
Table == [tag |-> "table"]
Row(cells) == [tag |-> "tr", cells |-> cells]

\* fetch: what does not fit is cut off, without an error.
Fetched(page) == SubSeq(page, 1, Min({Len(page), MaxPage}))

(***************************************************************************)
(* The index.                                                              *)
(***************************************************************************)

\* parseIndex, at element n: links are entries of the category of the heading
\* before them.  actionSlug is "" for a link that leads elsewhere.
IndexWalk(at, n) ==
  CASE n.tag = "h3" -> [at EXCEPT !.category = n.text]
    [] n.tag = "a"  ->
         IF n.slug # "" /\ n.text # "" /\ at.category # ""
         THEN [at EXCEPT !.entries = Append(@, [name |-> n.text, slug |-> n.slug,
                                                category |-> at.category])]
         ELSE at
    [] OTHER        -> at

ParseIndex(page) == FoldLeft(IndexWalk, [category |-> "", entries |-> << >>], page).entries

\* dedupe: of the entries whose names differ in case at most, the first.
Keep(out, e) ==
  IF \E o \in Range(out) : ToLower(o.name) = ToLower(e.name) THEN out ELSE Append(out, e)

Dedupe(entries) == FoldLeft(Keep, << >>, entries)

(***************************************************************************)
(* The page of an action.                                                  *)
(***************************************************************************)

\* normaliseType: the first kind that is mentioned, in this order.
NormaliseType(words) ==
  LET kinds == SelectSeq(<<"bool", "float", "array", "object", "int">>,
                         LAMBDA kind : kind \in words)
  IN  IF kinds = << >> THEN "string" ELSE Head(kinds)

\* Mutant: what is not replaced is taken over.
DescribeOrKeep(action, param, text) ==
  IF text = "prose" /\ <<ToLower(action), ToLower(param)>> \in Ours THEN "ours" ELSE text

\* describe: a fact is taken over, prose is replaced or dropped.
Describe(action, param, text) ==
  IF text # "prose" THEN text
  ELSE IF <<ToLower(action), ToLower(param)>> \in Ours THEN "ours" ELSE ""

\* parseParamTable keeps rows that name a parameter other than the action.
IsParam(cells) ==
  Len(cells) >= 2 /\ cells[1] # "" /\ ToLower(cells[1]) # "action"

\* parseParamTable: the parameter a row is about.
Param(action, cells, withRequired) ==
  LET req == IF withRequired /\ Len(cells) > 3 THEN cells[4] ELSE {}
  IN  [name |-> cells[1],
       type |-> NormaliseType(cells[2]),
       description |-> IF Len(cells) > 2 THEN Describe(action, cells[1], cells[3]) ELSE "",
       deprecated |-> "deprecated" \in req,
       required |-> "required" \in req /\ "deprecated" \notin req]

\* The section a heading opens.
SectionOf(h) ==
  IF h.id # "" THEN h.id
  ELSE IF h.text \in DOMAIN Anchor THEN Anchor[h.text] ELSE h.text

\* parseAction, at element n, with the table the walk is in: a table replaces what
\* an earlier one in a section of that name gave.
PageWalk(action, at, n) ==
  CASE n.tag = "h1" -> [at EXCEPT !.titled = TRUE]
    [] n.tag = "h3" -> [at EXCEPT !.section = SectionOf(n)]
    [] n.tag = "p"  ->
         IF at.titled /\ at.section = "" /\ at.summary = ""
         THEN [at EXCEPT !.summary = n.text]
         ELSE at
    [] n.tag = "table" ->
         CASE at.section = "request-parameters" ->
                [at EXCEPT !.table = "request", !.params = << >>]
           [] at.section = "response-parameters" ->
                [at EXCEPT !.table = "response", !.response = << >>]
           [] OTHER -> [at EXCEPT !.table = ""]
    [] n.tag = "tr" ->
         IF at.table = "" \/ ~IsParam(n.cells) THEN at
         ELSE IF at.table = "request"
         THEN [at EXCEPT !.params = Append(@, Param(action, n.cells, TRUE))]
         ELSE [at EXCEPT !.response = Append(@, Param(action, n.cells, FALSE))]
    [] OTHER        -> at

ParseAction(action, page) ==
  LET Walk(at, n) == PageWalk(action, at, n)
      end == FoldLeft(Walk, [titled |-> FALSE, section |-> "", table |-> "", summary |-> "",
                             params |-> << >>, response |-> << >>], page)
  IN  [summary |-> end.summary, params |-> end.params, response |-> end.response]

\* parseAction fails on a page without parameters.
NoParameters(page) == page.params = << >> /\ page.response = << >>

\* fetchAction: the registry's record of entry e.
Action(e, page) ==
  [name |-> e.name, slug |-> e.slug, category |-> e.category,
   summary |-> page.summary, params |-> page.params, response |-> page.response]

\* Mutant: categories are sorted, and actions keep the order they came in.
BeforeByCategory(a, b) == Rank[a.category] < Rank[b.category]

Before(a, b) ==
  \/ Rank[a.category] < Rank[b.category]
  \/ a.category = b.category /\ Rank[a.name] < Rank[b.name]

\* emit: sort.Slice, by category, then by name.  Each record takes its place
\* after those that come before it.
Insert(sorted, a) ==
  InsertAt(sorted, Cardinality({i \in DOMAIN sorted : Before(sorted[i], a)}) + 1, a)

Emit(actions) == FoldLeft(Insert, << >>, actions)

(***************************************************************************)
(* The registry of a site as its reader would write it down, without       *)
(* walking anything: what the generator is checked against.                *)
(***************************************************************************)

\* The heading element i of a page stands under, if there is one.
HeadingsAbove(page, i) == {j \in 1..(i - 1) : page[j].tag = "h3"}

SectionAt(page, i) ==
  IF HeadingsAbove(page, i) = {} THEN "" ELSE SectionOf(page[Max(HeadingsAbove(page, i))])

\* The k-th of some places: the last with fewer than k of them before it.
Nth(places, k) == Max({i \in places : Cardinality({j \in places : j < i}) < k})

\* Element i is in a table of that section, as the rows after a table are.
InTable(page, i, section) ==
  \E t \in 1..i : /\ page[t].tag = "table" /\ SectionAt(page, t) = section
                  /\ \A j \in (t + 1)..i : page[j].tag # "table"

\* The rows of the last table in the section of that name that name a parameter.
RowsUnder(page, section) ==
  {i \in DOMAIN page :
     /\ page[i].tag = "tr" /\ IsParam(page[i].cells) /\ InTable(page, i, section)
     /\ \A t \in DOMAIN page : page[t].tag = "table" /\ SectionAt(page, t) = section => t < i}

ParamsUnder(action, page, section, withRequired) ==
  LET rows == RowsUnder(page, section)
  IN  [k \in 1..Cardinality(rows) |-> Param(action, page[Nth(rows, k)].cells, withRequired)]

\* The first paragraph below the title that says something, outside sections.
SummaryOf(page) ==
  LET ps == {i \in DOMAIN page :
               /\ page[i].tag = "p" /\ page[i].text # "" /\ SectionAt(page, i) = ""
               /\ \E j \in 1..(i - 1) : page[j].tag = "h1"}
  IN  IF ps = {} THEN "" ELSE page[Min(ps)].text

\* The links of an index that stand for an action.
CategoryAt(page, i) ==
  IF HeadingsAbove(page, i) = {} THEN "" ELSE page[Max(HeadingsAbove(page, i))].text

LinksIn(page) ==
  {i \in DOMAIN page : /\ page[i].tag = "a" /\ page[i].slug # "" /\ page[i].text # ""
                       /\ CategoryAt(page, i) # ""}

\* Of those whose texts differ in case at most, the first.
ActionLinks(page) ==
  {i \in LinksIn(page) : \A j \in LinksIn(page) :
     j < i => ToLower(page[j].text) # ToLower(page[i].text)}

\* What a site says of the action that element i of its index links to.
RecordAt(site, i) ==
  LET index == Fetched(site.index)
      page == Fetched(site.page[index[i].slug])
  IN  [name |-> index[i].text, slug |-> index[i].slug, category |-> CategoryAt(index, i),
       summary |-> SummaryOf(page),
       params |-> ParamsUnder(index[i].text, page, "request-parameters", TRUE),
       response |-> ParamsUnder(index[i].text, page, "response-parameters", FALSE)]

Records(site) == {RecordAt(site, i) : i \in ActionLinks(Fetched(site.index))}

\* By category, and by name in each.
Precedes(a, b) ==
  IF a.category = b.category THEN Rank[a.name] < Rank[b.name]
                             ELSE Rank[a.category] < Rank[b.category]

\* The list has the record of every action linked to, each in its place.
IsRegistryOf(list, site) ==
  /\ Range(list) = Records(site)
  /\ \A i, j \in DOMAIN list : i < j => Precedes(list[i], list[j])
===============================================================================
