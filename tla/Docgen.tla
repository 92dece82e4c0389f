-------------------------------- MODULE Docgen --------------------------------
(***************************************************************************)
(* cmd/docgen/main.go: the generator of the action registry.  A feeder     *)
(* hands index entries to workers over an unbuffered channel, the workers  *)
(* fetch and hand results to the collector over another, a closer closes   *)
(* the second channel when the last worker is gone, and a deadline over    *)
(* the whole run may pass at any moment.  What was collected is checked    *)
(* against the classification table and written, or with -check compared   *)
(* with the committed file.                                                *)
(*                                                                         *)
(* An unbuffered channel is a rendezvous: one step of two goroutines.      *)
(* What is in the pages, and what becomes of it, is in Pages.              *)
(***************************************************************************)
EXTENDS Pages, Integers

CONSTANTS
  Workers,     \* the goroutines started for -concurrency
  Sites,       \* names of sites
  SiteOf(_),   \* what a site has: [index |-> a page, page |-> a page by slug]
  Tables       \* classification tables: each the set of names it classifies

IsPage(page) == page \in Seq(Range(page))

\* The slugs the links of an index have
Slugs(index) == {n.slug : n \in {m \in Range(index) : m.tag = "a" /\ m.slug # ""}}

\* The texts a registry is sorted by.
Sorted(index) == {n.text : n \in {m \in Range(index) : m.tag \in {"a", "h3"}}}

\* A page is a sequence, and there is room for some of it.  A link that leads
\* nowhere leads to an empty page, which fails as an error of HTTP does.  Strings
\* have an order, and a -concurrency below 1 is taken for 1.
ASSUME DocgenAssumption ==
  /\ MaxPage \in Nat
  /\ Workers # {}
  /\ \A r, s \in DOMAIN Rank : Rank[r] \in Int /\ (Rank[r] = Rank[s] => r = s)
  /\ \A s \in Sites : Sorted(SiteOf(s).index) \subseteq DOMAIN Rank
  /\ \A s \in Sites : /\ IsPage(SiteOf(s).index)
                      /\ Slugs(SiteOf(s).index) \subseteq DOMAIN SiteOf(s).page
                      /\ \A slug \in DOMAIN SiteOf(s).page : IsPage(SiteOf(s).page[slug])

VARIABLES
  site,       \* the vendor's documentation
  classified, \* the classification table of this build
  check,      \* the -check flag
  committed,  \* the file as it was before the run
  file,       \* and as it is: [kind, actions]
  deadline,   \* ctx.Done: the overall deadline has passed
  entries,    \* index entries, after dedupe
  feeder,     \* "idle", "feeding" or "closed" (the jobs channel is closed)
  fed,        \* entries handed to workers so far; entry n is the n-th
  worker,     \* where each worker stands
  holds,      \* the entry each worker has in hand
  record,     \* and what the registry will say of it, once fetched
  failed,     \* entries whose page could not be fetched or parsed
  results,    \* the results channel: "open" or "closed"
  actions,    \* records collected, in the order they came in
  errors,     \* entries collected with an error
  main        \* "index", "collect", "verify", "emit", then one of Ends

setting == <<site, classified, check, committed>>
docgenVars == <<setting, file, deadline, entries, feeder, fed, worker, holds, record,
                failed, results, actions, errors, main>>

Ends == {"written", "uptodate", "error"}

Site == SiteOf(site)

IndexEntries == Dedupe(ParseIndex(Fetched(Site.index)))

\* result{}: what a worker holds that has nothing to send.
NoRecord == [name |-> ""]

Init ==
  /\ site \in Sites
  /\ classified \in Tables
  /\ check \in BOOLEAN
  /\ committed \in {[kind |-> "absent", actions |-> << >>],
                     [kind |-> "source", actions |-> << >>],
                     [kind |-> "source", actions |-> Emit(SetToSeq(Records(Site)))]}
  /\ ~check => committed.kind = "absent"   \* only -check reads it
  /\ file = committed
  /\ deadline = FALSE
  /\ entries = << >>
  /\ feeder = "idle"
  /\ fed = 0
  /\ worker = [w \in Workers |-> "receive"]
  /\ holds = [w \in Workers |-> 0]
  /\ record = [w \in Workers |-> NoRecord]
  /\ failed = {}
  /\ results = "open"
  /\ actions = << >>
  /\ errors = {}
  /\ main = "index"

\* run fetches and parses the index, and fetchAll starts its goroutines.
ReadIndex ==
  /\ main = "index" /\ ~deadline
  /\ IndexEntries # << >>
  /\ entries' = IndexEntries
  /\ feeder' = "feeding"
  /\ main' = "collect"
  /\ UNCHANGED <<setting, file, deadline, fed, worker, holds, record, failed, results, actions,
                 errors>>

\* The index cannot be fetched, in time or at all, or has no entries.
IndexFails ==
  /\ main = "index"
  /\ main' = "error"
  /\ UNCHANGED <<setting, file, deadline, entries, feeder, fed, worker, holds, record, failed,
                 results, actions, errors>>

Become(w, s) == worker' = [worker EXCEPT ![w] = s]

(***************************************************************************)
(* The feeder.                                                             *)
(***************************************************************************)

\* jobs <- e meets a worker's receive.
Feed(w) ==
  /\ feeder = "feeding" /\ fed < Len(entries)
  /\ worker[w] = "receive"
  /\ fed' = fed + 1
  /\ holds' = [holds EXCEPT ![w] = fed + 1]
  /\ Become(w, "fetch")
  /\ UNCHANGED <<setting, file, deadline, entries, feeder, record, failed, results, actions,
                 errors, main>>

\* The feeder is done, or gives up at the deadline; either way it closes jobs.
CloseJobs ==
  /\ feeder = "feeding"
  /\ fed = Len(entries) \/ deadline
  /\ feeder' = "closed"
  /\ UNCHANGED <<setting, file, deadline, entries, fed, worker, holds, record, failed, results,
                 actions, errors, main>>

(***************************************************************************)
(* A worker.                                                               *)
(***************************************************************************)

\* fetchAction returns a record, of a page with parameters.
Fetch(w) ==
  LET e == entries[holds[w]]
      page == ParseAction(e.name, Fetched(Site.page[e.slug]))
  IN  /\ worker[w] = "fetch" /\ ~deadline
      /\ ~NoParameters(page)
      /\ record' = [record EXCEPT ![w] = Action(e, page)]
      /\ Become(w, "send")
      /\ UNCHANGED <<setting, file, deadline, entries, feeder, fed, holds, failed, results,
                     actions, errors, main>>

\* Mutant: a page that fails is fetched again, whatever the deadline says.
FetchAgain(w) ==
  /\ worker[w] = "fetch"
  /\ UNCHANGED docgenVars

\* fetchAction returns an error: the timeout of http.Client if nothing else.
FetchFails(w) ==
  /\ worker[w] = "fetch"
  /\ failed' = failed \union {holds[w]}
  /\ Become(w, "send")
  /\ UNCHANGED <<setting, file, deadline, entries, feeder, fed, holds, record, results,
                 actions, errors, main>>

\* results <- r meets the collector's receive.
Send(w) ==
  /\ worker[w] = "send" /\ main = "collect"
  /\ Become(w, "pause")
  /\ IF holds[w] \in failed
     THEN errors' = errors \union {holds[w]} /\ UNCHANGED actions
     ELSE actions' = Append(actions, record[w]) /\ UNCHANGED errors
  /\ record' = [record EXCEPT ![w] = NoRecord]
  /\ UNCHANGED <<setting, file, deadline, entries, feeder, fed, holds, failed, results,
                 main>>

\* The other branch of the select: the result in hand is dropped.
DropAtDeadline(w) ==
  /\ worker[w] = "send" /\ deadline
  /\ Become(w, "exited")
  /\ UNCHANGED <<setting, file, deadline, entries, feeder, fed, holds, record, failed, results,
                 actions, errors, main>>

\* time.Sleep(delay) between fetches.
Pause(w) ==
  /\ worker[w] = "pause"
  /\ Become(w, "receive")
  /\ UNCHANGED <<setting, file, deadline, entries, feeder, fed, holds, record, failed, results,
                 actions, errors, main>>

\* range jobs ends on the closed channel.
Exit(w) ==
  /\ worker[w] = "receive" /\ feeder = "closed"
  /\ Become(w, "exited")
  /\ UNCHANGED <<setting, file, deadline, entries, feeder, fed, holds, record, failed, results,
                 actions, errors, main>>

(***************************************************************************)
(* The closer and the main goroutine.                                      *)
(***************************************************************************)

\* Mutant: the results channel is closed when the jobs channel is.
CloseEarly ==
  /\ feeder = "closed" /\ results = "open"
  /\ results' = "closed"
  /\ UNCHANGED <<setting, file, deadline, entries, feeder, fed, worker, holds, record, failed,
                 actions, errors, main>>

\* wg.Wait, then close(results).
CloseResults ==
  /\ results = "open"
  /\ \A w \in Workers : worker[w] = "exited"
  /\ results' = "closed"
  /\ UNCHANGED <<setting, file, deadline, entries, feeder, fed, worker, holds, record, failed,
                 actions, errors, main>>

\* range results ends; any error collected fails the run.
Collected ==
  /\ main = "collect" /\ results = "closed"
  /\ main' = IF errors # {} THEN "error" ELSE "verify"
  /\ UNCHANGED <<setting, file, deadline, entries, feeder, fed, worker, holds, record, failed,
                 results, actions, errors>>

\* verifyClassification fails on an action without a class, and only warns of
\* classified actions that are missing.
Verify ==
  /\ main = "verify"
  /\ main' = IF \A a \in Range(actions) : ToLower(a.name) \in classified
             THEN "emit" ELSE "error"
  /\ UNCHANGED <<setting, file, deadline, entries, feeder, fed, worker, holds, record, failed,
                 results, actions, errors>>

\* -check: nothing is written, and a file that is missing or differs is an error.
Compare ==
  /\ main = "emit" /\ check
  /\ main' = IF file.kind = "source" /\ file.actions = Emit(actions) THEN "uptodate" ELSE "error"
  /\ UNCHANGED <<setting, file, deadline, entries, feeder, fed, worker, holds, record, failed,
                 results, actions, errors>>

\* Mutant: the -check flag is looked at when the file is in place.
WriteAlways ==
  /\ main = "emit"
  /\ main' = "written"
  /\ file' = [kind |-> "source", actions |-> Emit(actions)]
  /\ UNCHANGED <<setting, deadline, entries, feeder, fed, worker, holds, record, failed,
                 results, actions, errors>>

\* os.WriteFile truncates the file and then writes it, which may fail in between.
Write ==
  /\ main = "emit" /\ ~check
  /\ \/ main' = "written" /\ file' = [kind |-> "source", actions |-> Emit(actions)]
     \/ main' = "error" /\ file' \in {file, [kind |-> "broken", actions |-> << >>]}
  /\ UNCHANGED <<setting, deadline, entries, feeder, fed, worker, holds, record, failed,
                 results, actions, errors>>

DeadlinePasses ==
  /\ ~deadline
  /\ deadline' = TRUE
  /\ UNCHANGED <<setting, file, entries, feeder, fed, worker, holds, record, failed, results,
                 actions, errors, main>>

\* The process has exited.
Exited == main \in Ends /\ UNCHANGED docgenVars

Next ==
  \/ ReadIndex \/ IndexFails
  \/ \E w \in Workers : \/ Feed(w) \/ Fetch(w) \/ FetchFails(w) \/ Send(w)
                        \/ DropAtDeadline(w) \/ Pause(w) \/ Exit(w)
  \/ CloseJobs \/ CloseResults \/ Collected \/ Verify \/ Compare \/ Write
  \/ DeadlinePasses
  \/ Exited

\* Every goroutine that can move does, and a fetch that does not succeed runs
\* into the timeout of http.Client.  Nothing is assumed of the deadline.
Fairness ==
  /\ \A w \in Workers :
       WF_docgenVars(Feed(w) \/ FetchFails(w) \/ Send(w) \/ DropAtDeadline(w)
                       \/ Pause(w) \/ Exit(w))
  /\ WF_docgenVars(CloseJobs)
  /\ WF_docgenVars(CloseResults)
  /\ WF_docgenVars(IndexFails \/ Collected \/ Verify \/ Compare \/ Write)

Spec == Init /\ [][Next]_docgenVars /\ Fairness

(***************************************************************************)
(* Properties.                                                             *)
(***************************************************************************)

TypeOK ==
  /\ file.kind \in {"absent", "source", "broken"}
  /\ deadline \in BOOLEAN
  /\ feeder \in {"idle", "feeding", "closed"}
  /\ fed \in 0..Len(entries)
  /\ worker \in [Workers -> {"receive", "fetch", "send", "pause", "exited"}]
  /\ holds \in [Workers -> 0..fed]
  /\ results \in {"open", "closed"}
  /\ failed \subseteq 1..fed
  /\ \A w \in Workers :
       record[w] # NoRecord => worker[w] \in {"send", "exited"} /\ holds[w] \notin failed
  /\ errors \subseteq failed
  /\ main \in {"index", "collect", "verify", "emit"} \union Ends

\* No goroutine ever sends on the closed channel, which would be a panic.
NoSendAfterClose ==
  results = "closed" => \A w \in Workers : worker[w] \notin {"fetch", "send", "pause"}

InHand == {w \in Workers : worker[w] \in {"fetch", "send"}}
Gathered == {n \in 1..fed : \E a \in Range(actions) : a.name = entries[n].name}

\* No entry is in two hands, or in hand and already collected, or collected
\* twice.
InOneHand ==
  /\ \A v, w \in InHand : v # w => holds[v] # holds[w]
  /\ \A w \in InHand : holds[w] \notin Gathered \union errors
  /\ Cardinality(Gathered) = Len(actions)

\* The goroutines hand each other what they should, over channels that are open.
HandedOverSoundly == TypeOK /\ NoSendAfterClose /\ InOneHand

\* Before the deadline nothing is lost: what has been handed out is collected or
\* in the hands of a worker, and what is written, or found to be up to date, is
\* the registry of the whole site: the same whatever order pages came in.
RegistryIsTheSite ==
  ~deadline =>
    /\ main # "error" =>
         1..fed = Gathered \union errors \union {holds[w] : w \in InHand}
    /\ main \in {"written", "uptodate"} => IsRegistryOf(file.actions, Site)

\* A page that failed never passes for fetched.  A run that collected a failure,
\* or an action nobody classified, or that only checks, leaves the file alone.
WrittenIsSound ==
  /\ Gathered \intersect failed = {}
  /\ file # committed =>
       /\ ~check
       /\ errors = {}
       /\ \A a \in Range(actions) : ToLower(a.name) \in classified
       /\ main = "error" => file.kind = "broken"
       /\ main \in Ends

\* What the server can rely on in any registry that was written: no parameter
\* overrides the action the policy judged, none is demanded and refused at once,
\* and no prose of the vendor's describes one.
SafeToServe ==
  main = "written" =>
    \A a \in Range(file.actions) :
      /\ \A p \in Range(a.params) \union Range(a.response) :
           ToLower(p.name) # "action" /\ p.description # "prose"
      /\ \A p \in Range(a.params) : ~(p.required /\ p.deprecated)
      /\ \A b \in Range(file.actions) : ToLower(a.name) = ToLower(b.name) => a = b

\* The run ends, deadline or not: no goroutine waits for one that is gone.
Terminates == <>(main \in Ends)

(***************************************************************************)
(* Why the properties hold: which entry is where, and what a worker has to *)
(* show for it.                                                            *)
(***************************************************************************)

\* The record of an entry whose page could be read.
RecordOf(n) ==
  LET e == entries[n] IN Action(e, ParseAction(e.name, Fetched(Site.page[e.slug])))

\* No name is there twice: Dedupe.
EntriesDiffer ==
  /\ Len(entries) \in Nat
  /\ \A i, j \in 1..Len(entries) :
       ToLower(entries[i].name) = ToLower(entries[j].name) => i = j
  /\ main = "index" => fed = 0 /\ feeder = "idle" /\ entries = << >>
  /\ main # "index" /\ entries # << >> => entries = IndexEntries
  /\ main \notin {"index", "error"} => entries # << >>

\* An entry is handed to one worker and stays its last until the next.
OneHolder ==
  /\ \A v, w \in Workers : v # w /\ holds[v] # 0 => holds[v] # holds[w]
  /\ \A w \in InHand : holds[w] # 0
  /\ \A w \in Workers : worker[w] = "fetch" => holds[w] \notin failed

\* What was collected is the record of an entry that did not fail, each once.
RecordsAreTrue ==
  /\ DOMAIN record = Workers
  /\ \A w \in Workers :
       worker[w] = "send" /\ holds[w] \notin failed => record[w] = RecordOf(holds[w])
  /\ actions \in Seq(Range(actions))
  /\ \A i, j \in 1..Len(actions) : actions[i].name = actions[j].name => i = j
  /\ \A a \in Range(actions) : \E n \in 1..fed : n \notin failed /\ a = RecordOf(n)
  /\ Gathered \intersect failed = {}

\* What main has seen by the time it is where it is.
AtTheEnd ==
  /\ results = "closed" => \A w \in Workers : worker[w] = "exited"
  /\ main \in {"verify", "emit", "written", "uptodate"} => results = "closed" /\ errors = {}
  /\ main \in {"emit", "written", "uptodate"} =>
       \A a \in Range(actions) : ToLower(a.name) \in classified
  /\ file # committed =>
       /\ ~check /\ errors = {}
       /\ \A a \in Range(actions) : ToLower(a.name) \in classified
       /\ main = "written" \/ (main = "error" /\ file.kind = "broken")
  /\ main = "written" => file = [kind |-> "source", actions |-> Emit(actions)]
  /\ main = "uptodate" => file.actions = Emit(actions)

\* Before the deadline an entry is lost by nobody.
NoneLost ==
  ~deadline =>
    /\ main # "error" => 1..fed = Gathered \union errors \union {holds[w] : w \in InHand}
    /\ feeder = "closed" => fed = Len(entries)
    /\ \A w \in Workers : worker[w] = "exited" => feeder = "closed"

DocgenInv ==
  /\ TypeOK /\ InOneHand
  /\ EntriesDiffer /\ OneHolder /\ RecordsAreTrue /\ AtTheEnd /\ NoneLost
===============================================================================
