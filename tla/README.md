# Verification of toc-whmcs-mcp

TLA+ models of the MCP server for WHMCS, the TLC runs that check them on small
instances, and proofs, checked by TLAPS, that the properties which matter most
hold for every instance. Paths are relative to the repository; `confirm.go`,
`dispatch.go` and the like stand for `internal/confirm/confirm.go`,
`internal/tools/dispatch.go` and so on. The definition-by-definition
correspondence to source lines is the `map` of `PROJECT.json`.

## 1. The system

An MCP server process sits between a language model and a WHMCS billing system.
Every tool call takes one path:

    MCP client -> dispatch -> policy -> (preview | confirm.Store) -> Params
               -> registry.Validate -> whmcs.Client -> redact / shape / untrusted

| component | state it keeps | operations | what makes it correct |
|---|---|---|---|
| Confirmation store (`internal/confirm`) | signing key, map of consumed nonces, clock | `Issue`, `Verify`, sweep; a restart replaces it | a token authorises one operation, of one process, once while it lives; each refusal code is true |
| Argument binding (`fingerprint`, `registry.Validate`, `genericParams`, `Args`) | none | canonicalise, validate, encode | what is sent is what was previewed; nothing given is dropped |
| WHMCS client (`internal/whmcs`) | none between calls | `Call`: attempt, classify, back off, retry | a write sent once, and again only where it is redirected; success is real; reads retried neither too little nor too much; the call returns |
| Dispatcher (`tools/dispatch.go`, `generic.go`) | one handler per call; the audit log | `dispatch`, `run`, `checkConfirmation`, `runGeneric` | nothing destructive goes out unconfirmed or unlogged; a refusal sends nothing and discloses nothing |
| Policy (`internal/policy`, registry classes) | fixed at start | `AllowsAction`, `AllowsTool`, `Resolve` | safe defaults; blocked is out of reach |
| Registration and startup (`internal/app`, `tools.Register`) | the listing | tool by tool registration | the listing is what policy and allowlist grant |
| Configuration (`internal/config`) | the resolved settings | `Load`, `validate`, env file | precedence; an unsound configuration does not serve |
| Curated tools (`tools/curated.go`) | none | `Params`, `Preview` per tool | good calls reach WHMCS unchanged; no call widens itself |
| Response pipeline (`redact`, `shape`, `extract.go`, `wrapUntrusted`) | none | redact, project, label | no credential; personal data only on opt-in; nothing undeclared but an acknowledgement's identifiers; customer text labelled; nothing harmless lost |
| Untrusted envelope (`internal/untrusted`) | none | `sanitise` | no imitation of a boundary; bounded; legible |
| Paging (`Limits.resolve`, `pageParams`, `listExtract`) | none; the caller's offset | one page | bounded pages; a walk meets every record once and ends |
| Registry generator (`cmd/docgen`) | goroutines and channels; the generated file | index, dedupe, feed, fetch, parse, collect, verify, compare or write | no send on a closed channel; the registry is the site's, whatever the order of results; it ends; what it writes is classified and safe to serve |
| Audit log (`internal/audit`) | an append-only log, a level | one record per event | the log is ahead of the effect |
| Server lifecycle (`cmd/toc-whmcs-mcp`) | listener, signal context, exit status | serve on stdio or HTTP, check health, shut down | it ends; the exit status tells the truth about calls in flight; nothing is sent for a caller that has gone |

**How they interact.** Handlers run concurrently, one goroutine per call, and
share the confirmation store (a mutex over one map), the audit log and WHMCS;
everything else is immutable after `app.Build`. The client does not share state
between calls. The generator is a separate program that shares only the
classification table with the server.

**What is hard.** `Verify` reads the clock and the token outside the mutex it
takes next, and its sweep reads the clock again. A restart between preview and
confirmation, or between confirmation and the request, loses the store and the
handlers but not WHMCS or the log. An attempt that timed out may have been
performed, or may still be; a redirect repeats its body, also that of a write, to
another server that may take it for a second request. A context can end
while the client backs off, and whether a signal ends it depends on the
transport. The wall clock can be set back. A collection changes while it is
walked. Go
map iteration order is unspecified where spellings fold together. Settings come
from four levels with different ideas of "malformed". Sanitising passes
interact. The generator's deadline can pass at any point of a four-party
rendezvous. `PROJECT.json` lists these hazards one by one, each at its line.

## 2. Modules

| module | models | state and actions |
|---|---|---|
| `ConfirmContract` | what a store promises, without keys, locks or sweeps | `Mint`, `Redeem`, `Revoke`, `Pass` |
| `ConfirmStore` | `confirm.go` | `Issue`; `Verify` as three steps, `BeginVerify` (MAC), `CheckExpiry`, `Consume` (lock, sweep, look up, insert); `Restart`; `Tick`; `StepBack` (the wall clock is set back) |
| `AtMostOnceCall` | what a caller may assume of one call to WHMCS | `Perform`, `Succeed`, `Fail` |
| `WhmcsClient` | `client.go`, with the network, WHMCS and the context as environment | one action per way an attempt or a backoff ends; `FollowRedirect`, which is one request more on the wire, and `RedirectsExhausted` are `http.Client`'s; `Dispose` is WHMCS performing or dropping a request at any later time |
| `Lifecycle` | `main.go` from the end of startup to the exit, on stdio, on HTTP and as the health check, around one call of `WhmcsClient` | `Arrive`, `Finish`; `Signal`, `InputEnds`, `ContextOver`, `StreamCloses`; `ListenReturns`, `ServeFails`, `ShutdownDone`, `GraceOver`, `HealthCheckEnds` |
| `Policy` | `AllowsAction`, `Resolve`, `PermittedActions` | operators only |
| `Dispatch` | `dispatch`, `run`, `checkConfirmation`, `runGeneric` and the audit log at a level; composes `ConfirmStore` (INSTANCE over its own variables) and `Policy` | one action per step that touches shared state, `Start` to `Finish`; `Restart`, `Tick` |
| `Binding` | `fingerprint`, `genericParams`, `Validate`, `encode`, the impact statement | `Preview`, `Present`, `Send`, over maps from spellings to values; a map iteration is a choice among the spellings |
| `Startup` | `Load`'s profile, `Build`, `Register`, and what a client is told: `Hints`, `Listing` (whmcs_list_actions), `Describes` (whmcs_describe_action); uses `Policy` | `Load`, `RegisterTool` per tool, `EndRegister` |
| `Settings` | `config.Load`, `envfile.go`, `validate`, the checks of `whmcs.New` | `ReadFile`, `ReadEnvironment`, `ParseFlags`, `ParseChoices`, `Validate`, `NewClient` in the code's order |
| `Actions`, `Curated` | the parameters of 21 actions as generated; the 21 tools, `Args`, `Validate` | `PreviewCall`, `Build`, `SendCall` of one call |
| `Exposure` | `redact.go`, `shape.go`, the extractors of `extract.go` (object, merged, list, ticket, acknowledgement), `filterGeneric` | `Register` (Spec.Validate), `Request`, `Answer`, `AnswerTooLarge`; a response is the set of its leaves |
| `Untrusted` | `sanitise`, `boundaryReplacer` | `Type`: a text grows by a symbol; `Sanitise` is a function of it |
| `Paging` | `resolve`, `Page`, `pageParams`, `listExtract` and a caller who follows `next_offset` | `Fetch`; `Add` and `Drop` change the collection between pages |
| `Pages` | `parse.go`, `dedupe`, `emit.go` on pages given as sequences of elements; and, to check them against, the registry of a site as a reader would write it down | operators only. The code walks a page once and keeps what it is in; the reader looks at each place by what stands before it (`RowsUnder`, `SummaryOf`, `ActionLinks`, `RecordAt`), and `IsRegistryOf` says when a list is that registry |
| `Docgen` | `run`, `fetchAll`, `verifyClassification`, the check mode and the write; uses `Pages` | one action per channel rendezvous, fetch, close and exit, from `ReadIndex` to `Compare` or `Write`; `DeadlinePasses` |

`MC*` modules define constants and symmetry for TLC. `*_proofs` modules hold
the theorems, by the part of the system they are about:
`ConfirmStore_proofs`, `Lifecycle_proofs` (with `WhmcsClient`),
`Dispatch_proofs`, `Startup_proofs` (with `Policy` and `Settings`),
`ToolCalls_proofs` (`Binding`, `Paging`, `Curated`), `Exposure_proofs` (with
`Untrusted`) and `Docgen_proofs` (with `Pages`). `FoldTheorems` holds what the
proofs about loops need.

**Composition.** `Dispatch` instantiates `ConfirmStore` and takes its actions as
parts of its own, so that `StoreSpec` says that every step of a handler is a
step of the store or leaves it alone; `ConfirmStore` in turn implements
`ConfirmContract`. `Dispatch` takes the client as `AtMostOnceCall` describes it
(a call may be performed and reported failed, at most once), and `WhmcsClient`
is shown to implement that. `Lifecycle` takes the client's actions whole, under
the contexts its transport gives them, and `RunsTheClient` proves that a call
inside a process is a call of `WhmcsClient`: what holds of the client holds of a
process that may be told to stop at any point. `Settings` ends where `Startup`
begins; `Startup` and `Dispatch` share `Policy`. `Docgen` reads what `Pages`
makes of a page and writes what `Pages` makes of the records.

**Main abstractions.** An operation is a fingerprint; a MAC is the record of
what was signed, equal to another only when key and message are; nonces do not
repeat. The clock may be set back in `ConfirmStore` (by `MaxBack` ticks in all)
and not in `Dispatch` (`MaxBack` is 0 there). Values are the classes the code
tells apart (null, number, text that reads as a number, word; vendor's prose or
our own). Field names are classes of names. Backoff lengths, jitter, wording and
encoding of log records are left out. In `Dispatch` a token is presented as it
was handed out; `ConfirmStore` covers tokens pieced together from several. The
operation a token is bound to is what `fingerprint` hashes, the action and the
arguments as given, in which there is no path: the escape hatch adds the action's
own name to its parameters (generic.go:205), and a caller of a purpose-built tool
may add it too (`named`), so the two can coincide. What each path's validation
makes of the same arguments is a constant (`Judged`). In `WhmcsClient` what
redirects a write may perform it all the same, unless `passesOn`; of a read nothing
depends on that. In `Settings` only the page sizes have numbers. In
`Exposure` a list stands for any of its elements, since `ProjectList` treats
them alike. In `Docgen` a page is a sequence of elements and not HTML text.
`Lifecycle` follows one call, which may be any of those a process serves.

## 3. Runs

Every property below has, in `PROJECT.json`, a mutant of one mapped definition
that breaks it.

| run | instance | what it shows |
|---|---|---|
| `ConfirmStore` | 2 calls, 2 nonces, 2 operations, TTL 1 tick, 2 ticks per second, time to 1, 1 restart, the clock set back once; symmetric | `IInv`: the inductive invariant. `Authorised`: only what the running process issued for this very operation, from a call that came in time. `RefusalsTruthful`: each code is true. `NoReplayWhileLive`: no second acceptance while the token lives by the latest time the process has seen, so also with the clock set back. `ContractSpec`: refinement |
| `ConfirmSingleUse` | 1 nonce, TTL 2, time to 3 | a counterexample: see divergence 1 |
| `Lifecycle` | 2 retries, 1 redirect that performs the write it passes on or does not, each class of action, every class of status and kind of body, 3 modes, a signal and a departure at any point | Of the client, through the end of the process: `WriteSentOnce`, a write is sent once and again only for a redirect, and performed at most once or, where what redirects performs it too, once more for each redirect; `RetryDiscipline`; `ContractSpec`, at most once where redirects pass a write on and nothing else. `NothingSentForTheGone`. `ExitTellsTheTruth`: status 0 means no call was abandoned. `Ends` (liveness) |
| `Dispatch` | 3 concurrent calls, 8 requests by tool, with the action among its arguments and without, escape hatch and local tool, 2 policies, 2 log levels, TTL 1, time to 1, 1 restart | `SentWasConfirmed`: at the moment a destructive request goes out the log holds the preview and, at the level that lets them through, the issuance and the consumption of its token, issued by this process for the same action and arguments, and a token has crossed between the escape hatch and a purpose-built tool only where the tool's call named the action (divergence 28). `TokenRunsOnceWhileLive`. `RefusalsAreTrue`: a call that was previewed, or refused before its request, sent nothing, and the parameters of an action are judged only where the policy permits it. `IInv`: the inductive invariant, with the finish record of every call. `StoreSpec`. Deadlock freedom |
| `Binding` | 7 spellings of 3 parameters, 2 keys per call, every iteration order | `AuthorisesTheSame`, `SentWasPreviewed`, `NothingIgnored` |
| `Startup` | 6 kinds of tool over 5 kinds of action, every profile, opt-in and allowlist | `AdvertisedExactly`, `BlankProfileChangesNothing`, `TellsWhatItLets`: hints, the list of actions and their descriptions agree with what a call may come to |
| `Docgen` | 2 workers; a site of three actions with duplicates and broken links, and sites of one action for every page of a usual beginning and up to 2 of 14 further elements; complete and incomplete tables; write and check mode; deadline anywhere | `HandedOverSoundly`: no send on a closed channel, no entry in two hands. `RegistryIsTheSite`: before the deadline nothing is lost, and the file is the records of the site, each in its place. `WrittenIsSound`, `SafeToServe`, `Terminates` (liveness) |
| `Paging` | page sizes 1 to 3, requests 0, 1, 2, 4, collections up to 4 that change twice, with a total and without, actions that ignore the offset | `WalkIsSound`: bounded pages, clamping reported, no more records missed or repeated than left or came. `WalkEnds` (liveness) |
| `Exposure` | 18 names, paths to depth 4 with `MaxDepth` 2, 5 shapes, 6 ways to answer, every opt-in | `NoSecretShown`, `OptInsRespected`, `ReportedOrKept`. `ReturnedAsDeclared`: a tool with a shape returns what it declares, labelled as declared; an acknowledgement returns identifiers, declared or not (divergence 29), and nothing else of a response; the escape hatch labels text under the names `looksUntrusted` knows, however deep it lies |
| `Untrusted` | every text of up to 5 of 11 symbols, bound 4 | `NoBoundaryLeft` (also of what a second pass leaves), `Legible` |
| `Settings` | twelve settings of every kind the code has, up to three of them given at once, in every way at every level; page sizes on both sides of the defaults and of each other | `ServedAsTold`: also, no default page size over the largest, whichever levels the two come from. `RefusedForCause`: every setting an error names is wrong by itself or, of the page sizes, beside the other |
| `Curated` | 21 tools, up to 5 arguments, one of any form | `GoodCallsArrive`, `NothingInvented`, `NeverUnbounded` |

**Why the bounds are enough to be interesting.** Two calls and two nonces are
what a race for a token, a recombination and a wrong binding need; two ticks to
the second put an expiry inside a second, so the cut to whole seconds is felt;
a token expires on either side of each step of `Verify`, and a step back takes
it out of the expired again; one restart gives tokens of an older process. In
`Dispatch` one call previews and two race to use its token; one level lets
every record through and the other drops the informational ones. Two retries
distinguish the first, a middle and the last attempt, and one redirect makes a
second request of one attempt, which is what a write performed twice takes.
Page sizes of 10, 24, 30, 200, 201 and 300 stand below, between and above the
defaults of 25 and 200. Two workers and three entries let both work, one
be idle, and entries be left at the deadline; two elements after a usual
beginning reach a second table, a second heading, a row in the wrong table and
a page cut off in what is fetched. Collections larger than the largest page
give full, partial and empty last pages, and two changes let one record come
and one go. Three settings are what the rules between settings relate. A path
two longer than `MaxDepth` lies beyond the walk also under a projection. Five
symbols hold a boundary with room to build one out of another. The bounds on
time, restarts, steps back, redirects, changes, arguments, text and collection
size (`MaxTime`, `MaxEpoch`, `MaxBack`, `MaxRedirects`, `MaxChanges`,
`MaxArgs`, `MaxGiven`, `MaxText`, `MaxSize`) exist for TLC, except that
`MaxRedirects` stands for the ten of `http.Client`; where there are theorems
they hold for all values.

**Symmetry.** Calls, nonces and operations of `ConfirmStore`, and calls of
`Dispatch`, are interchangeable: no action or property names one. Neither run
checks liveness.

**Deadlock** is checked in every run. Programs that end have a stuttering step
that is enabled in their final states only (`Exited`, `Done`, `Started`,
`Answered`, `Over`; in `Dispatch`, `Quiet`, when every handler has returned),
so the check shows that nothing stops short of them: no handler, goroutine or
step of a start is stuck.

**Fairness** is stated in three modules. `Lifecycle`: the goroutine that runs
`Call` is scheduled, an attempt that waits ends because `http.Client.Timeout`
is always set (`New`), timers fire (a backoff, the grace of a shutdown), and
what `main` waits for is noticed. Nothing is assumed of WHMCS, the network or a
client: none need answer, leave or close its stream. `Docgen`: each goroutine
is scheduled and a fetch ends, if not with a page then with an error, by the
HTTP timeout; the deadline may or may not pass. `Paging`: a caller who is told
that there is more asks again.

## 4. Proofs

TLAPS checks each theorem for all values of the constants. Assumptions on
constants are the named `ASSUME`s of the modules; TLC evaluates them in the runs.

| module | theorems | argument |
|---|---|---|
| `ConfirmStore_proofs` | `TypeCorrect`, `StoreInvariant`, `Inductive`, `OnlyAuthorised`, `RefusalsAreTruthful`, `NoReplay`, `ImplementsContract` | `IInv` = `TypeOK` and `StoreInv`. None of the properties is inductive: a call between two steps of `Verify` carries what it has already been told, so `StoreInv` says that what the MAC check established stays true (`PastMac`), what the expiry check established was true when it was made (`PastExpiry`), nonces are unique and well signed (`IssuedWellSigned`), and the map agrees with the history: a nonce accepted in this process is in the map or past its expiry (`MapMatchesHistory`). The last is what the sweep could break. The refinement maps a consumption to `Redeem` and everything inside `Verify` to a stutter |
| `Dispatch_proofs` | `Inductive`, `DestructiveIsConfirmed`, `TokensRunOnce`, `RefusalsTrue`, `UsesTheStore`, `SharedStoreImplementsContract` | `IInv` joins the store's invariant, over the dispatcher's variables, to what each handler has learnt: it keeps its request and is admitted by the policy (`CallsAreInOrder`); a token bears the operation of the call that minted it (`TokensAreOfTheirCalls`); a destructive call gets past its confirmation only with a token another call was handed (`OnlyWithAToken`), which the store has accepted and the log has as consumed (`VerifiedIsRequested`); that only naming the action makes the two paths' operations equal is a fact about `Operation`; a token lets a second call through only after its expiry (`LetThroughOnce`). The store's lemmas are used, not repeated: a step of a handler is a step of the store or leaves it alone (`UsesTheStore`), from which `TokensRunOnce` and the store's contract follow. For any number of calls, tokens, tools and restarts |
| `Lifecycle_proofs`, of `WhmcsClient` | `TypeCorrect`, `WritesAreSentOnce`, `SuccessIsPerformed`, `NotGivenUpEarly`, `RetriesAreDisciplined`, `NothingSentAfterCancel`, `ImplementsContract` | the invariant ties the loop index and the redirects followed to the requests sent (so many turns, each of `Turn` requests at most), the reply in hand to a request performed, and the result to the last failure; of a write that is passed on only the last request can be, or have been, performed, which makes once of many; for any number of retries and redirects |
| `Lifecycle_proofs` | `RunsTheClient`, `WritesSurviveExit`, `ContractSurvivesExit`, `RetriesSurviveSignals`, `LifeTypeCorrect`, `ExitIsTruthful`, `NothingIsSentForTheGone` | every step of the process is a step of the client or leaves it alone, from which the client's theorems follow for the process; the exit status needs that a process which exited with 0 had no handler running, and the last that only a live context lets the client send and that a signal ended the context of every stdio call |
| `ToolCalls_proofs`, of `Binding` | `TypeCorrect`, `TokenAuthorisesTheSame`, `TokenSendsThePreviewed`, `NothingIsIgnored` | where no two keys name one parameter a map has one fingerprint (`FingerprintHolds`), a common fingerprint means the same arguments (`SameFingerprint`), and the same arguments have the same forms (`SameForms`) |
| `ToolCalls_proofs`, of `Paging` | `WalkInductive`, `WalkSound` | that no more is missed than was dropped is not inductive. `Behind` and `Ahead` count, for where the walk stands, the records that can no longer be met and those that will be met again; each change moves at most one record across, and a page none |
| `ToolCalls_proofs`, of `Curated` | `CallInductive`, `CallsArrive`, `NothingMadeUp`, `NoneUnbounded` | what the three properties need of the two tables is `Agrees` and `Bounded`: one argument writes a parameter, what a tool reads its action documents in that type, what the action demands the tool demands. That is shown tool by tool (21 lemmas, `ToolsAgree`); from it the properties follow once, for every tool and every combination of any number of arguments in any form |
| `Startup_proofs` | `BlockedIsOutOfReach`, `DestructiveIsOptIn`, `ProfilesAreBands`, `OptInOnlyAdds`, `TypeCorrect`, `AdvertisesExactly`, `TellsTheTruth`, `BlankProfileIsSafe` | the first four are about the policy alone, for any registry; the others from the invariant that what was registered so far is what is granted of what was looked at so far |
| `Startup_proofs`, of `Settings` | `SettingsTypeCorrect`, `ServedIsAsTold`, `RefusedOnlyForCause` | the invariant says, step by step of `Load`, which level each value is from, for settings of any kind; the numbers compared in `validate` are then the ones the levels give (`OversizedAsSaid`) |
| `Exposure_proofs` | `TypeCorrect`, `SecretsStayOut`, `OptInsHold`, `KeptOrReported`, `AsDeclared`, `DepthIsBounded` | no induction over the walk: `redact` is a condition on each path, so the lemmas say what one projected field can contain and what it came from, and the list and ticket extractors are shown to project elements of the source and nothing else; what is filtered for the escape hatch is wrapped by the last name of its path |
| `Exposure_proofs`, of `Untrusted` | `BoundariesGo`, `StaysLegible` | for texts of any length and any bound. Seen from the end of the text, what `Replace` makes of the rest holds no boundary and begins, where a boundary could straddle the place before it, as the rest itself began (`ReplacementFences`, `KeepingIsFaithful`); so no rule's output completes another rule's input (`ReplaceLeavesNone`). A beginning of a text without boundaries has none, and on such a text the three passes change nothing (`ReplaceOfNone`), which is why a second pass does not |
| `Docgen_proofs` | `DocgenInductive`, `HandsOverSoundly`, `WritesSoundly`, `WrittenIsSafe`, `RegistryIsRead`, `OneRegistry` | `DocgenInv`: an entry is handed to one worker and stays its last (`OneHolder`); what a worker has to send, and what was collected, is the record of an entry that did not fail, each once (`RecordsAreTrue`); the entries are what dedupe left, no two of a name in whatever case (`EntriesDiffer`); main is past collecting only when every worker is gone (`AtTheEnd`); before the deadline nothing is lost (`NoneLost`). `WrittenIsSafe` adds what `parseParamTable` keeps of any page (`ParsedIsSafe`), that a link of the index leads to a page of the site, and that sorting puts in nothing (`EmitTyped`). For `RegistryIsRead` see below. For any site, any number of workers and any table |
| `FoldTheorems` | the lemmas `SetInduction`, `LoopInduction`, `BackwardInduction`, `MaxOfPlaces`, `FoldExists` | the loops of the parser, of dedupe, of the sanitiser and of the sort are folds over sequences. The library states induction for an operator, which the provers cannot instantiate; here it is proved for sets of numbers, from the pigeonhole principle. That the function a fold is chosen to be exists is `FoldExists`; each proof about a loop then goes step by step along its elements |

That a finished registry is the site, `RegistryIsRead`, has four steps. *Reading*:
what the walk over a page holds at each element (section, summary, whether it is
in a table, the rows so far) is what the reader finds by looking at the places
up to that element; one lemma for each of these, by induction along the page
(`HeadingsGrow`, `SummaryGrows`, `TableAtGrows`, `RowsGrow`, `ParamsGrow`), joined
in `PageWalks` and, for the index, `IndexWalks`. A section that is opened twice
makes this harder than it looks: the code starts its list again at each table,
which for the reader is that the rows of the last table count. *Dedupe* keeps
the first of the links whose texts differ in case at most (`DedupedLinks`).
*Collecting*: while the deadline has not passed, main stops only with a record of
every entry, in an order the workers happen to produce (`AllIsCollected`).
*Sorting*: an insertion keeps the list in order and adds one record
(`InsertKeeps`, `EmitSorts`). `OneRegistry` shows that the property leaves no
room: a site has one such list, so whatever is written or compared does not
depend on the interleaving.

Assumptions of substance. `Exposure`: names that differ in case only are in
the same lists (`FoldAssumption`: `normalise` lower-cases); the fields taken
for text or identifiers hold no object (`ResponsesAssumption`: a field declared
untrusted that held an object would be rendered without redaction); the shapes
declare personal data and notes as such, the shape of ticket replies is one
`Spec.Validate` would accept though it is never put before it, and the keys
under which objects, replies and elements sit are on no denylist, and the
names `looksUntrusted` knows are names text sits under (`ShippedAssumption`: `Spec.Validate` does not enforce the first, the shapes in
`curated.go` satisfy them). `Binding`: folding and trimming are functions on
spellings, texts that are numbers denote that number. `Docgen`: pages are
sequences, a link of the index leads to a page, an empty one if to nothing,
there is a worker (`fetchAll` takes a concurrency below one for one), and the
texts that are sorted are totally ordered, as Go's strings are
(`DocgenAssumption`). The others say that sizes are natural numbers and what
the sets of names are (`DispatchAssumption`, `UntrustedAssumption` and the
like). The type invariants of `ConfirmStore`, `Dispatch` and `Docgen` are part
of a checked property (`IInv`, `HandedOverSoundly`); the other ones are
theorems and are not repeated in the cfgs. `NothingSentAfterCancel` is proved
of the client and, for its callers, checked as `NothingSentForTheGone`.

**Model-checked only.** Liveness (`Ends`, `Terminates`, `WalkEnds`) is beyond
the prover. `ConfirmSingleUse` is a counterexample and has nothing to prove.
Every other property of the runs, safety and refinement, is a theorem.

## 5. Where the code and its documentation differ

Found while modelling. The first has a run that exhibits it; the properties of
the others are stated so as to be true of the code, and exclude it.

1. A token can be accepted twice. `Verify` compares the expiry at confirm.go:165 outside the mutex; a second call past that line takes the lock after the deadline, when the sweep has dropped the entry. confirm.go:9-11 and openspec access-control:109-112 promise single use. (`ConfirmSingleUse`; `NoReplayWhileLive` says exactly how far single use holds.)
2. The signed expiry is cut to whole seconds (confirm.go:124), so a token is called expired up to a second before its TTL has elapsed (errs.go:39).
3. A deadline that passes during a backoff is reported as `cancelled` (client.go:378, against 274-275 and errs.go:64).
4. A plain 500 is retried (client.go:313; openspec whmcs-api-client:49-52 lists 429, 502, 503, 504).
5. The token is consumed before `Params`, `Validate` and `Call` (dispatch.go:136); if these fail the retry is told the operation has run (errs.go:42-43, docs/troubleshooting.md:29).
6. The issuance of a token bears the operation ID of the preview call, not of the executed one (dispatch.go:37, against audit.go:123-125, docs/security-model.md:209).
7. A blocked action named to the escape hatch is refused by `Resolve` and leaves no `policy.denied` (generic.go:187; docs/troubleshooting.md:155).
8. A preview leaves a `tool.finish` record of class destructive and outcome success (dispatch.go:58; docs/troubleshooting.md:112-114, 152).
9. The escape hatch is advertised under no profile (tools.go:228; openspec access-control:15-16).
10. At the deadline `docgen` drops results without an error and may write a short or empty registry (cmd/docgen/main.go:131, against 106).
11. `whmcs_transaction_list` ignores `offset` (curated.go:404; openspec mcp-tool-surface:88-90). Every page of its walk is the first one; the walk still ends, because next_offset grows.
12. Two spellings of one parameter let map order choose the target that is bound and the one that is sent (confirm.go:214, registry.go:117-141; docs/security-model.md:118-119). The theorems on `Binding` assume there are no such pairs.
13. The preview of a termination names no service when `service_id` is a JSON number (curated.go:825; docs/tools.md:165-172).
14. The text of a custom field hangs from `value` and is not labelled by the escape hatch (generic.go:305; openspec data-protection:84-87).
15. Fields of kind Notes are returned without an envelope after the opt-in (shape.go:136; same clause).
16. A card's expiry, start date and issue number match no denylist entry (redact.go:28; openspec data-protection:51-53).
17. `Load` stops at the first malformed flag or choice (config.go:125; docs/troubleshooting.md:42-43 "names every problem at once").
18. Arguments a curated tool does not declare are ignored (dispatch.go:90; docs/registry.md:116-118).
19. An identifier filter of zero or with a fraction is dropped and the list is unfiltered (curated.go:933; openspec whmcs-api-client:118-120).
20. A flag that is not understood becomes false (tools.go:152; openspec whmcs-api-client:104-106).
21. The preview of a payment prints the transaction reference as the invoice (curated.go:452).
22. main.go:99-100 says a SIGTERM "ends the session rather than killing an in-flight billing call mid-write". The context it ends is the one stdio calls run under: a write already sent is reported `cancelled` and may have been performed.
23. On HTTP the contexts of requests do not derive from the signal (main.go:129-136), so in-flight calls are not cancelled, as tasks.md:54 of the first change has it, but waited for, for 15 seconds; the default request timeout is 30. A call that outlasts the grace is cut off with exit status 1.
24. parse.go:89-93 says that an extra table cannot be mistaken for the parameter list. A second table under the same h3 is: the last one wins.
25. With the wall clock set back, a token that was swept can be accepted again (confirm.go:195): the consumed entry is gone and the expiry is once more ahead.
26. At the levels above info the log drops the start of a call, the issuance and consumption of its token and the finish of one that succeeded (audit.go:83, 97). README.md:199 says every call is audited, docs/security-model.md:207-213 that what authorised a termination is answerable from the log alone.
27. Where WHMCS gives no `totalresults`, has_more is false although records remain (extract.go:78-82): a walk ends after the first page.
28. A token crosses between the escape hatch and a purpose-built tool. The fingerprint (confirm.go:208-236) holds the action and the arguments, and not the path; the escape hatch binds the action's name and the parameters (generic.go:205-212), a purpose-built tool all the arguments it was given, undeclared ones included (dispatch.go:85, 115, 136). So what `whmcs_call_action` previewed for `ModuleTerminate` with a `service_id` is accepted by `whmcs_service_terminate` with that `service_id` and an `action` of that name, and is sent, although the previewed call would have failed `Validate` after its confirmation; and the other way round. generic.go:202-204 says that "a token cannot be carried from one target to another by reshaping the wrapper", and the target, the action and its arguments, is indeed the same. `SentWasConfirmed` says that this is the one way across.
29. Ten of the 21 curated tools answer with an acknowledgement, which copies `noteid`, `ticketid`, `invoiceid`, `clientid`, `orderid` and `id` from the top of a response whether or not the tool declares them, and without the projection (extract.go:141-145). shape.go:3-10 says that everything undeclared is dropped and that there is "no code path where a handler hands back an unprojected upstream response"; openspec mcp-tool-surface:54, docs/security-model.md:54 and docs/troubleshooting.md:125 say the like. `ReturnedAsDeclared` says that these identifiers are all.
30. client.go:144-146 has it that writes are never retried, so that "no call site can accidentally make a payment twice". `http.Client` posts the body again where a 307 or 308 points (client.go:99-102 sets no `CheckRedirect`), for a write as for a read, so that rests on what redirects not having performed it. `WriteSentOnce` states both cases.

Smaller observations: `Operation.Confirmed` is never set; an invented token is
answered `confirmation_mismatch`; numbers, durations and booleans of the
environment that cannot be read take the default silently (config.go:340-361);
a WHMCS 401 or 403 gives the code `forbidden` although the request was sent;
allowlist entries that name no tool leave no trace; of several `-env-file`
flags the first is read though the flag package takes the last
(config.go:297-313); a page of the vendor's over 4 MB is cut off without an
error (cmd/docgen/main.go:213); a summary is written whatever its length, while
descriptions are not.

## 6. Not modelled, and why

- HTML, JSON and slog encoding; wording of errors and descriptions; the line
  syntax of an env file (`parseEnvLine`): text in, text out, no state.
- The MCP library, beyond what `Lifecycle` says of `Listen` and of handler
  contexts: external.
- `requireBearer`: one comparison in front of the handler, no state.
- The start record of the audit log: one record from settings `Startup` holds.
- The overflow of the response limit at 2^63-1 (client.go:216): listed as a
  hazard; a fact of arithmetic that no interleaving adds to.
- `actions_gen.go` beyond the 21 actions the tools use: modules take any
  registry.
- `internal/version` and the fake WHMCS of the tests.

## 7. Plan

Order of work, most important behaviour first: confirmation store and its
contract; client and its contract; policy and dispatch composed with both;
binding; startup and settings; responses; tools; paging; generator; lifecycle.
This much is modelled, checked and, but for liveness, proved. What is left is
what is modelled in part: the log's formats, and the rest of the generated
table, which says what the actions are and not what the server does.
