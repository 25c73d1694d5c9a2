# copilotd in TLA+

copilotd is a local proxy, written in Go, between coding clients and the GitHub
Copilot API. It mints the Copilot token, forwards HTTP, server-sent-event and
WebSocket traffic, repairs streams on the way (shims), serves a model catalog,
and keeps a usage ledger in SQLite, from which it makes priced reports. These
modules model the parts of it whose correctness depends on an order of events
(goroutines that share a lock, a channel or a counter, deadlines that race
answers, processes that share a file, sequences of calls), and the algorithms
in which a case is easily missed: matching, pricing, the calendar, layering.

A definition is translated from the Go source, and keeps its names where TLA+
allows. `PROJECT.json` maps every modelling definition to its lines.

## 1. Inventory

| Component (under `src/`) | State | Operations | What is hard | What makes it correct |
|---|---|---|---|---|
| **Usage store** `internal/usage/sqlitestore` | admission flag, producer count, bounded queue, batch, one connection, five unsigned counters, loss-log state; the file and its schema | `Record`, the writer (`runWriter`, `finish`, `writeBatch`), `StopAdmission`, `Close`; `openStore`, `admit`, `migrate` | the cutoff races a `Record` past its first check; `Close`'s deadline races a transaction; a residual of counters that others increment; a commit whose answer is lost; two processes that open and migrate one file, and crash | no Turn counted twice, the final report balances, nothing is replayed, an orderly close loses nothing, `Close` returns; whoever opens has a whole schema |
| **Identity manager** `internal/identity/manager.go` | cached token, one singleflight key | `Current`, `StartupMint`, the exchange | callers that look, leave and come back around one shared exchange; a retrying startup mint | no needless exchange, a leaver poisons nobody, calls return |
| **Device flow, token file** `internal/identity` | a file | login, polling, atomic replacement, reading | a cut between write and rename; two logins and a daemon at one file | what is read is a whole token of a confirmed user, private |
| **Cached values** `internal/cache` | one atomic value per registration, refresh mutex | `Prime`, `Refresh`, `Run` | a peek at the version, a fetch, a comparison and a commit with releases moving in between; a bounded startup wait | version and content belong together, a failure keeps the last good value, a published release arrives |
| **Catalogs** `internal/catalog` | the current models.json, as a cached value | a fetch in three calls, validation, listing, two shapes of rendering | a tag that moves between the calls; aliases and reviewers that lead nowhere | a document is what its tag named; an answer never names what it does not serve |
| **SSE engine** `internal/sse` | reader goroutine, one-place channel, stall and keepalive timers | `Pump`, transformer hooks | four ready arms of one `select`; errors after a terminal; leaving while a hook runs | nothing after a terminal, the outcome is what the client saw, no false stall, no goroutine left |
| **WebSocket forwarding** `internal/wsforward` | admission flag, WaitGroup, tracked sessions | upgrade, `runSession`, `Shutdown`, forced close | a session tracked after the drain's snapshot; deaf peers; own cuts that look like peer failures | a clean stop is empty, aborts only at the deadline, every drain ends |
| **HTTP forwarding, upstream caller** `internal/forward`, `internal/upstream`, `internal/server` middleware | a response being committed, a context and its cause, a body to close | one request from its gate to its access record | timer, departure and cap race; the point of no return; a panic in a hook | one answer, classified by what was observed, recorded as it was; every request ends and closes its body |
| **Shim chain, model override** `internal/shim` | the instances of one exchange | hooks inward and outward, the override's rewriting | frames dropped, split and held; a model that is there twice or cannot be read | every frame completes the onion; what is sent is what is attributed |
| **Hook watch** `internal/shim/monitor.go` | one timer, two locks, the summary's count | `begin`, `finish`, `abandon`, `publishCrossing` | late timer callbacks, a slow logger, panics and `Goexit` | crossing before ending, no early report, a stuck hook is reported |
| **Stream shims** `internal/shim` | pinned ids, a Turn being gathered | item-id stabilizer, usage meters | turns whose indices start again; repeated, late and unreadable events | stable and genuine ids, exactly the Turns the stream told |
| **Usage reports** `internal/usage/report` | one read transaction | query, calendar, fold of rows | zones that skip or repeat dates; a read during a write or a migration; overflow and limits | one snapshot, buckets that partition the window, totals that are the rows |
| **Pricing, model matching** `internal/usage/pricing`, `modelmatch` | one shared parsed price list, behind a gate | capture, parse, match, price | a refresh that overtakes a report; map order; ids that collide; missing counts and rates | priced by the version named, as no other model, exactly or not at all |
| **Configuration** `internal/config` | none after startup | flags, file, environment, defaults, checks | four layers over tables that commands share in part | the highest layer wins, whole; no secret is logged |
| **Serve lifecycle** `cmd/copilotd`, `internal/server` | listener, store, startup goroutine, two drains | dispatch, setup, `Run`, shutdown, finalization | a signal at any step; drains with one deadline; the order of cutoff and drain | a clean stop refuses no Turn, every way out releases everything, a stop ends |
| **Report over HTTP and CLI, endpoints, logging, build, scripts** | none | parsing, constant tables, formatting | | |

How they meet: a request handler gets a token from the identity manager, a
catalog entry from a cached value, calls upstream, and hands the body to the
SSE pump or the WebSocket session, which invoke the shims under the hook watch.
A meter shim calls `Record` of the usage store. A report reads the store's file
on a connection of its own and prices what it reads by the cached price list.
The lifecycle owns the store, the startup context (cached values, startup mint)
and the server that runs handlers.

## 2. Modules

| Module | Models | Correspondence |
|---|---|---|
| `UsageLedger` | what the usage store promises | each Turn is unrecorded, open, stored or lost; one report, which never overstates what is stored |
| `UsageStore` | `store.go` without opening | one action per atomic operation, channel operation and mutex section; a Turn is named by its `Record` call; queue and batch are sets, which covers FIFO order; `Word` is 2^64 of the counters |
| `UsageDatabase` | opening: `prepare*.go`, `admit`, `migrate`; `Reporter.read`'s transaction | one action per call to the file system or to SQLite, of several processes of different builds; SQLite is its write lock, what is committed, and snapshots |
| `Login` | `deviceflow.go`, `tokenfile.go` | logins, each a sequence of answers and file calls, and `ResolveOAuthToken`; a file is its token and whether it is private |
| `Minting` | `manager.go` | `Current`, `DoChan`, the flight's phases, `Receive`, `Leave`, the boot goroutine's attempts and backoffs; time is whole units |
| `CachedValues` | `cache/value.go`, `cache/registry.go` | each value has the goroutines "prime" and "loop" of one attempt: lock, peek, fetch, validate, compare, commit; the environment moves `latest` among the releases |
| `Catalog` | `internal/catalog` | the three calls of a fetch, `Decode`'s validation, and one request that renders the current document; an entry has a field of each kind of check; an answer maps positions in Copilot's list to entries, which keeps the list's order |
| `StreamPump` | `sse/pump.go` with its reader | one action per `select` arm and per stage of the loop's body; a frame is "data" or "terminal"; time is only whether a sample is before the stall tick |
| `Forwarding` | `forward.go`, the `Caller`, the middleware, the catalog's handler, `apierror`'s statuses | one action per stage of the handler's goroutine, and of its deferred calls; the client, the timer and upstream act between any two |
| `ShimChain` | `shim.go`, `model_override.go`, `header_policy.go` | one action per hook call; a shim is its position in the registry, and the chain the set of those that take part; a frame is where it began and which hooks it had; a payload is its members |
| `WsDrain` | `wsforward`, `Server.shutdown` | handlers from admission to leaving, two pumps and two close handshakes each, the drain, its snapshot and its force beside `http.Server.Shutdown` |
| `HookWatch` | `shim/monitor.go`, the summary's count | a watchdog per direction, timer callbacks as goroutines that outlive their invocation, `mu` and `publishMu` |
| `WsSession` | `WsDrain`, and the stabilizer of one session's stream | composition, by itself each |
| `Exchange` | `StreamPump`, and the forwarding that ends in it | composition, by itself each |
| `DurableFiles` | `UsageDatabase`, and the token file beside it | composition, by itself each |
| `ItemIDs` | `responses_item_id.go` | an event is the ids it carries on each surface; unreadable and malformed events are left verbatim |
| `UsageMeter` | the stream meters and the turn recorder | an event is its type, whether it can be read, and its counts |
| `ModelMatch` | `modelmatch/matcher.go` | indexing one candidate at a time, in any order, and the policies as one operator each; a name is a stem, a spelling and suffixes |
| `Pricing` | `modes.go`, `mode_context.go`, `anthropic.go`, `openai.go`, `contribution.go`, `rate.go` | a mode is parsed per step, in any order; a turn is priced in one; a rate is a multiple of the smallest |
| `PriceList` | `pricing/source.go` | `Current` between the gate's steps, with refreshes at any of them |
| `Calendar` | `report/calendar.go` | operators: a zone is an offset per instant, a date a run of local instants |
| `UsageReport` | `report/report.go`, `report/read.go` | the query's checks in their order, an edge of the calendar per step, then a row per step with its bucket, groups, totals and budgets; the deadline may end any of these loops |
| `Configuration` | `config/engine.go`, `config.go`, dispatch in `main.go` | one action per flag, per layer and for the checks; a text is what the constants say it is |
| `ServeLifecycle` | `main.go` lifecycle, `Server.Run` | setup steps each of which succeeds, fails or is cancelled; the drains; cutoff, finalization; requests that record. Composes the store, the drain and the startup steps by what their modules promise of them |

The `MC*` modules are what TLC checks. `MCUsageStore` and `MCMinting` give one module
its instance. The others hold the modules that one question is about and choose
one as the `subject` in the initial state, so that each runs with its own variables
and its own fairness, and none multiplies another's states: `MCCachedValues`
(`CachedValues`, `Catalog`), `MCExchange` (`Exchange`, `ShimChain`), `MCWsDrain`
(`WsSession`), `MCServe` (`ServeLifecycle`, `WsDrain`, `HookWatch`, `Configuration`),
`MCDurableFiles` (`DurableFiles`), `MCUsageAccounting` (`UsageMeter`, `PriceList`,
`ModelMatch`, `Pricing`, `UsageReport`).

The `*Proofs` modules hold the theorems (section 4): `UsageStoreProofs`,
`ExchangeProofs`, `DurableFilesProofs`, `MintingProofs`, `CachedValuesProofs` (with
`Catalog`), `ServeProofs` (with `Configuration`), `WsSessionProofs` (with `HookWatch`),
`AccountingProofs` (`UsageMeter`, `PriceList`, `ModelMatch`, `Pricing`). Each extends the modules that the
runs check, so that a theorem and a run speak of one definition. `Catalog`,
`Configuration`, `HookWatch`, `PriceList`, `ModelMatch` and `Pricing` share a module
with another component there, and so have names of their own for their initial
states and next-state relations (`CatalogInit`, `ConfigNext`, `WatchSpec`, ...).

Operators that only serve mutations (a "Mutant:" comment) stand before the
definition they vary; no specification uses them.

## 3. What is checked

`tlc -config X.cfg M` on each of:

| Run | cfg / module | Shows |
|---|---|---|
| `usage_store_safety` | `UsageStoreSafety.cfg` / `MCUsageStore` | types; `FinalReportBalances`: the unsigned residual of the report never wraps; `CleanCloseLosesNothing`; `NoReplay` of an ambiguous commit; `NoArrivalWhileDraining`; `LossRecordsAdvance`; and that the store implements `UsageLedger` (`ImplementsLedger`, by the refinement mapping `Fate`, `Published`) |
| `usage_store_liveness` | `UsageStoreLiveness.cfg` / `MCUsageStore` | `CloseReturns`, `TurnsSettle` |
| `minting` | `Minting.cfg` / `MCMinting` | `NoNeedlessExchange`, `LeavingPoisonsNobody`, `CallsReturn` |
| `minting_stale` | `MintingStale.cfg` / `MCMinting` | a counterexample, section 6 |
| `cached_values` | `CachedValues.cfg` / `MCCachedValues` | `ServedIsPublished`, `SuccessIsCurrent`, `ValuesEnd` (startup's wait is bounded, routines end, releases arrive), `CatalogStandsAlone` |
| `exchange` | `Exchange.cfg` / `MCExchange` | of a stream: `OutcomeHonest`, `NoFalseStall`, `StreamIsOver`; of a request: `AnswerIsTrue`, `RequestEnds`; of the shims: `EveryFrameCompletesTheOnion`, `SentIsAttributed` |
| `silent_answer` | `SilentAnswer.cfg` / `MCExchange` | a counterexample, section 6 |
| `ws_drain_safety` | `WsDrainSafety.cfg` / `MCWsDrain` | `DrainIsHonest` (clean is empty, aborts only at the deadline, forced for the deadline and nothing else), `OwnCutsBlameNobody`, `IdsArePinned` |
| `serve` | `Serve.cfg` / `MCServe` | `CleanStopIsNeverLate`, `EveryStopEnds` (of the lifecycle and of a drain), `HighestLayerWins`; of the hook watch: `RecordsAreTrue` (a crossing and then its ending, none early, counted as logged, the state lock never held for a logger), `StuckHookIsReported` |
| `durable_files` | `DurableFiles.cfg` / `MCDurableFiles` | `OpenedOnSchema`, `OpeningEnds`, `ReportIsOneSnapshot`, `TokenFileIsWhole` |
| `usage_accounting` | `UsageAccounting.cfg` / `MCUsageAccounting` | `TurnsMatchStream`, `NoModelIsPricedAsAnother`, `PriceIsExact`, `PricedByTheVersionNamed`, `ReportIsExact`: each compares steps of the code with a definition that looks at the whole stream, list, entry, history or table |
| `calendar_skipped` | `CalendarSkipped.cfg` / `MCUsageAccounting` | a counterexample, section 6 |

Each property also has a mutation of the code's definition (a dropped re-check,
a swapped order, a missing reset) under which the same run refutes it; they
are listed in `PROJECT.json`. A property made of named parts (`OutcomeHonest`,
`EveryStopEnds`, ...) keeps the parts as definitions of their own, beside it.

### Bounds, and why they are enough

* **Usage store.** Three `Record` calls against a queue of one and a batch of two:
  a full queue, a batch that fills, a batch that only the timer flushes, and a
  straggler all occur together. One `Close` suffices for safety because a second
  one joins the same finalization; the liveness run has two, with different
  deadlines, and one Turn. `Word` = 256 is a small modulus: a residual that
  went below zero would wrap to a large number as it would at 2^64.
* **Minting.** Two callers and the startup mint: one starts the flight, one
  joins, one leaves; lifetimes 1 and 2 against a margin of 1 give tokens born
  stale and fresh ones that age within the one tick of the clock.
* **Cached values.** One value with a version peek and a refresh loop, one
  pinned without; releases with the floor's own content under another version,
  a valid and an invalid one. A value with a version peek and a value without
  one share the path from the tag on. Upstream leaves the floor once.
* **Catalog.** Two tags over three commits, one move; nine lists of Copilot's, with
  hidden, unroutable, nameless and colliding models; five settings, with an alias
  that shadows, one without a source, and a reviewer that is not served.
* **Pump.** At most two frames per hook: an empty yield, data before a terminal,
  a frame after a terminal. The number of frames in a stream is not bounded.
* **Forwarding.** One request, for requests share nothing here; every branch of
  every call.
* **Chain.** copilotd's shims between two that may keep, drop, split, hold or fail;
  two frames, so that one is held while the next passes. Of the payloads, one has a
  model that decodes only with replacement, to a text that a rule names.
* **Drain.** Two handlers, so that one is admitted, tracked or closing while the
  other is already drained; that a drain ends is checked in `serve`, with one
  handler (handlers wait for each other only in the WaitGroup, which
  `ws_drain_safety` has in full).
* **Hook watch** (in `serve`). Two directions, because the count is shared; two callbacks,
  because a late one must meet a new one; two invocations, because the hazard is
  between an invocation and the next. The threshold is one tick.
* **Item ids, meters.** Two indices and three ids, so that an id can be new,
  repeated or another item's; no bound on the events. A metered stream has at
  most four events: two messages, or one with two late reports.
* **Database.** Two openers of adjacent builds and schema versions up to one past
  the newer build; one crash, one batch, and a lock that an outsider may never
  free. **Token file.** Two logins and a daemon.
* **Matching.** The empty list, every pair, and every triple of one stem, of names
  with every combination of suffixes, in every order, under two budgets. **Pricing.** Costs
  with no, one and two tiers, the old field and bad numbers, all kinds of modes,
  counts around the tiers' thresholds. **Price list.** Two reports, three fetches.
* **Reports.** Days of three instants and clocks that jump by an hour, by more than
  a day either way, and there and back; weeks and months that begin on skipped
  dates; the deadline between any two steps; three rows, against limits of three rows and two groups, of one model that
  matches and one that does not, over one window under the clock that repeats an
  hour.
* **Lifecycle.** Two HTTP requests and one WebSocket request; the meter on or
  off, the listener supplied or not. **Configuration.** One setting of each kind
  and check; each text of each in all three layers at once, and two flags.

`CHECK_DEADLOCK FALSE` is set where the program stops: a store that is closed, a
server that has returned, a stream that has ended, calls that are answered.

### Fairness, and why the code justifies it

Weak fairness stands for the Go scheduler, which runs every runnable goroutine,
and for bounded waits in the code: the exchange's HTTP timeout, SQLite's busy
timeout, write deadlines of the pump, timers. Strong fairness stands in two
kinds of places only: the pump's `select`, which chooses at random among ready
arms, and is assumed for cancellation and the stall tick, as in the writer's
`select` of `UsageStore`; and the refresh mutex of `CachedValues`, because Go's mutex
hands itself to a waiter that has been passed over for long.
Each `Fairness` definition says what it rests on. What the outside owes nobody
gets none: no request, hook, peer or upstream answer need ever come,
no context need be cancelled, no timer callback need win a race, no other
program need free SQLite's lock. A read of an upstream body ends only
because its context does. `WsDrain` assumes that a peer's close returns only once
the transport has been shut. `KeepsUp` states its own premises (a release that
stays, an edge that answers).

## 4. What is proved

Every theorem holds for all values of the constants that satisfy the
assumptions named below; `tlapm M.tla` checks each of the eight proof modules
from the axioms of the logic and the library's theorems about finite sets.
Where a theorem states a property of section 3, the run shows it on a small
instance, and with liveness beside it.

| Theorem | Of | States |
|---|---|---|
| `TypeCorrect`, `ReportBalances`, `DrainsAlone` | `UsageStore` | `TypeOK`, `FinalReportBalances`, `NoArrivalWhileDraining` |
| `NothingIsReplayed`, `CleanCloseStoresAll`, `LossesAdvance` | `UsageStore` | `NoReplay`, `CleanCloseLosesNothing`, `LossRecordsAdvance` |
| `StoreImplementsLedger` | `UsageStore`, `UsageLedger` | `ImplementsLedger`: the refinement, step by step |
| `HonestOutcome`, `StallsAreTrue` | `StreamPump` | `OutcomeHonest`, `NoFalseStall` |
| `AnswersAreTrue` | `Forwarding` | `AnswerIsTrue` |
| `FramesPassTheOnion`, `RequestStaysAttributed` | `ShimChain` | `EveryFrameCompletesTheOnion`, `SentIsAttributed` |
| `SchemaSurvives`, `ReportsReadOneMoment` | `UsageDatabase` | `OpenedOnSchema`, `ReportIsOneSnapshot` |
| `TokenFileStaysWhole` | `Login` | `TokenFileIsWhole` |
| `ExchangesAreNeeded`, `NobodyIsPoisoned`, `RetriesAreCounted` | `Minting` | `NoNeedlessExchange`, `LeavingPoisonsNobody`, and a bound on the startup mint's attempts |
| `ServedAsPublished`, `SuccessMeansCurrent` | `CachedValues` | `ServedIsPublished`, `SuccessIsCurrent` |
| `CatalogsStandAlone` | `Catalog` | `CatalogStandsAlone` |
| `CleanStopsAreNeverLate`, `ReturnsHoldNothing` | `ServeLifecycle` | `CleanStopIsNeverLate`, and the safety half of `EveryStopEnds` |
| `TheHighestLayerWins` | `Configuration` | `HighestLayerWins` |
| `DrainsTellTheTruth`, `CutsBlameNobody` | `WsDrain` | `DrainIsHonest`, `OwnCutsBlameNobody` |
| `IdsStayPinned` | `ItemIDs` | `IdsArePinned` |
| `OverrunRecordsAreTrue` | `HookWatch` | `RecordsAreTrue` |
| `TurnsAreTheStreams` | `UsageMeter` | `TurnsMatchStream` |
| `ReportsNameTheirPrices` | `PriceList` | `PricedByTheVersionNamed` |
| `ModelsArePricedAsThemselves` | `ModelMatch` | `NoModelIsPricedAsAnother` |
| `PricesAreExact` | `Pricing` | `PriceIsExact` |
| `ReportsAreExact` | `UsageReport`, `Calendar` | `ReportIsExact` |

### Assumptions

* `UsageStore`: finitely many calls (`CallsFinite`), positive capacities
  (`CapacityPos`), and fewer Turns than a counter can hold (`WordLarge`, which 2^64
  justifies).
* `UsageDatabase`: versions and the bound on them are numbers; no process is
  called by one of the model's words for nobody and for an outsider. `Login`: no
  token is called by one of the words for an empty or an old file.
* `Minting`: a positive safety margin, as in `manager.go`; the startup mint is none
  of the callers. Lifetimes may be any integers.
* `CachedValues`, `PriceList`, `Catalog`: the embedded release is one of the
  releases, and what is embedded passes the validation, which the repository's tests
  assert of the embedded files. Every tag has a commit.
* `ShimChain`: the registry is a sequence of shims whose names are unique, as its test
  asserts, with the override outside the meter, as `CanonicalRegistry` has them; the
  impersonation headers are none of a connection's, of the client's credentials or
  of those that `Do` sets. A text that decodes only with replacement decodes to
  another (`Replaced`), for the replacement character is in it. What the shims are,
  how many, and what they do is open.
* `Configuration`: flags are a sequence, each setting is of a kind that `Parse`
  knows, and none is called `config`, which names the file.
* `ServeLifecycle`: the requests are finitely many. `HookWatch`: so are the
  directions; the threshold is positive. `StreamPump`: what one hook may yield is
  bounded. `UsageMeter`: "unreported" is no count.
* `ModelMatch`: a list has finitely many identities; names have two suffixes at most,
  and "fast" is no date. `Pricing`: rates, thresholds and counts are numbers, missing or
  malformed, none negative, and an entry has at most one cost. How many, and how
  large, is open.
* `Calendar`: a day has a length, and the dates on which periods start are numbers.
  The offsets of a zone may be any, and jump anyhow. `UsageReport`: a period has begun
  before each window and another begins at its end or later, as days, weeks, months
  and years do; stored counts are int64 and not negative (`BadRow` is the others);
  the limits are numbers.
* `WsDrain`, `ItemIDs`, `Forwarding`:
  none.

### The arguments

An invariant of section 3 is seldom inductive: it speaks of the end, or of one
of two things that move together. What each proof adds to it:

* **Store, the report.** `IInv` adds `TypeInv` (`producers` counts the calls between
  its increment and its decrement; without this the drain could start early),
  `Conservation` (`recordStarted` is at least all settled classes, what is queued,
  batched and undecided; the writer's failures only give Turns up, hence an
  inequality) and `ReportInv` (what is loaded so far is no more than what it was
  loaded from). At the last load the four classes are at most `started`, below
  `Word`: the subtraction of `settleFinalReport` "cannot underflow", as its comment says.
* **Store, the drain.** `DrainInv`: while `finish` drains, admission is off and no call
  stands between its second look at `admitting` and the queue.
* **Store, the Turns.** `FateInv` adds where a Turn is (`PlacesInv`: decided calls alone
  are queued, batched or stored, and in one of these), what is counted of those
  that are stored (`CountInv`) and the writer's ways out. From it follow `NoReplay`
  and, action by action, that a step gives some open Turns one other fate,
  records a Turn or publishes the report, or does nothing that the ledger sees
  (`StoreImplementsLedger`). `NothingLostInv` and `LogInv` carry the orderly close and
  the loss records.
* **Pump.** `OutcomeHonest` says nothing while a frame is on its way. `HandoffInv` is
  who has it (reader, channel, pump), `ReaderInv` why a reader has left, `ClientInv` what
  the place of the pump says of what was sent.
* **Forwarding.** `ContextInv` (the cause of a cancellation is the timer's or the
  client's), `WireInv` (one answer, none only to a client that has gone or whose own
  body broke), `FateInv` (what went wrong is what is about to be answered), `RecordInv`.
  The second exception of `WireInv` is the code's (`silent_answer`, section 6).
* **Shims, the onion.** `Travelled`: a frame in passage has been through the hooks of
  exactly the shims between its maker and the position reached, each further out
  than the one before (`FrameTravels`, `MessageTravels`: one position more).
  Order needs who may write at all: what a shim holds comes out at the end, after
  what had been written. `HeldInv`: only the innermost shim that holds has anything,
  for it lets nothing by; `HoldersInv`: so while frames pass or have been written
  before the end, nobody outside holds, and at the end a frame of the upstream's
  tells of a holder. The frames that shims make come after all others.
* **Shims, the request.** `PayloadInv`: the payload is the client's until the override
  has had it, and the meter reads it after. That a rewriting changes one member,
  and that the meter finds the model that the override is sure of, is said of any
  payload (`RewritesOneModel`, `MeterReadsTheModel`), as of headers (`HeadersAreOwn`).
  A model that decodes only with replacement is the exception that the property
  states: no rule rewrites it, and the meter tells of its replacement (section 6).
* **Database.** `LockInv` and `MigrationInv`: who migrates holds SQLite's lock, so that
  the version it read still holds at COMMIT; `ScriptsInv`: the scripts committed are
  those up to the version. A report's sections are of the snapshot that its first
  read took. **Token file.** `WritingInv`: what a login writes is its own token, and
  only after the user is confirmed; the rename moves what is whole.
* **Minting.** A flight's outcome is never a cancellation, for its context is its
  own; a token is stored only from an exchange. With the types of both this is
  inductive. The flight's check, when it starts, is what keeps an exchange needed.
* **Cached values.** `LockInv`: the one inside its attempt holds `attemptMu`, and
  `during` holds every release that was latest since; `ReadInv`: at each place of an
  attempt, what has been read is of one release.
* **Catalog.** `FetchInv`: a commit read for a tag is one that the tag had, wherever the
  tag points by now. An answer is about `list` and `config`, which no step changes,
  and about the one document it was rendered with.
* **Lifecycle.** `PhaseInv`, `DrainedInv` and `AdmissionInv`: requests come only while the
  server serves or HTTP drains, what a drain found idle stays idle, and admission is
  open until `Run` has returned; so after a clean drain nobody can be late.
* **Configuration.** `FlagsInv`: what is stored of a flag is its last text so far;
  `LayersInv`: after each layer, a setting has the value of the highest layer laid, and
  every text was one. That a refusal for a failed check blames the setting's
  effective value needs that a text has at most one value (`ParseIsOne`).
* **Drain.** `MembersInv` (the WaitGroup counts the handlers that are in), `ShutdownInv`
  (admission closes before the drain waits; force comes only after the context
  ended), `ResultInv` (a drain's result is the deadline only when that has passed, so
  that a shutdown which is neither clean nor forced had another failure), `CauseInv`
  (a session is told to go only at the deadline, and what copilotd cuts, it cuts
  with that context). **Item ids.** By the pins of the turn: a pin is an
  id that upstream gave, and what was sent had its pin.
* **Hook watch.** `WatchInv`: each direction's locks are held by who is inside their
  sections (`Locks`), a crossing is logged before its ending and neither twice
  (`Logs`), and every pair in the log was counted, for `finish` logs the ending only
  once `publishMu` is free of the callback that logs and counts the crossing
  (`InPairs`). The summary's count is the number of counted crossings, which lies
  between the pairs and the crossings (`CountInv`).
* **Meters.** `AccumulatorInv` relates the accumulator to the stream so far: poisoned
  where it is spoilt, else the one open message with the counts last reported.
  A stream is judged from its prefix once: a longer stream keeps its spans, and a
  new span ends at its last event. So each step tells nothing and submits nothing,
  or tells and submits the same Turn.
* **Price list.** `CaptureInv`: a report under way has captured a version that was in
  effect while it ran, and returns that one; a document is kept parsed only with
  its version, which is why the stale store of section 6 is harmless.

* **Matching.** `MatchInv`: each index holds exactly what was filed, so a key with one
  identity has that one, and a key with more is marked as ambiguous (`ExactFiled`,
  `NormalFiled`, `DatedFiled`), in whatever order. Then each policy is followed once:
  the names that share a key say the same but for what the policy disregards
  (`FoundIsRight`, `DatedIsRight`).
* **Pricing.** `PriceInv`: of the modes read so far none is bad and at most one is Fast,
  and the Fast schedule is its rates. Tiers are numbered from 1, so as many of them
  as lie below an input are one of them (`RatesAreARow`). A rate that is missing for
  a turn is missing for every turn that completes it (`MissingStays`), and a turn
  whose input is known has one row (`AnthropicStands`, `OpenAIStands`).

* **Reports, the calendar.** `CalendarInv`: while the loop runs, the next edge is a
  period's, the edges so far do not run backwards (`EdgesAdvance`), the buckets adjoin
  (`Adjoin`) and the last of them ends where the next edge is, clipped to the window
  (`FitsWindow`). So buckets that reach the window's end partition it, and an
  instant's bucket is of the latest period begun, for no later edge has passed
  (`CutPartitions`). It rests on `start` finding the first instant that has a date
  in a zone that may show it twice (`StartIsEarliest`). In a zone whose dates do not run
  backwards, edges are in order by themselves, and the one turn of the loop that
  is refused is at an edge that gives way to the window's end (`CutRefusesRightly`).
* **Reports, the totals.** `RowsInv`: total, models and groups are the tallies of
  the rows read (`TotalsFor`), none beyond int64 (`AllBounded`). Buckets are in
  order, so the cursor, which never goes back, is at the only bucket of the next row
  (`RowIs`). A row adds itself to a tally that has it and nothing to one that has not
  (`TallyGrows`, `TallyStays`). `SumOf` is a recursive function: that it computes the
  sums, for tables of any length, is shown by the least row at which it would not
  (`LeastNat`, from the well-foundedness of the numbers).

### Only model-checked

* Liveness, and anything with fairness or `ENABLED`: `CloseReturns`, `TurnsSettle`,
  `CallsReturn`, `ValuesEnd`, `StreamIsOver`, `RequestEnds`, `StuckHookIsReported`,
  `EveryStopEnds`, `OpeningEnds`. The prover has no rule for it.
* The three runs that end in a counterexample.

Every invariant that a passing run checks is a theorem, of any size of the system. Where an
induction over data was needed it argues from a least counterexample, as the library's
induction theorems take an operator for a parameter, which these provers cannot
instantiate; sequences that grow by one row, as `UsageMeter`'s stream, need none.

## 5. What is not modelled, and why

* Report over HTTP and CLI, routing tables, health answers, metrics counters,
  the rendering of errors, the bodies of the small commands, logging, build
  information, scripts: no state whose order matters.
* How an impersonation version is read from a remote page; buffered bodies in the
  usage meters; close codes beyond whom an ending is put down to.
* In what is modelled: bytes, JSON and TOML syntax, decimal text, log wording.
  `Catalog` keeps one field of each kind of check of an entry. `UsageReport` lets
  an identity weigh one byte. `PriceList` leaves the cap on one model's bytes out.
  `ShimChain` builds the onion on two shims more than copilotd has, which do
  what the hook interfaces allow. A setting of `Configuration` stands for those
  of its kind.
* `ItemIDs` rests on three premises of its design document: an item keeps its
  `output_index` for a turn, its position in a snapshot is that index, and a turn
  ends in a terminal event that the shim can read.
* Windows' variants of the private-path checks.

## 6. Divergences

* `minting_stale`: the comment on `fresh` (`manager.go:52-54`) says a token within
  the safety margin is re-minted so that upstream never receives one that could
  die mid-call. `Current` hands out what a flight delivers without looking
  again (`manager.go:292`), so a token born with less life than the margin, or
  one that aged while its caller was not running, is handed out. The run
  `MintingStale.cfg` shows it.
* `calendar_skipped`: `CONFIGURATION.md:78-80` says that skipped dates within a window
  advance its edges. `calendar.go:131` refuses, as a zone with non-monotonic edges,
  a window whose last week (month, year) starts on a skipped date and whose end
  is the first date after it: both clipped edges advance to the same instant. The
  run `CalendarSkipped.cfg` shows it; `ReportIsExact` excepts nothing else.
* `silent_answer`: the comment on `readBody` (`forward.go:177-180`) says that a read
  error other than the cap's "means the client vanished mid-body, so nothing useful
  can be sent". The code (lines 181-189) does not ask the context: a client whose
  body is malformed or shorter than announced, and that waits for an answer, gets
  none of copilotd's, but net/http's empty 200, and the access record says 200. The
  run `SilentAnswer.cfg` shows it; `AnswerIsTrue` excepts nothing else.

Noted without a run: `Server.Run` says any failure of `Serve` is returned, but its
`select` may take the signal when both are ready (`server.go:107`), and nobody reads
the error then; `ServeLifecycle` has this interleaving, and no property says that
the error is told. And
`pricing/source.go:160-162` says a snapshot that is no longer current never replaces
the parsed one, but it is stored after a look that a refresh may overtake (line
165); `PricedByTheVersionNamed` shows this harmless, because a reader compares
versions first. A requested model whose JSON text holds a lone surrogate is left
alone by the override, while the meter attributes the Turn to the text with the
replacement character (`usage_turn_recorder.go:60`), even if a rule names that text,
although the comment at lines 37-38 speaks of "unknown attribution, not a
replacement-derived model name". `SentIsAttributed` excepts exactly this, and
`Payloads` in `MCExchange` has one.

## 7. Plan

Next, of the theorems: type correctness of `Minting`, `WsDrain` and `UsageDatabase` as
theorems of their own, which so far are parts of the inductive invariants.

Then, of the model: buffered bodies in `UsageMeter`, the refusals before an
upgrade in `WsDrain`, and a composition of `Forwarding` with `StreamPump` by its
outcome.
