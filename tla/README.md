# techlog-stat in TLA+

`techlog-stat` reads 1C:Enterprise technological logs. One command-line program
offers a few reports (overview, contexts, errors, comparison) and a loopback web
server in which an operator starts overview builds, watches them and reads their
results. This directory models the parts of it whose correctness depends on the
order of things: goroutines, channels, cancellation, bounded tables and queues,
and events that come out of order. Paths below are relative to `src/`.

## The system

    main.go -- signal context --> app.runServe --> webserver.Serve (net/http)
                                      |                  |
                                      |            api.go handlers
                                      v                  v
                                Manager.Shutdown <- Manager (manager.go)
                                                         | one goroutine per run
                                                         v
                                      overview.BuildContext (overview.go)
                                         consumeFilesInOrder
                                      /        |          \
                              parseFileBatches  ... one goroutine per started file
                              (techlog.Parser)   one channel of capacity 1 per file
                                      \        |          /
                                       collector.add, one event at a time
                                      /    |      |       |       \
                                 trace  errorcontext  sessionstats  webstats  counters

| component | state it keeps | operations | hard behaviour |
|---|---|---|---|
| run manager `webserver/manager.go` | `runs`, `order`, `next`, `active`, `cancels`, `closing`, a mutex, a WaitGroup | Create, execute, Cancel, CancelAll, Delete, eviction, Shutdown | handlers, builders and Shutdown interleave; cancel functions are called after the unlock; the deadline of Shutdown |
| file pipeline `report/overview/overview.go` | one channel and one goroutine per file, the consumer's position | parse, send, close, receive, start the next file, return | bounded parallelism with ordered output; cancellation in any select; early return of the consumer |
| server and shutdown `webserver/server.go`, `app/app.go`, `cmd` | the signal context, the listener, a channel of one error | Serve, Shutdown | two deadlines one after the other; the accept loop fails while the signal comes |
| HTTP API `webserver/api.go` | none of its own | create, cancel, delete, result, paging, source events, compare | compare takes two results in two critical sections; source events are read from files that grow |
| error contexts `analysis/errorcontext` | two bounded queues, groups, samples | Consume, Result | a context and its error come in either order; a match changes what the error is compatible with; two limits |
| sessions `analysis/sessionstats` | open sessions, changes, bounded lists | Consume, Result | identities opened twice, closed before their open; timestamps out of order; ties in the timeline |
| traces `analysis/trace` | open and completed traces, candidates, pending contexts | Consume, Result | four limits that refer to each other's records |
| web requests `analysis/webstats` | pending requests per lane, cache tail | Consume, Result | ambiguous responses, requests never answered |
| counters `lockstats`, `scallstats`, `processstats`, `licensestats`, `filedbstats`, `sqlstats` | counters and sorted bounded samples | Consume, Result | ranking at a limit |
| context and error reports `report/contextreport`, `report/errorreport` | worker pools, merged totals | processFiles, merge | results in completion order |
| comparison `report/compare` | none | classify a metric's change | zero and sign boundaries |
| parser `techlog` | the pending multi-line event | ParseContext | cancellation, read errors and malformed headers between two lines |
| statistics `stats` | TopN, buckets | add, merge, percentile | ties and boundaries |
| configuration, discovery, output, cli | none | flags, directory walk, rendering | - |
| browser `webui/app.js` | selection, poll timer | poll, render | responses that arrive after the selection changed |

What makes each correct: the *manager* keeps its table, its counters and its cancel
functions in step, ends every run exactly once with the outcome its callers were
promised, and stops with nothing running; the *pipeline* shows the analyzers one
sequential scan whatever the schedule, in bounded memory, and always ends; each
*correlation* accounts for every record exactly once, loses no match it could have
made and bounds its queues (the web requests are the exception, see Findings); a *bounded ranking* equals the prefix of a sort; a
*worker pool* computes what one worker would; the *shutdown sequence* leaves no
goroutine behind. The hazards these properties aim at are listed, each with its
line, in `PROJECT.json`.

## Plan

| # | modules | abstract specification | proofs | state |
|---|---|---|---|---|
| 1 | `RunManager` | `RunLifecycle`: the life of a run | inductive invariant; then the refinement | checked and proved |
| 2 | `FilePipeline` | `OrderedScan`: a sequential scan | memory bound, account of the files, the refinement | checked and proved |
| 3 | `ErrorContext` | - | conservation of records, no missed match | checked and proved |
| 4 | `SessionStats` | - | balance of counters, exact timeline | checked and proved |
| 5 | `TraceCorrelation` | - | conservation, limits, safe pruning; the nearest error for ordered input | checked and proved |
| 6 | `WebCorrelation` | which response belongs to which request | no wrong pair; the accounts balance | checked and proved |
| 7 | `EventCounters`, `LogEvents`, `Rankings`, composed with 6 in `OverviewCollector` | a sort and a count over the whole log | samples and longest events are a sort of the whole log; percentiles; tables and counters describe the same events | checked; samples, ranks and books proved |
| 8 | `LogFiles`, `ReportPool` | the lines of the files, read without a loop | no result lost; the exact report, ranked | checked and proved |
| 9 | `Service`, composing the API (`WebApi`), `Comparison`, `LogFiles` and `RunLifecycle` with server and signal | what an answer may say of the past | clean exit, answers of their time, honest comparisons, exact pages | checked and proved |
| 10 | the polling of `webui/app.js` | only the selected run is shown | - | to do |

The order is by how much of the program rests on a part and by how little a test can
say about it. Every run below is bounded by constants its `.cfg` names; runs that
ask about the same states share them.

## Modules and the code

**`RunManager`** models `manager.go`. A critical section of `m.mu` is one action. The two
that contain the eviction loop, in `Create` and at the end of `execute`, hold `lock` over
several steps, because what needs no mutex goes on meanwhile: cancel functions are
called, builders return, `workers.Done` runs, the waiter of Shutdown wakes. `status` is
`runs` (`Absent` where there is no record), `cancels` the keys of the cancel functions,
`build[id]` the program counter of the goroutine of `execute`, `toCancel[g]` the cancel
functions goroutine `g` copied under the mutex and has yet to call. `Create` is
`CreateBegin`, `EvictOldest`*, then `CreateInsert` or `CreateFull`; `execute` is
`ReportProgress`*, `BuilderReturns`, `Record`, `EvictOldest`*, `RecordEnd`,
`WorkerExit` - the last one apart from the unlock, because the deferred `Done` runs
after it. A builder may succeed or fail at any time, cancelled or not: the last look
`BuildContext` takes at its context comes before its return. `Shutdown` has a stage for
each of its waits; the waiter goroutine outlives a call that timed out.
A `Create` refused because of `closing` or `maxActive` changes nothing and is no action.
The goroutine of `runServe` is `Closer`; it is the only one that calls `Shutdown`.

**`RunLifecycle`** is what a caller of the manager relies on, without goroutines:
`RunManager` implements it under the mapping `Life`, `requested`, `accepting`, `stopped`
at the end of the module. In particular a run whose cancel function was called while it
ran ends as canceled, and no other run does.

**`FilePipeline`** models `consumeFilesInOrder` and `parseFileBatches`. Every file has
its channel, its goroutine (`producer[f]`) and a number of batches fixed by `Init`; every
`select` is a choice among the cases that are ready. A goroutine fills and sends full batches
(`FillBatch`, `SendEvents`) and flushes the rest at the end of its file (`ReachEnd`), unless the
parser failed and the context is cancelled by then. The consumer takes a batch into its `hand` and
goes through it without looking at the context (`FeedBatch`); `fed` is the sequence of batches
given to `collector.add`. A cut-short file closes its channel as a complete one does, so
the consumer may go on to the next file after a cancellation: what makes that harmless is
the last look at the context (`FinalErr`), and the mutant that skips it breaks the
refinement. **`OrderedScan`** is a sequential scan in discovery order.

**`ErrorContext`** models the collector of `errorcontext.go`: `Consume` takes an event,
expires what is older than the window, then accepts an error (and tries the waiting
contexts against it) or a context, then enforces the limits; `Result` drains both queues.
One action is one iteration of a loop of the code and `stage` names the loop. Records keep
their time, source, a `process` (for the process and thread, which a match copies into
the error) and an `anchor` (for the fields that are compared and never copied);
texts, groups' names and the order of samples are left out. `DroppedPendingErrors`,
`DroppedPendingContexts`, `MissingException` and `IgnoredEvents` are not kept.

**`TraceCorrelation`** models the collector of `trace.go`. What a record causes at once is one
action per kind of record (`ConsumeCall`, `ConsumeError`, ...); the loops that follow it,
`evictOpenIfNeeded` after a CALL and `resolveExpiredErrorContexts` after every record, take
one action per round, because the eviction appends to `done` and each resolution changes what
the next one is compared with. `traces` is the heap: candidates point into it, also to traces
that are completed or evicted. `lane` stands for source, process and thread (`Complete`: none
of them is empty), `ids` for ClientID, CallID and Trans, `anchor` for the other fields
that are compared. A match's score is the number of identifiers the record declares, the same
for all traces, so the newest matching trace wins. Spans other than errors, their texts,
`StartedAt` and `LastAt` are left out (the pruning loop over the candidates is the recursive
function `Kept`), and so are the plain counts of Context and SCALL
records; requests and responses of VRS are counted together.

**`SessionStats`** models the collector of `sessionstats.go`: one action per path through
`Consume`, and `timeline` as a recursive function (`Running`) over the sorted changes. `Sorted` is
`StableSort` of `Rankings`: each change at the place given by how many precede it.
An identity is the pair of event name and id; whether a text means a start or a finish
is left to the input. Durations and per-user counts are left out.

**`OverviewCollector`** is what `collector.add` does with one event, for all analyzers
that keep no order of events open beyond a lane. It composes two modules.
**`WebCorrelation`** models `webstats`: `pending` and `recent` are the two maps of the
code, their lists as sets where order is not used; `webGroups` has the values of each
row of the tables, `webQuality` the counters. A lane is hourly file, process and thread, as
`lane()` joins them. An event names the `exchange` it belongs
to, which the code cannot see: the log is any part of a log in which the identities of one exchange do not
contradict each other and, on one lane, its response follows its request. An exchange that is under way at the
full hour has its request on one lane and its response on another. **`EventCounters`**
models the overview's own tables, `lockstats`, `scallstats`, `processstats`,
`licensestats`, `filedbstats` and the groups of `sqlstats`. They all do the same thing, so an
event is translated into the set of table entries it makes (`LockEntries`,
`ScallEntries`, ...), the set of quality counters it moves (`LockCounts`, ...) and the
samples it is offered to (`Offered`). A field is absent (blank), `Malformed`, or a value;
the texts an analyzer searches are the set of the marks it looks for. `LogEvents` has the fields
and the order of samples, `Rankings` the algorithms of `stats`: `TopN`, cutting, both
percentiles (those that interpolate times 100, so that they stay integers).

**`LogFiles`** models `ParseContext` and the filters: a file is a sequence of lines, a line
a header or more text, and a file may break off with a read error or have a name
without an hour. A filter looks for `key=` in the text of the event, where something else may read like the
field before the field itself does: those are the event's `mentions` (`FoundIn`). **`ReportPool`** models `Build` and `BuildRaw` of the context
and error reports, which share one shape: the feeder goroutine (its `close(results)` after
`wg.Wait`), the workers, the two channels, and the merge in completion order. What a worker
makes of a file depends on the file alone, so the file stands for it in the channel. Times are local; a row
has the `hour` it is listed under, which in the context reports is cut from absolute time (`Truncate`) and so begins
at the minute by which local time is off the hour: `ZoneMinutes`, one offset for all files, without daylight saving.
Durations
are whole microseconds, where the code adds floating-point milliseconds: in the code the
last digits of a sum do depend on the order of completion.

**`Service`** composes the command `serve`. The manager is `RunLifecycle` (its actions `End`
and `Stop` are used as they are, the operations a request makes are the handlers'),
so what `RunManager` is shown to implement is what the handlers rely on. Each connection
has at most one request; a handler is one action per critical section of the manager and
per log file it reads. `main` is the goroutine of `runServe` and `Serve`, `errs` the
channel between it and the accept loop. Requests come on open connections (`Connected`), also when the accept
loop has failed or `Shutdown` has begun, until `Shutdown` has found none in progress (`"drained"`) or the process
ends. A body holds one value, none, or one that another follows; the last is answered with 400 by `decode`, and its
handler goes on (`Decoded`). `seen` remembers what was true when the request came and is
never read by an action. **`WebApi`** has the routes, paging and the pure part of the handlers,
**`Comparison`** the comparison of two overviews: metrics are natural numbers and a
threshold a whole percentage. The percentage is a float64 in the code. Whether it reaches a threshold is a question of exact
numbers (`Reaches`) except where it equals the threshold: there it may come out just below, for the
pairs of change and baseline in the constant `RoundedDown`, of which TLC gets 29, 57 and 58 of 100 and the theorems
any set. (From 100 to 129 with a threshold of 29 percent is unchanged, since 29 / 100 * 100 is
28.999999999999996.) Rounding decides nothing else as long as a measure times a threshold is below 2^49; percentiles and thresholds that are no integers are left out. The reply to a comparison names the two results
and the options (`OptionsWith` what a request may set), and `ComparisonIsHonest` evaluates `Compare` on
them; changes are sorted by `StableSort`, as no two of them have the same key. `IsRequest`, `IsOverview`
and `IsDisk` say what requests, results and log files are like: thresholds and
pages are numbers, a section is a list whose rows have a key and natural measures, and a run's
list of files stays the same while the files themselves change.

The eight modules `...Proofs` hold the theorems, one for each of `RunManager`, `FilePipeline`, `ErrorContext`,
`TraceCorrelation`, `SessionStats`, `OverviewCollector`, `ReportPool` and `Service`; `MC*` give TLC its sets.

## What TLC checks

| run | instance | shows |
|---|---|---|
| `manager_safety` | 1 handler + closer, 2 retained, 3 active, 3 ids | `RetentionBounded`; `SlotsMatchRuns` (no slot of `active` leaks, cancel functions are those of running runs); `OrderMatchesRuns` (the two views of the table agree); `ShutdownIsQuiet` (nil means nothing runs, ever after); `RefinesLifecycle` |
| `manager_live` | 1 handler + closer, 2 retained, 1 active, 3 ids, fair | `CancelTakesEffect` (a copied cancel function ends the run even if its builder alone would not return); `ShutdownSettles` (the call returns and every builder exits, also after a timeout) |
| `file_pipeline` | 3 files, 2 workers, up to 2 batches each (1 in the last), failures nowhere, in the middle or on both sides, fair | `MemoryBounded` (two batches per worker and the one the consumer goes through); `CompleteOnSuccess`; `RefinesOrderedScan`; `Terminates` |
| `error_context` | 1 source, 2 processes, 2 anchors and unknown, 4 events, times 0..2, window 1, queues of 2, samples of 1 | `Conserved` (every record is accounted for once); `QueuesBounded`; `NoMissedMatch` (a context waits only while no retained error fits it); `JoinedAgree` (the contexts of an error name one process) |
| `error_context_nearest` | the same, timestamps in order | **violation** of `JoinedToNearest`, see Findings |
| `trace_correlation` | 2 lanes (one incomplete), 1 identifier, 2 anchors and unknown, 4 records, times 0..3, window 1, 2 open, 1 completed | `Conserved` (every record, context, call and trace without a Context counts once); `LimitsKept`; `JoinedAgree` (joined contexts contradict neither the error nor each other); `PruneIsSafe` (no error is pruned that a waiting context fits); and as long as no timestamp went back (`inOrder`, a history variable) and no candidate was dropped, `JoinedToNearest` (the one nearest of all errors, later ones included) and `ExpiredRightly` (an expired context fits no error of the input) |
| `session_stats` | 2 identities, 5 records, times 0..3, lists of 1 | `Balanced`; `TimelineExact` (when every session lasts, the timeline and the peak are those of the input although changes are recorded out of order and the count is clamped at zero) |
| `session_peak` | the same, timestamps in order | **violation** of `NoArtificialPeak`, see Findings |
| `overview_collector` | nine small logs (one per analyzer, two of the web service, with exchanges on three lanes and one over two hourly files), at most 6 events in any order, samples of 2 and 1, a tail of 1 | `AddsUp` (tables, quality counters and samples describe the same events, whatever is missing, malformed or cut); `SamplesAreTheBest` and `TopIsStablePrefix` (cutting after each event equals sorting all and cutting once); `RanksAreRight`; `NeverGuessed` (a wrong pair needs a response whose request is not in the log or on another lane); `WebAddsUp` |
| `web_pending` | requests without a response on one lane, a limit of 6 | **violation** of `PendingBounded`, see Findings |
| `report_pool` | 2 workers, 3 files around midnight, every shape of report, lists cut to 2, fair | `MergedIsExact` (what was merged is what the received files hold, read by a definition that has no loop and no pending event); `ReportRanks`; `EachFileOnce`; `Terminates` |
| `service` | 2 connections, 3 ids, 2 retained, 1 active, one build that may fail, 2 versions of the log files, fair | `AnswersAreOfTheirTime` (a comparison is of runs that had succeeded during the request, and refused only when one was not available at some moment); `PagesAreExact` (each file counts as it was at one moment of the request, in turn); `ComparisonIsHonest`; `CleanExit` (success only after a signal, with nothing running and no connection left, although requests come while the server closes); `Exits` |

**Why the bounds are enough.** Manager: with two retained runs and three ids the table
fills, evicts, refuses because all are active, and is used again; one handler with
the closer gives two goroutines that hold copied cancel functions of the same run at once;
`MaxActive` is 3 in the safety run, so retention binds first, and 1 (the default) in the
liveness run. Pipeline: three files and two workers make the consumer start a file while
another goroutine is ahead of it, and two batches exceed a channel's capacity. Error
contexts: two errors and a context on each side of the window's edge, a full queue and a
full sample list need no more than four events. Traces: a CALL, two errors and a context, or three
CALLs that evict one, fit in four records, and so does an error that comes after the context
it suits best; time 3 is beyond twice the window. Sessions: five records give a
replacement, a completed session, an orphan and an overflow of a list of one. Collector:
each log holds fields that are there, blank and malformed, ties in duration and in time, more events
than a sample keeps, and for the web service two anonymous requests, a response before the
log's first request, blank identities, an exchange on another lane and one on two lanes; lists of up to six
values meet every rank the percentiles can hit. Report pool: three files with two
workers complete in every order, and two of them hold rows of the same hour and group, so
that both cuts happen; more workers only add the same orders. Service: three ids through
two retained runs evict, a run can be deleted between the two halves of a comparison and
between two files of a source query, and both files of one run change once. A comparison or a source
query comes on one connection, what changes runs on the other: two of the same kind
do not touch each other, as a handler writes nothing but the manager's state. Requests that come
when no connection is free wait and change nothing.

`CHECK_DEADLOCK FALSE` is set where the system may stop: the bounded ids or events are
used up, a build has returned, or the log is consumed (`report_pool` and `service` do
check for deadlock). That goroutines are not left waiting is
`ShutdownSettles`, `Terminates` and `Exits`.

**Fairness.** A goroutine that can step does (weak fairness of each goroutine's steps).
`Record`, the section with which `execute` ends, needs strong fairness: the mutex is free
only in between, and Go's mutex does not starve a waiter. A builder must return once its
context is cancelled, which `BuildContext` does between two lines and in every select; it
need not return otherwise. The deadline of Shutdown expires. No request, no
cancellation and no Shutdown ever has to arrive. In `Service` only the goroutine of
`runServe` (its deadlines included) and the return of `server.Serve` after it was closed are
fair: no handler, no build and no client is assumed ever to finish, and `Exits` holds nevertheless. In
`ReportPool` the feeder, each worker and `Build` are fair; reading a file ends, as files
are finite and are not cancelled there.

## Findings

* **A context may be joined to one of two equally near errors.** The doc of
  `errorcontext.Consume` says a context is joined only when there is exactly one nearest
  compatible error inside the window. A context is decided on arrival, against the errors
  retained then: an error that comes later, as near or nearer, is not weighed.
  `error_context_nearest` has the trace (an error, a context, an error at the same
  distance). `trace.go` resolves its contexts after the window instead, and there the same
  property holds for input in order (`trace_correlation`).
* **Artificial peaks.** The doc of `sessionstats.Result` says closing before opening at
  equal timestamps prevents artificial peaks while an identity is replaced. An identity
  opened and replaced at one timestamp records +1, -1, +1; sorted, the -1 meets a count of
  zero, is clamped away, and the peak is 2. For the same reason a session of length zero is
  counted as active for the rest of the timeline. `TimelineExact` holds as soon as every
  session lasts.
* **Pending web requests are not bounded.** The `README.md` of the program (line 66) and
  `docs/techlog-stat-v2.en.md` (line 147) say that pending correlation state is bounded and that
  the web collector uses bounded retention. `webstats.go:149` appends every request to the list of its
  lane, and only a match takes one off it: requests without a response stay, and so do two requests that
  no identity tells apart, as every response of the lane then has two candidates. `web_pending` shows seven
  requests waiting on one lane; any other limit is passed in the same way.
Observed while modelling, without a run: an error context can be counted as correlated to a
trace that was already evicted from the completed ones and is not in the result; in
`errorcontext` an error that names no anchor can collect
contexts with different anchors, because only process and thread are copied into it; and
`sessionstats.Result` cuts the list of unclosed sessions without counting what it cuts. An
acquisition with several attempted licenses, the last successful, counts as success and as
failure (`licensestats.go:264`), so the two do not add up to the acquisitions. A threshold of 0
percent means the default of 5 (`compare.go:148`). When a second JSON value follows the first in the body, `decode` (`api.go:610`) answers 400 and
returns the error of decoding the second value, which is nil: `createRun` goes on, and the run exists although its
client was refused (`Decoded` in `Service`). A page of locks has at most 500 rows although
the reply repeats the larger limit that was asked for (`api.go:475`). A response whose own request is missing can be
matched to another exchange's request, when that is the only one waiting: `NeverGuessed` names the
condition. The file of an hour is part of the lane, so a request that is still missing may well be in the log: with request A
in one file, then request B and response A in the next, the response of A is matched to B. A CALL and its Context are paired only within one hourly file. Raw rows that differ in nothing but the
event name are sorted without a tie-break (`contextreport/report.go:384`). `rowsMax` of a SQL
group starts at 0 (`sqlstats.go:87`). A URI with a question mark that `net/url`
refuses is handed back and forth between `NormalizeURI` and `normalizeURIText`
(`webstats.go:348`) without getting shorter.

## What is proved

TLAPS proves the theorems for every value of the constants that meets the named
assumptions (`ConstantsAssumption`, `CollectorAssumption`, `TraceAssumption`, `SessionAssumption`, `WebAssumption`,
`CountersAssumption`, `EventAssumption`, `PoolAssumption`, `PipelineAssumption`, `ServiceAssumption`), without TLC's bounds.

**Run manager** (`RunManagerProofs`). `Inductive`: `Spec => []IInv`, and from it
`TypeCorrect`, `RetentionIsBounded`, `SlotsAreAccounted`, `OrderIsTheTable` and
`ShutdownLeavesNothing`. None of these is inductive alone. `RetentionBounded` needs to know
that `order` lists the table, so that an eviction finds a run; `ShutdownIsQuiet` needs the
WaitGroup to count the goroutines of `execute` (`WorkersCounted`), a running run to have one
(`GoroutineInv`), and `Create` to be unable to insert once `closing` is set although it tested
`closing` some steps earlier (`SectionInv`: it holds the mutex in between); `SlotsMatchRuns`
needs `Record` never to find its record gone, which is `GoroutineInv` again. The proof has
one lemma per group of actions, a lemma that the frame keeps what it does not touch, and
facts about `RemoveFirst` and about cardinalities of sets of ids. `ManagerImplementsLifecycle` is the
refinement: each of the manager's steps is one step of `RunLifecycle` or none. It takes one fact
that `IInv` does not have, `IssuedOnly`: only ids that were handed out are ever cancelled, so that
the context of a run just accepted is live, as the lifecycle says.

**Error contexts** (`ErrorContextProofs`). `Inductive`: `Spec => []IInv`, and from it
`RecordsAreConserved`, `NoMatchIsMissed`, `QueuesAreBounded`, `JoinedContextsAgree` and
`CollectorTypes`. `IInv` adds to the properties themselves the exact room each loop leaves
in the queues (`LimitInv`: the limits hold only between two `Consume`s), what is known of the
event while it is worked on (`EventInv`), and that an error that was joined carries what its
contexts say (`JoinedInv`), without which two contexts of one error could disagree. The
heart of `NoMatchIsMissed` is that `Enriched` only shrinks what an error fits, so a context that
was passed need not be tried again; and that where something fits there is a nearest,
because a nonempty set of naturals has a least element (`MinimumExists`).

**Traces** (`TraceCorrelationProofs`). `Inductive`: `Spec => []IInv`, for input in any order, and from it
`RecordsAreConserved`, `LimitsAreKept`, `JoinedContextsAgree` and `PruningIsSafe`. `Conserved` needs `OneOpen`:
no two open traces have the same lane and identifiers, so that a CALL closes at most one. `LimitsKept`
needs that at most one trace too many is open while `evictOpenIfNeeded` runs. `JoinedAgree` needs, of every error
before anything is joined to it, that its identifiers are those of its trace or unknown
(`ErrorAgrees`). `PruneIsSafe` needs that `resolveExpiredErrorContexts` has left nothing whose window is over
(`WindowsOpen`), so that what waits is too late for an error two windows old.

As long as no timestamp went back (`inOrder`), `OrderedInductive` adds to `IInv`, as long as no candidate was
dropped, that an error which is no longer a candidate lies before the window of every context that waits
and of every one that can still come (`Aside`); that the window of a joined context is over, unless the
input is (`JoinedOver`); and, for every joined context, that its error is nearer than any other
that fits (`NearestInv`). Then an error that comes later fits nothing that was decided, and the
candidates at the decision stand for all errors of the input: `ContextsJoinTheNearest` and
`ExpiredFitNothing`. `NearestInv` compares with the errors as they are now, which a later join may have
changed; a join only makes an error fit less (`FitsCaller` says so of the identity of a trace, which no step changes). That the pruning loop
removes exactly the outdated candidates is an induction over `Kept`, done as an induction over the set of the
indices for which it holds (`InductionOnSets`).

**File pipeline** (`FilePipelineProofs`). `PipelineInvariant`: `Spec => []IInv`, and from it
`PipelineTypes`, `MemoryIsBounded`, `SuccessIsComplete` and `PipelineScansInOrder`, for any number of
files, workers and batches. The memory bound needs only which goroutines there are
(`GoroutineInv`): files hold batches only between the consumer's and the last one started, that
window is never wider than the workers, and the consumer holds one batch at a time. The others rest on one idea: `Seen(f)` says how many
batches of `f` the consumer has gone through, from its position, from what the goroutine sent and from what the
channel still buffers and the consumer still holds. As long as nothing is cut short (`StreamInv`), each step of the whole system leaves
all `Seen` alone, raises that of the current file by one with the feed, or lets the consumer see the end
of the file (`SeeingStep`); feed and counts are then exactly what was seen (`PositionInv`, `CountInv`), and
a step of the pipeline is a step of the scan or none. After a cancellation all three promise
nothing, as the code discards the result; that no build then ends well is `err' = FinalErr`.

**Sessions** (`SessionStatsProofs`). `CountersBalance` and `SessionTypes`: the conjunction
of `TypeOK` and `Balanced` is inductive as it stands; the lemmas say that `Count` moves
exactly the counters it is given, that a bounded list either grows or counts one dropped,
and that opening and closing an identity moves the number of open sessions by one.

`TimelineIsExact` needs more (`SInv`): the changes of an identity alternate, beginning with an opening, and an
identity is open exactly if its last change is an opening (`AppendAlternates`). So every closing ends exactly one
session, and each session has at most one end (`Sessions`). `Place` is an injection of a finite set into itself, so
the sorted list has every change once (`AtIsInverse`). When every session lasts, its opening is sorted before its
end; then a closing never meets a count of zero, no change is clamped, and the running count after `m` changes
is the number of sessions begun and not ended among them (`ActSteps`, `RunningCounts`, by induction as a fact about
the set of such `m`). After the last change of a timestamp these are the sessions active at it; in
between, the count after an opening is at most that at its own timestamp and after a closing at most that just
before it, because closes sort before opens (`CountIsReached`), so the peak shows nothing that never was.

**Web requests** (`OverviewCollectorProofs`). `ResponsesNeverGuessed`, of
the collector as a whole: its counters are never looked at. The invariant behind it
(`PInv`) says that a request of the log still waits unless it was matched, and that on a lane
without strays nobody has taken another's request: so a response whose request is in the log
has it among its candidates, and the only candidate can be no other.

`WebAccountsBalance` needs, besides, that what was matched or is remembered came before and waits no more
(`Used`): a later request is a new one, so each is answered at most once, and the cache never finds a request in
both places. The matches are kept in the order of the responses, as samples that compare equal are listed in
that order; the two lists are then those of all samples so far (`Listed`), by the lemmas on sorting below, and
the counters move as `Tallies` says of each kind of event. That byte counts are numbers is part of
`EventAssumption`.

**Samples and ranks** (`OverviewCollectorProofs`). `SamplesStayBest`, `TopStaysStable` and `PercentilesAreRight`, from
`EventAssumption`: what is compared or added of an event is a number. A comparison is taken as a set
of pairs, one of which says which of two comes first; it must be a strict order in which what
compares equal compares equal with the same (`Orders`; `BetterOrders` and `BeforeOrders` show it of those of the code).
An element's place in the sorted list is then the number of those ahead of it (`PlaceOf`), and the places are a
permutation (`PlacesInOrder`). Everything follows from what one more element does (`AppendPlaces`): it gets a
place, those behind it move by one, the others stay. So cutting after every event loses nothing that belongs
in the list (`KeepBest`), and the worst of the longest events is the one whose place leaves the first `TopN`
exactly if the new event is to replace it; which slot it stood in plays no part, as
the invariant (`TopOf`) speaks of the set of items only. For the percentiles,
`SortedCounts` reads off the sorted values how many are at most or at least a number; an interpolated
median lies between two neighbours, so each half is counted from one of them. The invariant is
that every group holds numbers only, and at least one (`Valued`).

**Books** (`OverviewCollectorProofs`). `BooksBalance`, for every log, limit and configuration. `AddsUp` relates
tables, quality counters and samples to each other; its conjunction with what makes it inductive is
`Balanced`: the samples are those of the whole log and the groups hold numbers, as above, counters are naturals, and a
dimension on which every event lands at most once has finitely many groups (`InBooks`). Then one event is
one step of accounts: `Single` names the dimensions to which it adds at most one value, `AddsTo` says
of such a dimension that its count moves by one and its total by that value exactly if the event has a row there
(`SumSteps`, `SumGrows`: a sum over a finite set is its sum without one element, plus that element), and every
counter moves by one exactly if it is among `Counts(e)`. What is left for each analyzer is propositional: the ways an
event can be incomplete exclude each other and exhaust what is not a row. That a sum over a finite set can be
taken in any order is an induction on its size; as no induction theorem with an operator for a parameter can
be used, it is stated as a fact about the set of sizes at which it fails, which has no least element
(`WFMin`). Besides `EventAssumption` as above, the `Func` of an SCOM event is a list of names, as `ParseFunction` gives it.

**Report pool** (`ReportPoolProofs`). `PoolInvariant` and from it `NoResultLost`, for any number of
workers and files: the invariant follows a file from the feeder through a worker and the
channel to `Build`, and adds that results are closed only when every worker is gone
(`PoolInv`), without which `Build` could return before the last send.

`ReportIsExact` compares what `Build` has merged with the files themselves: an event is a header line with
the lines up to the next one, and the Context of a CALL is the next event of its thread that can be one.
Its invariant is `Collecting` (`CollectingInvariant`): what is merged is at every moment what the files
received so far hold that did not fail (`Due`). Three walks lead there, each a fold over
a list taken as its sequence of intermediate values (`FoldGoes`), with an invariant of its own: the parser, which at
every line has given the events that are complete and holds the one that is not (`FileEvents`);
`EmitWanted`, one event after the other (`OwnRowsTaken`); and `PairCall`, whose pending calls are, per
thread, the last wanted one that nothing came after (`PairedRowsTaken`). Two files share no row, so
sums and counts per group add up in whatever order results arrive (`GroupsMerged`). In raw mode a file may
already have cut its rows. `Top` says of a list that it holds as many rows as `TopN` allows, each once, and with a row
every row that comes before it; a row that a file or a merge left out comes before none of `TopN` others, so
merging two such lists and cutting again gives one for the rows of both (`SortedCut`, `TopMerged`,
`HoursMerged`). Of two rows that tie either may be kept.

`ReportIsRanked` speaks of the finished report: a group that it leaves out comes before none that it lists,
and it leaves none out below `TopN`; days and hours ascend and each holds its rows. Keys are put in line by `NumbersInOrder`, and the
lists of the hours of a day are joined as `FlattenSteps` says. Its invariant (`ReportedInvariant`) is that
only `BuildReturns` writes the report. `PoolAssumption` asks for `TopN` to be a natural
number, for files to be lists of lines (`IsFile`) and for placeholders to be words.

**Service** (`ServiceProofs`). `ExitsClean`: success means that `Serve` returned `ErrServerClosed`,
hence that it saw the signal, closed the server and drained it, after which no request can come
(requests that come before keep `Shutdown` from draining);
and that the manager stopped with `accepting` unset, hence with no run running.
`CleanExit` is an action property, and its invariant says at each point of `runServe` what is already settled.
`AnswersKeepTheirTime`: the handler of a comparison looks its two runs up in two critical sections, and
meanwhile runs end, are deleted and are evicted. The invariant (`LookupInv`) says that a run has only gone on
since the request came (`Progress`), that a handler is where its request was routed to, and that what it
found of the first run was so at a moment of the request: since a run succeeds once and then can only go,
neither finding it nor missing it can become untrue of the request as a whole.

`ComparisonsAreHonest` is about the data of the same answer. That both runs were available makes both results overviews
(`ServiceAssumption`), and that the answer is no 400 makes the options sound (`OptionsAreSound`): the thresholds
in force are those of the request or 5 percent (`InForce`). `Metric` is the arithmetic of one number: it regresses only by
growing by at least the threshold (`WorseBy`), and always by growing by more, whatever is rounded down at the
threshold itself. The reasons of a row are a walk over its metrics (`ReasonsAre`), so
that a row is marked only with a reason other than its count (`MarksHaveReasons`). The maps of a
section have the keys of its rows (`RowsAreMapped`), the keys of both are numbered by `NthOf`, which is a
bijection (`KeysAreNumbered`), and sorting by `ChangeBefore`, a strict order, loses none and puts classes in order
(`SortByInOrder`). The comparison the other way round has the same keys with the sides swapped (`NewAreRemoved`).

`PagesStayExact`: while a handler reads the files of a run one after the other they grow, and the run may be deleted.
The invariant (`PageInv`) says that after `k` files there is a version of the disk for each, none
before the request came nor before that of the file read earlier, such that the page is that of all
matches in these (`HasRead`). Reading one file more appends its current version, its
matches follow the others (`MatchesGrow`, by `FlattenGrows`), and filling a page event by event gives the page of the longer list
(`PageFills`, and `PagesFill` for a whole file); what was read before remains within the versions, as the disk only goes
on (`ReadEarlier`). For sections, `SliceIsPage` says that slicing the list of the wanted rows is the same page.

The lemmas about folds, sorting and joining lists are stated in each module of proofs that uses them.

`TypeOK` and `IInv` of the proved modules are in no run any more: they are theorems.

**Only model-checked**: all liveness (`CancelTakesEffect`, `ShutdownSettles`,
`Terminates`, `Exits`), which needs fairness and ENABLED and is out of this prover's reach. Every other property
of the passing runs is the subject of a theorem. Where a fold over a list or a set had to be evaluated,
induction was done as a fact about the set of the numbers, or of the finite sets, for which the claim holds
(`NumbersByStep`, `SubsetsByRemoval`), as no induction theorem with an operator for a parameter can be used.

## Not modelled

Text: how a header is split into fields, normalisation of messages and SQL, splitting
of the lists in lock fields and in `Func`, parsing of URIs and numbers, redaction. Presentation: CSV, HTML,
text and JSON renderers, the order of rows in tables other than those ranked above, the cut of
the lists of conflicts, percentages. Input and output: the directory walk, writing of reports, the
loader of a saved overview, `net/http` itself (what the code relies on of it is in `Service`). Configuration: parsing and
validation of flags. None of these keeps state or meets another goroutine. The browser
interface (`webui/app.js`) does have a hazard, an answer that arrives after the
selection changed; it is listed in `PROJECT.json` and is the one row of the plan still to do.
