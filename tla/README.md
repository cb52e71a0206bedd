# Specifications of metrique

metrique builds one record of metrics per unit of work, closes it when the work
is done and sends it, through a sink, to an output stream. What can go wrong in
it goes wrong between threads: an entry that is closed too early or twice, a
flush that returns before what it should cover is written, a shutdown that loses
the last entries or never returns. The modules here specify those parts, TLC
checks them on small instances, and TLAPS proves the properties that matter most
for every instance.

## The system

    metrics struct --(drop)--> EntrySink --> background thread --> EntryIoStream --> format --> output
    guards, slots,             global slot,                        tee, sampling,    EMF, JSON,
    timers, shared state       pending sink,                       rate limits       CloudWatch, OTel
                               aggregation

| component | state | operations | what is hard |
|---|---|---|---|
| Background queue (`metrique-writer/src/sink/background.rs`) | bounded ring, channel of flush signals, countdown of waiting wakers, flush deadline, shutdown flag | append, flush_async, clone, drop, join-handle drop and forget, the receiver loop | lock-free ring that evicts, park and unpark, flushes counted in entries, shutdown with a timeout |
| Pending sink (`metrique-util/src/pending_sink.rs`) | once-set sink, ring, counter of appends in flight, cancel flag | append, flush_async, resolve, drop of the resolver | resolve races appends that have already looked at the slot |
| CloudWatch Logs stream (`metrique-writer-cloudwatch/src/lib.rs`) | current batch, bounded channel, submit task, shutdown relay | next, flush, drop, shutdown, put | limits on requests, a full channel, shutdown through a weak sender |
| Global sink (`metrique-writer-core/src/global.rs`) | read-write locked slot, registry of shutdown functions, attach handle | attach, append, sink, register_shutdown_fn, handle drop and forget | registering against draining, appending against detaching, panics in shutdown functions |
| Entry lifecycle (`metrique/src/{lib,keep_alive,slot}.rs`) | root, two reference counts, oneshot channel of the slot | flush_guard, force_flush_guard, handle, discard, open, wait_for_data, drops | the last of many owners emits, in whatever thread it is |
| Aggregation worker (`metrique-aggregation/src/{sink/worker,aggregator}.rs`) | channel, keyed storage, time of the last flush | send, flush, merge on drop, the worker's loop | flush against merge, load that never pauses, the last sender, panics in user code |
| Aggregation (rest of `metrique-aggregation/src`) | mutex, histograms | merge, flush, close | drain of an atomic histogram against records |
| metrics.rs bridge and Lambda reporter (`metrique-metricsrs/src`) | registry of atomics, periodic task, cancellation token, OnceLock | record, readout, shutdown, flush, flush_metrics | a readout is not a snapshot, the last readout against shutdown, overlapping flushes |
| Formats (`metrique-writer-format-emf`, `-json`) and streams (`metrique-writer/src/stream.rs`) | buffers kept between entries, dimension sets, validation state | the entry writer's calls, finish, next, flush | order of an entry's calls, split entries, partial failures of a tee |
| Samplers (`metrique-writer/src/sample`) | groups with averages and rates, the interval | format, update_rates | rates that lag behind the load, groups that come and go |
| Rate limiters, OpenTelemetry (`metrique-writer/src/rate_limit.rs`, `metrique-otel`) | last time, instrument cache | next | small |
| Timers, time source, state, quantisation | small values | start, stop, close | sequential; overflow and override order |
| Macros, names, units, values | none at run time | | compile-time code |

Every component is listed in `PROJECT.json` with its status; its `hazards` list
names the places where the code is hard to test, with the properties that watch
them.

### Abstractions common to all modules

- An entry is a number or a model value; what it contains matters only where a
  property tells contents apart (event sizes in CwLogsStream, the slot's fields
  in EntryLifecycle).
- One action is one access to state that another thread can see, with the
  thread-local work around it. Where the code holds a lock, or the library
  operation is linearizable, that is one step; a decision and the access that
  acts on it are two.
- Memory is sequentially consistent, as in the repository's own shuttle tests.
  Two places depend on more than the model shows: the queue's shutdown flag is
  stored and loaded Relaxed (background.rs, the unpark and the ring's own fences
  order it), and PendingSink's append and resolve each store one atomic and
  then load the other (pending_sink.rs), which needs SeqCst.
- Counters that only grow (appends, flushes, registrations) are bounded by
  constants named Max...; TLC explores every behaviour up to the bound, and the
  theorems hold for every bound.
- Deadlock checking is off except in `formats`: a model that bounds the number of
  operations, or whose program may drop everything and stop, has behaviours in
  which everybody is done.
  Whether somebody waits for ever is what the liveness properties say.

## The modules

**EntrySink.** The contract of a sink with a bounded buffer: append never fails
and drops the oldest entry, entries are written in order, a flush resolves once
what preceded it is flushed or dropped, a sink that is shut down stops in the
same condition, and a sink that is cut short (deadline, panic) still leaves
nobody waiting.

**BackgroundQueue** (MCBackgroundQueue, BackgroundQueueProofs). Appenders push
into the ring (evicting when it is full), report the overflow, unpark the
thread, send flush signals, clone and drop the queue; the Receiver's program
counter walks through run_until_deadline (`pop`, `consume`, `wakers`, `recv`,
`decide`, `park`), the flush and the exit check, and the shutdown drain. The
clock is a nondeterministic Tick that lets deadlines pass at the points where
the code reads it. `EffectOf` lists what one write may do to the three
counters. The stream may panic in next or in flush, which ends the thread.
`Sink == INSTANCE EntrySink WITH ...` maps the queue to the contract: the ring is
the buffer, the popped entry the one being written, a signal's state its wait.

**PendingSink** (MCPendingSink, PendingSinkProofs). One label per atomic access
of append: look at the slot, look at the cancel flag, count in, look again,
push, count out. resolve sets the slot, spins, drains.

**CwLogsStream** (MCCwLogsStream, CwLogsStreamProofs). The stream's owner batches lines by count
and bytes and offers batches to a bounded channel; the submit loop puts them,
the relay turns the drop of the handle into a Shutdown command, and the runtime
may stop under everybody. Sizes are small numbers around the limits.

**GlobalSink** (MCGlobalSink, GlobalSinkProofs). The slot and its lock, attach handles and their
registries, callers inside the read-locked sections, shutdown functions that
panic, and an attached queue reduced to the promise BackgroundQueue is proved
to keep (ShutdownDrains). The queue's thread may use the slot on its way out.

**EntryLifecycle** (MCEntryLifecycle, EntryLifecycleProofs). A reference count
is the set of its owners: Parent and the guards' payload own the value; Parent,
the guards and a DropAll that has upgraded own the switch. Dropping a reference
and freeing what the last one leaves are separate steps.

**WorkerSink** (MCWorkerSink, WorkerSinkProofs). Clients with a clone of the sink, or with a guard
that merges on drop, put messages into the channel; the worker merges entries
into the keyed aggregator and emits one row per key when it flushes. Any number
of entries may be sent: the watched ones can be sent again once they are emitted,
and Load stands for all others. Merging, closing and appending are user code and
may panic, which ends the worker.

**EntryFormat** (MCEntryFormat, EntryFormatProofs). An immediate-flush sink over tee(Emf, Json): an
entry is a sequence of writer calls, chosen call by call, and both formats see
the same sequence. Emf's state is kept from entry to entry as in the code. A
field is its name and the weights of its observations.

**CongressSample** (MCCongressSample, AccountingProofs). Groups, averages, seats and scale as exact
fractions; the random draws are choices among their possible outcomes, so
"unbiased" is a statement about the weighted sum of the outcomes.

**MetricReporter** (MCMetricReporter, AccountingProofs). Threads record in atomics while readers
visit them one at a time; a reader is the task of a MetricReporter or a call of
flush_metrics. It is composed with EntrySink, the contract BackgroundQueue is
proved to implement: `Sink == INSTANCE EntrySink` shares the sink's variables and
the reporter's steps are joined with the sink's AppendEntry, Request and Ask.

## What TLC checks

| run | instance | shows |
|---|---|---|
| bq_safety | 2 appenders, ring of 2, 3 entries, 1 flush, writes that fail together with their error report, up to 2 failed flushes, panics | the queue implements EntrySink (ImplementsEntrySink), a woken flush covers what was appended before it (FlushSafety), a finished shutdown has drained (ShutdownDrains), no appended entry leaves the thread parked for good (NoLostWakeup), each counter is reported to the observer exactly once (Accounting) |
| bq_liveness | ring of 1, 2 entries, 2 flushes | a flush is woken after a number of rounds that depends on the capacity alone (L1); flushes resolve, shutdown returns, the thread stops with the last clone, and it always parks again, panics included |
| pending | 3 threads, ring of 2, 4 entries, 1 flush | nothing is stranded, every entry has one fate, a flush covers what was in the ring unless resolve is moving it, resolve returns |
| cw | batches of 2 events and 10 bytes, channel of 2, 3 events of 1, 8 or 11 bytes | one fate per event, silent loss only after a shutdown, what a returned shutdown means, batches within the limits; shutdown returns even with a full channel, enqueued batches are put |
| global | 2 threads, 2 attachments, 2 functions, 1 entry | a handle detaches only itself, accepted functions run once in reverse order, accepted entries are written, forgotten sinks stay, dropping the handle returns |
| entry | 2 guards, 2 force guards, 2 handles, a slot | closed when due, one fate, freed once, waited-for slot included; what is due is closed |
| entry_close | the same | finding |
| worker | 2 clients, 3 watched entries of 2 keys and any load, channel of 2 | each entry is emitted in one row or lost to a panic, a flush covers what was sent before it by anybody, and neither endless load nor a panic keeps entries, flushes or the worker from ending |
| formats | entries of up to 4 calls out of 15, one after the other, 6 builder configurations, sampled or not | lines are those of the entry and of no earlier one, with every observation where its dimensions put it (LinesAreExplained); with validations on, strings and metrics of a line differ in name, and what it defines or is published under is on it, whatever the order of the calls; only a dimension of the line's own can double a name (LinesAreWellFormed); both halves of the tee get every entry and are flushed (TeeWritesBoth) |
| emf_release | the builder option in a release build | finding |
| sampling | 3 groups, target 2, window 3, up to 3 entries in each of 5 intervals | rates are in (0, 1], favour no group over a rarer one and keep to the target (RatesAreFair), weights make up for dropped entries (WeightsAreUnbiased), groups unseen for the time to live are gone (SilentGroupsAreForgotten) |
| reporters | 1 counter, 1 gauge, a periodic entry and the last one, two calls of flush_metrics, sink of 1 that may be cut short | every amount recorded is reported once, a returned shutdown() or flush_metrics() has reported what was recorded before the call (ReportsAreExact); all calls return (CallsReturn) |

The bounds are the smallest in which the cases happen: a ring that overflows
while it is drained needs one entry more than its capacity; a flush overtaken by
an eviction needs two appenders or a slow thread; two attachments are needed for
a stale handle to hit a newer one; two guards and two force guards for every
pair of owners to be last together. The one outcome
of a write in bq_safety is the one that counts most, a refused entry whose report
is lost too; successful writes are in bq_liveness, and the thread's steps do not
depend on the outcome. A metric without and with its own dimensions, a dimension, and a
configuration call make the four calls of an entry in `formats`; silence longer
than the time to live and a return need four updates in `sampling`; a bucket of
a histogram is swapped like a counter, so `reporters` has none. Symmetry is used
in bq_safety (appenders; ImplementsEntrySink is a safety property and treats
them alike) and in sampling (groups), never with liveness.

Every property of a passing run has a mutant in `PROJECT.json`: a definition of
the model replaced by what a plausible slip in the code would make of it, under
which TLC finds the property violated. The mutated forms stand next to the
definitions they replace and are marked "Mutation".

### Fairness

- BackgroundQueue: weak fairness of the receiver thread, of the steps with
  which an appender completes an operation it has begun, and of a join. Nothing
  is assumed of when appends or flushes are called. Time passes (Tick is weakly
  fair where a park has a deadline).
- PendingSink: a thread inside append goes on, and so does resolve.
- CwLogsStream: the tasks of a runtime that has not stopped are scheduled.
- GlobalSink: read-locked sections end; strong fairness of the drop, because a
  waiting writer of std's RwLock is not overtaken by readers for ever.
- EntryLifecycle: a drop that has begun is finished. The program need not drop
  anything.
- MetricReporter: the runtime polls the task and the calls that have begun, and
  the sink's thread runs. Nothing is assumed of when metrics are recorded or
  calls are made, nor that the sink is spared a panic.
- WorkerSink: the worker thread runs and time passes; nothing is assumed of the
  clients, who may send for ever.

## What is proved

| theorem | says |
|---|---|
| BackgroundQueueProofs!TypeCorrect | TypeOK, for every capacity, clock-check interval, number of appenders and behaviour of the stream |
| BackgroundQueueProofs!FlushIsSafe | FlushSafety: a woken flush covers everything appended before it |
| BackgroundQueueProofs!ShutdownIsSafe | ShutdownDrains: a shutdown that was not cut short loses nothing appended before it |
| BackgroundQueueProofs!QueueIsAnEntrySink | ImplementsEntrySink: every behaviour of the queue is, under the refinement mapping, one of EntrySink |
| BackgroundQueueProofs!WakeupsAreNotLost | NoLostWakeup: a parked thread with work has its token, or is about to get it |
| BackgroundQueueProofs!EverythingIsCounted | Accounting: entries, writes and reported events add up in every state |
| BackgroundQueueProofs!FlushesAreNotStarved | L1: the rounds a flush waits are bounded by the capacity and the clock-check interval |
| PendingSinkProofs!ResolveStrandsNothing | TypeOK and NothingStranded, for every capacity and finite set of threads |
| PendingSinkProofs!EntriesHaveOneFate | ExactlyOneFate |
| PendingSinkProofs!FlushesCoverContents | FlushCoversContents, an action property: no flush misses an entry once resolve has returned |
| CwLogsStreamProofs!EventsHaveOneFate | TypeOK and ExactlyOneFate, for all limits, capacities and sizes of events |
| CwLogsStreamProofs!LossIsReported | SilentLossOnlyAfterShutdown |
| CwLogsStreamProofs!ShutdownPutsWhatItOwes | ShutdownDrains of the stream |
| CwLogsStreamProofs!BatchesStayInLimits | BatchesAreBounded: no batch sent is over PutLogEvents' limits |
| GlobalSinkProofs!SlotBelongsToHandle | HandleOwnsSlot, for all numbers of threads, attachments and functions |
| GlobalSinkProofs!ShutdownFnsAreRun | ShutdownFnsRun |
| GlobalSinkProofs!AcceptedEntriesAreWritten | AcceptedIsWritten |
| EntryLifecycleProofs!EntryIsClosedOnce | TypeOK and Settles, for all sets of guards and handles |
| EntryLifecycleProofs!EntryIsClosedWhenDue | ClosedOnlyWhenDue |
| EntryLifecycleProofs!WaitedSlotIsInEntry | WaitedSlotIsIncluded |
| WorkerSinkProofs!EntriesAreInOnePlace | TypeOK and EachInOnePlace, for all clients, entries, keys and channel capacities |
| WorkerSinkProofs!FlushReturnsAfterEmission | FlushCovers |
| EntryFormatProofs!EmfLinesAreWellFormed | LinesAreWellFormed, with its exception of a line's own dimensions, for all builder options, default dimensions and calls, and entries of any length |
| EntryFormatProofs!EmfLinesAreExplained | LinesAreExplained, with the validations on or off and for entries in any order: no line holds anything of an earlier entry, and none of this one is lost or misplaced |
| EntryFormatProofs!TeeStarvesNobody | TeeWritesBoth: Json writes what the entry says whatever became of Emf, and both are flushed |
| AccountingProofs!ReporterIsExact | ReportsAreExact, for all sets of atomics, finitely many calls of flush_metrics, every sink capacity and every number of records |
| AccountingProofs!SilentGroupsGo | SilentGroupsAreForgotten, for all groups, targets and windows |
| AccountingProofs!CongressIsFair | RatesAreFair, for all groups, targets, windows and loads |
| AccountingProofs!SamplingIsUnbiased | WeightsAreUnbiased, for every rate the sampler can reach |

The inductive invariants are defined as named parts at the end of the modules
they are about, and each was checked with TLC on the instance of its run before
it was proved.

**BackgroundQueue.** FlushSafety is not inductive: that a woken flush is covered
depends on the countdown having started at the right number. `IInv` adds that
the ring is the window of the last pushes (RingIsWindow), that whatever left it
was written or evicted (OutIsAccounted), that signals carry increasing numbers
of pushes (SignalsAreNumbered), that the remaining count bounds what is still in
the ring before a waiting signal (Countdown), and what holds at the points where
the thread flushes and closes (WakeIsSafe, CloseIsSafe).

The refinement is proved by step simulation from the same invariant: one lemma
per group of actions names the step of EntrySink it is (PushAppends,
DrainTakesAndWrites, FlushPersists, PanicCutsShort, FlushAsyncRequests,
WakersResolve, LoopCloses, OutsideAsks) or shows that it stutters. The mapping
needs the history variables that say which entries are flushed, how many
preceded a signal and when the shutdown was signalled.

NoLostWakeup speaks of a parked thread only, and a wakeup is lost earlier: in the
steps between the thread's last look and its park. WakeupsAreKept states, for
each of these steps, that what arrived since the look is announced by the token
or by an appender that has yet to unpark (WakeupPending). Accounting is a sum of
cardinalities (EntriesAddUp, WritesAddUp, EventsAddUp); CountsAgree adds that the
last flush has handed every counter over unless a panic cut it short. For L1, RoundsAreBounded ties the number of calls a
signal has waited for (Rounds) to how much of the countdown is left: each call
pops at least ClockCheck entries, and a countdown starts at most at the capacity.

**PendingSink.** The counter equals the number of threads between counting in and
counting out, so that a resolve that read zero after setting the slot knows
nobody can still push (QuiescenceInv). OneFate is ExactlyOneFate
with its places written out, pairwise disjoint and together complete; the action property follows from QuiescenceInv, a
resolved sink having an empty ring.

**CwLogsStream.** Every step moves a set of events from one place to another or
adds new ones, and one lemma each (MovingKeepsApart, AddingKeepsApart) shows that
the places then stay disjoint and complete; Unrepeated is needed so that what is
moved leaves no copy behind. ShutdownDrains rests on there being one request, the
relay's last act (OneRequest), on the channel being closed and empty from then on
(Ends), and on what is owed staying on its way until it is put (Owing). For the
limits, Limits says that batch_bytes is the weight of the batch, event by event,
and within bounds while the batch can be sent.

**GlobalSink.** SlotIsOwned says that the slot holds the attachment whose handle has
not detached it and that a thread in a read-locked section sees what is in the
slot; FnsAreKept that the registry is open exactly while the handle is held, and
that what ran followed by what is still to run is the registrations, last first;
QueueKeeps that a queue runs until its handle asks it to stop, that an accepted
entry is in it or written, and written once the queue was drained.

**EntryLifecycle.** The invariant says who owns what: the owners of the switch are
the actors that have not let go (RefsAreOwners), at most one actor destroys it and
is then alone (OneReleaser), the payload is in the switch or in the hands of one
DropAll (PayloadIsSomewhere), the value lives as long as one of its two
references (ValueIsCounted), the entry is in one place at a time (OneFate), and
the channel holds what a SlotGuard sent (SlotIsSent).

**WorkerSink.** KeptOnce locates every sent entry in one message or in the
aggregate of its key, Phases says that entries are merged only between flushes and
aggregates drained only in one, and FlushIsBehind that whatever a waiting flush covers is ahead
of its message in the channel or already in the aggregator that the worker will
empty before it answers.

**EntryFormat.** With the validations on and no error noted so far, the validation
map knows what is in the buffers: every string and nothing else is noted as a
string, every metric with the index of its line, and the dimensions of the lines
as names that are no metrics (AllIsNoted). ReportIsLast is needed because a report
switches the validation of metrics off: no metric comes after it. The map knows
nothing of per-metric and global dimensions, whose names and values a line has as
fields too; so the property does not say that a line's names are unique, but that
only its own dimensions can double one (OnlyOwnNamesTwice).

LinesAreExplained says what a line holds by positions: the fields of a line are
those of the calls that belong to it, in their order (Lists). BuffersAreExplained
says the same of the buffers in the middle of an entry, and that every set of
dimensions that a metric was given has buffers; each call adds one position to
one list and none to the others. For TeeWritesBoth, JsonRuns unfolds the fold over the
calls into one step per call, by induction over their number; TeeInTurn and
ReportIsClean say in which order the halves run and that the report of an entry
that cannot be routed has nothing to be refused for.

**MetricReporter.** ReportsInv says that readouts hold nothing outside of a visit
and that those that overlap are noted (ReadoutsAreNoted), which paths each way of
building a reporter excludes (SetupIsKept), what the sink has settled when it
stops or resolves a flush (SinkSettles, from the contract EntrySink that the queue
is proved to implement), and that from its visit of an atomic on, what a reader
holds and what the entries hold together cover what it promised
(PromisesAreCovered). The report of a counter is a sum over entries: the lemmas
SumTakesFirst, SumTakesAny and SumOfPartIsLess about sums over finite sets carry
the proof. Finitely many calls of flush_metrics is an assumption of the proof
(ReporterAssumption): at any moment only finitely many were made, and the amounts
they hold are added up.

**CongressSample.** A kept group's counters tell how long it has been silent, and
one that is gone has been silent for longer than any that is kept (SilenceIsKept).

The rates are proved from RatesInv: a group has been observed in this interval or
has an average above zero, one without an average is not sampled yet, and all
fractions are in lowest terms, so that equal ones are the same. The
proof is in layers. Euclid's recursion has one solution, which divides both
numbers and scales with them (GcdDivides, GcdScales); hence the laws of
fractions (PlusAssociates, TimesDistributes, OverCompares and so on) and of
totals over groups (TotalTakesAny, TotalScales, TotalIsMonotone). Seats per entry
go down as the average goes up (SeatsAreFair), which needs that the house's rate is at most
one: it is, because rates are only computed when the target was exceeded. A
group's expected output is at most its scaled seats (RateIs), and these add up to
the target (TargetIsMet). A group that is seen for the first time has an average
of zero and leaves the total as it was (TotalWithZero). In WeightIsUnbiased, for a
rate q / p with p = n * q + r, the two outcomes n and n + 1 have the weights q - r
and r over q. Nothing is assumed of the groups, not even that there are
finitely many: the map holds finitely many at any time. The laws are those of exact
fractions; the code computes with f32, and rounding is not modelled.

Sums, folds and Gcd are induction over data. The induction theorems of the library
take operators, which the provers here cannot instantiate; the proofs use two lemmas
about sets instead, SubsetsInSet and NatInSet, which follow from well-foundedness.

These proofs found the model imprecise in one place: the guards of a CASE in
MetricReporter's Publish overlapped, so that its value was any of the two; it is
an IF now. Some definitions were restated to be reasoned about, with the same meaning:
what a line of EntryFormat holds (positions instead of SelectSeq), and the sums of
MetricReporter and CongressSample (folds of the community modules).

AccountingProofs is about two components, because both rest on the same lemmas
about sums; for this the actions and the specification of CongressSample have
names of their own (CongressInit, CongressNext, CongressSpec).

The assumptions on the constants are the named ASSUMEs of each module: positive
capacities, natural bounds, distinct names; they follow from the types of the
code and its builders' assertions.

What stays with TLC is liveness: FlushResolves, ThreadExits, AlwaysParksAgain,
ResolveReturns, ShutdownReturns, EnqueuedIsPut, DropReturns, DueIsClosed,
SentIsEmitted, NobodyHangs and CallsReturn depend on fairness, which is outside
the prover's reach. Every invariant and every other action property that a passing run
checks is stated by a theorem.

## Findings

- `entry_close`: a cancelled wait_for_data (or a child whose close panics)
  leaves a Slot that panics in the arm marked unreachable, and the entry is lost.
- `emf_release`: in a release build allow_dimensions_with_no_data(false) turns on
  the check for missing dimensions and not the bookkeeping it relies on, so that
  entries are refused for dimensions they have.

Also met while modelling; the properties state what holds instead:

- background.rs: after the thread has ended, flush_async resolves at once although
  entries are still in the ring, an exception its guarantee S1 does not name
  (FlushSafety is about requests the thread received). The doc of `shut_down`
  speaks of a maximum of five minutes while the default timeout is 30 seconds.
- pending_sink.rs: a flush issued while resolve is draining is forwarded and
  completes without the entries still in the ring (FlushCoversContents excepts it).
- metrique-writer-cloudwatch: an event within the event limit may exceed the
  request limit by the per-event overhead (BatchesAreBounded excepts a batch of
  one event).
- emf.rs: the dimensions of a metric, the global ones included, are string fields
  of its line (MetricsForDimensionSet::new) that validation_map never sees. With
  all validations on, a string, a metric or another dimension of the same name is
  written besides and the line has that name twice, as it does when a metric has
  a dimension that is global too; yet "a duplicate field makes EMF reject the
  whole entry" (docs/metrics-pool-rfc.md:605), and test_validation_errors_dimensions
  tries only strings and metrics against each other. `formats` reaches such lines, by a string, a
  metric and a global dimension; LinesAreWellFormed excepts the line's own
  dimensions and nothing else. Nor are these names checked for being empty or
  `_aws`.
- json.rs: with_sampling promises to keep aggregates unbiased, but
  push_observation applies the multiplicity to repeated observations only.
- reporter.rs: the docs say of the handle given to metrics_sink that it "is just
  dropped on shutdown". `move || { let _ = handle; }` reads nothing and so, since
  edition 2021, captures nothing: metrics_sink drops the handle when it returns,
  and the sink is shut down before the reporter exists (setup "handle"; entries
  are then appended and never written). The repository's test looks at the
  handle only after shutdown.
- reporter.rs: flush() is documented to "Flush all outstanding metrics"; it
  flushes the sink and reads nothing out, so what was recorded since the last
  tick stays behind (ReportsAreExact promises nothing for it).
- lambda_reporter.rs: of two overlapping calls of flush_metrics one may return
  while the other still holds what it has read out (FlushReports excepts them).

## Not modelled

Macros, names, units and values have no run-time state. The text of the formats
(escaping, numbers, layout) and the bits of floating-point numbers (quantisation,
histogram buckets, f32 rounding in the sampler) are left out. So is the cast of a
histogram bucket's count from u64 to u32 (metrics_histogram.rs): the model's
readout takes the whole count, the code its lower 32 bits, which differ once a
bucket has counted 2^32 values between two readouts. The metrics.rs and
OpenTelemetry libraries, tokio and the AWS SDK are environments. Real time is
order only. Timers, the time source, State and the embedded aggregates are
sequential or a single atomic access; the rate limiters only thin out log
messages. The test sinks of the global sink, SharedChild, the stdout buffer of
the Lambda reporter, the poisoning of FlushImmediately's mutex and the builders'
setters are left out. `PROJECT.json` gives the reason for each component.

## Plan

Left for later: the periodic samplers of metrique-util as shutdown functions of
GlobalSink, the test sinks, and the stdout buffer of the Lambda reporter; the f32
rounding of the sampler, as an error bound on RatesAreFair.
