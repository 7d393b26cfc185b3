# AgentScope in TLA+

AgentScope captures process, file and network events with eBPF probes, runs
every event through an ingest pipeline (rate limit, process table, event ring,
policy, violation ring, broadcast) and serves the result over HTTP. This
directory models the parts where an interleaving, a full queue, a stale value
or a death in the wrong moment decides whether the audit trail can be trusted.

Read `Ingest.tla` first: it is the core. `AuditTrail.tla` says in one page what
the core promises.

## The system

| part (code) | state | operations | interacts with |
| --- | --- | --- | --- |
| eBPF probes (`bpf/asg-ebpf`) | the shared ring buffer `EVENTS` | reserve, write, submit or discard a record, on every processor | kernel source |
| kernel source (`asg-collector/source/linux.rs`) | the loop's position, `SourceRecordStats` | test the channel, take a record, decode, count, send, sleep | ring buffer, channel, `/healthz` |
| simulated source (`source/sim.rs`) | a position in a script | send, pause | channel |
| channel and drain task (`pipe.rs`) | a bounded queue | receive one event, hand it to `ingest` | source, ingest |
| ingest (`asg-api/lib.rs` `ingest_at`) | `AppState`: event ring, process table, violation ring, rule set, rate bucket, `next_seq`, broadcast sender; `Metrics` | 13 accesses to shared state per event, each under its own lock or atomic | every other part |
| rate limiter (`RateBucket`) | tokens, last instant | `try_acquire` | ingest |
| violation clock (`event_now_ns`) | one `AtomicU64` | load, compare-exchange until it succeeds | ingest |
| policy engine (`asg-policy`) | none | `eval_event` | ingest |
| read API (`get_events`, `get_violations`, `get_processes`, `get_stream`) | a client's cursor | pages over the rings | rings, broadcast |
| `PUT /v1/policy` | the rule set | replace it | ingest |
| serve (`asg-cli`) | startup position, `source_alive`, connections, timeout | start, watch, drain, bind, serve, shut down | all tasks |
| replay, bench (`asg-cli`) | a summary | feed a file through `ingest` | ingest |
| dashboard (`assets/index.html`) | browser state | poll, subscribe, edit the policy | read API |

What is hard: `ingest` runs in the drain task and in every POST handler at the
same time and never holds two locks at once, so nothing it does for one event is
atomic; the clock, the rules and the number are read before the structure they
are used on is locked; the rings evict while clients page; the wall clock may go
back; either side of the channel can die; the server's shutdown is a race
between a signal, open streams and a timeout. `PROJECT.json` lists these as
hazards, each at its line.

What makes each part correct:

- ingest: numbers are unique and none is lost; rings hold the newest entries;
  each stored event raises exactly what its rules demand; the stream tells
  violations before their event; replies, counters and trail add up.
- rate limiter: bursts are bounded, nobody is starved.
- clock: timestamps increase.
- read API: a cursor walk misses nothing.
- collector: no record is lost, doubled or reordered between ring and ingest;
  both deaths are reported; everything reserved is eventually ingested.
- read API and dashboard: a forest that leaves out only circular parents; a
  page that stays in order under overlapping polls and a lossy stream and comes
  to hold the newest violations.
- metrics: a scrape never shows samples of events the next one has not counted,
  and scrapes of an idle pipeline come to be exact.
- policy and its text functions: the verdict follows from the evidence, missing
  evidence included, and the page's copies of the functions agree with the
  engine's.
- replay: every line of a corpus is accounted for.
- serve: readiness tells the truth, a signal ends the process, nothing else does.

## Modules

| module | models | as |
| --- | --- | --- |
| `Policy` | `eval_event` and its rules | operators; the text functions they call are CONSTANT operators |
| `RateBucket` | `RateBucket::try_acquire` | operators on a bucket record |
| `EventClock` | the forward clamp and the truncation to seconds | operators |
| `Ingest` | `ingest_at`, its callers, `put_policy` | one action per access to shared state, `pc` and `call` per caller |
| `AuditTrail` | what ingest promises | an abstract specification over four sets |
| `Readers` | `get_events`, `get_violations`, a walking client | extends `Ingest` |
| `RateLimiter` | the bucket with callers whose clock reading is stale | actions `ReadClock`, `Acquire`, `Tick` |
| `MonotonicClock` | the compare-exchange loop | actions `Load`, `Exchange`, `Retry` |
| `Collector` | probes, ring buffer, poll loop or simulator, channel, drain task | one action per step |
| `Serve` | startup, watcher, `healthz`, shutdown | extends `Collector` |
| `Dashboard` | the page's copies of the rings, `get_stream` | extends `Readers`: one client beside the pipeline |
| `Scraper` | `Metrics::render` under relaxed atomics | extends `Ingest`: one step per load |
| `Glob` | `matches` and the page's `globMatch` | recursive functions on the slices (the page: the positions) a call can reach, and a definition by alignment |
| `PathText` | `normalize_path`, `basename`, the page's `normalizePath` | operators on sequences of characters |
| `Destination` | `destination_matches` | operators on addresses of any width, bit by bit |
| `KernelRecord` | `KernelRecord::widen` | an operator; optional fields are sets |
| `ProcessForest` | `build_process_forest` | a recursive operator on process tables |
| `Scenario` | the script of the simulated source | sequences of events per pass |
| `Replay` | `replay_lines` | a fold over the lines of a corpus |
| `Reference` | the text functions, the replay and the engine composed of them against what they are meant to compute | one input per behaviour |
| `ForestReference` | `Reference` with process tables and passes of the simulated source | two more kinds of input |
| `MCIngest`, `MCReaders`, `MCDashboard`, `MCScraper`, `MCReference` | small instances | constants only |
| `OperatorProofs` | lemmas on `RateBucket` and `EventClock` | proofs |
| `RateLimiterProofs`, `MonotonicClockProofs` | theorems on these two | proofs |
| `IngestProofs` | types, rules, numbers and rings of `Ingest` | proofs |
| `IngestHistoryProofs` | counters, process table, books, alerts and stream of `Ingest` and its refinement of `AuditTrail` | proofs |
| `ServeProofs` | theorems on `Collector` and `Serve` | proofs |
| `ClientProofs` | theorems on `Readers`, `Dashboard` and `Scraper` | proofs |
| `ReferenceProofs` | theorems on `Reference` | proofs |

Composition: `Readers` runs a cursor walk beside `Ingest`, `Dashboard` adds the
page; `Scraper` runs a scraper of the metrics beside `Ingest`; `Reference` gives `Policy`, whose text functions are
parameters, the modelled ones, and feeds it with what `KernelRecord` makes of a
probe's record; `ForestReference` adds the parts that recurse over trees, apart
so that `Reference` can be proved about; `Serve` runs the server beside
`Collector`; in `Collector` a whole `ingest` call is one step, in
`Ingest` the drain task is one of the callers. `Ingest` takes a violation's
timestamp in one step (`StampViolation`); `MonotonicClock`'s property
`AtomicClamp`, checked and proved, says that the loop implements that step.

How `Ingest` corresponds to the code. The variables carry the names of
`AppState`'s fields. `pc[c]` names the next access: `rules`, `acquire`, `shed`,
`count`, `proc`, `seq`, `store`, then for each violation `stamp`, `vcount`,
`vclass`, `vpush`, `vsend`, then `announce` and `observe`. `call[c]` holds the
locals of `post_events` (batch, size, accepted) and of `ingest_at` (now, rules,
seq, violations left, stamp). `post_events` has no await after it has parsed its
body, so a client that disconnects does not cut a batch short; a body that does
not parse changes nothing and is left out. `log`, `vlog`, `inForce`, `offered`,
`acked` and `nacked` are history: no guard reads them except the bound on
`offered`.

Data abstracted. Paths, commands and hosts are values; rule lists are sets
(their order shows only in evidence text); an event keeps its kind, its process
and the field its rule reads; a timestamp keeps whole seconds as its text;
latency samples are counted; the broadcast channel is the sequence of all
messages, of which a receiver can still get the last `STREAM_CAPACITY`. Tokens are cut in
`TICKS_PER_SEC` parts, which makes the refill exact; the code's f64 rounding is
left out. Poisoned locks are recovered by the code everywhere and have no
effect. A record is good, malformed or too long for its slot.

How `Dashboard` corresponds to the code. `EVENTS` and `VIOLATIONS` are the
page's variables. A poll (`polls[i]`) is one activation of `poll()`: its two
requests that matter are answered each at its own moment, `SetEvents` is the
code up to the await of the violations' body, `SetViolations` the rest, and
`PollFails` the catch block. `setInterval` starts polls without waiting for the
last one, so several are in flight. `rx` is the receiver `get_stream` made: it
starts at the tail (`Connect`), skips what was overwritten (`NextMessage`;
`get_stream` filters the `Lagged` error out) and is lost with the connection.
`Sorted` is the stable sort of
`Array.prototype.sort`, said by its result: the one rearrangement in which
nothing comes before what it follows. In `Readers`, `get_events` is said by
positions (`Nth`): entry k of a page is the k-th entry of the ring that passes
the filter. A client only reads, so the clients cannot
disturb each other and a behaviour has one of the two. `VIOLATIONS` is what the
page holds; which of them it draws is not modelled.

How `Scraper` corresponds to the code. The counters of `Metrics` are separate
atomics, incremented and loaded with `Ordering::Relaxed`. Rust orders such
operations only atomic by atomic: the increments of one counter have one order,
whose latest value is `metrics` in `Ingest`, and a reader does not go back in
it. Nothing else is promised, so `Load` takes any value from the last one seen
(`scrape`) to the present one, which includes severity classes ahead of the
total and loads that take effect in any order. The one thing that orders is the
mutex of the latency samples: a caller that leaves it publishes its own
`inc_events` (`counted`, `released`), and whoever locks it next has seen that
(`visible`). The lock is after the loads in the code, but a relaxed load may be
delayed past it, so `Lock` is free to come at any place of a scrape; it binds
the next scrape, which the same connection's task makes after it. What callers
learn of each other through other locks is left out, which gives the scraper
more freedom than it has. The two counters of the source are not part of it,
and neither are the page's own overlapping requests for the metrics.

How the text functions are modelled. A character is a symbol; `"C"` and `"c"`
are the ASCII letters, `"E"` and `"e"` the others, which only the page's
`toLowerCase` folds. A glob and a text are what `split('/')` makes of them. A
host rule or a destination is what the parsers make of it: a network with a
prefix length, an address, or text; a network keeps its own text, as which it is
compared with a destination that is no address. The mark `<truncated>` is one symbol. A
record is one a probe can make (`IsRecord`): `main.rs` writes `path_truncated`
only beside a path. Loops and recursions are written as recursive functions,
least members of a set, or results (`Undotted` drops as many `./` as lead), so
that they can be reasoned about; only `ProcessForest` has RECURSIVE operators,
over its trees.

## Runs

| run | instance | shows |
| --- | --- | --- |
| `ingest` | drain task + 1 handler, 2 events, batches up to 2, 2 rule sets with rates 2 and 1, rings of 1, 2 instants | counters and replies balance, rules were in force, numbers, eviction, alerts, stream order, process table; the pipeline implements `AuditTrail` |
| `readers` | 1 caller, 4 events, rings of 2, page size 1, wall clock 0 or 4 | a cursor walk under eviction gets everything; times never go back; the latest exec wins |
| `readers_concurrent` | 2 callers, 2 events | **violated**: the walk loses an event |
| `rate_limiter` | 2 callers, rates 0, 1, 2, 3 ticks a second, 10 instants | bounded bursts in order, no starvation in any order |
| `rate_limiter_stale` | the same | **violated**: a stale reading exceeds the burst |
| `monotonic_clock` | 2 threads, 3 calls, counter up to 5, readings 0, 3, 4 | timestamps increase, up to saturation; every call returns |
| `serve` | kernel or simulated source, 2 processors, ring of 2, channel of 1, 3 records, 1 connection | nothing lost in transit, counters agree, deaths are reported, records delivered, shutdown completes |
| `serve_timeout` | 1 processor, ring and channel of 1, 2 records | **violated**: serve leaves without a signal |
| `dashboard` | 1 caller, 2 denied execs, 2 polls in flight, a stream that keeps 1 message, a page of 2 events and a feed of 1 | events in order and unique, the feed settles on the newest |
| `dashboard_timeline` | a page of 1 event beside a ring of 2 | **violated**: the timeline goes back to the oldest page |
| `scraper` | 1 caller, 3 events of which the rate admits 2, critical and "medium" violations, 2 latency samples | a histogram is backed by the next scrape's total; scrapes of an idle pipeline come to be exact |
| `reference` | patterns and texts up to 3 segments, paths up to 10 characters, addresses of 3 and 2 bits with every prefix length and one beyond, process tables up to 4, passes of one round of the task ids, corpora up to 4 lines, a record of each kind with and without its evidence (module `MCReference`, over `ForestReference`) | the functions compute what they should on all 129 000 inputs |

Why the bounds are enough. Two callers are the least that race; each property
about them relates two calls, and a third would only repeat the same pairs. The
rings are smaller than the number of events, so that they evict; 2 rule sets with
different rates and denials make a replaced policy visible in both the bucket
and the alerts; a rate of 1 with two instants makes the bucket shed and refill.
The clock's counter tops out below the number of calls, so saturation happens.
Ring and channel of the collector are smaller than the number of records, so
both fill. The page's cap and feed are smaller than what the server stores, the
stream keeps fewer messages than are sent, and two polls are the least that can
overtake each other. A feed of one tells the newest violation from the others;
that longer answers are in order is `RingsInSeqOrder`. One ingest caller is
enough for relaxed loads to disagree in every way they can about one another;
for more of them there is `SamplesAreBacked`. In `reference`, three segments are enough for a `**` with
something on both sides and for two of them; the address widths include a shift
by the whole width and by nothing; four processes make every shape of tree and
cycle with something hanging off it; a network's text is tried against host
names, one that reads like a network included. There are 65 296 task ids instead
of 2^32, so that the last pass of a round has the same offset below the wrap,
296, and its sums wrap while its offset does not (after five months with 2^32).
Passes are compared up to one round apart, including some that straddle the
wrap and one that gives a process the id 1.
`MaxEvents`, `MaxBatch`, `MaxTick`, `MaxCalls`, `MaxRecords`,
`MaxOpen` and `Polls` are the only bounds the code does not have; each guards one action.

No symmetry is used: the drain task and the handlers differ, and the liveness
properties would not allow it.

Deadlock is checked except in `monotonic_clock`, `serve` and `serve_timeout`: there the modelled process really ends (all calls made, or
`main` returned).

### Fairness

- `Ingest`: weak fairness of each caller's steps. A call runs on a worker thread
  without awaiting, holds at most one lock at a time and each only for a block,
  so it always goes on.
- `Readers`: the client keeps asking while there is something after its cursor.
- `MonotonicClock`: weak fairness of load and retry; strong fairness of a
  successful exchange, that is, hardware does not fail a
  `compare_exchange_weak` for ever that could succeed infinitely often.
- `Dashboard`: the timer keeps starting polls, a poll under way is answered or
  fails, the browser connects again and handles what arrives; and from some time
  on polls succeed (`PollsComeToSucceed`), since a page that cannot reach its
  server can show nothing new. Breaking connections stay free.
- `Scraper`: the scraper asks again and again, and an atomic that is loaded
  infinitely often is infinitely often loaded as it is (`LoadLatest`): the
  language asks that stores become visible to other threads in finite time.
- `Serve`: the runtime polls ready tasks, `main` included, and a probe that
  reserved a slot finishes (eBPF programs terminate). Clients, signals and
  panics are not obliged to happen. Time need not pass either, except in
  `ShutdownCompletes`, which assumes it: otherwise the unconditional timeout of
  the server would make every other promise true by ending it.

### Where code and documentation disagree

1. **Paging loses events** (`readers_concurrent`). The number is claimed with
   `fetch_add` before the ring is locked. Caller A takes 0, caller B takes 1 and
   pushes; a client reads page `[1]` and goes on after 1; A pushes 0, which the
   client never sees. `get_events` promises a walk of the whole ring.
2. **The burst can be exceeded** (`rate_limiter_stale`). `ingest` reads the
   clock, then locks the bucket, and `try_acquire` stores the reading even when
   it is older than the last: the interval between the two is credited twice.
   With readings in order the bound is proved (`BurstIsBounded`).
3. **serve exits 30 s after it starts** (`serve_timeout`). The timeout wraps
   the server, not the drain.
4. **The timeline shows the oldest events** (`dashboard_timeline`). The page's
   poll sends no cursor, `get_events` then answers with the oldest page of the
   ring, and the page replaces by it what the stream had pushed. With more than
   400 events in the ring the network map and the timeline fall back to the
   oldest 400 every two seconds.

Met while modelling, without a run of their own:

- `index.html:210` says the highlighting of hosts "must never drift" from the
  server's evaluation; `hostClass` uses the glob matcher only, so a CIDR rule,
  which the engine honours, colours nothing. The highlighting of paths agrees
  (`VerdictsFromEvidence`), except for letters outside ASCII, which
  `toLowerCase` folds and `to_ascii_lowercase` does not ("byte-consistent with
  Rust").
- The table at `events.rs:126` says that secret globs and host rules cannot
  match an empty text, the sentinel for missing evidence. The patterns `*` and
  `**` do; `VerdictsFromEvidence` shows that only such patterns can.
- Between two polls a violation can be in the page's feed twice: pushed ones
  are not compared with those a poll brought. And of the violations it holds it
  draws the first 60 (`index.html:417`): the oldest after a poll, whose answer
  ascends, the newest after a push, which sorts them the other way round.
- `sim.rs:5` says each pass has "fresh task ids". Within one round of the ids
  that is so (`PassesStayApart`), beyond it passes can meet: the ids of a pass
  are 1000 apart from the last one's, modulo 2^32, and some millions of passes
  later an offset falls among the ids of an earlier pass. A sum can also wrap to
  the id 1, the parent of the scenario's shell, which then is its own ancestor
  and drops out of the forest. A debug build panics at the first sum that wraps.
- A process whose recorded parents lead round in a circle is in no tree of
  `/v1/processes` (`ForestShowsEveryTree` says so exactly).
- The replay summary counts what the violation ring kept, at most
  `VIOLATION_CAP`.

## Proofs

TLAPS proves, for every value of the constants, every safety property the
passing runs check but two, `ForestShowsEveryTree` and `PassesStayApart`.

**`IngestProofs`**, for any number of callers:

- `IngestTypeCorrect`: `TypeOK`. It is not inductive: that the
  tail of a batch, the head of the violations left, or a stored number exists
  depends on where the caller is, and that `size - accepted` is natural on how
  many events are left. `IngestInv` adds, per caller, what its label implies
  (`Sound`): an event and a clock reading in hand from `rules` on, a number from
  `store` on, a violation left while alerting, and accepted + left <= size.
- `RulesAreCurrent`, `NumbersAreUnique`, `RingsKeepNewest`, from `IngestInv` and
  one more invariant each. `RulesInv`: while a caller holds an event, the rule
  set in force is among those noted since its call began, which is why reading
  it once is enough. `SeqInv`: element by element, the numbers below `next_seq`
  are those of the history and those of callers about to store, none twice.
  `RingsInv`: each ring equals the newest part of its history, kept by one push
  (`PushKeepsNewest`). The lemma `OtherSteps` says which steps write none of
  this, so each proof looks at the writers only.

**`IngestHistoryProofs`**, for any number of callers:

- `CountersAreExact`. `CountersInv` is an equation per counter: it is its
  history plus the number of callers between the two (`Count`). `CountFollows`
  says how that number moves with one caller, and `StepTallies` lists, step by
  step, what is added where; the rest is arithmetic.
- `BooksAreBalanced`. A sum over callers is not available to the provers without
  an induction, so `Total(f)` is the cardinality of a set of units, `f[c]` of
  them for caller c, and `TotalFollows` moves it with one caller. `BooksInv`
  then balances offered, accepted, refused and what is under way.
- `ProcessTableFollowsTrail`. `ProcessInv`: every stored exec, and every one on
  its way to the ring, has a record; every record comes from one of them.
- `StreamIsOrdered`, `AlertsAreDemanded`. `TrailInv` has four parts:
  `CallersInv`, what a caller relies on between storing its event and announcing
  it (it is entered with its rules, nothing of it has been announced, its
  violation is not raised before `vpush` nor told before `vsend`, nobody else
  works on its number); `RaisedInv`, `EnteredInv` and `StreamInv`, the same seen
  from the violations, the history and the stream. The parts need each other:
  that an event is announced once follows from its caller's standing, and that
  the standing survives other callers from the uniqueness of numbers.
- `PipelineImplementsTrail`: the refinement. `StoreEvent`, `PushViolation`,
  `SendViolation` and `SendEvent` are each a step of `AuditTrail`
  (`StoreImplements` and so on, from `TrailInv`); every other step stutters.

**`ServeProofs`**, for any number of processors, ring, channel and records:

- `ServeTypeCorrect`, `DeadSourceStaysDown`, `StatsAreExact`,
  `TransitIsLossless`, from one invariant `ServeInv`. `RingInv` places the ring
  in the history of reservations: what left it is a prefix. `CountInv` and
  `DroppedInv` count that prefix, with the event in hand counted before it is
  sent. `TransitInv` says that what was ingested followed by what is queued is
  exactly the good part of the prefix, in order. `StageInv` orders the start of
  the tasks, which is why the source cannot be marked up after its death.

**`ClientProofs`**:

- `SamplesAreBacked`, for any number of callers and any staleness of the loads.
  `PublishInv`: every count that is not published yet belongs to a caller between
  `inc_events` and the end of its call, and samples and such callers together
  are no more than the events counted; so, by counting, the samples are no more
  than what is published (`SamplesArePublished`), although callers overtake each
  other in between. `RenderInv`: what a lock made visible stays a lower bound of
  the event total this scraper sees.
- `RingsAscend`, `TimesNeverGoBack`, `LatestExecIsShown`, `WalkIsComplete`,
  `TimelineAscends`, under `Handlers = {}`: the drain task is the only caller.
  The hypothesis is the deployment of `serve` without POST clients, and it is
  needed: with a second caller a number is claimed before the ring is locked,
  and the run `readers_concurrent` shows the walk losing an event. `OrderInv`:
  the n-th stored event has number n - 1, and violations follow the order of
  their events. `TimeInv`: no stored time is later than the clock's text.
  `ExecInv`: the record of a process is its exec under way or else its latest.
  `WalkInv`: the cursor is not ahead of the trail, and nothing behind it was
  passed over; the lemmas on `Place` (how many positions that passed the filter
  are up to this one) and `Nth` say what a page is made of (`PageIs`).
  `PageInv`: what the page shows, and what each poll in flight brings, ascends,
  keeps the cap and is on record; a pushed event has a place in it
  (`InsertionSorts`, `PushedIs`), for any number of polls and any loss.

**`ReferenceProofs`**, for inputs of any length over any characters. A behaviour
is one input that does not change, so each theorem is a statement about
functions; the work is in the lemmas.

- `GlobsAgree`. The matchers are recursive functions, and the reference is the
  existence of an alignment. `CutStep` gives the recursion equation of
  alignments; `TableIsCut`: whatever satisfies the matcher's equation agrees
  with them. That the equation has a solution at all, without which a recursive
  function is any value, is shown by exhibiting the one made of alignments
  (`CellsExist` for the engine's slices, `PlacesExist` for the page's
  positions). Two levels, characters and segments, go through the same lemmas.
- `PathsHaveOneForm`. The normal form is a suffix of the path with one kind of
  separator (`StrippedIsEnd`, `NormalForm`); behind any stripped prefix it is
  that of the rest (`LeadingDots`, `BehindPrefix`); `BasenameIsLast`.
- `ReplaysAddUp`. `Accounted` relates the counters after i lines to the numbers
  of lines of each kind among the first i (`LineAccounted` takes it over one
  line); `BagAddsUp`: the counts by rule sum to the length of the ring.
- `VerdictsFollow`, across the kernel record, the normal form, the matchers and
  the engine. Networks: `MaskKeepsPrefix`, two addresses are equal under the
  mask of length n exactly when their first n bits are, for every width,
  n = 0 included. Opens: the mark of a cut path survives the normal form
  (`NormalEnd`), ends the last segment (`SplitLast`), and a segment without
  wildcards ends as what it matches (`LastSegments`, `LiteralLast`); the
  sentinel of an unread path or address, one empty segment, is matched by
  wildcards only (`EmptyText`). Commands: there is one last component
  (`LastIsUnique`).

The library's induction takes an operator as a parameter, which the provers
cannot instantiate; here the induction runs over a set of numbers
(`SetInduction`), from the fact that a non-empty one has a least member
(`Smallest`). Assumed are the shapes of the inputs (`CasesAssumption`): texts
are sequences of sequences of `Char`, a glob has a segment, and a record holds
at most one value per field and no mark without a path; `Char` itself is any
set.

**`RateLimiterProofs`, `MonotonicClockProofs`**:

- `LimiterTypeCorrect`, `BurstIsBounded`, `NeverStarved`. The bound needs
  `BurstInv`: what was granted in the window *plus the balance* stays within the
  budget up to the bucket's last reading. Starvation needs `ShedInv`: since the
  last grant the bucket gained a part a tick, or holds a token; it does not
  depend on the order of the readings.
- `ClockTypeCorrect`, `ClockIncreases`, `LoopIsAtomic`. The invariant: every
  emitted timestamp is at most `last_emitted`, and a thread's idea of it is
  never ahead.

The theorems assume only the named ASSUMEs of the modules (capacities and rates are
natural numbers, capacities positive, events of the four kinds), which TLC
evaluates on the runs' instances. The bounds (`MaxEvents` and so on) are
arbitrary naturals in the theorems. No proof uses fairness: `SafeSpec` is
`Ingest` without it, and the readers, the page and the scraper are shown to run it
(`ReaderRunsPipeline`, `DashRunsPipeline`, `ScraperRunsPipeline`).

Only model-checked:

- the liveness properties (`CallsReturn`, `WalkReachesEvery`,
  `SourceDeathReported`, `PipelineDeathReported`, `RecordsDelivered`,
  `ShutdownCompletes`, `FeedSettlesOnNewest`, `ScrapesSettle`): the prover does not treat
  fairness;
- `ForestShowsEveryTree` and `PassesStayApart`: building and reading a forest
  recurses over trees, which have no bound to count down from in the model; they
  stay RECURSIVE operators, which the provers do not take.

## Not modelled, and the plan

Not modelled, and why:

- `civil_from_days`: calendar arithmetic without state, on numbers far beyond
  what TLC enumerates; a timestamp keeps whole seconds here.
- The bytes of a probe's record (the JSON writer of `bpf/asg-ebpf`, the padding
  `decode_record` cuts off, JSON parsing): whether a record decodes is a free
  choice in `Collector`, and `KernelRecord` begins with a decoded one.
- HTTP routing and JSON, tracing, the benchmark binary, the page's drawing and
  its policy editor.
- Two assumptions about libraries are built in: `RingBuf::next` returns records
  in reservation order, skipping discarded ones; and the probes stay attached
  while the poll loop runs. The second deserves a look: `linux::start` drops its
  `aya::Ebpf` handle when it returns, and only the ring buffer map is moved into
  the poll loop.

What is left: statements beyond the runs' invariants that the same invariants
carry, such as action properties of the trail (no step removes or renumbers an
entry, a violation's time is never rewritten), and a form of `ProcessForest`
whose recursion counts down the length of a chain of parents, which the method
of `ReferenceProofs` would then reach.
