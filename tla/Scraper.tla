------------------------------- MODULE Scraper ------------------------------
(***************************************************************************)
(* A scraper of GET /api/metrics (Metrics::render) beside the pipeline.    *)
(* Every counter is an atomic that is incremented and loaded with          *)
(* Ordering::Relaxed.  So the increments of one counter have one order,    *)
(* which metrics has in Ingest, and a reader never goes back in it; but    *)
(* nothing orders what it sees of two counters, and a load may return any  *)
(* value the counter has had since the one the reader saw last.  What      *)
(* orders is the mutex of the latency samples: whoever locks it sees what  *)
(* the callers that unlocked it before had counted.  Counts that a caller  *)
(* learnt of through other locks are left out, so a scraper sees less here *)
(* than it does in the code.  Scrapes come one after the other on one      *)
(* connection, whose task orders them.                                     *)
(***************************************************************************)
EXTENDS Ingest

VARIABLES
    counted,    \* per caller: the count its inc_events made, until published
    released,   \* the highest such count published by unlocking the mutex
    (* the scrape under way *)
    loaded,     \* how many of the atomics were loaded
    locked,     \* whether the samples were read, under their lock
    visible,    \* what was published when they were
    scrape,     \* the last value seen of every counter
    histogram   \* the samples shown by the last complete scrape

renderVars  == << loaded, locked, visible, scrape, histogram >>
scraperVars == << vars, counted, released, renderVars >>

ScraperInit ==
    /\ Init
    /\ counted = [c \in Callers |-> 0] /\ released = 0
    /\ loaded = 0 /\ locked = FALSE /\ visible = 0 /\ histogram = 0
    /\ scrape = metrics

----------------------------------------------------------------------------
(* inc_events, and the mutex in observe_ingest_latency_ms *)

Leaves(c, label) == pc[c] = label /\ pc'[c] # label

Pipeline ==
    /\ Next
    /\ counted' = [c \in Callers |-> IF Leaves(c, "count") THEN metrics'.events
                                     ELSE IF Leaves(c, "observe") THEN 0
                                     ELSE counted[c]]
    /\ released' = Max({released} \cup
                       {counted[c] : c \in {d \in Callers : Leaves(d, "observe")}})
    /\ UNCHANGED renderVars

----------------------------------------------------------------------------
(* Metrics::render *)

Atomics == << "events", "dropped", "violations", "critical", "warn" >>

Complete == loaded = Len(Atomics) /\ locked

(* The next atomic is loaded: any value since the one seen last.  Loads of *)
(* different atomics in another order come to the same.                    *)
Load(value) ==
    LET name == Atomics[loaded + 1]
    IN  /\ value \in scrape[name] .. metrics[name]
        /\ scrape' = [scrape EXCEPT ![name] = value]
        /\ loaded' = loaded + 1
        /\ UNCHANGED << vars, counted, released, locked, visible, histogram >>

LoadAny ==
    /\ loaded < Len(Atomics)
    /\ \E value \in 0 .. metrics[Atomics[loaded + 1]] : Load(value)

LoadLatest(k) == loaded = k - 1 /\ Load(metrics[Atomics[k]])

(* Mutant: the samples are counted by an atomic like the others. *)
NothingPublished == 0

Published == released

(* The lock comes after the loads in the code, but only keeps what follows *)
(* it from moving before it: a load may be delayed past it.  That it is    *)
(* held until the text is made only puts the callers off.                  *)
Lock ==
    /\ ~locked
    /\ locked' = TRUE /\ visible' = Published
    /\ scrape' = [scrape EXCEPT !.samples = metrics.samples]
    /\ UNCHANGED << vars, counted, released, loaded, histogram >>

(* The text goes out.  What the lock made visible binds the next scrape. *)
NextScrape ==
    /\ Complete
    /\ loaded' = 0 /\ locked' = FALSE /\ visible' = 0
    /\ scrape' = [scrape EXCEPT !.events = Max({@, visible})]
    /\ histogram' = scrape.samples
    /\ UNCHANGED << vars, counted, released >>

render == LoadAny \/ Lock \/ NextScrape

ScraperNext == Pipeline \/ render

(* The scraper asks again and again, and an atomic that is loaded again    *)
(* and again is some time loaded as it is: a store becomes visible to the  *)
(* loads of other threads after finite time.                               *)
ScraperSpec ==
    /\ ScraperInit /\ [][ScraperNext]_scraperVars
    /\ \A c \in Callers : WF_scraperVars(Step(c) /\ Pipeline)
    /\ WF_scraperVars(render)
    /\ \A k \in DOMAIN Atomics : SF_scraperVars(LoadLatest(k))

----------------------------------------------------------------------------
(* Properties *)

(* A histogram never shows more samples than the event total of the next   *)
(* scrape, although the total may lag behind and classes may run ahead of  *)
(* it: every sample is observed after its event was counted, and the lock  *)
(* that shows the sample also shows the count.                             *)
HistogramIsBacked == loaded > 0 => histogram <= scrape.events

(* Every call ends, and however stale single loads are, the scrapes come   *)
(* to be exact: the severity classes add up to the violations raised, and  *)
(* stored and shed events to those offered.                                *)
ScrapesSettle ==
    LET exact == /\ scrape.events = Len(log)
                 /\ scrape.events + scrape.dropped = offered
                 /\ scrape.violations = Len(vlog)
                 /\ scrape.critical + scrape.warn = scrape.violations
                 /\ scrape.samples = AtMost(Len(log), LATENCY_SAMPLE_CAP)
    IN  []<>Complete /\ <>[](Complete => exact)
=============================================================================
