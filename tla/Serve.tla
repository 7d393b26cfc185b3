-------------------------------- MODULE Serve -------------------------------
(***************************************************************************)
(* The serve command (asg-cli serve): starting the source, the task that   *)
(* watches it, the drain task and the HTTP server, the readiness probe     *)
(* (healthz) that reports on them, and shutting down.                      *)
(***************************************************************************)
EXTENDS Collector

CONSTANTS
    SHUTDOWN_DRAIN_TIMEOUT,  \* in ticks
    MaxOpen                  \* bound: connections, of both sorts, open at once

ASSUME ServeAssumption ==
    SHUTDOWN_DRAIN_TIMEOUT \in Nat \ {0} /\ MaxOpen \in Nat

VARIABLES
    main,          \* where serve() is
    source_alive,  \* AppState.source_alive
    watcher,       \* the task awaiting the source: "unspawned", "running", "done"
    signalled,     \* Ctrl+C or SIGTERM was received
    elapsed,       \* ticks since the timeout around the server was armed
    waited,        \* history: ticks since the signal
    requests,      \* plain requests in flight
    streams        \* SSE connections, open until the client leaves

serveVars == << main, source_alive, watcher, signalled, elapsed, waited,
                requests, streams >>
vars == << collectorVars, serveVars >>

Init ==
    /\ CollectorInit
    /\ main = "start" /\ source_alive = FALSE /\ watcher = "unspawned"
    /\ signalled = FALSE /\ elapsed = 0 /\ waited = 0
    /\ requests = 0 /\ streams = 0

----------------------------------------------------------------------------
(* Startup, in the order of the code *)

(* asg_collector::start spawns the simulator, which cannot fail, or the    *)
(* poll loop; when the probes do not load, serve returns.                  *)
StartSource ==
    /\ main = "start"
    /\ \/ main' = "mark"
          /\ poll' = IF mode = "kernel" THEN "check" ELSE "script"
       \/ mode = "kernel" /\ main' = "exited" /\ poll' = poll
    /\ UNCHANGED << mode, drained, stats, kernelVars, chanVars, source_alive, watcher,
                    signalled, elapsed, waited, requests, streams >>

MarkAlive ==
    /\ main = "mark"
    /\ source_alive' = TRUE
    /\ main' = "watch"
    /\ UNCHANGED << collectorVars, watcher, signalled, elapsed, waited,
                    requests, streams >>

(* Mutant: nobody awaits the source task. *)
SpawnNothing ==
    /\ main = "watch"
    /\ main' = "drain"
    /\ UNCHANGED << collectorVars, source_alive, watcher, signalled, elapsed,
                    waited, requests, streams >>

SpawnWatcher ==
    /\ main = "watch"
    /\ watcher' = "running"
    /\ main' = "drain"
    /\ UNCHANGED << collectorVars, source_alive, signalled, elapsed, waited,
                    requests, streams >>

SpawnDrain ==
    /\ main = "drain"
    /\ drainer' = "running"
    /\ main' = "bind"
    /\ UNCHANGED << mode, chan, sent, handled, kernelVars, pollVars,
                    source_alive, watcher, signalled, elapsed, waited, requests, streams >>

Bind ==
    /\ main = "bind"
    /\ main' \in {"serving", "exited"}
    /\ UNCHANGED << collectorVars, source_alive, watcher, signalled, elapsed,
                    waited, requests, streams >>

(* Mutant: the watcher is spawned first and the source marked up later. *)
WatchFirst ==
    /\ watcher \in {"unspawned", "running"} /\ poll = "done"
    /\ source_alive' = FALSE
    /\ watcher' = "done"
    /\ UNCHANGED << collectorVars, main, signalled, elapsed, waited, requests,
                    streams >>

(* The watcher: any exit of the source task marks it down. *)
Watch ==
    /\ watcher = "running" /\ poll = "done"
    /\ source_alive' = FALSE
    /\ watcher' = "done"
    /\ UNCHANGED << collectorVars, main, signalled, elapsed, waited, requests,
                    streams >>

----------------------------------------------------------------------------
(* The server and its end *)

Serving == main = "serving"

(* with_graceful_shutdown: after the signal nothing new is accepted. *)
Accept ==
    /\ Serving /\ ~signalled
    /\ requests + streams < MaxOpen
    /\ \/ requests' = requests + 1 /\ streams' = streams
       \/ streams' = streams + 1 /\ requests' = requests
    /\ UNCHANGED << collectorVars, main, source_alive, watcher, signalled,
                    elapsed, waited >>

Answer ==
    /\ Serving /\ requests > 0
    /\ requests' = requests - 1
    /\ UNCHANGED << collectorVars, main, source_alive, watcher, signalled,
                    elapsed, waited, streams >>

Disconnect ==
    /\ Serving /\ streams > 0
    /\ streams' = streams - 1
    /\ UNCHANGED << collectorVars, main, source_alive, watcher, signalled,
                    elapsed, waited, requests >>

Signal ==
    /\ Serving /\ ~signalled
    /\ signalled' = TRUE
    /\ UNCHANGED << collectorVars, main, source_alive, watcher, elapsed, waited,
                    requests, streams >>

(* The server future resolves once nothing is in flight. *)
Drained ==
    /\ Serving /\ signalled /\ requests = 0 /\ streams = 0
    /\ main' = "closing"
    /\ UNCHANGED << collectorVars, source_alive, watcher, signalled, elapsed,
                    waited, requests, streams >>

Tick ==
    /\ Serving /\ elapsed < SHUTDOWN_DRAIN_TIMEOUT
    /\ elapsed' = elapsed + 1
    /\ waited' = waited + (IF signalled THEN 1 ELSE 0)
    /\ UNCHANGED << collectorVars, main, source_alive, watcher, signalled,
                    requests, streams >>

(* Mutant: the deadline is never reached. *)
NoTimeout == FALSE /\ UNCHANGED vars

(* tokio::time::timeout(SHUTDOWN_DRAIN_TIMEOUT, server): the clock starts  *)
(* with the server.                                                        *)
TimeoutFires ==
    /\ Serving /\ elapsed >= SHUTDOWN_DRAIN_TIMEOUT
    /\ main' = "closing"
    /\ UNCHANGED << collectorVars, source_alive, watcher, signalled, elapsed,
                    waited, requests, streams >>

(* set_source_alive(false), and main returns: the runtime stops all tasks. *)
Exit ==
    /\ main = "closing"
    /\ source_alive' = FALSE
    /\ main' = "exited"
    /\ UNCHANGED << collectorVars, watcher, signalled, elapsed, waited, requests,
                    streams >>

MainStep == \/ StartSource \/ MarkAlive \/ SpawnWatcher \/ SpawnDrain \/ Bind
            \/ Drained \/ TimeoutFires \/ Exit

Next ==
    \/ MainStep \/ Accept \/ Answer \/ Disconnect \/ Signal \/ Tick
    \/ main # "exited" /\ Watch
    \/ main # "exited" /\ CollectorNext /\ UNCHANGED serveVars

(* Tasks the runtime polls, and probes that run to completion.  Nothing    *)
(* obliges a client to leave, a signal to come or a task to panic; and     *)
(* time is not obliged to pass, so that what follows is shown within a     *)
(* server's life of any length and not because the server ends.            *)
Fairness ==
    LET running(A) == main # "exited" /\ A /\ UNCHANGED serveVars
    IN  /\ WF_vars(MainStep)
        /\ WF_vars(main # "exited" /\ Watch)
        /\ WF_vars(running(SourceStep)) /\ WF_vars(running(DrainStep))
        /\ \A p \in Cpus : WF_vars(running(Finish(p)))

Spec == Init /\ [][Next]_vars /\ Fairness

----------------------------------------------------------------------------
(* Properties *)

(* The readiness probe; "ok" is 200, "degraded" is 503. *)
source_dropping_all_records ==
    stats.dropped_malformed > 0 /\ stats.ingested = 0

healthz ==
    IF source_alive /\ ~source_dropping_all_records THEN "ok" ELSE "degraded"

(* Every variable of the collector and of serve has its type, with the     *)
(* channel and the ring buffer within their capacities.                    *)
ServeTypeOK ==
    /\ CollectorTypeOK
    /\ main \in {"start", "mark", "watch", "drain", "bind", "serving",
                 "closing", "exited"}
    /\ source_alive \in BOOLEAN /\ signalled \in BOOLEAN
    /\ watcher \in {"unspawned", "running", "done"}
    /\ elapsed \in 0 .. SHUTDOWN_DRAIN_TIMEOUT
    /\ waited \in 0 .. elapsed
    /\ requests \in 0 .. MaxOpen /\ streams \in 0 .. MaxOpen

(* A source that died is never reported up again, however early it died:   *)
(* nothing marks it up after its watcher marked it down.                   *)
DeadStaysDown == watcher = "done" => ~source_alive

(* When the source task ends, for any reason, a running server's readiness *)
(* probe comes to report it.                                               *)
SourceDeathReported ==
    (Serving /\ poll = "done") ~> (healthz = "degraded" \/ main = "exited")

(* When the drain task dies, the source notices that nobody receives, ends *)
(* and is reported too: the poll loop even if no record ever arrives       *)
(* again, the simulator at its next send.                                  *)
PipelineDeathReported ==
    (drainer = "done") ~> (healthz = "degraded" \/ main = "exited")

(* While serve runs and no task dies, ingest catches up with the source:   *)
(* every decodable record that got a slot, or that the simulator sent, is  *)
(* ingested, in order, even when the channel or the ring was full          *)
(* meanwhile.  (Finitely many records are produced in a behaviour.)        *)
RecordsDelivered ==
    []<>(\/ handled = Good(reserved)
         \/ poll = "done" \/ drainer = "done" \/ main = "exited")

(* As long as time passes, a signal ends the process, although a stream    *)
(* may stay open for ever.                                                 *)
ShutdownCompletes == WF_vars(Tick) => (signalled ~> (main = "exited"))

(* serve waits SHUTDOWN_DRAIN_TIMEOUT after a signal before it gives up on *)
(* the connections still open, and without a signal it does not leave.     *)
LeavesOnlyAfterSignal ==
    main = "closing" => /\ signalled
                        /\ \/ requests = 0 /\ streams = 0
                           \/ waited >= SHUTDOWN_DRAIN_TIMEOUT
=============================================================================
