------------------------------- MODULE Ingest -------------------------------
(***************************************************************************)
(* The ingest pipeline (asg-api ingest / ingest_at) and the shared state   *)
(* it fills (AppState, Metrics), run by several callers at once: the task  *)
(* that drains the collector's channel, and one handler per POST           *)
(* /v1/events request.  Every access to shared state (a lock held for one  *)
(* block, an atomic operation, a broadcast send) is a step of its own.     *)
(***************************************************************************)
EXTENDS Policy, RateBucket, EventClock, FiniteSets, SequencesExt

CONSTANTS
    Drain,          \* the pipe::drain task
    Handlers,       \* concurrent POST /v1/events requests
    Events,         \* events a source or a client can produce
    RuleSets,       \* rule sets a client can PUT
    InitialRules,   \* the rule set AppState::new receives
    EVENT_CAP,      \* capacity of the event ring
    VIOLATION_CAP,  \* capacity of the violation ring
    LATENCY_SAMPLE_CAP,
    WallReadings,   \* values SystemTime::now can return; it may go back
    MaxEvents,      \* bound: events offered to the pipeline in a behaviour
    MaxBatch,       \* bound: events in one request
    MaxTick         \* bound: the last instant of the monotonic clock

Callers == Handlers \cup {Drain}

ASSUME IngestAssumption ==
    /\ IsFiniteSet(Callers)
    /\ InitialRules \in RuleSets
    /\ EVENT_CAP \in Nat \ {0}
    /\ VIOLATION_CAP \in Nat \ {0}
    /\ LATENCY_SAMPLE_CAP \in Nat \ {0}
    /\ WallReadings \subseteq U64
    /\ MaxEvents \in Nat /\ MaxBatch \in Nat /\ MaxTick \in Nat

(* serde accepts only these four kinds of event, and a u32 rate. *)
ASSUME InputAssumption ==
    /\ \A e \in Events :
          e.type \in {"proc_exec", "file_open", "net_connect", "cap_escalate"}
    /\ \A r \in RuleSets : r.max_events_per_sec \in Nat

VARIABLES
    (* AppState *)
    events,        \* ring of stored events, oldest first
    processes,     \* tgid -> record of an observed exec
    violations,    \* ring of stored violations, oldest first
    ruleset,       \* the rule set in force
    rate_bucket,
    next_seq,
    tx,            \* every message sent on the broadcast channel, in order
    metrics,       \* the counters of asg-api Metrics
    last_emitted,  \* static LAST_EMITTED_NS
    clock,         \* the monotonic clock Instant::now reads
    (* the calls in progress *)
    pc,            \* where each caller is
    call,          \* its local variables
    (* history, read only by the properties *)
    log,           \* every event ever stored, with the rules it met
    vlog,          \* every violation ever stored
    inForce,       \* rule sets in force since a caller began its event
    offered, acked, nacked   \* events handed in, reported stored, refused

shared  == << events, processes, violations, ruleset, rate_bucket, next_seq,
              tx, metrics, last_emitted, clock >>
history == << log, vlog, inForce, offered, acked, nacked >>
vars    == << shared, pc, call, history >>

NoSeq == -1

Idle == [batch |-> << >>, size |-> 0, accepted |-> 0, now |-> NoInstant,
         rules |-> InitialRules, seq |-> NoSeq, todo |-> << >>, stamp |-> 0]

Init ==
    /\ events = << >> /\ violations = << >> /\ tx = << >>
    /\ processes = << >>
    /\ ruleset = InitialRules
    /\ rate_bucket = new
    /\ next_seq = 0
    /\ metrics = [events |-> 0, dropped |-> 0, violations |-> 0,
                  critical |-> 0, warn |-> 0, samples |-> 0]
    /\ last_emitted = 0
    /\ clock = 0
    /\ pc = [c \in Callers |-> "idle"]
    /\ call = [c \in Callers |-> Idle]
    /\ log = << >> /\ vlog = << >>
    /\ inForce = [c \in Callers |-> {}]
    /\ offered = 0 /\ acked = 0 /\ nacked = 0

----------------------------------------------------------------------------
(* Steps of one caller c.  The event in hand is the head of its batch. *)

At(c, label) == pc[c] = label
Goto(c, label) == pc' = [pc EXCEPT ![c] = label]
event(c) == Head(call[c].batch)

(* Mutant: the ring may grow one past its capacity. *)
PushPastCap(ring, x, cap) ==
    Append(IF Len(ring) > cap THEN Tail(ring) ELSE ring, x)

(* A VecDeque kept at a capacity: the oldest entry makes room. *)
PushCapped(ring, x, cap) ==
    Append(IF Len(ring) >= cap THEN Tail(ring) ELSE ring, x)

StoredEvent(c) == [seq |-> call[c].seq, event |-> event(c)]

StoredViolation(c) ==
    [seq |-> call[c].seq, ts |-> ts_ns_to_rfc3339(call[c].stamp),
     violation |-> Head(call[c].todo)]

Begin(c, b) ==
    /\ At(c, "idle")
    /\ offered + Len(b) <= MaxEvents
    /\ call' = [call EXCEPT ![c].batch = b, ![c].size = Len(b)]
    /\ offered' = offered + Len(b)
    /\ Goto(c, "loop")
    /\ UNCHANGED << shared, log, vlog, inForce, acked, nacked >>

(* The drain task receives one event at a time. *)
DrainRecv(e) == Begin(Drain, << e >>)

(* A request whose whole body parsed; any other is refused untouched. *)
post_events(c, b) == c \in Handlers /\ Begin(c, b)

(* ingest: read the clock, before anything is locked. *)
TakeEvent(c) ==
    /\ At(c, "loop") /\ call[c].batch # << >>
    /\ call' = [call EXCEPT ![c].now = clock]
    /\ inForce' = [inForce EXCEPT ![c] = {ruleset}]
    /\ Goto(c, "rules")
    /\ UNCHANGED << shared, log, vlog, offered, acked, nacked >>

(* Mutant: the rules AppState was created with are used for ever. *)
KeepInitialRules(c) ==
    /\ At(c, "rules")
    /\ Goto(c, "acquire")
    /\ UNCHANGED << shared, call, history >>

ReadRules(c) ==
    /\ At(c, "rules")
    /\ call' = [call EXCEPT ![c].rules = ruleset]
    /\ Goto(c, "acquire")
    /\ UNCHANGED << shared, history >>

TryAcquire(c) ==
    LET rate == call[c].rules.max_events_per_sec
    IN  /\ At(c, "acquire")
        /\ rate_bucket' = try_acquire(rate_bucket, rate, call[c].now)
        /\ Goto(c, IF Grants(rate_bucket, rate, call[c].now)
                   THEN "count" ELSE "shed")
        /\ UNCHANGED << events, processes, violations, ruleset, next_seq, tx,
                        metrics, last_emitted, clock, call, history >>

(* Back to the loop of post_events (or drain) with the outcome. *)
Return(c, ok) ==
    /\ call' = [call EXCEPT ![c] =
                  [Idle EXCEPT !.batch = Tail(call[c].batch),
                               !.size = call[c].size,
                               !.accepted = call[c].accepted
                                              + (IF ok THEN 1 ELSE 0)]]
    /\ inForce' = [inForce EXCEPT ![c] = {}]
    /\ Goto(c, "loop")

(* Mutant: a shed event is reported as accepted. *)
ShedAsAccepted(c) ==
    /\ At(c, "shed")
    /\ metrics' = [metrics EXCEPT !.dropped = @ + 1]
    /\ Return(c, TRUE)
    /\ UNCHANGED << events, processes, violations, ruleset, rate_bucket,
                    next_seq, tx, last_emitted, clock,
                    log, vlog, offered, acked, nacked >>

Shed(c) ==
    /\ At(c, "shed")
    /\ metrics' = [metrics EXCEPT !.dropped = @ + 1]
    /\ Return(c, FALSE)
    /\ UNCHANGED << events, processes, violations, ruleset, rate_bucket,
                    next_seq, tx, last_emitted, clock,
                    log, vlog, offered, acked, nacked >>

(* Mutant: the process table is not updated. *)
CountOnly(c) ==
    /\ At(c, "count")
    /\ metrics' = [metrics EXCEPT !.events = @ + 1]
    /\ Goto(c, "seq")
    /\ UNCHANGED << events, processes, violations, ruleset, rate_bucket,
                    next_seq, tx, last_emitted, clock, call, history >>

CountEvent(c) ==
    /\ At(c, "count")
    /\ metrics' = [metrics EXCEPT !.events = @ + 1]
    /\ Goto(c, IF event(c).type = "proc_exec" THEN "proc" ELSE "seq")
    /\ UNCHANGED << events, processes, violations, ruleset, rate_bucket,
                    next_seq, tx, last_emitted, clock, call, history >>

(* HashMap::insert: a value already under the key is replaced. *)
Inserted(map, key, value) ==
    [k \in DOMAIN map \cup {key} |-> IF k = key THEN value ELSE map[k]]

(* Mutant: the first exec of a tgid is kept. *)
KeepFirstExec(c) ==
    /\ At(c, "proc")
    /\ processes' = IF event(c).tgid \in DOMAIN processes THEN processes
                    ELSE Inserted(processes, event(c).tgid, event(c))
    /\ Goto(c, "seq")
    /\ UNCHANGED << events, violations, ruleset, rate_bucket, next_seq, tx,
                    metrics, last_emitted, clock, call, history >>

(* A later exec of the same tgid replaces its record. *)
RecordProcess(c) ==
    /\ At(c, "proc")
    /\ processes' = Inserted(processes, event(c).tgid, event(c))
    /\ Goto(c, "seq")
    /\ UNCHANGED << events, violations, ruleset, rate_bucket, next_seq, tx,
                    metrics, last_emitted, clock, call, history >>

(* Mutant: the number is the length of the ring. *)
RingLength == Len(events)

FetchedSeq == next_seq

AssignSeq(c) ==
    /\ At(c, "seq")
    /\ call' = [call EXCEPT ![c].seq = FetchedSeq]
    /\ next_seq' = next_seq + 1
    /\ Goto(c, "store")
    /\ UNCHANGED << events, processes, violations, ruleset, rate_bucket, tx,
                    metrics, last_emitted, clock, history >>

(* Mutant: judged by the rules now in force, not by those the call read. *)
JudgedNow(c) == eval_event(event(c), ruleset)

Judged(c) == eval_event(event(c), call[c].rules)

(* Push the event, then evaluate it: eval reads only local variables. *)
StoreEvent(c) ==
    LET todo == Judged(c)
    IN  /\ At(c, "store")
        /\ events' = PushCapped(events, StoredEvent(c), EVENT_CAP)
        /\ log' = Append(log, [seq |-> call[c].seq, event |-> event(c),
                               rules |-> call[c].rules])
        /\ call' = [call EXCEPT ![c].todo = todo]
        /\ Goto(c, IF todo = << >> THEN "announce" ELSE "stamp")
        /\ UNCHANGED << processes, violations, ruleset, rate_bucket, next_seq,
                        tx, metrics, last_emitted, clock,
                        vlog, inForce, offered, acked, nacked >>

(* event_now_ns; its compare-exchange loop is the subject of a module of   *)
(* its own.                                                                *)
StampViolation(c) ==
    /\ At(c, "stamp")
    /\ \E reading \in WallReadings :
          last_emitted' = Clamped(reading, last_emitted)
    /\ call' = [call EXCEPT ![c].stamp = last_emitted']
    /\ Goto(c, "vcount")
    /\ UNCHANGED << events, processes, violations, ruleset, rate_bucket,
                    next_seq, tx, metrics, clock, history >>

(* inc_violation: the total, then the counter of the severity class. *)
CountViolation(c) ==
    /\ At(c, "vcount")
    /\ metrics' = [metrics EXCEPT !.violations = @ + 1]
    /\ Goto(c, "vclass")
    /\ UNCHANGED << events, processes, violations, ruleset, rate_bucket,
                    next_seq, tx, last_emitted, clock, call, history >>

(* Mutant: the warn counter takes "high" and leaves "medium" out. *)
ClassifyByName(c) ==
    LET severity == Head(call[c].todo).severity
    IN  /\ At(c, "vclass")
        /\ metrics' = [metrics EXCEPT
                          !.critical = @ + (IF severity = "critical" THEN 1 ELSE 0),
                          !.warn = @ + (IF severity = "high" THEN 1 ELSE 0)]
        /\ Goto(c, "vpush")
        /\ UNCHANGED << events, processes, violations, ruleset, rate_bucket,
                        next_seq, tx, last_emitted, clock, call, history >>

ClassifyViolation(c) ==
    /\ At(c, "vclass")
    /\ metrics' = IF Head(call[c].todo).severity = "critical"
                  THEN [metrics EXCEPT !.critical = @ + 1]
                  ELSE [metrics EXCEPT !.warn = @ + 1]
    /\ Goto(c, "vpush")
    /\ UNCHANGED << events, processes, violations, ruleset, rate_bucket,
                    next_seq, tx, last_emitted, clock, call, history >>

(* Mutant: the violation is stored and never broadcast. *)
PushUnsent(c) ==
    /\ At(c, "vpush")
    /\ violations' = PushCapped(violations, StoredViolation(c), VIOLATION_CAP)
    /\ vlog' = Append(vlog, StoredViolation(c))
    /\ Goto(c, "announce")
    /\ UNCHANGED << events, processes, ruleset, rate_bucket, next_seq, tx,
                    metrics, last_emitted, clock, call,
                    log, inForce, offered, acked, nacked >>

PushViolation(c) ==
    /\ At(c, "vpush")
    /\ violations' = PushCapped(violations, StoredViolation(c), VIOLATION_CAP)
    /\ vlog' = Append(vlog, StoredViolation(c))
    /\ Goto(c, "vsend")
    /\ UNCHANGED << events, processes, ruleset, rate_bucket, next_seq, tx,
                    metrics, last_emitted, clock, call,
                    log, inForce, offered, acked, nacked >>

Message(kind, stored) == [kind |-> kind, stored |-> stored]

SendViolation(c) ==
    LET rest == Tail(call[c].todo)
    IN  /\ At(c, "vsend")
        /\ tx' = Append(tx, Message("violation", StoredViolation(c)))
        /\ call' = [call EXCEPT ![c].todo = rest]
        /\ Goto(c, IF rest = << >> THEN "announce" ELSE "stamp")
        /\ UNCHANGED << events, processes, violations, ruleset, rate_bucket,
                        next_seq, metrics, last_emitted, clock, history >>

SendEvent(c) ==
    /\ At(c, "announce")
    /\ tx' = Append(tx, Message("event", StoredEvent(c)))
    /\ Goto(c, "observe")
    /\ UNCHANGED << events, processes, violations, ruleset, rate_bucket,
                    next_seq, metrics, last_emitted, clock, call, history >>

(* The sample vector is kept at its cap; only its length is modelled. *)
ObserveLatency(c) ==
    /\ At(c, "observe")
    /\ metrics' = [metrics EXCEPT !.samples = AtMost(@ + 1, LATENCY_SAMPLE_CAP)]
    /\ Return(c, TRUE)
    /\ UNCHANGED << events, processes, violations, ruleset, rate_bucket,
                    next_seq, tx, last_emitted, clock,
                    log, vlog, offered, acked, nacked >>

(* post_events answers with both counts; the drain task receives again. *)
Reply(c) ==
    /\ At(c, "loop") /\ call[c].batch = << >>
    /\ acked' = acked + call[c].accepted
    /\ nacked' = nacked + (call[c].size - call[c].accepted)
    /\ call' = [call EXCEPT ![c] = Idle]
    /\ Goto(c, "idle")
    /\ UNCHANGED << shared, log, vlog, inForce, offered >>

Step(c) ==
    \/ TakeEvent(c) \/ ReadRules(c) \/ TryAcquire(c) \/ Shed(c)
    \/ CountEvent(c) \/ RecordProcess(c) \/ AssignSeq(c) \/ StoreEvent(c)
    \/ StampViolation(c) \/ CountViolation(c) \/ ClassifyViolation(c)
    \/ PushViolation(c) \/ SendViolation(c) \/ SendEvent(c)
    \/ ObserveLatency(c) \/ Reply(c)

----------------------------------------------------------------------------
(* The environment. *)

put_policy(r) ==
    /\ ruleset' = r
    /\ inForce' = [c \in Callers |-> IF inForce[c] = {} THEN {}
                                     ELSE inForce[c] \cup {r}]
    /\ UNCHANGED << events, processes, violations, rate_bucket, next_seq, tx,
                    metrics, last_emitted, clock, pc, call,
                    log, vlog, offered, acked, nacked >>

Tick ==
    /\ clock < MaxTick
    /\ clock' = clock + 1
    /\ UNCHANGED << events, processes, violations, ruleset, rate_bucket,
                    next_seq, tx, metrics, last_emitted, pc, call, history >>

Next ==
    \/ \E c \in Callers : Step(c)
    \/ \E e \in Events : DrainRecv(e)
    \/ \E c \in Handlers, b \in BoundedSeq(Events, MaxBatch) : post_events(c, b)
    \/ \E r \in RuleSets : put_policy(r)
    \/ Tick

(* A call runs on a worker thread of the runtime without awaiting, and no  *)
(* lock is held while another is taken: every caller keeps making steps.   *)
Fairness == \A c \in Callers : WF_vars(Step(c))

Spec == Init /\ [][Next]_vars /\ Fairness
----------------------------------------------------------------------------
(* Properties *)

Labels == {"idle", "loop", "rules", "acquire", "shed", "count", "proc", "seq",
           "store", "stamp", "vcount", "vclass", "vpush", "vsend",
           "announce", "observe"}

(* Labels at which an event is stored and its call still has work to do. *)
Alerting == {"stamp", "vcount", "vclass", "vpush", "vsend"}
Pending  == Alerting \cup {"announce"}

CallersAt(labels) == {c \in Callers : pc[c] \in labels}

Stored == [seq : Nat, event : Events]
Alert  == [seq : Nat, ts : Nat, violation : Violation]
Packet == [kind : {"event"}, stored : Stored]
             \cup [kind : {"violation"}, stored : Alert]
Call   == [batch : Seq(Events), size : Nat, accepted : Nat,
           now : Nat \cup {NoInstant}, rules : RuleSets,
           seq : Nat \cup {NoSeq}, todo : Seq(Violation), stamp : U64]

Counters == [events : Nat, dropped : Nat, violations : Nat,
             critical : Nat, warn : Nat, samples : Nat]

(* Every variable has its type; in particular the bucket never goes        *)
(* negative, whichever order the callers' clock readings reach it in.      *)
TypeOK ==
    /\ events \in Seq(Stored) /\ violations \in Seq(Alert)
    /\ tx \in Seq(Packet)
    /\ DOMAIN processes \subseteq {e.tgid : e \in Events}
    /\ \A t \in DOMAIN processes : processes[t] \in Events
    /\ ruleset \in RuleSets
    /\ rate_bucket \in Bucket
    /\ next_seq \in Nat /\ clock \in Nat /\ last_emitted \in U64
    /\ metrics \in Counters
    /\ pc \in [Callers -> Labels]
    /\ call \in [Callers -> Call]
    /\ log \in Seq([seq : Nat, event : Events, rules : RuleSets])
    /\ vlog \in Seq(Alert)
    /\ inForce \in [Callers -> SUBSET RuleSets]
    /\ offered \in Nat /\ acked \in Nat /\ nacked \in Nat

(* A sequence number is given to one event only, and no number below       *)
(* next_seq is lost: each is stored or held by a caller about to store it. *)
SeqsNeverReused ==
    LET held == {call[c].seq : c \in CallersAt({"store"})}
        kept == {log[i].seq : i \in DOMAIN log}
    IN  /\ held \cup kept = 0 .. next_seq - 1
        /\ held \cap kept = {}
        /\ \A i, j \in DOMAIN log : log[i].seq = log[j].seq => i = j
        /\ \A c, d \in CallersAt({"store"}) :
              call[c].seq = call[d].seq => c = d

(* The exported counters agree with what the pipeline did, up to the calls *)
(* that are between two of their steps.                                    *)
CountersAgree ==
    /\ metrics.events = next_seq + Cardinality(CallersAt({"proc", "seq"}))
    /\ next_seq = Len(log) + Cardinality(CallersAt({"store"}))
    /\ metrics.violations
          = Len(vlog) + Cardinality(CallersAt({"vclass", "vpush"}))
    /\ metrics.violations = metrics.critical + metrics.warn
                               + Cardinality(CallersAt({"vclass"}))

(* `ring' is the last `cap' entries of `all', in order. *)
IsNewest(ring, all, cap) ==
    /\ Len(ring) = AtMost(Len(all), cap)
    /\ \A i \in DOMAIN ring : ring[i] = all[Len(all) - Len(ring) + i]

(* Each ring holds exactly the newest entries ever pushed to it, up to its *)
(* capacity, in the order they were pushed: eviction takes the oldest.     *)
RingsHoldNewest ==
    LET stored == [i \in DOMAIN log |-> [seq |-> log[i].seq,
                                         event |-> log[i].event]]
    IN  /\ IsNewest(events, stored, EVENT_CAP)
        /\ IsNewest(violations, vlog, VIOLATION_CAP)

(* Every stored event raises exactly the violations that the rules its     *)
(* call read demand, under its own number, whatever the other callers and  *)
(* a concurrent PUT /v1/policy do.                                         *)
AlertsMatchPolicy ==
    LET under(s) == {k \in DOMAIN vlog : vlog[k].seq = s}
        rank(k)  == Cardinality({j \in under(vlog[k].seq) : j <= k})
        left(c)  == IF At(c, "vsend") THEN Tail(call[c].todo) ELSE call[c].todo
    IN  /\ \A i \in DOMAIN log :
              LET s      == log[i].seq
                  demand == eval_event(log[i].event, log[i].rules)
                  done   == Cardinality(under(s))
                  here   == {c \in CallersAt(Alerting) : call[c].seq = s}
              IN  /\ \A k \in under(s) : /\ rank(k) \in DOMAIN demand
                                         /\ vlog[k].violation = demand[rank(k)]
                  /\ \A c \in here : left(c) = SubSeq(demand, done + 1, Len(demand))
                  /\ here = {} => done = Len(demand)
        /\ \A k \in DOMAIN vlog : \E i \in DOMAIN log : log[i].seq = vlog[k].seq

(* A subscriber that misses nothing sees, for every stored event, all its  *)
(* violations and then the event itself, each exactly once; only an event  *)
(* whose call is still running has not been announced.                     *)
StreamInOrder ==
    LET isEvent(m) == m.kind = "event"
    IN  /\ IsInjective(tx)
        /\ \A i, j \in DOMAIN tx :
              isEvent(tx[i]) /\ tx[j].stored.seq = tx[i].stored.seq => j <= i
        /\ \A i \in DOMAIN tx : isEvent(tx[i]) =>
              /\ \E k \in DOMAIN log : log[k].seq = tx[i].stored.seq
                                        /\ log[k].event = tx[i].stored.event
              /\ \A k \in DOMAIN vlog : vlog[k].seq = tx[i].stored.seq
                    => Contains(tx, Message("violation", vlog[k]))
        /\ \A k \in DOMAIN log :
              \/ \E i \in DOMAIN tx : isEvent(tx[i])
                                        /\ tx[i].stored.seq = log[k].seq
              \/ \E c \in CallersAt(Pending) : call[c].seq = log[k].seq

(* When no call is running, every event offered was reported either stored *)
(* or refused, and both reports agree with the ring and with the metrics.  *)
BooksBalance ==
    CallersAt({"idle"}) = Callers =>
        /\ offered = acked + nacked
        /\ acked = Len(log) /\ acked = metrics.events /\ acked = next_seq
        /\ nacked = metrics.dropped

(* An event is judged by a rule set that was in force at some moment of    *)
(* its own call: a policy replaced before the call began is never used.    *)
RulesWereInForce ==
    \A c \in Callers :
        pc[c] \notin {"idle", "loop", "rules"} => call[c].rules \in inForce[c]

(* The process table knows the process of every stored exec before the     *)
(* event can be read, and holds nothing an event of the trail did not put  *)
(* there: a shed exec leaves no process.                                   *)
ProcessesRecordExecs ==
    /\ \A i \in DOMAIN log : log[i].event.type = "proc_exec" =>
          log[i].event.tgid \in DOMAIN processes
    /\ \A t \in DOMAIN processes :
          \/ \E i \in DOMAIN log : log[i].event = processes[t]
          \/ \E c \in CallersAt({"seq", "store"}) : event(c) = processes[t]

(* The pipeline implements the abstract audit trail. *)
Demands(e, r) == ToSet(eval_event(e, r))

Unstamped(a) == [seq |-> a.seq, violation |-> a.violation]

Trail == INSTANCE AuditTrail WITH
    Demanded  <- Demands,
    trail     <- ToSet(log),
    raised    <- {Unstamped(vlog[i]) : i \in DOMAIN vlog},
    told      <- {Unstamped(tx[i].stored) :
                    i \in {j \in DOMAIN tx : tx[j].kind = "violation"}},
    announced <- {tx[i].stored.seq :
                    i \in {j \in DOMAIN tx : tx[j].kind = "event"}}

(* Every step of a caller is a step of the abstract trail, or none: events *)
(* enter under fresh numbers, raise what their rules demand, and are       *)
(* announced once, after all of their violations were told.                *)
ImplementsTrail == Trail!Spec
=============================================================================
