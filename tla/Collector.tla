----------------------------- MODULE Collector ------------------------------
(***************************************************************************)
(* From the kernel to the ingest pipeline: the eBPF probes that write      *)
(* records into the shared ring buffer (emit_record), the kernel source's  *)
(* poll loop (poll_loop, decode_record) with its counters, the bounded     *)
(* channel, and the task that drains it (pipe::drain); or, in place of the *)
(* kernel, the simulated source that sends a script for ever (sim::run).   *)
(***************************************************************************)
EXTENDS Naturals, SequencesExt

CONSTANTS
    Cpus,              \* processors a probe can run on
    RING_SLOTS,        \* records the EVENTS ring buffer holds
    CHANNEL_CAPACITY,  \* DEFAULT_CHANNEL_CAPACITY
    MaxRecords         \* bound: records produced in a behaviour

ASSUME CollectorAssumption ==
    /\ RING_SLOTS \in Nat \ {0} /\ CHANNEL_CAPACITY \in Nat \ {0}
    /\ MaxRecords \in Nat

VARIABLES
    mode,      \* SourceMode, fixed by the command line
    (* the kernel's ring buffer *)
    ring,      \* reservations not yet consumed, oldest first: [rec, state]
    writing,   \* the record each processor has reserved and not finished
    produced,  \* probe executions, or script entries sent, so far
    (* the source task: the poll loop or the simulator *)
    poll,      \* where it is
    drained,   \* its local flag: this pass of the ring found nothing
    stats,     \* SourceRecordStats
    (* the channel and its consumer *)
    chan,      \* events sent and not yet received
    drainer,   \* the drain task: "unspawned", "running", "done"
    (* history *)
    reserved,  \* records that got a slot or were sent by the simulator, in order
    sent,      \* number of events the channel accepted
    handled    \* records passed to ingest, in order

kernelVars == << ring, writing, produced, reserved >>
pollVars   == << poll, drained, stats >>
chanVars   == << chan, drainer, sent, handled >>
collectorVars == << mode, kernelVars, pollVars, chanVars >>

SourceMode == {"kernel", "simulated"}

(* What decode_record makes of a submitted record. *)
Submitted == {"good", "malformed"}

(* What becomes of a record: the probe's writer completes it, or it        *)
(* overflows RECORD_MAX and is discarded.                                  *)
Kinds == Submitted \cup {"overflow"}

NoRecord == [n |-> 0, kind |-> "none"]

CollectorInit ==
    /\ mode \in SourceMode
    /\ ring = << >>
    /\ writing = [p \in Cpus |-> NoRecord]
    /\ produced = 0
    /\ poll = "unspawned" /\ drained = TRUE
    /\ stats = [ingested |-> 0, dropped_malformed |-> 0]
    /\ chan = << >> /\ drainer = "unspawned"
    /\ reserved = << >> /\ sent = 0 /\ handled = << >>

----------------------------------------------------------------------------
(* Probes (emit_record) *)

(* Probes run from the moment the source attached them; once it is gone    *)
(* nobody reads the ring.                                                  *)
Attached == mode = "kernel" /\ poll \notin {"unspawned", "done"}

(* EVENTS.reserve: with no slot free the record is lost and nothing counts *)
(* it.                                                                     *)
Reserve(p) ==
    /\ Attached /\ writing[p] = NoRecord
    /\ produced < MaxRecords
    /\ produced' = produced + 1
    /\ \E kind \in Kinds :
          LET rec == [n |-> produced', kind |-> kind]
          IN  IF Len(ring) < RING_SLOTS
              THEN /\ ring' = Append(ring, [rec |-> rec, state |-> "busy"])
                   /\ writing' = [writing EXCEPT ![p] = rec]
                   /\ reserved' = Append(reserved, rec)
              ELSE UNCHANGED << ring, writing, reserved >>
    /\ UNCHANGED << mode, pollVars, chanVars >>

(* submit or discard, on the writer's verdict. *)
Finish(p) ==
    /\ writing[p] # NoRecord
    /\ ring' = [i \in DOMAIN ring |->
                  IF ring[i].rec = writing[p]
                  THEN [ring[i] EXCEPT !.state =
                          IF writing[p].kind = "overflow" THEN "discarded"
                                                          ELSE "ready"]
                  ELSE ring[i]]
    /\ writing' = [writing EXCEPT ![p] = NoRecord]
    /\ UNCHANGED << mode, produced, reserved, pollVars, chanVars >>

(* One of the probes at work: its emit_* function composes a record in the *)
(* slot it reserved, then gives the slot to the reader.                    *)
ProbeStep(p) == Reserve(p) \/ Finish(p)

----------------------------------------------------------------------------
(* The poll loop (poll_loop) *)

Closed == drainer = "done"    \* tx.is_closed(): the receiver was dropped

(* Mutant: the loop never looks whether anyone still receives. *)
CheckNothing ==
    /\ poll = "check"
    /\ poll' = "next" /\ drained' = TRUE
    /\ UNCHANGED << mode, stats, kernelVars, chanVars >>

CheckClosed ==
    /\ poll = "check"
    /\ poll' = IF Closed THEN "done" ELSE "next"
    /\ drained' = TRUE
    /\ UNCHANGED << mode, stats, kernelVars, chanVars >>

(* ring.next(): discarded slots are skipped and freed; a reservation still *)
(* being written hides everything behind it.                               *)
Live(slots) ==
    LET first == SelectInSeq(slots, LAMBDA s : s.state # "discarded")
    IN  IF first = 0 THEN << >> ELSE SubSeq(slots, first, Len(slots))

Readable == Live(ring) # << >> /\ Head(Live(ring)).state = "ready"

(* Mutant: a record is counted as ingested before it is decoded. *)
CountFirst ==
    /\ poll = "next" /\ Readable
    /\ drained' = FALSE
    /\ stats' = [stats EXCEPT !.ingested = @ + 1]
    /\ IF Head(Live(ring)).rec.kind = "good"
       THEN ring' = Live(ring) /\ poll' = "send"
       ELSE ring' = Tail(Live(ring)) /\ poll' = "next"
    /\ UNCHANGED << mode, writing, produced, reserved, chanVars >>

(* decode_record, on the slot at the head. *)
NextItem ==
    /\ poll = "next" /\ Readable
    /\ drained' = FALSE
    /\ IF Head(Live(ring)).rec.kind = "good"
       THEN /\ stats' = [stats EXCEPT !.ingested = @ + 1]
            /\ ring' = Live(ring)
            /\ poll' = "send"
       ELSE /\ stats' = [stats EXCEPT !.dropped_malformed = @ + 1]
            /\ ring' = Tail(Live(ring))
            /\ poll' = "next"
    /\ UNCHANGED << mode, writing, produced, reserved, chanVars >>

NextNone ==
    /\ poll = "next" /\ ~Readable
    /\ ring' = Live(ring)
    /\ poll' = IF drained THEN "sleep" ELSE "check"
    /\ UNCHANGED << mode, drained, stats, writing, produced, reserved, chanVars >>

Wake ==
    /\ poll = "sleep"
    /\ poll' = "check"
    /\ UNCHANGED << mode, drained, stats, kernelVars, chanVars >>

(* Mutant: try_send, which gives the event up when the channel is full. *)
SendOrDrop ==
    /\ poll = "send" /\ ~Closed
    /\ IF Len(chan) < CHANNEL_CAPACITY
       THEN chan' = Append(chan, Head(ring).rec) /\ sent' = sent + 1
       ELSE UNCHANGED << chan, sent >>
    /\ ring' = Tail(ring)
    /\ poll' = "next"
    /\ UNCHANGED << mode, drained, stats, writing, produced, reserved, drainer,
                    handled >>

(* Mutant: an unbounded channel. *)
SendUnbounded ==
    /\ poll = "send" /\ ~Closed
    /\ chan' = Append(chan, Head(ring).rec)
    /\ sent' = sent + 1
    /\ ring' = Tail(ring)
    /\ poll' = "next"
    /\ UNCHANGED << mode, drained, stats, writing, produced, reserved, drainer,
                    handled >>

(* tx.send(event).await waits for room; the slot is freed only afterwards, *)
(* when the borrowed item goes out of scope.                               *)
Send ==
    /\ poll = "send" /\ ~Closed /\ Len(chan) < CHANNEL_CAPACITY
    /\ chan' = Append(chan, Head(ring).rec)
    /\ sent' = sent + 1
    /\ ring' = Tail(ring)
    /\ poll' = "next"
    /\ UNCHANGED << mode, drained, stats, writing, produced, reserved, drainer,
                    handled >>

SendFails ==
    /\ poll = "send" /\ Closed
    /\ ring' = Tail(ring)
    /\ poll' = "done"
    /\ UNCHANGED << mode, drained, stats, writing, produced, reserved, chanVars >>

PollStep == CheckClosed \/ NextItem \/ NextNone \/ Wake \/ Send \/ SendFails

----------------------------------------------------------------------------
(* The simulator (sim::run).  Entry n of its endless script is sent n-th;  *)
(* what the entries are is module Scenario.  It has no counters and never  *)
(* tests the channel: only a send can tell it that nobody receives.        *)

SimSend ==
    LET rec == [n |-> produced + 1, kind |-> "good"]
    IN  /\ poll = "script" /\ ~Closed /\ Len(chan) < CHANNEL_CAPACITY
        /\ produced < MaxRecords
        /\ produced' = produced + 1
        /\ reserved' = Append(reserved, rec)
        /\ chan' = Append(chan, rec)
        /\ sent' = sent + 1
        /\ poll' = "pause"
        /\ UNCHANGED << mode, ring, writing, drained, stats, drainer, handled >>

SimSendFails ==
    /\ poll = "script" /\ Closed
    /\ poll' = "done"
    /\ UNCHANGED << mode, drained, stats, kernelVars, chanVars >>

SimPause ==
    /\ poll = "pause"
    /\ poll' = "script"
    /\ UNCHANGED << mode, drained, stats, kernelVars, chanVars >>

SimStep == SimSend \/ SimSendFails \/ SimPause

SourceStep == PollStep \/ SimStep

(* The source task can also die of a panic. *)
SourcePanics ==
    /\ poll \notin {"unspawned", "done"}
    /\ poll' = "done"
    /\ UNCHANGED << mode, drained, stats, kernelVars, chanVars >>

----------------------------------------------------------------------------
(* The drain task (pipe::drain); one ingest call is one step here. *)

Recv ==
    /\ drainer = "running" /\ chan # << >>
    /\ handled' = Append(handled, Head(chan))
    /\ chan' = Tail(chan)
    /\ UNCHANGED << mode, drainer, sent, kernelVars, pollVars >>

(* recv() is None once the only sender is gone and the channel is empty. *)
RecvNone ==
    /\ drainer = "running" /\ chan = << >> /\ poll = "done"
    /\ drainer' = "done"
    /\ UNCHANGED << mode, chan, sent, handled, kernelVars, pollVars >>

(* A panic in ingest drops the receiver and what is still queued. *)
DrainPanics ==
    /\ drainer = "running"
    /\ drainer' = "done"
    /\ chan' = << >>
    /\ UNCHANGED << mode, sent, handled, kernelVars, pollVars >>

DrainStep == Recv \/ RecvNone

CollectorNext ==
    \/ \E p \in Cpus : ProbeStep(p)
    \/ SourceStep \/ SourcePanics
    \/ DrainStep \/ DrainPanics

----------------------------------------------------------------------------
(* Properties *)

Good(recs) == SelectSeq(recs, LAMBDA r : r.kind = "good")

(* Every variable has its type, and neither the ring buffer nor the        *)
(* channel ever holds more than its capacity.                              *)
CollectorTypeOK ==
    LET Record == [n : 1 .. MaxRecords, kind : Kinds]
    IN  /\ mode \in SourceMode
        /\ ring \in Seq([rec : Record, state : {"busy", "ready", "discarded"}])
        /\ Len(ring) <= RING_SLOTS
        /\ writing \in [Cpus -> Record \cup {NoRecord}]
        /\ produced \in 0 .. MaxRecords
        /\ poll \in {"unspawned", "done"} \cup
              IF mode = "kernel" THEN {"check", "next", "send", "sleep"}
                                 ELSE {"script", "pause"}
        /\ drained \in BOOLEAN
        /\ stats \in [ingested : Nat, dropped_malformed : Nat]
        /\ chan \in Seq(Record) /\ Len(chan) <= CHANNEL_CAPACITY
        /\ drainer \in {"unspawned", "running", "done"}
        /\ reserved \in Seq(Record) /\ handled \in Seq(Record) /\ sent \in Nat

(* While both tasks live, no decodable record that got a slot, and no      *)
(* entry the simulator sent, is lost, duplicated or reordered on its way:  *)
(* what was ingested, what is queued and what is still in the ring are in  *)
(* the order of the reservations, without repetition, and hold all of the  *)
(* good ones; only good ones reach the channel.                            *)
NothingLostInTransit ==
    LET transit == handled \o chan \o [i \in DOMAIN ring |-> ring[i].rec]
        good(recs) == {r \in Range(recs) : r.kind = "good"}
    IN  poll # "done" /\ drainer # "done" =>
          /\ \A i, j \in DOMAIN transit : i < j => transit[i].n < transit[j].n
          /\ good(transit) = good(reserved)
          /\ good(handled \o chan) = Range(handled \o chan)

(* The source's counters: at most one record is counted as ingested and    *)
(* not (yet) accepted by the channel, and every record that left the ring  *)
(* was counted, unless the probe discarded it.  A simulated source leaves  *)
(* them at zero, so it can never look like one that drops every record.    *)
StatsAgree ==
    LET left == Len(reserved) - Len(ring)
    IN  /\ mode = "simulated" => stats.ingested = 0
        /\ mode = "kernel" => stats.ingested - sent \in {0, 1}
        /\ (poll \in {"check", "next", "sleep"} => stats.ingested = sent)
        /\ Cardinality({i \in 1 .. left : reserved[i].kind = "malformed"})
              = stats.dropped_malformed
=============================================================================
