---------------------------- MODULE IngestProofs ----------------------------
(***************************************************************************)
(* Safety of the ingest pipeline, for any number of callers, any events    *)
(* and rule sets, and any ring capacities: the types, what rules an event  *)
(* is judged by, what numbers are given out, what the rings hold.          *)
(***************************************************************************)
EXTENDS Ingest, OperatorProofs, FiniteSetTheorems,
        SequenceTheorems, TLAPS

(* The policy engine returns a list of violations. *)
LEMMA EvalType ==
    ASSUME NEW e \in Events, NEW r \in RuleSets
    PROVE  eval_event(e, r) \in Seq(Violation)
<1>1. ASSUME NEW id \in RuleIds, NEW sev \in Severity
      PROVE  Breach(id, sev) \in Seq(Violation)
  BY DEF Breach, Violation
<1>2. << >> \in Seq(Violation)  OBVIOUS
<1>3. CASE e.type = "proc_exec"
  BY <1>1, <1>2, <1>3 DEF eval_event, eval_proc_exec, RuleIds, Severity
<1>4. CASE e.type = "file_open"
  BY <1>1, <1>2, <1>4 DEF eval_event, eval_file_open, RuleIds, Severity
<1>5. CASE e.type = "net_connect"
  BY <1>1, <1>2, <1>5 DEF eval_event, eval_net_connect, RuleIds, Severity
<1>6. CASE e.type = "cap_escalate"
  BY <1>1, <1>6 DEF eval_event, RuleIds, Severity
<1> QED  BY <1>3, <1>4, <1>5, <1>6, InputAssumption

(* A push never changes the type of a ring. *)
LEMMA PushType ==
    ASSUME NEW S, NEW ring \in Seq(S), NEW x \in S, NEW cap \in Nat \ {0}
    PROVE  PushCapped(ring, x, cap) \in Seq(S)
<1>1. CASE Len(ring) >= cap
  <2>1. Tail(ring) \in Seq(S)  BY <1>1
  <2> QED  BY <1>1, <2>1 DEF PushCapped
<1>2. CASE ~(Len(ring) >= cap)
  BY <1>2 DEF PushCapped
<1> QED  BY <1>1, <1>2

(* The body of a request is a list of events. *)
LEMMA BatchType ==
    ASSUME NEW b \in BoundedSeq(Events, MaxBatch) PROVE b \in Seq(Events)
BY IngestAssumption DEF BoundedSeq, SeqOf

(* The local variables of a caller between two calls are well typed. *)
LEMMA IdleType == Idle \in Call
BY IngestAssumption, ClockAssumption DEF Idle, Call, NoInstant, NoSeq, U64

----------------------------------------------------------------------------
(* A caller holds an event from the moment it takes one until it returns;  *)
(* the number, the timestamp and the violation in hand are then real.      *)
Holding == Labels \ {"idle", "loop"}
Numbered == {"store"} \cup Pending \cup {"observe"}

(* No more events are accepted than were handed in. *)
Tallied(k) == k.accepted + Len(k.batch) <= k.size

Sound(label, k) ==
    /\ label \in Holding => k.batch # << >> /\ k.now # NoInstant
    /\ label \in Numbered => k.seq # NoSeq
    /\ label \in Alerting => k.todo # << >>
    /\ label = "idle" => k.accepted = 0
    /\ Tallied(k)

HoldInv == \A c \in Callers : Sound(pc[c], call[c])

IngestInv == TypeOK /\ HoldInv

(* The event of a caller that holds one, and the rest of its batch. *)
LEMMA EventInHand ==
    ASSUME IngestInv, NEW c \in Callers, pc[c] \in Holding
    PROVE  event(c) \in Events /\ Tail(call[c].batch) \in Seq(Events)
<1>1. call[c].batch \in Seq(Events)  BY DEF IngestInv, TypeOK, Call
<1>2. call[c].batch # << >>  BY DEF IngestInv, HoldInv, Sound
<1> QED  BY <1>1, <1>2 DEF event

(* The violation a caller is about to publish. *)
LEMMA AlertInHand ==
    ASSUME IngestInv, NEW c \in Callers, pc[c] \in Alerting
    PROVE  StoredViolation(c) \in Alert
<1>1. call[c] \in Call /\ Sound(pc[c], call[c])
  BY DEF IngestInv, TypeOK, HoldInv
<1>2. call[c].todo \in Seq(Violation) /\ call[c].todo # << >>
  BY <1>1 DEF Call, Sound
<1>3. Head(call[c].todo) \in Violation  BY <1>2
<1>4. call[c].seq \in Nat  BY <1>1 DEF Call, Sound, Numbered, Pending
<1>5. call[c].stamp \in U64  BY <1>1 DEF Call
<1>6. ts_ns_to_rfc3339(call[c].stamp) \in Nat
  <2>1. call[c].stamp <= call[c].stamp  BY <1>5 DEF U64
  <2> QED  BY <1>5, <2>1, TextFollowsTime
<1> QED  BY <1>3, <1>4, <1>6 DEF StoredViolation, Alert

(* A caller that moves to a label with the local variables it needs there  *)
(* keeps the types of both, and every caller holds what it should.         *)
LEMMA MoveKeeps ==
    ASSUME IngestInv, NEW c \in Callers, NEW label \in Labels, NEW k \in Call,
           Goto(c, label), call' = [call EXCEPT ![c] = k], Sound(label, k)
    PROVE  /\ pc' \in [Callers -> Labels] /\ call' \in [Callers -> Call]
           /\ HoldInv'
<1>1. /\ pc \in [Callers -> Labels] /\ call \in [Callers -> Call]
      /\ pc' = [pc EXCEPT ![c] = label]
  BY DEF IngestInv, TypeOK, Goto
<1>2. ASSUME NEW d \in Callers PROVE Sound(pc'[d], call'[d])
  <2>1. CASE d = c  BY <1>1, <2>1
  <2>2. CASE d # c
    <3>1. pc'[d] = pc[d] /\ call'[d] = call[d]  BY <1>1, <2>2
    <3> QED  BY <3>1 DEF IngestInv, HoldInv
  <2> QED  BY <2>1, <2>2
<1> QED  BY <1>1, <1>2 DEF HoldInv

(* The same, when the local variables stay as they are. *)
LEMMA StayKeeps ==
    ASSUME IngestInv, NEW c \in Callers, NEW label \in Labels,
           Goto(c, label), call' = call, Sound(label, call[c])
    PROVE  /\ pc' \in [Callers -> Labels] /\ call' \in [Callers -> Call]
           /\ HoldInv'
<1>1. call \in [Callers -> Call]  BY DEF IngestInv, TypeOK
<1>2. call[c] \in Call /\ call' = [call EXCEPT ![c] = call[c]]  BY <1>1
<1> QED  BY <1>2, MoveKeeps

(* A result returned to the loop. *)
LEMMA ReturnKeeps ==
    ASSUME IngestInv, NEW c \in Callers, pc[c] \in Holding, NEW ok \in BOOLEAN,
           Return(c, ok)
    PROVE  /\ pc' \in [Callers -> Labels] /\ call' \in [Callers -> Call]
           /\ inForce' \in [Callers -> SUBSET RuleSets]
           /\ HoldInv'
<1> DEFINE won == IF ok THEN 1 ELSE 0
           back == [Idle EXCEPT !.batch = Tail(call[c].batch),
                                !.size = call[c].size,
                                !.accepted = call[c].accepted + won]
<1>1. Tail(call[c].batch) \in Seq(Events)  BY EventInHand
<1>2. call[c].size \in Nat /\ call[c].accepted + won \in Nat
  BY DEF IngestInv, TypeOK, Call
<1>3. back \in Call  BY <1>1, <1>2, IdleType DEF Call
<1>4. /\ call' = [call EXCEPT ![c] = back] /\ Goto(c, "loop")
      /\ inForce' = [inForce EXCEPT ![c] = {}]
  BY DEF Return
<1>5. Tallied(back)
  <2>1. call[c] \in Call /\ Sound(pc[c], call[c])
    BY DEF IngestInv, TypeOK, HoldInv
  <2>2. Len(Tail(call[c].batch)) = Len(call[c].batch) - 1
        /\ Len(call[c].batch) \in Nat
    BY <2>1 DEF Call, Sound
  <2>3. won <= 1 /\ won \in Nat  OBVIOUS
  <2>4. call[c].accepted + Len(call[c].batch) <= call[c].size
    BY <2>1 DEF Sound, Tallied
  <2>5. /\ back.batch = Tail(call[c].batch) /\ back.size = call[c].size
        /\ back.accepted = call[c].accepted + won
    BY DEF Idle
  <2> HIDE DEF won, back
  <2> QED  BY <2>1, <2>2, <2>3, <2>4, <2>5 DEF Tallied, Call
<1>6. "loop" \in Labels /\ Sound("loop", back)
  BY <1>5 DEF Labels, Sound, Holding, Numbered, Pending, Alerting
<1>7. /\ pc' \in [Callers -> Labels] /\ call' \in [Callers -> Call] /\ HoldInv'
  BY <1>3, <1>4, <1>6, MoveKeeps
<1> QED  BY <1>4, <1>7 DEF IngestInv, TypeOK

(* What a step of a caller leaves behind is well typed: each step writes   *)
(* values made of the event, the number and the timestamp in its hand.     *)
LEMMA StepKeeps ==
    ASSUME IngestInv, NEW c \in Callers, Step(c)
    PROVE  IngestInv'
<1> USE DEF IngestInv
<1>a. /\ pc \in [Callers -> Labels] /\ call \in [Callers -> Call]
      /\ call[c] \in Call /\ Sound(pc[c], call[c])
  BY DEF TypeOK, HoldInv
<1>b. metrics \in Counters  BY DEF TypeOK
<1>1. CASE TakeEvent(c)
  <2> DEFINE k == [call[c] EXCEPT !.now = clock]
  <2>1. k \in Call  BY <1>a DEF TypeOK, Call
  <2>2. call' = [call EXCEPT ![c] = k] /\ Goto(c, "rules")
    BY <1>1, <1>a DEF TakeEvent
  <2>3. k.batch # << >> /\ k.now # NoInstant /\ Tallied(k)
    BY <1>1, <1>a DEF TakeEvent, TypeOK, Call, NoInstant, Sound, Tallied
  <2>4. "rules" \in Labels /\ Sound("rules", k)
    BY <2>3 DEF Labels, Sound, Numbered, Pending, Alerting
  <2>5. HoldInv' /\ pc' \in [Callers -> Labels] /\ call' \in [Callers -> Call]
    BY <2>1, <2>2, <2>4, MoveKeeps
  <2>6. inForce' \in [Callers -> SUBSET RuleSets]
    BY <1>1 DEF TakeEvent, TypeOK
  <2> QED  BY <1>1, <2>5, <2>6 DEF TakeEvent, TypeOK, shared
<1>2. CASE ReadRules(c)
  <2> DEFINE k == [call[c] EXCEPT !.rules = ruleset]
  <2>1. k \in Call  BY <1>a DEF TypeOK, Call
  <2>2. call' = [call EXCEPT ![c] = k] /\ Goto(c, "acquire")
    BY <1>2, <1>a DEF ReadRules
  <2>3. k.batch # << >> /\ k.now # NoInstant /\ Tallied(k)
    BY <1>2, <1>a DEF ReadRules, At, Sound, Holding, Labels, Call, Tallied
  <2>4. "acquire" \in Labels /\ Sound("acquire", k)
    BY <2>3 DEF Labels, Sound, Numbered, Pending, Alerting
  <2>5. HoldInv' /\ pc' \in [Callers -> Labels] /\ call' \in [Callers -> Call]
    BY <2>1, <2>2, <2>4, MoveKeeps
  <2> QED  BY <1>2, <2>5 DEF ReadRules, TypeOK, shared, history
<1>3. CASE TryAcquire(c)
  <2> DEFINE rate == call[c].rules.max_events_per_sec
             label == IF Grants(rate_bucket, rate, call[c].now)
                      THEN "count" ELSE "shed"
  <2>1. rate \in Nat  BY <1>a, InputAssumption DEF Call
  <2>2. call[c].batch # << >> /\ call[c].now # NoInstant /\ Tallied(call[c])
    BY <1>3, <1>a DEF TryAcquire, At, Sound, Holding, Labels
  <2>3. call[c].now \in Nat  BY <2>2, <1>a DEF Call
  <2>4. try_acquire(rate_bucket, rate, call[c].now) \in Bucket
    <3>1. rate_bucket \in Bucket  BY DEF TypeOK
    <3> HIDE DEF rate
    <3> QED  BY <2>1, <2>3, <3>1, TryAcquireType
  <2>5. label \in Labels /\ Sound(label, call[c])
    <3>1. label = "count" \/ label = "shed"  OBVIOUS
    <3> HIDE DEF label
    <3> QED  BY <3>1, <2>2 DEF Labels, Sound, Numbered, Pending, Alerting
  <2>6. Goto(c, label) /\ call' = call  BY <1>3 DEF TryAcquire
  <2>7. HoldInv' /\ pc' \in [Callers -> Labels] /\ call' \in [Callers -> Call]
    <3> HIDE DEF label
    <3> QED  BY <2>5, <2>6, StayKeeps
  <2>8. rate_bucket' \in Bucket  BY <1>3, <2>4 DEF TryAcquire
  <2> QED  BY <1>3, <2>7, <2>8 DEF TryAcquire, TypeOK, history
<1>4. CASE Shed(c)
  <2>1. pc[c] \in Holding  BY <1>4 DEF Shed, At, Holding, Labels
  <2>2. Return(c, FALSE)  BY <1>4 DEF Shed
  <2>3. /\ pc' \in [Callers -> Labels] /\ call' \in [Callers -> Call]
        /\ inForce' \in [Callers -> SUBSET RuleSets] /\ HoldInv'
    BY <2>1, <2>2, ReturnKeeps
  <2>4. metrics' \in Counters  BY <1>4, <1>b DEF Shed, Counters
  <2> QED  BY <1>4, <2>3, <2>4 DEF Shed, TypeOK
<1>5. CASE CountEvent(c)
  <2> DEFINE label == IF event(c).type = "proc_exec" THEN "proc" ELSE "seq"
  <2>1. call[c].batch # << >> /\ call[c].now # NoInstant /\ Tallied(call[c])
    BY <1>5, <1>a DEF CountEvent, At, Sound, Holding, Labels
  <2>2. label = "proc" \/ label = "seq"  OBVIOUS
  <2>3. Goto(c, label) /\ call' = call  BY <1>5 DEF CountEvent
  <2> HIDE DEF label
  <2>4. label \in Labels /\ Sound(label, call[c])
    BY <2>1, <2>2 DEF Labels, Sound, Numbered, Pending, Alerting
  <2>5. HoldInv' /\ pc' \in [Callers -> Labels] /\ call' \in [Callers -> Call]
    BY <2>3, <2>4, StayKeeps
  <2>6. metrics' \in Counters  BY <1>5, <1>b DEF CountEvent, Counters
  <2> QED  BY <1>5, <2>5, <2>6 DEF CountEvent, TypeOK, history
<1>6. CASE RecordProcess(c)
  <2>1. pc[c] \in Holding  BY <1>6 DEF RecordProcess, At, Holding, Labels
  <2>2. Goto(c, "seq") /\ call' = call  BY <1>6 DEF RecordProcess
  <2>3. "seq" \in Labels /\ Sound("seq", call[c])
    BY <2>1, <1>a DEF Labels, Sound, Numbered, Pending, Alerting
  <2>4. HoldInv' /\ pc' \in [Callers -> Labels] /\ call' \in [Callers -> Call]
    BY <2>2, <2>3, StayKeeps
  <2>5. event(c) \in Events  BY <2>1, EventInHand
  <2>6. /\ DOMAIN processes' \subseteq {e.tgid : e \in Events}
        /\ \A t \in DOMAIN processes' : processes'[t] \in Events
    <3>1. processes' = Inserted(processes, event(c).tgid, event(c))
      BY <1>6 DEF RecordProcess
    <3>2. DOMAIN processes' = DOMAIN processes \cup {event(c).tgid}
      BY <3>1 DEF Inserted
    <3>3. \A t \in DOMAIN processes' :
             processes'[t] = IF t = event(c).tgid THEN event(c)
                             ELSE processes[t]
      BY <3>1, <3>2 DEF Inserted
    <3> QED  BY <2>5, <3>2, <3>3 DEF TypeOK
  <2> QED  BY <1>6, <2>4, <2>6 DEF RecordProcess, TypeOK, history
<1>7. CASE AssignSeq(c)
  <2> DEFINE k == [call[c] EXCEPT !.seq = next_seq]
  <2>1. next_seq \in Nat /\ k \in Call  BY <1>a DEF TypeOK, Call
  <2>2. call' = [call EXCEPT ![c] = k] /\ Goto(c, "store")
    BY <1>7, <1>a DEF AssignSeq, FetchedSeq
  <2>3. k.batch # << >> /\ k.now # NoInstant /\ k.seq # NoSeq /\ Tallied(k)
    BY <1>7, <1>a, <2>1 DEF AssignSeq, At, Sound, Holding, Labels, Call, NoSeq,
                            Tallied
  <2>4. "store" \in Labels /\ Sound("store", k)
    BY <2>3 DEF Labels, Sound, Pending, Alerting
  <2>5. HoldInv' /\ pc' \in [Callers -> Labels] /\ call' \in [Callers -> Call]
    BY <2>1, <2>2, <2>4, MoveKeeps
  <2> QED  BY <1>7, <2>5 DEF AssignSeq, TypeOK, history
<1>8. CASE StoreEvent(c)
  <2> DEFINE todo == Judged(c)
             k == [call[c] EXCEPT !.todo = todo]
             label == IF todo = << >> THEN "announce" ELSE "stamp"
  <2>1. pc[c] \in Holding /\ pc[c] \in Numbered
    BY <1>8 DEF StoreEvent, At, Holding, Numbered, Labels
  <2>2. event(c) \in Events  BY <2>1, EventInHand
  <2>3. call[c].rules \in RuleSets /\ call[c].seq \in Nat
    BY <1>a, <2>1 DEF Call, Sound
  <2>4. todo \in Seq(Violation)  BY <2>2, <2>3, EvalType DEF Judged
  <2>5. call' = [call EXCEPT ![c] = k] /\ Goto(c, label)
    BY <1>8, <1>a DEF StoreEvent
  <2> HIDE DEF todo
  <2>6. k \in Call  BY <1>a, <2>4 DEF Call
  <2>7. /\ k.batch # << >> /\ k.now # NoInstant /\ k.seq # NoSeq
        /\ k.todo = todo /\ Tallied(k)
    BY <1>a, <2>1 DEF Sound, Call, Tallied
  <2> HIDE DEF k
  <2>8. label \in Labels /\ Sound(label, k)
    BY <2>7 DEF Labels, Sound, Alerting
  <2> HIDE DEF label
  <2>9. HoldInv' /\ pc' \in [Callers -> Labels] /\ call' \in [Callers -> Call]
    BY <2>5, <2>6, <2>8, MoveKeeps
  <2>10. events' \in Seq(Stored)
    <3>1. StoredEvent(c) \in Stored  BY <2>2, <2>3 DEF StoredEvent, Stored
    <3>2. events \in Seq(Stored) /\ EVENT_CAP \in Nat \ {0}
      BY IngestAssumption DEF TypeOK
    <3>3. PushCapped(events, StoredEvent(c), EVENT_CAP) \in Seq(Stored)
      BY <3>1, <3>2, PushType
    <3> QED  BY <1>8, <3>3 DEF StoreEvent
  <2>11. log' \in Seq([seq : Nat, event : Events, rules : RuleSets])
    BY <1>8, <2>2, <2>3 DEF StoreEvent, TypeOK
  <2> QED  BY <1>8, <2>9, <2>10, <2>11 DEF StoreEvent, TypeOK
<1>9. CASE StampViolation(c)
  <2>1. PICK reading \in WallReadings :
           last_emitted' = Clamped(reading, last_emitted)
    BY <1>9 DEF StampViolation
  <2>2. last_emitted' \in U64
    BY <2>1, ClampForward, IngestAssumption DEF TypeOK
  <2> DEFINE k == [call[c] EXCEPT !.stamp = last_emitted']
  <2>3. k \in Call  BY <1>a, <2>2 DEF Call
  <2>4. call' = [call EXCEPT ![c] = k] /\ Goto(c, "vcount")
    BY <1>9, <1>a DEF StampViolation
  <2>5. /\ k.batch # << >> /\ k.now # NoInstant
        /\ k.seq # NoSeq /\ k.todo # << >> /\ Tallied(k)
    BY <1>9, <1>a DEF StampViolation, At, Sound, Holding, Numbered, Labels,
                      Pending, Alerting, Call, Tallied
  <2>6. "vcount" \in Labels /\ Sound("vcount", k)
    BY <2>5 DEF Labels, Sound
  <2>7. HoldInv' /\ pc' \in [Callers -> Labels] /\ call' \in [Callers -> Call]
    BY <2>3, <2>4, <2>6, MoveKeeps
  <2> QED  BY <1>9, <2>2, <2>7 DEF StampViolation, TypeOK, history
<1>10. CASE CountViolation(c)
  <2>1. Goto(c, "vclass") /\ call' = call  BY <1>10 DEF CountViolation
  <2>2. "vclass" \in Labels /\ Sound("vclass", call[c])
    BY <1>10, <1>a DEF CountViolation, At, Sound, Holding, Numbered, Labels,
                       Pending, Alerting
  <2>3. HoldInv' /\ pc' \in [Callers -> Labels] /\ call' \in [Callers -> Call]
    BY <2>1, <2>2, StayKeeps
  <2>4. metrics' \in Counters  BY <1>10, <1>b DEF CountViolation, Counters
  <2> QED  BY <1>10, <2>3, <2>4 DEF CountViolation, TypeOK, history
<1>11. CASE ClassifyViolation(c)
  <2>1. Goto(c, "vpush") /\ call' = call  BY <1>11 DEF ClassifyViolation
  <2>2. "vpush" \in Labels /\ Sound("vpush", call[c])
    BY <1>11, <1>a DEF ClassifyViolation, At, Sound, Holding, Numbered, Labels,
                       Pending, Alerting
  <2>3. HoldInv' /\ pc' \in [Callers -> Labels] /\ call' \in [Callers -> Call]
    BY <2>1, <2>2, StayKeeps
  <2>4. metrics' \in Counters  BY <1>11, <1>b DEF ClassifyViolation, Counters
  <2> QED  BY <1>11, <2>3, <2>4 DEF ClassifyViolation, TypeOK, history
<1>12. CASE PushViolation(c)
  <2>1. pc[c] = "vpush"  BY <1>12 DEF PushViolation, At
  <2>2. StoredViolation(c) \in Alert  BY <2>1, AlertInHand DEF Alerting
  <2>3. violations \in Seq(Alert) /\ VIOLATION_CAP \in Nat \ {0}
    BY IngestAssumption DEF TypeOK
  <2>4. PushCapped(violations, StoredViolation(c), VIOLATION_CAP) \in Seq(Alert)
    BY <2>2, <2>3, PushType
  <2>5. violations' \in Seq(Alert)  BY <1>12, <2>4 DEF PushViolation
  <2>6. vlog' \in Seq(Alert)  BY <1>12, <2>2 DEF PushViolation, TypeOK
  <2>7. Goto(c, "vsend") /\ call' = call  BY <1>12 DEF PushViolation
  <2>8. "vsend" \in Labels /\ Sound("vsend", call[c])
    BY <2>1, <1>a DEF Sound, Holding, Numbered, Labels, Pending, Alerting
  <2>9. HoldInv' /\ pc' \in [Callers -> Labels] /\ call' \in [Callers -> Call]
    BY <2>7, <2>8, StayKeeps
  <2> QED  BY <1>12, <2>5, <2>6, <2>9 DEF PushViolation, TypeOK
<1>13. CASE SendViolation(c)
  <2> DEFINE rest == Tail(call[c].todo)
             k == [call[c] EXCEPT !.todo = rest]
             label == IF rest = << >> THEN "announce" ELSE "stamp"
  <2>1. pc[c] = "vsend"  BY <1>13 DEF SendViolation, At
  <2>2. StoredViolation(c) \in Alert  BY <2>1, AlertInHand DEF Alerting
  <2>3. tx' \in Seq(Packet)
    <3>1. Message("violation", StoredViolation(c)) \in Packet
      BY <2>2 DEF Message, Packet
    <3> QED  BY <1>13, <3>1 DEF SendViolation, TypeOK
  <2>4. call[c].todo # << >>  BY <2>1, <1>a DEF Sound, Alerting
  <2>5. rest \in Seq(Violation)  BY <1>a, <2>4 DEF Call
  <2>6. call' = [call EXCEPT ![c] = k] /\ Goto(c, label)
    BY <1>13, <1>a DEF SendViolation
  <2> HIDE DEF rest
  <2>7. k \in Call  BY <1>a, <2>5 DEF Call
  <2>8. /\ k.batch # << >> /\ k.now # NoInstant /\ k.seq # NoSeq
        /\ k.todo = rest /\ Tallied(k)
    BY <1>a, <2>1 DEF Sound, Call, Holding, Numbered, Labels, Pending, Alerting,
                      Tallied
  <2> HIDE DEF k
  <2>9. label \in Labels /\ Sound(label, k)
    BY <2>8 DEF Labels, Sound, Alerting
  <2> HIDE DEF label
  <2>10. HoldInv' /\ pc' \in [Callers -> Labels] /\ call' \in [Callers -> Call]
    BY <2>6, <2>7, <2>9, MoveKeeps
  <2> QED  BY <1>13, <2>3, <2>10 DEF SendViolation, TypeOK, history
<1>14. CASE SendEvent(c)
  <2>1. pc[c] = "announce"  BY <1>14 DEF SendEvent, At
  <2>2. StoredEvent(c) \in Stored
    <3>1. event(c) \in Events  BY <2>1, EventInHand DEF Holding, Labels
    <3>2. call[c].seq \in Nat
      BY <2>1, <1>a DEF Sound, Numbered, Pending, Call
    <3> QED  BY <3>1, <3>2 DEF StoredEvent, Stored
  <2>3. tx' \in Seq(Packet)
    <3>1. Message("event", StoredEvent(c)) \in Packet
      BY <2>2 DEF Message, Packet
    <3> QED  BY <1>14, <3>1 DEF SendEvent, TypeOK
  <2>4. Goto(c, "observe") /\ call' = call  BY <1>14 DEF SendEvent
  <2>5. "observe" \in Labels /\ Sound("observe", call[c])
    BY <2>1, <1>a DEF Sound, Holding, Numbered, Labels, Pending, Alerting
  <2>6. HoldInv' /\ pc' \in [Callers -> Labels] /\ call' \in [Callers -> Call]
    BY <2>4, <2>5, StayKeeps
  <2> QED  BY <1>14, <2>3, <2>6 DEF SendEvent, TypeOK, history
<1>15. CASE ObserveLatency(c)
  <2>1. pc[c] \in Holding  BY <1>15 DEF ObserveLatency, At, Holding, Labels
  <2>2. Return(c, TRUE)  BY <1>15 DEF ObserveLatency
  <2>3. /\ pc' \in [Callers -> Labels] /\ call' \in [Callers -> Call]
        /\ inForce' \in [Callers -> SUBSET RuleSets] /\ HoldInv'
    BY <2>1, <2>2, ReturnKeeps
  <2>4. AtMost(metrics.samples + 1, LATENCY_SAMPLE_CAP) \in Nat
    BY <1>b, IngestAssumption DEF AtMost, Counters
  <2>5. metrics' \in Counters
    BY <1>15, <1>b, <2>4 DEF ObserveLatency, Counters
  <2> QED  BY <1>15, <2>3, <2>5 DEF ObserveLatency, TypeOK
<1>16. CASE Reply(c)
  <2>1. "idle" \in Labels /\ Sound("idle", Idle)
    BY DEF Labels, Sound, Holding, Numbered, Pending, Alerting, Idle, Tallied
  <2>2. call' = [call EXCEPT ![c] = Idle] /\ Goto(c, "idle")
    BY <1>16 DEF Reply
  <2>3. HoldInv' /\ pc' \in [Callers -> Labels] /\ call' \in [Callers -> Call]
    BY <2>1, <2>2, MoveKeeps, IdleType
  <2>4. call[c].size \in Nat /\ call[c].accepted \in Nat
        /\ call[c].accepted <= call[c].size
    BY <1>a DEF Call, Sound, Tallied
  <2>5. acked' \in Nat /\ nacked' \in Nat
    <3>1. acked \in Nat /\ nacked \in Nat  BY DEF TypeOK
    <3>2. /\ acked' = acked + call[c].accepted
          /\ nacked' = nacked + (call[c].size - call[c].accepted)
      BY <1>16 DEF Reply
    <3> QED  BY <2>4, <3>1, <3>2
  <2> QED  BY <1>16, <2>3, <2>5 DEF Reply, TypeOK, shared
<1> QED  BY <1>1, <1>2, <1>3, <1>4, <1>5, <1>6, <1>7, <1>8, <1>9, <1>10,
            <1>11, <1>12, <1>13, <1>14, <1>15, <1>16 DEF Step

(* A call begins with a batch of events, all of them still to be ingested. *)
LEMMA BeginKeeps ==
    ASSUME IngestInv, NEW c \in Callers, NEW b \in Seq(Events), Begin(c, b)
    PROVE  IngestInv'
<1>1. call \in [Callers -> Call] /\ call[c] \in Call /\ Sound("idle", call[c])
  BY DEF IngestInv, TypeOK, HoldInv, Begin, At
<1> DEFINE k == [call[c] EXCEPT !.batch = b, !.size = Len(b)]
<1>2. Len(b) \in Nat  OBVIOUS
<1>3. k \in Call  BY <1>1, <1>2 DEF Call
<1>4. call' = [call EXCEPT ![c] = k] /\ Goto(c, "loop")
  BY <1>1 DEF Begin
<1>5. k.accepted = 0 /\ k.batch = b /\ k.size = Len(b)
  BY <1>1 DEF Sound, Call
<1> HIDE DEF k
<1>6. Tallied(k)  BY <1>2, <1>5 DEF Tallied
<1>7. "loop" \in Labels /\ Sound("loop", k)
  BY <1>6 DEF Labels, Sound, Holding, Numbered, Pending, Alerting
<1>8. HoldInv' /\ pc' \in [Callers -> Labels] /\ call' \in [Callers -> Call]
  BY <1>3, <1>4, <1>7, MoveKeeps
<1>9. offered' \in Nat  BY <1>2 DEF Begin, IngestInv, TypeOK
<1> QED  BY <1>8, <1>9 DEF Begin, IngestInv, TypeOK, shared

(* The specification without its fairness, which safety does not need. *)
SafeSpec == Init /\ [][Next]_vars

(* No step of a caller or of the environment breaks the invariant. *)
LEMMA IngestInvariant == SafeSpec => []IngestInv
<1>1. Init => IngestInv
  <2> SUFFICES ASSUME Init PROVE IngestInv  OBVIOUS
  <2>1. new \in Bucket  BY DEF new, Bucket, NoInstant
  <2>2. 0 \in U64  BY ClockAssumption DEF U64
  <2>3. metrics \in Counters  BY DEF Init, Counters
  <2>4. Sound("idle", Idle)
    BY DEF Sound, Holding, Labels, Numbered, Pending, Alerting, Idle, Tallied
  <2>5. /\ pc = [c \in Callers |-> "idle"] /\ call = [c \in Callers |-> Idle]
        /\ inForce = [c \in Callers |-> {}]
    BY DEF Init
  <2>6. HoldInv  BY <2>4, <2>5 DEF HoldInv
  <2>7. /\ pc \in [Callers -> Labels] /\ call \in [Callers -> Call]
        /\ inForce \in [Callers -> SUBSET RuleSets]
    BY <2>5, IdleType DEF Labels
  <2>8. /\ DOMAIN processes \subseteq {e.tgid : e \in Events}
        /\ \A t \in DOMAIN processes : processes[t] \in Events
    BY DEF Init
  <2>9. /\ events \in Seq(Stored) /\ violations \in Seq(Alert)
        /\ tx \in Seq(Packet) /\ vlog \in Seq(Alert)
        /\ log \in Seq([seq : Nat, event : Events, rules : RuleSets])
    BY DEF Init
  <2>10. ruleset \in RuleSets  BY IngestAssumption DEF Init
  <2> QED  BY <2>1, <2>2, <2>3, <2>6, <2>7, <2>8, <2>9, <2>10
           DEF Init, IngestInv, TypeOK
<1>2. IngestInv /\ [Next]_vars => IngestInv'
  <2> SUFFICES ASSUME IngestInv, [Next]_vars PROVE IngestInv'  OBVIOUS
  <2>1. CASE \E c \in Callers : Step(c)  BY <2>1, StepKeeps
  <2>2. CASE \E e \in Events : DrainRecv(e)
    <3>1. PICK e \in Events : DrainRecv(e)  BY <2>2
    <3>2. << e >> \in Seq(Events) /\ Drain \in Callers  BY DEF Callers
    <3> QED  BY <3>1, <3>2, BeginKeeps DEF DrainRecv
  <2>3. CASE \E c \in Handlers, b \in BoundedSeq(Events, MaxBatch) :
                post_events(c, b)
    <3>1. PICK c \in Handlers, b \in BoundedSeq(Events, MaxBatch) :
             post_events(c, b)
      BY <2>3
    <3>2. b \in Seq(Events) /\ c \in Callers  BY BatchType DEF Callers
    <3> QED  BY <3>1, <3>2, BeginKeeps DEF post_events
  <2>4. CASE \E r \in RuleSets : put_policy(r)
    <3>1. PICK r \in RuleSets : put_policy(r)  BY <2>4
    <3>2. inForce' \in [Callers -> SUBSET RuleSets]
      BY <3>1 DEF put_policy, IngestInv, TypeOK
    <3>3. HoldInv'  BY <3>1 DEF put_policy, IngestInv, HoldInv
    <3> QED  BY <3>1, <3>2, <3>3 DEF put_policy, IngestInv, TypeOK
  <2>5. CASE Tick
    <3>1. HoldInv'  BY <2>5 DEF Tick, IngestInv, HoldInv
    <3> QED  BY <2>5, <3>1 DEF Tick, IngestInv, TypeOK, history
  <2>6. CASE UNCHANGED vars
    <3>1. HoldInv'  BY <2>6 DEF vars, IngestInv, HoldInv
    <3> QED  BY <2>6, <3>1 DEF vars, shared, history, IngestInv, TypeOK
  <2> QED  BY <2>1, <2>2, <2>3, <2>4, <2>5, <2>6 DEF Next
<1> QED  BY <1>1, <1>2, PTL DEF SafeSpec

(* Whatever the number of callers, the rate and the capacities, every      *)
(* variable of the pipeline keeps its type: the bucket's balance never     *)
(* goes negative although stale clock readings reach it, no timestamp      *)
(* leaves the range of the 64-bit counter, and no call reports more events *)
(* accepted than it was handed.                                            *)
THEOREM IngestTypeCorrect == Spec => []TypeOK
<1>1. IngestInv => TypeOK  BY DEF IngestInv
<1> QED  BY <1>1, IngestInvariant, PTL DEF Spec, SafeSpec

----------------------------------------------------------------------------
(***************************************************************************)
(* The rules.  While a caller holds an event, the rule set in force is     *)
(* among those noted since its call began, and so is the one it read.      *)
(***************************************************************************)
RulesInv ==
    \A c \in Callers : pc[c] \in Holding =>
        /\ ruleset \in inForce[c]
        /\ pc[c] # "rules" => call[c].rules \in inForce[c]

(* A caller past the point where it read the rules keeps them. *)
LEMMA RulesKept ==
    ASSUME IngestInv, RulesInv, NEW c \in Callers, NEW label,
           pc[c] \in Holding \ {"rules"}, Goto(c, label), label # "rules",
           ruleset' = ruleset, inForce' = inForce,
           \A d \in Callers : call'[d].rules = call[d].rules
    PROVE  RulesInv'
<1>1. pc \in [Callers -> Labels]  BY DEF IngestInv, TypeOK
<1>2. \A d \in Callers : d # c => pc'[d] = pc[d]  BY <1>1 DEF Goto
<1> QED  BY <1>2 DEF RulesInv

(* A caller that returns no longer holds an event. *)
LEMMA RulesReturned ==
    ASSUME IngestInv, RulesInv, NEW c \in Callers, NEW ok \in BOOLEAN,
           Return(c, ok), ruleset' = ruleset
    PROVE  RulesInv'
<1>1. /\ pc \in [Callers -> Labels] /\ call \in [Callers -> Call]
      /\ inForce \in [Callers -> SUBSET RuleSets]
  BY DEF IngestInv, TypeOK
<1>2. /\ pc'[c] = "loop"
      /\ \A d \in Callers : d # c => /\ pc'[d] = pc[d] /\ call'[d] = call[d]
                                     /\ inForce'[d] = inForce[d]
  BY <1>1 DEF Return, Goto
<1> QED  BY <1>2 DEF RulesInv, Holding

(* Every event is judged by a rule set in force during its own call, for   *)
(* any number of callers and any sequence of PUT /v1/policy.               *)
THEOREM RulesAreCurrent == Spec => []RulesWereInForce
<1>1. Init => RulesInv
  BY DEF Init, RulesInv, Holding
<1>2. IngestInv /\ RulesInv /\ [Next]_vars => RulesInv'
  <2> SUFFICES ASSUME IngestInv, RulesInv, [Next]_vars PROVE RulesInv'  OBVIOUS
  <2>a. /\ pc \in [Callers -> Labels] /\ call \in [Callers -> Call]
        /\ inForce \in [Callers -> SUBSET RuleSets]
    BY DEF IngestInv, TypeOK
  <2>1. ASSUME NEW c \in Callers, TakeEvent(c) PROVE RulesInv'
    BY <2>1, <2>a DEF TakeEvent, Goto, RulesInv, shared
  <2>2. ASSUME NEW c \in Callers, ReadRules(c) PROVE RulesInv'
    <3>1. ruleset \in inForce[c]
      BY <2>2 DEF ReadRules, At, RulesInv, Holding, Labels
    <3> QED  BY <2>2, <2>a, <3>1 DEF ReadRules, Goto, RulesInv, shared, history, Call
  <2>3. ASSUME NEW c \in Callers, TryAcquire(c) PROVE RulesInv'
    <3> DEFINE rate == call[c].rules.max_events_per_sec
               label == IF Grants(rate_bucket, rate, call[c].now)
                        THEN "count" ELSE "shed"
    <3>1. Goto(c, label) /\ label # "rules"  BY <2>3 DEF TryAcquire
    <3> HIDE DEF label
    <3> QED  BY <2>3, <3>1, RulesKept DEF TryAcquire, At, Holding, Labels, history
  <2>4. ASSUME NEW c \in Callers, Shed(c) PROVE RulesInv'
    BY <2>4, RulesReturned DEF Shed
  <2>5. ASSUME NEW c \in Callers, CountEvent(c) PROVE RulesInv'
    <3> DEFINE label == IF event(c).type = "proc_exec" THEN "proc" ELSE "seq"
    <3>1. Goto(c, label) /\ label # "rules"  BY <2>5 DEF CountEvent
    <3> HIDE DEF label
    <3> QED  BY <2>5, <3>1, RulesKept DEF CountEvent, At, Holding, Labels, history
  <2>6. ASSUME NEW c \in Callers, RecordProcess(c) PROVE RulesInv'
    <3>1. Goto(c, "seq") /\ "seq" # "rules"  BY <2>6 DEF RecordProcess
    <3> QED  BY <2>6, <3>1, RulesKept DEF RecordProcess, At, Holding, Labels, history
  <2>7. ASSUME NEW c \in Callers, AssignSeq(c) PROVE RulesInv'
    <3>1. Goto(c, "store") /\ "store" # "rules"  BY <2>7 DEF AssignSeq
    <3>2. \A d \in Callers : call'[d].rules = call[d].rules
      BY <2>7, <2>a DEF AssignSeq, Call
    <3> QED  BY <2>7, <3>1, <3>2, RulesKept DEF AssignSeq, At, Holding, Labels, history
  <2>8. ASSUME NEW c \in Callers, StoreEvent(c) PROVE RulesInv'
    <3> DEFINE label == IF Judged(c) = << >> THEN "announce" ELSE "stamp"
    <3>1. Goto(c, label) /\ label # "rules"  BY <2>8 DEF StoreEvent
    <3>2. \A d \in Callers : call'[d].rules = call[d].rules
      BY <2>8, <2>a DEF StoreEvent, Call
    <3> HIDE DEF label
    <3> QED  BY <2>8, <3>1, <3>2, RulesKept DEF StoreEvent, At, Holding, Labels
  <2>9. ASSUME NEW c \in Callers, StampViolation(c) PROVE RulesInv'
    <3>1. Goto(c, "vcount") /\ "vcount" # "rules"  BY <2>9 DEF StampViolation
    <3>2. \A d \in Callers : call'[d].rules = call[d].rules
      BY <2>9, <2>a DEF StampViolation, Call
    <3> QED  BY <2>9, <3>1, <3>2, RulesKept
             DEF StampViolation, At, Holding, Labels, history
  <2>10. ASSUME NEW c \in Callers, CountViolation(c) PROVE RulesInv'
    <3>1. Goto(c, "vclass") /\ "vclass" # "rules"  BY <2>10 DEF CountViolation
    <3> QED  BY <2>10, <3>1, RulesKept DEF CountViolation, At, Holding, Labels, history
  <2>11. ASSUME NEW c \in Callers, ClassifyViolation(c) PROVE RulesInv'
    <3>1. Goto(c, "vpush") /\ "vpush" # "rules"  BY <2>11 DEF ClassifyViolation
    <3> QED  BY <2>11, <3>1, RulesKept
             DEF ClassifyViolation, At, Holding, Labels, history
  <2>12. ASSUME NEW c \in Callers, PushViolation(c) PROVE RulesInv'
    <3>1. Goto(c, "vsend") /\ "vsend" # "rules"  BY <2>12 DEF PushViolation
    <3> QED  BY <2>12, <3>1, RulesKept DEF PushViolation, At, Holding, Labels
  <2>13. ASSUME NEW c \in Callers, SendViolation(c) PROVE RulesInv'
    <3> DEFINE label == IF Tail(call[c].todo) = << >> THEN "announce" ELSE "stamp"
    <3>1. Goto(c, label) /\ label # "rules"  BY <2>13 DEF SendViolation
    <3>2. \A d \in Callers : call'[d].rules = call[d].rules
      BY <2>13, <2>a DEF SendViolation, Call
    <3> HIDE DEF label
    <3> QED  BY <2>13, <3>1, <3>2, RulesKept
             DEF SendViolation, At, Holding, Labels, history
  <2>14. ASSUME NEW c \in Callers, SendEvent(c) PROVE RulesInv'
    <3>1. Goto(c, "observe") /\ "observe" # "rules"  BY <2>14 DEF SendEvent
    <3> QED  BY <2>14, <3>1, RulesKept DEF SendEvent, At, Holding, Labels, history
  <2>15. ASSUME NEW c \in Callers, ObserveLatency(c) PROVE RulesInv'
    BY <2>15, RulesReturned DEF ObserveLatency
  <2>16. ASSUME NEW c \in Callers, Reply(c) PROVE RulesInv'
    BY <2>16, <2>a DEF Reply, Goto, RulesInv, Holding, shared
  <2>17. ASSUME NEW c \in Callers, NEW b, Begin(c, b) PROVE RulesInv'
    BY <2>17, <2>a DEF Begin, Goto, RulesInv, Holding, shared
  <2>18. ASSUME NEW r \in RuleSets, put_policy(r) PROVE RulesInv'
    <3>1. \A c \in Callers :
             inForce'[c] = IF inForce[c] = {} THEN {} ELSE inForce[c] \cup {r}
      BY <2>18 DEF put_policy
    <3>2. ruleset' = r /\ pc' = pc /\ call' = call  BY <2>18 DEF put_policy
    <3> QED  BY <3>1, <3>2 DEF RulesInv
  <2>19. CASE Tick  BY <2>19 DEF Tick, RulesInv, history
  <2>20. CASE UNCHANGED vars  BY <2>20 DEF vars, shared, history, RulesInv
  <2>21. Drain \in Callers /\ Handlers \subseteq Callers  BY DEF Callers
  <2> QED  BY <2>1, <2>2, <2>3, <2>4, <2>5, <2>6, <2>7, <2>8, <2>9, <2>10, <2>11,
              <2>12, <2>13, <2>14, <2>15, <2>16, <2>17, <2>18, <2>19, <2>20, <2>21
           DEF Next, Step, DrainRecv, post_events
<1>3. IngestInv /\ RulesInv => RulesWereInForce
  BY DEF IngestInv, TypeOK, RulesInv, RulesWereInForce, Holding
<1> QED  BY <1>1, <1>2, <1>3, IngestInvariant, PTL DEF Spec, SafeSpec

----------------------------------------------------------------------------
(***************************************************************************)
(* Who writes what.  Only AssignSeq moves next_seq, only StoreEvent the    *)
(* event ring and its history, only PushViolation the violation ring; the  *)
(* other steps of a caller leave all of them, and the other callers, alone.*)
(***************************************************************************)
Ledger == << next_seq, events, log, violations, vlog >>

(* A caller's move touches its own position and local variables only. *)
Alone(c) ==
    /\ pc' = [pc EXCEPT ![c] = pc'[c]]
    /\ \A d \in Callers : d # c => pc'[d] = pc[d] /\ call'[d] = call[d]

(* Steps that neither claim a number nor store anything. *)
LEMMA OtherSteps ==
    ASSUME IngestInv, NEW c \in Callers, Step(c),
           ~AssignSeq(c), ~StoreEvent(c), ~PushViolation(c)
    PROVE  /\ UNCHANGED Ledger /\ Alone(c)
           /\ pc[c] # "store" /\ pc'[c] # "store"
<1> USE DEF Ledger, Alone, Goto, At, shared, history
<1>a. pc \in [Callers -> Labels] /\ call \in [Callers -> Call]
  BY DEF IngestInv, TypeOK
<1>1. CASE TakeEvent(c)  BY <1>1, <1>a DEF TakeEvent
<1>2. CASE ReadRules(c)  BY <1>2, <1>a DEF ReadRules
<1>3. CASE TryAcquire(c)  BY <1>3, <1>a DEF TryAcquire
<1>4. CASE Shed(c)  BY <1>4, <1>a DEF Shed, Return
<1>5. CASE CountEvent(c)  BY <1>5, <1>a DEF CountEvent
<1>6. CASE RecordProcess(c)  BY <1>6, <1>a DEF RecordProcess
<1>7. CASE StampViolation(c)  BY <1>7, <1>a DEF StampViolation
<1>8. CASE CountViolation(c)  BY <1>8, <1>a DEF CountViolation
<1>9. CASE ClassifyViolation(c)  BY <1>9, <1>a DEF ClassifyViolation
<1>10. CASE SendViolation(c)  BY <1>10, <1>a DEF SendViolation
<1>11. CASE SendEvent(c)  BY <1>11, <1>a DEF SendEvent
<1>12. CASE ObserveLatency(c)  BY <1>12, <1>a DEF ObserveLatency, Return
<1>13. CASE Reply(c)  BY <1>13, <1>a DEF Reply
<1> QED  BY <1>1, <1>2, <1>3, <1>4, <1>5, <1>6, <1>7, <1>8, <1>9, <1>10, <1>11,
            <1>12, <1>13 DEF Step

(* A new call claims and stores nothing yet. *)
LEMMA BeginSteps ==
    ASSUME IngestInv, NEW c \in Callers, NEW b, Begin(c, b)
    PROVE  /\ UNCHANGED Ledger /\ Alone(c)
           /\ pc[c] # "store" /\ pc'[c] # "store"
BY DEF IngestInv, TypeOK, Begin, Ledger, Alone, Goto, At, shared

----------------------------------------------------------------------------
(***************************************************************************)
(* The numbers, element by element: those below next_seq are the ones in   *)
(* the history and the ones held by a caller about to store.               *)
(***************************************************************************)
Claimed(n) == \E c \in Callers : pc[c] = "store" /\ call[c].seq = n
Used(n)    == \E i \in DOMAIN log : log[i].seq = n

SeqInv ==
    /\ \A c \in Callers : pc[c] = "store" => call[c].seq \in 0 .. next_seq - 1
    /\ \A i \in DOMAIN log : log[i].seq \in 0 .. next_seq - 1
    /\ \A n \in 0 .. next_seq - 1 : Claimed(n) \/ Used(n)
    /\ \A c \in Callers, i \in DOMAIN log :
          pc[c] = "store" => call[c].seq # log[i].seq
    /\ \A i, j \in DOMAIN log : log[i].seq = log[j].seq => i = j
    /\ \A c, d \in Callers :
          pc[c] = "store" /\ pc[d] = "store" /\ call[c].seq = call[d].seq => c = d

(* A step that neither claims nor uses a number. *)
LEMMA SeqKept ==
    ASSUME IngestInv, SeqInv, NEW c \in Callers, Alone(c),
           pc[c] # "store", pc'[c] # "store", log' = log, next_seq' = next_seq
    PROVE  SeqInv'
<1>1. \A d \in Callers : pc'[d] = "store" => pc[d] = "store" /\ call'[d] = call[d]
  BY DEF Alone
<1>2. \A d \in Callers : pc[d] = "store" => pc'[d] = "store" /\ call'[d] = call[d]
  BY DEF Alone
<1>3. \A n : Claimed(n)' <=> Claimed(n)  BY <1>1, <1>2 DEF Claimed
<1>4. \A n : Used(n)' <=> Used(n)  BY DEF Used
<1> QED  BY <1>1, <1>2, <1>3, <1>4 DEF SeqInv

(* fetch_add hands out the first number nobody has. *)
LEMMA SeqClaimed ==
    ASSUME IngestInv, SeqInv, NEW c \in Callers, AssignSeq(c)
    PROVE  SeqInv'
<1>1. /\ pc \in [Callers -> Labels] /\ call \in [Callers -> Call]
      /\ next_seq \in Nat /\ pc[c] = "seq"
  BY DEF IngestInv, TypeOK, AssignSeq, At
<1>2. /\ pc'[c] = "store" /\ call'[c].seq = next_seq
      /\ next_seq' = next_seq + 1 /\ log' = log
      /\ \A d \in Callers : d # c => pc'[d] = pc[d] /\ call'[d] = call[d]
  BY <1>1 DEF AssignSeq, FetchedSeq, Goto, history, Call
<1>3. \A n : Used(n)' <=> Used(n)  BY <1>2 DEF Used
<1>4. \A n : Claimed(n)' <=> Claimed(n) \/ n = next_seq
  BY <1>1, <1>2 DEF Claimed
<1>5. \A n \in 0 .. next_seq' - 1 : n \in 0 .. next_seq - 1 \/ n = next_seq
  BY <1>1, <1>2
<1>6. \A n \in 0 .. next_seq' - 1 : Claimed(n)' \/ Used(n)'
  BY <1>3, <1>4, <1>5 DEF SeqInv
<1>7. \A i \in DOMAIN log : log[i].seq # next_seq
  <2>1. \A i \in DOMAIN log : log[i].seq \in 0 .. next_seq - 1  BY DEF SeqInv
  <2> QED  BY <1>1, <2>1
<1>8. \A d \in Callers : pc[d] = "store" => call[d].seq # next_seq
  <2>1. \A d \in Callers : pc[d] = "store" => call[d].seq \in 0 .. next_seq - 1
    BY DEF SeqInv
  <2> QED  BY <1>1, <2>1
<1>9. \A d \in Callers : pc'[d] = "store" =>
         \/ d = c
         \/ pc[d] = "store" /\ call'[d] = call[d]
  BY <1>2
<1>10. ASSUME NEW d \in Callers, pc'[d] = "store"
       PROVE  /\ call'[d].seq \in 0 .. next_seq' - 1
              /\ \A i \in DOMAIN log' : call'[d].seq # log'[i].seq
  <2>1. CASE d = c  BY <1>1, <1>2, <1>7, <2>1
  <2>2. CASE d # c
    <3>1. pc[d] = "store" /\ call'[d] = call[d]  BY <1>9, <1>10, <2>2
    <3>2. /\ call[d].seq \in 0 .. next_seq - 1
          /\ \A i \in DOMAIN log : call[d].seq # log[i].seq
      BY <3>1 DEF SeqInv
    <3> QED  BY <1>1, <1>2, <3>1, <3>2
  <2> QED  BY <2>1, <2>2
<1>11. \A i \in DOMAIN log' : log'[i].seq \in 0 .. next_seq' - 1
  <2>1. \A i \in DOMAIN log : log[i].seq \in 0 .. next_seq - 1  BY DEF SeqInv
  <2> QED  BY <1>1, <1>2, <2>1
<1>12. \A d, e \in Callers :
          pc'[d] = "store" /\ pc'[e] = "store" /\ call'[d].seq = call'[e].seq => d = e
  <2>1. \A d, e \in Callers :
           pc[d] = "store" /\ pc[e] = "store" /\ call[d].seq = call[e].seq => d = e
    BY DEF SeqInv
  <2> QED  BY <1>2, <1>8, <1>9, <2>1
<1>13. \A i, j \in DOMAIN log' : log'[i].seq = log'[j].seq => i = j
  BY <1>2 DEF SeqInv
<1> QED  BY <1>6, <1>10, <1>11, <1>12, <1>13 DEF SeqInv

(* The number in hand goes from its caller to the history. *)
LEMMA SeqStored ==
    ASSUME IngestInv, SeqInv, NEW c \in Callers, StoreEvent(c)
    PROVE  SeqInv'
<1> DEFINE e == [seq |-> call[c].seq, event |-> event(c), rules |-> call[c].rules]
           n == Len(log)
<1>1. /\ pc \in [Callers -> Labels] /\ call \in [Callers -> Call]
      /\ next_seq \in Nat /\ pc[c] = "store"
      /\ log \in Seq([seq : Nat, event : Events, rules : RuleSets])
  BY DEF IngestInv, TypeOK, StoreEvent, At
<1>2. /\ pc'[c] # "store" /\ log' = Append(log, e) /\ next_seq' = next_seq
      /\ \A d \in Callers : d # c => pc'[d] = pc[d] /\ call'[d] = call[d]
  BY <1>1 DEF StoreEvent, Goto
<1>3. /\ n \in Nat /\ DOMAIN log = 1 .. n /\ DOMAIN log' = 1 .. n + 1
      /\ \A i \in 1 .. n : log'[i] = log[i]
      /\ log'[n + 1] = e /\ e.seq = call[c].seq
  BY <1>1, <1>2
<1>4. /\ call[c].seq \in 0 .. next_seq - 1
      /\ \A i \in 1 .. n : call[c].seq # log[i].seq
      /\ \A d \in Callers : pc[d] = "store" /\ call[d].seq = call[c].seq => d = c
  BY <1>1, <1>3 DEF SeqInv
<1> HIDE DEF e, n
<1>5. \A d \in Callers : pc'[d] = "store" =>
         d # c /\ pc[d] = "store" /\ call'[d] = call[d]
  BY <1>2
<1>6. \A d \in Callers : pc'[d] = "store" => call'[d].seq \in 0 .. next_seq' - 1
  BY <1>2, <1>5 DEF SeqInv
<1>7. \A i \in DOMAIN log' : log'[i].seq \in 0 .. next_seq' - 1
  <2>1. \A i \in 1 .. n : log[i].seq \in 0 .. next_seq - 1  BY <1>3 DEF SeqInv
  <2> QED  BY <1>2, <1>3, <1>4, <2>1
<1>8. \A k \in 0 .. next_seq' - 1 : Claimed(k)' \/ Used(k)'
  <2> SUFFICES ASSUME NEW k \in 0 .. next_seq - 1 PROVE Claimed(k)' \/ Used(k)'
    BY <1>2
  <2>1. CASE k = call[c].seq
    <3>1. n + 1 \in DOMAIN log' /\ log'[n + 1].seq = k  BY <1>3, <2>1
    <3> QED  BY <3>1 DEF Used
  <2>2. CASE k # call[c].seq /\ Claimed(k)
    BY <1>2, <2>2 DEF Claimed
  <2>3. CASE Used(k)
    <3>1. PICK i \in 1 .. n : log[i].seq = k  BY <1>3, <2>3 DEF Used
    <3>2. i \in DOMAIN log' /\ log'[i].seq = k  BY <1>3, <3>1
    <3> QED  BY <3>2 DEF Used
  <2> QED  BY <2>1, <2>2, <2>3 DEF SeqInv
<1>9. \A d \in Callers, i \in DOMAIN log' :
         pc'[d] = "store" => call'[d].seq # log'[i].seq
  <2>1. \A d \in Callers, i \in 1 .. n :
           pc[d] = "store" => call[d].seq # log[i].seq
    BY <1>3 DEF SeqInv
  <2>2. \A i \in DOMAIN log' : i \in 1 .. n \/ i = n + 1  BY <1>3
  <2> QED  BY <1>3, <1>4, <1>5, <2>1, <2>2
<1>10. \A i, j \in DOMAIN log' : log'[i].seq = log'[j].seq => i = j
  <2>1. \A i, j \in 1 .. n : log[i].seq = log[j].seq => i = j
    BY <1>3 DEF SeqInv
  <2>2. \A i \in DOMAIN log' : i \in 1 .. n \/ i = n + 1  BY <1>3
  <2> QED  BY <1>3, <1>4, <2>1, <2>2
<1>11. \A d, f \in Callers :
          pc'[d] = "store" /\ pc'[f] = "store" /\ call'[d].seq = call'[f].seq => d = f
  BY <1>5 DEF SeqInv
<1> QED  BY <1>6, <1>7, <1>8, <1>9, <1>10, <1>11 DEF SeqInv

(* No step hands out, stores or loses a number it should not. *)
LEMMA SeqInvariant == SafeSpec => []SeqInv
<1>1. Init => SeqInv
  BY DEF Init, SeqInv, Claimed, Used
<1>2. IngestInv /\ SeqInv /\ [Next]_vars => SeqInv'
  <2> SUFFICES ASSUME IngestInv, SeqInv, [Next]_vars PROVE SeqInv'  OBVIOUS
  <2>1. ASSUME NEW c \in Callers, Step(c) PROVE SeqInv'
    <3>1. CASE AssignSeq(c)  BY <3>1, SeqClaimed
    <3>2. CASE StoreEvent(c)  BY <3>2, SeqStored
    <3>3. CASE PushViolation(c)
      <4>1. /\ Alone(c) /\ pc[c] # "store" /\ pc'[c] # "store"
            /\ log' = log /\ next_seq' = next_seq
        BY <3>3 DEF IngestInv, TypeOK, PushViolation, Alone, Goto, At
      <4> QED  BY <4>1, SeqKept
    <3>4. CASE ~AssignSeq(c) /\ ~StoreEvent(c) /\ ~PushViolation(c)
      <4>1. /\ UNCHANGED Ledger /\ Alone(c)
            /\ pc[c] # "store" /\ pc'[c] # "store"
        BY <2>1, <3>4, OtherSteps
      <4>2. log' = log /\ next_seq' = next_seq  BY <4>1 DEF Ledger
      <4> QED  BY <4>1, <4>2, SeqKept
    <3> QED  BY <3>1, <3>2, <3>3, <3>4
  <2>2. ASSUME NEW c \in Callers, NEW b, Begin(c, b) PROVE SeqInv'
    <3>1. /\ UNCHANGED Ledger /\ Alone(c) /\ pc[c] # "store" /\ pc'[c] # "store"
      BY <2>2, BeginSteps
    <3>2. log' = log /\ next_seq' = next_seq  BY <3>1 DEF Ledger
    <3> QED  BY <3>1, <3>2, SeqKept
  <2>3. ASSUME UNCHANGED << pc, call, log, next_seq >> PROVE SeqInv'
    BY <2>3 DEF SeqInv, Claimed, Used
  <2>4. ASSUME NEW r \in RuleSets, put_policy(r)
        PROVE  UNCHANGED << pc, call, log, next_seq >>
    BY <2>4 DEF put_policy
  <2>5. CASE Tick  BY <2>3, <2>5 DEF Tick, history
  <2>6. CASE UNCHANGED vars  BY <2>3, <2>6 DEF vars, shared, history
  <2>7. Drain \in Callers /\ Handlers \subseteq Callers  BY DEF Callers
  <2> QED  BY <2>1, <2>2, <2>3, <2>4, <2>5, <2>6, <2>7
           DEF Next, DrainRecv, post_events
<1> QED  BY <1>1, <1>2, IngestInvariant, PTL DEF SafeSpec

(* However many callers race for numbers and rings, next_seq.fetch_add     *)
(* gives each event a number of its own, and none below next_seq is lost.  *)
THEOREM NumbersAreUnique == Spec => []SeqsNeverReused
<1>1. SeqInv => SeqsNeverReused
  <2> SUFFICES ASSUME SeqInv PROVE SeqsNeverReused  OBVIOUS
  <2> DEFINE held == {call[c].seq : c \in CallersAt({"store"})}
             kept == {log[i].seq : i \in DOMAIN log}
  <2>1. \A k : k \in held <=> Claimed(k)  BY DEF Claimed, CallersAt
  <2>2. \A k : k \in kept <=> Used(k)  BY DEF Used
  <2>3. \A k : Claimed(k) \/ Used(k) => k \in 0 .. next_seq - 1
    BY DEF SeqInv, Claimed, Used
  <2>4. held \cup kept = 0 .. next_seq - 1  BY <2>1, <2>2, <2>3 DEF SeqInv
  <2>5. held \cap kept = {}
    <3>1. \A k : ~(Claimed(k) /\ Used(k))  BY DEF SeqInv, Claimed, Used
    <3> QED  BY <2>1, <2>2, <3>1
  <2>6. \A c, d \in CallersAt({"store"}) : call[c].seq = call[d].seq => c = d
    BY DEF SeqInv, CallersAt
  <2> QED  BY <2>4, <2>5, <2>6 DEF SeqInv, SeqsNeverReused
<1> QED  BY <1>1, SeqInvariant, PTL DEF Spec, SafeSpec

----------------------------------------------------------------------------
(***************************************************************************)
(* The rings.  Pushing one entry to a ring and to its history keeps the    *)
(* ring equal to the newest part of the history.                           *)
(***************************************************************************)
LEMMA PushKeepsNewest ==
    ASSUME NEW S, NEW ring \in Seq(S), NEW all \in Seq(S), NEW x \in S,
           NEW cap \in Nat \ {0}, IsNewest(ring, all, cap)
    PROVE  IsNewest(PushCapped(ring, x, cap), Append(all, x), cap)
<1> DEFINE n == Len(ring)
           m == Len(all)
           ring2 == PushCapped(ring, x, cap)
           all2 == Append(all, x)
<1>1. /\ n \in Nat /\ m \in Nat
      /\ DOMAIN ring = 1 .. n /\ DOMAIN all = 1 .. m
      /\ Len(all2) = m + 1 /\ all2[m + 1] = x
      /\ \A i \in 1 .. m : all2[i] = all[i]
  OBVIOUS
<1>2. /\ n = AtMost(m, cap)
      /\ \A i \in 1 .. n : ring[i] = all[m - n + i]
  BY <1>1 DEF IsNewest
<1>3. n <= m /\ n <= cap /\ (n < cap => n = m)
  <2> HIDE DEF n, m
  <2> QED  BY <1>1, <1>2 DEF AtMost
<1>4. CASE n >= cap
  <2> DEFINE rest == Tail(ring)
  <2>1. /\ rest \in Seq(S) /\ Len(rest) = n - 1
        /\ \A i \in 1 .. n - 1 : rest[i] = ring[i + 1]
    BY <1>1, <1>4
  <2>2. ring2 = Append(rest, x)  BY <1>4 DEF PushCapped
  <2> HIDE DEF rest
  <2>3. /\ Len(ring2) = n /\ DOMAIN ring2 = 1 .. n /\ ring2[n] = x
        /\ \A i \in 1 .. n - 1 : ring2[i] = rest[i]
    <3> HIDE DEF n, ring2
    <3>1. (n - 1) + 1 = n /\ n - 1 \in Nat  BY <1>1, <1>4
    <3> QED  BY <2>1, <2>2, <3>1, AppendProperties
  <2> HIDE DEF n, m, ring2, all2
  <2>4. n = AtMost(m + 1, cap)  BY <1>1, <1>3, <1>4 DEF AtMost
  <2>5. ASSUME NEW i \in 1 .. n PROVE ring2[i] = all2[m + 1 - n + i]
    <3>1. CASE i = n
      <4>1. m + 1 - n + i = m + 1  BY <1>1, <3>1
      <4> QED  BY <1>1, <2>3, <3>1, <4>1
    <3>2. CASE i # n
      <4>1. i \in 1 .. n - 1 /\ i + 1 \in 1 .. n  BY <1>1, <3>2
      <4>2. ring2[i] = ring[i + 1]  BY <2>1, <2>3, <4>1
      <4>3. ring[i + 1] = all[m - n + (i + 1)]  BY <1>2, <4>1
      <4>4. n \in Nat /\ m \in Nat /\ n <= m  BY <1>1, <1>3
      <4>5. m - n + (i + 1) = m + 1 - n + i  BY <4>4
      <4>6. m - n + (i + 1) \in 1 .. m  BY <4>1, <4>4
      <4> QED  BY <1>1, <4>2, <4>3, <4>5, <4>6
    <3> QED  BY <3>1, <3>2
  <2>6. IsNewest(ring2, all2, cap)  BY <1>1, <2>3, <2>4, <2>5 DEF IsNewest
  <2> QED  BY <2>6 DEF ring2, all2
<1>5. CASE ~(n >= cap)
  <2>1. ring2 = Append(ring, x)  BY <1>5 DEF PushCapped
  <2>2. /\ Len(ring2) = n + 1 /\ DOMAIN ring2 = 1 .. n + 1 /\ ring2[n + 1] = x
        /\ \A i \in 1 .. n : ring2[i] = ring[i]
    BY <1>1, <2>1
  <2> HIDE DEF n, m, ring2, all2
  <2>3. n = m /\ n + 1 = AtMost(m + 1, cap)  BY <1>1, <1>3, <1>5 DEF AtMost
  <2>4. ASSUME NEW i \in 1 .. n + 1
        PROVE  ring2[i] = all2[(m + 1) - (n + 1) + i]
    <3>1. (m + 1) - (n + 1) + i = i /\ m - n + i = i  BY <1>1, <2>3
    <3>2. i \in 1 .. n \/ i = n + 1  BY <1>1
    <3> QED  BY <1>1, <1>2, <2>2, <2>3, <3>1, <3>2
  <2>5. IsNewest(ring2, all2, cap)  BY <1>1, <2>2, <2>3, <2>4 DEF IsNewest
  <2> QED  BY <2>5 DEF ring2, all2
<1> QED  BY <1>4, <1>5

(* What the event ring keeps of an entry of the history. *)
Stripped(h) == [i \in DOMAIN h |-> [seq |-> h[i].seq, event |-> h[i].event]]

RingsInv ==
    /\ IsNewest(events, Stripped(log), EVENT_CAP)
    /\ IsNewest(violations, vlog, VIOLATION_CAP)

(* The history without the rules grows by the entry the ring receives. *)
LEMMA StrippedAppend ==
    ASSUME NEW h \in Seq([seq : Nat, event : Events, rules : RuleSets]),
           NEW e \in [seq : Nat, event : Events, rules : RuleSets]
    PROVE  /\ Stripped(h) \in Seq(Stored)
           /\ Stripped(Append(h, e))
                = Append(Stripped(h), [seq |-> e.seq, event |-> e.event])
<1> DEFINE x == [seq |-> e.seq, event |-> e.event]
           s == Stripped(h)
           t == Stripped(Append(h, e))
           n == Len(h)
<1>1. /\ n \in Nat /\ DOMAIN h = 1 .. n
      /\ \A i \in 1 .. n : h[i].seq \in Nat /\ h[i].event \in Events
  <2> DEFINE Entry == [seq : Nat, event : Events, rules : RuleSets]
  <2>1. h \in Seq(Entry)  OBVIOUS
  <2>2. \A y \in Entry : y.seq \in Nat /\ y.event \in Events  OBVIOUS
  <2> HIDE DEF Entry
  <2> QED  BY <2>1, <2>2
<1>2. s \in [1 .. n -> Stored]  BY <1>1 DEF Stripped, Stored
<1>3. s \in Seq(Stored) /\ Len(s) = n  BY <1>1, <1>2
<1>4. x \in Stored  BY DEF Stored
<1>5. /\ DOMAIN Append(h, e) = 1 .. n + 1 /\ Append(h, e)[n + 1] = e
      /\ \A i \in 1 .. n : Append(h, e)[i] = h[i]
  BY <1>1
<1>6. /\ t \in [1 .. n + 1 -> Stored] /\ t[n + 1] = x
      /\ \A i \in 1 .. n : t[i] = s[i]
  <2>1. /\ DOMAIN t = 1 .. n + 1 /\ t = [i \in DOMAIN t |-> t[i]]
        /\ t[n + 1] = x /\ \A i \in 1 .. n : t[i] = s[i]
    BY <1>1, <1>5 DEF Stripped
  <2> HIDE DEF x, s, t, n
  <2>2. \A i \in 1 .. n + 1 : i \in 1 .. n \/ i = n + 1  BY <1>1
  <2> QED  BY <1>2, <1>4, <2>1, <2>2
<1> HIDE DEF x, s, t, n
<1>7. t \in Seq(Stored) /\ Len(t) = n + 1  BY <1>1, <1>6
<1>8. /\ Append(s, x) \in Seq(Stored) /\ Len(Append(s, x)) = n + 1
      /\ Append(s, x)[n + 1] = x
      /\ \A i \in 1 .. n : Append(s, x)[i] = s[i]
  BY <1>3, <1>4, AppendProperties
<1>9. t = Append(s, x)
  <2>1. \A i \in 1 .. n + 1 : i \in 1 .. n \/ i = n + 1  BY <1>1
  <2>2. \A i \in 1 .. n + 1 : t[i] = Append(s, x)[i]  BY <1>6, <1>8, <2>1
  <2> QED  BY <1>7, <1>8, <2>2, SeqEqual
<1> QED  BY <1>3, <1>9 DEF s, t, x

(* Every push keeps both rings equal to the newest part of their history. *)
LEMMA RingsInvariant == SafeSpec => []RingsInv
<1>1. Init => RingsInv
  BY IngestAssumption DEF Init, RingsInv, IsNewest, Stripped, AtMost
<1>2. IngestInv /\ RingsInv /\ [Next]_vars => RingsInv'
  <2> SUFFICES ASSUME IngestInv, RingsInv, [Next]_vars PROVE RingsInv'  OBVIOUS
  <2>1. ASSUME UNCHANGED << events, log, violations, vlog >> PROVE RingsInv'
    BY <2>1 DEF RingsInv
  <2>2. ASSUME NEW c \in Callers, StoreEvent(c) PROVE RingsInv'
    <3> DEFINE e == [seq |-> call[c].seq, event |-> event(c),
                     rules |-> call[c].rules]
    <3>1. /\ events \in Seq(Stored) /\ call[c] \in Call
          /\ log \in Seq([seq : Nat, event : Events, rules : RuleSets])
          /\ pc[c] = "store" /\ Sound(pc[c], call[c])
      BY <2>2 DEF IngestInv, TypeOK, HoldInv, StoreEvent, At
    <3>2. event(c) \in Events  BY <3>1, EventInHand DEF Holding, Labels
    <3>3. call[c].seq \in Nat /\ call[c].rules \in RuleSets
      BY <3>1 DEF Call, Sound, Numbered, NoSeq
    <3>4. /\ e \in [seq : Nat, event : Events, rules : RuleSets]
          /\ e.seq = call[c].seq /\ e.event = event(c)
      BY <3>2, <3>3
    <3>5. /\ StoredEvent(c) = [seq |-> e.seq, event |-> e.event]
          /\ StoredEvent(c) \in Stored
      BY <3>2, <3>3 DEF StoredEvent, Stored
    <3>6. /\ events' = PushCapped(events, StoredEvent(c), EVENT_CAP)
          /\ log' = Append(log, e) /\ violations' = violations /\ vlog' = vlog
      BY <2>2 DEF StoreEvent
    <3> HIDE DEF e
    <3>7. /\ Stripped(log) \in Seq(Stored)
          /\ Stripped(log') = Append(Stripped(log), StoredEvent(c))
      BY <3>1, <3>4, <3>5, <3>6, StrippedAppend
    <3>8. IsNewest(events', Stripped(log'), EVENT_CAP)
      BY <3>1, <3>5, <3>6, <3>7, PushKeepsNewest, IngestAssumption DEF RingsInv
    <3>9. IsNewest(violations', vlog', VIOLATION_CAP)  BY <3>6 DEF RingsInv
    <3> QED  BY <3>8, <3>9 DEF RingsInv
  <2>3. ASSUME NEW c \in Callers, PushViolation(c) PROVE RingsInv'
    <3>1. violations \in Seq(Alert) /\ vlog \in Seq(Alert)
      BY DEF IngestInv, TypeOK
    <3>2. StoredViolation(c) \in Alert
      BY <2>3, AlertInHand DEF PushViolation, At, Alerting
    <3>3. /\ violations' = PushCapped(violations, StoredViolation(c), VIOLATION_CAP)
          /\ vlog' = Append(vlog, StoredViolation(c))
          /\ events' = events /\ log' = log
      BY <2>3 DEF PushViolation
    <3>4. IsNewest(violations', vlog', VIOLATION_CAP)
      BY <3>1, <3>2, <3>3, PushKeepsNewest, IngestAssumption DEF RingsInv
    <3>5. IsNewest(events', Stripped(log'), EVENT_CAP)  BY <3>3 DEF RingsInv
    <3> QED  BY <3>4, <3>5 DEF RingsInv
  <2>4. ASSUME NEW c \in Callers, Step(c) PROVE RingsInv'
    <3>1. CASE AssignSeq(c)  BY <2>1, <3>1 DEF AssignSeq, history
    <3>2. CASE ~AssignSeq(c) /\ ~StoreEvent(c) /\ ~PushViolation(c)
      <4>1. UNCHANGED Ledger  BY <2>4, <3>2, OtherSteps
      <4> QED  BY <2>1, <4>1 DEF Ledger
    <3> QED  BY <2>2, <2>3, <3>1, <3>2
  <2>5. ASSUME NEW c \in Callers, NEW b, Begin(c, b) PROVE RingsInv'
    BY <2>1, <2>5 DEF Begin, shared
  <2>6. ASSUME NEW r \in RuleSets, put_policy(r) PROVE RingsInv'
    BY <2>1, <2>6 DEF put_policy
  <2>7. CASE Tick  BY <2>1, <2>7 DEF Tick, history
  <2>8. CASE UNCHANGED vars  BY <2>1, <2>8 DEF vars, shared, history
  <2>9. Drain \in Callers /\ Handlers \subseteq Callers  BY DEF Callers
  <2> QED  BY <2>4, <2>5, <2>6, <2>7, <2>8, <2>9
           DEF Next, DrainRecv, post_events
<1> QED  BY <1>1, <1>2, IngestInvariant, PTL DEF SafeSpec

(* The mutexes make each push and eviction one step; whatever order the    *)
(* callers take them in, /v1/events and /v1/violations lose the oldest     *)
(* entries only.                                                           *)
THEOREM RingsKeepNewest == Spec => []RingsHoldNewest
<1>1. RingsInv => RingsHoldNewest
  BY DEF RingsInv, RingsHoldNewest, Stripped
<1> QED  BY <1>1, RingsInvariant, PTL DEF Spec, SafeSpec
=============================================================================
