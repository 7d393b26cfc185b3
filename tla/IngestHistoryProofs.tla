------------------------ MODULE IngestHistoryProofs -------------------------
(***************************************************************************)
(* The pipeline against the history of its events, for any number of       *)
(* callers: first what it counts (the exported counters, the process       *)
(* table, the replies), then the audit trail (what a stored event raises,  *)
(* what the broadcast stream shows of it and in which order, and that the  *)
(* pipeline implements the abstract trail of AuditTrail).                  *)
(***************************************************************************)
EXTENDS IngestProofs

(***************************************************************************)
(* Counting callers.  A step moves one caller, so the number of callers at *)
(* a set of labels changes by what that caller does.                       *)
(***************************************************************************)
Count(labels) == Cardinality(CallersAt(labels))

One(b) == IF b THEN 1 ELSE 0

(* A step of a caller, whichever it is, moves that caller only. *)
LEMMA StepsAlone ==
    ASSUME IngestInv, NEW c \in Callers, Step(c)
    PROVE  Alone(c)
<1>1. pc \in [Callers -> Labels] /\ call \in [Callers -> Call]
  BY DEF IngestInv, TypeOK
<1>2. CASE AssignSeq(c)  BY <1>1, <1>2 DEF AssignSeq, Alone, Goto
<1>3. CASE StoreEvent(c)  BY <1>1, <1>3 DEF StoreEvent, Alone, Goto
<1>4. CASE PushViolation(c)  BY <1>1, <1>4 DEF PushViolation, Alone, Goto
<1> QED  BY <1>2, <1>3, <1>4, OtherSteps

(* The callers at any labels are finitely many. *)
LEMMA CountType ==
    ASSUME NEW labels
    PROVE  IsFiniteSet(CallersAt(labels)) /\ Count(labels) \in Nat
<1>1. IsFiniteSet(CallersAt(labels))
  BY IngestAssumption, FS_Subset DEF CallersAt
<1> QED  BY <1>1, FS_CardinalityType DEF Count

(* The count follows the caller that moves. *)
LEMMA CountFollows ==
    ASSUME NEW c \in Callers, Alone(c), NEW labels
    PROVE  /\ Count(labels) \in Nat /\ Count(labels)' \in Nat
           /\ Count(labels)' + One(pc[c] \in labels)
                = Count(labels) + One(pc'[c] \in labels)
<1> DEFINE S == {d \in Callers : pc[d] \in labels}
           T == {d \in Callers : pc'[d] \in labels}
<1>0. S = CallersAt(labels) /\ T = CallersAt(labels)'
  BY DEF CallersAt
<1>1. IsFiniteSet(S) /\ IsFiniteSet(T) /\ Cardinality(S) \in Nat /\ Cardinality(T) \in Nat
  <2>1. IsFiniteSet(S) /\ IsFiniteSet(T)
    BY IngestAssumption, FS_Subset
  <2> QED  BY <2>1, FS_CardinalityType
<1>2. \A d \in Callers : d # c => (d \in S <=> d \in T)
  BY DEF Alone
<1>3. (c \in S <=> pc[c] \in labels) /\ (c \in T <=> pc'[c] \in labels)
  OBVIOUS
<1> HIDE DEF S, T
<1>4. S \subseteq Callers /\ T \subseteq Callers
  BY DEF S, T
<1>5. CASE c \in S <=> c \in T
  <2>1. S = T
    BY <1>2, <1>4, <1>5
  <2> QED  BY <1>0, <1>1, <1>3, <1>5, <2>1 DEF Count, One
<1>6. CASE c \in S /\ c \notin T
  <2>1. S = T \cup {c}
    BY <1>2, <1>4, <1>6
  <2>2. Cardinality(S) = Cardinality(T) + 1
    BY <1>1, <1>6, <2>1, FS_AddElement
  <2> QED  BY <1>0, <1>1, <1>3, <1>6, <2>2 DEF Count, One
<1>7. CASE c \notin S /\ c \in T
  <2>1. T = S \cup {c}
    BY <1>2, <1>4, <1>7
  <2>2. Cardinality(T) = Cardinality(S) + 1
    BY <1>1, <1>7, <2>1, FS_AddElement
  <2> QED  BY <1>0, <1>1, <1>3, <1>7, <2>2 DEF Count, One
<1> QED  BY <1>5, <1>6, <1>7

----------------------------------------------------------------------------
(* What a step of a caller does to the counters and to the histories they  *)
(* are compared with: the numbers given out, the stored events, the stored *)
(* violations.                                                             *)
Tally(ev, nx, st, vi, cr, wa, vl) ==
    /\ metrics'.events = metrics.events + ev
    /\ next_seq' = next_seq + nx
    /\ Len(log') = Len(log) + st
    /\ metrics'.violations = metrics.violations + vi
    /\ metrics'.critical = metrics.critical + cr
    /\ metrics'.warn = metrics.warn + wa
    /\ Len(vlog') = Len(vlog) + vl

Still == /\ metrics'.events = metrics.events /\ metrics'.violations = metrics.violations
         /\ metrics'.critical = metrics.critical /\ metrics'.warn = metrics.warn
         /\ next_seq' = next_seq /\ log' = log /\ vlog' = vlog

(* The labels at which a counter is ahead of, or behind, its history. *)
Counted == {"proc", "seq", "store", "vclass", "vpush"}

(* Every step of a caller, by what it counts and where it goes. *)
LEMMA StepTallies ==
    ASSUME IngestInv, NEW c \in Callers, Step(c)
    PROVE  \/ Still /\ pc[c] \notin Counted /\ pc'[c] \notin Counted
           \/ Tally(1, 0, 0, 0, 0, 0, 0) /\ pc[c] = "count" /\ pc'[c] \in {"proc", "seq"}
           \/ Still /\ pc[c] = "proc" /\ pc'[c] = "seq"
           \/ Tally(0, 1, 0, 0, 0, 0, 0) /\ pc[c] = "seq" /\ pc'[c] = "store"
           \/ Tally(0, 0, 1, 0, 0, 0, 0) /\ pc[c] = "store" /\ pc'[c] \notin Counted
           \/ Tally(0, 0, 0, 1, 0, 0, 0) /\ pc[c] = "vcount" /\ pc'[c] = "vclass"
           \/ /\ Tally(0, 0, 0, 0, 1, 0, 0) \/ Tally(0, 0, 0, 0, 0, 1, 0)
              /\ pc[c] = "vclass" /\ pc'[c] = "vpush"
           \/ Tally(0, 0, 0, 0, 0, 0, 1) /\ pc[c] = "vpush" /\ pc'[c] = "vsend"
<1> USE DEF At, Goto, Counted, shared, history
<1>1. /\ pc \in [Callers -> Labels] /\ metrics \in Counters /\ next_seq \in Nat
      /\ Len(log) \in Nat /\ Len(vlog) \in Nat
  BY DEF IngestInv, TypeOK
<1>2. /\ metrics.events \in Nat /\ metrics.violations \in Nat
      /\ metrics.critical \in Nat /\ metrics.warn \in Nat
  BY <1>1 DEF Counters
<1>3. \A x : Len(Append(log, x)) = Len(log) + 1 /\ Len(Append(vlog, x)) = Len(vlog) + 1
  BY DEF IngestInv, TypeOK
<1>4. CASE TakeEvent(c)  BY <1>1, <1>4 DEF TakeEvent, Still
<1>5. CASE ReadRules(c)  BY <1>1, <1>5 DEF ReadRules, Still
<1>6. CASE TryAcquire(c)  BY <1>1, <1>6 DEF TryAcquire, Still
<1>7. CASE Shed(c)  BY <1>1, <1>7 DEF Shed, Return, Still, Counters
<1>8. CASE CountEvent(c)
  <2>1. metrics' = [metrics EXCEPT !.events = @ + 1] /\ UNCHANGED << next_seq, log, vlog >>
    BY <1>8 DEF CountEvent
  <2>2. Tally(1, 0, 0, 0, 0, 0, 0)
    BY <1>1, <1>2, <2>1 DEF Tally, Counters
  <2>3. pc[c] = "count" /\ pc'[c] \in {"proc", "seq"}
    BY <1>1, <1>8 DEF CountEvent
  <2> QED  BY <2>2, <2>3
<1>9. CASE RecordProcess(c)  BY <1>1, <1>9 DEF RecordProcess, Still
<1>10. CASE AssignSeq(c)
  <2>1. next_seq' = next_seq + 1 /\ UNCHANGED << metrics, log, vlog >>
    BY <1>10 DEF AssignSeq
  <2>2. Tally(0, 1, 0, 0, 0, 0, 0)
    BY <1>1, <1>2, <2>1 DEF Tally
  <2>3. pc[c] = "seq" /\ pc'[c] = "store"
    BY <1>1, <1>10 DEF AssignSeq
  <2> QED  BY <2>2, <2>3
<1>11. CASE StoreEvent(c)
  <2>1. Len(log') = Len(log) + 1 /\ UNCHANGED << metrics, next_seq, vlog >>
    BY <1>3, <1>11 DEF StoreEvent
  <2>2. Tally(0, 0, 1, 0, 0, 0, 0)
    BY <1>1, <1>2, <2>1 DEF Tally
  <2>3. pc[c] = "store" /\ pc'[c] \notin Counted
    BY <1>1, <1>11 DEF StoreEvent
  <2> QED  BY <2>2, <2>3
<1>12. CASE StampViolation(c)  BY <1>1, <1>12 DEF StampViolation, Still
<1>13. CASE CountViolation(c)
  <2>1. /\ metrics' = [metrics EXCEPT !.violations = @ + 1]
        /\ UNCHANGED << next_seq, log, vlog >>
    BY <1>13 DEF CountViolation
  <2>2. Tally(0, 0, 0, 1, 0, 0, 0)
    BY <1>1, <1>2, <2>1 DEF Tally, Counters
  <2>3. pc[c] = "vcount" /\ pc'[c] = "vclass"
    BY <1>1, <1>13 DEF CountViolation
  <2> QED  BY <2>2, <2>3
<1>14. CASE ClassifyViolation(c)
  <2>1. /\ \/ metrics' = [metrics EXCEPT !.critical = @ + 1]
           \/ metrics' = [metrics EXCEPT !.warn = @ + 1]
        /\ UNCHANGED << next_seq, log, vlog >>
    BY <1>14 DEF ClassifyViolation
  <2>2. Tally(0, 0, 0, 0, 1, 0, 0) \/ Tally(0, 0, 0, 0, 0, 1, 0)
    BY <1>1, <1>2, <2>1 DEF Tally, Counters
  <2>3. pc[c] = "vclass" /\ pc'[c] = "vpush"
    BY <1>1, <1>14 DEF ClassifyViolation
  <2> QED  BY <2>2, <2>3
<1>15. CASE PushViolation(c)
  <2>1. Len(vlog') = Len(vlog) + 1 /\ UNCHANGED << metrics, next_seq, log >>
    BY <1>3, <1>15 DEF PushViolation
  <2>2. Tally(0, 0, 0, 0, 0, 0, 1)
    BY <1>1, <1>2, <2>1 DEF Tally
  <2>3. pc[c] = "vpush" /\ pc'[c] = "vsend"
    BY <1>1, <1>15 DEF PushViolation
  <2> QED  BY <2>2, <2>3
<1>16. CASE SendViolation(c)  BY <1>1, <1>16 DEF SendViolation, Still
<1>17. CASE SendEvent(c)  BY <1>1, <1>17 DEF SendEvent, Still
<1>18. CASE ObserveLatency(c)  BY <1>1, <1>18 DEF ObserveLatency, Return, Still, Counters
<1>19. CASE Reply(c)  BY <1>1, <1>19 DEF Reply, Still
<1> QED  BY <1>4, <1>5, <1>6, <1>7, <1>8, <1>9, <1>10, <1>11, <1>12, <1>13, <1>14,
            <1>15, <1>16, <1>17, <1>18, <1>19 DEF Step

CountersInv ==
    /\ metrics.events = next_seq + Count({"proc", "seq"})
    /\ next_seq = Len(log) + Count({"store"})
    /\ metrics.violations = Len(vlog) + Count({"vclass", "vpush"})
    /\ metrics.violations = metrics.critical + metrics.warn + Count({"vclass"})

(* Every step keeps each counter level with its history. *)
LEMMA CountersInvariant == SafeSpec => []CountersInv
<1>1. Init => CountersInv
  <2> SUFFICES ASSUME Init PROVE CountersInv
    OBVIOUS
  <2>1. \A labels : "idle" \notin labels => CallersAt(labels) = {}
    BY DEF Init, CallersAt
  <2>2. \A labels : "idle" \notin labels => Count(labels) = 0
    BY <2>1, FS_EmptySet DEF Count
  <2> QED  BY <2>2 DEF Init, CountersInv
<1>2. IngestInv /\ CountersInv /\ [Next]_vars => CountersInv'
  <2> SUFFICES ASSUME IngestInv, CountersInv, [Next]_vars PROVE CountersInv'
    OBVIOUS
  <2>0. /\ metrics.events \in Nat /\ metrics.violations \in Nat
        /\ metrics.critical \in Nat /\ metrics.warn \in Nat
        /\ next_seq \in Nat /\ Len(log) \in Nat /\ Len(vlog) \in Nat
    BY DEF IngestInv, TypeOK, Counters
  <2>1. ASSUME NEW c \in Callers, Step(c) PROVE CountersInv'
    <3> DEFINE P == Count({"proc", "seq"})   S == Count({"store"})
               V == Count({"vclass", "vpush"})   W == Count({"vclass"})
               P1 == Count({"proc", "seq"})'   S1 == Count({"store"})'
               V1 == Count({"vclass", "vpush"})'   W1 == Count({"vclass"})'
               n == next_seq   n1 == next_seq'
               l == Len(log)   l1 == Len(log')   v == Len(vlog)   v1 == Len(vlog')
               e == metrics.events   e1 == metrics'.events
               w == metrics.violations   w1 == metrics'.violations
               k == metrics.critical   k1 == metrics'.critical
               h == metrics.warn   h1 == metrics'.warn
    <3>1. Alone(c)
      BY <2>1, StepsAlone
    <3>2. /\ P \in Nat /\ P1 + One(pc[c] \in {"proc", "seq"})
                             = P + One(pc'[c] \in {"proc", "seq"})
          /\ S \in Nat /\ S1 + One(pc[c] \in {"store"}) = S + One(pc'[c] \in {"store"})
          /\ V \in Nat /\ V1 + One(pc[c] \in {"vclass", "vpush"})
                             = V + One(pc'[c] \in {"vclass", "vpush"})
          /\ W \in Nat /\ W1 + One(pc[c] \in {"vclass"}) = W + One(pc'[c] \in {"vclass"})
      BY <3>1, CountFollows
    <3>3. /\ P \in Nat /\ S \in Nat /\ V \in Nat /\ W \in Nat
          /\ P1 \in Nat /\ S1 \in Nat /\ V1 \in Nat /\ W1 \in Nat
      BY <3>1, CountFollows
    <3>4. e = n + P /\ n = l + S /\ w = v + V /\ w = k + h + W
      BY DEF CountersInv
    <3>5. /\ e \in Nat /\ n \in Nat /\ l \in Nat /\ v \in Nat
          /\ w \in Nat /\ k \in Nat /\ h \in Nat
      BY <2>0
    <3>6. Still => e1 = e /\ n1 = n /\ l1 = l /\ v1 = v /\ w1 = w /\ k1 = k /\ h1 = h
      BY DEF Still
    <3>7. \A ev, nx, st, vi, cr, wa, vl : Tally(ev, nx, st, vi, cr, wa, vl) =>
             /\ e1 = e + ev /\ n1 = n + nx /\ l1 = l + st /\ w1 = w + vi
             /\ k1 = k + cr /\ h1 = h + wa /\ v1 = v + vl
      BY DEF Tally
    <3> HIDE DEF P, S, V, W, P1, S1, V1, W1, e, e1, n, n1, l, l1, v, v1, w, w1, k, k1, h, h1
    <3>8. e1 = n1 + P1 /\ n1 = l1 + S1 /\ w1 = v1 + V1 /\ w1 = k1 + h1 + W1
      <4>1. CASE Still /\ pc[c] \notin Counted /\ pc'[c] \notin Counted
        <5>1. P1 = P /\ S1 = S /\ V1 = V /\ W1 = W
          BY <3>2, <3>3, <4>1 DEF Counted, One
        <5>2. e1 = e /\ n1 = n /\ l1 = l /\ v1 = v /\ w1 = w /\ k1 = k /\ h1 = h
          BY <4>1, <3>6
        <5> QED  BY <3>3, <3>4, <3>5, <5>1, <5>2
      <4>2. CASE Tally(1, 0, 0, 0, 0, 0, 0) /\ pc[c] = "count" /\ pc'[c] \in {"proc", "seq"}
        <5>1. P1 = P + 1 /\ S1 = S /\ V1 = V /\ W1 = W
          BY <3>2, <3>3, <4>2 DEF Counted, One
        <5>2. e1 = e + 1 /\ n1 = n + 0 /\ l1 = l + 0 /\ w1 = w + 0 /\ k1 = k + 0 /\ h1 = h + 0 /\ v1 = v + 0
          BY <4>2, <3>7
        <5> QED  BY <3>3, <3>4, <3>5, <5>1, <5>2
      <4>3. CASE Still /\ pc[c] = "proc" /\ pc'[c] = "seq"
        <5>1. P1 = P /\ S1 = S /\ V1 = V /\ W1 = W
          BY <3>2, <3>3, <4>3 DEF Counted, One
        <5>2. e1 = e /\ n1 = n /\ l1 = l /\ v1 = v /\ w1 = w /\ k1 = k /\ h1 = h
          BY <4>3, <3>6
        <5> QED  BY <3>3, <3>4, <3>5, <5>1, <5>2
      <4>4. CASE Tally(0, 1, 0, 0, 0, 0, 0) /\ pc[c] = "seq" /\ pc'[c] = "store"
        <5>1. P1 + 1 = P /\ S1 = S + 1 /\ V1 = V /\ W1 = W
          BY <3>2, <3>3, <4>4 DEF Counted, One
        <5>2. e1 = e + 0 /\ n1 = n + 1 /\ l1 = l + 0 /\ w1 = w + 0 /\ k1 = k + 0 /\ h1 = h + 0 /\ v1 = v + 0
          BY <4>4, <3>7
        <5> QED  BY <3>3, <3>4, <3>5, <5>1, <5>2
      <4>5. CASE Tally(0, 0, 1, 0, 0, 0, 0) /\ pc[c] = "store" /\ pc'[c] \notin Counted
        <5>1. P1 = P /\ S1 + 1 = S /\ V1 = V /\ W1 = W
          BY <3>2, <3>3, <4>5 DEF Counted, One
        <5>2. e1 = e + 0 /\ n1 = n + 0 /\ l1 = l + 1 /\ w1 = w + 0 /\ k1 = k + 0 /\ h1 = h + 0 /\ v1 = v + 0
          BY <4>5, <3>7
        <5> QED  BY <3>3, <3>4, <3>5, <5>1, <5>2
      <4>6. CASE Tally(0, 0, 0, 1, 0, 0, 0) /\ pc[c] = "vcount" /\ pc'[c] = "vclass"
        <5>1. P1 = P /\ S1 = S /\ V1 = V + 1 /\ W1 = W + 1
          BY <3>2, <3>3, <4>6 DEF Counted, One
        <5>2. e1 = e + 0 /\ n1 = n + 0 /\ l1 = l + 0 /\ w1 = w + 1 /\ k1 = k + 0 /\ h1 = h + 0 /\ v1 = v + 0
          BY <4>6, <3>7
        <5> QED  BY <3>3, <3>4, <3>5, <5>1, <5>2
      <4>7. CASE Tally(0, 0, 0, 0, 1, 0, 0) /\ pc[c] = "vclass" /\ pc'[c] = "vpush"
        <5>1. P1 = P /\ S1 = S /\ V1 = V /\ W1 + 1 = W
          BY <3>2, <3>3, <4>7 DEF Counted, One
        <5>2. e1 = e + 0 /\ n1 = n + 0 /\ l1 = l + 0 /\ w1 = w + 0 /\ k1 = k + 1 /\ h1 = h + 0 /\ v1 = v + 0
          BY <4>7, <3>7
        <5> QED  BY <3>3, <3>4, <3>5, <5>1, <5>2
      <4>8. CASE Tally(0, 0, 0, 0, 0, 1, 0) /\ pc[c] = "vclass" /\ pc'[c] = "vpush"
        <5>1. P1 = P /\ S1 = S /\ V1 = V /\ W1 + 1 = W
          BY <3>2, <3>3, <4>8 DEF Counted, One
        <5>2. e1 = e + 0 /\ n1 = n + 0 /\ l1 = l + 0 /\ w1 = w + 0 /\ k1 = k + 0 /\ h1 = h + 1 /\ v1 = v + 0
          BY <4>8, <3>7
        <5> QED  BY <3>3, <3>4, <3>5, <5>1, <5>2
      <4>9. CASE Tally(0, 0, 0, 0, 0, 0, 1) /\ pc[c] = "vpush" /\ pc'[c] = "vsend"
        <5>1. P1 = P /\ S1 = S /\ V1 + 1 = V /\ W1 = W
          BY <3>2, <3>3, <4>9 DEF Counted, One
        <5>2. e1 = e + 0 /\ n1 = n + 0 /\ l1 = l + 0 /\ w1 = w + 0 /\ k1 = k + 0 /\ h1 = h + 0 /\ v1 = v + 1
          BY <4>9, <3>7
        <5> QED  BY <3>3, <3>4, <3>5, <5>1, <5>2
      <4> QED  BY <2>1, StepTallies, <4>1, <4>2, <4>3, <4>4, <4>5, <4>6, <4>7, <4>8, <4>9
    <3> QED
      BY <3>8 DEF CountersInv, P1, S1, V1, W1, e1, n1, l1, v1, w1, k1, h1
  <2>2. ASSUME NEW c \in Callers, NEW b, Begin(c, b) PROVE CountersInv'
    <3>1. /\ UNCHANGED << metrics, next_seq, log, vlog >>
          /\ pc[c] = "idle" /\ pc'[c] = "loop" /\ Alone(c)
      BY <2>2 DEF IngestInv, TypeOK, Begin, At, Goto, Alone, shared
    <3>2. \A labels : "idle" \notin labels /\ "loop" \notin labels =>
             CallersAt(labels)' = CallersAt(labels)
      BY <3>1 DEF Alone, CallersAt
    <3> QED  BY <3>1, <3>2 DEF CountersInv, Count
  <2>3. ASSUME UNCHANGED << metrics, next_seq, log, vlog, pc >> PROVE CountersInv'
    BY <2>3 DEF CountersInv, Count, CallersAt
  <2>4. ASSUME NEW r \in RuleSets, put_policy(r) PROVE CountersInv'
    BY <2>3, <2>4 DEF put_policy
  <2>5. CASE Tick  BY <2>3, <2>5 DEF Tick, history
  <2>6. CASE UNCHANGED vars  BY <2>3, <2>6 DEF vars, shared, history
  <2>7. Drain \in Callers /\ Handlers \subseteq Callers  BY DEF Callers
  <2> QED  BY <2>1, <2>2, <2>4, <2>5, <2>6, <2>7 DEF Next, DrainRecv, post_events
<1> QED  BY <1>1, <1>2, IngestInvariant, PTL DEF SafeSpec

(* At every moment the exported counters are exactly what the pipeline did *)
(* so far, plus the calls that are between a counter and the state it      *)
(* counts, for any number of callers.                                      *)
THEOREM CountersAreExact == Spec => []CountersAgree
<1>1. CountersInv => CountersAgree
  BY DEF CountersInv, CountersAgree, Count
<1> QED  BY <1>1, CountersInvariant, PTL DEF Spec, SafeSpec

----------------------------------------------------------------------------
(***************************************************************************)
(* The process table.  An exec is entered before it gets its number, so    *)
(* the table is checked against the history and against the events that    *)
(* are on their way to it.                                                 *)
(***************************************************************************)
Storing == {"seq", "store"}

IsExec(e) == e.type = "proc_exec"

FromTrail(e) ==
    \/ \E i \in DOMAIN log : log[i].event = e
    \/ \E c \in Callers : pc[c] \in Storing /\ event(c) = e

ProcessInv ==
    /\ \A i \in DOMAIN log : IsExec(log[i].event) =>
          log[i].event.tgid \in DOMAIN processes
    /\ \A c \in Callers : pc[c] \in Storing /\ IsExec(event(c)) =>
          event(c).tgid \in DOMAIN processes
    /\ \A t \in DOMAIN processes : FromTrail(processes[t])

(* A step of a caller that is not on its way to store, or that stays on    *)
(* it, with the table and the history as they were.                        *)
LEMMA ProcessesKept ==
    ASSUME ProcessInv, log' = log, processes' = processes,
           \A d \in Callers : /\ pc'[d] \in Storing <=> pc[d] \in Storing
                              /\ pc[d] \in Storing => event(d)' = event(d)
    PROVE  ProcessInv'
<1>1. \A e : FromTrail(e) => FromTrail(e)'
  BY DEF FromTrail
<1> QED  BY <1>1 DEF ProcessInv

(* An event that is no exec goes straight to its number. *)
LEMMA ProcessesPassed ==
    ASSUME IngestInv, ProcessInv, NEW c \in Callers, CountEvent(c)
    PROVE  ProcessInv'
<1>1. pc \in [Callers -> Labels]
  BY DEF IngestInv, TypeOK
<1>2. /\ log' = log /\ processes' = processes /\ call' = call /\ pc[c] = "count"
      /\ pc'[c] \in Storing => ~IsExec(event(c))
      /\ \A d \in Callers : d # c => pc'[d] = pc[d]
  BY <1>1 DEF CountEvent, Goto, At, history, IsExec, Storing
<1>3. \A d \in Callers : event(d)' = event(d)
  BY <1>2 DEF event
<1>4. pc[c] \notin Storing
  BY <1>2 DEF Storing
<1>5. \A e : FromTrail(e) => FromTrail(e)'
  BY <1>2, <1>3, <1>4 DEF FromTrail
<1> QED  BY <1>2, <1>3, <1>4, <1>5 DEF ProcessInv

(* An exec is entered in the table and goes on to its number. *)
LEMMA ProcessesEntered ==
    ASSUME IngestInv, ProcessInv, NEW c \in Callers, RecordProcess(c)
    PROVE  ProcessInv'
<1>1. pc \in [Callers -> Labels]
  BY DEF IngestInv, TypeOK
<1>2. /\ log' = log /\ call' = call /\ pc[c] = "proc" /\ pc'[c] = "seq"
      /\ processes' = Inserted(processes, event(c).tgid, event(c))
      /\ \A d \in Callers : d # c => pc'[d] = pc[d]
  BY <1>1 DEF RecordProcess, Goto, At, history
<1>3. \A d \in Callers : event(d)' = event(d)
  BY <1>2 DEF event
<1>4. pc[c] \notin Storing /\ pc'[c] \in Storing
  BY <1>2 DEF Storing
<1>5. \A e : FromTrail(e) => FromTrail(e)'
  BY <1>2, <1>3, <1>4 DEF FromTrail
<1>7. /\ DOMAIN processes' = DOMAIN processes \cup {event(c).tgid}
      /\ \A t \in DOMAIN processes' :
            processes'[t] = IF t = event(c).tgid THEN event(c) ELSE processes[t]
  BY <1>2 DEF Inserted
<1>8. ASSUME NEW t \in DOMAIN processes', NEW e, e = processes'[t]
      PROVE  FromTrail(e)'
  <2>1. CASE t = event(c).tgid
    <3>1. e = event(c)
      BY <1>7, <1>8, <2>1
    <3> QED  BY <1>3, <1>4, <3>1 DEF FromTrail
  <2>2. CASE t # event(c).tgid
    <3>1. t \in DOMAIN processes /\ e = processes[t]
      BY <1>7, <1>8, <2>2
    <3> QED  BY <1>5, <3>1 DEF ProcessInv
  <2> QED  BY <2>1, <2>2
<1>9. \A d \in Callers : pc'[d] \in Storing /\ IsExec(event(d)) =>
         event(d).tgid \in DOMAIN processes'
  BY <1>2, <1>7 DEF ProcessInv
<1> QED  BY <1>2, <1>3, <1>7, <1>8, <1>9 DEF ProcessInv

(* A stored event passes from its caller to the history. *)
LEMMA ProcessesStored ==
    ASSUME IngestInv, ProcessInv, NEW c \in Callers, StoreEvent(c)
    PROVE  ProcessInv'
<1> DEFINE n == Len(log)
<1>1. /\ pc \in [Callers -> Labels] /\ call \in [Callers -> Call]
      /\ log \in Seq([seq : Nat, event : Events, rules : RuleSets])
  BY DEF IngestInv, TypeOK
<1>2. /\ processes' = processes /\ pc[c] \in Storing /\ pc'[c] \notin Storing
      /\ log' = Append(log, [seq |-> call[c].seq, event |-> event(c),
                             rules |-> call[c].rules])
      /\ \A d \in Callers : d # c => pc'[d] = pc[d] /\ call'[d] = call[d]
  BY <1>1 DEF StoreEvent, Goto, At, Storing
<1>3. /\ n \in Nat /\ DOMAIN log = 1 .. n /\ DOMAIN log' = 1 .. n + 1
      /\ \A i \in 1 .. n : log'[i] = log[i]
      /\ log'[n + 1].event = event(c)
  BY <1>1, <1>2
<1> HIDE DEF n
<1>4. \A d \in Callers : d # c => event(d)' = event(d)
  BY <1>2 DEF event
<1>5. \A e : FromTrail(e) => FromTrail(e)'
  <2> SUFFICES ASSUME NEW e, FromTrail(e) PROVE FromTrail(e)'
    OBVIOUS
  <2>1. CASE \E i \in DOMAIN log : log[i].event = e
    <3>1. PICK i \in 1 .. n : log[i].event = e
      BY <1>3, <2>1
    <3>2. i \in DOMAIN log' /\ log'[i].event = e
      BY <1>3, <3>1
    <3> QED  BY <3>2 DEF FromTrail
  <2>2. CASE event(c) = e
    <3>1. n + 1 \in DOMAIN log' /\ log'[n + 1].event = e
      BY <1>3, <2>2
    <3> QED  BY <3>1 DEF FromTrail
  <2>3. CASE \E d \in Callers : d # c /\ pc[d] \in Storing /\ event(d) = e
    BY <1>2, <1>4, <2>3 DEF FromTrail
  <2> QED  BY <2>1, <2>2, <2>3 DEF FromTrail
<1>6. \A i \in DOMAIN log' : i \in 1 .. n \/ i = n + 1
  BY <1>3
<1>7. \A i \in DOMAIN log' : IsExec(log'[i].event) =>
         log'[i].event.tgid \in DOMAIN processes'
  BY <1>2, <1>3, <1>6 DEF ProcessInv
<1> QED  BY <1>2, <1>4, <1>5, <1>7 DEF ProcessInv

(* Steps that leave the table alone and move nobody to or from a number. *)
LEMMA ProcessesAside ==
    ASSUME IngestInv, NEW c \in Callers, Step(c),
           ~CountEvent(c), ~RecordProcess(c), ~StoreEvent(c)
    PROVE  /\ log' = log /\ processes' = processes
           /\ \A d \in Callers : /\ pc'[d] \in Storing <=> pc[d] \in Storing
                                 /\ pc[d] \in Storing => event(d)' = event(d)
<1> USE DEF At, Goto, Storing, shared, history, event
<1>1. pc \in [Callers -> Labels] /\ call \in [Callers -> Call]
  BY DEF IngestInv, TypeOK
<1>2. CASE AssignSeq(c)  BY <1>1, <1>2 DEF AssignSeq, Call
<1>3. CASE PushViolation(c)  BY <1>1, <1>3 DEF PushViolation
<1>4. CASE TakeEvent(c)  BY <1>1, <1>4 DEF TakeEvent
<1>5. CASE ReadRules(c)  BY <1>1, <1>5 DEF ReadRules
<1>6. CASE TryAcquire(c)  BY <1>1, <1>6 DEF TryAcquire
<1>7. CASE Shed(c)  BY <1>1, <1>7 DEF Shed, Return
<1>8. CASE StampViolation(c)  BY <1>1, <1>8 DEF StampViolation
<1>9. CASE CountViolation(c)  BY <1>1, <1>9 DEF CountViolation
<1>10. CASE ClassifyViolation(c)  BY <1>1, <1>10 DEF ClassifyViolation
<1>11. CASE SendViolation(c)  BY <1>1, <1>11 DEF SendViolation
<1>12. CASE SendEvent(c)  BY <1>1, <1>12 DEF SendEvent
<1>13. CASE ObserveLatency(c)  BY <1>1, <1>13 DEF ObserveLatency, Return
<1>14. CASE Reply(c)  BY <1>1, <1>14 DEF Reply
<1> QED  BY <1>2, <1>3, <1>4, <1>5, <1>6, <1>7, <1>8, <1>9, <1>10, <1>11, <1>12,
            <1>13, <1>14 DEF Step

(* Every step keeps the process table in line with the trail. *)
LEMMA ProcessInvariant == SafeSpec => []ProcessInv
<1>1. Init => ProcessInv
  BY DEF Init, ProcessInv, Storing
<1>2. IngestInv /\ ProcessInv /\ [Next]_vars => ProcessInv'
  <2> SUFFICES ASSUME IngestInv, ProcessInv, [Next]_vars PROVE ProcessInv'
    OBVIOUS
  <2>1. ASSUME NEW c \in Callers, Step(c) PROVE ProcessInv'
    BY <2>1, ProcessesPassed, ProcessesEntered, ProcessesStored, ProcessesAside,
       ProcessesKept
  <2>2. ASSUME NEW c \in Callers, NEW b, Begin(c, b) PROVE ProcessInv'
    <3>1. /\ log' = log /\ processes' = processes
          /\ \A d \in Callers : /\ pc'[d] \in Storing <=> pc[d] \in Storing
                                /\ pc[d] \in Storing => event(d)' = event(d)
      BY <2>2 DEF IngestInv, TypeOK, Begin, At, Goto, Storing, shared, event
    <3> QED  BY <3>1, ProcessesKept
  <2>3. ASSUME UNCHANGED << pc, call, log, processes >> PROVE ProcessInv'
    BY <2>3, ProcessesKept DEF event
  <2>4. ASSUME NEW r \in RuleSets, put_policy(r) PROVE ProcessInv'
    BY <2>3, <2>4 DEF put_policy
  <2>5. CASE Tick  BY <2>3, <2>5 DEF Tick, history
  <2>6. CASE UNCHANGED vars  BY <2>3, <2>6 DEF vars, shared, history
  <2>7. Drain \in Callers /\ Handlers \subseteq Callers  BY DEF Callers
  <2> QED  BY <2>1, <2>2, <2>4, <2>5, <2>6, <2>7 DEF Next, DrainRecv, post_events
<1> QED  BY <1>1, <1>2, IngestInvariant, PTL DEF SafeSpec

(* A stored exec is always in the process table, however the callers race, *)
(* and the table holds only what an event of the trail, or one that has    *)
(* passed the rate limit and is about to be stored, put there.             *)
THEOREM ProcessTableFollowsTrail == Spec => []ProcessesRecordExecs
<1>1. ProcessInv => ProcessesRecordExecs
  BY DEF ProcessInv, ProcessesRecordExecs, CallersAt, FromTrail, Storing, IsExec
<1> QED  BY <1>1, ProcessInvariant, PTL DEF Spec, SafeSpec

----------------------------------------------------------------------------
(***************************************************************************)
(* The books.  A sum over the callers is the number of pairs <<c, i>> with *)
(* i between 1 and what c contributes.                                     *)
(***************************************************************************)
UnitsOf(c, k) == {c} \X (1 .. k)
Units(f) == UNION {UnitsOf(c, f[c]) : c \in Callers}
Total(f) == Cardinality(Units(f))

(* A caller has as many units as it contributes. *)
LEMMA UnitsOfOne ==
    ASSUME NEW c, NEW k \in Nat
    PROVE  IsFiniteSet(UnitsOf(c, k)) /\ Cardinality(UnitsOf(c, k)) = k
<1> DEFINE S == {c}   T == 1 .. k
<1>1. IsFiniteSet(S) /\ Cardinality(S) = 1
  BY FS_Singleton
<1>2. IsFiniteSet(T) /\ Cardinality(T) = k
  BY FS_Interval
<1>3. UnitsOf(c, k) = S \X T
  BY DEF UnitsOf
<1> HIDE DEF S, T
<1>4. IsFiniteSet(S \X T) /\ Cardinality(S \X T) = Cardinality(S) * Cardinality(T)
  BY <1>1, <1>2, FS_Product
<1> QED  BY <1>1, <1>2, <1>3, <1>4

(* Every sum over the callers is a natural number. *)
LEMMA TotalType ==
    ASSUME NEW f \in [Callers -> Nat]
    PROVE  IsFiniteSet(Units(f)) /\ Total(f) \in Nat
<1> DEFINE S == {UnitsOf(c, f[c]) : c \in Callers}
           g == [c \in Callers |-> UnitsOf(c, f[c])]
<1>1. g \in Surjection(Callers, S)
  BY DEF Surjection
<1>2. IsFiniteSet(S)
  <2> HIDE DEF S, g
  <2> QED  BY <1>1, IngestAssumption, FS_Surjection
<1>3. \A T \in S : IsFiniteSet(T)
  BY UnitsOfOne
<1>4. IsFiniteSet(UNION S)
  <2> HIDE DEF S
  <2> QED  BY <1>2, <1>3, FS_UNION
<1>5. IsFiniteSet(Units(f))
  BY <1>4 DEF Units
<1> QED  BY <1>5, FS_CardinalityType DEF Total

(* A sum of nothing is zero. *)
LEMMA TotalZero ==
    ASSUME NEW f, \A c \in Callers : f[c] = 0
    PROVE  Total(f) = 0
<1>1. \A c \in Callers : UnitsOf(c, f[c]) = {}
  BY DEF UnitsOf
<1>2. Units(f) = {}
  BY <1>1 DEF Units
<1> QED  BY <1>2, FS_EmptySet DEF Total

(* When one caller's contribution changes, the sum changes by as much. *)
LEMMA TotalFollows ==
    ASSUME NEW f \in [Callers -> Nat], NEW g \in [Callers -> Nat],
           NEW c \in Callers, \A d \in Callers : d # c => g[d] = f[d]
    PROVE  Total(g) + f[c] = Total(f) + g[c]
<1> DEFINE Rest == UNION {UnitsOf(d, f[d]) : d \in Callers \ {c}}
<1>1. Units(f) = Rest \cup UnitsOf(c, f[c])
  BY DEF Units
<1>2. Units(g) = Rest \cup UnitsOf(c, g[c])
  BY DEF Units
<1>3. \A k : Rest \cap UnitsOf(c, k) = {}
  BY DEF UnitsOf
<1>4. IsFiniteSet(Rest)
  BY <1>1, TotalType, FS_Subset
<1> HIDE DEF Rest
<1>5. ASSUME NEW k \in Nat
      PROVE  Cardinality(Rest \cup UnitsOf(c, k)) = Cardinality(Rest) + k
  <2>1. Cardinality(Rest \cap UnitsOf(c, k)) = 0
    BY <1>3, FS_EmptySet
  <2>2. Cardinality(Rest) \in Nat
    BY <1>4, FS_CardinalityType
  <2>3. Cardinality(Rest \cup UnitsOf(c, k))
          = Cardinality(Rest) + Cardinality(UnitsOf(c, k))
              - Cardinality(Rest \cap UnitsOf(c, k))
    BY <1>4, UnitsOfOne, FS_Union
  <2> QED  BY <2>1, <2>2, <2>3, UnitsOfOne
<1>6. f[c] \in Nat /\ g[c] \in Nat /\ Cardinality(Rest) \in Nat
  BY <1>4, FS_CardinalityType
<1>7. Total(f) = Cardinality(Rest) + f[c] /\ Total(g) = Cardinality(Rest) + g[c]
  BY <1>1, <1>2, <1>5, <1>6 DEF Total
<1> QED  BY <1>6, <1>7
(* What the calls in progress have taken, have had accepted, and have left *)
(* to do; and the labels of a call whose event in hand is in the trail.    *)
Taken == [c \in Callers |-> call[c].size]
Won   == [c \in Callers |-> call[c].accepted]
Left  == [c \in Callers |-> Len(call[c].batch)]
InTrail == Pending \cup {"observe"}

BooksInv ==
    /\ offered = acked + nacked + Total(Taken)
    /\ Len(log) = acked + Total(Won) + Count(InTrail)
    /\ metrics.dropped + Total(Won) + Total(Left) = nacked + Total(Taken)
    /\ \A c \in Callers : pc[c] = "idle" => call[c].size = 0

(* What one caller contributes on each side of a step. *)
Balanced(c) ==
    /\ (offered' + acked + nacked) + call[c].size
          = (offered + acked' + nacked') + call'[c].size
    /\ (Len(log') + acked) + (call[c].accepted + One(pc[c] \in InTrail))
          = (Len(log) + acked') + (call'[c].accepted + One(pc'[c] \in InTrail))
    /\ (metrics'.dropped + nacked)
             + (call'[c].accepted + Len(call'[c].batch) + call[c].size)
          = (metrics.dropped + nacked')
             + (call[c].accepted + Len(call[c].batch) + call'[c].size)
    /\ pc'[c] = "idle" => call'[c].size = 0

(* A step that balances for the caller that makes it balances the books. *)
LEMMA BooksFollow ==
    ASSUME IngestInv, IngestInv', BooksInv, NEW c \in Callers, Alone(c), Balanced(c)
    PROVE  BooksInv'
<1> DEFINE T1 == [d \in Callers |-> call'[d].size]
           W1 == [d \in Callers |-> call'[d].accepted]
           L1 == [d \in Callers |-> Len(call'[d].batch)]
           t == Total(Taken)   t1 == Total(T1)   w == Total(Won)   w1 == Total(W1)
           l == Total(Left)   l1 == Total(L1)   n == Count(InTrail)   n1 == Count(InTrail)'
           i == One(pc[c] \in InTrail)   i1 == One(pc'[c] \in InTrail)
           s == call[c].size   s1 == call'[c].size
           a == call[c].accepted   a1 == call'[c].accepted
           b == Len(call[c].batch)   b1 == Len(call'[c].batch)
           o == offered   o1 == offered'   p == acked   p1 == acked'   q == nacked   q1 == nacked'
           g == Len(log)   g1 == Len(log')   x == metrics.dropped   x1 == metrics'.dropped
<1>1. /\ call \in [Callers -> Call] /\ call' \in [Callers -> Call]
      /\ metrics \in Counters /\ metrics' \in Counters
  BY DEF IngestInv, TypeOK
<1>17. /\ o \in Nat /\ p \in Nat /\ q \in Nat /\ g \in Nat
       /\ o1 \in Nat /\ p1 \in Nat /\ q1 \in Nat /\ g1 \in Nat
  BY DEF IngestInv, TypeOK
<1>2. \A k \in Call : k.size \in Nat /\ k.accepted \in Nat /\ Len(k.batch) \in Nat
  BY DEF Call
<1>3. /\ Taken \in [Callers -> Nat] /\ T1 \in [Callers -> Nat]
      /\ Won \in [Callers -> Nat] /\ W1 \in [Callers -> Nat]
      /\ Left \in [Callers -> Nat] /\ L1 \in [Callers -> Nat]
  BY <1>1, <1>2 DEF Taken, Won, Left
<1>4. \A d \in Callers : d # c => T1[d] = Taken[d] /\ W1[d] = Won[d] /\ L1[d] = Left[d]
  BY DEF Alone, Taken, Won, Left
<1>5. /\ Taken[c] = s /\ T1[c] = s1 /\ Won[c] = a /\ W1[c] = a1 /\ Left[c] = b /\ L1[c] = b1
  BY DEF Taken, Won, Left
<1>6. Total(Taken)' = t1 /\ Total(Won)' = w1 /\ Total(Left)' = l1
  BY DEF Total, Units, UnitsOf, Taken, Won, Left
<1>7. /\ s \in Nat /\ s1 \in Nat /\ a \in Nat /\ a1 \in Nat /\ b \in Nat /\ b1 \in Nat
      /\ i \in Nat /\ i1 \in Nat /\ x \in Nat /\ x1 \in Nat
  BY <1>1, <1>2 DEF One, Counters
<1>8. n \in Nat /\ n1 \in Nat /\ n1 + i = n + i1
  BY CountFollows
<1> HIDE DEF T1, W1, L1, s, s1, a, a1, b, b1, i, i1, n, n1
<1>9. /\ t \in Nat /\ t1 \in Nat /\ w \in Nat /\ w1 \in Nat /\ l \in Nat /\ l1 \in Nat
  BY <1>3, TotalType
<1>10. t1 + s = t + s1 /\ w1 + a = w + a1 /\ l1 + b = l + b1
  BY <1>3, <1>4, <1>5, TotalFollows
<1>11. o = p + q + t /\ g = p + w + n /\ x + w + l = q + t
  BY DEF BooksInv, n
<1>12. /\ (o1 + p + q) + s = (o + p1 + q1) + s1
       /\ (g1 + p) + (a + i) = (g + p1) + (a1 + i1)
       /\ (x1 + q) + (a1 + b1 + s) = (x + q1) + (a + b + s1)
  BY DEF Balanced, s, s1, a, a1, b, b1, i, i1
<1> HIDE DEF t, t1, w, w1, l, l1, g, g1, x, x1, o, o1, p, p1, q, q1
<1>13. o1 = p1 + q1 + t1
  BY <1>7, <1>9, <1>10, <1>11, <1>12, <1>17
<1>14. g1 = p1 + w1 + n1
  BY <1>7, <1>8, <1>9, <1>10, <1>11, <1>12, <1>17
<1>15. x1 + w1 + l1 = q1 + t1
  BY <1>7, <1>9, <1>10, <1>11, <1>12, <1>17
<1>16. \A d \in Callers : pc'[d] = "idle" => call'[d].size = 0
  BY DEF Alone, Balanced, BooksInv
<1> QED  BY <1>6, <1>13, <1>14, <1>15, <1>16 
           DEF BooksInv, t1, w1, l1, n1, g1, x1, o1, p1, q1
(* The steps that leave the books alone. *)
LEMMA BooksAside ==
    ASSUME IngestInv, NEW c \in Callers, Step(c),
           ~Shed(c), ~StoreEvent(c), ~ObserveLatency(c), ~Reply(c)
    PROVE  /\ UNCHANGED << offered, acked, nacked, log >>
           /\ metrics'.dropped = metrics.dropped
           /\ call'[c].size = call[c].size /\ call'[c].accepted = call[c].accepted
           /\ call'[c].batch = call[c].batch
           /\ pc'[c] \in InTrail <=> pc[c] \in InTrail
           /\ pc'[c] # "idle"
<1> USE DEF At, Goto, InTrail, Pending, Alerting, shared, history
<1>1. pc \in [Callers -> Labels] /\ call \in [Callers -> Call] /\ metrics \in Counters
  BY DEF IngestInv, TypeOK
<1>2. CASE TakeEvent(c)  BY <1>1, <1>2 DEF TakeEvent, Call
<1>3. CASE ReadRules(c)  BY <1>1, <1>3 DEF ReadRules, Call
<1>4. CASE TryAcquire(c)  BY <1>1, <1>4 DEF TryAcquire
<1>5. CASE CountEvent(c)  BY <1>1, <1>5 DEF CountEvent, Counters
<1>6. CASE RecordProcess(c)  BY <1>1, <1>6 DEF RecordProcess
<1>7. CASE AssignSeq(c)  BY <1>1, <1>7 DEF AssignSeq, Call
<1>8. CASE StampViolation(c)  BY <1>1, <1>8 DEF StampViolation, Call
<1>9. CASE CountViolation(c)  BY <1>1, <1>9 DEF CountViolation, Counters
<1>10. CASE ClassifyViolation(c)  BY <1>1, <1>10 DEF ClassifyViolation, Counters
<1>11. CASE PushViolation(c)  BY <1>1, <1>11 DEF PushViolation
<1>12. CASE SendViolation(c)  BY <1>1, <1>12 DEF SendViolation, Call
<1>13. CASE SendEvent(c)  BY <1>1, <1>13 DEF SendEvent
<1> QED  BY <1>2, <1>3, <1>4, <1>5, <1>6, <1>7, <1>8, <1>9, <1>10, <1>11, <1>12, <1>13
         DEF Step

(* Every step of a caller balances. *)
LEMMA StepBalances ==
    ASSUME IngestInv, NEW c \in Callers, Step(c)
    PROVE  Balanced(c)
<1> DEFINE s == call[c].size   s1 == call'[c].size
           a == call[c].accepted   a1 == call'[c].accepted
           b == Len(call[c].batch)   b1 == Len(call'[c].batch)
           g == Len(log)   g1 == Len(log')   x == metrics.dropped   x1 == metrics'.dropped
           o == offered   o1 == offered'   p == acked   p1 == acked'   q == nacked   q1 == nacked'
           i == One(pc[c] \in InTrail)   i1 == One(pc'[c] \in InTrail)
<1>1. pc \in [Callers -> Labels] /\ call \in [Callers -> Call] /\ metrics \in Counters
  BY DEF IngestInv, TypeOK
<1>2. /\ s \in Nat /\ a \in Nat /\ b \in Nat /\ g \in Nat /\ x \in Nat
      /\ o \in Nat /\ p \in Nat /\ q \in Nat /\ i \in Nat
  <2>1. call[c] \in Call
    BY <1>1
  <2>2. s \in Nat /\ a \in Nat /\ call[c].batch \in Seq(Events)
    BY <2>1 DEF Call
  <2>3. b \in Nat
    BY <2>2
  <2>4. g \in Nat /\ o \in Nat /\ p \in Nat /\ q \in Nat
    BY DEF IngestInv, TypeOK
  <2>5. x \in Nat
    BY <1>1 DEF Counters
  <2>6. i \in Nat
    BY DEF One
  <2> QED  BY <2>2, <2>3, <2>4, <2>5, <2>6
<1>3. SUFFICES /\ (o1 + p + q) + s = (o + p1 + q1) + s1
               /\ (g1 + p) + (a + i) = (g + p1) + (a1 + i1)
               /\ (x1 + q) + (a1 + b1 + s) = (x + q1) + (a + b + s1)
               /\ pc'[c] = "idle" => s1 = 0
  BY DEF Balanced
<1>4. pc[c] \in Holding => b > 0 /\ Len(Tail(call[c].batch)) = b - 1
  <2>1. call[c].batch \in Seq(Events)
    BY <1>1 DEF Call
  <2>2. pc[c] \in Holding => call[c].batch # << >>
    BY DEF IngestInv, HoldInv, Sound
  <2> QED  BY <2>1, <2>2
<1>5. ASSUME NEW ok \in BOOLEAN, Return(c, ok), pc[c] \in Holding
      PROVE  /\ s1 = s /\ a1 = a + One(ok) /\ b1 = b - 1
             /\ pc'[c] = "loop" /\ i1 = 0
  <2>1. /\ call'[c] = [Idle EXCEPT !.batch = Tail(call[c].batch), !.size = call[c].size,
                                   !.accepted = call[c].accepted + (IF ok THEN 1 ELSE 0)]
        /\ pc'[c] = "loop"
    BY <1>1, <1>5 DEF Return, Goto
  <2>2. i1 = 0
    BY <2>1 DEF One, InTrail, Pending, Alerting
  <2> QED  BY <1>4, <1>5, <2>1, <2>2 DEF Idle, One
<1>6. CASE Shed(c)
  <2>1. /\ o1 = o /\ p1 = p /\ q1 = q /\ g1 = g /\ x1 = x + 1 /\ pc[c] = "shed"
        /\ Return(c, FALSE)
    BY <1>1, <1>6 DEF Shed, At, Counters
  <2>2. i = 0 /\ pc[c] \in Holding
    BY <2>1 DEF One, InTrail, Pending, Alerting, Holding, Labels
  <2>3. s1 = s /\ a1 = a + 0 /\ b1 = b - 1 /\ pc'[c] = "loop" /\ i1 = 0
    BY <1>5, <2>1, <2>2 DEF One
  <2> HIDE DEF s, s1, a, a1, b, b1, g, g1, x, x1, o, o1, p, p1, q, q1, i, i1
  <2> QED  BY <1>2, <2>1, <2>2, <2>3
<1>7. CASE StoreEvent(c)
  <2>1. /\ o1 = o /\ p1 = p /\ q1 = q /\ g1 = g + 1 /\ x1 = x /\ s1 = s /\ a1 = a /\ b1 = b
        /\ pc[c] = "store" /\ pc'[c] \in {"announce", "stamp"}
    BY <1>1, <1>7 DEF StoreEvent, At, Goto, Call, IngestInv, TypeOK
  <2>2. i = 0 /\ i1 = 1
    BY <2>1 DEF One, InTrail, Pending, Alerting
  <2>3. pc'[c] # "idle"
    BY <2>1
  <2> HIDE DEF s, s1, a, a1, b, b1, g, g1, x, x1, o, o1, p, p1, q, q1, i, i1
  <2> QED  BY <1>2, <2>1, <2>2, <2>3
<1>8. CASE ObserveLatency(c)
  <2>1. /\ o1 = o /\ p1 = p /\ q1 = q /\ g1 = g /\ x1 = x /\ pc[c] = "observe"
        /\ Return(c, TRUE)
    BY <1>1, <1>8 DEF ObserveLatency, At, Counters
  <2>2. i = 1 /\ pc[c] \in Holding
    BY <2>1 DEF One, InTrail, Holding, Labels
  <2>3. s1 = s /\ a1 = a + 1 /\ b1 = b - 1 /\ pc'[c] = "loop" /\ i1 = 0
    BY <1>5, <2>1, <2>2 DEF One
  <2> HIDE DEF s, s1, a, a1, b, b1, g, g1, x, x1, o, o1, p, p1, q, q1, i, i1
  <2> QED  BY <1>2, <2>1, <2>2, <2>3
<1>9. CASE Reply(c)
  <2>1. /\ o1 = o /\ p1 = p + a /\ q1 = q + (s - a) /\ g1 = g /\ x1 = x
        /\ s1 = 0 /\ a1 = 0 /\ b1 = 0 /\ b = 0 /\ pc[c] = "loop" /\ pc'[c] = "idle"
    BY <1>1, <1>9 DEF Reply, At, Goto, Idle, shared
  <2>2. i = 0 /\ i1 = 0
    BY <2>1 DEF One, InTrail, Pending, Alerting
  <2> HIDE DEF s, s1, a, a1, b, b1, g, g1, x, x1, o, o1, p, p1, q, q1, i, i1
  <2> QED  BY <1>2, <2>1, <2>2
<1>10. CASE ~Shed(c) /\ ~StoreEvent(c) /\ ~ObserveLatency(c) /\ ~Reply(c)
  <2>1. /\ o1 = o /\ p1 = p /\ q1 = q /\ g1 = g /\ x1 = x /\ s1 = s /\ a1 = a /\ b1 = b
        /\ i1 = i /\ pc'[c] # "idle"
    BY <1>10, BooksAside DEF One
  <2> HIDE DEF s, s1, a, a1, b, b1, g, g1, x, x1, o, o1, p, p1, q, q1, i, i1
  <2> QED  BY <1>2, <2>1
<1> QED  BY <1>6, <1>7, <1>8, <1>9, <1>10

(* When no call is running, every event offered was reported stored or     *)
(* refused, and the reports agree with the history and with the metrics,   *)
(* for any number of callers and any batches.                              *)
THEOREM BooksAreBalanced == Spec => []BooksBalance
<1>1. Init => BooksInv
  <2> SUFFICES ASSUME Init PROVE BooksInv
    OBVIOUS
  <2>1. \A c \in Callers : Taken[c] = 0 /\ Won[c] = 0 /\ Left[c] = 0
    BY DEF Init, Taken, Won, Left, Idle
  <2>2. Total(Taken) = 0 /\ Total(Won) = 0 /\ Total(Left) = 0
    BY <2>1, TotalZero
  <2>3. CallersAt(InTrail) = {}
    BY DEF Init, CallersAt, InTrail, Pending, Alerting
  <2>4. Count(InTrail) = 0
    BY <2>3, FS_EmptySet DEF Count
  <2> QED  BY <2>2, <2>4 DEF Init, BooksInv, Idle
<1>2. IngestInv /\ IngestInv' /\ BooksInv /\ [Next]_vars => BooksInv'
  <2> SUFFICES ASSUME IngestInv, IngestInv', BooksInv, [Next]_vars PROVE BooksInv'
    OBVIOUS
  <2>1. ASSUME NEW c \in Callers, Step(c) PROVE BooksInv'
    BY <2>1, StepsAlone, StepBalances, BooksFollow
  <2>2. ASSUME NEW c \in Callers, NEW b, Begin(c, b) PROVE BooksInv'
    <3>1. pc \in [Callers -> Labels] /\ call \in [Callers -> Call]
      BY DEF IngestInv, TypeOK
    <3>2. /\ UNCHANGED << acked, nacked, log, metrics >> /\ Alone(c)
          /\ offered' = offered + Len(b) /\ pc[c] = "idle" /\ pc'[c] = "loop"
          /\ call'[c].batch = b /\ call'[c].size = Len(b)
          /\ call'[c].accepted = call[c].accepted
      BY <2>2, <3>1 DEF Begin, At, Goto, Alone, shared, Call
    <3>3. /\ call[c].size = 0 /\ call[c].accepted \in Nat /\ Len(call[c].batch) \in Nat
          /\ call[c].accepted + Len(call[c].batch) <= call[c].size
      BY <3>1, <3>2 DEF BooksInv, Call, IngestInv, HoldInv, Sound, Tallied
    <3>4. call[c].accepted = 0 /\ Len(call[c].batch) = 0
      BY <3>3
    <3>5. One(pc[c] \in InTrail) = 0 /\ One(pc'[c] \in InTrail) = 0
      BY <3>2 DEF One, InTrail, Pending, Alerting
    <3>6. /\ offered \in Nat /\ acked \in Nat /\ nacked \in Nat /\ Len(log) \in Nat
          /\ Len(b) \in Nat /\ metrics.dropped \in Nat
      <4>1. call'[c].size \in Nat
        BY DEF IngestInv, TypeOK, Call
      <4> QED  BY <3>2, <4>1 DEF IngestInv, TypeOK, Counters
    <3>7. Balanced(c)
      BY <3>2, <3>3, <3>4, <3>5, <3>6 DEF Balanced
    <3> QED  BY <3>2, <3>7, BooksFollow
  <2>3. ASSUME UNCHANGED << offered, acked, nacked, log, metrics, pc, call >>
        PROVE  BooksInv'
    BY <2>3 DEF BooksInv, Taken, Won, Left, Count, CallersAt
  <2>4. ASSUME NEW r \in RuleSets, put_policy(r) PROVE BooksInv'
    BY <2>3, <2>4 DEF put_policy
  <2>5. CASE Tick  BY <2>3, <2>5 DEF Tick, history
  <2>6. CASE UNCHANGED vars  BY <2>3, <2>6 DEF vars, shared, history
  <2>7. Drain \in Callers /\ Handlers \subseteq Callers  BY DEF Callers
  <2> QED  BY <2>1, <2>2, <2>4, <2>5, <2>6, <2>7 DEF Next, DrainRecv, post_events
<1>3. IngestInv /\ BooksInv /\ CountersAgree => BooksBalance
  <2> SUFFICES ASSUME IngestInv, BooksInv, CountersAgree, CallersAt({"idle"}) = Callers
               PROVE  /\ offered = acked + nacked
                      /\ acked = Len(log) /\ acked = metrics.events /\ acked = next_seq
                      /\ nacked = metrics.dropped
    BY DEF BooksBalance
  <2>1. \A c \in Callers : pc[c] = "idle"
    BY DEF CallersAt
  <2>2. \A labels : "idle" \notin labels => CallersAt(labels) = {}
    BY <2>1 DEF CallersAt
  <2>3. \A labels : "idle" \notin labels => Cardinality(CallersAt(labels)) = 0
    BY <2>2, FS_EmptySet
  <2>4. ASSUME NEW c \in Callers PROVE Taken[c] = 0 /\ Won[c] = 0 /\ Left[c] = 0
    <3>1. /\ call[c].size = 0 /\ call[c].accepted \in Nat /\ Len(call[c].batch) \in Nat
          /\ call[c].accepted + Len(call[c].batch) <= call[c].size
      BY <2>1 DEF BooksInv, IngestInv, TypeOK, Call, HoldInv, Sound, Tallied
    <3> QED  BY <3>1 DEF Taken, Won, Left
  <2>5. Total(Taken) = 0 /\ Total(Won) = 0 /\ Total(Left) = 0
    BY <2>4, TotalZero
  <2>6. Count(InTrail) = 0
    BY <2>3 DEF Count, InTrail, Pending, Alerting
  <2>7. /\ offered \in Nat /\ acked \in Nat /\ nacked \in Nat /\ Len(log) \in Nat
        /\ metrics.dropped \in Nat /\ next_seq \in Nat
    BY DEF IngestInv, TypeOK, Counters
  <2> QED  BY <2>3, <2>5, <2>6, <2>7 DEF BooksInv, CountersAgree
<1> QED  BY <1>1, <1>2, <1>3, IngestInvariant, CountersAreExact, PTL
         DEF Spec, SafeSpec

-----------------------------------------------------------------------------
(* The audit trail. *)

(* The engine returns at the first rule that is broken: an event raises at *)
(* most one violation.                                                     *)
LEMMA OneViolation ==
    ASSUME NEW e \in Events, NEW r \in RuleSets
    PROVE  eval_event(e, r) = << >> \/ \E v : eval_event(e, r) = << v >>
<1>1. CASE e.type = "proc_exec"  BY <1>1 DEF eval_event, eval_proc_exec, Breach
<1>2. CASE e.type = "file_open"  BY <1>2 DEF eval_event, eval_file_open, Breach
<1>3. CASE e.type = "net_connect"  BY <1>3 DEF eval_event, eval_net_connect, Breach
<1>4. CASE e.type = "cap_escalate"  BY <1>4 DEF eval_event, Breach
<1> QED  BY <1>1, <1>2, <1>3, <1>4, InputAssumption

(* All of a list of one. *)
LEMMA WholeOfOne == ASSUME NEW v PROVE SubSeq(<< v >>, 1, 1) = << v >>
<1>1. << v >> \in Seq({v}) /\ Len(<< v >>) = 1
  OBVIOUS
<1>2. /\ SubSeq(<< v >>, 1, 1) \in Seq({v}) /\ Len(SubSeq(<< v >>, 1, 1)) = 1
      /\ SubSeq(<< v >>, 1, 1)[1] = << v >>[1]
  BY <1>1, SubSeqProperties
<1> DEFINE a == << v >>
           b == SubSeq(<< v >>, 1, 1)
<1>3. a \in Seq({v}) /\ b \in Seq({v}) /\ Len(a) = 1 /\ Len(b) = 1 /\ a[1] = b[1]
  BY <1>1, <1>2
<1> HIDE DEF a, b
<1>4. b = a
  BY <1>3, SeqEqual
<1> QED  BY <1>4 DEF a, b

(* A history that receives one entry. *)
Grows(q, r, x) ==
    /\ DOMAIN q \subseteq Nat
    /\ \E n \in DOMAIN r : /\ DOMAIN r = DOMAIN q \cup {n} /\ n \notin DOMAIN q
                           /\ r[n] = x
                           /\ \A i \in DOMAIN q : i < n /\ r[i] = q[i]

(* Appending makes a history grow. *)
LEMMA AppendGrows ==
    ASSUME NEW S, NEW q \in Seq(S), NEW x
    PROVE  Grows(q, Append(q, x), x)
<1> DEFINE n == Len(q) + 1
           r == Append(q, x)
<1>1. /\ DOMAIN q = 1 .. Len(q) /\ DOMAIN r = 1 .. n /\ r[n] = x /\ Len(q) \in Nat
      /\ \A i \in 1 .. Len(q) : r[i] = q[i]
  OBVIOUS
<1> HIDE DEF r
<1>2. /\ DOMAIN r = DOMAIN q \cup {n} /\ n \notin DOMAIN q /\ n \in DOMAIN r
      /\ \A i \in DOMAIN q : i < n /\ r[i] = q[i]
  BY <1>1
<1> HIDE DEF n
<1> QED  BY <1>1, <1>2 DEF Grows, r

----------------------------------------------------------------------------
(* The labels before the violation in hand is stored. *)
Before == Alerting \ {"vsend"}

Demand(c) == eval_event(event(c), call[c].rules)
Raised(s) == \E k \in DOMAIN vlog : vlog[k].seq = s
Sent(kind, s) == \E m \in DOMAIN tx : tx[m].kind = kind /\ tx[m].stored.seq = s
Entered(s, e, r) ==
    \E i \in DOMAIN log : log[i].seq = s /\ log[i].event = e /\ log[i].rules = r

(* What a caller whose event is stored and not yet announced relies on. *)
Standing(c) ==
    /\ Entered(call[c].seq, event(c), call[c].rules)
    /\ ~Sent("event", call[c].seq)
    /\ pc[c] \in Alerting =>
          /\ call[c].todo = Demand(c) /\ Demand(c) # << >>
          /\ ~Sent("violation", call[c].seq)
    /\ pc[c] \in Before => ~Raised(call[c].seq)
    /\ pc[c] = "vsend" => \E k \in DOMAIN vlog : vlog[k] = StoredViolation(c)

CallersInv ==
    /\ \A c \in Callers : pc[c] \in Pending => Standing(c)
    /\ \A c, d \in Callers : pc[c] \in Pending /\ pc[d] \in Pending
                               /\ call[c].seq = call[d].seq => c = d

(* Every stored violation is the one its event demands, stored once, and   *)
(* told unless its caller is about to tell it.                             *)
RaisedInv ==
    /\ \A k \in DOMAIN vlog : \E i \in DOMAIN log :
          /\ log[i].seq = vlog[k].seq
          /\ eval_event(log[i].event, log[i].rules) = << vlog[k].violation >>
    /\ \A j, k \in DOMAIN vlog : vlog[j].seq = vlog[k].seq => j = k
    /\ \A k \in DOMAIN vlog :
          \/ \E m \in DOMAIN tx : tx[m] = Message("violation", vlog[k])
          \/ \E c \in Callers : pc[c] = "vsend" /\ call[c].seq = vlog[k].seq

(* Every stored event is announced, or its caller is still at work; and    *)
(* what it demands is stored, or its caller is about to store it.          *)
EnteredInv ==
    \A i \in DOMAIN log :
       /\ \/ Sent("event", log[i].seq)
          \/ \E c \in Callers : pc[c] \in Pending /\ call[c].seq = log[i].seq
       /\ \/ eval_event(log[i].event, log[i].rules) = << >>
          \/ Raised(log[i].seq)
          \/ \E c \in Callers : pc[c] \in Before /\ call[c].seq = log[i].seq

(* Every message is about something stored, is sent once, and nothing      *)
(* about an event follows its announcement.                                *)
StreamInv ==
    /\ \A m \in DOMAIN tx : tx[m].kind = "violation" =>
          \E k \in DOMAIN vlog : vlog[k] = tx[m].stored
    /\ \A m \in DOMAIN tx : tx[m].kind = "event" =>
          \E i \in DOMAIN log : log[i].seq = tx[m].stored.seq
                                  /\ log[i].event = tx[m].stored.event
    /\ \A m, n \in DOMAIN tx :
          tx[m].kind = tx[n].kind /\ tx[m].stored.seq = tx[n].stored.seq => m = n
    /\ \A m, n \in DOMAIN tx :
          tx[m].kind = "event" /\ tx[n].stored.seq = tx[m].stored.seq => n <= m

TrailInv == CallersInv /\ RaisedInv /\ EnteredInv /\ StreamInv

(* A caller that keeps what its standing is about. *)
Steady(d) ==
    /\ pc'[d] \in Pending <=> pc[d] \in Pending
    /\ pc'[d] \in Before <=> pc[d] \in Before
    /\ pc'[d] = "vsend" <=> pc[d] = "vsend"
    /\ pc[d] \in Pending =>
          /\ call'[d].seq = call[d].seq /\ call'[d].batch = call[d].batch
          /\ call'[d].rules = call[d].rules /\ call'[d].todo = call[d].todo
    /\ pc[d] = "vsend" => call'[d] = call[d]

(* Who is alerting is either before the push or about to send. *)
LEMMA AlertingIs == Alerting = Before \cup {"vsend"} /\ Alerting \subseteq Pending
BY DEF Alerting, Before, Pending

(* Steps that touch neither the histories nor anybody's standing. *)
LEMMA TrailKept ==
    ASSUME TrailInv, UNCHANGED << log, vlog, tx >>, \A d \in Callers : Steady(d)
    PROVE  TrailInv'
<1>1. /\ \A s, e, r : Entered(s, e, r)' <=> Entered(s, e, r)
      /\ \A s : Raised(s)' <=> Raised(s)
      /\ \A kind, s : Sent(kind, s)' <=> Sent(kind, s)
  BY DEF Entered, Raised, Sent
<1>2. \A d \in Callers : pc[d] \in Pending => event(d)' = event(d) /\ Demand(d)' = Demand(d)
  BY DEF Steady, event, Demand
<1>3. \A d \in Callers : pc[d] = "vsend" => StoredViolation(d)' = StoredViolation(d)
  BY DEF Steady, StoredViolation
<1>4. ASSUME NEW d \in Callers, pc'[d] \in Pending PROVE Standing(d)'
  <2>1. pc[d] \in Pending /\ Standing(d)
    BY <1>4 DEF Steady, TrailInv, CallersInv
  <2> QED  BY <1>1, <1>2, <1>3, <2>1, AlertingIs DEF Standing, Steady
<1>5. CallersInv'
  BY <1>4 DEF TrailInv, CallersInv, Steady
<1>6. RaisedInv'
  BY AlertingIs DEF TrailInv, RaisedInv, Steady
<1>7. EnteredInv'
  BY <1>1, AlertingIs DEF TrailInv, EnteredInv, Steady
<1>8. StreamInv'
  BY DEF TrailInv, StreamInv
<1> QED  BY <1>5, <1>6, <1>7, <1>8 DEF TrailInv

(* The callers other than the one that makes a step. *)
LEMMA OthersSteady ==
    ASSUME NEW c \in Callers, Alone(c), NEW d \in Callers, d # c
    PROVE  Steady(d) /\ pc'[d] = pc[d] /\ call'[d] = call[d]
BY DEF Alone, Steady

(* Nothing is known of a number that its caller has not stored yet. *)
LEMMA FreshNumber ==
    ASSUME IngestInv, SeqInv, TrailInv, NEW c \in Callers, pc[c] = "store"
    PROVE  /\ \A e, r : ~Entered(call[c].seq, e, r)
           /\ ~Raised(call[c].seq)
           /\ \A kind : ~Sent(kind, call[c].seq)
           /\ \A d \in Callers : pc[d] \in Pending => call[d].seq # call[c].seq
<1>1. \A i \in DOMAIN log : log[i].seq # call[c].seq
  BY DEF SeqInv
<1>2. \A e, r : ~Entered(call[c].seq, e, r)
  BY <1>1 DEF Entered
<1>3. ~Raised(call[c].seq)
  BY <1>1 DEF Raised, TrailInv, RaisedInv
<1>4. \A m \in DOMAIN tx : tx[m].kind \in {"event", "violation"}
  BY DEF IngestInv, TypeOK, Packet
<1>5. \A m \in DOMAIN tx : tx[m].stored.seq # call[c].seq
  BY <1>1, <1>3, <1>4 DEF TrailInv, StreamInv, Raised
<1>6. \A d \in Callers : pc[d] \in Pending => call[d].seq # call[c].seq
  BY <1>2 DEF TrailInv, CallersInv, Standing
<1> QED  BY <1>2, <1>3, <1>5, <1>6 DEF Sent

(* The event enters the trail. *)
LEMMA TrailStored ==
    ASSUME IngestInv, SeqInv, TrailInv, NEW c \in Callers, StoreEvent(c)
    PROVE  TrailInv'
<1> DEFINE x == [seq |-> call[c].seq, event |-> event(c), rules |-> call[c].rules]
<1>1. /\ pc \in [Callers -> Labels] /\ call \in [Callers -> Call]
      /\ log \in Seq([seq : Nat, event : Events, rules : RuleSets])
  BY DEF IngestInv, TypeOK
<1>2. /\ pc[c] = "store" /\ vlog' = vlog /\ tx' = tx /\ log' = Append(log, x)
      /\ pc'[c] = IF Demand(c) = << >> THEN "announce" ELSE "stamp"
      /\ call' = [call EXCEPT ![c].todo = Demand(c)] /\ Alone(c)
  BY <1>1 DEF StoreEvent, At, Goto, Alone, Judged, Demand
<1>3. /\ call'[c].seq = call[c].seq /\ call'[c].batch = call[c].batch
      /\ call'[c].rules = call[c].rules /\ call'[c].todo = Demand(c)
  BY <1>1, <1>2 DEF Call
<1>4. event(c)' = event(c) /\ Demand(c)' = Demand(c)
  BY <1>3 DEF event, Demand
<1>5. x.seq = call[c].seq /\ x.event = event(c) /\ x.rules = call[c].rules
  OBVIOUS
<1>6. Grows(log, log', x)
  BY <1>1, <1>2, AppendGrows
<1> HIDE DEF x
<1>7. PICK n \in DOMAIN log' :
         /\ DOMAIN log' = DOMAIN log \cup {n} /\ log'[n] = x
         /\ \A i \in DOMAIN log : log'[i] = log[i]
  BY <1>6 DEF Grows
<1>8. /\ \A s, e, r : Entered(s, e, r) => Entered(s, e, r)'
      /\ \A s : Raised(s)' <=> Raised(s)
      /\ \A kind, s : Sent(kind, s)' <=> Sent(kind, s)
  BY <1>2, <1>7 DEF Entered, Raised, Sent
<1>9. /\ ~Raised(call[c].seq) /\ \A kind : ~Sent(kind, call[c].seq)
      /\ \A d \in Callers : pc[d] \in Pending => call[d].seq # call[c].seq
  BY <1>2, FreshNumber
<1>10. \A d \in Callers : d # c => Steady(d) /\ pc'[d] = pc[d] /\ call'[d] = call[d]
  BY <1>2, OthersSteady
<1>11. /\ pc[c] \notin Pending /\ pc'[c] \in Pending /\ pc'[c] # "vsend"
       /\ pc'[c] \in Alerting => Demand(c) # << >>
       /\ Demand(c) # << >> => pc'[c] \in Before
  BY <1>2 DEF Pending, Alerting, Before
<1>12. ASSUME NEW d \in Callers, pc'[d] \in Pending PROVE Standing(d)'
  <2>1. CASE d = c
    <3>1. Entered(call[c].seq, event(c), call[c].rules)'
      BY <1>3, <1>4, <1>5, <1>7 DEF Entered
    <3> QED  BY <1>3, <1>4, <1>8, <1>9, <1>11, <2>1, <3>1 DEF Standing
  <2>2. CASE d # c
    <3>1. pc[d] \in Pending /\ Standing(d) /\ pc'[d] = pc[d] /\ call'[d] = call[d]
      BY <1>10, <1>12, <2>2 DEF TrailInv, CallersInv
    <3>2. event(d)' = event(d) /\ Demand(d)' = Demand(d)
          /\ StoredViolation(d)' = StoredViolation(d)
      BY <3>1 DEF event, Demand, StoredViolation
    <3> QED  BY <1>2, <1>8, <3>1, <3>2 DEF Standing
  <2> QED  BY <2>1, <2>2
<1>13. \A d, f \in Callers : pc'[d] \in Pending /\ pc'[f] \in Pending
                                /\ call'[d].seq = call'[f].seq => d = f
  BY <1>3, <1>9, <1>10 DEF TrailInv, CallersInv
<1>14. CallersInv'
  BY <1>12, <1>13 DEF CallersInv
<1>15. RaisedInv'
  <2>1. \A k \in DOMAIN vlog : \E i \in DOMAIN log' :
           /\ log'[i].seq = vlog[k].seq
           /\ eval_event(log'[i].event, log'[i].rules) = << vlog[k].violation >>
    BY <1>7 DEF TrailInv, RaisedInv
  <2>2. \A d \in Callers : pc[d] = "vsend" => pc'[d] = "vsend" /\ call'[d].seq = call[d].seq
    BY <1>2, <1>10
  <2> QED  BY <1>2, <2>1, <2>2 DEF TrailInv, RaisedInv
<1>16. EnteredInv'
  <2>1. \A d \in Callers : pc[d] \in Pending =>
           /\ pc'[d] = pc[d] /\ call'[d].seq = call[d].seq
    BY <1>10, <1>11
  <2>2. ASSUME NEW s PROVE /\ Sent("event", s) => Sent("event", s)'
                           /\ Raised(s) => Raised(s)'
    BY <1>8
  <2>3. ASSUME NEW i \in DOMAIN log, NEW s, s = log[i].seq
        PROVE  \/ Sent("event", s)'
               \/ \E d \in Callers : pc'[d] \in Pending /\ call'[d].seq = s
    <3>1. \/ Sent("event", s)
          \/ \E d \in Callers : pc[d] \in Pending /\ call[d].seq = s
      BY <2>3 DEF TrailInv, EnteredInv
    <3> QED  BY <2>1, <2>2, <3>1
  <2>4. ASSUME NEW i \in DOMAIN log, NEW s, s = log[i].seq
        PROVE  \/ eval_event(log[i].event, log[i].rules) = << >>
               \/ Raised(s)'
               \/ \E d \in Callers : pc'[d] \in Before /\ call'[d].seq = s
    <3>1. \/ eval_event(log[i].event, log[i].rules) = << >>
          \/ Raised(s)
          \/ \E d \in Callers : pc[d] \in Before /\ call[d].seq = s
      BY <2>4 DEF TrailInv, EnteredInv
    <3> QED  BY <2>1, <2>2, <3>1, AlertingIs
  <2> QED  BY <1>3, <1>5, <1>7, <1>11, <2>3, <2>4 DEF EnteredInv, Demand
<1>17. StreamInv'
  BY <1>2, <1>7 DEF TrailInv, StreamInv
<1> QED  BY <1>14, <1>15, <1>16, <1>17 DEF TrailInv

(* The violation in the hand of a caller is all that its event demands. *)
LEMMA DemandInHand ==
    ASSUME IngestInv, TrailInv, NEW c \in Callers, pc[c] \in Alerting
    PROVE  /\ Standing(c) /\ Demand(c) = << Head(call[c].todo) >>
           /\ Tail(call[c].todo) = << >>
<1>1. Standing(c) /\ call[c].todo = Demand(c) /\ Demand(c) # << >>
  BY AlertingIs DEF TrailInv, CallersInv, Standing
<1>2. event(c) \in Events
  BY EventInHand DEF Alerting, Holding, Labels
<1>3. call[c].rules \in RuleSets
  BY DEF IngestInv, TypeOK, Call
<1>4. PICK v : Demand(c) = << v >>
  BY <1>1, <1>2, <1>3, OneViolation DEF Demand
<1> QED  BY <1>1, <1>4

(* The standing of the callers other than c, when only facts about the     *)
(* number of c have become known.                                          *)
LEMMA OthersStand ==
    ASSUME TrailInv, NEW c \in Callers, Alone(c), pc[c] \in Pending,
           \A s, e, r : Entered(s, e, r) => Entered(s, e, r)',
           \A s : s # call[c].seq /\ ~Raised(s) => ~Raised(s)',
           \A kind, s : s # call[c].seq /\ ~Sent(kind, s) => ~Sent(kind, s)',
           \A k \in DOMAIN vlog : \E j \in DOMAIN vlog' : vlog'[j] = vlog[k],
           NEW d \in Callers, d # c, pc'[d] \in Pending
    PROVE  Standing(d)' /\ call'[d].seq = call[d].seq /\ call[d].seq # call[c].seq
<1>1. pc[d] \in Pending /\ Standing(d) /\ pc'[d] = pc[d] /\ call'[d] = call[d]
  BY OthersSteady DEF TrailInv, CallersInv
<1>2. call[d].seq # call[c].seq
  BY <1>1 DEF TrailInv, CallersInv
<1>3. /\ event(d)' = event(d) /\ Demand(d)' = Demand(d)
      /\ StoredViolation(d)' = StoredViolation(d)
  BY <1>1 DEF event, Demand, StoredViolation
<1>4. Entered(call[d].seq, event(d), call[d].rules)'
  BY <1>1, <1>3 DEF Standing
<1>5. /\ ~Sent("event", call[d].seq)'
      /\ pc[d] \in Alerting => ~Sent("violation", call[d].seq)'
      /\ pc[d] \in Before => ~Raised(call[d].seq)'
  BY <1>1, <1>2 DEF Standing
<1> QED  BY <1>1, <1>2, <1>3, <1>4, <1>5 DEF Standing

(* The violation is stored. *)
LEMMA TrailRaised ==
    ASSUME IngestInv, TrailInv, NEW c \in Callers, PushViolation(c)
    PROVE  TrailInv'
<1> DEFINE x == StoredViolation(c)
           s == call[c].seq
<1>1. pc \in [Callers -> Labels] /\ call \in [Callers -> Call] /\ vlog \in Seq(Alert)
  BY DEF IngestInv, TypeOK
<1>2. /\ pc[c] = "vpush" /\ pc'[c] = "vsend" /\ UNCHANGED << log, tx, call >> /\ Alone(c)
      /\ vlog' = Append(vlog, x)
  BY <1>1 DEF PushViolation, At, Goto, Alone
<1>3. /\ pc[c] \in Alerting /\ pc[c] \in Pending /\ pc[c] \in Before
      /\ pc'[c] \in Alerting /\ pc'[c] \in Pending /\ pc'[c] \notin Before
  BY <1>2 DEF Alerting, Pending, Before
<1>4. /\ Standing(c) /\ Demand(c) = << Head(call[c].todo) >> /\ ~Raised(s)
  BY <1>3, DemandInHand DEF Standing
<1>5. x.seq = s /\ x.violation = Head(call[c].todo) /\ x' = x
  BY <1>2 DEF StoredViolation
<1>6. Grows(vlog, vlog', x)
  BY <1>1, <1>2, AppendGrows
<1>7. event(c)' = event(c) /\ Demand(c)' = Demand(c)
  BY <1>2 DEF event, Demand
<1> HIDE DEF x
<1>8. PICK n \in DOMAIN vlog' :
         /\ DOMAIN vlog' = DOMAIN vlog \cup {n} /\ vlog'[n] = x
         /\ \A i \in DOMAIN vlog : vlog'[i] = vlog[i]
  BY <1>6 DEF Grows
<1>9. /\ \A u, e, r : Entered(u, e, r)' <=> Entered(u, e, r)
      /\ \A u : Raised(u)' <=> Raised(u) \/ u = s
      /\ \A kind, u : Sent(kind, u)' <=> Sent(kind, u)
  BY <1>2, <1>5, <1>8 DEF Entered, Raised, Sent
<1>10. \A k \in DOMAIN vlog : \E j \in DOMAIN vlog' : vlog'[j] = vlog[k]
  BY <1>8
<1>11. \A d \in Callers : d # c => Steady(d) /\ pc'[d] = pc[d] /\ call'[d] = call[d]
  BY <1>2, OthersSteady
<1>12. ASSUME NEW d \in Callers, pc'[d] \in Pending PROVE Standing(d)'
  <2>1. CASE d = c
    <3>1. \E k \in DOMAIN vlog' : vlog'[k] = StoredViolation(c)'
      BY <1>5, <1>8 DEF x
    <3> QED  BY <1>2, <1>3, <1>4, <1>7, <1>9, <2>1, <3>1 DEF Standing
  <2>2. CASE d # c
    BY <1>2, <1>3, <1>9, <1>10, <1>12, <2>2, OthersStand
  <2> QED  BY <2>1, <2>2
<1>13. CallersInv'
  <2>1. \A d \in Callers : pc'[d] \in Pending => pc[d] \in Pending
    BY <1>3, <1>11
  <2> QED  BY <1>2, <1>12, <2>1 DEF CallersInv, TrailInv
<1>14. RaisedInv'
  <2>1. PICK i \in DOMAIN log : /\ log[i].seq = s /\ log[i].event = event(c)
                                /\ log[i].rules = call[c].rules
    BY <1>4 DEF Standing, Entered
  <2>2. log[i].seq = x.seq /\ eval_event(log[i].event, log[i].rules) = << x.violation >>
    BY <1>4, <1>5, <2>1 DEF Demand
  <2>3. \A k \in DOMAIN vlog' : \E j \in DOMAIN log :
           /\ log[j].seq = vlog'[k].seq
           /\ eval_event(log[j].event, log[j].rules) = << vlog'[k].violation >>
    BY <1>8, <2>2 DEF TrailInv, RaisedInv
  <2>4. \A k \in DOMAIN vlog : vlog[k].seq # s
    BY <1>4 DEF Raised
  <2>5. \A j, k \in DOMAIN vlog' : vlog'[j].seq = vlog'[k].seq => j = k
    BY <1>5, <1>8, <2>4 DEF TrailInv, RaisedInv
  <2>6. ASSUME NEW k \in DOMAIN vlog'
        PROVE  \/ \E m \in DOMAIN tx : tx[m] = Message("violation", vlog'[k])
               \/ \E d \in Callers : pc'[d] = "vsend" /\ call'[d].seq = vlog'[k].seq
    <3>1. CASE k = n
      BY <1>2, <1>5, <1>8, <3>1
    <3>2. CASE k \in DOMAIN vlog
      <4>1. vlog'[k] = vlog[k]
        BY <1>8, <3>2
      <4>2. \A d \in Callers : pc[d] = "vsend" =>
               pc'[d] = "vsend" /\ call'[d].seq = call[d].seq
        BY <1>2, <1>11
      <4> QED  BY <3>2, <4>1, <4>2 DEF TrailInv, RaisedInv
    <3> QED  BY <1>8, <3>1, <3>2
  <2> QED  BY <1>2, <2>3, <2>5, <2>6 DEF RaisedInv
<1>15. EnteredInv'
  <2>1. ASSUME NEW i \in DOMAIN log, NEW u, u = log[i].seq
        PROVE  /\ \/ Sent("event", u)'
                  \/ \E d \in Callers : pc'[d] \in Pending /\ call'[d].seq = u
               /\ \/ eval_event(log[i].event, log[i].rules) = << >>
                  \/ Raised(u)'
                  \/ \E d \in Callers : pc'[d] \in Before /\ call'[d].seq = u
    <3>1. \/ Sent("event", u)
          \/ \E d \in Callers : pc[d] \in Pending /\ call[d].seq = u
      BY <2>1 DEF TrailInv, EnteredInv
    <3>2. \/ eval_event(log[i].event, log[i].rules) = << >>
          \/ Raised(u)
          \/ \E d \in Callers : pc[d] \in Before /\ call[d].seq = u
      BY <2>1 DEF TrailInv, EnteredInv
    <3>3. \/ Sent("event", u)'
          \/ \E d \in Callers : pc'[d] \in Pending /\ call'[d].seq = u
      BY <1>2, <1>3, <1>9, <1>11, <3>1
    <3>4. \/ eval_event(log[i].event, log[i].rules) = << >>
          \/ Raised(u)'
          \/ \E d \in Callers : pc'[d] \in Before /\ call'[d].seq = u
      BY <1>2, <1>9, <1>11, <3>2
    <3> QED  BY <3>3, <3>4
  <2> QED  BY <1>2, <2>1 DEF EnteredInv
<1>16. StreamInv'
  <2>1. \A m \in DOMAIN tx : tx[m].kind = "violation" =>
           \E k \in DOMAIN vlog' : vlog'[k] = tx[m].stored
    BY <1>8 DEF TrailInv, StreamInv
  <2> QED  BY <1>2, <2>1 DEF TrailInv, StreamInv
<1> QED  BY <1>13, <1>14, <1>15, <1>16 DEF TrailInv

(* A message about the number of a pending caller, of a kind not sent yet  *)
(* under it, keeps the stream in order.                                    *)
LEMMA StreamGrows ==
    ASSUME TrailInv, IngestInv, NEW c \in Callers, Standing(c), NEW msg,
           tx' = Append(tx, msg), UNCHANGED << log, vlog >>,
           msg.stored.seq = call[c].seq, ~Sent(msg.kind, call[c].seq),
           msg.kind = "violation" => \E k \in DOMAIN vlog : vlog[k] = msg.stored,
           msg.kind = "event" => msg.stored.event = event(c)
    PROVE  /\ StreamInv'
           /\ \A kind, s : Sent(kind, s)' <=>
                 Sent(kind, s) \/ (kind = msg.kind /\ s = call[c].seq)
           /\ \E n \in DOMAIN tx' : tx'[n] = msg
           /\ \A m \in DOMAIN tx : m \in DOMAIN tx' /\ tx'[m] = tx[m]
<1>1. tx \in Seq(Packet)
  BY DEF IngestInv, TypeOK
<1>2. Grows(tx, tx', msg)
  BY <1>1, AppendGrows
<1>3. PICK n \in DOMAIN tx' :
         /\ DOMAIN tx' = DOMAIN tx \cup {n} /\ n \notin DOMAIN tx /\ tx'[n] = msg
         /\ \A m \in DOMAIN tx : m < n /\ tx'[m] = tx[m]
  BY <1>2 DEF Grows
<1>4. n \in Nat /\ DOMAIN tx \subseteq Nat
  <2>1. DOMAIN tx' = 1 .. Len(tx) + 1 /\ DOMAIN tx = 1 .. Len(tx)
    BY <1>1
  <2> QED  BY <1>3, <2>1
<1>5. \A kind, s : Sent(kind, s)' <=>
         Sent(kind, s) \/ (kind = msg.kind /\ s = call[c].seq)
  BY <1>3 DEF Sent
<1>6. \A m \in DOMAIN tx : tx[m].kind = msg.kind => tx[m].stored.seq # call[c].seq
  BY DEF Sent
<1>7. \A m \in DOMAIN tx : tx[m].kind = "event" => tx[m].stored.seq # call[c].seq
  BY DEF Sent, Standing
<1>8. \A m \in DOMAIN tx' : tx'[m].kind = "violation" =>
         \E k \in DOMAIN vlog : vlog[k] = tx'[m].stored
  BY <1>3 DEF TrailInv, StreamInv
<1>9. \A m \in DOMAIN tx' : tx'[m].kind = "event" =>
         \E i \in DOMAIN log : log[i].seq = tx'[m].stored.seq
                                 /\ log[i].event = tx'[m].stored.event
  <2>1. \E i \in DOMAIN log : log[i].seq = call[c].seq /\ log[i].event = event(c)
    BY DEF Standing, Entered
  <2> QED  BY <1>3, <2>1 DEF TrailInv, StreamInv
<1>10. \A m, k \in DOMAIN tx' :
          tx'[m].kind = tx'[k].kind /\ tx'[m].stored.seq = tx'[k].stored.seq => m = k
  BY <1>3, <1>6 DEF TrailInv, StreamInv
<1>11. ASSUME NEW m \in DOMAIN tx', NEW k \in DOMAIN tx',
              tx'[m].kind = "event", tx'[k].stored.seq = tx'[m].stored.seq
       PROVE  k <= m
  <2>1. CASE m = n
    BY <1>3, <1>4, <2>1
  <2>2. CASE m # n
    <3>1. m \in DOMAIN tx /\ tx'[m] = tx[m]
      BY <1>3, <2>2
    <3>2. k # n
      BY <1>3, <1>7, <1>11, <3>1
    <3>3. k \in DOMAIN tx /\ tx'[k] = tx[k]
      BY <1>3, <3>2
    <3> QED  BY <1>11, <3>1, <3>3 DEF TrailInv, StreamInv
  <2> QED  BY <2>1, <2>2
<1>12. StreamInv'
  BY <1>8, <1>9, <1>10, <1>11 DEF StreamInv
<1> QED  BY <1>3, <1>5, <1>12

(* The violation is broadcast. *)
LEMMA TrailTold ==
    ASSUME IngestInv, TrailInv, NEW c \in Callers, SendViolation(c)
    PROVE  TrailInv'
<1> DEFINE x == StoredViolation(c)
           msg == Message("violation", x)
<1>1. pc \in [Callers -> Labels] /\ call \in [Callers -> Call]
  BY DEF IngestInv, TypeOK
<1>2. pc[c] = "vsend" /\ pc[c] \in Alerting /\ pc[c] \in Pending
  BY DEF SendViolation, At, Alerting, Pending
<1>3. Standing(c) /\ Tail(call[c].todo) = << >>
  BY <1>2, DemandInHand
<1>4. /\ pc'[c] = "announce" /\ UNCHANGED << log, vlog >> /\ Alone(c)
      /\ tx' = Append(tx, msg) /\ call' = [call EXCEPT ![c].todo = << >>]
  BY <1>1, <1>3 DEF SendViolation, Goto, Alone, history
<1>5. /\ call'[c].seq = call[c].seq /\ call'[c].batch = call[c].batch
      /\ call'[c].rules = call[c].rules
  BY <1>1, <1>4 DEF Call
<1>6. /\ event(c)' = event(c)
      /\ pc'[c] \in Pending /\ pc'[c] \notin Alerting /\ pc'[c] \notin Before
      /\ pc[c] \notin Before /\ pc'[c] # "vsend"
  BY <1>2, <1>4, <1>5 DEF event, Pending, Alerting, Before
<1>7. x.seq = call[c].seq /\ msg.kind = "violation" /\ msg.stored = x
  BY DEF StoredViolation, Message
<1>8. PICK k \in DOMAIN vlog : vlog[k] = x
  BY <1>2, <1>3 DEF Standing
<1>9. ~Sent("violation", call[c].seq)
  BY <1>2, <1>3 DEF Standing
<1> HIDE DEF x, msg
<1>10. /\ StreamInv'
       /\ \A kind, s : Sent(kind, s)' <=>
             Sent(kind, s) \/ (kind = "violation" /\ s = call[c].seq)
       /\ \E n \in DOMAIN tx' : tx'[n] = msg
       /\ \A m \in DOMAIN tx : m \in DOMAIN tx' /\ tx'[m] = tx[m]
  BY <1>3, <1>4, <1>7, <1>8, <1>9, StreamGrows
<1>11. /\ \A s, e, r : Entered(s, e, r)' <=> Entered(s, e, r)
       /\ \A s : Raised(s)' <=> Raised(s)
  BY <1>4 DEF Entered, Raised
<1>12. \A d \in Callers : d # c => Steady(d) /\ pc'[d] = pc[d] /\ call'[d] = call[d]
  BY <1>4, OthersSteady
<1>13. ASSUME NEW d \in Callers, pc'[d] \in Pending PROVE Standing(d)'
  <2>1. CASE d = c
    <3>1. Entered(call[c].seq, event(c), call[c].rules)' /\ ~Sent("event", call[c].seq)'
      BY <1>3, <1>5, <1>6, <1>10, <1>11 DEF Standing
    <3> QED  BY <1>6, <2>1, <3>1 DEF Standing
  <2>2. CASE d # c
    BY <1>2, <1>4, <1>10, <1>11, <1>13, <2>2, OthersStand
  <2> QED  BY <2>1, <2>2
<1>14. CallersInv'
  <2>1. \A d \in Callers : call'[d].seq = call[d].seq /\ (pc'[d] \in Pending => pc[d] \in Pending)
    BY <1>2, <1>5, <1>12
  <2> QED  BY <1>13, <2>1 DEF CallersInv, TrailInv
<1>15. RaisedInv'
  <2>1. ASSUME NEW j \in DOMAIN vlog
        PROVE  \/ \E m \in DOMAIN tx' : tx'[m] = Message("violation", vlog[j])
               \/ \E d \in Callers : pc'[d] = "vsend" /\ call'[d].seq = vlog[j].seq
    <3>1. CASE vlog[j].seq = call[c].seq
      <4>1. j = k
        BY <1>7, <1>8, <3>1 DEF TrailInv, RaisedInv
      <4> QED  BY <1>8, <1>10, <4>1 DEF msg
    <3>2. CASE vlog[j].seq # call[c].seq
      <4>1. \/ \E m \in DOMAIN tx : tx[m] = Message("violation", vlog[j])
            \/ \E d \in Callers : pc[d] = "vsend" /\ call[d].seq = vlog[j].seq
        BY DEF TrailInv, RaisedInv
      <4> QED  BY <1>10, <1>12, <3>2, <4>1
    <3> QED  BY <3>1, <3>2
  <2> QED  BY <1>4, <2>1 DEF TrailInv, RaisedInv
<1>16. EnteredInv'
  <2>1. ASSUME NEW i \in DOMAIN log, NEW u, u = log[i].seq
        PROVE  /\ \/ Sent("event", u)'
                  \/ \E d \in Callers : pc'[d] \in Pending /\ call'[d].seq = u
               /\ \/ eval_event(log[i].event, log[i].rules) = << >>
                  \/ Raised(u)'
                  \/ \E d \in Callers : pc'[d] \in Before /\ call'[d].seq = u
    <3>1. \/ Sent("event", u)
          \/ \E d \in Callers : pc[d] \in Pending /\ call[d].seq = u
      BY <2>1 DEF TrailInv, EnteredInv
    <3>2. \/ eval_event(log[i].event, log[i].rules) = << >>
          \/ Raised(u)
          \/ \E d \in Callers : pc[d] \in Before /\ call[d].seq = u
      BY <2>1 DEF TrailInv, EnteredInv
    <3>3. \/ Sent("event", u)'
          \/ \E d \in Callers : pc'[d] \in Pending /\ call'[d].seq = u
      BY <1>5, <1>6, <1>10, <1>12, <3>1
    <3>4. \/ eval_event(log[i].event, log[i].rules) = << >>
          \/ Raised(u)'
          \/ \E d \in Callers : pc'[d] \in Before /\ call'[d].seq = u
      BY <1>6, <1>11, <1>12, <3>2
    <3> QED  BY <3>3, <3>4
  <2> QED  BY <1>4, <2>1 DEF EnteredInv
<1> QED  BY <1>10, <1>14, <1>15, <1>16 DEF TrailInv

(* The event is broadcast. *)
LEMMA TrailAnnounced ==
    ASSUME IngestInv, TrailInv, NEW c \in Callers, SendEvent(c)
    PROVE  TrailInv'
<1> DEFINE x == StoredEvent(c)
           msg == Message("event", x)
<1>1. pc \in [Callers -> Labels] /\ call \in [Callers -> Call]
  BY DEF IngestInv, TypeOK
<1>2. /\ pc[c] = "announce" /\ pc'[c] = "observe" /\ UNCHANGED << log, vlog, call >>
      /\ tx' = Append(tx, msg) /\ Alone(c)
  BY <1>1 DEF SendEvent, At, Goto, Alone, history
<1>3. /\ pc[c] \in Pending /\ pc[c] \notin Before /\ pc[c] # "vsend"
      /\ pc'[c] \notin Pending /\ pc'[c] \notin Before /\ pc'[c] # "vsend"
  BY <1>2 DEF Pending, Alerting, Before
<1>4. Standing(c) /\ ~Sent("event", call[c].seq)
  BY <1>3 DEF TrailInv, CallersInv, Standing
<1>5. /\ x.seq = call[c].seq /\ x.event = event(c)
      /\ msg.kind = "event" /\ msg.stored = x
  BY DEF StoredEvent, Message
<1> HIDE DEF x, msg
<1>6. /\ StreamInv'
      /\ \A kind, s : Sent(kind, s)' <=>
            Sent(kind, s) \/ (kind = "event" /\ s = call[c].seq)
      /\ \A m \in DOMAIN tx : m \in DOMAIN tx' /\ tx'[m] = tx[m]
  BY <1>2, <1>4, <1>5, StreamGrows
<1>7. /\ \A s, e, r : Entered(s, e, r)' <=> Entered(s, e, r)
      /\ \A s : Raised(s)' <=> Raised(s)
  BY <1>2 DEF Entered, Raised
<1>8. \A d \in Callers : d # c => Steady(d) /\ pc'[d] = pc[d] /\ call'[d] = call[d]
  BY <1>2, OthersSteady
<1>9. ASSUME NEW d \in Callers, pc'[d] \in Pending PROVE Standing(d)'
  <2>1. d # c
    BY <1>3, <1>9
  <2> QED  BY <1>2, <1>3, <1>6, <1>7, <1>9, <2>1, OthersStand
<1>10. CallersInv'
  <2>1. \A d \in Callers : pc'[d] \in Pending => pc[d] \in Pending
    BY <1>3, <1>8
  <2> QED  BY <1>2, <1>9, <2>1 DEF CallersInv, TrailInv
<1>11. RaisedInv'
  <2>1. ASSUME NEW j \in DOMAIN vlog
        PROVE  \/ \E m \in DOMAIN tx' : tx'[m] = Message("violation", vlog[j])
               \/ \E d \in Callers : pc'[d] = "vsend" /\ call'[d].seq = vlog[j].seq
    <3>1. \/ \E m \in DOMAIN tx : tx[m] = Message("violation", vlog[j])
          \/ \E d \in Callers : pc[d] = "vsend" /\ call[d].seq = vlog[j].seq
      BY DEF TrailInv, RaisedInv
    <3> QED  BY <1>3, <1>6, <1>8, <3>1
  <2> QED  BY <1>2, <2>1 DEF TrailInv, RaisedInv
<1>12. EnteredInv'
  <2>1. ASSUME NEW i \in DOMAIN log, NEW u, u = log[i].seq
        PROVE  /\ \/ Sent("event", u)'
                  \/ \E d \in Callers : pc'[d] \in Pending /\ call'[d].seq = u
               /\ \/ eval_event(log[i].event, log[i].rules) = << >>
                  \/ Raised(u)'
                  \/ \E d \in Callers : pc'[d] \in Before /\ call'[d].seq = u
    <3>1. \/ Sent("event", u)
          \/ \E d \in Callers : pc[d] \in Pending /\ call[d].seq = u
      BY <2>1 DEF TrailInv, EnteredInv
    <3>2. \/ eval_event(log[i].event, log[i].rules) = << >>
          \/ Raised(u)
          \/ \E d \in Callers : pc[d] \in Before /\ call[d].seq = u
      BY <2>1 DEF TrailInv, EnteredInv
    <3>3. \/ Sent("event", u)'
          \/ \E d \in Callers : pc'[d] \in Pending /\ call'[d].seq = u
      BY <1>6, <1>8, <3>1
    <3>4. \/ eval_event(log[i].event, log[i].rules) = << >>
          \/ Raised(u)'
          \/ \E d \in Callers : pc'[d] \in Before /\ call'[d].seq = u
      BY <1>3, <1>7, <1>8, <3>2
    <3> QED  BY <3>3, <3>4
  <2> QED  BY <1>2, <2>1 DEF EnteredInv
<1> QED  BY <1>6, <1>10, <1>11, <1>12 DEF TrailInv

(* The other steps write no history and leave every standing as it was. *)
LEMMA QuietSteps ==
    ASSUME IngestInv, NEW c \in Callers, Step(c),
           ~StoreEvent(c), ~PushViolation(c), ~SendViolation(c), ~SendEvent(c)
    PROVE  UNCHANGED << log, vlog, tx >> /\ \A d \in Callers : Steady(d)
<1>1. pc \in [Callers -> Labels] /\ call \in [Callers -> Call]
  BY DEF IngestInv, TypeOK
<1>2. Alone(c) /\ (AssignSeq(c) \/ UNCHANGED Ledger)
  <2>1. CASE AssignSeq(c)  BY <1>1, <2>1 DEF AssignSeq, Alone, Goto
  <2>2. CASE ~AssignSeq(c)  BY <2>2, OtherSteps
  <2> QED  BY <2>1, <2>2
<1>3. UNCHANGED << log, vlog, tx >> /\ Steady(c)
  <2> USE DEF At, Goto, Steady, Pending, Alerting, Before, shared, history
  <2>1. CASE AssignSeq(c)  BY <1>1, <2>1 DEF AssignSeq
  <2>2. CASE TakeEvent(c)  BY <1>1, <2>2 DEF TakeEvent
  <2>3. CASE ReadRules(c)  BY <1>1, <2>3 DEF ReadRules
  <2>4. CASE TryAcquire(c)  BY <1>1, <2>4 DEF TryAcquire
  <2>5. CASE Shed(c)  BY <1>1, <2>5 DEF Shed, Return
  <2>6. CASE CountEvent(c)  BY <1>1, <2>6 DEF CountEvent
  <2>7. CASE RecordProcess(c)  BY <1>1, <2>7 DEF RecordProcess
  <2>8. CASE StampViolation(c)  BY <1>1, <2>8 DEF StampViolation, Call
  <2>9. CASE CountViolation(c)  BY <1>1, <2>9 DEF CountViolation
  <2>10. CASE ClassifyViolation(c)  BY <1>1, <2>10 DEF ClassifyViolation
  <2>11. CASE ObserveLatency(c)  BY <1>1, <2>11 DEF ObserveLatency, Return
  <2>12. CASE Reply(c)  BY <1>1, <2>12 DEF Reply
  <2> QED  BY <2>1, <2>2, <2>3, <2>4, <2>5, <2>6, <2>7, <2>8, <2>9, <2>10, <2>11,
              <2>12 DEF Step
<1> QED  BY <1>2, <1>3, OthersSteady

(* The steps that are not a caller's: a new call, a new policy, the clock. *)
LEMMA Outside ==
    ASSUME IngestInv, [Next]_vars, ~(\E c \in Callers : Step(c))
    PROVE  UNCHANGED << log, vlog, tx >> /\ \A d \in Callers : Steady(d)
<1>1. pc \in [Callers -> Labels] /\ call \in [Callers -> Call]
  BY DEF IngestInv, TypeOK
<1>2. ASSUME UNCHANGED << log, vlog, tx, pc, call >>
      PROVE  UNCHANGED << log, vlog, tx >> /\ \A d \in Callers : Steady(d)
  BY <1>2 DEF Steady
<1>3. ASSUME NEW c \in Callers, NEW b, Begin(c, b)
      PROVE  UNCHANGED << log, vlog, tx >> /\ \A d \in Callers : Steady(d)
  <2>1. Alone(c)
    BY <1>3, BeginSteps
  <2>2. UNCHANGED << log, vlog, tx >> /\ Steady(c)
    BY <1>1, <1>3 DEF Begin, At, Goto, Steady, Pending, Alerting, Before, shared
  <2> QED  BY <2>1, <2>2, OthersSteady
<1>4. ASSUME NEW r \in RuleSets, put_policy(r)
      PROVE  UNCHANGED << log, vlog, tx, pc, call >>
  BY <1>4 DEF put_policy
<1>5. CASE Tick  BY <1>2, <1>5 DEF Tick, history
<1>6. CASE UNCHANGED vars  BY <1>2, <1>6 DEF vars, shared, history
<1>7. Drain \in Callers /\ Handlers \subseteq Callers  BY DEF Callers
<1> QED  BY <1>2, <1>3, <1>4, <1>5, <1>6, <1>7 DEF Next, DrainRecv, post_events

(* The trail, the stored violations, the stream and the calls in progress  *)
(* stay consistent with each other through every step.                     *)
LEMMA TrailInvariant == SafeSpec => []TrailInv
<1>1. Init => TrailInv
  BY DEF Init, TrailInv, CallersInv, RaisedInv, EnteredInv, StreamInv, Pending, Alerting
<1>2. IngestInv /\ SeqInv /\ TrailInv /\ [Next]_vars => TrailInv'
  <2> SUFFICES ASSUME IngestInv, SeqInv, TrailInv, [Next]_vars PROVE TrailInv'
    OBVIOUS
  <2>1. ASSUME NEW c \in Callers, Step(c) PROVE TrailInv'
    BY <2>1, TrailStored, TrailRaised, TrailTold, TrailAnnounced, QuietSteps, TrailKept
  <2> QED  BY <2>1, Outside, TrailKept
<1> QED  BY <1>1, <1>2, IngestInvariant, SeqInvariant, PTL DEF SafeSpec

----------------------------------------------------------------------------
(* Whatever the callers' interleaving, a subscriber that misses nothing    *)
(* sees each violation and each event once, the violations of an event     *)
(* before the event, and only unfinished calls leave an event unannounced. *)
THEOREM StreamIsOrdered == Spec => []StreamInOrder
<1>1. IngestInv /\ TrailInv => StreamInOrder
  <2> SUFFICES ASSUME IngestInv, TrailInv PROVE StreamInOrder
    OBVIOUS
  <2>1. IsInjective(tx)
    BY DEF TrailInv, StreamInv, IsInjective
  <2>2. ASSUME NEW i \in DOMAIN tx, tx[i].kind = "event", NEW k \in DOMAIN vlog,
               vlog[k].seq = tx[i].stored.seq
        PROVE  Contains(tx, Message("violation", vlog[k]))
    <3>1. Sent("event", vlog[k].seq)
      BY <2>2 DEF Sent
    <3>2. ~\E c \in Callers : pc[c] = "vsend" /\ call[c].seq = vlog[k].seq
      BY <3>1, AlertingIs DEF TrailInv, CallersInv, Standing
    <3>3. \E m \in DOMAIN tx : tx[m] = Message("violation", vlog[k])
      BY <3>2 DEF TrailInv, RaisedInv
    <3>4. DOMAIN tx = 1 .. Len(tx)
      BY DEF IngestInv, TypeOK
    <3> QED  BY <3>3, <3>4 DEF Contains
  <2>3. \A k \in DOMAIN log :
           \/ \E i \in DOMAIN tx : tx[i].kind = "event" /\ tx[i].stored.seq = log[k].seq
           \/ \E c \in CallersAt(Pending) : call[c].seq = log[k].seq
    BY DEF TrailInv, EnteredInv, Sent, CallersAt
  <2>4. \A i, j \in DOMAIN tx :
           tx[i].kind = "event" /\ tx[j].stored.seq = tx[i].stored.seq => j <= i
    BY DEF TrailInv, StreamInv
  <2>5. \A i \in DOMAIN tx : tx[i].kind = "event" =>
           \E k \in DOMAIN log : log[k].seq = tx[i].stored.seq
                                   /\ log[k].event = tx[i].stored.event
    BY DEF TrailInv, StreamInv
  <2> QED  BY <2>1, <2>2, <2>3, <2>4, <2>5 DEF StreamInOrder
<1> QED  BY <1>1, IngestInvariant, TrailInvariant, PTL DEF Spec, SafeSpec

(* Every stored event raises exactly what the rules its call read demand,  *)
(* in that order and under its own number, for any number of callers and   *)
(* any sequence of PUT /v1/policy between their steps.                     *)
THEOREM AlertsAreDemanded == Spec => []AlertsMatchPolicy
<1>1. IngestInv /\ SeqInv /\ TrailInv => AlertsMatchPolicy
  <2> SUFFICES ASSUME IngestInv, SeqInv, TrailInv PROVE AlertsMatchPolicy
    OBVIOUS
  <2> DEFINE under(s) == {k \in DOMAIN vlog : vlog[k].seq = s}
             rank(k) == Cardinality({j \in under(vlog[k].seq) : j <= k})
             left(c) == IF At(c, "vsend") THEN Tail(call[c].todo) ELSE call[c].todo
             demand(i) == eval_event(log[i].event, log[i].rules)
             done(i) == Cardinality(under(log[i].seq))
             here(i) == {c \in CallersAt(Alerting) : call[c].seq = log[i].seq}
  <2>1. \A k \in DOMAIN vlog : \E i \in DOMAIN log : log[i].seq = vlog[k].seq
    BY DEF TrailInv, RaisedInv
  <2>2. ASSUME NEW i \in DOMAIN log
        PROVE  /\ \A k \in under(log[i].seq) : /\ rank(k) \in DOMAIN demand(i)
                                               /\ vlog[k].violation = demand(i)[rank(k)]
               /\ \A c \in here(i) :
                     left(c) = SubSeq(demand(i), done(i) + 1, Len(demand(i)))
               /\ here(i) = {} => done(i) = Len(demand(i))
    <3>1. \A j \in DOMAIN log : log[j].seq = log[i].seq => j = i
      BY DEF SeqInv
    <3>2. ASSUME NEW k \in under(log[i].seq)
          PROVE  /\ demand(i) = << vlog[k].violation >> /\ done(i) = 1 /\ rank(k) = 1
      <4>1. k \in DOMAIN vlog /\ vlog[k].seq = log[i].seq
        OBVIOUS
      <4>2. demand(i) = << vlog[k].violation >>
        BY <3>1, <4>1 DEF TrailInv, RaisedInv
      <4>3. under(log[i].seq) = {k}
        BY <4>1 DEF TrailInv, RaisedInv
      <4>4. DOMAIN vlog \subseteq Nat
        BY DEF IngestInv, TypeOK
      <4>5. {j \in under(vlog[k].seq) : j <= k} = {k}
        BY <4>1, <4>3, <4>4
      <4> HIDE DEF demand, under
      <4> QED  BY <4>2, <4>3, <4>5, FS_Singleton
    <3>3. under(log[i].seq) = {} => done(i) = 0
      BY FS_EmptySet
    <3>4. Raised(log[i].seq) <=> under(log[i].seq) # {}
      BY DEF Raised
    <3>5. ASSUME NEW c \in Callers, pc[c] \in Alerting, call[c].seq = log[i].seq
          PROVE  left(c) = SubSeq(demand(i), done(i) + 1, Len(demand(i)))
      <4>1. /\ Standing(c) /\ Demand(c) = << Head(call[c].todo) >>
            /\ Tail(call[c].todo) = << >>
        BY <3>5, DemandInHand
      <4>2. call[c].todo = Demand(c) /\ Demand(c) = demand(i)
        BY <3>1, <3>5, <4>1 DEF Standing, Entered, Demand
      <4>3. PICK v : demand(i) = << v >>
        BY <4>1, <4>2
      <4> HIDE DEF demand, done, under
      <4>4. CASE pc[c] = "vsend"
        <5>1. \E k \in DOMAIN vlog : vlog[k].seq = log[i].seq
          BY <3>5, <4>1, <4>4 DEF Standing, StoredViolation
        <5>2. done(i) = 1
          BY <3>2, <5>1 DEF under
        <5>3. SubSeq(demand(i), 2, 1) = << >>
          BY <4>3
        <5> QED  BY <4>1, <4>3, <4>4, <5>2, <5>3 DEF At
      <4>5. CASE pc[c] # "vsend"
        <5>1. pc[c] \in Before
          BY <3>5, <4>5, AlertingIs
        <5>2. done(i) = 0
          BY <3>3, <3>4, <3>5, <4>1, <5>1 DEF Standing
        <5>3. SubSeq(demand(i), 1, 1) = demand(i)
          BY <4>3, WholeOfOne
        <5> QED  BY <4>2, <4>3, <4>5, <5>2, <5>3 DEF At
      <4> QED  BY <4>4, <4>5
    <3>6. ASSUME here(i) = {} PROVE done(i) = Len(demand(i))
      <4>1. ~\E c \in Callers : pc[c] \in Before /\ call[c].seq = log[i].seq
        BY <3>6, AlertingIs DEF CallersAt
      <4>2. demand(i) = << >> \/ under(log[i].seq) # {}
        BY <3>4, <4>1 DEF TrailInv, EnteredInv
      <4> HIDE DEF demand, done, under
      <4>3. CASE under(log[i].seq) # {}
        <5>1. PICK k \in under(log[i].seq) : TRUE
          BY <4>3
        <5>2. demand(i) = << vlog[k].violation >> /\ done(i) = 1
          BY <3>2, <5>1
        <5> QED  BY <5>2
      <4>4. CASE under(log[i].seq) = {}
        BY <3>3, <4>2, <4>4
      <4> QED  BY <4>3, <4>4
    <3>7. \A k \in under(log[i].seq) : /\ rank(k) \in DOMAIN demand(i)
                                       /\ vlog[k].violation = demand(i)[rank(k)]
      <4> HIDE DEF demand, done, under, rank
      <4> QED  BY <3>2
    <3> QED  BY <3>5, <3>6, <3>7 DEF CallersAt
  <2> QED  BY <2>1, <2>2 DEF AlertsMatchPolicy
<1> QED  BY <1>1, IngestInvariant, SeqInvariant, TrailInvariant, PTL
         DEF Spec, SafeSpec

----------------------------------------------------------------------------
(***************************************************************************)
(* The refinement.  What the abstract trail is, in the pipeline's state.   *)
(***************************************************************************)
TrailOf     == ToSet(log)
RaisedOf    == {Unstamped(vlog[i]) : i \in DOMAIN vlog}
ToldOf      == {Unstamped(tx[i].stored) :
                  i \in {j \in DOMAIN tx : tx[j].kind = "violation"}}
AnnouncedOf == {tx[i].stored.seq : i \in {j \in DOMAIN tx : tx[j].kind = "event"}}

(* A stored violation or message, by what the abstract trail sees of it. *)
LEMMA AbstractMembers ==
    /\ \A s : s \in AnnouncedOf <=> Sent("event", s)
    /\ \A a : a \in RaisedOf => Raised(a.seq)
    /\ \A a : a \in ToldOf => Sent("violation", a.seq)
    /\ \A t : t \in TrailOf <=> \E i \in DOMAIN log : log[i] = t
    /\ \A k \in DOMAIN vlog : Unstamped(vlog[k]) \in RaisedOf
    /\ \A k \in DOMAIN vlog : (\E m \in DOMAIN tx : tx[m] = Message("violation", vlog[k]))
          => Unstamped(vlog[k]) \in ToldOf
<1>1. \A k \in DOMAIN vlog : (\E m \in DOMAIN tx : tx[m] = Message("violation", vlog[k]))
         => Unstamped(vlog[k]) \in ToldOf
  BY DEF ToldOf, Message
<1> QED  BY <1>1 DEF AnnouncedOf, RaisedOf, ToldOf, TrailOf, ToSet, Sent, Raised, Unstamped

(* Storing an event is a step of the abstract trail. *)
LEMMA StoreImplements ==
    ASSUME IngestInv, SeqInv, TrailInv, NEW c \in Callers, StoreEvent(c)
    PROVE  Trail!Store
<1> DEFINE x == [seq |-> call[c].seq, event |-> event(c), rules |-> call[c].rules]
<1>1. /\ log \in Seq([seq : Nat, event : Events, rules : RuleSets]) /\ call[c] \in Call
      /\ pc[c] = "store" /\ Sound(pc[c], call[c])
  BY DEF IngestInv, TypeOK, HoldInv, StoreEvent, At
<1>2. event(c) \in Events /\ call[c].seq \in Nat /\ call[c].rules \in RuleSets
  <2>1. event(c) \in Events  BY <1>1, EventInHand DEF Holding, Labels
  <2> QED  BY <1>1, <2>1 DEF Call, Sound, Numbered, NoSeq
<1>3. /\ x \in [seq : Nat, event : Events, rules : RuleSets] /\ x.seq = call[c].seq
      /\ log' = Append(log, x) /\ UNCHANGED << vlog, tx >>
  BY <1>2 DEF StoreEvent
<1> HIDE DEF x
<1>4. Grows(log, log', x)
  BY <1>1, <1>3, AppendGrows
<1>5. ToSet(log)' = ToSet(log) \cup {x}
  BY <1>4 DEF Grows, ToSet
<1>6. \A u \in ToSet(log) : u.seq # x.seq
  BY <1>1, <1>3 DEF SeqInv, ToSet
<1> QED  BY <1>3, <1>5, <1>6 DEF Trail!Store, Trail!Entry

(* Storing a violation is one, of the event that demands it. *)
LEMMA RaiseImplements ==
    ASSUME IngestInv, TrailInv, NEW c \in Callers, PushViolation(c)
    PROVE  \E t \in ToSet(log) : Trail!Raise(t)
<1> DEFINE x == StoredViolation(c)
           a == Unstamped(x)
<1>1. pc[c] \in Alerting /\ pc[c] \in Before
  BY DEF PushViolation, At, Alerting, Before
<1>2. /\ Standing(c) /\ Demand(c) = << Head(call[c].todo) >>
      /\ ~Raised(call[c].seq) /\ ~Sent("event", call[c].seq)
  BY <1>1, DemandInHand DEF Standing
<1>3. PICK i \in DOMAIN log : /\ log[i].seq = call[c].seq /\ log[i].event = event(c)
                              /\ log[i].rules = call[c].rules
  BY <1>2 DEF Standing, Entered
<1>4. a = [seq |-> log[i].seq, violation |-> Head(call[c].todo)] /\ a.seq = call[c].seq
  BY <1>3 DEF Unstamped, StoredViolation
<1>5. Head(call[c].todo) \in Demands(log[i].event, log[i].rules)
  BY <1>2, <1>3 DEF Demand, Demands, ToSet
<1>6. a \in Trail!Alerts(log[i])
  BY <1>4, <1>5 DEF Trail!Alerts
<1>7. a \notin RaisedOf /\ log[i].seq \notin AnnouncedOf
  BY <1>2, <1>3, <1>4, AbstractMembers
<1>8. vlog \in Seq(Alert) /\ vlog' = Append(vlog, x) /\ UNCHANGED << log, tx >>
  BY DEF IngestInv, TypeOK, PushViolation
<1>9. Grows(vlog, vlog', x)
  BY <1>8, AppendGrows
<1>10. RaisedOf' = RaisedOf \cup {a}
  <2> HIDE DEF x
  <2> QED  BY <1>9 DEF RaisedOf, Grows
<1>11. log[i] \in ToSet(log)
  BY DEF ToSet
<1> HIDE DEF a, x
<1>12. Trail!Raise(log[i])
  BY <1>6, <1>7, <1>8, <1>10 DEF Trail!Raise, RaisedOf, AnnouncedOf, ToSet
<1> QED  BY <1>11, <1>12

(* Broadcasting a violation is one. *)
LEMMA TellImplements ==
    ASSUME IngestInv, TrailInv, NEW c \in Callers, SendViolation(c)
    PROVE  Trail!Tell
<1> DEFINE x == StoredViolation(c)
           a == Unstamped(x)
           msg == Message("violation", x)
<1>1. pc[c] \in Alerting /\ pc[c] = "vsend"
  BY DEF SendViolation, At, Alerting
<1>2. Standing(c)
  BY <1>1, DemandInHand
<1>3. /\ a.seq = call[c].seq /\ ~Sent("violation", call[c].seq)
      /\ \E k \in DOMAIN vlog : vlog[k] = x
  BY <1>1, <1>2 DEF Standing, Unstamped, StoredViolation
<1>4. a \in RaisedOf /\ a \notin ToldOf
  BY <1>3, AbstractMembers
<1>5. tx \in Seq(Packet) /\ tx' = Append(tx, msg) /\ UNCHANGED << log, vlog >>
  BY DEF IngestInv, TypeOK, SendViolation, history
<1>6. Grows(tx, tx', msg)
  BY <1>5, AppendGrows
<1>7. msg.kind = "violation" /\ msg.stored = x
  BY DEF Message
<1> HIDE DEF x, msg
<1>8. ToldOf' = ToldOf \cup {a} /\ AnnouncedOf' = AnnouncedOf
  BY <1>6, <1>7 DEF ToldOf, AnnouncedOf, Grows
<1> HIDE DEF a
<1> QED  BY <1>4, <1>5, <1>8 DEF Trail!Tell, RaisedOf, ToldOf, AnnouncedOf, ToSet

(* Broadcasting an event is one: everything it demands has been told. *)
LEMMA AnnounceImplements ==
    ASSUME IngestInv, SeqInv, TrailInv, NEW c \in Callers, SendEvent(c)
    PROVE  \E t \in ToSet(log) : Trail!Announce(t)
<1> DEFINE x == StoredEvent(c)
           msg == Message("event", x)
<1>1. pc[c] = "announce" /\ pc[c] \in Pending
  BY DEF SendEvent, At, Pending
<1>2. Standing(c) /\ ~Sent("event", call[c].seq)
  BY <1>1 DEF TrailInv, CallersInv, Standing
<1>3. PICK i \in DOMAIN log : /\ log[i].seq = call[c].seq /\ log[i].event = event(c)
                              /\ log[i].rules = call[c].rules
  BY <1>2 DEF Standing, Entered
<1>4. \A d \in Callers : pc[d] \in Alerting => call[d].seq # log[i].seq
  <2>1. \A d \in Callers : pc[d] \in Alerting => d # c
    BY <1>1 DEF Alerting
  <2> QED  BY <1>1, <1>3, <2>1, AlertingIs DEF TrailInv, CallersInv
<1>5. ASSUME NEW a \in Trail!Alerts(log[i]) PROVE a \in ToldOf
  <2>1. PICK v \in Demands(log[i].event, log[i].rules) :
           a = [seq |-> log[i].seq, violation |-> v]
    BY <1>5 DEF Trail!Alerts
  <2>2. eval_event(log[i].event, log[i].rules) # << >>
    BY <2>1 DEF Demands, ToSet
  <2>3. Raised(log[i].seq)
    BY <1>4, <2>2, AlertingIs DEF TrailInv, EnteredInv
  <2>4. PICK k \in DOMAIN vlog : vlog[k].seq = log[i].seq
    BY <2>3 DEF Raised
  <2>5. eval_event(log[i].event, log[i].rules) = << vlog[k].violation >>
    <3>1. PICK j \in DOMAIN log :
             /\ log[j].seq = vlog[k].seq
             /\ eval_event(log[j].event, log[j].rules) = << vlog[k].violation >>
      BY DEF TrailInv, RaisedInv
    <3>2. j = i
      BY <2>4, <3>1 DEF SeqInv
    <3> QED  BY <3>1, <3>2
  <2>6. v = vlog[k].violation
    BY <2>1, <2>5 DEF Demands, ToSet
  <2>7. a = Unstamped(vlog[k])
    BY <2>1, <2>4, <2>6 DEF Unstamped
  <2>8. \E m \in DOMAIN tx : tx[m] = Message("violation", vlog[k])
    BY <1>4, <2>4, AlertingIs DEF TrailInv, RaisedInv
  <2> QED  BY <2>7, <2>8, AbstractMembers
<1>6. tx \in Seq(Packet) /\ tx' = Append(tx, msg) /\ UNCHANGED << log, vlog >>
  BY DEF IngestInv, TypeOK, SendEvent, history
<1>7. Grows(tx, tx', msg)
  BY <1>6, AppendGrows
<1>8. msg.kind = "event" /\ msg.stored.seq = log[i].seq
  BY <1>3 DEF Message, StoredEvent
<1> HIDE DEF x, msg
<1>9. ToldOf' = ToldOf /\ AnnouncedOf' = AnnouncedOf \cup {log[i].seq}
  BY <1>7, <1>8 DEF ToldOf, AnnouncedOf, Grows
<1>10. log[i] \in ToSet(log) /\ log[i].seq \notin AnnouncedOf
  BY <1>2, <1>3, AbstractMembers DEF ToSet
<1>11. ASSUME NEW t, t = log[i] PROVE Trail!Announce(t)
  <2>1. /\ t.seq \notin AnnouncedOf /\ Trail!Alerts(t) \subseteq ToldOf
        /\ AnnouncedOf' = AnnouncedOf \cup {t.seq}
    BY <1>5, <1>9, <1>10, <1>11
  <2>2. ToSet(log)' = ToSet(log) /\ RaisedOf' = RaisedOf /\ ToldOf' = ToldOf
    BY <1>6, <1>9 DEF ToSet, RaisedOf
  <2> QED  BY <2>1, <2>2 DEF Trail!Announce, RaisedOf, ToldOf, AnnouncedOf
<1> QED  BY <1>10, <1>11

(* The pipeline, with its callers, locks, rate limit and rings, implements *)
(* the abstract audit trail: every behaviour of it, for any number of      *)
(* callers, is one of AuditTrail under the refinement mapping.             *)
THEOREM PipelineImplementsTrail == Spec => ImplementsTrail
<1>1. Init => Trail!Init
  BY DEF Init, Trail!Init, ToSet
<1>2. IngestInv /\ SeqInv /\ TrailInv /\ [Next]_vars => [Trail!Next]_(Trail!vars)
  <2> SUFFICES ASSUME IngestInv, SeqInv, TrailInv, [Next]_vars
               PROVE  Trail!Next \/ UNCHANGED Trail!vars
    OBVIOUS
  <2>1. ASSUME UNCHANGED << log, vlog, tx >> PROVE UNCHANGED Trail!vars
    BY <2>1 DEF Trail!vars, ToSet
  <2>2. ASSUME NEW c \in Callers, Step(c) PROVE Trail!Next \/ UNCHANGED Trail!vars
    <3>1. CASE StoreEvent(c)  BY <3>1, StoreImplements DEF Trail!Next
    <3>2. CASE PushViolation(c)  BY <3>2, RaiseImplements DEF Trail!Next
    <3>3. CASE SendViolation(c)  BY <3>3, TellImplements DEF Trail!Next
    <3>4. CASE SendEvent(c)  BY <3>4, AnnounceImplements DEF Trail!Next
    <3>5. CASE /\ ~StoreEvent(c) /\ ~PushViolation(c)
               /\ ~SendViolation(c) /\ ~SendEvent(c)
      BY <2>1, <2>2, <3>5, QuietSteps
    <3> QED  BY <3>1, <3>2, <3>3, <3>4, <3>5
  <2> QED  BY <2>1, <2>2, Outside
<1> QED  BY <1>1, <1>2, IngestInvariant, SeqInvariant, TrailInvariant, PTL
         DEF Spec, SafeSpec, ImplementsTrail, Trail!Spec
=============================================================================
