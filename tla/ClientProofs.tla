---------------------------- MODULE ClientProofs ----------------------------
(***************************************************************************)
(* The clients of the pipeline: what a scrape of the metrics shows beside  *)
(* any number of callers, and what the read API serves when the drain task *)
(* is the only caller.                                                     *)
(***************************************************************************)
EXTENDS Dashboard, Scraper, IngestHistoryProofs, WellFoundedInduction

(* Clients only read: beside one, the pipeline takes its own steps, so     *)
(* what it keeps invariant stays so.                                       *)
LEMMA ReaderRunsPipeline == ReaderSpec => SafeSpec
<1>1. ReaderInit => Init
  BY DEF ReaderInit
<1>2. [ReaderNext]_allVars => [Next]_vars
  BY DEF ReaderNext, Fetch, allVars
<1> QED  BY <1>1, <1>2, PTL DEF ReaderSpec, SafeSpec

(* The same with the page. *)
LEMMA DashRunsPipeline == DashSpec => SafeSpec
<1>1. DashInit => Init
  BY DEF DashInit, ReaderInit
<1>2. [DashNext]_dashVars => [Next]_vars
  BY DEF DashNext, Walk, Fetch, Connect, Disconnect, onmessage, OnPage,
         PollStep, StartPoll, AnswerEvents, AnswerViolations, SetEvents,
         SetViolations, PollFails, Poll, dashVars
<1> QED  BY <1>1, <1>2, PTL DEF DashSpec, SafeSpec

(* Beside a scraper, too. *)
LEMMA ScraperRunsPipeline == ScraperSpec => SafeSpec
<1>1. ScraperInit => Init
  BY DEF ScraperInit
<1>2. [ScraperNext]_scraperVars => [Next]_vars
  BY DEF ScraperNext, Pipeline, render, LoadAny, Load, Lock, NextScrape, scraperVars
<1> QED  BY <1>1, <1>2, PTL DEF ScraperSpec, SafeSpec

----------------------------------------------------------------------------
(***************************************************************************)
(* The scrape.  A caller counts its event first and observes its latency   *)
(* last, so whoever sees the sample under the lock can see the count.      *)
(***************************************************************************)

(* Labels at which an event is counted and its latency not yet observed. *)
Passing == {"proc", "seq", "store", "observe"} \cup Pending

(* What a step does to the event counter and to the samples. *)
Counts(ev, sa) ==
    metrics'.events = metrics.events + ev /\ metrics'.samples <= metrics.samples + sa

(* Every step of a caller, by what it counts and where it goes. *)
LEMMA StepPublishes ==
    ASSUME IngestInv, NEW c \in Callers, Step(c)
    PROVE  /\ \/ /\ Counts(0, 0) /\ ~Leaves(c, "count") /\ ~Leaves(c, "observe")
                 /\ pc[c] \in Passing <=> pc'[c] \in Passing
              \/ /\ Counts(1, 0) /\ Leaves(c, "count") /\ ~Leaves(c, "observe")
                 /\ pc[c] \notin Passing /\ pc'[c] \in Passing
              \/ /\ Counts(0, 1) /\ Leaves(c, "observe") /\ ~Leaves(c, "count")
                 /\ pc[c] \in Passing /\ pc'[c] \notin Passing
           /\ metrics'.samples \in Nat
<1> USE DEF At, Goto, Passing, Pending, Alerting, Leaves, shared, history
<1>1. pc \in [Callers -> Labels] /\ metrics \in Counters
  BY DEF IngestInv, TypeOK
<1>2. metrics.events \in Nat /\ metrics.samples \in Nat
  BY <1>1 DEF Counters
<1>3. ASSUME metrics' = metrics \/ \E f \in {"dropped", "violations", "critical", "warn"} :
                                      metrics' = [metrics EXCEPT ![f] = @ + 1]
      PROVE  Counts(0, 0) /\ metrics'.samples \in Nat
  BY <1>1, <1>2, <1>3 DEF Counts, Counters
<1>4. CASE TakeEvent(c)  BY <1>1, <1>3, <1>4 DEF TakeEvent
<1>5. CASE ReadRules(c)  BY <1>1, <1>3, <1>5 DEF ReadRules
<1>6. CASE TryAcquire(c)  BY <1>1, <1>3, <1>6 DEF TryAcquire
<1>7. CASE Shed(c)  BY <1>1, <1>3, <1>7 DEF Shed, Return
<1>8. CASE CountEvent(c)
  <2>1. metrics' = [metrics EXCEPT !.events = @ + 1]
    BY <1>8 DEF CountEvent
  <2>2. Counts(1, 0) /\ metrics'.samples \in Nat
    BY <1>1, <1>2, <2>1 DEF Counts, Counters
  <2>3. pc[c] = "count" /\ pc'[c] \in {"proc", "seq"}
    BY <1>1, <1>8 DEF CountEvent
  <2> QED  BY <2>2, <2>3
<1>9. CASE RecordProcess(c)  BY <1>1, <1>3, <1>9 DEF RecordProcess
<1>10. CASE AssignSeq(c)  BY <1>1, <1>3, <1>10 DEF AssignSeq
<1>11. CASE StoreEvent(c)  BY <1>1, <1>3, <1>11 DEF StoreEvent
<1>12. CASE StampViolation(c)  BY <1>1, <1>3, <1>12 DEF StampViolation
<1>13. CASE CountViolation(c)
  <2>1. metrics' = [metrics EXCEPT !["violations"] = @ + 1]
    BY <1>13 DEF CountViolation
  <2> QED  BY <1>1, <1>3, <1>13, <2>1 DEF CountViolation
<1>14. CASE ClassifyViolation(c)
  <2>1. \/ metrics' = [metrics EXCEPT !["critical"] = @ + 1]
        \/ metrics' = [metrics EXCEPT !["warn"] = @ + 1]
    BY <1>14 DEF ClassifyViolation
  <2> QED  BY <1>1, <1>3, <1>14, <2>1 DEF ClassifyViolation
<1>15. CASE PushViolation(c)  BY <1>1, <1>3, <1>15 DEF PushViolation
<1>16. CASE SendViolation(c)  BY <1>1, <1>3, <1>16 DEF SendViolation
<1>17. CASE SendEvent(c)  BY <1>1, <1>3, <1>17 DEF SendEvent
<1>18. CASE ObserveLatency(c)
  <2>1. metrics' = [metrics EXCEPT !.samples = AtMost(@ + 1, LATENCY_SAMPLE_CAP)]
    BY <1>18 DEF ObserveLatency
  <2>2. AtMost(metrics.samples + 1, LATENCY_SAMPLE_CAP) \in Nat
        /\ AtMost(metrics.samples + 1, LATENCY_SAMPLE_CAP) <= metrics.samples + 1
    BY <1>2, IngestAssumption DEF AtMost
  <2>3. Counts(0, 1) /\ metrics'.samples \in Nat
    BY <1>1, <1>2, <2>1, <2>2 DEF Counts, Counters
  <2>4. pc[c] = "observe" /\ pc'[c] = "loop"
    BY <1>1, <1>18 DEF ObserveLatency, Return
  <2> QED  BY <2>3, <2>4
<1>19. CASE Reply(c)  BY <1>1, <1>3, <1>19 DEF Reply
<1> QED  BY <1>4, <1>5, <1>6, <1>7, <1>8, <1>9, <1>10, <1>11, <1>12, <1>13, <1>14,
            <1>15, <1>16, <1>17, <1>18, <1>19 DEF Step

(* Every count up to the event total was published, or is still known only *)
(* to the caller that made it; and that caller has not observed its sample.*)
PublishInv ==
    /\ counted \in [Callers -> Nat] /\ released \in Nat
    /\ \A i \in 1 .. metrics.events :
          i <= released \/ \E c \in CallersAt(Passing) : counted[c] = i
    /\ metrics.samples + Count(Passing) <= metrics.events

(* So what is published covers every sample. *)
LEMMA SamplesArePublished ==
    ASSUME IngestInv, PublishInv
    PROVE  metrics.samples \in Nat /\ metrics.samples <= released
<1> DEFINE S == CallersAt(Passing)
           T == {counted[c] : c \in S}
           f == [c \in S |-> counted[c]]
           e == metrics.events   p == Count(Passing)   q == Cardinality(T)
<1>1. e \in Nat /\ metrics.samples \in Nat /\ released \in Nat
  BY DEF IngestInv, TypeOK, Counters, PublishInv
<1>2. IsFiniteSet(S) /\ p \in Nat /\ p = Cardinality(S)
  BY CountType DEF Count
<1>3. f \in Surjection(S, T)
  BY DEF Surjection
<1>4. IsFiniteSet(T) /\ q <= p /\ q \in Nat
  <2>1. IsFiniteSet(T) /\ q <= Cardinality(S)
    BY <1>2, <1>3, FS_Surjection
  <2> QED  BY <1>2, <2>1, FS_CardinalityType
<1>5. CASE e <= released
  BY <1>1, <1>2, <1>5 DEF PublishInv
<1>6. CASE released < e
  <2> DEFINE r == released   I == (r + 1) .. e
  <2>1. \A i \in 1 .. e : i <= r \/ i \in T
    BY DEF PublishInv
  <2>2. I \subseteq T
    <3>1. e \in Nat /\ r \in Nat
      BY <1>1
    <3> HIDE DEF e, r, T
    <3> QED  BY <2>1, <3>1
  <2>3. Cardinality(I) = e - r
    <3>1. e \in Nat /\ r \in Nat /\ r < e
      BY <1>1, <1>6
    <3> HIDE DEF e, r
    <3> QED  BY <3>1, FS_Interval
  <2>5. e - r <= q
    <3> HIDE DEF I, T
    <3>1. Cardinality(I) <= Cardinality(T)
      BY <1>4, <2>2, FS_Subset
    <3> QED  BY <2>3, <3>1
  <2>4. metrics.samples + p <= e
    BY DEF PublishInv
  <2> HIDE DEF e, p, q, r
  <2>6. metrics.samples <= r
    <3>1. r \in Nat /\ metrics.samples \in Nat
      BY <1>1 DEF r
    <3> QED  BY <1>1, <1>2, <1>4, <2>4, <2>5, <3>1
  <2> QED  BY <1>1, <2>6 DEF r
<1> QED  BY <1>1, <1>5, <1>6

(* The greater of two numbers. *)
LEMMA MaxOfTwo ==
    ASSUME NEW a \in Nat, NEW b \in Nat
    PROVE  Max({a, b}) \in Nat /\ a <= Max({a, b}) /\ b <= Max({a, b})
<1>1. \E x \in {a, b} : \A y \in {a, b} : x >= y
  <2>1. CASE a >= b  BY <2>1
  <2>2. CASE b >= a  BY <2>2
  <2> QED  BY <2>1, <2>2
<1>2. Max({a, b}) \in {a, b} /\ \A y \in {a, b} : Max({a, b}) >= y
  BY <1>1 DEF Max
<1> QED  BY <1>2

(* Callers that count, pass and observe keep it so. *)
LEMMA PublishKept ==
    ASSUME IngestInv, PublishInv, Pipeline
    PROVE  PublishInv'
<1>1. /\ pc \in [Callers -> Labels] /\ metrics.events \in Nat /\ metrics.samples \in Nat
      /\ counted \in [Callers -> Nat] /\ released \in Nat
  BY DEF IngestInv, TypeOK, Counters, PublishInv
<1>2. ASSUME UNCHANGED metrics, \A d \in Callers : /\ ~Leaves(d, "count")
                                                   /\ ~Leaves(d, "observe")
                                                   /\ pc[d] \in Passing <=> pc'[d] \in Passing
      PROVE  PublishInv'
  <2>1. counted' = counted
    BY <1>1, <1>2 DEF Pipeline
  <2>2. released' = released
    <3>1. released' = Max({released, released})
      BY <1>2 DEF Pipeline
    <3> QED  BY <1>1, <3>1, MaxOfTwo DEF Max
  <2>3. CallersAt(Passing)' = CallersAt(Passing)
    BY <1>2 DEF CallersAt
  <2> QED  BY <1>2, <2>1, <2>2, <2>3 DEF PublishInv, Count
<1>3. ASSUME NEW c \in Callers, Step(c) PROVE PublishInv'
  <2> DEFINE e == metrics.events   e1 == metrics'.events
             s == metrics.samples   s1 == metrics'.samples
             n == Count(Passing)   n1 == Count(Passing)'
  <2>1. Alone(c) /\ \A d \in Callers : d # c => pc'[d] = pc[d]
    BY <1>3, StepsAlone DEF Alone
  <2>2. n \in Nat /\ n1 \in Nat
        /\ n1 + One(pc[c] \in Passing) = n + One(pc'[c] \in Passing)
    BY <2>1, CountFollows
  <2>3. \A d \in Callers : d # c => ~Leaves(d, "count") /\ ~Leaves(d, "observe")
    BY <2>1 DEF Leaves
  <2>4. s + n <= e /\ e \in Nat /\ s \in Nat /\ s1 \in Nat
    BY <1>1, <1>3, StepPublishes DEF PublishInv
  <2>5. \A i \in 1 .. e : i <= released \/ \E d \in CallersAt(Passing) : counted[d] = i
    BY DEF PublishInv
  <2>6. CASE /\ Counts(0, 0) /\ ~Leaves(c, "count") /\ ~Leaves(c, "observe")
             /\ pc[c] \in Passing <=> pc'[c] \in Passing
    <3>1. counted' = counted
      BY <1>1, <2>3, <2>6 DEF Pipeline
    <3>2. released' = released
      <4>1. released' = Max({released, released})
        BY <2>3, <2>6 DEF Pipeline
      <4> QED  BY <1>1, <4>1, MaxOfTwo DEF Max
    <3>3. CallersAt(Passing)' = CallersAt(Passing)
      BY <2>1, <2>6 DEF CallersAt
    <3>4. e1 = e /\ s1 <= s /\ n1 = n
      BY <2>2, <2>4, <2>6 DEF Counts, One
    <3>5. s1 + n1 <= e1
      BY <2>2, <2>4, <3>4
    <3> QED  BY <1>1, <2>5, <3>1, <3>2, <3>3, <3>4, <3>5 DEF PublishInv
  <2>7. CASE /\ Counts(1, 0) /\ Leaves(c, "count") /\ ~Leaves(c, "observe")
             /\ pc[c] \notin Passing /\ pc'[c] \in Passing
    <3>1. e1 = e + 1 /\ s1 <= s /\ n1 = n + 1
      BY <2>2, <2>4, <2>7 DEF Counts, One
    <3>2. counted' = [counted EXCEPT ![c] = e1]
      BY <1>1, <2>3, <2>7 DEF Pipeline
    <3>3. released' = released
      <4>1. released' = Max({released, released})
        BY <2>3, <2>7 DEF Pipeline
      <4> QED  BY <1>1, <4>1, MaxOfTwo DEF Max
    <3>4. CallersAt(Passing)' = CallersAt(Passing) \cup {c} /\ c \notin CallersAt(Passing)
      BY <2>1, <2>7 DEF CallersAt
    <3>5. counted' \in [Callers -> Nat] /\ counted'[c] = e1
      BY <1>1, <2>4, <3>1, <3>2
    <3>6. \A i \in 1 .. e1 : i <= released \/ \E d \in CallersAt(Passing)' : counted'[d] = i
      <4> TAKE i \in 1 .. e1
      <4>1. CASE i = e1  BY <3>4, <3>5, <4>1
      <4>2. CASE i # e1
        <5>1. i \in 1 .. e
          BY <2>4, <3>1, <4>2
        <5>2. \A d \in CallersAt(Passing) : counted'[d] = counted[d] /\ d \in CallersAt(Passing)'
          BY <1>1, <3>2, <3>4 DEF CallersAt
        <5> QED  BY <2>5, <5>1, <5>2
      <4> QED  BY <4>1, <4>2
    <3>7. s1 + n1 <= e1
      BY <2>2, <2>4, <3>1
    <3> QED  BY <1>1, <3>3, <3>5, <3>6, <3>7 DEF PublishInv
  <2>8. CASE /\ Counts(0, 1) /\ Leaves(c, "observe") /\ ~Leaves(c, "count")
             /\ pc[c] \in Passing /\ pc'[c] \notin Passing
    <3>1. e1 = e /\ s1 <= s + 1 /\ n1 + 1 = n
      BY <2>2, <2>4, <2>8 DEF Counts, One
    <3>2. counted' = [counted EXCEPT ![c] = 0]
      BY <1>1, <2>3, <2>8 DEF Pipeline
    <3>3. released' = Max({released, counted[c]})
      <4>1. {d \in Callers : Leaves(d, "observe")} = {c}
        BY <2>3, <2>8
      <4>2. {counted[d] : d \in {x \in Callers : Leaves(x, "observe")}} = {counted[c]}
        BY <4>1
      <4>3. {released} \cup {counted[c]} = {released, counted[c]}
        OBVIOUS
      <4> QED  BY <4>2, <4>3 DEF Pipeline
    <3>4. released' \in Nat /\ released <= released' /\ counted[c] <= released'
      BY <1>1, <3>3, MaxOfTwo
    <3>5. CallersAt(Passing)' = CallersAt(Passing) \ {c}
      BY <2>1, <2>8 DEF CallersAt
    <3>6. \A i \in 1 .. e1 : i <= released' \/ \E d \in CallersAt(Passing)' : counted'[d] = i
      <4> TAKE i \in 1 .. e1
      <4>1. CASE i <= released  BY <1>1, <3>4, <4>1
      <4>2. CASE \E d \in CallersAt(Passing) : counted[d] = i
        <5>1. PICK d \in CallersAt(Passing) : counted[d] = i
          BY <4>2
        <5>2. CASE d = c  BY <3>4, <5>1, <5>2
        <5>3. CASE d # c
          <6>1. counted'[d] = i /\ d \in CallersAt(Passing)'
            BY <1>1, <3>2, <3>5, <5>1, <5>3 DEF CallersAt
          <6> QED  BY <6>1
        <5> QED  BY <5>2, <5>3
      <4> QED  BY <2>5, <3>1, <4>1, <4>2
    <3>7. s1 + n1 <= e1
      BY <2>2, <2>4, <3>1
    <3>8. counted' \in [Callers -> Nat]
      BY <1>1, <3>2
    <3> QED  BY <3>4, <3>6, <3>7, <3>8 DEF PublishInv
  <2> QED  BY <1>3, <2>6, <2>7, <2>8, StepPublishes
<1>4. ASSUME NEW c \in Callers, NEW b, Begin(c, b) PROVE PublishInv'
  BY <1>1, <1>2, <1>4 DEF Begin, At, Goto, Leaves, Passing, Pending, Alerting, shared
<1>5. ASSUME UNCHANGED << metrics, pc >> PROVE PublishInv'
  BY <1>2, <1>5 DEF Leaves
<1>6. ASSUME NEW r \in RuleSets, put_policy(r) PROVE PublishInv'
  BY <1>5, <1>6 DEF put_policy
<1>7. CASE Tick  BY <1>5, <1>7 DEF Tick
<1>8. Drain \in Callers /\ Handlers \subseteq Callers  BY DEF Callers
<1> QED  BY <1>3, <1>4, <1>6, <1>7, <1>8 DEF Pipeline, Next, DrainRecv, post_events

(* What the scraper has seen of the events covers the samples it showed    *)
(* last, and will cover those it is about to show.                         *)
RenderInv ==
    /\ loaded \in 0 .. 5 /\ visible \in Nat /\ histogram \in Nat
    /\ scrape \in Counters
    /\ histogram <= scrape.events
    /\ locked => scrape.samples <= visible

(* Loading, locking and starting over keep it so. *)
LEMMA RenderKeeps ==
    ASSUME IngestInv, PublishInv, RenderInv, render
    PROVE  RenderInv' /\ PublishInv'
<1>1. /\ loaded \in 0 .. 5 /\ visible \in Nat /\ histogram \in Nat /\ scrape \in Counters
      /\ scrape.events \in Nat /\ scrape.samples \in Nat /\ histogram <= scrape.events
  BY DEF RenderInv, Counters
<1>2. PublishInv'
  <2>1. UNCHANGED << metrics, pc, counted, released >>
    BY DEF render, LoadAny, Load, Lock, NextScrape, vars, shared
  <2>2. CallersAt(Passing)' = CallersAt(Passing)
    BY <2>1 DEF CallersAt
  <2> QED  BY <2>1, <2>2 DEF PublishInv, Count
<1>3. CASE LoadAny
  <2>1. Len(Atomics) = 5
    BY DEF Atomics
  <2>2. loaded \in 0 .. 4
    BY <1>1, <1>3, <2>1 DEF LoadAny
  <2> DEFINE name == Atomics[loaded + 1]
  <2>3. name \in {"events", "dropped", "violations", "critical", "warn"}
    BY <2>2 DEF Atomics
  <2>4. PICK value \in 0 .. metrics[name] : Load(value)
    BY <1>3 DEF LoadAny
  <2>5. /\ scrape' = [scrape EXCEPT ![name] = value] /\ loaded' = loaded + 1
        /\ UNCHANGED << locked, visible, histogram >>
        /\ value \in scrape[name] .. metrics[name]
    BY <2>4 DEF Load
  <2>6. value \in Nat
    <3>1. metrics[name] \in Nat
      BY <2>3 DEF IngestInv, TypeOK, Counters
    <3> HIDE DEF name
    <3> QED  BY <3>1
  <2> HIDE DEF name
  <2>7. scrape' \in Counters /\ scrape'.samples = scrape.samples
    BY <1>1, <2>3, <2>5, <2>6 DEF Counters
  <2>8. scrape'.events \in Nat /\ scrape.events <= scrape'.events
    BY <1>1, <2>3, <2>5, <2>6 DEF Counters
  <2>9. histogram <= scrape'.events
    BY <1>1, <2>8
  <2> QED  BY <1>1, <1>2, <2>2, <2>5, <2>7, <2>9 DEF RenderInv
<1>4. CASE Lock
  <2>1. metrics.samples \in Nat /\ metrics.samples <= released /\ released \in Nat
    BY SamplesArePublished DEF PublishInv
  <2>2. /\ scrape' = [scrape EXCEPT !.samples = metrics.samples] /\ visible' = released
        /\ UNCHANGED << loaded, histogram >>
    BY <1>4 DEF Lock, Published
  <2>3. /\ scrape' \in Counters /\ scrape'.samples = metrics.samples
        /\ scrape'.events = scrape.events
    BY <1>1, <2>1, <2>2 DEF Counters
  <2> QED  BY <1>1, <1>2, <2>1, <2>2, <2>3 DEF RenderInv
<1>5. CASE NextScrape
  <2>1. scrape.samples <= visible
    BY <1>5 DEF NextScrape, Complete, RenderInv
  <2> DEFINE m == Max({scrape.events, visible})
  <2>2. m \in Nat /\ visible <= m
    BY <1>1, MaxOfTwo
  <2>3. /\ scrape' = [scrape EXCEPT !.events = m] /\ loaded' = 0 /\ locked' = FALSE
        /\ visible' = 0 /\ histogram' = scrape.samples
    BY <1>5 DEF NextScrape
  <2> HIDE DEF m
  <2>4. scrape' \in Counters /\ scrape'.events = m
    BY <1>1, <2>2, <2>3 DEF Counters
  <2>5. scrape.samples <= m
    BY <1>1, <2>1, <2>2
  <2> QED  BY <1>1, <1>2, <2>3, <2>4, <2>5 DEF RenderInv
<1> QED  BY <1>3, <1>4, <1>5 DEF render

(* However far behind its loads of the counters are, a scraper that was    *)
(* shown n samples is shown at least n events from then on, for any number *)
(* of callers: the mutex of the samples publishes the counts made before.  *)
THEOREM SamplesAreBacked == ScraperSpec => []HistogramIsBacked
<1>1. ScraperInit => PublishInv /\ RenderInv
  <2> SUFFICES ASSUME ScraperInit PROVE PublishInv /\ RenderInv
    OBVIOUS
  <2>1. CallersAt(Passing) = {}
    BY DEF ScraperInit, Init, CallersAt, Passing, Pending, Alerting
  <2>2. Count(Passing) = 0
    BY <2>1, FS_EmptySet DEF Count
  <2>3. metrics.events = 0 /\ metrics.samples = 0 /\ metrics \in Counters
    BY DEF ScraperInit, Init, Counters
  <2> QED  BY <2>2, <2>3 DEF ScraperInit, PublishInv, RenderInv
<1>2. IngestInv /\ PublishInv /\ RenderInv /\ [ScraperNext]_scraperVars
        => PublishInv' /\ RenderInv'
  <2> SUFFICES ASSUME IngestInv, PublishInv, RenderInv, [ScraperNext]_scraperVars
               PROVE  PublishInv' /\ RenderInv'
    OBVIOUS
  <2>1. CASE Pipeline
    <3>1. RenderInv'
      BY <2>1 DEF Pipeline, RenderInv, renderVars
    <3> QED  BY <2>1, <3>1, PublishKept
  <2>2. CASE render  BY <2>2, RenderKeeps
  <2>3. CASE UNCHANGED scraperVars
    <3>1. UNCHANGED << metrics, pc, counted, released, renderVars >>
      BY <2>3 DEF scraperVars, vars, shared
    <3>2. CallersAt(Passing)' = CallersAt(Passing)
      BY <3>1 DEF CallersAt
    <3> QED  BY <3>1, <3>2 DEF PublishInv, RenderInv, Count, renderVars
  <2> QED  BY <2>1, <2>2, <2>3 DEF ScraperNext
<1>3. RenderInv => HistogramIsBacked
  BY DEF RenderInv, HistogramIsBacked
<1> QED  BY <1>1, <1>2, <1>3, ScraperRunsPipeline, IngestInvariant, PTL DEF ScraperSpec

----------------------------------------------------------------------------
(***************************************************************************)
(* One caller.  Without POST requests the drain task alone runs ingest, so *)
(* numbers, timestamps and stored entries come in the same order.          *)
(***************************************************************************)

(* Labels at which a timestamp is taken and its violation not yet stored. *)
Stamped == {"vcount", "vclass", "vpush"}

(* A step that is neither a claim nor a push reaches an alert's labels     *)
(* only from within, with the number and, once taken, the timestamp kept.  *)
LEMMA InHandKept ==
    ASSUME IngestInv, NEW c \in Callers, Step(c),
           ~AssignSeq(c), ~StoreEvent(c), ~PushViolation(c)
    PROVE  /\ pc'[c] \in Pending =>
                 pc[c] \in Pending /\ call'[c].seq = call[c].seq
           /\ ~StampViolation(c) =>
                 /\ last_emitted' = last_emitted
                 /\ pc'[c] \in Stamped =>
                       pc[c] \in Stamped /\ call'[c].stamp = call[c].stamp
<1> USE DEF Goto, At, Pending, Alerting, Stamped, shared, history
<1>a. pc \in [Callers -> Labels] /\ call \in [Callers -> Call]
  BY DEF IngestInv, TypeOK
<1>1. CASE TakeEvent(c)  BY <1>1, <1>a DEF TakeEvent
<1>2. CASE ReadRules(c)  BY <1>2, <1>a DEF ReadRules
<1>3. CASE TryAcquire(c)  BY <1>3, <1>a DEF TryAcquire
<1>4. CASE Shed(c)  BY <1>4, <1>a DEF Shed, Return
<1>5. CASE CountEvent(c)  BY <1>5, <1>a DEF CountEvent
<1>6. CASE RecordProcess(c)  BY <1>6, <1>a DEF RecordProcess
<1>7. CASE StampViolation(c)  BY <1>7, <1>a DEF StampViolation, Call
<1>8. CASE CountViolation(c)  BY <1>8, <1>a DEF CountViolation
<1>9. CASE ClassifyViolation(c)  BY <1>9, <1>a DEF ClassifyViolation
<1>10. CASE SendViolation(c)  BY <1>10, <1>a DEF SendViolation, Call
<1>11. CASE SendEvent(c)  BY <1>11, <1>a DEF SendEvent
<1>12. CASE ObserveLatency(c)  BY <1>12, <1>a DEF ObserveLatency, Return
<1>13. CASE Reply(c)  BY <1>13, <1>a DEF Reply
<1> QED  BY <1>1, <1>2, <1>3, <1>4, <1>5, <1>6, <1>7, <1>8, <1>9, <1>10, <1>11,
            <1>12, <1>13 DEF Step

(* Steps that are no caller's change no record, and start at most a call. *)
LEMMA NoCallersStep ==
    ASSUME IngestInv, [Next]_vars, ~(\E c \in Callers : Step(c)), NEW d \in Callers
    PROVE  /\ UNCHANGED << Ledger, last_emitted, processes >>
           /\ \/ pc'[d] = pc[d] /\ call'[d] = call[d]
              \/ pc[d] = "idle" /\ pc'[d] = "loop"
<1>1. pc \in [Callers -> Labels] /\ call \in [Callers -> Call]
  BY DEF IngestInv, TypeOK
<1>2. ASSUME NEW c \in Callers, NEW b, Begin(c, b)
      PROVE  /\ UNCHANGED << Ledger, last_emitted, processes >>
             /\ \/ pc'[d] = pc[d] /\ call'[d] = call[d]
                \/ pc[d] = "idle" /\ pc'[d] = "loop"
  BY <1>1, <1>2 DEF Begin, At, Goto, Ledger, shared
<1>3. ASSUME NEW r \in RuleSets, put_policy(r)
      PROVE  UNCHANGED << Ledger, last_emitted, processes, pc, call >>
  BY <1>3 DEF put_policy, Ledger
<1>4. CASE Tick  BY <1>4 DEF Tick, Ledger, history
<1>5. CASE UNCHANGED vars  BY <1>5 DEF vars, shared, history, Ledger
<1>6. Drain \in Callers /\ Handlers \subseteq Callers  BY DEF Callers
<1> QED  BY <1>2, <1>3, <1>4, <1>5, <1>6 DEF Next, DrainRecv, post_events

(* The n-th stored event has number n - 1, and violations follow it. *)
OrderInv ==
    /\ \A i \in DOMAIN log : log[i].seq = i - 1
    /\ next_seq = Len(log) + One(pc[Drain] = "store")
    /\ pc[Drain] = "store" => call[Drain].seq = Len(log)
    /\ pc[Drain] \in Pending => call[Drain].seq = Len(log) - 1
    /\ \A k \in DOMAIN vlog : vlog[k].seq <= Len(log) - 1
    /\ \A j, k \in DOMAIN vlog : j < k => vlog[j].seq <= vlog[k].seq

(* One caller keeps the numbers in the order of the trail. *)
LEMMA OrderInvariant == Handlers = {} /\ SafeSpec => []OrderInv
<1> DEFINE Inv == Handlers = {} /\ OrderInv
<1>1. Handlers = {} /\ Init => Inv
  BY DEF Init, OrderInv, One, Pending, Alerting, Callers
<1>2. IngestInv /\ Inv /\ [Next]_vars => Inv'
  <2> SUFFICES ASSUME IngestInv, Handlers = {}, OrderInv, [Next]_vars
               PROVE  OrderInv'
    OBVIOUS
  <2> DEFINE n == Len(log)   v == Len(vlog)
  <2>1. Callers = {Drain}
    BY DEF Callers
  <2>2. /\ log \in Seq([seq : Nat, event : Events, rules : RuleSets])
        /\ vlog \in Seq(Alert) /\ next_seq \in Nat
        /\ pc \in [Callers -> Labels] /\ call \in [Callers -> Call]
    BY DEF IngestInv, TypeOK
  <2>3. /\ n \in Nat /\ v \in Nat /\ DOMAIN log = 1 .. n /\ DOMAIN vlog = 1 .. v
        /\ \A k \in 1 .. v : vlog[k].seq \in Nat
    <3>1. \A k \in 1 .. v : vlog[k] \in Alert
      BY <2>2
    <3> QED  BY <2>2, <3>1 DEF Alert
  <2>4. ASSUME UNCHANGED << log, vlog, next_seq >>,
               pc[Drain] # "store", pc'[Drain] # "store",
               pc'[Drain] \in Pending =>
                   pc[Drain] \in Pending /\ call'[Drain].seq = call[Drain].seq
        PROVE  OrderInv'
    BY <2>4 DEF OrderInv, One
  <2>5. CASE AssignSeq(Drain)
    <3>1. /\ pc[Drain] = "seq" /\ pc'[Drain] = "store" /\ next_seq' = next_seq + 1
          /\ call'[Drain].seq = next_seq /\ log' = log /\ vlog' = vlog
      BY <2>1, <2>2, <2>5 DEF AssignSeq, At, Goto, FetchedSeq, history, Call
    <3>2. next_seq = n /\ "store" \notin Pending
      BY <2>3, <3>1 DEF OrderInv, One, Pending, Alerting
    <3> QED  BY <2>3, <3>1, <3>2 DEF OrderInv, One
  <2>6. CASE StoreEvent(Drain)
    <3> DEFINE e == [seq |-> call[Drain].seq, event |-> event(Drain),
                     rules |-> call[Drain].rules]
    <3>1. /\ pc[Drain] = "store" /\ pc'[Drain] # "store"
          /\ log' = Append(log, e) /\ vlog' = vlog /\ next_seq' = next_seq
          /\ call'[Drain].seq = call[Drain].seq
      BY <2>1, <2>2, <2>6 DEF StoreEvent, At, Goto, Call
    <3>2. e.seq = n
      BY <3>1 DEF OrderInv
    <3> HIDE DEF e
    <3>3. /\ Len(log') = n + 1 /\ DOMAIN log' = 1 .. n + 1 /\ log'[n + 1] = e
          /\ \A i \in 1 .. n : log'[i] = log[i]
      BY <2>2, <2>3, <3>1
    <3>4. next_seq = n + 1 /\ call[Drain].seq = n
      BY <3>1 DEF OrderInv, One
    <3> HIDE DEF n, v
    <3>5. \A i \in DOMAIN log' : log'[i].seq = i - 1
      <4>1. \A i \in 1 .. n + 1 : i \in 1 .. n \/ i = n + 1  BY <2>3
      <4>2. \A i \in 1 .. n : log[i].seq = i - 1  BY <2>3 DEF OrderInv
      <4> QED  BY <2>3, <3>2, <3>3, <4>1, <4>2
    <3>6. \A k \in 1 .. v : vlog[k].seq <= (n + 1) - 1
      BY <2>3 DEF OrderInv, n
    <3>7. next_seq' = Len(log') + One(pc'[Drain] = "store")
      BY <2>3, <3>1, <3>3, <3>4 DEF One
    <3>8. call'[Drain].seq = Len(log') - 1
      BY <2>3, <3>1, <3>3, <3>4
    <3> QED  BY <2>3, <3>1, <3>3, <3>5, <3>6, <3>7, <3>8 DEF OrderInv
  <2>7. CASE PushViolation(Drain)
    <3> DEFINE x == StoredViolation(Drain)
    <3>1. /\ pc[Drain] = "vpush" /\ pc'[Drain] = "vsend"
          /\ vlog' = Append(vlog, x) /\ UNCHANGED << log, next_seq, call >>
      BY <2>1, <2>2, <2>7 DEF PushViolation, At, Goto
    <3>2. x.seq = call[Drain].seq /\ x.seq = n - 1
      BY <3>1 DEF OrderInv, StoredViolation, Pending, Alerting
    <3>3. x \in Alert
      BY <2>1, <3>1, AlertInHand DEF Alerting
    <3> HIDE DEF x
    <3>4. /\ DOMAIN vlog' = 1 .. v + 1 /\ vlog'[v + 1] = x
          /\ \A k \in 1 .. v : vlog'[k] = vlog[k]
      BY <2>2, <2>3, <3>1, <3>3
    <3>5. \A k \in 1 .. v : vlog[k].seq <= n - 1
      BY <2>3 DEF OrderInv
    <3>6. \A j, k \in 1 .. v : j < k => vlog[j].seq <= vlog[k].seq
      BY <2>3 DEF OrderInv
    <3> HIDE DEF n, v
    <3>7. \A k \in 1 .. v + 1 : k \in 1 .. v \/ k = v + 1
      BY <2>3
    <3>8. \A k \in DOMAIN vlog' : vlog'[k].seq <= n - 1
      BY <2>3, <3>2, <3>4, <3>5, <3>7
    <3>9. \A j, k \in DOMAIN vlog' : j < k => vlog'[j].seq <= vlog'[k].seq
      <4> SUFFICES ASSUME NEW j \in 1 .. v + 1, NEW k \in 1 .. v + 1, j < k
                   PROVE  vlog'[j].seq <= vlog'[k].seq
        BY <3>4
      <4>1. j \in 1 .. v
        BY <2>3
      <4>2. CASE k = v + 1  BY <3>2, <3>4, <3>5, <4>1, <4>2
      <4>3. CASE k \in 1 .. v  BY <3>4, <3>6, <4>1, <4>3
      <4> QED  BY <3>7, <4>2, <4>3
    <3> QED  BY <3>1, <3>2, <3>8, <3>9 DEF OrderInv, One, n, Pending, Alerting
  <2>8. CASE Step(Drain) /\ ~AssignSeq(Drain) /\ ~StoreEvent(Drain) /\ ~PushViolation(Drain)
    <3>1. /\ UNCHANGED << log, vlog, next_seq >>
          /\ pc[Drain] # "store" /\ pc'[Drain] # "store"
      BY <2>1, <2>8, OtherSteps DEF Ledger
    <3>2. pc'[Drain] \in Pending =>
             pc[Drain] \in Pending /\ call'[Drain].seq = call[Drain].seq
      BY <2>1, <2>8, InHandKept
    <3> QED  BY <2>4, <3>1, <3>2
  <2>9. CASE ~\E c \in Callers : Step(c)
    <3>1. /\ UNCHANGED << log, vlog, next_seq >>
          /\ \/ pc'[Drain] = pc[Drain] /\ call'[Drain] = call[Drain]
             \/ pc[Drain] = "idle" /\ pc'[Drain] = "loop"
      BY <2>1, <2>9, NoCallersStep DEF Ledger
    <3> QED  BY <2>4, <3>1 DEF OrderInv, One, Pending, Alerting
  <2> QED  BY <2>1, <2>5, <2>6, <2>7, <2>8, <2>9
<1> QED  BY <1>1, <1>2, IngestInvariant, PTL DEF SafeSpec

(* What a ring holds of its history, position by position. *)
Shifted(ring, all, shift) ==
    /\ shift + Len(ring) = Len(all)
    /\ \A i \in 1 .. Len(ring) : /\ shift + i \in 1 .. Len(all)
                                 /\ ring[i] = all[shift + i]

(* A ring holds the end of its history. *)
LEMMA RingIsSuffix ==
    ASSUME NEW ring, NEW all, NEW cap \in Nat \ {0}, IsNewest(ring, all, cap),
           Len(ring) \in Nat, DOMAIN ring = 1 .. Len(ring), Len(all) \in Nat
    PROVE  \E shift \in Nat : Shifted(ring, all, shift)
<1> DEFINE n == Len(ring)   m == Len(all)
<1>1. n = AtMost(m, cap) /\ \A i \in 1 .. n : ring[i] = all[m - n + i]
  BY DEF IsNewest
<1> HIDE DEF n, m
<1>2. n \in Nat /\ m \in Nat /\ n <= m
  BY <1>1 DEF AtMost, n, m
<1>3. /\ m - n \in Nat /\ (m - n) + n = m
      /\ \A i \in 1 .. n : (m - n) + i \in 1 .. m
  BY <1>2
<1>4. Shifted(ring, all, m - n)
  BY <1>1, <1>3 DEF Shifted, n, m
<1> QED  BY <1>3, <1>4

(* With one caller the ring holds consecutive numbers, up to the newest. *)
LEMMA EventsOrdered ==
    ASSUME IngestInv, RingsInv, OrderInv
    PROVE  /\ \A i \in DOMAIN events : /\ i \in Nat /\ events[i].seq \in Nat
                                       /\ events[i].seq <= Len(log) - 1
           /\ \A i, j \in DOMAIN events : i < j => events[i].seq < events[j].seq
<1> DEFINE h == Stripped(log)   n == Len(events)   m == Len(log)
<1>1. /\ events \in Seq(Stored)
      /\ log \in Seq([seq : Nat, event : Events, rules : RuleSets])
  BY DEF IngestInv, TypeOK
<1>2. /\ DOMAIN events = 1 .. n /\ n \in Nat
      /\ Len(h) = m /\ m \in Nat /\ DOMAIN log = 1 .. m
      /\ \A i \in 1 .. m : h[i].seq = log[i].seq
  BY <1>1 DEF Stripped
<1>3. IsNewest(events, h, EVENT_CAP) /\ EVENT_CAP \in Nat \ {0}
  BY IngestAssumption DEF RingsInv
<1> HIDE DEF h
<1>a. PICK s \in Nat : Shifted(events, h, s)
  BY <1>2, <1>3, RingIsSuffix
<1>4. \A i \in 1 .. n : s + i \in 1 .. m /\ events[i] = h[s + i]
  BY <1>2, <1>a DEF Shifted
<1>5. ASSUME NEW i \in 1 .. n PROVE events[i].seq = s + i - 1 /\ s + i <= m
  <2>1. s + i \in 1 .. m /\ events[i].seq = log[s + i].seq
    BY <1>2, <1>4
  <2>2. log[s + i].seq = (s + i) - 1
    BY <1>2, <2>1 DEF OrderInv
  <2> HIDE DEF m, n
  <2> QED  BY <1>2, <2>1, <2>2
<1> HIDE DEF n, m
<1>6. \A i \in 1 .. n : i \in Nat /\ s + i - 1 \in Nat /\ s + i - 1 <= m - 1
  BY <1>2, <1>5
<1>7. \A i, j \in 1 .. n : i < j => s + i - 1 < s + j - 1
  BY <1>2
<1> QED  BY <1>2, <1>5, <1>6, <1>7 DEF m

(* As long as the drain task is the only caller, a page of GET /v1/events  *)
(* is in number order whatever the ring evicted, and the last violation    *)
(* served is never older than one raised before.                           *)
THEOREM RingsAscend == Handlers = {} /\ ReaderSpec => []RingsInSeqOrder
<1>1. IngestInv /\ RingsInv /\ OrderInv => RingsInSeqOrder
  <2> SUFFICES ASSUME IngestInv, RingsInv, OrderInv PROVE RingsInSeqOrder
    OBVIOUS
  <2>1. violations \in Seq(Alert) /\ vlog \in Seq(Alert)
    BY DEF IngestInv, TypeOK
  <2>2. \A i, j \in DOMAIN events : i < j => events[i].seq < events[j].seq
    BY EventsOrdered
  <2>3. /\ DOMAIN violations = 1 .. Len(violations) /\ Len(violations) \in Nat
        /\ DOMAIN vlog = 1 .. Len(vlog) /\ Len(vlog) \in Nat
    BY <2>1
  <2>a. PICK s \in Nat : Shifted(violations, vlog, s)
    <3>1. IsNewest(violations, vlog, VIOLATION_CAP) /\ VIOLATION_CAP \in Nat \ {0}
      BY IngestAssumption DEF RingsInv
    <3> QED  BY <2>3, <3>1, RingIsSuffix
  <2>4. /\ s + Len(violations) = Len(vlog)
        /\ \A i \in 1 .. Len(violations) : /\ s + i \in 1 .. Len(vlog)
                                           /\ violations[i] = vlog[s + i]
    BY <2>a DEF Shifted
  <2>5. \A i, j \in DOMAIN violations :
           i < j => violations[i].seq <= violations[j].seq
    <3>1. \A i, j \in 1 .. Len(violations) : i < j => s + i < s + j
      OBVIOUS
    <3> QED  BY <2>3, <2>4, <3>1 DEF OrderInv
  <2>6. ASSUME violations # << >>, NEW k \in DOMAIN vlog
        PROVE  vlog[k].seq <= Last(get_violations(1)).seq
    <3> DEFINE m == Len(violations)   page == SubSeq(violations, m, m)
    <3>1. m \in 1 .. m /\ m \in Nat
      BY <2>1, <2>3, <2>6, EmptySeq
    <3>2. get_violations(1) = page
      <4>1. AtMost(1, VIOLATION_CAP) = 1 /\ AtMost(m, 1) = 1
        <5> HIDE DEF m
        <5> QED  BY <3>1, IngestAssumption DEF AtMost
      <4>2. m - 1 + 1 = m
        BY <3>1
      <4> QED  BY <4>1, <4>2 DEF get_violations, LastOf
    <3>3. Len(page) = 1 /\ page[1] = violations[m]
      BY <2>1, <3>1
    <3>4. Last(get_violations(1)) = vlog[Len(vlog)]
      BY <2>4, <3>1, <3>2, <3>3 DEF Last
    <3>5. Len(vlog) \in DOMAIN vlog /\ (k < Len(vlog) \/ k = Len(vlog))
      BY <2>3, <2>6
    <3>6. vlog[k].seq \in Nat
      <4>1. vlog[k] \in Alert  BY <2>1, <2>6
      <4> QED  BY <4>1 DEF Alert
    <3> QED  BY <3>4, <3>5, <3>6 DEF OrderInv
  <2> QED  BY <2>2, <2>5, <2>6 DEF RingsInSeqOrder
<1> QED  BY <1>1, ReaderRunsPipeline, IngestInvariant, RingsInvariant, OrderInvariant, PTL

----------------------------------------------------------------------------
(* The text of the clock's value bounds every stored timestamp, and the    *)
(* one in hand is that value.                                              *)
TimeInv ==
    /\ pc[Drain] \in Stamped => call[Drain].stamp = last_emitted
    /\ \A k \in DOMAIN vlog : vlog[k].ts <= ts_ns_to_rfc3339(last_emitted)
    /\ \A j, k \in DOMAIN vlog : j < k => vlog[j].ts <= vlog[k].ts

(* The clamp never goes back, and one caller stores in the order it took   *)
(* its timestamps.                                                         *)
LEMMA TimeInvariant == Handlers = {} /\ SafeSpec => []TimeInv
<1> DEFINE Inv == Handlers = {} /\ TimeInv
<1>1. Handlers = {} /\ Init => Inv
  BY DEF Init, TimeInv, Stamped, Callers
<1>2. IngestInv /\ Inv /\ [Next]_vars => Inv'
  <2> SUFFICES ASSUME IngestInv, Handlers = {}, TimeInv, [Next]_vars
               PROVE  TimeInv'
    OBVIOUS
  <2> DEFINE v == Len(vlog)   now == ts_ns_to_rfc3339(last_emitted)
  <2>1. Callers = {Drain}
    BY DEF Callers
  <2>2. /\ vlog \in Seq(Alert) /\ last_emitted \in U64
        /\ pc \in [Callers -> Labels] /\ call \in [Callers -> Call]
    BY DEF IngestInv, TypeOK
  <2>3. /\ v \in Nat /\ DOMAIN vlog = 1 .. v
        /\ \A k \in 1 .. v : vlog[k].ts \in Nat
    <3>1. \A k \in 1 .. v : vlog[k] \in Alert
      BY <2>2
    <3> QED  BY <2>2, <3>1 DEF Alert
  <2>4. now \in Nat
    <3>1. last_emitted <= last_emitted
      BY <2>2 DEF U64
    <3> QED  BY <2>2, <3>1, TextFollowsTime
  <2>5. ASSUME UNCHANGED << vlog, last_emitted >>,
               pc'[Drain] \in Stamped =>
                   pc[Drain] \in Stamped /\ call'[Drain].stamp = call[Drain].stamp
        PROVE  TimeInv'
    BY <2>5 DEF TimeInv
  <2>6. CASE StampViolation(Drain)
    <3>1. PICK reading \in WallReadings : last_emitted' = Clamped(reading, last_emitted)
      BY <2>6 DEF StampViolation
    <3>2. reading \in U64
      BY IngestAssumption
    <3>3. last_emitted' \in U64 /\ last_emitted <= last_emitted'
      <4> DEFINE l == last_emitted   m == last_emitted'
      <4>1. m \in U64 /\ (l < m \/ (l = U64_MAX /\ m = U64_MAX))
        BY <2>2, <3>1, <3>2, ClampForward
      <4>2. l \in Nat /\ m \in Nat
        BY <2>2, <4>1 DEF U64
      <4> HIDE DEF l, m
      <4>3. l <= m
        BY <4>1, <4>2
      <4> QED  BY <4>1, <4>3 DEF l, m
    <3>4. now <= ts_ns_to_rfc3339(last_emitted') /\ ts_ns_to_rfc3339(last_emitted') \in Nat
      <4>1. last_emitted' <= last_emitted'
        BY <3>3 DEF U64
      <4> QED  BY <2>2, <3>3, <4>1, TextFollowsTime
    <3>5. call'[Drain].stamp = last_emitted' /\ vlog' = vlog
      BY <2>1, <2>2, <2>6 DEF StampViolation, Call, history
    <3>6. \A k \in 1 .. v : vlog[k].ts <= now
      BY <2>3 DEF TimeInv
    <3> HIDE DEF now
    <3>7. \A k \in 1 .. v : vlog[k].ts <= ts_ns_to_rfc3339(last_emitted')
      BY <2>3, <2>4, <3>4, <3>6
    <3> QED  BY <2>3, <3>5, <3>7 DEF TimeInv
  <2>7. CASE PushViolation(Drain)
    <3> DEFINE x == StoredViolation(Drain)
    <3>1. /\ pc[Drain] = "vpush" /\ pc'[Drain] = "vsend"
          /\ vlog' = Append(vlog, x) /\ UNCHANGED << last_emitted, call >>
      BY <2>1, <2>2, <2>7 DEF PushViolation, At, Goto
    <3>2. x.ts = now
      BY <3>1 DEF TimeInv, StoredViolation, Stamped
    <3>3. x \in Alert
      BY <2>1, <3>1, AlertInHand DEF Alerting
    <3> HIDE DEF x
    <3>4. /\ DOMAIN vlog' = 1 .. v + 1 /\ vlog'[v + 1] = x
          /\ \A k \in 1 .. v : vlog'[k] = vlog[k]
      BY <2>2, <2>3, <3>1, <3>3
    <3>5. /\ \A k \in 1 .. v : vlog[k].ts <= now
          /\ \A j, k \in 1 .. v : j < k => vlog[j].ts <= vlog[k].ts
      BY <2>3 DEF TimeInv
    <3>6. ts_ns_to_rfc3339(last_emitted') = now
      BY <3>1
    <3> HIDE DEF v, now
    <3>7. \A k \in 1 .. v + 1 : k \in 1 .. v \/ k = v + 1
      BY <2>3
    <3>8. \A k \in DOMAIN vlog' : vlog'[k].ts <= now
      BY <2>4, <3>2, <3>4, <3>5, <3>7
    <3>9. \A j, k \in DOMAIN vlog' : j < k => vlog'[j].ts <= vlog'[k].ts
      <4> SUFFICES ASSUME NEW j \in 1 .. v + 1, NEW k \in 1 .. v + 1, j < k
                   PROVE  vlog'[j].ts <= vlog'[k].ts
        BY <3>4
      <4>1. j \in 1 .. v
        BY <2>3
      <4>2. CASE k = v + 1  BY <3>2, <3>4, <3>5, <4>1, <4>2
      <4>3. CASE k \in 1 .. v  BY <3>4, <3>5, <4>1, <4>3
      <4> QED  BY <3>7, <4>2, <4>3
    <3> QED  BY <3>1, <3>6, <3>8, <3>9 DEF TimeInv, Stamped
  <2>8. ASSUME Step(Drain), ~StampViolation(Drain), ~PushViolation(Drain) PROVE TimeInv'
    <3>1. CASE AssignSeq(Drain)
      BY <2>1, <2>2, <2>5, <3>1 DEF AssignSeq, At, Goto, Stamped, history
    <3>2. CASE StoreEvent(Drain)
      BY <2>1, <2>2, <2>5, <3>2 DEF StoreEvent, At, Goto, Stamped
    <3>3. CASE ~AssignSeq(Drain) /\ ~StoreEvent(Drain)
      <4>1. vlog' = vlog
        BY <2>1, <2>8, <3>3, OtherSteps DEF Ledger
      <4> QED  BY <2>1, <2>5, <2>8, <3>3, <4>1, InHandKept
    <3> QED  BY <3>1, <3>2, <3>3
  <2>9. CASE ~\E c \in Callers : Step(c)
    <3>1. /\ UNCHANGED << vlog, last_emitted >>
          /\ \/ pc'[Drain] = pc[Drain] /\ call'[Drain] = call[Drain]
             \/ pc[Drain] = "idle" /\ pc'[Drain] = "loop"
      BY <2>1, <2>9, NoCallersStep DEF Ledger
    <3> QED  BY <2>5, <3>1 DEF Stamped
  <2> QED  BY <2>1, <2>6, <2>7, <2>8, <2>9
<1> QED  BY <1>1, <1>2, IngestInvariant, PTL DEF SafeSpec

(* With the drain task as the only caller, the timestamps served by        *)
(* GET /v1/violations never go back, however the wall clock jumps and      *)
(* although it saturates and is cut to whole seconds.                      *)
THEOREM TimesNeverGoBack == Handlers = {} /\ ReaderSpec => []TimestampsNeverRegress
<1>1. IngestInv /\ RingsInv /\ TimeInv => TimestampsNeverRegress
  <2> SUFFICES ASSUME IngestInv, RingsInv, TimeInv PROVE TimestampsNeverRegress
    OBVIOUS
  <2>1. /\ DOMAIN violations = 1 .. Len(violations) /\ Len(violations) \in Nat
        /\ DOMAIN vlog = 1 .. Len(vlog) /\ Len(vlog) \in Nat
    BY DEF IngestInv, TypeOK
  <2>a. PICK s \in Nat : Shifted(violations, vlog, s)
    <3>1. IsNewest(violations, vlog, VIOLATION_CAP) /\ VIOLATION_CAP \in Nat \ {0}
      BY IngestAssumption DEF RingsInv
    <3> QED  BY <2>1, <3>1, RingIsSuffix
  <2>2. \A i \in 1 .. Len(violations) : /\ s + i \in 1 .. Len(vlog)
                                        /\ violations[i] = vlog[s + i]
    BY <2>a DEF Shifted
  <2>3. \A i, j \in 1 .. Len(violations) : i < j => s + i < s + j
    OBVIOUS
  <2> QED  BY <2>1, <2>2, <2>3 DEF TimeInv, TimestampsNeverRegress
<1> QED  BY <1>1, ReaderRunsPipeline, IngestInvariant, RingsInvariant, TimeInvariant, PTL

----------------------------------------------------------------------------
(* An exec of process t on its way from the process table to the trail. *)
Replacing(t) ==
    pc[Drain] \in Storing /\ IsExec(event(Drain)) /\ event(Drain).tgid = t

LaterExec(i) ==
    \E j \in DOMAIN log : i < j /\ IsExec(log[j].event)
                                /\ log[j].event.tgid = log[i].event.tgid

(* The record of a process is its exec under way or else its latest one. *)
ExecInv ==
    /\ pc[Drain] = "proc" => IsExec(event(Drain))
    /\ pc[Drain] \in Storing /\ IsExec(event(Drain)) =>
          processes[event(Drain).tgid] = event(Drain)
    /\ \A i \in DOMAIN log :
          IsExec(log[i].event) /\ ~LaterExec(i) /\ ~Replacing(log[i].event.tgid) =>
              processes[log[i].event.tgid] = log[i].event

(* A step of the only caller that leaves the trail and the table alone,    *)
(* and comes to neither "proc" nor the way to the trail.                   *)
LEMMA ExecKept ==
    ASSUME ExecInv, log' = log, processes' = processes,
           pc'[Drain] \in Storing <=> pc[Drain] \in Storing,
           pc[Drain] \in Storing => event(Drain)' = event(Drain),
           pc'[Drain] = "proc" => pc[Drain] = "proc" /\ event(Drain)' = event(Drain)
    PROVE  ExecInv'
<1>1. \A i \in DOMAIN log : LaterExec(i)' <=> LaterExec(i)
  BY DEF LaterExec
<1>2. \A t : Replacing(t)' <=> Replacing(t)
  BY DEF Replacing
<1> QED  BY <1>1, <1>2 DEF ExecInv

(* One caller enters its execs in the order it stores them. *)
LEMMA ExecInvariant == Handlers = {} /\ SafeSpec => [](Handlers = {} /\ ExecInv)
<1> DEFINE Inv == Handlers = {} /\ ExecInv
<1>1. Handlers = {} /\ Init => Inv
  BY DEF Init, ExecInv, Storing, Callers
<1>2. IngestInv /\ ProcessInv /\ Inv /\ [Next]_vars => Inv'
  <2> SUFFICES ASSUME IngestInv, ProcessInv, Handlers = {}, ExecInv, [Next]_vars
               PROVE  ExecInv'
    OBVIOUS
  <2>1. Callers = {Drain}
    BY DEF Callers
  <2>2. /\ pc \in [Callers -> Labels] /\ call \in [Callers -> Call]
        /\ log \in Seq([seq : Nat, event : Events, rules : RuleSets])
    BY DEF IngestInv, TypeOK
  <2>3. CASE CountEvent(Drain)
    <3>1. /\ UNCHANGED << log, processes, call >> /\ pc[Drain] = "count"
          /\ pc'[Drain] = IF IsExec(event(Drain)) THEN "proc" ELSE "seq"
      BY <2>1, <2>2, <2>3 DEF CountEvent, At, Goto, history, IsExec
    <3>2. event(Drain)' = event(Drain)
      BY <3>1 DEF event
    <3>3. \A i \in DOMAIN log : LaterExec(i)' <=> LaterExec(i)
      BY <3>1 DEF LaterExec
    <3>4. \A t : ~Replacing(t) /\ ~Replacing(t)'
      BY <3>1, <3>2 DEF Replacing, Storing
    <3> QED  BY <3>1, <3>2, <3>3, <3>4 DEF ExecInv, Storing
  <2>4. CASE RecordProcess(Drain)
    <3> DEFINE e == event(Drain)
    <3>1. /\ UNCHANGED << log, call >> /\ pc[Drain] = "proc" /\ pc'[Drain] = "seq"
          /\ processes' = Inserted(processes, e.tgid, e)
      BY <2>1, <2>2, <2>4 DEF RecordProcess, At, Goto, history
    <3>2. IsExec(e) /\ event(Drain)' = e
      BY <3>1 DEF ExecInv, event
    <3> HIDE DEF e
    <3>3. /\ processes'[e.tgid] = e
          /\ \A t \in DOMAIN processes : t # e.tgid => processes'[t] = processes[t]
      BY <3>1 DEF Inserted
    <3>4. \A i \in DOMAIN log : LaterExec(i)' <=> LaterExec(i)
      BY <3>1 DEF LaterExec
    <3>5. \A t : ~Replacing(t) /\ (Replacing(t)' <=> t = e.tgid)
      BY <3>1, <3>2 DEF Replacing, Storing
    <3>6. \A i \in DOMAIN log : IsExec(log[i].event) =>
             log[i].event.tgid \in DOMAIN processes
      BY DEF ProcessInv
    <3>7. ASSUME NEW i \in DOMAIN log, NEW t, t = log[i].event.tgid,
                 IsExec(log[i].event), ~LaterExec(i)', ~Replacing(t)'
          PROVE  processes'[t] = log[i].event
      <4>1. t # e.tgid
        BY <3>5, <3>7
      <4>2. processes[t] = log[i].event
        BY <3>4, <3>5, <3>7 DEF ExecInv
      <4> QED  BY <3>3, <3>6, <3>7, <4>1, <4>2
    <3>8. pc'[Drain] # "proc" /\ processes'[event(Drain)'.tgid] = event(Drain)'
      BY <3>1, <3>2, <3>3
    <3> QED  BY <3>1, <3>7, <3>8 DEF ExecInv
  <2>5. CASE StoreEvent(Drain)
    <3> DEFINE n == Len(log)   e == event(Drain)
    <3>1. /\ processes' = processes /\ pc[Drain] = "store"
          /\ pc'[Drain] \notin Storing /\ pc'[Drain] # "proc"
          /\ log' = Append(log, [seq |-> call[Drain].seq, event |-> e,
                                 rules |-> call[Drain].rules])
      BY <2>1, <2>2, <2>5 DEF StoreEvent, At, Goto, Storing
    <3>2. /\ n \in Nat /\ DOMAIN log = 1 .. n /\ DOMAIN log' = 1 .. n + 1
          /\ log'[n + 1].event = e /\ \A i \in 1 .. n : log'[i] = log[i]
      BY <2>2, <3>1
    <3>3. IsExec(e) => processes[e.tgid] = e
      BY <3>1 DEF ExecInv, Storing
    <3>4. \A t : Replacing(t) <=> IsExec(e) /\ e.tgid = t
      BY <3>1 DEF Replacing, Storing
    <3> HIDE DEF n, e
    <3>5. ASSUME NEW i \in DOMAIN log', IsExec(log'[i].event), ~LaterExec(i)'
          PROVE  processes[log'[i].event.tgid] = log'[i].event
      <4>1. CASE i = n + 1  BY <3>2, <3>3, <3>5, <4>1
      <4>2. CASE i \in 1 .. n
        <5>1. i < n + 1 /\ n + 1 \in DOMAIN log'
          BY <3>2, <4>2
        <5>2. ~(IsExec(e) /\ e.tgid = log[i].event.tgid)
          BY <3>2, <3>5, <4>2, <5>1 DEF LaterExec
        <5>3. ~LaterExec(i)
          <6>1. \A j \in 1 .. n : j \in DOMAIN log' /\ log'[j] = log[j]
            BY <3>2
          <6> QED  BY <3>2, <3>5, <4>2, <6>1 DEF LaterExec
        <5> QED  BY <3>2, <3>4, <3>5, <4>2, <5>2, <5>3 DEF ExecInv
      <4> QED  BY <3>2, <3>5, <4>1, <4>2
    <3> QED  BY <3>1, <3>5 DEF ExecInv
  <2>6. ASSUME Step(Drain), ~CountEvent(Drain), ~RecordProcess(Drain), ~StoreEvent(Drain)
        PROVE  ExecInv'
    <3>1. /\ log' = log /\ processes' = processes
          /\ pc'[Drain] \in Storing <=> pc[Drain] \in Storing
          /\ pc[Drain] \in Storing => event(Drain)' = event(Drain)
      BY <2>1, <2>6, ProcessesAside
    <3>2. pc'[Drain] # "proc"
      BY <2>1, <2>2, <2>6 DEF Step, TakeEvent, ReadRules, TryAcquire, Shed, Return, Reply,
         AssignSeq, StampViolation, CountViolation, ClassifyViolation, PushViolation,
         SendViolation, SendEvent, ObserveLatency, At, Goto
    <3> QED  BY <3>1, <3>2, ExecKept
  <2>7. CASE ~\E c \in Callers : Step(c)
    <3>1. /\ log' = log /\ processes' = processes
          /\ \/ pc'[Drain] = pc[Drain] /\ call'[Drain] = call[Drain]
             \/ pc[Drain] = "idle" /\ pc'[Drain] = "loop"
      BY <2>1, <2>7, NoCallersStep DEF Ledger
    <3>2. pc'[Drain] \notin {"idle", "loop"} =>
             pc'[Drain] = pc[Drain] /\ event(Drain)' = event(Drain)
      BY <3>1 DEF event
    <3>3. pc'[Drain] \in Storing <=> pc[Drain] \in Storing
      BY <3>1 DEF Storing
    <3>4. pc[Drain] \in Storing => event(Drain)' = event(Drain)
      BY <3>2, <3>3 DEF Storing
    <3> QED  BY <3>1, <3>2, <3>3, <3>4, ExecKept
  <2> QED  BY <2>1, <2>3, <2>4, <2>5, <2>6, <2>7
<1> QED  BY <1>1, <1>2, IngestInvariant, ProcessInvariant, PTL DEF SafeSpec

(* GET /v1/processes shows the latest stored exec of every process as long *)
(* as the drain task is the only caller: the table is written before the   *)
(* number is claimed, and one caller does both in the same order.          *)
THEOREM LatestExecIsShown == Handlers = {} /\ ReaderSpec => []LatestExecWins
<1>1. ASSUME IngestInv, ExecInv, Handlers = {} PROVE LatestExecWins
  <2>1. Callers = {Drain}
    BY <1>1 DEF Callers
  <2>2. Len(log) \in Nat /\ DOMAIN log = 1 .. Len(log)
    BY <1>1 DEF IngestInv, TypeOK
  <2>3. ASSUME NEW i \in DOMAIN log, LaterExec(i)
        PROVE  \E j \in i + 1 .. Len(log) : /\ log[j].event.type = "proc_exec"
                                            /\ log[j].event.tgid = log[i].event.tgid
    <3>1. PICK j \in DOMAIN log : i < j /\ IsExec(log[j].event)
                                        /\ log[j].event.tgid = log[i].event.tgid
      BY <2>3 DEF LaterExec
    <3>2. j \in i + 1 .. Len(log)
      BY <2>2, <3>1
    <3> QED  BY <3>1, <3>2 DEF IsExec
  <2>4. ASSUME NEW t, Replacing(t)
        PROVE  \E c \in CallersAt({"seq", "store"}) :
                  event(c).type = "proc_exec" /\ event(c).tgid = t
    BY <2>1, <2>4 DEF Replacing, CallersAt, Storing, IsExec
  <2> QED  BY <1>1, <2>3, <2>4 DEF ExecInv, LatestExecWins, IsExec
<1>2. IngestInv /\ ExecInv /\ Handlers = {} => LatestExecWins
  BY <1>1
<1> QED  BY <1>2, ReaderRunsPipeline, IngestInvariant, ExecInvariant, PTL

----------------------------------------------------------------------------
(***************************************************************************)
(* Pages.  The k-th entry of a page is the k-th position that passed the   *)
(* filter; a position's place among those counts the ones up to it.        *)
(***************************************************************************)
Place(S, i) == Cardinality({j \in S : j <= i})

(* A set of natural numbers that is not empty has a least member. *)
LEMMA Smallest ==
    ASSUME NEW T \in SUBSET Nat, T # {}
    PROVE  \E x \in T : \A y \in T : x <= y
<1> DEFINE R == OpToRel(<, Nat)
<1>1. IsWellFoundedOn(R, Nat)
  BY NatLessThanWellFounded, Zenon
<1>2. \A a, b \in Nat : a < b => << a, b >> \in R
  BY DEF OpToRel
<1> HIDE DEF R
<1>3. PICK x \in T : \A y \in T : << y, x >> \notin R
  BY <1>1, WFMin
<1>4. \A y \in T : x \in Nat /\ y \in Nat /\ ~(y < x)
  BY <1>2, <1>3
<1> QED  BY <1>3, <1>4

(* Places grow by one at each member, from nothing to all of them. *)
LEMMA PlacesGrow ==
    ASSUME NEW m \in Nat, NEW S \in SUBSET (1 .. m)
    PROVE  /\ Cardinality(S) \in Nat
           /\ Place(S, 0) = 0 /\ Place(S, m) = Cardinality(S)
           /\ \A i \in Nat : /\ Place(S, i) \in Nat
                             /\ Place(S, i + 1) = Place(S, i) + One(i + 1 \in S)
           /\ \A i, j \in Nat : i <= j => Place(S, i) <= Place(S, j)
           /\ \A i, j \in Nat : i < j /\ j \in S => Place(S, i) < Place(S, j)
<1> DEFINE Upto(i) == {j \in S : j <= i}
<1>0. \A j \in S : j \in Nat /\ 1 <= j /\ j <= m
  OBVIOUS
<1>a. /\ \A i : Upto(i) \subseteq S
      /\ \A i \in Nat, j \in S : j \in Nat /\ (j \in Upto(i) <=> j <= i)
  BY <1>0
<1>b. \A i : Place(S, i) = Cardinality(Upto(i))
  BY DEF Place
<1> HIDE DEF Upto
<1>1. IsFiniteSet(S)
  <2>1. IsFiniteSet(1 .. m)
    BY FS_Interval
  <2> QED  BY <2>1, FS_Subset
<1>2. \A i : IsFiniteSet(Upto(i)) /\ Cardinality(Upto(i)) \in Nat
  <2> SUFFICES ASSUME NEW i PROVE IsFiniteSet(Upto(i)) /\ Cardinality(Upto(i)) \in Nat
    OBVIOUS
  <2>1. Upto(i) \subseteq S
    BY <1>a
  <2>2. IsFiniteSet(Upto(i))
    BY <1>1, <2>1, FS_Subset
  <2> QED  BY <2>2, FS_CardinalityType
<1>3. Upto(0) = {} /\ Upto(m) = S
  <2>1. \A j \in S : j \notin Upto(0) /\ j \in Upto(m)
    BY <1>a, <1>0
  <2> QED  BY <1>a, <2>1
<1>4. ASSUME NEW i \in Nat
      PROVE  Cardinality(Upto(i + 1)) = Cardinality(Upto(i)) + One(i + 1 \in S)
  <2>0. i + 1 \in Nat /\ \A j \in S : j \in Upto(i + 1) <=> j \in Upto(i) \/ j = i + 1
    BY <1>a
  <2>1. CASE i + 1 \in S
    <3>1. i + 1 \in Upto(i + 1) /\ i + 1 \notin Upto(i)
      BY <1>a, <2>0, <2>1
    <3>2. Upto(i + 1) = Upto(i) \cup {i + 1}
      BY <1>a, <2>0, <2>1
    <3>3. Cardinality(Upto(i) \cup {i + 1}) = Cardinality(Upto(i)) + 1
      BY <1>2, <3>1, FS_AddElement
    <3> QED  BY <2>1, <3>2, <3>3 DEF One
  <2>2. CASE i + 1 \notin S
    <3>1. Upto(i + 1) = Upto(i)
      BY <1>a, <2>0, <2>2
    <3> QED  BY <1>2, <2>2, <3>1 DEF One
  <2> QED  BY <2>1, <2>2
<1>5. ASSUME NEW i \in Nat, NEW j \in Nat, i <= j
      PROVE  Cardinality(Upto(i)) <= Cardinality(Upto(j))
  <2>1. \A x \in S : x \in Upto(i) => x \in Upto(j)
    BY <1>a, <1>5
  <2>2. Upto(i) \subseteq Upto(j)
    BY <1>a, <2>1
  <2> QED  BY <1>2, <2>2, FS_Subset
<1>6. ASSUME NEW i \in Nat, NEW j \in Nat, i < j, j \in S
      PROVE  Cardinality(Upto(i)) < Cardinality(Upto(j))
  <2>1. /\ \A x \in S : x \in Upto(i) => x \in Upto(j)
        /\ j \in Upto(j) /\ j \notin Upto(i)
    BY <1>a, <1>6
  <2>2. Upto(i) \subseteq Upto(j) \ {j}
    BY <1>a, <2>1
  <2>3. /\ IsFiniteSet(Upto(j) \ {j})
        /\ Cardinality(Upto(j) \ {j}) = Cardinality(Upto(j)) - 1
    BY <1>2, <2>1, FS_RemoveElement
  <2>4. Cardinality(Upto(i)) <= Cardinality(Upto(j) \ {j})
    BY <2>2, <2>3, FS_Subset
  <2> QED  BY <1>2, <2>3, <2>4
<1> QED  BY <1>2, <1>3, <1>4, <1>5, <1>6, <1>b, FS_EmptySet

(* Every place up to the number of members is some member's. *)
LEMMA NthIs ==
    ASSUME NEW m \in Nat, NEW S \in SUBSET (1 .. m), NEW k \in 1 .. Cardinality(S)
    PROVE  Nth(S, k) \in S /\ Place(S, Nth(S, k)) = k
<1> DEFINE T == {i \in Nat : Place(S, i) >= k}
<1>1. Cardinality(S) \in Nat /\ k \in Nat /\ 1 <= k /\ k <= Cardinality(S)
  BY PlacesGrow
<1>2. m \in T /\ 0 \notin T
  BY <1>1, PlacesGrow
<1>3. PICK x \in T : \A y \in T : x <= y
  <2>1. T \in SUBSET Nat /\ T # {}
    BY <1>2
  <2> HIDE DEF T
  <2> QED  BY <2>1, Smallest
<1>4. x \in Nat /\ x # 0 /\ x - 1 \in Nat /\ x - 1 \notin T /\ (x - 1) + 1 = x
  BY <1>2, <1>3
<1>5. /\ Place(S, x) >= k /\ ~(Place(S, x - 1) >= k)
      /\ Place(S, x - 1) \in Nat /\ Place(S, x) \in Nat
      /\ Place(S, x) = Place(S, x - 1) + One(x \in S)
  BY <1>3, <1>4, PlacesGrow
<1>6. x \in S /\ Place(S, x) = k
  BY <1>1, <1>5 DEF One
<1> QED  BY <1>6 DEF Nth, Place

(* So the k-th position is the only one with its place. *)
LEMMA NthOfPlace ==
    ASSUME NEW m \in Nat, NEW S \in SUBSET (1 .. m), NEW i \in S
    PROVE  /\ Place(S, i) \in 1 .. Cardinality(S)
           /\ Nth(S, Place(S, i)) = i
<1> DEFINE k == Place(S, i)   n == Nth(S, k)
<1>1. i \in Nat /\ 0 < i /\ i <= m
  OBVIOUS
<1>2. Cardinality(S) \in Nat /\ k \in Nat /\ 0 < k /\ k <= Cardinality(S)
  <2>1. /\ Place(S, 0) = 0 /\ Place(S, m) = Cardinality(S) /\ Cardinality(S) \in Nat
        /\ \A j \in Nat : Place(S, j) \in Nat
    BY PlacesGrow
  <2>2. Place(S, 0) < Place(S, i)
    BY <1>1, PlacesGrow
  <2>3. Place(S, i) <= Place(S, m)
    BY <1>1, PlacesGrow
  <2> QED  BY <1>1, <2>1, <2>2, <2>3
<1> HIDE DEF k
<1>3. k \in 1 .. Cardinality(S)
  BY <1>2
<1>4. n \in S /\ Place(S, n) = k
  BY <1>3, NthIs
<1> HIDE DEF n
<1>5. n \in Nat
  BY <1>4
<1>6. ~(n < i) /\ ~(i < n)
  <2>1. n < i => Place(S, n) < Place(S, i)
    BY <1>1, <1>5, PlacesGrow
  <2>2. i < n => Place(S, i) < Place(S, n)
    BY <1>1, <1>4, <1>5, PlacesGrow
  <2> QED  BY <1>2, <1>4, <2>1, <2>2 DEF k
<1> QED  BY <1>1, <1>3, <1>5, <1>6 DEF n, k

(* The positions get_events lets through, and how many it takes of them. *)
Passed(since) == {i \in DOMAIN events : events[i].seq > since}

PageLength(limit, since) ==
    AtMost(Cardinality(Passed(since)), AtMost(limit, EVENT_CAP))

(* A page is made of the positions that passed and whose place is not      *)
(* beyond the limit, each at its place.                                    *)
LEMMA PageIs ==
    ASSUME events \in Seq(Stored), NEW limit \in Nat, NEW since \in Int
    PROVE  LET page == get_events(limit, since)
               n    == PageLength(limit, since)
               P    == Passed(since)
           IN  /\ page \in Seq(Stored) /\ Len(page) = n /\ n <= limit
               /\ \A k \in 1 .. n : /\ Nth(P, k) \in P /\ Place(P, Nth(P, k)) = k
                                    /\ page[k] = events[Nth(P, k)]
               /\ \A i \in P : Place(P, i) <= n =>
                     Place(P, i) \in 1 .. n /\ page[Place(P, i)] = events[i]
<1> DEFINE page == get_events(limit, since)
           n == PageLength(limit, since)
           P == Passed(since)
           m == Len(events)
<1>1. m \in Nat /\ P \in SUBSET (1 .. m) /\ \A i \in P : events[i] \in Stored
  BY DEF Passed
<1>2. page = [k \in 1 .. n |-> events[Nth(P, k)]]
  BY DEF get_events, PageLength, Passed
<1>3. n \in Nat /\ n <= limit /\ n <= Cardinality(P)
  <2>1. Cardinality(P) \in Nat
    BY <1>1, PlacesGrow
  <2>2. n = AtMost(Cardinality(P), AtMost(limit, EVENT_CAP))
    BY DEF PageLength
  <2> HIDE DEF P, n
  <2> QED  BY <2>1, <2>2, IngestAssumption DEF AtMost
<1> HIDE DEF page, n, P, m
<1>4. \A k \in 1 .. n : k \in 1 .. Cardinality(P)
  <2>1. Cardinality(P) \in Nat
    BY <1>1, PlacesGrow
  <2> QED  BY <1>3, <2>1
<1>5. \A k \in 1 .. n : Nth(P, k) \in P /\ Place(P, Nth(P, k)) = k
  BY <1>1, <1>4, NthIs
<1>6. page \in [1 .. n -> Stored]
  BY <1>1, <1>2, <1>5
<1>7. page \in Seq(Stored) /\ Len(page) = n
  BY <1>3, <1>6
<1>8. ASSUME NEW i \in P, Place(P, i) <= n
      PROVE  Place(P, i) \in 1 .. n /\ page[Place(P, i)] = events[i]
  <2>1. Place(P, i) \in 1 .. Cardinality(P) /\ Nth(P, Place(P, i)) = i
    BY <1>1, NthOfPlace
  <2>2. Place(P, i) \in 1 .. n
    BY <1>3, <1>8, <2>1
  <2> QED  BY <1>2, <2>1, <2>2
<1> QED  BY <1>2, <1>3, <1>5, <1>7, <1>8 DEF page, n, P

(* A push puts nothing but the new entry into a ring. *)
LEMMA PushMembers ==
    ASSUME NEW S, NEW ring \in Seq(S), NEW x \in S, NEW cap \in Nat \ {0}
    PROVE  LET new2 == PushCapped(ring, x, cap)
           IN  \A i \in DOMAIN new2 :
                  new2[i] = x \/ \E j \in DOMAIN ring : new2[i] = ring[j]
<1> DEFINE n == Len(ring)   kept == IF n >= cap THEN Tail(ring) ELSE ring
           new2 == PushCapped(ring, x, cap)
<1>1. n \in Nat /\ DOMAIN ring = 1 .. n
  OBVIOUS
<1>2. /\ kept \in Seq(S)
      /\ \A i \in 1 .. Len(kept) : \E j \in DOMAIN ring : kept[i] = ring[j]
  <2>1. CASE n >= cap
    <3>1. /\ kept = Tail(ring) /\ Tail(ring) \in Seq(S) /\ Len(Tail(ring)) = n - 1
          /\ \A i \in 1 .. n - 1 : Tail(ring)[i] = ring[i + 1] /\ i + 1 \in 1 .. n
      BY <1>1, <2>1
    <3> QED  BY <1>1, <3>1
  <2>2. CASE ~(n >= cap)
    BY <1>1, <2>2
  <2> QED  BY <2>1, <2>2
<1>3. new2 = Append(kept, x)
  BY DEF PushCapped
<1> HIDE DEF kept, new2
<1>4. ASSUME NEW i \in DOMAIN new2
      PROVE  new2[i] = x \/ \E j \in DOMAIN ring : new2[i] = ring[j]
  <2>1. /\ Len(kept) \in Nat /\ i \in 1 .. Len(kept) + 1 /\ new2[Len(kept) + 1] = x
        /\ i \in 1 .. Len(kept) => new2[i] = kept[i]
    BY <1>2, <1>3
  <2>2. i \in 1 .. Len(kept) \/ i = Len(kept) + 1
    BY <2>1
  <2> QED  BY <1>2, <2>1, <2>2
<1> QED  BY <1>4 DEF new2

(* A step of the only caller puts at most the next number into the ring. *)
LEMMA RingGains ==
    ASSUME IngestInv, OrderInv, Handlers = {}, [Next]_vars
    PROVE  /\ Len(log') \in {Len(log), Len(log) + 1}
           /\ \A i \in DOMAIN events' :
                 \/ events'[i].seq = Len(log)
                 \/ \E j \in DOMAIN events : events'[i] = events[j]
<1>1. Callers = {Drain}
  BY DEF Callers
<1>2. /\ events \in Seq(Stored) /\ Len(log) \in Nat
      /\ log \in Seq([seq : Nat, event : Events, rules : RuleSets])
  BY DEF IngestInv, TypeOK
<1>3. CASE events' = events /\ log' = log
  BY <1>2, <1>3
<1>4. CASE StoreEvent(Drain)
  <2>1. /\ pc[Drain] = "store" /\ events' = PushCapped(events, StoredEvent(Drain), EVENT_CAP)
        /\ \E e : log' = Append(log, e)
    BY <1>4 DEF StoreEvent, At
  <2>2. Len(log') = Len(log) + 1
    BY <1>2, <2>1
  <2>3. StoredEvent(Drain).seq = Len(log)
    BY <2>1 DEF OrderInv, StoredEvent
  <2>4. StoredEvent(Drain) \in Stored
    <3>1. event(Drain) \in Events
      BY <1>1, <2>1, EventInHand DEF Holding, Labels
    <3>2. call[Drain].seq \in Nat
      BY <1>2, <2>1 DEF OrderInv
    <3> QED  BY <3>1, <3>2 DEF StoredEvent, Stored
  <2>5. \A i \in DOMAIN events' : \/ events'[i] = StoredEvent(Drain)
                                  \/ \E j \in DOMAIN events : events'[i] = events[j]
    BY <1>2, <2>1, <2>4, IngestAssumption, PushMembers
  <2> QED  BY <1>2, <2>2, <2>3, <2>5
<1>5. CASE Step(Drain) /\ ~StoreEvent(Drain)
  <2>1. CASE AssignSeq(Drain)  BY <1>3, <2>1 DEF AssignSeq, history
  <2>2. CASE PushViolation(Drain)  BY <1>3, <2>2 DEF PushViolation
  <2>3. CASE ~AssignSeq(Drain) /\ ~PushViolation(Drain)
    BY <1>1, <1>3, <1>5, <2>3, OtherSteps DEF Ledger
  <2> QED  BY <2>1, <2>2, <2>3
<1>6. CASE ~\E c \in Callers : Step(c)
  BY <1>1, <1>3, <1>6, NoCallersStep DEF Ledger
<1> QED  BY <1>1, <1>4, <1>5, <1>6

(* The client never asks beyond what is stored. *)
WalkInv ==
    /\ Handlers = {}
    /\ cursor \in Int /\ cursor <= Len(log) - 1
    /\ WalkMissesNothing

(* A page passes over nothing: the client is given every event of the ring *)
(* up to the number it goes on from.                                       *)
LEMMA FetchMissesNothing ==
    ASSUME IngestInv, RingsInv, OrderInv, WalkInv, Fetch
    PROVE  WalkInv'
<1> DEFINE page == get_events(PageLimit, cursor)
           n == PageLength(PageLimit, cursor)
           P == Passed(cursor)
<1>1. /\ events' = events /\ log' = log
      /\ page # << >> /\ cursor' = Last(page).seq
      /\ seen' = seen \cup {page[i].seq : i \in DOMAIN page}
  BY DEF Fetch, vars, shared, history
<1>2. events \in Seq(Stored) /\ PageLimit \in Nat /\ cursor \in Int
  BY PageAssumption DEF IngestInv, TypeOK, WalkInv
<1>3. /\ page \in Seq(Stored) /\ Len(page) = n
      /\ \A k \in 1 .. n : /\ Nth(P, k) \in P /\ Place(P, Nth(P, k)) = k
                           /\ page[k] = events[Nth(P, k)]
      /\ \A i \in P : Place(P, i) <= n =>
            Place(P, i) \in 1 .. n /\ page[Place(P, i)] = events[i]
  BY <1>2, PageIs
<1>4. P \subseteq DOMAIN events /\ \A i \in DOMAIN events : i \notin P => events[i].seq <= cursor
  BY <1>2, EventsOrdered DEF Passed
<1>5. Len(events) \in Nat /\ P \in SUBSET (1 .. Len(events))
  BY <1>2, <1>4
<1> HIDE DEF page, n, P
<1>6. n \in 1 .. n /\ DOMAIN page = 1 .. n
  BY <1>1, <1>3, EmptySeq
<1> DEFINE p == Nth(P, n)
<1>7. p \in DOMAIN events /\ Place(P, p) = n /\ cursor' = events[p].seq
  BY <1>1, <1>3, <1>4, <1>6 DEF Last
<1> HIDE DEF p
<1>8. cursor' \in Int /\ cursor' <= Len(log') - 1
  BY <1>1, <1>7, EventsOrdered
<1>9. ASSUME NEW i \in DOMAIN events, events[i].seq <= cursor'
      PROVE  events[i].seq \in seen'
  <2>1. CASE i \notin P
    BY <1>1, <1>4, <2>1 DEF WalkInv, WalkMissesNothing
  <2>2. CASE i \in P
    <3>1. i \in Nat /\ p \in Nat /\ events[i].seq \in Nat /\ events[p].seq \in Nat
      BY <1>7, EventsOrdered
    <3>2. i <= p
      <4>1. p < i => events[p].seq < events[i].seq
        BY <1>7, EventsOrdered
      <4> QED  BY <1>7, <1>9, <3>1, <4>1
    <3>3. Place(P, i) <= n
      BY <1>5, <1>7, <3>1, <3>2, PlacesGrow
    <3>4. Place(P, i) \in DOMAIN page /\ page[Place(P, i)] = events[i]
      BY <1>3, <1>6, <2>2, <3>3
    <3> QED  BY <1>1, <3>4
  <2> QED  BY <2>1, <2>2
<1> QED  BY <1>1, <1>8, <1>9 DEF WalkInv, WalkMissesNothing

(* With the drain task as the only caller, a client that follows the       *)
(* cursor of GET /v1/events is given every event of the ring up to its     *)
(* cursor, for any page size and whatever is evicted while it walks.       *)
THEOREM WalkIsComplete == Handlers = {} /\ ReaderSpec => []WalkMissesNothing
<1>1. Handlers = {} /\ ReaderInit => WalkInv
  BY DEF ReaderInit, Init, WalkInv, WalkMissesNothing, NoSeq
<1>2. IngestInv /\ RingsInv /\ OrderInv /\ WalkInv /\ [ReaderNext]_allVars => WalkInv'
  <2> SUFFICES ASSUME IngestInv, RingsInv, OrderInv, WalkInv, [ReaderNext]_allVars
               PROVE  WalkInv'
    OBVIOUS
  <2>1. CASE Fetch  BY <2>1, FetchMissesNothing
  <2>2. CASE ~Fetch
    <3>1. [Next]_vars /\ cursor' = cursor /\ seen' = seen
      BY <2>2 DEF ReaderNext, readerVars, allVars
    <3>2. /\ Len(log') \in {Len(log), Len(log) + 1}
          /\ \A i \in DOMAIN events' :
                \/ events'[i].seq = Len(log)
                \/ \E j \in DOMAIN events : events'[i] = events[j]
      BY <3>1, RingGains DEF WalkInv
    <3>3. Len(log) \in Nat /\ cursor \in Int /\ cursor <= Len(log) - 1
      BY DEF IngestInv, TypeOK, WalkInv
    <3>4. cursor <= Len(log') - 1
      BY <3>2, <3>3
    <3>5. \A i \in DOMAIN events' : events'[i].seq <= cursor => events'[i].seq \in seen
      BY <3>2, <3>3 DEF WalkInv, WalkMissesNothing
    <3> QED  BY <3>1, <3>3, <3>4, <3>5 DEF WalkInv, WalkMissesNothing
  <2> QED  BY <2>1, <2>2
<1>3. WalkInv => WalkMissesNothing
  BY DEF WalkInv
<1> QED  BY <1>1, <1>2, <1>3, ReaderRunsPipeline, IngestInvariant, RingsInvariant,
            OrderInvariant, PTL DEF ReaderSpec

----------------------------------------------------------------------------
(***************************************************************************)
(* The page's events.                                                      *)
(***************************************************************************)
Ascending(s) == \A i, j \in DOMAIN s : i < j => s[i].seq < s[j].seq

(* `order' is what Array.prototype.sort makes of s. *)
Sorts(order, s) ==
    \A i, j \in DOMAIN s : i < j =>
       \/ s[order[i]].seq < s[order[j]].seq
       \/ s[order[i]].seq = s[order[j]].seq /\ order[i] < order[j]

(* Sorting entries with different numbers makes them ascend and neither    *)
(* adds nor invents one, provided that some order sorts them.              *)
LEMMA SortedIs ==
    ASSUME NEW s \in Seq(Stored),
           \A i, j \in DOMAIN s : s[i].seq = s[j].seq => i = j,
           \E order \in [DOMAIN s -> DOMAIN s] : Sorts(order, s)
    PROVE  LET t == Sorted(s, BySeq(s))
           IN  /\ t \in Seq(Stored) /\ Len(t) = Len(s) /\ Ascending(t)
               /\ \A i \in DOMAIN t : \E j \in DOMAIN s : t[i] = s[j]
<1> DEFINE rank == BySeq(s)
           Ranks(p) == \A i, j \in DOMAIN s : i < j =>
                          \/ rank[p[i]] < rank[p[j]]
                          \/ rank[p[i]] = rank[p[j]] /\ p[i] < p[j]
           order == CHOOSE p \in [DOMAIN s -> DOMAIN s] : Ranks(p)
           t == Sorted(s, BySeq(s))
           n == Len(s)
<1>1. order \in [DOMAIN s -> DOMAIN s] /\ Sorts(order, s)
  <2>1. \A i \in DOMAIN s : rank[i] = s[i].seq
    BY DEF BySeq
  <2> HIDE DEF rank
  <2>2. ASSUME NEW p \in [DOMAIN s -> DOMAIN s] PROVE Sorts(p, s) <=> Ranks(p)
    <3>1. \A i \in DOMAIN s : rank[p[i]] = s[p[i]].seq
      BY <2>1
    <3>2. ASSUME Sorts(p, s) PROVE Ranks(p)
      <4> SUFFICES ASSUME NEW i \in DOMAIN s, NEW j \in DOMAIN s, i < j
                   PROVE  \/ rank[p[i]] < rank[p[j]]
                          \/ rank[p[i]] = rank[p[j]] /\ p[i] < p[j]
        OBVIOUS
      <4> QED  BY <3>1, <3>2 DEF Sorts
    <3>3. ASSUME Ranks(p) PROVE Sorts(p, s)
      <4> SUFFICES ASSUME NEW i \in DOMAIN s, NEW j \in DOMAIN s, i < j
                   PROVE  \/ s[p[i]].seq < s[p[j]].seq
                          \/ s[p[i]].seq = s[p[j]].seq /\ p[i] < p[j]
        BY DEF Sorts
      <4> QED  BY <3>1, <3>3
    <3> HIDE DEF Ranks
    <3> QED  BY <3>2, <3>3
  <2> HIDE DEF Ranks
  <2> QED  BY <2>2
<1>2. t = [i \in DOMAIN s |-> s[order[i]]]
  BY DEF Sorted
<1> HIDE DEF order, t
<1>3. n \in Nat /\ DOMAIN s = 1 .. n /\ \A i \in 1 .. n : s[i] \in Stored /\ s[i].seq \in Nat
  <2>1. \A i \in 1 .. n : s[i] \in Stored
    OBVIOUS
  <2> QED  BY <2>1 DEF Stored
<1> HIDE DEF n
<1>4. t \in [1 .. n -> Stored] /\ \A i \in 1 .. n : order[i] \in 1 .. n /\ t[i] = s[order[i]]
  BY <1>1, <1>2, <1>3
<1>5. t \in Seq(Stored) /\ Len(t) = n /\ DOMAIN t = 1 .. n
  BY <1>3, <1>4
<1>6. ASSUME NEW i \in 1 .. n, NEW j \in 1 .. n, i < j
      PROVE  t[i].seq < t[j].seq
  <2> DEFINE a == order[i]   b == order[j]   x == s[a].seq   y == s[b].seq
  <2>1. a \in 1 .. n /\ b \in 1 .. n /\ x \in Nat /\ y \in Nat
    BY <1>3, <1>4
  <2>2. x < y \/ (x = y /\ a < b)
    BY <1>1, <1>3, <1>6 DEF Sorts
  <2>3. x = y => a = b
    BY <1>3, <2>1
  <2> HIDE DEF a, b, x, y
  <2>4. x < y
    BY <1>3, <2>1, <2>2, <2>3
  <2> QED  BY <1>4, <2>4 DEF a, b, x, y
<1>7. Ascending(t)
  BY <1>5, <1>6 DEF Ascending
<1> QED  BY <1>3, <1>4, <1>5, <1>7 DEF t, n

(* An entry with a new number finds its place among ascending ones. *)
LEMMA InsertionSorts ==
    ASSUME NEW page \in Seq(Stored), Ascending(page), NEW e \in Stored,
           \A i \in DOMAIN page : page[i].seq # e.seq
    PROVE  LET s == Append(page, e)
           IN  \E order \in [DOMAIN s -> DOMAIN s] : Sorts(order, s)
<1> DEFINE n == Len(page)
           s == Append(page, e)
           T == {i \in 1 .. n : page[i].seq > e.seq} \cup {n + 1}
<1>1. /\ n \in Nat /\ DOMAIN page = 1 .. n /\ e.seq \in Nat
      /\ \A i \in 1 .. n : page[i].seq \in Nat
  <2>1. \A i \in 1 .. n : page[i] \in Stored
    OBVIOUS
  <2> QED  BY <2>1 DEF Stored
<1>2. DOMAIN s = 1 .. n + 1 /\ s[n + 1] = e /\ \A i \in 1 .. n : s[i] = page[i]
  OBVIOUS
<1>3. /\ \A i, j \in 1 .. n : i < j => s[i].seq < s[j].seq
      /\ \A i \in 1 .. n : s[i].seq # e.seq /\ s[i].seq \in Nat
  BY <1>1, <1>2 DEF Ascending
<1> HIDE DEF n, s
<1>4. PICK q \in T : \A i \in T : q <= i
  <2>1. T \in SUBSET Nat /\ T # {}
    BY <1>1
  <2> HIDE DEF T
  <2> QED  BY <2>1, Smallest
<1>5. /\ q \in 1 .. n + 1
      /\ \A i \in 1 .. n : i < q => s[i].seq < e.seq
      /\ \A i \in 1 .. n : q <= i => e.seq < s[i].seq
  <2>1. q \in 1 .. n + 1 /\ (q \in 1 .. n => page[q].seq > e.seq)
    BY <1>1, <1>4
  <2>2. \A i \in 1 .. n : i < q => ~(page[i].seq > e.seq)
    BY <1>1, <1>4
  <2>3. ASSUME NEW i \in 1 .. n, q <= i PROVE e.seq < s[i].seq
    <3>1. q \in 1 .. n
      BY <1>1, <2>1, <2>3
    <3>2. e.seq < s[q].seq /\ s[q].seq \in Nat
      BY <1>1, <1>2, <2>1, <3>1
    <3>3. q = i \/ q < i
      BY <1>1, <2>3, <3>1
    <3> QED  BY <1>1, <1>3, <3>1, <3>2, <3>3
  <2>4. ASSUME NEW i \in 1 .. n, i < q PROVE s[i].seq < e.seq
    BY <1>1, <1>2, <1>3, <2>2, <2>4
  <2> QED  BY <2>1, <2>3, <2>4
<1> DEFINE order == [i \in 1 .. n + 1 |-> IF i < q THEN i ELSE IF i = q THEN n + 1 ELSE i - 1]
<1>6. order \in [1 .. n + 1 -> 1 .. n + 1]
  BY <1>1, <1>5
<1>7. ASSUME NEW i \in 1 .. n + 1, NEW j \in 1 .. n + 1, i < j
      PROVE  s[order[i]].seq < s[order[j]].seq
  <2>1. CASE j < q
    <3>1. i \in 1 .. n /\ j \in 1 .. n /\ order[i] = i /\ order[j] = j
      BY <1>1, <1>5, <1>7, <2>1
    <3> QED  BY <1>3, <1>7, <3>1
  <2>2. CASE j = q
    <3>1. i \in 1 .. n /\ order[i] = i /\ order[j] = n + 1 /\ i < q
      BY <1>1, <1>5, <1>7, <2>2
    <3> QED  BY <1>2, <1>5, <3>1
  <2>3. CASE i < q /\ q < j
    <3>1. i \in 1 .. n /\ j - 1 \in 1 .. n /\ order[i] = i /\ order[j] = j - 1 /\ i < j - 1
      BY <1>1, <1>5, <1>7, <2>3
    <3> QED  BY <1>3, <3>1
  <2>4. CASE i = q
    <3>1. j - 1 \in 1 .. n /\ order[i] = n + 1 /\ order[j] = j - 1 /\ q <= j - 1
      BY <1>1, <1>5, <1>7, <2>4
    <3> QED  BY <1>2, <1>5, <3>1
  <2>5. CASE q < i
    <3>1. /\ i - 1 \in 1 .. n /\ j - 1 \in 1 .. n /\ i - 1 < j - 1
          /\ order[i] = i - 1 /\ order[j] = j - 1
      BY <1>1, <1>5, <1>7, <2>5
    <3> QED  BY <1>3, <3>1
  <2> QED  BY <1>1, <1>5, <1>7, <2>1, <2>2, <2>3, <2>4, <2>5
<1> HIDE DEF order
<1>8. Sorts(order, s)
  BY <1>2, <1>7 DEF Sorts
<1> QED  BY <1>2, <1>6, <1>8 DEF s

(* The newest part of an ascending sequence ascends. *)
LEMMA LastOfAscends ==
    ASSUME NEW s \in Seq(Stored), Ascending(s), NEW cap \in Nat
    PROVE  LET t == LastOf(s, cap)
           IN  /\ t \in Seq(Stored) /\ Len(t) <= cap /\ Ascending(t)
               /\ \A i \in DOMAIN t : \E j \in DOMAIN s : t[i] = s[j]
<1> DEFINE n == Len(s)   k == AtMost(n, cap)   t == SubSeq(s, n - k + 1, n)
<1>1. n \in Nat /\ DOMAIN s = 1 .. n
  OBVIOUS
<1>2. k \in Nat /\ k <= n /\ k <= cap
  <2> HIDE DEF n
  <2> QED  BY <1>1 DEF AtMost
<1> HIDE DEF k
<1>3. /\ t \in Seq(Stored) /\ Len(t) = k /\ DOMAIN t = 1 .. k
      /\ \A i \in 1 .. k : t[i] = s[n - k + i]
  <2>1. n - k + 1 \in 1 .. n + 1 /\ n - (n - k + 1) + 1 = k
    BY <1>1, <1>2
  <2>2. \A i \in 1 .. k : (n - k + 1) + i - 1 = n - k + i
    BY <1>1, <1>2
  <2> QED  BY <1>1, <1>2, <2>1, <2>2, SubSeqProperties
<1> HIDE DEF n, t
<1>4. \A i \in 1 .. k : n - k + i \in 1 .. n
  BY <1>1, <1>2
<1>5. Ascending(t)
  <2> SUFFICES ASSUME NEW i \in 1 .. k, NEW j \in 1 .. k, i < j
               PROVE  t[i].seq < t[j].seq
    BY <1>3 DEF Ascending
  <2>1. n - k + i < n - k + j
    BY <1>1, <1>2
  <2> QED  BY <1>1, <1>3, <1>4, <2>1 DEF Ascending
<1>6. LastOf(s, cap) = t
  BY DEF LastOf, t, n, k
<1> QED  BY <1>1, <1>2, <1>3, <1>4, <1>5, <1>6

(* A pushed event takes its place, unless it is there. *)
LEMMA PushedIs ==
    ASSUME NEW page \in Seq(Stored), Ascending(page), NEW e \in Stored
    PROVE  LET t == Pushed(page, e)
           IN  /\ t \in Seq(Stored) /\ Len(t) <= PAGE_EVENT_CAP /\ Ascending(t)
               /\ \A i \in DOMAIN t : t[i] = e \/ \E j \in DOMAIN page : t[i] = page[j]
<1> DEFINE known == \E i \in DOMAIN page : page[i].seq = e.seq
           s == IF known THEN page ELSE Append(page, e)
           t == Sorted(s, BySeq(s))
           n == Len(page)
<1>1. /\ n \in Nat /\ DOMAIN page = 1 .. n
      /\ \A i \in 1 .. n : page[i] \in Stored /\ page[i].seq \in Nat
  <2>1. \A i \in 1 .. n : page[i] \in Stored
    OBVIOUS
  <2> QED  BY <2>1 DEF Stored
<1>2. \A i, j \in 1 .. n : page[i].seq = page[j].seq => i = j
  <2> HIDE DEF n
  <2>1. \A i, j \in 1 .. n : i < j \/ j < i \/ i = j
    BY <1>1
  <2> QED  BY <1>1, <2>1 DEF Ascending
<1>3. /\ s \in Seq(Stored)
      /\ \A i, j \in DOMAIN s : s[i].seq = s[j].seq => i = j
      /\ \E order \in [DOMAIN s -> DOMAIN s] : Sorts(order, s)
      /\ \A i \in DOMAIN s : s[i] = e \/ \E j \in DOMAIN page : s[i] = page[j]
  <2>1. CASE known
    <3>1. s = page
      BY <2>1
    <3> DEFINE id == [i \in 1 .. n |-> i]
    <3>2. id \in [1 .. n -> 1 .. n] /\ \A i \in 1 .. n : id[i] = i
      OBVIOUS
    <3> HIDE DEF id
    <3>3. Sorts(id, page)
      BY <1>1, <3>2 DEF Sorts, Ascending
    <3>4. \E order \in [DOMAIN page -> DOMAIN page] : Sorts(order, page)
      BY <1>1, <3>2, <3>3
    <3>5. \A i, j \in DOMAIN page : page[i].seq = page[j].seq => i = j
      BY <1>1, <1>2
    <3> HIDE DEF s, n, known
    <3> QED  BY <3>1, <3>4, <3>5
  <2>2. CASE ~known
    <3>1. s = Append(page, e)
      BY <2>2
    <3>2. \E order \in [DOMAIN s -> DOMAIN s] : Sorts(order, s)
      BY <2>2, <3>1, InsertionSorts
    <3> HIDE DEF s
    <3>3. /\ s \in Seq(Stored) /\ DOMAIN s = 1 .. n + 1 /\ s[n + 1] = e
          /\ \A i \in 1 .. n : s[i] = page[i]
      <4> DEFINE u == Append(page, e)
      <4>1. /\ u \in Seq(Stored) /\ DOMAIN u = 1 .. n + 1 /\ u[n + 1] = e
            /\ \A i \in 1 .. n : u[i] = page[i]
        OBVIOUS
      <4> HIDE DEF n, u
      <4> QED  BY <3>1, <4>1 DEF u
    <3> HIDE DEF n
    <3>4. \A i \in 1 .. n + 1 : i \in 1 .. n \/ i = n + 1
      BY <1>1
    <3>5. \A i \in 1 .. n : page[i].seq # e.seq
      BY <1>1, <2>2
    <3> QED  BY <1>1, <1>2, <3>2, <3>3, <3>4, <3>5
  <2> QED  BY <2>1, <2>2
<1>4. Pushed(page, e) = LastOf(t, PAGE_EVENT_CAP)
  BY DEF Pushed
<1> HIDE DEF s
<1>5. t \in Seq(Stored) /\ Ascending(t) /\ \A i \in DOMAIN t : \E j \in DOMAIN s : t[i] = s[j]
  BY <1>3, SortedIs
<1> HIDE DEF t
<1> DEFINE r == LastOf(t, PAGE_EVENT_CAP)
<1>6. /\ r \in Seq(Stored) /\ Len(r) <= PAGE_EVENT_CAP /\ Ascending(r)
      /\ \A i \in DOMAIN r : \E j \in DOMAIN t : r[i] = t[j]
  BY <1>5, DashboardAssumption, LastOfAscends
<1> HIDE DEF r
<1>7. \A i \in DOMAIN r : r[i] = e \/ \E j \in DOMAIN page : r[i] = page[j]
  BY <1>3, <1>5, <1>6
<1> QED  BY <1>4, <1>6, <1>7 DEF r

(***************************************************************************)
(* The page.  Whatever it holds, or a poll brings it, is a page of the     *)
(* trail: ascending, not longer than its cap, and of stored events only.   *)
(***************************************************************************)
OnRecord(e) == \E k \in DOMAIN log : log[k].seq = e.seq /\ log[k].event = e.event

TrailPage(s) ==
    /\ s \in Seq(Stored) /\ Len(s) <= PAGE_EVENT_CAP /\ Ascending(s)
    /\ \A i \in DOMAIN s : OnRecord(s[i])

Answer(p) ==
    /\ DOMAIN p = {"at", "events", "violations"}
    /\ p.events = Unanswered \/ (p.events = << Head(p.events) >> /\ TrailPage(Head(p.events)))

PageInv ==
    /\ TrailPage(EVENTS)
    /\ DOMAIN polls = Polls /\ \A i \in Polls : Answer(polls[i])

(* The trail only grows: what is on record stays so. *)
LEMMA TrailGrows ==
    ASSUME IngestInv, [Next]_vars
    PROVE  \A i \in DOMAIN log : i \in DOMAIN log' /\ log'[i] = log[i]
<1>1. log \in Seq([seq : Nat, event : Events, rules : RuleSets])
  BY DEF IngestInv, TypeOK
<1>2. ASSUME NEW c \in Callers, Step(c)
      PROVE  log' = log \/ \E e : log' = Append(log, e)
  <2>1. CASE StoreEvent(c)  BY <2>1 DEF StoreEvent
  <2>2. CASE AssignSeq(c)  BY <2>2 DEF AssignSeq, history
  <2>3. CASE PushViolation(c)  BY <2>3 DEF PushViolation
  <2>4. CASE ~StoreEvent(c) /\ ~AssignSeq(c) /\ ~PushViolation(c)
    BY <1>2, <2>4, OtherSteps DEF Ledger
  <2> QED  BY <2>1, <2>2, <2>3, <2>4
<1>3. ASSUME ~\E c \in Callers : Step(c) PROVE log' = log
  <2>1. Drain \in Callers
    BY DEF Callers
  <2> QED  BY <1>3, <2>1, NoCallersStep DEF Ledger
<1>4. log' = log \/ \E e : log' = Append(log, e)
  BY <1>2, <1>3
<1> QED  BY <1>1, <1>4

(* So a page of the trail stays one. *)
LEMMA PagesLast ==
    ASSUME IngestInv, [Next]_vars
    PROVE  /\ \A s : TrailPage(s) => TrailPage(s)'
           /\ \A p : Answer(p) => Answer(p)'
<1>1. \A e : OnRecord(e) => OnRecord(e)'
  BY TrailGrows DEF OnRecord
<1>2. \A s : TrailPage(s) => TrailPage(s)'
  BY <1>1 DEF TrailPage, Ascending
<1> QED  BY <1>2 DEF Answer

(* GET /v1/events without a cursor answers a page of the trail. *)
LEMMA AnswerIsPage ==
    ASSUME IngestInv, RingsInv, OrderInv
    PROVE  TrailPage(get_events(PAGE_EVENT_CAP, NoSeq))
<1> DEFINE page == get_events(PAGE_EVENT_CAP, NoSeq)
           n == PageLength(PAGE_EVENT_CAP, NoSeq)
           P == Passed(NoSeq)
<1>1. /\ events \in Seq(Stored) /\ PAGE_EVENT_CAP \in Nat /\ NoSeq \in Int
      /\ log \in Seq([seq : Nat, event : Events, rules : RuleSets])
  BY DashboardAssumption DEF IngestInv, TypeOK, NoSeq
<1>2. /\ page \in Seq(Stored) /\ Len(page) = n /\ n <= PAGE_EVENT_CAP
      /\ \A k \in 1 .. n : /\ Nth(P, k) \in P /\ Place(P, Nth(P, k)) = k
                           /\ page[k] = events[Nth(P, k)]
  BY <1>1, PageIs
<1>3. Len(events) \in Nat /\ P \in SUBSET (1 .. Len(events)) /\ P \subseteq DOMAIN events
  BY <1>1 DEF Passed
<1> HIDE DEF page, n, P
<1>4. DOMAIN page = 1 .. n
  BY <1>2
<1>5. Ascending(page)
  <2> SUFFICES ASSUME NEW i \in 1 .. n, NEW j \in 1 .. n, i < j
               PROVE  page[i].seq < page[j].seq
    BY <1>4 DEF Ascending
  <2> DEFINE a == Nth(P, i)   b == Nth(P, j)
  <2>1. /\ a \in P /\ Place(P, a) = i /\ page[i] = events[a]
        /\ b \in P /\ Place(P, b) = j /\ page[j] = events[b]
    BY <1>2
  <2> HIDE DEF a, b
  <2>2. a \in Nat /\ b \in Nat
    BY <1>3, <2>1
  <2>3. b <= a => Place(P, b) <= Place(P, a)
    BY <1>3, <2>2, PlacesGrow
  <2>4. a < b
    BY <2>1, <2>2, <2>3
  <2> QED  BY <1>3, <2>1, <2>4, EventsOrdered
<1>6. ASSUME NEW i \in DOMAIN page PROVE OnRecord(page[i])
  <2>1. PICK p \in DOMAIN events : page[i] = events[p]
    BY <1>2, <1>3, <1>4
  <2> DEFINE h == Stripped(log)
  <2>2. /\ DOMAIN events = 1 .. Len(events) /\ Len(events) \in Nat
        /\ Len(h) = Len(log) /\ Len(log) \in Nat /\ DOMAIN log = 1 .. Len(log)
        /\ \A k \in DOMAIN log : h[k].seq = log[k].seq /\ h[k].event = log[k].event
    BY <1>1 DEF Stripped
  <2>3. IsNewest(events, h, EVENT_CAP) /\ EVENT_CAP \in Nat \ {0}
    BY IngestAssumption DEF RingsInv
  <2> HIDE DEF h
  <2>a. PICK s \in Nat : Shifted(events, h, s)
    BY <2>2, <2>3, RingIsSuffix
  <2>4. \A k \in 1 .. Len(events) : s + k \in 1 .. Len(log) /\ events[k] = h[s + k]
    BY <2>2, <2>a DEF Shifted
  <2> QED  BY <2>1, <2>2, <2>4 DEF OnRecord
<1> QED  BY <1>2, <1>5, <1>6 DEF TrailPage, page

(* A message goes to the page as it is on record, at its place. *)
LEMMA MessageKeepsPage ==
    ASSUME IngestInv, StreamInv, TrailPage(EVENTS), onmessage
    PROVE  TrailPage(EVENTS')
<1> DEFINE k == NextMessage   e == tx[k].stored
<1>1. tx \in Seq(Packet)
  BY DEF IngestInv, TypeOK
<1>2. k \in DOMAIN tx
  <2> DEFINE n == Len(tx)   low == n - STREAM_CAPACITY + 1
  <2>1. n \in Nat /\ rx \in 1 .. n /\ DOMAIN tx = 1 .. n
    BY <1>1 DEF onmessage
  <2>2. k = Max({rx, low})
    BY DEF NextMessage
  <2> HIDE DEF k, n
  <2>3. low \in Int /\ low <= n /\ rx \in Int
    BY <2>1, DashboardAssumption
  <2> HIDE DEF low
  <2>4. \E x \in {rx, low} : \A y \in {rx, low} : x >= y
    BY <2>3
  <2>5. k \in {rx, low} /\ k >= rx
    BY <2>2, <2>3, <2>4 DEF Max
  <2> QED  BY <2>1, <2>3, <2>5
<1>3. CASE tx[k].kind = "event"
  <2> HIDE DEF k
  <2>1. e \in Stored /\ OnRecord(e)
    <3>1. tx[k] \in Packet
      BY <1>1, <1>2
    <3>2. e \in Stored
      BY <1>3, <3>1 DEF Packet
    <3> QED  BY <1>2, <1>3, <3>2 DEF StreamInv, OnRecord
  <2>2. EVENTS' = Pushed(EVENTS, e)
    BY <1>3 DEF onmessage, k
  <2> HIDE DEF e
  <2>3. LET t == Pushed(EVENTS, e)
        IN  /\ t \in Seq(Stored) /\ Len(t) <= PAGE_EVENT_CAP /\ Ascending(t)
            /\ \A i \in DOMAIN t : t[i] = e \/ \E j \in DOMAIN EVENTS : t[i] = EVENTS[j]
    BY <2>1, PushedIs DEF TrailPage
  <2> QED  BY <2>1, <2>2, <2>3 DEF TrailPage
<1>4. CASE tx[k].kind # "event"
  <2>1. EVENTS' = EVENTS
    BY <1>4 DEF onmessage
  <2> QED  BY <2>1
<1> QED  BY <1>3, <1>4

(* What the steps of a poll do to the page and to the polls. *)
LEMMA PollKeepsPage ==
    ASSUME IngestInv, RingsInv, OrderInv, PageInv, NEW i \in Polls,
           PollStep(i) \/ PollFails(i)
    PROVE  TrailPage(EVENTS') /\ DOMAIN polls' = Polls /\ \A j \in Polls : Answer(polls'[j])
<1>1. /\ TrailPage(EVENTS) /\ DOMAIN polls = Polls
      /\ \A j \in Polls : Answer(polls[j])
      /\ DOMAIN polls[i] = {"at", "events", "violations"}
  BY DEF PageInv, Answer
<1>2. ASSUME NEW a, Answer(a), polls' = [polls EXCEPT ![i] = a]
      PROVE  DOMAIN polls' = Polls /\ \A j \in Polls : Answer(polls'[j])
  BY <1>1, <1>2
<1>3. ASSUME NEW label PROVE Answer([NoPoll EXCEPT !.at = label])
  BY DEF Answer, NoPoll
<1>4. Answer(NoPoll)
  BY DEF Answer, NoPoll
<1>5. CASE StartPoll(i)
  BY <1>1, <1>2, <1>3, <1>5 DEF StartPoll, Poll
<1>6. CASE PollFails(i)
  BY <1>1, <1>2, <1>3, <1>6 DEF PollFails, Poll
<1>7. CASE SetViolations(i)
  BY <1>1, <1>2, <1>4, <1>7 DEF SetViolations, Poll
<1>8. CASE AnswerEvents(i)
  <2> DEFINE s == get_events(PAGE_EVENT_CAP, NoSeq)
             a == [polls[i] EXCEPT !.events = << s >>]
  <2>1. polls' = [polls EXCEPT ![i] = a] /\ EVENTS' = EVENTS
    BY <1>8 DEF AnswerEvents, Poll
  <2>2. TrailPage(s)
    BY AnswerIsPage
  <2> HIDE DEF s
  <2>3. DOMAIN a = {"at", "events", "violations"} /\ a.events = << s >>
    BY <1>1
  <2> HIDE DEF a
  <2>4. Answer(a)
    BY <2>2, <2>3 DEF Answer
  <2> QED  BY <1>1, <1>2, <2>1, <2>4
<1>9. CASE AnswerViolations(i)
  <2> DEFINE a == [polls[i] EXCEPT !.violations = << get_violations(FEED_LIMIT) >>]
  <2>1. polls' = [polls EXCEPT ![i] = a] /\ EVENTS' = EVENTS
    BY <1>9 DEF AnswerViolations, Poll
  <2>2. DOMAIN a = {"at", "events", "violations"} /\ a.events = polls[i].events
    BY <1>1
  <2> HIDE DEF a
  <2>3. Answer(a)
    BY <1>1, <2>2 DEF Answer
  <2> QED  BY <1>1, <1>2, <2>1, <2>3
<1>10. CASE SetEvents(i)
  <2> DEFINE a == [polls[i] EXCEPT !.at = "half", !.events = Unanswered]
  <2>1. /\ polls' = [polls EXCEPT ![i] = a] /\ EVENTS' = Head(polls[i].events)
        /\ polls[i].events # Unanswered
    BY <1>10 DEF SetEvents, Poll
  <2>2. DOMAIN a = {"at", "events", "violations"} /\ a.events = Unanswered
    BY <1>1
  <2> HIDE DEF a
  <2>3. Answer(a) /\ TrailPage(EVENTS')
    BY <1>1, <2>1, <2>2 DEF Answer
  <2> QED  BY <1>2, <2>1, <2>3
<1> QED  BY <1>5, <1>6, <1>7, <1>8, <1>9, <1>10 DEF PollStep

(* With the drain task as the only caller, the dashboard's timeline is in  *)
(* number order, shows no event twice and none the server did not store,   *)
(* for any caps, any number of overlapping polls and any loss on the       *)
(* stream.                                                                 *)
THEOREM TimelineAscends == Handlers = {} /\ DashSpec => []EventsAscend
<1>1. DashInit => PageInv
  <2> SUFFICES ASSUME DashInit PROVE PageInv
    OBVIOUS
  <2>1. EVENTS = << >> /\ polls = [i \in Polls |-> NoPoll]
    BY DEF DashInit
  <2>2. TrailPage(<< >>)
    BY DashboardAssumption DEF TrailPage, Ascending
  <2>3. Answer(NoPoll)
    BY DEF Answer, NoPoll
  <2> QED  BY <2>1, <2>2, <2>3 DEF PageInv
<1>2. IngestInv /\ RingsInv /\ OrderInv /\ TrailInv /\ PageInv /\ [DashNext]_dashVars => PageInv'
  <2> SUFFICES ASSUME IngestInv, RingsInv, OrderInv, TrailInv, PageInv, [DashNext]_dashVars
               PROVE  PageInv'
    OBVIOUS
  <2>1. [Next]_vars
    BY DEF DashNext, Walk, Fetch, Connect, Disconnect, onmessage, OnPage,
           PollStep, StartPoll, AnswerEvents, AnswerViolations, SetEvents,
           SetViolations, PollFails, Poll, dashVars
  <2>2. TrailPage(EVENTS') /\ DOMAIN polls' = Polls /\ \A i \in Polls : Answer(polls'[i])
    <3>1. TrailPage(EVENTS) /\ DOMAIN polls = Polls /\ \A i \in Polls : Answer(polls[i])
      BY DEF PageInv
    <3>2. CASE onmessage
      <4>1. polls' = polls
        BY <3>2 DEF onmessage
      <4> QED  BY <3>1, <3>2, <4>1, MessageKeepsPage DEF TrailInv
    <3>3. CASE \E i \in Polls : PollStep(i) \/ PollFails(i)
      BY <3>3, PollKeepsPage
    <3>4. CASE EVENTS' = EVENTS /\ polls' = polls
      BY <3>1, <3>4
    <3>5. \/ EVENTS' = EVENTS /\ polls' = polls
          \/ onmessage
          \/ \E i \in Polls : PollStep(i) \/ PollFails(i)
      BY DEF DashNext, Walk, Connect, Disconnect, dashVars, clientVars, pageVars
    <3> QED  BY <3>2, <3>3, <3>4, <3>5
  <2> QED  BY <2>1, <2>2, PagesLast DEF PageInv
<1>3. PageInv => EventsAscend
  BY DEF PageInv, TrailPage, Ascending, OnRecord, EventsAscend
<1> QED  BY <1>1, <1>2, <1>3, DashRunsPipeline, IngestInvariant, RingsInvariant,
            OrderInvariant, TrailInvariant, PTL DEF DashSpec
=============================================================================
