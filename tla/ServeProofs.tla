----------------------------- MODULE ServeProofs ----------------------------
(***************************************************************************)
(* The collector and the serve command, for any number of processors, any  *)
(* ring and channel capacity and any number of records.                    *)
(***************************************************************************)
EXTENDS Serve, FiniteSetTheorems, SequenceTheorems, WellFoundedInduction,
        TLAPS

(* A set of natural numbers that is not empty has a least member. *)
LEMMA LeastMember ==
    ASSUME NEW T \in SUBSET Nat, T # {}
    PROVE  Min(T) \in T /\ \A y \in T : Min(T) <= y
<1> DEFINE R == OpToRel(<, Nat)
<1>1. IsWellFoundedOn(R, Nat)
  BY NatLessThanWellFounded, Zenon
<1>2. \A a, b \in Nat : a < b => << a, b >> \in R
  BY DEF OpToRel
<1> HIDE DEF R
<1>3. PICK x \in T : \A y \in T : << y, x >> \notin R
  BY <1>1, WFMin
<1>4. \A y \in T : x \in Nat /\ y \in Nat /\ ~(y < x)
  BY <1>2, <1>3
<1>5. \A y \in T : x <= y
  BY <1>4
<1> QED  BY <1>3, <1>5 DEF Min

----------------------------------------------------------------------------
(* The records and slots of the ring. *)
Record == [n : 1 .. MaxRecords, kind : Kinds]
Slot   == [rec : Record, state : {"busy", "ready", "discarded"}]

(* The numbers of a sequence of records are naturals. *)
LEMMA RecordNumbers ==
    ASSUME NEW recs \in Seq(Record)
    PROVE  /\ DOMAIN recs = 1 .. Len(recs)
           /\ \A i \in 1 .. Len(recs) : recs[i].n \in Nat
<1>1. \A r \in Record : r.n \in Nat
  BY CollectorAssumption DEF Record
<1>2. \A i \in 1 .. Len(recs) : recs[i] \in Record
  BY ElementOfSeq
<1> QED  BY <1>1, <1>2

(* What is left of a sequence of slots when the first k - 1 are freed. *)
From(slots, k) == SubSeq(slots, k, Len(slots))

(* Its length and its slots. *)
LEMMA FromIs ==
    ASSUME NEW S, NEW slots \in Seq(S), NEW k \in 1 .. Len(slots) + 1
    PROVE  /\ From(slots, k) \in Seq(S)
           /\ Len(From(slots, k)) = Len(slots) - k + 1
           /\ \A i \in 1 .. Len(slots) - k + 1 :
                 From(slots, k)[i] = slots[k + i - 1]
BY DEF From

(* Freeing the slot in front. *)
LEMMA TailIsFrom ==
    ASSUME NEW S, NEW slots \in Seq(S), slots # << >>
    PROVE  Tail(slots) = From(slots, 2) /\ Head(slots) = slots[1]
BY TailIsSubSeq DEF From

(* ring.next() frees exactly the discarded slots in front. *)
LEMMA LiveIs ==
    ASSUME NEW S, NEW slots \in Seq(S)
    PROVE  \E k \in 1 .. Len(slots) + 1 :
              /\ Live(slots) = From(slots, k)
              /\ \A i \in 1 .. k - 1 : slots[i].state = "discarded"
<1> DEFINE I == {i \in 1 .. Len(slots) : slots[i].state # "discarded"}
<1>1. CASE I = {}
  <2>1. Live(slots) = << >>
    BY <1>1 DEF Live, SelectInSeq
  <2>2. From(slots, Len(slots) + 1) = << >>
    BY SubSeqEmpty DEF From
  <2> QED  BY <1>1, <2>1, <2>2
<1>2. CASE I # {}
  <2> DEFINE m == Min(I)
  <2>1. I \in SUBSET Nat
    OBVIOUS
  <2>2. m \in I /\ \A i \in I : m <= i
    BY <1>2, <2>1, LeastMember
  <2>3. SelectInSeq(slots, LAMBDA s : s.state # "discarded") = m
    BY <1>2 DEF SelectInSeq
  <2> HIDE DEF m
  <2>4. m \in 1 .. Len(slots) /\ \A i \in 1 .. m - 1 : i \notin I
    BY <2>2
  <2>5. Live(slots) = From(slots, m)
    BY <2>3, <2>4 DEF Live, From
  <2>6. \A i \in 1 .. m - 1 : slots[i].state = "discarded"
    BY <2>4
  <2> QED  BY <2>4, <2>5, <2>6
<1> QED  BY <1>1, <1>2

----------------------------------------------------------------------------
(* The inductive invariant of the collector. *)

(* The records that have left the ring are a prefix of the reservations. *)
Left == Len(reserved) - Len(ring)

Ascending(recs) == \A i, j \in DOMAIN recs : i < j => recs[i].n < recs[j].n

(* The ring holds the latest reservations; a slot was given to the reader  *)
(* or discarded on its writer's verdict.                                   *)
RingInv ==
    /\ Len(ring) <= Len(reserved)
    /\ \A i \in 1 .. Len(ring) : ring[i].rec = reserved[Left + i]
    /\ \A i \in 1 .. Len(ring) :
          /\ ring[i].state = "discarded" => ring[i].rec.kind = "overflow"
          /\ ring[i].state = "ready" => ring[i].rec.kind # "overflow"

(* Reservations are numbered in order; a simulator's are all good. *)
ReservedInv ==
    /\ Ascending(reserved)
    /\ \A i \in 1 .. Len(reserved) : reserved[i].n <= produced
    /\ mode = "simulated" =>
          ring = << >> /\ \A i \in 1 .. Len(reserved) : reserved[i].kind = "good"

(* While the poll loop waits for room, its event is still in the ring. *)
SendInv == poll = "send" => ring # << >> /\ ring[1].rec.kind = "good"

(* The event in hand is counted before the channel accepts it. *)
CountInv ==
    /\ mode = "simulated" => stats.ingested = 0 /\ stats.dropped_malformed = 0
    /\ mode = "kernel" =>
          /\ poll = "send" => stats.ingested = sent + 1
          /\ poll \notin {"send", "done"} => stats.ingested = sent
          /\ stats.ingested - sent \in {0, 1}

Malformed == {i \in 1 .. Left : reserved[i].kind = "malformed"}

DroppedInv == Cardinality(Malformed) = stats.dropped_malformed

(* A sequence of events that is the good ones of the first left records,   *)
(* in order.                                                               *)
Carries(flow, recs, left) ==
    /\ Ascending(flow)
    /\ \A j \in 1 .. Len(flow) :
          flow[j].kind = "good" /\ \E i \in 1 .. left : flow[j] = recs[i]
    /\ \A i \in 1 .. left : recs[i].kind = "good" =>
          \E j \in 1 .. Len(flow) : flow[j] = recs[i]

(* What was ingested and what is queued are the good records that left the *)
(* ring, in order.                                                         *)
TransitInv ==
    poll # "done" /\ drainer # "done" => Carries(handled \o chan, reserved, Left)

CollectorInv ==
    /\ CollectorTypeOK /\ RingInv /\ ReservedInv /\ SendInv
    /\ CountInv /\ DroppedInv /\ TransitInv

----------------------------------------------------------------------------
(* Freeing slots: all the poll loop does to the ring. *)

(* Slots freed in front leave the others as they are. *)
LEMMA FreeKeepsRing ==
    ASSUME CollectorTypeOK, RingInv, ReservedInv, UNCHANGED << mode, reserved, produced >>,
           NEW k \in 1 .. Len(ring) + 1, ring' = From(ring, k)
    PROVE  /\ ring' \in Seq(Slot) /\ Len(ring') = Len(ring) - k + 1
           /\ \A i \in 1 .. Len(ring') : ring'[i] = ring[k + i - 1]
           /\ RingInv' /\ ReservedInv'
           /\ Left' = Left + k - 1 /\ Left \in Nat /\ Left' <= Len(reserved)
           /\ \A i \in 1 .. k - 1 : reserved[Left + i] = ring[i].rec
<1>1. ring \in Seq(Slot) /\ reserved \in Seq(Record)
  BY DEF CollectorTypeOK, Slot, Record
<1>2. /\ ring' \in Seq(Slot) /\ Len(ring') = Len(ring) - k + 1
      /\ \A i \in 1 .. Len(ring') : ring'[i] = ring[k + i - 1]
  BY <1>1, FromIs
<1>3. Left' = Left + k - 1 /\ Left \in Nat /\ Left' <= Len(reserved)
  BY <1>1, <1>2 DEF Left, RingInv
<1>4. RingInv'
  <2>1. Len(ring') <= Len(reserved')
    BY <1>1, <1>2 DEF RingInv
  <2>2. ASSUME NEW i \in 1 .. Len(ring')
        PROVE  /\ k + i - 1 \in 1 .. Len(ring)
               /\ Left + (k + i - 1) = Left' + i
               /\ ring'[i] = ring[k + i - 1]
    BY <1>1, <1>2, <1>3
  <2> QED  BY <2>1, <2>2 DEF RingInv
<1>5. ReservedInv'
  <2>1. ring = << >> => ring' = << >>
    BY <1>1, <1>2
  <2> QED  BY <2>1 DEF ReservedInv, Ascending
<1>6. \A i \in 1 .. k - 1 : reserved[Left + i] = ring[i].rec
  BY <1>1 DEF RingInv
<1> QED  BY <1>2, <1>3, <1>4, <1>5, <1>6

(* A freed slot that held no good record changes nothing in transit. *)
LEMMA FreeKeepsTransit ==
    ASSUME CollectorInv, UNCHANGED << mode, reserved, produced, handled, chan, drainer >>,
           NEW k \in 1 .. Len(ring) + 1, ring' = From(ring, k), poll # "done",
           \A i \in 1 .. k - 1 : ring[i].rec.kind # "good"
    PROVE  TransitInv'
<1>1. /\ Left' = Left + k - 1 /\ Left \in Nat /\ Left' <= Len(reserved)
      /\ \A i \in 1 .. k - 1 : reserved[Left + i] = ring[i].rec
  BY FreeKeepsRing DEF CollectorInv
<1>2. \A i \in 1 .. Left' : i \in 1 .. Left \/ i - Left \in 1 .. k - 1
  BY <1>1
<1>3. \A i \in 1 .. Left' : reserved[i].kind = "good" => i \in 1 .. Left
  <2> SUFFICES ASSUME NEW i \in 1 .. Left', i \notin 1 .. Left
               PROVE  reserved[i].kind # "good"
    OBVIOUS
  <2>1. i - Left \in 1 .. k - 1 /\ Left + (i - Left) = i
    BY <1>1, <1>2
  <2> QED  BY <1>1, <2>1
<1>4. 1 .. Left \subseteq 1 .. Left'
  BY <1>1
<1> QED  BY <1>3, <1>4 DEF TransitInv, Carries, CollectorInv, Ascending

(* A freed slot that held no malformed record does not count. *)
LEMMA FreeKeepsDropped ==
    ASSUME CollectorInv, UNCHANGED << mode, reserved, produced >>,
           NEW k \in 1 .. Len(ring) + 1, ring' = From(ring, k),
           \A i \in 1 .. k - 1 : ring[i].rec.kind # "malformed"
    PROVE  Malformed' = Malformed
<1>1. /\ Left' = Left + k - 1 /\ Left \in Nat /\ Left' <= Len(reserved)
      /\ \A i \in 1 .. k - 1 : reserved[Left + i] = ring[i].rec
  BY FreeKeepsRing DEF CollectorInv
<1>2. \A i \in 1 .. Left' : reserved[i].kind = "malformed" => i \in 1 .. Left
  <2> SUFFICES ASSUME NEW i \in 1 .. Left', i \notin 1 .. Left
               PROVE  reserved[i].kind # "malformed"
    OBVIOUS
  <2>1. i - Left \in 1 .. k - 1 /\ Left + (i - Left) = i
    BY <1>1
  <2> QED  BY <1>1, <2>1
<1>3. 1 .. Left \subseteq 1 .. Left'
  BY <1>1
<1> QED  BY <1>2, <1>3 DEF Malformed

----------------------------------------------------------------------------
(* The steps of the collector, one by one. *)

(* Steps that only move a task forward, or end it. *)
LEMMA MoveKeepsCollector ==
    ASSUME CollectorInv, UNCHANGED << mode, kernelVars, stats, chan, sent, handled >>,
           CollectorTypeOK', poll' # "send",
           poll' # "done" => poll \notin {"send", "done"},
           drainer' # "done" => drainer # "done"
    PROVE  CollectorInv'
<1> USE DEF kernelVars
<1>1. RingInv' /\ ReservedInv' /\ SendInv'
  BY DEF CollectorInv, RingInv, ReservedInv, SendInv, Left, Ascending
<1>2. CountInv'
  BY DEF CollectorInv, CountInv
<1>3. Left' = Left /\ Malformed' = Malformed
  BY DEF Left, Malformed
<1>4. DroppedInv'
  BY <1>3 DEF CollectorInv, DroppedInv
<1>5. TransitInv'
  BY <1>3 DEF CollectorInv, TransitInv, Carries, Ascending
<1> QED  BY <1>1, <1>2, <1>4, <1>5 DEF CollectorInv

(* A probe that got a slot appends to the ring and to the reservations;    *)
(* one that got none changes nothing but the number of executions.         *)
LEMMA ReserveKeeps ==
    ASSUME CollectorInv, NEW p \in Cpus, Reserve(p)
    PROVE  CollectorInv'
<1> USE DEF pollVars, chanVars
<1>0. /\ ring \in Seq(Slot) /\ reserved \in Seq(Record) /\ produced \in Nat
      /\ handled \in Seq(Record) /\ chan \in Seq(Record)
  BY CollectorAssumption DEF CollectorInv, CollectorTypeOK, Slot, Record
<1>1. PICK kind \in Kinds :
         LET rec == [n |-> produced', kind |-> kind]
         IN  IF Len(ring) < RING_SLOTS
             THEN /\ ring' = Append(ring, [rec |-> rec, state |-> "busy"])
                  /\ writing' = [writing EXCEPT ![p] = rec]
                  /\ reserved' = Append(reserved, rec)
             ELSE UNCHANGED << ring, writing, reserved >>
  BY DEF Reserve
<1> DEFINE rec == [n |-> produced', kind |-> kind]
<1>2. /\ mode = "kernel" /\ produced' = produced + 1 /\ produced' \in 1 .. MaxRecords
      /\ UNCHANGED << mode, poll, drained, stats, chan, drainer, sent, handled >>
  BY <1>0, CollectorAssumption DEF Reserve, Attached
<1>3. rec \in Record /\ [rec |-> rec, state |-> "busy"] \in Slot
  BY <1>2 DEF Record, Slot
<1> HIDE DEF rec
<1>4. CASE Len(ring) < RING_SLOTS
  <2>1. /\ ring' = Append(ring, [rec |-> rec, state |-> "busy"])
        /\ writing' = [writing EXCEPT ![p] = rec]
        /\ reserved' = Append(reserved, rec)
    BY <1>1, <1>4 DEF rec
  <2>2. /\ ring' \in Seq(Slot) /\ Len(ring') = Len(ring) + 1
        /\ \A i \in 1 .. Len(ring) : ring'[i] = ring[i]
        /\ ring'[Len(ring) + 1] = [rec |-> rec, state |-> "busy"]
    BY <1>0, <1>3, <2>1
  <2>3. /\ reserved' \in Seq(Record) /\ Len(reserved') = Len(reserved) + 1
        /\ \A i \in 1 .. Len(reserved) : reserved'[i] = reserved[i]
        /\ reserved'[Len(reserved) + 1] = rec
    BY <1>0, <1>3, <2>1
  <2>4. Left' = Left /\ Left \in 0 .. Len(reserved)
    BY <1>0, <2>2, <2>3 DEF Left, CollectorInv, RingInv
  <2>5. CollectorTypeOK'
    <3>1. writing' \in [Cpus -> Record \cup {NoRecord}]
      BY <1>3, <2>1 DEF CollectorInv, CollectorTypeOK, Record
    <3>2. Len(ring') <= RING_SLOTS
      BY <1>0, <1>4, <2>2, CollectorAssumption
    <3> QED  BY <1>2, <2>2, <2>3, <3>1, <3>2
             DEF CollectorInv, CollectorTypeOK, Record, Slot
  <2>6. RingInv'
    <3>1. \A i \in 1 .. Len(ring) :
             /\ i \in 1 .. Len(ring') /\ ring'[i] = ring[i]
             /\ reserved'[Left' + i] = reserved[Left + i]
      BY <1>0, <2>2, <2>3, <2>4 DEF Left
    <3>2. reserved'[Left' + Len(ring')] = rec /\ ring'[Len(ring')].rec = rec
      BY <1>0, <2>2, <2>3 DEF Left
    <3>3. \A i \in 1 .. Len(ring') : i \in 1 .. Len(ring) \/ i = Len(ring')
      BY <1>0, <2>2
    <3>4. ring'[Len(ring')].state = "busy"
      BY <1>0, <2>2
    <3>5. Len(ring') <= Len(reserved')
      BY <1>0, <2>2, <2>3 DEF CollectorInv, RingInv
    <3> QED  BY <3>1, <3>2, <3>3, <3>4, <3>5 DEF CollectorInv, RingInv
  <2>7. ReservedInv'
    <3>1. rec.n = produced + 1
      BY <1>2 DEF rec
    <3>2. \A i \in 1 .. Len(reserved') :
             i \in 1 .. Len(reserved) \/ i = Len(reserved) + 1
      BY <1>0, <2>3
    <3>3. /\ DOMAIN reserved = 1 .. Len(reserved)
          /\ \A i \in 1 .. Len(reserved) : reserved[i].n \in Nat
      BY <1>0, RecordNumbers
    <3>4. \A i \in 1 .. Len(reserved') : reserved'[i].n <= produced'
      BY <1>0, <1>2, <2>3, <3>1, <3>2, <3>3 DEF CollectorInv, ReservedInv
    <3>5. ASSUME NEW i \in 1 .. Len(reserved'), NEW j \in 1 .. Len(reserved'), i < j
          PROVE  reserved'[i].n < reserved'[j].n
      <4>1. i \in 1 .. Len(reserved)
        BY <1>0, <2>3, <3>5
      <4>2. CASE j \in 1 .. Len(reserved)
        BY <2>3, <3>3, <3>5, <4>1, <4>2 DEF CollectorInv, ReservedInv, Ascending
      <4>3. CASE j = Len(reserved) + 1
        BY <1>0, <2>3, <3>1, <3>3, <4>1, <4>3 DEF CollectorInv, ReservedInv
      <4> QED  BY <3>2, <4>2, <4>3
    <3>6. DOMAIN reserved' = 1 .. Len(reserved')
      BY <2>3
    <3> QED  BY <1>2, <3>4, <3>5, <3>6 DEF ReservedInv, Ascending
  <2>8. SendInv' /\ CountInv'
    <3>1. ring # << >> => ring' # << >> /\ ring'[1] = ring[1]
      BY <1>0, <2>2
    <3> QED  BY <1>2, <3>1 DEF CollectorInv, SendInv, CountInv
  <2>9. \A i \in 1 .. Left : reserved'[i] = reserved[i]
    BY <1>0, <2>3, <2>4
  <2>10. DroppedInv'
    <3>1. Malformed' = Malformed
      BY <2>4, <2>9 DEF Malformed
    <3> QED  BY <1>2, <3>1 DEF CollectorInv, DroppedInv
  <2>11. TransitInv'
    BY <1>2, <2>4, <2>9 DEF CollectorInv, TransitInv, Carries, Ascending
  <2> QED  BY <2>5, <2>6, <2>7, <2>8, <2>10, <2>11 DEF CollectorInv
<1>5. CASE ~(Len(ring) < RING_SLOTS)
  <2>1. UNCHANGED << ring, writing, reserved >>
    BY <1>1, <1>5
  <2>2. CollectorTypeOK'
    BY <1>2, <2>1 DEF CollectorInv, CollectorTypeOK
  <2>3. RingInv' /\ SendInv' /\ CountInv' /\ Left' = Left /\ Malformed' = Malformed
    BY <1>2, <2>1 DEF CollectorInv, RingInv, SendInv, CountInv, Left, Malformed
  <2>4. ReservedInv'
    <3>1. \A i \in 1 .. Len(reserved) : reserved[i].n \in Nat
      BY <1>0, RecordNumbers
    <3> QED  BY <1>0, <1>2, <2>1, <3>1 DEF CollectorInv, ReservedInv, Ascending
  <2>5. DroppedInv' /\ TransitInv'
    BY <1>2, <2>1, <2>3 DEF CollectorInv, DroppedInv, TransitInv, Carries, Ascending
  <2> QED  BY <2>2, <2>3, <2>4, <2>5 DEF CollectorInv
<1> QED  BY <1>4, <1>5

(* A writer's verdict changes the state of its own slot only. *)
LEMMA FinishKeeps ==
    ASSUME CollectorInv, NEW p \in Cpus, Finish(p)
    PROVE  CollectorInv'
<1> USE DEF pollVars, chanVars
<1>0. ring \in Seq(Slot) /\ writing[p] \in Record
  BY DEF CollectorInv, CollectorTypeOK, Slot, Record, Finish
<1>1. UNCHANGED << mode, produced, reserved, poll, drained, stats, chan, drainer,
                   sent, handled >>
  BY DEF Finish
<1>2. \A i \in 1 .. Len(ring) : ring[i] \in Slot
  BY <1>0, ElementOfSeq
<1> DEFINE verdict == IF writing[p].kind = "overflow" THEN "discarded" ELSE "ready"
           slot(i) == IF ring[i].rec = writing[p]
                      THEN [ring[i] EXCEPT !.state = verdict] ELSE ring[i]
<1>3. \A i \in 1 .. Len(ring) :
         /\ slot(i) \in Slot /\ slot(i).rec = ring[i].rec
         /\ \/ slot(i).state = ring[i].state
            \/ ring[i].rec = writing[p] /\ slot(i).state = verdict
  BY <1>2 DEF Slot
<1>4. ring' = [i \in 1 .. Len(ring) |-> slot(i)]
  BY <1>0 DEF Finish
<1>5. Len(ring) \in Nat
  BY <1>0
<1> HIDE DEF slot
<1>6. ring' \in Seq(Slot) /\ Len(ring') = Len(ring)
  BY <1>3, <1>4, <1>5, IsASeq
<1>7. \A i \in 1 .. Len(ring) :
         /\ ring'[i].rec = ring[i].rec
         /\ \/ ring'[i].state = ring[i].state
            \/ ring[i].rec = writing[p] /\ ring'[i].state = verdict
  BY <1>3, <1>4
<1>8. Left' = Left /\ Malformed' = Malformed
  BY <1>1, <1>6 DEF Left, Malformed
<1>9. CollectorTypeOK'
  <2>1. writing' \in [Cpus -> Record \cup {NoRecord}]
    BY DEF CollectorInv, CollectorTypeOK, Record, Finish
  <2> QED  BY <1>1, <1>6, <2>1 DEF CollectorInv, CollectorTypeOK, Record, Slot
<1>10. RingInv'
  BY <1>1, <1>6, <1>7, <1>8 DEF CollectorInv, RingInv
<1>11. ring = << >> <=> ring' = << >>
  BY <1>0, <1>6
<1>12. ReservedInv' /\ SendInv'
  <2>1. ring # << >> => 1 \in 1 .. Len(ring)
    BY <1>0
  <2> QED  BY <1>1, <1>7, <1>11, <2>1 DEF CollectorInv, ReservedInv, Ascending, SendInv
<1>13. CountInv' /\ DroppedInv' /\ TransitInv'
  BY <1>1, <1>8 DEF CollectorInv, CountInv, DroppedInv, TransitInv, Carries, Ascending
<1> QED  BY <1>9, <1>10, <1>12, <1>13 DEF CollectorInv

(* decode_record counts a good record and keeps its slot, or counts a      *)
(* malformed one and frees it; discarded slots in front are freed without  *)
(* a count.                                                                *)
LEMMA NextItemKeeps ==
    ASSUME CollectorInv, NextItem
    PROVE  CollectorInv'
<1> USE DEF chanVars
<1>0. /\ ring \in Seq(Slot) /\ reserved \in Seq(Record) /\ mode = "kernel"
      /\ stats \in [ingested : Nat, dropped_malformed : Nat] /\ sent \in Nat
  BY DEF CollectorInv, CollectorTypeOK, Slot, Record, NextItem, SourceMode
<1>1. UNCHANGED << mode, writing, produced, reserved, chan, drainer, sent, handled >>
  BY DEF NextItem
<1>2. PICK k \in 1 .. Len(ring) + 1 :
         /\ Live(ring) = From(ring, k)
         /\ \A i \in 1 .. k - 1 : ring[i].state = "discarded"
  BY <1>0, LiveIs
<1>3. /\ From(ring, k) \in Seq(Slot) /\ Len(From(ring, k)) = Len(ring) - k + 1
      /\ \A i \in 1 .. Len(ring) - k + 1 : From(ring, k)[i] = ring[k + i - 1]
  BY <1>0, FromIs
<1>4. k \in 1 .. Len(ring) /\ Head(From(ring, k)) = ring[k] /\ ring[k].state = "ready"
  <2>1. From(ring, k) # << >> /\ Head(From(ring, k)).state = "ready"
    BY <1>2 DEF NextItem, Readable
  <2>2. k \in 1 .. Len(ring)
    BY <1>0, <1>3, <2>1
  <2>3. Head(From(ring, k)) = From(ring, k)[1]
    BY <1>3, <2>1
  <2>4. From(ring, k)[1] = ring[k]
    BY <1>0, <1>3, <2>2
  <2> QED  BY <2>1, <2>2, <2>3, <2>4
<1>5. \A i \in 1 .. k - 1 : ring[i].rec.kind = "overflow"
  <2>1. \A i \in 1 .. k - 1 : i \in 1 .. Len(ring)
    BY <1>4
  <2> QED  BY <1>2, <2>1 DEF CollectorInv, RingInv
<1>6. ring[k].rec.kind \in Submitted
  <2>1. ring[k].rec \in Record
    <3>1. ring[k] \in Slot
      BY <1>0, <1>4, ElementOfSeq
    <3> QED  BY <3>1 DEF Slot
  <2>2. ring[k].rec.kind # "overflow"
    BY <1>4 DEF CollectorInv, RingInv
  <2> QED  BY <2>1, <2>2 DEF Record, Kinds
<1>7. CASE ring[k].rec.kind = "good"
  <2>1. /\ stats' = [stats EXCEPT !.ingested = @ + 1] /\ ring' = From(ring, k)
        /\ poll' = "send" /\ poll = "next" /\ drained' = FALSE
    BY <1>2, <1>4, <1>7 DEF NextItem
  <2>2. /\ ring' \in Seq(Slot) /\ Len(ring') = Len(ring) - k + 1
        /\ \A i \in 1 .. Len(ring') : ring'[i] = ring[k + i - 1]
        /\ RingInv' /\ ReservedInv'
    BY <1>1, <2>1, FreeKeepsRing DEF CollectorInv
  <2>3. CollectorTypeOK'
    <3>1. Len(ring') <= RING_SLOTS
      BY <1>0, <1>4, <2>2, CollectorAssumption DEF CollectorInv, CollectorTypeOK
    <3>2. stats' \in [ingested : Nat, dropped_malformed : Nat]
      BY <1>0, <2>1
    <3> QED  BY <1>0, <1>1, <2>1, <2>2, <3>1, <3>2
             DEF CollectorInv, CollectorTypeOK, Slot, Record
  <2>4. SendInv'
    <3>1. ring' # << >> /\ ring'[1] = ring[k]
      BY <1>0, <1>4, <2>2
    <3> QED  BY <1>7, <3>1 DEF SendInv
  <2>5. CountInv'
    BY <1>0, <1>1, <2>1 DEF CollectorInv, CountInv
  <2>6. DroppedInv'
    <3>1. Malformed' = Malformed
      BY <1>1, <1>5, <2>1, FreeKeepsDropped
    <3>2. stats'.dropped_malformed = stats.dropped_malformed
      BY <1>0, <2>1
    <3> QED  BY <3>1, <3>2 DEF CollectorInv, DroppedInv
  <2>7. TransitInv'
    BY <1>1, <1>5, <2>1, FreeKeepsTransit
  <2> QED  BY <2>2, <2>3, <2>4, <2>5, <2>6, <2>7 DEF CollectorInv
<1>8. CASE ring[k].rec.kind = "malformed"
  <2>1. /\ stats' = [stats EXCEPT !.dropped_malformed = @ + 1]
        /\ ring' = Tail(From(ring, k)) /\ From(ring, k) # << >>
        /\ poll' = "next" /\ poll = "next" /\ drained' = FALSE
    BY <1>2, <1>4, <1>8 DEF NextItem, Readable
  <2>2. ring' = From(ring, k + 1) /\ k + 1 \in 1 .. Len(ring) + 1
    <3>1. Tail(From(ring, k)) = SubSeq(ring, k + 1, Len(ring))
      BY <1>0, <1>4, HeadTailOfSubSeq DEF From
    <3>2. ring' = From(ring, k + 1)
      BY <2>1, <3>1 DEF From
    <3>3. k + 1 \in 1 .. Len(ring) + 1
      BY <1>4
    <3> QED  BY <3>2, <3>3
  <2>3. /\ ring' \in Seq(Slot) /\ Len(ring') = Len(ring) - (k + 1) + 1
        /\ RingInv' /\ ReservedInv'
        /\ Left' = Left + (k + 1) - 1 /\ Left \in Nat
        /\ \A i \in 1 .. (k + 1) - 1 : reserved[Left + i] = ring[i].rec
    BY <1>1, <2>2, FreeKeepsRing DEF CollectorInv
  <2>4. CollectorTypeOK'
    <3>1. Len(ring') <= RING_SLOTS
      BY <1>0, <1>4, <2>3, CollectorAssumption DEF CollectorInv, CollectorTypeOK
    <3>2. stats' \in [ingested : Nat, dropped_malformed : Nat]
      BY <1>0, <2>1
    <3> QED  BY <1>0, <1>1, <2>1, <2>3, <3>1, <3>2
             DEF CollectorInv, CollectorTypeOK, Slot, Record
  <2>5. SendInv' /\ CountInv'
    BY <1>0, <1>1, <2>1 DEF CollectorInv, CountInv, SendInv
  <2>6. DroppedInv'
    <3>1. reserved[Left'].kind = "malformed" /\ Left' \notin Malformed
      BY <1>0, <1>4, <1>8, <2>3 DEF Malformed
    <3>2. \A i \in 1 .. Left' :
             \/ i \in 1 .. Left \/ i = Left'
             \/ i - Left \in 1 .. k - 1 /\ reserved[i].kind = "overflow"
      <4> SUFFICES ASSUME NEW i \in 1 .. Left', i \notin 1 .. Left, i # Left'
                   PROVE  i - Left \in 1 .. k - 1 /\ reserved[i].kind = "overflow"
        OBVIOUS
      <4>1. i - Left \in 1 .. k - 1 /\ Left + (i - Left) = i
        BY <1>4, <2>3
      <4>2. i - Left \in 1 .. (k + 1) - 1
        BY <1>4, <4>1
      <4> QED  BY <1>5, <2>3, <4>1, <4>2
    <3>3. 1 .. Left \subseteq 1 .. Left' /\ Left' \in 1 .. Left'
      BY <1>4, <2>3
    <3>4. Malformed' = Malformed \cup {Left'}
      BY <1>1, <3>1, <3>2, <3>3 DEF Malformed
    <3>5. IsFiniteSet(Malformed)
      <4>1. IsFiniteSet(1 .. Left)
        BY <2>3, FS_Interval
      <4> QED  BY <4>1, FS_Subset DEF Malformed
    <3>6. Cardinality(Malformed') = Cardinality(Malformed) + 1
      BY <3>1, <3>4, <3>5, FS_AddElement
    <3>7. stats'.dropped_malformed = stats.dropped_malformed + 1
      BY <1>0, <2>1
    <3> QED  BY <3>6, <3>7 DEF CollectorInv, DroppedInv
  <2>7. TransitInv'
    <3>1. \A i \in 1 .. (k + 1) - 1 : i \in 1 .. k - 1 \/ i = k
      BY <1>4
    <3>2. \A i \in 1 .. (k + 1) - 1 : ring[i].rec.kind # "good"
      BY <1>5, <1>8, <3>1
    <3> QED  BY <1>1, <2>1, <2>2, <3>2, FreeKeepsTransit
  <2> QED  BY <2>3, <2>4, <2>5, <2>6, <2>7 DEF CollectorInv
<1> QED  BY <1>6, <1>7, <1>8 DEF Submitted

(* When nothing can be read, only discarded slots are freed. *)
LEMMA NextNoneKeeps ==
    ASSUME CollectorInv, NextNone
    PROVE  CollectorInv'
<1> USE DEF chanVars
<1>0. ring \in Seq(Slot) /\ reserved \in Seq(Record) /\ mode = "kernel"
  BY DEF CollectorInv, CollectorTypeOK, Slot, Record, NextNone, SourceMode
<1>1. /\ UNCHANGED << mode, drained, stats, writing, produced, reserved, chan,
                      drainer, sent, handled >>
      /\ poll = "next" /\ poll' \in {"sleep", "check"}
  BY DEF NextNone
<1>2. PICK k \in 1 .. Len(ring) + 1 :
         /\ Live(ring) = From(ring, k)
         /\ \A i \in 1 .. k - 1 : ring[i].state = "discarded"
  BY <1>0, LiveIs
<1>3. ring' = From(ring, k)
  BY <1>2 DEF NextNone
<1>4. \A i \in 1 .. k - 1 : ring[i].rec.kind = "overflow"
  <2>1. \A i \in 1 .. k - 1 : i \in 1 .. Len(ring)
    BY <1>0
  <2> QED  BY <1>2, <2>1 DEF CollectorInv, RingInv
<1>5. /\ ring' \in Seq(Slot) /\ Len(ring') = Len(ring) - k + 1
      /\ RingInv' /\ ReservedInv'
  BY <1>1, <1>3, FreeKeepsRing DEF CollectorInv
<1>6. CollectorTypeOK'
  <2>1. Len(ring') <= RING_SLOTS
    BY <1>0, <1>5, CollectorAssumption DEF CollectorInv, CollectorTypeOK
  <2> QED  BY <1>0, <1>1, <1>5, <2>1 DEF CollectorInv, CollectorTypeOK, Slot, Record
<1>7. SendInv' /\ CountInv'
  BY <1>0, <1>1 DEF CollectorInv, CountInv, SendInv
<1>8. DroppedInv'
  BY <1>1, <1>3, <1>4, FreeKeepsDropped DEF CollectorInv, DroppedInv
<1>9. TransitInv'
  BY <1>1, <1>3, <1>4, FreeKeepsTransit
<1> QED  BY <1>5, <1>6, <1>7, <1>8, <1>9 DEF CollectorInv

(* A good record enters the channel right behind those before it. *)
LEMMA EnterKeepsTransit ==
    ASSUME CollectorInv, poll # "done", UNCHANGED << drainer, handled >>,
           NEW r \in Record, r.kind = "good", chan' = Append(chan, r),
           Left \in Nat, Left' = Left + 1, Left + 1 \in 1 .. Len(reserved'),
           Ascending(reserved)', reserved' \in Seq(Record),
           reserved'[Left + 1] = r,
           \A i \in 1 .. Left : reserved'[i] = reserved[i]
    PROVE  TransitInv'
<1> DEFINE flow == handled \o chan
           next == handled \o Append(chan, r)
<1>0. handled \in Seq(Record) /\ chan \in Seq(Record)
  BY DEF CollectorInv, CollectorTypeOK, Record
<1>1. /\ flow \in Seq(Record) /\ next \in Seq(Record) /\ Len(next) = Len(flow) + 1
      /\ \A j \in 1 .. Len(flow) : next[j] = flow[j]
      /\ next[Len(flow) + 1] = r
  <2>1. next = Append(flow, r)
    BY <1>0, AppendIsConcat, ConcatAssociative
  <2> QED  BY <1>0, <2>1
<1>2. (handled \o chan)' = next
  OBVIOUS
<1> HIDE DEF next
<1> SUFFICES ASSUME drainer # "done"
             PROVE  Carries(next, reserved', Left')
  BY <1>2 DEF TransitInv
<1>3. /\ Ascending(flow)
      /\ \A j \in 1 .. Len(flow) :
            flow[j].kind = "good" /\ \E i \in 1 .. Left : flow[j] = reserved[i]
      /\ \A i \in 1 .. Left : reserved[i].kind = "good" =>
            \E j \in 1 .. Len(flow) : flow[j] = reserved[i]
  BY DEF CollectorInv, TransitInv, Carries
<1> HIDE DEF flow
<1>4. /\ Len(flow) \in Nat /\ Len(next) \in Nat
      /\ DOMAIN flow = 1 .. Len(flow) /\ DOMAIN next = 1 .. Len(next)
      /\ DOMAIN reserved' = 1 .. Len(reserved')
  BY <1>1
<1>5. \A j \in 1 .. Len(next) : j \in 1 .. Len(flow) \/ j = Len(flow) + 1
  BY <1>1, <1>4
<1>6. /\ \A i \in 1 .. Left' : i \in 1 .. Left \/ i = Left + 1
      /\ \A i \in 1 .. Left : i \in 1 .. Left' /\ i \in 1 .. Len(reserved') /\ i < Left + 1
      /\ Left + 1 \in 1 .. Left'
      /\ Len(flow) + 1 \in 1 .. Len(next)
      /\ \A j \in 1 .. Len(flow) : j \in 1 .. Len(next)
  BY <1>1, <1>4
<1>7. ASSUME NEW i \in 1 .. Len(next), NEW j \in 1 .. Len(next), i < j
      PROVE  next[i].n < next[j].n
  <2>1. i \in 1 .. Len(flow)
    BY <1>1, <1>4, <1>7
  <2>2. CASE j \in 1 .. Len(flow)
    BY <1>1, <1>3, <1>4, <1>7, <2>1, <2>2 DEF Ascending
  <2>3. CASE j = Len(flow) + 1
    <3>1. PICK h \in 1 .. Left : flow[i] = reserved[h]
      BY <1>3, <2>1
    <3>2. reserved'[h].n < reserved'[Left + 1].n
      BY <1>4, <1>6 DEF Ascending
    <3> QED  BY <1>1, <2>1, <2>3, <3>1, <3>2
  <2> QED  BY <1>5, <2>2, <2>3
<1>8. \A j \in 1 .. Len(next) :
        next[j].kind = "good" /\ \E i \in 1 .. Left' : next[j] = reserved'[i]
  <2>1. ASSUME NEW j \in 1 .. Len(flow)
        PROVE  next[j].kind = "good" /\ \E i \in 1 .. Left' : next[j] = reserved'[i]
    <3>1. PICK i \in 1 .. Left : flow[j] = reserved[i]
      BY <1>3
    <3> QED  BY <1>1, <1>3, <1>6, <3>1
  <2>2. next[Len(flow) + 1] = reserved'[Left + 1]
    BY <1>1
  <2> QED  BY <1>1, <1>5, <1>6, <2>1, <2>2
<1>9. \A i \in 1 .. Left' : reserved'[i].kind = "good" =>
        \E j \in 1 .. Len(next) : next[j] = reserved'[i]
  <2>1. ASSUME NEW i \in 1 .. Left, reserved'[i].kind = "good"
        PROVE  \E j \in 1 .. Len(next) : next[j] = reserved'[i]
    <3>1. reserved'[i] = reserved[i]
      BY <1>1
    <3>2. PICK j \in 1 .. Len(flow) : flow[j] = reserved[i]
      BY <1>3, <2>1, <3>1
    <3> QED  BY <1>1, <1>6, <3>1, <3>2
  <2>2. next[Len(flow) + 1] = reserved'[Left + 1]
    BY <1>1
  <2> QED  BY <1>6, <2>1, <2>2
<1>10. Ascending(next)
  BY <1>4, <1>7 DEF Ascending
<1> QED  BY <1>8, <1>9, <1>10 DEF Carries

(* The poll loop's send moves the record at the head of the ring into the  *)
(* channel.                                                                *)
LEMMA SendKeeps ==
    ASSUME CollectorInv, Send
    PROVE  CollectorInv'
<1>0. /\ ring \in Seq(Slot) /\ reserved \in Seq(Record) /\ mode = "kernel"
      /\ ring # << >> /\ chan \in Seq(Record) /\ sent \in Nat
      /\ stats \in [ingested : Nat, dropped_malformed : Nat]
  BY DEF CollectorInv, CollectorTypeOK, Slot, Record, Send, SourceMode, SendInv
<1>1. /\ UNCHANGED << mode, drained, stats, writing, produced, reserved, drainer,
                      handled >>
      /\ poll = "send" /\ poll' = "next" /\ sent' = sent + 1
      /\ Len(chan) < CHANNEL_CAPACITY
  BY DEF Send
<1> DEFINE r == ring[1].rec
<1>2. ring[1] \in Slot
  BY <1>0
<1>3. r \in Record /\ r.kind = "good"
  <2>1. r \in Record
    BY <1>2 DEF Slot
  <2> QED  BY <1>1, <2>1 DEF CollectorInv, SendInv
<1>4. ring' = From(ring, 2) /\ chan' = Append(chan, r)
  BY <1>0, TailIsFrom DEF Send
<1> HIDE DEF r
<1>5. 2 \in 1 .. Len(ring) + 1
  BY <1>0
<1>6. /\ ring' \in Seq(Slot) /\ Len(ring') = Len(ring) - 2 + 1
      /\ RingInv' /\ ReservedInv'
      /\ Left' = Left + 2 - 1 /\ Left \in Nat /\ Left' <= Len(reserved)
      /\ \A i \in 1 .. 2 - 1 : reserved[Left + i] = ring[i].rec
  BY <1>1, <1>4, <1>5, FreeKeepsRing DEF CollectorInv
<1>7. CollectorTypeOK'
  <2>1. Len(ring') <= RING_SLOTS
    BY <1>0, <1>6, CollectorAssumption DEF CollectorInv, CollectorTypeOK
  <2>2. chan' \in Seq(Record) /\ Len(chan') <= CHANNEL_CAPACITY
    BY <1>0, <1>1, <1>3, <1>4, CollectorAssumption
  <2> QED  BY <1>0, <1>1, <1>6, <2>1, <2>2
           DEF CollectorInv, CollectorTypeOK, Slot, Record
<1>8. SendInv' /\ CountInv'
  BY <1>0, <1>1 DEF CollectorInv, CountInv, SendInv
<1>9. DroppedInv'
  <2>1. \A i \in 1 .. 2 - 1 : ring[i].rec.kind # "malformed"
    BY <1>3 DEF r
  <2> QED  BY <1>1, <1>4, <1>5, <2>1, FreeKeepsDropped DEF CollectorInv, DroppedInv
<1>10. TransitInv'
  <2>1. Left' = Left + 1 /\ Left + 1 \in 1 .. Len(reserved')
    BY <1>0, <1>1, <1>6
  <2>2. reserved'[Left + 1] = r
    BY <1>1, <1>6 DEF r
  <2>3. Ascending(reserved)'
    BY <1>6 DEF ReservedInv
  <2> QED  BY <1>0, <1>1, <1>3, <1>4, <1>6, <2>1, <2>2, <2>3, EnterKeepsTransit
<1> QED  BY <1>6, <1>7, <1>8, <1>9, <1>10 DEF CollectorInv

(* A send that fails ends the source task. *)
LEMMA SendFailsKeeps ==
    ASSUME CollectorInv, SendFails
    PROVE  CollectorInv'
<1> USE DEF chanVars
<1>0. /\ ring \in Seq(Slot) /\ reserved \in Seq(Record) /\ mode = "kernel"
      /\ ring # << >> /\ ring[1].rec.kind = "good"
  BY DEF CollectorInv, CollectorTypeOK, Slot, Record, SendFails, SourceMode, SendInv
<1>1. /\ UNCHANGED << mode, drained, stats, writing, produced, reserved, chan,
                      drainer, sent, handled >>
      /\ poll = "send" /\ poll' = "done"
  BY DEF SendFails
<1>2. ring' = From(ring, 2) /\ 2 \in 1 .. Len(ring) + 1
  BY <1>0, TailIsFrom DEF SendFails
<1>3. /\ ring' \in Seq(Slot) /\ Len(ring') = Len(ring) - 2 + 1
      /\ RingInv' /\ ReservedInv'
  BY <1>1, <1>2, FreeKeepsRing DEF CollectorInv
<1>4. CollectorTypeOK'
  <2>1. Len(ring') <= RING_SLOTS
    BY <1>0, <1>3, CollectorAssumption DEF CollectorInv, CollectorTypeOK
  <2> QED  BY <1>0, <1>1, <1>3, <2>1 DEF CollectorInv, CollectorTypeOK, Slot, Record
<1>5. SendInv' /\ CountInv' /\ TransitInv'
  BY <1>0, <1>1 DEF CollectorInv, CountInv, SendInv, TransitInv
<1>6. DroppedInv'
  <2>1. \A i \in 1 .. 2 - 1 : ring[i].rec.kind # "malformed"
    BY <1>0
  <2> QED  BY <1>1, <1>2, <2>1, FreeKeepsDropped DEF CollectorInv, DroppedInv
<1> QED  BY <1>3, <1>4, <1>5, <1>6 DEF CollectorInv

(* The simulator's send puts its next entry straight into the channel. *)
LEMMA SimSendKeeps ==
    ASSUME CollectorInv, SimSend
    PROVE  CollectorInv'
<1> DEFINE rec == [n |-> produced + 1, kind |-> "good"]
<1>0. /\ ring \in Seq(Slot) /\ reserved \in Seq(Record) /\ chan \in Seq(Record)
      /\ mode = "simulated" /\ ring = << >> /\ produced \in Nat /\ sent \in Nat
  BY CollectorAssumption
     DEF CollectorInv, CollectorTypeOK, ReservedInv, Slot, Record, SimSend, SourceMode
<1>1. /\ UNCHANGED << mode, ring, writing, drained, stats, drainer, handled >>
      /\ poll = "script" /\ poll' = "pause" /\ sent' = sent + 1
      /\ Len(chan) < CHANNEL_CAPACITY
      /\ produced' = produced + 1 /\ produced' \in 1 .. MaxRecords
      /\ reserved' = Append(reserved, rec) /\ chan' = Append(chan, rec)
  BY <1>0, CollectorAssumption DEF SimSend
<1>2. rec \in Record /\ rec.kind = "good" /\ rec.n = produced + 1
  BY <1>0, <1>1 DEF Record, Kinds, Submitted
<1> HIDE DEF rec
<1>3. /\ reserved' \in Seq(Record) /\ Len(reserved') = Len(reserved) + 1
      /\ \A i \in 1 .. Len(reserved) : reserved'[i] = reserved[i]
      /\ reserved'[Len(reserved) + 1] = rec
  BY <1>0, <1>1, <1>2
<1>4. Len(ring) = 0 /\ Left = Len(reserved) /\ Left' = Left + 1 /\ Left \in Nat
  BY <1>0, <1>1, <1>3 DEF Left
<1>5. CollectorTypeOK'
  <2>1. chan' \in Seq(Record) /\ Len(chan') <= CHANNEL_CAPACITY
    BY <1>0, <1>1, <1>2, CollectorAssumption
  <2> QED  BY <1>0, <1>1, <1>3, <2>1 DEF CollectorInv, CollectorTypeOK, Slot, Record
<1>6. RingInv' /\ SendInv'
  BY <1>0, <1>1, <1>3, <1>4 DEF RingInv, SendInv
<1>7. \A i \in 1 .. Len(reserved') : i \in 1 .. Len(reserved) \/ i = Len(reserved) + 1
  BY <1>0, <1>3
<1>8. /\ DOMAIN reserved = 1 .. Len(reserved) /\ DOMAIN reserved' = 1 .. Len(reserved')
      /\ \A i \in 1 .. Len(reserved) : reserved[i].n \in Nat
  BY <1>0, <1>3, RecordNumbers
<1>9. Ascending(reserved)'
  <2> SUFFICES ASSUME NEW i \in 1 .. Len(reserved'), NEW j \in 1 .. Len(reserved'),
                      i < j
               PROVE  reserved'[i].n < reserved'[j].n
    BY <1>8 DEF Ascending
  <2>1. i \in 1 .. Len(reserved)
    BY <1>0, <1>3
  <2>2. CASE j \in 1 .. Len(reserved)
    BY <1>3, <1>8, <2>1, <2>2 DEF CollectorInv, ReservedInv, Ascending
  <2>3. CASE j = Len(reserved) + 1
    BY <1>0, <1>2, <1>3, <1>8, <2>1, <2>3 DEF CollectorInv, ReservedInv
  <2> QED  BY <1>7, <2>2, <2>3
<1>10. ReservedInv'
  <2>1. \A i \in 1 .. Len(reserved') : reserved'[i].n <= produced'
    BY <1>0, <1>1, <1>2, <1>3, <1>7, <1>8 DEF CollectorInv, ReservedInv
  <2>2. \A i \in 1 .. Len(reserved') : reserved'[i].kind = "good"
    BY <1>0, <1>2, <1>3, <1>7 DEF CollectorInv, ReservedInv
  <2> QED  BY <1>0, <1>1, <1>9, <2>1, <2>2 DEF ReservedInv
<1>11. CountInv'
  BY <1>0, <1>1 DEF CollectorInv, CountInv
<1>12. DroppedInv'
  <2>1. \A i \in 1 .. Left' : i \in 1 .. Len(reserved')
    BY <1>3, <1>4
  <2>2. Malformed' = {}
    BY <1>0, <1>1, <1>10, <2>1 DEF Malformed, ReservedInv
  <2>3. stats'.dropped_malformed = 0
    BY <1>0, <1>1 DEF CollectorInv, CountInv
  <2> QED  BY <2>2, <2>3, FS_EmptySet DEF DroppedInv
<1>13. TransitInv'
  <2>1. /\ Left + 1 \in 1 .. Len(reserved') /\ reserved'[Left + 1] = rec
        /\ \A i \in 1 .. Left : reserved'[i] = reserved[i]
    BY <1>3, <1>4
  <2> QED  BY <1>1, <1>2, <1>3, <1>4, <1>9, <2>1, EnterKeepsTransit
<1> QED  BY <1>5, <1>6, <1>10, <1>11, <1>12, <1>13 DEF CollectorInv

(* Receiving moves an event from the channel to ingest. *)
LEMMA RecvKeeps ==
    ASSUME CollectorInv, Recv
    PROVE  CollectorInv'
<1> USE DEF kernelVars, pollVars
<1>0. handled \in Seq(Record) /\ chan \in Seq(Record) /\ chan # << >>
  BY DEF CollectorInv, CollectorTypeOK, Record, Recv
<1>1. /\ UNCHANGED << mode, drainer, sent, ring, writing, produced, reserved, poll,
                      drained, stats >>
      /\ handled' = Append(handled, Head(chan)) /\ chan' = Tail(chan)
  BY DEF Recv
<1>2. /\ Head(chan) \in Record /\ Tail(chan) \in Seq(Record)
      /\ Len(Tail(chan)) = Len(chan) - 1 /\ chan = << Head(chan) >> \o Tail(chan)
  BY <1>0
<1>3. handled' \o chan' = handled \o chan
  <2>1. Append(handled, Head(chan)) = handled \o << Head(chan) >>
    BY <1>0, <1>2, AppendIsConcat
  <2> QED  BY <1>0, <1>1, <1>2, <2>1, ConcatAssociative
<1>4. CollectorTypeOK'
  <2>1. handled' \in Seq(Record) /\ chan' \in Seq(Record)
    BY <1>0, <1>1, <1>2
  <2>2. Len(chan') <= CHANNEL_CAPACITY
    BY <1>0, <1>1, <1>2, CollectorAssumption DEF CollectorInv, CollectorTypeOK
  <2> QED  BY <1>1, <2>1, <2>2 DEF CollectorInv, CollectorTypeOK, Record
<1>5. Left' = Left /\ Malformed' = Malformed
  BY <1>1 DEF Left, Malformed
<1>6. RingInv' /\ ReservedInv' /\ SendInv' /\ CountInv'
  BY <1>1, <1>5
     DEF CollectorInv, RingInv, ReservedInv, SendInv, CountInv, Ascending
<1>7. DroppedInv'
  BY <1>1, <1>5 DEF CollectorInv, DroppedInv
<1>8. TransitInv'
  <2>1. TransitInv
    BY DEF CollectorInv
  <2> QED  BY <1>1, <1>3, <1>5, <2>1 DEF TransitInv
<1> QED  BY <1>4, <1>6, <1>7, <1>8 DEF CollectorInv

(* Every step of the collector keeps its invariant. *)
LEMMA CollectorStepKeeps ==
    ASSUME CollectorInv, CollectorNext
    PROVE  CollectorInv'
<1> USE DEF kernelVars, pollVars, chanVars
<1>1. ASSUME NEW p \in Cpus, ProbeStep(p) PROVE CollectorInv'
  BY <1>1, ReserveKeeps, FinishKeeps DEF ProbeStep
<1>2. CASE CheckClosed
  <2>1. CollectorTypeOK'
    BY <1>2 DEF CollectorInv, CollectorTypeOK, CheckClosed, SourceMode
  <2> QED  BY <1>2, <2>1, MoveKeepsCollector DEF CheckClosed
<1>3. CASE NextItem
  BY <1>3, NextItemKeeps
<1>4. CASE NextNone
  BY <1>4, NextNoneKeeps
<1>5. CASE Wake
  <2>1. CollectorTypeOK'
    BY <1>5 DEF CollectorInv, CollectorTypeOK, Wake, SourceMode
  <2> QED  BY <1>5, <2>1, MoveKeepsCollector DEF Wake
<1>6. CASE Send
  BY <1>6, SendKeeps
<1>7. CASE SendFails
  BY <1>7, SendFailsKeeps
<1>8. CASE SimSend
  BY <1>8, SimSendKeeps
<1>9. CASE SimSendFails
  <2>1. CollectorTypeOK'
    BY <1>9 DEF CollectorInv, CollectorTypeOK, SimSendFails, SourceMode
  <2> QED  BY <1>9, <2>1, MoveKeepsCollector DEF SimSendFails
<1>10. CASE SimPause
  <2>1. CollectorTypeOK'
    BY <1>10 DEF CollectorInv, CollectorTypeOK, SimPause, SourceMode
  <2> QED  BY <1>10, <2>1, MoveKeepsCollector DEF SimPause
<1>11. CASE SourcePanics
  <2>1. CollectorTypeOK'
    BY <1>11 DEF CollectorInv, CollectorTypeOK, SourcePanics, SourceMode
  <2> QED  BY <1>11, <2>1, MoveKeepsCollector DEF SourcePanics
<1>12. CASE Recv
  BY <1>12, RecvKeeps
<1>13. CASE RecvNone
  <2>1. CollectorTypeOK'
    BY <1>13 DEF CollectorInv, CollectorTypeOK, RecvNone
  <2>2. poll' # "send" /\ poll' = "done" /\ drainer' = "done"
    BY <1>13 DEF RecvNone
  <2> QED  BY <1>13, <2>1, <2>2, MoveKeepsCollector DEF RecvNone
<1>14. CASE DrainPanics
  <2>1. UNCHANGED << mode, ring, writing, produced, reserved, poll, drained, stats,
                     sent, handled >> /\ chan' = << >> /\ drainer' = "done"
    BY <1>14 DEF DrainPanics
  <2>2. CollectorTypeOK'
    <3>1. << >> \in Seq([n : 1 .. MaxRecords, kind : Kinds]) /\ Len(<< >>) = 0
      OBVIOUS
    <3> QED  BY <2>1, <3>1, CollectorAssumption DEF CollectorInv, CollectorTypeOK
  <2>3. Left' = Left /\ Malformed' = Malformed
    BY <2>1 DEF Left, Malformed
  <2> QED  BY <2>1, <2>2, <2>3
           DEF CollectorInv, RingInv, ReservedInv, SendInv, CountInv, DroppedInv,
               TransitInv, Ascending
<1> QED  BY <1>1, <1>2, <1>3, <1>4, <1>5, <1>6, <1>7, <1>8, <1>9, <1>10, <1>11,
            <1>12, <1>13, <1>14
         DEF CollectorNext, SourceStep, PollStep, SimStep, DrainStep

----------------------------------------------------------------------------
(* The serve command around it. *)

(* Each task is spawned at its place in the startup, and the source is     *)
(* marked up before anyone can mark it down.                               *)
StageInv ==
    /\ main = "start" => poll = "unspawned"
    /\ main \in {"start", "mark", "watch"} => watcher = "unspawned"
    /\ main \in {"start", "mark", "watch", "drain"} => drainer = "unspawned"
    /\ DeadStaysDown

ServeInv == ServeTypeOK /\ CollectorInv /\ StageInv

(* A step of serve that starts no task leaves the collector as it is. *)
LEMMA SameCollector ==
    ASSUME CollectorInv, UNCHANGED collectorVars
    PROVE  CollectorInv'
<1> USE DEF collectorVars, kernelVars, pollVars, chanVars
<1>1. CollectorTypeOK'
  BY DEF CollectorInv, CollectorTypeOK
<1>2. Left' = Left /\ Malformed' = Malformed
  BY DEF Left, Malformed
<1> QED  BY <1>1, <1>2
         DEF CollectorInv, RingInv, ReservedInv, SendInv, CountInv, DroppedInv,
             TransitInv, Ascending

(* The invariant holds when the process starts. *)
LEMMA ServeInitially == Init => ServeInv
<1> SUFFICES ASSUME Init PROVE ServeInv
  OBVIOUS
<1> USE DEF Init, CollectorInit
<1>0. << >> \in Seq(Record) /\ << >> \in Seq(Slot) /\ Len(<< >>) = 0
  OBVIOUS
<1>1. CollectorTypeOK
  BY <1>0, CollectorAssumption DEF CollectorTypeOK, Record, Slot
<1>2. ServeTypeOK
  <2>1. /\ elapsed \in 0 .. SHUTDOWN_DRAIN_TIMEOUT /\ waited \in 0 .. elapsed
        /\ requests \in 0 .. MaxOpen /\ streams \in 0 .. MaxOpen
    BY ServeAssumption
  <2> QED  BY <1>1, <2>1, Zenon DEF ServeTypeOK
<1>3. Left = 0
  BY DEF Left
<1>4. RingInv /\ ReservedInv /\ SendInv /\ CountInv
  BY DEF RingInv, ReservedInv, SendInv, CountInv, Ascending
<1>5. DroppedInv
  <2>1. Malformed = {}
    BY <1>3 DEF Malformed
  <2> QED  BY <2>1, FS_EmptySet DEF DroppedInv
<1>6. TransitInv
  <2>1. handled \o chan = << >>
    BY <1>0, ConcatEmptySeq
  <2> QED  BY <1>3, <2>1 DEF TransitInv, Carries, Ascending
<1> QED  BY <1>1, <1>2, <1>4, <1>5, <1>6
         DEF ServeInv, CollectorInv, StageInv, DeadStaysDown

(* Every step keeps it. *)
LEMMA ServeStepKeeps ==
    ASSUME ServeInv, [Next]_vars
    PROVE  ServeInv'
<1> USE DEF serveVars
<1>0. CollectorTypeOK' => poll' \in {"unspawned", "done", "check", "next", "send",
                                     "sleep", "script", "pause"}
  BY DEF CollectorTypeOK
<1>1. CASE StartSource
  <2>1. CollectorTypeOK'
    BY <1>1 DEF StartSource, kernelVars, chanVars, ServeInv, CollectorInv,
                CollectorTypeOK, SourceMode
  <2>2. /\ poll = "unspawned" /\ main' \in {"mark", "exited"} /\ poll' # "send"
        /\ UNCHANGED << mode, kernelVars, stats, chan, drainer, sent, handled >>
    BY <1>1 DEF StartSource, kernelVars, chanVars, ServeInv, StageInv
  <2>3. CollectorInv'
    BY <2>1, <2>2, MoveKeepsCollector DEF ServeInv
  <2>4. ServeTypeOK' /\ StageInv'
    BY <1>1, <2>1, <2>2 DEF ServeInv, StartSource, ServeTypeOK, StageInv, DeadStaysDown
  <2> QED  BY <2>3, <2>4 DEF ServeInv
<1>2. CASE SpawnDrain
  <2>1. /\ main = "drain" /\ main' = "bind" /\ drainer' = "running"
        /\ UNCHANGED << mode, chan, sent, handled, kernelVars, poll, drained, stats >>
    BY <1>2 DEF SpawnDrain, pollVars
  <2>2. drainer = "unspawned"
    BY <2>1 DEF ServeInv, StageInv
  <2>3. CollectorTypeOK'
    BY <2>1 DEF kernelVars, ServeInv, CollectorInv, CollectorTypeOK
  <2>4. CollectorInv'
    <3>1. Left' = Left /\ Malformed' = Malformed
      BY <2>1 DEF kernelVars, Left, Malformed
    <3> QED  BY <2>1, <2>2, <2>3, <3>1
             DEF kernelVars, ServeInv, CollectorInv, RingInv, ReservedInv, SendInv,
                 CountInv, DroppedInv, TransitInv, Ascending
  <2>5. ServeTypeOK' /\ StageInv'
    BY <1>2, <2>1, <2>3 DEF ServeInv, SpawnDrain, ServeTypeOK, StageInv, DeadStaysDown
  <2> QED  BY <2>4, <2>5 DEF ServeInv
<1>3. CASE UNCHANGED collectorVars
           /\ \/ MarkAlive \/ SpawnWatcher \/ Bind \/ Drained \/ TimeoutFires \/ Exit
              \/ Accept \/ Answer \/ Disconnect \/ Signal \/ Tick \/ Watch
              \/ UNCHANGED serveVars
  <2>1. CollectorInv'
    BY <1>3, SameCollector DEF ServeInv
  <2>2. UNCHANGED << poll, drainer >>
    BY <1>3 DEF collectorVars, pollVars, chanVars
  <2>3. CollectorTypeOK'
    BY <2>1 DEF CollectorInv
  <2>4. StageInv'
    BY <1>3, <2>2
       DEF ServeInv, StageInv, DeadStaysDown, ServeTypeOK, MarkAlive, SpawnWatcher, Bind,
           Drained, TimeoutFires, Exit, Accept, Answer, Disconnect, Signal, Tick, Watch,
           Serving
  <2>5. /\ elapsed' \in 0 .. SHUTDOWN_DRAIN_TIMEOUT /\ waited' \in 0 .. elapsed'
        /\ requests' \in 0 .. MaxOpen /\ streams' \in 0 .. MaxOpen
    BY <1>3, ServeAssumption
       DEF ServeInv, ServeTypeOK, MarkAlive, SpawnWatcher, Bind, Drained, TimeoutFires,
           Exit, Accept, Answer, Disconnect, Signal, Tick, Watch, Serving
  <2>6. /\ main' \in {"start", "mark", "watch", "drain", "bind", "serving",
                      "closing", "exited"}
        /\ source_alive' \in BOOLEAN /\ signalled' \in BOOLEAN
        /\ watcher' \in {"unspawned", "running", "done"}
    BY <1>3
       DEF ServeInv, ServeTypeOK, MarkAlive, SpawnWatcher, Bind, Drained, TimeoutFires,
           Exit, Accept, Answer, Disconnect, Signal, Tick, Watch, Serving
  <2>7. ServeTypeOK'
    BY <2>3, <2>5, <2>6 DEF ServeTypeOK
  <2> QED  BY <2>1, <2>4, <2>7 DEF ServeInv
<1>4. CASE CollectorNext /\ UNCHANGED serveVars
  <2>1. CollectorInv'
    BY <1>4, CollectorStepKeeps DEF ServeInv
  <2>2. CollectorTypeOK'
    BY <2>1 DEF CollectorInv
  <2>3. ServeTypeOK'
    BY <1>4, <2>2 DEF ServeInv, ServeTypeOK
  <2>4. (poll = "unspawned" => poll' = "unspawned")
        /\ (drainer = "unspawned" => drainer' = "unspawned")
    BY <1>4
       DEF CollectorNext, ProbeStep, Reserve, Finish, SourceStep, PollStep, SimStep,
           DrainStep, CheckClosed, NextItem, NextNone, Wake, Send, SendFails, SimSend,
           SimSendFails, SimPause, SourcePanics, Recv, RecvNone, DrainPanics,
           pollVars, chanVars
  <2>5. StageInv'
    BY <1>4, <2>4 DEF ServeInv, StageInv, DeadStaysDown
  <2> QED  BY <2>1, <2>3, <2>5 DEF ServeInv
<1> QED
  BY <1>1, <1>2, <1>3, <1>4
     DEF Next, MainStep, vars, MarkAlive, SpawnWatcher, Bind, Drained, TimeoutFires,
         Exit, Accept, Answer, Disconnect, Signal, Tick, Watch

(* In every state of every behaviour, then, the invariant holds. *)
LEMMA ServeInvariant == Spec => []ServeInv
BY ServeInitially, ServeStepKeeps, PTL DEF Spec

(* Every variable of the collector and of serve keeps its type, the ring   *)
(* and the channel their capacity.                                         *)
THEOREM ServeTypeCorrect == Spec => []ServeTypeOK
<1>1. ServeInv => ServeTypeOK
  BY DEF ServeInv
<1> QED  BY <1>1, ServeInvariant, PTL

(* However early the source dies, nothing marks it up after its watcher    *)
(* marked it down: healthz never reports a dead source as ready.           *)
THEOREM DeadSourceStaysDown == Spec => []DeadStaysDown
<1>1. ServeInv => DeadStaysDown
  BY DEF ServeInv, StageInv
<1> QED  BY <1>1, ServeInvariant, PTL

(* The source's counters account for every record that left the ring. *)
THEOREM StatsAreExact == Spec => []StatsAgree
<1>1. ServeInv => StatsAgree
  <2>1. ASSUME ServeInv PROVE StatsAgree
    <3>1. stats.ingested \in Nat /\ sent \in Nat /\ mode \in {"kernel", "simulated"}
      BY <2>1 DEF ServeInv, CollectorInv, CollectorTypeOK, SourceMode
    <3>2. poll \in {"check", "next", "sleep"} => mode = "kernel"
      BY <2>1, <3>1 DEF ServeInv, CollectorInv, CollectorTypeOK
    <3> QED  BY <2>1, <3>1, <3>2
             DEF ServeInv, CollectorInv, CountInv, DroppedInv, Malformed, Left, StatsAgree
  <2> QED  BY <2>1
<1> QED  BY <1>1, ServeInvariant, PTL

(* While both tasks live, no decodable record that got a slot is lost,     *)
(* duplicated or reordered between the probes and ingest, whatever the     *)
(* capacities and however the tasks interleave.                            *)
THEOREM TransitIsLossless == Spec => []NothingLostInTransit
<1>1. ServeInv => NothingLostInTransit
  <2> SUFFICES ASSUME ServeInv, poll # "done", drainer # "done"
               PROVE  LET transit == handled \o chan \o [i \in DOMAIN ring |-> ring[i].rec]
                          good(recs) == {r \in Range(recs) : r.kind = "good"}
                      IN  /\ Ascending(transit)
                          /\ good(transit) = good(reserved)
                          /\ good(handled \o chan) = Range(handled \o chan)
    BY DEF NothingLostInTransit, Ascending
  <2> DEFINE flow == handled \o chan
             rest == [i \in DOMAIN ring |-> ring[i].rec]
             transit == flow \o rest
  <2>1. /\ handled \in Seq(Record) /\ chan \in Seq(Record) /\ reserved \in Seq(Record)
        /\ ring \in Seq(Slot) /\ Len(ring) \in Nat /\ DOMAIN ring = 1 .. Len(ring)
    BY DEF ServeInv, CollectorInv, CollectorTypeOK, Record, Slot
  <2>2. flow \in Seq(Record) /\ Carries(flow, reserved, Left)
    BY <2>1 DEF ServeInv, CollectorInv, TransitInv
  <2>3. rest \in Seq(Record) /\ Len(rest) = Len(ring)
    <3>1. \A i \in 1 .. Len(ring) : ring[i] \in Slot
      BY <2>1, ElementOfSeq
    <3>2. \A i \in 1 .. Len(ring) : ring[i].rec \in Record
      BY <3>1 DEF Slot
    <3> QED  BY <2>1, <3>2, IsASeq
  <2>4. \A i \in 1 .. Len(ring) : rest[i] = reserved[Left + i]
    BY <2>1 DEF ServeInv, CollectorInv, RingInv
  <2>5. /\ Ascending(reserved) /\ Len(reserved) = Left + Len(ring) /\ Left \in Nat
        /\ DOMAIN reserved = 1 .. Len(reserved)
    BY <2>1 DEF ServeInv, CollectorInv, ReservedInv, RingInv, Left
  <2> HIDE DEF flow, rest
  <2>6. /\ transit \in Seq(Record) /\ Len(transit) = Len(flow) + Len(rest)
        /\ DOMAIN transit = 1 .. Len(flow) + Len(rest)
        /\ DOMAIN flow = 1 .. Len(flow) /\ Len(flow) \in Nat
        /\ \A i \in 1 .. Len(flow) : transit[i] = flow[i]
        /\ \A i \in 1 .. Len(rest) : transit[Len(flow) + i] = rest[i]
    BY <2>2, <2>3
  <2> HIDE DEF transit
  <2>7. \A j \in DOMAIN transit :
           \/ j \in 1 .. Len(flow) /\ transit[j] = flow[j]
           \/ /\ j - Len(flow) \in 1 .. Len(ring)
              /\ Left + (j - Len(flow)) \in 1 .. Len(reserved)
              /\ transit[j] = reserved[Left + (j - Len(flow))]
    <3> SUFFICES ASSUME NEW j \in DOMAIN transit, j \notin 1 .. Len(flow)
                 PROVE  /\ j - Len(flow) \in 1 .. Len(ring)
                        /\ Left + (j - Len(flow)) \in 1 .. Len(reserved)
                        /\ transit[j] = reserved[Left + (j - Len(flow))]
      BY <2>6
    <3>1. j - Len(flow) \in 1 .. Len(ring) /\ Len(flow) + (j - Len(flow)) = j
      BY <2>1, <2>3, <2>6
    <3>2. transit[j] = rest[j - Len(flow)]
      BY <2>3, <2>6, <3>1
    <3> QED  BY <2>1, <2>4, <2>5, <3>1, <3>2
  <2>8. Ascending(transit)
    <3> SUFFICES ASSUME NEW i \in DOMAIN transit, NEW j \in DOMAIN transit, i < j
                 PROVE  transit[i].n < transit[j].n
      BY DEF Ascending
    <3>1. CASE j \in 1 .. Len(flow)
      <4>1. i \in 1 .. Len(flow)
        BY <2>6, <3>1
      <4> QED  BY <2>2, <2>6, <3>1, <4>1 DEF Carries, Ascending
    <3>2. CASE i \in 1 .. Len(flow) /\ j \notin 1 .. Len(flow)
      <4>1. PICK h \in 1 .. Left : flow[i] = reserved[h]
        BY <2>2, <3>2 DEF Carries
      <4>2. /\ h \in DOMAIN reserved /\ Left + (j - Len(flow)) \in DOMAIN reserved
            /\ h < Left + (j - Len(flow))
        BY <2>1, <2>5, <2>6, <2>7, <3>2
      <4>3. transit[j] = reserved[Left + (j - Len(flow))]
        BY <2>7, <3>2
      <4> QED  BY <2>5, <2>6, <3>2, <4>1, <4>2, <4>3 DEF Ascending
    <3>3. CASE i \notin 1 .. Len(flow) /\ j \notin 1 .. Len(flow)
      <4>1. /\ transit[i] = reserved[Left + (i - Len(flow))]
            /\ transit[j] = reserved[Left + (j - Len(flow))]
            /\ Left + (i - Len(flow)) \in DOMAIN reserved
            /\ Left + (j - Len(flow)) \in DOMAIN reserved
        BY <2>5, <2>7, <3>3
      <4>2. Left + (i - Len(flow)) < Left + (j - Len(flow))
        BY <2>5, <2>6
      <4> QED  BY <2>5, <4>1, <4>2 DEF Ascending
    <3> QED  BY <3>1, <3>2, <3>3
  <2>9. \A j \in DOMAIN transit : \E i \in DOMAIN reserved : transit[j] = reserved[i]
    <3> SUFFICES ASSUME NEW j \in DOMAIN transit
                 PROVE  \E i \in DOMAIN reserved : transit[j] = reserved[i]
      OBVIOUS
    <3>1. CASE j \in 1 .. Len(flow)
      <4>1. PICK h \in 1 .. Left : flow[j] = reserved[h]
        BY <2>2, <3>1 DEF Carries
      <4>2. h \in DOMAIN reserved
        BY <2>1, <2>5
      <4> QED  BY <2>6, <3>1, <4>1, <4>2
    <3>2. CASE j \notin 1 .. Len(flow)
      BY <2>5, <2>7, <3>2
    <3> QED  BY <3>1, <3>2
  <2>10. ASSUME NEW i \in DOMAIN reserved, reserved[i].kind = "good"
         PROVE  \E j \in DOMAIN transit : transit[j] = reserved[i]
    <3>1. CASE i \in 1 .. Left
      <4>1. PICK j \in 1 .. Len(flow) : flow[j] = reserved[i]
        BY <2>2, <2>10, <3>1 DEF Carries
      <4>2. j \in DOMAIN transit
        BY <2>3, <2>6, <2>1
      <4> QED  BY <2>6, <4>1, <4>2
    <3>2. CASE i \notin 1 .. Left
      <4>1. i - Left \in 1 .. Len(ring) /\ Left + (i - Left) = i
        BY <2>1, <2>5, <3>2
      <4>2. transit[Len(flow) + (i - Left)] = reserved[i]
        BY <2>3, <2>4, <2>6, <4>1
      <4>3. Len(flow) + (i - Left) \in DOMAIN transit
        BY <2>1, <2>3, <2>6, <4>1
      <4> QED  BY <4>2, <4>3
    <3> QED  BY <3>1, <3>2
  <2>11. {r \in Range(transit) : r.kind = "good"} = {r \in Range(reserved) : r.kind = "good"}
    BY <2>9, <2>10 DEF Range
  <2>12. {r \in Range(flow) : r.kind = "good"} = Range(flow)
    BY <2>2, <2>6 DEF Range, Carries
  <2> QED  BY <2>8, <2>11, <2>12 DEF transit, rest, flow
<1> QED  BY <1>1, ServeInvariant, PTL
=============================================================================
