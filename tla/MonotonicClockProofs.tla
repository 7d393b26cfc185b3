------------------------ MODULE MonotonicClockProofs ------------------------
(***************************************************************************)
(* The compare-exchange loop of the violation timestamps, for any number   *)
(* of threads, any wall clock and any counter width.                       *)
(***************************************************************************)
EXTENDS MonotonicClock, OperatorProofs, TLAPS

Entry == [ts : U64, wall : U64]

(* What appending one entry to the history does, index by index. *)
LEMMA AppendEntry ==
    ASSUME NEW s \in Seq(Entry), NEW e \in Entry
    PROVE  /\ Append(s, e) \in Seq(Entry)
           /\ Len(Append(s, e)) = Len(s) + 1
           /\ DOMAIN Append(s, e) = 1 .. Len(s) + 1
           /\ DOMAIN s = 1 .. Len(s)
           /\ Len(s) \in Nat
           /\ \A i \in 1 .. Len(s) : Append(s, e)[i] = s[i]
           /\ Append(s, e)[Len(s) + 1] = e
OBVIOUS

----------------------------------------------------------------------------
(* Every variable keeps its type: a timestamp never leaves the counter.    *)
THEOREM ClockTypeCorrect == Spec => []TypeOK
<1>1. Init => TypeOK
  BY ClockAssumption DEF Init, TypeOK, U64
<1>2. TypeOK /\ [Next]_vars => TypeOK'
  <2> SUFFICES ASSUME TypeOK, [Next]_vars PROVE TypeOK'  OBVIOUS
  <2>1. ASSUME NEW t \in Threads, ReadWall(t) PROVE TypeOK'
    BY <2>1, ThreadsAssumption DEF TypeOK, ReadWall
  <2>2. ASSUME NEW t \in Threads, Load(t) PROVE TypeOK'
    BY <2>2 DEF TypeOK, Load
  <2>3. ASSUME NEW t \in Threads, Exchange(t) PROVE TypeOK'
    <3> DEFINE e == [ts |-> Clamped(now[t], last[t]), wall |-> now[t]]
    <3>1. Clamped(now[t], last[t]) \in U64 /\ now[t] \in U64
      BY ClampForward DEF TypeOK
    <3>2. Append(emitted, e) \in Seq(Entry)
      BY <3>1, AppendEntry DEF TypeOK, Entry
    <3> QED  BY <2>3, <3>1, <3>2 DEF TypeOK, Exchange, Entry
  <2>4. ASSUME NEW t \in Threads, Retry(t) PROVE TypeOK'
    BY <2>4 DEF TypeOK, Retry
  <2>5. CASE UNCHANGED vars  BY <2>5 DEF TypeOK, vars
  <2> QED  BY <2>1, <2>2, <2>3, <2>4, <2>5 DEF Next
<1> QED  BY <1>1, <1>2, PTL DEF Spec

----------------------------------------------------------------------------
(* The counter is at least every timestamp handed out. *)
ClockInv ==
    /\ TypeOK
    /\ TimestampsIncrease
    /\ \A i \in DOMAIN emitted : emitted[i].ts <= last_emitted

(* The timestamps returned by event_now_ns never repeat or go back while   *)
(* the counter is below its maximum, and are never behind the wall clock.  *)
THEOREM ClockIncreases == Spec => []TimestampsIncrease
<1>1. Init => ClockInv
  BY ClockAssumption DEF Init, ClockInv, TypeOK, TimestampsIncrease, U64
<1>2. ClockInv /\ TypeOK' /\ [Next]_vars => ClockInv'
  <2> SUFFICES ASSUME ClockInv, TypeOK', [Next]_vars PROVE ClockInv'  OBVIOUS
  <2>1. ASSUME NEW t \in Threads, Exchange(t) PROVE ClockInv'
    <3> DEFINE w == now[t]
               l == last_emitted
               e == [ts |-> Clamped(w, l), wall |-> w]
               n == Len(emitted)
    <3>1. /\ emitted' = Append(emitted, e) /\ last_emitted' = Clamped(w, l)
          /\ w \in U64 /\ l \in U64
      BY <2>1 DEF Exchange, ClockInv, TypeOK
    <3>2. /\ Clamped(w, l) \in U64 /\ Clamped(w, l) >= w
          /\ \/ l < Clamped(w, l)
             \/ l = U64_MAX /\ Clamped(w, l) = U64_MAX
      BY <3>1, ClampForward
    <3>3. /\ DOMAIN emitted' = 1 .. n + 1 /\ DOMAIN emitted = 1 .. n /\ n \in Nat
          /\ \A i \in 1 .. n : emitted'[i] = emitted[i]
          /\ emitted'[n + 1] = e
      BY <3>1, <3>2, AppendEntry DEF ClockInv, TypeOK, Entry
    <3>4. \A i \in 1 .. n : emitted[i].ts \in U64 /\ emitted[i].ts <= l
      <4>1. emitted \in Seq(Entry)  BY DEF ClockInv, TypeOK, Entry
      <4>2. \A i \in 1 .. n : emitted[i] \in Entry  BY <4>1, <3>3
      <4> QED  BY <4>2, <3>3 DEF ClockInv, Entry
    <3>5. e.ts = Clamped(w, l) /\ e.wall = w  OBVIOUS
    <3>6. \A i \in DOMAIN emitted' : emitted'[i].ts <= last_emitted'
      BY <3>1, <3>2, <3>3, <3>4, <3>5 DEF U64
    <3>7. \A i \in DOMAIN emitted' : emitted'[i].ts >= emitted'[i].wall
      BY <3>1, <3>2, <3>3, <3>5 DEF ClockInv, TimestampsIncrease
    <3>8. ASSUME NEW i \in DOMAIN emitted', NEW j \in DOMAIN emitted', i < j
          PROVE  \/ emitted'[i].ts < emitted'[j].ts
                 \/ emitted'[i].ts = U64_MAX /\ emitted'[j].ts = U64_MAX
      <4>1. CASE j \in 1 .. n
        BY <3>3, <3>8, <4>1 DEF ClockInv, TimestampsIncrease
      <4>2. CASE j = n + 1
        <5>1. i \in 1 .. n  BY <3>3, <3>8, <4>2
        <5>2. emitted[i].ts <= l /\ emitted[i].ts \in U64  BY <5>1, <3>4
        <5> QED  BY <3>1, <3>2, <3>3, <3>4, <3>5, <4>2, <5>1, <5>2, ClockAssumption
                 DEF U64, ClockInv, TimestampsIncrease
      <4> QED  BY <3>3, <4>1, <4>2
    <3> QED  BY <3>6, <3>7, <3>8 DEF ClockInv, TimestampsIncrease
  <2>2. CASE UNCHANGED << last_emitted, emitted >>
    BY <2>2 DEF ClockInv, TimestampsIncrease
  <2> QED
    BY <2>1, <2>2 DEF Next, ReadWall, Load, Retry, vars
<1>3. ClockInv => TimestampsIncrease  BY DEF ClockInv
<1> QED  BY <1>1, <1>2, <1>3, ClockTypeCorrect, PTL DEF Spec

----------------------------------------------------------------------------
(* A thread that is in the loop read the wall clock. *)
ReadingInv == TypeOK /\ \A t \in Threads : pc[t] # "idle" => now[t] \in WallReadings

(* The loop of monotonic_now_ns is an atomic clamp of some thread's wall   *)
(* clock reading: the one step the ingest model takes for a timestamp.     *)
THEOREM LoopIsAtomic == Spec => AtomicClamp
<1>1. Init => ReadingInv
  BY ClockAssumption DEF Init, ReadingInv, TypeOK, U64
<1>2. ReadingInv /\ TypeOK' /\ [Next]_vars => ReadingInv'
  BY DEF ReadingInv, TypeOK, Next, ReadWall, Load, Exchange, Retry, vars
<1>3. ReadingInv /\ [Next]_vars =>
        [\E reading \in WallReadings :
            last_emitted' = Clamped(reading, last_emitted)]_last_emitted
  <2> SUFFICES ASSUME ReadingInv, NEW t \in Threads, Exchange(t)
               PROVE  \E reading \in WallReadings :
                          last_emitted' = Clamped(reading, last_emitted)
    BY DEF Next, ReadWall, Load, Retry, vars
  <2>1. now[t] \in WallReadings  BY DEF ReadingInv, Exchange
  <2> QED  BY <2>1 DEF Exchange
<1> QED  BY <1>1, <1>2, <1>3, ClockTypeCorrect, PTL DEF Spec, AtomicClamp
=============================================================================
