--------------------------- MODULE MonotonicClock ---------------------------
(***************************************************************************)
(* event_now_ns and the compare-exchange loop of monotonic_now_ns, run by  *)
(* several threads at once on one AtomicU64.  compare_exchange_weak may    *)
(* fail even when the value is the expected one.                           *)
(***************************************************************************)
EXTENDS EventClock, Sequences

CONSTANTS
    Threads,
    WallReadings,   \* values SystemTime::now can return; it may go back
    MaxCalls        \* bound: timestamps handed out in a behaviour

ASSUME ThreadsAssumption == WallReadings \subseteq U64 /\ MaxCalls \in Nat

VARIABLES
    last_emitted,   \* static LAST_EMITTED_NS
    pc,             \* "idle", "load" or "cas"
    now,            \* each thread's wall clock reading
    last,           \* each thread's idea of last_emitted
    emitted         \* history: [ts, wall] of every call that returned

vars == << last_emitted, pc, now, last, emitted >>

Init ==
    /\ last_emitted = 0
    /\ pc = [t \in Threads |-> "idle"]
    /\ now = [t \in Threads |-> 0]
    /\ last = [t \in Threads |-> 0]
    /\ emitted = << >>

ReadWall(t) ==
    /\ pc[t] = "idle"
    /\ Len(emitted) < MaxCalls
    /\ \E reading \in WallReadings : now' = [now EXCEPT ![t] = reading]
    /\ pc' = [pc EXCEPT ![t] = "load"]
    /\ UNCHANGED << last_emitted, last, emitted >>

Load(t) ==
    /\ pc[t] = "load"
    /\ last' = [last EXCEPT ![t] = last_emitted]
    /\ pc' = [pc EXCEPT ![t] = "cas"]
    /\ UNCHANGED << last_emitted, now, emitted >>

(* Mutant: a plain store in place of the compare-exchange. *)
StoreAnyway(t) ==
    LET candidate == Clamped(now[t], last[t])
    IN  /\ pc[t] = "cas"
        /\ last_emitted' = candidate
        /\ emitted' = Append(emitted, [ts |-> candidate, wall |-> now[t]])
        /\ pc' = [pc EXCEPT ![t] = "idle"]
        /\ UNCHANGED << now, last >>

Exchange(t) ==
    LET candidate == Clamped(now[t], last[t])
    IN  /\ pc[t] = "cas"
        /\ last_emitted = last[t]
        /\ last_emitted' = candidate
        /\ emitted' = Append(emitted, [ts |-> candidate, wall |-> now[t]])
        /\ pc' = [pc EXCEPT ![t] = "idle"]
        /\ UNCHANGED << now, last >>

(* Mutant: a failed exchange tries the same expected value again. *)
RetryBlindly(t) == pc[t] = "cas" /\ UNCHANGED vars

(* Err(actual): another thread was faster, or the failure is spurious. *)
Retry(t) ==
    /\ pc[t] = "cas"
    /\ last' = [last EXCEPT ![t] = last_emitted]
    /\ UNCHANGED << last_emitted, pc, now, emitted >>

Next == \E t \in Threads : ReadWall(t) \/ Load(t) \/ Exchange(t) \/ Retry(t)

(* A running thread takes its next step, and the hardware does not fail an *)
(* exchange that could succeed for ever.                                   *)
Fairness == \A t \in Threads :
    /\ WF_vars(Load(t))
    /\ WF_vars(Retry(t))
    /\ SF_vars(Exchange(t))

Spec == Init /\ [][Next]_vars /\ Fairness

----------------------------------------------------------------------------
(* Properties *)

(* Every variable has its type: no timestamp leaves the range of the       *)
(* AtomicU64, also when the addition in monotonic_now_ns saturates.        *)
TypeOK ==
    /\ last_emitted \in U64
    /\ pc \in [Threads -> {"idle", "load", "cas"}]
    /\ now \in [Threads -> U64]
    /\ last \in [Threads -> U64]
    /\ emitted \in Seq([ts : U64, wall : U64])

(* No two calls get the same timestamp and none gets an earlier one than a *)
(* call that returned before it, until the counter saturates; and none is  *)
(* behind the wall clock it read.                                          *)
TimestampsIncrease ==
    /\ \A i \in DOMAIN emitted : emitted[i].ts >= emitted[i].wall
    /\ \A i, j \in DOMAIN emitted : i < j =>
          \/ emitted[i].ts < emitted[j].ts
          \/ emitted[i].ts = U64_MAX /\ emitted[j].ts = U64_MAX

(* The loop implements one atomic clamp of some wall clock reading, which  *)
(* is how the ingest pipeline's model takes a timestamp.                   *)
AtomicClamp ==
    [][\E reading \in WallReadings :
          last_emitted' = Clamped(reading, last_emitted)]_last_emitted

(* Every call returns, however the threads race. *)
CallsReturn == \A t \in Threads : pc[t] = "load" ~> pc[t] = "idle"
=============================================================================
