----------------------------- MODULE RateLimiter ----------------------------
(***************************************************************************)
(* The token bucket as the ingest callers share it: each reads the clock,  *)
(* then its rules, and only then locks the bucket (ingest, ingest_at).     *)
(* One window of time, from WindowStart on, is watched; WindowStart is     *)
(* arbitrary, so what holds of it holds of every window.                   *)
(***************************************************************************)
EXTENDS RateBucket

CONSTANTS
    Callers,
    Rates,         \* max_events_per_sec of the rule sets a caller may read
    Peak,          \* the largest capacity among them
    WindowStart,
    MaxTick        \* bound: the last instant of the clock

ASSUME LimiterAssumption ==
    /\ Rates \subseteq Nat
    /\ Peak \in Nat /\ \A r \in Rates : Capacity(r) <= Peak
    /\ WindowStart \in Nat /\ MaxTick \in Nat

VARIABLES
    rate_bucket,
    clock,
    reading,     \* the instant each caller read and has not used yet
    inWindow,    \* history: grants to readings in the window
    lastGrant,   \* history: the reading granted last
    inOrder      \* history: no reading reached the bucket after a later one

vars == << rate_bucket, clock, reading, inWindow, lastGrant, inOrder >>

Init ==
    /\ rate_bucket = new
    /\ clock = 0
    /\ reading = [c \in Callers |-> NoInstant]
    /\ inWindow = 0
    /\ lastGrant = NoInstant
    /\ inOrder = TRUE

ReadClock(c) ==
    /\ reading[c] = NoInstant
    /\ reading' = [reading EXCEPT ![c] = clock]
    /\ UNCHANGED << rate_bucket, clock, inWindow, lastGrant, inOrder >>

Acquire(c, rate) ==
    LET now == reading[c]
        ok  == Grants(rate_bucket, rate, now)
    IN  /\ now # NoInstant
        /\ rate_bucket' = try_acquire(rate_bucket, rate, now)
        /\ reading' = [reading EXCEPT ![c] = NoInstant]
        /\ inWindow' = inWindow + (IF ok /\ now >= WindowStart THEN 1 ELSE 0)
        /\ lastGrant' = IF ok THEN now ELSE lastGrant
        /\ inOrder' = (inOrder /\ now >= rate_bucket.last)
        /\ UNCHANGED clock

Tick ==
    /\ clock < MaxTick
    /\ clock' = clock + 1
    /\ UNCHANGED << rate_bucket, reading, inWindow, lastGrant, inOrder >>

Next ==
    \/ \E c \in Callers : ReadClock(c) \/ \E r \in Rates : Acquire(c, r)
    \/ Tick

Spec == Init /\ [][Next]_vars

----------------------------------------------------------------------------
(* Properties *)

(* Every variable has its type; above all, the balance of RateBucket never *)
(* goes negative, although readings older than `last' reach try_acquire.   *)
TypeOK ==
    /\ rate_bucket \in Bucket
    /\ clock \in Nat
    /\ reading \in [Callers -> Nat \cup {NoInstant}]
    /\ inWindow \in Nat
    /\ lastGrant \in Nat \cup {NoInstant}
    /\ inOrder \in BOOLEAN

(* From WindowStart until now, the bucket let through at most one second's *)
(* worth of burst plus the rate times the length of the window.            *)
BurstBounded ==
    IF clock < WindowStart
    THEN inWindow = 0
    ELSE inWindow * TICKS_PER_SEC <= Peak * (TICKS_PER_SEC + (clock - WindowStart))

(* The bound holds as long as the readings reach the bucket in the order   *)
(* they were taken, as they do when one task ingests everything.           *)
BurstBoundedInOrder == inOrder => BurstBounded

(* An event is shed only if another was let through less than a second     *)
(* before: no rate, not even zero, starves the pipeline, whatever order    *)
(* the readings arrive in.                                                 *)
ShedOnlyAfterGrant ==
    [][\A c \in Callers, r \in Rates :
          Acquire(c, r) /\ ~Grants(rate_bucket, r, reading[c]) =>
              /\ lastGrant # NoInstant
              /\ reading[c] < lastGrant + TICKS_PER_SEC]_vars
=============================================================================
