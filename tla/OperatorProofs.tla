-------------------------- MODULE OperatorProofs ----------------------------
(***************************************************************************)
(* What the operators shared by several components return: one attempt on  *)
(* the token bucket, for every rate and clock resolution, and the clamp of *)
(* a timestamp, for every counter width.                                   *)
(***************************************************************************)
EXTENDS RateBucket, EventClock, TLAPS

(* Products the arguments below compare. *)
LEMMA MulMono ==
    ASSUME NEW a \in Nat, NEW b \in Nat, NEW c \in Nat, a <= b
    PROVE  c * a <= c * b /\ a * c <= b * c
<1>1. PICK d \in Nat : b = a + d  BY b - a \in Nat
<1>2. c * d \in Nat  OBVIOUS
<1>3. c * b = c * a + c * d  BY <1>1
<1>4. b * c = a * c + c * d  BY <1>1
<1> QED  BY <1>2, <1>3, <1>4

(* Nat is closed under products. *)
LEMMA MulNat == ASSUME NEW a \in Nat, NEW b \in Nat PROVE a * b \in Nat
OBVIOUS

(* Even a rate of zero has a capacity of one token. *)
LEMMA CapacityPositive ==
    ASSUME NEW r \in Nat PROVE Capacity(r) \in Nat /\ 1 <= Capacity(r)
BY DEF Capacity

(* What a refill leaves: a natural number of parts, at most the capacity,  *)
(* and at most the old balance plus what the elapsed time is worth.        *)
LEMMA RefillRange ==
    ASSUME NEW b \in Bucket, NEW r \in Nat, NEW now \in Nat
    PROVE  /\ Refilled(b, r, now) \in Nat
           /\ Refilled(b, r, now) <= Capacity(r) * TICKS_PER_SEC
           /\ b.last # NoInstant =>
                /\ Refilled(b, r, now)
                     <= b.tokens + Elapsed(now, b.last) * Capacity(r)
                /\ \/ Refilled(b, r, now) = Capacity(r) * TICKS_PER_SEC
                   \/ Refilled(b, r, now)
                        = b.tokens + Elapsed(now, b.last) * Capacity(r)
           /\ b.last = NoInstant =>
                Refilled(b, r, now) = Capacity(r) * TICKS_PER_SEC
<1>1. Capacity(r) \in Nat /\ TICKS_PER_SEC \in Nat
  BY CapacityPositive, TicksAssumption
<1>2. Capacity(r) * TICKS_PER_SEC \in Nat  BY <1>1, MulNat
<1>3. b.tokens \in Nat /\ b.last \in Nat \cup {-1}  BY DEF Bucket, NoInstant
<1>4. CASE b.last = NoInstant
  BY <1>2, <1>4 DEF Refilled
<1>5. CASE b.last # NoInstant
  <2>1. Elapsed(now, b.last) \in Nat  BY <1>3, <1>5 DEF Elapsed, NoInstant
  <2>2. Elapsed(now, b.last) * Capacity(r) \in Nat  BY <2>1, <1>1, MulNat
  <2> QED  BY <1>2, <1>3, <1>5, <2>2 DEF Refilled, AtMost
<1> QED  BY <1>4, <1>5

(* The bucket, after an attempt that started from a well-typed bucket. *)
LEMMA TryAcquireType ==
    ASSUME NEW b \in Bucket, NEW r \in Nat, NEW now \in Nat
    PROVE  /\ try_acquire(b, r, now) \in Bucket
           /\ try_acquire(b, r, now).last = now
           /\ try_acquire(b, r, now).tokens =
                IF Grants(b, r, now) THEN Refilled(b, r, now) - TICKS_PER_SEC
                                     ELSE Refilled(b, r, now)
<1>1. Refilled(b, r, now) \in Nat  BY RefillRange
<1> QED  BY <1>1, TicksAssumption DEF try_acquire, Grants, Bucket

----------------------------------------------------------------------------
(* The clamp stays in range, is not behind the reading, and moves forward  *)
(* until it reaches the top.                                               *)
LEMMA ClampForward ==
    ASSUME NEW w \in U64, NEW l \in U64
    PROVE  /\ Clamped(w, l) \in U64
           /\ Clamped(w, l) >= w
           /\ \/ l < Clamped(w, l)
              \/ l = U64_MAX /\ Clamped(w, l) = U64_MAX
BY ClockAssumption DEF Clamped, saturating_add, U64

(* The stored text of a timestamp is a whole number of seconds, and does   *)
(* not put a later timestamp before an earlier one.                        *)
LEMMA TextFollowsTime ==
    ASSUME NEW a \in U64, NEW b \in U64, a <= b
    PROVE  /\ ts_ns_to_rfc3339(a) \in Nat
           /\ ts_ns_to_rfc3339(a) <= ts_ns_to_rfc3339(b)
BY ClockAssumption DEF ts_ns_to_rfc3339, U64
=============================================================================
