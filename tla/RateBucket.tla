----------------------------- MODULE RateBucket -----------------------------
(***************************************************************************)
(* The ingest token bucket (asg-api RateBucket).                           *)
(*                                                                         *)
(* Instants are whole clock ticks, TICKS_PER_SEC of them to the second.    *)
(* The code keeps fractional tokens in an f64; here a token is cut into    *)
(* TICKS_PER_SEC parts, so that a refill of `elapsed * capacity' tokens is *)
(* exactly elapsed ticks * capacity parts.  Rounding is left out.          *)
(***************************************************************************)
EXTENDS Integers

CONSTANT TICKS_PER_SEC

ASSUME TicksAssumption == TICKS_PER_SEC \in Nat \ {0}

NoInstant == -1                                   \* Option<Instant>::None

Bucket == [tokens : Nat, last : Nat \cup {NoInstant}]

new == [tokens |-> 0, last |-> NoInstant]

(* Mutant: a rate of zero is taken as it is. *)
RawCapacity(rate) == rate

(* rate_per_sec.max(1): a rate of zero still admits one event a second. *)
Capacity(rate) == IF rate > 1 THEN rate ELSE 1

AtMost(x, bound) == IF x > bound THEN bound ELSE x

(* Mutant: duration_since with no saturation. *)
SignedElapsed(now, prev) == now - prev

(* saturating_duration_since: a reading older than the last one is 0. *)
Elapsed(now, prev) == IF now > prev THEN now - prev ELSE 0

(* Mutant: the balance is not capped. *)
UncappedRefill(b, rate, now) ==
    IF b.last = NoInstant
    THEN Capacity(rate) * TICKS_PER_SEC
    ELSE b.tokens + Elapsed(now, b.last) * Capacity(rate)

Refilled(b, rate, now) ==
    LET full == Capacity(rate) * TICKS_PER_SEC
    IN  IF b.last = NoInstant
        THEN full
        ELSE AtMost(b.tokens + Elapsed(now, b.last) * Capacity(rate), full)

(* Whether try_acquire takes a token, and the bucket it leaves. *)
Grants(b, rate, now) == Refilled(b, rate, now) >= TICKS_PER_SEC

try_acquire(b, rate, now) ==
    [tokens |-> Refilled(b, rate, now)
                    - (IF Grants(b, rate, now) THEN TICKS_PER_SEC ELSE 0),
     last   |-> now]
=============================================================================
