----------------------------- MODULE EventClock -----------------------------
(***************************************************************************)
(* The arithmetic of the violation timestamps: the forward clamp on the    *)
(* wall clock (asg-api monotonic_now_ns) and the conversion to the text    *)
(* that is stored (asg-common ts_ns_to_rfc3339).                           *)
(***************************************************************************)
EXTENDS Integers

CONSTANTS
    U64_MAX,     \* largest nanosecond count an AtomicU64 holds
    NS_PER_SEC   \* nanoseconds in a second

ASSUME ClockAssumption == U64_MAX \in Nat \ {0} /\ NS_PER_SEC \in Nat \ {0}

U64 == 0 .. U64_MAX

(* Mutant: the addition is not saturating. *)
PlainAdd(x, y) == x + y

saturating_add(x, y) == IF x + y > U64_MAX THEN U64_MAX ELSE x + y

(* Mutant: the wall clock is trusted. *)
Unclamped(now, last) == now

(* The value handed out when the wall clock reads `now' and the last value *)
(* handed out was `last'.                                                  *)
Clamped(now, last) ==
    LET bumped == saturating_add(last, 1)
    IN  IF now > bumped THEN now ELSE bumped

(* The stored text has whole seconds: equal texts are equal seconds. *)
ts_ns_to_rfc3339(ts_ns) == ts_ns \div NS_PER_SEC
=============================================================================
