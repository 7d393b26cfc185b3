-------------------------- MODULE RateLimiterProofs -------------------------
(***************************************************************************)
(* The rate limiter's guarantees, for every rate, clock resolution, number *)
(* of callers and window.                                                  *)
(***************************************************************************)
EXTENDS RateLimiter, OperatorProofs, TLAPS

(* The rates in use, as the lemmas about one attempt need them. *)
LEMMA CapacityRange ==
    ASSUME NEW r \in Rates
    PROVE  r \in Nat /\ Capacity(r) \in Nat /\ 1 <= Capacity(r) /\ Capacity(r) <= Peak
BY LimiterAssumption, CapacityPositive

----------------------------------------------------------------------------
(* Every variable keeps its type: the balance is never negative. *)
THEOREM LimiterTypeCorrect == Spec => []TypeOK
<1>1. Init => TypeOK
  BY DEF Init, TypeOK, new, Bucket, NoInstant
<1>2. TypeOK /\ [Next]_vars => TypeOK'
  <2> SUFFICES ASSUME TypeOK, [Next]_vars PROVE TypeOK'  OBVIOUS
  <2>1. ASSUME NEW c \in Callers, ReadClock(c) PROVE TypeOK'
    BY <2>1 DEF TypeOK, ReadClock
  <2>2. ASSUME NEW c \in Callers, NEW r \in Rates, Acquire(c, r) PROVE TypeOK'
    <3>1. reading[c] \in Nat  BY <2>2 DEF TypeOK, Acquire
    <3>2. try_acquire(rate_bucket, r, reading[c]) \in Bucket
      BY <3>1, CapacityRange, TryAcquireType DEF TypeOK
    <3> QED  BY <2>2, <3>1, <3>2 DEF TypeOK, Acquire
  <2>3. CASE Tick  BY <2>3 DEF TypeOK, Tick
  <2>4. CASE UNCHANGED vars  BY <2>4 DEF TypeOK, vars
  <2> QED  BY <2>1, <2>2, <2>3, <2>4 DEF Next
<1> QED  BY <1>1, <1>2, PTL DEF Spec

----------------------------------------------------------------------------
(***************************************************************************)
(* The burst bound.  What the callers got inside the window and what the   *)
(* bucket still holds together never exceed one second's worth plus what   *)
(* the time from WindowStart to the bucket's last reading is worth.        *)
(***************************************************************************)
Budget ==
    IF rate_bucket.last < WindowStart
    THEN inWindow = 0
    ELSE inWindow * TICKS_PER_SEC + rate_bucket.tokens
           <= Peak * (TICKS_PER_SEC + (rate_bucket.last - WindowStart))

BurstInv ==
    /\ TypeOK
    /\ rate_bucket.last <= clock
    /\ \A c \in Callers : reading[c] <= clock
    /\ inOrder => Budget

(* An attempt whose reading is not older than the last one keeps the      *)
(* budget: what it takes, it takes from the balance.                       *)
LEMMA BudgetKept ==
    ASSUME BurstInv, NEW c \in Callers, NEW r \in Rates, Acquire(c, r), inOrder'
    PROVE  Budget'
<1> DEFINE T == TICKS_PER_SEC
           now == reading[c]
           last == rate_bucket.last
           full == Refilled(rate_bucket, r, now)
           won == IF Grants(rate_bucket, r, now) /\ now >= WindowStart
                  THEN 1 ELSE 0
<1>1. /\ T \in Nat /\ Peak \in Nat /\ WindowStart \in Nat /\ inWindow \in Nat
      /\ rate_bucket \in Bucket /\ last \in Nat \cup {-1}
      /\ rate_bucket.tokens \in Nat
  BY TicksAssumption, LimiterAssumption DEF BurstInv, TypeOK, Bucket, NoInstant
<1>2. now \in Nat  BY DEF BurstInv, TypeOK, Acquire
<1>3. now >= last /\ inOrder  BY DEF Acquire
<1>4. Budget  BY <1>3 DEF BurstInv
<1>5. Capacity(r) \in Nat /\ Capacity(r) <= Peak  BY CapacityRange
<1>6. /\ full \in Nat /\ full <= Capacity(r) * T
      /\ last # -1 => full <= rate_bucket.tokens + Elapsed(now, last) * Capacity(r)
  BY <1>1, <1>2, CapacityRange, RefillRange DEF NoInstant
<1>7. Capacity(r) * T <= Peak * T  BY <1>1, <1>5, MulMono
<1>8. /\ rate_bucket'.last = now
      /\ rate_bucket'.tokens = IF Grants(rate_bucket, r, now) THEN full - T ELSE full
      /\ inWindow' = inWindow + won
  BY <1>1, <1>2, CapacityRange, TryAcquireType DEF Acquire
<1>9. CASE now < WindowStart
  <2>1. inWindow' = 0  BY <1>1, <1>2, <1>3, <1>4, <1>8, <1>9 DEF Budget
  <2> QED  BY <2>1, <1>8, <1>9 DEF Budget
<1>10. CASE now >= WindowStart
  (* What was granted is exactly what left the bucket. *)
  <2>1. inWindow' * T + rate_bucket'.tokens = inWindow * T + full
    <3>1. CASE Grants(rate_bucket, r, now)
      <4>1. inWindow' = inWindow + 1 /\ rate_bucket'.tokens = full - T
        BY <1>8, <1>10, <3>1
      <4>2. (inWindow + 1) * T = inWindow * T + T  BY <1>1
      <4>3. inWindow * T \in Nat  BY <1>1, MulNat
      <4> QED  BY <4>1, <4>2, <4>3, <1>1, <1>6
    <3>2. CASE ~Grants(rate_bucket, r, now)
      BY <1>1, <1>8, <3>2
    <3> QED  BY <3>1, <3>2
  <2>2. inWindow * T + full <= Peak * (T + (now - WindowStart))
    <3>1. CASE last < WindowStart
      <4>1. inWindow * T = 0  BY <3>1, <1>1, <1>4 DEF Budget
      <4>2. Peak * T <= Peak * (T + (now - WindowStart))
        BY <1>1, <1>2, <1>10, MulMono, T + (now - WindowStart) \in Nat,
           T <= T + (now - WindowStart)
      <4>3. Capacity(r) * T \in Nat /\ Peak * T \in Nat
            /\ Peak * (T + (now - WindowStart)) \in Nat
        BY <1>1, <1>2, <1>5, <1>10, MulNat
      <4> QED  BY <4>1, <4>2, <4>3, <1>6, <1>7
    <3>2. CASE last >= WindowStart
      <4>1. last \in Nat /\ Elapsed(now, last) = now - last /\ now - last \in Nat
        BY <3>2, <1>1, <1>2, <1>3 DEF Elapsed
      <4>2. (now - last) * Capacity(r) <= (now - last) * Peak
        BY <4>1, <1>1, <1>5, MulMono
      <4>3. inWindow * T + rate_bucket.tokens <= Peak * (T + (last - WindowStart))
        BY <3>2, <1>1, <1>4 DEF Budget
      <4>4. Peak * (T + (now - WindowStart))
              = Peak * (T + (last - WindowStart)) + (now - last) * Peak
        BY <4>1, <1>1, <1>2
      <4>5. /\ inWindow * T \in Nat /\ (now - last) * Capacity(r) \in Nat
            /\ (now - last) * Peak \in Nat
            /\ Peak * (T + (last - WindowStart)) \in Nat
        BY <4>1, <3>2, <1>1, <1>5, MulNat
      <4>6. full <= rate_bucket.tokens + (now - last) * Capacity(r)
        BY <4>1, <1>6
      <4> QED  BY <4>2, <4>3, <4>4, <4>5, <4>6, <1>1, <1>6
    <3> QED  BY <3>1, <3>2, <1>1
  <2> QED  BY <2>1, <2>2, <1>8, <1>10, <1>1, <1>2 DEF Budget
<1> QED  BY <1>9, <1>10, <1>1, <1>2

(* The inductive invariant of the bound. *)
THEOREM BurstInvariant == Spec => []BurstInv
<1>1. Init => BurstInv
  <2> SUFFICES ASSUME Init PROVE BurstInv  OBVIOUS
  <2>1. TypeOK /\ rate_bucket.last = -1 /\ inWindow = 0 /\ clock = 0
        /\ reading = [c \in Callers |-> -1]
    BY DEF Init, TypeOK, new, Bucket, NoInstant
  <2> QED  BY <2>1, LimiterAssumption DEF BurstInv, Budget
<1>2. BurstInv /\ TypeOK' /\ [Next]_vars => BurstInv'
  <2> SUFFICES ASSUME BurstInv, TypeOK', [Next]_vars PROVE BurstInv'  OBVIOUS
  <2> USE DEF BurstInv
  <2>1. ASSUME NEW c \in Callers, ReadClock(c) PROVE BurstInv'
    BY <2>1 DEF TypeOK, ReadClock, Budget, Bucket, NoInstant
  <2>2. ASSUME NEW c \in Callers, NEW r \in Rates, Acquire(c, r) PROVE BurstInv'
    <3>1. reading[c] \in Nat  BY <2>2 DEF TypeOK, Acquire
    <3>2. rate_bucket'.last = reading[c]
      <4>1. r \in Nat /\ rate_bucket \in Bucket  BY CapacityRange DEF TypeOK
      <4>2. try_acquire(rate_bucket, r, reading[c]).last = reading[c]
        BY <3>1, <4>1, TryAcquireType
      <4> QED  BY <2>2, <4>2 DEF Acquire
    <3>3. rate_bucket'.last <= clock'  BY <2>2, <3>2 DEF Acquire
    <3>4. \A d \in Callers : reading'[d] <= clock'
      BY <2>2 DEF TypeOK, Acquire, NoInstant
    <3>5. inOrder' => Budget'  BY <2>2, BudgetKept
    <3> QED  BY <3>3, <3>4, <3>5
  <2>3. CASE Tick
    BY <2>3 DEF TypeOK, Tick, Budget, Bucket, NoInstant
  <2>4. CASE UNCHANGED vars  BY <2>4 DEF TypeOK, vars, Budget
  <2> QED  BY <2>1, <2>2, <2>3, <2>4 DEF Next
<1> QED  BY <1>1, <1>2, LimiterTypeCorrect, PTL DEF Spec

(* The bound BurstBounded of a serialised bucket, for every window. *)
LEMMA BudgetSuffices == BurstInv => BurstBoundedInOrder
<1> SUFFICES ASSUME BurstInv, inOrder PROVE BurstBounded
  BY DEF BurstBoundedInOrder
<1> DEFINE T == TICKS_PER_SEC
           last == rate_bucket.last
<1>1. /\ T \in Nat /\ Peak \in Nat /\ WindowStart \in Nat /\ inWindow \in Nat
      /\ last \in Nat \cup {-1} /\ rate_bucket.tokens \in Nat /\ clock \in Nat
      /\ last <= clock /\ Budget
  BY TicksAssumption, LimiterAssumption DEF BurstInv, TypeOK, Bucket, NoInstant
<1>2. inWindow * T \in Nat  BY <1>1, MulNat
<1>3. CASE last < WindowStart
  <2>1. inWindow = 0 /\ inWindow * T = 0  BY <1>1, <1>3 DEF Budget
  <2>2. clock >= WindowStart => Peak * (T + (clock - WindowStart)) \in Nat
    BY <1>1, MulNat, clock >= WindowStart => T + (clock - WindowStart) \in Nat
  <2> QED  BY <2>1, <2>2, <1>1 DEF BurstBounded
<1>4. CASE last >= WindowStart
  <2>1. /\ T + (last - WindowStart) \in Nat /\ T + (clock - WindowStart) \in Nat
        /\ T + (last - WindowStart) <= T + (clock - WindowStart)
        /\ clock >= WindowStart
    BY <1>1, <1>4
  <2>2. Peak * (T + (last - WindowStart)) <= Peak * (T + (clock - WindowStart))
    BY <2>1, <1>1, MulMono
  <2>3. inWindow * T + rate_bucket.tokens <= Peak * (T + (last - WindowStart))
    BY <1>1, <1>4 DEF Budget
  <2>4. Peak * (T + (last - WindowStart)) \in Nat
        /\ Peak * (T + (clock - WindowStart)) \in Nat
    BY <2>1, <1>1, MulNat
  <2> QED  BY <2>1, <2>2, <2>3, <2>4, <1>1, <1>2 DEF BurstBounded
<1> QED  BY <1>1, <1>3, <1>4

(* While the clock readings reach the bucket in the order they were taken, *)
(* no window of time sees more events let through than one second's worth  *)
(* of burst plus the rate times the window's length (RateBucket).          *)
THEOREM BurstIsBounded == Spec => []BurstBoundedInOrder
BY BurstInvariant, BudgetSuffices, PTL

----------------------------------------------------------------------------
(***************************************************************************)
(* No starvation.  Since the last grant the bucket has gained at least one *)
(* part a tick, or it holds a whole token.                                 *)
(***************************************************************************)
Replenished ==
    \/ rate_bucket.tokens >= rate_bucket.last - lastGrant
    \/ rate_bucket.tokens >= TICKS_PER_SEC

ShedInv ==
    /\ TypeOK
    /\ lastGrant = NoInstant <=> rate_bucket.last = NoInstant
    /\ lastGrant # NoInstant => Replenished

(* A refill is worth at least a part for every tick since the last grant.  *)
LEMMA RefillReplenishes ==
    ASSUME ShedInv, NEW r \in Rates, NEW now \in Nat, lastGrant # NoInstant
    PROVE  \/ Refilled(rate_bucket, r, now) >= now - lastGrant
           \/ Refilled(rate_bucket, r, now) >= TICKS_PER_SEC
<1> DEFINE cap == Capacity(r)
           gone == Elapsed(now, rate_bucket.last)
<1>1. /\ rate_bucket \in Bucket /\ rate_bucket.tokens \in Nat
      /\ rate_bucket.last \in Nat /\ lastGrant \in Nat
  BY DEF ShedInv, TypeOK, Bucket
<1>2. cap \in Nat /\ 1 <= cap /\ TICKS_PER_SEC \in Nat
  BY CapacityRange, TicksAssumption
<1>3. gone \in Nat /\ rate_bucket.last + gone >= now  BY <1>1 DEF Elapsed
<1>4. cap * TICKS_PER_SEC >= TICKS_PER_SEC
  <2>1. 1 * TICKS_PER_SEC <= cap * TICKS_PER_SEC  BY <1>2, MulMono
  <2> QED  BY <2>1, <1>2
<1>5. gone * cap >= gone
  <2>1. gone * 1 <= gone * cap  BY <1>2, <1>3, MulMono
  <2> QED  BY <2>1, <1>3
<1>6. gone * cap \in Nat  BY <1>2, <1>3, MulNat
<1>7. \/ Refilled(rate_bucket, r, now) = cap * TICKS_PER_SEC
      \/ Refilled(rate_bucket, r, now) = rate_bucket.tokens + gone * cap
  BY <1>1, CapacityRange, RefillRange DEF ShedInv, TypeOK
<1>8. Replenished  BY DEF ShedInv
<1> QED  BY <1>1, <1>2, <1>3, <1>4, <1>5, <1>6, <1>7, <1>8 DEF Replenished

(* The first attempt of all finds a full bucket, which holds a token.      *)
LEMMA FirstAttemptGranted ==
    ASSUME ShedInv, NEW r \in Rates, NEW now \in Nat, lastGrant = NoInstant
    PROVE  Grants(rate_bucket, r, now)
<1>1. Refilled(rate_bucket, r, now) = Capacity(r) * TICKS_PER_SEC
  BY CapacityRange, RefillRange DEF ShedInv, TypeOK
<1>2. 1 * TICKS_PER_SEC <= Capacity(r) * TICKS_PER_SEC
  BY CapacityRange, TicksAssumption, MulMono
<1> QED  BY <1>1, <1>2, TicksAssumption, CapacityRange DEF Grants

(* The inductive invariant behind ShedOnlyAfterGrant. *)
THEOREM ShedInvariant == Spec => []ShedInv
<1>1. Init => ShedInv
  BY DEF Init, ShedInv, TypeOK, new, Bucket, NoInstant
<1>2. ShedInv /\ TypeOK' /\ [Next]_vars => ShedInv'
  <2> SUFFICES ASSUME ShedInv, TypeOK', [Next]_vars PROVE ShedInv'  OBVIOUS
  <2>1. ASSUME NEW c \in Callers, ReadClock(c) PROVE ShedInv'
    BY <2>1 DEF ShedInv, ReadClock, Replenished
  <2>2. ASSUME NEW c \in Callers, NEW r \in Rates, Acquire(c, r) PROVE ShedInv'
    <3> DEFINE now == reading[c]
               full == Refilled(rate_bucket, r, now)
    <3>1. now \in Nat  BY <2>2 DEF ShedInv, TypeOK, Acquire
    <3>2. /\ rate_bucket'.last = now
          /\ rate_bucket'.tokens = IF Grants(rate_bucket, r, now)
                                   THEN full - TICKS_PER_SEC ELSE full
      <4>1. r \in Nat /\ rate_bucket \in Bucket
        BY CapacityRange DEF ShedInv, TypeOK
      <4>2. rate_bucket' = try_acquire(rate_bucket, r, now)  BY <2>2 DEF Acquire
      <4> QED  BY <3>1, <4>1, <4>2, TryAcquireType
    <3>3. full \in Nat  BY <3>1, CapacityRange, RefillRange DEF ShedInv, TypeOK
    <3>4. CASE Grants(rate_bucket, r, now)
      <4>1. lastGrant' = now  BY <2>2, <3>4 DEF Acquire
      <4>2. rate_bucket'.tokens \in Nat  BY DEF TypeOK, Bucket
      <4> QED  BY <3>1, <3>2, <4>1, <4>2 DEF ShedInv, Replenished, NoInstant
    <3>5. CASE ~Grants(rate_bucket, r, now)
      <4>1. lastGrant' = lastGrant  BY <2>2, <3>5 DEF Acquire
      <4>2. lastGrant # NoInstant  BY <3>1, <3>5, FirstAttemptGranted
      <4>3. full >= now - lastGrant \/ full >= TICKS_PER_SEC
        BY <3>1, <4>2, RefillReplenishes
      <4> QED  BY <3>1, <3>2, <3>5, <4>1, <4>2, <4>3
               DEF ShedInv, Replenished, NoInstant
    <3> QED  BY <3>4, <3>5
  <2>3. CASE Tick  BY <2>3 DEF ShedInv, Tick, Replenished
  <2>4. CASE UNCHANGED vars  BY <2>4 DEF ShedInv, vars, Replenished
  <2> QED  BY <2>1, <2>2, <2>3, <2>4 DEF Next
<1> QED  BY <1>1, <1>2, LimiterTypeCorrect, PTL DEF Spec

(* try_acquire sheds an event only within a second of the last grant, for  *)
(* every rate, zero included, and any interleaving of the callers.         *)
THEOREM NeverStarved == Spec => ShedOnlyAfterGrant
<1>1. ASSUME ShedInv, NEW c \in Callers, NEW r \in Rates, Acquire(c, r),
             ~Grants(rate_bucket, r, reading[c])
      PROVE  lastGrant # NoInstant /\ reading[c] < lastGrant + TICKS_PER_SEC
  <2>1. reading[c] \in Nat  BY <1>1 DEF ShedInv, TypeOK, Acquire
  <2>2. lastGrant # NoInstant  BY <1>1, <2>1, FirstAttemptGranted
  <2>3. \/ Refilled(rate_bucket, r, reading[c]) >= reading[c] - lastGrant
        \/ Refilled(rate_bucket, r, reading[c]) >= TICKS_PER_SEC
    BY <1>1, <2>1, <2>2, RefillReplenishes
  <2>4. Refilled(rate_bucket, r, reading[c]) \in Nat
    BY <1>1, <2>1, CapacityRange, RefillRange DEF ShedInv, TypeOK
  <2> QED  BY <1>1, <2>1, <2>2, <2>3, <2>4, TicksAssumption
           DEF Grants, ShedInv, TypeOK
<1>2. ShedInv =>
        \A c \in Callers, r \in Rates :
          Acquire(c, r) /\ ~Grants(rate_bucket, r, reading[c]) =>
              /\ lastGrant # NoInstant
              /\ reading[c] < lastGrant + TICKS_PER_SEC
  BY <1>1
<1> QED  BY <1>2, ShedInvariant, PTL DEF ShedOnlyAfterGrant
=============================================================================
