-------------------------- MODULE LimiterProofs --------------------------
(***************************************************************************)
(* The rate limiter, for every number of threads, every policy, every      *)
(* clock bound and every integer width: the lock-free token bucket, the    *)
(* store that evicts idle states, and the sliding window.                  *)
(***************************************************************************)
EXTENDS TokenBucket, TLAPS

-----------------------------------------------------------------------------
(* Arithmetic *)

LEMMA MulMonotone ==
  ASSUME NEW a \in Nat, NEW b \in Nat, NEW c \in Nat, a <= b
  PROVE  a * c \in Nat /\ b * c \in Nat /\ a * c <= b * c
<1>1. PICK d \in Nat : b = a + d
  <2>1. b - a \in Nat /\ b = a + (b - a)
    OBVIOUS
  <2> QED BY <2>1, Zenon
<1>2. a * c \in Nat /\ d * c \in Nat
  OBVIOUS
<1>3. b * c = a * c + d * c
  BY <1>1
<1> QED BY <1>2, <1>3

LEMMA SatType ==
  ASSUME NEW x \in Nat
  PROVE  Sat(x) \in 0 .. U64Max /\ Sat(x) <= x /\ Sat(x) \in Nat
BY GcraAssumption DEF Sat

LEMMA NanosType == NanosPerSec \in Nat \ {0}
<1>1. ASSUME NEW a \in Nat \ {0}, NEW b \in Nat \ {0}
      PROVE  a * b \in Nat \ {0}
  OBVIOUS
<1> QED BY <1>1, GcraAssumption, Zenon DEF NanosPerSec

LEMMA NowType ==
  ASSUME NEW ms \in Nat
  PROVE  Now(ms) \in 0 .. U64Max
<1>1. ms * NanosPerMs \in Nat
  BY GcraAssumption
<1> QED BY <1>1, SatType, Zenon DEF Now

(* The clock conversion keeps the order of stamps. *)
LEMMA NowMonotone ==
  ASSUME NEW a \in Nat, NEW b \in Nat, a <= b
  PROVE  Now(a) <= Now(b)
<1>1. a * NanosPerMs \in Nat /\ b * NanosPerMs \in Nat
      /\ a * NanosPerMs <= b * NanosPerMs
  BY MulMonotone, GcraAssumption, Zenon
<1> QED BY <1>1, GcraAssumption DEF Now, Sat

LEMMA PolicyTypes ==
  ASSUME NEW c \in Configuration
  PROVE  /\ Emission(c) \in Nat
         /\ Tolerance(c) \in 0 .. U64Max
<1>1. c.limit \in Nat /\ c.burst \in Nat /\ c.window \in Nat
  BY Zenon DEF Configuration
<1>2. Emission(c) \in Nat
  <2>1. CASE c.limit = 0
    BY <2>1, Zenon DEF Emission
  <2>2. CASE c.limit # 0
    <3>1. c.window * NanosPerSec \in Nat
      BY <1>1, NanosType
    <3>2. Sat(c.window * NanosPerSec) \in Nat
      BY <3>1, SatType, Zenon
    <3>3. Sat(c.window * NanosPerSec) \div c.limit \in Nat
      BY <3>2, <2>2, <1>1
    <3> QED BY <3>3, <2>2, Zenon DEF Emission, Later
  <2> QED BY <2>1, <2>2, Zenon
<1>3. Capacity(c) \in Nat
  BY <1>1, SatType DEF Capacity
<1>4. Emission(c) * Capacity(c) \in Nat
  BY <1>2, <1>3
<1> QED BY <1>2, <1>4, SatType, Zenon DEF Tolerance

LEMMA LimitType ==
  ASSUME NEW c \in Configuration, NEW ms \in Nat
  PROVE  /\ LimitAt(c, ms) \in 0 .. U64Max
         /\ LimitAt(c, ms) <= Now(ms) + Tolerance(c)
BY PolicyTypes, NowType, SatType DEF LimitAt

LEMMA LimitMonotone ==
  ASSUME NEW c \in Configuration, NEW a \in Nat, NEW b \in Nat, a <= b
  PROVE  LimitAt(c, a) <= LimitAt(c, b)
BY PolicyTypes, NowType, NowMonotone, GcraAssumption DEF LimitAt, Sat

LEMMA NewTatType ==
  ASSUME NEW c \in Configuration, NEW w \in 0 .. U64Max, NEW ms \in Nat
  PROVE  /\ NewTat(c, w, ms) \in 0 .. U64Max
         /\ w <= NewTat(c, w, ms)
         /\ \/ NewTat(c, w, ms) = U64Max
            \/ NewTat(c, w, ms) = Later(w, Now(ms)) + Emission(c)
BY PolicyTypes, NowType, GcraAssumption DEF NewTat, Sat, Later

(* A thread that would be rejected on an old TAT is rejected on a later one. *)
LEMMA RejectionIsStable ==
  ASSUME NEW c \in Configuration, NEW ms \in Nat,
         NEW v \in 0 .. U64Max, NEW w \in 0 .. U64Max, v <= w,
         Admits(c, w, ms)
  PROVE  Admits(c, v, ms)
<1>1. NewTat(c, v, ms) <= NewTat(c, w, ms)
  BY PolicyTypes, NowType, GcraAssumption DEF NewTat, Sat, Later
<1> QED BY <1>1, NewTatType, LimitType, GcraAssumption DEF Admits

LEMMA Division ==
  ASSUME NEW a \in Nat, NEW b \in Nat \ {0}
  PROVE  a \div b \in Nat /\ (a \div b) * b <= a /\ a < (a \div b) * b + b
OBVIOUS

(* CeilDiv(x, n) is the least number of n's that cover x. *)
LEMMA Ceiling ==
  ASSUME NEW x \in Nat \ {0}, NEW n \in Nat \ {0}
  PROVE  /\ CeilDiv(x, n) \in Nat \ {0}
         /\ x <= CeilDiv(x, n) * n
         /\ (CeilDiv(x, n) - 1) * n < x
<1> DEFINE q == (x + n - 1) \div n
<1>1. q \in Nat /\ q * n <= x + n - 1 /\ x + n - 1 < q * n + n
  BY Division
<1>2. q # 0
  BY <1>1
<1>3. (q - 1) * n = q * n - n /\ q * n \in Nat
  BY <1>1
<1> HIDE DEF q
<1>4. q = CeilDiv(x, n)
  BY Zenon DEF q, CeilDiv
<1> QED BY <1>1, <1>2, <1>3, <1>4

(* One token always fits in the bucket. *)
LEMMA EmissionFits ==
  ASSUME NEW c \in Configuration, Emission(c) # 0
  PROVE  Emission(c) <= Tolerance(c)
<1>1. c.limit \in Nat \ {0} /\ c.burst \in Nat /\ c.window \in Nat
  BY Zenon DEF Configuration, Emission
<1>2. Capacity(c) \in Nat \ {0}
  BY <1>1, GcraAssumption DEF Capacity, Sat
<1>3. Emission(c) \in Nat /\ Emission(c) <= U64Max
  <2>1. c.window * NanosPerSec \in Nat
    BY <1>1, NanosType
  <2>2. Sat(c.window * NanosPerSec) \in 0 .. U64Max
    BY <2>1, SatType, Zenon
  <2>3. \A v \in 0 .. U64Max : v \div c.limit <= v
    <3> SUFFICES ASSUME NEW v \in 0 .. U64Max PROVE v \div c.limit <= v
      BY Zenon
    <3>1. v \div c.limit \in Nat /\ (v \div c.limit) * c.limit <= v
      BY <1>1, Division, GcraAssumption
    <3>2. ASSUME NEW p \in Nat, NEW l \in Nat \ {0} PROVE p <= p * l
      OBVIOUS
    <3>3. v \div c.limit <= (v \div c.limit) * c.limit
      BY <1>1, <3>1, <3>2, Zenon
    <3> QED BY <1>1, <3>1, <3>3, GcraAssumption
  <2>4. Sat(c.window * NanosPerSec) \div c.limit <= U64Max
    <3>1. Sat(c.window * NanosPerSec) \div c.limit \in Nat
      BY <1>1, <2>2, Division, GcraAssumption
    <3> QED BY <2>2, <2>3, <3>1, GcraAssumption
  <2>5. Emission(c) \in Nat
    BY PolicyTypes, Zenon
  <2> QED BY <1>1, <2>4, <2>5, GcraAssumption DEF Emission, Later
<1>4. Emission(c) <= Emission(c) * Capacity(c)
  <2>1. ASSUME NEW p \in Nat, NEW l \in Nat \ {0} PROVE p <= p * l
    OBVIOUS
  <2> QED BY <1>2, <1>3, <2>1, Zenon
<1>5. Emission(c) * Capacity(c) \in Nat
  BY <1>2, <1>3
<1> QED BY <1>3, <1>4, <1>5, GcraAssumption, Zenon DEF Tolerance, Sat

(* Waiting retry_after seconds is enough, waiting one second less is not.  *)
LEMMA RetryAfterLemma ==
  ASSUME NEW c \in Configuration, NEW w \in 0 .. U64Max, NEW ms \in Nat,
         Emission(c) # 0, ~Admits(c, w, ms),
         LimitAt(c, ms + RetryAfter(c, w, ms) * MsPerSec) < U64Max
  PROVE  /\ Admits(c, w, ms + RetryAfter(c, w, ms) * MsPerSec)
         /\ ~Admits(c, w, ms + (RetryAfter(c, w, ms) - 1) * MsPerSec)
<1> DEFINE em == Emission(c)
           tol == Tolerance(c)
           n == NanosPerSec
           base == ms * NanosPerMs
           x == NewTat(c, w, ms) - LimitAt(c, ms)
           r == RetryAfter(c, w, ms)
           late == ms + r * MsPerSec
           early == ms + (r - 1) * MsPerSec
<1>1. /\ em \in Nat \ {0} /\ tol \in 0 .. U64Max /\ em <= tol
      /\ n \in Nat \ {0} /\ base \in Nat /\ U64Max \in Nat
  BY PolicyTypes, EmissionFits, NanosType, GcraAssumption
<1>2. NewTat(c, w, ms) \in 0 .. U64Max /\ LimitAt(c, ms) \in 0 .. U64Max
  BY NewTatType, LimitType, Zenon
<1>3. x \in Nat \ {0}
  BY <1>2, GcraAssumption DEF Admits
<1>4. r \in Nat \ {0} /\ x <= r * n /\ (r - 1) * n < x /\ r * n \in Nat
      /\ (r - 1) * n \in Nat
  <2>1. r = CeilDiv(x, n)
    BY Zenon DEF RetryAfter
  <2>2. r \in Nat \ {0} /\ x <= r * n /\ (r - 1) * n < x
    BY <1>1, <1>3, <2>1, Ceiling, Zenon
  <2>3. r - 1 \in Nat
    BY <2>2
  <2> HIDE DEF r, x, n
  <2> QED BY <1>1, <2>2, <2>3
<1>5. late \in Nat /\ early \in Nat
  <2>1. r - 1 \in Nat
    BY <1>4
  <2> HIDE DEF r
  <2> QED BY <1>4, <2>1, GcraAssumption
<1>6. late * NanosPerMs = base + r * n /\ early * NanosPerMs = base + (r - 1) * n
  <2>1. \A m, k, p, q \in Nat : (m + k * p) * q = m * q + k * (q * p)
    OBVIOUS
  <2>2. r \in Nat /\ r - 1 \in Nat
    BY <1>4
  <2> HIDE DEF r
  <2> QED BY <2>1, <2>2, GcraAssumption DEF NanosPerSec
<1> HIDE DEF x, r, late, early, base, n, em, tol
<1>7. /\ Now(late) = base + r * n /\ LimitAt(c, late) = base + r * n + tol
      /\ Now(ms) = base /\ LimitAt(c, ms) = base + tol
      /\ Now(early) = base + (r - 1) * n
      /\ LimitAt(c, early) = base + (r - 1) * n + tol
  <2>1. LimitAt(c, late) < U64Max
    BY Zenon DEF late, r
  <2>2. Now(late) = Sat(base + r * n) /\ LimitAt(c, late) = Sat(Now(late) + tol)
    BY <1>6, Zenon DEF Now, LimitAt, tol
  <2>3. base + r * n + tol < U64Max
    BY <1>1, <1>4, <2>1, <2>2 DEF Sat
  <2>4. (r - 1) * n <= r * n
    <3>1. (r - 1) * n = r * n - n
      BY <1>1, <1>4
    <3> QED BY <1>1, <1>4, <3>1
  <2>5. Now(early) = Sat(base + (r - 1) * n) /\ Now(ms) = Sat(base)
    BY <1>6, Zenon DEF Now, base
  <2>6. LimitAt(c, early) = Sat(Now(early) + tol) /\ LimitAt(c, ms) = Sat(Now(ms) + tol)
    BY Zenon DEF LimitAt, tol
  <2> QED BY <1>1, <1>4, <2>2, <2>3, <2>4, <2>5, <2>6 DEF Sat
<1>8. NewTat(c, w, ms) = base + tol + x
  BY <1>1, <1>2, <1>7 DEF x
<1>9. w > base /\ NewTat(c, w, ms) = Sat(w + em)
  BY <1>1, <1>2, <1>3, <1>7, <1>8 DEF NewTat, Sat, Later, em
<1>10. Admits(c, w, late)
  <2>1. NewTat(c, w, late) = Sat(Later(w, base + r * n) + em)
    BY <1>7, Zenon DEF NewTat, em
  <2>2. NewTat(c, w, late) <= base + r * n + tol
    BY <1>1, <1>3, <1>4, <1>8, <1>9, <2>1 DEF Sat, Later
  <2> QED BY <1>1, <1>7, <2>2, Zenon DEF Admits, em
<1>11. ~Admits(c, w, early)
  <2>1. NewTat(c, w, early) = Sat(Later(w, base + (r - 1) * n) + em)
    BY <1>7, Zenon DEF NewTat, em
  <2>2. NewTat(c, w, early) >= NewTat(c, w, ms)
    BY <1>1, <1>4, <1>9, <2>1 DEF Sat, Later
  <2>3. NewTat(c, w, early) \in Int
    BY <1>5, NewTatType
  <2> QED BY <1>1, <1>2, <1>3, <1>4, <1>7, <1>8, <2>2, <2>3 DEF Admits
<1> QED BY <1>10, <1>11, Zenon DEF late, early, r

-----------------------------------------------------------------------------
(* The inductive invariant *)

(* A stamp was the clock once; what a thread loaded is never ahead of the  *)
(* shared word.                                                            *)
LocalsBehind ==
  \A t \in Threads : stamp[t] <= clock /\ seen[t] <= tat

(* Only a policy that refills enters the loop. *)
LoopRefills == \A t \in Threads : pc[t] = "loop" => Emission(cfg) # 0

(* Every acceptance has been charged to the shared word: this is what      *)
(* RateConformance needs to survive the next acceptance.                   *)
Charged ==
  \A i \in Interval :
    passed[i] > 0 => \/ tat = U64Max
                     \/ Now(i[1]) + passed[i] * Emission(cfg) <= tat

Inv ==
  TypeOK /\ LocalsBehind /\ LoopRefills /\ DebtBounded /\ Charged /\ RateConformance

LEMMA InitInv == Init => Inv
<1> SUFFICES ASSUME Init PROVE Inv
  BY Zenon
<1>1. cfg \in Configuration /\ 0 \in Stamps
  BY TokenBucketAssumption DEF Init, Stamps
<1>2. TypeOK
  BY <1>1, GcraAssumption DEF Init, TypeOK
<1>3. LocalsBehind
  BY DEF Init, LocalsBehind
<1>31. LoopRefills
  BY Zenon DEF Init, LoopRefills
<1>4. DebtBounded
  BY <1>1, LimitType DEF Init, DebtBounded
<1>5. Charged /\ RateConformance
  BY DEF Init, Charged, RateConformance
<1> QED BY <1>2, <1>3, <1>31, <1>4, <1>5, Zenon DEF Inv

(* Steps that leave the shared word, the clock, the stamps and the history *)
(* alone only have to keep the types and the copies.                       *)
LEMMA QuietStep ==
  ASSUME Inv, TypeOK', LoopRefills', UNCHANGED <<cfg, tat, clock, passed>>,
         \A t \in Threads : stamp'[t] <= clock /\ seen'[t] <= tat
  PROVE  Inv'
BY Zenon DEF Inv, LocalsBehind, DebtBounded, Charged, RateConformance

LEMMA AcceptInv ==
  ASSUME Inv, NEW t \in Threads, Accept(t)
  PROVE  Inv'
<1> DEFINE em == Emission(cfg)
           s == stamp[t]
           hits(i) == s \in i[1] .. i[2]
<1>1. /\ cfg \in Configuration /\ em \in Nat
      /\ s \in Stamps /\ s \in Nat /\ s <= clock /\ clock \in Nat
      /\ tat \in 0 .. U64Max
  BY TokenBucketAssumption, PolicyTypes
     DEF Inv, TypeOK, LocalsBehind, Stamps
<1>2. /\ tat' = NewTat(cfg, tat, s)
      /\ tat' <= LimitAt(cfg, s)
      /\ tat' \in 0 .. U64Max
      /\ tat <= tat'
      /\ \/ tat' = U64Max
         \/ tat' = Later(tat, Now(s)) + em
  BY <1>1, NewTatType, Zenon DEF Accept, Admits
<1>3. UNCHANGED <<cfg, clock, stamp, seen>>
  BY Zenon DEF Accept
<1>4. \A i \in Interval :
        /\ i[1] \in Nat /\ i[2] \in Nat
        /\ passed[i] \in Nat
        /\ hits(i) => passed'[i] = passed[i] + 1 /\ i[1] <= s /\ s <= i[2]
        /\ ~hits(i) => passed'[i] = passed[i]
  BY <1>1 DEF Accept, Inv, TypeOK, Interval, Stamps
<1>5. TypeOK'
  <2>1. passed' \in [Interval -> Nat]
    BY <1>4 DEF Accept
  <2>2. pc' \in [Threads -> {"idle", "check", "loop"}]
    BY Zenon DEF Accept, Inv, TypeOK
  <2> QED BY <1>2, <1>3, <2>1, <2>2, Zenon DEF Inv, TypeOK
<1>6. LocalsBehind'
  <2>1. \A u \in Threads : seen[u] \in 0 .. U64Max
    BY Zenon DEF Inv, TypeOK
  <2> QED BY <1>1, <1>2, <1>3, <2>1 DEF Inv, LocalsBehind
<1>61. LoopRefills'
  BY <1>3, Zenon DEF Accept, Inv, TypeOK, LoopRefills
<1>7. DebtBounded'
  BY <1>1, <1>2, <1>3, LimitType, LimitMonotone DEF DebtBounded
<1>8. ASSUME NEW i \in Interval, passed'[i] > 0
      PROVE  tat' = U64Max \/ Now(i[1]) + passed'[i] * em <= tat'
  <2>1. Now(i[1]) \in 0 .. U64Max /\ Now(s) \in 0 .. U64Max
    BY <1>1, <1>4, NowType, Zenon
  <2>2. passed[i] * em \in Nat /\ (passed[i] + 1) * em = passed[i] * em + em
    BY <1>1, <1>4
  <2>3. passed[i] > 0 => tat = U64Max \/ Now(i[1]) + passed[i] * em <= tat
    BY Zenon DEF Inv, Charged
  <2>4. CASE ~hits(i)
    <3>1. passed'[i] = passed[i] /\ passed[i] > 0
      BY <1>4, <1>8, <2>4, Zenon
    <3>2. tat = U64Max \/ Now(i[1]) + passed[i] * em <= tat
      BY <2>3, <3>1, Zenon
    <3> HIDE DEF em
    <3> QED BY <1>1, <1>2, <2>1, <2>2, <3>1, <3>2, GcraAssumption
  <2>5. CASE hits(i) /\ passed[i] > 0
    BY <1>1, <1>2, <1>4, <2>1, <2>2, <2>3, <2>5, GcraAssumption DEF Later
  <2>6. CASE hits(i) /\ passed[i] = 0
    <3>1. Now(i[1]) <= Now(s)
      BY <1>1, <1>4, <2>6, NowMonotone, Zenon
    <3>2. passed'[i] * em = em
      BY <1>1, <1>4, <2>6
    <3> QED BY <1>1, <1>2, <2>1, <3>1, <3>2 DEF Later
  <2> QED BY <1>4, <2>4, <2>5, <2>6
<1>9. Charged'
  BY <1>3, <1>8, Zenon DEF Charged
<1>10. RateConformance'
  <2> SUFFICES ASSUME NEW i \in Interval,
                      passed'[i] > 0, LimitAt(cfg, i[2]) < U64Max
               PROVE  Now(i[1]) + passed'[i] * em <= Now(i[2]) + Tolerance(cfg)
    BY <1>3, Zenon DEF RateConformance
  <2>1. CASE ~hits(i)
    BY <1>4, <2>1, Zenon DEF Inv, RateConformance
  <2>2. CASE hits(i)
    <3>1. /\ LimitAt(cfg, s) <= LimitAt(cfg, i[2])
          /\ LimitAt(cfg, s) \in 0 .. U64Max
          /\ LimitAt(cfg, i[2]) \in 0 .. U64Max
          /\ LimitAt(cfg, i[2]) <= Now(i[2]) + Tolerance(cfg)
      BY <1>1, <1>4, <2>2, LimitMonotone, LimitType, Zenon
    <3>2. tat' <= LimitAt(cfg, i[2]) /\ tat' < U64Max
      BY <1>2, <3>1, GcraAssumption
    <3>3. Now(i[1]) + passed'[i] * em <= tat'
      BY <1>8, <3>2, <1>2, GcraAssumption
    <3>4. /\ Now(i[1]) + passed'[i] * em \in Int
          /\ Now(i[2]) + Tolerance(cfg) \in Int
      BY <1>1, <1>4, <1>5, NowType, PolicyTypes DEF TypeOK
    <3> QED BY <1>2, <3>1, <3>2, <3>3, <3>4
  <2> QED BY <2>1, <2>2, Zenon
<1> QED BY <1>5, <1>6, <1>61, <1>7, <1>9, <1>10, Zenon DEF Inv

LEMMA NextInv == Inv /\ [Next]_vars => Inv'
<1> SUFFICES ASSUME Inv, [Next]_vars PROVE Inv'
  BY Zenon
<1>1. /\ cfg \in Configuration
      /\ clock \in Nat /\ clock \in Stamps /\ MaxMs \in Nat
      /\ tat \in 0 .. U64Max
      /\ \A t \in Threads : /\ stamp[t] \in Nat /\ stamp[t] <= clock
                            /\ seen[t] \in 0 .. U64Max /\ seen[t] <= tat
  BY TokenBucketAssumption DEF Inv, TypeOK, LocalsBehind, Stamps
<1>2. CASE UNCHANGED vars
  BY <1>2, Zenon DEF Inv, TypeOK, LocalsBehind, LoopRefills, DebtBounded, Charged,
     RateConformance, vars
<1>3. CASE Tick
  <2>1. clock' \in Stamps /\ clock' \in Nat /\ clock <= clock'
    BY <1>1, <1>3 DEF Tick, Stamps
  <2>2. UNCHANGED <<cfg, tat, pc, stamp, seen, passed>>
    BY <1>3, Zenon DEF Tick
  <2>3. TypeOK'
    BY <2>1, <2>2, Zenon DEF Inv, TypeOK
  <2>4. LocalsBehind'
    BY <1>1, <2>1, <2>2 DEF LocalsBehind
  <2>5. LimitAt(cfg, clock) <= LimitAt(cfg, clock')
    BY <1>1, <2>1, LimitMonotone, Zenon
  <2>6. DebtBounded'
    BY <1>1, <2>1, <2>2, <2>5, LimitType DEF Inv, DebtBounded
  <2>7. LoopRefills' /\ Charged' /\ RateConformance'
    BY <2>2, Zenon DEF Inv, LoopRefills, Charged, RateConformance
  <2> QED BY <2>3, <2>4, <2>6, <2>7, Zenon DEF Inv
<1>4. ASSUME NEW t \in Threads, Arrive(t) PROVE Inv'
  <2>1. TypeOK'
    BY <1>4, Zenon DEF Arrive, Inv, TypeOK
  <2>2. \A u \in Threads : stamp'[u] <= clock /\ seen'[u] <= tat
    BY <1>1, <1>4 DEF Arrive, Inv, TypeOK
  <2>3. LoopRefills'
    BY <1>4, Zenon DEF Arrive, Inv, TypeOK, LoopRefills
  <2> QED BY <1>4, <2>1, <2>2, <2>3, QuietStep, Zenon DEF Arrive
<1>5. ASSUME NEW t \in Threads, RejectAll(t) \/ Reject(t) PROVE Inv'
  <2>1. TypeOK'
    BY <1>5, Zenon DEF RejectAll, Reject, Inv, TypeOK
  <2>2. \A u \in Threads : stamp'[u] <= clock /\ seen'[u] <= tat
    BY <1>1, <1>5, Zenon DEF RejectAll, Reject
  <2>3. LoopRefills'
    BY <1>5, Zenon DEF RejectAll, Reject, Inv, TypeOK, LoopRefills
  <2> QED BY <1>5, <2>1, <2>2, <2>3, QuietStep, Zenon DEF RejectAll, Reject
<1>6. ASSUME NEW t \in Threads, Load(t) \/ Retry(t) PROVE Inv'
  <2>1. TypeOK'
    BY <1>6, Zenon DEF Load, Retry, Inv, TypeOK
  <2>2. \A u \in Threads : stamp'[u] <= clock /\ seen'[u] <= tat
    BY <1>1, <1>6 DEF Load, Retry, Inv, TypeOK
  <2>3. LoopRefills'
    BY <1>6, Zenon DEF Load, Retry, Inv, TypeOK, LoopRefills, Admits
  <2> QED BY <1>6, <2>1, <2>2, <2>3, QuietStep, Zenon DEF Load, Retry
<1>7. ASSUME NEW t \in Threads, Accept(t) PROVE Inv'
  BY <1>7, AcceptInv, Zenon
<1> QED BY <1>2, <1>3, <1>4, <1>5, <1>6, <1>7, Zenon DEF Next, Check

(* The invariant of the CAS loop, and with it the type invariant.          *)
THEOREM InvHolds == Spec => []Inv
<1> QED BY InitInv, NextInv, PTL DEF Spec

(* token_bucket.rs: no interleaving of checks lets more requests through   *)
(* an interval than the bucket holds plus what refills meanwhile.          *)
THEOREM RateConformanceHolds == Spec => []RateConformance
<1>1. Inv => RateConformance
  BY Zenon DEF Inv
<1> QED BY <1>1, InvHolds, PTL

(* token_bucket.rs: the debt of the bucket stays within its tolerance.     *)
THEOREM DebtBoundedHolds == Spec => []DebtBounded
<1>1. Inv => DebtBounded
  BY Zenon DEF Inv
<1> QED BY <1>1, InvHolds, PTL

(* token_bucket.rs and rate-limiting.md:97: the Retry-After of a rejection *)
(* is the exact number of seconds, rounded up, until the bucket would let  *)
(* the client through.                                                     *)
THEOREM RetryAfterExactHolds == Spec => []RetryAfterExact
<1>1. Inv => RetryAfterExact
  <2> SUFFICES ASSUME Inv, NEW t \in Threads, pc[t] = "loop",
                      ~Admits(cfg, seen[t], stamp[t]),
                      LimitAt(cfg, stamp[t] + RetryAfter(cfg, seen[t], stamp[t]) * MsPerSec) < U64Max
               PROVE  /\ Admits(cfg, seen[t], stamp[t] + RetryAfter(cfg, seen[t], stamp[t]) * MsPerSec)
                      /\ ~Admits(cfg, seen[t], stamp[t] + (RetryAfter(cfg, seen[t], stamp[t]) - 1) * MsPerSec)
    BY Zenon DEF RetryAfterExact
  <2>1. /\ cfg \in Configuration /\ Emission(cfg) # 0
        /\ seen[t] \in 0 .. U64Max /\ stamp[t] \in Nat
    BY TokenBucketAssumption DEF Inv, TypeOK, LoopRefills, Stamps
  <2> QED BY <2>1, RetryAfterLemma, Zenon
<1> QED BY <1>1, InvHolds, PTL

-----------------------------------------------------------------------------
(* The CAS loop implements the one-step bucket *)

LEMMA InitPromise == Init => Promise!Init
BY Zenon DEF Init, Promise!Init, Promise!Nobody

(* Both modules extend Gcra with the same constants. *)
LEMMA SameArithmetic ==
  ASSUME NEW c, NEW w, NEW ms
  PROVE  /\ Promise!Admits(c, w, ms) = Admits(c, w, ms)
         /\ Promise!NewTat(c, w, ms) = NewTat(c, w, ms)
BY Zenon DEF Admits, NewTat, LimitAt, Emission, Tolerance, Capacity, Now, Sat, Later,
       NanosPerSec, Promise!Admits, Promise!NewTat, Promise!LimitAt,
       Promise!Emission, Promise!Tolerance, Promise!Capacity, Promise!Now,
       Promise!Sat, Promise!Later, Promise!NanosPerSec

LEMMA NextPromise == Inv /\ [Next]_vars => [Promise!Next]_(Promise!vars)
<1> DEFINE asked == [t \in Threads |-> IF pc[t] = "idle" THEN -1 ELSE stamp[t]]
<1> SUFFICES ASSUME Inv, [Next]_vars PROVE [Promise!Next]_(Promise!vars)
  BY Zenon
<1> USE DEF Promise!vars, Promise!Nobody
<1>1. /\ cfg \in Configuration
      /\ clock \in Stamps
      /\ tat \in 0 .. U64Max
      /\ pc \in [Threads -> {"idle", "check", "loop"}]
      /\ \A t \in Threads : /\ stamp[t] \in Nat /\ stamp[t] # -1
                            /\ seen[t] \in 0 .. U64Max /\ seen[t] <= tat
  BY TokenBucketAssumption DEF Inv, TypeOK, LocalsBehind, Stamps
<1>2. CASE UNCHANGED vars
  BY <1>2, Zenon DEF vars
<1>3. CASE Tick
  BY <1>3, Zenon DEF Tick
<1>4. ASSUME NEW t \in Threads, Load(t) \/ Retry(t)
      PROVE  UNCHANGED Promise!vars
  <2>1. \A u \in Threads : (pc'[u] = "idle") <=> (pc[u] = "idle")
    BY <1>1, <1>4, Zenon DEF Load, Retry
  <2> QED BY <1>4, <2>1, Zenon DEF Load, Retry
<1>5. ASSUME NEW t \in Threads, Arrive(t) PROVE Promise!Ask(t)
  <2>1. asked' = [asked EXCEPT ![t] = clock]
    BY <1>1, <1>5, Zenon DEF Arrive, Inv, TypeOK
  <2> QED BY <1>1, <1>5, <2>1, Zenon DEF Arrive, Promise!Ask
<1>6. ASSUME NEW t \in Threads, pc[t] # "idle", pc' = [pc EXCEPT ![t] = "idle"],
             UNCHANGED stamp
      PROVE  asked[t] = stamp[t] /\ asked[t] # -1 /\ asked' = [asked EXCEPT ![t] = -1]
  BY <1>1, <1>6, Zenon
<1>7. ASSUME NEW t \in Threads, RejectAll(t) \/ Reject(t) PROVE Promise!Refuse(t)
  <2>1. ~Admits(cfg, tat, stamp[t])
    BY <1>1, <1>7, RejectionIsStable, Zenon DEF RejectAll, Reject, Admits
  <2>2. pc[t] # "idle" /\ pc' = [pc EXCEPT ![t] = "idle"] /\ UNCHANGED <<cfg, tat, stamp>>
    BY <1>7, Zenon DEF RejectAll, Reject
  <2>3. ~Promise!Admits(cfg, tat, asked[t])
    <3>1. asked[t] = stamp[t]
      BY <1>6, <2>2, Zenon
    <3> HIDE DEF asked
    <3> QED BY <2>1, <3>1, SameArithmetic, Zenon
  <2> QED BY <1>6, <2>2, <2>3, Zenon DEF Promise!Refuse
<1>8. ASSUME NEW t \in Threads, Accept(t) PROVE Promise!Grant(t)
  <2>1. /\ pc[t] # "idle" /\ pc' = [pc EXCEPT ![t] = "idle"]
        /\ UNCHANGED <<cfg, stamp>>
        /\ Admits(cfg, tat, stamp[t])
        /\ tat' = NewTat(cfg, tat, stamp[t])
    BY <1>8, Zenon DEF Accept
  <2>2. Promise!Admits(cfg, tat, asked[t]) /\ tat' = Promise!NewTat(cfg, tat, asked[t])
    <3>1. asked[t] = stamp[t]
      BY <1>6, <2>1, Zenon
    <3> HIDE DEF asked
    <3> QED BY <2>1, <3>1, SameArithmetic, Zenon
  <2> QED BY <1>6, <2>1, <2>2, Zenon DEF Promise!Grant
<1> QED BY <1>2, <1>3, <1>4, <1>5, <1>7, <1>8, Zenon DEF Next, Check, Promise!Next

(* token_bucket.rs:56-97 is linearizable: its loads, retries and swaps     *)
(* decide every request as one atomic step of BucketPromise would.         *)
THEOREM ImplementsPromiseHolds == Spec => ImplementsPromise
<1> QED BY InitPromise, NextPromise, InvHolds, PTL DEF Spec, ImplementsPromise, Promise!Spec

-----------------------------------------------------------------------------
(* The store of the limiter states *)

CONSTANTS Clients, Overflow, Scopes, Policy, MaxTracked

VARIABLES states, tracked, key, sweep, last

Store == INSTANCE LimiterStore

(* The instance computes with the same arithmetic. *)
LEMMA StoreArithmetic ==
  /\ \A ms : Store!Now(ms) = Now(ms)
  /\ \A v, ms : Store!IsIdle(v, ms) <=> v <= Now(ms)
  /\ \A v, ms : Store!Charge(v, ms) = IF Admits(Policy, v, ms) THEN NewTat(Policy, v, ms) ELSE v
<1>1. \A x : Store!Sat(x) = Sat(x)
  BY Zenon DEF Store!Sat, Sat
<1>2. \A x, y : Store!Later(x, y) = Later(x, y)
  BY Zenon DEF Store!Later, Later
<1>3. \A ms : Store!Now(ms) = Now(ms)
  BY <1>1, Zenon DEF Store!Now, Now
<1>4. Store!Emission(Policy) = Emission(Policy)
  BY <1>1, <1>2, Zenon DEF Store!Emission, Emission, Store!NanosPerSec, NanosPerSec
<1>5. Store!Tolerance(Policy) = Tolerance(Policy)
  BY <1>1, <1>4, Zenon DEF Store!Tolerance, Tolerance, Store!Capacity, Capacity
<1>6. \A ms : Store!LimitAt(Policy, ms) = LimitAt(Policy, ms)
  BY <1>1, <1>3, <1>5, Zenon DEF Store!LimitAt, LimitAt
<1>7. \A v, ms : Store!NewTat(Policy, v, ms) = NewTat(Policy, v, ms)
  BY <1>1, <1>2, <1>3, <1>4, Zenon DEF Store!NewTat, NewTat
<1>8. \A v, ms : Store!Admits(Policy, v, ms) <=> Admits(Policy, v, ms)
  BY <1>4, <1>6, <1>7, Zenon DEF Store!Admits, Admits
<1>9. \A v, ms : Store!Charge(v, ms) = IF Admits(Policy, v, ms) THEN NewTat(Policy, v, ms) ELSE v
  BY <1>7, <1>8, Zenon DEF Store!Charge
<1> QED BY <1>3, <1>9, Zenon DEF Store!IsIdle

(* A bucket that refills admits and charges a request alike whether it is  *)
(* fresh or idle; one that never refills admits none.                      *)
LEMMA IdleIsFresh ==
  ASSUME Policy \in Configuration, NEW ms \in Nat, NEW v \in 0 .. U64Max, v <= Now(ms),
         Emission(Policy) = 0 => v = 0
  PROVE  Store!Charge(v, ms) = Store!Charge(0, ms)
<1>1. Now(ms) \in 0 .. U64Max /\ Emission(Policy) \in Nat /\ Tolerance(Policy) \in 0 .. U64Max
  BY NowType, PolicyTypes, Zenon
<1>2. CASE Emission(Policy) = 0
  BY <1>2, Zenon
<1>3. CASE Emission(Policy) # 0
  <2>1. NewTat(Policy, v, ms) = NewTat(Policy, 0, ms)
    BY <1>1, GcraAssumption DEF NewTat, Later
  <2>2. NewTat(Policy, 0, ms) = Sat(Now(ms) + Emission(Policy))
    BY <1>1 DEF NewTat, Later
  <2>3. Emission(Policy) <= Tolerance(Policy)
    BY <1>3, EmissionFits, Zenon
  <2>4. Sat(Now(ms) + Emission(Policy)) <= LimitAt(Policy, ms)
    BY <1>1, <2>3, GcraAssumption DEF LimitAt, Sat
  <2>5. Admits(Policy, v, ms) /\ Admits(Policy, 0, ms)
    BY <1>3, <2>1, <2>2, <2>4, Zenon DEF Admits
  <2> QED BY <2>1, <2>5, StoreArithmetic, Zenon
<1> QED BY <1>2, <1>3, Zenon

LEMMA ChargeType ==
  ASSUME Policy \in Configuration, NEW ms \in Nat, NEW v \in 0 .. U64Max,
         Emission(Policy) = 0 => v = 0
  PROVE  /\ Store!Charge(v, ms) \in 0 .. U64Max
         /\ Emission(Policy) = 0 => Store!Charge(v, ms) = 0
<1>1. NewTat(Policy, v, ms) \in 0 .. U64Max
  BY NewTatType, Zenon
<1> QED BY <1>1, StoreArithmetic, Zenon DEF Admits

(* A key that is absent was idle at the latest sweep, or never used. *)
SweptIdle ==
  \A k \in Store!Keys :
    IF k \in DOMAIN states THEN last[k] = states[k] ELSE last[k] <= Now(sweep.now)

StoreTypes ==
  /\ DOMAIN states \subseteq Store!Keys
  /\ states \in [DOMAIN states -> 0 .. U64Max]
  /\ clock \in Nat
  /\ pc \in [Threads -> {"idle", "get", "capacity", "entry"}]
  /\ stamp \in [Threads -> Nat]
  /\ DOMAIN key = Threads
  /\ \A t \in Threads : pc[t] # "idle" => key[t] \in Store!Keys
  /\ sweep = [phase |-> sweep.phase, now |-> sweep.now, visit |-> sweep.visit, len |-> sweep.len]
  /\ sweep.now \in Nat /\ sweep.visit \subseteq Store!Keys
  /\ last \in [Store!Keys -> 0 .. U64Max]

StoreInv ==
  /\ StoreTypes
  /\ sweep.now <= clock
  /\ Emission(Policy) = 0 => \A k \in Store!Keys : last[k] = 0
  /\ SweptIdle

LEMMA StoreInit == Store!Init => StoreInv
<1> SUFFICES ASSUME Store!Init PROVE StoreInv
  BY Zenon
<1>1. StoreTypes
  BY GcraAssumption DEF Store!Init, StoreTypes
<1>2. SweptIdle
  <2>1. Now(0) \in Nat
    BY NowType
  <2> QED BY <2>1 DEF Store!Init, SweptIdle
<1> QED BY <1>1, <1>2 DEF Store!Init, StoreInv

(* A check charges the key, which is then present. *)
LEMMA ChargedKey ==
  ASSUME Policy \in Configuration, StoreInv, NEW t \in Threads, pc[t] # "idle",
         NEW v \in 0 .. U64Max, Emission(Policy) = 0 => v = 0,
         states' = Store!Put(key[t], Store!Charge(v, stamp[t])),
         last' = [last EXCEPT ![key[t]] = Store!Charge(v, stamp[t])],
         Store!Return(t), clock' = clock, sweep' = sweep
  PROVE  StoreInv'
<1> DEFINE k == key[t]
           c == Store!Charge(v, stamp[t])
<1>1. k \in Store!Keys /\ stamp[t] \in Nat
  BY Zenon DEF StoreInv, StoreTypes
<1>2. c \in 0 .. U64Max /\ (Emission(Policy) = 0 => c = 0)
  BY <1>1, ChargeType, Zenon
<1> HIDE DEF c
<1>3. states' = [q \in DOMAIN states \cup {k} |-> IF q = k THEN c ELSE states[q]]
  BY Zenon DEF Store!Put, Store!Present, c
<1>4. last' = [last EXCEPT ![k] = c] /\ last' \in [Store!Keys -> 0 .. U64Max]
  BY <1>1, <1>2, Zenon DEF StoreInv, StoreTypes, c
<1> HIDE DEF k
<1>5. /\ DOMAIN states' = DOMAIN states \cup {k}
      /\ \A q \in DOMAIN states \cup {k} : states'[q] = IF q = k THEN c ELSE states[q]
  BY <1>3, Zenon
<1>6. DOMAIN states' \subseteq Store!Keys /\ states' \in [DOMAIN states' -> 0 .. U64Max]
  BY <1>1, <1>2, <1>3, <1>5, Zenon DEF StoreInv, StoreTypes
<1>7. StoreTypes'
  <2>1. /\ pc' \in [Threads -> {"idle", "get", "capacity", "entry"}]
        /\ stamp' \in [Threads -> Nat] /\ DOMAIN key' = Threads
        /\ \A u \in Threads : pc'[u] # "idle" => key'[u] \in Store!Keys'
    BY Zenon DEF StoreInv, StoreTypes, Store!Return, Store!Keys
  <2>2. Store!Keys' = Store!Keys
    BY Zenon DEF Store!Keys
  <2> QED BY <1>4, <1>6, <2>1, <2>2, Zenon DEF StoreInv, StoreTypes
<1>8. SweptIdle'
  <2>1. \A q \in Store!Keys : last'[q] = IF q = k THEN c ELSE last[q]
    BY <1>1, <1>4, Zenon DEF StoreInv, StoreTypes
  <2>2. Store!Keys' = Store!Keys /\ sweep' = sweep /\ Now(sweep.now)' = Now(sweep.now)
    BY Zenon DEF Store!Keys, Now, Sat
  <2>3. ASSUME NEW q \in Store!Keys
        PROVE  IF q \in DOMAIN states' THEN last'[q] = states'[q] ELSE last'[q] <= Now(sweep.now)
    <3>1. IF q \in DOMAIN states THEN last[q] = states[q] ELSE last[q] <= Now(sweep.now)
      BY Zenon DEF StoreInv, SweptIdle
    <3>2. CASE q = k
      BY <1>5, <2>1, <3>2, Zenon
    <3>3. CASE q # k
      BY <1>5, <2>1, <3>1, <3>3, Zenon
    <3> QED BY <3>2, <3>3, Zenon
  <2> QED BY <2>2, <2>3, Zenon DEF SweptIdle
<1>9. Emission(Policy) = 0 => \A q \in Store!Keys : last'[q] = 0
  BY <1>1, <1>2, <1>4, Zenon DEF StoreInv, StoreTypes
<1> QED BY <1>7, <1>8, <1>9, Zenon DEF StoreInv, Store!Keys

LEMMA StoreStep ==
  ASSUME Policy \in Configuration
  PROVE  StoreInv /\ [Store!Next]_(Store!vars) => StoreInv'
<1> SUFFICES ASSUME StoreInv, [Store!Next]_(Store!vars) PROVE StoreInv'
  BY Zenon
<1>0. Store!Keys' = Store!Keys
  BY Zenon DEF Store!Keys
<1>1. CASE Store!Tick
  <2>1. clock' = clock + 1
    BY <1>1, Zenon DEF Store!Tick
  <2>2. StoreTypes' /\ SweptIdle'
    BY <1>0, <1>1, <2>1 DEF StoreInv, StoreTypes, SweptIdle, Store!Tick
  <2> QED BY <1>0, <1>1, <2>1, <2>2 DEF StoreInv, StoreTypes, Store!Tick
<1>2. CASE Store!SweepStart
  <2>1. sweep' = [phase |-> "retain", now |-> clock, visit |-> Store!Keys, len |-> sweep.len]
    BY <1>2, Zenon DEF StoreInv, StoreTypes, Store!SweepStart
  <2>2. sweep'.now = clock /\ sweep'.visit = Store!Keys /\ sweep'.phase = "retain" /\ sweep'.len = sweep.len
    BY <2>1, Zenon
  <2>3. StoreTypes'
    BY <1>0, <1>2, <2>1, <2>2, Zenon DEF StoreInv, StoreTypes, Store!SweepStart
  <2>4. Now(sweep.now) <= Now(clock) /\ Now(sweep.now) \in Nat /\ Now(clock) \in Nat
    <3>1. sweep.now \in Nat /\ clock \in Nat /\ sweep.now <= clock
      BY Zenon DEF StoreInv, StoreTypes
    <3> QED BY <3>1, NowMonotone, NowType
  <2>5. ASSUME NEW k \in Store!Keys, k \notin DOMAIN states PROVE last[k] <= Now(clock)
    <3>1. last[k] \in Int /\ last[k] <= Now(sweep.now)
      BY <2>5 DEF StoreInv, StoreTypes, SweptIdle
    <3> QED BY <2>4, <3>1
  <2>6. SweptIdle'
    BY <1>0, <1>2, <2>2, <2>5, Zenon DEF StoreInv, SweptIdle, Store!SweepStart
  <2> QED BY <1>0, <1>2, <2>2, <2>3, <2>6 DEF StoreInv, StoreTypes, Store!SweepStart
<1>3. CASE Store!SweepVisit
  <2>1. PICK k \in sweep.visit :
          /\ states' = IF k \in DOMAIN states /\ Store!IsIdle(states[k], sweep.now)
                       THEN [q \in DOMAIN states \ {k} |-> states[q]] ELSE states
          /\ sweep' = [sweep EXCEPT !.visit = @ \ {k},
                                    !.phase = IF sweep.visit = {k} THEN "len" ELSE @]
    BY <1>3, Zenon DEF Store!SweepVisit, Store!Present
  <2>2. /\ sweep' = [phase |-> sweep'.phase, now |-> sweep.now,
                     visit |-> sweep.visit \ {k}, len |-> sweep.len]
        /\ sweep'.now = sweep.now /\ sweep'.visit = sweep.visit \ {k} /\ sweep'.len = sweep.len
    BY <2>1, Zenon DEF StoreInv, StoreTypes
  <2>3. /\ pc' = pc /\ stamp' = stamp /\ key' = key /\ last' = last /\ clock' = clock
    BY <1>3, Zenon DEF Store!SweepVisit
  <2>4. /\ DOMAIN states' \subseteq DOMAIN states
        /\ \A q \in DOMAIN states' : states'[q] = states[q]
        /\ \A q \in DOMAIN states \ DOMAIN states' : states[q] <= Now(sweep.now)
    <3>1. CASE k \in DOMAIN states /\ Store!IsIdle(states[k], sweep.now)
      <4>1. states[k] <= Now(sweep.now)
        BY <3>1, StoreArithmetic, Zenon
      <4>2. states' = [q \in DOMAIN states \ {k} |-> states[q]]
        BY <2>1, <3>1, Zenon
      <4> QED BY <4>1, <4>2, Zenon
    <3>2. CASE ~(k \in DOMAIN states /\ Store!IsIdle(states[k], sweep.now))
      BY <2>1, <3>2, Zenon
    <3> QED BY <3>1, <3>2, Zenon
  <2>5. states' \in [DOMAIN states' -> 0 .. U64Max]
    <3>1. CASE k \in DOMAIN states /\ Store!IsIdle(states[k], sweep.now)
      BY <2>1, <3>1, Zenon DEF StoreInv, StoreTypes
    <3>2. CASE ~(k \in DOMAIN states /\ Store!IsIdle(states[k], sweep.now))
      BY <2>1, <3>2, Zenon DEF StoreInv, StoreTypes
    <3> QED BY <3>1, <3>2, Zenon
  <2>6. StoreTypes'
    BY <1>0, <2>2, <2>3, <2>4, <2>5, Zenon DEF StoreInv, StoreTypes
  <2>7. SweptIdle'
    BY <1>0, <2>2, <2>3, <2>4, Zenon DEF StoreInv, StoreTypes, SweptIdle
  <2> QED BY <1>0, <2>2, <2>3, <2>6, <2>7, Zenon DEF StoreInv
<1>4. CASE Store!SweepLen \/ Store!SweepStore
  <2>1. /\ pc' = pc /\ stamp' = stamp /\ key' = key /\ last' = last /\ clock' = clock
        /\ states' = states
    BY <1>4, Zenon DEF Store!SweepLen, Store!SweepStore
  <2>2. /\ sweep' = [phase |-> sweep'.phase, now |-> sweep.now,
                     visit |-> sweep.visit, len |-> sweep'.len]
        /\ sweep'.now = sweep.now /\ sweep'.visit = sweep.visit
    BY <1>4, Zenon DEF Store!SweepLen, Store!SweepStore, StoreInv, StoreTypes
  <2>3. StoreTypes' /\ SweptIdle'
    BY <1>0, <2>1, <2>2, Zenon DEF StoreInv, StoreTypes, SweptIdle
  <2> QED BY <1>0, <2>1, <2>2, <2>3, Zenon DEF StoreInv
<1>5. ASSUME NEW t \in Threads, Store!Arrive(t) PROVE StoreInv'
  <2>1. StoreTypes'
    BY <1>0, <1>5, Zenon DEF StoreInv, StoreTypes, Store!Arrive, Store!Keys
  <2> QED BY <1>0, <1>5, <2>1, Zenon DEF StoreInv, SweptIdle, Store!Arrive
<1>6. ASSUME NEW t \in Threads, Store!Miss(t) PROVE StoreInv'
  <2>1. StoreTypes'
    BY <1>0, <1>6, Zenon DEF StoreInv, StoreTypes, Store!Miss
  <2> QED BY <1>0, <1>6, <2>1, Zenon DEF StoreInv, SweptIdle, Store!Miss
<1>7. ASSUME NEW t \in Threads, Store!ReadCapacity(t) PROVE StoreInv'
  <2>1. <<Overflow, key[t][2]>> \in Store!Keys
    BY <1>7, Zenon DEF StoreInv, StoreTypes, Store!ReadCapacity, Store!Keys
  <2>2. StoreTypes'
    BY <1>0, <1>7, <2>1, Zenon DEF StoreInv, StoreTypes, Store!ReadCapacity
  <2> QED BY <1>0, <1>7, <2>2, Zenon DEF StoreInv, SweptIdle, Store!ReadCapacity
<1>8. ASSUME NEW t \in Threads, Store!Hit(t) \/ Store!Occupied(t) PROVE StoreInv'
  <2>1. pc[t] # "idle" /\ key[t] \in DOMAIN states
    BY <1>8, Zenon DEF Store!Hit, Store!Occupied, Store!CheckState, Store!Present
  <2>2. /\ states' = Store!Put(key[t], Store!Charge(states[key[t]], stamp[t]))
        /\ last' = [last EXCEPT ![key[t]] = Store!Charge(states[key[t]], stamp[t])]
        /\ Store!Return(t) /\ clock' = clock /\ sweep' = sweep
    BY <1>8, Zenon DEF Store!Hit, Store!Occupied, Store!CheckState
  <2>3. states[key[t]] \in 0 .. U64Max /\ (Emission(Policy) = 0 => states[key[t]] = 0)
    BY <2>1, Zenon DEF StoreInv, StoreTypes, SweptIdle
  <2> QED BY <2>1, <2>2, <2>3, ChargedKey, Zenon
<1>9. ASSUME NEW t \in Threads, Store!Vacant(t) PROVE StoreInv'
  <2>1. 0 \in 0 .. U64Max
    BY GcraAssumption
  <2>2. /\ pc[t] # "idle"
        /\ states' = Store!Put(key[t], Store!Charge(0, stamp[t]))
        /\ last' = [last EXCEPT ![key[t]] = Store!Charge(0, stamp[t])]
        /\ Store!Return(t) /\ clock' = clock /\ sweep' = sweep
    BY <1>9, Zenon DEF Store!Vacant
  <2> QED BY <2>1, <2>2, ChargedKey, Zenon
<1>10. CASE UNCHANGED Store!vars
  BY <1>0, <1>10, Zenon DEF Store!vars, StoreInv, StoreTypes, SweptIdle
<1> QED
  BY <1>1, <1>2, <1>3, <1>4, <1>5, <1>6, <1>7, <1>8, <1>9, <1>10, Zenon
     DEF Store!Next, Store!EvictIdle, Store!Consume

(* The step of EvictionInvisible. *)
InsertedAsKept ==
  \A t \in Threads : Store!Vacant(t) /\ stamp[t] >= sweep.now =>
    states'[key[t]] = Store!Charge(last[key[t]], stamp[t])

LEMMA SweptIsFresh ==
  ASSUME Policy \in Configuration, StoreInv
  PROVE  InsertedAsKept
<1> SUFFICES ASSUME NEW t \in Threads, Store!Vacant(t), stamp[t] >= sweep.now
             PROVE  states'[key[t]] = Store!Charge(last[key[t]], stamp[t])
  BY Zenon DEF InsertedAsKept
<1>1. /\ key[t] \in Store!Keys /\ key[t] \notin DOMAIN states
      /\ states' = Store!Put(key[t], Store!Charge(0, stamp[t]))
  BY Zenon DEF Store!Vacant, Store!Present, StoreInv, StoreTypes
<1>2. states'[key[t]] = Store!Charge(0, stamp[t])
  BY <1>1, Zenon DEF Store!Put
<1>3. /\ last[key[t]] \in 0 .. U64Max /\ last[key[t]] <= Now(sweep.now)
      /\ Emission(Policy) = 0 => last[key[t]] = 0
      /\ stamp[t] \in Nat /\ sweep.now \in Nat
  BY <1>1, Zenon DEF StoreInv, StoreTypes, SweptIdle
<1>4. Now(sweep.now) <= Now(stamp[t]) /\ Now(sweep.now) \in Nat /\ Now(stamp[t]) \in Nat
  BY <1>3, NowMonotone, NowType
<1>5. last[key[t]] <= Now(stamp[t])
  BY <1>3, <1>4
<1>6. Store!Charge(last[key[t]], stamp[t]) = Store!Charge(0, stamp[t])
  BY <1>3, <1>5, IdleIsFresh, Zenon
<1> QED BY <1>2, <1>6, Zenon

(* store.rs:112: for any policy, keys, capacity, threads and timing of the *)
(* sweep, a client that was swept out is charged as if it had been kept.   *)
THEOREM EvictionInvisibleHolds ==
  ASSUME Policy \in Configuration
  PROVE  Store!Spec => Store!EvictionInvisible
<1>1. StoreInv /\ [Store!Next]_(Store!vars) => StoreInv'
  BY StoreStep, Zenon
<1>2. StoreInv => InsertedAsKept
  BY SweptIsFresh, Zenon
<1>3. StoreInv /\ [Store!Next]_(Store!vars) => [InsertedAsKept]_(Store!vars)
  BY <1>2, Zenon
<1>4. Store!EvictionInvisible <=> [][InsertedAsKept]_(Store!vars)
  BY Zenon DEF Store!EvictionInvisible, InsertedAsKept
<1> QED BY <1>1, <1>3, <1>4, StoreInit, PTL DEF Store!Spec

-----------------------------------------------------------------------------
(* The sliding window *)

CONSTANTS MaxRequests, WindowSecs

VARIABLES currentWindow, currentCount, previousWindow, previousCount,
          window, weighed, count, granted, overlapped

Sliding == INSTANCE SlidingWindow

(* SlidingWindow::new: any limit, a window of at least a second. *)
SlidingPolicy == MaxRequests \in Nat /\ WindowSecs \in Nat \ {0}

LEMMA DivMonotone ==
  ASSUME NEW a \in Nat, NEW b \in Nat, NEW n \in Nat \ {0}, a <= b
  PROVE  a \div n \in Nat /\ b \div n \in Nat /\ a \div n <= b \div n
<1> DEFINE p == a \div n
           q == b \div n
<1>1. p \in Nat /\ p * n <= a /\ q \in Nat /\ b < q * n + n
  BY Division, Zenon
<1> HIDE DEF p, q
<1>2. CASE q < p
  <2>1. PICK e \in Nat : p = q + 1 + e
    <3>1. p - q - 1 \in Nat /\ p = q + 1 + (p - q - 1)
      BY <1>1, <1>2
    <3> QED BY <3>1, Zenon
  <2>2. p * n = q * n + n + e * n /\ e * n \in Nat /\ q * n \in Nat
    BY <1>1, <2>1
  <2> QED BY <1>1, <2>2
<1> QED BY <1>1, <1>2 DEF p, q

(* Later stamps are in later windows. *)
LEMMA WindowOrder ==
  ASSUME SlidingPolicy
  PROVE  /\ Sliding!Windows \subseteq Nat /\ 0 \in Sliding!Windows
         /\ \A w \in Sliding!Windows, v \in Nat : v <= w => v \in Sliding!Windows
         /\ Sliding!WindowMs \in Nat \ {0}
         /\ \A ms \in 0 .. MaxMs : Sliding!WindowOf(ms) \in Sliding!Windows
         /\ \A a, b \in 0 .. MaxMs : a <= b => Sliding!WindowOf(a) <= Sliding!WindowOf(b)
         /\ Sliding!WindowOf(0) = 0
<1>1. Sliding!WindowMs \in Nat \ {0}
  <2>1. ASSUME NEW a \in Nat \ {0}, NEW b \in Nat \ {0} PROVE a * b \in Nat \ {0}
    OBVIOUS
  <2> QED BY <2>1, GcraAssumption, Zenon DEF Sliding!WindowMs, SlidingPolicy
<1>2. ASSUME NEW a \in 0 .. MaxMs, NEW b \in 0 .. MaxMs, a <= b
      PROVE  Sliding!WindowOf(a) \in Nat /\ Sliding!WindowOf(b) \in Nat
             /\ Sliding!WindowOf(a) <= Sliding!WindowOf(b)
  <2>1. a \in Nat /\ b \in Nat
    BY TokenBucketAssumption
  <2> QED BY <1>1, <1>2, <2>1, DivMonotone, Zenon DEF Sliding!WindowOf
<1>3. MaxMs \in 0 .. MaxMs /\ 0 \in 0 .. MaxMs /\ \A ms \in 0 .. MaxMs : ms <= MaxMs /\ ms <= ms
  BY TokenBucketAssumption
<1>4. Sliding!WindowOf(MaxMs) \in Nat
  BY <1>2, <1>3, Zenon
<1>5. \A ms \in 0 .. MaxMs : Sliding!WindowOf(ms) \in Nat /\ Sliding!WindowOf(ms) <= Sliding!WindowOf(MaxMs)
  BY <1>2, <1>3, Zenon
<1>6. Sliding!WindowOf(0) = 0
  BY <1>1 DEF Sliding!WindowOf
<1> QED BY <1>1, <1>2, <1>4, <1>5, <1>6 DEF Sliding!Windows

(* What fits with more accepted fits with less. *)
LEMMA FitsMonotone ==
  ASSUME SlidingPolicy, NEW p \in Nat, NEW a \in Nat, NEW b \in Nat, NEW ms \in 0 .. MaxMs,
         a <= b, Sliding!Fits(p, b, ms)
  PROVE  Sliding!Fits(p, a, ms)
<1> DEFINE m == Sliding!WindowMs
           e == p * (m - Sliding!Elapsed(ms))
<1>1. m \in Nat \ {0}
  BY WindowOrder, Zenon
<1>2. Sliding!Elapsed(ms) \in Int
  BY <1>1, TokenBucketAssumption DEF Sliding!Elapsed
<1>3. e \in Int
  BY <1>1, <1>2
<1>4. (a + 1) * m \in Nat /\ (b + 1) * m \in Nat /\ (a + 1) * m <= (b + 1) * m
  BY <1>1, MulMonotone
<1>5. MaxRequests * m \in Nat
  BY <1>1 DEF SlidingPolicy
<1>6. e + (b + 1) * m <= MaxRequests * m
  BY Zenon DEF Sliding!Fits
<1> HIDE DEF e, m
<1>7. e + (a + 1) * m <= MaxRequests * m
  BY <1>3, <1>4, <1>5, <1>6
<1> QED BY <1>7, Zenon DEF Sliding!Fits, e, m

SlidingTypes ==
  /\ currentWindow \in Sliding!Windows /\ previousWindow \in Sliding!Windows
  /\ currentCount \in Nat /\ previousCount \in Nat
  /\ clock \in 0 .. MaxMs
  /\ pc \in [Threads -> Sliding!Operations]
  /\ stamp \in [Threads -> 0 .. MaxMs]
  /\ window \in [Threads -> Sliding!Windows]
  /\ weighed \in [Threads -> Nat]
  /\ count \in [Threads -> Nat]
  /\ granted \in [Sliding!Windows -> Nat]
  /\ overlapped \in BOOLEAN
  /\ \A t \in Threads : stamp[t] <= clock

Rotating(t) == pc[t] \in {"swap", "storeCount", "storeWindow"}

Reading(t) == pc[t] \in {"readWindow", "readCount", "readCurrent", "loop"}

(* What a check in the current window weighs of the one before. *)
Weight == IF previousWindow + 1 = currentWindow THEN previousCount ELSE 0

NoneAfter(w) == \A v \in Sliding!Windows : v > w => granted[v] = 0

(* Between rotations the words are what was really granted. *)
WordsTrue ==
  /\ currentCount = granted[currentWindow]
  /\ NoneAfter(currentWindow)
  /\ currentWindow # 0 => Weight = granted[currentWindow - 1]

(* A rotation carries the count of the old window along. *)
Carries(t) ==
  /\ window[t] < currentWindow
  /\ NoneAfter(window[t])
  /\ pc[t] = "swap" => currentCount = granted[window[t]]
  /\ pc[t] = "storeCount" => count[t] = granted[window[t]] /\ currentCount = 0
  /\ pc[t] = "storeWindow" => previousCount = granted[window[t]] /\ currentCount = 0

InCheck(t) ==
  /\ pc[t] # "idle" => currentWindow <= Sliding!WindowOf(stamp[t])
  /\ pc[t] = "rotate" => window[t] = currentWindow /\ Sliding!WindowOf(stamp[t]) # currentWindow
  /\ Rotating(t) \/ Reading(t) => Sliding!WindowOf(stamp[t]) = currentWindow
  /\ pc[t] = "readCount" => previousWindow + 1 = currentWindow
  /\ pc[t] \in {"readCurrent", "loop"} => weighed[t] = Weight
  /\ pc[t] = "loop" => count[t] <= currentCount

Alone(t) == \A u \in Threads \ {t} : pc[u] = "idle"

Clean ==
  /\ currentWindow <= Sliding!WindowOf(clock)
  /\ \A t \in Threads : Rotating(t) => Alone(t) /\ Carries(t)
  /\ \A t \in Threads : InCheck(t)
  /\ (\A t \in Threads : ~Rotating(t)) => WordsTrue

SlidingInv == SlidingTypes /\ (overlapped = FALSE => Clean)

LEMMA SlidingInit == ASSUME SlidingPolicy PROVE Sliding!Init => SlidingInv
<1> SUFFICES ASSUME Sliding!Init PROVE SlidingInv
  BY Zenon
<1>1. SlidingTypes
  <2>1. overlapped \in BOOLEAN
    BY Zenon DEF Sliding!Init
  <2>2. 0 \in Sliding!Windows /\ 0 \in 0 .. MaxMs
    BY WindowOrder, TokenBucketAssumption
  <2> QED BY <2>1, <2>2 DEF Sliding!Init, SlidingTypes, Sliding!Operations
<1>2. Clean
  <2>1. \A t \in Threads : ~Rotating(t) /\ InCheck(t)
    BY Zenon DEF Sliding!Init, Rotating, InCheck, Reading
  <2>2. WordsTrue
    BY WindowOrder, Zenon DEF Sliding!Init, WordsTrue, NoneAfter
  <2>3. currentWindow <= Sliding!WindowOf(clock)
    BY WindowOrder DEF Sliding!Init
  <2> QED BY <2>1, <2>2, <2>3, Zenon DEF Clean
<1> QED BY <1>1, <1>2, Zenon DEF SlidingInv

(* While no rotation has met a check, a thread inside check that does not  *)
(* rotate sees true words.                                                 *)
LEMMA CheckSeesTrueWords ==
  ASSUME SlidingInv, overlapped = FALSE, NEW t \in Threads, pc[t] # "idle", ~Rotating(t)
  PROVE  WordsTrue /\ \A u \in Threads : ~Rotating(u)
  BY Zenon DEF SlidingInv, Clean, Alone

(* The step of SlidingPromise. *)
DecidesByGrants ==
  \A t \in Threads :
    LET real == Sliding!Accepted(stamp[t])
        room == Sliding!Fits(real.previous, real.current, stamp[t])
    IN  ~overlapped => (Sliding!Accept(t) => room) /\ (Sliding!Reject(t) => ~room)

LEMMA Decides ==
  ASSUME SlidingPolicy, SlidingInv
  PROVE  DecidesByGrants
<1> SUFFICES ASSUME NEW t \in Threads, ~overlapped, pc[t] = "loop"
             PROVE  LET real == Sliding!Accepted(stamp[t])
                        room == Sliding!Fits(real.previous, real.current, stamp[t])
                    IN  (Sliding!Accept(t) => room) /\ (Sliding!Reject(t) => ~room)
  BY Zenon DEF DecidesByGrants, Sliding!Accept, Sliding!Reject, Sliding!Return, Sliding!Goto
<1> DEFINE w == Sliding!WindowOf(stamp[t])
           p == IF w = 0 THEN 0 ELSE granted[w - 1]
           c == granted[w]
<1>1. overlapped = FALSE
  BY Zenon DEF SlidingInv, SlidingTypes
<1>2. WordsTrue /\ InCheck(t) /\ SlidingTypes
  BY <1>1, CheckSeesTrueWords, Zenon DEF SlidingInv, Clean, Rotating
<1>3. w = currentWindow /\ weighed[t] = Weight /\ count[t] <= currentCount
  BY <1>2, Zenon DEF InCheck, Reading
<1>4. c = currentCount /\ c \in Nat /\ count[t] \in Nat /\ stamp[t] \in 0 .. MaxMs /\ w \in Nat
  BY <1>2, <1>3, WindowOrder, Zenon DEF WordsTrue, SlidingTypes
<1>5. weighed[t] = p
  <2>1. CASE w = 0
    <3>1. previousWindow \in Nat
      BY <1>2, WindowOrder, Zenon DEF SlidingTypes
    <3> QED BY <1>3, <2>1, <3>1 DEF Weight
  <2>2. CASE w # 0
    BY <1>2, <1>3, <2>2, Zenon DEF WordsTrue
  <2> QED BY <2>1, <2>2, Zenon
<1>6. p \in Nat
  BY <1>2, <1>5, Zenon DEF SlidingTypes
<1> HIDE DEF w, p, c
<1>7. Sliding!Accept(t) => Sliding!Fits(p, c, stamp[t])
  BY <1>4, <1>5, Zenon DEF Sliding!Accept
<1>8. Sliding!Reject(t) => ~Sliding!Fits(p, c, stamp[t])
  <2>1. Sliding!Reject(t) => ~Sliding!Fits(p, count[t], stamp[t])
    BY <1>5, Zenon DEF Sliding!Reject
  <2> QED BY <1>3, <1>4, <1>6, <2>1, FitsMonotone, Zenon
<1>9. Sliding!Accepted(stamp[t]) = [current |-> c, previous |-> p]
  BY Zenon DEF Sliding!Accepted, w, p, c
<1> QED BY <1>7, <1>8, <1>9, SMTT(30)

LEMMA SlidingTypesStep ==
  ASSUME SlidingPolicy, SlidingTypes, [Sliding!Next]_(Sliding!vars)
  PROVE  SlidingTypes'
<1> USE DEF Sliding!Goto, Sliding!shared, Sliding!locals
<1>0. /\ Sliding!Windows' = Sliding!Windows /\ Sliding!Operations' = Sliding!Operations
      /\ Sliding!Windows \subseteq Nat /\ 0 \in Sliding!Windows
      /\ \A ms \in 0 .. MaxMs : Sliding!WindowOf(ms) \in Sliding!Windows
  BY WindowOrder, Zenon DEF Sliding!Windows, Sliding!WindowOf, Sliding!WindowMs, Sliding!Operations
<1>1. overlapped' \in BOOLEAN
  BY Zenon DEF SlidingTypes, Sliding!Next, Sliding!vars
<1>2. CASE Sliding!Tick
  <2>1. /\ clock \in 0 .. MaxMs /\ clock' = clock + 1 /\ clock' \in 0 .. MaxMs
        /\ \A u \in Threads : stamp'[u] \in 0 .. MaxMs /\ stamp'[u] <= clock
    BY <1>2, TokenBucketAssumption DEF SlidingTypes, Sliding!Tick
  <2>2. \A u \in Threads : stamp'[u] <= clock'
    BY <2>1
  <2> QED BY <1>0, <1>1, <1>2, <2>1, <2>2, Zenon DEF SlidingTypes, Sliding!Tick
<1>3. ASSUME NEW t \in Threads, Sliding!Arrive(t) PROVE SlidingTypes'
  BY <1>0, <1>1, <1>3, TokenBucketAssumption DEF SlidingTypes, Sliding!Arrive, Sliding!Operations
<1>4. ASSUME NEW t \in Threads, Sliding!LoadWindow(t) PROVE SlidingTypes'
  BY <1>0, <1>1, <1>4, Zenon DEF SlidingTypes, Sliding!LoadWindow, Sliding!Operations
<1>5. ASSUME NEW t \in Threads, Sliding!Rotate(t) \/ Sliding!RotateLost(t) PROVE SlidingTypes'
  <2>1. CASE Sliding!Rotate(t)
    BY <1>0, <1>1, <2>1, Zenon DEF SlidingTypes, Sliding!Rotate, Sliding!Operations
  <2>2. CASE Sliding!RotateLost(t)
    BY <1>0, <1>1, <2>2, Zenon DEF SlidingTypes, Sliding!RotateLost, Sliding!Operations
  <2> QED BY <1>5, <2>1, <2>2, Zenon
<1>6. ASSUME NEW t \in Threads,
             Sliding!SwapCount(t) \/ Sliding!StoreCount(t) \/ Sliding!StoreWindow(t)
      PROVE  SlidingTypes'
  <2>1. CASE Sliding!SwapCount(t)
    BY <1>0, <1>1, <2>1, Zenon DEF SlidingTypes, Sliding!SwapCount, Sliding!Operations
  <2>2. CASE Sliding!StoreCount(t)
    BY <1>0, <1>1, <2>2, Zenon DEF SlidingTypes, Sliding!StoreCount, Sliding!Operations
  <2>3. CASE Sliding!StoreWindow(t)
    BY <1>0, <1>1, <2>3, Zenon DEF SlidingTypes, Sliding!StoreWindow, Sliding!Operations
  <2> QED BY <1>6, <2>1, <2>2, <2>3, Zenon
<1>7. ASSUME NEW t \in Threads, \/ Sliding!ReadPreviousWindow(t) \/ Sliding!ReadPreviousCount(t)
                                \/ Sliding!ReadCurrentCount(t) \/ Sliding!Retry(t)
      PROVE  SlidingTypes'
  <2>1. CASE Sliding!ReadPreviousWindow(t)
    BY <1>0, <1>1, <2>1, Zenon DEF SlidingTypes, Sliding!ReadPreviousWindow, Sliding!Operations
  <2>2. CASE Sliding!ReadPreviousCount(t)
    BY <1>0, <1>1, <2>2, Zenon DEF SlidingTypes, Sliding!ReadPreviousCount, Sliding!Operations
  <2>3. CASE Sliding!ReadCurrentCount(t)
    BY <1>0, <1>1, <2>3, Zenon DEF SlidingTypes, Sliding!ReadCurrentCount, Sliding!Operations
  <2>4. CASE Sliding!Retry(t)
    BY <1>0, <1>1, <2>4, Zenon DEF SlidingTypes, Sliding!Retry, Sliding!Operations
  <2> QED BY <1>7, <2>1, <2>2, <2>3, <2>4, Zenon
<1>8. ASSUME NEW t \in Threads, Sliding!Reject(t) \/ Sliding!Accept(t) PROVE SlidingTypes'
  <2>1. Sliding!Return(t) /\ clock' = clock
        /\ UNCHANGED <<currentWindow, previousWindow, previousCount>>
    BY <1>8, Zenon DEF Sliding!Reject, Sliding!Accept
  <2>2. granted' \in [Sliding!Windows -> Nat] /\ currentCount' \in Nat
    BY <1>0, <1>8 DEF SlidingTypes, Sliding!Reject, Sliding!Accept
  <2>3. 0 \in 0 .. MaxMs /\ 0 <= clock /\ "idle" \in Sliding!Operations
    BY TokenBucketAssumption DEF SlidingTypes, Sliding!Operations
  <2>4. /\ pc' \in [Threads -> Sliding!Operations] /\ stamp' \in [Threads -> 0 .. MaxMs]
        /\ window' \in [Threads -> Sliding!Windows] /\ weighed' \in [Threads -> Nat]
        /\ count' \in [Threads -> Nat] /\ \A u \in Threads : stamp'[u] <= clock'
    BY <1>0, <2>1, <2>3, Zenon DEF SlidingTypes, Sliding!Return
  <2> QED BY <1>0, <1>1, <2>1, <2>2, <2>4, Zenon DEF SlidingTypes
<1>9. CASE UNCHANGED Sliding!vars
  BY <1>0, <1>9, Zenon DEF SlidingTypes, Sliding!vars
<1> QED
  BY <1>2, <1>3, <1>4, <1>5, <1>6, <1>7, <1>8, <1>9, Zenon DEF Sliding!Next, Sliding!Check

(* A step of t outside a rotation that leaves the words alone. *)
LEMMA QuietCheck ==
  ASSUME SlidingInv, overlapped = FALSE, NEW t \in Threads, ~Rotating(t), ~Rotating(t)',
         UNCHANGED Sliding!shared, clock' = clock, granted' = granted,
         \A u \in Threads \ {t} : /\ pc'[u] = pc[u] /\ stamp'[u] = stamp[u] /\ window'[u] = window[u]
                                  /\ weighed'[u] = weighed[u] /\ count'[u] = count[u],
         \A u \in Threads : Rotating(u)' => Alone(u)',
         InCheck(t)'
  PROVE  Clean'
<1>1. UNCHANGED <<currentWindow, currentCount, previousWindow, previousCount>>
  BY Zenon DEF Sliding!shared
<1>2. \A u \in Threads : Rotating(u)' <=> Rotating(u)
  BY Zenon DEF Rotating
<1>3. ASSUME NEW u \in Threads PROVE InCheck(u)'
  <2>1. CASE u # t
    BY <1>1, <2>1, Zenon DEF SlidingInv, Clean, InCheck, Rotating, Reading, Weight, Sliding!WindowOf, Sliding!WindowMs
  <2> QED BY <2>1, Zenon
<1>4. ASSUME NEW u \in Threads, Rotating(u)' PROVE Carries(u)'
  <2>1. u # t /\ Carries(u)
    BY <1>2, <1>4, Zenon DEF SlidingInv, Clean
  <2> QED BY <1>1, <2>1, Zenon DEF Carries, NoneAfter, Sliding!Windows, Sliding!WindowOf, Sliding!WindowMs
<1>5. (\A u \in Threads : ~Rotating(u)') => WordsTrue'
  BY <1>1, <1>2, Zenon DEF SlidingInv, Clean, WordsTrue, NoneAfter, Weight, Sliding!Windows,
                    Sliding!WindowOf, Sliding!WindowMs
<1>6. (currentWindow <= Sliding!WindowOf(clock))'
  BY <1>1, Zenon DEF SlidingInv, Clean, Sliding!WindowOf, Sliding!WindowMs
<1> QED BY <1>3, <1>4, <1>5, <1>6, Zenon DEF Clean

(* A step of a rotation, or of its end: every other thread is idle. *)
LEMMA RotatingStep ==
  ASSUME SlidingInv, overlapped = FALSE, NEW t \in Threads, Alone(t)',
         clock' = clock, (currentWindow <= Sliding!WindowOf(clock))',
         InCheck(t)', Rotating(t)' => Carries(t)', ~Rotating(t)' => WordsTrue'
  PROVE  Clean'
<1>1. \A u \in Threads \ {t} : pc'[u] = "idle"
  BY Zenon DEF Alone
<1>2. \A u \in Threads \ {t} : ~Rotating(u)' /\ InCheck(u)'
  BY <1>1, Zenon DEF Rotating, InCheck, Reading
<1> QED BY <1>2, Zenon DEF Clean

LEMMA CleanStep ==
  ASSUME SlidingPolicy, SlidingInv, overlapped = FALSE, overlapped' = FALSE, SlidingTypes',
         Sliding!Next
  PROVE  Clean'
<1> USE DEF Sliding!Goto, Sliding!shared, Sliding!locals
<1>0. /\ \A ms : Sliding!WindowOf(ms)' = Sliding!WindowOf(ms)
      /\ Sliding!Windows' = Sliding!Windows
  BY Zenon DEF Sliding!Windows, Sliding!WindowOf, Sliding!WindowMs
<1>a. \A u \in Threads : Rotating(u)' => Alone(u)'
  <2>1. ~Sliding!RotationOverlaps'
    BY Zenon DEF Sliding!Next
  <2> QED BY <2>1, Zenon DEF Sliding!RotationOverlaps, Rotating, Alone
<1>b. SlidingTypes /\ Clean
  BY Zenon DEF SlidingInv
<1>1. CASE Sliding!Tick
  <2>1. clock \in 0 .. MaxMs /\ clock' \in 0 .. MaxMs /\ clock <= clock'
        /\ clock' = clock + 1
    BY <1>b, <1>1, TokenBucketAssumption DEF SlidingTypes, Sliding!Tick
  <2>2. Sliding!WindowOf(clock) <= Sliding!WindowOf(clock')
        /\ Sliding!WindowOf(clock) \in Nat /\ Sliding!WindowOf(clock') \in Nat /\ currentWindow \in Nat
    BY <1>b, <2>1, WindowOrder, Zenon DEF SlidingTypes
  <2>3. currentWindow' <= Sliding!WindowOf(clock')
    BY <1>b, <1>1, <2>2 DEF Clean, Sliding!Tick
  <2>4. Sliding!WindowOf(clock)' = Sliding!WindowOf(clock')
    BY Zenon DEF Sliding!WindowOf, Sliding!WindowMs
  <2>5. (\A t \in Threads : Rotating(t)' => Alone(t)' /\ Carries(t)') /\ \A t \in Threads : InCheck(t)'
    BY <1>0, <1>b, <1>1, Zenon DEF Clean, Sliding!Tick, Rotating, Alone, Carries, InCheck, Reading, Weight, NoneAfter
  <2>6. (\A t \in Threads : ~Rotating(t)') => WordsTrue'
    BY <1>0, <1>b, <1>1, Zenon DEF Clean, Sliding!Tick, Rotating, WordsTrue, Weight, NoneAfter
  <2> QED BY <2>3, <2>4, <2>5, <2>6, Zenon DEF Clean
<1>2. ASSUME NEW t \in Threads, Sliding!Arrive(t) PROVE Clean'
  <2>1. /\ pc[t] = "idle" /\ pc'[t] = "load" /\ stamp'[t] = clock /\ currentWindow' = currentWindow
    BY <1>b, <1>2, Zenon DEF Sliding!Arrive, SlidingTypes
  <2>2. InCheck(t)'
    <3>1. Sliding!WindowOf(stamp[t])' = Sliding!WindowOf(clock)
      BY <2>1, Zenon DEF Sliding!WindowOf, Sliding!WindowMs
    <3> QED BY <1>b, <2>1, <3>1, Zenon DEF Clean, InCheck, Rotating, Reading
  <2> QED BY <1>a, <1>b, <1>2, <2>1, <2>2, QuietCheck, Zenon DEF Sliding!Arrive, SlidingTypes, Rotating
<1>3. ASSUME NEW t \in Threads, Sliding!LoadWindow(t) PROVE Clean'
  <2>1. /\ pc[t] = "load" /\ stamp' = stamp /\ window'[t] = currentWindow /\ currentWindow' = currentWindow
        /\ pc'[t] = IF currentWindow = Sliding!WindowOf(stamp[t]) THEN "readWindow" ELSE "rotate"
    BY <1>b, <1>3, Zenon DEF Sliding!LoadWindow, SlidingTypes
  <2>2. InCheck(t)'
    <3>1. Sliding!WindowOf(stamp[t])' = Sliding!WindowOf(stamp[t])
      BY <2>1, Zenon DEF Sliding!WindowOf, Sliding!WindowMs
    <3>2. currentWindow <= Sliding!WindowOf(stamp[t])
      BY <1>b, <2>1, Zenon DEF Clean, InCheck
    <3> QED BY <2>1, <3>1, <3>2, Zenon DEF InCheck, Rotating, Reading
  <2> QED BY <1>a, <1>b, <1>3, <2>1, <2>2, QuietCheck, Zenon DEF Sliding!LoadWindow, SlidingTypes, Rotating
<1>4. ASSUME NEW t \in Threads, Sliding!Rotate(t) PROVE Clean'
  <2> DEFINE w == Sliding!WindowOf(stamp[t])
  <2>1. /\ pc[t] = "rotate" /\ pc'[t] = "swap" /\ currentWindow = window[t] /\ currentWindow' = w
        /\ stamp' = stamp /\ window' = window /\ granted' = granted /\ currentCount' = currentCount
        /\ clock' = clock
    BY <1>b, <1>4, Zenon DEF Sliding!Rotate, SlidingTypes
  <2>2. /\ WordsTrue /\ currentWindow <= w /\ w # currentWindow
    <3>1. WordsTrue
      BY <2>1, CheckSeesTrueWords, Zenon DEF Rotating
    <3> QED BY <1>b, <2>1, <3>1, Zenon DEF Clean, InCheck
  <2>3. currentWindow \in Nat /\ w \in Nat /\ w <= Sliding!WindowOf(clock)
    <3>1. stamp[t] \in 0 .. MaxMs /\ clock \in 0 .. MaxMs /\ stamp[t] <= clock
      BY <1>b, Zenon DEF SlidingTypes
    <3> QED BY <1>b, <3>1, WindowOrder, Zenon DEF SlidingTypes
  <2>4. Sliding!WindowOf(stamp[t])' = w /\ Sliding!WindowOf(clock)' = Sliding!WindowOf(clock)
    BY <2>1, Zenon DEF Sliding!WindowOf, Sliding!WindowMs
  <2> HIDE DEF w
  <2>5. InCheck(t)'
    <3>1. (currentWindow <= Sliding!WindowOf(stamp[t]) /\ Sliding!WindowOf(stamp[t]) = currentWindow)'
      BY <2>1, <2>3, <2>4
    <3>2. pc'[t] \notin {"rotate", "readCount", "readCurrent", "loop"}
      BY <2>1, Zenon
    <3> QED BY <3>1, <3>2, Zenon DEF InCheck
  <2>6. Carries(t)'
    BY <1>0, <2>1, <2>2, <2>3, SMTT(30) DEF Carries, WordsTrue, NoneAfter
  <2>7. Rotating(t)' /\ Alone(t)'
    BY <1>a, <2>1, Zenon DEF Rotating
  <2>8. (currentWindow <= Sliding!WindowOf(clock))'
    BY <2>1, <2>3, <2>4, Zenon
  <2> QED BY <2>1, <2>5, <2>6, <2>7, <2>8, RotatingStep, Zenon
<1>5. ASSUME NEW t \in Threads, Sliding!RotateLost(t) PROVE Clean'
  BY <1>b, <1>5, Zenon DEF Sliding!RotateLost, Clean, InCheck
<1>6. ASSUME NEW t \in Threads, Sliding!SwapCount(t) \/ Sliding!StoreCount(t) \/ Sliding!StoreWindow(t)
      PROVE  Clean'
  <2>1. /\ Rotating(t) /\ stamp' = stamp /\ window' = window /\ granted' = granted
        /\ clock' = clock /\ currentWindow' = currentWindow
        /\ \A u \in Threads \ {t} : pc'[u] = pc[u]
    BY <1>b, <1>6, Zenon DEF Sliding!SwapCount, Sliding!StoreCount, Sliding!StoreWindow, SlidingTypes, Rotating
  <2>2. Carries(t) /\ InCheck(t) /\ Alone(t)'
    BY <1>b, <2>1, Zenon DEF Clean, Alone
  <2>3. Sliding!WindowOf(stamp[t])' = Sliding!WindowOf(stamp[t])
        /\ Sliding!WindowOf(clock)' = Sliding!WindowOf(clock)
    BY <2>1, Zenon DEF Sliding!WindowOf, Sliding!WindowMs
  <2>4. (currentWindow <= Sliding!WindowOf(clock))'
    BY <1>b, <2>1, <2>3, Zenon DEF Clean
  <2>5. pc'[t] \in {"storeCount", "storeWindow", "readWindow"}
    BY <1>b, <1>6, Zenon DEF Sliding!SwapCount, Sliding!StoreCount, Sliding!StoreWindow, SlidingTypes
  <2>6. InCheck(t)'
    <3>1. Sliding!WindowOf(stamp[t]) = currentWindow /\ currentWindow \in Nat
      BY <1>b, <2>1, <2>2, WindowOrder, Zenon DEF InCheck, SlidingTypes
    <3>2. (currentWindow <= Sliding!WindowOf(stamp[t]) /\ Sliding!WindowOf(stamp[t]) = currentWindow)'
      <4>1. currentWindow <= currentWindow
        BY <3>1
      <4>2. Sliding!WindowOf(stamp[t])' = currentWindow /\ currentWindow' = currentWindow
        BY <2>1, <2>3, <3>1, Zenon
      <4> QED BY <4>1, <4>2, Zenon
    <3>3. pc'[t] \notin {"rotate", "readCount", "readCurrent", "loop"}
      BY <2>5, Zenon
    <3> QED BY <3>2, <3>3, Zenon DEF InCheck
  <2>7. CASE Sliding!SwapCount(t)
    <3>1. /\ pc[t] = "swap" /\ pc'[t] = "storeCount" /\ count'[t] = currentCount /\ currentCount' = 0
      BY <1>b, <2>7, Zenon DEF Sliding!SwapCount, SlidingTypes
    <3>2. Carries(t)' /\ Rotating(t)'
      BY <1>0, <2>1, <2>2, <3>1 DEF Carries, NoneAfter, Rotating
    <3> QED BY <2>1, <2>2, <2>4, <2>6, <3>2, RotatingStep, Zenon
  <2>8. CASE Sliding!StoreCount(t)
    <3>1. /\ pc[t] = "storeCount" /\ pc'[t] = "storeWindow" /\ previousCount' = count[t]
          /\ currentCount' = currentCount
      BY <1>b, <2>8, Zenon DEF Sliding!StoreCount, SlidingTypes
    <3>2. Carries(t)' /\ Rotating(t)'
      BY <1>0, <2>1, <2>2, <3>1, Zenon DEF Carries, NoneAfter, Rotating
    <3> QED BY <2>1, <2>2, <2>4, <2>6, <3>2, RotatingStep, Zenon
  <2>9. CASE Sliding!StoreWindow(t)
    <3>1. /\ pc[t] = "storeWindow" /\ pc'[t] = "readWindow" /\ previousWindow' = window[t]
          /\ currentCount' = currentCount /\ previousCount' = previousCount
      BY <1>b, <2>9, Zenon DEF Sliding!StoreWindow, SlidingTypes
    <3>2. /\ window[t] \in Nat /\ window[t] \in Sliding!Windows /\ currentWindow \in Nat
          /\ currentWindow \in Sliding!Windows /\ window[t] < currentWindow
          /\ previousCount = granted[window[t]] /\ currentCount = 0
      BY <1>b, <2>2, <3>1, WindowOrder, Zenon DEF SlidingTypes, Carries
    <3>3. \A v \in Sliding!Windows : v > window[t] => granted[v] = 0
      BY <2>2, Zenon DEF Carries, NoneAfter
    <3>4. currentWindow - 1 \in Sliding!Windows
      BY <3>2, WindowOrder
    <3>5. (IF window[t] + 1 = currentWindow THEN previousCount ELSE 0) = granted[currentWindow - 1]
      <4>1. CASE window[t] + 1 = currentWindow
        <5>1. window[t] = currentWindow - 1
          BY <3>2, <4>1
        <5> QED BY <3>2, <4>1, <5>1, Zenon
      <4>2. CASE window[t] + 1 # currentWindow
        <5>1. currentWindow - 1 > window[t]
          BY <3>2, <4>2
        <5> QED BY <3>3, <3>4, <4>2, <5>1, Zenon
      <4> QED BY <4>1, <4>2, Zenon
    <3>6. \A v \in Sliding!Windows : v > currentWindow => granted[v] = 0
      <4>1. \A v \in Sliding!Windows : v \in Nat
        BY WindowOrder, Zenon
      <4> QED BY <3>2, <3>3, <4>1
    <3>7. WordsTrue' /\ ~Rotating(t)'
      BY <1>0, <2>1, <3>1, <3>2, <3>3, <3>5, <3>6, Zenon DEF WordsTrue, Weight, NoneAfter, Rotating
    <3> QED BY <2>1, <2>2, <2>4, <2>6, <3>7, RotatingStep, Zenon
  <2> QED BY <1>6, <2>7, <2>8, <2>9, Zenon
<1>7. ASSUME NEW t \in Threads, Sliding!ReadPreviousWindow(t) \/ Sliding!ReadPreviousCount(t)
                                \/ Sliding!ReadCurrentCount(t) \/ Sliding!Retry(t)
      PROVE  Clean'
  <2>1. /\ Reading(t) /\ Reading(t)' /\ ~Rotating(t) /\ ~Rotating(t)' /\ stamp' = stamp /\ window' = window
        /\ UNCHANGED <<currentWindow, currentCount, previousWindow, previousCount, clock, granted>>
        /\ \A u \in Threads \ {t} : pc'[u] = pc[u] /\ weighed'[u] = weighed[u] /\ count'[u] = count[u]
    <3>1. CASE Sliding!ReadPreviousWindow(t)
      BY <1>b, <3>1, Zenon DEF Sliding!ReadPreviousWindow, SlidingTypes, Reading, Rotating
    <3>2. CASE Sliding!ReadPreviousCount(t)
      BY <1>b, <3>2, Zenon DEF Sliding!ReadPreviousCount, SlidingTypes, Reading, Rotating
    <3>3. CASE Sliding!ReadCurrentCount(t)
      BY <1>b, <3>3, Zenon DEF Sliding!ReadCurrentCount, SlidingTypes, Reading, Rotating
    <3>4. CASE Sliding!Retry(t)
      BY <1>b, <3>4, Zenon DEF Sliding!Retry, SlidingTypes, Reading, Rotating
    <3> QED BY <1>7, <3>1, <3>2, <3>3, <3>4, Zenon
  <2>2. /\ Sliding!WindowOf(stamp[t]) = currentWindow /\ InCheck(t)
        /\ currentWindow \in Nat /\ currentCount \in Nat
    BY <1>b, <2>1, WindowOrder, Zenon DEF Clean, InCheck, SlidingTypes
  <2>3. Sliding!WindowOf(stamp[t])' = Sliding!WindowOf(stamp[t]) /\ Weight' = Weight
    BY <2>1, Zenon DEF Sliding!WindowOf, Sliding!WindowMs, Weight
  <2>4. InCheck(t)'
    <3>0. (currentWindow <= Sliding!WindowOf(stamp[t]) /\ Sliding!WindowOf(stamp[t]) = currentWindow)'
      <4>1. currentWindow <= currentWindow
        BY <2>2
      <4>2. Sliding!WindowOf(stamp[t])' = currentWindow /\ currentWindow' = currentWindow
        BY <2>1, <2>2, <2>3, Zenon
      <4> QED BY <4>1, <4>2, Zenon
    <3>1. CASE Sliding!ReadPreviousWindow(t)
      <4>1. \/ pc'[t] = "readCount" /\ previousWindow + 1 = currentWindow
            \/ pc'[t] = "readCurrent" /\ weighed'[t] = 0 /\ previousWindow + 1 # currentWindow
        BY <1>b, <2>2, <3>1, Zenon DEF Sliding!ReadPreviousWindow, SlidingTypes
      <4>2. pc'[t] # "rotate" /\ pc'[t] # "loop"
        BY <4>1, Zenon
      <4>3. pc'[t] = "readCount" => (previousWindow + 1 = currentWindow)'
        BY <2>1, <4>1, Zenon
      <4>4. pc'[t] \in {"readCurrent", "loop"} => weighed'[t] = Weight'
        BY <2>3, <4>1, Zenon DEF Weight
      <4> QED BY <3>0, <4>2, <4>3, <4>4, Zenon DEF InCheck
    <3>2. CASE Sliding!ReadPreviousCount(t)
      <4>1. pc[t] = "readCount" /\ pc'[t] = "readCurrent" /\ weighed'[t] = previousCount
        BY <1>b, <3>2, Zenon DEF Sliding!ReadPreviousCount, SlidingTypes
      <4>2. pc'[t] # "rotate" /\ pc'[t] # "readCount" /\ pc'[t] # "loop"
        BY <4>1, Zenon
      <4>3. weighed'[t] = Weight'
        BY <2>2, <2>3, <4>1, Zenon DEF InCheck, Weight
      <4> QED BY <3>0, <4>2, <4>3, Zenon DEF InCheck
    <3>3. CASE Sliding!ReadCurrentCount(t) \/ Sliding!Retry(t)
      <4>1. /\ pc[t] \in {"readCurrent", "loop"} /\ pc'[t] = "loop" /\ count'[t] = currentCount
            /\ weighed'[t] = weighed[t]
        BY <1>b, <3>3, Zenon DEF Sliding!ReadCurrentCount, Sliding!Retry, SlidingTypes
      <4>2. pc'[t] # "rotate" /\ pc'[t] # "readCount"
        BY <4>1, Zenon
      <4>3. weighed'[t] = Weight'
        BY <2>2, <2>3, <4>1, Zenon DEF InCheck
      <4>4. count'[t] <= currentCount'
        <5>1. currentCount <= currentCount
          BY <2>2
        <5>2. count'[t] = currentCount /\ currentCount' = currentCount
          BY <2>1, <4>1, Zenon
        <5> QED BY <5>1, <5>2, Zenon
      <4> QED BY <3>0, <4>2, <4>3, <4>4, Zenon DEF InCheck
    <3> QED BY <1>7, <3>1, <3>2, <3>3, Zenon
  <2> QED BY <1>a, <2>1, <2>4, QuietCheck, Zenon
<1>8. ASSUME NEW t \in Threads, Sliding!Reject(t) PROVE Clean'
  <2>1. pc[t] = "loop" /\ pc'[t] = "idle"
    BY <1>b, <1>8, Zenon DEF Sliding!Reject, Sliding!Return, SlidingTypes
  <2>2. InCheck(t)' /\ ~Rotating(t) /\ ~Rotating(t)'
    BY <2>1, Zenon DEF InCheck, Rotating, Reading
  <2> QED BY <1>a, <1>b, <1>8, <2>2, QuietCheck, Zenon DEF Sliding!Reject, Sliding!Return, SlidingTypes
<1>9. ASSUME NEW t \in Threads, Sliding!Accept(t) PROVE Clean'
  <2>1. /\ pc[t] = "loop" /\ pc'[t] = "idle" /\ currentCount' = currentCount + 1
        /\ granted' = [granted EXCEPT ![Sliding!WindowOf(stamp[t])] = @ + 1]
        /\ UNCHANGED <<currentWindow, previousWindow, previousCount, clock>>
        /\ \A u \in Threads \ {t} : /\ pc'[u] = pc[u] /\ stamp'[u] = stamp[u] /\ window'[u] = window[u]
                                    /\ weighed'[u] = weighed[u] /\ count'[u] = count[u]
    BY <1>b, <1>9, Zenon DEF Sliding!Accept, Sliding!Return, SlidingTypes
  <2>2. WordsTrue /\ \A u \in Threads : ~Rotating(u)
    BY <2>1, CheckSeesTrueWords, Zenon DEF Rotating
  <2>3. /\ Sliding!WindowOf(stamp[t]) = currentWindow /\ currentWindow \in Nat
        /\ currentWindow \in Sliding!Windows /\ currentCount \in Nat
        /\ \A v \in Sliding!Windows : v \in Nat
        /\ currentWindow # 0 => currentWindow - 1 \in Sliding!Windows
    <3>1. currentWindow \in Sliding!Windows /\ currentCount \in Nat
      BY <1>b, Zenon DEF SlidingTypes
    <3>2. Sliding!WindowOf(stamp[t]) = currentWindow
      BY <1>b, <2>1, Zenon DEF Clean, InCheck, Reading
    <3>3. Sliding!Windows \subseteq Nat
      BY WindowOrder, Zenon
    <3>4. currentWindow # 0 => currentWindow - 1 \in Sliding!Windows
      <4>1. currentWindow \in Nat
        BY <3>1, <3>3, Zenon
      <4>2. currentWindow # 0 => currentWindow - 1 \in Nat /\ currentWindow - 1 <= currentWindow
        BY <4>1
      <4> QED BY <3>1, <4>2, WindowOrder, Zenon
    <3> QED BY <3>1, <3>2, <3>3, <3>4, Zenon
  <2>4. /\ granted'[currentWindow] = granted[currentWindow] + 1
        /\ \A v \in Sliding!Windows : v # currentWindow => granted'[v] = granted[v]
    BY <1>b, <2>1, <2>3, Zenon DEF SlidingTypes
  <2>5. \A u \in Threads : ~Rotating(u)'
    BY <2>1, <2>2, Zenon DEF Rotating
  <2>6. WordsTrue'
    <3>1. currentCount' = granted'[currentWindow]
      BY <2>1, <2>2, <2>4, Zenon DEF WordsTrue
    <3>2. \A v \in Sliding!Windows : v > currentWindow => granted'[v] = 0
      BY <2>2, <2>3, <2>4 DEF WordsTrue, NoneAfter
    <3>3. currentWindow # 0 => Weight = granted'[currentWindow - 1]
      BY <2>2, <2>3, <2>4 DEF WordsTrue
    <3> QED BY <1>0, <2>1, <3>1, <3>2, <3>3, Zenon DEF WordsTrue, NoneAfter, Weight
  <2>7. ASSUME NEW u \in Threads PROVE InCheck(u)'
    <3>1. CASE u = t
      BY <2>1, <3>1, Zenon DEF InCheck, Rotating, Reading
    <3>2. CASE u # t
      <4>1. InCheck(u) /\ count[u] \in Nat /\ Weight' = Weight
        BY <1>b, <2>1, Zenon DEF Clean, SlidingTypes, Weight
      <4>2. Sliding!WindowOf(stamp[u])' = Sliding!WindowOf(stamp[u])
        BY <2>1, <3>2, Zenon DEF Sliding!WindowOf, Sliding!WindowMs
      <4>3. count[u] <= currentCount => count[u] <= currentCount + 1
        BY <2>3, <4>1
      <4> QED BY <2>1, <3>2, <4>1, <4>2, <4>3, Zenon DEF InCheck, Rotating, Reading
    <3> QED BY <3>1, <3>2, Zenon
  <2>8. (currentWindow <= Sliding!WindowOf(clock))'
    BY <1>b, <2>1, Zenon DEF Clean, Sliding!WindowOf, Sliding!WindowMs
  <2> QED BY <2>5, <2>6, <2>7, <2>8, Zenon DEF Clean
<1> QED
  BY <1>1, <1>2, <1>3, <1>4, <1>5, <1>6, <1>7, <1>8, <1>9, Zenon DEF Sliding!Next, Sliding!Check

LEMMA SlidingStep ==
  ASSUME SlidingPolicy
  PROVE  SlidingInv /\ [Sliding!Next]_(Sliding!vars) => SlidingInv'
<1> SUFFICES ASSUME SlidingInv, [Sliding!Next]_(Sliding!vars) PROVE SlidingInv'
  BY Zenon
<1>1. SlidingTypes'
  BY SlidingTypesStep, Zenon DEF SlidingInv
<1>2. ASSUME Sliding!Next, overlapped' = FALSE PROVE Clean'
  <2>1. overlapped = FALSE
    BY <1>2, Zenon DEF Sliding!Next, SlidingInv, SlidingTypes
  <2> QED BY <1>1, <1>2, <2>1, CleanStep, Zenon
<1>3. ASSUME UNCHANGED Sliding!vars, overlapped' = FALSE PROVE Clean'
  <2>1. Clean
    BY <1>3, Zenon DEF SlidingInv, Sliding!vars
  <2> QED BY <1>3, <2>1, Zenon DEF Sliding!vars, Sliding!shared, Sliding!locals, Clean, Rotating, Alone, Carries,
             InCheck, Reading, WordsTrue, Weight, NoneAfter, Sliding!Windows, Sliding!WindowOf, Sliding!WindowMs
<1> QED BY <1>1, <1>2, <1>3, Zenon DEF SlidingInv

(* The sliding window decides by what was really granted, for any number   *)
(* of threads, limit, window and clock, as long as no rotation has met     *)
(* another check.                                                          *)
THEOREM SlidingPromiseHolds ==
  ASSUME SlidingPolicy
  PROVE  Sliding!Spec => Sliding!SlidingPromise
<1>1. SlidingInv /\ [Sliding!Next]_(Sliding!vars) => SlidingInv'
  BY SlidingStep, Zenon
<1>2. SlidingInv => DecidesByGrants
  BY Decides, Zenon
<1>3. SlidingInv /\ [Sliding!Next]_(Sliding!vars) => [DecidesByGrants]_(Sliding!vars)
  BY <1>2, Zenon
<1>4. Sliding!SlidingPromise <=> [][DecidesByGrants]_(Sliding!vars)
  BY Zenon DEF Sliding!SlidingPromise, DecidesByGrants
<1>5. Sliding!Init => SlidingInv
  BY SlidingInit, Zenon
<1> QED BY <1>1, <1>3, <1>4, <1>5, PTL DEF Sliding!Spec
=============================================================================
