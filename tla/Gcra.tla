-------------------------------- MODULE Gcra --------------------------------
(***************************************************************************)
(* The arithmetic of the token bucket (limiter/algorithm/token_bucket.rs): *)
(* the Generic Cell Rate Algorithm on saturating unsigned integers.  A     *)
(* configuration is a record [limit, burst, window], window in seconds.    *)
(* The unit factors and the integer width are parameters, so that small    *)
(* instances keep the roundings and the saturation of the code.            *)
(***************************************************************************)
EXTENDS Integers

CONSTANTS
  NanosPerMs,   \* NANOS_PER_MS, 1_000_000 in the code
  MsPerSec,     \* milliseconds per second, 1000 in the code
  U64Max        \* u64::MAX

ASSUME GcraAssumption ==
  /\ NanosPerMs \in Nat \ {0}
  /\ MsPerSec \in Nat \ {0}
  /\ U64Max \in Nat \ {0}

NanosPerSec == NanosPerMs * MsPerSec

Sat(x) == IF x > U64Max THEN U64Max ELSE x

Later(a, b) == IF a >= b THEN a ELSE b

CeilDiv(a, b) == (a + b - 1) \div b

Configuration == [limit : Nat, burst : Nat, window : Nat \ {0}]

(* A zero limit disables refilling. *)
Emission(cfg) ==
  IF cfg.limit = 0 THEN 0
  ELSE Later(Sat(cfg.window * NanosPerSec) \div cfg.limit, 1)

Capacity(cfg) == Sat(cfg.limit + cfg.burst)

Tolerance(cfg) == Sat(Emission(cfg) * Capacity(cfg))

Now(ms) == Sat(ms * NanosPerMs)

LimitAt(cfg, ms) == Sat(Now(ms) + Tolerance(cfg))

(* A TAT in the past means the bucket is full. *)
NewTat(cfg, tat, ms) == Sat(Later(tat, Now(ms)) + Emission(cfg))

Admits(cfg, tat, ms) ==
  Emission(cfg) # 0 /\ NewTat(cfg, tat, ms) <= LimitAt(cfg, ms)

(* Slip: the wait rounded down to whole seconds. *)
RetryAfterFloor(cfg, tat, ms) ==
  IF Emission(cfg) = 0 THEN cfg.window
  ELSE (NewTat(cfg, tat, ms) - LimitAt(cfg, ms)) \div NanosPerSec

(* RateLimitResult.retry_after of a rejection, in seconds. *)
RetryAfter(cfg, tat, ms) ==
  IF Emission(cfg) = 0 THEN cfg.window
  ELSE CeilDiv(NewTat(cfg, tat, ms) - LimitAt(cfg, ms), NanosPerSec)

(* The bucket has refilled completely. *)
IsIdle(tat, ms) == tat <= Now(ms)
=============================================================================
