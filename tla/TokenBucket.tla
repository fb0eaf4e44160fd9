----------------------------- MODULE TokenBucket -----------------------------
(***************************************************************************)
(* limiter/algorithm/token_bucket.rs: one lock-free token bucket shared by *)
(* the request threads.  MemoryRateLimiter::consume reads the monotonic    *)
(* clock BEFORE it calls check, so the stamp of a check may be arbitrarily *)
(* older than the clock when its compare-and-swap runs.                    *)
(*                                                                         *)
(* compare_exchange_weak may fail although the value is unchanged; such a  *)
(* failure reloads the same value and is a stuttering step here.           *)
(***************************************************************************)
EXTENDS Gcra

CONSTANTS
  Threads,   \* request threads
  Configs,   \* policies to explore
  MaxMs      \* bound: the clock stops at this millisecond

ASSUME TokenBucketAssumption ==
  /\ Configs \subseteq Configuration
  /\ MaxMs \in Nat

VARIABLES
  cfg,      \* the policy given to TokenBucket::new
  tat,      \* tat_ns, the only shared word
  clock,    \* monotonic clock, milliseconds since the store started
  pc,       \* pc[t]: "idle", "check" (entering check) or "loop"
  stamp,    \* stamp[t]: now_ms argument of t's check
  seen,     \* seen[t]: t's local copy of tat_ns
  passed    \* history: passed[<<a, b>>], accepted requests stamped in a..b

vars == <<cfg, tat, clock, pc, stamp, seen, passed>>

Stamps == 0 .. MaxMs

Interval == {i \in Stamps \X Stamps : i[1] <= i[2]}

TypeOK ==
  /\ cfg \in Configs
  /\ tat \in 0 .. U64Max
  /\ clock \in Stamps
  /\ pc \in [Threads -> {"idle", "check", "loop"}]
  /\ stamp \in [Threads -> Stamps]
  /\ seen \in [Threads -> 0 .. U64Max]
  /\ passed \in [Interval -> Nat]

Init ==
  /\ cfg \in Configs
  /\ tat = 0
  /\ clock = 0
  /\ pc = [t \in Threads |-> "idle"]
  /\ stamp = [t \in Threads |-> 0]
  /\ seen = [t \in Threads |-> 0]
  /\ passed = [i \in Interval |-> 0]

(* consume reads the clock, then calls check. *)
Arrive(t) ==
  /\ pc[t] = "idle"
  /\ stamp' = [stamp EXCEPT ![t] = clock]
  /\ pc' = [pc EXCEPT ![t] = "check"]
  /\ UNCHANGED <<cfg, tat, clock, seen, passed>>

(* A zero limit rejects without touching the shared word. *)
RejectAll(t) ==
  /\ pc[t] = "check"
  /\ Emission(cfg) = 0
  /\ pc' = [pc EXCEPT ![t] = "idle"]
  /\ UNCHANGED <<cfg, tat, clock, stamp, seen, passed>>

Load(t) ==
  /\ pc[t] = "check"
  /\ Emission(cfg) # 0
  /\ seen' = [seen EXCEPT ![t] = tat]
  /\ pc' = [pc EXCEPT ![t] = "loop"]
  /\ UNCHANGED <<cfg, tat, clock, stamp, passed>>

(* Slip: `>=` for `>`, the last token of the bucket is never handed out. *)
RejectEarly(t) ==
  /\ pc[t] = "loop"
  /\ NewTat(cfg, seen[t], stamp[t]) >= LimitAt(cfg, stamp[t])
  /\ pc' = [pc EXCEPT ![t] = "idle"]
  /\ UNCHANGED <<cfg, tat, clock, stamp, seen, passed>>

Reject(t) ==
  /\ pc[t] = "loop"
  /\ ~Admits(cfg, seen[t], stamp[t])
  /\ pc' = [pc EXCEPT ![t] = "idle"]
  /\ UNCHANGED <<cfg, tat, clock, stamp, seen, passed>>

(* Slip: a plain store for the compare-and-swap. *)
AcceptBlind(t) ==
  /\ pc[t] = "loop"
  /\ Admits(cfg, seen[t], stamp[t])
  /\ tat' = NewTat(cfg, seen[t], stamp[t])
  /\ pc' = [pc EXCEPT ![t] = "idle"]
  /\ passed' = [i \in Interval |->
                  passed[i] + (IF stamp[t] \in i[1] .. i[2] THEN 1 ELSE 0)]
  /\ UNCHANGED <<cfg, clock, stamp, seen>>

(* The compare-and-swap succeeds. *)
Accept(t) ==
  /\ pc[t] = "loop"
  /\ Admits(cfg, seen[t], stamp[t])
  /\ tat = seen[t]
  /\ tat' = NewTat(cfg, seen[t], stamp[t])
  /\ pc' = [pc EXCEPT ![t] = "idle"]
  /\ passed' = [i \in Interval |->
                  passed[i] + (IF stamp[t] \in i[1] .. i[2] THEN 1 ELSE 0)]
  /\ UNCHANGED <<cfg, clock, stamp, seen>>

(* Slip: the loop retries with the value it already has. *)
RetryStale(t) ==
  /\ pc[t] = "loop"
  /\ Admits(cfg, seen[t], stamp[t])
  /\ tat # seen[t]
  /\ UNCHANGED vars

(* The compare-and-swap fails: another thread took a token meanwhile.  (A  *)
(* spurious failure of compare_exchange_weak changes nothing: a stutter.)  *)
Retry(t) ==
  /\ pc[t] = "loop"
  /\ Admits(cfg, seen[t], stamp[t])
  /\ tat # seen[t]
  /\ seen' = [seen EXCEPT ![t] = tat]
  /\ UNCHANGED <<cfg, tat, clock, pc, stamp, passed>>

Tick ==
  /\ clock < MaxMs
  /\ clock' = clock + 1
  /\ UNCHANGED <<cfg, tat, pc, stamp, seen, passed>>

Check(t) == RejectAll(t) \/ Load(t) \/ Reject(t) \/ Accept(t) \/ Retry(t)

Next == Tick \/ \E t \in Threads : Arrive(t) \/ Check(t)

Spec == Init /\ [][Next]_vars

(* A thread inside check keeps running; nothing forces requests to arrive  *)
(* or the clock to advance.                                                *)
FairSpec == Spec /\ \A t \in Threads : WF_vars(Check(t))
-----------------------------------------------------------------------------
(* token_bucket.rs:10-11.  Of the requests stamped in any interval a..b,   *)
(* however late their compare-and-swaps run and however they interleave,   *)
(* no more are accepted than a full bucket plus what refills in b - a.     *)
(* (Where the limit itself saturates u64 the code cannot tell, and neither *)
(* does this property.)                                                    *)
RateConformance ==
  \A i \in Interval :
    passed[i] > 0 /\ LimitAt(cfg, i[2]) < U64Max
      => Now(i[1]) + passed[i] * Emission(cfg) <= Now(i[2]) + Tolerance(cfg)

(* The bucket never owes more than its tolerance: the shared word stays    *)
(* below the limit of the current instant, so an idle client always gets   *)
(* its full burst back after one tolerance.                                *)
DebtBounded == tat <= LimitAt(cfg, clock)

(* Documentation rate-limiting.md:97, "on a 429, seconds until the next    *)
(* request is allowed": a rejected client that waits retry_after seconds   *)
(* while nobody else takes a token is admitted, and one second earlier it  *)
(* would not have been.                                                    *)
RetryAfterExact ==
  \A t \in Threads :
    pc[t] = "loop" /\ ~Admits(cfg, seen[t], stamp[t]) =>
      LET wait == RetryAfter(cfg, seen[t], stamp[t])
          at(s) == stamp[t] + s * MsPerSec
      IN  LimitAt(cfg, at(wait)) < U64Max =>
            /\ Admits(cfg, seen[t], at(wait))
            /\ ~Admits(cfg, seen[t], at(wait - 1))

(* The CAS loop decides every request as if in one atomic step: a stale    *)
(* rejection is still right because the shared word only grows.            *)
Promise == INSTANCE BucketPromise WITH
  asked <- [t \in Threads |-> IF pc[t] = "idle" THEN -1 ELSE stamp[t]]

ImplementsPromise == Promise!Spec

(* No thread spins for ever, whatever the other threads do: every check    *)
(* that starts returns, because each failed CAS moved the TAT towards the  *)
(* caller's own fixed limit.                                               *)
CheckReturns == \A t \in Threads : pc[t] = "check" ~> pc[t] = "idle"
=============================================================================
