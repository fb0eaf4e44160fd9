---------------------------- MODULE BucketPromise ----------------------------
(***************************************************************************)
(* What one token bucket promises to its callers: a request carries the    *)
(* millisecond stamp it arrived with and is decided in ONE step against    *)
(* the theoretical arrival time (TAT), however many threads are asking.    *)
(* TokenBucket, the CAS loop of the source, implements this specification. *)
(***************************************************************************)
EXTENDS Gcra

CONSTANTS
  Threads,   \* request threads sharing one bucket
  Stamps,    \* arrival stamps, in milliseconds
  Configs    \* bucket configurations

VARIABLES
  cfg,     \* the policy the bucket was created with
  tat,     \* theoretical arrival time of the bucket, in nanoseconds
  asked    \* asked[t]: the stamp of t's undecided request, or Nobody

Nobody == -1

vars == <<cfg, tat, asked>>

Init ==
  /\ cfg \in Configs
  /\ tat = 0
  /\ asked = [t \in Threads |-> Nobody]

Ask(t) ==
  /\ asked[t] = Nobody
  /\ \E stamp \in Stamps : asked' = [asked EXCEPT ![t] = stamp]
  /\ UNCHANGED <<cfg, tat>>

Grant(t) ==
  /\ asked[t] # Nobody
  /\ Admits(cfg, tat, asked[t])
  /\ tat' = NewTat(cfg, tat, asked[t])
  /\ asked' = [asked EXCEPT ![t] = Nobody]
  /\ UNCHANGED cfg

Refuse(t) ==
  /\ asked[t] # Nobody
  /\ ~Admits(cfg, tat, asked[t])
  /\ asked' = [asked EXCEPT ![t] = Nobody]
  /\ UNCHANGED <<cfg, tat>>

Next == \E t \in Threads : Ask(t) \/ Grant(t) \/ Refuse(t)

Spec == Init /\ [][Next]_vars
=============================================================================
