---------------------------- MODULE LimiterStore ----------------------------
(***************************************************************************)
(* limiter/store.rs: MemoryRateLimiter, the concurrent map from client     *)
(* keys to limiter states, with its capacity counter and its sweep.        *)
(*                                                                         *)
(* A state is the TAT of a token bucket; its check is one step, which      *)
(* TokenBucket!ImplementsPromise justifies.  A check runs under the lock   *)
(* of the map shard, so a state is never swept while it is being checked.  *)
(* The sweep (evict_idle) locks one shard at a time: it visits the keys    *)
(* one by one, in any order, between the steps of the request threads.     *)
(***************************************************************************)
EXTENDS Gcra, FiniteSets

CONSTANTS
  Threads,      \* request threads
  Clients,      \* client hashes
  Overflow,     \* OVERFLOW_KEY
  Scopes,       \* policy instances
  Policy,       \* the limits of every policy instance
  MaxTracked,   \* max_tracked
  MaxMs         \* bound: the clock stops at this millisecond

ASSUME LimiterStoreAssumption ==
  /\ Overflow \notin Clients
  /\ Policy \in Configuration
  /\ MaxTracked \in Nat
  /\ MaxMs \in Nat

VARIABLES
  states,    \* the map: TAT of every key present
  tracked,   \* the capacity counter
  clock,     \* monotonic clock, milliseconds
  pc,        \* pc[t]: "idle", "get", "capacity" or "entry"
  stamp,     \* stamp[t]: now_ms of t's consume
  key,       \* key[t]: the key t looks up
  sweep,     \* the sweep: phase, its now_ms, the keys left to visit, len
  last       \* history: last[k], the TAT k had when it was last present

vars == <<states, tracked, clock, pc, stamp, key, sweep, last>>

Keys == (Clients \cup {Overflow}) \X Scopes

NoKey == <<>>

Present == DOMAIN states

(* A check: the TAT after it. *)
Charge(tat, ms) ==
  IF Admits(Policy, tat, ms) THEN NewTat(Policy, tat, ms) ELSE tat

Put(k, tat) == [q \in Present \cup {k} |-> IF q = k THEN tat ELSE states[q]]

TypeOK ==
  /\ Present \subseteq Keys
  /\ \A k \in Present : states[k] \in 0 .. U64Max
  /\ tracked \in Nat
  /\ clock \in 0 .. MaxMs
  /\ pc \in [Threads -> {"idle", "get", "capacity", "entry"}]
  /\ stamp \in [Threads -> 0 .. MaxMs]
  /\ key \in [Threads -> Keys \cup {NoKey}]
  /\ sweep \in [phase : {"off", "retain", "len", "store"}, now : 0 .. MaxMs,
                visit : SUBSET Keys, len : Nat]
  /\ last \in [Keys -> 0 .. U64Max]

Init ==
  /\ states = [k \in {} |-> 0]
  /\ tracked = 0
  /\ clock = 0
  /\ pc = [t \in Threads |-> "idle"]
  /\ stamp = [t \in Threads |-> 0]
  /\ key = [t \in Threads |-> NoKey]
  /\ sweep = [phase |-> "off", now |-> 0, visit |-> {}, len |-> 0]
  /\ last = [k \in Keys |-> 0]

(* consume: the clock is read before the map. *)
Arrive(t) ==
  /\ pc[t] = "idle"
  /\ pc' = [pc EXCEPT ![t] = "get"]
  /\ stamp' = [stamp EXCEPT ![t] = clock]
  /\ \E k \in Clients \X Scopes : key' = [key EXCEPT ![t] = k]
  /\ UNCHANGED <<states, tracked, clock, sweep, last>>

(* The locals of a call die with it. *)
Return(t) ==
  /\ pc' = [pc EXCEPT ![t] = "idle"]
  /\ stamp' = [stamp EXCEPT ![t] = 0]
  /\ key' = [key EXCEPT ![t] = NoKey]

(* The check of an existing state, and the return. *)
CheckState(t) ==
  LET k == key[t]
      tat == Charge(states[k], stamp[t])
  IN  /\ k \in Present
      /\ states' = Put(k, tat)
      /\ last' = [last EXCEPT ![k] = tat]
      /\ Return(t)
      /\ UNCHANGED <<tracked, clock, sweep>>

Hit(t) == pc[t] = "get" /\ CheckState(t)

Miss(t) ==
  /\ pc[t] = "get"
  /\ key[t] \notin Present
  /\ pc' = [pc EXCEPT ![t] = "capacity"]
  /\ UNCHANGED <<states, tracked, clock, stamp, key, sweep, last>>

(* At capacity the client is redirected to its policy's overflow bucket. *)
ReadCapacity(t) ==
  /\ pc[t] = "capacity"
  /\ pc' = [pc EXCEPT ![t] = "entry"]
  /\ key' = IF tracked >= MaxTracked
            THEN [key EXCEPT ![t] = <<Overflow, key[t][2]>>]
            ELSE key
  /\ UNCHANGED <<states, tracked, clock, stamp, sweep, last>>

Occupied(t) == pc[t] = "entry" /\ CheckState(t)

(* The shard stays locked from the counter increment to the insertion. *)
Vacant(t) ==
  LET k == key[t]
      tat == Charge(0, stamp[t])
  IN  /\ pc[t] = "entry"
      /\ k \notin Present
      /\ tracked' = tracked + 1
      /\ states' = Put(k, tat)
      /\ last' = [last EXCEPT ![k] = tat]
      /\ Return(t)
      /\ UNCHANGED <<clock, sweep>>

(* evict_idle reads the clock once. *)
SweepStart ==
  /\ sweep.phase = "off"
  /\ sweep' = [sweep EXCEPT !.phase = "retain", !.now = clock, !.visit = Keys]
  /\ UNCHANGED <<states, tracked, clock, pc, stamp, key, last>>

(* Slip: entries are dropped a millisecond before they have refilled. *)
SweepVisitEarly ==
  /\ sweep.phase = "retain"
  /\ \E k \in sweep.visit :
       /\ states' = IF k \in Present /\ IsIdle(states[k], sweep.now + 1)
                    THEN [q \in Present \ {k} |-> states[q]] ELSE states
       /\ sweep' = [sweep EXCEPT !.visit = @ \ {k},
                                 !.phase = IF sweep.visit = {k} THEN "len" ELSE @]
  /\ UNCHANGED <<tracked, clock, pc, stamp, key, last>>

(* retain, one shard lock at a time. *)
SweepVisit ==
  /\ sweep.phase = "retain"
  /\ \E k \in sweep.visit :
       /\ states' = IF k \in Present /\ IsIdle(states[k], sweep.now)
                    THEN [q \in Present \ {k} |-> states[q]] ELSE states
       /\ sweep' = [sweep EXCEPT !.visit = @ \ {k},
                                 !.phase = IF sweep.visit = {k} THEN "len" ELSE @]
  /\ UNCHANGED <<tracked, clock, pc, stamp, key, last>>

SweepLen ==
  /\ sweep.phase = "len"
  /\ sweep' = [sweep EXCEPT !.phase = "store", !.len = Cardinality(Present)]
  /\ UNCHANGED <<states, tracked, clock, pc, stamp, key, last>>

(* Slip: the counter is never brought back down. *)
SweepStoreNothing ==
  /\ sweep.phase = "store"
  /\ sweep' = [sweep EXCEPT !.phase = "off", !.len = 0]
  /\ UNCHANGED <<states, tracked, clock, pc, stamp, key, last>>

SweepStore ==
  /\ sweep.phase = "store"
  /\ tracked' = sweep.len
  /\ sweep' = [sweep EXCEPT !.phase = "off", !.len = 0]
  /\ UNCHANGED <<states, clock, pc, stamp, key, last>>

Tick ==
  /\ clock < MaxMs
  /\ clock' = clock + 1
  /\ UNCHANGED <<states, tracked, pc, stamp, key, sweep, last>>

Consume(t) ==
  Hit(t) \/ Miss(t) \/ ReadCapacity(t) \/ Occupied(t) \/ Vacant(t)

EvictIdle == SweepStart \/ SweepVisit \/ SweepLen \/ SweepStore

Next == Tick \/ EvictIdle \/ \E t \in Threads : Arrive(t) \/ Consume(t)

Spec == Init /\ [][Next]_vars

(* Housekeeping calls evict_idle for ever; a started consume returns. *)
FairSpec == Spec /\ WF_vars(EvictIdle) /\ \A t \in Threads : WF_vars(Consume(t))
-----------------------------------------------------------------------------
(* store.rs:112, an idle state is "indistinguishable from a fresh one":    *)
(* a client swept out and inserted again is decided, and charged, exactly  *)
(* as if it had never been swept, for requests not older than the sweep.   *)
EvictionInvisible ==
  [][\A t \in Threads : Vacant(t) /\ stamp[t] >= sweep.now =>
       states'[key[t]] = Charge(last[key[t]], stamp[t])]_vars

(* store.rs:184-192: whatever increments a sweep overwrote, once requests  *)
(* stop the counter becomes and stays the number of states, and no state   *)
(* that had refilled is left behind.                                       *)
LoadEnds ==
  (<>[](\A t \in Threads : pc[t] = "idle")) =>
    <>[](/\ tracked = Cardinality(Present)
         /\ \A k \in Present : ~IsIdle(states[k], clock))
=============================================================================
