---------------------------- MODULE SingleFlight ----------------------------
(***************************************************************************)
(* shared/cache/src/ufo.rs: MemoryCache::get_or_fetch_with_ttl, the cache  *)
(* with single-flight coalescing, for one key (a key touches only its own  *)
(* shard and its own entries).                                             *)
(*                                                                         *)
(* A flight is a future shared by the callers that await it; the in-flight *)
(* slot holds a weak handle, which upgrades only while some caller holds   *)
(* the future.  futures::Shared (external) releases the caller's handle    *)
(* when its poll returns the output.  A caller may be cancelled at the     *)
(* await, the only suspension point.                                       *)
(***************************************************************************)
EXTENDS Integers

CONSTANTS
  Callers,            \* tasks calling get_or_fetch
  MaxFlights,         \* bound: fetches started
  RemembersFailures   \* negative_ttl is not zero

ASSUME SingleFlightAssumption ==
  /\ MaxFlights \in Nat
  /\ RemembersFailures \in BOOLEAN

VARIABLES
  cache,     \* the flight whose value is cached, or None
  failure,   \* a remembered failure has not expired
  slot,      \* inflight[key].id, or None
  nextId,    \* next_flight_id
  outcome,   \* outcome[f]: "running", "ok", "zeroTtl", "err"; "dropped" if cancelled
  pc,        \* pc[c]: "idle", "lock", "await" or "complete"
  flight     \* flight[c]: the flight c awaits or completes, or None

vars == <<cache, failure, slot, nextId, outcome, pc, flight>>

None == 0

Flights == 1 .. MaxFlights

Holders(f) == {c \in Callers : pc[c] = "await" /\ flight[c] = f}

(* Weak handles upgrade while a caller holds the future. *)
Joinable == slot # None /\ Holders(slot) # {}

TypeOK ==
  /\ cache \in Flights \cup {None}
  /\ failure \in BOOLEAN
  /\ slot \in Flights \cup {None}
  /\ nextId \in 1 .. MaxFlights + 1
  /\ outcome \in [Flights -> {"none", "running", "ok", "zeroTtl", "err", "dropped"}]
  /\ pc \in [Callers -> {"idle", "lock", "await", "complete"}]
  /\ flight \in [Callers -> Flights \cup {None}]

Init ==
  /\ cache = None
  /\ failure = FALSE
  /\ slot = None
  /\ nextId = 1
  /\ outcome = [f \in Flights |-> "none"]
  /\ pc = [c \in Callers |-> "idle"]
  /\ flight = [c \in Callers |-> None]

(* The fast path misses; a hit returns without touching anything. *)
FastMiss(c) ==
  /\ pc[c] = "idle"
  /\ cache = None
  /\ pc' = [pc EXCEPT ![c] = "lock"]
  /\ UNCHANGED <<cache, failure, slot, nextId, outcome, flight>>

(* Under the shard lock: a remembered failure is returned. *)
FailureHit(c) ==
  /\ pc[c] = "lock"
  /\ failure
  /\ pc' = [pc EXCEPT ![c] = "idle"]
  /\ UNCHANGED <<cache, failure, slot, nextId, outcome, flight>>

(* Slip: the slot is joined although nobody drives its flight any more. *)
JoinDead(c) ==
  /\ pc[c] = "lock"
  /\ ~failure
  /\ slot # None
  /\ pc' = [pc EXCEPT ![c] = "await"]
  /\ flight' = [flight EXCEPT ![c] = slot]
  /\ UNCHANGED <<cache, failure, slot, nextId, outcome>>

(* Under the shard lock: follow the flight in the slot. *)
Join(c) ==
  /\ pc[c] = "lock"
  /\ ~failure
  /\ Joinable
  /\ pc' = [pc EXCEPT ![c] = "await"]
  /\ flight' = [flight EXCEPT ![c] = slot]
  /\ UNCHANGED <<cache, failure, slot, nextId, outcome>>

(* Under the shard lock: a flight completed since the fast path. *)
LateHit(c) ==
  /\ pc[c] = "lock"
  /\ ~failure
  /\ ~Joinable
  /\ cache # None
  /\ pc' = [pc EXCEPT ![c] = "idle"]
  /\ UNCHANGED <<cache, failure, slot, nextId, outcome, flight>>

(* Slip: an occupied slot is not looked at. *)
LeadAlways(c) ==
  /\ pc[c] = "lock"
  /\ ~failure
  /\ cache = None
  /\ nextId \in Flights
  /\ nextId' = nextId + 1
  /\ slot' = nextId
  /\ outcome' = [outcome EXCEPT ![nextId] = "running"]
  /\ pc' = [pc EXCEPT ![c] = "await"]
  /\ flight' = [flight EXCEPT ![c] = nextId]
  /\ UNCHANGED <<cache, failure>>

(* Under the shard lock: register a new flight, over a dead one if any. *)
Lead(c) ==
  /\ pc[c] = "lock"
  /\ ~failure
  /\ ~Joinable
  /\ cache = None
  /\ nextId \in Flights
  /\ nextId' = nextId + 1
  /\ slot' = nextId
  /\ outcome' = [outcome EXCEPT ![nextId] = "running"]
  /\ pc' = [pc EXCEPT ![c] = "await"]
  /\ flight' = [flight EXCEPT ![c] = nextId]
  /\ UNCHANGED <<cache, failure>>

(* The fetch finishes, driven by whichever caller polls it. *)
Fetch(f) ==
  /\ outcome[f] = "running"
  /\ Holders(f) # {}
  /\ \E result \in {"ok", "zeroTtl", "err"} : outcome' = [outcome EXCEPT ![f] = result]
  /\ UNCHANGED <<cache, failure, slot, nextId, pc, flight>>

(* The await returns and the caller's handle is gone. *)
Observe(c) ==
  /\ pc[c] = "await"
  /\ outcome[flight[c]] \in {"ok", "zeroTtl", "err"}
  /\ pc' = [pc EXCEPT ![c] = "complete"]
  /\ UNCHANGED <<cache, failure, slot, nextId, outcome, flight>>

(* Slip: the result is recorded whatever flight the slot holds. *)
CompleteAnyFlight(c) ==
  /\ pc[c] = "complete"
  /\ cache' = IF outcome[flight[c]] = "ok" THEN flight[c] ELSE cache
  /\ failure' = (failure \/ (outcome[flight[c]] = "err" /\ RemembersFailures))
  /\ slot' = None
  /\ pc' = [pc EXCEPT ![c] = "idle"]
  /\ flight' = [flight EXCEPT ![c] = None]
  /\ UNCHANGED <<nextId, outcome>>

(* complete_flight, under the shard lock: the first caller of the flight   *)
(* in the slot records the outcome and frees the slot.                     *)
Complete(c) ==
  LET f == flight[c]
      first == slot = f
  IN  /\ pc[c] = "complete"
      /\ cache' = IF first /\ outcome[f] = "ok" THEN f ELSE cache
      /\ failure' = (failure \/ (first /\ outcome[f] = "err" /\ RemembersFailures))
      /\ slot' = IF first THEN None ELSE slot
      /\ pc' = [pc EXCEPT ![c] = "idle"]
      /\ flight' = [flight EXCEPT ![c] = None]
      /\ UNCHANGED <<nextId, outcome>>

(* A waiting caller is dropped; the last one takes a running fetch along. *)
Cancel(c) ==
  LET f == flight[c]
  IN  /\ pc[c] = "await"
      /\ outcome' = IF outcome[f] = "running" /\ Holders(f) = {c}
                    THEN [outcome EXCEPT ![f] = "dropped"] ELSE outcome
      /\ pc' = [pc EXCEPT ![c] = "idle"]
      /\ flight' = [flight EXCEPT ![c] = None]
      /\ UNCHANGED <<cache, failure, slot, nextId>>

(* The value expires, is evicted, refused admission or removed. *)
Forget ==
  /\ cache # None
  /\ cache' = None
  /\ UNCHANGED <<failure, slot, nextId, outcome, pc, flight>>

ForgetFailure ==
  /\ failure
  /\ failure' = FALSE
  /\ UNCHANGED <<cache, slot, nextId, outcome, pc, flight>>

Locked(c) == FailureHit(c) \/ Join(c) \/ LateHit(c) \/ Lead(c)

Next ==
  \/ \E c \in Callers :
       FastMiss(c) \/ Locked(c) \/ Observe(c) \/ Complete(c) \/ Cancel(c)
  \/ \E f \in Flights : Fetch(f)
  \/ Forget \/ ForgetFailure

Spec == Init /\ [][Next]_vars

(* Runnable tasks are polled and every fetch is bounded by a timeout;      *)
(* nothing forces values to expire or callers to be cancelled.             *)
FairSpec ==
  /\ Spec
  /\ \A c \in Callers : WF_vars(Locked(c)) /\ WF_vars(Observe(c)) /\ WF_vars(Complete(c))
  /\ \A f \in Flights : WF_vars(Fetch(f))
-----------------------------------------------------------------------------
(* ufo.rs:297-303: at no time do two fetches of the key run, and the one   *)
(* that runs is always the one new callers would join.                     *)
OneFetchRuns ==
  \A f \in Flights : outcome[f] = "running" => slot = f /\ Holders(f) # {}

(* ufo.rs:381-390: an old flight never overwrites what a newer one cached. *)
CacheMovesForward == [][cache # None /\ cache' # None => cache' >= cache]_vars

(* ufo.rs:305-308, "dropping the leader does not stall followers": every   *)
(* caller past the fast path returns, unless it is itself cancelled, or    *)
(* the bound on flights keeps it from leading.                             *)
CallerReturns ==
  \A c \in Callers :
    pc[c] # "idle" ~> (pc[c] = "idle" \/ nextId > MaxFlights)
=============================================================================
