------------------------------- MODULE Health -------------------------------
(***************************************************************************)
(* Active health checks of one upstream: ophan/src/housekeeping.rs ticks,  *)
(* HealthChecker (balancer/healthcheck.rs) starts a check of the current   *)
(* context's Upstream (balancer/upstream.rs) when it is due, and every     *)
(* probe ends in Backend::report_check (balancer/backend.rs).              *)
(*                                                                         *)
(* A reload replaces the Upstream (fresh last_check_ms and checking) while *)
(* a check of the old one may still run; both report to the same backend   *)
(* objects, which are carried over.  Housekeeping and its tasks share one  *)
(* thread (a background service with one thread, no work stealing) and     *)
(* report_check never awaits, so a report is one step.                     *)
(*                                                                         *)
(* Time is counted in ticks of Housekeeping::TICK.                         *)
(***************************************************************************)
EXTENDS Integers, FiniteSets

CONSTANTS
  Backends,          \* servers of the upstream
  Settings,          \* health_check blocks a configuration may have
  NoCheck,           \* a configuration without one
  MaxContexts,       \* bound: contexts ever built
  CheckConcurrency,  \* CHECK_CONCURRENCY
  CounterSpan,       \* number of values of a streak counter, 2^32
  MaxInterval        \* longest interval in Settings

HealthConfig ==
  [healthy_threshold : Nat, unhealthy_threshold : Nat, interval : 1 .. MaxInterval]

ASSUME HealthAssumption ==
  /\ IsFiniteSet(Backends)
  /\ Settings \subseteq HealthConfig \cup {NoCheck}
  /\ NoCheck \notin HealthConfig
  /\ \A s \in Settings \ {NoCheck} :
       s.healthy_threshold < CounterSpan /\ s.unhealthy_threshold < CounterSpan
  /\ MaxContexts \in Nat \ {0}
  /\ CheckConcurrency \in Nat \ {0}
  /\ CounterSpan \in Nat \ {0, 1}
  /\ MaxInterval \in Nat \ {0}

Contexts == 1 .. MaxContexts

Never == -1

VARIABLES
  current,    \* the context in the gateway's ArcSwap
  health,     \* health[v]: Upstream.health of context v
  last,       \* last[v]: age of last_check_ms; Never for the value 0
  checking,   \* checking[v]: Upstream.checking
  probe,      \* probe[v][b]: "idle", "queued", "running", "ok" or "bad"
  elapsed,    \* milliseconds since housekeeping started: 0 or more
  up,         \* up[b]: environment, b answers probes
  healthy,    \* healthy[b]: Backend.healthy
  successes,  \* successes[b]: check_successes
  failures,   \* failures[b]: check_failures
  streak,     \* streak[b]: history, the results of the same kind in a row
  gap         \* gap[v]: history, ticks since a check of v started; Never

vars == <<current, health, last, checking, probe, elapsed, up, healthy, successes,
          failures, streak, gap>>

StreakCap == CounterSpan

TypeOK ==
  /\ current \in Contexts
  /\ health \in [Contexts -> Settings]
  /\ last \in [Contexts -> {Never} \cup 0 .. MaxInterval]
  /\ checking \in [Contexts -> BOOLEAN]
  /\ probe \in [Contexts -> [Backends -> {"idle", "queued", "running", "ok", "bad"}]]
  /\ elapsed \in 0 .. 1
  /\ up \in [Backends -> BOOLEAN]
  /\ healthy \in [Backends -> BOOLEAN]
  /\ successes \in [Backends -> 0 .. CounterSpan - 1]
  /\ failures \in [Backends -> 0 .. CounterSpan - 1]
  /\ streak \in [Backends -> [ok : BOOLEAN, len : 0 .. StreakCap]]
  /\ gap \in [Contexts -> {Never} \cup 0 .. MaxInterval]

Init ==
  /\ current = 1
  /\ health \in [Contexts -> Settings]
  /\ last = [v \in Contexts |-> Never]
  /\ checking = [v \in Contexts |-> FALSE]
  /\ probe = [v \in Contexts |-> [b \in Backends |-> "idle"]]
  /\ elapsed = 0
  /\ up \in [Backends -> BOOLEAN]
  /\ healthy = [b \in Backends |-> TRUE]
  /\ successes = [b \in Backends |-> 0]
  /\ failures = [b \in Backends |-> 0]
  /\ streak = [b \in Backends |-> [ok |-> TRUE, len |-> 0]]
  /\ gap = [v \in Contexts |-> Never]

-----------------------------------------------------------------------------
(* Slip: housekeeping passes the elapsed time without the offset of one. *)
NowMsPlain == elapsed

(* "Offset by one so the first check is never mistaken for never checked." *)
NowMs == elapsed + 1

IsDue(v) ==
  /\ health[v] # NoCheck
  /\ last[v] = Never \/ last[v] >= health[v].interval

(* mark_checked: the value 0 reads as never checked. *)
MarkChecked(v) ==
  last' = [last EXCEPT ![v] = IF NowMs = 0 THEN Never ELSE 0]

(* check_due, from a tick: the check of the current upstream is spawned if *)
(* it is due and the previous one is over.                                 *)
CheckDue(v) ==
  /\ v = current
  /\ IsDue(v)
  /\ ~checking[v]
  /\ MarkChecked(v)
  /\ checking' = [checking EXCEPT ![v] = TRUE]
  /\ probe' = [probe EXCEPT ![v] = [b \in Backends |-> "queued"]]
  /\ gap' = [gap EXCEPT ![v] = 0]
  /\ UNCHANGED <<current, health, elapsed, up, healthy, successes, failures, streak>>

Older(age) == IF age \in {Never, MaxInterval} THEN age ELSE age + 1

TimePasses ==
  /\ elapsed' = 1
  /\ last' = [v \in Contexts |-> Older(last[v])]
  /\ gap' = [v \in Contexts |-> Older(gap[v])]
  /\ UNCHANGED <<current, health, checking, probe, up, healthy, successes, failures, streak>>

ProbeStep(v, b, from, to) ==
  /\ probe[v][b] = from
  /\ probe' = [probe EXCEPT ![v][b] = to]

(* for_each_concurrent: at most CHECK_CONCURRENCY probes of a check run. *)
ProbeStart(v, b) ==
  /\ ProbeStep(v, b, "queued", "running")
  /\ Cardinality({c \in Backends : probe[v][c] \notin {"idle", "queued"}}) < CheckConcurrency
  /\ UNCHANGED <<current, health, last, checking, elapsed, up, healthy, successes,
                 failures, streak, gap>>

(* check_backend: the server answers, or not before health.timeout. *)
CheckBackend(v, b) ==
  /\ ProbeStep(v, b, "running", IF up[b] THEN "ok" ELSE "bad")
  /\ UNCHANGED <<current, health, last, checking, elapsed, up, healthy, successes,
                 failures, streak, gap>>

AtLeastOne(n) == IF n = 0 THEN 1 ELSE n

Extended(b, ok) ==
  [ok |-> ok,
   len |-> IF streak[b].ok # ok THEN 1
           ELSE IF streak[b].len = StreakCap THEN StreakCap ELSE streak[b].len + 1]

(* fetch_add wraps in the counter but saturates in the streak it returns. *)
ReportSuccess(v, b) ==
  /\ ProbeStep(v, b, "ok", "idle")
  /\ failures' = [failures EXCEPT ![b] = 0]
  /\ successes' = [successes EXCEPT ![b] = (@ + 1) % CounterSpan]
  /\ healthy' = [healthy EXCEPT ![b] =
       @ \/ successes[b] + 1 >= AtLeastOne(health[v].healthy_threshold)]
  /\ streak' = [streak EXCEPT ![b] = Extended(b, TRUE)]
  /\ UNCHANGED <<current, health, last, checking, elapsed, up, gap>>

(* Slip: a failure leaves the success streak standing. *)
ReportFailureKeeps(v, b) ==
  /\ ProbeStep(v, b, "bad", "idle")
  /\ failures' = [failures EXCEPT ![b] = (@ + 1) % CounterSpan]
  /\ healthy' = [healthy EXCEPT ![b] =
       @ /\ failures[b] + 1 < AtLeastOne(health[v].unhealthy_threshold)]
  /\ streak' = [streak EXCEPT ![b] = Extended(b, FALSE)]
  /\ UNCHANGED <<current, health, last, checking, elapsed, up, successes, gap>>

ReportFailure(v, b) ==
  /\ ProbeStep(v, b, "bad", "idle")
  /\ successes' = [successes EXCEPT ![b] = 0]
  /\ failures' = [failures EXCEPT ![b] = (@ + 1) % CounterSpan]
  /\ healthy' = [healthy EXCEPT ![b] =
       @ /\ failures[b] + 1 < AtLeastOne(health[v].unhealthy_threshold)]
  /\ streak' = [streak EXCEPT ![b] = Extended(b, FALSE)]
  /\ UNCHANGED <<current, health, last, checking, elapsed, up, gap>>

(* Slip: a failed probe ends the task before it clears the flag. *)
CheckEndsIfOk(v) ==
  /\ checking[v]
  /\ \A b \in Backends : probe[v][b] = "idle" /\ streak[b].ok
  /\ checking' = [checking EXCEPT ![v] = FALSE]
  /\ UNCHANGED <<current, health, last, probe, elapsed, up, healthy, successes, failures,
                 streak, gap>>

(* Every probe reported: checking is cleared. *)
CheckEnds(v) ==
  /\ checking[v]
  /\ \A b \in Backends : probe[v][b] = "idle"
  /\ checking' = [checking EXCEPT ![v] = FALSE]
  /\ UNCHANGED <<current, health, last, probe, elapsed, up, healthy, successes, failures,
                 streak, gap>>

(* AppState::reload swaps in a context whose upstream kept its servers. *)
Reload ==
  /\ current < MaxContexts
  /\ current' = current + 1
  /\ UNCHANGED <<health, last, checking, probe, elapsed, up, healthy, successes, failures,
                 streak, gap>>

(* Environment: a server fails or recovers. *)
ServerChanges(b) ==
  /\ up' = [up EXCEPT ![b] = ~@]
  /\ UNCHANGED <<current, health, last, checking, probe, elapsed, healthy, successes,
                 failures, streak, gap>>

Check(v) ==
  \/ CheckDue(v) \/ CheckEnds(v)
  \/ \E b \in Backends :
       ProbeStart(v, b) \/ CheckBackend(v, b) \/ ReportSuccess(v, b) \/ ReportFailure(v, b)

Next ==
  \/ TimePasses
  \/ \E v \in Contexts : Check(v)
  \/ Reload
  \/ \E b \in Backends : ServerChanges(b)

Spec == Init /\ [][Next]_vars

(* The tick timer fires, and every probe ends: it has a timeout. *)
FairSpec == Spec /\ WF_vars(TimePasses) /\ \A v \in Contexts : WF_vars(Check(v))

-----------------------------------------------------------------------------
(* report_check: the flag of a backend changes only after as many results  *)
(* of that kind in a row as the threshold of the reporting check, and then *)
(* it does, also when the checks of two contexts report in turn and after  *)
(* the counters wrapped.                                                   *)
FlagFollowsStreak ==
  [][\A v \in Contexts, b \in Backends :
       LET ok == streak'[b].ok
           enough == streak'[b].len >= AtLeastOne(IF ok THEN health[v].healthy_threshold
                                                        ELSE health[v].unhealthy_threshold)
       IN  (probe[v][b] \in {"ok", "bad"} /\ probe'[v][b] = "idle")
             => healthy'[b] = IF enough THEN ok ELSE healthy[b]]_vars

(* checking and last_check_ms: a check of an upstream starts after the     *)
(* previous one ended, and not before its interval has passed.             *)
ChecksSpaced ==
  [][\A v \in Contexts :
       (\E b \in Backends : probe'[v][b] = "queued" /\ probe[v][b] # "queued")
         => /\ \A b \in Backends : probe[v][b] = "idle"
            /\ gap[v] = Never \/ gap[v] >= health[v].interval]_vars

(* "Servers failing health checks are excluded from load balancing": one   *)
(* that stays down is marked unhealthy for good.                           *)
DownIsExcluded == \A b \in Backends : <>[](~up[b]) => <>[](~healthy[b])

(* "Servers that recover are automatically re-added to the pool." *)
RecoveredIsReadded == \A b \in Backends : <>[](up[b]) => <>[](healthy[b])
=============================================================================
