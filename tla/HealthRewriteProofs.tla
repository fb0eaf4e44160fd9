------------------------ MODULE HealthRewriteProofs -------------------------
(***************************************************************************)
(* Two components that share no state. FlagFollowsStreak and ChecksSpaced  *)
(* of module Health, for any number of backends, contexts, thresholds and  *)
(* any width of the counters. FirstRuleWins of module Rewrite, for every   *)
(* list of rules, every normalizer of prefixes and every request.          *)
(***************************************************************************)
EXTENDS Health, Rewrite, WellFoundedInduction, TLAPS

Probe == {"idle", "queued", "running", "ok", "bad"}

HealthType ==
  /\ health \in [Contexts -> Settings]
  /\ checking \in [Contexts -> BOOLEAN]
  /\ probe \in [Contexts -> [Backends -> Probe]]
  /\ healthy \in [Backends -> BOOLEAN]
  /\ successes \in [Backends -> 0 .. CounterSpan - 1]
  /\ failures \in [Backends -> 0 .. CounterSpan - 1]
  /\ streak \in [Backends -> [ok : BOOLEAN, len : 0 .. CounterSpan]]

(* The counter of the streak's kind is its length until it wraps; by then  *)
(* every threshold has been passed and the flag shows the streak.          *)
Counted ==
  \A b \in Backends :
    /\ streak[b].ok =>
         /\ failures[b] = 0
         /\ IF streak[b].len < CounterSpan THEN successes[b] = streak[b].len ELSE healthy[b]
    /\ ~streak[b].ok =>
         /\ successes[b] = 0
         /\ IF streak[b].len < CounterSpan THEN failures[b] = streak[b].len ELSE ~healthy[b]

(* Only an upstream with a health_check is probed, and only by a check     *)
(* that has not ended.                                                     *)
Probed ==
  \A v \in Contexts, b \in Backends :
    probe[v][b] # "idle" => health[v] # NoCheck /\ checking[v]

(* last_check_ms is the time of the last start, never taken for "never".   *)
Dated == elapsed \in 0 .. 1 /\ last = gap

HealthInv == HealthType /\ Counted /\ Probed /\ Dated

(* Nothing has been probed. *)
LEMMA HealthInvInit == Init => HealthInv
<1> SUFFICES ASSUME Init PROVE HealthInv
  BY Zenon
<1>1. 0 \in 0 .. CounterSpan - 1 /\ 0 \in 0 .. CounterSpan /\ 0 < CounterSpan
  BY HealthAssumption
<1>2. HealthType
  BY <1>1, Zenon DEF Init, HealthType, Probe
<1>3. Counted
  BY <1>1, Zenon DEF Init, Counted
<1>4. Probed /\ Dated
  BY DEF Init, Probed, Dated
<1> QED
  BY <1>2, <1>3, <1>4, Zenon DEF HealthInv

(* fetch_add on a counter of CounterSpan values. *)
LEMMA Wraps ==
  ASSUME NEW n \in 0 .. CounterSpan - 1
  PROVE  /\ (n + 1) % CounterSpan \in 0 .. CounterSpan - 1
         /\ n + 1 < CounterSpan => (n + 1) % CounterSpan = n + 1
  BY HealthAssumption

(* A threshold is at least one and below the range of the counters. *)
LEMMA Thresholds ==
  ASSUME NEW s \in Settings, s # NoCheck
  PROVE  /\ AtLeastOne(s.healthy_threshold) \in 1 .. CounterSpan - 1
         /\ AtLeastOne(s.unhealthy_threshold) \in 1 .. CounterSpan - 1
<1>1. s \in HealthConfig
  BY HealthAssumption, Zenon
<1>2. s.healthy_threshold \in Nat /\ s.unhealthy_threshold \in Nat
  BY <1>1, Zenon DEF HealthConfig
<1>3. s.healthy_threshold < CounterSpan /\ s.unhealthy_threshold < CounterSpan
  BY HealthAssumption, Zenon
<1> QED
  BY <1>2, <1>3, HealthAssumption DEF AtLeastOne

(* report_check with a successful probe: the streak grows with the counter,    *)
(* and the flag is set from the threshold on.                                  *)
LEMMA SuccessCounts ==
  ASSUME HealthInv, NEW v \in Contexts, NEW b \in Backends, ReportSuccess(v, b)
  PROVE  /\ streak'[b] \in [ok : BOOLEAN, len : 0 .. CounterSpan] /\ streak'[b].ok = TRUE
         /\ successes'[b] \in 0 .. CounterSpan - 1 /\ failures'[b] = 0
         /\ IF streak'[b].len < CounterSpan THEN successes'[b] = streak'[b].len ELSE healthy'[b] = TRUE
         /\ healthy'[b] = IF streak'[b].len >= AtLeastOne(health[v].healthy_threshold) THEN TRUE ELSE healthy[b]
<1> DEFINE T == AtLeastOne(health[v].healthy_threshold)
           n == successes[b]
           len == IF streak[b].ok # TRUE THEN 1
                  ELSE IF streak[b].len = CounterSpan THEN CounterSpan ELSE streak[b].len + 1
<1>1. T \in 1 .. CounterSpan - 1
  <2>1. health[v] \in Settings /\ health[v] # NoCheck
    BY Zenon DEF HealthInv, HealthType, Probed, ReportSuccess, ProbeStep
  <2> QED
    BY <2>1, Thresholds, Zenon
<1>2. n \in 0 .. CounterSpan - 1 /\ streak[b].ok \in BOOLEAN /\ streak[b].len \in 0 .. CounterSpan /\ healthy[b] \in BOOLEAN
  BY Zenon DEF HealthInv, HealthType
<1>3. successes'[b] = (n + 1) % CounterSpan /\ failures'[b] = 0 /\ streak'[b] = [ok |-> TRUE, len |-> len]
  BY Zenon DEF HealthInv, HealthType, ReportSuccess, Extended, StreakCap
<1>4. healthy'[b] = (healthy[b] \/ n + 1 >= T)
  BY Zenon DEF HealthInv, HealthType, ReportSuccess
<1>5. streak[b].ok = TRUE => IF streak[b].len < CounterSpan THEN n = streak[b].len ELSE healthy[b] = TRUE
  BY <1>2, Zenon DEF HealthInv, Counted
<1>6. streak[b].ok = FALSE => n = 0
  BY Zenon DEF HealthInv, Counted
<1>7. (n + 1) % CounterSpan \in 0 .. CounterSpan - 1 /\ (n + 1 < CounterSpan => (n + 1) % CounterSpan = n + 1)
  BY <1>2, Wraps, Zenon
<1>8. CounterSpan \in Nat /\ CounterSpan > 1
  BY HealthAssumption
<1>9. \/ len = CounterSpan /\ healthy[b] = TRUE
      \/ len = n + 1
  <2>1. CASE streak[b].ok = TRUE
    <3>1. len = IF streak[b].len = CounterSpan THEN CounterSpan ELSE streak[b].len + 1
      BY <2>1, Zenon
    <3> HIDE DEF len
    <3> QED
      BY <1>2, <1>5, <1>8, <2>1, <3>1
  <2>2. CASE streak[b].ok = FALSE
    <3>1. len = 1
      BY <2>2, Zenon
    <3> HIDE DEF len
    <3> QED
      BY <1>6, <2>2, <3>1
  <2> QED
    BY <1>2, <2>1, <2>2, Zenon
<1> HIDE DEF T, n, len
<1>10. IF len < CounterSpan THEN successes'[b] = len ELSE healthy'[b] = TRUE
  <2>1. CASE len = CounterSpan /\ healthy[b] = TRUE
    <3>1. ~(len < CounterSpan)
      BY <1>8, <2>1
    <3>2. healthy'[b] = TRUE
      BY <1>4, <2>1, Zenon
    <3> QED
      BY <3>1, <3>2, Zenon
  <2>2. CASE len = n + 1
    <3>1. len < CounterSpan => successes'[b] = len
      BY <1>3, <1>7, <2>2, Zenon
    <3>2. ~(len < CounterSpan) => n + 1 >= T
      BY <1>1, <1>2, <1>8, <2>2
    <3>3. ~(len < CounterSpan) => healthy'[b] = TRUE
      BY <1>4, <3>2, Zenon
    <3> QED
      BY <3>1, <3>3, Zenon
  <2> QED
    BY <1>9, <2>1, <2>2, Zenon
<1>11. healthy'[b] = IF len >= T THEN TRUE ELSE healthy[b]
  <2>1. CASE len = CounterSpan /\ healthy[b] = TRUE
    BY <1>1, <1>4, <1>8, <2>1, Zenon
  <2>2. CASE len = n + 1
    BY <1>1, <1>2, <1>4, <1>8, <2>2, Zenon
  <2> QED
    BY <1>9, <2>1, <2>2, Zenon
<1>12. streak'[b] \in [ok : BOOLEAN, len : 0 .. CounterSpan] /\ streak'[b].ok = TRUE /\ streak'[b].len = len
  BY <1>2, <1>3, <1>8, <1>9
<1> QED
  BY <1>3, <1>7, <1>10, <1>11, <1>12, Zenon DEF T

(* report_check with a failed probe, in the same way: the flag is cleared.     *)
LEMMA FailureCounts ==
  ASSUME HealthInv, NEW v \in Contexts, NEW b \in Backends, ReportFailure(v, b)
  PROVE  /\ streak'[b] \in [ok : BOOLEAN, len : 0 .. CounterSpan] /\ streak'[b].ok = FALSE
         /\ failures'[b] \in 0 .. CounterSpan - 1 /\ successes'[b] = 0
         /\ IF streak'[b].len < CounterSpan THEN failures'[b] = streak'[b].len ELSE healthy'[b] = FALSE
         /\ healthy'[b] = IF streak'[b].len >= AtLeastOne(health[v].unhealthy_threshold) THEN FALSE ELSE healthy[b]
<1> DEFINE T == AtLeastOne(health[v].unhealthy_threshold)
           n == failures[b]
           len == IF streak[b].ok # FALSE THEN 1
                  ELSE IF streak[b].len = CounterSpan THEN CounterSpan ELSE streak[b].len + 1
<1>1. T \in 1 .. CounterSpan - 1
  <2>1. health[v] \in Settings /\ health[v] # NoCheck
    BY Zenon DEF HealthInv, HealthType, Probed, ReportFailure, ProbeStep
  <2> QED
    BY <2>1, Thresholds, Zenon
<1>2. n \in 0 .. CounterSpan - 1 /\ streak[b].ok \in BOOLEAN /\ streak[b].len \in 0 .. CounterSpan /\ healthy[b] \in BOOLEAN
  BY Zenon DEF HealthInv, HealthType
<1>3. failures'[b] = (n + 1) % CounterSpan /\ successes'[b] = 0 /\ streak'[b] = [ok |-> FALSE, len |-> len]
  BY Zenon DEF HealthInv, HealthType, ReportFailure, Extended, StreakCap
<1>4. healthy'[b] = (healthy[b] /\ n + 1 < T)
  BY Zenon DEF HealthInv, HealthType, ReportFailure
<1>5. streak[b].ok = FALSE => IF streak[b].len < CounterSpan THEN n = streak[b].len ELSE healthy[b] = FALSE
  BY <1>2, Zenon DEF HealthInv, Counted
<1>6. streak[b].ok = TRUE => n = 0
  BY Zenon DEF HealthInv, Counted
<1>7. (n + 1) % CounterSpan \in 0 .. CounterSpan - 1 /\ (n + 1 < CounterSpan => (n + 1) % CounterSpan = n + 1)
  BY <1>2, Wraps, Zenon
<1>8. CounterSpan \in Nat /\ CounterSpan > 1
  BY HealthAssumption
<1>9. \/ len = CounterSpan /\ healthy[b] = FALSE
      \/ len = n + 1
  <2>1. CASE streak[b].ok = FALSE
    <3>1. len = IF streak[b].len = CounterSpan THEN CounterSpan ELSE streak[b].len + 1
      BY <2>1, Zenon
    <3> HIDE DEF len
    <3> QED
      BY <1>2, <1>5, <1>8, <2>1, <3>1
  <2>2. CASE streak[b].ok = TRUE
    <3>1. len = 1
      BY <2>2, Zenon
    <3> HIDE DEF len
    <3> QED
      BY <1>6, <2>2, <3>1
  <2> QED
    BY <1>2, <2>1, <2>2, Zenon
<1> HIDE DEF T, n, len
<1>10. IF len < CounterSpan THEN failures'[b] = len ELSE healthy'[b] = FALSE
  <2>1. CASE len = CounterSpan /\ healthy[b] = FALSE
    <3>1. ~(len < CounterSpan)
      BY <1>8, <2>1
    <3>2. healthy'[b] = FALSE
      BY <1>4, <2>1, Zenon
    <3> QED
      BY <3>1, <3>2, Zenon
  <2>2. CASE len = n + 1
    <3>1. len < CounterSpan => failures'[b] = len
      BY <1>3, <1>7, <2>2, Zenon
    <3>2. ~(len < CounterSpan) => ~(n + 1 < T)
      BY <1>1, <1>2, <1>8, <2>2
    <3>3. ~(len < CounterSpan) => healthy'[b] = FALSE
      BY <1>4, <3>2, Zenon
    <3> QED
      BY <3>1, <3>3, Zenon
  <2> QED
    BY <1>9, <2>1, <2>2, Zenon
<1>11. healthy'[b] = IF len >= T THEN FALSE ELSE healthy[b]
  <2>1. CASE len = CounterSpan /\ healthy[b] = FALSE
    BY <1>1, <1>4, <1>8, <2>1, Zenon
  <2>2. CASE len = n + 1
    <3>1. n + 1 < T <=> ~(len >= T)
      BY <1>1, <1>2, <2>2
    <3> QED
      BY <1>2, <1>4, <3>1, Zenon
  <2> QED
    BY <1>9, <2>1, <2>2, Zenon
<1>12. streak'[b] \in [ok : BOOLEAN, len : 0 .. CounterSpan] /\ streak'[b].ok = FALSE /\ streak'[b].len = len
  BY <1>2, <1>3, <1>8, <1>9
<1> QED
  BY <1>3, <1>7, <1>10, <1>11, <1>12, Zenon DEF T

(* A step of one probe moves that probe only, and never back to the queue. *)
LEMMA OneProbe ==
  ASSUME HealthInv, NEW v \in Contexts, NEW b \in Backends,
         ProbeStart(v, b) \/ CheckBackend(v, b) \/ ReportSuccess(v, b) \/ ReportFailure(v, b)
  PROVE  /\ probe' \in [Contexts -> [Backends -> Probe]]
         /\ probe[v][b] # "idle" /\ probe'[v][b] # "queued"
         /\ \A u \in Contexts, c \in Backends : u # v \/ c # b => probe'[u][c] = probe[u][c]
<1>1. PICK to \in Probe \ {"queued"} : probe' = [probe EXCEPT ![v][b] = to]
  <2>1. CASE ProbeStart(v, b)
    BY <2>1, Zenon DEF Probe, ProbeStart, ProbeStep
  <2>2. CASE CheckBackend(v, b)
    BY <2>2, Zenon DEF Probe, CheckBackend, ProbeStep
  <2>3. CASE ReportSuccess(v, b) \/ ReportFailure(v, b)
    BY <2>3, Zenon DEF Probe, ReportSuccess, ReportFailure, ProbeStep
  <2> QED
    BY <2>1, <2>2, <2>3, Zenon
<1>2. probe[v][b] # "idle"
  BY Zenon DEF ProbeStart, CheckBackend, ReportSuccess, ReportFailure, ProbeStep
<1> QED
  BY <1>1, <1>2, Zenon DEF HealthInv, HealthType

(* Every step of a check, of the clock and of a reload keeps HealthInv. *)
LEMMA HealthInvStep == HealthInv /\ [Next]_vars => HealthInv'
<1> SUFFICES ASSUME HealthInv, [Next]_vars PROVE HealthInv'
  BY Zenon
<1>1. ASSUME UNCHANGED <<healthy, successes, failures, streak>> PROVE Counted'
  BY <1>1, Zenon DEF HealthInv, Counted
<1>2. ASSUME NEW v \in Contexts, CheckDue(v) PROVE HealthInv'
  <2>1. HealthType'
    BY <1>2, Zenon DEF HealthInv, HealthType, Probe, CheckDue
  <2>2. Counted'
    BY <1>1, <1>2, Zenon DEF CheckDue
  <2>3. Probed'
    BY <1>2, Zenon DEF HealthInv, HealthType, Probed, CheckDue, IsDue
  <2>4. Dated'
    <3>1. NowMs # 0
      BY DEF HealthInv, Dated, NowMs
    <3> QED
      BY <1>2, <3>1, Zenon DEF HealthInv, Dated, CheckDue, MarkChecked
  <2> QED
    BY <2>1, <2>2, <2>3, <2>4, Zenon DEF HealthInv
<1>3. ASSUME NEW v \in Contexts, CheckEnds(v) PROVE HealthInv'
  <2>1. HealthType' /\ Dated'
    BY <1>3, Zenon DEF HealthInv, HealthType, Dated, CheckEnds
  <2>2. Counted'
    BY <1>1, <1>3, Zenon DEF CheckEnds
  <2>3. Probed'
    BY <1>3, Zenon DEF HealthInv, HealthType, Probed, CheckEnds
  <2> QED
    BY <2>1, <2>2, <2>3, Zenon DEF HealthInv
<1>4. ASSUME NEW v \in Contexts, NEW b \in Backends, ProbeStart(v, b) \/ CheckBackend(v, b) PROVE HealthInv'
  <2>1. HealthType'
    <3>1. probe' \in [Contexts -> [Backends -> Probe]]
      BY <1>4, OneProbe, Zenon
    <3> QED
      BY <1>4, <3>1, Zenon DEF HealthInv, HealthType, ProbeStart, CheckBackend
  <2>2. Counted'
    BY <1>1, <1>4, Zenon DEF ProbeStart, CheckBackend
  <2>3. Probed'
    <3>1. UNCHANGED <<health, checking>>
      BY <1>4, Zenon DEF ProbeStart, CheckBackend
    <3>2. probe[v][b] # "idle" /\ \A u \in Contexts, c \in Backends : u # v \/ c # b => probe'[u][c] = probe[u][c]
      BY <1>4, OneProbe, Zenon
    <3> QED
      BY <3>1, <3>2, Zenon DEF HealthInv, Probed
  <2>4. Dated'
    BY <1>4, Zenon DEF HealthInv, Dated, ProbeStart, CheckBackend
  <2> QED
    BY <2>1, <2>2, <2>3, <2>4, Zenon DEF HealthInv
<1>5. ASSUME NEW v \in Contexts, NEW b \in Backends, ReportSuccess(v, b) PROVE HealthInv'
  <2>1. /\ streak'[b] \in [ok : BOOLEAN, len : 0 .. CounterSpan] /\ streak'[b].ok = TRUE
        /\ successes'[b] \in 0 .. CounterSpan - 1 /\ failures'[b] = 0
        /\ IF streak'[b].len < CounterSpan THEN successes'[b] = streak'[b].len ELSE healthy'[b] = TRUE
    BY <1>5, SuccessCounts, Zenon
  <2>2. \A c \in Backends : c # b =>
          streak'[c] = streak[c] /\ successes'[c] = successes[c] /\ failures'[c] = failures[c] /\ healthy'[c] = healthy[c]
    BY <1>5, Zenon DEF HealthInv, HealthType, ReportSuccess
  <2>3. HealthType'
    <3>1. probe' \in [Contexts -> [Backends -> Probe]] /\ UNCHANGED <<health, checking>>
      BY <1>5, Zenon DEF HealthInv, HealthType, Probe, ReportSuccess, ProbeStep
    <3>2. healthy' \in [Backends -> BOOLEAN]
      BY <1>5, Zenon DEF HealthInv, HealthType, ReportSuccess
    <3>3. successes' \in [Backends -> 0 .. CounterSpan - 1] /\ failures' \in [Backends -> 0 .. CounterSpan - 1]
      BY <1>5, <2>1, <2>2, HealthAssumption DEF HealthInv, HealthType, ReportSuccess
    <3>4. streak' \in [Backends -> [ok : BOOLEAN, len : 0 .. CounterSpan]]
      BY <1>5, <2>1, <2>2, Zenon DEF HealthInv, HealthType, ReportSuccess
    <3> QED
      BY <3>1, <3>2, <3>3, <3>4, Zenon DEF HealthInv, HealthType
  <2>4. Counted'
    BY <2>1, <2>2 DEF HealthInv, Counted
  <2>5. Probed'
    BY <1>5, Zenon DEF HealthInv, HealthType, Probed, ReportSuccess, ProbeStep
  <2>6. Dated'
    BY <1>5, Zenon DEF HealthInv, Dated, ReportSuccess
  <2> QED
    BY <2>3, <2>4, <2>5, <2>6, Zenon DEF HealthInv
<1>6. ASSUME NEW v \in Contexts, NEW b \in Backends, ReportFailure(v, b) PROVE HealthInv'
  <2>1. /\ streak'[b] \in [ok : BOOLEAN, len : 0 .. CounterSpan] /\ streak'[b].ok = FALSE
        /\ failures'[b] \in 0 .. CounterSpan - 1 /\ successes'[b] = 0
        /\ IF streak'[b].len < CounterSpan THEN failures'[b] = streak'[b].len ELSE healthy'[b] = FALSE
    BY <1>6, FailureCounts, Zenon
  <2>2. \A c \in Backends : c # b =>
          streak'[c] = streak[c] /\ successes'[c] = successes[c] /\ failures'[c] = failures[c] /\ healthy'[c] = healthy[c]
    BY <1>6, Zenon DEF HealthInv, HealthType, ReportFailure
  <2>3. HealthType'
    <3>1. probe' \in [Contexts -> [Backends -> Probe]] /\ UNCHANGED <<health, checking>>
      BY <1>6, Zenon DEF HealthInv, HealthType, Probe, ReportFailure, ProbeStep
    <3>2. healthy' \in [Backends -> BOOLEAN]
      BY <1>6, Zenon DEF HealthInv, HealthType, ReportFailure
    <3>3. successes' \in [Backends -> 0 .. CounterSpan - 1] /\ failures' \in [Backends -> 0 .. CounterSpan - 1]
      BY <1>6, <2>1, <2>2, HealthAssumption DEF HealthInv, HealthType, ReportFailure
    <3>4. streak' \in [Backends -> [ok : BOOLEAN, len : 0 .. CounterSpan]]
      BY <1>6, <2>1, <2>2, Zenon DEF HealthInv, HealthType, ReportFailure
    <3> QED
      BY <3>1, <3>2, <3>3, <3>4, Zenon DEF HealthInv, HealthType
  <2>4. Counted'
    BY <2>1, <2>2 DEF HealthInv, Counted
  <2>5. Probed'
    BY <1>6, Zenon DEF HealthInv, HealthType, Probed, ReportFailure, ProbeStep
  <2>6. Dated'
    BY <1>6, Zenon DEF HealthInv, Dated, ReportFailure
  <2> QED
    BY <2>3, <2>4, <2>5, <2>6, Zenon DEF HealthInv
<1>7. ASSUME TimePasses PROVE HealthInv'
  <2>1. HealthType' /\ Probed'
    BY <1>7, Zenon DEF HealthInv, HealthType, Probed, TimePasses
  <2>2. Counted'
    BY <1>1, <1>7, Zenon DEF TimePasses
  <2>3. Dated'
    BY <1>7 DEF HealthInv, Dated, TimePasses
  <2> QED
    BY <2>1, <2>2, <2>3, Zenon DEF HealthInv
<1>8. ASSUME Reload \/ (\E b \in Backends : ServerChanges(b)) \/ UNCHANGED vars PROVE HealthInv'
  <2>1. UNCHANGED <<health, last, checking, probe, elapsed, healthy, successes, failures, streak, gap>>
    BY <1>8, Zenon DEF Reload, ServerChanges, vars
  <2>2. Counted'
    BY <1>1, <2>1, Zenon
  <2> QED
    BY <2>1, <2>2, Zenon DEF HealthInv, HealthType, Probed, Dated
<1> QED
  BY <1>2, <1>3, <1>4, <1>5, <1>6, <1>7, <1>8, Zenon DEF Next, Check

(* The invariant holds in every behaviour. *)
LEMMA HealthInvHolds == Spec => []HealthInv
  BY HealthInvInit, HealthInvStep, PTL DEF Spec

(* A result is reported by report_check alone. *)
LEMMA Reported ==
  ASSUME HealthInv, Next, NEW v \in Contexts, NEW b \in Backends,
         probe[v][b] \in {"ok", "bad"}, probe'[v][b] = "idle"
  PROVE  ReportSuccess(v, b) \/ ReportFailure(v, b)
<1>1. probe # probe'
  BY Zenon
<1>2. PICK u \in Contexts : Check(u)
  BY <1>1, Zenon DEF Next, TimePasses, Reload, ServerChanges
<1>3. ~CheckDue(u) /\ ~CheckEnds(u)
  BY ZenonT(30) DEF HealthInv, HealthType, CheckDue, CheckEnds
<1>4. PICK c \in Backends :
        ProbeStart(u, c) \/ CheckBackend(u, c) \/ ReportSuccess(u, c) \/ ReportFailure(u, c)
  BY <1>2, <1>3, Zenon DEF Check
<1>5. u = v /\ c = b
  BY <1>4, OneProbe
<1>6. ~ProbeStart(v, b) /\ ~CheckBackend(v, b)
  BY Zenon DEF HealthInv, HealthType, ProbeStart, CheckBackend, ProbeStep
<1> QED
  BY <1>4, <1>5, <1>6, Zenon

(* A probe is queued by check_due alone. *)
LEMMA Queued ==
  ASSUME HealthInv, Next, NEW v \in Contexts, NEW b \in Backends,
         probe'[v][b] = "queued", probe[v][b] # "queued"
  PROVE  CheckDue(v)
<1>1. probe # probe'
  BY Zenon
<1>2. PICK u \in Contexts : Check(u)
  BY <1>1, Zenon DEF Next, TimePasses, Reload, ServerChanges
<1>3. \A c \in Backends :
        ~ProbeStart(u, c) /\ ~CheckBackend(u, c) /\ ~ReportSuccess(u, c) /\ ~ReportFailure(u, c)
  BY OneProbe, SMTT(30)
<1>4. CheckDue(u)
  BY <1>1, <1>2, <1>3, Zenon DEF Check, CheckEnds
<1> QED
  BY <1>4, Zenon DEF HealthInv, HealthType, CheckDue

(* report_check's thresholds hold for every counter width and threshold:   *)
(* the flag follows the streak of results and not the wrapped counter.     *)
THEOREM FlagFollowsStreakHolds == Spec => FlagFollowsStreak
<1>1. ASSUME HealthInv, Next, NEW v \in Contexts, NEW b \in Backends,
             probe[v][b] \in {"ok", "bad"}, probe'[v][b] = "idle"
      PROVE  healthy'[b] = IF streak'[b].len >= AtLeastOne(IF streak'[b].ok THEN health[v].healthy_threshold
                                                           ELSE health[v].unhealthy_threshold)
                           THEN streak'[b].ok ELSE healthy[b]
  <2>1. CASE ReportSuccess(v, b)
    <3>1. /\ streak'[b].ok = TRUE
          /\ healthy'[b] = IF streak'[b].len >= AtLeastOne(health[v].healthy_threshold) THEN TRUE ELSE healthy[b]
      BY <1>1, <2>1, SuccessCounts, Zenon
    <3> QED
      BY <3>1, Zenon
  <2>2. CASE ReportFailure(v, b)
    <3>1. /\ streak'[b].ok = FALSE
          /\ healthy'[b] = IF streak'[b].len >= AtLeastOne(health[v].unhealthy_threshold) THEN FALSE ELSE healthy[b]
      BY <1>1, <2>2, FailureCounts, Zenon
    <3> QED
      BY <3>1, Zenon
  <2> QED
    BY <1>1, <2>1, <2>2, Reported, Zenon
<1>2. ASSUME NEW v \in Contexts, NEW b \in Backends, UNCHANGED vars,
             probe[v][b] \in {"ok", "bad"}, probe'[v][b] = "idle"
      PROVE  FALSE
  BY <1>2, Zenon DEF vars
<1>3. HealthInv /\ [Next]_vars =>
        [\A v \in Contexts, b \in Backends :
           LET ok == streak'[b].ok
               enough == streak'[b].len >= AtLeastOne(IF ok THEN health[v].healthy_threshold
                                                            ELSE health[v].unhealthy_threshold)
           IN  (probe[v][b] \in {"ok", "bad"} /\ probe'[v][b] = "idle")
                 => healthy'[b] = IF enough THEN ok ELSE healthy[b]]_vars
  BY <1>1, <1>2, Zenon
<1> QED
  BY <1>3, HealthInvHolds, PTL DEF Spec, FlagFollowsStreak

(* checking and last_check_ms keep the checks of an upstream apart, for    *)
(* any number of servers and any interval.                                 *)
THEOREM ChecksSpacedHolds == Spec => ChecksSpaced
<1>1. ASSUME HealthInv, Next, NEW v \in Contexts, NEW b \in Backends,
             probe'[v][b] = "queued", probe[v][b] # "queued"
      PROVE  /\ \A c \in Backends : probe[v][c] = "idle"
             /\ gap[v] = Never \/ gap[v] >= health[v].interval
  <2>1. CheckDue(v)
    BY <1>1, Queued, Zenon
  <2> QED
    BY <1>1, <2>1, Zenon DEF HealthInv, Probed, Dated, CheckDue, IsDue
<1>2. HealthInv /\ [Next]_vars =>
        [\A v \in Contexts :
           (\E b \in Backends : probe'[v][b] = "queued" /\ probe[v][b] # "queued")
             => /\ \A b \in Backends : probe[v][b] = "idle"
                /\ gap[v] = Never \/ gap[v] >= health[v].interval]_vars
  BY <1>1, Zenon
<1> QED
  BY <1>2, HealthInvHolds, PTL DEF Spec, ChecksSpaced

-----------------------------------------------------------------------------
LEMMA MinIsMember == ASSUME NEW S, S \subseteq Nat, S # {} PROVE Min(S) \in S /\ \A y \in S : Min(S) <= y
<1>1. \E x \in S : \A y \in S : ~(<<y, x>> \in OpToRel(<, Nat))
  BY WFMin, NatLessThanWellFounded, Zenon
<1>2. PICK x \in S : \A y \in S : ~(<<y, x>> \in OpToRel(<, Nat))
  BY <1>1, Zenon
<1>3. \A y \in S : x <= y
  <2> TAKE y \in S
  <2>1. x \in Nat /\ y \in Nat
    BY Zenon
  <2>2. ~(y < x)
    <3> SUFFICES ASSUME y < x PROVE FALSE
      BY Zenon
    <3>1. <<y, x>> \in OpToRel(<, Nat)
      BY <2>1, Zenon DEF OpToRel
    <3> QED
      BY <1>2, <3>1, Zenon
  <2> QED
    BY <2>1, <2>2
<1> QED
  BY <1>3, Zenon DEF Min

(* The rules as they are read. *)
ReadRules == [as : {"prefix", "suffix", "exact", "regex"}, text : Seq(PathTokens), to : Seq(PathTokens)]

(* The entry of an index is a rule of the list, of that kind and text. *)
Stems(entry, list, as, text) ==
  /\ entry.prio \in 0 .. Len(list) - 1
  /\ list[entry.prio + 1].as = as
  /\ list[entry.prio + 1].text = text
  /\ list[entry.prio + 1].to = entry.to

(* A trie holds the first rule of every text, and its least priority. *)
TrieOk(t, list, end) ==
  /\ \A k \in DOMAIN t.rules : Stems(t.rules[k], list, end, k)
  /\ t.min_prio \in Nat
  /\ \A i \in DOMAIN list : list[i].as = end =>
       list[i].text \in DOMAIN t.rules /\ t.rules[list[i].text].prio < i /\ t.min_prio < i

(* The exact map holds the last rule of every plain path. *)
ExactOk(exact, list) ==
  /\ \A p \in DOMAIN exact : Stems(exact[p], list, "exact", p)
  /\ \A i \in DOMAIN list : list[i].as = "exact" => list[i].text \in DOMAIN exact /\ i <= exact[list[i].text].prio + 1

(* The regexes are in the order of the file. *)
RegexOk(regexes, list) ==
  /\ regexes \in Seq([prio : Nat, re : Seq(PathTokens), to : Seq(PathTokens)])
  /\ \A j \in DOMAIN regexes : Stems(regexes[j], list, "regex", regexes[j].re)
  /\ \A j, k \in DOMAIN regexes : j < k => regexes[j].prio < regexes[k].prio
  /\ \A i \in DOMAIN list : list[i].as = "regex" => \E j \in DOMAIN regexes : regexes[j].prio = i - 1

EngineFields == {"ok", "exact", "tries", "regexes", "next"}

EngineOk(e, list) ==
  /\ list \in Seq(ReadRules)
  /\ e = [f \in EngineFields |-> e[f]]
  /\ e.next = Len(list) /\ Len(list) <= MaxPrio
  /\ e.tries = [end \in TrieEnds |-> e.tries[end]]
  /\ \A end \in TrieEnds : TrieOk(e.tries[end], list, end)
  /\ ExactOk(e.exact, list)
  /\ RegexOk(e.regexes, list)

RewriteInv == engine.ok => EngineOk(engine, rewrites)

-----------------------------------------------------------------------------
(* Sequences: their places, and one element more. *)
LEMMA ElementIn == ASSUME NEW S, NEW s \in Seq(S), NEW i \in DOMAIN s PROVE s[i] \in S
  OBVIOUS

LEMMA Places == ASSUME NEW S, NEW s \in Seq(S) PROVE Len(s) \in Nat /\ DOMAIN s = 1 .. Len(s)
  OBVIOUS

(* Places counted from zero, and the priorities that lie among them. *)
LEMMA NextPlace == ASSUME NEW n \in Nat, NEW p \in 0 .. n - 1 PROVE p \in Nat /\ p + 1 \in 1 .. n
  OBVIOUS

LEMMA UpTo == ASSUME NEW n \in Nat, NEW k \in Nat, k <= n PROVE k \in 0 .. n
  OBVIOUS

LEMMA PlaceIsNat == ASSUME NEW n \in Nat, NEW i \in 1 .. n PROVE i \in Nat /\ i <= n
  OBVIOUS

LEMMA Under == ASSUME NEW a \in Nat, NEW b \in Nat, NEW c \in Nat, a <= b, b < c PROVE a < c
  OBVIOUS

LEMMA Above == ASSUME NEW a \in Nat, NEW b \in Nat, NEW c \in Nat, a < b, b < c PROVE a < c
  OBVIOUS

LEMMA Exceeds == ASSUME NEW a \in Nat, NEW b \in Nat, NEW c \in Nat, a <= b, b < c PROVE c > a
  OBVIOUS

LEMMA NotBelow == ASSUME NEW a \in Nat, NEW b \in Nat, ~(a < b) PROVE b <= a
  OBVIOUS

LEMMA Before == ASSUME NEW a \in Nat, NEW c \in Nat, a <= c - 1 PROVE a < c
  OBVIOUS

LEMMA MaxPrioNat == MaxPrio \in Nat /\ MaxRules \in Nat /\ MaxRules <= MaxPrio /\ 2 <= MaxPrio
  BY RewriteAssumption, Zenon

(* An entry of an index points at a place of the list. *)
LEMMA StemsPlace ==
  ASSUME NEW list \in Seq(ReadRules), NEW entry, NEW as, NEW text, Stems(entry, list, as, text)
  PROVE  entry.prio \in Nat /\ entry.prio + 1 \in DOMAIN list
<1>1. entry.prio \in 0 .. Len(list) - 1
  BY Zenon DEF Stems
<1>2. Len(list) \in Nat /\ DOMAIN list = 1 .. Len(list)
  BY Places, Zenon
<1> QED
  BY <1>1, <1>2, NextPlace, Zenon

LEMMA OneMore ==
  ASSUME NEW S, NEW s \in Seq(S), NEW e \in S
  PROVE  /\ Append(s, e) \in Seq(S) /\ Len(Append(s, e)) = Len(s) + 1 /\ DOMAIN Append(s, e) = DOMAIN s \cup {Len(s) + 1}
         /\ \A i \in DOMAIN s : Append(s, e)[i] = s[i]
         /\ Append(s, e)[Len(s) + 1] = e
  OBVIOUS

LEMMA StemsLonger ==
  ASSUME NEW list \in Seq(ReadRules), NEW rule \in ReadRules, NEW entry, NEW as, NEW text, Stems(entry, list, as, text)
  PROVE  Stems(entry, Append(list, rule), as, text)
<1>1. entry.prio \in 0 .. Len(list) - 1 /\ entry.prio \in Nat
  BY DEF Stems
<1>2. entry.prio + 1 \in DOMAIN list
  BY <1>1, Places
<1>3. Append(list, rule)[entry.prio + 1] = list[entry.prio + 1] /\ Len(Append(list, rule)) = Len(list) + 1
  BY <1>2, OneMore
<1>4. entry.prio \in 0 .. Len(Append(list, rule)) - 1
  BY <1>1, <1>3, Places
<1> QED
  BY <1>3, <1>4, Zenon DEF Stems

LEMMA StemsNew ==
  ASSUME NEW list \in Seq(ReadRules), NEW rule \in ReadRules
  PROVE  Stems([prio |-> Len(list), to |-> rule.to], Append(list, rule), rule.as, rule.text)
  BY SMTT(30) DEF Stems

LEMMA TrieInserted ==
  ASSUME NEW list \in Seq(ReadRules), NEW rule \in ReadRules, NEW t, TrieOk(t, list, rule.as)
  PROVE  TrieOk(TrieInsert(t, rule.text, rule.to, Len(list)), Append(list, rule), rule.as)
<1> DEFINE u == TrieInsert(t, rule.text, rule.to, Len(list))
           entry == [prio |-> Len(list), to |-> rule.to]
           longer == Append(list, rule)
<1>1. /\ DOMAIN u.rules = DOMAIN t.rules \cup {rule.text}
      /\ \A k \in DOMAIN u.rules : u.rules[k] = IF k \in DOMAIN t.rules THEN t.rules[k] ELSE entry
      /\ u.min_prio = IF Len(list) < t.min_prio THEN Len(list) ELSE t.min_prio
  BY Zenon DEF TrieInsert
<1> HIDE DEF u
<1>2. ASSUME NEW k \in DOMAIN u.rules PROVE Stems(u.rules[k], longer, rule.as, k)
  <2>1. CASE k \in DOMAIN t.rules
    BY <1>1, <2>1, StemsLonger, Zenon DEF TrieOk
  <2>2. CASE k \notin DOMAIN t.rules
    BY <1>1, <2>2, StemsNew, Zenon
  <2> QED
    BY <2>1, <2>2, Zenon
<1>3. u.min_prio \in Nat
  BY <1>1 DEF TrieOk
<1>4. ASSUME NEW i \in DOMAIN longer, longer[i].as = rule.as
      PROVE  longer[i].text \in DOMAIN u.rules /\ u.rules[longer[i].text].prio < i /\ u.min_prio < i
  <2>1. CASE i \in DOMAIN list
    <3>1. longer[i] = list[i]
      BY <2>1
    <3>2. list[i].text \in DOMAIN t.rules /\ t.rules[list[i].text].prio < i /\ t.min_prio < i
      BY <1>4, <2>1, <3>1, Zenon DEF TrieOk
    <3>3. u.min_prio < i
      BY <1>1, <2>1, <3>2 DEF TrieOk
    <3> QED
      BY <1>1, <3>1, <3>2, <3>3, Zenon
  <2>2. CASE i = Len(list) + 1
    <3>1. longer[i] = rule
      BY <2>2
    <3>2. u.min_prio < i
      BY <1>1, <2>2 DEF TrieOk
    <3>3. CASE rule.text \in DOMAIN t.rules
      <4>1. t.rules[rule.text].prio \in 0 .. Len(list) - 1
        BY <3>3, Zenon DEF TrieOk, Stems
      <4> QED
        BY <1>1, <2>2, <3>1, <3>2, <3>3, <4>1
    <3>4. CASE rule.text \notin DOMAIN t.rules
      BY <1>1, <2>2, <3>1, <3>2, <3>4
    <3> QED
      BY <3>3, <3>4, Zenon
  <2> QED
    BY <2>1, <2>2
<1> QED
  BY <1>2, <1>3, <1>4, Zenon DEF TrieOk, u

LEMMA TrieOthers ==
  ASSUME NEW list \in Seq(ReadRules), NEW rule \in ReadRules, NEW t, NEW end, end # rule.as, TrieOk(t, list, end)
  PROVE  TrieOk(t, Append(list, rule), end)
<1> DEFINE longer == Append(list, rule)
<1>1. \A k \in DOMAIN t.rules : Stems(t.rules[k], longer, end, k)
  BY StemsLonger, Zenon DEF TrieOk
<1>2. ASSUME NEW i \in DOMAIN longer, longer[i].as = end PROVE i \in DOMAIN list /\ longer[i] = list[i]
  BY <1>2
<1> QED
  BY <1>1, <1>2, Zenon DEF TrieOk

LEMMA ExactSet ==
  ASSUME NEW list \in Seq(ReadRules), NEW rule \in ReadRules, rule.as = "exact", NEW exact, ExactOk(exact, list)
  PROVE  ExactOk([p \in DOMAIN exact \cup {rule.text} |-> IF p = rule.text THEN [prio |-> Len(list), to |-> rule.to] ELSE exact[p]],
                 Append(list, rule))
<1> DEFINE entry == [prio |-> Len(list), to |-> rule.to]
           more == [p \in DOMAIN exact \cup {rule.text} |-> IF p = rule.text THEN entry ELSE exact[p]]
           longer == Append(list, rule)
<1>1. ASSUME NEW p \in DOMAIN more PROVE Stems(more[p], longer, "exact", p)
  <2>1. CASE p = rule.text
    BY <2>1, StemsNew, Zenon
  <2>2. CASE p # rule.text
    BY <2>2, StemsLonger, Zenon DEF ExactOk
  <2> QED
    BY <2>1, <2>2, Zenon
<1>2. ASSUME NEW i \in DOMAIN longer, longer[i].as = "exact"
      PROVE  longer[i].text \in DOMAIN more /\ i <= more[longer[i].text].prio + 1
  <2>1. CASE i \in DOMAIN list
    <3>1. longer[i] = list[i]
      BY <2>1
    <3>2. list[i].text \in DOMAIN exact /\ i <= exact[list[i].text].prio + 1
      BY <1>2, <2>1, <3>1, Zenon DEF ExactOk
    <3> QED
      BY <2>1, <3>1, <3>2
  <2>2. CASE i = Len(list) + 1
    BY <2>2
  <2>3. DOMAIN longer = DOMAIN list \cup {Len(list) + 1}
    BY OneMore, Zenon
  <2> QED
    BY <2>1, <2>2, <2>3, Zenon
<1> HIDE DEF more
<1>3. ExactOk(more, longer)
  BY <1>1, <1>2, Zenon DEF ExactOk
<1> QED
  BY <1>3, Zenon DEF more

LEMMA ExactOthers ==
  ASSUME NEW list \in Seq(ReadRules), NEW rule \in ReadRules, rule.as # "exact", NEW exact, ExactOk(exact, list)
  PROVE  ExactOk(exact, Append(list, rule))
<1> DEFINE longer == Append(list, rule)
<1>1. \A p \in DOMAIN exact : Stems(exact[p], longer, "exact", p)
  BY StemsLonger, Zenon DEF ExactOk
<1>2. ASSUME NEW i \in DOMAIN longer, longer[i].as = "exact" PROVE i \in DOMAIN list /\ longer[i] = list[i]
  BY <1>2
<1> QED
  BY <1>1, <1>2, Zenon DEF ExactOk

LEMMA RegexOthers ==
  ASSUME NEW list \in Seq(ReadRules), NEW rule \in ReadRules, rule.as # "regex", NEW regexes, RegexOk(regexes, list)
  PROVE  RegexOk(regexes, Append(list, rule))
<1> DEFINE longer == Append(list, rule)
<1>1. \A j \in DOMAIN regexes : Stems(regexes[j], longer, "regex", regexes[j].re)
  BY StemsLonger, Zenon DEF RegexOk
<1>2. ASSUME NEW i \in DOMAIN longer, longer[i].as = "regex" PROVE i \in DOMAIN list /\ longer[i] = list[i]
  BY <1>2
<1> QED
  BY <1>1, <1>2, Zenon DEF RegexOk

LEMMA RegexAdded ==
  ASSUME NEW list \in Seq(ReadRules), NEW rule \in ReadRules, rule.as = "regex", NEW regexes, RegexOk(regexes, list)
  PROVE  RegexOk(Append(regexes, [prio |-> Len(list), re |-> rule.text, to |-> rule.to]), Append(list, rule))
<1> DEFINE entry == [prio |-> Len(list), re |-> rule.text, to |-> rule.to]
           more == Append(regexes, entry)
           longer == Append(list, rule)
           Entries == [prio : Nat, re : Seq(PathTokens), to : Seq(PathTokens)]
<1>1. entry \in Entries /\ regexes \in Seq(Entries)
  BY DEF ReadRules, RegexOk
<1> HIDE DEF entry, Entries
<1>2. /\ more \in Seq(Entries) /\ DOMAIN more = DOMAIN regexes \cup {Len(regexes) + 1}
      /\ \A j \in DOMAIN regexes : more[j] = regexes[j]
      /\ more[Len(regexes) + 1] = entry
  BY <1>1, OneMore
<1>7. Len(regexes) \in Nat /\ DOMAIN regexes = 1 .. Len(regexes)
  BY <1>1, Places, Zenon
<1> HIDE DEF more
<1>3. ASSUME NEW j \in DOMAIN more PROVE Stems(more[j], longer, "regex", more[j].re)
  <2>1. CASE j \in DOMAIN regexes
    <3>1. more[j] = regexes[j]
      BY <1>2, <2>1, Zenon
    <3> QED
      BY <2>1, <3>1, StemsLonger, Zenon DEF RegexOk
  <2>2. CASE j = Len(regexes) + 1
    <3>1. more[j] = entry
      BY <1>2, <2>2, Zenon
    <3>2. Stems([prio |-> Len(list), to |-> rule.to], longer, "regex", rule.text)
      BY StemsNew, Zenon
    <3> QED
      BY <3>1, <3>2 DEF Stems, entry
  <2> QED
    BY <1>2, <2>1, <2>2, Zenon
<1>4. ASSUME NEW j \in DOMAIN more, NEW k \in DOMAIN more, j < k PROVE more[j].prio < more[k].prio
  <2>1. j \in DOMAIN regexes /\ more[j] = regexes[j]
    BY <1>2, <1>4, <1>7
  <2>2. CASE k \in DOMAIN regexes
    <3>1. more[k] = regexes[k]
      BY <1>2, <2>2, Zenon
    <3> QED
      BY <1>4, <2>1, <2>2, <3>1, Zenon DEF RegexOk
  <2>3. CASE k = Len(regexes) + 1
    <3>1. more[k].prio = Len(list)
      BY <1>2, <2>3 DEF entry
    <3>2. regexes[j].prio \in 0 .. Len(list) - 1
      BY <2>1, Zenon DEF RegexOk, Stems
    <3> QED
      BY <2>1, <3>1, <3>2
  <2>4. k \in DOMAIN regexes \/ k = Len(regexes) + 1
    BY <1>2, Zenon
  <2> QED
    BY <2>2, <2>3, <2>4, Zenon
<1>5. ASSUME NEW i \in DOMAIN longer, longer[i].as = "regex" PROVE \E j \in DOMAIN more : more[j].prio = i - 1
  <2>1. CASE i \in DOMAIN list
    <3>1. longer[i] = list[i]
      BY <2>1
    <3>2. PICK j \in DOMAIN regexes : regexes[j].prio = i - 1
      BY <1>5, <2>1, <3>1, Zenon DEF RegexOk
    <3>3. j \in DOMAIN more /\ more[j] = regexes[j]
      BY <1>2, <3>2, Zenon
    <3> QED
      BY <3>2, <3>3, Zenon
  <2>2. CASE i = Len(list) + 1
    <3>1. Len(regexes) + 1 \in DOMAIN more /\ more[Len(regexes) + 1] = entry
      BY <1>2, Zenon
    <3>2. entry.prio = i - 1
      BY <2>2 DEF entry
    <3> QED
      BY <3>1, <3>2, Zenon
  <2> QED
    BY <2>1, <2>2
<1>6. RegexOk(more, longer)
  BY <1>2, <1>3, <1>4, <1>5, Zenon DEF RegexOk, Entries
<1> QED
  BY <1>6, Zenon DEF more, entry

LEMMA AddRuleOk ==
  ASSUME NEW e, NEW list, EngineOk(e, list), NEW rule \in ReadRules, Len(list) < MaxPrio, AddRule(e, rule).ok
  PROVE  EngineOk(AddRule(e, rule), Append(list, rule))
<1> DEFINE d == AddRule(e, rule)
           i == IndexRule(e, rule)
           longer == Append(list, rule)
<1>1. /\ list \in Seq(ReadRules) /\ e = [f \in EngineFields |-> e[f]] /\ e.next = Len(list)
      /\ e.tries = [end \in TrieEnds |-> e.tries[end]]
      /\ \A end \in TrieEnds : TrieOk(e.tries[end], list, end)
      /\ ExactOk(e.exact, list) /\ RegexOk(e.regexes, list)
  BY Zenon DEF EngineOk
<1>2. longer \in Seq(ReadRules) /\ Len(longer) = Len(list) + 1
  BY <1>1
<1>3. ASSUME i = [f \in EngineFields |-> i[f]], i.next = Len(list),
             i.tries = [end \in TrieEnds |-> i.tries[end]],
             \A end \in TrieEnds : TrieOk(i.tries[end], longer, end),
             ExactOk(i.exact, longer), RegexOk(i.regexes, longer)
      PROVE  EngineOk(d, longer)
  <2>1. d = [i EXCEPT !.next = @ + 1]
    BY Zenon DEF AddRule
  <2> HIDE DEF d, i, longer
  <2>2. /\ d = [f \in EngineFields |-> d[f]] /\ d.next = Len(list) + 1
        /\ d.tries = i.tries /\ d.exact = i.exact /\ d.regexes = i.regexes
    BY <1>3, <2>1, Zenon DEF EngineFields
  <2>3. Len(longer) <= MaxPrio
    BY <1>1, <1>2, MaxPrioNat
  <2> QED
    BY <1>2, <1>3, <2>2, <2>3, Zenon DEF EngineOk
<1>4. CASE rule.as \in TrieEnds
  <2> DEFINE t == TrieInsert(e.tries[rule.as], rule.text, rule.to, Len(list))
  <2>1. i = [e EXCEPT !.tries[rule.as] = t]
    BY <1>1, <1>4, Zenon DEF IndexRule
  <2>2. TrieOk(t, longer, rule.as)
    BY <1>1, <1>4, TrieInserted, Zenon
  <2> HIDE DEF i, t, longer
  <2>3. /\ i = [f \in EngineFields |-> i[f]] /\ i.next = e.next /\ i.exact = e.exact /\ i.regexes = e.regexes
        /\ i.tries = [e.tries EXCEPT ![rule.as] = t]
    BY <1>1, <2>1, Zenon DEF EngineFields
  <2>4. /\ i.tries = [end \in TrieEnds |-> i.tries[end]]
        /\ \A end \in TrieEnds : i.tries[end] = IF end = rule.as THEN t ELSE e.tries[end]
    BY <1>1, <1>4, <2>3, Zenon
  <2>5. \A end \in TrieEnds : TrieOk(i.tries[end], longer, end)
    BY <1>1, <2>2, <2>4, TrieOthers, Zenon DEF longer
  <2>6. rule.as # "exact" /\ rule.as # "regex"
    BY <1>4, Zenon DEF TrieEnds
  <2>7. ExactOk(i.exact, longer) /\ RegexOk(i.regexes, longer)
    BY <1>1, <2>3, <2>6, ExactOthers, RegexOthers, Zenon DEF longer
  <2>9. EngineOk(d, longer)
    BY <1>1, <1>3, <2>3, <2>4, <2>5, <2>7, Zenon
  <2> QED
    BY <2>9, Zenon DEF d, longer
<1>5. CASE rule.as = "exact"
  <2> DEFINE more == [p \in DOMAIN e.exact \cup {rule.text} |-> IF p = rule.text THEN [prio |-> Len(list), to |-> rule.to] ELSE e.exact[p]]
  <2>1. rule.as \notin TrieEnds
    BY <1>5, Zenon DEF TrieEnds
  <2>2. i = [e EXCEPT !.exact = more]
    BY <1>1, <1>5, <2>1, Zenon DEF IndexRule
  <2>3. ExactOk(more, longer)
    BY <1>1, <1>5, ExactSet, Zenon
  <2> HIDE DEF i, more, longer
  <2>4. /\ i = [f \in EngineFields |-> i[f]] /\ i.next = e.next /\ i.exact = more /\ i.regexes = e.regexes /\ i.tries = e.tries
    BY <1>1, <2>2, Zenon DEF EngineFields
  <2>5. \A end \in TrieEnds : TrieOk(i.tries[end], longer, end)
    BY <1>1, <2>1, <2>4, TrieOthers, Zenon DEF longer
  <2>6. RegexOk(i.regexes, longer)
    BY <1>1, <1>5, <2>4, RegexOthers, Zenon DEF longer
  <2>9. EngineOk(d, longer)
    BY <1>1, <1>3, <2>3, <2>4, <2>5, <2>6, Zenon
  <2> QED
    BY <2>9, Zenon DEF d, longer
<1>6. CASE rule.as = "regex"
  <2> DEFINE more == Append(e.regexes, [prio |-> Len(list), re |-> rule.text, to |-> rule.to])
  <2>1. rule.as \notin TrieEnds /\ rule.as # "exact"
    BY <1>6, Zenon DEF TrieEnds
  <2>2. i = IF ReOk(rule.text) THEN [e EXCEPT !.regexes = more] ELSE [e EXCEPT !.ok = FALSE]
    BY <1>1, <2>1, Zenon DEF IndexRule
  <2>3. RegexOk(more, longer)
    BY <1>1, <1>6, RegexAdded, Zenon
  <2>4. d = [i EXCEPT !.next = @ + 1] /\ d.ok
    BY Zenon DEF AddRule
  <2> HIDE DEF d, i, more, longer
  <2>5. ReOk(rule.text)
    <3> SUFFICES ASSUME ~ReOk(rule.text) PROVE FALSE
      BY Zenon
    <3>1. i = [e EXCEPT !.ok = FALSE]
      BY <2>2, Zenon
    <3>2. d.ok = FALSE
      BY <1>1, <2>4, <3>1, Zenon DEF EngineFields
    <3> QED
      BY <2>4, <3>2, Zenon
  <2>6. /\ i = [f \in EngineFields |-> i[f]] /\ i.next = e.next /\ i.exact = e.exact /\ i.regexes = more /\ i.tries = e.tries
    BY <1>1, <2>2, <2>5, Zenon DEF EngineFields
  <2>7. \A end \in TrieEnds : TrieOk(i.tries[end], longer, end)
    BY <1>1, <2>1, <2>6, TrieOthers, Zenon DEF longer
  <2>8. ExactOk(i.exact, longer)
    BY <1>1, <2>1, <2>6, ExactOthers, Zenon DEF longer
  <2>9. EngineOk(d, longer)
    BY <1>1, <1>3, <2>3, <2>6, <2>7, <2>8, Zenon
  <2> QED
    BY <2>9, Zenon DEF d, longer
<1> QED
  BY <1>4, <1>5, <1>6, Zenon DEF ReadRules, TrieEnds

LEMMA EmptyEngineOk == EngineOk(EmptyEngine, <<>>) /\ EmptyEngine.ok
<1>1. TrieOk(EmptyTrie, <<>>, "prefix") /\ TrieOk(EmptyTrie, <<>>, "suffix")
  BY MaxPrioNat DEF TrieOk, EmptyTrie
<1>2. ExactOk(<<>>, <<>>) /\ RegexOk(<<>>, <<>>)
  BY DEF ExactOk, RegexOk
<1>3. \A end \in TrieEnds : EmptyEngine.tries[end] = EmptyTrie
  BY Zenon DEF EmptyEngine
<1>4. \A end \in TrieEnds : TrieOk(EmptyEngine.tries[end], <<>>, end)
  BY <1>1, <1>3, Zenon DEF TrieEnds
<1>5. /\ EmptyEngine = [f \in EngineFields |-> EmptyEngine[f]] /\ EmptyEngine.next = 0
      /\ EmptyEngine.tries = [end \in TrieEnds |-> EmptyEngine.tries[end]]
      /\ EmptyEngine.exact = <<>> /\ EmptyEngine.regexes = <<>>
  BY Zenon DEF EmptyEngine, EngineFields
<1>6. EmptyEngine.ok
  BY Zenon DEF EmptyEngine
<1>7. <<>> \in Seq(ReadRules) /\ Len(<<>>) = 0 /\ 0 <= MaxPrio
  BY MaxPrioNat
<1>8. EngineOk(EmptyEngine, <<>>)
  BY <1>2, <1>4, <1>5, <1>7, Zenon DEF EngineOk
<1> QED
  BY <1>6, <1>8, Zenon

LEMMA ReadRuleType == ASSUME NEW i \in DOMAIN RewriteRules PROVE ReadRule(RewriteRules[i]) \in ReadRules
<1> DEFINE from == RewriteRules[i].from
           n == Len(from)
           Texts == Seq(PathTokens)
<1>1. from \in Texts /\ RewriteRules[i].to \in Texts
  <2>1. RewriteRules \in Seq([from : Seq(PathTokens), to : Seq(PathTokens)])
    BY RewriteAssumption, Zenon
  <2>2. RewriteRules[i] \in [from : Seq(PathTokens), to : Seq(PathTokens)]
    BY <2>1, ElementIn, Zenon
  <2> QED
    BY <2>2, Zenon
<1>2. n \in Nat
  BY <1>1
<1>3. n > 0 => SubSeq(from, 1, n - 1) \in Texts /\ Tail(from) \in Texts
  BY <1>1
<1> HIDE DEF from, n
<1>4. ReadRule(RewriteRules[i]) = IF n > 0 /\ from[n] = "*" THEN [as |-> "prefix", text |-> SubSeq(from, 1, n - 1), to |-> RewriteRules[i].to]
                                 ELSE IF n > 0 /\ from[1] = "*" THEN [as |-> "suffix", text |-> Tail(from), to |-> RewriteRules[i].to]
                                 ELSE IF is_plain_path(from) THEN [as |-> "exact", text |-> from, to |-> RewriteRules[i].to]
                                 ELSE [as |-> "regex", text |-> from, to |-> RewriteRules[i].to]
  BY Zenon DEF ReadRule, from, n
<1>5. ReadRules = [as : {"prefix", "suffix", "exact", "regex"}, text : Texts, to : Texts]
  BY Zenon DEF ReadRules
<1> HIDE DEF Texts
<1> QED
  BY <1>1, <1>3, <1>4, <1>5

LEMMA RewriteInvInit == RewriteInit => RewriteInv
  BY DEF RewriteInit, RewriteInv, NoEngine

LEMMA NewEngineStep == ASSUME NEW k \in DOMAIN Strips, NewEngine(k) PROVE RewriteInv'
<1> DEFINE prefix == Strip("prefix", Strips[k].prefix)
           suffix == Strip("suffix", Strips[k].suffix)
           e1 == WithStrip(EmptyEngine, prefix)
           e2 == WithStrip(e1, suffix)
<1>1. ASSUME NEW end \in TrieEnds, NEW s, s = <<>> \/ s[1] \in Seq(PathTokens)
      PROVE  Strip(end, s) = <<>> \/ \E rule \in ReadRules : rule.as = end /\ Strip(end, s) = <<rule>>
  <2>1. CASE Strip(end, s) # <<>>
    <3>1. Strip(end, s) = <<[as |-> end, text |-> s[1], to |-> <<>>]>> /\ s # <<>>
      BY <2>1, Zenon DEF Strip
    <3>2. [as |-> end, text |-> s[1], to |-> <<>>] \in ReadRules
      BY <1>1, <3>1 DEF ReadRules, TrieEnds
    <3> QED
      BY <3>1, <3>2, Zenon
  <2> QED
    BY <2>1, Zenon
<1>2. ASSUME NEW end \in TrieEnds, NEW e, NEW list, EngineOk(e, list), e.ok, Len(list) < 2,
             NEW strip, strip = <<>> \/ \E rule \in ReadRules : rule.as = end /\ strip = <<rule>>
      PROVE  EngineOk(WithStrip(e, strip), list \o strip) /\ WithStrip(e, strip).ok /\ Len(list \o strip) <= Len(list) + 1
  <2>1. list \in Seq(ReadRules) /\ e = [f \in EngineFields |-> e[f]]
    BY <1>2, Zenon DEF EngineOk
  <2>2. CASE strip = <<>>
    BY <1>2, <2>1, <2>2 DEF WithStrip
  <2>3. CASE strip # <<>>
    <3>1. PICK rule \in ReadRules : rule.as = end /\ strip = <<rule>>
      BY <1>2, <2>3, Zenon
    <3>2. WithStrip(e, strip) = AddRule(e, rule) /\ list \o strip = Append(list, rule) /\ Len(list \o strip) = Len(list) + 1
      BY <2>1, <3>1 DEF WithStrip
    <3> DEFINE i == IndexRule(e, rule)
               t == TrieInsert(e.tries[end], rule.text, rule.to, e.next)
    <3>3. i = [e EXCEPT !.tries[end] = t]
      BY <3>1, Zenon DEF IndexRule
    <3>4. AddRule(e, rule) = [i EXCEPT !.next = @ + 1]
      BY Zenon DEF AddRule
    <3> HIDE DEF i, t
    <3>5. i = [f \in EngineFields |-> i[f]] /\ i.ok = e.ok
      BY <2>1, <3>3, Zenon DEF EngineFields
    <3>6. AddRule(e, rule).ok = e.ok
      BY <3>4, <3>5, Zenon DEF EngineFields
    <3>7. Len(list) < MaxPrio
      BY <1>2, <2>1, MaxPrioNat
    <3>8. AddRule(e, rule).ok
      BY <1>2, <3>6, Zenon
    <3>9. EngineOk(AddRule(e, rule), Append(list, rule))
      BY <1>2, <3>7, <3>8, AddRuleOk, Zenon
    <3> QED
      BY <2>1, <3>2, <3>8, <3>9
  <2> QED
    BY <2>2, <2>3, Zenon
<1>3. \A s \in {Strips[k].prefix, Strips[k].suffix} : s = <<>> \/ s[1] \in Seq(PathTokens)
  BY RewriteAssumption, Zenon
<1>4. "prefix" \in TrieEnds /\ "suffix" \in TrieEnds
  BY Zenon DEF TrieEnds
<1>5. /\ prefix = <<>> \/ \E rule \in ReadRules : rule.as = "prefix" /\ prefix = <<rule>>
      /\ suffix = <<>> \/ \E rule \in ReadRules : rule.as = "suffix" /\ suffix = <<rule>>
  BY <1>1, <1>3, <1>4
<1>6. rewrites' = prefix \o suffix /\ engine' = e2
  BY Zenon DEF NewEngine
<1> HIDE DEF prefix, suffix
<1>7. EngineOk(e1, prefix) /\ e1.ok /\ Len(prefix) <= 1
  <2>1. EngineOk(e1, <<>> \o prefix) /\ e1.ok /\ Len(<<>> \o prefix) <= Len(<<>>) + 1
    <3>1. Len(<<>>) < 2
      OBVIOUS
    <3> QED
      BY <1>2, <1>4, <1>5, <3>1, EmptyEngineOk, Zenon
  <2>2. <<>> \o prefix = prefix
    BY <1>5
  <2> QED
    BY <2>1, <2>2
<1> HIDE DEF e1
<1>8. EngineOk(e2, prefix \o suffix)
  <2>1. Len(prefix) < 2
    BY <1>7 DEF EngineOk
  <2> QED
    BY <1>2, <1>4, <1>5, <1>7, <2>1, Zenon
<1> QED
  BY <1>6, <1>8, Zenon DEF RewriteInv

LEMMA RewriteInvStep == RewriteInv /\ [RewriteNext]_rewriteVars => RewriteInv'
<1> SUFFICES ASSUME RewriteInv, [RewriteNext]_rewriteVars PROVE RewriteInv'
  BY Zenon
<1>1. CASE UNCHANGED rewriteVars
  BY <1>1, Zenon DEF rewriteVars, RewriteInv
<1>2. ASSUME NEW i \in DOMAIN RewriteRules, RuleAdded(i) PROVE RewriteInv'
  <2> DEFINE rule == ReadRule(RewriteRules[i])
  <2>1. engine.ok /\ engine.next < MaxRules /\ rewrites' = Append(rewrites, rule) /\ engine' = AddRule(engine, rule)
    BY <1>2, Zenon DEF RuleAdded
  <2>2. EngineOk(engine, rewrites) /\ rule \in ReadRules
    BY <2>1, ReadRuleType, Zenon DEF RewriteInv
  <2>3. Len(rewrites) < MaxPrio
    BY <2>1, <2>2, MaxPrioNat DEF EngineOk
  <2> HIDE DEF rule
  <2> QED
    BY <2>1, <2>2, <2>3, AddRuleOk, Zenon DEF RewriteInv
<1> QED
  BY <1>1, <1>2, NewEngineStep, Zenon DEF RewriteNext

-----------------------------------------------------------------------------
(* The rules of some kinds that match a path. *)
Hits(list, path, kinds) == {i \in DOMAIN list : list[i].as \in kinds /\ RuleApplies(list[i], path) # <<>>}

(* The candidate is what the first of these rules makes of the path. *)
Best(c, S, list, path) ==
  IF S = {} THEN c.prio = MaxPrio /\ c.path = path
  ELSE c.prio \in Nat /\ c.prio + 1 \in S /\ (\A j \in S : c.prio < j) /\ RuleApplies(list[c.prio + 1], path) = <<c.path>>

Found(found, S, list, path) == IF S = {} THEN found = <<>> ELSE found # <<>> /\ Best(found[1], S, list, path)

(* The places of a list fit the priorities. *)
Numbered(list) == \A i \in DOMAIN list : i \in Nat /\ i <= MaxPrio

LEMMA BetterOk ==
  ASSUME NEW list, Numbered(list), NEW path, NEW c, NEW S \in SUBSET DOMAIN list, Best(c, S, list, path),
         NEW found, NEW T \in SUBSET DOMAIN list, Found(found, T, list, path), NEW min \in Nat, \A j \in T : min < j
  PROVE  Best(Better(c, min, found), S \cup T, list, path)
<1>1. CASE T = {}
  BY <1>1, Zenon DEF Found, Better
<1>2. CASE T # {}
  <2> DEFINE d == found[1]
  <2>1. /\ found # <<>> /\ d.prio \in Nat /\ d.prio + 1 \in T /\ (\A j \in T : d.prio < j)
        /\ RuleApplies(list[d.prio + 1], path) = <<d.path>>
    BY <1>2, Zenon DEF Found, Best
  <2>2. d.prio + 1 <= MaxPrio /\ min <= d.prio
    <3>1. d.prio + 1 <= MaxPrio /\ min < d.prio + 1
      BY <2>1, Zenon DEF Numbered
    <3> HIDE DEF d
    <3> QED
      BY <2>1, <3>1, MaxPrioNat
  <2>3. CASE S = {}
    <3>1. c.prio > min /\ d.prio < c.prio
      <4>1. c.prio = MaxPrio
        BY <2>3, Zenon DEF Best
      <4> HIDE DEF d
      <4> QED
        BY <2>1, <2>2, <4>1, MaxPrioNat
    <3> QED
      BY <2>1, <2>3, <3>1, Zenon DEF Better, Best
  <2>4. CASE S # {}
    <3>1. c.prio \in Nat /\ c.prio + 1 \in S /\ (\A j \in S : c.prio < j) /\ RuleApplies(list[c.prio + 1], path) = <<c.path>>
      BY <2>4, Zenon DEF Best
    <3>2. \A j \in S \cup T : j \in Nat
      BY ZenonT(30) DEF Numbered
    <3> HIDE DEF d
    <3>3. CASE d.prio < c.prio
      <4>1. c.prio > min
        BY <2>1, <2>2, <3>1, <3>3, Exceeds, Zenon
      <4>2. Better(c, min, found) = d
        BY <2>1, <3>3, <4>1, Zenon DEF Better, d
      <4>3. ASSUME NEW j \in S \cup T PROVE d.prio < j
        BY <2>1, <3>1, <3>2, <3>3, Above, Zenon
      <4> QED
        BY <2>1, <4>2, <4>3, Zenon DEF Best
    <3>4. CASE ~(d.prio < c.prio)
      <4>1. Better(c, min, found) = c
        BY <3>4, Zenon DEF Better, d
      <4>2. c.prio <= d.prio
        BY <2>1, <3>1, <3>4, NotBelow, Zenon
      <4>3. ASSUME NEW j \in S \cup T PROVE c.prio < j
        BY <2>1, <3>1, <3>2, <4>2, Under, Zenon
      <4> QED
        BY <3>1, <4>1, <4>3, Zenon DEF Best
    <3> QED
      BY <3>3, <3>4, Zenon
  <2> QED
    BY <2>3, <2>4, Zenon
<1> QED
  BY <1>1, <1>2, Zenon

LEMMA KeyAtLen == ASSUME NEW path \in Seq(PathTokens), NEW n \in 0 .. Len(path), NEW end PROVE Len(KeyAt(end, path, n)) = n
  BY DEF KeyAt

(* The walk along a trie finds the first rule of its kind that matches. *)
LEMMA FindBestOk ==
  ASSUME NEW list \in Seq(ReadRules), NEW path \in Seq(PathTokens), NEW end \in TrieEnds, NEW t, TrieOk(t, list, end)
  PROVE  Found(find_best(t, end, path), Hits(list, path, {end}), list, path)
<1> DEFINE on == {n \in 0 .. Len(path) : KeyAt(end, path, n) \in DOMAIN t.rules}
           Rule(n) == t.rules[KeyAt(end, path, n)]
           prios == {Rule(n).prio : n \in on}
           best == Min(prios)
           m == CHOOSE k \in on : Rule(k).prio = best
           H == Hits(list, path, {end})
<1>1. ASSUME NEW i \in H
      PROVE  /\ i \in DOMAIN list /\ list[i].as = end /\ list[i].text \in DOMAIN t.rules
             /\ Len(list[i].text) \in on /\ KeyAt(end, path, Len(list[i].text)) = list[i].text
  <2>1. i \in DOMAIN list /\ list[i].as = end /\ RuleApplies(list[i], path) # <<>>
    BY Zenon DEF Hits
  <2>2. Len(list[i].text) <= Len(path) /\ KeyAt(end, path, Len(list[i].text)) = list[i].text
    BY <2>1, Zenon DEF RuleApplies
  <2>3. list[i] \in ReadRules
    BY <2>1, ElementIn, Zenon
  <2>4. Len(list[i].text) \in Nat
    BY <2>3, SMTT(30) DEF ReadRules
  <2>5. list[i].text \in DOMAIN t.rules
    BY <2>1, Zenon DEF TrieOk
  <2>6. Len(list[i].text) \in 0 .. Len(path)
    BY <2>2, <2>4, Places, UpTo, Zenon
  <2> QED
    BY <2>1, <2>2, <2>5, <2>6, Zenon
<1>2. ASSUME NEW n \in on
      PROVE  /\ Rule(n).prio \in Nat /\ Rule(n).prio + 1 \in H
             /\ RuleApplies(list[Rule(n).prio + 1], path) = <<Replaced(end, path, n, Rule(n).to)>>
  <2> DEFINE key == KeyAt(end, path, n)
             r == t.rules[key]
             rule == list[r.prio + 1]
  <2>1. key \in DOMAIN t.rules /\ n \in 0 .. Len(path)
    BY Zenon
  <2>s. Stems(r, list, end, key)
    BY <2>1, Zenon DEF TrieOk
  <2>2. rule.as = end /\ rule.text = key /\ rule.to = r.to
    BY <2>s, Zenon DEF Stems
  <2>3. Len(rule.text) = n
    <3>1. Len(key) = n
      BY <2>1, KeyAtLen, Zenon
    <3> HIDE DEF rule, key
    <3> QED
      BY <2>2, <3>1, Zenon
  <2>4. n <= Len(path) /\ KeyAt(rule.as, path, Len(rule.text)) = rule.text
    <3>1. n <= Len(path)
      BY <2>1
    <3> QED
      BY <2>2, <2>3, <3>1, Zenon
  <2>5. r.prio \in Nat /\ r.prio + 1 \in DOMAIN list
    BY <2>s, StemsPlace, Zenon
  <2> HIDE DEF r, rule, key
  <2>6. RuleApplies(rule, path) = <<Replaced(end, path, n, r.to)>>
    BY <2>2, <2>3, <2>4, Zenon DEF RuleApplies
  <2>7. RuleApplies(rule, path) # <<>> /\ rule.as \in {end}
    BY <2>2, <2>6
  <2>8. r.prio + 1 \in H
    BY <2>5, <2>7, Zenon DEF Hits, rule
  <2> QED
    BY <2>5, <2>6, <2>8, Zenon DEF r, rule, key
<1>3. CASE on = {}
  <2>1. find_best(t, end, path) = <<>>
    BY <1>3, Zenon DEF find_best
  <2>2. H = {}
    BY <1>1, <1>3, Zenon
  <2> QED
    BY <2>1, <2>2, Zenon DEF Found
<1>4. CASE on # {}
  <2>1. find_best(t, end, path) = <<[prio |-> best, path |-> Replaced(end, path, m, Rule(m).to)]>>
    BY <1>4, Zenon DEF find_best
  <2>2. prios \subseteq Nat /\ prios # {}
    BY <1>2, <1>4, Zenon
  <2> HIDE DEF prios
  <2>3. best \in prios /\ \A p \in prios : best <= p
    BY <2>2, MinIsMember, Zenon
  <2>4. \E k \in on : Rule(k).prio = best
    BY <2>3, Zenon DEF prios
  <2> HIDE DEF best
  <2>5. m \in on /\ Rule(m).prio = best
    BY <2>4, Zenon
  <2> HIDE DEF m
  <2>6. best \in Nat /\ best + 1 \in H /\ RuleApplies(list[best + 1], path) = <<Replaced(end, path, m, Rule(m).to)>>
    BY <1>2, <2>5, Zenon
  <2>7. ASSUME NEW j \in H PROVE best < j
    <3> DEFINE n == Len(list[j].text)
    <3>1. n \in on /\ j \in DOMAIN list /\ list[j].as = end /\ KeyAt(end, path, n) = list[j].text
      BY <1>1, Zenon
    <3>2. t.rules[list[j].text].prio < j
      BY <3>1, Zenon DEF TrieOk
    <3> HIDE DEF n
    <3>3. Rule(n).prio = t.rules[list[j].text].prio
      BY <3>1, Zenon
    <3>4. Rule(n).prio \in prios /\ Rule(n).prio \in Nat
      BY <1>2, <3>1, Zenon DEF prios
    <3>5. best <= Rule(n).prio
      BY <2>3, <3>4, Zenon
    <3>6. j \in Nat
      BY <3>1, Places, PlaceIsNat, Zenon
    <3> HIDE DEF Rule
    <3>7. Rule(n).prio < j
      BY <3>2, <3>3, Zenon
    <3> QED
      BY <2>6, <3>4, <3>5, <3>6, <3>7, Under, Zenon
  <2> HIDE DEF Rule, on, H
  <2> DEFINE c == [prio |-> best, path |-> Replaced(end, path, m, Rule(m).to)]
  <2>8. Best(c, H, list, path)
    BY <2>6, <2>7, Zenon DEF Best
  <2>9. Found(<<c>>, H, list, path)
    BY <2>6, <2>8, Zenon DEF Found
  <2> QED
    BY <2>1, <2>9, Zenon DEF H
<1> QED
  BY <1>3, <1>4, Zenon

(* Of a list without two rules of a plain path, the map has the one that matches. *)
Twice(list) == \E i, j \in DOMAIN list : /\ i < j /\ list[i].text = list[j].text
                                         /\ list[i].as = "exact" /\ list[j].as = "exact"

ExactCandidate(exact, path) ==
  IF path \in DOMAIN exact THEN [prio |-> exact[path].prio, path |-> exact[path].to] ELSE [prio |-> MaxPrio, path |-> path]

LEMMA ExactBest ==
  ASSUME NEW list \in Seq(ReadRules), ~Twice(list), NEW path, NEW exact, ExactOk(exact, list)
  PROVE  Best(ExactCandidate(exact, path), Hits(list, path, {"exact"}), list, path)
<1> DEFINE H == Hits(list, path, {"exact"})
           c == ExactCandidate(exact, path)
<1>1. ASSUME NEW i \in H PROVE i \in DOMAIN list /\ list[i].as = "exact" /\ list[i].text = path /\ path \in DOMAIN exact
  <2>1. i \in DOMAIN list /\ list[i].as = "exact" /\ RuleApplies(list[i], path) # <<>>
    BY Zenon DEF Hits
  <2>2. list[i].text = path
    BY <2>1, Zenon DEF RuleApplies, TrieEnds
  <2> QED
    BY <2>1, <2>2, Zenon DEF ExactOk
<1>2. CASE path \in DOMAIN exact
  <2> DEFINE p == exact[path].prio
  <2>s. Stems(exact[path], list, "exact", path)
    BY <1>2, Zenon DEF ExactOk
  <2>1. list[p + 1].as = "exact" /\ list[p + 1].text = path /\ list[p + 1].to = exact[path].to
    BY <2>s, ZenonT(30) DEF Stems
  <2>2. c.prio = p /\ c.path = exact[path].to
    BY <1>2, Zenon DEF ExactCandidate
  <2>3. p \in Nat /\ p + 1 \in DOMAIN list
    BY <2>s, StemsPlace, Zenon
  <2> HIDE DEF c, p
  <2>4. RuleApplies(list[p + 1], path) = <<c.path>>
    BY <2>1, <2>2, Zenon DEF RuleApplies, TrieEnds
  <2>5. RuleApplies(list[p + 1], path) # <<>>
    BY <2>4
  <2>6. p + 1 \in H
    BY <2>1, <2>3, <2>5, Zenon DEF Hits
  <2>7. ASSUME NEW j \in H PROVE p < j
    <3>1. j \in DOMAIN list /\ list[j].as = "exact" /\ list[j].text = path
      BY <1>1, Zenon
    <3>2. ~(j < p + 1)
      BY <2>1, <2>3, <3>1, Zenon DEF Twice
    <3> QED
      BY <2>3, <3>1, <3>2
  <2> HIDE DEF H
  <2>8. Best(c, H, list, path)
    BY <2>2, <2>3, <2>4, <2>6, <2>7, Zenon DEF Best
  <2> QED
    BY <2>8, Zenon DEF c, H
<1>3. CASE path \notin DOMAIN exact
  <2>1. H = {}
    BY <1>1, <1>3, Zenon
  <2> QED
    BY <1>3, <2>1, Zenon DEF Best, ExactCandidate
<1> QED
  BY <1>2, <1>3, Zenon

(* The first pattern of the set is the first of the file. *)
LEMMA RegexBest ==
  ASSUME NEW list \in Seq(ReadRules), NEW path, NEW e, RegexOk(e.regexes, list)
  PROVE  Found(match_regex(e, path), Hits(list, path, {"regex"}), list, path)
<1> DEFINE H == Hits(list, path, {"regex"})
           hits == {j \in DOMAIN e.regexes : ReMatches(e.regexes[j].re, path)}
           first == e.regexes[Min(hits)]
<1>1. ASSUME NEW j \in DOMAIN e.regexes
      PROVE  /\ e.regexes[j].prio \in 0 .. Len(list) - 1 /\ list[e.regexes[j].prio + 1].as = "regex"
             /\ list[e.regexes[j].prio + 1].text = e.regexes[j].re /\ list[e.regexes[j].prio + 1].to = e.regexes[j].to
  BY Zenon DEF RegexOk, Stems
<1>2. ASSUME NEW i \in H PROVE i \in Nat /\ \E j \in hits : e.regexes[j].prio = i - 1
  <2>1. i \in DOMAIN list /\ list[i].as = "regex" /\ RuleApplies(list[i], path) # <<>>
    BY Zenon DEF Hits
  <2>2. ReMatches(list[i].text, path)
    BY <2>1, Zenon DEF RuleApplies, TrieEnds
  <2>3. PICK j \in DOMAIN e.regexes : e.regexes[j].prio = i - 1
    BY <2>1, Zenon DEF RegexOk
  <2>4. i \in Nat /\ e.regexes[j].prio + 1 = i
    BY <2>1, <2>3
  <2>5. e.regexes[j].re = list[i].text
    BY <1>1, <2>4, Zenon
  <2>6. j \in hits
    BY <2>2, <2>5, Zenon
  <2> QED
    BY <2>3, <2>4, <2>6, Zenon
<1>3. CASE hits = {}
  <2>1. H = {}
    BY <1>2, <1>3, Zenon
  <2>2. match_regex(e, path) = <<>>
    BY <1>3, Zenon DEF match_regex
  <2> QED
    BY <2>1, <2>2, Zenon DEF Found
<1>4. CASE hits # {}
  <2> DEFINE k == Min(hits)
  <2>1. hits \subseteq Nat
    BY SMTT(30) DEF RegexOk
  <2>2. k \in hits /\ \A j \in hits : k <= j
    BY <1>4, <2>1, MinIsMember, Zenon
  <2>3. match_regex(e, path) = <<[prio |-> first.prio, path |-> ReReplace(first.re, first.to, path)]>>
    BY <1>4, Zenon DEF match_regex
  <2> HIDE DEF k
  <2>4. first = e.regexes[k]
    BY Zenon DEF k
  <2>5. k \in DOMAIN e.regexes /\ ReMatches(first.re, path)
    BY <2>2, <2>4, Zenon
  <2> DEFINE rule == list[first.prio + 1]
  <2>6. first.prio \in Nat /\ first.prio + 1 \in DOMAIN list /\ rule.as = "regex" /\ rule.text = first.re /\ rule.to = first.to
    <3>1. first.prio \in 0 .. Len(list) - 1 /\ rule.as = "regex" /\ rule.text = first.re /\ rule.to = first.to
      BY <1>1, <2>4, <2>5, Zenon
    <3>2. Len(list) \in Nat /\ DOMAIN list = 1 .. Len(list)
      BY Places, Zenon
    <3> HIDE DEF first, rule
    <3> QED
      BY <3>1, <3>2
  <2> HIDE DEF first, rule
  <2>7. ReMatches(rule.text, path) /\ ~(rule.as \in TrieEnds) /\ rule.as # "exact"
    BY <2>5, <2>6, Zenon DEF TrieEnds
  <2>8. RuleApplies(rule, path) = <<ReReplace(first.re, first.to, path)>>
    BY <2>6, <2>7, Zenon DEF RuleApplies
  <2>9. RuleApplies(rule, path) # <<>> /\ rule.as \in {"regex"}
    BY <2>6, <2>8
  <2>10. first.prio + 1 \in H
    BY <2>6, <2>9, Zenon DEF Hits, rule
  <2>11. ASSUME NEW i \in H PROVE first.prio < i
    <3>1. PICK j \in hits : i \in Nat /\ e.regexes[j].prio = i - 1
      BY <1>2, Zenon
    <3>2. k <= j /\ k \in Nat /\ j \in Nat /\ j \in DOMAIN e.regexes
      BY <2>1, <2>2, <3>1, Zenon
    <3>3. CASE k = j
      BY <2>4, <2>6, <3>1, <3>3
    <3>4. CASE k < j
      <4>1. e.regexes[k].prio < e.regexes[j].prio
        BY <2>5, <3>2, <3>4, ZenonT(30) DEF RegexOk
      <4> QED
        BY <2>4, <2>6, <3>1, <4>1
    <3> QED
      BY <3>2, <3>3, <3>4
  <2> DEFINE c == [prio |-> first.prio, path |-> ReReplace(first.re, first.to, path)]
  <2> HIDE DEF H
  <2>12. Best(c, H, list, path)
    BY <2>6, <2>8, <2>10, <2>11, Zenon DEF Best, rule
  <2>13. Found(<<c>>, H, list, path)
    BY <2>10, <2>12, Zenon DEF Found
  <2> QED
    BY <2>3, <2>13, Zenon DEF H
<1> QED
  BY <1>3, <1>4, Zenon

LEMMA RegexLeast ==
  ASSUME NEW list \in Seq(ReadRules), NEW path, NEW regexes, RegexOk(regexes, list), regexes # <<>>
  PROVE  regexes[1].prio \in Nat /\ \A i \in Hits(list, path, {"regex"}) : regexes[1].prio < i
<1> DEFINE R == [prio : Nat, re : Seq(PathTokens), to : Seq(PathTokens)]
<1>0. regexes \in Seq(R)
  BY Zenon DEF RegexOk
<1>1. 1 \in DOMAIN regexes /\ DOMAIN regexes \subseteq Nat \ {0} /\ regexes[1].prio \in Nat
  <2>1. regexes[1] \in R => regexes[1].prio \in Nat
    BY Zenon
  <2> HIDE DEF R
  <2> QED
    BY <1>0, <2>1
<1>2. ASSUME NEW i \in Hits(list, path, {"regex"}) PROVE regexes[1].prio < i
  <2>1. i \in DOMAIN list /\ list[i].as = "regex"
    BY Zenon DEF Hits
  <2>2. PICK j \in DOMAIN regexes : regexes[j].prio = i - 1
    BY <2>1, Zenon DEF RegexOk
  <2>3. i \in Nat /\ (j = 1 \/ 1 < j)
    BY <1>1, <2>1, <2>2
  <2>4. regexes[1].prio <= regexes[j].prio
    <3>1. 1 < j => regexes[1].prio < regexes[j].prio
      BY <1>1, <2>2, Zenon DEF RegexOk
    <3>2. regexes[j].prio \in Int
      BY <2>2, <2>3
    <3> QED
      BY <1>1, <2>3, <3>1, <3>2
  <2>5. regexes[1].prio <= i - 1
    BY <2>2, <2>4, Zenon
  <2> QED
    BY <1>1, <2>3, <2>5, Before, Zenon
<1> QED
  BY <1>1, <1>2, Zenon

LEMMA NoRegexHits ==
  ASSUME NEW list \in Seq(ReadRules), NEW path, RegexOk(<<>>, list)
  PROVE  Hits(list, path, {"regex"}) = {}
  BY DEF RegexOk, Hits

(* The candidate the four indexes agree on is what the first matching rule makes. *)
LEMMA CandidateBest ==
  ASSUME NEW list, NEW e, EngineOk(e, list), ~Twice(list), NEW path \in Seq(PathTokens)
  PROVE  Best(best_candidate(e, path), {i \in DOMAIN list : RuleApplies(list[i], path) # <<>>}, list, path)
<1> DEFINE All == {i \in DOMAIN list : RuleApplies(list[i], path) # <<>>}
           Of(kind) == Hits(list, path, {kind})
           c1 == ExactCandidate(e.exact, path)
           f2 == find_best(e.tries["prefix"], "prefix", path)
           f3 == find_best(e.tries["suffix"], "suffix", path)
           c2 == Better(c1, e.tries["prefix"].min_prio, f2)
           c3 == Better(c2, e.tries["suffix"].min_prio, f3)
           S2 == Of("exact") \cup Of("prefix")
           S3 == S2 \cup Of("suffix")
<1>1. /\ list \in Seq(ReadRules) /\ Len(list) <= MaxPrio /\ ExactOk(e.exact, list) /\ RegexOk(e.regexes, list)
      /\ TrieOk(e.tries["prefix"], list, "prefix") /\ TrieOk(e.tries["suffix"], list, "suffix")
  BY Zenon DEF EngineOk, TrieEnds
<1>2. ASSUME NEW kind PROVE Of(kind) \in SUBSET DOMAIN list /\ \A i \in Of(kind) : list[i].as = kind
  BY Zenon DEF Hits
<1>3. Best(c1, Of("exact"), list, path)
  BY <1>1, ExactBest, Zenon
<1>4. Found(f2, Of("prefix"), list, path) /\ Found(f3, Of("suffix"), list, path)
  BY <1>1, FindBestOk, Zenon DEF TrieEnds
<1>5. ASSUME NEW end \in TrieEnds
      PROVE  e.tries[end].min_prio \in Nat /\ \A j \in Of(end) : e.tries[end].min_prio < j
  <2>1. TrieOk(e.tries[end], list, end)
    BY Zenon DEF EngineOk
  <2> QED
    BY <1>2, <2>1, Zenon DEF TrieOk
<1>6. All = S3 \cup Of("regex")
  <2>1. ASSUME NEW i \in DOMAIN list PROVE list[i].as \in {"prefix", "suffix", "exact", "regex"}
    <3>1. list[i] \in ReadRules
      BY <1>1, ElementIn, Zenon
    <3> QED
      BY <3>1, Zenon DEF ReadRules
  <2> QED
    BY <2>1, ZenonT(30) DEF Hits
<1>7. e.tries["prefix"].min_prio \in Nat /\ (\A j \in Of("prefix") : e.tries["prefix"].min_prio < j)
  BY <1>5, Zenon DEF TrieEnds
<1>8. e.tries["suffix"].min_prio \in Nat /\ (\A j \in Of("suffix") : e.tries["suffix"].min_prio < j)
  BY <1>5, Zenon DEF TrieEnds
<1>9. Of("exact") \in SUBSET DOMAIN list /\ Of("prefix") \in SUBSET DOMAIN list
      /\ Of("suffix") \in SUBSET DOMAIN list /\ Of("regex") \in SUBSET DOMAIN list
  BY <1>2, Zenon
<1>10. best_candidate(e, path) = IF e.regexes = <<>> THEN c3 ELSE Better(c3, e.regexes[1].prio, match_regex(e, path))
  BY Zenon DEF best_candidate, ExactCandidate
<1>n. Numbered(list)
  <2>1. Len(list) \in Nat /\ DOMAIN list = 1 .. Len(list) /\ Len(list) <= MaxPrio
    BY <1>1, Places, Zenon
  <2> QED
    BY <2>1, MaxPrioNat DEF Numbered
<1> HIDE DEF Of, f2, f3, c1
<1>11. Best(c2, S2, list, path)
  BY <1>n, <1>3, <1>4, <1>7, <1>9, BetterOk, ZenonT(30)
<1> HIDE DEF c2, S2
<1>12. S2 \in SUBSET DOMAIN list /\ S3 \in SUBSET DOMAIN list
  BY <1>9, Zenon DEF S2
<1>13. Best(c3, S3, list, path)
  BY <1>n, <1>4, <1>8, <1>9, <1>11, <1>12, BetterOk, Zenon
<1> HIDE DEF c3, S3, All
<1>14. CASE e.regexes = <<>>
  <2>1. Of("regex") = {}
    BY <1>1, <1>14, NoRegexHits, Zenon DEF Of
  <2> QED
    BY <1>6, <1>10, <1>13, <1>14, <2>1, ZenonT(30) DEF All
<1>15. CASE e.regexes # <<>>
  <2>1. Found(match_regex(e, path), Of("regex"), list, path)
    BY <1>1, RegexBest, Zenon DEF Of
  <2>2. e.regexes[1].prio \in Nat /\ (\A j \in Of("regex") : e.regexes[1].prio < j)
    BY <1>1, <1>15, RegexLeast, Zenon DEF Of
  <2>3. Best(Better(c3, e.regexes[1].prio, match_regex(e, path)), S3 \cup Of("regex"), list, path)
    BY <1>n, <1>9, <1>12, <1>13, <2>1, <2>2, BetterOk, ZenonT(30)
  <2> QED
    BY <1>6, <1>10, <1>15, <2>3, Zenon DEF All
<1> QED
  BY <1>14, <1>15, Zenon

LEMMA CandidateIsFirst ==
  ASSUME NEW list, NEW e, EngineOk(e, list), ~Twice(list), NEW path \in Seq(PathTokens)
  PROVE  best_candidate(e, path).path = FirstRule(list, path)
<1> DEFINE All == {i \in DOMAIN list : RuleApplies(list[i], path) # <<>>}
           c == best_candidate(e, path)
<1>1. Best(c, All, list, path)
  BY CandidateBest, Zenon
<1>2. FirstRule(list, path) = IF All = {} THEN path ELSE RuleApplies(list[Min(All)], path)[1]
  BY Zenon DEF FirstRule
<1>3. All \subseteq Nat
  BY DEF EngineOk
<1> HIDE DEF All, c
<1>4. CASE All = {}
  BY <1>1, <1>2, <1>4, Zenon DEF Best, c
<1>5. CASE All # {}
  <2>1. c.prio \in Nat /\ c.prio + 1 \in All /\ (\A j \in All : c.prio < j) /\ RuleApplies(list[c.prio + 1], path) = <<c.path>>
    BY <1>1, <1>5, Zenon DEF Best
  <2>2. Min(All) \in All /\ \A y \in All : Min(All) <= y
    BY <1>3, <1>5, MinIsMember, Zenon
  <2>3. Min(All) = c.prio + 1
    <3>1. Min(All) \in Nat /\ c.prio < Min(All) /\ Min(All) <= c.prio + 1
      BY <1>3, <2>1, <2>2, Zenon
    <3> QED
      BY <2>1, <3>1
  <2>4. FirstRule(list, path) = c.path
    BY <1>2, <1>5, <2>1, <2>3, SMTT(30)
  <2> QED
    BY <2>4, Zenon DEF c
<1> QED
  BY <1>4, <1>5, Zenon

LEMMA InvGivesFirstRule == ASSUME RewriteInv PROVE FirstRuleWins
<1> SUFFICES ASSUME engine.ok, ~Twice(rewrites), NEW path \in RewritePaths
             PROVE  rewrite_uri(engine, path) =
                      LET r == apply_trailing_slash(trailing_slash, FirstRule(rewrites, path))
                      IN IF path = <<>> \/ r = path THEN <<>> ELSE IF r # <<>> /\ r[1] = "/" THEN <<r>> ELSE <<<<"/">> \o r>>
  BY Zenon DEF FirstRuleWins, Twice
<1>1. path \in Seq(PathTokens)
  BY RewriteAssumption, Zenon
<1>2. EngineOk(engine, rewrites)
  BY Zenon DEF RewriteInv
<1>3. best_candidate(engine, path).path = FirstRule(rewrites, path)
  BY <1>1, <1>2, CandidateIsFirst, Zenon
<1>4. CASE path = <<>>
  BY <1>4, Zenon DEF rewrite_uri, apply
<1>5. CASE path # <<>>
  <2> DEFINE r == apply_trailing_slash(trailing_slash, FirstRule(rewrites, path))
  <2>1. apply(engine, path) = r
    BY <1>3, <1>5, Zenon DEF apply
  <2> HIDE DEF r
  <2>2. rewrite_uri(engine, path) = IF r = path THEN <<>> ELSE <<IF r # <<>> /\ r[1] = "/" THEN r ELSE <<"/">> \o r>>
    BY <2>1, Zenon DEF rewrite_uri
  <2>3. rewrite_uri(engine, path) =
          IF path = <<>> \/ r = path THEN <<>> ELSE IF r # <<>> /\ r[1] = "/" THEN <<r>> ELSE <<<<"/">> \o r>>
    <3>1. CASE r = path
      BY <2>2, <3>1, Zenon
    <3>2. CASE r # path /\ (r # <<>> /\ r[1] = "/")
      BY <1>5, <2>2, <3>2, Zenon
    <3>3. CASE r # path /\ ~(r # <<>> /\ r[1] = "/")
      BY <1>5, <2>2, <3>3, Zenon
    <3> QED
      BY <3>1, <3>2, <3>3, Zenon
  <2> QED
    BY <2>3, Zenon DEF r
<1> QED
  BY <1>4, <1>5, Zenon

(* RewriteEngine, for every list of rules, every pair of strips and every path *)
(* policy: the exact map, the two tries and the regex set, each asked only     *)
(* when its least priority may beat the best found, rewrite a path as the      *)
(* first rule of the list that matches it would.                               *)
THEOREM FirstRuleSafety == RewriteSpec => []FirstRuleWins
<1>1. RewriteInit => RewriteInv
  BY RewriteInvInit, Zenon
<1>2. RewriteInv /\ [RewriteNext]_rewriteVars => RewriteInv'
  BY RewriteInvStep, Zenon
<1>3. RewriteInv => FirstRuleWins
  BY InvGivesFirstRule, Zenon
<1> QED
  BY <1>1, <1>2, <1>3, PTL DEF RewriteSpec
=============================================================================
