-------------------------- MODULE FlightWafProofs ---------------------------
(***************************************************************************)
(* Two components that share no state. Single flight (module SingleFlight) *)
(* for every number of callers and of flights. ChunkingInvisible of module *)
(* Waf, for every set of compiled rules, every body and every way it is    *)
(* cut into chunks.                                                        *)
(***************************************************************************)
EXTENDS SingleFlight, Waf, WellFoundedInduction, TLAPS

(* Flight ids are handed out once. *)
IdsIssued == slot < nextId /\ \A c \in Callers : flight[c] < nextId

(* Only finished flights are completed. *)
ObservedDone ==
  \A c \in Callers : pc[c] = "complete" => outcome[flight[c]] # "running"

(* A value is cached only once its slot is free, and a slot is taken only  *)
(* while no value is cached.                                               *)
SlotOrCache == cache # None => slot = None

Inv == TypeOK /\ IdsIssued /\ ObservedDone /\ SlotOrCache /\ OneFetchRuns

LEMMA InitInv == Init => Inv
<1> SUFFICES ASSUME Init PROVE Inv
  BY Zenon
<1>1. nextId \in 1 .. MaxFlights + 1
  BY SingleFlightAssumption DEF Init
<1>2. TypeOK
  BY <1>1, Zenon DEF Init, TypeOK
<1>3. IdsIssued /\ ObservedDone /\ SlotOrCache
  BY DEF Init, IdsIssued, ObservedDone, SlotOrCache, None
<1>4. OneFetchRuns
  BY Zenon DEF Init, OneFetchRuns
<1> QED BY <1>2, <1>3, <1>4, Zenon DEF Inv

LEMMA FlightTypes ==
  ASSUME Inv
  PROVE  /\ nextId \in Nat \ {0} /\ MaxFlights \in Nat
         /\ slot \in Nat /\ cache \in Nat
         /\ \A c \in Callers : flight[c] \in Nat
BY SingleFlightAssumption DEF Inv, TypeOK, Flights, None

LEMMA LeadInv ==
  ASSUME Inv, NEW c \in Callers, Lead(c)
  PROVE  Inv'
<1> USE DEF None
<1>1. nextId \in Flights /\ nextId \in Nat \ {0} /\ nextId' = nextId + 1
      /\ nextId <= MaxFlights
  BY FlightTypes DEF Lead, Flights
<1>2. TypeOK'
  <2>1. nextId' \in 1 .. MaxFlights + 1
    BY <1>1, FlightTypes
  <2> QED BY <1>1, <2>1, Zenon DEF Lead, Inv, TypeOK
<1>3. IdsIssued'
  BY <1>1, FlightTypes DEF Lead, Inv, IdsIssued, TypeOK
<1>4. ObservedDone'
  <2> SUFFICES ASSUME NEW d \in Callers, pc'[d] = "complete"
               PROVE  outcome'[flight'[d]] # "running"
    BY Zenon DEF ObservedDone
  <2>1. d # c /\ pc[d] = "complete" /\ flight'[d] = flight[d]
    BY Zenon DEF Lead, Inv, TypeOK
  <2>2. flight[d] # nextId
    BY <1>1, FlightTypes DEF Inv, IdsIssued
  <2>3. outcome[flight[d]] # "running"
    BY <2>1, Zenon DEF Inv, ObservedDone
  <2> QED BY <1>1, <2>1, <2>2, <2>3 DEF Lead, Inv, TypeOK
<1>5. SlotOrCache'
  BY Zenon DEF Lead, SlotOrCache
<1>6. OneFetchRuns'
  <2>1. \A f \in Flights : outcome[f] # "running"
    BY DEF Lead, Joinable, Inv, OneFetchRuns, Flights
  <2>2. slot' = nextId /\ pc'[c] = "await" /\ flight'[c] = nextId
    BY Zenon DEF Lead, Inv, TypeOK
  <2>3. \A f \in Flights : outcome'[f] = "running" => f = nextId
    BY <2>1, Zenon DEF Lead, Inv, TypeOK
  <2> QED BY <2>2, <2>3, Zenon DEF OneFetchRuns, Holders
<1> QED BY <1>2, <1>3, <1>4, <1>5, <1>6, Zenon DEF Inv

(* Handles move between callers, but a running flight keeps one. *)
LEMMA CallerStepInv ==
  ASSUME Inv, NEW c \in Callers,
         FastMiss(c) \/ FailureHit(c) \/ LateHit(c) \/ Join(c) \/ Observe(c)
  PROVE  Inv'
<1> USE DEF None
<1>1. TypeOK'
  BY Zenon DEF Inv, TypeOK, FastMiss, FailureHit, LateHit, Join, Observe, Joinable
<1>2. IdsIssued'
  BY FlightTypes DEF Inv, IdsIssued, TypeOK, FastMiss, FailureHit, LateHit, Join, Observe
<1>3. ObservedDone'
  BY Zenon DEF Inv, ObservedDone, TypeOK, FastMiss, FailureHit, LateHit, Join, Observe
<1>4. SlotOrCache'
  BY Zenon DEF Inv, SlotOrCache, FastMiss, FailureHit, LateHit, Join, Observe
<1>5. OneFetchRuns'
  <2> SUFFICES ASSUME NEW f \in Flights, outcome'[f] = "running"
               PROVE  slot' = f /\ Holders(f)' # {}
    BY Zenon DEF OneFetchRuns
  <2>1. outcome' = outcome /\ slot' = slot
    BY Zenon DEF FastMiss, FailureHit, LateHit, Join, Observe
  <2>2. PICK d \in Callers : pc[d] = "await" /\ flight[d] = f
    BY <2>1, Zenon DEF Inv, OneFetchRuns, Holders
  <2>3. slot = f
    BY <2>1, Zenon DEF Inv, OneFetchRuns
  <2>4. pc'[d] = "await" /\ flight'[d] = f
    BY <2>1, <2>2, Zenon
       DEF Inv, TypeOK, FastMiss, FailureHit, LateHit, Join, Observe
  <2> QED BY <2>1, <2>3, <2>4, Zenon DEF Holders
<1> QED BY <1>1, <1>2, <1>3, <1>4, <1>5, Zenon DEF Inv

LEMMA CompleteInv ==
  ASSUME Inv, NEW c \in Callers, Complete(c)
  PROVE  Inv'
<1> USE DEF None
<1>1. TypeOK'
  BY SingleFlightAssumption, Zenon DEF Inv, TypeOK, Complete
<1>2. IdsIssued'
  BY FlightTypes DEF Inv, IdsIssued, TypeOK, Complete
<1>3. ObservedDone'
  BY Zenon DEF Inv, ObservedDone, TypeOK, Complete
<1>4. SlotOrCache'
  BY Zenon DEF Inv, SlotOrCache, Complete
<1>5. OneFetchRuns'
  <2> SUFFICES ASSUME NEW f \in Flights, outcome'[f] = "running"
               PROVE  slot' = f /\ Holders(f)' # {}
    BY Zenon DEF OneFetchRuns
  <2>1. outcome[f] = "running" /\ slot = f /\ flight[c] # f
    BY Zenon DEF Complete, Inv, OneFetchRuns, ObservedDone
  <2>2. slot' = f
    BY <2>1, Zenon DEF Complete
  <2>3. PICK d \in Callers : pc[d] = "await" /\ flight[d] = f
    BY <2>1, Zenon DEF Inv, OneFetchRuns, Holders
  <2>4. pc'[d] = "await" /\ flight'[d] = f
    BY <2>1, <2>3, Zenon DEF Complete, Inv, TypeOK
  <2> QED BY <2>2, <2>4, Zenon DEF Holders
<1> QED BY <1>1, <1>2, <1>3, <1>4, <1>5, Zenon DEF Inv

LEMMA CancelInv ==
  ASSUME Inv, NEW c \in Callers, Cancel(c)
  PROVE  Inv'
<1> USE DEF None
<1>1. TypeOK'
  BY Zenon DEF Inv, TypeOK, Cancel
<1>2. IdsIssued'
  BY FlightTypes DEF Inv, IdsIssued, TypeOK, Cancel
<1>3. ObservedDone'
  BY DEF Inv, ObservedDone, TypeOK, Cancel
<1>4. SlotOrCache'
  BY Zenon DEF Inv, SlotOrCache, Cancel
<1>5. OneFetchRuns'
  <2> SUFFICES ASSUME NEW f \in Flights, outcome'[f] = "running"
               PROVE  slot' = f /\ Holders(f)' # {}
    BY Zenon DEF OneFetchRuns
  <2>1. outcome[f] = "running"
    BY Zenon DEF Cancel, Inv, TypeOK
  <2>2. slot = f /\ slot' = f /\ Holders(f) # {}
    BY <2>1, Zenon DEF Cancel, Inv, OneFetchRuns
  <2>3. ~(flight[c] = f /\ Holders(f) = {c})
    BY <2>1, Zenon DEF Cancel, Inv, TypeOK
  <2>4. PICK d \in Callers : d # c /\ pc[d] = "await" /\ flight[d] = f
    BY <2>2, <2>3, Zenon DEF Cancel, Holders
  <2>5. pc'[d] = "await" /\ flight'[d] = f
    BY <2>4, Zenon DEF Cancel, Inv, TypeOK
  <2> QED BY <2>2, <2>5, Zenon DEF Holders
<1> QED BY <1>1, <1>2, <1>3, <1>4, <1>5, Zenon DEF Inv

LEMMA NextInv == Inv /\ [Next]_vars => Inv'
<1> SUFFICES ASSUME Inv, [Next]_vars PROVE Inv'
  BY Zenon
<1>1. CASE UNCHANGED vars
  BY <1>1, Zenon DEF vars, Inv, TypeOK, IdsIssued, ObservedDone, SlotOrCache,
     OneFetchRuns, Holders
<1>2. ASSUME NEW f \in Flights, Fetch(f) PROVE Inv'
  <2>1. TypeOK'
    BY <1>2, Zenon DEF Fetch, Inv, TypeOK
  <2>2. IdsIssued' /\ SlotOrCache'
    BY <1>2, Zenon DEF Fetch, Inv, IdsIssued, SlotOrCache
  <2>3. \A g : outcome'[g] = "running" => outcome[g] = "running"
    BY <1>2 DEF Fetch, Inv, TypeOK
  <2> QED BY <1>2, <2>1, <2>2, <2>3, Zenon
          DEF Fetch, Inv, ObservedDone, OneFetchRuns, Holders
<1>3. CASE Forget \/ ForgetFailure
  <2>1. TypeOK'
    BY <1>3, Zenon DEF Forget, ForgetFailure, Inv, TypeOK
  <2>2. IdsIssued' /\ ObservedDone' /\ SlotOrCache'
    BY <1>3, Zenon DEF Forget, ForgetFailure, Inv, IdsIssued, ObservedDone, SlotOrCache
  <2>3. OneFetchRuns'
    BY <1>3, Zenon DEF Forget, ForgetFailure, Inv, OneFetchRuns, Holders
  <2> QED BY <2>1, <2>2, <2>3, Zenon DEF Inv
<1>4. ASSUME NEW c \in Callers,
             FastMiss(c) \/ Locked(c) \/ Observe(c) \/ Complete(c) \/ Cancel(c)
      PROVE  Inv'
  BY <1>4, LeadInv, CallerStepInv, CompleteInv, CancelInv, Zenon DEF Locked
<1> QED BY <1>1, <1>2, <1>3, <1>4, Zenon DEF Next

(* The invariant of the coalescing protocol, types included.               *)
THEOREM InvHolds == Spec => []Inv
<1> QED BY InitInv, NextInv, PTL DEF Spec

(* ufo.rs:297-303: never two fetches of a key at once, and a running one   *)
(* is the one a new caller joins.                                          *)
THEOREM OneFetchRunsHolds == Spec => []OneFetchRuns
<1>1. Inv => OneFetchRuns
  BY Zenon DEF Inv
<1> QED BY <1>1, InvHolds, PTL

(* ufo.rs:388-390: a late caller of an old flight never overwrites a value *)
(* a newer flight cached.                                                  *)
THEOREM CacheMovesForwardHolds == Spec => CacheMovesForward
<1>1. Inv /\ [Next]_vars => (cache # None /\ cache' # None => cache' >= cache)
  <2> SUFFICES ASSUME Inv, [Next]_vars, cache # None, cache' # None
               PROVE  cache' = cache
    BY FlightTypes
  <2>1. slot = None
    BY Zenon DEF Inv, SlotOrCache
  <2>2. ASSUME NEW c \in Callers, Complete(c) PROVE cache' = cache
    BY <2>1, <2>2, Zenon DEF Complete, Inv, TypeOK, None
  <2> QED BY <2>2, Zenon DEF Next, vars, Locked, FastMiss, FailureHit, LateHit, Join,
                      Lead, Observe, Cancel, Fetch, Forget, ForgetFailure
<1> QED BY <1>1, InvHolds, PTL DEF Spec, CacheMovesForward

-----------------------------------------------------------------------------
LEMMA MinIsMember == ASSUME NEW S, S \subseteq Nat, S # {} PROVE Min(S) \in S /\ \A y \in S : Min(S) <= y
<1>1. \E x \in S : \A y \in S : ~(<<y, x>> \in OpToRel(<, Nat))
  BY WFMin, NatLessThanWellFounded, Zenon
<1>2. PICK x \in S : \A y \in S : ~(<<y, x>> \in OpToRel(<, Nat))
  BY <1>1, Zenon
<1>3. \A y \in S : x <= y
  <2> TAKE y \in S
  <2>1. x \in Nat /\ y \in Nat
    BY Zenon
  <2>2. ~(y < x)
    <3> SUFFICES ASSUME y < x PROVE FALSE
      BY Zenon
    <3>1. <<y, x>> \in OpToRel(<, Nat)
      BY <2>1, Zenon DEF OpToRel
    <3> QED
      BY <1>2, <3>1, Zenon
  <2> QED
    BY <2>1, <2>2
<1> QED
  BY <1>3, Zenon DEF Min

(* The k bytes before and at place m are in the first k sets of the expression. *)
EndsAt(re, text, k, m) == k <= m /\ \A i \in 1..k : text[m - k + i] \in re[i]
Ends(phase, text, r, m) == EndsAt(phase.dfa[r].pat, text, Len(phase.dfa[r].pat), m)

(* The automaton after n bytes: it runs in the set of the expressions begun at *)
(* the end of them, it has seen a match, or it has given up.                   *)
RunOk(phase, S, text, n) ==
  /\ \A i \in 1..n : text[i] \notin QuitBytes
  /\ \A r \in DOMAIN phase.dfa : \A m \in 0..n - 1 : ~Ends(phase, text, r, m)
  /\ S \subseteq (DOMAIN phase.dfa) \X Nat
  /\ \A r \in DOMAIN phase.dfa : \A k \in 0..Len(phase.dfa[r].pat) : <<r, k>> \in S <=> EndsAt(phase.dfa[r].pat, text, k, n)

HitOk(phase, r, text, n) ==
  /\ r \in DOMAIN phase.dfa
  /\ \E m \in 0..n - 1 : Ends(phase, text, r, m) /\ \A i \in 1..m + 1 : text[i] \notin QuitBytes

QuitOk(phase, text, n) ==
  \E q \in 1..n : /\ text[q] \in QuitBytes
                  /\ \A i \in 1..q - 1 : text[i] \notin QuitBytes
                  /\ \A r \in DOMAIN phase.dfa : \A m \in 0..q - 2 : ~Ends(phase, text, r, m)

StOk(phase, st, text, n) ==
  \/ st[1] = "run" /\ RunOk(phase, st[2], text, n)
  \/ st[1] = "hit" /\ HitOk(phase, st[2], text, n)
  \/ st[1] = "quit" /\ QuitOk(phase, text, n)

-----------------------------------------------------------------------------
LEMMA DoneEnds ==
  ASSUME NEW phase, PhaseOk(phase), NEW S, NEW text, NEW n, RunOk(phase, S, text, n)
  PROVE  /\ DfaDone(phase, S) = {r \in DOMAIN phase.dfa : Ends(phase, text, r, n)}
         /\ DfaDone(phase, S) # {} => Min(DfaDone(phase, S)) \in DfaDone(phase, S)
<1>1. ASSUME NEW r \in DOMAIN phase.dfa PROVE <<r, Len(phase.dfa[r].pat)>> \in S <=> Ends(phase, text, r, n)
  <2>1. phase.dfa[r].pat \in Seq(SUBSET Bytes)
    BY Zenon DEF PhaseOk
  <2>2. Len(phase.dfa[r].pat) \in 0..Len(phase.dfa[r].pat)
    BY <2>1
  <2> QED
    BY <2>2, Zenon DEF RunOk, Ends
<1>2. DfaDone(phase, S) = {r \in DOMAIN phase.dfa : Ends(phase, text, r, n)}
  BY <1>1, Zenon DEF DfaDone
<1>3. DfaDone(phase, S) \subseteq Nat
  BY Zenon DEF DfaDone, PhaseOk
<1> QED
  BY <1>2, <1>3, MinIsMember, Zenon

LEMMA NextRuns ==
  ASSUME NEW phase, PhaseOk(phase), NEW S, NEW text, NEW n \in Nat, RunOk(phase, S, text, n),
         text[n + 1] \notin QuitBytes, DfaDone(phase, S) = {}
  PROVE  RunOk(phase, DfaNext(phase, S, text[n + 1]), text, n + 1)
<1> DEFINE b == text[n + 1]
           Pat(r) == phase.dfa[r].pat
           T == DfaNext(phase, S, b)
<1>1. \A r \in DOMAIN phase.dfa : Pat(r) \in Seq(SUBSET Bytes) /\ Len(Pat(r)) \in Nat
  BY DEF PhaseOk
<1>2. \A i \in 1..n + 1 : text[i] \notin QuitBytes
  BY DEF RunOk
<1>3. ASSUME NEW r \in DOMAIN phase.dfa, NEW m \in 0..n PROVE ~Ends(phase, text, r, m)
  <2>1. CASE m = n
    BY <2>1, DoneEnds
  <2>2. CASE m # n
    BY <2>2 DEF RunOk
  <2> QED
    BY <2>1, <2>2, Zenon
<1>4. S \subseteq (DOMAIN phase.dfa) \X Nat
  BY Zenon DEF RunOk
<1>5. T \subseteq (DOMAIN phase.dfa) \X Nat
  BY <1>4 DEF DfaNext, DfaStart
<1>6. ASSUME NEW r \in DOMAIN phase.dfa, NEW k \in 0..Len(Pat(r))
      PROVE  <<r, k>> \in T <=> EndsAt(Pat(r), text, k, n + 1)
  <2>1. CASE k = 0
    <3>1. <<r, k>> \in T
      BY <2>1, Zenon DEF DfaNext, DfaStart
    <3> QED
      BY <2>1, <3>1 DEF EndsAt
  <2>2. CASE k # 0
    <3>1. k - 1 \in 0..Len(Pat(r)) /\ k - 1 < Len(Pat(r)) /\ k \in Nat
      BY <1>1, <2>2
    <3>2. <<r, k>> \in T <=> <<r, k - 1>> \in S /\ b \in Pat(r)[k]
      <4>1. ASSUME <<r, k>> \in T PROVE <<r, k - 1>> \in S /\ b \in Pat(r)[k]
        <5>1. PICK q \in S : <<r, k>> = <<q[1], q[2] + 1>> /\ b \in Pat(q[1])[q[2] + 1]
          BY <2>2, <4>1, Zenon DEF DfaNext, DfaStart
        <5>2. q = <<q[1], q[2]>> /\ q[2] \in Nat /\ q[1] = r /\ q[2] + 1 = k
          BY <1>4, <5>1
        <5> QED
          BY <5>1, <5>2, <3>1
      <4>2. ASSUME <<r, k - 1>> \in S, b \in Pat(r)[k] PROVE <<r, k>> \in T
        <5> DEFINE q == <<r, k - 1>>
        <5>1. q[1] = r /\ q[2] = k - 1 /\ q[2] + 1 = k
          BY <3>1
        <5>2. q \in {x \in S : x[2] < Len(phase.dfa[x[1]].pat) /\ b \in phase.dfa[x[1]].pat[x[2] + 1]}
          BY <3>1, <4>2, <5>1, Zenon
        <5>3. <<q[1], q[2] + 1>> = <<r, k>>
          BY <5>1, Zenon
        <5> HIDE DEF q
        <5> QED
          BY <5>2, <5>3, Zenon DEF DfaNext
      <4> QED
        BY <4>1, <4>2, Zenon
    <3>3. <<r, k - 1>> \in S <=> EndsAt(Pat(r), text, k - 1, n)
      BY <3>1, Zenon DEF RunOk
    <3>4. EndsAt(Pat(r), text, k, n + 1) <=> EndsAt(Pat(r), text, k - 1, n) /\ b \in Pat(r)[k]
      <4> HIDE DEF Pat
      <4>1. ASSUME EndsAt(Pat(r), text, k, n + 1) PROVE EndsAt(Pat(r), text, k - 1, n) /\ b \in Pat(r)[k]
        <5>1. k \in 1..k /\ n + 1 - k + k = n + 1
          BY <2>2, <3>1
        <5>2. b \in Pat(r)[k]
          BY <4>1, <5>1, SMTT(30) DEF EndsAt
        <5>3. ASSUME NEW i \in 1..k - 1 PROVE text[n - (k - 1) + i] \in Pat(r)[i]
          <6>1. i \in 1..k /\ n + 1 - k + i = n - (k - 1) + i
            BY <3>1
          <6> QED
            BY <4>1, <6>1 DEF EndsAt
        <5>4. k - 1 <= n
          BY <3>1, <4>1 DEF EndsAt
        <5> QED
          BY <5>2, <5>3, <5>4, Zenon DEF EndsAt
      <4>2. ASSUME EndsAt(Pat(r), text, k - 1, n), b \in Pat(r)[k] PROVE EndsAt(Pat(r), text, k, n + 1)
        <5>1. ASSUME NEW i \in 1..k PROVE text[n + 1 - k + i] \in Pat(r)[i]
          <6>1. CASE i = k
            <7>1. n + 1 - k + i = n + 1
              BY <3>1, <6>1
            <7> QED
              BY <4>2, <6>1, <7>1, Zenon
          <6>2. CASE i # k
            <7>1. i \in 1..k - 1 /\ n - (k - 1) + i = n + 1 - k + i
              BY <3>1, <6>2
            <7> QED
              BY <4>2, <7>1, Zenon DEF EndsAt
          <6> QED
            BY <6>1, <6>2, Zenon
        <5>2. k <= n + 1
          BY <3>1, <4>2 DEF EndsAt
        <5> QED
          BY <5>1, <5>2 DEF EndsAt
      <4> QED
        BY <4>1, <4>2, Zenon
    <3> QED
      BY <3>2, <3>3, <3>4, Zenon
  <2> QED
    BY <2>1, <2>2, Zenon
<1> HIDE DEF T, b, Pat
<1>7. RunOk(phase, T, text, n + 1)
  BY <1>2, <1>3, <1>5, <1>6 DEF RunOk, Pat
<1> QED
  BY <1>7, Zenon DEF T, b

LEMMA StepOk ==
  ASSUME NEW phase, PhaseOk(phase), NEW st, NEW text, NEW n \in Nat, StOk(phase, st, text, n)
  PROVE  StOk(phase, DfaStep(phase, st, text[n + 1]), text, n + 1)
<1> DEFINE b == text[n + 1]
<1>1. CASE st[1] = "run"
  <2>1. RunOk(phase, st[2], text, n)
    BY <1>1, Zenon DEF StOk
  <2>2. CASE b \in QuitBytes
    <3>1. QuitOk(phase, text, n + 1)
      BY <2>1, <2>2 DEF RunOk, QuitOk
    <3> QED
      BY <1>1, <2>2, <3>1, Zenon DEF DfaStep, StOk
  <2>3. CASE b \notin QuitBytes /\ DfaDone(phase, st[2]) # {}
    <3> DEFINE r == Min(DfaDone(phase, st[2]))
    <3>1. r \in DOMAIN phase.dfa /\ Ends(phase, text, r, n)
      BY <2>1, <2>3, DoneEnds
    <3>2. HitOk(phase, r, text, n + 1)
      BY <2>1, <2>3, <3>1 DEF RunOk, HitOk
    <3> QED
      BY <1>1, <2>3, <3>2, Zenon DEF DfaStep, StOk
  <2>4. CASE b \notin QuitBytes /\ DfaDone(phase, st[2]) = {}
    <3>1. RunOk(phase, DfaNext(phase, st[2], b), text, n + 1)
      BY <2>1, <2>4, NextRuns, Zenon
    <3> QED
      BY <1>1, <2>4, <3>1, Zenon DEF DfaStep, StOk
  <2> QED
    BY <2>2, <2>3, <2>4, Zenon
<1>2. CASE st[1] = "hit"
  <2>1. DfaStep(phase, st, b) = st
    BY <1>2, Zenon DEF DfaStep
  <2>2. HitOk(phase, st[2], text, n)
    BY <1>2, Zenon DEF StOk
  <2>3. 0..n - 1 \subseteq 0..(n + 1) - 1
    OBVIOUS
  <2>4. HitOk(phase, st[2], text, n + 1)
    BY <2>2, <2>3, Zenon DEF HitOk
  <2> QED
    BY <1>2, <2>1, <2>4, Zenon DEF StOk
<1>3. CASE st[1] = "quit"
  <2>1. DfaStep(phase, st, b) = st
    BY <1>3, Zenon DEF DfaStep
  <2>2. QuitOk(phase, text, n)
    BY <1>3, Zenon DEF StOk
  <2>3. 1..n \subseteq 1..n + 1
    OBVIOUS
  <2>4. QuitOk(phase, text, n + 1)
    BY <2>2, <2>3, Zenon DEF QuitOk
  <2> QED
    BY <1>3, <2>1, <2>4, Zenon DEF StOk
<1> QED
  BY <1>1, <1>2, <1>3, Zenon DEF StOk

LEMMA RunDefined ==
  ASSUME NEW phase, NEW S, NEW chunk, Len(chunk) \in Nat
  PROVE  /\ DfaRun(phase, S, chunk)[0] = <<"run", S>>
         /\ \A i \in 1..Len(chunk) : DfaRun(phase, S, chunk)[i] = DfaStep(phase, DfaRun(phase, S, chunk)[i - 1], chunk[i])
<1> DEFINE Body(f, n) == [i \in 0..n |-> IF i = 0 THEN <<"run", S>> ELSE DfaStep(phase, f[i - 1], chunk[i])]
           Runs(n) == \E f : f = Body(f, n)
           Bad == {n \in Nat : ~Runs(n)}
           run == DfaRun(phase, S, chunk)
<1>1. Bad = {}
  <2> SUFFICES ASSUME Bad # {} PROVE FALSE
    BY Zenon
  <2> DEFINE n == Min(Bad)
  <2>0. Bad \subseteq Nat
    BY Zenon
  <2> HIDE DEF Bad
  <2>1. n \in Bad /\ \A y \in Bad : n <= y
    BY <2>0, MinIsMember, Zenon
  <2> HIDE DEF n
  <2>2. n \in Nat /\ ~Runs(n)
    BY <2>1, Zenon DEF Bad
  <2>3. n # 0
    <3> DEFINE f == [i \in 0..0 |-> <<"run", S>>]
    <3>1. f = Body(f, 0)
      OBVIOUS
    <3> HIDE DEF f
    <3>2. Runs(0)
      BY <3>1, Zenon
    <3> QED
      BY <2>2, <3>2, Zenon
  <2>4. n - 1 \in Nat /\ n - 1 \notin Bad
    BY <2>1, <2>2, <2>3
  <2>5. PICK f : f = Body(f, n - 1)
    BY <2>4, Zenon DEF Bad
  <2> DEFINE last == DfaStep(phase, f[n - 1], chunk[n])
             g == [i \in 0..n |-> IF i = n THEN last ELSE f[i]]
  <2> HIDE DEF last
  <2>6. ASSUME NEW i \in 0..n PROVE g[i] = IF i = 0 THEN <<"run", S>> ELSE DfaStep(phase, g[i - 1], chunk[i])
    <3>1. CASE i = n
      <4>1. n - 1 \in 0..n /\ n - 1 # n
        BY <2>2, <2>3
      <4>2. g[n - 1] = f[n - 1] /\ g[i] = last
        BY <3>1, <4>1, Zenon
      <4> QED
        BY <3>1, <4>2, <2>3, Zenon DEF last
    <3>2. CASE i # n
      <4>1. i \in 0..n - 1 /\ g[i] = f[i]
        BY <2>2, <3>2
      <4>2. f[i] = IF i = 0 THEN <<"run", S>> ELSE DfaStep(phase, f[i - 1], chunk[i])
        BY <2>5, <4>1, Zenon
      <4>3. i # 0 => i - 1 \in 0..n /\ i - 1 # n
        BY <2>2, <3>2
      <4>4. i # 0 => g[i - 1] = f[i - 1]
        BY <4>3, Zenon
      <4> QED
        BY <4>1, <4>2, <4>4, Zenon
    <3> QED
      BY <3>1, <3>2, Zenon
  <2>7. g = [i \in 0..n |-> g[i]]
    BY Zenon
  <2> HIDE DEF g
  <2>8. g = Body(g, n)
    BY <2>6, <2>7, Zenon
  <2> QED
    BY <2>2, <2>8, Zenon
<1>2. Runs(Len(chunk))
  BY <1>1, Zenon
<1>3. run = CHOOSE f : f = Body(f, Len(chunk))
  BY Zenon DEF DfaRun
<1> HIDE DEF run
<1>4. run = Body(run, Len(chunk))
  BY <1>2, <1>3, Zenon
<1>5. run[0] = <<"run", S>>
  <2>1. 0 \in 0..Len(chunk)
    OBVIOUS
  <2> QED
    BY <1>4, <2>1, Zenon
<1>6. ASSUME NEW i \in 1..Len(chunk) PROVE run[i] = DfaStep(phase, run[i - 1], chunk[i])
  <2>1. i \in 0..Len(chunk) /\ i # 0
    OBVIOUS
  <2> QED
    BY <1>4, <2>1, Zenon
<1> QED
  BY <1>5, <1>6, Zenon DEF run

LEMMA RunAlong ==
  ASSUME NEW phase, PhaseOk(phase), NEW S, NEW chunk, Len(chunk) \in Nat, NEW text, NEW n \in Nat,
         RunOk(phase, S, text, n), \A i \in 1..Len(chunk) : text[n + i] = chunk[i]
  PROVE  StOk(phase, DfaRun(phase, S, chunk)[Len(chunk)], text, n + Len(chunk))
<1> DEFINE run == DfaRun(phase, S, chunk)
           Bad == {i \in 0..Len(chunk) : ~StOk(phase, run[i], text, n + i)}
<1>1. run[0] = <<"run", S>> /\ \A i \in 1..Len(chunk) : run[i] = DfaStep(phase, run[i - 1], chunk[i])
  BY RunDefined
<1> HIDE DEF run
<1>2. Bad = {}
  <2> SUFFICES ASSUME Bad # {} PROVE FALSE
    BY Zenon
  <2> DEFINE i == Min(Bad)
  <2>0. Bad \subseteq Nat
    OBVIOUS
  <2> HIDE DEF Bad
  <2>1. i \in Bad /\ \A y \in Bad : i <= y
    BY <2>0, MinIsMember, Zenon
  <2> HIDE DEF i
  <2>2. i \in 0..Len(chunk) /\ ~StOk(phase, run[i], text, n + i)
    BY <2>1, Zenon DEF Bad
  <2>3. i # 0
    <3>1. run[0][1] = "run" /\ run[0][2] = S
      BY <1>1
    <3>2. StOk(phase, run[0], text, n)
      BY <3>1, Zenon DEF StOk
    <3>3. n + 0 = n
      OBVIOUS
    <3> QED
      BY <2>2, <3>2, <3>3, Zenon
  <2>4. i - 1 \in 0..Len(chunk) /\ i - 1 \notin Bad /\ i \in 1..Len(chunk)
    BY <2>1, <2>2, <2>3
  <2>5. StOk(phase, run[i - 1], text, n + (i - 1)) /\ n + (i - 1) \in Nat
    BY <2>4 DEF Bad
  <2>6. n + (i - 1) + 1 = n + i /\ text[n + i] = chunk[i]
    BY <2>4
  <2>7. StOk(phase, DfaStep(phase, run[i - 1], chunk[i]), text, n + i)
    BY <2>5, <2>6, StepOk, Zenon
  <2> QED
    BY <1>1, <2>2, <2>4, <2>7, Zenon
<1>3. Len(chunk) \in 0..Len(chunk)
  OBVIOUS
<1> QED
  BY <1>2, <1>3, Zenon DEF run

-----------------------------------------------------------------------------
Matched(phase, text) == \E r \in DOMAIN phase.dfa : Occurs(phase.dfa[r].pat, text, Readable(text))

LEMMA OccursEnds ==
  ASSUME NEW phase, PhaseOk(phase), NEW r \in DOMAIN phase.dfa, NEW text, NEW n \in Int
  PROVE  Occurs(phase.dfa[r].pat, text, n) <=> \E m \in 0..n : Ends(phase, text, r, m)
<1> DEFINE re == phase.dfa[r].pat
<1>1. Len(re) \in Nat /\ DOMAIN re = 1..Len(re)
  BY DEF PhaseOk
<1> HIDE DEF re
<1>2. ASSUME NEW k \in 0..(n - Len(re)), \A i \in DOMAIN re : text[k + i] \in re[i]
      PROVE  \E m \in 0..n : EndsAt(re, text, Len(re), m)
  <2>1. k + Len(re) \in 0..n /\ Len(re) <= k + Len(re) /\ k + Len(re) - Len(re) = k
    BY <1>1
  <2>2. EndsAt(re, text, Len(re), k + Len(re))
    BY <1>1, <1>2, <2>1 DEF EndsAt
  <2> QED
    BY <2>1, <2>2, Zenon
<1>3. ASSUME NEW m \in 0..n, EndsAt(re, text, Len(re), m)
      PROVE  \E k \in 0..(n - Len(re)) : \A i \in DOMAIN re : text[k + i] \in re[i]
  <2>1. m - Len(re) \in 0..(n - Len(re))
    BY <1>1, <1>3 DEF EndsAt
  <2>2. \A i \in DOMAIN re : text[m - Len(re) + i] \in re[i]
    BY <1>1, <1>3, Zenon DEF EndsAt
  <2> QED
    BY <2>1, <2>2, Zenon
<1> QED
  BY <1>2, <1>3, Zenon DEF Occurs, Ends, re

LEMMA ReadableOk ==
  ASSUME NEW text \in Seq(Bytes)
  PROVE  /\ Readable(text) \in Int
         /\ (\A i \in 1..Len(text) : text[i] \notin QuitBytes) => Readable(text) = Len(text)
         /\ \A q \in 1..Len(text) : text[q] \in QuitBytes /\ (\A i \in 1..q - 1 : text[i] \notin QuitBytes) => Readable(text) = q - 2
<1> DEFINE quits == {i \in DOMAIN text : text[i] \in QuitBytes}
<1>1. DOMAIN text = 1..Len(text) /\ Len(text) \in Nat
  OBVIOUS
<1>2. quits \subseteq Nat
  BY <1>1
<1>3. Readable(text) = IF quits = {} THEN Len(text) ELSE Min(quits) - 2
  BY Zenon DEF Readable
<1>4. ASSUME NEW q \in 1..Len(text), text[q] \in QuitBytes, \A i \in 1..q - 1 : text[i] \notin QuitBytes
      PROVE  Readable(text) = q - 2
  <2>1. q \in quits
    BY <1>1, <1>4, Zenon
  <2>2. \A y \in quits : q <= y
    BY <1>1, <1>4
  <2> HIDE DEF quits
  <2>3. Min(quits) \in quits /\ Min(quits) <= q
    BY <1>2, <2>1, MinIsMember, Zenon
  <2>4. Min(quits) \in Nat /\ q <= Min(quits)
    BY <1>2, <2>2, <2>3, Zenon
  <2>5. Min(quits) = q
    BY <2>3, <2>4
  <2> QED
    BY <1>3, <2>1, <2>5, Zenon
<1>5. (\A i \in 1..Len(text) : text[i] \notin QuitBytes) => Readable(text) = Len(text)
  BY <1>1, <1>3, Zenon
<1>6. Readable(text) \in Int
  <2> HIDE DEF quits
  <2>1. quits # {} => Min(quits) \in Nat
    BY <1>2, MinIsMember, Zenon
  <2> QED
    BY <1>1, <1>3, <2>1
<1> QED
  BY <1>4, <1>5, <1>6, Zenon

LEMMA RunVerdict ==
  ASSUME NEW phase, PhaseOk(phase), NEW S, NEW text \in Seq(Bytes), RunOk(phase, S, text, Len(text))
  PROVE  Matched(phase, text) <=> DfaDone(phase, S) # {}
<1>1. Len(text) \in Nat /\ Readable(text) = Len(text)
  BY ReadableOk DEF RunOk
<1>2. ASSUME NEW r \in DOMAIN phase.dfa PROVE Occurs(phase.dfa[r].pat, text, Len(text)) <=> Ends(phase, text, r, Len(text))
  <2>1. Occurs(phase.dfa[r].pat, text, Len(text)) <=> \E m \in 0..Len(text) : Ends(phase, text, r, m)
    BY <1>1, OccursEnds
  <2>2. \A m \in 0..Len(text) - 1 : ~Ends(phase, text, r, m)
    BY Zenon DEF RunOk
  <2> QED
    BY <1>1, <2>1, <2>2
<1>3. DfaDone(phase, S) = {r \in DOMAIN phase.dfa : Ends(phase, text, r, Len(text))}
  BY DoneEnds
<1> QED
  BY <1>1, <1>2, <1>3, Zenon DEF Matched

LEMMA HitVerdict ==
  ASSUME NEW phase, PhaseOk(phase), NEW text \in Seq(Bytes), NEW r, HitOk(phase, r, text, Len(text))
  PROVE  Matched(phase, text)
<1>1. r \in DOMAIN phase.dfa /\ Len(text) \in Nat
  BY DEF HitOk
<1>2. PICK m \in 0..Len(text) - 1 : Ends(phase, text, r, m) /\ \A i \in 1..m + 1 : text[i] \notin QuitBytes
  BY Zenon DEF HitOk
<1> DEFINE quits == {i \in DOMAIN text : text[i] \in QuitBytes}
<1>3. quits \subseteq Nat /\ \A q \in quits : m + 2 <= q
  BY <1>1, <1>2
<1>4. Readable(text) = IF quits = {} THEN Len(text) ELSE Min(quits) - 2
  BY Zenon DEF Readable
<1> HIDE DEF quits
<1>5. m \in 0..Readable(text)
  <2>1. quits # {} => Min(quits) \in Nat /\ m + 2 <= Min(quits)
    BY <1>3, MinIsMember, Zenon
  <2> QED
    BY <1>1, <1>4, <2>1
<1>6. Readable(text) \in Int
  BY ReadableOk, Zenon
<1> QED
  BY <1>1, <1>2, <1>5, <1>6, OccursEnds, Zenon DEF Matched

LEMMA QuitVerdict ==
  ASSUME NEW phase, PhaseOk(phase), NEW text \in Seq(Bytes), QuitOk(phase, text, Len(text))
  PROVE  ~Matched(phase, text)
<1>1. PICK q \in 1..Len(text) : /\ text[q] \in QuitBytes
                                /\ \A i \in 1..q - 1 : text[i] \notin QuitBytes
                                /\ \A r \in DOMAIN phase.dfa : \A m \in 0..q - 2 : ~Ends(phase, text, r, m)
  BY Zenon DEF QuitOk
<1>2. Readable(text) = q - 2 /\ q - 2 \in Int
  BY <1>1, ReadableOk, Zenon
<1> QED
  BY <1>1, <1>2, OccursEnds, Zenon DEF Matched

LEMMA SameEnds ==
  ASSUME NEW phase, PhaseOk(phase), NEW text, NEW other, NEW n \in Nat, \A i \in 1..n : other[i] = text[i],
         NEW r \in DOMAIN phase.dfa, NEW k \in 0..Len(phase.dfa[r].pat), NEW m \in 0..n
  PROVE  EndsAt(phase.dfa[r].pat, other, k, m) <=> EndsAt(phase.dfa[r].pat, text, k, m)
<1> DEFINE re == phase.dfa[r].pat
<1>1. k \in Nat
  BY DEF PhaseOk
<1> HIDE DEF re
<1>2. k <= m => \A i \in 1..k : m - k + i \in 1..n
  BY <1>1
<1>3. k <= m => \A i \in 1..k : other[m - k + i] = text[m - k + i]
  BY <1>2, Zenon
<1>4. EndsAt(re, other, k, m) <=> EndsAt(re, text, k, m)
  BY <1>1, <1>3, Zenon DEF EndsAt
<1> QED
  BY <1>4, Zenon DEF re

LEMMA SameRun ==
  ASSUME NEW phase, PhaseOk(phase), NEW text, NEW other, NEW n \in Nat, \A i \in 1..n : other[i] = text[i]
  PROVE  /\ \A S : RunOk(phase, S, text, n) => RunOk(phase, S, other, n)
         /\ QuitOk(phase, text, n) => QuitOk(phase, other, n)
<1>1. ASSUME NEW r \in DOMAIN phase.dfa, NEW k \in 0..Len(phase.dfa[r].pat), NEW m \in 0..n
      PROVE  EndsAt(phase.dfa[r].pat, other, k, m) <=> EndsAt(phase.dfa[r].pat, text, k, m)
  BY SameEnds, Zenon
<1>2. ASSUME NEW r \in DOMAIN phase.dfa, NEW m \in 0..n PROVE Ends(phase, other, r, m) <=> Ends(phase, text, r, m)
  <2>1. Len(phase.dfa[r].pat) \in 0..Len(phase.dfa[r].pat)
    BY DEF PhaseOk
  <2> QED
    BY <1>1, <2>1, Zenon DEF Ends
<1>3. ASSUME NEW S, RunOk(phase, S, text, n) PROVE RunOk(phase, S, other, n)
  <2>1. \A i \in 1..n : other[i] \notin QuitBytes
    BY <1>3, Zenon DEF RunOk
  <2>2. \A r \in DOMAIN phase.dfa : \A m \in 0..n - 1 : ~Ends(phase, other, r, m)
    BY <1>2, <1>3 DEF RunOk
  <2>3. n \in 0..n
    OBVIOUS
  <2>4. \A r \in DOMAIN phase.dfa : \A k \in 0..Len(phase.dfa[r].pat) : <<r, k>> \in S <=> EndsAt(phase.dfa[r].pat, other, k, n)
    BY <1>1, <1>3, <2>3, Zenon DEF RunOk
  <2> QED
    BY <1>3, <2>1, <2>2, <2>4, Zenon DEF RunOk
<1>4. ASSUME QuitOk(phase, text, n) PROVE QuitOk(phase, other, n)
  <2>1. PICK q \in 1..n : /\ text[q] \in QuitBytes
                          /\ \A i \in 1..q - 1 : text[i] \notin QuitBytes
                          /\ \A r \in DOMAIN phase.dfa : \A m \in 0..q - 2 : ~Ends(phase, text, r, m)
    BY <1>4, Zenon DEF QuitOk
  <2>2. \A r \in DOMAIN phase.dfa : \A m \in 0..q - 2 : ~Ends(phase, other, r, m)
    BY <1>2, <2>1
  <2>3. other[q] \in QuitBytes /\ \A i \in 1..q - 1 : other[i] \notin QuitBytes
    BY <2>1
  <2> QED
    BY <2>2, <2>3, Zenon DEF QuitOk
<1> QED
  BY <1>3, <1>4, Zenon

LEMMA StartOk == ASSUME NEW phase, PhaseOk(phase), NEW text PROVE RunOk(phase, DfaStart(phase), text, 0)
<1>1. ASSUME NEW r \in DOMAIN phase.dfa, NEW k \in 0..Len(phase.dfa[r].pat)
      PROVE  <<r, k>> \in DfaStart(phase) <=> EndsAt(phase.dfa[r].pat, text, k, 0)
  <2>1. k \in Nat
    BY DEF PhaseOk
  <2>2. EndsAt(phase.dfa[r].pat, text, k, 0) <=> k = 0
    BY <2>1 DEF EndsAt
  <2> QED
    BY <2>2, Zenon DEF DfaStart
<1>2. DfaStart(phase) \subseteq (DOMAIN phase.dfa) \X Nat
  BY DEF DfaStart
<1> QED
  BY <1>1, <1>2 DEF RunOk

-----------------------------------------------------------------------------
Literal(phase, text) == \E i \in DOMAIN phase.ac : Containing(text, phase.ac[i].pat) # {}

Clear(phase, text) == \A i \in DOMAIN phase.ac : phase.ac[i].pat # <<>> => Containing(text, phase.ac[i].pat) = {}

(* The overlap is the tail of the text, as long as the code keeps it. *)
OverlapOk(phase, overlap, text) ==
  /\ overlap \in Seq(Bytes)
  /\ Len(overlap) = IF Len(text) < phase.overlap_len THEN Len(text) ELSE phase.overlap_len
  /\ \A i \in 1..Len(overlap) : overlap[i] = text[Len(text) - Len(overlap) + i]

LEMMA Joined ==
  ASSUME NEW a \in Seq(Bytes), NEW b \in Seq(Bytes)
  PROVE  /\ a \o b \in Seq(Bytes) /\ Len(a \o b) = Len(a) + Len(b) /\ Len(a) \in Nat /\ Len(b) \in Nat
         /\ \A i \in 1..Len(a) : (a \o b)[i] = a[i]
         /\ \A i \in 1..Len(b) : (a \o b)[Len(a) + i] = b[i]
OBVIOUS

LEMMA LastBytes ==
  ASSUME NEW s \in Seq(Bytes), NEW n \in 0..Len(s)
  PROVE  LET u == SubSeq(s, Len(s) - n + 1, Len(s)) IN u \in Seq(Bytes) /\ Len(u) = n /\ \A i \in 1..n : u[i] = s[Len(s) - n + i]
OBVIOUS

LEMMA TailOfText ==
  ASSUME NEW phase, PhaseOk(phase), NEW overlap, NEW text \in Seq(Bytes), NEW chunk \in Seq(Bytes), OverlapOk(phase, overlap, text)
  PROVE  /\ Len(overlap) \in 0..Len(text)
         /\ \A j \in 1..Len(overlap) + Len(chunk) : (overlap \o chunk)[j] = (text \o chunk)[Len(text) - Len(overlap) + j]
<1> DEFINE lo == Len(overlap)  lt == Len(text)  lc == Len(chunk)
<1>1. overlap \in Seq(Bytes) /\ lo \in Nat /\ lt \in Nat /\ lc \in Nat /\ lo <= lt
  BY DEF OverlapOk, PhaseOk
<1>2. ASSUME NEW j \in 1..lo + lc PROVE (overlap \o chunk)[j] = (text \o chunk)[lt - lo + j]
  <2>1. CASE j <= lo
    <3>1. j \in 1..lo /\ lt - lo + j \in 1..lt
      BY <1>1, <2>1
    <3>2. (overlap \o chunk)[j] = overlap[j] /\ (text \o chunk)[lt - lo + j] = text[lt - lo + j]
      BY <1>1, <3>1, Joined
    <3> QED
      BY <3>1, <3>2, Zenon DEF OverlapOk
  <2>2. CASE ~(j <= lo)
    <3>1. j - lo \in 1..lc /\ lo + (j - lo) = j /\ lt + (j - lo) = lt - lo + j
      BY <1>1, <2>2
    <3>2. (overlap \o chunk)[lo + (j - lo)] = chunk[j - lo] /\ (text \o chunk)[lt + (j - lo)] = chunk[j - lo]
      BY <1>1, <3>1, Joined
    <3> QED
      BY <3>1, <3>2, Zenon
  <2> QED
    BY <2>1, <2>2, Zenon
<1> QED
  BY <1>1, <1>2

LEMMA OverlapKept ==
  ASSUME NEW phase, PhaseOk(phase), NEW overlap, NEW text \in Seq(Bytes), NEW chunk \in Seq(Bytes), OverlapOk(phase, overlap, text)
  PROVE  OverlapOk(phase, Overlap(phase, overlap, chunk), text \o chunk)
<1> DEFINE all == overlap \o chunk
           whole == text \o chunk
           n == IF Len(all) < phase.overlap_len THEN Len(all) ELSE phase.overlap_len
           kept == SubSeq(all, Len(all) - n + 1, Len(all))
<1>1. overlap \in Seq(Bytes) /\ phase.overlap_len \in Nat
  BY Zenon DEF OverlapOk, PhaseOk
<1>2. all \in Seq(Bytes) /\ Len(all) = Len(overlap) + Len(chunk) /\ Len(overlap) \in Nat /\ Len(chunk) \in Nat
  BY <1>1, Joined, Zenon
<1>3. Len(whole) = Len(text) + Len(chunk) /\ Len(text) \in Nat
  BY Joined, Zenon
<1>4. Len(overlap) \in 0..Len(text) /\ \A j \in 1..Len(overlap) + Len(chunk) : all[j] = whole[Len(text) - Len(overlap) + j]
  BY TailOfText
<1>5. Overlap(phase, overlap, chunk) = kept
  BY Zenon DEF Overlap
<1>6. Len(overlap) = IF Len(text) < phase.overlap_len THEN Len(text) ELSE phase.overlap_len
  BY Zenon DEF OverlapOk
<1> HIDE DEF all, whole
<1>7. n \in 0..Len(all)
  BY <1>1, <1>2
<1>8. kept \in Seq(Bytes) /\ Len(kept) = n /\ \A i \in 1..n : kept[i] = all[Len(all) - n + i]
  <2> HIDE DEF n
  <2> QED
    BY <1>2, <1>7, LastBytes, Zenon DEF kept
<1>9. n = IF Len(whole) < phase.overlap_len THEN Len(whole) ELSE phase.overlap_len
  BY <1>1, <1>2, <1>3, <1>6
<1> HIDE DEF n, kept
<1>10. ASSUME NEW i \in 1..n PROVE kept[i] = whole[Len(whole) - n + i]
  <2>1. Len(all) - n + i \in 1..Len(overlap) + Len(chunk) /\ Len(text) - Len(overlap) + (Len(all) - n + i) = Len(whole) - n + i
    BY <1>2, <1>3, <1>4, <1>7
  <2> QED
    BY <1>4, <1>8, <2>1, Zenon
<1> QED
  BY <1>5, <1>8, <1>9, <1>10, Zenon DEF OverlapOk, whole

LEMMA PlaceInTail ==
  ASSUME NEW lo \in Nat, NEW lt \in Nat, NEW lc \in Nat, NEW keep \in Nat, NEW ll \in Nat, NEW k \in 0..(lt + lc - ll),
         lo = IF lt < keep THEN lt ELSE keep, ll <= keep + 1, ~(k + ll <= lt)
  PROVE  k - (lt - lo) \in 0..(lo + lc - ll)
OBVIOUS

LEMMA LiteralFound ==
  ASSUME NEW phase, PhaseOk(phase), NEW overlap, NEW text \in Seq(Bytes), NEW chunk \in Seq(Bytes), OverlapOk(phase, overlap, text),
         Clear(phase, text)
  PROVE  \A i \in DOMAIN phase.ac : Containing(overlap \o chunk, phase.ac[i].pat) # {} <=> Containing(text \o chunk, phase.ac[i].pat) # {}
<1> DEFINE all == overlap \o chunk
           whole == text \o chunk
           d == Len(text) - Len(overlap)
<1>1. overlap \in Seq(Bytes) /\ phase.overlap_len \in Nat
  BY Zenon DEF OverlapOk, PhaseOk
<1>2. all \in Seq(Bytes) /\ Len(all) = Len(overlap) + Len(chunk) /\ Len(overlap) \in Nat /\ Len(chunk) \in Nat
  BY <1>1, Joined, Zenon
<1>3. Len(whole) = Len(text) + Len(chunk) /\ Len(text) \in Nat /\ \A i \in 1..Len(text) : whole[i] = text[i]
  BY Joined, Zenon
<1>4. d \in Nat /\ \A j \in 1..Len(overlap) + Len(chunk) : all[j] = whole[d + j]
  BY <1>2, <1>3, TailOfText
<1>5. Len(overlap) = IF Len(text) < phase.overlap_len THEN Len(text) ELSE phase.overlap_len
  BY Zenon DEF OverlapOk
<1> SUFFICES ASSUME NEW n \in DOMAIN phase.ac PROVE Containing(all, phase.ac[n].pat) # {} <=> Containing(whole, phase.ac[n].pat) # {}
  BY Zenon
<1> DEFINE lit == phase.ac[n].pat
<1>6. lit \in Seq(Bytes) /\ Len(lit) <= phase.overlap_len + 1 /\ (lit # <<>> => Containing(text, lit) = {})
  BY Zenon DEF PhaseOk, Clear
<1> HIDE DEF all, whole, lit
<1>7. DOMAIN lit = 1..Len(lit) /\ Len(lit) \in Nat
  BY <1>6
<1>8. ASSUME NEW k \in Containing(all, lit) PROVE k + d \in Containing(whole, lit)
  <2>1. k \in 0..(Len(all) - Len(lit)) /\ \A i \in DOMAIN lit : all[k + i] = lit[i]
    BY <1>8, Zenon DEF Containing
  <2>2. k + d \in 0..(Len(whole) - Len(lit))
    BY <1>2, <1>3, <1>4, <1>7, <2>1
  <2>3. ASSUME NEW i \in DOMAIN lit PROVE whole[k + d + i] = lit[i]
    <3>1. k + i \in 1..Len(overlap) + Len(chunk) /\ d + (k + i) = k + d + i
      BY <1>2, <1>4, <1>7, <2>1
    <3> QED
      BY <1>4, <2>1, <3>1, Zenon
  <2> QED
    BY <2>2, <2>3, Zenon DEF Containing
<1>9. ASSUME NEW k \in Containing(whole, lit) PROVE Containing(all, lit) # {}
  <2>1. k \in 0..(Len(whole) - Len(lit)) /\ \A i \in DOMAIN lit : whole[k + i] = lit[i]
    BY <1>9, Zenon DEF Containing
  <2>2. CASE lit = <<>>
    <3>1. DOMAIN lit = {} /\ Len(lit) = 0
      BY <2>2, <1>7
    <3>2. 0 \in Containing(all, lit)
      BY <1>2, <3>1 DEF Containing
    <3> QED
      BY <3>2, Zenon
  <2>3. CASE lit # <<>>
    <3>1. ~(k + Len(lit) <= Len(text))
      <4> SUFFICES ASSUME k + Len(lit) <= Len(text) PROVE FALSE
        BY Zenon
      <4>1. k \in 0..(Len(text) - Len(lit))
        BY <1>3, <1>7, <2>1
      <4>2. ASSUME NEW i \in DOMAIN lit PROVE text[k + i] = lit[i]
        <5>1. k + i \in 1..Len(text)
          BY <1>3, <1>7, <4>1
        <5> QED
          BY <1>3, <2>1, <5>1, Zenon
      <4>3. k \in Containing(text, lit)
        BY <4>1, <4>2, Zenon DEF Containing
      <4> QED
        BY <1>6, <2>3, <4>3, Zenon
    <3>2. k - d \in 0..(Len(all) - Len(lit))
      <4>1. k \in 0..(Len(text) + Len(chunk) - Len(lit)) /\ Len(lit) <= phase.overlap_len + 1
        BY <1>3, <1>6, <2>1
      <4>2. k - (Len(text) - Len(overlap)) \in 0..(Len(overlap) + Len(chunk) - Len(lit))
        BY <1>1, <1>2, <1>3, <1>5, <1>7, <3>1, <4>1, PlaceInTail, Zenon
      <4> QED
        BY <1>2, <4>2
    <3>3. ASSUME NEW i \in DOMAIN lit PROVE all[k - d + i] = lit[i]
      <4> HIDE DEF d
      <4>0. k \in Nat /\ i \in 1..Len(lit) /\ k - d \in 0..(Len(overlap) + Len(chunk) - Len(lit))
        BY <1>2, <1>7, <2>1, <3>2
      <4>1. k - d + i \in 1..Len(overlap) + Len(chunk) /\ d + (k - d + i) = k + i
        BY <1>2, <1>4, <1>7, <4>0, SMTT(30)
      <4> QED
        BY <1>4, <2>1, <4>1, Zenon
    <3>4. k - d \in Containing(all, lit)
      BY <3>2, <3>3, Zenon DEF Containing
    <3> QED
      BY <3>4, Zenon
  <2> QED
    BY <2>2, <2>3, Zenon
<1>10. Containing(all, lit) # {} <=> Containing(whole, lit) # {}
  BY <1>8, <1>9, Zenon
<1> QED
  BY <1>10, Zenon DEF lit

LEMMA AcHitOk ==
  ASSUME NEW phase, PhaseOk(phase), NEW text \in Seq(Bytes)
  PROVE  /\ AcHit(phase, text) # <<>> <=> Literal(phase, text)
         /\ AcHit(phase, text) # <<>> => AcHit(phase, text)[1] \in DOMAIN phase.ac
<1> DEFINE PatLen(i) == Len(phase.ac[i].pat)
           EndsOf(i) == {k + PatLen(i) : k \in Containing(text, phase.ac[i].pat)}
           ends == UNION {EndsOf(i) : i \in DOMAIN phase.ac}
           first == {i \in DOMAIN phase.ac : Min(ends) \in EndsOf(i)}
           longest == {i \in first : \A j \in first : PatLen(j) <= PatLen(i)}
<1>1. AcHit(phase, text) = IF ends = {} THEN <<>> ELSE <<Min(longest)>>
  BY Zenon DEF AcHit
<1>2. \A i \in DOMAIN phase.ac : PatLen(i) \in Nat /\ PatLen(i) <= phase.overlap_len + 1
  BY DEF PhaseOk
<1>3. phase.overlap_len \in Nat /\ DOMAIN phase.ac \subseteq Nat
  BY Zenon DEF PhaseOk
<1> HIDE DEF PatLen
<1>4. ends # {} <=> Literal(phase, text)
  <2>1. ASSUME NEW i \in DOMAIN phase.ac PROVE EndsOf(i) # {} <=> Containing(text, phase.ac[i].pat) # {}
    BY Zenon
  <2> HIDE DEF EndsOf
  <2>2. ends # {} <=> \E i \in DOMAIN phase.ac : EndsOf(i) # {}
    BY Zenon
  <2> QED
    BY <2>1, <2>2, Zenon DEF Literal
<1>5. ends \subseteq Nat
  <2>1. ASSUME NEW i \in DOMAIN phase.ac, NEW k \in Containing(text, phase.ac[i].pat) PROVE k + PatLen(i) \in Nat
    BY <1>2 DEF Containing
  <2> QED
    BY <2>1
<1> HIDE DEF AcHit
<1>6. ASSUME ends # {} PROVE Min(longest) \in DOMAIN phase.ac
  <2>1. Min(ends) \in ends
    <3> HIDE DEF ends
    <3> QED
      BY <1>5, <1>6, MinIsMember, Zenon
  <2>2. first # {} /\ first \subseteq DOMAIN phase.ac
    BY <2>1, Zenon
  <2> DEFINE Short(i) == phase.overlap_len + 1 - PatLen(i)
             shorts == {Short(i) : i \in first}
  <2> HIDE DEF first
  <2>3. shorts \subseteq Nat /\ shorts # {}
    BY <1>2, <1>3, <2>2
  <2>4. Min(shorts) \in shorts /\ \A y \in shorts : Min(shorts) <= y
    <3> HIDE DEF shorts
    <3> QED
      BY <2>3, MinIsMember, Zenon
  <2>5. PICK i \in first : Min(shorts) = Short(i)
    BY <2>4, Zenon
  <2>6. ASSUME NEW j \in first PROVE PatLen(j) <= PatLen(i)
    <3>1. Short(j) \in shorts
      BY Zenon
    <3>2. Short(i) <= Short(j)
      BY <2>4, <2>5, <3>1, Zenon
    <3>3. PatLen(i) \in Nat /\ PatLen(j) \in Nat
      BY <1>2, <2>2, Zenon
    <3> QED
      BY <1>3, <3>2, <3>3
  <2>7. i \in longest
    BY <2>6, Zenon
  <2>8. longest \subseteq Nat /\ longest \subseteq DOMAIN phase.ac
    BY <1>3, <2>2, Zenon
  <2> HIDE DEF longest
  <2>9. Min(longest) \in longest
    BY <2>7, <2>8, MinIsMember, ZenonT(30)
  <2> QED
    BY <2>8, <2>9, Zenon
<1> HIDE DEF ends, longest
<1> QED
  BY <1>1, <1>4, <1>6

-----------------------------------------------------------------------------
BodyFields == {"st", "overlap", "dfa", "rewindable", "gave_up", "hit"}

(* What the automaton knows of the text: it gave up in it, or it read it all. *)
RegexKnows(phase, b, S, text) ==
  /\ b.rewindable = TRUE
  /\ \/ b.gave_up = TRUE /\ QuitOk(phase, text, Len(text))
     \/ b.gave_up = FALSE /\ (phase.dfa # <<>> => RunOk(phase, S, text, Len(text)))

Scanned(phase, b) == IF b.dfa = <<>> THEN DfaStart(phase) ELSE b.dfa[1]

(* A body session that has let the text pass and is not done with it. *)
Primed(phase, b, text) ==
  /\ DOMAIN b = BodyFields
  /\ b.st \notin {"Matched", "Clean"}
  /\ OverlapOk(phase, b.overlap, text)
  /\ Clear(phase, text)
  /\ RegexKnows(phase, b, Scanned(phase, b), text)

HitMeta(phase, b) ==
  \/ \E i \in DOMAIN phase.ac : b.hit = <<phase.ac[i].meta>>
  \/ \E r \in DOMAIN phase.dfa : b.hit = <<phase.dfa[r].meta>>

FedOk(phase, fed, text, end) ==
  \/ fed[1] = "Continue" /\ ~end /\ Primed(phase, fed[2], text)
  \/ fed[1] = "Allow" /\ end /\ ~Offends(phase, text)
  \/ fed[1] = "Block" /\ Offends(phase, text) /\ HitMeta(phase, fed[2])

LEMMA OffendsIs == ASSUME NEW phase, NEW text PROVE Offends(phase, text) <=> Literal(phase, text) \/ Matched(phase, text)
BY Zenon DEF Offends, Literal, Matched

LEMMA FinishOk ==
  ASSUME NEW phase, PhaseOk(phase), NEW text \in Seq(Bytes), NEW b, DOMAIN b = BodyFields, NEW end \in BOOLEAN,
         OverlapOk(phase, b.overlap, text), ~Literal(phase, text),
         RegexKnows(phase, b, Scanned(phase, b), text), regex_active(phase, b) => b.dfa # <<>>
  PROVE  FedOk(phase, finish(phase, b, end), text, end)
<1>1. CASE ~end
  <2> DEFINE c == [b EXCEPT !.st = "Scanning"]
  <2>1. /\ DOMAIN c = BodyFields /\ c.st = "Scanning" /\ c.overlap = b.overlap /\ c.dfa = b.dfa
        /\ c.rewindable = b.rewindable /\ c.gave_up = b.gave_up
    BY Zenon DEF BodyFields
  <2>2. finish(phase, b, end) = <<"Continue", c>>
    BY <1>1, Zenon DEF finish
  <2> HIDE DEF c
  <2>3. Scanned(phase, c) = Scanned(phase, b)
    BY <2>1, Zenon DEF Scanned
  <2>4. RegexKnows(phase, c, Scanned(phase, c), text)
    BY <2>1, <2>3, ZenonT(30) DEF RegexKnows
  <2>5. Clear(phase, text)
    BY Zenon DEF Literal, Clear
  <2>6. Primed(phase, c, text)
    BY <2>1, <2>4, <2>5, Zenon DEF Primed
  <2>7. finish(phase, b, end)[1] = "Continue" /\ finish(phase, b, end)[2] = c
    BY <2>2, SMTT(30)
  <2> QED
    BY <1>1, <2>6, <2>7, Zenon DEF FedOk
<1>2. CASE end /\ regex_active(phase, b)
  <2>1. b.gave_up = FALSE /\ phase.dfa # <<>> /\ b.dfa # <<>>
    BY <1>2, Zenon DEF regex_active, RegexKnows
  <2>2. RunOk(phase, b.dfa[1], text, Len(text))
    BY <2>1, ZenonT(30) DEF RegexKnows, Scanned
  <2>3. Matched(phase, text) <=> DfaDone(phase, b.dfa[1]) # {}
    BY <2>2, RunVerdict, Zenon
  <2>4. CASE DfaDone(phase, b.dfa[1]) # {}
    <3> DEFINE r == Min(DfaDone(phase, b.dfa[1]))
               c == [b EXCEPT !.st = "Matched", !.hit = <<phase.dfa[r].meta>>]
    <3>1. r \in DOMAIN phase.dfa
      BY <2>2, <2>4, DoneEnds, Zenon
    <3>2. finish(phase, b, end) = <<"Block", c>>
      BY <1>2, <2>1, <2>4, Zenon DEF finish
    <3> HIDE DEF r
    <3>3. c.hit = <<phase.dfa[r].meta>>
      BY Zenon DEF BodyFields
    <3> HIDE DEF c
    <3>4. HitMeta(phase, c)
      BY <3>1, <3>3, Zenon DEF HitMeta
    <3>5. Offends(phase, text)
      BY <2>3, <2>4, OffendsIs, Zenon
    <3>6. finish(phase, b, end)[1] = "Block" /\ finish(phase, b, end)[2] = c
      BY <3>2, SMTT(30)
    <3> QED
      BY <3>4, <3>5, <3>6, Zenon DEF FedOk
  <2>5. CASE DfaDone(phase, b.dfa[1]) = {}
    <3>1. finish(phase, b, end)[1] = "Allow"
      BY <1>2, <2>5, Zenon DEF finish
    <3>2. ~Offends(phase, text)
      BY <2>3, <2>5, OffendsIs, Zenon
    <3> QED
      BY <1>2, <3>1, <3>2, ZenonT(30) DEF FedOk
  <2> QED
    BY <2>4, <2>5, Zenon
<1>3. CASE end /\ ~regex_active(phase, b)
  <2>1. finish(phase, b, end)[1] = "Allow"
    BY <1>3, Zenon DEF finish
  <2>2. ~Matched(phase, text)
    <3>1. CASE QuitOk(phase, text, Len(text))
      BY <3>1, QuitVerdict, Zenon
    <3>2. CASE phase.dfa = <<>>
      <4>1. DOMAIN phase.dfa = {}
        BY <3>2, SMTT(30)
      <4> QED
        BY <4>1, ZenonT(30) DEF Matched
    <3> QED
      BY <1>3, <3>1, <3>2, Zenon DEF RegexKnows, regex_active
  <2>3. ~Offends(phase, text)
    BY <2>2, OffendsIs, Zenon
  <2> QED
    BY <1>3, <2>1, <2>3, Zenon DEF FedOk
<1> QED
  BY <1>1, <1>2, <1>3, Zenon

LEMMA QuitLater ==
  ASSUME NEW phase, NEW text, NEW n \in Nat, NEW m \in Nat, n <= m, QuitOk(phase, text, n) PROVE QuitOk(phase, text, m)
<1>1. 1..n \subseteq 1..m
  OBVIOUS
<1> QED
  BY <1>1, Zenon DEF QuitOk

LEMMA FeedOk ==
  ASSUME NEW phase, PhaseOk(phase), NEW text \in Seq(Bytes), NEW chunk \in Seq(Bytes), NEW end \in BOOLEAN, NEW b, Primed(phase, b, text)
  PROVE  FedOk(phase, feed(phase, b, chunk, end), text \o chunk, end)
<1> DEFINE whole == text \o chunk
           hit == AcHit(phase, b.overlap \o chunk)
           over == Overlap(phase, b.overlap, chunk)
           kept == [b EXCEPT !.overlap = over]
           ran == DfaRun(phase, Scanned(phase, b), chunk)[Len(chunk)]
           fed == feed(phase, b, chunk, end)
<1>1. /\ DOMAIN b = BodyFields /\ b.st # "Matched" /\ b.st # "Clean" /\ OverlapOk(phase, b.overlap, text)
      /\ Clear(phase, text)
      /\ RegexKnows(phase, b, Scanned(phase, b), text)
  BY Zenon DEF Primed
<1>2. /\ whole \in Seq(Bytes) /\ Len(whole) = Len(text) + Len(chunk) /\ Len(text) \in Nat /\ Len(chunk) \in Nat
      /\ \A i \in 1..Len(text) : whole[i] = text[i]
      /\ \A i \in 1..Len(chunk) : whole[Len(text) + i] = chunk[i]
  BY Joined, Zenon
<1>3. b.overlap \o chunk \in Seq(Bytes)
  BY <1>1, Joined, Zenon DEF OverlapOk
<1>4. (hit # <<>> <=> Literal(phase, whole)) /\ (hit # <<>> => hit[1] \in DOMAIN phase.ac)
  <2>1. Literal(phase, b.overlap \o chunk) <=> Literal(phase, whole)
    <3>1. \A i \in DOMAIN phase.ac : Containing(b.overlap \o chunk, phase.ac[i].pat) # {} <=> Containing(whole, phase.ac[i].pat) # {}
      BY <1>1, LiteralFound, Zenon DEF whole
    <3> HIDE DEF whole
    <3> QED
      BY <3>1, Zenon DEF Literal
  <2> QED
    BY <1>3, <2>1, AcHitOk, Zenon
<1>5. OverlapOk(phase, over, whole)
  BY <1>1, OverlapKept, Zenon
<1>6. /\ DOMAIN kept = BodyFields /\ kept.overlap = over /\ kept.dfa = b.dfa
      /\ kept.rewindable = b.rewindable /\ kept.gave_up = b.gave_up
  BY <1>1, Zenon DEF BodyFields
<1>7. fed = IF hit # <<>> THEN <<"Block", [b EXCEPT !.st = "Matched", !.hit = <<phase.ac[hit[1]].meta>>]>>
            ELSE IF ~regex_active(phase, b) THEN finish(phase, kept, end)
            ELSE IF ran[1] = "hit" THEN <<"Block", [kept EXCEPT !.st = "Matched", !.hit = <<phase.dfa[ran[2]].meta>>]>>
            ELSE IF ran[1] = "quit" THEN finish(phase, [kept EXCEPT !.gave_up = TRUE], end)
            ELSE finish(phase, [kept EXCEPT !.dfa = <<ran[2]>>], end)
  BY <1>1, Zenon DEF feed, Scanned
<1> HIDE DEF whole, hit, over, kept, ran, fed
<1>8. CASE hit # <<>>
  <2> DEFINE c == [b EXCEPT !.st = "Matched", !.hit = <<phase.ac[hit[1]].meta>>]
  <2>1. c.hit = <<phase.ac[hit[1]].meta>>
    BY <1>1, Zenon DEF BodyFields
  <2>2. fed = <<"Block", c>>
    BY <1>7, <1>8, Zenon
  <2> HIDE DEF c
  <2>3. HitMeta(phase, c)
    BY <1>4, <1>8, <2>1, Zenon DEF HitMeta
  <2>4. Offends(phase, whole)
    BY <1>4, <1>8, OffendsIs, Zenon
  <2>5. FedOk(phase, fed, whole, end)
    BY <2>2, <2>3, <2>4, Zenon DEF FedOk
  <2> QED
    BY <2>5, Zenon DEF fed, whole
<1>9. CASE hit = <<>> /\ ~regex_active(phase, b)
  <2>1. RegexKnows(phase, kept, Scanned(phase, kept), whole)
    <3>1. CASE b.gave_up = FALSE
      <4>1. phase.dfa = <<>>
        BY <1>1, <1>9, <3>1, Zenon DEF RegexKnows, regex_active
      <4> QED
        BY <1>1, <1>6, <3>1, <4>1, Zenon DEF RegexKnows
    <3>2. CASE b.gave_up = TRUE
      <4>1. QuitOk(phase, text, Len(text))
        BY <1>1, <3>2, ZenonT(30) DEF RegexKnows
      <4>2. QuitOk(phase, whole, Len(text))
        BY <1>2, <4>1, SameRun, Zenon
      <4>3. Len(whole) \in Nat /\ Len(text) <= Len(whole)
        BY <1>2, SMTT(30)
      <4>4. QuitOk(phase, whole, Len(whole))
        BY <1>2, <4>2, <4>3, QuitLater, Zenon
      <4> QED
        BY <1>1, <1>6, <3>2, <4>4, Zenon DEF RegexKnows
    <3> QED
      BY <1>1, <3>1, <3>2, Zenon DEF RegexKnows
  <2>2. ~regex_active(phase, kept)
    BY <1>6, <1>9, ZenonT(30) DEF regex_active
  <2>3. FedOk(phase, finish(phase, kept, end), whole, end)
    BY <1>2, <1>4, <1>5, <1>6, <1>9, <2>1, <2>2, FinishOk, Zenon
  <2>4. fed = finish(phase, kept, end)
    BY <1>7, <1>9, Zenon
  <2> QED
    BY <2>3, <2>4, Zenon DEF fed, whole
<1>10. CASE hit = <<>> /\ regex_active(phase, b)
  <2>0. b.gave_up = FALSE /\ phase.dfa # <<>> /\ b.rewindable = TRUE
    BY <1>1, <1>10, Zenon DEF RegexKnows, regex_active
  <2>1. RunOk(phase, Scanned(phase, b), text, Len(text))
    BY <1>1, <2>0, Zenon DEF RegexKnows
  <2>2. RunOk(phase, Scanned(phase, b), whole, Len(text))
    BY <1>2, <2>1, SameRun, Zenon
  <2>3. StOk(phase, ran, whole, Len(whole))
    <3>1. StOk(phase, ran, whole, Len(text) + Len(chunk))
      BY <1>2, <2>2, RunAlong, Zenon DEF ran
    <3> QED
      BY <1>2, <3>1, Zenon
  <2>4. ~Literal(phase, whole)
    BY <1>4, <1>10, Zenon
  <2>5. CASE ran[1] = "hit"
    <3> DEFINE c == [kept EXCEPT !.st = "Matched", !.hit = <<phase.dfa[ran[2]].meta>>]
    <3>1. HitOk(phase, ran[2], whole, Len(whole))
      BY <2>3, <2>5, Zenon DEF StOk
    <3>2. c.hit = <<phase.dfa[ran[2]].meta>>
      BY <1>6, Zenon DEF BodyFields
    <3>3. fed = <<"Block", c>>
      BY <1>7, <1>10, <2>5, Zenon
    <3> HIDE DEF c
    <3>4. ran[2] \in DOMAIN phase.dfa
      BY <3>1, Zenon DEF HitOk
    <3>5. HitMeta(phase, c)
      BY <3>2, <3>4, Zenon DEF HitMeta
    <3>6. Offends(phase, whole)
      BY <1>2, <3>1, HitVerdict, OffendsIs, ZenonT(30)
    <3>7. FedOk(phase, fed, whole, end)
      BY <3>3, <3>5, <3>6, Zenon DEF FedOk
    <3> QED
      BY <3>7, Zenon DEF fed, whole
  <2>6. CASE ran[1] = "quit"
    <3> DEFINE c == [kept EXCEPT !.gave_up = TRUE]
    <3>1. QuitOk(phase, whole, Len(whole))
      BY <2>3, <2>6, Zenon DEF StOk
    <3>2. DOMAIN c = BodyFields /\ c.overlap = over /\ c.rewindable = kept.rewindable /\ c.gave_up = TRUE
      BY <1>6, Zenon DEF BodyFields
    <3>3. fed = finish(phase, c, end)
      BY <1>7, <1>10, <2>6, Zenon
    <3> HIDE DEF c
    <3>4. RegexKnows(phase, c, Scanned(phase, c), whole)
      BY <1>6, <2>0, <3>1, <3>2, Zenon DEF RegexKnows
    <3>5. ~regex_active(phase, c)
      BY <3>2, Zenon DEF regex_active
    <3>6. FedOk(phase, finish(phase, c, end), whole, end)
      BY <1>2, <1>5, <2>4, <3>2, <3>4, <3>5, FinishOk, Zenon
    <3> QED
      BY <3>3, <3>6, Zenon DEF fed, whole
  <2>7. CASE ran[1] = "run"
    <3> DEFINE c == [kept EXCEPT !.dfa = <<ran[2]>>]
    <3>1. RunOk(phase, ran[2], whole, Len(whole))
      BY <2>3, <2>7, Zenon DEF StOk
    <3>2. /\ DOMAIN c = BodyFields /\ c.overlap = over /\ c.rewindable = kept.rewindable /\ c.gave_up = kept.gave_up
          /\ c.dfa = <<ran[2]>>
      BY <1>6, Zenon DEF BodyFields
    <3>3. fed = finish(phase, c, end)
      BY <1>7, <1>10, <2>7, Zenon
    <3> HIDE DEF c
    <3>4. Scanned(phase, c) = ran[2] /\ c.dfa # <<>>
      BY <3>2, SMTT(30) DEF Scanned
    <3>5. RegexKnows(phase, c, Scanned(phase, c), whole)
      BY <1>6, <2>0, <3>1, <3>2, <3>4, ZenonT(30) DEF RegexKnows
    <3>6. FedOk(phase, finish(phase, c, end), whole, end)
      BY <1>2, <1>5, <2>4, <3>2, <3>4, <3>5, FinishOk, ZenonT(30)
    <3> QED
      BY <3>3, <3>6, Zenon DEF fed, whole
  <2> QED
    BY <2>3, <2>5, <2>6, <2>7, Zenon DEF StOk
<1> QED
  BY <1>8, <1>9, <1>10, Zenon

-----------------------------------------------------------------------------
SessionFields == {"state", "score", "ip", "body"}

(* While a body is scanned the session holds the matcher of exactly the text *)
(* that has come, and nothing of the text has been refused.                  *)
Scanning(config, side) ==
  /\ inspected.side = side
  /\ Blocks(config, BodyPhase(config, side)) => Primed(BodyPhase(config, side), session.body[1], inspected.text)

WafInv ==
  /\ waf \in DOMAIN WafConfigs
  /\ DOMAIN session = SessionFields
  /\ session.state \in {"Initial", "ResponseHeaders", "RequestBody", "ResponseBody", "Done"}
  /\ inspected.text \in Seq(Bytes)
  /\ \A side \in Sides : session.state = BodyState(side) => Scanning(WafConfigs[waf], side)
  /\ ChunkingInvisible

LEMMA WafInvInit == WafInit => WafInv
<1> SUFFICES ASSUME WafInit PROVE WafInv
  BY Zenon
<1>1. waf \in DOMAIN WafConfigs /\ DOMAIN session = SessionFields /\ session.state = "Initial"
  BY Zenon DEF WafInit, NewSession, SessionFields
<1>2. inspected.text \in Seq(Bytes) /\ inspected.ended = FALSE /\ inspected.blocked = FALSE
  BY DEF WafInit, NoBody
<1>3. ChunkingInvisible
  BY <1>2, Zenon DEF ChunkingInvisible
<1> QED
  BY <1>1, <1>2, <1>3, Zenon DEF WafInv, BodyState, Sides

(* A hook that leaves no body behind keeps the invariant. *)
LEMMA NoBodyStep ==
  ASSUME WafInv, UNCHANGED waf, DOMAIN session' = SessionFields, session'.state \in {"Initial", "ResponseHeaders", "Done"}, inspected' = NoBody
  PROVE  WafInv'
<1>1. inspected'.text \in Seq(Bytes) /\ inspected'.ended = FALSE /\ inspected'.blocked = FALSE
  BY DEF NoBody
<1>2. ChunkingInvisible'
  BY <1>1, ZenonT(30) DEF ChunkingInvisible
<1> QED
  BY <1>1, <1>2, Zenon DEF WafInv, BodyState, Sides

LEMMA ApplyMatch ==
  ASSUME NEW config, NEW s, DOMAIN s = SessionFields, NEW meta
  PROVE  /\ DOMAIN apply_match(config, s, meta)[2] = SessionFields
         /\ apply_match(config, s, meta)[2].state \in {s.state, "Done"}
         /\ config.mode = "Blocking" /\ meta.action \in {"block", "challenge"}
              => apply_match(config, s, meta)[1] = "Block" /\ apply_match(config, s, meta)[2].state = "Done"
<1> DEFINE scored == [s EXCEPT !.score = @ + meta.score]
           done == [scored EXCEPT !.state = "Done", !.body = <<>>]
           r == apply_match(config, s, meta)
<1>1. DOMAIN scored = SessionFields /\ scored.state = s.state
  BY Zenon DEF SessionFields
<1>2. r = IF meta.action = "allow" THEN <<"Pass", s>>
          ELSE IF config.mode = "Disabled" THEN <<"Pass", scored>>
          ELSE IF config.mode = "DetectionOnly" THEN <<"Log", scored>>
          ELSE IF meta.action \in {"block", "challenge"} \/ scored.score >= config.anomaly_threshold THEN <<"Block", done>>
          ELSE <<"Log", scored>>
  BY Zenon DEF apply_match
<1> HIDE DEF scored
<1>3. DOMAIN done = SessionFields /\ done.state = "Done"
  BY <1>1, Zenon DEF SessionFields
<1> HIDE DEF done, r
<1>4. config.mode = "Blocking" /\ meta.action \in {"block", "challenge"} => r = <<"Block", done>>
  BY <1>2, Zenon
<1>5. r[2] \in {s, scored, done}
  BY <1>2, Zenon
<1> QED
  BY <1>1, <1>3, <1>4, <1>5 DEF r

LEMMA FirstFiringOk ==
  ASSUME NEW config, NEW s, DOMAIN s = SessionFields, s.state = "ResponseHeaders", NEW rules, NEW fired
  PROVE  LET n == FirstFiring(config, s, rules, fired)[2] IN DOMAIN n = SessionFields /\ n.state \in {"ResponseHeaders", "Done"}
<1>1. CASE fired = {}
  BY <1>1, Zenon DEF FirstFiring
<1>2. CASE fired # {}
  <2>1. FirstFiring(config, s, rules, fired) = apply_match(config, s, rules[Min(fired)].meta)
    BY <1>2, Zenon DEF FirstFiring
  <2> DEFINE n == apply_match(config, s, rules[Min(fired)].meta)[2]
  <2>2. DOMAIN n = SessionFields /\ n.state \in {s.state, "Done"}
    BY ApplyMatch, Zenon
  <2> HIDE DEF n
  <2>3. DOMAIN n = SessionFields /\ n.state \in {"ResponseHeaders", "Done"}
    BY <2>2, Zenon
  <2> QED
    BY <2>1, <2>3, Zenon DEF n
<1> QED
  BY <1>1, <1>2, Zenon

LEMMA HeadersStep ==
  ASSUME WafInv, (\E req \in WafRequests : RequestHeaders(req)) \/ (\E status \in WafStatuses : ResponseHeaders(status)) \/ SessionReset
  PROVE  WafInv'
<1>1. DOMAIN session = SessionFields
  BY Zenon DEF WafInv
<1>2. ASSUME NEW req \in WafRequests, RequestHeaders(req) PROVE WafInv'
  <2> DEFINE config == WafConfigs[waf]
             known == [session EXCEPT !.ip = IF <<>> = <<>> THEN @ ELSE <<>>, !.state = "ResponseHeaders", !.body = <<>>]
             rules == config.rules.request_headers
             fired == {i \in DOMAIN rules : Fires(rules[i], matches_request(rules[i], known.ip, req.host, req))}
  <2>1. DOMAIN known = SessionFields /\ known.state = "ResponseHeaders"
    BY <1>1, Zenon DEF SessionFields
  <2>2. session' = IF session.state = "Done" THEN session ELSE FirstFiring(config, known, rules, fired)[2]
    BY <1>2, Zenon DEF RequestHeaders, on_request_headers
  <2> HIDE DEF known, rules, fired
  <2>3. DOMAIN session' = SessionFields /\ session'.state \in {"ResponseHeaders", "Done"}
    BY <1>1, <2>1, <2>2, FirstFiringOk, Zenon
  <2> QED
    BY <1>2, <2>3, NoBodyStep, Zenon DEF RequestHeaders
<1>3. ASSUME NEW status \in WafStatuses, ResponseHeaders(status) PROVE WafInv'
  <2> DEFINE config == WafConfigs[waf]
             known == [session EXCEPT !.state = "ResponseHeaders", !.body = <<>>]
             rules == config.rules.response_headers
             fired == {i \in DOMAIN rules : Fires(rules[i], matches_response(rules[i], status, <<>>))}
  <2>1. DOMAIN known = SessionFields /\ known.state = "ResponseHeaders"
    BY <1>1, Zenon DEF SessionFields
  <2>2. session' = IF session.state = "Done" THEN session ELSE FirstFiring(config, known, rules, fired)[2]
    BY <1>3, Zenon DEF ResponseHeaders, on_response_headers
  <2> HIDE DEF known, rules, fired
  <2>3. DOMAIN session' = SessionFields /\ session'.state \in {"ResponseHeaders", "Done"}
    BY <1>1, <2>1, <2>2, FirstFiringOk, Zenon
  <2> QED
    BY <1>3, <2>3, NoBodyStep, Zenon DEF ResponseHeaders
<1>4. ASSUME SessionReset PROVE WafInv'
  <2>1. DOMAIN session' = SessionFields /\ session'.state = "Initial"
    BY <1>1, <1>4, Zenon DEF SessionReset, session_reset, SessionFields
  <2> QED
    BY <1>4, <2>1, NoBodyStep, Zenon DEF SessionReset
<1> QED
  BY <1>2, <1>3, <1>4, Zenon

LEMMA FreshBody == ASSUME NEW phase, PhaseOk(phase) PROVE Primed(phase, body_session(TRUE), <<>>)
<1> DEFINE b == body_session(TRUE)
<1>1. /\ DOMAIN b = BodyFields /\ b.st = "Empty" /\ b.overlap = <<>> /\ b.dfa = <<>> /\ b.rewindable = TRUE /\ b.gave_up = FALSE
  BY Zenon DEF body_session, BodyFields
<1> HIDE DEF b
<1>2. OverlapOk(phase, b.overlap, <<>>)
  BY <1>1 DEF OverlapOk, PhaseOk
<1>3. Clear(phase, <<>>)
  <2> SUFFICES ASSUME NEW i \in DOMAIN phase.ac, phase.ac[i].pat # <<>> PROVE Containing(<<>>, phase.ac[i].pat) = {}
    BY Zenon DEF Clear
  <2>1. phase.ac[i].pat \in Seq(Bytes) /\ Len(phase.ac[i].pat) > 0
    BY DEF PhaseOk
  <2>2. Len(<<>>) = 0
    BY Zenon
  <2>3. 0..(Len(<<>>) - Len(phase.ac[i].pat)) = {}
    BY <2>1, <2>2
  <2> QED
    BY <2>3, Zenon DEF Containing
<1>4. Scanned(phase, b) = DfaStart(phase)
  BY <1>1, Zenon DEF Scanned
<1>5. RunOk(phase, Scanned(phase, b), <<>>, Len(<<>>))
  BY <1>4, StartOk, Zenon
<1>6. RegexKnows(phase, b, Scanned(phase, b), <<>>)
  BY <1>1, <1>5, Zenon DEF RegexKnows
<1> QED
  BY <1>1, <1>2, <1>3, <1>6, Zenon DEF Primed, b

LEMMA HitBlocks ==
  ASSUME NEW config, NEW phase, Blocks(config, phase), NEW b, HitMeta(phase, b)
  PROVE  config.mode = "Blocking" /\ b.hit[1].action \in {"block", "challenge"}
BY DEF Blocks, HitMeta

(* What a chunk of a body the rules of which block leads to. *)
Judged(phase, r, mine, text, end) ==
  \/ r[1] = "Pass" /\ ~end /\ r[2].state = mine /\ Primed(phase, r[2].body[1], text)
  \/ r[1] = "Pass" /\ end /\ r[2].state = "ResponseHeaders" /\ ~Offends(phase, text)
  \/ r[1] = "Block" /\ r[2].state = "Done" /\ Offends(phase, text)

Accepts(s, mine) == s.state \in {"Initial", "ResponseHeaders", mine}
BodyOf(s, mine) == IF s.state = mine THEN s.body[1] ELSE body_session(TRUE)

LEMMA BlockingChunk ==
  ASSUME NEW config, NEW phase, PhaseOk(phase), Blocks(config, phase), NEW s, DOMAIN s = SessionFields, NEW mine,
         Accepts(s, mine), NEW chunk \in Seq(Bytes), NEW end \in BOOLEAN, NEW text \in Seq(Bytes),
         Primed(phase, BodyOf(s, mine), text)
  PROVE  Judged(phase, BodyChunk(config, s, phase, mine, chunk, end), mine, text \o chunk, end)
<1> DEFINE fed == feed(phase, BodyOf(s, mine), chunk, end)
           next == [s EXCEPT !.state = mine, !.body = <<fed[2]>>]
           r == BodyChunk(config, s, phase, mine, chunk, end)
           whole == text \o chunk
<1>1. FedOk(phase, fed, whole, end)
  BY FeedOk, Zenon
<1>2. r = IF fed[1] = "Continue" THEN <<"Pass", next>>
          ELSE IF fed[1] = "Allow" THEN <<"Pass", [next EXCEPT !.state = "ResponseHeaders", !.body = <<>>]>>
          ELSE apply_match(config, next, fed[2].hit[1])
  BY Zenon DEF BodyChunk, BodyOf, Accepts
<1> HIDE DEF fed, r, whole
<1>3. DOMAIN next = SessionFields /\ next.state = mine /\ next.body[1] = fed[2]
  BY Zenon DEF SessionFields
<1>4. CASE fed[1] = "Continue"
  <2>1. ~end /\ Primed(phase, fed[2], whole)
    BY <1>1, <1>4, Zenon DEF FedOk
  <2>2. r[1] = "Pass" /\ r[2] = next
    BY <1>2, <1>4, Zenon
  <2> HIDE DEF next
  <2> QED
    BY <1>3, <2>1, <2>2, Zenon DEF r, whole, Judged
<1>5. CASE fed[1] = "Allow"
  <2>1. end /\ ~Offends(phase, whole)
    BY <1>1, <1>5, Zenon DEF FedOk
  <2> DEFINE n == [next EXCEPT !.state = "ResponseHeaders", !.body = <<>>]
  <2>2. r[1] = "Pass" /\ r[2] = n
    BY <1>2, <1>5, Zenon
  <2> HIDE DEF next
  <2>3. n.state = "ResponseHeaders"
    BY <1>3, Zenon DEF SessionFields
  <2> HIDE DEF n
  <2> QED
    BY <2>1, <2>2, <2>3, Zenon DEF r, whole, Judged
<1>6. CASE fed[1] = "Block"
  <2>1. Offends(phase, whole) /\ HitMeta(phase, fed[2])
    BY <1>1, <1>6, Zenon DEF FedOk
  <2>2. r = apply_match(config, next, fed[2].hit[1])
    BY <1>2, <1>6, Zenon
  <2> HIDE DEF next
  <2>3. config.mode = "Blocking" /\ fed[2].hit[1].action \in {"block", "challenge"}
    BY <2>1, HitBlocks, Zenon
  <2>4. r[1] = "Block" /\ r[2].state = "Done"
    <3> DEFINE meta == fed[2].hit[1]
    <3>1. meta.action \in {"block", "challenge"} /\ r = apply_match(config, next, meta)
      BY <2>2, <2>3, Zenon
    <3> HIDE DEF meta
    <3>2. apply_match(config, next, meta)[1] = "Block" /\ apply_match(config, next, meta)[2].state = "Done"
      BY <1>3, <2>3, <3>1, ApplyMatch, ZenonT(30)
    <3> QED
      BY <3>1, <3>2, Zenon
  <2> QED
    BY <2>1, <2>4, Zenon DEF r, whole, Judged
<1> QED
  BY <1>1, <1>4, <1>5, <1>6, Zenon DEF FedOk

(* Where a chunk leaves the session, whatever the rules do. *)
LeftAs(s, mine, n) ==
  /\ DOMAIN n = SessionFields
  /\ Accepts(s, mine) => n.state \in {mine, "ResponseHeaders", "Done"}
  /\ ~Accepts(s, mine) => n = s

LEMMA AnyChunk ==
  ASSUME NEW config, NEW phase, NEW s, DOMAIN s = SessionFields, NEW mine, NEW chunk, NEW end
  PROVE  LeftAs(s, mine, BodyChunk(config, s, phase, mine, chunk, end)[2])
<1> DEFINE body == IF s.state = mine THEN s.body[1] ELSE body_session(TRUE)
           fed == feed(phase, body, chunk, end)
           next == [s EXCEPT !.state = mine, !.body = <<fed[2]>>]
           clean == [next EXCEPT !.state = "ResponseHeaders", !.body = <<>>]
           r == BodyChunk(config, s, phase, mine, chunk, end)
<1>1. r = IF s.state \notin {"Initial", "ResponseHeaders", mine} THEN <<"Pass", s>>
          ELSE IF fed[1] = "Continue" THEN <<"Pass", next>>
          ELSE IF fed[1] = "Allow" THEN <<"Pass", clean>>
          ELSE apply_match(config, next, fed[2].hit[1])
  BY Zenon DEF BodyChunk
<1> HIDE DEF fed, r
<1>2. DOMAIN next = SessionFields /\ next.state = mine
  BY Zenon DEF SessionFields
<1> HIDE DEF next
<1>3. DOMAIN clean = SessionFields /\ clean.state = "ResponseHeaders"
  BY <1>2, Zenon DEF SessionFields
<1> HIDE DEF clean
<1> DEFINE m == apply_match(config, next, fed[2].hit[1])
<1>4. DOMAIN m[2] = SessionFields /\ m[2].state \in {mine, "Done"}
  BY <1>2, ApplyMatch, Zenon
<1> HIDE DEF m
<1>5. s.state \notin {"Initial", "ResponseHeaders", mine} => r[2] = s
  BY <1>1, Zenon
<1>6. s.state \in {"Initial", "ResponseHeaders", mine} => r[2] \in {next, clean, m[2]}
  BY <1>1, Zenon DEF m
<1> QED
  BY <1>2, <1>3, <1>4, <1>5, <1>6, Zenon DEF r, LeftAs, Accepts

LEMMA ChunkStep ==
  ASSUME WafInv, NEW side \in Sides, NEW end \in BOOLEAN, NEW chunk \in Seq(Bytes), ChunkFed(side, chunk, end)
  PROVE  WafInv'
<1> DEFINE config == WafConfigs[waf]
           phase == BodyPhase(config, side)
           mine == BodyState(side)
           begins == session.state \in {"Initial", "ResponseHeaders"}
           text == IF begins THEN <<>> ELSE inspected.text
           r == BodyChunk(config, session, phase, mine, chunk, end)
<1>1. /\ waf \in DOMAIN WafConfigs /\ DOMAIN session = SessionFields /\ inspected.text \in Seq(Bytes)
      /\ session.state \in {"Initial", "ResponseHeaders", "RequestBody", "ResponseBody", "Done"}
      /\ \A other \in Sides : session.state = BodyState(other) => Scanning(config, other)
  BY Zenon DEF WafInv
<1>2. PhaseOk(phase)
  BY <1>1, WafAssumption, Zenon DEF BodyPhase
<1>3. session' = r[2]
  BY Zenon DEF ChunkFed, on_request_body_chunk, on_response_body_chunk, BodyPhase, BodyState, Sides
<1>4. UNCHANGED waf
  BY Zenon DEF ChunkFed
<1>5. mine \in {"RequestBody", "ResponseBody"} /\ \A other \in Sides : BodyState(other) = mine => other = side
  BY Zenon DEF BodyState, Sides
<1>6. /\ DOMAIN session' = SessionFields
      /\ session.state \in {"Initial", "ResponseHeaders", mine} => session'.state \in {mine, "ResponseHeaders", "Done"}
      /\ session.state \notin {"Initial", "ResponseHeaders", mine} => session' = session
  <2>1. DOMAIN session = SessionFields
    BY <1>1, Zenon
  <2> HIDE DEF phase, config, mine
  <2>2. LeftAs(session, mine, r[2])
    BY <2>1, AnyChunk, ZenonT(30)
  <2> HIDE DEF r
  <2> QED
    BY <1>3, <2>2, Zenon DEF LeftAs, Accepts
<1>7. CASE session.state \notin {"Initial", "ResponseHeaders", mine}
  <2>1. inspected' = inspected
    BY <1>7, Zenon DEF ChunkFed
  <2>2. ChunkingInvisible'
    BY <1>4, <2>1, ZenonT(30) DEF WafInv, ChunkingInvisible
  <2>3. \A other \in Sides : session.state = BodyState(other) => Scanning(config, other)'
    BY <1>1, <1>4, <1>6, <1>7, <2>1, Zenon DEF Scanning
  <2> QED
    BY <1>1, <1>4, <1>6, <1>7, <2>1, <2>2, <2>3, Zenon DEF WafInv
<1>8. CASE session.state \in {"Initial", "ResponseHeaders", mine}
  <2>1. inspected' = [side |-> side, text |-> text \o chunk, ended |-> end, blocked |-> r[1] = "Block"]
    BY <1>8, Zenon DEF ChunkFed, on_request_body_chunk, on_response_body_chunk, BodyPhase, BodyState, Sides
  <2>2. text \in Seq(Bytes) /\ text \o chunk \in Seq(Bytes)
    BY <1>1
  <2> DEFINE body == IF session.state = mine THEN session.body[1] ELSE body_session(TRUE)
  <2>3. ASSUME Blocks(config, phase) PROVE Primed(phase, body, text)
    <3>1. CASE begins
      <4>1. text = <<>> /\ session.state # mine
        BY <1>5, <3>1, Zenon
      <4>2. body = body_session(TRUE)
        BY <4>1, Zenon
      <4> QED
        BY <1>2, <4>1, <4>2, FreshBody, Zenon
    <3>2. CASE ~begins
      <4>1. session.state = mine /\ text = inspected.text
        BY <1>8, <3>2, Zenon
      <4>2. Scanning(config, side)
        BY <1>1, <4>1, Zenon
      <4>3. body = session.body[1]
        BY <4>1, Zenon
      <4> HIDE DEF body, text
      <4> QED
        BY <2>3, <4>1, <4>2, <4>3, Zenon DEF Scanning
    <3> QED
      BY <3>1, <3>2, Zenon
  <2> DEFINE whole == text \o chunk
  <2>4. ASSUME Blocks(config, phase)
        PROVE  Judged(phase, r, mine, whole, end)
    <3>1. Primed(phase, body, text)
      BY <2>3, <2>4, Zenon
    <3>2. body = BodyOf(session, mine)
      BY Zenon DEF BodyOf
    <3>3. text \in Seq(Bytes)
      BY <2>2, Zenon
    <3>4. DOMAIN session = SessionFields /\ Accepts(session, mine)
      BY <1>1, <1>8, Zenon DEF Accepts
    <3>5. Primed(phase, BodyOf(session, mine), text)
      BY <3>1, <3>2, Zenon
    <3> HIDE DEF text, phase, config, mine, body
    <3>6. Judged(phase, BodyChunk(config, session, phase, mine, chunk, end), mine, text \o chunk, end)
      BY <1>2, <2>4, <3>3, <3>4, <3>5, BlockingChunk, Zenon
    <3> QED
      BY <3>6, Zenon
  <2>5. inspected'.side = side /\ inspected'.text = whole /\ inspected'.ended = end
    BY <2>1, Zenon
  <2>6. inspected'.blocked <=> r[1] = "Block"
    <3> HIDE DEF r, text
    <3>1. inspected'.blocked = (r[1] = "Block")
      BY <2>1, Zenon
    <3> QED
      BY <3>1, Zenon
  <2> HIDE DEF r, text
  <2>7. ASSUME NEW other \in Sides, session'.state = BodyState(other) PROVE Scanning(config, other)'
    <3>1. other = side /\ session'.state = mine
      BY <1>5, <1>6, <1>8, <2>7, Zenon DEF BodyState, Sides
    <3>2. Blocks(config, phase) => Primed(phase, session'.body[1], whole)
      BY <1>3, <1>5, <2>4, <3>1, ZenonT(30) DEF Judged
    <3> QED
      BY <1>4, <2>5, <3>1, <3>2, Zenon DEF Scanning
  <2>8. Blocks(config, phase) /\ (end \/ r[1] = "Block") => (r[1] = "Block" <=> Offends(phase, whole))
    BY <2>4, Zenon DEF Judged
  <2>9. ChunkingInvisible'
    <3> HIDE DEF whole
    <3>1. WafConfigs[waf'] = config /\ BodyPhase(WafConfigs[waf'], inspected'.side) = phase /\ inspected'.text = whole /\ inspected'.ended = end
      BY <1>4, <2>5, Zenon
    <3> HIDE DEF config, phase
    <3> QED
      BY <2>6, <2>8, <3>1, Zenon DEF ChunkingInvisible
  <2>10. session'.state \in {"Initial", "ResponseHeaders", "RequestBody", "ResponseBody", "Done"}
    BY <1>5, <1>6, <1>8, Zenon
  <2> QED
    BY <1>1, <1>4, <1>6, <2>2, <2>5, <2>7, <2>9, <2>10, Zenon DEF WafInv
<1> QED
  BY <1>7, <1>8, Zenon

LEMMA WafInvStep == WafInv /\ [WafNext]_wafVars => WafInv'
<1> SUFFICES ASSUME WafInv, [WafNext]_wafVars PROVE WafInv'
  BY Zenon
<1>1. ASSUME NEW side \in Sides, NEW end \in BOOLEAN, NEW n \in 0..MaxChunk, NEW chunk \in [1..n -> Bytes], ChunkFed(side, chunk, end)
      PROVE  WafInv'
  <2>1. chunk \in Seq(Bytes)
    OBVIOUS
  <2> QED
    BY <1>1, <2>1, ChunkStep, Zenon
<1>2. CASE UNCHANGED wafVars
  <2>1. UNCHANGED waf /\ UNCHANGED session /\ UNCHANGED inspected
    BY <1>2, Zenon DEF wafVars
  <2>2. ChunkingInvisible'
    BY <2>1, ZenonT(30) DEF WafInv, ChunkingInvisible
  <2>3. \A side \in Sides : session'.state = BodyState(side) => Scanning(WafConfigs[waf], side)'
    BY <2>1, Zenon DEF WafInv, Scanning
  <2> QED
    BY <2>1, <2>2, <2>3, Zenon DEF WafInv
<1> QED
  BY <1>1, <1>2, HeadersStep, Zenon DEF WafNext

(* BodySession::feed and the hooks of the session: for every set of compiled   *)
(* rules, every body and every way it is cut into chunks, a body the rules of  *)
(* which block is refused exactly when its text offends, although the matcher  *)
(* keeps only the tail of the text and the state of its automaton.             *)
THEOREM ChunkingSafety == WafSpec => []ChunkingInvisible
<1>1. WafInv => ChunkingInvisible
  BY Zenon DEF WafInv
<1> QED
  BY <1>1, WafInvInit, WafInvStep, PTL DEF WafSpec
=============================================================================
