--------------------------- MODULE GatewayProofs ----------------------------
(***************************************************************************)
(* Proofs about Gateway, for any requests, configurations and bounds.      *)
(*                                                                         *)
(* ContextInv describes the contexts that reloads build; only Reload       *)
(* touches it.  RequestInv says what a request holds in each phase.        *)
(* CountInv ties the counters of the backends to the requests.             *)
(***************************************************************************)
EXTENDS Gateway, FiniteSetTheorems, SequenceTheorems, WellFoundedInduction, TLAPS

ContextType ==
  /\ built \in Contexts
  /\ current = built
  /\ config \in [1 .. built -> Configs]
  /\ servers \in [1 .. built -> Seq(Seq(Backend))]

(* The pool of an upstream holds servers of that upstream, *)
Matches(c, pools) ==
  /\ DOMAIN pools = DOMAIN c.upstreams
  /\ \A u \in DOMAIN pools : \A k \in DOMAIN pools[u] :
       pools[u][k].name = c.upstreams[u].name /\ Listed(c.upstreams[u], pools[u][k].addr)

PoolsMatch == \A v \in 1 .. built : Matches(config[v], servers[v])

(* and the object a reload finds for a server is still the one it finds in *)
(* the current context, if no reload dropped the server.                   *)
PoolsPersist ==
  \A v \in 1 .. built : \A u \in DOMAIN servers[v] : \A b \in Backend :
    (/\ IsFound(servers[v][u], b)
     /\ \A w \in v .. current : Lists(config[w], b.name, b.addr))
      => \E i \in DOMAIN servers[current] : IsFound(servers[current][i], b)

ContextInv == ContextType /\ PoolsMatch /\ PoolsPersist

Routed == {"peer", "resolve", "connect", "proxy", "retry"}

RequestType ==
  /\ pc \in [Requests -> Phases]
  /\ app \in [Requests -> 0 .. built]
  /\ target \in [Requests -> Nat]
  /\ selected \in [Requests -> Backend \cup {None}]
  /\ attempt \in [Requests -> 0 .. MaxAttempts]
  /\ blamed \in [Requests -> BOOLEAN]

InPhase(r) ==
  /\ pc[r] \in {"early", "filter"} => attempt[r] = 0
  /\ pc[r] \in {"peer", "retry"} => attempt[r] < MaxAttempts
  /\ pc[r] \in {"early", "filter", "peer", "done"} => selected[r] = None
  /\ pc[r] \in {"resolve", "connect", "proxy", "retry"} => selected[r] # None
  /\ pc[r] = "filter" => app[r] # 0
  /\ pc[r] \in Routed => app[r] # 0 /\ target[r] \in DOMAIN servers[app[r]]
  /\ selected[r] # None =>
       /\ app[r] # 0
       /\ target[r] \in DOMAIN servers[app[r]]
       /\ selected[r] \in Pool(app[r], target[r])

RequestInv == RequestType /\ \A r \in Requests : InPhase(r)

CountInv ==
  /\ conns \in [Backend -> Nat]
  /\ total \in [Backend -> Nat]
  /\ failures \in [Backend -> Nat]
  /\ ConnsAreHolders
  /\ ChargedOnce

Inv == ContextInv /\ RequestInv /\ CountInv

(* ctx.selected_backend is None or a backend, never both. *)
LEMMA NoneIsNoBackend == None \notin Backend
<1> SUFFICES ASSUME None \in Backend PROVE FALSE
  BY Zenon
<1>1. None.born \in Contexts
  BY Zenon DEF Backend
<1>2. None.born = 0
  BY Zenon DEF None
<1> QED BY <1>1, <1>2, GatewayAssumption DEF Contexts

-----------------------------------------------------------------------------
(* A configuration numbers its upstreams from 1 and names each once. *)
LEMMA ConfigFacts ==
  ASSUME NEW c \in Configs
  PROVE  /\ c.upstreams \in Seq([name : Names, servers : Seq(Addrs)])
         /\ DOMAIN c.upstreams = 1 .. Len(c.upstreams)
         /\ Len(c.upstreams) \in Nat
         /\ \A u \in DOMAIN c.upstreams :
              c.upstreams[u].name \in Names /\ c.upstreams[u].servers \in Seq(Addrs)
         /\ \A u \in DOMAIN c.upstreams : Len(c.upstreams[u].servers) <= MaxServers
         /\ \A p \in Routes : c.target[p] \in DOMAIN c.upstreams
         /\ \A p \in Routes : c.target[p] \in Nat
         /\ \A i, j \in DOMAIN c.upstreams :
              c.upstreams[i].name = c.upstreams[j].name => i = j
<1>1. c \in Configuration
  BY GatewayAssumption, Zenon
<1>2. c.upstreams \in Seq([name : Names, servers : Seq(Addrs)])
  BY <1>1, Zenon DEF Configuration
<1>3. DOMAIN c.upstreams = 1 .. Len(c.upstreams) /\ Len(c.upstreams) \in Nat
  <2> DEFINE U == [name : Names, servers : Seq(Addrs)]
  <2>1. \A s \in Seq(U) : DOMAIN s = 1 .. Len(s) /\ Len(s) \in Nat
    <3> HIDE DEF U
    <3> QED OBVIOUS
  <2> QED BY <1>2, <2>1, Zenon
<1>4. \A u \in DOMAIN c.upstreams : c.upstreams[u] \in [name : Names, servers : Seq(Addrs)]
  <2> DEFINE U == [name : Names, servers : Seq(Addrs)]
  <2>1. \A s \in Seq(U) : \A u \in DOMAIN s : s[u] \in U
    <3> HIDE DEF U
    <3> QED OBVIOUS
  <2> QED BY <1>2, <2>1, Zenon
<1>5. \A u \in DOMAIN c.upstreams :
         c.upstreams[u].name \in Names /\ c.upstreams[u].servers \in Seq(Addrs)
  BY <1>4, Zenon
<1>6. \A p \in Routes : c.target[p] \in DOMAIN c.upstreams
  BY <1>1, Zenon DEF Configuration
<1>7. \A p \in Routes : c.target[p] \in Nat
  BY <1>3, <1>6
<1>8. \A i, j \in DOMAIN c.upstreams :
         c.upstreams[i].name = c.upstreams[j].name => i = j
  BY <1>1, Zenon DEF Configuration
<1>9. \A u \in DOMAIN c.upstreams : Len(c.upstreams[u].servers) <= MaxServers
  BY <1>1, Zenon DEF Configuration
<1> QED BY <1>2, <1>3, <1>5, <1>6, <1>7, <1>8, <1>9, Zenon

(* An entry of a list of servers. *)
LEMMA EntryFacts ==
  ASSUME NEW c \in Configs, NEW u \in DOMAIN c.upstreams
  PROVE  /\ DOMAIN c.upstreams[u].servers = 1 .. Len(c.upstreams[u].servers)
         /\ Len(c.upstreams[u].servers) \in Nat
         /\ \A k \in DOMAIN c.upstreams[u].servers :
              c.upstreams[u].servers[k] \in Addrs /\ k \in 1 .. MaxServers
<1> DEFINE list == c.upstreams[u].servers
<1>1. list \in Seq(Addrs) /\ Len(list) <= MaxServers /\ MaxServers \in Nat
  BY ConfigFacts, GatewayAssumption, Zenon
<1> HIDE DEF list
<1>2. /\ DOMAIN list = 1 .. Len(list) /\ Len(list) \in Nat
      /\ \A k \in DOMAIN list : list[k] \in Addrs /\ k \in 1 .. MaxServers
  BY <1>1
<1> QED BY <1>2, Zenon DEF list

(* A pool with one object for each entry of a list is a sequence. *)
LEMMA PoolIsSeq ==
  ASSUME NEW c \in Configs, NEW u \in DOMAIN c.upstreams, NEW pool,
         pool = [k \in DOMAIN c.upstreams[u].servers |-> pool[k]],
         \A k \in DOMAIN c.upstreams[u].servers : pool[k] \in Backend
  PROVE  pool \in Seq(Backend)
<1>1. PICK n \in Nat : DOMAIN c.upstreams[u].servers = 1 .. n
  BY EntryFacts, Zenon
<1>2. pool \in [1 .. n -> Backend]
  BY <1>1, Zenon
<1> QED BY <1>2

(* The pools of all upstreams, in the order of the configuration. *)
LEMMA PoolsAreSeq ==
  ASSUME NEW c \in Configs, NEW pools,
         pools = [u \in DOMAIN c.upstreams |-> pools[u]],
         \A u \in DOMAIN c.upstreams : pools[u] \in Seq(Backend)
  PROVE  pools \in Seq(Seq(Backend)) /\ DOMAIN pools = DOMAIN c.upstreams
<1> DEFINE P == Seq(Backend)
<1>1. PICK n \in Nat : DOMAIN c.upstreams = 1 .. n
  BY ConfigFacts, Zenon
<1>2. pools \in [1 .. n -> P] /\ DOMAIN pools = DOMAIN c.upstreams
  BY <1>1, Zenon
<1> HIDE DEF P
<1>3. pools \in Seq(P)
  BY <1>2
<1> QED BY <1>2, <1>3, Zenon DEF P

(* A set of positions has a first one, *)
LEMMA LeastExists ==
  ASSUME NEW S \in SUBSET Nat, S # {}
  PROVE  \E k \in S : \A j \in S : k <= j
<1>1. PICK k \in S : \A j \in S : ~ (<<j, k>> \in OpToRel(<, Nat))
  BY NatLessThanWellFounded, WFMin, Zenon
<1>2. \A j \in S : ~ (j < k)
  BY <1>1, Zenon DEF OpToRel
<1>3. \A j \in S : j \in Nat /\ k \in Nat
  BY Zenon
<1>4. \A j \in S : k <= j
  BY <1>2, <1>3
<1> QED BY <1>4, Zenon

(* which is what First returns. *)
LEMMA FirstFacts ==
  ASSUME NEW S \in SUBSET Nat, NEW k \in S, \A j \in S : k <= j
  PROVE  First(S) = k
<1>1. First(S) \in S /\ \A j \in S : First(S) <= j
  BY Zenon DEF First
<1>2. First(S) <= k /\ k <= First(S) /\ First(S) \in Nat /\ k \in Nat
  BY <1>1, Zenon
<1> QED BY <1>2

(* The backends build_load_balancer searches are those of the upstream of  *)
(* that name, or none.                                                     *)
LEMMA OldBackendsFacts ==
  ASSUME ContextInv, NEW n
  PROVE  \/ OldBackends(current, n) = << >>
         \/ \E i \in DOMAIN servers[current] :
              /\ config[current].upstreams[i].name = n
              /\ OldBackends(current, n) = servers[current][i]
<1> DEFINE named == {u \in DOMAIN config[current].upstreams :
                       config[current].upstreams[u].name = n}
<1>1. current \in 1 .. built
  BY DEF ContextInv, ContextType, Contexts
<1>2. DOMAIN servers[current] = DOMAIN config[current].upstreams
  BY <1>1, Zenon DEF ContextInv, PoolsMatch, Matches
<1>3. CASE named = {}
  BY <1>3, Zenon DEF OldBackends
<1>4. CASE named # {}
  <2>1. (CHOOSE u \in named : TRUE) \in named
    BY <1>4, Zenon
  <2>2. OldBackends(current, n) = servers[current][CHOOSE u \in named : TRUE]
    BY <1>4, Zenon DEF OldBackends
  <2> QED BY <1>2, <2>1, <2>2, Zenon
<1> QED BY <1>3, <1>4, Zenon

(* The pools of the current context. *)
LEMMA PoolFacts ==
  ASSUME ContextInv, NEW i \in DOMAIN servers[current]
  PROVE  /\ i \in DOMAIN config[current].upstreams
         /\ servers[current][i] \in Seq(Backend)
         /\ \A k \in DOMAIN servers[current][i] :
              /\ servers[current][i][k] \in Backend
              /\ servers[current][i][k].name = config[current].upstreams[i].name
         /\ DOMAIN servers[current][i] \subseteq Nat
<1>1. current \in 1 .. built
  BY DEF ContextInv, ContextType, Contexts
<1>2. i \in DOMAIN config[current].upstreams
      /\ \A k \in DOMAIN servers[current][i] :
           servers[current][i][k].name = config[current].upstreams[i].name
  BY <1>1, Zenon DEF ContextInv, PoolsMatch, Matches
<1>3. servers[current][i] \in Seq(Backend)
  <2> DEFINE P == Seq(Backend)
  <2>1. servers[current] \in Seq(P)
    BY <1>1, Zenon DEF ContextInv, ContextType
  <2> HIDE DEF P
  <2>2. servers[current][i] \in P
    BY <2>1
  <2> QED BY <2>2, Zenon DEF P
<1>4. \A s \in Seq(Backend) : DOMAIN s \subseteq Nat /\ \A k \in DOMAIN s : s[k] \in Backend
  <2> DEFINE B == Backend
  <2>1. \A s \in Seq(B) : DOMAIN s \subseteq Nat /\ \A k \in DOMAIN s : s[k] \in B
    <3> HIDE DEF B
    <3> QED OBVIOUS
  <2> QED BY <2>1, Zenon DEF B
<1> QED BY <1>2, <1>3, <1>4, Zenon

(* A new object is a backend. *)
LEMMA NewIsBackend ==
  ASSUME NEW v \in Contexts, NEW n \in Names, NEW a \in Addrs, NEW k \in 1 .. MaxServers
  PROVE  /\ NewBackend(v, n, a, k) \in Backend
         /\ NewBackend(v, n, a, k).name = n
         /\ NewBackend(v, n, a, k).addr = a
<1> DEFINE E == 1 .. MaxServers
<1>1. Backend = [name : Names, addr : Addrs, born : Contexts, entry : E] /\ k \in E
  BY Zenon DEF Backend
<1> HIDE DEF E
<1> QED BY <1>1, Zenon DEF NewBackend

(* What CarriedOver returns: an object for that server, an old one only    *)
(* from the upstream of that name.                                         *)
LEMMA CarriedOverFacts ==
  ASSUME ContextInv, built + 1 \in Contexts, NEW n \in Names, NEW a \in Addrs,
         NEW k \in 1 .. MaxServers
  PROVE  /\ CarriedOver(current, n, a, k) \in Backend
         /\ CarriedOver(current, n, a, k).name = n
         /\ CarriedOver(current, n, a, k).addr = a
<1> DEFINE olds == OldBackends(current, n)
<1>1. current = built
  BY Zenon DEF ContextInv, ContextType
<1>2. CASE AtAddr(olds, a) # {}
  <2>1. olds # << >>
    BY <1>2 DEF AtAddr
  <2>2. PICK i \in DOMAIN servers[current] :
           config[current].upstreams[i].name = n /\ olds = servers[current][i]
    BY <2>1, OldBackendsFacts, Zenon
  <2>3. AtAddr(olds, a) \in SUBSET Nat
    BY <2>2, PoolFacts, Zenon DEF AtAddr
  <2>4. PICK m \in AtAddr(olds, a) : \A j \in AtAddr(olds, a) : m <= j
    BY <1>2, <2>3, LeastExists, Zenon
  <2>5. First(AtAddr(olds, a)) = m
    BY <2>3, <2>4, FirstFacts, Zenon
  <2>6. m \in DOMAIN olds /\ olds[m].addr = a
    BY Zenon DEF AtAddr
  <2>7. CarriedOver(current, n, a, k) = olds[m]
    <3>1. CarriedOver(current, n, a, k) = olds[First(AtAddr(olds, a))]
      BY <1>2, Zenon DEF CarriedOver
    <3> HIDE DEF olds
    <3> QED BY <2>5, <3>1, Zenon
  <2> QED BY <2>2, <2>6, <2>7, PoolFacts, ZenonT(30)
<1>3. CASE AtAddr(olds, a) = {}
  <2>1. CarriedOver(current, n, a, k) = NewBackend(current + 1, n, a, k)
    BY <1>3, Zenon DEF CarriedOver
  <2>2. current + 1 \in Contexts
    BY <1>1, Zenon
  <2>3. /\ NewBackend(current + 1, n, a, k) \in Backend
        /\ NewBackend(current + 1, n, a, k).name = n
        /\ NewBackend(current + 1, n, a, k).addr = a
    BY <2>2, NewIsBackend
  <2> QED BY <2>1, <2>3, Zenon
<1> QED BY <1>2, <1>3, Zenon

(* The object that is found in the current context is the one carried over *)
(* to every entry of its server.                                           *)
LEMMA CarriedOverKeeps ==
  ASSUME ContextInv, NEW i \in DOMAIN servers[current], NEW b,
         IsFound(servers[current][i], b), NEW k
  PROVE  /\ CarriedOver(current, b.name, b.addr, k) = b
         /\ b.name = config[current].upstreams[i].name
<1> DEFINE olds == OldBackends(current, b.name)
           pool == servers[current][i]
<1>1. config[current] \in Configs
  BY DEF ContextInv, ContextType, Contexts
<1>2. PICK m \in DOMAIN pool : pool[m] = b /\ \A j \in AtAddr(pool, b.addr) : m <= j
  BY Zenon DEF IsFound
<1>3. i \in DOMAIN config[current].upstreams /\ config[current].upstreams[i].name = b.name
  BY <1>2, PoolFacts, Zenon
<1>4. \A j \in DOMAIN config[current].upstreams :
        config[current].upstreams[j].name = b.name => j = i
  BY <1>1, <1>3, ConfigFacts, Zenon
<1>5. olds = pool
  <2> DEFINE named == {u \in DOMAIN config[current].upstreams :
                         config[current].upstreams[u].name = b.name}
  <2>1. named # {} /\ (CHOOSE u \in named : TRUE) \in named
    BY <1>3, Zenon
  <2>2. (CHOOSE u \in named : TRUE) = i
    BY <1>4, <2>1, Zenon
  <2> QED BY <2>1, <2>2, Zenon DEF OldBackends
<1>6. m \in AtAddr(pool, b.addr) /\ AtAddr(pool, b.addr) \in SUBSET Nat
  BY <1>2, PoolFacts, Zenon DEF AtAddr
<1>7. First(AtAddr(pool, b.addr)) = m
  BY <1>2, <1>6, FirstFacts, Zenon
<1>8. CarriedOver(current, b.name, b.addr, k) = pool[m]
  BY <1>5, <1>6, <1>7, Zenon DEF CarriedOver
<1> QED BY <1>2, <1>3, <1>8, Zenon

(* The context built at startup. *)
LEMMA InitContext == Init => ContextInv
<1> SUFFICES ASSUME Init PROVE ContextInv
  BY Zenon
<1>1. PICK c \in Configs : config = <<c>> /\ servers = <<Fresh(c)>>
  BY Zenon DEF Init
<1>2. built = 1 /\ current = 1 /\ 1 \in Contexts
  BY GatewayAssumption DEF Init, Contexts
<1>3. DOMAIN config = 1 .. 1 /\ config[1] = c /\ DOMAIN servers = 1 .. 1 /\ servers[1] = Fresh(c)
  BY <1>1
<1>4. ASSUME NEW u \in DOMAIN c.upstreams
      PROVE  /\ Fresh(c)[u] \in Seq(Backend)
             /\ \A k \in DOMAIN Fresh(c)[u] :
                  /\ Fresh(c)[u][k].name = c.upstreams[u].name
                  /\ Listed(c.upstreams[u], Fresh(c)[u][k].addr)
  <2> DEFINE pool == Fresh(c)[u]
             list == c.upstreams[u].servers
  <2>1. pool = [k \in DOMAIN list |-> NewBackend(1, c.upstreams[u].name, list[k], k)]
    BY Zenon DEF Fresh
  <2>2. ASSUME NEW k \in DOMAIN list
        PROVE  pool[k] \in Backend /\ pool[k].name = c.upstreams[u].name /\ pool[k].addr = list[k]
    <3>1. pool[k] = NewBackend(1, c.upstreams[u].name, list[k], k)
      BY <2>1, Zenon
    <3>2. list[k] \in Addrs /\ k \in 1 .. MaxServers /\ c.upstreams[u].name \in Names
      BY EntryFacts, ConfigFacts, Zenon
    <3> HIDE DEF pool, list
    <3>3. /\ NewBackend(1, c.upstreams[u].name, list[k], k) \in Backend
          /\ NewBackend(1, c.upstreams[u].name, list[k], k).name = c.upstreams[u].name
          /\ NewBackend(1, c.upstreams[u].name, list[k], k).addr = list[k]
      BY <1>2, <3>2, NewIsBackend
    <3> QED BY <3>1, <3>3, Zenon
  <2>3. pool = [k \in DOMAIN list |-> pool[k]] /\ DOMAIN pool = DOMAIN list
    BY <2>1, Zenon
  <2> HIDE DEF pool
  <2>4. pool \in Seq(Backend)
    BY <2>2, <2>3, PoolIsSeq, Zenon
  <2>5. \A k \in DOMAIN pool : pool[k].name = c.upstreams[u].name /\ Listed(c.upstreams[u], pool[k].addr)
    BY <2>2, <2>3, Zenon DEF Listed
  <2> QED BY <2>4, <2>5, Zenon DEF pool
<1>5. Fresh(c) \in Seq(Seq(Backend)) /\ DOMAIN Fresh(c) = DOMAIN c.upstreams
  <2> DEFINE pools == Fresh(c)
  <2>1. pools = [u \in DOMAIN c.upstreams |-> pools[u]]
    BY Zenon DEF Fresh
  <2>2. \A u \in DOMAIN c.upstreams : pools[u] \in Seq(Backend)
    BY <1>4, Zenon
  <2> HIDE DEF pools
  <2>3. pools \in Seq(Seq(Backend)) /\ DOMAIN pools = DOMAIN c.upstreams
    BY <2>1, <2>2, PoolsAreSeq, Zenon
  <2> QED BY <2>3, Zenon DEF pools
<1>6. ContextType
  <2> DEFINE P == Seq(Seq(Backend))
             new == Fresh(c)
  <2>1. new \in P /\ servers = <<new>>
    BY <1>1, <1>5, Zenon
  <2> HIDE DEF P, new
  <2>2. servers \in [1 .. built -> P]
    BY <1>2, <2>1
  <2>3. config \in [1 .. built -> Configs]
    BY <1>1, <1>2
  <2> QED BY <1>2, <2>2, <2>3, Zenon DEF ContextType, P
<1>7. Matches(c, Fresh(c))
  BY <1>4, <1>5, Zenon DEF Matches
<1>8. PoolsMatch
  BY <1>2, <1>3, <1>7 DEF PoolsMatch
<1>9. PoolsPersist
  <2>1. \A v \in 1 .. built : v = current
    BY <1>2
  <2> QED BY <2>1, Zenon DEF PoolsPersist
<1> QED BY <1>6, <1>8, <1>9, Zenon DEF ContextInv

(* A sequence with one element appended, seen as a function. *)
LEMMA AppendFunction ==
  ASSUME NEW S, NEW n \in Nat, NEW s \in Seq(S), Len(s) = n, NEW e \in S
  PROVE  Append(s, e) \in [1 .. n + 1 -> S]
<1>1. Append(s, e) \in Seq(S) /\ Len(Append(s, e)) = n + 1
  BY AppendProperties, Zenon
<1> QED BY <1>1, LenProperties, Zenon

(* What a reload adds. *)
LEMMA ReloadFacts ==
  ASSUME ContextInv, NEW c \in Configs, Reload(c)
  PROVE  /\ built' = built + 1 /\ current' = built + 1 /\ current = built
         /\ built \in Nat \ {0} /\ built + 1 \in Contexts
         /\ DOMAIN config' = 1 .. built + 1 /\ DOMAIN servers' = 1 .. built + 1
         /\ \A v \in 1 .. built : config'[v] = config[v] /\ servers'[v] = servers[v]
         /\ config'[built + 1] = c /\ servers'[built + 1] = Rebuilt(c, current)
         /\ 1 .. built' = (1 .. built) \cup {built + 1}
         /\ config \in Seq(Configs) /\ Len(config) = built
         /\ servers \in Seq(Seq(Seq(Backend))) /\ Len(servers) = built
<1>1. built \in Nat \ {0} /\ built + 1 \in Contexts /\ current = built
  BY GatewayAssumption DEF ContextInv, ContextType, Contexts, Reload
<1>2. config \in Seq(Configs) /\ Len(config) = built
  BY <1>1 DEF ContextInv, ContextType
<1>3. servers \in Seq(Seq(Seq(Backend))) /\ Len(servers) = built
  <2> DEFINE P == Seq(Seq(Backend))
  <2>1. servers \in [1 .. built -> P]
    BY Zenon DEF ContextInv, ContextType
  <2> HIDE DEF P
  <2>2. servers \in Seq(P) /\ Len(servers) = built
    BY <1>1, <2>1
  <2> QED BY <2>2, Zenon DEF P
<1>4. /\ DOMAIN config' = 1 .. built + 1
      /\ \A v \in 1 .. built : config'[v] = config[v]
      /\ config'[built + 1] = c
  BY <1>1, <1>2 DEF Reload
<1>5. /\ DOMAIN servers' = 1 .. built + 1
      /\ \A v \in 1 .. built : servers'[v] = servers[v]
      /\ servers'[built + 1] = Rebuilt(c, current)
  <2> DEFINE P == Seq(Seq(Backend))
             new == Rebuilt(c, current)
  <2>1. servers \in Seq(P) /\ Len(servers) = built /\ servers' = Append(servers, new)
    BY <1>3, Zenon DEF Reload
  <2> HIDE DEF P, new
  <2>2. /\ DOMAIN servers' = 1 .. built + 1
        /\ \A v \in 1 .. built : servers'[v] = servers[v]
        /\ servers'[built + 1] = new
    BY <1>1, <2>1
  <2> QED BY <2>2, Zenon DEF new
<1>6. built' = built + 1 /\ current' = built + 1
  BY Zenon DEF Reload
<1> QED BY <1>1, <1>2, <1>3, <1>4, <1>5, <1>6

(* The pools a reload builds. *)
LEMMA RebuiltFacts ==
  ASSUME ContextInv, NEW c \in Configs, Reload(c), NEW u \in DOMAIN c.upstreams
  PROVE  /\ Rebuilt(c, current)[u] \in Seq(Backend)
         /\ DOMAIN Rebuilt(c, current)[u] = DOMAIN c.upstreams[u].servers
         /\ \A k \in DOMAIN c.upstreams[u].servers :
              /\ Rebuilt(c, current)[u][k]
                   = CarriedOver(current, c.upstreams[u].name, c.upstreams[u].servers[k], k)
              /\ Rebuilt(c, current)[u][k].name = c.upstreams[u].name
              /\ Rebuilt(c, current)[u][k].addr = c.upstreams[u].servers[k]
<1> DEFINE pool == Rebuilt(c, current)[u]
           list == c.upstreams[u].servers
<1>1. pool = [k \in DOMAIN list |-> CarriedOver(current, c.upstreams[u].name, list[k], k)]
  BY Zenon DEF Rebuilt
<1>2. built + 1 \in Contexts /\ c.upstreams[u].name \in Names
  BY ReloadFacts, ConfigFacts, Zenon
<1>3. \A k \in DOMAIN list : list[k] \in Addrs /\ k \in 1 .. MaxServers
  BY EntryFacts, Zenon
<1>4. pool = [k \in DOMAIN list |-> pool[k]] /\ DOMAIN pool = DOMAIN list
  BY <1>1, Zenon
<1>5. \A k \in DOMAIN list : pool[k] = CarriedOver(current, c.upstreams[u].name, list[k], k)
  BY <1>1, Zenon
<1> HIDE DEF pool, list
<1>6. ASSUME NEW k \in DOMAIN list
      PROVE  pool[k] \in Backend /\ pool[k].name = c.upstreams[u].name /\ pool[k].addr = list[k]
  <2> DEFINE E == 1 .. MaxServers
  <2>1. list[k] \in Addrs /\ k \in E
    BY <1>3, Zenon
  <2>2. pool[k] = CarriedOver(current, c.upstreams[u].name, list[k], k)
    BY <1>5, Zenon
  <2>3. \A n \in Names, a \in Addrs, m \in E :
          /\ CarriedOver(current, n, a, m) \in Backend
          /\ CarriedOver(current, n, a, m).name = n
          /\ CarriedOver(current, n, a, m).addr = a
    BY <1>2, CarriedOverFacts, Zenon
  <2> HIDE DEF E
  <2> QED BY <1>2, <2>1, <2>2, <2>3
<1>7. pool \in Seq(Backend)
  BY <1>4, <1>6, PoolIsSeq, Zenon DEF list
<1> QED BY <1>4, <1>5, <1>6, <1>7, Zenon DEF pool, list

(* A server that c still lists keeps the object that was found for it. *)
LEMMA FoundStays ==
  ASSUME ContextInv, NEW c \in Configs, Reload(c),
         NEW i \in DOMAIN servers[current], NEW b, IsFound(servers[current][i], b),
         Lists(c, b.name, b.addr)
  PROVE  \E j \in DOMAIN c.upstreams : IsFound(Rebuilt(c, current)[j], b)
<1>1. PICK j \in DOMAIN c.upstreams :
        c.upstreams[j].name = b.name /\ Listed(c.upstreams[j], b.addr)
  BY Zenon DEF Lists
<1> DEFINE pool == Rebuilt(c, current)[j]
           list == c.upstreams[j].servers
<1>2. /\ DOMAIN pool = DOMAIN list
      /\ \A k \in DOMAIN list : /\ pool[k] = CarriedOver(current, b.name, list[k], k)
                                /\ pool[k].addr = list[k]
  BY <1>1, RebuiltFacts, Zenon
<1>3. DOMAIN list \subseteq Nat
  BY EntryFacts
<1>4. PICK n \in DOMAIN list : list[n] = b.addr
  BY <1>1, Zenon DEF Listed
<1> HIDE DEF pool, list
<1>6. AtAddr(pool, b.addr) \in SUBSET Nat /\ n \in AtAddr(pool, b.addr)
  BY <1>2, <1>3, <1>4, Zenon DEF AtAddr
<1>7. PICK m \in AtAddr(pool, b.addr) : \A k \in AtAddr(pool, b.addr) : m <= k
  BY <1>6, LeastExists, Zenon
<1>8. m \in DOMAIN pool /\ pool[m] = CarriedOver(current, b.name, b.addr, m)
  BY <1>2, Zenon DEF AtAddr
<1>9. pool[m] = b
  BY <1>8, CarriedOverKeeps, Zenon
<1> QED BY <1>1, <1>7, <1>8, <1>9, Zenon DEF IsFound, pool

(* A reload keeps what is said of the contexts. *)
LEMMA ReloadContext ==
  ASSUME ContextInv, NEW c \in Configs, Reload(c)
  PROVE  ContextInv'
<1> DEFINE new == Rebuilt(c, current)
<1>1. new \in Seq(Seq(Backend)) /\ DOMAIN new = DOMAIN c.upstreams
  <2>1. new = [u \in DOMAIN c.upstreams |-> new[u]]
    BY Zenon DEF Rebuilt
  <2>2. \A u \in DOMAIN c.upstreams : new[u] \in Seq(Backend)
    BY RebuiltFacts, Zenon
  <2> HIDE DEF new
  <2> QED BY <2>1, <2>2, PoolsAreSeq, Zenon
<1>2. Matches(c, new)
  <2>1. ASSUME NEW u \in DOMAIN c.upstreams, NEW k \in DOMAIN new[u]
        PROVE  new[u][k].name = c.upstreams[u].name /\ Listed(c.upstreams[u], new[u][k].addr)
    <3>1. k \in DOMAIN c.upstreams[u].servers
      BY RebuiltFacts, Zenon
    <3>2. new[u][k].name = c.upstreams[u].name /\ new[u][k].addr = c.upstreams[u].servers[k]
      BY <3>1, RebuiltFacts, Zenon
    <3> QED BY <3>1, <3>2, Zenon DEF Listed
  <2> HIDE DEF new
  <2> QED BY <1>1, <2>1, Zenon DEF Matches
<1>3. servers'[built + 1] = new /\ config'[built + 1] = c
  BY ReloadFacts, Zenon
<1>4. ContextType'
  <2>1. config' \in [1 .. built + 1 -> Configs]
    BY ReloadFacts, AppendFunction, Zenon DEF Reload
  <2>2. servers' \in [1 .. built + 1 -> Seq(Seq(Backend))]
    <3> DEFINE P == Seq(Seq(Backend))
    <3>1. servers \in Seq(P) /\ Len(servers) = built /\ built \in Nat /\ new \in P
      BY <1>1, ReloadFacts, Zenon
    <3>2. servers' = Append(servers, new)
      BY Zenon DEF Reload, new
    <3> HIDE DEF P, new
    <3>3. servers' \in [1 .. built + 1 -> P]
      BY <3>1, <3>2, AppendFunction, Zenon
    <3> QED BY <3>3, Zenon DEF P
  <2> QED BY <2>1, <2>2, ReloadFacts, Zenon DEF ContextType
<1> HIDE DEF new
<1>5. PoolsMatch'
  <2> SUFFICES ASSUME NEW v \in 1 .. built'
               PROVE  Matches(config'[v], servers'[v])
    BY Zenon DEF PoolsMatch
  <2>1. CASE v = built + 1
    BY <1>2, <1>3, <2>1, Zenon
  <2>2. CASE v \in 1 .. built
    <3>1. servers'[v] = servers[v] /\ config'[v] = config[v]
      BY <2>2, ReloadFacts, Zenon
    <3>2. PoolsMatch
      BY Zenon DEF ContextInv
    <3> QED BY <2>2, <3>1, <3>2, Zenon DEF PoolsMatch
  <2> QED BY <2>1, <2>2, ReloadFacts
<1>6. PoolsPersist'
  <2> SUFFICES ASSUME NEW v \in 1 .. built', NEW u \in DOMAIN servers'[v], NEW b \in Backend,
                      IsFound(servers'[v][u], b),
                      \A w \in v .. current' : Lists(config'[w], b.name, b.addr)
               PROVE  \E i \in DOMAIN servers'[current'] : IsFound(servers'[current'][i], b)
    BY Zenon DEF PoolsPersist
  <2>1. CASE v = built + 1
    BY <2>1, ReloadFacts, Zenon
  <2>2. CASE v \in 1 .. built
    <3>1. u \in DOMAIN servers[v] /\ IsFound(servers[v][u], b)
      BY <2>2, ReloadFacts, Zenon
    <3>2. \A w \in v .. current : w \in v .. current' /\ config'[w] = config[w]
      BY <2>2, ReloadFacts
    <3>3. \A w \in v .. current : Lists(config[w], b.name, b.addr)
      BY <3>2, Zenon
    <3>4. PICK i \in DOMAIN servers[current] : IsFound(servers[current][i], b)
      BY <2>2, <3>1, <3>3, Zenon DEF ContextInv, PoolsPersist
    <3>5. built + 1 \in v .. current'
      BY <2>2, ReloadFacts
    <3>6. Lists(c, b.name, b.addr)
      BY <1>3, <3>5, Zenon
    <3>7. \E j \in DOMAIN c.upstreams : IsFound(new[j], b)
      BY <3>4, <3>6, FoundStays, Zenon DEF new
    <3> QED BY <1>1, <1>3, <3>7, ReloadFacts, Zenon
  <2> QED BY <2>1, <2>2, ReloadFacts
<1> QED BY <1>4, <1>5, <1>6, Zenon DEF ContextInv

(* The phases of a request, once its snapshot cannot change under it. *)
LEMMA ReloadRequest ==
  ASSUME ContextInv, RequestInv, NEW c \in Configs, Reload(c)
  PROVE  RequestInv'
<1>1. /\ UNCHANGED <<pc, app, target, selected, attempt, blamed>>
      /\ built' = built + 1 /\ built \in Nat
      /\ \A v \in 1 .. built : servers'[v] = servers[v]
  BY ReloadFacts, Zenon DEF Reload
<1>2. RequestType'
  BY <1>1 DEF RequestInv, RequestType
<1>3. \A r \in Requests : app[r] # 0 => servers'[app[r]] = servers[app[r]]
  BY <1>1 DEF RequestInv, RequestType
<1>4. ASSUME NEW r \in Requests PROVE InPhase(r)'
  <2>1. InPhase(r) /\ UNCHANGED <<pc, app, target, selected, attempt>>
    BY <1>1, Zenon DEF RequestInv
  <2>2. app[r] # 0 => servers'[app[r]] = servers[app[r]]
    BY <1>3, Zenon
  <2>3. CASE app[r] = 0
    BY <2>1, <2>3, Zenon DEF InPhase, Routed
  <2>4. CASE app[r] # 0
    BY <2>1, <2>2, <2>4, Zenon DEF InPhase, Routed, Pool
  <2> QED BY <2>3, <2>4, Zenon
<1> QED BY <1>2, <1>4, Zenon DEF RequestInv

(* What a hook may assign to the fields of its request. *)
LEMMA HookAssigns ==
  ASSUME NEW r \in Requests, Request(r)
  PROVE  /\ servers' = servers /\ built' = built /\ current' = current
         /\ \E x \in Phases : pc' = [pc EXCEPT ![r] = x]
         /\ \/ app' = app
            \/ \E x \in {0, current} : app' = [app EXCEPT ![r] = x]
         /\ \/ blamed' = blamed
            \/ blamed' = [blamed EXCEPT ![r] = TRUE]
         /\ \/ target' = target
            \/ target' = [target EXCEPT ![r] = 0]
            \/ \E p \in Routes : RequestFilter(r, p)
         /\ \/ selected' = selected
            \/ selected' = [selected EXCEPT ![r] = None]
            \/ SelectBackend(r)
         /\ attempt' = attempt \/ SelectBackend(r)
<1>1. CASE EarlyRequestFilter(r) \/ EarlyRefuse(r) \/ AnswerInFilter(r)
  BY <1>1, Zenon DEF EarlyRequestFilter, EarlyRefuse, AnswerInFilter, Hook, Phases
<1>2. CASE \E p \in Routes : RequestFilter(r, p)
  BY <1>2, Zenon DEF RequestFilter, Hook, Phases
<1>3. CASE ReleasePrevious(r) \/ SelectNone(r)
  BY <1>3, Zenon DEF ReleasePrevious, SelectNone, Hook, Phases
<1>4. CASE SelectBackend(r)
  <2>1. /\ servers' = servers /\ built' = built /\ current' = current
        /\ pc' = [pc EXCEPT ![r] = "resolve"] /\ "resolve" \in Phases
        /\ app' = app /\ target' = target /\ blamed' = blamed
    BY <1>4, Zenon DEF SelectBackend, Hook, Phases
  <2> QED BY <1>4, <2>1, Zenon
<1>5. CASE Resolve(r) \/ Connect(r) \/ Retry(r)
  BY <1>5, Zenon DEF Resolve, Connect, Retry, Hook, Phases
<1>6. CASE UpstreamFails(r) \/ Respond(r)
  BY <1>6, Zenon DEF UpstreamFails, Respond, Hook, Phases
<1>7. CASE Logging(r)
  <2>1. /\ servers' = servers /\ built' = built /\ current' = current
        /\ pc' = [pc EXCEPT ![r] = "done"] /\ "done" \in Phases
        /\ app' = [app EXCEPT ![r] = 0] /\ target' = [target EXCEPT ![r] = 0]
        /\ selected' = [selected EXCEPT ![r] = None]
        /\ blamed' = blamed /\ attempt' = attempt
    BY <1>7, Zenon DEF Logging, Hook, Phases
  <2> QED BY <2>1, Zenon
<1> QED BY <1>1, <1>2, <1>3, <1>4, <1>5, <1>6, <1>7, Zenon DEF Request

(* A request that has a snapshot has one of the contexts built so far. *)
LEMMA SnapshotBuilt ==
  ASSUME ContextType, RequestType, NEW r \in Requests, app[r] # 0
  PROVE  app[r] \in 1 .. built
<1>1. built \in Nat
  BY DEF ContextType, Contexts
<1>2. app[r] \in 0 .. built
  BY Zenon DEF RequestType
<1> QED BY <1>1, <1>2

(* The upstream id a route names exists in the request's own context. *)
LEMMA RouteTarget ==
  ASSUME ContextInv, RequestInv, NEW r \in Requests, NEW p \in Routes, RequestFilter(r, p)
  PROVE  /\ config[app[r]].target[p] \in DOMAIN servers[app[r]]
         /\ config[app[r]].target[p] \in Nat
<1>1. pc[r] = "filter"
  BY Zenon DEF RequestFilter, Hook
<1>2. InPhase(r) /\ RequestType /\ ContextType /\ PoolsMatch
  BY Zenon DEF RequestInv, ContextInv
<1>3. app[r] \in 1 .. built
  BY <1>1, <1>2, SnapshotBuilt, Zenon DEF InPhase
<1>4. config[app[r]] \in Configs /\ Matches(config[app[r]], servers[app[r]])
  BY <1>2, <1>3, Zenon DEF ContextType, PoolsMatch
<1> QED BY <1>4, ConfigFacts, Zenon DEF Matches

(* select_backend gives the request a backend of its own context's pool. *)
LEMMA SelectFacts ==
  ASSUME ContextInv, RequestInv, NEW r \in Requests, SelectBackend(r)
  PROVE  /\ app[r] # 0 /\ target[r] \in DOMAIN servers[app[r]]
         /\ selected[r] = None /\ attempt[r] < MaxAttempts
         /\ \A b \in Pool(app[r], target[r]) : b \in Backend /\ b # None
<1>1. pc[r] = "peer"
  BY Zenon DEF SelectBackend, Hook
<1>2. InPhase(r) /\ RequestType /\ ContextType
  BY Zenon DEF RequestInv, ContextInv
<1>3. app[r] # 0 /\ target[r] \in DOMAIN servers[app[r]] /\ selected[r] = None
      /\ attempt[r] < MaxAttempts
  BY <1>1, <1>2, Zenon DEF InPhase, Routed
<1>4. app[r] \in 1 .. built
  BY <1>2, <1>3, SnapshotBuilt, Zenon
<1>5. servers[app[r]] \in Seq(Seq(Backend))
  BY <1>2, <1>4, Zenon DEF ContextType
<1>6. \A k \in DOMAIN servers[app[r]][target[r]] : servers[app[r]][target[r]][k] \in Backend
  <2> DEFINE B == Backend
  <2>1. \A s \in Seq(Seq(B)) : \A u \in DOMAIN s : \A k \in DOMAIN s[u] : s[u][k] \in B
    <3> HIDE DEF B
    <3> QED OBVIOUS
  <2> QED BY <1>3, <1>5, <2>1, Zenon
<1> QED BY <1>3, <1>6, NoneIsNoBackend, Zenon DEF Pool

(* A backend that is held belongs to the pool of the request's upstream. *)
LEMMA SelectedFacts ==
  ASSUME Inv, NEW r \in Requests, selected[r] # None
  PROVE  /\ app[r] \in 1 .. built
         /\ target[r] \in DOMAIN servers[app[r]]
         /\ selected[r] \in Pool(app[r], target[r])
<1>1. InPhase(r) /\ RequestType /\ ContextType
  BY Zenon DEF Inv, RequestInv, ContextInv
<1>2. /\ app[r] # 0
      /\ target[r] \in DOMAIN servers[app[r]]
      /\ selected[r] \in Pool(app[r], target[r])
  BY <1>1, Zenon DEF InPhase
<1> QED BY <1>1, <1>2, SnapshotBuilt, Zenon

-----------------------------------------------------------------------------
(* The steps of a hook *)

(* A hook leaves every field of its request in its type. *)
LEMMA HookType ==
  ASSUME ContextInv, RequestInv, NEW r \in Requests, Request(r)
  PROVE  RequestType'
<1>1. RequestType /\ built \in Nat \ {0} /\ current = built
  BY DEF RequestInv, ContextInv, ContextType, Contexts
<1>2. pc' \in [Requests -> Phases]
  BY <1>1, HookAssigns, ZenonT(30) DEF RequestType
<1>3. app' \in [Requests -> 0 .. built']
  BY <1>1, HookAssigns DEF RequestType
<1>4. target' \in [Requests -> Nat]
  <2>1. CASE \E p \in Routes : RequestFilter(r, p)
    BY <1>1, <2>1, RouteTarget, Zenon DEF RequestType, RequestFilter
  <2>2. CASE ~ \E p \in Routes : RequestFilter(r, p)
    BY <1>1, <2>2, HookAssigns DEF RequestType
  <2> QED BY <2>1, <2>2, Zenon
<1>5. selected' \in [Requests -> Backend \cup {None}]
  <2>1. CASE SelectBackend(r)
    <3>1. PICK b \in Pool(app[r], target[r]) : selected' = [selected EXCEPT ![r] = b]
      BY <2>1, Zenon DEF SelectBackend
    <3> QED BY <1>1, <2>1, <3>1, SelectFacts, Zenon DEF RequestType
  <2>2. CASE ~ SelectBackend(r)
    BY <1>1, <2>2, HookAssigns, Zenon DEF RequestType
  <2> QED BY <2>1, <2>2, Zenon
<1>6. attempt' \in [Requests -> 0 .. MaxAttempts]
  <2>1. CASE SelectBackend(r)
    <3>1. attempt' = [attempt EXCEPT ![r] = attempt[r] + 1]
      BY <2>1, Zenon DEF SelectBackend
    <3>2. attempt[r] \in 0 .. MaxAttempts /\ attempt[r] < MaxAttempts /\ MaxAttempts \in Nat
      BY <1>1, <2>1, SelectFacts, GatewayAssumption, Zenon DEF RequestType
    <3>3. attempt[r] + 1 \in 0 .. MaxAttempts
      BY <3>2
    <3> QED BY <1>1, <3>1, <3>3, Zenon DEF RequestType
  <2>2. CASE ~ SelectBackend(r)
    BY <1>1, <2>2, HookAssigns, Zenon DEF RequestType
  <2> QED BY <2>1, <2>2, Zenon
<1>7. blamed' \in [Requests -> BOOLEAN]
  BY <1>1, HookAssigns, Zenon DEF RequestType
<1> QED BY <1>2, <1>3, <1>4, <1>5, <1>6, <1>7, Zenon DEF RequestType

(* A hook leaves the other requests in their phases. *)
LEMMA OthersInPhase ==
  ASSUME RequestInv, NEW r \in Requests, Request(r), NEW q \in Requests, q # r
  PROVE  InPhase(q)'
<1>1. RequestType /\ InPhase(q)
  BY Zenon DEF RequestInv
<1>2. pc'[q] = pc[q] /\ servers' = servers
  BY <1>1, HookAssigns DEF RequestType
<1>3. app'[q] = app[q]
  BY <1>1, HookAssigns DEF RequestType
<1>4. target'[q] = target[q]
  <2>1. target' = target \/ \E x : target' = [target EXCEPT ![r] = x]
    BY HookAssigns, Zenon DEF RequestFilter
  <2> QED BY <1>1, <2>1, Zenon DEF RequestType
<1>5. selected'[q] = selected[q]
  <2>1. selected' = selected \/ \E x : selected' = [selected EXCEPT ![r] = x]
    <3>1. CASE SelectBackend(r)
      BY <3>1, Zenon DEF SelectBackend
    <3> QED BY <3>1, HookAssigns, Zenon
  <2> QED BY <1>1, <2>1, Zenon DEF RequestType
<1>6. attempt'[q] = attempt[q]
  <2>1. attempt' = attempt \/ \E x : attempt' = [attempt EXCEPT ![r] = x]
    <3>1. CASE SelectBackend(r)
      BY <3>1, ZenonT(30) DEF SelectBackend
    <3> QED BY <3>1, HookAssigns, Zenon
  <2> QED BY <1>1, <2>1, Zenon DEF RequestType
<1> QED BY <1>1, <1>2, <1>3, <1>4, <1>5, <1>6, Zenon DEF InPhase, Pool

(* A hook leaves its request, and the others, with what their phases hold. *)
LEMMA HookRequest ==
  ASSUME ContextInv, RequestInv, NEW r \in Requests, Request(r)
  PROVE  RequestInv'
<1>1. built \in Nat \ {0} /\ current = built
  BY DEF ContextInv, ContextType, Contexts
<1>2. RequestType /\ InPhase(r) /\ MaxAttempts \in Nat \ {0}
  BY GatewayAssumption, Zenon DEF RequestInv
<1>3. InPhase(r)'
  <2> USE DEF Hook, RequestType, InPhase, Routed, Pool
  <2>1. CASE EarlyRequestFilter(r)
    BY <1>1, <1>2, <2>1, Zenon DEF EarlyRequestFilter
  <2>2. CASE EarlyRefuse(r) \/ AnswerInFilter(r) \/ SelectNone(r)
    BY <1>2, <2>2, Zenon DEF EarlyRefuse, AnswerInFilter, SelectNone
  <2>3. CASE \E p \in Routes : RequestFilter(r, p)
    <3>1. PICK p \in Routes : RequestFilter(r, p)
      BY <2>3, Zenon
    <3>2. /\ pc[r] = "filter" /\ pc'[r] = "peer" /\ servers' = servers
          /\ app'[r] = app[r] /\ attempt'[r] = attempt[r] /\ selected'[r] = selected[r]
          /\ target'[r] = config[app[r]].target[p]
      BY <1>2, <3>1, Zenon DEF RequestFilter
    <3>3. target'[r] \in DOMAIN servers[app[r]]
      BY <3>1, <3>2, RouteTarget, Zenon
    <3>4. app[r] # 0 /\ attempt[r] = 0 /\ selected[r] = None
      <4>1. InPhase(r)
        BY Zenon DEF RequestInv
      <4> QED BY <3>2, <4>1, Zenon
    <3>5. 0 < MaxAttempts
      BY GatewayAssumption
    <3> QED BY <3>2, <3>3, <3>4, <3>5, Zenon
  <2>4. CASE ReleasePrevious(r)
    BY <1>2, <2>4, Zenon DEF ReleasePrevious
  <2>5. CASE SelectBackend(r)
    <3>1. PICK b \in Pool(app[r], target[r]) : selected' = [selected EXCEPT ![r] = b]
      BY <2>5, Zenon DEF SelectBackend
    <3>2. app'[r] = app[r] /\ target'[r] = target[r] /\ servers' = servers
          /\ pc'[r] = "resolve" /\ selected'[r] = b
      BY <1>2, <2>5, <3>1, Zenon DEF SelectBackend
    <3>3. app[r] # 0 /\ target[r] \in DOMAIN servers[app[r]] /\ b # None
      BY <2>5, <3>1, SelectFacts, Zenon
    <3> QED BY <3>1, <3>2, <3>3, Zenon
  <2>6. CASE Resolve(r) \/ Connect(r) \/ Retry(r) \/ UpstreamFails(r) \/ Respond(r)
    <3>1. /\ servers' = servers /\ app' = app /\ target' = target /\ selected' = selected
          /\ attempt' = attempt /\ pc[r] \in {"resolve", "connect", "proxy"}
          /\ \/ pc'[r] \in {"connect", "proxy", "log"}
             \/ pc'[r] = "retry" /\ attempt[r] < MaxAttempts
      BY <1>2, <2>6, Zenon DEF Resolve, Connect, Retry, UpstreamFails, Respond
    <3>2. Pool(app[r], target[r])' = Pool(app[r], target[r])
      BY <3>1, Zenon DEF Pool
    <3> HIDE DEF Pool, Hook, RequestType
    <3>3. InPhase(r)
      BY <1>2, Zenon
    <3> QED BY <3>1, <3>2, <3>3, Zenon
  <2>7. CASE Logging(r)
    BY <1>2, <2>7, Zenon DEF Logging
  <2> QED BY <2>1, <2>2, <2>3, <2>4, <2>5, <2>6, <2>7, Zenon DEF Request
<1> QED BY <1>3, HookType, OthersInPhase, Zenon DEF RequestInv

-----------------------------------------------------------------------------
(* The requests that hold a backend are finitely many. *)
LEMMA HoldersFinite ==
  ASSUME NEW b
  PROVE  IsFiniteSet(Holders(b)) /\ Cardinality(Holders(b)) \in Nat
BY GatewayAssumption, FS_Subset, FS_CardinalityType, Zenon DEF Holders

(* Backend::acquire adds one holder, *)
LEMMA AcquireHolders ==
  ASSUME RequestType, NEW r \in Requests, selected[r] = None, NEW b \in Backend,
         selected' = [selected EXCEPT ![r] = b], NEW c \in Backend
  PROVE  Cardinality(Holders(c)') = IF c = b THEN Cardinality(Holders(c)) + 1
                                              ELSE Cardinality(Holders(c))
<1>1. CASE c = b
  <2>1. Holders(c)' = Holders(c) \cup {r} /\ r \notin Holders(c)
    BY <1>1, NoneIsNoBackend, Zenon DEF Holders, RequestType
  <2> QED BY <1>1, <2>1, HoldersFinite, FS_AddElement, Zenon
<1>2. CASE c # b
  <2>1. Holders(c)' = Holders(c)
    BY <1>2, NoneIsNoBackend, Zenon DEF Holders, RequestType
  <2> QED BY <1>2, <2>1, Zenon
<1> QED BY <1>1, <1>2, Zenon

(* and Backend::release removes one that was there. *)
LEMMA ReleaseHolders ==
  ASSUME RequestType, NEW r \in Requests, selected[r] # None,
         selected' = [selected EXCEPT ![r] = None], NEW c \in Backend
  PROVE  IF c = selected[r]
         THEN /\ Cardinality(Holders(c)) > 0
              /\ Cardinality(Holders(c)') = Cardinality(Holders(c)) - 1
         ELSE Cardinality(Holders(c)') = Cardinality(Holders(c))
<1>1. CASE c = selected[r]
  <2>1. r \in Holders(c) /\ Holders(c)' = Holders(c) \ {r}
    BY <1>1, NoneIsNoBackend, Zenon DEF Holders, RequestType
  <2>2. Cardinality(Holders(c) \ {r}) = Cardinality(Holders(c)) - 1
    BY <2>1, HoldersFinite, FS_RemoveElement, Zenon
  <2>3. Cardinality(Holders(c)) # 0
    BY <2>1, HoldersFinite, FS_EmptySet, Zenon
  <2> QED BY <1>1, <2>1, <2>2, <2>3, HoldersFinite
<1>2. CASE c # selected[r]
  <2>1. Holders(c)' = Holders(c)
    BY <1>2, NoneIsNoBackend, Zenon DEF Holders, RequestType
  <2> QED BY <1>2, <2>1, Zenon
<1> QED BY <1>1, <1>2, Zenon

(* A step that changes no counter and no selection keeps CountInv. *)
LEMMA QuietCount ==
  ASSUME CountInv, UNCHANGED <<conns, total, failures, selected>>
  PROVE  CountInv'
BY Zenon DEF CountInv, ConnsAreHolders, ChargedOnce, Holders

(* Releasing the selected backend, whether or not the failure is charged. *)
LEMMA ReleaseCount ==
  ASSUME RequestType, CountInv, NEW r \in Requests, selected[r] # None,
         selected' = [selected EXCEPT ![r] = None],
         conns' = [conns EXCEPT ![selected[r]] = @ - 1],
         failures' = [failures EXCEPT ![selected[r]] = @ + 1] \/ failures' = failures,
         total' = total
  PROVE  CountInv'
<1> DEFINE b == selected[r]
<1>1. b \in Backend
  BY Zenon DEF RequestType
<1>2. conns[b] > 0
  BY <1>1, ReleaseHolders, Zenon DEF CountInv, ConnsAreHolders
<1>3. conns' \in [Backend -> Nat] /\ total' \in [Backend -> Nat] /\ failures' \in [Backend -> Nat]
  BY <1>1, <1>2 DEF CountInv
<1>4. ConnsAreHolders'
  BY <1>1, ReleaseHolders, ZenonT(30) DEF CountInv, ConnsAreHolders
<1>5. ChargedOnce'
  <2> SUFFICES ASSUME NEW c \in Backend PROVE failures'[c] + conns'[c] <= total'[c]
    BY Zenon DEF ChargedOnce
  <2>1. failures[c] + conns[c] <= total[c] /\ failures[c] \in Nat /\ conns[c] \in Nat
        /\ total[c] \in Nat
    BY Zenon DEF CountInv, ChargedOnce
  <2>2. CASE c = b
    BY <1>1, <2>1, <2>2 DEF CountInv
  <2>3. CASE c # b
    BY <1>1, <2>1, <2>3, Zenon DEF CountInv
  <2> QED BY <2>2, <2>3, Zenon
<1> QED BY <1>3, <1>4, <1>5, Zenon DEF CountInv

(* Counting one more keeps a counter equal to what it counts. *)
LEMMA OneMore ==
  ASSUME NEW f \in Nat, NEW c \in Nat, NEW t \in Nat, f + c <= t
  PROVE  f + (c + 1) <= t + 1
OBVIOUS

(* select_backend counts the request it gives a backend to. *)
LEMMA SelectCount ==
  ASSUME ContextInv, RequestInv, CountInv, NEW r \in Requests, SelectBackend(r)
  PROVE  CountInv'
<1>1. PICK b \in Pool(app[r], target[r]) :
        /\ conns' = [conns EXCEPT ![b] = @ + 1]
        /\ total' = [total EXCEPT ![b] = @ + 1]
        /\ selected' = [selected EXCEPT ![r] = b]
  BY Zenon DEF SelectBackend
<1>2. b \in Backend /\ selected[r] = None /\ failures' = failures
  BY <1>1, SelectFacts, Zenon DEF SelectBackend
<1>3. conns \in [Backend -> Nat] /\ total \in [Backend -> Nat] /\ failures \in [Backend -> Nat]
  BY Zenon DEF CountInv
<1>4. /\ conns' \in [Backend -> Nat]
      /\ total' \in [Backend -> Nat]
      /\ failures' \in [Backend -> Nat]
  <2>1. conns[b] \in Nat /\ total[b] \in Nat
    BY <1>2, <1>3, ZenonT(30)
  <2>2. conns[b] + 1 \in Nat /\ total[b] + 1 \in Nat
    BY <2>1
  <2> QED BY <1>1, <1>2, <1>3, <2>2, Zenon
<1>5. ConnsAreHolders'
  BY <1>1, <1>2, AcquireHolders, Zenon DEF CountInv, ConnsAreHolders, RequestInv
<1>6. ChargedOnce'
  <2>1. ASSUME NEW a \in Backend PROVE failures'[a] + conns'[a] <= total'[a]
    <3>1. failures[a] + conns[a] <= total[a]
      BY Zenon DEF CountInv, ChargedOnce
    <3>2. failures[a] \in Nat /\ conns[a] \in Nat /\ total[a] \in Nat
      BY <1>3, Zenon
    <3>3. CASE a = b
      <4>1. conns'[a] = conns[a] + 1 /\ total'[a] = total[a] + 1 /\ failures'[a] = failures[a]
        BY <1>1, <1>2, <1>3, <3>3, Zenon
      <4>2. failures[a] + (conns[a] + 1) <= total[a] + 1
        BY <3>1, <3>2, OneMore, ZenonT(30)
      <4> QED BY <4>1, <4>2, ZenonT(30)
    <3>4. CASE a # b
      <4>1. conns'[a] = conns[a] /\ total'[a] = total[a] /\ failures'[a] = failures[a]
        BY <1>1, <1>2, <1>3, <3>4, Zenon
      <4> QED BY <3>1, <4>1, Zenon
    <3> QED BY <3>3, <3>4, Zenon
  <2> QED BY <2>1, Zenon DEF ChargedOnce
<1> QED BY <1>4, <1>5, <1>6, Zenon DEF CountInv

(* Every hook keeps the counters tied to the requests. *)
LEMMA HookCount ==
  ASSUME ContextInv, RequestInv, CountInv, NEW r \in Requests, Request(r)
  PROVE  CountInv'
<1>1. CASE ReleasePrevious(r)
  <2>1. pc[r] = "retry"
    BY <1>1, Zenon DEF ReleasePrevious, Hook
  <2>2. selected[r] # None
    BY <2>1, Zenon DEF RequestInv, InPhase
  <2> QED BY <1>1, <2>2, ReleaseCount, Zenon DEF ReleasePrevious, RequestInv
<1>2. CASE SelectBackend(r)
  BY <1>2, SelectCount, Zenon
<1>3. CASE Logging(r)
  <2>1. CASE selected[r] = None
    <3>1. selected' = selected
      BY <1>3, <2>1, Zenon DEF Logging, RequestInv, RequestType
    <3> QED BY <1>3, <2>1, <3>1, QuietCount, Zenon DEF Logging
  <2>2. CASE selected[r] # None
    BY <1>3, <2>2, ReleaseCount, Zenon DEF Logging, RequestInv
  <2> QED BY <2>1, <2>2, Zenon
<1>4. CASE ~ (ReleasePrevious(r) \/ SelectBackend(r) \/ Logging(r))
  BY <1>4, QuietCount, Zenon DEF Request, EarlyRequestFilter, EarlyRefuse, AnswerInFilter,
     RequestFilter, SelectNone, Resolve, Connect, Retry, UpstreamFails, Respond
<1> QED BY <1>1, <1>2, <1>3, <1>4, Zenon

(* What does not touch the contexts keeps their invariant. *)
LEMMA QuietContext ==
  ASSUME ContextInv, UNCHANGED <<config, servers, built, current>>
  PROVE  ContextInv'
<1>1. config' = config /\ servers' = servers /\ built' = built /\ current' = current
  BY Zenon
<1>2. ContextType'
  BY <1>1, Zenon DEF ContextInv, ContextType
<1>3. PoolsMatch'
  BY <1>1, Zenon DEF ContextInv, PoolsMatch
<1>4. PoolsPersist'
  BY <1>1, ZenonT(30) DEF ContextInv, PoolsPersist
<1> QED BY <1>2, <1>3, <1>4, Zenon DEF ContextInv

(* A hook leaves the contexts alone. *)
LEMMA HookContext ==
  ASSUME ContextInv, NEW r \in Requests, Request(r)
  PROVE  ContextInv'
<1>1. UNCHANGED <<config, servers, built, current>>
  BY Zenon DEF Request, Hook, EarlyRequestFilter, EarlyRefuse, AnswerInFilter, RequestFilter,
     ReleasePrevious, SelectBackend, SelectNone, Resolve, Connect, Retry, UpstreamFails,
     Respond, Logging
<1> QED BY <1>1, QuietContext, Zenon

-----------------------------------------------------------------------------
(* The gateway starts in the invariant, *)
LEMMA InitInv == Init => Inv
<1> SUFFICES ASSUME Init PROVE Inv
  BY Zenon
<1>1. RequestInv
  <2>1. pc \in [Requests -> Phases] /\ attempt \in [Requests -> 0 .. MaxAttempts]
    BY GatewayAssumption DEF Init, Phases
  <2>2. app \in [Requests -> 0 .. built] /\ target \in [Requests -> Nat]
    BY DEF Init
  <2>3. selected \in [Requests -> Backend \cup {None}] /\ blamed \in [Requests -> BOOLEAN]
    BY Zenon DEF Init
  <2>4. ASSUME NEW r \in Requests PROVE InPhase(r)
    <3>1. pc[r] = "early" /\ attempt[r] = 0 /\ selected[r] = None
      BY Zenon DEF Init
    <3> QED BY <3>1, Zenon DEF InPhase, Routed
  <2> QED BY <2>1, <2>2, <2>3, <2>4, Zenon DEF RequestInv, RequestType
<1>2. CountInv
  <2>1. conns \in [Backend -> Nat] /\ total \in [Backend -> Nat] /\ failures \in [Backend -> Nat]
    BY Zenon DEF Init
  <2>2. \A b \in Backend : Holders(b) = {}
    BY NoneIsNoBackend, Zenon DEF Init, Holders
  <2>3. ConnsAreHolders
    BY <2>2, FS_EmptySet, Zenon DEF Init, ConnsAreHolders
  <2>4. ChargedOnce
    BY DEF Init, ChargedOnce
  <2> QED BY <2>1, <2>3, <2>4, Zenon DEF CountInv
<1> QED BY <1>1, <1>2, InitContext, Zenon DEF Inv

(* and every step keeps it. *)
LEMMA NextInv == Inv /\ [Next]_vars => Inv'
<1> SUFFICES ASSUME Inv, [Next]_vars PROVE Inv'
  BY Zenon
<1>1. ASSUME NEW c \in Configs, Reload(c) PROVE Inv'
  <2>1. UNCHANGED <<conns, total, failures, selected>>
    BY <1>1, Zenon DEF Reload
  <2> QED BY <1>1, <2>1, ReloadContext, ReloadRequest, QuietCount, Zenon DEF Inv
<1>2. ASSUME NEW r \in Requests, Request(r) PROVE Inv'
  BY <1>2, HookContext, HookRequest, HookCount, Zenon DEF Inv
<1>3. CASE UNCHANGED vars
  <2>1. UNCHANGED <<config, servers, built, current>>
        /\ UNCHANGED <<pc, app, target, selected, attempt, blamed>>
        /\ UNCHANGED <<conns, total, failures, selected>>
    BY <1>3, Zenon DEF vars
  <2>2. ContextInv'
    BY <2>1, QuietContext, Zenon DEF Inv
  <2>3. RequestInv'
    <3>1. RequestType'
      BY <2>1, Zenon DEF Inv, RequestInv, RequestType
    <3>2. ASSUME NEW r \in Requests PROVE InPhase(r)'
      <4>1. InPhase(r)
        BY Zenon DEF Inv, RequestInv
      <4> QED BY <2>1, <4>1, Zenon DEF InPhase, Pool
    <3> QED BY <3>1, <3>2, Zenon DEF RequestInv
  <2> QED BY <2>1, <2>2, <2>3, QuietCount, Zenon DEF Inv
<1> QED BY <1>1, <1>2, <1>3, Zenon DEF Next

(* Reloads and hooks, in any order, keep the invariant that ties contexts, *)
(* requests and the counters of the backends together.                     *)
THEOREM InvHolds == Spec => []Inv
<1>1. Init => Inv
  BY InitInv, Zenon
<1>2. Inv /\ [Next]_vars => Inv'
  BY NextInv, Zenon
<1> QED BY <1>1, <1>2, PTL DEF Spec

(* The hooks of OphanGateway keep the types of the request context and of  *)
(* the counters: active_conns never goes below zero.                       *)
THEOREM TypeOKHolds == Spec => []TypeOK
<1>1. Inv => TypeOK
  BY DEF Inv, ContextInv, ContextType, RequestInv, RequestType, CountInv, TypeOK, Contexts
<1> QED BY <1>1, InvHolds, PTL

(* On every path through the hooks, active_conns of a backend is the       *)
(* number of requests that hold it.                                        *)
THEOREM ConnsAreHoldersHolds == Spec => []ConnsAreHolders
<1>1. Inv => ConnsAreHolders
  BY Zenon DEF Inv, CountInv
<1> QED BY <1>1, InvHolds, PTL

(* record_failure is called at most once for each attempt, by              *)
(* upstream_peer or by logging.                                            *)
THEOREM ChargedOnceHolds == Spec => []ChargedOnce
<1>1. Inv => ChargedOnce
  BY Zenon DEF Inv, CountInv
<1> QED BY <1>1, InvHolds, PTL

(* A request uses the upstream its route named in the context it arrived   *)
(* with, whatever is reloaded before upstream_peer runs.                   *)
THEOREM OneSnapshotHolds == Spec => []OneSnapshot
<1>1. Inv => OneSnapshot
  <2> SUFFICES ASSUME Inv, NEW r \in Requests, selected[r] # None
               PROVE  /\ target[r] \in DOMAIN config[app[r]].upstreams
                      /\ selected[r].name = config[app[r]].upstreams[target[r]].name
                      /\ Listed(config[app[r]].upstreams[target[r]], selected[r].addr)
    BY Zenon DEF OneSnapshot
  <2>1. /\ app[r] \in 1 .. built
        /\ target[r] \in DOMAIN servers[app[r]]
        /\ selected[r] \in Pool(app[r], target[r])
    BY SelectedFacts, Zenon
  <2>2. Matches(config[app[r]], servers[app[r]])
    BY <2>1, Zenon DEF Inv, ContextInv, PoolsMatch
  <2> QED BY <2>1, <2>2, Zenon DEF Matches, Pool
<1> QED BY <1>1, InvHolds, PTL

(* build_load_balancer carries the backend it finds for a server over for  *)
(* as long as every configuration lists it, so the requests that hold it   *)
(* stay counted.                                                           *)
THEOREM InFlightStaysVisibleHolds == Spec => []InFlightStaysVisible
<1>1. Inv => InFlightStaysVisible
  <2> SUFFICES ASSUME Inv, NEW r \in Requests, selected[r] # None,
                      IsFound(servers[app[r]][target[r]], selected[r]),
                      \A v \in app[r] .. current :
                        Lists(config[v], selected[r].name, selected[r].addr)
               PROVE  \E u \in DOMAIN servers[current] : selected[r] \in Pool(current, u)
    BY Zenon DEF InFlightStaysVisible
  <2>1. app[r] \in 1 .. built /\ target[r] \in DOMAIN servers[app[r]]
    BY SelectedFacts, Zenon
  <2>2. selected[r] \in Backend
    BY Zenon DEF Inv, RequestInv, RequestType
  <2>3. PICK i \in DOMAIN servers[current] : IsFound(servers[current][i], selected[r])
    BY <2>1, <2>2, Zenon DEF Inv, ContextInv, PoolsPersist
  <2> QED BY <2>3, Zenon DEF IsFound, Pool
<1> QED BY <1>1, InvHolds, PTL
=============================================================================
