------------------------------ MODULE Gateway -------------------------------
(***************************************************************************)
(* The life of a request in ophan/src/gateway/proxy.rs (the ProxyHttp      *)
(* hooks of OphanGateway, called in this order by pingora's proxy), with   *)
(* hot reloads of the gateway (ophan/src/state.rs) in between.             *)
(*                                                                         *)
(* A context is what a reload builds: the routes and the load balancer of  *)
(* one configuration.  Contexts are numbered in the order they are built;  *)
(* `current` is the one in the gateway's ArcSwap.  A backend object is     *)
(* identified by its upstream's name, its address (with its protocol), the *)
(* context that created it and the entry of the server list it was created *)
(* for: a list may name a server twice, and a later context may carry the  *)
(* object over.                                                            *)
(*                                                                         *)
(* Which server select_backend returns is the subject of module Balancer;  *)
(* here it may be any server of the upstream, or none.                     *)
(***************************************************************************)
EXTENDS Integers, Sequences, FiniteSets

CONSTANTS
  Requests,
  Names,        \* names of upstreams
  Addrs,        \* addresses of servers
  Routes,       \* routes that proxy to an upstream
  Configs,      \* the gateway configurations a reload may find
  MaxServers,   \* bound: entries of a list of servers
  MaxContexts,  \* bound: contexts ever built
  MaxAttempts   \* MAX_UPSTREAM_RETRIES

(* A configuration lists its upstreams; a route names one by its id, the   *)
(* position in the list.  Nothing keeps a server from being listed twice.  *)
Configuration ==
  {c \in [upstreams : Seq([name : Names, servers : Seq(Addrs)]),
          target : [Routes -> Nat \ {0}]] :
     /\ \A p \in Routes : c.target[p] \in DOMAIN c.upstreams
     /\ \A u \in DOMAIN c.upstreams : Len(c.upstreams[u].servers) <= MaxServers
     /\ \A i, j \in DOMAIN c.upstreams :
          c.upstreams[i].name = c.upstreams[j].name => i = j}

ASSUME GatewayAssumption ==
  /\ IsFiniteSet(Requests)
  /\ \A c \in Configs : c \in Configuration
  /\ MaxServers \in Nat
  /\ MaxContexts \in Nat \ {0}
  /\ MaxAttempts \in Nat \ {0}

Contexts == 1 .. MaxContexts

Backend == [name : Names, addr : Addrs, born : Contexts, entry : 1 .. MaxServers]

VARIABLES
  config,    \* config[v]: the configuration context v was built from
  servers,   \* servers[v][u]: the backend objects of upstream u of context v, in order
  built,     \* number of contexts built
  current,   \* the context in the gateway's ArcSwap
  conns,     \* conns[b]: stats.active_conns
  total,     \* total[b]: stats.total_requests
  failures,  \* failures[b]: stats.failed_requests
  pc,        \* pc[r]: the next hook of r
  app,       \* app[r]: ctx.app, or 0
  target,    \* target[r]: the upstream id in ctx.matched_route, or 0
  selected,  \* selected[r]: ctx.selected_backend, or None
  attempt,   \* attempt[r]: calls of upstream_peer
  blamed     \* blamed[r]: the error given to logging comes from the upstream

vars == <<config, servers, built, current, conns, total, failures, pc, app, target,
          selected, attempt, blamed>>

None == [name |-> "", addr |-> "", born |-> 0, entry |-> 0]

Phases == {"early", "filter", "peer", "resolve", "connect", "proxy", "retry", "log", "done"}

TypeOK ==
  /\ built \in Contexts
  /\ current \in 1 .. built
  /\ config \in [1 .. built -> Configs]
  /\ servers \in [1 .. built -> Seq(Seq(Backend))]
  /\ conns \in [Backend -> Nat]
  /\ total \in [Backend -> Nat]
  /\ failures \in [Backend -> Nat]
  /\ pc \in [Requests -> Phases]
  /\ app \in [Requests -> 0 .. built]
  /\ target \in [Requests -> Nat]
  /\ selected \in [Requests -> Backend \cup {None}]
  /\ attempt \in [Requests -> 0 .. MaxAttempts]
  /\ blamed \in [Requests -> BOOLEAN]

-----------------------------------------------------------------------------
(* build_load_balancer: the backends of the upstream of the same name in   *)
(* the previous context, and the one that an entry of c's list gets: the   *)
(* first of them with its address, or a new object.                        *)
OldBackends(v, name) ==
  LET named == {u \in DOMAIN config[v].upstreams : config[v].upstreams[u].name = name}
  IN  IF named = {} THEN << >> ELSE servers[v][CHOOSE u \in named : TRUE]

AtAddr(pool, addr) == {k \in DOMAIN pool : pool[k].addr = addr}

First(S) == CHOOSE k \in S : \A j \in S : k <= j

NewBackend(v, name, addr, k) == [name |-> name, addr |-> addr, born |-> v, entry |-> k]

(* Slip: a reload starts every backend from scratch. *)
CarriedOverNever(v, name, addr, k) == NewBackend(v + 1, name, addr, k)

CarriedOver(v, name, addr, k) ==
  LET olds == OldBackends(v, name)
  IN  IF AtAddr(olds, addr) # {} THEN olds[First(AtAddr(olds, addr))]
                                 ELSE NewBackend(v + 1, name, addr, k)

Fresh(c) ==
  [u \in DOMAIN c.upstreams |->
     [k \in DOMAIN c.upstreams[u].servers |->
        NewBackend(1, c.upstreams[u].name, c.upstreams[u].servers[k], k)]]

Rebuilt(c, v) ==
  [u \in DOMAIN c.upstreams |->
     [k \in DOMAIN c.upstreams[u].servers |->
        CarriedOver(v, c.upstreams[u].name, c.upstreams[u].servers[k], k)]]

Init ==
  /\ \E c \in Configs : config = <<c>> /\ servers = <<Fresh(c)>>
  /\ built = 1
  /\ current = 1
  /\ conns = [b \in Backend |-> 0]
  /\ total = [b \in Backend |-> 0]
  /\ failures = [b \in Backend |-> 0]
  /\ pc = [r \in Requests |-> "early"]
  /\ app = [r \in Requests |-> 0]
  /\ target = [r \in Requests |-> 0]
  /\ selected = [r \in Requests |-> None]
  /\ attempt = [r \in Requests |-> 0]
  /\ blamed = [r \in Requests |-> FALSE]

(* AppState::reload_inner once every context is built: the new context is  *)
(* stored.  Only reloads replace it, so it is built from the one replaced. *)
Reload(c) ==
  /\ built < MaxContexts
  /\ config' = Append(config, c)
  /\ servers' = Append(servers, Rebuilt(c, current))
  /\ built' = built + 1
  /\ current' = built + 1
  /\ UNCHANGED <<conns, total, failures, pc, app, target, selected, attempt, blamed>>

-----------------------------------------------------------------------------
Hook(r, from, to) ==
  /\ pc[r] = from
  /\ pc' = [pc EXCEPT ![r] = to]
  /\ UNCHANGED <<config, servers, built, current>>

(* early_request_filter: the snapshot every later hook uses. *)
EarlyRequestFilter(r) ==
  /\ Hook(r, "early", "filter")
  /\ app' = [app EXCEPT ![r] = current]
  /\ UNCHANGED <<conns, total, failures, target, selected, attempt, blamed>>

(* The listener refuses the connection, the client address, the size or    *)
(* the path; ctx.app is not set.                                           *)
EarlyRefuse(r) ==
  /\ Hook(r, "early", "log")
  /\ UNCHANGED <<conns, total, failures, app, target, selected, attempt, blamed>>

(* request_filter ends the request: no route, rejected or answered by a    *)
(* policy, or a static route.                                              *)
AnswerInFilter(r) ==
  /\ Hook(r, "filter", "log")
  /\ UNCHANGED <<conns, total, failures, app, target, selected, attempt, blamed>>

(* request_filter lets the request through to the upstream of its route. *)
RequestFilter(r, p) ==
  /\ Hook(r, "filter", "peer")
  /\ target' = [target EXCEPT ![r] = config[app[r]].target[p]]
  /\ UNCHANGED <<conns, total, failures, app, selected, attempt, blamed>>

(* Slip: the failed backend is released but stays in ctx. *)
ReleasePreviousKept(r) ==
  /\ Hook(r, "retry", "peer")
  /\ conns' = [conns EXCEPT ![selected[r]] = @ - 1]
  /\ failures' = [failures EXCEPT ![selected[r]] = @ + 1]
  /\ UNCHANGED <<total, app, target, selected, attempt, blamed>>

(* upstream_peer on a retry: the previous backend is released and charged. *)
ReleasePrevious(r) ==
  /\ Hook(r, "retry", "peer")
  /\ conns' = [conns EXCEPT ![selected[r]] = @ - 1]
  /\ failures' = [failures EXCEPT ![selected[r]] = @ + 1]
  /\ selected' = [selected EXCEPT ![r] = None]
  /\ UNCHANGED <<total, app, target, attempt, blamed>>

Pool(v, u) == {servers[v][u][k] : k \in DOMAIN servers[v][u]}

(* Slip: the balancer of the current context instead of the snapshot's. *)
SelectBackendCurrent(r) ==
  /\ Hook(r, "peer", "resolve")
  /\ target[r] \in DOMAIN servers[current]
  /\ \E b \in Pool(current, target[r]) :
       /\ conns' = [conns EXCEPT ![b] = @ + 1]
       /\ total' = [total EXCEPT ![b] = @ + 1]
       /\ selected' = [selected EXCEPT ![r] = b]
  /\ attempt' = [attempt EXCEPT ![r] = @ + 1]
  /\ UNCHANGED <<failures, app, target, blamed>>

(* upstream_peer: select_backend acquires b and counts the request. *)
SelectBackend(r) ==
  /\ Hook(r, "peer", "resolve")
  /\ \E b \in Pool(app[r], target[r]) :
       /\ conns' = [conns EXCEPT ![b] = @ + 1]
       /\ total' = [total EXCEPT ![b] = @ + 1]
       /\ selected' = [selected EXCEPT ![r] = b]
  /\ attempt' = [attempt EXCEPT ![r] = @ + 1]
  /\ UNCHANGED <<failures, app, target, blamed>>

(* AllServersUnhealthy (503) or UpstreamEmpty (500). *)
SelectNone(r) ==
  /\ Hook(r, "peer", "log")
  /\ UNCHANGED <<conns, total, failures, app, target, selected, attempt, blamed>>

(* Backend::peer: the address is known, or it cannot be resolved. *)
Resolve(r) ==
  /\ Hook(r, "resolve", "connect") \/ Hook(r, "resolve", "log")
  /\ UNCHANGED <<conns, total, failures, app, target, selected, attempt, blamed>>

Connect(r) ==
  /\ Hook(r, "connect", "proxy")
  /\ UNCHANGED <<conns, total, failures, app, target, selected, attempt, blamed>>

(* fail_to_connect of an idempotent request, or an error on a reused       *)
(* connection: the proxy calls upstream_peer again.                        *)
Retry(r) ==
  /\ Hook(r, "connect", "retry") \/ Hook(r, "proxy", "retry")
  /\ attempt[r] < MaxAttempts
  /\ UNCHANGED <<conns, total, failures, app, target, selected, attempt, blamed>>

(* An upstream error that is not retried. *)
UpstreamFails(r) ==
  /\ Hook(r, "connect", "log") \/ Hook(r, "proxy", "log")
  /\ blamed' = [blamed EXCEPT ![r] = TRUE]
  /\ UNCHANGED <<conns, total, failures, app, target, selected, attempt>>

(* The response is sent, the client is gone or a body filter refuses. *)
Respond(r) ==
  /\ Hook(r, "proxy", "log")
  /\ UNCHANGED <<conns, total, failures, app, target, selected, attempt, blamed>>

(* Slip: logging returns early when there is an error. *)
LoggingSkips(r) ==
  /\ Hook(r, "log", "done")
  /\ IF selected[r] = None \/ blamed[r]
     THEN UNCHANGED <<conns, selected>>
     ELSE /\ conns' = [conns EXCEPT ![selected[r]] = @ - 1]
          /\ selected' = [selected EXCEPT ![r] = None]
  /\ UNCHANGED <<total, failures, app, target, attempt, blamed>>

(* Slip: upstream_peer already charged the failure of the last attempt. *)
LoggingChargesTwice(r) ==
  /\ Hook(r, "log", "done")
  /\ IF selected[r] = None
     THEN UNCHANGED <<conns, failures>>
     ELSE /\ conns' = [conns EXCEPT ![selected[r]] = @ - 1]
          /\ failures' = [failures EXCEPT ![selected[r]] = @ + (IF blamed[r] THEN 2 ELSE 0)]
  /\ selected' = [selected EXCEPT ![r] = None]
  /\ app' = [app EXCEPT ![r] = 0]
  /\ target' = [target EXCEPT ![r] = 0]
  /\ UNCHANGED <<total, attempt, blamed>>

(* logging: the backend still selected is released, and charged when the   *)
(* error is the upstream's; the context of the request is dropped.         *)
Logging(r) ==
  /\ Hook(r, "log", "done")
  /\ IF selected[r] = None
     THEN UNCHANGED <<conns, failures>>
     ELSE /\ conns' = [conns EXCEPT ![selected[r]] = @ - 1]
          /\ failures' = IF blamed[r] THEN [failures EXCEPT ![selected[r]] = @ + 1]
                                      ELSE failures
  /\ selected' = [selected EXCEPT ![r] = None]
  /\ app' = [app EXCEPT ![r] = 0]
  /\ target' = [target EXCEPT ![r] = 0]
  /\ UNCHANGED <<total, attempt, blamed>>

Request(r) ==
  \/ EarlyRequestFilter(r) \/ EarlyRefuse(r)
  \/ AnswerInFilter(r) \/ \E p \in Routes : RequestFilter(r, p)
  \/ ReleasePrevious(r) \/ SelectBackend(r) \/ SelectNone(r)
  \/ Resolve(r) \/ Connect(r) \/ Retry(r) \/ UpstreamFails(r) \/ Respond(r)
  \/ Logging(r)

Next ==
  \/ \E c \in Configs : Reload(c)
  \/ \E r \in Requests : Request(r)

Spec == Init /\ [][Next]_vars

(* pingora drives every request to its end: connects, reads and writes     *)
(* time out.                                                               *)
FairSpec == Spec /\ \A r \in Requests : WF_vars(Request(r))

-----------------------------------------------------------------------------
Holders(b) == {r \in Requests : selected[r] = b}

(* Whatever fails, is retried or is reloaded meanwhile, the counter of     *)
(* active connections of a backend object is the number of requests that   *)
(* hold it: acquire and release are paired on every path of the hooks.     *)
ConnsAreHolders == \A b \in Backend : conns[b] = Cardinality(Holders(b))

(* An attempt is charged to its backend at most once, by upstream_peer or  *)
(* by logging, and only after it was released.                             *)
ChargedOnce == \A b \in Backend : failures[b] + conns[b] <= total[b]

Listed(up, addr) == \E k \in DOMAIN up.servers : up.servers[k] = addr

(* A reload never mixes routes and upstreams of two configurations in one  *)
(* request: its backend is of the upstream its route named when it came.   *)
OneSnapshot ==
  \A r \in Requests :
    selected[r] # None =>
      /\ target[r] \in DOMAIN config[app[r]].upstreams
      /\ selected[r].name = config[app[r]].upstreams[target[r]].name
      /\ Listed(config[app[r]].upstreams[target[r]], selected[r].addr)

Lists(c, name, addr) ==
  \E u \in DOMAIN c.upstreams : c.upstreams[u].name = name /\ Listed(c.upstreams[u], addr)

(* b is the object that find returns for its address. *)
IsFound(pool, b) ==
  \E k \in DOMAIN pool : pool[k] = b /\ \A j \in AtAddr(pool, b.addr) : k <= j

(* A server that every configuration since the request arrived still lists *)
(* keeps its backend object, so the balancer of the current context goes   *)
(* on counting the request.  When its list named the server twice, that is *)
(* true of the object of the first entry only: a reload finds that one for *)
(* both entries, and requests held by the other are no longer counted.     *)
InFlightStaysVisible ==
  \A r \in Requests :
    (/\ selected[r] # None
     /\ IsFound(servers[app[r]][target[r]], selected[r])
     /\ \A v \in app[r] .. current : Lists(config[v], selected[r].name, selected[r].addr))
      => \E u \in DOMAIN servers[current] : selected[r] \in Pool(current, u)

(* Every request that entered the proxy reaches logging, so no backend     *)
(* stays acquired.                                                         *)
RequestEnds == \A r \in Requests : []<>(pc[r] = "done" /\ selected[r] = None)
=============================================================================
