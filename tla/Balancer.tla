------------------------------ MODULE Balancer ------------------------------
(***************************************************************************)
(* ophan/src/balancer: LoadBalancer::select_backend and next_backend, run  *)
(* by the worker threads while the health checker flips the backends'      *)
(* flags.  Every atomic load of a flag or of a connection counter is a     *)
(* step of its own.  A worker is a single-threaded runtime (work_stealing  *)
(* is false) and select_backend never awaits: while one request of a       *)
(* worker selects, the worker's other requests stand still.                *)
(*                                                                         *)
(* A request is retried by the proxy after a failed connect: upstream_peer *)
(* (gateway/proxy.rs) releases the failed backend and selects again.       *)
(***************************************************************************)
EXTENDS Integers, Sequences

CONSTANTS
  Requests,     \* requests in flight at one time
  Worker,       \* Worker[r]: the worker thread that runs r
  Upstreams,
  Servers,      \* Servers[u]: the sequence of backends of upstream u
  Strategies,   \* the balance strategies of the upstreams to consider
  HashIp,       \* HashIp[r]: flatkit::net::hash_ip of r's client
  MayFail,      \* backends whose health changes
  TicketSpan,   \* number of values of a ticket, an even number: 2^64 in the program
  MaxAttempts   \* MAX_UPSTREAM_RETRIES

Workers == {Worker[r] : r \in Requests}

ServersOf(u) == {Servers[u][i] : i \in DOMAIN Servers[u]}

Backends == UNION {ServersOf(u) : u \in Upstreams}

NoUpstream == "none"

(* hash_ip returns 32 bits, so hash.wrapping_add never wraps. *)
ASSUME BalancerAssumption ==
  /\ NoUpstream \notin Upstreams
  /\ \A u \in Upstreams : Servers[u] \in Seq(Backends) /\ Servers[u] # <<>>
  /\ Strategies \subseteq [Upstreams -> {"RoundRobin", "LeastConnections", "IpHash"}]
  /\ HashIp \in [Requests -> Nat]
  /\ MayFail \subseteq Backends
  /\ TicketSpan \in Nat \ {0} /\ TicketSpan % 2 = 0
  /\ MaxAttempts \in Nat \ {0}

VARIABLES
  strategy,  \* strategy[u]: balance_strategy, fixed
  healthy,   \* healthy[b]: Backend.healthy
  conns,     \* conns[b]: stats.active_conns
  ticket,    \* ticket[w]: TICKET, thread local, shared by every upstream
  pc,        \* pc[r]: "idle", "select", a step of the selection, "held", "retry"
             \*   (the connect failed) or "none" (AllServersUnhealthy)
  up,        \* up[r]: the upstream of r's route
  todo,      \* todo[r]: indexes still to look at, in order
  loaded,    \* loaded[r]: what r last loaded of b1, its flag or its counter
  picked,    \* picked[r]: selected_backend, or NoBackend
  attempt,   \* attempt[r]: calls of upstream_peer so far
  steady,    \* steady[r]: history, backends healthy during all of r's selection
  ever,      \* ever[r]: history, backends healthy at some point of it
  turn       \* turn[w]: history, the upstream w last drew a ticket for and the index
             \*   round robin picked, or 0 if a server of it was not healthy since

vars == <<strategy, healthy, conns, ticket, pc, up, todo, loaded, picked, attempt,
          steady, ever, turn>>

NoBackend == "none"

Selection == {"scan", "first", "second", "load", "compare", "acquire"}

Server(r, i) == Servers[up[r]][i]

Healthy(r) == {b \in ServersOf(up[r]) : healthy[b]}

(* The worker of r is not in the middle of another request's selection. *)
Runs(r) == \A q \in Requests \ {r} : Worker[q] = Worker[r] => pc[q] \notin Selection

TypeOK ==
  /\ strategy \in Strategies
  /\ healthy \in [Backends -> BOOLEAN]
  /\ conns \in [Backends -> Nat]
  /\ ticket \in [Workers -> 0 .. TicketSpan - 1]
  /\ pc \in [Requests -> Selection \cup {"idle", "select", "held", "retry", "none"}]
  /\ up \in [Requests -> Upstreams \cup {NoUpstream}]
  /\ \A r \in Requests : todo[r] # <<>> => todo[r] \in Seq(DOMAIN Servers[up[r]])
  /\ loaded \in [Requests -> Nat]
  /\ picked \in [Requests -> Backends \cup {NoBackend}]
  /\ attempt \in [Requests -> 0 .. MaxAttempts]
  /\ steady \in [Requests -> SUBSET Backends]
  /\ ever \in [Requests -> SUBSET Backends]
  /\ turn \in [Workers -> [up : Upstreams \cup {NoUpstream}, index : Nat]]

(* Each thread starts at its own offset (NEXT_THREAD_OFFSET). *)
Init ==
  /\ strategy \in Strategies
  /\ healthy = [b \in Backends |-> TRUE]
  /\ conns = [b \in Backends |-> 0]
  /\ ticket \in [Workers -> 0 .. TicketSpan - 1]
  /\ \A v, w \in Workers : v # w => ticket[v] # ticket[w]
  /\ pc = [r \in Requests |-> "idle"]
  /\ up = [r \in Requests |-> NoUpstream]
  /\ todo = [r \in Requests |-> <<>>]
  /\ loaded = [r \in Requests |-> 0]
  /\ picked = [r \in Requests |-> NoBackend]
  /\ attempt = [r \in Requests |-> 0]
  /\ steady = [r \in Requests |-> {}]
  /\ ever = [r \in Requests |-> {}]
  /\ turn = [w \in Workers |-> [up |-> NoUpstream, index |-> 0]]

(* request_filter matched a route of upstream u. *)
Arrive(r, u) ==
  /\ pc[r] = "idle"
  /\ Runs(r)
  /\ pc' = [pc EXCEPT ![r] = "select"]
  /\ up' = [up EXCEPT ![r] = u]
  /\ UNCHANGED <<strategy, healthy, conns, ticket, todo, loaded, picked, attempt,
                 steady, ever, turn>>

(* upstream_peer may be called for r. *)
Calls(r) == pc[r] \in {"select", "retry"} /\ Runs(r)

(* upstream_peer: the backend of a failed attempt is released, then        *)
(* select_backend starts with the given indexes to look at.                *)
Start(r, step, indexes) ==
  /\ pc' = [pc EXCEPT ![r] = step]
  /\ todo' = [todo EXCEPT ![r] = indexes]
  /\ attempt' = [attempt EXCEPT ![r] = @ + 1]
  /\ conns' = IF pc[r] = "retry" THEN [conns EXCEPT ![picked[r]] = @ - 1] ELSE conns
  /\ picked' = [picked EXCEPT ![r] = NoBackend]
  /\ steady' = [steady EXCEPT ![r] = Healthy(r)]
  /\ ever' = [ever EXCEPT ![r] = Healthy(r)]
  /\ UNCHANGED <<strategy, healthy, up, loaded, turn>>

(* Slip: the scan after the first candidate stops one server early. *)
RotationShort(u, start) ==
  [k \in 1 .. Len(Servers[u]) - 1 |-> ((start + k - 1) % Len(Servers[u])) + 1]

Rotation(u, start) ==
  [k \in DOMAIN Servers[u] |-> ((start + k - 1) % Len(Servers[u])) + 1]

(* Slip: the ticket is drawn twice. *)
NextTicketTwice(r) == ticket' = [ticket EXCEPT ![Worker[r]] = (@ + 2) % TicketSpan]

NextTicket(r) == ticket' = [ticket EXCEPT ![Worker[r]] = (@ + 1) % TicketSpan]

(* One server: no ticket and no hash. *)
StartSingle(r) ==
  /\ Calls(r) /\ Len(Servers[up[r]]) = 1
  /\ Start(r, "scan", <<1>>)
  /\ UNCHANGED ticket

StartIpHash(r) ==
  /\ Calls(r) /\ Len(Servers[up[r]]) > 1
  /\ strategy[up[r]] = "IpHash"
  /\ Start(r, "scan", Rotation(up[r], HashIp[r]))
  /\ UNCHANGED ticket

StartRoundRobin(r) ==
  /\ Calls(r) /\ Len(Servers[up[r]]) > 1
  /\ strategy[up[r]] = "RoundRobin"
  /\ Start(r, "scan", Rotation(up[r], ticket[Worker[r]]))
  /\ NextTicket(r)

StartLeastConnections(r) ==
  LET len == Len(Servers[up[r]])
      t == ticket[Worker[r]]
  IN /\ Calls(r) /\ len > 1
     /\ strategy[up[r]] = "LeastConnections"
     /\ Start(r, "first", <<(t % len) + 1, (((t + (len \div 2)) % TicketSpan) % len) + 1>>)
     /\ NextTicket(r)

(* A step of r's selection that touches nothing shared. *)
Step(r, step) ==
  /\ pc' = [pc EXCEPT ![r] = step]
  /\ UNCHANGED <<strategy, healthy, conns, ticket, up, attempt, steady, ever, turn>>

Pick(r, b) == picked' = [picked EXCEPT ![r] = b] /\ Step(r, "acquire")

(* is_healthy() of the next candidate. *)
ScanHit(r) ==
  /\ pc[r] = "scan"
  /\ todo[r] # <<>>
  /\ healthy[Server(r, Head(todo[r]))]
  /\ Pick(r, Server(r, Head(todo[r])))
  /\ UNCHANGED <<todo, loaded>>

ScanMiss(r) ==
  /\ pc[r] = "scan"
  /\ todo[r] # <<>>
  /\ ~healthy[Server(r, Head(todo[r]))]
  /\ todo' = [todo EXCEPT ![r] = Tail(@)]
  /\ Step(r, "scan")
  /\ UNCHANGED <<loaded, picked>>

(* The upstream of r is the last one its worker drew a ticket for. *)
Drew(r, index) ==
  turn' = IF strategy[up[r]] = "IpHash" \/ Len(Servers[up[r]]) = 1 THEN turn
          ELSE [turn EXCEPT ![Worker[r]] = [up |-> up[r], index |-> index]]

(* None: AllServersUnhealthy, answered with 503. *)
ScanEnd(r) ==
  /\ pc[r] = "scan"
  /\ todo[r] = <<>>
  /\ pc' = [pc EXCEPT ![r] = "none"]
  /\ Drew(r, 0)
  /\ UNCHANGED <<strategy, healthy, conns, ticket, up, todo, loaded, picked, attempt,
                 steady, ever>>

(* LeastConnections: h1, then h2, then the counters of b1 and b2. *)
LoadFirst(r) ==
  /\ pc[r] = "first"
  /\ loaded' = [loaded EXCEPT ![r] = IF healthy[Server(r, todo[r][1])] THEN 1 ELSE 0]
  /\ Step(r, "second")
  /\ UNCHANGED <<todo, picked>>

LoadSecond(r) ==
  LET h1 == loaded[r] = 1
      h2 == healthy[Server(r, todo[r][2])]
  IN /\ pc[r] = "second"
     /\ \/ h1 /\ h2 /\ Step(r, "load") /\ UNCHANGED <<todo, picked>>
        \/ h1 /\ ~h2 /\ Pick(r, Server(r, todo[r][1])) /\ UNCHANGED todo
        \/ ~h1 /\ h2 /\ Pick(r, Server(r, todo[r][2])) /\ UNCHANGED todo
        \/ /\ ~h1 /\ ~h2
           /\ todo' = [todo EXCEPT ![r] = Rotation(up[r], 0)]
           /\ Step(r, "scan")
           /\ UNCHANGED picked
     /\ UNCHANGED loaded

LoadConns(r) ==
  /\ pc[r] = "load"
  /\ loaded' = [loaded EXCEPT ![r] = conns[Server(r, todo[r][1])]]
  /\ Step(r, "compare")
  /\ UNCHANGED <<todo, picked>>

(* Slip: the comparison is the wrong way round. *)
CompareFlipped(r) ==
  /\ pc[r] = "compare"
  /\ Pick(r, IF loaded[r] >= conns[Server(r, todo[r][2])]
             THEN Server(r, todo[r][1]) ELSE Server(r, todo[r][2]))
  /\ UNCHANGED <<todo, loaded>>

Compare(r) ==
  /\ pc[r] = "compare"
  /\ Pick(r, IF loaded[r] <= conns[Server(r, todo[r][2])]
             THEN Server(r, todo[r][1]) ELSE Server(r, todo[r][2]))
  /\ UNCHANGED <<todo, loaded>>

(* Every server of the upstream was healthy during r's whole selection. *)
AllSteady(r) == steady[r] = ServersOf(up[r])

(* The locals of a selection die with it. *)
Forget(r) ==
  /\ todo' = [todo EXCEPT ![r] = <<>>]
  /\ loaded' = [loaded EXCEPT ![r] = 0]
  /\ steady' = [steady EXCEPT ![r] = {}]
  /\ ever' = [ever EXCEPT ![r] = {}]

(* acquire() and record_request(). *)
Acquire(r) ==
  /\ pc[r] = "acquire"
  /\ conns' = [conns EXCEPT ![picked[r]] = @ + 1]
  /\ Drew(r, IF AllSteady(r) THEN Head(todo[r]) ELSE 0)
  /\ pc' = [pc EXCEPT ![r] = "held"]
  /\ Forget(r)
  /\ UNCHANGED <<strategy, healthy, ticket, up, picked, attempt>>

(* The connect failed and the proxy calls upstream_peer again. *)
Retry(r) ==
  /\ pc[r] = "held"
  /\ Runs(r)
  /\ attempt[r] < MaxAttempts
  /\ pc' = [pc EXCEPT ![r] = "retry"]
  /\ UNCHANGED <<strategy, healthy, conns, ticket, up, todo, loaded, picked, attempt,
                 steady, ever, turn>>

(* The request is over; logging() releases the backend it still holds. *)
Finish(r) ==
  /\ pc[r] \in {"held", "none"}
  /\ Runs(r)
  /\ conns' = IF pc[r] = "held" THEN [conns EXCEPT ![picked[r]] = @ - 1] ELSE conns
  /\ pc' = [pc EXCEPT ![r] = "idle"]
  /\ up' = [up EXCEPT ![r] = NoUpstream]
  /\ picked' = [picked EXCEPT ![r] = NoBackend]
  /\ attempt' = [attempt EXCEPT ![r] = 0]
  /\ Forget(r)
  /\ UNCHANGED <<strategy, healthy, ticket, turn>>

(* The health checker's store to Backend.healthy (module Health). *)
SetHealthy(b, ok) ==
  /\ healthy[b] # ok
  /\ healthy' = [healthy EXCEPT ![b] = ok]
  /\ steady' = [r \in Requests |-> IF ok THEN steady[r] ELSE steady[r] \ {b}]
  /\ ever' = [r \in Requests |-> IF ok /\ pc[r] \in Selection /\ b \in ServersOf(up[r])
                                 THEN ever[r] \cup {b} ELSE ever[r]]
  /\ turn' = [w \in Workers |-> IF ~ok /\ turn[w].up # NoUpstream /\ b \in ServersOf(turn[w].up)
                                THEN [turn[w] EXCEPT !.index = 0] ELSE turn[w]]
  /\ UNCHANGED <<strategy, conns, ticket, pc, up, todo, loaded, picked, attempt>>

Next ==
  \/ \E r \in Requests :
       \/ \E u \in Upstreams : Arrive(r, u)
       \/ StartSingle(r) \/ StartIpHash(r) \/ StartRoundRobin(r) \/ StartLeastConnections(r)
       \/ ScanHit(r) \/ ScanMiss(r) \/ ScanEnd(r)
       \/ LoadFirst(r) \/ LoadSecond(r) \/ LoadConns(r) \/ Compare(r)
       \/ Acquire(r) \/ Retry(r) \/ Finish(r)
  \/ \E b \in MayFail, ok \in BOOLEAN : SetHealthy(b, ok)

Spec == Init /\ [][Next]_vars

-----------------------------------------------------------------------------
(* Whatever the health checker does during a selection, by any strategy    *)
(* and on any retry: AllServersUnhealthy is answered only when no server   *)
(* was healthy during all of it, and a server that was unhealthy during    *)
(* all of it is not acquired.                                              *)
PicksByHealth ==
  \A r \in Requests :
    /\ pc[r] = "none" => steady[r] = {}
    /\ pc[r] = "acquire" => picked[r] \in ever[r]

(* Of two servers that stay healthy, least_connections acquires the one    *)
(* with fewer connections.  (Requests of one worker: a selection of another *)
(* worker may land between the load of a counter and the acquire.  Of more *)
(* servers only two are compared, which docs/.../load-balancing.md:72      *)
(* does not say.)                                                          *)
FewestConnections ==
  \A r \in Requests :
    (/\ pc[r] = "acquire" /\ strategy[up[r]] = "LeastConnections"
     /\ AllSteady(r) /\ Len(Servers[up[r]]) <= 2)
      => \A b \in ServersOf(up[r]) : conns[picked[r]] <= conns[b]

(* While the servers of a round robin upstream stay healthy, consecutive   *)
(* picks of a worker visit them in turn, retries included.  Consecutive:   *)
(* the ticket is shared by every upstream the thread serves, so a pick     *)
(* from another upstream in between skips a server.  When the ticket wraps *)
(* (the pick with ticket 0 leaves 1) the order is kept only if the number  *)
(* of servers divides TicketSpan.                                          *)
RoundRobinInTurn ==
  [][\A r \in Requests :
       LET last == turn[Worker[r]]
           len == Len(Servers[up[r]])
       IN (/\ pc[r] = "acquire" /\ pc'[r] = "held"
           /\ strategy[up[r]] = "RoundRobin" /\ AllSteady(r)
           /\ last.up = up[r] /\ last.index # 0
           /\ ticket[Worker[r]] # 1 \/ TicketSpan % len = 0)
            => picked[r] = Servers[up[r]][(last.index % len) + 1]]_vars
=============================================================================
