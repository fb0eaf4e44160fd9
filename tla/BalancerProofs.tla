--------------------------- MODULE BalancerProofs ---------------------------
(***************************************************************************)
(* Balancer for any number of requests, workers, upstreams and servers,    *)
(* any strategy per upstream, any servers whose health changes and any     *)
(* even number of tickets.                                                 *)
(***************************************************************************)
EXTENDS Balancer, TLAPS

Stages == Selection \cup {"idle", "select", "held", "retry", "none"}

(* The types the proofs need (of conns only that they are numbers). *)
Types ==
  /\ strategy \in [Upstreams -> {"RoundRobin", "LeastConnections", "IpHash"}]
  /\ healthy \in [Backends -> BOOLEAN]
  /\ conns \in [Backends -> Int]
  /\ ticket \in [Workers -> 0 .. TicketSpan - 1]
  /\ pc \in [Requests -> Stages]
  /\ up \in [Requests -> Upstreams \cup {NoUpstream}]
  /\ todo \in [Requests -> Seq(Nat)]
  /\ loaded \in [Requests -> Int]
  /\ picked \in [Requests -> Backends \cup {NoBackend}]
  /\ steady \in [Requests -> SUBSET Backends]
  /\ ever \in [Requests -> SUBSET Backends]
  /\ turn \in [Workers -> [up : Upstreams \cup {NoUpstream}, index : Nat]]

(* The upstream of a request and the backend it holds. *)
Holds(r) ==
  /\ pc[r] # "idle" => up[r] \in Upstreams
  /\ pc[r] \in {"acquire", "held", "retry"} => picked[r] \in Backends
  /\ pc[r] = "none" => steady[r] = {}

(* A worker is in one selection at a time. *)
OneSelection ==
  \A q, r \in Requests :
    pc[q] \in Selection /\ pc[r] \in Selection /\ Worker[q] = Worker[r] => q = r

(* What the histories say of the flags during a selection. *)
Watched(r) ==
  pc[r] \in Selection =>
    /\ steady[r] \subseteq ServersOf(up[r])
    /\ \A b \in steady[r] : healthy[b] = TRUE
    /\ \A b \in ServersOf(up[r]) : healthy[b] = TRUE => b \in ever[r]

Pair == {"first", "second", "load", "compare"}

(* What is still to look at, and what was seen of it. *)
Candidates(r) ==
  /\ pc[r] \in Selection => todo[r] \in Seq(DOMAIN Servers[up[r]])
  /\ pc[r] = "scan" => \A b \in steady[r] : \E i \in DOMAIN todo[r] : b = Server(r, todo[r][i])
  /\ pc[r] \in Pair => Len(todo[r]) = 2
  /\ pc[r] = "second" /\ loaded[r] = 1 => Server(r, todo[r][1]) \in ever[r]
  /\ pc[r] \in {"load", "compare"} =>
       Server(r, todo[r][1]) \in ever[r] /\ Server(r, todo[r][2]) \in ever[r]
  /\ pc[r] = "acquire" => picked[r] \in ever[r] /\ todo[r] # <<>>

HealthInv ==
  /\ Types
  /\ OneSelection
  /\ \A r \in Requests : Holds(r) /\ Watched(r) /\ Candidates(r)

(* The ticket before x. *)
Before(x) == IF x = 0 THEN TicketSpan - 1 ELSE x - 1

(* The index a ticket stands for. *)
IndexOf(u, t) == (t % Len(Servers[u])) + 1

(* r is in a selection that drew a ticket. *)
Drawing(r) == pc[r] \in Selection /\ strategy[up[r]] # "IpHash" /\ Len(Servers[up[r]]) # 1

Drawn(w) == \E r \in Requests : Worker[r] = w /\ Drawing(r)

(* The ticket of the last finished selection of w that drew one. *)
LastTicket(w) == IF Drawn(w) THEN Before(Before(ticket[w])) ELSE Before(ticket[w])

(* turn records the index that ticket stands for. *)
Recorded(w) ==
  turn[w].up \in Upstreams =>
    /\ Len(Servers[turn[w].up]) # 1
    /\ turn[w].index # 0 /\ strategy[turn[w].up] = "RoundRobin"
         => turn[w].index = IndexOf(turn[w].up, LastTicket(w))

(* A round robin selection whose servers stay healthy is still at the      *)
(* index of the ticket it drew.                                            *)
AtTicket(r) ==
  /\ pc[r] \in Pair => strategy[up[r]] = "LeastConnections"
  /\ (/\ pc[r] \in {"scan", "acquire"} /\ strategy[up[r]] = "RoundRobin"
      /\ Len(Servers[up[r]]) # 1 /\ AllSteady(r))
       => /\ todo[r] # <<>>
          /\ Head(todo[r]) = IndexOf(up[r], Before(ticket[Worker[r]]))
          /\ pc[r] = "acquire" => picked[r] = Server(r, Head(todo[r]))

TurnInv ==
  /\ HealthInv
  /\ \A r \in Requests : AtTicket(r)
  /\ \A w \in Workers : Recorded(w)

(* Every request runs on one worker. *)
OneWorker == \A q, r \in Requests : Worker[q] = Worker[r]

(* Least connections: the candidates of an upstream of two are its two     *)
(* servers, and what was loaded of the first is still so.                  *)
Compares(r) ==
  /\ pc[r] \in Pair =>
       /\ Len(Servers[up[r]]) # 1
       /\ Len(Servers[up[r]]) = 2 => todo[r][1] # todo[r][2]
  /\ pc[r] = "second" /\ loaded[r] # 1 => Server(r, todo[r][1]) \notin steady[r]
  /\ pc[r] = "compare" => loaded[r] = conns[Server(r, todo[r][1])]
  /\ (pc[r] = "scan" /\ strategy[up[r]] = "LeastConnections" /\ Len(Servers[up[r]]) # 1)
       => ~AllSteady(r)

(* The conclusion of FewestConnections for one request. *)
Fewest(r) ==
  (/\ pc[r] = "acquire" /\ strategy[up[r]] = "LeastConnections"
   /\ AllSteady(r) /\ Len(Servers[up[r]]) <= 2)
    => \A b \in ServersOf(up[r]) : conns[picked[r]] <= conns[b]

LeastInv ==
  /\ HealthInv
  /\ \A r \in Requests : Compares(r) /\ Fewest(r)

-----------------------------------------------------------------------------
(* Arithmetic *)

LEMMA ModRange ==
  ASSUME NEW a \in Nat, NEW n \in Nat \ {0}
  PROVE  a % n \in 0 .. n - 1
OBVIOUS

(* The remainder is the only number below n that a multiple of n away. *)
LEMMA ModUnique ==
  ASSUME NEW n \in Nat \ {0}, NEW q \in Nat, NEW x \in 0 .. n - 1
  PROVE  (q * n + x) % n = x
<1> DEFINE a == q * n + x
           d == a \div n
           m == a % n
<1>1. q * n \in Nat /\ a \in Nat
  OBVIOUS
<1>2. d \in Nat /\ m \in 0 .. n - 1 /\ a = d * n + m
  BY <1>1
<1>3. a = q * n + x
  BY Zenon
<1> HIDE DEF a, d, m
<1>4. d = q
  <2>1. CASE d < q
    <3>1. PICK e \in Nat : q = d + 1 + e
      <4>1. q - d - 1 \in Nat /\ q = d + 1 + (q - d - 1)
        BY <2>1, <1>2
      <4> QED BY <4>1, Zenon
    <3>2. q * n = d * n + n + e * n /\ e * n \in Nat /\ d * n \in Nat
      BY <3>1, <1>2
    <3> QED BY <3>2, <1>2, <1>3
  <2>2. CASE q < d
    <3>1. PICK e \in Nat : d = q + 1 + e
      <4>1. d - q - 1 \in Nat /\ d = q + 1 + (d - q - 1)
        BY <2>2, <1>2
      <4> QED BY <4>1, Zenon
    <3>2. d * n = q * n + n + e * n /\ e * n \in Nat /\ q * n \in Nat
      BY <3>1, <1>2
    <3> QED BY <3>2, <1>2, <1>3
  <2> QED BY <2>1, <2>2, <1>2
<1>5. m = x
  BY <1>2, <1>3, <1>4
<1> QED BY <1>5, Zenon DEF m, a

LEMMA ModSplit ==
  ASSUME NEW a \in Nat, NEW n \in Nat \ {0}
  PROVE  \E q \in Nat : a = q * n + (a % n)
<1>1. a \div n \in Nat /\ a = (a \div n) * n + (a % n)
  OBVIOUS
<1> QED BY <1>1, Zenon

(* Counting on goes round. *)
LEMMA ModAdd ==
  ASSUME NEW a \in Nat, NEW k \in Nat, NEW n \in Nat \ {0}
  PROVE  (a + k) % n = ((a % n) + k) % n
<1>1. PICK q \in Nat : a = q * n + (a % n)
  BY ModSplit, Zenon
<1>2. a % n \in Nat /\ (a % n) + k \in Nat
  BY ModRange
<1>3. PICK p \in Nat : (a % n) + k = p * n + (((a % n) + k) % n)
  BY <1>2, ModSplit, Zenon
<1> DEFINE x == ((a % n) + k) % n
<1>4. x \in 0 .. n - 1
  BY <1>2, ModRange, Zenon
<1>5. a + k = q * n + p * n + x
  <2>1. q * n \in Nat /\ p * n \in Nat
    OBVIOUS
  <2> QED BY <1>1, <1>2, <1>3, <1>4, <2>1
<1>6. q * n + p * n = (q + p) * n /\ q + p \in Nat
  OBVIOUS
<1> HIDE DEF x
<1>7. a + k = (q + p) * n + x
  BY <1>5, <1>6, <1>4, Zenon
<1>8. ((q + p) * n + x) % n = x
  BY <1>4, <1>6, ModUnique, Zenon
<1> QED BY <1>7, <1>8, Zenon DEF x

LEMMA ModSmall ==
  ASSUME NEW n \in Nat \ {0}, NEW a \in 0 .. n - 1
  PROVE  a % n = a
<1>1. (0 * n + a) % n = a
  BY ModUnique, Zenon
<1> QED BY <1>1

-----------------------------------------------------------------------------
(* Tickets and rotations *)

LEMMA LenServers ==
  ASSUME NEW u \in Upstreams
  PROVE  /\ Len(Servers[u]) \in Nat \ {0}
         /\ DOMAIN Servers[u] = 1 .. Len(Servers[u])
         /\ ServersOf(u) \subseteq Backends
         /\ \A i \in DOMAIN Servers[u] : Servers[u][i] \in ServersOf(u)
  BY BalancerAssumption DEF ServersOf

LEMMA OneServer ==
  ASSUME NEW u \in Upstreams, Len(Servers[u]) = 1
  PROVE  DOMAIN Servers[u] = {1}
  BY LenServers

LEMMA HeadOf ==
  ASSUME NEW S, NEW s \in Seq(S), s # <<>>
  PROVE  Head(s) \in S
  OBVIOUS

LEMMA PairOf ==
  ASSUME NEW S, NEW s \in Seq(S), Len(s) = 2
  PROVE  s[1] \in S /\ s[2] \in S
<1>1. \A i \in 1 .. Len(s) : s[i] \in S
  OBVIOUS
<1>2. 1 \in 1 .. 2 /\ 2 \in 1 .. 2
  OBVIOUS
<1> QED BY <1>1, <1>2, Zenon

LEMMA SpanAboveOne == TicketSpan \in Nat \ {0, 1}
<1>1. 1 % 2 # 0
  OBVIOUS
<1>2. TicketSpan \in Nat \ {0} /\ TicketSpan % 2 = 0
  BY BalancerAssumption, Zenon
<1> QED BY <1>1, <1>2, Zenon

LEMMA WorkerTicket ==
  ASSUME Types, NEW r \in Requests
  PROVE  Worker[r] \in Workers /\ ticket[Worker[r]] \in 0 .. TicketSpan - 1
  BY Zenon DEF Types, Workers

LEMMA ServerOf ==
  ASSUME NEW r, up[r] \in Upstreams, NEW i \in DOMAIN Servers[up[r]]
  PROVE  Server(r, i) \in ServersOf(up[r]) /\ Server(r, i) \in Backends
  BY LenServers, Zenon DEF Server

LEMMA IndexSeq ==
  ASSUME NEW u \in Upstreams, NEW s \in Seq(DOMAIN Servers[u])
  PROVE  s \in Seq(Nat)
<1>1. DOMAIN Servers[u] \subseteq Nat
  BY LenServers
<1> QED BY <1>1

LEMMA PairElements == \A s, i, j : s = <<i, j>> => s[1] = i /\ s[2] = j
  OBVIOUS

(* fetch_add wraps, and the ticket drawn is the one before the new value. *)
LEMMA TicketBefore ==
  ASSUME NEW t \in 0 .. TicketSpan - 1
  PROVE  /\ (t + 1) % TicketSpan \in 0 .. TicketSpan - 1
         /\ Before((t + 1) % TicketSpan) = t
         /\ Before(t) \in 0 .. TicketSpan - 1
<1>1. TicketSpan \in Nat \ {0}
  BY BalancerAssumption, Zenon
<1>2. CASE t = TicketSpan - 1
  <2>1. (1 * TicketSpan + 0) % TicketSpan = 0
    BY <1>1, ModUnique
  <2>2. (t + 1) % TicketSpan = 0
    BY <1>1, <1>2, <2>1
  <2> QED BY <1>1, <1>2, <2>2 DEF Before
<1>3. CASE t # TicketSpan - 1
  <2>1. (t + 1) % TicketSpan = t + 1
    BY <1>1, <1>3, ModSmall
  <2> QED BY <1>1, <1>3, <2>1 DEF Before
<1> QED BY <1>2, <1>3, Zenon

(* The ticket after one that is not the last stands for the next index;    *)
(* the last one too when the number of servers divides TicketSpan.         *)
LEMMA NextIndex ==
  ASSUME NEW u \in Upstreams, NEW t \in 0 .. TicketSpan - 1,
         t # 0 \/ TicketSpan % Len(Servers[u]) = 0
  PROVE  IndexOf(u, t) = (IndexOf(u, Before(t)) % Len(Servers[u])) + 1
<1> DEFINE n == Len(Servers[u])
<1>1. n \in Nat \ {0} /\ TicketSpan \in Nat \ {0}
  BY LenServers, BalancerAssumption, Zenon
<1> HIDE DEF n
<1>2. CASE t # 0
  <2>1. ((t - 1) + 1) % n = (((t - 1) % n) + 1) % n
    <3>1. t - 1 \in Nat /\ 1 \in Nat
      BY <1>1, <1>2
    <3> QED BY <1>1, <3>1, ModAdd, Zenon
  <2>2. (t - 1) + 1 = t /\ Before(t) = t - 1
    BY <1>1, <1>2 DEF Before
  <2> QED BY <2>1, <2>2, Zenon DEF IndexOf, n
<1>3. CASE t = 0
  <2>1. ((TicketSpan - 1) + 1) % n = (((TicketSpan - 1) % n) + 1) % n
    <3>1. TicketSpan - 1 \in Nat /\ 1 \in Nat
      BY <1>1
    <3> QED BY <1>1, <3>1, ModAdd, Zenon
  <2>2. (TicketSpan - 1) + 1 = TicketSpan /\ Before(t) = TicketSpan - 1
    BY <1>1, <1>3 DEF Before
  <2>3. TicketSpan % n = 0
    BY <1>3, Zenon DEF n
  <2>4. 0 % n = 0
    BY <1>1, ModSmall
  <2> QED BY <1>3, <2>1, <2>2, <2>3, <2>4, Zenon DEF IndexOf, n
<1> QED BY <1>2, <1>3, Zenon

(* The two candidates of least connections are indexes of the upstream,    *)
(* and different ones if it has two servers.                               *)
LEMMA TwoCandidates ==
  ASSUME NEW u \in Upstreams, NEW t \in 0 .. TicketSpan - 1
  PROVE  LET n == Len(Servers[u])
             j == ((t + (n \div 2)) % TicketSpan) % n
         IN /\ (t % n) + 1 \in DOMAIN Servers[u]
            /\ j + 1 \in DOMAIN Servers[u]
            /\ n = 2 => (t % n) + 1 # j + 1
<1> DEFINE n == Len(Servers[u])
           c == (t + (n \div 2)) % TicketSpan
           j == c % n
<1>1. n \in Nat \ {0} /\ DOMAIN Servers[u] = 1 .. n /\ TicketSpan \in Nat \ {0}
  BY LenServers, BalancerAssumption, Zenon
<1> HIDE DEF n
<1>2. n \div 2 \in Nat /\ (n = 2 => n \div 2 = 1)
  BY <1>1
<1>3. t + (n \div 2) \in Nat
  BY <1>1, <1>2
<1>4. c \in 0 .. TicketSpan - 1
  BY <1>1, <1>3, ModRange, Zenon
<1> HIDE DEF c
<1>5. j \in 0 .. n - 1 /\ t % n \in 0 .. n - 1
  <2>1. c \in Nat /\ t \in Nat
    BY <1>1, <1>4
  <2> QED BY <1>1, <2>1, ModRange, Zenon
<1>6. ASSUME n = 2 PROVE t % n # j
  <2>1. c = (t + 1) % TicketSpan
    BY <1>2, <1>6, Zenon DEF c
  <2>2. TicketSpan % 2 = 0
    BY BalancerAssumption, Zenon
  <2>3. (t + 1) % 2 # t % 2
    BY <1>1
  <2>4. CASE t = TicketSpan - 1
    <3>1. (1 * TicketSpan + 0) % TicketSpan = 0
      BY <1>1, ModUnique
    <3>2. c = 0 /\ t + 1 = TicketSpan
      BY <1>1, <2>1, <2>4, <3>1
    <3> QED BY <1>6, <2>2, <2>3, <3>2
  <2>5. CASE t # TicketSpan - 1
    <3>1. c = t + 1
      BY <1>1, <2>1, <2>5, ModSmall
    <3> QED BY <1>6, <2>3, <3>1, Zenon
  <2> QED BY <2>4, <2>5, Zenon
<1>7. /\ (t % n) + 1 \in DOMAIN Servers[u]
      /\ j + 1 \in DOMAIN Servers[u]
      /\ n = 2 => (t % n) + 1 # j + 1
  BY <1>1, <1>5, <1>6
<1> QED BY <1>7, Zenon DEF n, c

(* A scan looks at every server of the upstream, first the one its start   *)
(* stands for.                                                             *)
LEMMA RotationCovers ==
  ASSUME NEW u \in Upstreams, NEW start \in Nat
  PROVE  LET s == Rotation(u, start)
         IN /\ s \in Seq(DOMAIN Servers[u])
            /\ s # <<>>
            /\ Head(s) = IndexOf(u, start)
            /\ \A i \in DOMAIN Servers[u] : \E k \in DOMAIN s : s[k] = i
<1> DEFINE n == Len(Servers[u])
           s == Rotation(u, start)
<1>1. n \in Nat \ {0} /\ DOMAIN Servers[u] = 1 .. n
  BY LenServers, Zenon
<1>2. s = [k \in 1 .. n |-> ((start + k - 1) % n) + 1]
  BY <1>1, Zenon DEF Rotation
<1>3. IndexOf(u, start) = (start % n) + 1
  BY Zenon DEF IndexOf
<1> HIDE DEF n, s
<1>4. \A k \in 1 .. n : ((start + k - 1) % n) + 1 \in 1 .. n
  <2> SUFFICES ASSUME NEW k \in 1 .. n PROVE ((start + k - 1) % n) + 1 \in 1 .. n
    BY Zenon
  <2>1. start + k - 1 \in Nat
    BY <1>1
  <2>2. (start + k - 1) % n \in 0 .. n - 1
    BY <1>1, <2>1, ModRange, Zenon
  <2> QED BY <1>1, <2>2
<1>5. s \in [1 .. n -> 1 .. n]
  BY <1>2, <1>4, Zenon
<1>6. s \in Seq(1 .. n) /\ Len(s) = n
  BY <1>1, <1>5
<1>7. s # <<>> /\ Head(s) = s[1]
  BY <1>1, <1>6
<1>8. s[1] = (start % n) + 1
  <2>1. start + 1 - 1 = start
    OBVIOUS
  <2> QED BY <1>1, <1>2, <2>1
<1>9. ASSUME NEW i \in 1 .. n PROVE \E k \in 1 .. n : s[k] = i
  <2> DEFINE m == start % n
             j == IF i - 1 >= m THEN i - 1 - m ELSE i - 1 - m + n
  <2>1. m \in 0 .. n - 1
    BY <1>1, ModRange, Zenon
  <2> HIDE DEF m
  <2>2. j \in 0 .. n - 1 /\ (m + j = i - 1 \/ m + j = 1 * n + (i - 1))
    BY <1>1, <2>1
  <2> HIDE DEF j
  <2>3. (m + j) % n = i - 1
    <3>1. (1 * n + (i - 1)) % n = i - 1 /\ (i - 1) % n = i - 1
      BY <1>1, ModUnique, ModSmall
    <3> QED BY <2>2, <3>1, Zenon
  <2>4. (start + j) % n = (m + j) % n
    <3>1. j \in Nat
      BY <1>1, <2>2
    <3> QED BY <1>1, <3>1, ModAdd, Zenon DEF m
  <2>5. j + 1 \in 1 .. n /\ start + (j + 1) - 1 = start + j
    BY <1>1, <2>2
  <2>6. s[j + 1] = ((start + (j + 1) - 1) % n) + 1
    BY <1>2, <2>5, Zenon
  <2>7. s[j + 1] = i
    BY <1>1, <2>3, <2>4, <2>5, <2>6
  <2> QED BY <2>5, <2>7, Zenon
<1>10. /\ s \in Seq(DOMAIN Servers[u])
       /\ s # <<>>
       /\ Head(s) = IndexOf(u, start)
       /\ \A i \in DOMAIN Servers[u] : \E k \in DOMAIN s : s[k] = i
  BY <1>1, <1>3, <1>5, <1>6, <1>7, <1>8, <1>9, Zenon
<1> QED BY <1>10, Zenon DEF s

-----------------------------------------------------------------------------
(* Health *)

LEMMA HealthInit == Init => HealthInv
<1> SUFFICES ASSUME Init PROVE HealthInv
  BY Zenon
<1>1. Types
  BY BalancerAssumption DEF Init, Types, Stages
<1>2. OneSelection
  BY Zenon DEF Init, OneSelection, Selection
<1>3. ASSUME NEW r \in Requests PROVE Holds(r) /\ Watched(r) /\ Candidates(r)
  BY Zenon DEF Init, Holds, Watched, Candidates, Selection, Pair
<1> QED BY <1>1, <1>2, <1>3, Zenon DEF HealthInv

(* A step that leaves a request and the flags alone keeps what is known of *)
(* the request.                                                            *)
LEMMA Kept ==
  ASSUME HealthInv, NEW q \in Requests, healthy' = healthy,
         pc'[q] = pc[q], up'[q] = up[q], todo'[q] = todo[q], loaded'[q] = loaded[q],
         picked'[q] = picked[q], steady'[q] = steady[q], ever'[q] = ever[q]
  PROVE  Holds(q)' /\ Watched(q)' /\ Candidates(q)'
<1>1. Holds(q) /\ Watched(q) /\ Candidates(q)
  BY Zenon DEF HealthInv
<1>2. Holds(q)'
  BY <1>1, Zenon DEF Holds
<1>3. Watched(q)'
  BY <1>1, Zenon DEF Watched
<1>4. Candidates(q)'
  BY <1>1 DEF Candidates, Server
<1> QED BY <1>2, <1>3, <1>4, Zenon

(* select_backend starts: the indexes of a scan cover the upstream. *)
LEMMA StartKeeps ==
  ASSUME HealthInv, NEW r \in Requests, NEW step \in {"scan", "first"},
         NEW indexes \in Seq(DOMAIN Servers[up[r]]),
         Calls(r), Start(r, step, indexes), ticket' \in [Workers -> 0 .. TicketSpan - 1],
         step = "scan" => \A i \in DOMAIN Servers[up[r]] : \E k \in DOMAIN indexes : indexes[k] = i,
         step = "first" => Len(indexes) = 2
  PROVE  HealthInv'
<1>1. up[r] \in Upstreams /\ pc[r] \in {"select", "retry"}
  BY Zenon DEF HealthInv, Holds, Calls
<1>2. DOMAIN Servers[up[r]] = 1 .. Len(Servers[up[r]]) /\ ServersOf(up[r]) \subseteq Backends
      /\ Len(Servers[up[r]]) \in Nat
  BY <1>1, LenServers, Zenon
<1>3. indexes \in Seq(Nat)
  BY <1>2
<1>4. conns' \in [Backends -> Int]
  BY <1>1 DEF HealthInv, Types, Start, Holds
<1>5. Healthy(r) \in SUBSET Backends
  BY <1>2, Zenon DEF Healthy
<1>6. Types'
  BY <1>3, <1>4, <1>5, Zenon DEF HealthInv, Types, Start, Stages, Selection
<1>7. OneSelection'
  BY DEF HealthInv, Types, OneSelection, Start, Calls, Runs, Selection
<1>8. ASSUME NEW q \in Requests PROVE Holds(q)' /\ Watched(q)' /\ Candidates(q)'
  <2>1. CASE q # r
    BY <2>1, Kept, Zenon DEF HealthInv, Types, Start
  <2>2. CASE q = r
    <3>1. /\ pc'[r] = step /\ up'[r] = up[r] /\ todo'[r] = indexes /\ healthy' = healthy
          /\ steady'[r] = Healthy(r) /\ ever'[r] = Healthy(r)
      BY Zenon DEF HealthInv, Types, Start
    <3>2. Holds(r)'
      BY <1>1, <3>1, Zenon DEF Holds
    <3>3. Watched(r)'
      BY <3>1, Zenon DEF Watched, Healthy
    <3>4. ASSUME step = "scan", NEW b \in Healthy(r)
          PROVE  \E k \in DOMAIN indexes : b = Servers[up[r]][indexes[k]]
      <4>1. PICK i \in DOMAIN Servers[up[r]] : b = Servers[up[r]][i]
        BY <3>4, Zenon DEF Healthy, ServersOf
      <4> QED BY <3>4, <4>1, Zenon
    <3>5. Candidates(r)'
      BY <3>1, <3>4 DEF Candidates, Server, Pair
    <3> QED BY <2>2, <3>2, <3>3, <3>5, Zenon
  <2> QED BY <2>1, <2>2, Zenon
<1> QED BY <1>6, <1>7, <1>8, Zenon DEF HealthInv

(* A step of r leaves the other requests and the flags alone. *)
StepOf(r) ==
  /\ healthy' = healthy
  /\ \A q \in Requests \ {r} :
       /\ pc'[q] = pc[q] /\ up'[q] = up[q] /\ todo'[q] = todo[q] /\ loaded'[q] = loaded[q]
       /\ picked'[q] = picked[q] /\ steady'[q] = steady[q] /\ ever'[q] = ever[q]

LEMMA Forgets ==
  ASSUME Types, NEW r \in Requests, Forget(r)
  PROVE  /\ todo' \in [Requests -> Seq(Nat)] /\ loaded' \in [Requests -> Int]
         /\ steady' \in [Requests -> SUBSET Backends] /\ ever' \in [Requests -> SUBSET Backends]
         /\ \A q \in Requests \ {r} : /\ todo'[q] = todo[q] /\ loaded'[q] = loaded[q]
                                      /\ steady'[q] = steady[q] /\ ever'[q] = ever[q]
  BY DEF Types, Forget

LEMMA StepKeeps ==
  ASSUME HealthInv, NEW r \in Requests, StepOf(r), Types',
         pc'[r] \in Selection => /\ pc[r] \in Selection /\ up'[r] = up[r]
                                 /\ steady'[r] = steady[r] /\ ever'[r] = ever[r],
         Holds(r)', Candidates(r)'
  PROVE  HealthInv'
<1>1. OneSelection'
  BY Zenon DEF HealthInv, OneSelection, StepOf
<1>2. ASSUME NEW q \in Requests PROVE Holds(q)' /\ Watched(q)' /\ Candidates(q)'
  <2>1. CASE q # r
    BY <2>1, Kept, Zenon DEF StepOf
  <2>2. CASE q = r
    <3>1. Watched(r)'
      BY Zenon DEF HealthInv, Watched, StepOf
    <3> QED BY <2>2, <3>1, Zenon
  <2> QED BY <2>1, <2>2, Zenon
<1> QED BY <1>1, <1>2, Zenon DEF HealthInv

(* Every step keeps what is known of the flags, whatever the health        *)
(* checker does in between.                                                *)
LEMMA HealthStep == HealthInv /\ [Next]_vars => HealthInv'
<1> SUFFICES ASSUME HealthInv, [Next]_vars PROVE HealthInv'
  BY Zenon
<1>0. ASSUME NEW r \in Requests, NextTicket(r)
      PROVE  ticket' \in [Workers -> 0 .. TicketSpan - 1]
  <2>1. \A t \in 0 .. TicketSpan - 1 : (t + 1) % TicketSpan \in 0 .. TicketSpan - 1
    BY TicketBefore, Zenon
  <2> QED BY <1>0, <2>1, Zenon DEF NextTicket, HealthInv, Types
<1>1. ASSUME NEW r \in Requests, NEW u \in Upstreams, Arrive(r, u) PROVE HealthInv'
  <2>1. pc'[r] = "select" /\ up'[r] = u
    BY <1>1, Zenon DEF Arrive, HealthInv, Types
  <2>2. Types'
    BY <1>1, Zenon DEF Arrive, HealthInv, Types, Stages
  <2>3. StepOf(r)
    BY <1>1, Zenon DEF Arrive, HealthInv, Types, StepOf
  <2>4. Holds(r)' /\ Candidates(r)'
    BY <2>1, Zenon DEF Holds, Candidates, Selection, Pair
  <2> QED BY <2>1, <2>2, <2>3, <2>4, StepKeeps, Zenon DEF Selection
<1>2. ASSUME NEW r \in Requests, StartSingle(r) PROVE HealthInv'
  <2>1. up[r] \in Upstreams /\ Calls(r) /\ Len(Servers[up[r]]) = 1
    BY <1>2, Zenon DEF HealthInv, Holds, Calls, StartSingle
  <2>2. DOMAIN Servers[up[r]] = {1}
    BY <2>1, LenServers
  <2>3. <<1>> \in Seq(DOMAIN Servers[up[r]]) /\ DOMAIN <<1>> = {1} /\ <<1>>[1] = 1
    BY <2>2
  <2>4. \A i \in DOMAIN Servers[up[r]] : \E k \in DOMAIN <<1>> : <<1>>[k] = i
    BY <2>2, <2>3, Zenon
  <2> QED BY <1>2, <2>1, <2>3, <2>4, StartKeeps, Zenon DEF StartSingle, HealthInv, Types
<1>3. ASSUME NEW r \in Requests, StartIpHash(r) PROVE HealthInv'
  <2>1. up[r] \in Upstreams /\ Calls(r) /\ HashIp[r] \in Nat
    BY <1>3, BalancerAssumption, Zenon DEF HealthInv, Holds, Calls, StartIpHash
  <2> DEFINE s == Rotation(up[r], HashIp[r])
  <2>2. /\ s \in Seq(DOMAIN Servers[up[r]])
        /\ \A i \in DOMAIN Servers[up[r]] : \E k \in DOMAIN s : s[k] = i
    BY <2>1, RotationCovers
  <2>3. Start(r, "scan", s) /\ ticket' \in [Workers -> 0 .. TicketSpan - 1]
    BY <1>3, Zenon DEF StartIpHash, HealthInv, Types
  <2> HIDE DEF s
  <2> QED BY <2>1, <2>2, <2>3, StartKeeps, Zenon
<1>4. ASSUME NEW r \in Requests, StartRoundRobin(r) PROVE HealthInv'
  <2>1. up[r] \in Upstreams /\ Calls(r) /\ ticket[Worker[r]] \in Nat
    <3>1. Types /\ Holds(r) /\ Calls(r) /\ pc[r] # "idle"
      BY <1>4, Zenon DEF HealthInv, Calls, StartRoundRobin
    <3>2. ticket[Worker[r]] \in 0 .. TicketSpan - 1
      BY <3>1, WorkerTicket, Zenon
    <3>3. \A x \in 0 .. TicketSpan - 1 : x \in Nat
      BY BalancerAssumption
    <3> QED BY <3>1, <3>2, <3>3, Zenon DEF Holds
  <2> DEFINE s == Rotation(up[r], ticket[Worker[r]])
  <2>2. /\ s \in Seq(DOMAIN Servers[up[r]])
        /\ \A i \in DOMAIN Servers[up[r]] : \E k \in DOMAIN s : s[k] = i
    BY <2>1, RotationCovers, ZenonT(30)
  <2>3. Start(r, "scan", s) /\ ticket' \in [Workers -> 0 .. TicketSpan - 1]
    BY <1>4, <1>0, Zenon DEF StartRoundRobin
  <2> HIDE DEF s
  <2> QED BY <2>1, <2>2, <2>3, StartKeeps, Zenon
<1>5. ASSUME NEW r \in Requests, StartLeastConnections(r) PROVE HealthInv'
  <2> DEFINE n == Len(Servers[up[r]])
             t == ticket[Worker[r]]
             i == (t % n) + 1
             j == (((t + (n \div 2)) % TicketSpan) % n) + 1
  <2>1. up[r] \in Upstreams /\ Calls(r) /\ t \in 0 .. TicketSpan - 1
    <3>1. Types /\ Holds(r) /\ Calls(r) /\ pc[r] # "idle"
      BY <1>5, Zenon DEF HealthInv, Calls, StartLeastConnections
    <3> QED BY <3>1, WorkerTicket, Zenon DEF Holds
  <2>2. i \in DOMAIN Servers[up[r]] /\ j \in DOMAIN Servers[up[r]]
    BY <2>1, TwoCandidates, Zenon
  <2>3. Start(r, "first", <<i, j>>) /\ ticket' \in [Workers -> 0 .. TicketSpan - 1]
    BY <1>5, <1>0, Zenon DEF StartLeastConnections
  <2> HIDE DEF i, j
  <2>4. ASSUME NEW S, NEW x \in S, NEW y \in S PROVE <<x, y>> \in Seq(S) /\ Len(<<x, y>>) = 2
    OBVIOUS
  <2>5. <<i, j>> \in Seq(DOMAIN Servers[up[r]]) /\ Len(<<i, j>>) = 2
    BY <2>2, <2>4, Zenon
  <2> HIDE DEF n, t
  <2> QED BY <2>1, <2>3, <2>5, StartKeeps, Zenon
<1>6. ASSUME NEW r \in Requests, ScanHit(r) PROVE HealthInv'
  <2> DEFINE b == Server(r, Head(todo[r]))
  <2>1. /\ pc[r] = "scan" /\ up[r] \in Upstreams /\ todo[r] # <<>> /\ healthy[b]
        /\ todo[r] \in Seq(DOMAIN Servers[up[r]]) /\ Watched(r)
        /\ Step(r, "acquire") /\ picked' = [picked EXCEPT ![r] = b]
        /\ todo' = todo /\ loaded' = loaded
    BY <1>6, Zenon DEF ScanHit, Pick, HealthInv, Holds, Candidates, Selection
  <2>2. b \in ServersOf(up[r]) /\ b \in Backends
    <3>1. Head(todo[r]) \in DOMAIN Servers[up[r]]
      BY <2>1, HeadOf, Zenon
    <3> QED BY <2>1, <3>1, ServerOf, Zenon
  <2>3. b \in ever[r]
    BY <2>1, <2>2, Zenon DEF Watched, Selection
  <2> HIDE DEF b
  <2>4. pc'[r] = "acquire" /\ up' = up /\ steady' = steady /\ ever' = ever /\ picked'[r] = b
    BY <2>1, Zenon DEF Step, HealthInv, Types
  <2>5. Types' /\ StepOf(r)
    BY <2>1, <2>2, Zenon DEF Step, HealthInv, Types, Stages, Selection, StepOf
  <2>6. Holds(r)' /\ Candidates(r)'
    BY <2>1, <2>2, <2>3, <2>4, Zenon DEF Holds, Candidates, Pair, Selection
  <2> QED BY <2>1, <2>4, <2>5, <2>6, StepKeeps, Zenon DEF Selection
<1>7. ASSUME NEW r \in Requests, ScanMiss(r) PROVE HealthInv'
  <2> DEFINE b == Server(r, Head(todo[r]))
  <2>1. /\ pc[r] = "scan" /\ up[r] \in Upstreams /\ todo[r] # <<>> /\ ~healthy[b]
        /\ todo[r] \in Seq(DOMAIN Servers[up[r]]) /\ Watched(r) /\ Candidates(r)
        /\ Step(r, "scan") /\ todo' = [todo EXCEPT ![r] = Tail(todo[r])]
        /\ picked' = picked /\ loaded' = loaded
    BY <1>7, Zenon DEF ScanMiss, HealthInv, Holds, Candidates, Selection
  <2>2. b \notin steady[r]
    BY <2>1, Zenon DEF Watched, Selection
  <2>3. \A c \in steady[r] : \E i \in DOMAIN Tail(todo[r]) : c = Server(r, Tail(todo[r])[i])
    <3> SUFFICES ASSUME NEW c \in steady[r]
                 PROVE  \E i \in DOMAIN Tail(todo[r]) : c = Server(r, Tail(todo[r])[i])
      BY Zenon
    <3>1. PICK i \in DOMAIN todo[r] : c = Server(r, todo[r][i])
      BY <2>1, Zenon DEF Candidates
    <3>2. i # 1
      <4>1. Head(todo[r]) = todo[r][1]
        BY <2>1
      <4> QED BY <2>2, <3>1, <4>1, Zenon
    <3>3. i - 1 \in DOMAIN Tail(todo[r]) /\ Tail(todo[r])[i - 1] = todo[r][i]
      BY <2>1, <3>1, <3>2
    <3> QED BY <3>1, <3>3, Zenon
  <2>4. Tail(todo[r]) \in Seq(DOMAIN Servers[up[r]])
    <3>1. ASSUME NEW S, NEW s \in Seq(S), s # <<>> PROVE Tail(s) \in Seq(S)
      BY <3>1
    <3> QED BY <2>1, <3>1, Zenon
  <2>5. Tail(todo[r]) \in Seq(Nat)
    BY <2>1 DEF HealthInv, Types
  <2>6. todo'[r] = Tail(todo[r]) /\ pc'[r] = "scan" /\ up' = up /\ steady' = steady /\ ever' = ever
    BY <2>1, Zenon DEF Step, HealthInv, Types
  <2>7. Types' /\ StepOf(r)
    BY <2>1, <2>5, Zenon DEF Step, HealthInv, Types, Stages, Selection, StepOf
  <2>8. Holds(r)' /\ Candidates(r)'
    <3>1. Holds(r)'
      BY <2>1, <2>6, Zenon DEF Holds
    <3>2. /\ todo'[r] \in Seq(DOMAIN Servers[up'[r]])
          /\ \A c \in steady'[r] : \E k \in DOMAIN todo'[r] : c = Servers[up'[r]][todo'[r][k]]
      BY <2>3, <2>4, <2>6, Zenon DEF Server
    <3> QED BY <2>6, <3>1, <3>2, Zenon DEF Candidates, Pair, Server
  <2> QED BY <2>1, <2>6, <2>7, <2>8, StepKeeps, Zenon DEF Selection
<1>8. ASSUME NEW r \in Requests, ScanEnd(r) PROVE HealthInv'
  <2>1. steady[r] = {} /\ up[r] \in Upstreams
    <3>1. Candidates(r) /\ Holds(r) /\ pc[r] = "scan" /\ todo[r] = <<>>
      BY <1>8, Zenon DEF ScanEnd, HealthInv
    <3> QED BY <3>1 DEF Candidates, Holds
  <2>2. turn' \in [Workers -> [up : Upstreams \cup {NoUpstream}, index : Nat]]
    BY <1>8, <2>1, Zenon DEF ScanEnd, Drew, HealthInv, Types
  <2>3. Types' /\ StepOf(r)
    BY <1>8, <2>2, Zenon DEF ScanEnd, HealthInv, Types, Stages, StepOf
  <2>4. pc'[r] = "none" /\ up' = up /\ steady' = steady
    BY <1>8, Zenon DEF ScanEnd, HealthInv, Types
  <2>5. Holds(r)' /\ Candidates(r)'
    BY <2>1, <2>4, Zenon DEF Holds, Candidates, Pair, Selection
  <2> QED BY <2>3, <2>4, <2>5, StepKeeps, Zenon DEF Selection
<1>9. ASSUME NEW r \in Requests, LoadFirst(r) PROVE HealthInv'
  <2> DEFINE b == Server(r, todo[r][1])
             l == IF healthy[b] THEN 1 ELSE 0
  <2>1. /\ pc[r] = "first" /\ up[r] \in Upstreams /\ Len(todo[r]) = 2
        /\ todo[r] \in Seq(DOMAIN Servers[up[r]]) /\ Watched(r)
        /\ Step(r, "second") /\ loaded' = [loaded EXCEPT ![r] = l]
        /\ todo' = todo /\ picked' = picked
    BY <1>9, Zenon DEF LoadFirst, HealthInv, Holds, Candidates, Selection, Pair
  <2>2. b \in ServersOf(up[r]) /\ b \in Backends
    <3>1. todo[r][1] \in DOMAIN Servers[up[r]]
      BY <2>1, PairOf, Zenon
    <3> QED BY <2>1, <3>1, ServerOf, Zenon
  <2>3. healthy[b] = TRUE => b \in ever[r]
    BY <2>1, <2>2, Zenon DEF Watched, Selection
  <2>4. l \in Int /\ (l = 1 => healthy[b] = TRUE)
    BY <2>2 DEF HealthInv, Types
  <2>5. pc'[r] = "second" /\ up' = up /\ steady' = steady /\ ever' = ever /\ loaded'[r] = l
    BY <2>1, Zenon DEF Step, HealthInv, Types
  <2>6. b = Server(r, todo[r][1])
    BY Zenon
  <2> HIDE DEF l, b
  <2>7. Holds(r)' /\ Candidates(r)'
    BY <2>1, <2>3, <2>4, <2>5, <2>6, Zenon DEF Holds, Candidates, Pair, Server
  <2>8. Types' /\ StepOf(r)
    BY <2>1, <2>4, Zenon DEF Step, HealthInv, Types, Stages, Selection, StepOf
  <2> QED BY <2>1, <2>5, <2>7, <2>8, StepKeeps, Zenon DEF Selection
<1>10. ASSUME NEW r \in Requests, LoadSecond(r) PROVE HealthInv'
  <2> DEFINE b1 == Server(r, todo[r][1])
             b2 == Server(r, todo[r][2])
             all == Rotation(up[r], 0)
  <2>1. /\ pc[r] = "second" /\ up[r] \in Upstreams /\ Len(todo[r]) = 2
        /\ todo[r] \in Seq(DOMAIN Servers[up[r]]) /\ Watched(r)
        /\ loaded[r] = 1 => b1 \in ever[r]
        /\ loaded' = loaded
    BY <1>10, Zenon DEF LoadSecond, HealthInv, Holds, Candidates, Selection, Pair
  <2>2. b1 \in Backends /\ b2 \in Backends /\ b2 \in ServersOf(up[r])
    <3>1. todo[r][1] \in DOMAIN Servers[up[r]] /\ todo[r][2] \in DOMAIN Servers[up[r]]
      BY <2>1, PairOf, Zenon
    <3> QED BY <2>1, <3>1, ServerOf, Zenon
  <2>3. healthy[b2] = TRUE => b2 \in ever[r]
    BY <2>1, <2>2, Zenon DEF Watched, Selection
  <2>4. healthy[b2] \in BOOLEAN
    BY <2>2, Zenon DEF HealthInv, Types
  <2>5. /\ all \in Seq(DOMAIN Servers[up[r]])
        /\ \A i \in DOMAIN Servers[up[r]] : \E k \in DOMAIN all : all[k] = i
    <3>1. 0 \in Nat
      BY Zenon
    <3> QED BY <2>1, <3>1, RotationCovers, Zenon
  <2>6. all \in Seq(Nat)
    BY <2>1, <2>5, IndexSeq, Zenon
  <2>7. CASE loaded[r] = 1 /\ healthy[b2] /\ Step(r, "load") /\ UNCHANGED <<todo, picked>>
    <3>1. pc'[r] = "load" /\ up' = up /\ steady' = steady /\ ever' = ever
      BY <2>7, Zenon DEF Step, HealthInv, Types
    <3>2. Holds(r)' /\ Candidates(r)'
      BY <2>1, <2>3, <2>7, <3>1, Zenon DEF Holds, Candidates, Pair, Server
    <3>3. Types' /\ StepOf(r)
      BY <2>1, <2>7, Zenon DEF Step, HealthInv, Types, Stages, Selection, StepOf
    <3> QED BY <2>1, <3>1, <3>2, <3>3, StepKeeps, Zenon DEF Selection
  <2>8. ASSUME NEW b \in {b1, b2}, b \in ever[r], Pick(r, b), UNCHANGED todo PROVE HealthInv'
    <3> HIDE DEF b1, b2, all
    <3>1. pc'[r] = "acquire" /\ up' = up /\ steady' = steady /\ ever' = ever /\ picked'[r] = b
      BY <2>8, Zenon DEF Pick, Step, HealthInv, Types
    <3>2. Holds(r)' /\ Candidates(r)'
      <4>1. todo'[r] = todo[r] /\ todo[r] # <<>>
        <5>1. Len(<<>>) = 0 /\ Len(todo[r]) = 2
          BY <2>1, Zenon
        <5>2. todo[r] # <<>>
          BY <5>1
        <5> QED BY <2>8, <5>2, Zenon
      <4>2. b \in Backends
        BY <2>2, <2>8, Zenon
      <4> QED BY <2>1, <2>8, <3>1, <4>1, <4>2, Zenon DEF Holds, Candidates, Pair, Selection
    <3>3. Types' /\ StepOf(r)
      BY <2>1, <2>2, <2>8, Zenon DEF Pick, Step, HealthInv, Types, Stages, Selection, StepOf
    <3> QED BY <2>1, <3>1, <3>2, <3>3, StepKeeps, Zenon DEF Selection
  <2>9. CASE /\ todo' = [todo EXCEPT ![r] = all] /\ Step(r, "scan") /\ UNCHANGED picked
    <3>1. pc'[r] = "scan" /\ up' = up /\ steady' = steady /\ ever' = ever /\ todo'[r] = all
      BY <2>9, Zenon DEF Step, HealthInv, Types
    <3>2. \A b \in steady[r] : \E k \in DOMAIN all : b = Servers[up[r]][all[k]]
      <4> HIDE DEF all
      <4> SUFFICES ASSUME NEW b \in steady[r]
                   PROVE  \E k \in DOMAIN all : b = Servers[up[r]][all[k]]
        BY Zenon
      <4>1. PICK i \in DOMAIN Servers[up[r]] : b = Servers[up[r]][i]
        BY <2>1, Zenon DEF Watched, ServersOf, Selection
      <4> QED BY <2>5, <4>1, Zenon
    <3> HIDE DEF all
    <3>3. Holds(r)' /\ Candidates(r)'
      <4>1. Holds(r)'
        BY <2>1, <3>1, Zenon DEF Holds
      <4>2. /\ todo'[r] \in Seq(DOMAIN Servers[up'[r]])
            /\ \A b \in steady'[r] : \E k \in DOMAIN todo'[r] : b = Servers[up'[r]][todo'[r][k]]
        BY <2>5, <3>1, <3>2, Zenon
      <4> QED BY <3>1, <4>1, <4>2, Zenon DEF Candidates, Pair, Server
    <3>4. Types' /\ StepOf(r)
      BY <2>1, <2>6, <2>9, Zenon DEF Step, HealthInv, Types, Stages, Selection, StepOf
    <3> QED BY <2>1, <3>1, <3>3, <3>4, StepKeeps, Zenon DEF Selection
  <2> HIDE DEF all
  <2>10. \/ loaded[r] = 1 /\ healthy[b2] /\ Step(r, "load") /\ UNCHANGED <<todo, picked>>
         \/ loaded[r] = 1 /\ Pick(r, b1) /\ UNCHANGED todo
         \/ healthy[b2] /\ Pick(r, b2) /\ UNCHANGED todo
         \/ todo' = [todo EXCEPT ![r] = all] /\ Step(r, "scan") /\ UNCHANGED picked
    BY <1>10, Zenon DEF LoadSecond, all
  <2> HIDE DEF b1, b2
  <2>11. healthy[b2] => b2 \in ever[r]
    BY <2>3, <2>4, Zenon
  <2> QED BY <2>1, <2>7, <2>8, <2>9, <2>10, <2>11, Zenon
<1>11. ASSUME NEW r \in Requests, LoadConns(r) PROVE HealthInv'
  <2>1. /\ pc[r] = "load" /\ up[r] \in Upstreams /\ Candidates(r) /\ Len(todo[r]) = 2
        /\ todo[r] \in Seq(DOMAIN Servers[up[r]]) /\ Step(r, "compare")
        /\ loaded' = [loaded EXCEPT ![r] = conns[Server(r, todo[r][1])]]
        /\ todo' = todo /\ picked' = picked
    BY <1>11, Zenon DEF LoadConns, HealthInv, Holds, Candidates, Selection, Pair
  <2>2. Server(r, todo[r][1]) \in Backends
    <3>1. todo[r][1] \in DOMAIN Servers[up[r]]
      BY <2>1, PairOf, Zenon
    <3> QED BY <2>1, <3>1, ServerOf, Zenon
  <2>3. conns[Server(r, todo[r][1])] \in Int
    BY <2>2, Zenon DEF HealthInv, Types
  <2>4. pc'[r] = "compare" /\ up' = up /\ steady' = steady /\ ever' = ever
    BY <2>1, Zenon DEF Step, HealthInv, Types
  <2>5. Holds(r)' /\ Candidates(r)'
    BY <2>1, <2>4, Zenon DEF Holds, Candidates, Pair, Server
  <2>6. Types' /\ StepOf(r)
    BY <2>1, <2>3, Zenon DEF Step, HealthInv, Types, Stages, Selection, StepOf
  <2> QED BY <2>1, <2>4, <2>5, <2>6, StepKeeps, Zenon DEF Selection
<1>12. ASSUME NEW r \in Requests, Compare(r) PROVE HealthInv'
  <2> DEFINE b == IF loaded[r] <= conns[Server(r, todo[r][2])]
                  THEN Server(r, todo[r][1]) ELSE Server(r, todo[r][2])
  <2>1. /\ pc[r] = "compare" /\ up[r] \in Upstreams /\ Candidates(r)
        /\ Step(r, "acquire") /\ picked' = [picked EXCEPT ![r] = b]
        /\ todo' = todo /\ loaded' = loaded
    BY <1>12, Zenon DEF Compare, Pick, HealthInv, Holds, Candidates
  <2>2. b \in ever[r]
    BY <2>1, Zenon DEF Candidates
  <2>3. b \in Backends
    BY <2>2, Zenon DEF HealthInv, Types
  <2> HIDE DEF b
  <2>4. pc'[r] = "acquire" /\ up' = up /\ steady' = steady /\ ever' = ever /\ picked'[r] = b
    BY <2>1, Zenon DEF Step, HealthInv, Types
  <2>5. Holds(r)' /\ Candidates(r)'
    <3>1. todo[r] \in Seq(DOMAIN Servers[up[r]]) /\ Len(todo[r]) = 2
      BY <2>1, Zenon DEF Candidates, Pair, Selection
    <3>2. todo[r] # <<>>
      <4>1. Len(<<>>) = 0 /\ 0 # 2
        OBVIOUS
      <4> QED BY <3>1, <4>1, Zenon
    <3>3. Holds(r)'
      BY <2>1, <2>3, <2>4, Zenon DEF Holds
    <3> QED BY <2>1, <2>2, <2>4, <3>1, <3>2, <3>3, Zenon DEF Candidates, Pair
  <2>6. Types' /\ StepOf(r)
    BY <2>1, <2>3, Zenon DEF Step, HealthInv, Types, Stages, Selection, StepOf
  <2> QED BY <2>1, <2>4, <2>5, <2>6, StepKeeps, Zenon DEF Selection
<1>13. ASSUME NEW r \in Requests, Acquire(r) PROVE HealthInv'
  <2>1. /\ pc[r] = "acquire" /\ up[r] \in Upstreams /\ picked[r] \in Backends
        /\ todo[r] \in Seq(Nat) /\ todo[r] # <<>>
    BY <1>13, Zenon DEF Acquire, HealthInv, Holds, Types, Candidates
  <2>2. conns' \in [Backends -> Int]
    BY <1>13, <2>1 DEF Acquire, HealthInv, Types
  <2>3. turn' \in [Workers -> [up : Upstreams \cup {NoUpstream}, index : Nat]]
    <3> DEFINE index == IF AllSteady(r) THEN Head(todo[r]) ELSE 0
    <3>1. index \in Nat
      BY <2>1
    <3>2. Drew(r, index)
      BY <1>13, Zenon DEF Acquire
    <3> HIDE DEF index
    <3> QED BY <2>1, <3>1, <3>2, Zenon DEF Drew, HealthInv, Types
  <2>4. Types' /\ StepOf(r)
    <3>1. pc' \in [Requests -> Stages]
      BY <1>13, Zenon DEF Acquire, HealthInv, Types, Stages
    <3>2. /\ todo' \in [Requests -> Seq(Nat)] /\ loaded' \in [Requests -> Int]
          /\ steady' \in [Requests -> SUBSET Backends] /\ ever' \in [Requests -> SUBSET Backends]
      BY <1>13, Forgets, Zenon DEF Acquire, HealthInv
    <3>3. Types'
      BY <1>13, <2>2, <2>3, <3>1, <3>2, Zenon DEF Acquire, HealthInv, Types
    <3>4. StepOf(r)
      BY <1>13, Forgets, Zenon DEF Acquire, HealthInv, Types, StepOf
    <3> QED BY <3>3, <3>4, Zenon
  <2>5. pc'[r] = "held" /\ up' = up /\ picked' = picked
    BY <1>13, Zenon DEF Acquire, HealthInv, Types
  <2>6. Holds(r)' /\ Candidates(r)'
    BY <2>1, <2>5, Zenon DEF Holds, Candidates, Pair, Selection
  <2> QED BY <2>4, <2>5, <2>6, StepKeeps, Zenon DEF Selection
<1>14. ASSUME NEW r \in Requests, Retry(r) PROVE HealthInv'
  <2>1. pc[r] = "held" /\ up[r] \in Upstreams /\ picked[r] \in Backends
    BY <1>14, Zenon DEF Retry, HealthInv, Holds
  <2>2. pc'[r] = "retry" /\ up' = up /\ picked' = picked
    BY <1>14, Zenon DEF Retry, HealthInv, Types
  <2>3. Types' /\ StepOf(r)
    BY <1>14, Zenon DEF Retry, HealthInv, Types, Stages, StepOf
  <2>4. Holds(r)' /\ Candidates(r)'
    BY <2>1, <2>2, Zenon DEF Holds, Candidates, Pair, Selection
  <2> QED BY <2>2, <2>3, <2>4, StepKeeps, Zenon DEF Selection
<1>15. ASSUME NEW r \in Requests, Finish(r) PROVE HealthInv'
  <2>1. conns' \in [Backends -> Int]
    <3>1. pc[r] = "held" => picked[r] \in Backends
      BY Zenon DEF HealthInv, Holds
    <3> QED BY <1>15, <3>1 DEF Finish, HealthInv, Types
  <2>2. Types' /\ StepOf(r)
    <3>1. pc' \in [Requests -> Stages]
      BY <1>15, Zenon DEF Finish, HealthInv, Types, Stages
    <3>2. /\ todo' \in [Requests -> Seq(Nat)] /\ loaded' \in [Requests -> Int]
          /\ steady' \in [Requests -> SUBSET Backends] /\ ever' \in [Requests -> SUBSET Backends]
      BY <1>15, Forgets, Zenon DEF Finish, HealthInv
    <3>3. Types'
      BY <1>15, <2>1, <3>1, <3>2, Zenon DEF Finish, HealthInv, Types
    <3>4. StepOf(r)
      BY <1>15, Forgets, Zenon DEF Finish, HealthInv, Types, StepOf
    <3> QED BY <3>3, <3>4, Zenon
  <2>3. pc'[r] = "idle"
    BY <1>15, Zenon DEF Finish, HealthInv, Types
  <2>4. Holds(r)' /\ Candidates(r)'
    BY <2>3, Zenon DEF Holds, Candidates, Pair, Selection
  <2> QED BY <2>2, <2>3, <2>4, StepKeeps, Zenon DEF Selection
<1>16. ASSUME NEW b \in MayFail, NEW ok \in BOOLEAN, SetHealthy(b, ok) PROVE HealthInv'
  <2>1. b \in Backends
    BY BalancerAssumption, Zenon
  <2>2. Types'
    <3>1. healthy' \in [Backends -> BOOLEAN]
      BY <1>16, <2>1, Zenon DEF SetHealthy, HealthInv, Types
    <3>2. steady' \in [Requests -> SUBSET Backends] /\ ever' \in [Requests -> SUBSET Backends]
      BY <1>16, <2>1, Zenon DEF SetHealthy, HealthInv, Types
    <3>3. turn' \in [Workers -> [up : Upstreams \cup {NoUpstream}, index : Nat]]
      BY <1>16, Zenon DEF SetHealthy, HealthInv, Types
    <3> QED BY <1>16, <3>1, <3>2, <3>3, Zenon DEF SetHealthy, HealthInv, Types
  <2>3. OneSelection'
    BY <1>16, Zenon DEF SetHealthy, HealthInv, OneSelection
  <2>4. ASSUME NEW q \in Requests PROVE Holds(q)' /\ Watched(q)' /\ Candidates(q)'
    <3>1. /\ pc' = pc /\ up' = up /\ todo' = todo /\ loaded' = loaded /\ picked' = picked
          /\ steady'[q] \subseteq steady[q]
          /\ ~ok => b \notin steady'[q]
          /\ ever[q] \subseteq ever'[q]
          /\ ok /\ pc[q] \in Selection /\ b \in ServersOf(up[q]) => b \in ever'[q]
          /\ \A c \in Backends \ {b} : healthy'[c] = healthy[c]
          /\ healthy'[b] = ok
      BY <1>16, <2>1, Zenon DEF SetHealthy, HealthInv, Types
    <3>2. Holds(q) /\ Watched(q) /\ Candidates(q)
      BY Zenon DEF HealthInv
    <3>3. Holds(q)'
      BY <3>1, <3>2, Zenon DEF Holds
    <3>4. ASSUME pc[q] \in Selection
          PROVE  /\ steady'[q] \subseteq ServersOf(up[q])
                 /\ \A c \in steady'[q] : healthy'[c] = TRUE
                 /\ \A c \in ServersOf(up[q]) : healthy'[c] = TRUE => c \in ever'[q]
      <4>1. up[q] \in Upstreams /\ steady[q] \subseteq ServersOf(up[q])
        BY <3>2, <3>4, Zenon DEF Holds, Watched, Selection
      <4>2. ServersOf(up[q]) \subseteq Backends
        BY <4>1, LenServers, Zenon
      <4>3. ASSUME NEW c \in steady'[q] PROVE healthy'[c] = TRUE
        <5>1. CASE c = b
          BY <3>1, <4>3, <5>1, Zenon
        <5>2. CASE c # b
          BY <3>1, <3>2, <3>4, <4>1, <4>2, <5>2, Zenon DEF Watched
        <5> QED BY <5>1, <5>2, Zenon
      <4>4. ASSUME NEW c \in ServersOf(up[q]), healthy'[c] = TRUE PROVE c \in ever'[q]
        <5>1. CASE c = b
          BY <3>1, <3>4, <4>4, <5>1, Zenon
        <5>2. CASE c # b
          BY <3>1, <3>2, <3>4, <4>2, <4>4, <5>2, Zenon DEF Watched
        <5> QED BY <5>1, <5>2, Zenon
      <4> QED BY <3>1, <4>1, <4>3, <4>4, Zenon
    <3>5. Watched(q)'
      BY <3>1, <3>4, Zenon DEF Watched
    <3>6. Candidates(q)'
      BY <3>1, <3>2, Zenon DEF Candidates, Server
    <3> QED BY <3>3, <3>5, <3>6, Zenon
  <2> QED BY <2>2, <2>3, <2>4, Zenon DEF HealthInv
<1>17. ASSUME UNCHANGED vars PROVE HealthInv'
  <2>1. Types' /\ OneSelection'
    BY <1>17, Zenon DEF vars, HealthInv, Types, OneSelection
  <2>2. ASSUME NEW q \in Requests PROVE Holds(q)' /\ Watched(q)' /\ Candidates(q)'
    BY <1>17, Kept, Zenon DEF vars
  <2> QED BY <2>1, <2>2, Zenon DEF HealthInv
<1> QED
  BY <1>1, <1>2, <1>3, <1>4, <1>5, <1>6, <1>7, <1>8, <1>9, <1>10, <1>11, <1>12, <1>13,
     <1>14, <1>15, <1>16, <1>17, Zenon DEF Next

(* Every selection answers by health, for every strategy, interleaving of  *)
(* the workers and change of a flag between two loads.                     *)
THEOREM PicksByHealthHolds == Spec => []PicksByHealth
<1>1. HealthInv => PicksByHealth
  BY Zenon DEF HealthInv, Holds, Candidates, PicksByHealth
<1> QED BY <1>1, HealthInit, HealthStep, PTL DEF Spec

-----------------------------------------------------------------------------
(* Turns *)

LEMMA TurnInit == Init => TurnInv
<1> SUFFICES ASSUME Init PROVE TurnInv
  BY Zenon
<1>1. ASSUME NEW r \in Requests PROVE AtTicket(r)
  BY Zenon DEF Init, AtTicket, Pair
<1>2. ASSUME NEW w \in Workers PROVE Recorded(w)
  BY BalancerAssumption, Zenon DEF Init, Recorded
<1> QED BY <1>1, <1>2, HealthInit, Zenon DEF TurnInv

LEMMA AtTicketKept ==
  ASSUME NEW q \in Requests, AtTicket(q), strategy' = strategy,
         pc'[q] = pc[q], up'[q] = up[q], todo'[q] = todo[q], picked'[q] = picked[q],
         steady'[q] = steady[q],
         ticket'[Worker[q]] = ticket[Worker[q]] \/ pc[q] \notin Selection
  PROVE  AtTicket(q)'
  BY Zenon DEF AtTicket, Pair, AllSteady, Server, Selection

LEMMA RecordedKept ==
  ASSUME NEW w \in Workers, Recorded(w), strategy' = strategy,
         turn'[w] = turn[w], LastTicket(w)' = LastTicket(w)
  PROVE  Recorded(w)'
  BY Zenon DEF Recorded

LEMMA LastTicketKept ==
  ASSUME NEW w \in Workers, ticket'[w] = ticket[w],
         \A q \in Requests : Worker[q] = w => (Drawing(q)' <=> Drawing(q))
  PROVE  LastTicket(w)' = LastTicket(w)
<1>1. Drawn(w)' <=> Drawn(w)
  BY Zenon DEF Drawn
<1> QED BY <1>1, Zenon DEF LastTicket

LEMMA OthersDrawing ==
  ASSUME NEW r \in Requests, NEW q \in Requests, q # r, StepOf(r), strategy' = strategy
  PROVE  Drawing(q)' <=> Drawing(q)
  BY Zenon DEF StepOf, Drawing

(* A step of r that neither draws nor ends a selection that drew. *)
LEMMA QuietStep ==
  ASSUME TurnInv, HealthInv', NEW r \in Requests, StepOf(r), strategy' = strategy,
         ticket' = ticket, turn' = turn, Drawing(r)' <=> Drawing(r), AtTicket(r)'
  PROVE  TurnInv'
<1>1. ASSUME NEW q \in Requests PROVE AtTicket(q)'
  <2>1. CASE q # r
    BY <2>1, AtTicketKept, Zenon DEF TurnInv, StepOf
  <2> QED BY <2>1, Zenon
<1>2. ASSUME NEW w \in Workers PROVE Recorded(w)'
  <2>1. \A q \in Requests : Drawing(q)' <=> Drawing(q)
    BY OthersDrawing, Zenon
  <2>2. LastTicket(w)' = LastTicket(w)
    BY <2>1, LastTicketKept, Zenon
  <2> QED BY <2>2, RecordedKept, Zenon DEF TurnInv
<1> QED BY <1>1, <1>2, Zenon DEF TurnInv

(* r draws a ticket: the last one of its worker is now one further back. *)
LEMMA DrawStep ==
  ASSUME TurnInv, HealthInv', NEW r \in Requests, StepOf(r), strategy' = strategy,
         Calls(r), NextTicket(r), turn' = turn, Drawing(r)', AtTicket(r)'
  PROVE  TurnInv'
<1>1. \A q \in Requests : Worker[q] = Worker[r] => pc[q] \notin Selection
  BY Zenon DEF Calls, Runs, Selection
<1>2. ASSUME NEW q \in Requests PROVE AtTicket(q)'
  <2>1. CASE q # r
    <3>1. ticket'[Worker[q]] = ticket[Worker[q]] \/ pc[q] \notin Selection
      BY <1>1, Zenon DEF NextTicket, TurnInv, HealthInv, Types, Workers
    <3> QED BY <2>1, <3>1, AtTicketKept, Zenon DEF TurnInv, StepOf
  <2> QED BY <2>1, Zenon
<1>3. ASSUME NEW w \in Workers PROVE LastTicket(w)' = LastTicket(w)
  <2>1. CASE w # Worker[r]
    <3>1. ticket'[w] = ticket[w]
      BY <2>1, Zenon DEF NextTicket, TurnInv, HealthInv, Types
    <3>2. \A q \in Requests : Worker[q] = w => (Drawing(q)' <=> Drawing(q))
      BY <2>1, OthersDrawing, Zenon
    <3> QED BY <3>1, <3>2, LastTicketKept, Zenon
  <2>2. CASE w = Worker[r]
    <3>1. ~Drawn(w) /\ Drawn(w)'
      BY <1>1, <2>2, Zenon DEF Drawn, Drawing
    <3>2. ticket[w] \in 0 .. TicketSpan - 1 /\ ticket'[w] = (ticket[w] + 1) % TicketSpan
      BY <2>2, Zenon DEF NextTicket, TurnInv, HealthInv, Types
    <3>3. Before(ticket'[w]) = ticket[w]
      BY <3>2, TicketBefore, Zenon
    <3> QED BY <3>1, <3>3, Zenon DEF LastTicket
  <2> QED BY <2>1, <2>2, Zenon
<1>4. ASSUME NEW w \in Workers PROVE Recorded(w)'
  BY <1>3, RecordedKept, Zenon DEF TurnInv
<1> QED BY <1>2, <1>4, Zenon DEF TurnInv

(* r leaves its selection: what it drew is the last ticket of its worker. *)
LEMMA EndStep ==
  ASSUME TurnInv, HealthInv', NEW r \in Requests, StepOf(r), strategy' = strategy,
         ticket' = ticket, pc[r] \in Selection, pc'[r] \notin Selection,
         NEW index, Drew(r, index),
         strategy[up[r]] = "RoundRobin" /\ Len(Servers[up[r]]) # 1
           => index = 0 \/ index = IndexOf(up[r], Before(ticket[Worker[r]]))
  PROVE  TurnInv'
<1>1. \A q \in Requests \ {r} : Worker[q] = Worker[r] => pc[q] \notin Selection
  BY Zenon DEF TurnInv, HealthInv, OneSelection
<1>2. ASSUME NEW q \in Requests PROVE AtTicket(q)'
  <2>1. CASE q # r
    BY <2>1, AtTicketKept, Zenon DEF TurnInv, StepOf
  <2>2. CASE q = r
    BY <2>2, Zenon DEF AtTicket, Pair, Selection
  <2> QED BY <2>1, <2>2, Zenon
<1>3. ASSUME NEW w \in Workers PROVE Recorded(w)'
  <2>1. CASE w # Worker[r]
    <3>1. \A q \in Requests : Worker[q] = w => (Drawing(q)' <=> Drawing(q))
      BY <2>1, OthersDrawing, Zenon
    <3>2. LastTicket(w)' = LastTicket(w)
      BY <3>1, LastTicketKept, Zenon
    <3>3. turn'[w] = turn[w]
      BY <2>1, Zenon DEF Drew, TurnInv, HealthInv, Types
    <3> QED BY <3>2, <3>3, RecordedKept, Zenon DEF TurnInv
  <2>2. CASE w = Worker[r] /\ Drawing(r)
    <3>1. ~Drawn(w)'
      BY <1>1, <2>2, Zenon DEF Drawn, Drawing, StepOf
    <3>2. LastTicket(w)' = Before(ticket[w])
      BY <3>1, Zenon DEF LastTicket
    <3>3. turn'[w] = [up |-> up[r], index |-> index]
      BY <2>2, Zenon DEF Drew, Drawing, TurnInv, HealthInv, Types
    <3>4. turn'[w].up = up[r] /\ turn'[w].index = index
      BY <3>3
    <3>5. IndexOf(turn[w].up, LastTicket(w))' = IndexOf(up[r], Before(ticket[w]))
      BY <3>2, <3>4, Zenon DEF IndexOf
    <3>6. Len(Servers[up[r]]) # 1
      BY <2>2, Zenon DEF Drawing
    <3> QED BY <2>2, <3>4, <3>5, <3>6, Zenon DEF Recorded
  <2>3. CASE w = Worker[r] /\ ~Drawing(r)
    <3>1. \A q \in Requests : Worker[q] = w => (Drawing(q)' <=> Drawing(q))
      <4>1. ~Drawing(r)'
        BY Zenon DEF Drawing
      <4> QED BY <2>3, <4>1, OthersDrawing, Zenon
    <3>2. LastTicket(w)' = LastTicket(w)
      BY <3>1, LastTicketKept, Zenon
    <3>3. turn' = turn
      BY <2>3, Zenon DEF Drew, Drawing
    <3> QED BY <3>2, <3>3, RecordedKept, Zenon DEF TurnInv
  <2> QED BY <2>1, <2>2, <2>3, Zenon
<1> QED BY <1>2, <1>3, Zenon DEF TurnInv

LEMMA TurnStep == TurnInv /\ [Next]_vars => TurnInv'
<1> SUFFICES ASSUME TurnInv, [Next]_vars PROVE TurnInv'
  BY Zenon
<1>0. HealthInv' /\ Types
  BY HealthStep, Zenon DEF TurnInv, HealthInv
<1>1. ASSUME NEW r \in Requests, NEW u \in Upstreams, Arrive(r, u) PROVE TurnInv'
  <2>1. StepOf(r) /\ pc[r] = "idle" /\ pc'[r] = "select"
    BY <1>0, <1>1, Zenon DEF Arrive, Types, StepOf
  <2>2. AtTicket(r)' /\ (Drawing(r)' <=> Drawing(r))
    BY <2>1, Zenon DEF AtTicket, Pair, Drawing, Selection
  <2> QED BY <1>0, <1>1, <2>1, <2>2, QuietStep, Zenon DEF Arrive
<1>2. ASSUME NEW r \in Requests, StartSingle(r) \/ StartIpHash(r) PROVE TurnInv'
  <2>1. /\ StepOf(r) /\ pc[r] \in {"select", "retry"} /\ pc'[r] = "scan" /\ up'[r] = up[r]
        /\ Len(Servers[up[r]]) = 1 \/ strategy[up[r]] = "IpHash"
        /\ strategy' = strategy /\ ticket' = ticket /\ turn' = turn
    BY <1>0, <1>2 DEF StartSingle, StartIpHash, Start, Calls, Types, StepOf
  <2>2. AtTicket(r)' /\ (Drawing(r)' <=> Drawing(r))
    BY <2>1, Zenon DEF AtTicket, Pair, Drawing, Selection
  <2> QED BY <1>0, <2>1, <2>2, QuietStep, Zenon
<1>3. ASSUME NEW r \in Requests, StartRoundRobin(r) PROVE TurnInv'
  <2> DEFINE t == ticket[Worker[r]]
             s == Rotation(up[r], t)
  <2>1. /\ StepOf(r) /\ Calls(r) /\ NextTicket(r) /\ strategy' = strategy /\ turn' = turn
        /\ up[r] \in Upstreams /\ up'[r] = up[r] /\ pc'[r] = "scan" /\ todo'[r] = s
        /\ strategy[up[r]] = "RoundRobin" /\ Len(Servers[up[r]]) # 1
        /\ t \in 0 .. TicketSpan - 1
    <3>1. up[r] \in Upstreams /\ t \in 0 .. TicketSpan - 1
      <4>1. pc[r] \in {"select", "retry"}
        BY <1>3, Zenon DEF StartRoundRobin, Calls
      <4>2. Types /\ Holds(r)
        BY Zenon DEF TurnInv, HealthInv
      <4> QED BY <4>1, <4>2, WorkerTicket, Zenon DEF Holds
    <3>2. Len(Servers[up[r]]) # 1
      <4>1. Len(Servers[up[r]]) > 1
        BY <1>3, Zenon DEF StartRoundRobin
      <4>2. Len(Servers[up[r]]) \in Nat
        BY <3>1, LenServers, Zenon
      <4>3. \A n \in Nat : n > 1 => n # 1
        OBVIOUS
      <4> QED BY <4>1, <4>2, <4>3, Zenon
    <3> HIDE DEF s, t
    <3>3. Start(r, "scan", s) /\ Calls(r) /\ NextTicket(r) /\ strategy[up[r]] = "RoundRobin"
      BY <1>3, Zenon DEF StartRoundRobin, s, t
    <3>4. /\ StepOf(r) /\ strategy' = strategy /\ turn' = turn
          /\ up'[r] = up[r] /\ pc'[r] = "scan" /\ todo'[r] = s
      BY <1>0, <3>3, Zenon DEF Start, Types, StepOf
    <3> QED BY <3>1, <3>2, <3>3, <3>4, Zenon
  <2>2. Drawing(r)'
    BY <2>1, Zenon DEF Drawing, Selection
  <2>3. t \in Nat
    <3>1. \A x \in 0 .. TicketSpan - 1 : x \in Nat
      BY BalancerAssumption
    <3> QED BY <2>1, <3>1, Zenon
  <2>4. s # <<>> /\ Head(s) = IndexOf(up[r], t)
    BY <2>1, <2>3, RotationCovers, Zenon
  <2>5. ticket'[Worker[r]] = (t + 1) % TicketSpan
    BY <1>0, <2>1, Zenon DEF NextTicket, Types, Workers
  <2>6. Before(ticket'[Worker[r]]) = t
    BY <2>1, <2>5, TicketBefore, Zenon
  <2> HIDE DEF s, t
  <2>7. AtTicket(r)'
    BY <2>1, <2>4, <2>6, Zenon DEF AtTicket, Pair, IndexOf
  <2> QED BY <1>0, <2>1, <2>2, <2>7, DrawStep, Zenon
<1>4. ASSUME NEW r \in Requests, StartLeastConnections(r) PROVE TurnInv'
  <2>1. /\ StepOf(r) /\ Calls(r) /\ NextTicket(r) /\ strategy' = strategy /\ turn' = turn
        /\ up'[r] = up[r] /\ pc'[r] = "first"
        /\ strategy[up[r]] = "LeastConnections" /\ Len(Servers[up[r]]) # 1
    <3>1. up[r] \in Upstreams
      BY <1>4, Zenon DEF StartLeastConnections, Calls, TurnInv, HealthInv, Holds
    <3>2. Len(Servers[up[r]]) # 1
      <4>1. Len(Servers[up[r]]) > 1
        BY <1>4, Zenon DEF StartLeastConnections
      <4>2. Len(Servers[up[r]]) \in Nat
        BY <3>1, LenServers, Zenon
      <4>3. \A n \in Nat : n > 1 => n # 1
        OBVIOUS
      <4> QED BY <4>1, <4>2, <4>3, Zenon
    <3>3. PICK s : Start(r, "first", s)
      BY <1>4, Zenon DEF StartLeastConnections
    <3>4. StepOf(r) /\ strategy' = strategy /\ turn' = turn /\ up'[r] = up[r] /\ pc'[r] = "first"
      BY <1>0, <3>3, Zenon DEF Start, Types, StepOf
    <3> QED BY <1>4, <3>2, <3>4, Zenon DEF StartLeastConnections
  <2>2. Drawing(r)' /\ AtTicket(r)'
    BY <2>1, Zenon DEF Drawing, AtTicket, Pair, Selection
  <2> QED BY <1>0, <2>1, <2>2, DrawStep, Zenon
<1>5. ASSUME NEW r \in Requests, ScanHit(r) PROVE TurnInv'
  <2>1. /\ StepOf(r) /\ pc[r] = "scan" /\ pc'[r] = "acquire" /\ up' = up /\ todo' = todo
        /\ picked'[r] = Server(r, Head(todo[r])) /\ steady' = steady
        /\ strategy' = strategy /\ ticket' = ticket /\ turn' = turn
    BY <1>0, <1>5, Zenon DEF ScanHit, Pick, Step, Types, StepOf
  <2>2. Drawing(r)' <=> Drawing(r)
    BY <2>1, Zenon DEF Drawing, Selection
  <2>3. AtTicket(r)
    BY Zenon DEF TurnInv
  <2>4. AtTicket(r)'
    BY <2>1, <2>3, Zenon DEF AtTicket, Pair, AllSteady, Server
  <2> QED BY <1>0, <2>1, <2>2, <2>4, QuietStep, Zenon
<1>6. ASSUME NEW r \in Requests, ScanMiss(r) PROVE TurnInv'
  <2>1. /\ StepOf(r) /\ pc[r] = "scan" /\ pc'[r] = "scan" /\ up' = up /\ steady' = steady
        /\ todo[r] # <<>> /\ ~healthy[Server(r, Head(todo[r]))]
        /\ strategy' = strategy /\ ticket' = ticket /\ turn' = turn
    BY <1>0, <1>6, Zenon DEF ScanMiss, Step, Types, StepOf
  <2>2. Drawing(r)' <=> Drawing(r)
    BY <2>1, Zenon DEF Drawing, Selection
  <2>3. /\ up[r] \in Upstreams /\ todo[r] \in Seq(DOMAIN Servers[up[r]])
        /\ \A b \in steady[r] : healthy[b] = TRUE
    BY <2>1, Zenon DEF TurnInv, HealthInv, Holds, Candidates, Watched, Selection
  <2>4. Head(todo[r]) \in DOMAIN Servers[up[r]]
    BY <2>1, <2>3
  <2>5. Server(r, Head(todo[r])) \in ServersOf(up[r])
    BY <2>3, <2>4, LenServers, Zenon DEF Server
  <2>6. ~AllSteady(r)
    BY <2>1, <2>3, <2>5, Zenon DEF AllSteady
  <2>7. AtTicket(r)'
    BY <2>1, <2>6, Zenon DEF AtTicket, Pair, AllSteady
  <2> QED BY <1>0, <2>1, <2>2, <2>7, QuietStep, Zenon
<1>7. ASSUME NEW r \in Requests, ScanEnd(r) PROVE TurnInv'
  <2>1. /\ StepOf(r) /\ pc[r] = "scan" /\ pc'[r] = "none"
        /\ strategy' = strategy /\ ticket' = ticket /\ Drew(r, 0)
    BY <1>0, <1>7, Zenon DEF ScanEnd, Types, StepOf
  <2> QED BY <1>0, <2>1, EndStep, Zenon DEF Selection
<1>8. ASSUME NEW r \in Requests, LoadFirst(r) \/ LoadSecond(r) \/ LoadConns(r) \/ Compare(r)
      PROVE  TurnInv'
  <2>1. /\ StepOf(r) /\ pc[r] \in Pair /\ pc'[r] \in Selection /\ up' = up
        /\ strategy' = strategy /\ ticket' = ticket /\ turn' = turn
    <3>1. CASE LoadFirst(r)
      BY <1>0, <3>1, Zenon DEF LoadFirst, Step, Types, StepOf, Pair, Selection
    <3>2. CASE LoadSecond(r)
      BY <1>0, <3>2, Zenon DEF LoadSecond, Pick, Step, Types, StepOf, Pair, Selection
    <3>3. CASE LoadConns(r)
      BY <1>0, <3>3, Zenon DEF LoadConns, Step, Types, StepOf, Pair, Selection
    <3>4. CASE Compare(r)
      BY <1>0, <3>4, Zenon DEF Compare, Pick, Step, Types, StepOf, Pair, Selection
    <3> QED BY <1>8, <3>1, <3>2, <3>3, <3>4, Zenon
  <2>2. Drawing(r)' <=> Drawing(r)
    BY <2>1, Zenon DEF Drawing, Selection, Pair
  <2>3. strategy[up[r]] = "LeastConnections"
    BY <2>1, Zenon DEF TurnInv, AtTicket
  <2>4. AtTicket(r)'
    BY <2>1, <2>3, Zenon DEF AtTicket, Pair
  <2> QED BY <1>0, <2>1, <2>2, <2>4, QuietStep, Zenon
<1>9. ASSUME NEW r \in Requests, Acquire(r) PROVE TurnInv'
  <2> DEFINE index == IF AllSteady(r) THEN Head(todo[r]) ELSE 0
  <2>1. /\ StepOf(r) /\ pc[r] = "acquire" /\ pc'[r] = "held"
        /\ strategy' = strategy /\ ticket' = ticket /\ Drew(r, index)
    BY <1>0, <1>9, Zenon DEF Acquire, Forget, Types, StepOf
  <2>2. AtTicket(r)
    BY Zenon DEF TurnInv
  <2>3. strategy[up[r]] = "RoundRobin" /\ Len(Servers[up[r]]) # 1
          => index = 0 \/ index = IndexOf(up[r], Before(ticket[Worker[r]]))
    BY <2>1, <2>2, Zenon DEF AtTicket, Pair
  <2> HIDE DEF index
  <2> QED BY <1>0, <2>1, <2>3, EndStep, Zenon DEF Selection
<1>10. ASSUME NEW r \in Requests, Retry(r) \/ Finish(r) PROVE TurnInv'
  <2>1. /\ StepOf(r) /\ pc[r] \in {"held", "none"} /\ pc'[r] \in {"retry", "idle"}
        /\ strategy' = strategy /\ ticket' = ticket /\ turn' = turn
    BY <1>0, <1>10 DEF Retry, Finish, Forget, Types, StepOf
  <2>2. AtTicket(r)' /\ (Drawing(r)' <=> Drawing(r))
    BY <2>1, Zenon DEF AtTicket, Pair, Drawing, Selection
  <2> QED BY <1>0, <2>1, <2>2, QuietStep, Zenon
<1>11. ASSUME NEW b \in MayFail, NEW ok \in BOOLEAN, SetHealthy(b, ok) PROVE TurnInv'
  <2>1. ASSUME NEW q \in Requests PROVE AtTicket(q)'
    <3>1. ASSUME pc[q] \in {"scan", "acquire"}, AllSteady(q)' PROVE AllSteady(q)
      <4>1. steady[q] \subseteq ServersOf(up[q])
        BY <3>1, Zenon DEF TurnInv, HealthInv, Watched, Selection
      <4>2. steady'[q] \subseteq steady[q] /\ up' = up
        BY <1>11, Zenon DEF SetHealthy
      <4> QED BY <3>1, <4>1, <4>2, Zenon DEF AllSteady
    <3>2. AtTicket(q)
      BY Zenon DEF TurnInv
    <3>3. pc' = pc /\ up' = up /\ todo' = todo /\ picked' = picked /\ ticket' = ticket /\ strategy' = strategy
      BY <1>11, Zenon DEF SetHealthy
    <3> QED BY <3>1, <3>2, <3>3, Zenon DEF AtTicket, Pair, Server
  <2>2. ASSUME NEW w \in Workers PROVE Recorded(w)'
    <3>1. pc' = pc /\ up' = up /\ ticket' = ticket /\ strategy' = strategy
      BY <1>11, Zenon DEF SetHealthy
    <3>2. LastTicket(w)' = LastTicket(w)
      BY <3>1, LastTicketKept, Zenon DEF Drawing
    <3>3. turn'[w] = turn[w] \/ (turn'[w].index = 0 /\ turn'[w].up = turn[w].up)
      BY <1>0, <1>11, Zenon DEF SetHealthy, Types
    <3>4. CASE turn'[w] = turn[w]
      BY <3>1, <3>2, <3>4, RecordedKept, Zenon DEF TurnInv
    <3>5. CASE turn'[w].index = 0 /\ turn'[w].up = turn[w].up
      <4>1. Recorded(w)
        BY Zenon DEF TurnInv
      <4> QED BY <3>5, <4>1, Zenon DEF Recorded
    <3> QED BY <3>3, <3>4, <3>5, Zenon
  <2> QED BY <1>0, <2>1, <2>2, Zenon DEF TurnInv
<1>12. ASSUME UNCHANGED vars PROVE TurnInv'
  <2>1. ASSUME NEW q \in Requests PROVE AtTicket(q)'
    BY <1>12, AtTicketKept, Zenon DEF vars, TurnInv
  <2>2. ASSUME NEW w \in Workers PROVE Recorded(w)'
    <3>1. LastTicket(w)' = LastTicket(w)
      BY <1>12, LastTicketKept, Zenon DEF vars, Drawing
    <3> QED BY <1>12, <3>1, RecordedKept, Zenon DEF vars, TurnInv
  <2> QED BY <1>0, <2>1, <2>2, Zenon DEF TurnInv
<1> QED
  BY <1>1, <1>2, <1>3, <1>4, <1>5, <1>6, <1>7, <1>8, <1>9, <1>10, <1>11, <1>12, Zenon DEF Next

(* The step of RoundRobinInTurn. *)
InTurn ==
  \A r \in Requests :
    LET last == turn[Worker[r]]
        len == Len(Servers[up[r]])
    IN (/\ pc[r] = "acquire" /\ pc'[r] = "held"
        /\ strategy[up[r]] = "RoundRobin" /\ AllSteady(r)
        /\ last.up = up[r] /\ last.index # 0
        /\ ticket[Worker[r]] # 1 \/ TicketSpan % len = 0)
         => picked[r] = Servers[up[r]][(last.index % len) + 1]

LEMMA BeforeRange ==
  ASSUME NEW x \in 0 .. TicketSpan - 1
  PROVE  Before(x) \in 0 .. TicketSpan - 1 /\ (Before(x) = 0 => x = 1)
  BY SpanAboveOne DEF Before

LEMMA PicksInTurn == TurnInv => InTurn
<1> SUFFICES ASSUME TurnInv, NEW r \in Requests,
                    pc[r] = "acquire", strategy[up[r]] = "RoundRobin", AllSteady(r),
                    turn[Worker[r]].up = up[r], turn[Worker[r]].index # 0,
                    ticket[Worker[r]] # 1 \/ TicketSpan % Len(Servers[up[r]]) = 0
             PROVE  picked[r] = Servers[up[r]][(turn[Worker[r]].index % Len(Servers[up[r]])) + 1]
  BY Zenon DEF InTurn
<1> DEFINE w == Worker[r]
           n == Len(Servers[up[r]])
           t == Before(ticket[w])
<1>1. w \in Workers /\ up[r] \in Upstreams /\ ticket[w] \in 0 .. TicketSpan - 1
  <2>1. Types /\ Holds(r)
    BY Zenon DEF TurnInv, HealthInv
  <2> QED BY <2>1, WorkerTicket, Zenon DEF Holds
<1>3. t \in 0 .. TicketSpan - 1 /\ (t = 0 => ticket[w] = 1)
  BY <1>1, BeforeRange, Zenon
<1>4. n # 1
  BY <1>1, Zenon DEF TurnInv, Recorded
<1>5. picked[r] = Servers[up[r]][IndexOf(up[r], t)]
  <2>1. AtTicket(r)
    BY Zenon DEF TurnInv
  <2> QED BY <1>4, <2>1, Zenon DEF AtTicket, Server
<1>6. Drawn(w)
  BY <1>4, Zenon DEF Drawn, Drawing, Selection
<1>7. turn[w].index = IndexOf(up[r], Before(t))
  <2>1. Recorded(w)
    BY <1>1, Zenon DEF TurnInv
  <2> QED BY <1>1, <1>6, <2>1, Zenon DEF Recorded, LastTicket
<1>8. IndexOf(up[r], t) = (IndexOf(up[r], Before(t)) % n) + 1
  BY <1>1, <1>3, NextIndex, Zenon
<1> QED BY <1>5, <1>7, <1>8, Zenon

(* Round robin takes the servers of an upstream in turn, for any number of *)
(* workers, upstreams and servers: no pick is skipped or repeated by a     *)
(* retry, a failed selection or a selection of another worker.             *)
THEOREM RoundRobinInTurnHolds == Spec => RoundRobinInTurn
<1>1. TurnInv /\ [Next]_vars => [InTurn]_vars
  BY PicksInTurn, Zenon
<1>2. RoundRobinInTurn <=> [][InTurn]_vars
  BY Zenon DEF RoundRobinInTurn, InTurn
<1> QED BY <1>1, <1>2, TurnInit, TurnStep, PTL DEF Spec

-----------------------------------------------------------------------------
(* Connections *)

LEMMA LeastInit == Init => LeastInv
<1> SUFFICES ASSUME Init PROVE LeastInv
  BY Zenon
<1>1. ASSUME NEW r \in Requests PROVE Compares(r) /\ Fewest(r)
  BY Zenon DEF Init, Compares, Fewest, Pair
<1> QED BY <1>1, HealthInit, Zenon DEF LeastInv

(* While one request of the worker selects, no other one does. *)
LEMMA LeastStepOf ==
  ASSUME OneWorker, LeastInv, HealthInv', NEW r \in Requests, StepOf(r),
         Runs(r) \/ pc[r] \in Selection, Compares(r)', Fewest(r)'
  PROVE  LeastInv'
<1>1. ASSUME NEW q \in Requests PROVE Compares(q)' /\ Fewest(q)'
  <2>1. CASE q # r
    <3>1. pc[q] \notin Selection
      BY <2>1, Zenon DEF OneWorker, Runs, LeastInv, HealthInv, OneSelection
    <3>2. pc'[q] \notin Selection
      BY <2>1, <3>1, Zenon DEF StepOf
    <3> QED BY <3>2, Zenon DEF Compares, Fewest, Pair, Selection
  <2> QED BY <2>1, Zenon
<1> QED BY <1>1, Zenon DEF LeastInv

(* A server of the upstream was not healthy all the time. *)
LEMMA NotSteady ==
  ASSUME NEW r \in Requests, up[r] \in Upstreams, NEW i \in DOMAIN Servers[up[r]],
         Server(r, i) \notin steady[r]
  PROVE  ~AllSteady(r)
  BY LenServers, Zenon DEF AllSteady, Server

LEMMA LeastStep ==
  ASSUME OneWorker
  PROVE  LeastInv /\ [Next]_vars => LeastInv'
<1> SUFFICES ASSUME LeastInv, [Next]_vars PROVE LeastInv'
  BY Zenon
<1>0. HealthInv' /\ HealthInv /\ Types
  BY HealthStep, Zenon DEF LeastInv, HealthInv
<1>1. ASSUME NEW r \in Requests, NEW u \in Upstreams, Arrive(r, u) PROVE LeastInv'
  <2>1. StepOf(r) /\ pc'[r] = "select" /\ Runs(r)
    BY <1>0, <1>1, Zenon DEF Arrive, Types, StepOf
  <2>2. Compares(r)' /\ Fewest(r)'
    BY <2>1, Zenon DEF Compares, Fewest, Pair
  <2> QED BY <1>0, <2>1, <2>2, LeastStepOf, Zenon
<1>2. ASSUME NEW r \in Requests, StartSingle(r) \/ StartIpHash(r) \/ StartRoundRobin(r)
      PROVE  LeastInv'
  <2>1. Len(Servers[up[r]]) = 1 \/ strategy[up[r]] # "LeastConnections"
    BY <1>2, Zenon DEF StartSingle, StartIpHash, StartRoundRobin
  <2>2. Runs(r) /\ \E s : Start(r, "scan", s)
    BY <1>2, Zenon DEF StartSingle, StartIpHash, StartRoundRobin, Calls
  <2>3. StepOf(r) /\ pc'[r] = "scan" /\ up' = up /\ strategy' = strategy
    BY <1>0, <2>2 DEF Start, Types, StepOf
  <2>4. Compares(r)' /\ Fewest(r)'
    BY <2>1, <2>3, Zenon DEF Compares, Fewest, Pair
  <2> QED BY <1>0, <2>2, <2>3, <2>4, LeastStepOf, Zenon
<1>3. ASSUME NEW r \in Requests, StartLeastConnections(r) PROVE LeastInv'
  <2> DEFINE n == Len(Servers[up[r]])
             t == ticket[Worker[r]]
             i == (t % n) + 1
             j == (((t + (n \div 2)) % TicketSpan) % n) + 1
  <2>1. pc[r] \in {"select", "retry"} /\ Runs(r) /\ n > 1
    BY <1>3, Zenon DEF StartLeastConnections, Calls
  <2>2. up[r] \in Upstreams /\ t \in 0 .. TicketSpan - 1
    BY <1>0, <2>1 DEF Types, HealthInv, Holds, Workers
  <2>3. n # 1
    <3>1. n \in Nat
      BY <2>2, LenServers, Zenon
    <3>2. \A m \in Nat : m > 1 => m # 1
      OBVIOUS
    <3> QED BY <2>1, <3>1, <3>2, Zenon
  <2>4. n = 2 => i # j
    BY <2>2, TwoCandidates, Zenon
  <2>5. Start(r, "first", <<i, j>>)
    BY <1>3, Zenon DEF StartLeastConnections
  <2> HIDE DEF i, j
  <2>6. StepOf(r) /\ pc'[r] = "first" /\ up' = up /\ todo'[r] = <<i, j>>
    BY <1>0, <2>5, Zenon DEF Start, Types, StepOf
  <2>7. Compares(r)' /\ Fewest(r)'
    <3>1. todo'[r][1] = i /\ todo'[r][2] = j /\ up'[r] = up[r]
      <4>1. todo'[r] = <<i, j>> => todo'[r][1] = i /\ todo'[r][2] = j
        BY PairElements, Zenon
      <4> QED BY <2>6, <4>1, Zenon
    <3>2. pc'[r] # "acquire" /\ pc'[r] # "scan" /\ pc'[r] # "second" /\ pc'[r] # "compare"
      BY <2>6, Zenon
    <3>3. Len(Servers[up'[r]]) # 1 /\ (Len(Servers[up'[r]]) = 2 => todo'[r][1] # todo'[r][2])
      BY <2>3, <2>4, <3>1, Zenon
    <3> QED BY <3>2, <3>3, Zenon DEF Compares, Fewest
  <2> QED BY <1>0, <2>1, <2>6, <2>7, LeastStepOf, Zenon
<1>4. ASSUME NEW r \in Requests, ScanHit(r) PROVE LeastInv'
  <2>1. /\ StepOf(r) /\ pc[r] = "scan" /\ pc'[r] = "acquire" /\ up' = up /\ steady' = steady
        /\ todo[r] # <<>> /\ picked'[r] = Server(r, Head(todo[r]))
        /\ conns' = conns /\ strategy' = strategy
    BY <1>0, <1>4, Zenon DEF ScanHit, Pick, Step, Types, StepOf
  <2>2. up[r] \in Upstreams /\ todo[r] \in Seq(DOMAIN Servers[up[r]])
    BY <1>0, <2>1, Zenon DEF HealthInv, Holds, Candidates, Selection
  <2>3. Head(todo[r]) \in DOMAIN Servers[up[r]]
    BY <2>1, <2>2, HeadOf, Zenon
  <2>4. ASSUME Len(Servers[up[r]]) = 1, NEW b \in ServersOf(up[r])
        PROVE  conns[Server(r, Head(todo[r]))] <= conns[b]
    <3>1. DOMAIN Servers[up[r]] = {1} /\ b \in Backends
      BY <2>2, <2>4, OneServer, LenServers, Zenon
    <3>2. b = Server(r, Head(todo[r]))
      BY <2>3, <3>1, Zenon DEF ServersOf, Server
    <3>3. conns[b] \in Int
      BY <1>0, <3>1, Zenon DEF Types
    <3> QED BY <3>2, <3>3
  <2>5. Fewest(r)'
    <3>1. Compares(r)
      BY Zenon DEF LeastInv
    <3> QED BY <2>1, <2>4, <3>1, Zenon DEF Fewest, Compares, AllSteady, Server
  <2>6. Compares(r)'
    BY <2>1, Zenon DEF Compares, Pair
  <2> QED BY <1>0, <2>1, <2>5, <2>6, LeastStepOf, Zenon DEF Selection
<1>5. ASSUME NEW r \in Requests, ScanMiss(r) PROVE LeastInv'
  <2>1. /\ StepOf(r) /\ pc[r] = "scan" /\ pc'[r] = "scan" /\ up' = up /\ steady' = steady
        /\ strategy' = strategy
    BY <1>0, <1>5, Zenon DEF ScanMiss, Step, Types, StepOf
  <2>2. Compares(r)
    BY Zenon DEF LeastInv
  <2>3. Compares(r)' /\ Fewest(r)'
    BY <2>1, <2>2, Zenon DEF Compares, Fewest, AllSteady, Pair
  <2> QED BY <1>0, <2>1, <2>3, LeastStepOf, Zenon DEF Selection
<1>6. ASSUME NEW r \in Requests, LoadFirst(r) PROVE LeastInv'
  <2> DEFINE b == Server(r, todo[r][1])
  <2>1. /\ StepOf(r) /\ pc[r] = "first" /\ pc'[r] = "second" /\ up' = up /\ steady' = steady
        /\ todo' = todo /\ strategy' = strategy
        /\ loaded'[r] # 1 => ~healthy[b]
    BY <1>0, <1>6, Zenon DEF LoadFirst, Step, Types, StepOf
  <2>2. Compares(r) /\ Watched(r)
    BY <1>0, Zenon DEF LeastInv, HealthInv
  <2>3. loaded'[r] # 1 => b \notin steady[r]
    BY <2>1, <2>2, Zenon DEF Watched, Selection
  <2> HIDE DEF b
  <2>4. Compares(r)' /\ Fewest(r)'
    BY <2>1, <2>2, <2>3, Zenon DEF Compares, Fewest, Pair, Server, b
  <2> QED BY <1>0, <2>1, <2>4, LeastStepOf, Zenon DEF Selection
<1>7. ASSUME NEW r \in Requests, LoadSecond(r) PROVE LeastInv'
  <2> DEFINE b1 == Server(r, todo[r][1])
             b2 == Server(r, todo[r][2])
  <2>1. /\ StepOf(r) /\ pc[r] = "second" /\ up' = up /\ steady' = steady /\ strategy' = strategy
        /\ pc'[r] \in {"load", "acquire", "scan"}
        /\ pc'[r] = "load" => todo' = todo
        /\ pc'[r] # "load" => loaded[r] # 1 \/ ~healthy[b2]
    BY <1>0, <1>7 DEF LoadSecond, Pick, Step, Types, StepOf
  <2>2. Compares(r) /\ Watched(r)
    BY <1>0, Zenon DEF LeastInv, HealthInv
  <2>3. /\ up[r] \in Upstreams /\ todo[r] \in Seq(DOMAIN Servers[up[r]]) /\ Len(todo[r]) = 2
    BY <1>0, <2>1, Zenon DEF HealthInv, Holds, Candidates, Selection, Pair
  <2>4. todo[r][1] \in DOMAIN Servers[up[r]] /\ todo[r][2] \in DOMAIN Servers[up[r]]
    BY <2>3, PairOf, Zenon
  <2>5. pc'[r] # "load" => b1 \notin steady[r] \/ b2 \notin steady[r]
    BY <2>1, <2>2, Zenon DEF Compares, Watched, Selection
  <2>6. pc'[r] # "load" => ~AllSteady(r)
    BY <2>3, <2>4, <2>5, NotSteady, Zenon
  <2>7. Compares(r)'
    BY <2>1, <2>2, <2>6, Zenon DEF Compares, AllSteady, Pair
  <2>8. Fewest(r)'
    BY <2>1, <2>6, Zenon DEF Fewest, AllSteady
  <2> QED BY <1>0, <2>1, <2>7, <2>8, LeastStepOf, Zenon DEF Selection
<1>8. ASSUME NEW r \in Requests, LoadConns(r) PROVE LeastInv'
  <2>1. /\ StepOf(r) /\ pc[r] = "load" /\ pc'[r] = "compare" /\ up' = up /\ conns' = conns
        /\ todo' = todo /\ strategy' = strategy
        /\ loaded'[r] = conns[Server(r, todo[r][1])]
    BY <1>0, <1>8, Zenon DEF LoadConns, Step, Types, StepOf
  <2>2. Compares(r)
    BY Zenon DEF LeastInv
  <2>3. Compares(r)' /\ Fewest(r)'
    BY <2>1, <2>2, Zenon DEF Compares, Fewest, Pair, Server
  <2> QED BY <1>0, <2>1, <2>3, LeastStepOf, Zenon DEF Selection
<1>9. ASSUME NEW r \in Requests, Compare(r) PROVE LeastInv'
  <2> DEFINE b1 == Server(r, todo[r][1])
             b2 == Server(r, todo[r][2])
  <2>1. /\ StepOf(r) /\ pc[r] = "compare" /\ pc'[r] = "acquire" /\ up' = up /\ conns' = conns
        /\ picked'[r] = IF loaded[r] <= conns[b2] THEN b1 ELSE b2
    BY <1>0, <1>9, Zenon DEF Compare, Pick, Step, Types, StepOf
  <2>2. /\ Len(Servers[up[r]]) # 1 /\ loaded[r] = conns[b1]
        /\ Len(Servers[up[r]]) = 2 => todo[r][1] # todo[r][2]
    BY <2>1, Zenon DEF LeastInv, Compares, Pair
  <2>3. /\ up[r] \in Upstreams /\ todo[r] \in Seq(DOMAIN Servers[up[r]]) /\ Len(todo[r]) = 2
    BY <1>0, <2>1, Zenon DEF HealthInv, Holds, Candidates, Selection, Pair
  <2>4. todo[r][1] \in DOMAIN Servers[up[r]] /\ todo[r][2] \in DOMAIN Servers[up[r]]
    BY <2>3, PairOf, Zenon
  <2>5. b1 \in Backends /\ b2 \in Backends
    BY <2>3, <2>4, LenServers, Zenon DEF Server
  <2>6. conns[b1] \in Int /\ conns[b2] \in Int
    BY <1>0, <2>5, Zenon DEF Types
  <2>7. conns[picked'[r]] <= conns[b1] /\ conns[picked'[r]] <= conns[b2]
    <3> HIDE DEF b1, b2
    <3>1. CASE conns[b1] <= conns[b2]
      <4>1. picked'[r] = b1
        BY <2>1, <2>2, <3>1, Zenon
      <4>2. conns[b1] <= conns[b1]
        BY <2>6
      <4> QED BY <3>1, <4>1, <4>2, Zenon
    <3>2. CASE ~(conns[b1] <= conns[b2])
      <4>1. picked'[r] = b2
        BY <2>1, <2>2, <3>2, Zenon
      <4>2. conns[b2] <= conns[b2] /\ conns[b2] <= conns[b1]
        BY <2>6, <3>2
      <4> QED BY <4>1, <4>2, Zenon
    <3> QED BY <3>1, <3>2, Zenon
  <2>8. ASSUME Len(Servers[up[r]]) <= 2, NEW b \in ServersOf(up[r]) PROVE b \in {b1, b2}
    <3>1. PICK k \in DOMAIN Servers[up[r]] : b = Servers[up[r]][k]
      BY <2>8, Zenon DEF ServersOf
    <3>2. Len(Servers[up[r]]) \in Nat \ {0} /\ DOMAIN Servers[up[r]] = 1 .. Len(Servers[up[r]])
      BY <2>3, LenServers, Zenon
    <3>3. k = todo[r][1] \/ k = todo[r][2]
      <4>1. \A n \in Nat \ {0} : n # 1 /\ n <= 2 => n = 2 /\ 1 .. n = {1, 2}
        OBVIOUS
      <4>2. Len(Servers[up[r]]) = 2 /\ DOMAIN Servers[up[r]] = {1, 2}
        BY <2>2, <2>8, <3>2, <4>1, Zenon
      <4> QED BY <2>2, <2>4, <4>2, Zenon
    <3> QED BY <3>1, <3>3, Zenon DEF Server
  <2>9. Fewest(r)'
    <3> HIDE DEF b1, b2
    <3> QED BY <2>1, <2>7, <2>8, Zenon DEF Fewest
  <2>10. Compares(r)'
    BY <2>1, Zenon DEF Compares, Pair
  <2> QED BY <1>0, <2>1, <2>9, <2>10, LeastStepOf, Zenon DEF Selection
<1>10. ASSUME NEW r \in Requests, ScanEnd(r) \/ Acquire(r) \/ Retry(r) \/ Finish(r) PROVE LeastInv'
  <2>1. StepOf(r) /\ pc'[r] \in {"none", "held", "retry", "idle"}
    BY <1>0, <1>10 DEF ScanEnd, Acquire, Retry, Finish, Forget, Types, StepOf
  <2>2. Runs(r) \/ pc[r] \in Selection
    BY <1>10, Zenon DEF ScanEnd, Acquire, Retry, Finish, Selection
  <2>3. Compares(r)' /\ Fewest(r)'
    BY <2>1, Zenon DEF Compares, Fewest, Pair
  <2> QED BY <1>0, <2>1, <2>2, <2>3, LeastStepOf, Zenon
<1>11. ASSUME NEW b \in MayFail, NEW ok \in BOOLEAN, SetHealthy(b, ok) PROVE LeastInv'
  <2>1. ASSUME NEW q \in Requests PROVE Compares(q)' /\ Fewest(q)'
    <3>1. /\ pc' = pc /\ up' = up /\ todo' = todo /\ picked' = picked /\ loaded' = loaded
          /\ conns' = conns /\ strategy' = strategy /\ steady'[q] \subseteq steady[q]
      BY <1>11, Zenon DEF SetHealthy
    <3>2. ASSUME pc[q] \in Selection, AllSteady(q)' PROVE AllSteady(q)
      <4>1. steady[q] \subseteq ServersOf(up[q])
        BY <1>0, <3>2, Zenon DEF HealthInv, Watched
      <4> QED BY <3>1, <3>2, <4>1, Zenon DEF AllSteady
    <3>3. Compares(q) /\ Fewest(q)
      BY Zenon DEF LeastInv
    <3>4. Compares(q)'
      BY <3>1, <3>2, <3>3, Zenon DEF Compares, Server, Selection
    <3>5. Fewest(q)'
      BY <3>1, <3>2, <3>3, Zenon DEF Fewest, Selection
    <3> QED BY <3>4, <3>5, Zenon
  <2> QED BY <1>0, <2>1, Zenon DEF LeastInv
<1>12. ASSUME UNCHANGED vars PROVE LeastInv'
  <2>1. ASSUME NEW q \in Requests PROVE Compares(q)' /\ Fewest(q)'
    BY <1>12, Zenon DEF vars, LeastInv, Compares, Fewest, AllSteady, Server
  <2> QED BY <1>0, <2>1, Zenon DEF LeastInv
<1> QED
  BY <1>1, <1>2, <1>3, <1>4, <1>5, <1>6, <1>7, <1>8, <1>9, <1>10, <1>11, <1>12, Zenon DEF Next

(* On one worker least connections acquires, of two servers that stay      *)
(* healthy, the one with fewer connections, for any number of requests,    *)
(* upstreams and retries.                                                  *)
THEOREM FewestConnectionsHolds == ASSUME OneWorker PROVE Spec => []FewestConnections
<1>1. LeastInv => FewestConnections
  BY Zenon DEF LeastInv, Fewest, FewestConnections
<1>2. LeastInv /\ [Next]_vars => LeastInv'
  BY LeastStep, Zenon
<1> QED BY <1>1, <1>2, LeastInit, PTL DEF Spec
=============================================================================
