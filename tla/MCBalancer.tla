----------------------------- MODULE MCBalancer -----------------------------
(* Two requests of one worker; upstreams of one, two and three servers     *)
(* with one strategy for all, or two of them drawing tickets by turns.     *)
EXTENDS Balancer, TLC

MCWorker == [r \in Requests |-> "w1"]

MCHashIp == ("r1" :> 4) @@ ("r2" :> 7)

MCServers == ("solo" :> <<"s">>) @@ ("pair" :> <<"a", "b">>) @@ ("trio" :> <<"x", "y", "z">>)

MCStrategies ==
  {[u \in Upstreams |-> s] : s \in {"RoundRobin", "LeastConnections", "IpHash"}}
    \cup {[u \in Upstreams |-> IF u = "pair" THEN "LeastConnections" ELSE "RoundRobin"]}
=============================================================================
