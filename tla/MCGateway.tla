----------------------------- MODULE MCGateway ------------------------------
(* Two configurations.  The second drops an upstream, so that the other one *)
(* gets its id, and lists one server twice.                                 *)
EXTENDS Gateway, TLC

Up(n, s) == [name |-> n, servers |-> s]

MCConfigs ==
  {[upstreams |-> <<Up("api", <<"a1", "a2">>), Up("web", <<"a1">>)>>,
    target |-> ("/api" :> 1) @@ ("/web" :> 2)],
   [upstreams |-> <<Up("web", <<"a1", "a1">>)>>,
    target |-> ("/api" :> 1) @@ ("/web" :> 1)]}
=============================================================================
