--------------------------- MODULE ConfigCompile ---------------------------
(***************************************************************************)
(* Upstreams, routes and gateways (compile.rs) and the context a gateway   *)
(* serves from (state.rs, AppContext::build): from the raw blocks of       *)
(* ConfigParse to the router.                                              *)
(***************************************************************************)
EXTENDS PolicyCompile, Router

CONSTANTS
    Labels(_),          \* the labels of a host name
    RewriteOk(_)        \* whether the regexes of a rewrite block compile

BalanceStrategy(s) ==
    CASE s \in {"round_robin", "round-robin"} -> Some("round_robin")
      [] s \in {"least_connections", "least-connections"} -> Some("least_connections")
      [] s \in {"ip_hash", "ip-hash"} -> Some("ip_hash")
      [] OTHER -> None

compile_health_check(hc) ==
    IF hc.path # None /\ (hc.path[1][1] # "/" \/ Contains(hc.path[1], " ")) THEN Err
    ELSE Ok([path |-> hc.path, interval |-> UnwrapOr(hc.interval, 10000), timeout |-> UnwrapOr(hc.timeout, 5000),
             unhealthy_threshold |-> UnwrapOr(hc.unhealthy_threshold, 3),
             healthy_threshold |-> UnwrapOr(hc.healthy_threshold, 2)])

parse_detailed_server(s) ==
    LET a == UpstreamAddress(s.endpoint)
        p == IF s.protocol = None THEN Ok("http1") ELSE NetworkProtocol(s.protocol[1])
    IN IF a.ok /\ p.ok THEN Ok([address |-> a.v, protocol |-> p.v, weight |-> s.weight]) ELSE Err

compile_servers(servers) == Keep(Map(servers, parse_detailed_server), "server")

compile_upstream(index, raw) ==
    LET strategy == IF raw.balance_strategy = None THEN Some("round_robin") ELSE BalanceStrategy(raw.balance_strategy[1])
        servers == compile_servers(raw.static_servers)
        health == IF raw.health_check = None THEN Ok(None) ELSE SomeIfOk(compile_health_check(raw.health_check[1]))
    IN Res([id |-> index, name |-> raw.name, servers |-> servers.v,
            balance_strategy |-> UnwrapOr(strategy, "round_robin"),
            health_check |-> IF health.ok THEN health.v ELSE None],
           servers.e \cup If(strategy = None, "strategy") \cup If(~health.ok, "health"))

----------------------------------------------------------------------------
(* routes *)

\* Routes without hosts belong to the default host.
shared_host(a, b) ==
    \/ a = <<>> /\ b = <<>>
    \/ \E i \in DOMAIN a, j \in DOMAIN b : Lower(a[i]) = Lower(b[j])

route_methods(r) == IF r.methods = <<>> THEN AllMethods ELSE MethodSet(Range(r.methods))

\* route and host blocks as path routes, with the conflicts between them
expand_routes(raw) ==
    LET Flat(r) == IF r.kind = "path" THEN Ok(<<[route |-> r.route, host |-> FALSE]>>)
                   ELSE Then(expand(r), LAMBDA rs : Ok(Map(rs, LAMBDA x : [route |-> x, host |-> TRUE])))
        Clash(rs, i, j) == /\ TrimSlashes(rs[i].route.path) = TrimSlashes(rs[j].route.path)
                       /\ shared_host(rs[i].route.hosts, rs[j].route.hosts)
                       /\ \/ rs[i].host # rs[j].host
                          \/ intersects(route_methods(rs[i].route), route_methods(rs[j].route))
        Checked(rs, errors) == Res(Map(rs, LAMBDA x : x.route),
                                   errors \cup If(\E i, j \in DOMAIN rs : i < j /\ Clash(rs, i, j), "declared-twice"))
        All(flat) == Checked(FlattenSeq(flat.v), flat.e)
    IN All(Keep(Map(raw, Flat), "expand"))

FsFlags == {"read", "index", "etag", "last_modified", "range"}   \* FsFlags::secure

StaticFlags(flags) ==
    LET Set(name, k) == IF flags[k] = None THEN {name} \cap FsFlags ELSE IF flags[k][1] THEN {name} ELSE {}
    IN (FsFlags \ {"index"}) \cup Set("list", "listing") \cup Set("dotfiles", "dotfiles")
       \cup Set("index", "index") \cup Set("symlinks", "symlinks")

\* upstreams: the function from names to compiled upstreams
compile_route_backend(b, upstreams) ==
    IF b.kind = "static"
    THEN Res(Some([kind |-> "static", to |-> b.root, flags |-> StaticFlags(b.flags),
                   skip |-> IF GlobsOk(b.exclude_paths) THEN Some(b.exclude_paths) ELSE None]),
             If(~GlobsOk(b.exclude_paths), "glob"))
    ELSE IF b.name \in DOMAIN upstreams
    THEN Res(Some([kind |-> "upstream", to |-> b.name, id |-> upstreams[b.name].id]), {})
    ELSE Res(None, {"unknown-upstream"})

TrailingSlash(t) == IF t # None /\ t[1] \in {"always", "never", "ignore"} THEN t ELSE None
compile_rewrite(raw) == [raw EXCEPT !.trailing_slash = TrailingSlash(@)]

\* the pairs of a header map whose names and values are valid, the last wins
HeaderPairs(pairs) ==
    LET good == SelectSeq(pairs, LAMBDA p : HeaderNameOk(p[1]) /\ p[2] # "bad")
        last(n) == CHOOSE i \in DOMAIN good : Lower(good[i][1]) = n /\ \A j \in DOMAIN good : Lower(good[j][1]) = n => j <= i
    IN Res([n \in {Lower(good[i][1]) : i \in DOMAIN good} |-> good[last(n)][2]], If(good # pairs, "header"))
HeaderNames(names) == Res({Lower(n) : n \in {m \in Range(names) : HeaderNameOk(m)}}, If("bad" \in Range(names), "header"))

\* [client, upstream] for both directions; nothing at all is None
compile_headers(inbound, outbound) ==
    LET none == [opts |-> RawHeadersOps, upstream |-> RawHeadersOps]
        i == UnwrapOr(inbound, none)
        o == UnwrapOr(outbound, none)
        parts == [client_set |-> HeaderPairs(i.opts.set), client_remove |-> HeaderNames(i.opts.remove),
                  upstream_set |-> HeaderPairs(i.upstream.set), upstream_remove |-> HeaderNames(i.upstream.remove),
                  out_set |-> HeaderPairs(o.opts.set), out_remove |-> HeaderNames(o.opts.remove),
                  from_remove |-> HeaderNames(o.upstream.remove)]
        sets == {"client_set", "upstream_set", "out_set"}
        empty == \A k \in DOMAIN parts : IF k \in sets THEN DOMAIN parts[k].v = {} ELSE parts[k].v = {}
    IN Res(IF empty THEN None ELSE Some([k \in DOMAIN parts |-> parts[k].v]), UNION {parts[k].e : k \in DOMAIN parts})

\* what a limiter of this route is told apart by
LimiterIdentity(r) == IF r.hosts = <<>> /\ r.methods = <<>> THEN <<r.path>> ELSE <<r.hosts, r.methods, r.path>>

\* scope: [policies |-> kind -> name -> config, upstreams]
RouteActions(r) == LET actions == UnwrapOr(r.policies, RawRoutePolicies)
                   IN [k \in PolicyKinds |-> IF actions[k] # None /\ (k = "helmet" \/ actions[k][1].act # "off")
                                             THEN actions[k] ELSE None]

\* the route of its compiled parts
RouteOf(r, backend, protocols, resolved, headers) ==
    LET streaming == IF r.streaming = None THEN None
                     ELSE Some([k \in {"buffering", "chunked"} |-> UnwrapOr(r.streaming[1][k], TRUE)])
    IN IF backend.v = None THEN Res(<<>>, backend.e)
       ELSE Res(<<[path |-> r.path, hosts |-> r.hosts, methods |-> r.methods, backend |-> backend.v[1],
                   policies |-> [k \in PolicyKinds |-> resolved[k].v],
                   rewrite |-> IF r.rewrite = None THEN None ELSE Some(compile_rewrite(r.rewrite[1])),
                   timeouts |-> r.timeouts, streaming |-> streaming, headers |-> headers.v]>>,
                backend.e \cup protocols.e \cup If(protocols.v # <<>>, "w-protocols")
                \cup UNION {resolved[k].e : k \in PolicyKinds} \cup If(RouteActions(r)["waf"] # None, "w-waf")
                \cup If(r.streaming # None /\ r.streaming[1].chunked # None, "w-chunked") \cup headers.e)

compile_route(r, scope) ==
    RouteOf(r, compile_route_backend(r.backend, scope.upstreams), Keep(Map(r.protocols, NetworkProtocol), "route-protocol"),
            [k \in PolicyKinds |-> IF RouteActions(r)[k] = None THEN Res(None, {})
                                   ELSE ResolvePolicy(k, RouteActions(r)[k][1], scope.policies[k], LimiterIdentity(r))],
            compile_headers(r.inbound_headers, r.outbound_headers))

----------------------------------------------------------------------------
(* gateways *)

\* what the routes may refer to; the last upstream of a name
RouteScope(maps, upstreams) ==
    [policies |-> [k \in PolicyKinds |-> maps[k].v],
     upstreams |-> [n \in {upstreams[i].name : i \in DOMAIN upstreams} |->
                      upstreams[Max({i \in DOMAIN upstreams : upstreams[i].name = n})]]]

\* the gateway of the compiled parts, with the checks over all of a kind
GatewayOf(name, listening, ups, routes, errors) ==
    LET upstreams == Map(ups, LAMBDA u : u.v)
    IN Res([name |-> name, listeners |-> Values(listening), upstreams |-> upstreams, routes |-> Values(routes)],
           errors \cup Errors(ups) \cup validate_upstream_names(upstreams)
           \cup Errors(listening) \cup validate_listeners(Values(listening)) \cup Errors(routes))

WithRoutes(raw, maps, ups, expanded) ==
    GatewayOf(raw.name, Map(raw.listeners, compile_listener), ups,
              Map(expanded.v, LAMBDA r : compile_route(r, RouteScope(maps, Map(ups, LAMBDA u : u.v)))),
              UNION {maps[k].e : k \in PolicyKinds} \cup expanded.e)

compile_gateway(raw) ==
    WithRoutes(raw, [k \in PolicyKinds |-> PolicyMap(raw.policies, k)],
               [i \in DOMAIN raw.upstreams |-> compile_upstream(i, raw.upstreams[i])], expand_routes(raw.routes))

\* "ok", "rejected" with the error codes, or "panic"
CompileOutcome(m, gs) ==
    LET all == m.e \cup Errors(gs)
    IN [outcome |-> IF "panic" \in all THEN "panic" ELSE IF all \ Warnings = {} THEN "ok" ELSE "rejected",
        master |-> m.v, gateways |-> Map(gs, LAMBDA g : g.v), errors |-> all \ Warnings]

compile(master, gateways) == CompileOutcome(compile_master(master), Map(gateways, compile_gateway))

----------------------------------------------------------------------------
(* AppContext::build, the router *)

route_keys(r) ==
    LET p == TrimSlashes(r.path)
    IN IF r.hosts = <<>> THEN {<<"", p>>} ELSE {<<Lower(r.hosts[i]), p>> : i \in DOMAIN r.hosts}

\* A CORS route with methods also gets OPTIONS, unless one of its paths has
\* a route for it already.
AddRoute(acc, r) ==
    LET preflight == /\ r.policies["cors"] # None /\ r.methods # <<>>
                     /\ route_keys(r) \cap acc.options = {}
        methods == Range(r.methods) \cup IF preflight THEN {"OPTIONS"} ELSE {}
        options == acc.options \cup IF preflight THEN route_keys(r) ELSE {}
    IN IF ~acc.ok \/ ~RewriteOk(r.rewrite) THEN [acc EXCEPT !.ok = FALSE]
       ELSE [options |-> options]
            @@ add_route(acc.router, [path |-> r.path, methods |-> methods, hosts |-> Map(r.hosts, Labels), value |-> r])

\* [ok, router, options]
AppContextBuild(g) ==
    LET listed == UNION {route_keys(g.routes[i]) : i \in {k \in DOMAIN g.routes : Contains(g.routes[k].methods, "OPTIONS")}}
    IN FoldLeft(AddRoute, [ok |-> TRUE, router |-> EmptyRouter, options |-> listed], g.routes)
=============================================================================
