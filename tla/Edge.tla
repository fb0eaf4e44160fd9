-------------------------------- MODULE Edge --------------------------------
(***************************************************************************)
(* What happens to a request before an upstream is chosen, and to a        *)
(* configuration before it is served: the parts of the gateway that are    *)
(* given their inputs one by one (configuration blocks, routes, rewrite    *)
(* rules, globs, networks, the chunks of a body) or that serve one request *)
(* on their own (static files, authentication), and the installer.         *)
(*                                                                         *)
(* A behaviour is about one of them, its scene.  `given` is what the part  *)
(* has been given so far and `built` what its code made of it; the scenes  *)
(* "rewrite", "body", "static", "auth" and "release" are the state         *)
(* machines of the modules Rewrite, Waf, StaticFiles, Auth and Release.    *)
(***************************************************************************)
EXTENDS ConfigCompile, Rewrite, Glob, Ingress, WafCompile, Waf, StaticFiles, Auth, Release

CONSTANTS
  RouteList, Hosts, Methods, Paths, MaxRoutes,       \* router
  PatternList, GlobInputs, MaxPatterns,              \* globs
  Access, Peers, Chains, MaxNets,                    \* listeners
  Filters, FilterNets, FilterPorts, Frames, MaxCalls, \* the ingress filter
  CorsPolicies, CorsRequests,                        \* CORS
  PolicyBlocks, PolicyMarks, Marks(_, _),            \* inheritance of policies
  Faults, MaxFaults                                  \* configuration errors

VARIABLES scene, given, built

services == <<rewriteVars, wafVars, authVars, staticVars, releaseVars>>
edgeVars == <<scene, given, built, services>>

Gives(name, more, result) ==
  /\ scene = name
  /\ given' = more
  /\ built' = result
  /\ UNCHANGED <<scene, services>>

-----------------------------------------------------------------------------
(* Routes and globs are added one at a time. *)

RouteAdded(i) ==
  /\ scene = "router" /\ built.ok /\ Len(given) < MaxRoutes
  /\ Gives("router", Append(given, i), add_route(built.router, RouteList[i]))

PatternAdded(i) ==
  /\ scene = "glob" /\ built.ok /\ Len(given) < MaxPatterns
  /\ Gives("glob", Append(given, PatternList[i]), glob_compile(Append(given, PatternList[i])))

-----------------------------------------------------------------------------
(* A listener block with its access rules, in the new form or as the legacy    *)
(* network_policy; given.nets are pairs <<list, range>>.                       *)
Entry(k, v) == [k |-> k, v |-> v]
Listed(g, list) == LET own == SelectSeq(g.nets, LAMBDA n : n[1] = list) IN [i \in DOMAIN own |-> own[i][2]]
Unless(absent, block) == IF absent THEN <<>> ELSE block

ListenerBlock(g) ==
  LET access == Access[g.access]
      header == Unless(access.header = "none", <<Entry("real_ip_header", access.header)>>)
      Field(list, k) == Unless(Listed(g, list) = <<>>, <<Entry(k, Listed(g, list))>>)
      firewall == Field("allow", "allow") \o Field("deny", "deny")
      trusted == Field("trusted", "allowed_ips") \o header
                 \o Unless(access.untrusted = "none", <<Entry("on_untrusted", access.untrusted)>>)
      legacy == Field("allow", "allowed_ip_ranges") \o Field("deny", "blocked_ip_ranges")
                \o Field("trusted", "proxy_allowed_ips") \o header
                \o Unless(access.untrusted = "none", <<Entry("policy", access.untrusted)>>)
  IN  <<Entry("address", IF access.unix THEN [form |-> "unix", path |-> "s", len |-> 1] ELSE [form |-> "port", port |-> 80])>>
      \o IF access.legacy THEN <<Entry("network_policy", legacy)>>
         ELSE Unless(firewall = <<>>, <<Entry("firewall", firewall)>>)
              \o Unless(trusted = <<>>, <<Entry("trusted_proxies", trusted)>>)

\* Where a connection of the listener arrives.
Local(address) == IF address.t = "uds" THEN [unix |-> TRUE, path |-> address.path]
                  ELSE [unix |-> FALSE, ip |-> Addr(FALSE, 0), port |-> address.port]

\* The listener the gateway runs for a compiled one: the sets are built when it is compiled.
RuntimeListener(l) ==
  LET Net(r) == IpNetFromStr(r.ip, <<r.prefix>>)[1]
      tp == l.trusted_proxies
  IN  Local(l.address) @@
      [firewall |-> Map(l.firewall, LAMBDA f : Firewall(Map(f.allow, Net), Map(f.deny, Net))),
       trusted |-> Map(tp, LAMBDA t : TrustedProxies(Map(t.allowed_ips, Net), UnwrapOr(t.real_ip_header, "none"), t.on_untrusted))]

Listening(compiled) ==
  LET valid == compiled.e \ Warnings = {}
  IN  [accepted |-> valid, table |-> ListenerTable(IF valid THEN <<RuntimeListener(compiled.v[1])>> ELSE <<>>)]

LoadListener(g) == Listening(compile_listener(parse_raw_listener(ListenerBlock(g)).v))

NetAdded(list, net) ==
  /\ scene = "listener" /\ Len(given.nets) < MaxNets
  /\ LET more == [given EXCEPT !.nets = Append(@, <<list, net>>)] IN Gives("listener", more, LoadListener(more))

-----------------------------------------------------------------------------
(* An ingress filter is built and then called. *)

FilterOf(f) == FilterBuild(f.iface, f.loads, f.ports, f.allowed, f.blocked, f.allowed_on, f.blocked_on)

FilterCalled(c) ==
  /\ scene = "filter" /\ Len(given.calls) < MaxCalls
  /\ Gives("filter", [given EXCEPT !.calls = Append(@, c)], FilterCall(built, c))

-----------------------------------------------------------------------------
CorsBuilt(k) == scene = "cors" /\ given = 0 /\ Gives("cors", k, build_cors_from_raw(CorsPolicies[k]))

-----------------------------------------------------------------------------
(* A configuration of one gateway: parsed, compiled, and its router built. *)

Refused(outcome, errors) == [outcome |-> outcome, errors |-> errors, router |-> EmptyRouter]
Serving(ctx) == [outcome |-> IF ctx.ok THEN "ok" ELSE "conflict", errors |-> {}, router |-> ctx.router]
Compiled(c) == IF c.outcome = "ok" THEN Serving(AppContextBuild(c.gateways[1])) ELSE Refused(c.outcome, c.errors)
Parsed(m, g) == IF m.ok /\ g.ok THEN Compiled(compile(m.v, <<g.v>>)) ELSE Refused("syntax", {"syntax"})
Load(file) == Parsed(parse_raw_master(file.master), parse_raw_gateway(file.gateway))

BaseListeners == <<<<Entry("address", [form |-> "port", port |-> 80])>>>>
BaseUpstreams == <<[name |-> "u", body |-> <<Entry("static_servers", <<[str |-> [form |-> "socket", ip |-> "10.0.0.1", port |-> 80]]>>)>>]>>
ToUpstream == <<Entry("backend", [kind |-> "upstream", name |-> "u"])>>

\* What a block declares for a kind of policy: nothing, or one entry of its policies block.
Declares(kind, act) ==
  Unless(act = "none",
         <<Entry("policies", <<[k |-> kind, act |-> act, name |-> "base",
                                v |-> IF act = "extends" THEN PolicyBlocks[kind].over
                                      ELSE IF act = "local" THEN PolicyBlocks[kind].own ELSE <<>>]>>)>>)

\* A host block with two match blocks, of which the second declares nothing.
\* A case is the kind and the way the host block and the first match block declare.
PolicyFile(case) ==
  LET Match(path, act) == [pattern |-> [methods |-> <<"GET">>, path |-> path], body |-> Declares(case[3], act)]
      Base(kind) == Entry("policies", [kind |-> kind, name |-> "base", body |-> PolicyBlocks[kind].base])
  IN  [master |-> <<>>,
       gateway |-> <<Entry("listeners", BaseListeners), Entry("upstreams", BaseUpstreams),
                     Entry("routes", <<[kind |-> "host", hosts |-> <<"h">>, body |-> ToUpstream \o Declares(case[1], case[2]),
                                        matches |-> <<Match(<<"/", "a">>, case[4]), Match(<<"/", "b">>, "none")>>]>>)>>
                   \o Map(SetToSeq(PolicyKinds), Base)]

Acts == {"none", "direct", "off", "extends", "local"}

\* A valid configuration with the faulty blocks given added to it.
FaultyFile(faults) ==
  LET Added(part) == LET own == SelectSeq(faults, LAMBDA f : Faults[f].part = part) IN [i \in DOMAIN own |-> Faults[own[i]].block]
      route == [kind |-> "route", path |-> <<"/", "ok">>, body |-> ToUpstream]
      gateway == <<Entry("listeners", BaseListeners \o Added("listeners")), Entry("upstreams", BaseUpstreams \o Added("upstreams")),
                   Entry("routes", <<route>> \o Added("routes"))>>
  IN  [master |-> Added("master"), gateway |-> gateway \o Map(Added("policies"), LAMBDA p : Entry("policies", p))]

\* Two scenes load configurations: one with a policy declared in either block, or with faults added.
PolicyCases == PolicyKinds \X Acts \X PolicyKinds \X Acts
FaultCases == UNION {{f \in [1..n -> DOMAIN Faults] : \A i \in 1..(n - 1) : f[i] < f[i + 1]} : n \in 1..MaxFaults}

ConfigLoaded(case) ==
  /\ scene \in {"policies", "errors"} /\ given = <<>>
  /\ Gives(scene, case, Load(IF scene = "policies" THEN PolicyFile(case) ELSE FaultyFile(case)))

-----------------------------------------------------------------------------
Scenes == {"router", "rewrite", "glob", "listener", "filter", "body", "cors", "policies", "errors", "static", "auth", "release"}

RuleCalls == {"allow_on", "deny_on", "remove_allow_on", "remove_deny_on"}
Calls ==
  [op : RuleCalls, net : FilterNets, port : FilterPorts]
    \cup [op : {"add_port", "remove_port"}, port : FilterPorts] \cup [op : {"global"}]

Starts ==
  CASE scene = "router" -> given = <<>> /\ built = [ok |-> TRUE, router |-> EmptyRouter]
    [] scene = "glob" -> given = <<>> /\ built = glob_compile(<<>>)
    [] scene = "listener" -> \E k \in DOMAIN Access : given = [access |-> k, nets |-> <<>>] /\ built = LoadListener(given)
    [] scene = "filter" -> \E k \in DOMAIN Filters : given = [filter |-> k, calls |-> <<>>] /\ built = FilterOf(Filters[k])
    [] scene = "cors" -> given = 0 /\ built = Err
    [] OTHER -> given = <<>> /\ built = <<>>

\* The services start as they may in their own scene, and stay put in the others.
EdgeInit ==
  /\ scene \in Scenes
  /\ Starts
  /\ RewriteInit
  /\ WafInit /\ (scene = "body" \/ waf = 1)
  /\ AuthInit /\ (scene = "auth" \/ (key_set = NoKeySet /\ mix = CHOOSE m \in Mixes : TRUE))
  /\ StaticInit /\ (scene = "static" \/ disk = CHOOSE d \in Disks : TRUE)
  /\ ReleaseInit /\ (scene = "release" \/ (~caps /\ running = 0))

EdgeNext ==
  \/ \E i \in DOMAIN RouteList : RouteAdded(i)
  \/ \E i \in DOMAIN PatternList : PatternAdded(i)
  \/ \E list \in {"allow", "deny", "trusted"}, net \in DOMAIN Ranges : NetAdded(list, net)
  \/ \E c \in Calls : FilterCalled(c)
  \/ \E k \in DOMAIN CorsPolicies : CorsBuilt(k)
  \/ \E case \in IF scene = "policies" THEN PolicyCases ELSE FaultCases : ConfigLoaded(case)
  \/ scene = "rewrite" /\ RewriteNext /\ UNCHANGED <<scene, given, built, wafVars, authVars, staticVars, releaseVars>>
  \/ scene = "body" /\ WafNext /\ UNCHANGED <<scene, given, built, rewriteVars, authVars, staticVars, releaseVars>>
  \/ scene = "auth" /\ AuthNext /\ UNCHANGED <<scene, given, built, rewriteVars, wafVars, staticVars, releaseVars>>
  \/ scene = "static" /\ StaticNext /\ UNCHANGED <<scene, given, built, rewriteVars, wafVars, authVars, releaseVars>>
  \/ scene = "release" /\ ReleaseNext /\ UNCHANGED <<scene, given, built, rewriteVars, wafVars, authVars, staticVars>>

EdgeSpec == EdgeInit /\ [][EdgeNext]_edgeVars

-----------------------------------------------------------------------------
(* Properties.  Those of the services are FirstRuleWins (Rewrite),             *)
(* ChunkingInvisible (Waf), ProofOnce and FetchesBounded (Auth),               *)
(* OneVersionServed (StaticFiles) and SwapIsSafe (Release).                    *)

\* The pattern has static text behind a wildcard of the same segment.
WithSuffix(route) == LET p == normalize_pattern(route.path) IN \E i \in 1..(Len(p) - 1) : Wild(p[i]) /\ p[i + 1] # "/"

(* Router::match_route over the radix tree (ophan-router): in whatever order   *)
(* the routes were added, a request is answered by the most specific virtual   *)
(* host and pattern that match it, static text before a parameter before a     *)
(* catch-all at the first place where they differ, and 404 or 405 only when no *)
(* pattern, or none of that pattern's entries, takes it.  A parameter with     *)
(* text behind it is not backtracked into, so with one the answer may also be  *)
(* another matching route or 404.                                              *)
RoutingRefines ==
  scene = "router" /\ built.ok =>
    LET routes == {RouteList[given[k]] : k \in DOMAIN given}
        Matching(path) == {r.value : r \in {x \in routes : \E g \in Registered(x) : Matches(g.pattern, normalize_trailing_slash(path)) # {}}}
    IN  \A host \in Hosts, m \in Methods, path \in Paths :
          LET r == match_route(built.router, host, m, path)
              answer == IF r.status = 200 THEN r.value ELSE r.status
          IN  \/ answer \in Meaning(routes, host, m, path)
              \/ (\E x \in routes : WithSuffix(x)) /\ answer \in Matching(path) \cup {404}

(* PathMatcherSet::matches, on one trie of all the patterns: a path is         *)
(* excluded only when one of the patterns, taken alone, matches it as          *)
(* documented, and is excluded when one does, as long as every pattern can be  *)
(* walked with MAX_STACK_DEPTH frames.  A pattern that needs more may exclude  *)
(* less and stop the others too, never exclude more.  The code's `**` differs  *)
(* from the documented one in two ways, which are left out by name: before     *)
(* more text it stops at slashes only (InnerDeep), and a path that ends where  *)
(* it begins is excluded whatever follows (EndsAtDeep).                        *)
GlobsMeanAsDocumented ==
  scene = "glob" /\ built.ok =>
    LET patterns == {tokenize(given[i]).toks : i \in DOMAIN given}
        fits == \A toks \in patterns : FramesFor(toks) <= MAX_STACK_DEPTH
    IN  \A input \in GlobInputs :
          IF glob_matches(built.matcher, input)
          THEN \E toks \in patterns : Means(toks, input) \/ EndsAtDeep(toks, input)
          ELSE fits => \A toks \in patterns : Means(toks, input) => InnerDeep(toks)

\* The address is in one of the ranges, given as they are written.
Covered(ranges, ip) ==
  \E i \in DOMAIN ranges : LET r == Ranges[ranges[i]] IN net_contains(IpNet(r.ip.v6, r.ip.n, r.prefix), ip)

\* The hop closest to the listener that no listed proxy vouches for, or the farthest one.
ReportedBy(chain, trusted) ==
  LET broken == {k \in DOMAIN chain : chain[k] = <<>> \/ ~Covered(trusted, to_canonical(chain[k][1]))}
      hop == IF chain = <<>> THEN <<>> ELSE IF broken = {} THEN chain[1] ELSE chain[Max(broken)]
  IN  [i \in DOMAIN hop |-> to_canonical(hop[i])]

\* One header line per hop of X-Forwarded-For, one element per hop of Forwarded.
HeadersOf(chain) ==
  [xff |-> [k \in DOMAIN chain |-> <<chain[k]>>],
   forwarded |-> <<[k \in DOMAIN chain |-> <<[key |-> "proto", addr |-> <<>>], [key |-> "for", addr |-> chain[k]]>>]>>,
   single |-> IF chain = <<>> THEN <<>> ELSE Last(chain)]

(* From the access rules of a listener as they are written, in either form, to *)
(* what a connection meets (compile_listener, IpSet, ListenerFirewall,         *)
(* TrustedProxies): a peer is admitted exactly when no deny range covers it,   *)
(* an allow range does if there are any, and a listed proxy where others are   *)
(* rejected; and the client's address is the peer's own, or what the unbroken  *)
(* chain of listed proxies reports, and the scheme what a listed proxy says.   *)
(* A peer on a unix socket has no address and counts as listed.                *)
PeersJudgedAsWritten ==
  scene = "listener" /\ built.accepted =>
    LET allow == Listed(given, "allow")
        deny == Listed(given, "deny")
        trusted == Listed(given, "trusted")
        access == Access[given.access]
        header == IF access.legacy /\ access.header = "none" /\ trusted # <<>> THEN "x-forwarded-for" ELSE access.header
        rejects == access.untrusted \in {"reject", "deny"} /\ trusted # <<>>
        local == IF access.unix THEN [unix |-> TRUE, path |-> "s"] ELSE [unix |-> FALSE, ip |-> Addr(FALSE, 1), port |-> 80]
        listener == lookup(built.table, local)
    IN  \A peer \in IF access.unix THEN {<<>>} ELSE {<<p>> : p \in Peers} :
          LET own == Map(peer, to_canonical)
              listed == peer = <<>> \/ Covered(trusted, own[1])
              Client(chain) ==
                LET told == IF header \in {"x-forwarded-for", "forwarded"} THEN ReportedBy(chain, trusted)
                            ELSE IF header = "none" \/ chain = <<>> THEN <<>> ELSE Last(chain)
                IN  IF listed /\ told # <<>> THEN <<to_canonical(told[1])>> ELSE own
          IN  /\ guard_process(built.table, local, peer)
                   = (peer = <<>> \/ (/\ ~Covered(deny, own[1]) /\ (allow = <<>> \/ Covered(allow, own[1]))
                                      /\ (rejects => listed)))
              /\ \A chain \in Chains : client_address(listener, peer, HeadersOf(chain)) = Client(chain)
              /\ client_scheme(listener, FALSE, peer, <<<<"http">>, <<"x", "https">>>>) = IF listed THEN "https" ELSE "http"

\* The port rules in force by the contract of IngressBackend: allows and denies are kept apart, and
\* each is in force from the call that makes it, or from the start, to the one that removes it.
Network(net) == IpNet(net.v6, network(net), net.prefix)
InForce(f, calls) ==
  LET Given(list) == {[net |-> Network(list[i].net), port |-> list[i].port] : i \in DOMAIN list}
      Call(rules, c) ==
        LET rule == [net |-> Network(c.net), port |-> c.port]
        IN  CASE c.op = "allow_on" -> [rules EXCEPT !.allow = @ \cup {rule}]
              [] c.op = "deny_on" -> [rules EXCEPT !.deny = @ \cup {rule}]
              [] c.op = "remove_allow_on" -> [rules EXCEPT !.allow = @ \ {rule}]
              [] c.op = "remove_deny_on" -> [rules EXCEPT !.deny = @ \ {rule}]
              [] OTHER -> rules
  IN  FoldLeft(Call, [allow |-> Given(f.allowed_on), deny |-> Given(f.blocked_on)], calls)

\* The port is registered before the n-th call.
PortOpen(f, calls, port, n) ==
  LET own == {i \in 1..(n - 1) : calls[i].op \in {"add_port", "remove_port"} /\ calls[i].port = port}
  IN  IF own = {} THEN port \in f.ports ELSE calls[Max(own)].op = "add_port"

Covers(nets, ip) == \E net \in nets : net_contains(net, ip) \/ net_contains(net, to_canonical(ip))

\* Where the kernel's table differs from the contract: it has one entry per port and network, the longest
\* network decides, and so a deny gives way to an allow on a smaller network and to a later allow_on, or
\* remove_allow_on, of its own.
Displaced(deny, permits, calls, ip) ==
  LET own == {i \in DOMAIN calls : /\ calls[i].op \in {"allow_on", "remove_allow_on", "deny_on"}
                                   /\ [net |-> Network(calls[i].net), port |-> calls[i].port] = deny}
  IN  \/ \E a \in permits : a.port = deny.port /\ net_contains(a.net, ip) /\ a.net.prefix > deny.net.prefix
      \/ own # {} /\ calls[Max(own)].op # "deny_on"

(* IngressFilter against the contract of IngressBackend, after any calls.  The *)
(* kernel program drops a frame only on a registered port, when it can read    *)
(* the frame down to the port, and when a deny in force on that port covers    *)
(* the source; it drops every such frame whose deny is not displaced by an     *)
(* allow.  IPv4 rules on XDP must name single addresses, because the trie      *)
(* reads the octets of a wider one in the wrong order.  The software backend,  *)
(* as long as it is given no rules at run time, denies what a global or port   *)
(* rule denies, then admits what one allows, and closes registered ports to    *)
(* everyone else; a removed port takes its rules with it.  What the contract   *)
(* says beyond this the backends do not do: a deny that no allow outranks and  *)
(* global rules on XDP, and run-time rules in software.                        *)
FilterKeepsContract ==
  scene = "filter" =>
    LET f == Filters[given.filter]
        calls == given.calls
        rules == InForce(f, calls)
        narrow == \A r \in rules.allow \cup rules.deny : r.net.v6 \/ r.net.prefix = V4Bits
        frozen == \A i \in DOMAIN calls : calls[i].op \notin RuleCalls \cup {"global"}
    IN  \A ip \in Peers, port \in FilterPorts :
          LET open == PortOpen(f, calls, port, Len(calls) + 1)
              removed == \E i \in DOMAIN calls : calls[i].op = "remove_port" /\ calls[i].port = port /\ PortOpen(f, calls, port, i)
              On(some) == {r.net : r \in {x \in some : x.port = port /\ ~removed}}
              denies == {d \in rules.deny : d.port = port /\ net_contains(d.net, ip)}
          IN  IF built.kind = "xdp"
              THEN /\ ip.v6 \/ narrow => \A frame \in Frames :
                        LET drops == xdp_ingress(built, [src |-> ip, port |-> port] @@ frame.is) = "DROP"
                            read == open /\ IF ip.v6 THEN frame.v6 ELSE frame.v4
                        IN  /\ drops => read /\ denies # {}
                            /\ read /\ (\E d \in denies : ~Displaced(d, rules.allow, calls, ip)) => drops
                   /\ filter(built, ip, <<port>>) = "PASS"
              ELSE frozen =>
                     (filter(built, ip, <<port>>) = "DROP")
                       = (\/ Covers(Range(f.blocked) \cup On(rules.deny), ip)
                          \/ open /\ ~Covers(Range(f.allowed) \cup On(rules.allow), ip))

(* CorsMiddleware: an answer a shared cache may reuse for another request,     *)
(* because the two agree on every header it varies by, has the CORS headers    *)
(* the other request would have got.  A policy for every origin is left out    *)
(* where one of the requests has no Origin: that answer carries no header.     *)
CachedAnswersFit ==
  scene = "cors" /\ built.ok =>
    \A q, r \in CorsRequests :
      LET Headers(x) == CorsHeaders(CorsOnRequest(x, built.v).ctx, built.v)
          agree == "origin" \in CorsOnRequest(q, built.v).vary => q.origin = r.origin
      IN  q.method # "OPTIONS" /\ q.method = r.method /\ agree =>
            \/ Headers(q) = Headers(r)
            \/ built.v.allow_origins.all /\ (q.origin = <<>> \/ r.origin = <<>>)

(* A host block's policies and a match block's, from the text to the router    *)
(* (parse_raw_route_policies, expand, compile_route, AppContext::build): a     *)
(* request meets, kind by kind, the policy its match block declares, or else   *)
(* its host block's, with the overridden values of an `extends`; the preflight *)
(* of a CORS route reaches it; and two routes share the counters of a limiter  *)
(* exactly when both name the same policy.                                     *)
PoliciesInherited ==
  scene = "policies" /\ given # <<>> =>
    LET Act(p, k) == IF p = "a" /\ k = given[3] /\ given[4] # "none" THEN given[4] ELSE IF k = given[1] THEN given[2] ELSE "none"
        Active(p, k) == Act(p, k) # "none" /\ (Act(p, k) # "off" \/ k = "helmet")
        Reached(m, p) == match_route(built.router, <<"h">>, m, <<"/", p>>)
        Policy(p, k) == Reached("GET", p).value.policies[k]
    IN  /\ built.outcome = "ok"
        /\ \A p \in {"a", "b"} :
             /\ Reached("GET", p).status = 200
             /\ \A k \in PolicyKinds :
                  IF Active(p, k) THEN Map(Policy(p, k), LAMBDA c : Marks(k, c)) = <<PolicyMarks[k][Act(p, k)]>>
                                  ELSE Policy(p, k) = None
             /\ Reached("OPTIONS", p).status = IF Active(p, "cors") THEN 200 ELSE 405
        /\ Active("a", "limiter") /\ Active("b", "limiter") =>
             (Policy("a", "limiter")[1].scope = Policy("b", "limiter")[1].scope)
               <=> (Act("a", "limiter") = "direct" /\ Act("b", "limiter") = "direct")

(* compile (config/dsl/compile.rs): blocks are checked to the end and every    *)
(* error is reported, so that the faults of one block are not hidden by those  *)
(* of another and a valid configuration with any of them added is refused.     *)
EveryErrorReported ==
  scene = "errors" /\ given # <<>> =>
    LET expected == UNION {Faults[given[i]].codes : i \in DOMAIN given}
    IN  built.errors = expected /\ (built.outcome = "ok") = (expected = {})
=============================================================================
