------------------------------- MODULE MCEdge -------------------------------
(***************************************************************************)
(* The inputs of module Edge for TLC: small catalogues in which every      *)
(* alternative of the code has an example.                                 *)
(***************************************************************************)
EXTENDS Edge

-----------------------------------------------------------------------------
(* Router *)

Route(path, methods, hosts) == [path |-> path, methods |-> methods, hosts |-> hosts]
RouteCatalogue == <<
  Route(<<"/", "*">>, {}, <<>>),
  Route(<<"/", "a">>, {"GET"}, <<>>),
  Route(<<"/", "a">>, {"POST"}, <<>>),
  Route(<<"/", ":id">>, {}, <<>>),
  Route(<<"/", "a", "/", ":id">>, {}, <<>>),
  Route(<<"/", ":id", "/", "b">>, {}, <<>>),
  Route(<<"/", "a", "/", "*">>, {"GET"}, <<>>),
  Route(<<"/", "a", "b">>, {}, <<>>),
  Route(<<"/", "*">>, {}, <<<<"*", "x">>>>),
  Route(<<"/", "a">>, {"GET"}, <<<<"w", "x">>, <<"*", "w", "x">>>>),
  Route(<<"/", "{id}", "b">>, {}, <<>>) >>
MCRoutes == [i \in DOMAIN RouteCatalogue |-> [value |-> i] @@ RouteCatalogue[i]]
MCHosts == {<<"y">>, <<"w", "x">>, <<"v", "w", "x">>}
MCPaths == {<<"/">>, <<"/", "a">>, <<"/", "b">>, <<"/", "a", "/">>, <<"/", "a", "b">>, <<"/", "a", "/", "b">>,
            <<"/", "b", "/", "b">>, <<"/", "a", "/", "b", "/", "b">>, <<"/", "b", "b">>}
MCParamOf == ":id" :> "{id}"
Same(x) == x
Always(x) == TRUE
HostLabels(h) == <<h>>

-----------------------------------------------------------------------------
(* Rewriting.  A regex is "^" and the text it starts with; "[" is malformed.   *)

MCReOk(re) == re[1] = "^"
MCReMatches(re, path) == IsPrefix(Tail(re), path)
MCReReplace(re, to, path) == to \o SubSeq(path, Len(re), Len(path))
Rule(from, to) == [from |-> from, to |-> to]
MCRules == <<
  Rule(<<"/", "a">>, <<"/", "x">>),
  Rule(<<"/", "a", "*">>, <<"/", "y">>),
  Rule(<<"/", "*">>, <<"/", "z">>),
  Rule(<<"*", "b">>, <<"w">>),
  Rule(<<"*", "/", "b">>, <<>>),
  Rule(<<"^", "/", "a">>, <<"/", "r">>),
  Rule(<<"[">>, <<>>) >>
MCStrips == <<[prefix |-> None, suffix |-> None, slash |-> "ignore"],
              [prefix |-> Some(<<"/", "a">>), suffix |-> None, slash |-> "always"],
              [prefix |-> Some(<<>>), suffix |-> Some(<<"b">>), slash |-> "never"]>>
MCRewritePaths == UNION {[1..n -> {"/", "a", "b"}] : n \in 1..3}

-----------------------------------------------------------------------------
(* Globs *)

MCPatterns == << <<>>, <<"/", "a">>, <<"/", "*">>, <<"*", "*">>, <<"/", "*", "*", "/", "b">>, <<"/", "a", "?">>,
                 <<"/", "{", "a", ",", "a", "b", "}", "b">>, <<"/", "[", "a", "-", "b", "]">>, <<"*", "b">>,
                 <<"/", "[", "^", "a", "]", "*">>, <<"a", "*", "*", "b">>, <<"?", "{", "a", ",", "b", ",", "a", "b", "}", "*", "b">>,
                 <<"{", "a">> >>
MCInputs == UNION {[1..n -> {"/", "a", "b"}] : n \in 1..4}
MCCode(c) == CASE c = "/" -> 47 [] c = "a" -> 97 [] c = "b" -> 98 [] OTHER -> 0

-----------------------------------------------------------------------------
(* Listeners: four IPv4 and eight IPv6 addresses, the last four of them mapped. *)

Cidr(v6, n, prefix) == [ip |-> Addr(v6, n), prefix |-> prefix]
MCRanges == ("0/0" :> Cidr(FALSE, 0, 0)) @@ ("1/1" :> Cidr(FALSE, 1, 1)) @@ ("1" :> Cidr(FALSE, 1, 2)) @@ ("2/1" :> Cidr(FALSE, 2, 1))
            @@ ("::0/1" :> Cidr(TRUE, 0, 1)) @@ ("::4/1" :> Cidr(TRUE, 4, 1))
Rules(legacy, header, untrusted) == [legacy |-> legacy, header |-> header, untrusted |-> untrusted, unix |-> FALSE]
MCAccess == <<Rules(FALSE, "none", "none"), Rules(FALSE, "x-forwarded-for", "none"), Rules(FALSE, "forwarded", "reject"),
              Rules(FALSE, "x-real-ip", "degrade"), Rules(TRUE, "none", "none"), Rules(TRUE, "x-forwarded-for", "deny"),
              [Rules(FALSE, "forwarded", "none") EXCEPT !.unix = TRUE]>>
MCPeers == {Addr(FALSE, 0), Addr(FALSE, 1), Addr(FALSE, 3), Addr(TRUE, 1), Addr(TRUE, 5)}
Hop(v6, n) == <<Addr(v6, n)>>
MCChains == {<<>>, <<Hop(FALSE, 3)>>, <<Hop(FALSE, 3), Hop(FALSE, 1)>>, <<Hop(FALSE, 1), Hop(TRUE, 5)>>, <<Hop(FALSE, 2), <<>>, Hop(FALSE, 0)>>}

-----------------------------------------------------------------------------
(* The ingress filter: frames that can be read in one family or both, or not.  *)

Net(v6, n, prefix) == IpNet(v6, n, prefix)
On(net, port) == [net |-> net, port |-> port]
FilterFor(iface, loads) ==
  [iface |-> iface, loads |-> loads, ports |-> {1}, allowed |-> <<Net(FALSE, 0, 1)>>, blocked |-> <<Net(TRUE, 2, 2)>>,
   allowed_on |-> <<On(Net(TRUE, 1, 3), 1), On(Net(FALSE, 3, 2), 1)>>, blocked_on |-> <<On(Net(TRUE, 0, 1), 1), On(Net(FALSE, 1, 2), 1)>>]
MCFilters == <<FilterFor(FALSE, TRUE), FilterFor(TRUE, FALSE), FilterFor(TRUE, TRUE),
               [FilterFor(TRUE, TRUE) EXCEPT !.allowed_on = <<>>, !.blocked_on = <<On(Net(FALSE, 2, 1), 2)>>]>>
MCFilterNets == {Net(TRUE, 1, 1), Net(TRUE, 1, 3), Net(FALSE, 3, 2)}
Whole == [ether |-> "ip", tags |-> 0, fragment |-> FALSE, ext |-> <<>>, proto |-> "tcp", ends |-> ""]
Frame(v4, v6, is) == [v4 |-> v4, v6 |-> v6, is |-> is]
MCFrames == {
  Frame(TRUE, TRUE, [Whole EXCEPT !.tags = 2]), Frame(FALSE, FALSE, [Whole EXCEPT !.tags = 3]),
  Frame(FALSE, FALSE, [Whole EXCEPT !.ether = "arp"]), Frame(FALSE, FALSE, [Whole EXCEPT !.proto = "icmp"]),
  Frame(FALSE, FALSE, [Whole EXCEPT !.proto = "udp", !.ends = "l4"]), Frame(FALSE, TRUE, [Whole EXCEPT !.fragment = TRUE]),
  Frame(TRUE, TRUE, [Whole EXCEPT !.ext = <<"routing", "atomic">>]), Frame(TRUE, FALSE, [Whole EXCEPT !.ext = <<"hop", "esp">>]),
  Frame(TRUE, FALSE, [Whole EXCEPT !.ext = <<"hop", "auth", "hop">>]), Frame(TRUE, FALSE, [Whole EXCEPT !.ext = <<"truncated">>]) }

-----------------------------------------------------------------------------
(* Bodies *)

Pred(phase, field, op, type, v) ==
  <<"pred", [phase |-> phase, field |-> field, name |-> "", op |-> op, type |-> type, v |-> v,
             meta |-> [id |-> 1, score |-> 5, action |-> "block", status |-> 403]]>>
MCWafRules == <<
  <<"all", <<Pred("in_body", "body", "contains", "string", <<"a", "b", "a">>), Pred("in_headers", "path", "starts", "string", <<"/", "x">>),
             Pred("out_body", "body", "regex", "regex", <<{"b"}>>), Pred("out_body", "body", "regex", "regex", <<{"q"}>>)>>>>,
  <<"any", <<Pred("in_body", "body", "regex", "regex", <<{"a"}, {"a", "b"}, {"b"}>>), Pred("in_body", "body", "contains", "string", <<"b", "b">>)>>>>,
  <<"all", <<Pred("out_headers", "status", "eq", "integer", 500), Pred("out_body", "body", "contains", "string", <<"b", "a">>),
             Pred("out_body", "body", "regex", "regex", <<{"a"}, {"a", "b"}, {"b"}>>)>>>> >>
MCUnbuildable == {{<<{"q"}>>}}
MCWafConfigs == [k \in DOMAIN MCWafRules |-> [mode |-> "Blocking", anomaly_threshold |-> 5, rules |-> compile_waf(MCWafRules[k])]]
WafRequest(path) == [ip |-> <<>>, method |-> "POST", path |-> path, host |-> <<>>, query |-> <<>>, useragent |-> <<>>, headers |-> <<>>]
MCWafRequests == {WafRequest(<<"/", "a">>), WafRequest(<<"/", "x">>)}
NoIpHit(set, ip) == FALSE
NoTextHit(op, v, text) == FALSE

-----------------------------------------------------------------------------
(* CORS *)

Origin(scheme, host) == [scheme |-> scheme, host |-> host]
CorsFor(origins, credentials, headers) ==
  [RawCorsConfig EXCEPT !.allow_origins = origins, !.allow_credentials = credentials, !.allow_headers = headers, !.allow_methods = <<"GET">>]
MCCorsPolicies == <<
  CorsFor(<<Origin("none", <<"*">>)>>, Some(TRUE), <<>>),
  CorsFor(<<Origin("none", <<"d">>)>>, Some(TRUE), <<"x">>),
  CorsFor(<<Origin("none", <<"*", ".", "d">>), Origin("http", <<"d">>)>>, None, <<>>),
  CorsFor(<<Origin("none", <<"d">>), Origin("none", <<"*">>)>>, None, <<>>),
  CorsFor(<<>>, None, <<>>) >>
MCOrigins == {None} \cup {Some(Origin(s, h)) : s \in {"https", "http"}, h \in {<<"d">>, <<"a", ".", "d">>, <<"a">>}}
MCCorsRequests == [method : {"GET", "OPTIONS"}, origin : MCOrigins, acrm : {None, Some("GET")}, acrh : {None, Some("x")}]

-----------------------------------------------------------------------------
(* Policies: two settings of each kind tell the base policy, the overridden    *)
(* one and the local one apart.                                                *)

Lex(n, u) == [n |-> n, u |-> u]
Two(k, v, l, w) == <<Entry(k, v), Entry(l, w)>>
MCPolicyBlocks == [k \in PolicyKinds |->
  CASE k = "limiter" -> [base |-> Two("burst", Lex(1, ""), "rate", Lex(1, "/s")), over |-> <<Entry("burst", Lex(2, ""))>>,
                         own |-> Two("burst", Lex(3, ""), "rate", Lex(3, "/m"))]
    [] k = "cors" -> [base |-> Two("max_age", Lex(1, "s"), "allow_credentials", "true"), over |-> <<Entry("max_age", Lex(2, ""))>>,
                      own |-> Two("max_age", Lex(3, "ms"), "allow_credentials", "false")]
    [] k = "auth" -> [base |-> Two("audience", "a1", "issuer", "i1"), over |-> <<Entry("audience", "a2")>>,
                      own |-> Two("audience", "a3", "issuer", "i3")]
    [] k = "waf" -> [base |-> Two("anomaly_threshold", Lex(1, ""), "max_body_size", Lex(1, "kb")),
                     over |-> <<Entry("anomaly_threshold", Lex(2, ""))>>,
                     own |-> Two("anomaly_threshold", Lex(3, ""), "max_body_size", Lex(3, "mb"))]
    [] OTHER -> [base |-> Two("level", "strict", "target", "web"), over |-> <<Entry("target", "api")>>,
                 own |-> Two("level", "standard", "target", "web")]]

\* A helmet policy is told by what it adds to a document whose upstream set one of its headers.
Page == ("content-type" :> "text/html") @@ ("x-frame-options" :> "upstream")
Added(headers) == Page @@ ("x-content-type-options" :> "nosniff") @@ headers
Isolated == ("corp" :> "same-origin") @@ [n \in {"coop", "origin-agent-cluster", "dns-prefetch"} |-> "fixed"]

MCMarks(kind, c) ==
  CASE kind = "limiter" -> <<c.burst, c.rate>> [] kind = "cors" -> <<c.max_age, c.allow_credentials>>
    [] kind = "auth" -> <<c.audience, c.issuer>> [] kind = "waf" -> <<c.anomaly_threshold, c.max_body_size[1]>>
    [] OTHER -> HelmetHeaders(c, Page)

ByAct(direct, extends, own, off) == [direct |-> direct, extends |-> extends, local |-> own, off |-> off]
MCPolicyMarks == [k \in PolicyKinds |->
  CASE k = "limiter" -> ByAct(<<1, <<1, 1>>>>, <<2, <<1, 1>>>>, <<3, <<3, 60>>>>, <<>>)
    [] k = "cors" -> ByAct(<<Some(1000), TRUE>>, <<Some(2000), TRUE>>, <<Some(3), FALSE>>, <<>>)
    [] k = "auth" -> ByAct(<<"a1", "i1">>, <<"a2", "i1">>, <<"a3", "i3">>, <<>>)
    [] k = "waf" -> ByAct(<<1, 1024>>, <<2, 1024>>, <<3, 3145728>>, <<>>)
    [] OTHER -> ByAct(Added(Isolated @@ ("referrer-policy" :> "no-referrer") @@ ("coep" :> "require-corp")),
                      Added(("corp" :> "same-origin") @@ ("referrer-policy" :> "no-referrer")),
                      Added(Isolated @@ ("referrer-policy" :> "strict-origin")), Added(<<>>))]

-----------------------------------------------------------------------------
(* Faulty blocks and the codes they must be reported with. *)

Fault(part, block, codes) == [part |-> part, block |-> block, codes |-> codes]
Port(n) == Entry("address", [form |-> "port", port |-> n])
Tls(key, versions) == Entry("tls", <<Entry("cert", "c.pem"), Entry("key", key), Entry("versions", versions), Entry("ciphers", <<"x">>)>>)
Upstream(name, more) == [name |-> name, body |-> <<Entry("static_servers", <<[obj |-> <<Entry("address", [form |-> "host", host |-> "s", port |-> 1])>>]>>)>> \o more]
PathRoute(path, more) == [kind |-> "route", path |-> <<"/">> \o path, body |-> more]
MCFaults == <<
  Fault("listeners", <<Entry("address", [form |-> "host", host |-> "h", port |-> 1])>>, {"address"}),
  Fault("listeners", <<Port(1), Tls("none.pem", <<"tls1.3", "tls1.2">>)>>, {"key"}),
  Fault("listeners", <<Port(2), Tls("k.pem", <<"tls1.1">>)>>, {"tls-version"}),
  Fault("listeners", <<Port(80)>>, {"bound-twice"}),
  Fault("listeners", <<Entry("address", [form |-> "unix", path |-> "s", len |-> 1])>>, {"unix-header"}),
  Fault("listeners", <<Port(3), Entry("trusted_proxies", <<Entry("allowed_ips", <<"0/0">>)>>)>>, {"trust-everyone"}),
  Fault("listeners", <<Port(4), Entry("network_policy", <<>>), Entry("firewall", <<>>)>>, {"mixed-access"}),
  Fault("listeners", <<Port(5), Entry("permissions", 384)>>, {"tcp-permissions"}),
  Fault("listeners", <<Port(6), Entry("limits", <<Entry("connections", Lex(9, ""))>>), Tls("k.pem", <<>>)>>, {}),
  Fault("upstreams", Upstream("u", <<>>), {"upstream-twice"}),
  Fault("upstreams", Upstream("v", <<Entry("balance_strategy", "random")>>), {"strategy"}),
  Fault("upstreams", Upstream("w", <<Entry("health_check", <<Entry("path", <<"h">>), Entry("interval", Lex(1, "s"))>>)>>), {"health"}),
  Fault("policies", [kind |-> "limiter", name |-> "l", body |-> <<Entry("strategy", "leaky")>>], {"policy"}),
  Fault("routes", PathRoute(<<"u">>, <<Entry("backend", [kind |-> "upstream", name |-> "none"])>>), {"unknown-upstream"}),
  Fault("routes", PathRoute(<<"ok">>, ToUpstream), {"declared-twice"}),
  Fault("routes", PathRoute(<<"h">>, ToUpstream \o <<Entry("inbound_headers", <<Entry("set", <<<<"bad", "1">>>>)>>)>>), {"header"}),
  Fault("routes", PathRoute(<<"p">>, ToUpstream \o <<Entry("policies", <<[k |-> "auth", act |-> "direct", name |-> "none", v |-> <<>>]>>)>>), {"resolve"}),
  Fault("routes", PathRoute(<<"n">>, ToUpstream \o <<Entry("protocols", <<"spdy">>)>>), {"route-protocol"}),
  Fault("routes", PathRoute(<<"s">>, <<Entry("backend", [kind |-> "static", name |-> "/srv"]), Entry("static_config", <<Entry("exclude_paths", <<"[">>)>>)>>), {"glob"}),
  Fault("routes", [kind |-> "host", hosts |-> <<"h">>, body |-> ToUpstream, matches |-> <<[pattern |-> [methods |-> <<"get">>, path |-> <<"/">>], body |-> <<>>]>>], {"expand"}),
  Fault("master", Entry("workers", Lex(0, "")), {"workers-zero"}),
  Fault("master", Entry("metrics", <<>>), {"metrics-listen"}) >>

-----------------------------------------------------------------------------
(* Static files: a file, which is also the second index file (there is no first *)
(* one), and a dotfile that cannot be opened.                                  *)

Regular(size, ino, id) == [kind |-> "file", size |-> size, secs |-> 0, ino |-> ino, id |-> id]
Directory == [kind |-> "dir", size |-> 0, secs |-> 0, ino |-> 100, id |-> 100]
StaticNode(path, meta) == [link |-> FALSE, real |-> path, meta |-> meta]
PathA == <<<<"a">>>>
Hidden == <<<<".", "h">>>>
MCStaticPaths == {<<>>, PathA, <<<<"i">>>>, Hidden}
MCDisks == {[p \in MCStaticPaths |-> CASE p = <<>> -> StaticNode(p, Directory) [] p = PathA -> StaticNode(p, Regular(3, 1, 1))
                                      [] p = Hidden -> StaticNode(p, [Regular(1, 9, 9) EXCEPT !.kind = "denied"]) [] OTHER -> AbsentNode]}
GetA == [segments |-> PathA, head |-> FALSE, range |-> [prefix |-> "absent", specs |-> <<>>], none_match |-> <<>>,
          since |-> NoDate, if_range |-> [t |-> "none", e |-> <<>>]]
InBytes(specs) == [prefix |-> "bytes", specs |-> specs]
MCRequests == <<
  GetA,
  [GetA EXCEPT !.segments = <<<<>>>>],
  [GetA EXCEPT !.head = TRUE, !.range = InBytes(<<<<1, 5>>>>)],
  [GetA EXCEPT !.range = InBytes(<<<<>>, <<7, Blank>>, <<Blank, 2>>>>)],
  [GetA EXCEPT !.range = InBytes(<<<<1, Blank>>>>), !.if_range = [t |-> "strong", e |-> <<3, 0, 1>>]],
  [GetA EXCEPT !.none_match = <<[t |-> "weak", e |-> <<3, 0, 1>>]>>],
  [GetA EXCEPT !.segments = Hidden],
  [GetA EXCEPT !.segments = <<<<"%2e", "%2e">>>>] >>
Serves(flags, indexes, security) == [flags |-> {"READ_FILES", "RANGE_REQUESTS"} \cup flags, skip |-> {}, listing_skip |-> {},
                                     indexes |-> indexes, security |-> security]
MCConfigs == <<Serves({"INDEX_FILES", "DIRECTORY_LIST"}, <<<<"i">>, <<"a">>>>, {"SERVER_TOKENS", "CSP"}),
               Serves({"FOLLOW_SYMLINKS", "DOTFILES"}, <<>>, {}),
               Serves({"FOLLOW_SYMLINKS", "ESCAPE_ROOT"}, <<>>, {})>>
MCEscaped == ("%2e" :> ".") @@ ("%2f" :> "/")
MCMutable == {PathA}
MCTargets == {Outside}

-----------------------------------------------------------------------------
(* Authentication *)

Source(in, name) == [in |-> in, name |-> name, prefix |-> ""]
Value(in, name, scheme, token) == [in |-> in, name |-> name, scheme |-> scheme, token |-> token]
Keyed == [sources |-> <<Source("header", "authorization"), Source("cookie", "sid")>>, refresh_flow |-> TRUE, refresh_source |-> TRUE,
          dpop |-> "auto", mode |-> "jwks", alg |-> "", algs |-> {"asym"}, discovery |-> "", issuers |-> {"iss"},
          audiences |-> {"api"}, client_id |-> "me", leeway |-> 0, max_skew |-> 1]
Hmac == [Keyed EXCEPT !.mode = "static", !.alg = "hmac"]
MCAuthConfigs == <<Keyed, [Keyed EXCEPT !.dpop = "required", !.mode = "oidc", !.discovery = "iss", !.refresh_flow = FALSE],
                   [Hmac EXCEPT !.dpop = "disabled", !.sources = <<Source("query", "t")>>], Hmac>>
Token == [alg |-> "asym", kid |-> "k1", signed |-> TRUE, exp |-> 99, iat |-> 0, nbf |-> 0, iss |-> "iss", aud |-> {"api"}, cnf |-> ""]
MCTokens == [t \in {"bound", "new", "old", "id", "shared", "sbound"} |->
  CASE t = "bound" -> [Token EXCEPT !.cnf = "j"]
    [] t = "new" -> [Token EXCEPT !.kid = "k2"]
    [] t = "sbound" -> [Token EXCEPT !.alg = "hmac", !.cnf = "j"]
    [] t = "old" -> [Token EXCEPT !.exp = 0, !.alg = "hmac"]
    [] t = "id" -> [Token EXCEPT !.alg = "hmac", !.aud = {"me"}]
    [] OTHER -> [Token EXCEPT !.alg = "hmac", !.kid = ""]]
Proof(id, iat) == [id |-> id, count |-> 1, wellformed |-> TRUE, iat |-> iat, jkt |-> "j", request |-> TRUE, ath |-> TRUE]
Attempt(conf, values, proof) == [conf |-> conf, skipped |-> FALSE, values |-> values, refresh |-> "", proof |-> proof,
                                 issued |-> [access |-> "", id |-> ""]]
Unproved == [Proof("p0", 0) EXCEPT !.count = 0]
InHeader(scheme, t) == {Value("header", "authorization", scheme, t)}
MCAttempts == <<
  Attempt(4, InHeader("dpop", "sbound"), Proof("p1", 2)),
  Attempt(4, InHeader("dpop", "sbound"), Proof("p2", 3)),
  Attempt(1, InHeader("bearer", "new"), Unproved),
  [Attempt(4, InHeader("bearer", "old"), Unproved) EXCEPT !.refresh = "r1", !.issued = [access |-> "opaque", id |-> "id"]],
  [Attempt(1, {}, Unproved) EXCEPT !.refresh = "r2", !.issued = [access |-> "new", id |-> ""]],
  Attempt(3, {Value("query", "t", "", "shared")}, Unproved),
  Attempt(2, InHeader("dpop", "bound"), Proof("p2", 3)) >>
Mix(of, n) == [of |-> of, n |-> n]
MCMixes == {Mix({1, 2}, 3), Mix({3}, 2), Mix({3, 7}, 2), Mix({4, 5}, 2), Mix({4, 6}, 2)}

Symmetric == Permutations(Clients) \cup Permutations(Installers)
=============================================================================
