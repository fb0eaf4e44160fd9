---------------------------- MODULE ConfigParse ----------------------------
(***************************************************************************)
(* The configuration parser (ophan/src/config/dsl/parser.rs) and the raw   *)
(* blocks it fills (blocks.rs).  The pest grammar is external: a block is  *)
(* the sequence of its entries [k |-> rule or key, v |-> value], in the    *)
(* order of the file.  A number, duration, rate or size is a lexeme        *)
(* [n |-> digits, u |-> what follows them]; every other value is an atom.  *)
(* An Option is a sequence of length at most one, a Result is Ok(v) or     *)
(* Err; the wording of errors is left out.                                 *)
(***************************************************************************)
EXTENDS Integers, Sequences, SequencesExt

CONSTANTS
    MaxMillis,   \* u64::MAX: the largest duration in milliseconds
    MaxWeight,   \* u16::MAX: the largest server weight
    Lower(_)     \* to_ascii_lowercase of a host or header name

ASSUME ParseLimits == MaxMillis \in Nat /\ MaxWeight \in Nat

None == <<>>
Some(x) == <<x>>
Or(a, b) == IF a = None THEN b ELSE a
UnwrapOr(a, d) == IF a = None THEN d ELSE a[1]
Ok(x) == [ok |-> TRUE, v |-> x]
Err == [ok |-> FALSE, v |-> <<>>]
OptOf(r) == IF r.ok THEN Some(r.v) ELSE None
Then(r, F(_)) == IF r.ok THEN F(r.v) ELSE Err    \* Result::and_then
SomeIfOk(r) == IF r.ok THEN Ok(Some(r.v)) ELSE Err

----------------------------------------------------------------------------
(* Helpers: lexemes and lists. *)

Scale == [u \in {"ms", "s", "m", "h", ""} |->
            CASE u = "ms" -> 1 [] u = "m" -> 60000 [] u = "h" -> 3600000 [] OTHER -> 1000]

\* A bare number is in seconds; checked_mul rejects what does not fit.
parse_duration_millis(t) ==
    IF t.u \in DOMAIN Scale /\ t.n * Scale[t.u] <= MaxMillis THEN Ok(t.n * Scale[t.u]) ELSE Err

Period == [u \in {"/s", "/m", "/h", "/d"} |->
            CASE u = "/s" -> 1 [] u = "/m" -> 60 [] u = "/h" -> 3600 [] OTHER -> 86400]

parse_rate(t) == IF t.u \in DOMAIN Period THEN Ok(<<t.n, Period[t.u]>>) ELSE Err

ParseInt(t, max) == IF t.u = "" /\ t.n <= max THEN Ok(t.n) ELSE Err

\* ByteSize::from_str: the unit is a binary one, bytes without it.
ParseSize(t) ==
    CASE t.u \in {"", "b"} -> Ok(t.n) [] t.u = "kb" -> Ok(t.n * 2^10) [] t.u = "mb" -> Ok(t.n * 2^20)
      [] t.u = "gb" -> Ok(t.n * 2^30) [] t.u = "tb" -> Ok(t.n * 2^40) [] OTHER -> Err

split_csv_values(list) == SelectSeq(list, LAMBDA s : s # "")

\* array items without an inner value are skipped
extract_raw_array(list) == SelectSeq(list, LAMBDA s : s # "<no value>")

\* What an assignment of `v` makes of a field of the given kind holding `old`.
Assign(kind, old, v) ==
    CASE kind = "text"  -> Ok(v)
      [] kind = "opt"   -> Ok(Some(v))
      [] kind = "array" -> Ok(extract_raw_array(v))
      [] kind = "arrayopt" -> Ok(Some(extract_raw_array(v)))
      [] kind = "csv"   -> Ok(split_csv_values(v))
      [] kind = "push"  -> Ok(Append(old, v))
      [] kind = "pairs" -> Ok(old \o v)
      [] kind = "flag"  -> Ok(Some(v = "true"))
      [] kind = "dur"   -> SomeIfOk(parse_duration_millis(v))
      [] kind = "dur?"  -> Ok(OptOf(parse_duration_millis(v)))
      [] kind = "int"   -> SomeIfOk(ParseInt(v, MaxMillis))
      [] kind = "int?"  -> Ok(OptOf(ParseInt(v, MaxMillis)))
      [] kind = "weight" -> ParseInt(v, MaxWeight)
      [] kind = "rate"  -> SomeIfOk(parse_rate(v))
      [] kind = "size"  -> SomeIfOk(ParseSize(v))
      [] kind = "size?" -> Ok(OptOf(ParseSize(v)))
      [] kind = "once"  -> IF old = None THEN SomeIfOk(v) ELSE Err
      [] kind = "block" -> SomeIfOk(v)
      [] kind = "blocks" -> v
      [] kind = "extend" -> IF v.ok THEN Ok(Append(old, v.v)) ELSE Err

\* The entries of a block assigned in order to the fields of `init`; the last
\* assignment of a field wins, the first error ends the parse.
Fields(block, init, kinds, strict) ==
    FoldLeft(LAMBDA r, e :
               IF ~r.ok THEN r
               ELSE IF e.k \notin DOMAIN kinds THEN IF strict THEN Err ELSE r
               ELSE Then(Assign(kinds[e.k], r.v[e.k], e.v), LAMBDA a : Ok([r.v EXCEPT ![e.k] = a])),
             Ok(init), block)

Strict == TRUE
Lenient == FALSE

\* Entries whose value is a block, replaced by the Result of parsing it.
Nested(block, Sub(_)) == [i \in DOMAIN block |-> [k |-> block[i].k, v |-> Sub(block[i])]]

\* All results of a sequence, or Err.
Collect(rs) == IF \A i \in DOMAIN rs : rs[i].ok THEN Ok([i \in DOMAIN rs |-> rs[i].v]) ELSE Err
Map(seq, Op(_)) == [i \in DOMAIN seq |-> Op(seq[i])]

----------------------------------------------------------------------------
(* master and metrics *)

RawMetrics == [listen |-> None, path |-> None]

RawMaster == [user |-> "www-data", workers |-> [auto |-> FALSE, n |-> 1], pid |-> "default.pid",
              error_log |-> "error.log", includes |-> <<>>, metrics |-> None]

parse_raw_metrics(b) == Fields(b, RawMetrics, [listen |-> "opt", path |-> "opt"], Strict)

\* workers is "auto" or a number; a second metrics block is an error
parse_workers(t) ==
    IF t.u = "auto" THEN Ok([auto |-> TRUE, n |-> 0])
    ELSE IF t.u = "" THEN Ok([auto |-> FALSE, n |-> t.n]) ELSE Err

parse_raw_master(b) ==
    Fields(Nested(b, LAMBDA e : CASE e.k = "metrics" -> parse_raw_metrics(e.v)
                                  [] e.k = "workers" -> parse_workers(e.v)
                                  [] OTHER -> e.v), RawMaster,
              [user |-> "text", workers |-> "blocks", pid |-> "text", error_log |-> "text",
               includes |-> "push", metrics |-> "once"], Strict)

----------------------------------------------------------------------------
(* listeners *)

RawTls == [cert |-> "", key |-> "", versions |-> <<>>, client_auth |-> None, client_ca |-> None,
           ciphers |-> <<>>]
RawFirewall == [allow |-> <<>>, deny |-> <<>>]
RawTrustedProxies == [allowed_ips |-> <<>>, real_ip_header |-> None, on_untrusted |-> None]
RawNetworkPolicy == [allowed_ip_ranges |-> <<>>, blocked_ip_ranges |-> <<>>, real_ip_header |-> None,
                     proxy_allowed_ips |-> None, policy |-> None]
RawListenerLimits == [connections |-> None, request_size |-> None]
RawListenerTimeouts == [idle |-> None, keepalive |-> None]
RawListener == [address |-> [form |-> "empty"], protocols |-> <<>>, tls |-> None, permissions |-> None,
                firewall |-> None, trusted_proxies |-> None, network_policy |-> None,
                limits |-> None, timeouts |-> None]

parse_raw_ssl(b) ==
    Fields(b, RawTls, [cert |-> "text", key |-> "text", versions |-> "array", client_auth |-> "opt",
                       client_ca |-> "opt", ciphers |-> "array"], Strict)

\* Neither limits nor timeouts of a listener reject anything: a value that
\* does not parse leaves the field unset.
parse_raw_listener_limits(b) ==
    Fields(b, RawListenerLimits, [connections |-> "int?", request_size |-> "size?"], Lenient)
parse_raw_listener_timeouts(b) ==
    Fields(b, RawListenerTimeouts, [idle |-> "dur?", keepalive |-> "dur?"], Lenient)

parse_raw_firewall(b) == Fields(b, RawFirewall, [allow |-> "array", deny |-> "array"], Strict)

parse_raw_trusted_proxies(b) ==
    Fields(b, RawTrustedProxies, [allowed_ips |-> "array", real_ip_header |-> "opt",
                                  on_untrusted |-> "opt"], Strict)

parse_raw_net_policy(b) ==
    Fields(b, RawNetworkPolicy, [allowed_ip_ranges |-> "array", blocked_ip_ranges |-> "array",
                                 real_ip_header |-> "opt", proxy_allowed_ips |-> "arrayopt",
                                 policy |-> "opt"], Strict)

parse_raw_listener(b) ==
    Fields(Nested(b, LAMBDA e : CASE e.k = "tls" -> parse_raw_ssl(e.v)
                                  [] e.k = "firewall" -> parse_raw_firewall(e.v)
                                  [] e.k = "trusted_proxies" -> parse_raw_trusted_proxies(e.v)
                                  [] e.k = "network_policy" -> parse_raw_net_policy(e.v)
                                  [] e.k = "limits" -> parse_raw_listener_limits(e.v)
                                  [] e.k = "timeouts" -> parse_raw_listener_timeouts(e.v)
                                  [] OTHER -> e.v), RawListener,
              [address |-> "text", protocols |-> "array", tls |-> "block", permissions |-> "opt",
               firewall |-> "block", trusted_proxies |-> "block", network_policy |-> "block",
               limits |-> "block", timeouts |-> "block"], Strict)

parse_raw_listeners(bs) == Collect(Map(bs, parse_raw_listener))

----------------------------------------------------------------------------
(* upstreams *)

RawUpstreamServer == [endpoint |-> [form |-> "empty"], weight |-> 1, protocol |-> None]
RawHealthCheck == [path |-> None, interval |-> None, timeout |-> None, healthy_threshold |-> None,
                   unhealthy_threshold |-> None]
RawUpstream == [name |-> "", balance_strategy |-> None, static_servers |-> <<>>, health_check |-> None]

\* `address` is another name of `endpoint`
parse_raw_inline_server(b) ==
    Fields(Map(b, LAMBDA e : IF e.k = "address" THEN [e EXCEPT !.k = "endpoint"] ELSE e), RawUpstreamServer,
              [endpoint |-> "text", weight |-> "weight", protocol |-> "opt"], Strict)

\* one server or an array of them, each [str |-> addr] or [obj |-> entries]
parse_raw_servers_value(items) ==
    LET Server(it) == CASE "str" \in DOMAIN it -> Ok([RawUpstreamServer EXCEPT !.endpoint = it.str])
                        [] "obj" \in DOMAIN it -> parse_raw_inline_server(it.obj)
                        [] OTHER -> Err
    IN Collect(Map(items, Server))

parse_raw_health_check(b) ==
    Fields(b, RawHealthCheck, [path |-> "opt", interval |-> "dur", timeout |-> "dur",
                               healthy_threshold |-> "int", unhealthy_threshold |-> "int"], Strict)

parse_raw_upstream(u) ==
    Fields(Nested(u.body, LAMBDA e : CASE e.k = "static_servers" -> parse_raw_servers_value(e.v)
                                       [] e.k = "health_check" -> parse_raw_health_check(e.v)
                                       [] OTHER -> e.v), [RawUpstream EXCEPT !.name = u.name],
              [static_servers |-> "blocks", balance_strategy |-> "opt", health_check |-> "block"], Strict)

parse_raw_upstreams(us) == Collect(Map(us, parse_raw_upstream))

----------------------------------------------------------------------------
(* policies *)

RawAuthConfig == [issuer |-> None, audience |-> None, client_id |-> None, client_secret |-> None,
                  mode |-> None, dpop_proof |-> None, sources |-> None, refresh |-> None,
                  exclude_paths |-> <<>>]
RawRefreshConfig == [enabled |-> None, endpoint |-> None, sources |-> None, inject |-> None]
RawInjectConfig == [access_token |-> <<>>, refresh_token |-> <<>>]
RawCookieConfig == [name |-> "", path |-> None, http_only |-> None, secure |-> None, same_site |-> None]
RawLimiterConfig == [rate |-> None, burst |-> None, identifier |-> None, strategy |-> None,
                     exclude_paths |-> <<>>]
RawCorsConfig == [allow_origins |-> <<>>, allow_methods |-> <<>>, allow_headers |-> <<>>,
                  expose_headers |-> <<>>, allow_credentials |-> None, max_age |-> None,
                  exclude_paths |-> <<>>]
RawHelmetConfig == [target |-> None, level |-> None]
RawWafConfig == [mode |-> None, ruleset |-> None, max_body_size |-> None, anomaly_threshold |-> None,
                 rules |-> <<>>, exclude_paths |-> <<>>]
RawWafRule == [phase |-> "", action |-> "", score |-> None, when |-> "", message |-> None]

\* A source of an unknown type is a header.
parse_raw_sources(items) ==
    LET Source(s) ==
          [kind |-> IF s.kind \in {"cookie", "query"} THEN s.kind ELSE "header"] @@
          Fields(s.body, [name |-> "", prefix |-> None], [name |-> "text", prefix |-> "opt"], Lenient).v
    IN Map(items, Source)

\* Any mode but oidc is jwks; a ttl that does not parse is dropped.
parse_raw_auth_mode(m) ==
    LET f == Fields(m.body, [uri |-> None, ttl |-> None, algorithms |-> <<>>],
                    [uri |-> "opt", ttl |-> "dur?", algorithms |-> "array"], Lenient).v
    IN [kind |-> IF m.kind = "oidc" THEN "oidc" ELSE "jwks"] @@ f

parse_raw_secret(s) == IF s.env THEN [env |-> TRUE, text |-> s.text] ELSE [env |-> FALSE, text |-> s.text]

parse_raw_cookie_config(b) ==
    Fields(b, RawCookieConfig, [name |-> "text", path |-> "opt", http_only |-> "flag",
                                secure |-> "flag", same_site |-> "opt"], Lenient).v

\* a target is [kind |-> "header", name] or [kind |-> "cookie", body]
parse_raw_inject_targets(ts) ==
    LET Target(t) == IF t.kind = "header" THEN [kind |-> "header", name |-> t.name]
                     ELSE [kind |-> "cookie"] @@ parse_raw_cookie_config(t.body)
    IN Map(SelectSeq(ts, LAMBDA t : t.kind \in {"header", "cookie"}), Target)

parse_raw_inject(b) ==
    Fields(Nested(b, LAMBDA e : parse_raw_inject_targets(e.v)), RawInjectConfig,
              [access_token |-> "pairs", refresh_token |-> "pairs"], Lenient).v

\* only the first source of a refresh block is kept
parse_raw_refresh(b) ==
    Fields(Nested(b, LAMBDA e : CASE e.k = "sources" -> LET s == parse_raw_sources(e.v)
                                                        IN Ok(IF s = <<>> THEN None ELSE Some(s[1]))
                                  [] e.k = "inject" -> Ok(parse_raw_inject(e.v))
                                  [] OTHER -> e.v), RawRefreshConfig,
              [enabled |-> "flag", endpoint |-> "opt", sources |-> "blocks", inject |-> "block"], Lenient).v

parse_raw_auth_config(b) ==
    Fields(Nested(b, LAMBDA e : CASE e.k = "sources" -> Ok(parse_raw_sources(e.v))
                                  [] e.k = "refresh" -> Ok(parse_raw_refresh(e.v))
                                  [] e.k = "mode" -> Ok(parse_raw_auth_mode(e.v))
                                  [] e.k = "client_secret" -> Ok(parse_raw_secret(e.v))
                                  [] OTHER -> e.v), RawAuthConfig,
              [issuer |-> "opt", audience |-> "opt", client_id |-> "opt", client_secret |-> "block",
               mode |-> "block", dpop_proof |-> "opt", sources |-> "block", refresh |-> "block",
               exclude_paths |-> "csv"], Lenient)

parse_raw_rules(rs) ==
    LET Rule(r) == [name |-> r.name] @@
          Fields(r.body, RawWafRule, [phase |-> "text", when |-> "text", action |-> "text",
                                      score |-> "int?", message |-> "opt"], Lenient).v
    IN Map(rs, Rule)

parse_raw_waf_config(b) ==
    Fields(Nested(b, LAMBDA e : IF e.k = "rules" THEN Ok(parse_raw_rules(e.v)) ELSE e.v), RawWafConfig,
              [mode |-> "opt", ruleset |-> "opt", max_body_size |-> "size", anomaly_threshold |-> "int?",
               rules |-> "blocks", exclude_paths |-> "csv"], Lenient)

parse_raw_cors_config(b) ==
    Fields(b, RawCorsConfig, [allow_origins |-> "csv", allow_methods |-> "csv", allow_headers |-> "csv",
                              expose_headers |-> "csv", allow_credentials |-> "flag", max_age |-> "dur",
                              exclude_paths |-> "csv"], Lenient)

\* a burst that is not a number is dropped, a bad rate is an error
parse_raw_limiter_config(b) ==
    Fields(b, RawLimiterConfig, [rate |-> "rate", burst |-> "int?", strategy |-> "opt",
                                 identifier |-> "opt", exclude_paths |-> "csv"], Lenient)

parse_raw_helmet_config(b) == Fields(b, RawHelmetConfig, [target |-> "opt", level |-> "opt"], Lenient)

PolicyKinds == {"auth", "cors", "waf", "limiter", "helmet"}

PolicyConfig(kind, b) ==
    CASE kind = "auth" -> parse_raw_auth_config(b)
      [] kind = "cors" -> parse_raw_cors_config(b)
      [] kind = "waf" -> parse_raw_waf_config(b)
      [] kind = "limiter" -> parse_raw_limiter_config(b)
      [] kind = "helmet" -> parse_raw_helmet_config(b)
      [] OTHER -> Err

parse_raw_policy(p) ==
    Then(PolicyConfig(p.kind, p.body), LAMBDA c : Ok([kind |-> p.kind, name |-> p.name, config |-> c]))

----------------------------------------------------------------------------
(* routes *)

RawRoutePolicies == [k \in PolicyKinds |-> None]

\* `kind = name`, `kind = off`, `kind extends base { .. }` and `kind { .. }`;
\* other entries are skipped, an unknown kind is an error.
RouteAction(e) ==
    CASE e.act = "direct" -> Ok([act |-> "ref", name |-> e.name])
      [] e.act = "off" -> Ok([act |-> "off"])
      [] OTHER -> Then(PolicyConfig(e.k, e.v),
                       LAMBDA c : Ok(IF e.act = "extends" THEN [act |-> "extends", base |-> e.name, over |-> c]
                                     ELSE [act |-> "inline", config |-> c]))

parse_raw_route_policies(b) ==
    LET known == SelectSeq(b, LAMBDA e : e.act \in {"direct", "off", "extends", "local"})
        Sub(e) == IF e.k \in PolicyKinds THEN RouteAction(e) ELSE Err
    IN Fields(Nested(known, Sub), RawRoutePolicies, [k \in PolicyKinds |-> "block"], Strict)

RawUriRewrite == [strip_prefix |-> None, strip_suffix |-> None, replaces |-> <<>>, trailing_slash |-> None]
RawHeadersOps == [set |-> <<>>, remove |-> <<>>]

parse_raw_rewrite(b) ==
    Fields(b, RawUriRewrite, [strip_prefix |-> "opt", strip_suffix |-> "opt", replaces |-> "push",
                              trailing_slash |-> "opt"], Lenient).v

\* A direction nested in another one adds to it (one level is modelled).
parse_raw_headers_direction(b) ==
    LET Own(d) == Fields(d, RawHeadersOps, [set |-> "pairs", remove |-> "array"], Lenient).v
        Step(ops, e) == IF e.k = "nested"
                        THEN [set |-> ops.set \o Own(e.v).set, remove |-> ops.remove \o Own(e.v).remove]
                        ELSE IF e.k = "set" THEN [ops EXCEPT !.set = @ \o e.v]
                        ELSE IF e.k = "remove" THEN [ops EXCEPT !.remove = extract_raw_array(e.v)] ELSE ops
    IN FoldLeft(Step, RawHeadersOps, b)

\* `add` fills the same list as `set`
HeadersBlock(b) ==
    Fields(Map(b, LAMBDA e : CASE e.k = "add" -> [e EXCEPT !.k = "set"]
                               [] e.k = "upstream" -> [e EXCEPT !.v = Ok(parse_raw_headers_direction(e.v))]
                               [] OTHER -> e), RawHeadersOps @@ [upstream |-> None],
              [set |-> "pairs", remove |-> "array", upstream |-> "block"], Lenient).v

parse_raw_inbound_headers(b) ==
    LET h == HeadersBlock(b)
    IN [opts |-> [set |-> h.set, remove |-> h.remove], upstream |-> UnwrapOr(h.upstream, RawHeadersOps)]

\* only the removals of from_upstream are kept
parse_raw_outbound_headers(b) ==
    LET h == HeadersBlock(b)
    IN [opts |-> [set |-> h.set, remove |-> h.remove],
        upstream |-> [RawHeadersOps EXCEPT !.remove = UnwrapOr(h.upstream, RawHeadersOps).remove]]

parse_raw_timeouts(b) ==
    Fields(b, [connect |-> None, read |-> None, send |-> None],
           [connect |-> "dur", read |-> "dur", send |-> "dur"], Lenient)

parse_raw_streaming(b) ==
    Fields(b, [buffering |-> None, chunked |-> None], [buffering |-> "flag", chunked |-> "flag"], Lenient).v

RawStaticFlags == [listing |-> None, dotfiles |-> None, index |-> None, symlinks |-> None]

parse_raw_static_config(b) ==
    Fields(b, RawStaticFlags @@ [exclude_paths |-> <<>>],
           [listing |-> "flag", dotfiles |-> "flag", index |-> "flag", symlinks |-> "flag",
            exclude_paths |-> "array"], Lenient).v

parse_raw_backend(t) ==
    CASE t.kind = "static" -> Ok([kind |-> "static", root |-> t.name, flags |-> RawStaticFlags,
                                  exclude_paths |-> <<>>])
      [] t.kind = "upstream" -> Ok([kind |-> "upstream", name |-> t.name])
      [] OTHER -> Err

RawRouteFields == [hosts |-> None, methods |-> None, protocols |-> None, backend |-> None,
                   static_config |-> None, timeouts |-> None, streaming |-> None, policies |-> None,
                   rewrite |-> None, inbound_headers |-> None, outbound_headers |-> None]

\* The settings of a route, host or match block without the keys in `banned`.
parse_route_fields(b, banned) ==
    Fields(Nested(b, LAMBDA e : CASE e.k = "backend" -> parse_raw_backend(e.v)
                                  [] e.k = "policies" -> parse_raw_route_policies(e.v)
                                  [] e.k = "rewrite" -> Ok(parse_raw_rewrite(e.v))
                                  [] e.k = "inbound_headers" -> Ok(parse_raw_inbound_headers(e.v))
                                  [] e.k = "outbound_headers" -> Ok(parse_raw_outbound_headers(e.v))
                                  [] e.k = "timeouts" -> parse_raw_timeouts(e.v)
                                  [] e.k = "streaming" -> Ok(parse_raw_streaming(e.v))
                                  [] e.k = "static_config" -> Ok(parse_raw_static_config(e.v))
                                  [] OTHER -> Ok(extract_raw_array(e.v))),
           RawRouteFields, [k \in DOMAIN RawRouteFields \ banned |-> "block"], Strict)

\* The route of `path`, with static_config folded into a static backend.
into_path_route(f, path) ==
    LET backend == UnwrapOr(f.backend, [kind |-> "upstream", name |-> ""])
        sc == f.static_config[1]
        folded == [backend EXCEPT
                     !.flags = [k \in DOMAIN RawStaticFlags |-> Or(sc[k], backend.flags[k])],
                     !.exclude_paths = @ \o sc.exclude_paths]
        target == IF f.static_config = None THEN backend ELSE folded
    IN IF f.static_config # None /\ backend.kind # "static" THEN Err
       ELSE Ok([path |-> path, hosts |-> UnwrapOr(f.hosts, <<>>), methods |-> UnwrapOr(f.methods, <<>>),
                protocols |-> UnwrapOr(f.protocols, <<>>), backend |-> target, timeouts |-> f.timeouts,
                streaming |-> f.streaming, policies |-> f.policies, rewrite |-> f.rewrite,
                inbound_headers |-> f.inbound_headers, outbound_headers |-> f.outbound_headers])

parse_raw_single_route(d) ==
    Then(parse_route_fields(d.body, {}),
         LAMBDA f : Then(into_path_route(f, d.path), LAMBDA r : Ok([kind |-> "path", route |-> r])))

\* the methods of a match are written in its pattern [methods, path]
parse_raw_match_route(m) ==
    Then(parse_route_fields(m.body, {"hosts", "methods"}), LAMBDA f : Ok([pattern |-> m.pattern, fields |-> f]))

parse_raw_host_route(d) ==
    LET Host(f, ms) == Ok([kind |-> "host", hosts |-> d.hosts, defaults |-> f, matches |-> ms])
    IN IF d.hosts = <<>> \/ (\E i \in DOMAIN d.hosts : d.hosts[i] = "") THEN Err
       ELSE Then(parse_route_fields(d.body, {"hosts"}),
                 LAMBDA f : Then(Collect(Map(d.matches, parse_raw_match_route)), LAMBDA ms : Host(f, ms)))

parse_raw_routes(ds) ==
    Collect(Map(ds, LAMBDA d : IF d.kind = "route" THEN parse_raw_single_route(d) ELSE parse_raw_host_route(d)))

RawGateway == [name |-> "", listeners |-> <<>>, upstreams |-> <<>>, routes |-> <<>>, policies |-> <<>>]

\* network_policy belongs to a listener: at gateway level it is an error, as
\* every block that is not listed
parse_raw_gateway(b) ==
    Fields(Nested(b, LAMBDA e : CASE e.k = "listeners" -> parse_raw_listeners(e.v)
                                  [] e.k = "upstreams" -> parse_raw_upstreams(e.v)
                                  [] e.k = "routes" -> parse_raw_routes(e.v)
                                  [] e.k = "policies" -> parse_raw_policy(e.v)
                                  [] OTHER -> e.v), RawGateway,
              [name |-> "text", listeners |-> "blocks", upstreams |-> "blocks", routes |-> "blocks",
               policies |-> "extend"], Strict)

----------------------------------------------------------------------------
(* A match block over the host block around it (blocks.rs). *)

\* Header names are compared without their case: Lower maps a name to it.
Named(list, name) == \E i \in DOMAIN list : Lower(list[i]) = Lower(name)

\* The parent's settings and removals of headers this level names are dropped.
HeadersOver(own, parent) ==
    LET names == Map(own.set, LAMBDA p : p[1])
        Unnamed(n) == ~Named(names, n) /\ ~Named(own.remove, n)
    IN [set |-> SelectSeq(parent.set, LAMBDA p : Unnamed(p[1])) \o own.set,
        remove |-> SelectSeq(parent.remove, Unnamed) \o own.remove]

MergedHeaders(own, parent) ==
    IF own = None \/ parent = None THEN Or(own, parent)
    ELSE Some([opts |-> HeadersOver(own[1].opts, parent[1].opts),
               upstream |-> HeadersOver(own[1].upstream, parent[1].upstream)])

\* Slip: a block with policies of its own inherits none.
MergedPoliciesWhole(own, parent) == Or(own, parent)
\* kind by kind: a kind `own` sets, `off` included, replaces the parent's
MergedPolicies(own, parent) ==
    IF own = None \/ parent = None THEN Or(own, parent)
    ELSE Some([k \in PolicyKinds |-> Or(own[1][k], parent[1][k])])

\* These settings over the inherited ones; a backend comes with its own
\* static_config only.
FieldsOver(own, parent) ==
    [k \in DOMAIN own |->
       CASE k = "static_config" -> IF own.backend # None THEN own[k] ELSE Or(own[k], parent[k])
         [] k = "policies" -> MergedPolicies(own[k], parent[k])
         [] k \in {"inbound_headers", "outbound_headers"} -> MergedHeaders(own[k], parent[k])
         [] OTHER -> Or(own[k], parent[k])]

\* `match "GET|POST /path"`: the pattern is the tokens of its text
\* [methods |-> tokens before the first blank, path]; an empty or lowercase
\* method and a path without its leading slash are errors.
methods_and_path(p) ==
    IF p.path[1] # "/" \/ \E i \in DOMAIN p.methods : p.methods[i] \in {"", "get", "post"}
    THEN Err ELSE Ok(p)

expand(h) ==
    LET defaults == [h.defaults EXCEPT !.hosts = Some(h.hosts)]
        One(m) == LET mp == methods_and_path(m.pattern)
                      f == FieldsOver(m.fields, defaults)
                  IN IF ~mp.ok THEN Err
                     ELSE into_path_route(IF mp.v.methods = <<>> THEN f
                                          ELSE [f EXCEPT !.methods = Some(mp.v.methods)], mp.v.path)
    IN IF h.matches = <<>> THEN Collect(<<into_path_route(defaults, <<"/", "*">>)>>)
       ELSE Collect(Map(h.matches, One))
=============================================================================
