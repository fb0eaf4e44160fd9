-------------------------- MODULE ListenerCompile --------------------------
(***************************************************************************)
(* Compilation of the parsed blocks (ophan/src/config/dsl/compile.rs):     *)
(* master and listeners (domain.rs converts).  A compile function returns  *)
(* [v |-> value, e |-> codes of the errors and warnings it pushed].  Text  *)
(* with a syntax of its own is a record of its parts: an address           *)
(* [form, ..], an identifier and a path token sequences.  "bad" stands for *)
(* a name or a value the http crate refuses, "[" for a glob that does not  *)
(* compile.                                                                *)
(***************************************************************************)
EXTENDS ConfigParse, FiniteSets, TLC

CONSTANTS
    Threads,     \* get_max_thread_size
    Files,       \* the paths that exist
    EnvVars,     \* the environment variables that are set
    Ranges       \* the texts that are IP ranges |-> [ip, prefix]

ASSUME CompileLimits == Threads \in Nat \ {0}

\* CompileError::warning; every other code is an error
Warnings == {"w-client-auth", "w-ciphers", "w-connections", "w-protocols", "w-waf", "w-chunked", "w-legacy"}

Res(v, e) == [v |-> v, e |-> e]
If(c, code) == IF c THEN {code} ELSE {}
\* Slip: only the errors of the first block.
ErrorsOfFirst(rs) == IF rs = <<>> THEN {} ELSE rs[1].e
Errors(rs) == UNION {rs[i].e : i \in DOMAIN rs}
Values(rs) == FlattenSeq(Map(rs, LAMBDA r : r.v))
\* the values of the Results that are Ok, an error for each of the others
Keep(results, code) == Res(Map(SelectSeq(results, LAMBDA r : r.ok), LAMBDA r : r.v),
                           If(\E i \in DOMAIN results : ~results[i].ok, code))

HeaderNameOk(n) == n # "bad"
GlobsOk(ps) == "[" \notin Range(ps)

----------------------------------------------------------------------------
(* domain.rs: addresses, protocols, TLS *)

UDS_PATH_MAX == 104
U16 == 65536

\* `:port`, `ip:port`, `ip` (port 80), `host:port` and `unix:path`
NetworkTransport(a) ==
    CASE a.form = "unix" -> IF a.len > 0 /\ a.len < UDS_PATH_MAX THEN Ok([t |-> "uds", path |-> a.path]) ELSE Err
      [] a.form = "port" -> IF a.port \in 1..(U16 - 1) THEN Ok([t |-> "tcp", ip |-> "0.0.0.0", port |-> a.port]) ELSE Err
      [] a.form = "socket" -> IF a.port < U16 THEN Ok([t |-> "tcp", ip |-> a.ip, port |-> a.port]) ELSE Err
      [] a.form = "ip" -> Ok([t |-> "tcp", ip |-> a.ip, port |-> 80])
      [] a.form = "host" -> Ok([t |-> "host", host |-> a.host, port |-> a.port])
      [] OTHER -> Err

\* a listener binds an IP address or a unix socket, never a host name
ListenerAddress(a) ==
    LET t == NetworkTransport(a) IN IF t.ok /\ t.v.t # "host" THEN t ELSE Err

UpstreamAddress(a) == NetworkTransport(a)

NetworkProtocol(s) ==
    CASE s \in {"http1", "h1"} -> Ok("http1")
      [] s \in {"websocket", "ws"} -> Ok("websocket")
      [] s \in {"http2", "h2"} -> Ok("http2")
      [] s = "grpc" -> Ok("grpc")
      [] OTHER -> Err

is_http2(p) == p \in {"http2", "grpc"}

Tls12Names == {"tls12", "tls1.2", "1.2"}
Tls13Names == {"tls13", "tls1.3", "1.3"}

\* the lowest version listed; blanks are skipped, nothing else is an error
TlsVersion(tokens) ==
    LET seen == Range(tokens) \ {""}
    IN IF seen = {} \/ ~(seen \subseteq Tls12Names \cup Tls13Names) THEN Err
       ELSE Ok(IF seen \cap Tls12Names # {} THEN "tls12" ELSE "tls13")

----------------------------------------------------------------------------
(* master *)

compile_metrics(raw) ==
    LET addr == ListenerAddress(raw.listen[1])
        path == UnwrapOr(raw.path, <<"/", "metrics">>)
    IN IF raw.listen = None THEN Res(None, {"metrics-listen"})
       ELSE IF ~addr.ok THEN Res(None, {"metrics-address"})
       ELSE IF path[1] # "/" THEN Res(None, {"metrics-path"})
       ELSE Res(Some([listen |-> addr.v, path |-> path]), {})

compile_master(raw) ==
    LET w == raw.workers
        m == IF raw.metrics = None THEN Res(None, {}) ELSE compile_metrics(raw.metrics[1])
        over == ~w.auto /\ w.n > Threads * 4
        zero == ~w.auto /\ w.n = 0
    IN Res([user |-> raw.user, pid |-> raw.pid, error_log |-> raw.error_log, includes |-> raw.includes,
            workers |-> IF w.auto \/ over THEN Threads ELSE IF zero THEN 1 ELSE w.n,
            metrics |-> m.v],
           m.e \cup If(over, "workers-limit") \cup If(zero, "workers-zero"))

----------------------------------------------------------------------------
(* listeners *)

IpRange(t) == IF t \in DOMAIN Ranges THEN Ok(Ranges[t]) ELSE Err
parse_ip_ranges(ranges) == Keep(Map(ranges, IpRange), "ip-range")

\* ssl block of a listener; <<>> also when the listener itself is dropped
compile_tls(ssl, http2) ==
    LET version == IF ssl.versions = <<>> THEN Ok("tls12") ELSE TlsVersion(ssl.versions)
        ca == IF ssl.client_ca # None /\ ssl.client_ca[1] \in Files THEN ssl.client_ca ELSE None
        auth == UnwrapOr(ssl.client_auth, IF ca # None THEN "required" ELSE "none")
        pair == If(ssl.cert \notin Files, "cert") \cup If(ssl.key \notin Files, "key")
    IN IF ~version.ok THEN Res(None, pair \cup {"tls-version"})
       ELSE Res(Some([cert |-> ssl.cert, key |-> ssl.key, client_ca |-> ca,
                      client_auth_required |-> auth = "required", h2 |-> http2, min_version |-> version.v]),
                pair \cup If(ssl.client_ca # None /\ ca = None, "client-ca")
                     \cup If(auth = "optional", "w-client-auth")
                     \cup If(auth \notin {"required", "none", "optional"}, "client-auth")
                     \cup If(auth = "required" /\ ca = None, "client-auth-needs-ca")
                     \cup If(ssl.ciphers # <<>>, "w-ciphers"))

OnUntrusted(t) == IF t \in {"degrade", "reject"} THEN Ok(t) ELSE Err

compile_trusted_proxies(raw, unix) ==
    LET ips == parse_ip_ranges(raw.allowed_ips)
        header == IF raw.real_ip_header # None /\ HeaderNameOk(raw.real_ip_header[1]) THEN raw.real_ip_header ELSE None
        mode == IF raw.on_untrusted = None THEN Ok("degrade") ELSE OnUntrusted(raw.on_untrusted[1])
        untrusted == IF mode.ok THEN mode.v ELSE "degrade"
    IN Res(Some([allowed_ips |-> ips.v, real_ip_header |-> header, on_untrusted |-> untrusted]),
           ips.e \cup If(\E i \in DOMAIN ips.v : ips.v[i].prefix = 0, "trust-everyone")
                 \cup If(raw.real_ip_header # header, "real-ip-header") \cup If(~mode.ok, "on-untrusted")
                 \cup If(unix /\ (ips.v # <<>> \/ raw.on_untrusted # None), "unix-peer")
                 \cup If(unix /\ raw.real_ip_header = None, "unix-header")
                 \cup If(~unix /\ ips.v = <<>> /\ raw.real_ip_header # None, "header-needs-ips")
                 \cup If(~unix /\ ips.v = <<>> /\ untrusted = "reject", "reject-needs-ips"))

\* network_policy written as firewall and trusted_proxies
legacy_listener_access(p) ==
    [firewall |-> IF p.allowed_ip_ranges = <<>> /\ p.blocked_ip_ranges = <<>> THEN None
                  ELSE Some([allow |-> p.allowed_ip_ranges, deny |-> p.blocked_ip_ranges]),
     trusted |-> IF p.proxy_allowed_ips = None THEN None
                 ELSE Some([allowed_ips |-> p.proxy_allowed_ips[1],
                            real_ip_header |-> Some(UnwrapOr(p.real_ip_header, "x-forwarded-for")),
                            on_untrusted |-> IF p.policy = Some("deny") THEN Some("reject") ELSE p.policy])]

compile_listener_access(l, unix) ==
    LET legacy == l.network_policy # None
        raw == IF legacy THEN legacy_listener_access(l.network_policy[1])
               ELSE [firewall |-> l.firewall, trusted |-> l.trusted_proxies]
        allow == parse_ip_ranges(raw.firewall[1].allow)
        deny == parse_ip_ranges(raw.firewall[1].deny)
        fw == IF raw.firewall = None THEN Res(None, {})
              ELSE IF unix THEN Res(None, {"unix-firewall"})
              ELSE Res(Some([allow |-> allow.v, deny |-> deny.v]), allow.e \cup deny.e)
        tp == IF raw.trusted # None THEN compile_trusted_proxies(raw.trusted[1], unix)
              ELSE Res(None, If(unix, "unix-header"))
    IN IF legacy /\ (l.firewall # None \/ l.trusted_proxies # None)
       THEN Res([firewall |-> None, trusted_proxies |-> None], {"mixed-access"})
       ELSE Res([firewall |-> fw.v, trusted_proxies |-> tp.v], fw.e \cup tp.e \cup If(legacy, "w-legacy"))

\* `mode` is the octal number, -1 when the text is not one
compile_permissions(mode, unix) ==
    IF mode = None THEN Res(None, {})
    ELSE IF ~unix THEN Res(None, {"tcp-permissions"})
    ELSE IF mode[1] \in 0..511 THEN Res(mode, {}) ELSE Res(None, {"permissions"})

compile_listener(l) ==
    LET addr == ListenerAddress(l.address)
        unix == addr.v.t = "uds"
        protocols == Keep(Map(l.protocols, NetworkProtocol), "protocol")
        tls == IF l.tls = None THEN Res(None, {})
               ELSE compile_tls(l.tls[1], \E i \in DOMAIN protocols.v : is_http2(protocols.v[i]))
        limits == UnwrapOr(l.limits, RawListenerLimits)
        access == compile_listener_access(l, unix)
        perms == compile_permissions(l.permissions, unix)
    IN IF ~addr.ok THEN Res(None, {"address"})
       ELSE IF "tls-version" \in tls.e THEN Res(None, protocols.e \cup tls.e)
       ELSE Res(Some([address |-> addr.v, protocols |-> protocols.v, tls |-> tls.v, limits |-> limits,
                      timeouts |-> UnwrapOr(l.timeouts, RawListenerTimeouts),
                      firewall |-> access.v.firewall, trusted_proxies |-> access.v.trusted_proxies,
                      permissions |-> perms.v]),
                protocols.e \cup tls.e \cup access.e \cup perms.e
                            \cup If(limits.connections # None, "w-connections"))

TwiceIn(seq) == \E i, j \in DOMAIN seq : i < j /\ seq[i] = seq[j]
validate_listeners(ls) == If(TwiceIn(Map(ls, LAMBDA l : l.address)), "bound-twice")
validate_upstream_names(us) == If(TwiceIn(Map(us, LAMBDA u : u.name)), "upstream-twice")
=============================================================================
