--------------------------- MODULE PolicyCompile ---------------------------
(***************************************************************************)
(* Policies of a gateway (compile.rs): built from their blocks, overridden *)
(* by `extends`, resolved for a route.  A builder returns a Result; an     *)
(* override may also be Panic, where the code calls expect.                *)
(***************************************************************************)
EXTENDS ListenerCompile, Cors, Helmet

Panic == [ok |-> FALSE, v |-> <<"panic">>]

\* `exclude_paths` of a policy, over the patterns it had
Excluded(list, old) == IF list = <<>> THEN Ok(old) ELSE IF GlobsOk(list) THEN Ok(Some(list)) ELSE Err

----------------------------------------------------------------------------
(* auth *)

Algorithms == {"HS256", "HS384", "HS512", "ES256", "ES384", "RS256", "RS384", "RS512", "PS256", "PS384",
               "PS512", "EdDSA"}

DpopPolicy(t) == CASE t = None -> "auto"
                   [] t[1] \in {"required", "strict"} -> "required"
                   [] t[1] = "disabled" -> "disabled"
                   [] OTHER -> "auto"

compile_token_source(s) == IF s.kind = "header" /\ ~HeaderNameOk(s.name) THEN Err ELSE Ok(s)

compile_inject_target(t) ==
    IF t.kind = "header" THEN [kind |-> "header", name |-> IF HeaderNameOk(t.name) THEN t.name ELSE "authorization"]
    ELSE [kind |-> "cookie", name |-> t.name, path |-> UnwrapOr(t.path, "/")]

\* The algorithms that are known, and the key location: the written one, or
\* the well-known document of the issuer.
KeySource(mode, default) ==
    [kind |-> mode.kind,
     at |-> IF mode.uri = None THEN default ELSE <<"at", mode.uri[1]>>,
     algorithms |-> IF mode.kind = "jwks" THEN SelectSeq(mode.algorithms, LAMBDA a : a \in Algorithms) ELSE <<>>]

\* RawSecretValue::resolve
Secret(s) == IF s = None THEN Ok(None) ELSE IF s[1].env /\ s[1].text \notin EnvVars THEN Err ELSE Ok(s)

Refresh(raw, default) == IF raw.refresh = None THEN default ELSE raw.refresh[1]
RefreshSource(r) == IF r.sources = None THEN Ok(None) ELSE SomeIfOk(compile_token_source(r.sources[1]))
Injected(r, field, old) == IF r.inject = None THEN old ELSE Map(r.inject[1][field], compile_inject_target)

build_auth_from_raw(raw) ==
    LET issuer == raw.issuer[1]
        mode == UnwrapOr(raw.mode, [kind |-> "oidc", uri |-> None, ttl |-> None, algorithms |-> <<>>])
        refresh == Refresh(raw, [RawRefreshConfig EXCEPT !.enabled = Some(FALSE)])
        enabled == UnwrapOr(refresh.enabled, TRUE)
        dpop == DpopPolicy(raw.dpop_proof)
        secret == Secret(raw.client_secret)
        sources == Collect(Map(UnwrapOr(raw.sources, <<>>), compile_token_source))
        skip == Excluded(raw.exclude_paths, None)
        rsource == RefreshSource(refresh)
    IN IF \/ raw.issuer = None \/ raw.audience = None
          \/ raw.client_id # None /\ ~secret.ok
          \/ raw.client_id = None /\ enabled
          \/ ~rsource.ok \/ ~skip.ok \/ ~sources.ok
       THEN Err
       ELSE Ok([issuer |-> issuer, audience |-> raw.audience[1],
                keys |-> KeySource(mode, <<"well-known", mode.kind, issuer>>), key_ttl |-> mode.ttl,
                dpop |-> dpop, dpop_source |-> dpop # "disabled",
                client |-> IF raw.client_id = None THEN None
                           ELSE Some([id |-> raw.client_id[1], secret |-> secret.v,
                                      endpoint |-> refresh.endpoint, refresh |-> enabled]),
                sources |-> IF raw.sources = None THEN <<[kind |-> "bearer"]>> ELSE sources.v,
                refresh_sources |-> rsource.v,
                inject_access |-> Injected(refresh, "access_token", <<>>),
                inject_refresh |-> Injected(refresh, "refresh_token", <<>>),
                skip |-> skip.v])

\* client_id, client_secret and dpop_proof are not overridden, and a mode
\* without a location gets an empty one.
merge_auth_override(cfg, over) ==
    LET sources == Collect(Map(UnwrapOr(over.sources, <<>>), compile_token_source))
        refresh == over.refresh[1]
        rsource == IF over.refresh = None THEN Ok(cfg.refresh_sources) ELSE RefreshSource(refresh)
        skip == Excluded(over.exclude_paths, cfg.skip)
        Inject(field, old) == IF over.refresh = None THEN old ELSE Injected(refresh, field, old)
    IN IF ~sources.ok \/ ~rsource.ok \/ ~skip.ok THEN Err
       ELSE Ok([cfg EXCEPT
            !.issuer = UnwrapOr(over.issuer, @), !.audience = UnwrapOr(over.audience, @),
            !.keys = IF over.mode = None THEN @ ELSE KeySource(over.mode[1], <<"empty">>),
            !.key_ttl = IF over.mode = None THEN @ ELSE over.mode[1].ttl,
            !.sources = IF over.sources = None THEN @ ELSE sources.v,
            !.refresh_sources = rsource.v,
            !.inject_access = Inject("access_token", @), !.inject_refresh = Inject("refresh_token", @),
            !.skip = skip.v])

----------------------------------------------------------------------------
(* waf, cors, limiter *)

WafDefault == [mode |-> "blocking", max_body_size |-> None, anomaly_threshold |-> 10, skip |-> None]

WafMode(t) == CASE t = "detection_only" -> Some(t) [] t \in {"block", "blocking"} -> Some("blocking") [] OTHER -> None

\* merge_waf_override; rules compile to nothing
WafOver(cfg, over) ==
    LET skip == Excluded(over.exclude_paths, cfg.skip)
    IN IF ~skip.ok THEN Err
       ELSE Ok([cfg EXCEPT
            !.mode = IF over.mode = None THEN @ ELSE UnwrapOr(WafMode(over.mode[1]), @),
            !.max_body_size = Or(over.max_body_size, @),
            !.anomaly_threshold = UnwrapOr(over.anomaly_threshold, @), !.skip = skip.v])

build_waf_from_raw(raw) ==
    IF raw.mode # None /\ WafMode(raw.mode[1]) = None THEN Err ELSE WafOver(WafDefault, raw)

CORS_MAX_AGE_LIMIT_MS == 86400000

\* a list as one header value; an unset list has none
HeaderList(list) == IF list = <<>> THEN None ELSE Some(list)
ValuesOk(list) == "bad" \notin Range(list)
CorsValuesOk(raw) == \A list \in {raw.allow_methods, raw.allow_headers, raw.expose_headers} : ValuesOk(list)

build_cors_from_raw(raw) ==
    LET origins == AllowedOrigins(raw.allow_origins)
    IN IF ~origins.ok \/ ~CorsValuesOk(raw) THEN Err
       ELSE Ok([allow_origins |-> origins, allow_credentials |-> UnwrapOr(raw.allow_credentials, FALSE),
                allow_methods |-> HeaderList(raw.allow_methods), allow_headers |-> HeaderList(raw.allow_headers),
                expose |-> HeaderList(raw.expose_headers), max_age |-> raw.max_age])

merge_cors_override(cfg, over) ==
    LET origins == AllowedOrigins(over.allow_origins)
    IN IF (over.allow_origins # <<>> /\ ~origins.ok) \/ ~CorsValuesOk(over) THEN Panic
       ELSE Ok([cfg EXCEPT
            !.allow_origins = IF over.allow_origins = <<>> THEN @ ELSE origins,
            !.allow_credentials = UnwrapOr(over.allow_credentials, @),
            !.max_age = IF over.max_age # None /\ over.max_age[1] \div 1000 <= CORS_MAX_AGE_LIMIT_MS \div 1000
                        THEN over.max_age ELSE @,
            !.allow_methods = Or(HeaderList(over.allow_methods), @),
            !.allow_headers = Or(HeaderList(over.allow_headers), @),
            !.expose = Or(HeaderList(over.expose_headers), @)])

LimiterDefault == [rate |-> <<60, 60>>, burst |-> 15, algorithm |-> "sliding_window",
                   identifier |-> [by |-> "ip", name |-> <<>>], skip |-> None]

RateLimitAlgorithm(t) == CASE t \in {"sliding_window", "sliding-window"} -> Some("sliding_window")
                           [] t \in {"token_bucket", "token-bucket"} -> Some("token_bucket")
                           [] OTHER -> None

\* "ip", "header", "header:name", "token" and "token:claim", as token sequences
LimiterIdentifier(t) ==
    CASE t = <<"ip">> -> Ok([by |-> "ip", name |-> <<>>])
      [] t \in {<<"header">>, <<"token">>} ->
           Ok([by |-> t[1], name |-> IF t[1] = "header" THEN <<"authorization">> ELSE <<"sub">>])
      [] Len(t) = 3 /\ t[1] = "header" /\ t[2] = ":" /\ t[3] # "" -> Ok([by |-> "header", name |-> <<Lower(t[3])>>])
      [] Len(t) = 3 /\ t[1] = "token" /\ t[2] = ":" /\ t[3] # "" -> Ok([by |-> "token", name |-> <<t[3]>>])
      [] OTHER -> Err

build_limiter_from_raw(raw) ==
    LET algorithm == IF raw.strategy = None THEN Some(LimiterDefault.algorithm) ELSE RateLimitAlgorithm(raw.strategy[1])
        id == IF raw.identifier = None THEN Ok(LimiterDefault.identifier) ELSE LimiterIdentifier(raw.identifier[1])
        skip == Excluded(raw.exclude_paths, None)
    IN IF algorithm = None \/ ~id.ok \/ ~skip.ok THEN Err
       ELSE Ok([rate |-> UnwrapOr(raw.rate, LimiterDefault.rate), burst |-> UnwrapOr(raw.burst, LimiterDefault.burst),
                algorithm |-> algorithm[1], identifier |-> id.v, skip |-> skip.v])

\* An override's identifier is not parsed: all but "ip" is a header's name.
merge_limiter_override(cfg, over) ==
    LET skip == Excluded(over.exclude_paths, cfg.skip)
        Verbatim(t) == IF t = <<"ip">> THEN [by |-> "ip", name |-> <<>>] ELSE [by |-> "header", name |-> t]
    IN IF ~skip.ok THEN Err
       ELSE Ok([cfg EXCEPT
            !.rate = UnwrapOr(over.rate, @), !.burst = UnwrapOr(over.burst, @),
            !.algorithm = IF over.strategy = None THEN @
                          ELSE UnwrapOr(RateLimitAlgorithm(over.strategy[1]), "sliding_window"),
            !.identifier = IF over.identifier = None THEN @ ELSE Verbatim(over.identifier[1]), !.skip = skip.v])

\* the hash of the scope's origin and of the limits, taken as injective
limiter_scope(origin, cfg) == <<origin, cfg.rate, cfg.burst, cfg.algorithm, cfg.identifier>>
Scoped(r, origin) == IF r.ok THEN Ok([scope |-> limiter_scope(origin, r.v)] @@ r.v) ELSE r

----------------------------------------------------------------------------
(* resolution *)

BuildPolicy(kind, raw, origin) ==
    CASE kind = "auth" -> build_auth_from_raw(raw)
      [] kind = "waf" -> build_waf_from_raw(raw)
      [] kind = "cors" -> build_cors_from_raw(raw)
      [] kind = "limiter" -> Scoped(build_limiter_from_raw(raw), origin)
      [] kind = "helmet" -> LET h == with_overrides(HelmetDefault, raw.target, raw.level)
                            IN IF h = <<>> THEN Err ELSE Ok(h[1])

MergePolicy(kind, base, over, origin) ==
    CASE kind = "auth" -> merge_auth_override(base, over)
      [] kind = "waf" -> WafOver(base, over)
      [] kind = "cors" -> merge_cors_override(base, over)
      [] kind = "limiter" -> Scoped(merge_limiter_override(base, over), origin)
      [] kind = "helmet" -> LET h == with_overrides(base, over.target, over.level)
                            IN IF h = <<>> THEN Err ELSE Ok(h[1])

\* build_<kind>_map: name -> config of the policies that build, the last of a
\* name wins
PolicyMap(policies, kind) ==
    LET mine == SelectSeq(policies, LAMBDA p : p.kind = kind)
        built == Map(mine, LAMBDA p : BuildPolicy(kind, p.config, <<"policy", p.name>>))
        Good == {i \in DOMAIN mine : built[i].ok}
        At(n) == CHOOSE i \in Good : mine[i].name = n /\ \A j \in Good : mine[j].name = n => j <= i
    IN Res([n \in {mine[i].name : i \in Good} |-> built[At(n)].v], If(Good # DOMAIN mine, "policy"))

\* resolve_<kind>: Some(config), or None with an error
ResolvePolicy(kind, action, map, identity) ==
    LET known(n) == n \in DOMAIN map
        r == CASE action.act = "ref" -> IF known(action.name) THEN Ok(map[action.name]) ELSE Err
               [] action.act = "extends" ->
                    IF known(action.base)
                    THEN MergePolicy(kind, map[action.base], action.over, <<"route", identity, "extends">>) ELSE Err
               [] action.act = "inline" -> BuildPolicy(kind, action.config, <<"route", identity>>)
               [] action.act = "off" -> Ok([target |-> "web", level |-> "disabled"])
    IN Res(OptOf(r), IF r.ok THEN {} ELSE IF r.v = <<"panic">> THEN {"panic"} ELSE {"resolve"})
=============================================================================
