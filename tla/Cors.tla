-------------------------------- MODULE Cors --------------------------------
(***************************************************************************)
(* The CORS policy (ophan/src/middlewares/cors): how configured origins    *)
(* are parsed, which requests are granted, and the headers of the answer.  *)
(* An origin is [scheme, host] with host a sequence of tokens (labels,     *)
(* dots and the characters the parser refuses); a request has the Options  *)
(* origin, acrm (Access-Control-Request-Method) and acrh (..-Headers).     *)
(***************************************************************************)
EXTENDS Integers, Sequences, SequencesExt

LOCAL Bad == [ok |-> FALSE]

\* A scheme that is not written is https.
sanitize_origin(o) ==
    LET host == o.host
    IN IF \/ host = <<>>
          \/ \E i \in DOMAIN host : host[i] \in {" ", "/", "?", "#", "@"}
          \/ o.scheme \notin {"https", "http", "none"}
          \/ host[Len(host)] = "."
          \/ \E i \in 1..(Len(host) - 1) : host[i] = "." /\ host[i + 1] = "."
       THEN Bad
       ELSE [ok |-> TRUE, scheme |-> IF o.scheme = "none" THEN "https" ELSE o.scheme, host |-> host]

\* OriginPattern::try_from: `*.domain` is a wildcard with the suffix `.domain`
OriginPattern(o) ==
    LET s == sanitize_origin(o)
    IN IF ~s.ok THEN Bad
       ELSE IF IsPrefix(<<"*", ".">>, s.host)
       THEN [ok |-> TRUE, wild |-> TRUE, scheme |-> s.scheme, text |-> SubSeq(s.host, 2, Len(s.host))]
       ELSE [ok |-> TRUE, wild |-> FALSE, scheme |-> s.scheme, text |-> s.host]

Star(o) == o.scheme = "none" /\ o.host = <<"*">>

\* AllowedOrigins::try_from: `*` stands alone, and everything before a
\* misplaced `*` is parsed first.
AllowedOrigins(list) ==
    LET stars == {i \in DOMAIN list : Star(list[i])}
        pats == [i \in DOMAIN list |-> OriginPattern(list[i])]
    IN IF stars # {} THEN IF Len(list) = 1 THEN [ok |-> TRUE, all |-> TRUE, list |-> <<>>] ELSE Bad
       ELSE IF \E i \in DOMAIN pats : ~pats[i].ok THEN Bad
       ELSE [ok |-> TRUE, all |-> FALSE, list |-> pats]

\* WildcardOrigin::matches: something must precede the suffix
WildcardMatches(p, origin) ==
    /\ origin.scheme = p.scheme
    /\ Len(origin.host) > Len(p.text)
    /\ IsSuffix(p.text, origin.host)

PatternMatches(p, origin) ==
    IF p.wild THEN WildcardMatches(p, origin) ELSE origin.scheme = p.scheme /\ origin.host = p.text

\* AllowedOrigins::matches
OriginAllowed(allowed, origin) ==
    allowed.all \/ \E i \in DOMAIN allowed.list : PatternMatches(allowed.list[i], origin)

----------------------------------------------------------------------------

\* The CorsContext of a request: what prepare_response may write.
CorsContextOf(req, cfg) ==
    LET allowed == OriginAllowed(cfg.allow_origins, req.origin[1])
    IN [preflight |-> req.method = "OPTIONS",
        origin |-> IF cfg.allow_origins.all THEN <<"*">> ELSE IF allowed THEN req.origin ELSE <<>>,
        credentials |-> allowed /\ cfg.allow_credentials /\ ~cfg.allow_origins.all,
        headers |-> IF req.method = "OPTIONS" /\ cfg.allow_headers = <<>> THEN req.acrh ELSE <<>>]

\* Slip: an answer to a request without Origin is cached for every origin.
VaryNothing(cfg) == {}
\* What the answer to a request without Origin varies by.
VaryWithoutOrigin(cfg) == IF cfg.allow_origins.all THEN {} ELSE {"origin"}

\* on_request: the action, the context (None when out of the scope of CORS)
\* and the names added to Vary.
CorsOnRequest(req, cfg) ==
    LET preflight == req.method = "OPTIONS"
        listed == IF cfg.allow_origins.all THEN {} ELSE {"origin"}
    IN IF req.origin = <<>> THEN [action |-> "continue", ctx |-> <<>>, vary |-> VaryWithoutOrigin(cfg)]
       ELSE IF preflight /\ req.acrm = <<>>
       THEN [action |-> "continue", ctx |-> <<>>, vary |-> {"origin"}]
       ELSE IF ~preflight THEN [action |-> "continue", ctx |-> <<CorsContextOf(req, cfg)>>, vary |-> listed]
       ELSE [action |-> "204", ctx |-> <<CorsContextOf(req, cfg)>>,
             vary |-> {"origin", "access-control-request-headers", "access-control-request-method"}]

\* prepare_response: the CORS headers of the answer, by name.
CorsHeaders(ctx, cfg) ==
    IF ctx = <<>> \/ (ctx # <<>> /\ ctx[1].origin = <<>>) THEN <<>>
    ELSE LET c == ctx[1]
             pre == c.preflight
         IN <<c.origin[1], c.credentials, cfg.expose,
              IF pre THEN cfg.allow_methods ELSE <<>>,
              IF ~pre THEN <<>> ELSE IF cfg.allow_headers # <<>> THEN cfg.allow_headers ELSE c.headers,
              IF pre THEN cfg.max_age ELSE <<>>>>
=============================================================================
