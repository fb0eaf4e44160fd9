------------------------------- MODULE Helmet -------------------------------
(***************************************************************************)
(* Security headers (ophan/src/middlewares/helmet.rs).  A response is      *)
(* [headers |-> function from names to values]; values are atoms.          *)
(***************************************************************************)
EXTENDS FiniteSets, TLC

HelmetDefault == [target |-> "web", level |-> "standard"]

HelmetTarget(t) == IF t \in {"web", "api"} THEN <<t>> ELSE <<>>
HelmetLevel(t) == CASE t \in {"standard", "strict"} -> <<t>>
                    [] t \in {"disabled", "off"} -> <<"disabled">>
                    [] OTHER -> <<>>

\* with_overrides: <<config>>, or <<>> when a text does not parse
with_overrides(cfg, target, level) ==
    LET t == IF target = <<>> THEN <<cfg.target>> ELSE HelmetTarget(target[1])
        l == IF level = <<>> THEN <<cfg.level>> ELSE HelmetLevel(level[1])
    IN IF t = <<>> \/ l = <<>> THEN <<>> ELSE <<[target |-> t[1], level |-> l[1]]>>

push_if_missing(headers, name, value) == headers @@ (name :> value)

is_document(headers) ==
    /\ "content-type" \in DOMAIN headers
    /\ headers["content-type"] \in {"text/html", "application/xhtml+xml", "image/svg+xml"}

DocumentHeaders(strict) ==
    [n \in {"coop", "origin-agent-cluster", "dns-prefetch"} |-> "fixed"]
    @@ ("x-frame-options" :> IF strict THEN "DENY" ELSE "SAMEORIGIN")
    @@ ("referrer-policy" :> IF strict THEN "no-referrer" ELSE "strict-origin")
    @@ IF strict THEN ("coep" :> "require-corp") ELSE <<>>

\* prepare_response: headers the upstream set are never replaced
HelmetHeaders(cfg, headers) ==
    LET base == push_if_missing(headers, "x-content-type-options", "nosniff")
        corp == push_if_missing(base, "corp", "same-origin")
        strict == cfg.level = "strict"
    IN IF cfg.level = "disabled" THEN base
       ELSE IF cfg.target = "api"
       THEN IF strict THEN push_if_missing(corp, "referrer-policy", "no-referrer") ELSE corp
       ELSE IF is_document(corp) THEN corp @@ DocumentHeaders(strict) ELSE corp
=============================================================================
