------------------------------- MODULE Router -------------------------------
(***************************************************************************)
(* The router of a gateway (libs/ophan-router): method sets, virtual       *)
(* hosts with the SNI table, Ophan path patterns over the radix tree, and  *)
(* the reference meaning the lookups are compared with.  A host is a       *)
(* sequence of labels, "" last for a trailing dot; a path is a sequence of *)
(* tokens.                                                                 *)
(***************************************************************************)
EXTENDS RadixTree, FiniteSets, TLC

CONSTANTS
    ParamOf,        \* ":id" -> "{id}" for the `:name` tokens of a pattern
    LowerLabel(_),  \* ASCII lower case of a label
    MAX_LABELS      \* labels of a host name a lookup accepts

Standard == {"GET", "POST", "PUT", "DELETE", "PATCH", "HEAD", "OPTIONS", "TRACE", "CONNECT"}

MethodSet(ms) == [standard |-> ms \cap Standard, custom |-> ms \ Standard]
AllMethods == MethodSet(Standard)
is_any(s) == s = AllMethods
is_empty(s) == s = MethodSet({})
contains_method(s, m) == IF m \in Standard THEN m \in s.standard ELSE m \in s.custom
without(s, other) == IF is_any(other) THEN MethodSet({})
                     ELSE [standard |-> s.standard \ other.standard, custom |-> s.custom \ other.custom]
intersects(s, other) ==
    /\ ~is_empty(s) /\ ~is_empty(other)
    /\ \/ is_any(s) \/ is_any(other)
       \/ s.standard \cap other.standard # {} \/ s.custom \cap other.custom # {}

----------------------------------------------------------------------------

allows(entry, m) == is_any(entry.methods) \/ contains_method(entry.methods, m)

\* A slot is the sequence of its entries, the inline one first.
FindEntry(slot, m) == SelectSeq(slot, LAMBDA e : allows(e, m))

WithoutAll(methods, slot) == FoldLeft(LAMBDA acc, e : without(acc, e.methods), methods, slot)

\* RouteSlot::push.  The inline entry is kept, empty, only to be replaced.
Push(slot, entry) ==
    LET left == WithoutAll(entry.methods, slot)
        cut == [i \in DOMAIN slot |-> IF slot[i].implicit
                                      THEN [slot[i] EXCEPT !.methods = without(@, entry.methods)] ELSE slot[i]]
        rest == SelectSeq(Tail(cut), LAMBDA e : ~is_empty(e.methods))
    IN IF entry.implicit
       THEN [ok |-> TRUE, slot |-> IF is_empty(left) THEN slot ELSE Append(slot, [entry EXCEPT !.methods = left])]
       ELSE IF \E i \in DOMAIN slot : ~slot[i].implicit /\ intersects(slot[i].methods, entry.methods)
       THEN [ok |-> FALSE, slot |-> slot]
       ELSE [ok |-> TRUE, slot |-> IF is_empty(cut[1].methods) THEN <<entry>> \o rest
                                   ELSE Append(<<cut[1]>> \o rest, entry)]

----------------------------------------------------------------------------

NoHosts == [exact |-> <<>>, wildcard |-> <<>>]   \* two empty functions
LowerHost(h) == [i \in DOMAIN h |-> LowerLabel(h[i])]

SniAdd(table, host, id) ==
    LET h == LowerHost(host)
    IN IF Len(h) > 1 /\ h[1] = "*"
       THEN [table EXCEPT !.wildcard = (Tail(h) :> id) @@ @]
       ELSE [table EXCEPT !.exact = (h :> id) @@ @]

\* The wildcards are tried from the longest suffix of the host name.
route_wildcard(table, h) ==
    LET hits == {i \in 2..Min({Len(h), MAX_LABELS}) : Tail2(h, i) \in DOMAIN table.wildcard}
    IN IF hits = {} THEN <<>> ELSE <<table.wildcard[Tail2(h, Min(hits))]>>

SniRoute(table, sni) ==
    LET h == LowerHost(IF sni # <<>> /\ sni[Len(sni)] = "" THEN Front(sni) ELSE sni)
    IN IF h = <<>> THEN <<>>
       ELSE IF h \in DOMAIN table.exact THEN <<table.exact[h]>> ELSE route_wildcard(table, h)

----------------------------------------------------------------------------

EndsWith(s, t) == IsSuffix(t, s)
RECURSIVE TrimSlashes(_)
TrimSlashes(p) == IF p # <<>> /\ p[Len(p)] = "/" THEN TrimSlashes(Front(p)) ELSE p
normalize_trailing_slash(p) == LET t == TrimSlashes(p) IN IF t = <<>> THEN <<"/">> ELSE t

\* `:name` and `*` become wildcards, unless a `{...}` wildcard is there already.
normalize_pattern(p) ==
    IF \E i \in DOMAIN p : p[i] \in Params \cup {CatchAll} THEN p
    ELSE [i \in DOMAIN p |-> IF p[i] \in DOMAIN ParamOf THEN ParamOf[p[i]]
                             ELSE IF p[i] # "*" THEN p[i]
                             ELSE IF i = Len(p) THEN CatchAll ELSE "{_}"]

EmptyRouter == [table |-> NoHosts, vhosts |-> <<[name |-> <<"__default__">>, tree |-> Node]>>]

\* [ok, tree]; a failed insertion of a slot that was taken out loses it
PutSlot(tree, pattern, slot, ok) ==
    LET Stored(r) == [ok |-> r.ok /\ ok, tree |-> IF r.ok THEN r.node ELSE tree] IN Stored(insert(tree, pattern, slot))
IntoSlot(taken, pattern, pushed) == PutSlot(taken.tree, pattern, pushed.slot, pushed.ok)
insert_entry(tree, pattern, entry) ==
    LET taken == remove(tree, pattern)
    IN IF taken.value = <<>> THEN PutSlot(tree, pattern, <<entry>>, TRUE)
       ELSE IntoSlot(taken, pattern, Push(taken.value[1], entry))

\* `/x/*` also answers `/x`; that entry may fail to be inserted.
WithImplicit(own, base, entry) ==
    [own EXCEPT !.tree = insert_entry(@, normalize_pattern(base), [entry EXCEPT !.implicit = TRUE]).tree]
insert_into(tree, path, entry) ==
    LET star == EndsWith(path, <<"/", "*">>)
        trimmed == IF Len(path) > 1 /\ ~star THEN TrimSlashes(path) ELSE path
        p == IF trimmed = <<>> THEN <<"/">> ELSE trimmed
        base == IF Len(p) = 2 THEN <<"/">> ELSE SubSeq(p, 1, Len(p) - 2)
        Both(own) == IF own.ok /\ EndsWith(p, <<"/", "*">>) THEN WithImplicit(own, base, entry) ELSE own
    IN Both(insert_entry(tree, normalize_pattern(p), entry))

\* the virtual host of a configured host name, created when it is not there
VhostFor(router, host) ==
    LET hit == SniRoute(router.table, host)
        new == Len(router.vhosts) + 1
    IN IF hit # <<>> /\ LowerHost(router.vhosts[hit[1]].name) = LowerHost(host) THEN [router |-> router, id |-> hit[1]]
       ELSE [router |-> [table |-> SniAdd(router.table, host, new),
                         vhosts |-> Append(router.vhosts, [name |-> host, tree |-> Node])],
             id |-> new]

\* route: [path, methods, hosts, value]; [ok, router]
add_route(router, route) ==
    LET ms == MethodSet(route.methods)
        entry == [methods |-> IF is_empty(ms) THEN AllMethods ELSE ms, value |-> route.value, implicit |-> FALSE]
        named == FoldLeft(LAMBDA acc, h : LET v == VhostFor(acc.router, h)
                                          IN [router |-> v.router, ids |-> IF Contains(acc.ids, v.id) THEN acc.ids
                                                                          ELSE Append(acc.ids, v.id)],
                          [router |-> router, ids |-> IF route.hosts = <<>> THEN <<1>> ELSE <<>>], route.hosts)
        Put(old, id, r) == [ok |-> r.ok, router |-> [old EXCEPT !.vhosts[id].tree = r.tree]]
    IN FoldLeft(LAMBDA acc, id : IF ~acc.ok THEN acc
                                 ELSE Put(acc.router, id, insert_into(acc.router.vhosts[id].tree, route.path, entry)),
                [ok |-> TRUE, router |-> named.router], named.ids)

resolve_vhost(router, host) == LET hit == SniRoute(router.table, host) IN IF hit = <<>> THEN 1 ELSE hit[1]

\* [status, value, params]: 200 with the value routed to, 404 or 405
match_route(router, host, m, path) ==
    LET Answer(hit, entries) == IF entries = <<>> THEN [status |-> 405]
                                ELSE [status |-> 200, value |-> entries[1].value, params |-> hit.params]
        Choose(hit) == IF ~hit.found THEN [status |-> 404] ELSE Answer(hit, FindEntry(hit.value, m))
    IN Choose(at(router.vhosts[resolve_vhost(router, host)].tree, normalize_trailing_slash(path)))

----------------------------------------------------------------------------

(***************************************************************************)
(* What the routes mean, without a tree: the patterns of the virtual host  *)
(* that match the path, and among them the one that is static where        *)
(* another has a parameter, and a parameter where another has a catch-all. *)
(***************************************************************************)

\* the parameter values with which the pattern matches the path
RECURSIVE Matches(_, _)
Matches(pattern, path) ==
    IF pattern = <<>> THEN IF path = <<>> THEN {<<>>} ELSE {}
    ELSE IF path = <<>> THEN {}
    ELSE IF pattern[1] = CatchAll THEN {<<path>>}
    ELSE IF ~Wild(pattern[1])
    THEN IF pattern[1] = path[1] THEN Matches(Tail(pattern), Tail(path)) ELSE {}
    ELSE UNION { {<<SubSeq(path, 1, n)>> \o rest : rest \in Matches(Tail(pattern), Tail2(path, n + 1))} :
                 n \in {k \in 1..Len(path) : ~Contains(SubSeq(path, 1, k), "/")} }

Kind(t) == IF t = CatchAll THEN 2 ELSE IF Wild(t) THEN 1 ELSE 0

\* p is preferred to q, both matching some path
Before(p, q) ==
    \E i \in 1..Min({Len(p), Len(q)}) :
       /\ \A j \in 1..(i - 1) : Kind(p[j]) = Kind(q[j])
       /\ Kind(p[i]) < Kind(q[i])

\* what a route registers: its own pattern and, for `/x/*`, the implicit `/x`
Registered(route) ==
    LET star == EndsWith(route.path, <<"/", "*">>)
        own == normalize_pattern(IF star THEN route.path ELSE normalize_trailing_slash(route.path))
        base == normalize_pattern(normalize_trailing_slash(SubSeq(route.path, 1, Len(route.path) - 2)))
        shape(p) == [i \in DOMAIN p |-> IF p[i] \in Params THEN Norm ELSE p[i]]
    IN {[pattern |-> shape(own), implicit |-> FALSE, route |-> route]} \cup
       IF star THEN {[pattern |-> shape(base), implicit |-> TRUE, route |-> route]} ELSE {}

Accepts(route, m) == route.methods = {} \/ m \in route.methods

\* The host name of the request as the routes know it: the most specific one.
HostKey(routes, host) ==
    LET h == LowerHost(IF host # <<>> /\ host[Len(host)] = "" THEN Front(host) ELSE host)
        named == UNION {{LowerHost(r.hosts[i]) : i \in DOMAIN r.hosts} : r \in routes}
        wild == {i \in 2..Len(h) : (<<"*">> \o Tail2(h, i)) \in named}
    IN IF h \in named THEN <<h>> ELSE IF wild = {} THEN <<>> ELSE <<<<"*">> \o Tail2(h, Min(wild))>>

ServedBy(routes, host) ==
    LET key == HostKey(routes, host)
    IN {r \in routes : IF key = <<>> THEN r.hosts = <<>>
                       ELSE \E i \in DOMAIN r.hosts : LowerHost(r.hosts[i]) = key[1]}

\* the values a request may be routed to, {} for 404 and {405} for 405
Meaning(routes, host, m, path) ==
    LET regs == UNION {Registered(r) : r \in ServedBy(routes, host)}
        hits == {g \in regs : Matches(g.pattern, normalize_trailing_slash(path)) # {}}
        best == {g \in hits : ~\E o \in hits : Before(o.pattern, g.pattern)}
        able == {g \in best : Accepts(g.route, m)}
        explicit == {g \in able : ~g.implicit}
    IN IF hits = {} THEN {404} ELSE IF able = {} THEN {405}
       ELSE {g.route.value : g \in IF explicit # {} THEN explicit ELSE able}
=============================================================================
