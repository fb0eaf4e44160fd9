----------------------------- MODULE RadixTree -----------------------------
(***************************************************************************)
(* The radix tree of the router (libs/ophan-router/src/tree.rs).  A route  *)
(* or a path is a sequence of tokens: a static token stands for a          *)
(* character, a parameter `{name}` or the catch-all `{*_}` for itself.     *)
(* Escaped braces are outside the alphabet.  A node holds an Option value. *)
(***************************************************************************)
EXTENDS Integers, Sequences, SequencesExt

CONSTANTS
    Params,      \* parameter tokens, as "{id}"
    CatchAll     \* the catch-all token

Norm == "{}"     \* a parameter after normalize_params
Bad(kind) == [ok |-> FALSE, err |-> kind]
Good(n) == [ok |-> TRUE, node |-> n]

Wilds == Params \cup {Norm, CatchAll}
Wild(t) == t \in Wilds
Tail2(s, i) == SubSeq(s, i, Len(s))
\* the first position of one of the tokens, 0 when there is none
First(s, tokens) == LET at == {i \in DOMAIN s : s[i] \in tokens} IN IF at = {} THEN 0 ELSE Min(at)
find_wildcard(s) == First(s, Wilds)
Slash(s) == First(s, {"/"})
\* length of the segment at the head of s, its slash included
Segment(s) == IF Slash(s) = 0 THEN Len(s) ELSE Slash(s)
Plain(suffix) == suffix \in {<<>>, <<"/">>}

Node == [prefix |-> <<>>, type |-> "static", suffix |-> FALSE, wild |-> FALSE, indices |-> <<>>,
         children |-> <<>>, value |-> <<>>, remap |-> <<>>, priority |-> 0]

\* Parameters lose their names, which are kept aside.
normalize_params(route) ==
    [route |-> [i \in DOMAIN route |-> IF route[i] \in Params THEN Norm ELSE route[i]],
     remap |-> SelectSeq(route, LAMBDA t : t \in Params)]

\* Slip: the new child goes last whatever is there.
add_child_last(n, c) == [n EXCEPT !.children = Append(@, c)]
\* wildcards stay at the end
add_child(n, c) ==
    LET last == Len(n.children)
    IN [n EXCEPT !.children = IF n.wild /\ last > 0 THEN InsertAt(@, last, c) ELSE Append(@, c)]

\* suffixes are kept longest first
add_suffix_child(n, c) ==
    LET longer == Cardinality({i \in DOMAIN n.children : Len(n.children[i].prefix) >= Len(c.prefix)})
    IN [n EXCEPT !.children = InsertAt(@, longer + 1, c)]

Move(s, from, to) == InsertAt(RemoveAt(s, from), to, s[from])

\* The i-th child gains priority and moves before those with less.
update_child_priority(n, i) ==
    LET p == n.children[i].priority + 1
        ahead == {j \in 1..(i - 1) : \A k \in j..(i - 1) : n.children[k].priority < p}
        to == IF ahead = {} THEN i ELSE Min(ahead)
    IN [node |-> [n EXCEPT !.children = Move([@ EXCEPT ![i].priority = p], i, to), !.indices = Move(@, i, to)],
        at |-> to]

RECURSIVE wild_child_in_segment(_)
wild_child_in_segment(n) ==
    /\ ~Contains(n.prefix, "/")
    /\ n.type = "param" \/ \E i \in DOMAIN n.children : wild_child_in_segment(n.children[i])

RECURSIVE prefix_wild_child_in_segment(_)
prefix_wild_child_in_segment(n) ==
    /\ ~(n.type = "root" /\ n.prefix = <<>>)
    /\ IF n.prefix # <<>> /\ n.prefix[Len(n.prefix)] = "/"
       THEN \E i \in DOMAIN n.children : prefix_wild_child_in_segment(n.children[i])
       ELSE \E i \in DOMAIN n.children : wild_child_in_segment(n.children[i])

RECURSIVE suffix_wild_child_in_segment(_)
suffix_wild_child_in_segment(n) ==
    \/ n.type = "param" /\ n.suffix
    \/ \E i \in DOMAIN n.children :
         ~Contains(n.children[i].prefix, "/") /\ suffix_wild_child_in_segment(n.children[i])

Leaf(n, leaf) == [n EXCEPT !.value = <<leaf.value>>, !.remap = leaf.remap]
OnOk(r, F(_)) == IF r.ok THEN Good(F(r.node)) ELSE r    \* Result::map

RECURSIVE insert_route(_, _, _)
\* What follows a wildcard's segment, put under n.
Below(n, rest, leaf) ==
    IF rest = <<>> THEN Good(Leaf(n, leaf))
    ELSE IF Wild(rest[1]) THEN insert_route(n, rest, leaf)
    ELSE OnOk(insert_route(Node, rest, leaf),
              LAMBDA c : add_child([n EXCEPT !.indices = Append(@, rest[1])], [c EXCEPT !.priority = 1]))

\* A parameter with the rest of its segment and what follows it.
ParamNode(suffix, after, leaf) ==
    LET param == [Node EXCEPT !.priority = 1, !.type = "param", !.suffix = ~Plain(suffix), !.prefix = <<Norm>>]
    IN IF suffix = <<>> THEN Below(param, after, leaf)
       ELSE OnOk(Below([Node EXCEPT !.priority = 1, !.prefix = suffix], after, leaf), LAMBDA c : add_suffix_child(param, c))

insert_route(n, prefix, leaf) ==
    LET w == find_wildcard(prefix)
        rest == Tail2(prefix, w + 1)
        suffix == SubSeq(rest, 1, Segment(rest))
        Attach(c) == [add_child(IF w > 1 THEN [n EXCEPT !.prefix = SubSeq(prefix, 1, w - 1)] ELSE n, c) EXCEPT !.wild = TRUE]
    IN IF w = 0 THEN Good(Leaf([n EXCEPT !.prefix = prefix], leaf))
       ELSE IF prefix[w] = CatchAll
       THEN IF rest # <<>> THEN Bad("catch-all")
            ELSE Good(Attach(Leaf([Node EXCEPT !.prefix = <<CatchAll>>, !.type = "catchall", !.priority = 1], leaf)))
       ELSE IF find_wildcard(suffix) # 0 THEN Bad("segment")
       ELSE OnOk(ParamNode(suffix, Tail2(rest, Segment(rest) + 1), leaf), Attach)

\* The part of n.prefix from c + 1 on moves to a child of its own.
Fork(n, c) ==
    LET child == [n EXCEPT !.prefix = Tail2(@, c + 1), !.type = "static", !.suffix = FALSE, !.priority = @ - 1]
    IN [n EXCEPT !.prefix = SubSeq(@, 1, c), !.wild = FALSE, !.value = <<>>, !.remap = <<>>,
                 !.indices = <<n.prefix[c + 1]>>, !.children = <<child>>]

\* A suffix of the parameter n that differs from `suffix` by a trailing slash only.
ExtraSlash(n, suffix) ==
    \E i \in DOMAIN n.children :
        LET p == n.children[i].prefix IN p = Append(suffix, "/") \/ suffix = Append(p, "/")

\* A new suffix of the parameter n, when a static prefix already leads to the parameter.
SuffixConflict(n, above, suffix) ==
    ~ExtraSlash(n, suffix) /\ ~Plain(suffix) /\ above # <<>> /\ prefix_wild_child_in_segment(above[1])

\* A new static child of n whose segment holds a wildcard.
StaticConflict(n, segment) ==
    LET w == find_wildcard(segment)
    IN w # 0 /\ \/ w > 1 /\ suffix_wild_child_in_segment(n)
                \/ ~Plain(Tail2(segment, w + 1)) /\ prefix_wild_child_in_segment(n)

\* A wildcard where n already has one: another one, a catch-all, or a prefix with and without suffix.
WildMismatch(n, rest) ==
    LET wc == n.children[Len(n.children)]
    IN \/ wc.prefix # <<rest[1]>> \/ wc.type = "catchall"
       \/ ~IsSuffix(<<"/">>, n.prefix) /\ wc.suffix /\ Plain(Tail(rest))

\* A first wildcard of n, behind the first c tokens of the route.
WildConflict(n, route, c) ==
    \/ ~Plain(Tail2(route, c + 2)) /\ prefix_wild_child_in_segment(n)
    \/ c > 0 /\ route[c] # "/" /\ suffix_wild_child_in_segment(n)

Bump(n, i) == [n EXCEPT !.children[i].priority = @ + 1]

\* The walk of Node::insert at n, under the parents above it (none at the root).
RECURSIVE InsertUnder(_, _, _, _)
InChild(n, i, rest, leaf) == OnOk(InsertUnder(n.children[i], <<n>>, rest, leaf), LAMBDA c : [n EXCEPT !.children[i] = c])

\* n is a parameter, its children are suffixes.
InsertSuffix(n, above, rest, suffix, leaf) ==
    LET match == {i \in DOMAIN n.children : n.children[i].prefix = suffix}
    IN IF match # {} THEN InChild(Bump(n, Min(match)), Min(match), rest, leaf)
       ELSE IF SuffixConflict(n, above, suffix) THEN Bad("conflict")
       ELSE IF find_wildcard(suffix) # 0 THEN Bad("segment")
       ELSE OnOk(Below([Node EXCEPT !.prefix = suffix, !.priority = 1], Tail2(rest, Segment(rest) + 1), leaf),
                 LAMBDA c : add_suffix_child([n EXCEPT !.suffix = @ \/ ~Plain(suffix)], c))

\* A static token without a child of its own.
InsertStatic(n, rest, leaf) ==
    LET Ranked(m) == update_child_priority(m, Len(m.indices)).node
    IN IF StaticConflict(n, SubSeq(rest, 1, IF Slash(rest) = 0 THEN Len(rest) ELSE Slash(rest) - 1)) THEN Bad("conflict")
       ELSE OnOk(insert_route([Node EXCEPT !.priority = 0], rest, leaf),
                 LAMBDA c : Ranked(add_child([n EXCEPT !.indices = Append(@, rest[1])], c)))

\* What is left of the route behind the prefix of n, which is its first c tokens.
InsertRest(n, above, route, c, rest, leaf) ==
    IF rest = <<>> THEN IF n.value # <<>> THEN Bad("conflict") ELSE Good(Leaf(n, leaf))
    ELSE IF n.type = "param" THEN InsertSuffix(n, above, rest, SubSeq(rest, 1, Segment(rest)), leaf)
    ELSE IF ~Wild(rest[1]) /\ Contains(n.indices, rest[1])
    THEN LET u == update_child_priority(n, First(n.indices, {rest[1]})) IN InChild(u.node, u.at, rest, leaf)
    ELSE IF ~Wild(rest[1]) THEN InsertStatic(n, rest, leaf)
    ELSE IF n.wild
    THEN IF WildMismatch(n, rest) THEN Bad("conflict") ELSE InChild(Bump(n, Len(n.children)), Len(n.children), rest, leaf)
    ELSE IF WildConflict(n, route, c) THEN Bad("conflict") ELSE insert_route(n, rest, leaf)

InsertUnder(n, above, route, leaf) ==
    LET c == Max({i \in 0..Min({Len(route), Len(n.prefix)}) : SubSeq(route, 1, i) = SubSeq(n.prefix, 1, i)})
    IN IF Len(n.prefix) > c THEN InsertUnder(Fork(n, c), above, route, leaf)
       ELSE InsertRest(n, above, route, c, Tail2(route, c + 1), leaf)

insert(tree, route, val) ==
    LET r == normalize_params(route)
        leaf == [value |-> val, remap |-> r.remap]
        root == [tree EXCEPT !.priority = @ + 1]
    IN IF tree.value = <<>> /\ tree.children = <<>>
       THEN OnOk(insert_route(root, r.route, leaf), LAMBDA n : [n EXCEPT !.type = "root"])
       ELSE InsertUnder(root, <<>>, r.route, leaf)

----------------------------------------------------------------------------

\* The child at i loses its value; a childless one goes, with its index.
\* The parameter names must be the ones the route was inserted with.
remove_child(n, i, remap) ==
    LET c == n.children[i]
        static == c.type = "static" /\ n.type # "param"
        gone == [n EXCEPT !.children = RemoveAt(@, i),
                          !.indices = IF static THEN RemoveAt(@, i) ELSE @,
                          !.wild = IF static THEN @ ELSE FALSE]
    IN IF c.remap # remap THEN [tree |-> n, value |-> <<>>]
       ELSE [tree |-> IF c.children = <<>> THEN gone ELSE [n EXCEPT !.children[i].value = <<>>], value |-> c.value]

RECURSIVE RemoveUnder(_, _, _)
RemoveUnder(n, route, remap) ==
    LET rest == Tail2(route, Len(n.prefix) + 1)
        t == Segment(rest)
        suffixes == {i \in DOMAIN n.children : n.type = "param" /\ n.children[i].prefix = SubSeq(rest, 1, t)}
        static == First(n.indices, {rest[1]})
        nothing == [tree |-> n, value |-> <<>>]
        Deeper(i) == LET r == RemoveUnder(n.children[i], rest, remap)
                     IN [tree |-> [n EXCEPT !.children[i] = r.tree], value |-> r.value]
        Try(i) == IF n.children[i].prefix = rest THEN remove_child(n, i, remap) ELSE Deeper(i)
    IN IF Len(route) <= Len(n.prefix) \/ ~IsPrefix(n.prefix, route) THEN nothing
       ELSE IF suffixes # {} THEN IF t = Len(rest) THEN remove_child(n, Min(suffixes), remap) ELSE Deeper(Min(suffixes))
       ELSE IF static # 0 THEN Try(static)
       ELSE IF n.wild THEN Try(Len(n.children)) ELSE nothing

\* [tree, value]: the value is <<>> when the route is not there
remove(tree, route) ==
    LET r == normalize_params(route)
    IN IF r.route = tree.prefix
       THEN [tree |-> IF tree.children = <<>> THEN Node ELSE [tree EXCEPT !.value = <<>>], value |-> tree.value]
       ELSE RemoveUnder(tree, r.route, r.remap)

----------------------------------------------------------------------------

NotFound == [found |-> FALSE]
Found(v, params) == [found |-> TRUE, value |-> v, params |-> params]

\* Where to go back to from the path p: the latest wildcard passed by on the way to p.
LastSkipped(skipped, p) == Max({0} \cup {i \in DOMAIN skipped : IsSuffix(p, skipped[i].path)})

\* The search of Node::at: `skipped` are the wildcards passed by, latest last.
RECURSIVE AtNode(_, _, _, _, _)
AtNode(n, path, backtracking, params, skipped) ==
    LET rest == Tail2(path, Len(n.prefix) + 1)
        Backtrack(p) ==
          LET k == LastSkipped(skipped, p)
              s == skipped[k]
          IN IF k = 0 THEN NotFound
             ELSE AtNode(s.node, s.path, TRUE, SubSeq(params, 1, s.params), SubSeq(skipped, 1, k - 1))
        static == IF backtracking THEN 0 ELSE First(n.indices, {rest[1]})
        passed == IF n.wild THEN Append(skipped, [node |-> n, path |-> path, params |-> Len(params)]) ELSE skipped
        wc == n.children[Len(n.children)]
        slash == Slash(rest)
        End(value) == IF value = <<>> THEN Backtrack(rest) ELSE Found(value[1], Append(params, rest))
        PlainParam ==
          IF slash = 0 THEN End(wc.value)
          ELSE IF Len(wc.children) # 1 THEN Backtrack(rest)
          ELSE AtNode(wc.children[1], Tail2(rest, slash), FALSE, Append(params, SubSeq(rest, 1, slash - 1)), skipped)
        t == Segment(rest)
        ending == {i \in DOMAIN wc.children : /\ Len(wc.children[i].prefix) < t
                                              /\ IsSuffix(wc.children[i].prefix, SubSeq(rest, 1, t))}
        SuffixParam ==
          IF ending # {}
          THEN LET cut == t - Len(wc.children[Min(ending)].prefix)
               IN AtNode(wc.children[Min(ending)], Tail2(rest, cut + 1), FALSE,
                         Append(params, SubSeq(rest, 1, cut)), skipped)
          ELSE IF slash = 0 THEN End(wc.value) ELSE Backtrack(rest)
    IN IF Len(path) <= Len(n.prefix)
       THEN IF path = n.prefix /\ n.value # <<>> THEN Found(n.value[1], params) ELSE Backtrack(path)
       ELSE IF ~IsPrefix(n.prefix, path) THEN Backtrack(path)
       ELSE IF static # 0 THEN AtNode(n.children[static], rest, FALSE, params, passed)
       ELSE IF ~n.wild THEN Backtrack(rest)
       ELSE IF wc.type = "catchall"
       THEN IF wc.value = <<>> THEN NotFound ELSE Found(wc.value[1], Append(params, rest))
       ELSE IF slash = 1 THEN Backtrack(rest)
       ELSE IF wc.suffix THEN SuffixParam ELSE PlainParam

at(tree, path) == AtNode(tree, path, FALSE, <<>>, <<>>)
=============================================================================
