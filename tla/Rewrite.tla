------------------------------ MODULE Rewrite ------------------------------
(***************************************************************************)
(* Path rewriting (ophan/src/middlewares/rewrites.rs).  A path is a        *)
(* sequence of tokens; a rule [from, to] has a `from` that may end or      *)
(* start with "*".  The regex engine is external: ReOk, ReMatches and      *)
(* ReReplace stand for Regex::new, is_match and replace.                   *)
(*                                                                         *)
(* The engine is built from the rules of a file one by one; `rewrites`   *)
(* is what it has been given so far, as it is read.                        *)
(***************************************************************************)
EXTENDS Integers, Sequences, FiniteSetsExt

CONSTANTS
    ReOk(_), ReMatches(_, _), ReReplace(_, _, _),
    MaxPrio,     \* u32::MAX, above every priority
    PathTokens,
    RewriteRules, Strips, RewritePaths, MaxRules

ASSUME RewriteAssumption ==
    /\ RewriteRules \in Seq([from : Seq(PathTokens), to : Seq(PathTokens)])
    /\ \A k \in DOMAIN Strips : \A s \in {Strips[k].prefix, Strips[k].suffix} : s = <<>> \/ s[1] \in Seq(PathTokens)
    /\ RewritePaths \subseteq Seq(PathTokens)
    /\ MaxRules \in Nat /\ MaxPrio \in Nat /\ MaxRules <= MaxPrio /\ 2 <= MaxPrio

VARIABLES rewrites, trailing_slash, engine

rewriteVars == <<rewrites, trailing_slash, engine>>

LOCAL Meta == {"^", "$", "[", "]", "(", ")", "+", "?", "|", "\\", "*", "{", "}"}
is_plain_path(p) == \A i \in DOMAIN p : p[i] \notin Meta

\* How a rule is read: the kind of index it goes to, and its text there.
ReadRule(rule) ==
    LET from == rule.from
        n == Len(from)
        Kind(as, text) == [as |-> as, text |-> text, to |-> rule.to]
    IN IF n > 0 /\ from[n] = "*" THEN Kind("prefix", SubSeq(from, 1, n - 1))
       ELSE IF n > 0 /\ from[1] = "*" THEN Kind("suffix", Tail(from))
       ELSE IF is_plain_path(from) THEN Kind("exact", from)
       ELSE Kind("regex", from)

----------------------------------------------------------------------------

\* A trie is the function from the keys that end in it to [prio, to].  The
\* suffix trie holds its keys backwards and walks a path from its end.
EmptyTrie == [rules |-> <<>>, min_prio |-> MaxPrio]

TrieEnds == {"prefix", "suffix"}
KeyAt(end, path, n) == IF end = "prefix" THEN SubSeq(path, 1, n) ELSE SubSeq(path, Len(path) - n + 1, Len(path))
Replaced(end, path, n, to) == IF end = "prefix" THEN to \o SubSeq(path, n + 1, Len(path)) ELSE SubSeq(path, 1, Len(path) - n) \o to

\* Slip: a later rule of the same key replaces it.
TrieInsertLast(t, key, to, prio) ==
    [rules |-> [k \in DOMAIN t.rules \cup {key} |-> IF k = key THEN [prio |-> prio, to |-> to] ELSE t.rules[k]],
     min_prio |-> IF prio < t.min_prio THEN prio ELSE t.min_prio]
\* the first rule of a key stays
TrieInsert(t, key, to, prio) ==
    [rules |-> [k \in DOMAIN t.rules \cup {key} |-> IF k \in DOMAIN t.rules THEN t.rules[k] ELSE [prio |-> prio, to |-> to]],
     min_prio |-> IF prio < t.min_prio THEN prio ELSE t.min_prio]

\* the earliest rule on the walk along the path and what it makes of it: [prio, path], or <<>>
find_best(t, end, path) ==
    LET on == {n \in 0..Len(path) : KeyAt(end, path, n) \in DOMAIN t.rules}
        Rule(n) == t.rules[KeyAt(end, path, n)]
        best == Min({Rule(n).prio : n \in on})
        n == CHOOSE k \in on : Rule(k).prio = best
    IN IF on = {} THEN <<>> ELSE <<[prio |-> best, path |-> Replaced(end, path, n, Rule(n).to)]>>

----------------------------------------------------------------------------

NoEngine == [ok |-> FALSE]
EmptyEngine == [ok |-> TRUE, exact |-> <<>>, tries |-> [end \in TrieEnds |-> EmptyTrie], regexes |-> <<>>, next |-> 0]

\* one rule of RewriteEngine::new; an exact rule replaces an earlier one
IndexRule(e, rule) ==
    IF rule.as \in TrieEnds THEN [e EXCEPT !.tries[rule.as] = TrieInsert(@, rule.text, rule.to, e.next)]
    ELSE IF rule.as = "exact"
    THEN [e EXCEPT !.exact = [p \in DOMAIN @ \cup {rule.text} |-> IF p = rule.text THEN [prio |-> e.next, to |-> rule.to] ELSE @[p]]]
    ELSE IF ReOk(rule.text) THEN [e EXCEPT !.regexes = Append(@, [prio |-> e.next, re |-> rule.text, to |-> rule.to])]
    ELSE [e EXCEPT !.ok = FALSE]

AddRule(e, rule) == [IndexRule(e, rule) EXCEPT !.next = @ + 1]

\* The strips come first; an empty one is no rule.
Strip(end, s) == IF s = <<>> \/ s = <<<<>>>> THEN <<>> ELSE <<[as |-> end, text |-> s[1], to |-> <<>>]>>
WithStrip(e, strip) == IF strip = <<>> THEN e ELSE AddRule(e, strip[1])

NewEngine(k) ==
    LET prefix == Strip("prefix", Strips[k].prefix)
        suffix == Strip("suffix", Strips[k].suffix)
    IN /\ engine = NoEngine
       /\ rewrites' = prefix \o suffix
       /\ trailing_slash' = Strips[k].slash
       /\ engine' = WithStrip(WithStrip(EmptyEngine, prefix), suffix)

RuleAdded(i) ==
    LET rule == ReadRule(RewriteRules[i])
    IN /\ engine.ok /\ engine.next < MaxRules
       /\ rewrites' = Append(rewrites, rule)
       /\ engine' = AddRule(engine, rule)
       /\ UNCHANGED trailing_slash

RewriteInit == rewrites = <<>> /\ trailing_slash = "ignore" /\ engine = NoEngine
RewriteNext == (\E k \in DOMAIN Strips : NewEngine(k)) \/ (\E i \in DOMAIN RewriteRules : RuleAdded(i))
RewriteSpec == RewriteInit /\ [][RewriteNext]_rewriteVars

----------------------------------------------------------------------------

\* the first regex of the set that matches: [prio, path], or <<>>
match_regex(e, path) ==
    LET hits == {i \in DOMAIN e.regexes : ReMatches(e.regexes[i].re, path)}
        first == e.regexes[Min(hits)]
    IN IF hits = {} THEN <<>> ELSE <<[prio |-> first.prio, path |-> ReReplace(first.re, first.to, path)]>>

\* The engines in turn, each asked only when it may have an earlier rule.
Better(best, min, found) == IF best.prio > min /\ found # <<>> /\ found[1].prio < best.prio THEN found[1] ELSE best

best_candidate(e, path) ==
    LET Trie(best, end) == Better(best, e.tries[end].min_prio, find_best(e.tries[end], end, path))
        exact == IF path \in DOMAIN e.exact THEN [prio |-> e.exact[path].prio, path |-> e.exact[path].to]
                 ELSE [prio |-> MaxPrio, path |-> path]
        either == Trie(Trie(exact, "prefix"), "suffix")
    IN IF e.regexes = <<>> THEN either ELSE Better(either, e.regexes[1].prio, match_regex(e, path))

apply_trailing_slash(action, p) ==
    LET ends == p # <<>> /\ p[Len(p)] = "/"
    IN IF action = "always" /\ ~ends THEN Append(p, "/")
       ELSE IF action = "never" /\ ends /\ p # <<"/">> THEN SubSeq(p, 1, Len(p) - 1)
       ELSE p

apply(e, path) == IF path = <<>> THEN path ELSE apply_trailing_slash(trailing_slash, best_candidate(e, path).path)

\* rewrite_uri: the new path, a leading slash added, or <<>> when unchanged
rewrite_uri(e, path) ==
    LET r == apply(e, path)
    IN IF r = path THEN <<>> ELSE <<IF r # <<>> /\ r[1] = "/" THEN r ELSE <<"/">> \o r>>

----------------------------------------------------------------------------

\* What one rule makes of a path: <<path>>, or <<>> when it does not match.
RuleApplies(rule, path) ==
    LET n == Len(rule.text)
    IN IF rule.as \in TrieEnds
       THEN IF n <= Len(path) /\ KeyAt(rule.as, path, n) = rule.text THEN <<Replaced(rule.as, path, n, rule.to)>> ELSE <<>>
       ELSE IF rule.as = "exact" THEN IF rule.text = path THEN <<rule.to>> ELSE <<>>
       ELSE IF ReMatches(rule.text, path) THEN <<ReReplace(rule.text, rule.to, path)>> ELSE <<>>

\* The first rule of a list that matches decides.
FirstRule(list, path) ==
    LET hits == {i \in DOMAIN list : RuleApplies(list[i], path) # <<>>}
    IN IF hits = {} THEN path ELSE RuleApplies(list[Min(hits)], path)[1]

(* RewriteEngine: the four indexes with their priorities (exact map, prefix    *)
(* and suffix tries, regex set) rewrite a path as the first rule of the file   *)
(* that matches it would, for rules without two of the same plain path; an     *)
(* empty path is left alone.                                                   *)
FirstRuleWins ==
    LET twice == \E i, j \in DOMAIN rewrites : /\ i < j /\ rewrites[i].text = rewrites[j].text
                                              /\ rewrites[i].as = "exact" /\ rewrites[j].as = "exact"
        Wanted(path) ==
          LET r == apply_trailing_slash(trailing_slash, FirstRule(rewrites, path))
          IN IF path = <<>> \/ r = path THEN <<>> ELSE IF r # <<>> /\ r[1] = "/" THEN <<r>> ELSE <<<<"/">> \o r>>
    IN engine.ok => twice \/ \A path \in RewritePaths : rewrite_uri(engine, path) = Wanted(path)
=============================================================================
