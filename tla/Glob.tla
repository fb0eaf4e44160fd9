--------------------------------- MODULE Glob ---------------------------------
(***************************************************************************)
(* PathMatcherSet (shared/flatkit/src/matchers/path.rs): the globs of the  *)
(* exclude_paths of every policy.  A pattern and an input are sequences of *)
(* one-character strings.  A set of patterns is tokenised, merged into a   *)
(* trie, and matched by a backtracking walk on a stack of at most          *)
(* MAX_STACK_DEPTH frames.  The last section is the reference: what a glob *)
(* means by the documentation, one pattern at a time and without trie,     *)
(* stack or progress.                                                      *)
(***************************************************************************)
EXTENDS Integers, Sequences, SequencesExt

CONSTANTS Code(_),            \* the byte of a character
          MAX_GROUP_OPTIONS, MAX_DEEP_WILDCARDS, MAX_STACK_DEPTH

GlobErr(e) == [err |-> e, toks |-> <<>>]

Tok(t, s, opts, set, negated) == [t |-> t, s |-> s, opts |-> opts, set |-> set, negated |-> negated]
Literal(s) == Tok("literal", s, <<>>, {}, FALSE)
Simple(t) == Tok(t, <<>>, <<>>, {}, FALSE)

At(p, i) == IF i <= Len(p) THEN p[i] ELSE ""

\* The first position from i on whose character is in S, Len(p) + 1 when there is none.
NextOf(p, i, S) == LET at == {j \in i..Len(p) : p[j] \in S}
                   IN  IF at = {} THEN Len(p) + 1 ELSE CHOOSE j \in at : \A k \in at : j <= k

\* The options of a group: the pieces between commas.
RECURSIVE Pieces(_)
Pieces(s) == LET k == NextOf(s, 1, {","})
             IN  IF k > Len(s) THEN <<s>>
                 ELSE <<SubSeq(s, 1, k - 1)>> \o Pieces(SubSeq(s, k + 1, Len(s)))

GroupError(content, unclosed, nested) ==
  CASE nested -> "NestedGroup"
    [] unclosed -> "UnclosedGroup"
    [] content = <<>> -> "EmptyGroup"
    [] OTHER -> LET ps == Pieces(content)
                    early == \E k \in 1..(Len(ps) - 1) : k < MAX_GROUP_OPTIONS /\ ps[k] = <<>>
                IN  CASE early -> "EmptyGroup"
                      [] Len(ps) > MAX_GROUP_OPTIONS -> "GroupOptionsLimit"
                      [] Last(ps) = <<>> -> "EmptyGroup"
                      [] OTHER -> ""

\* The bytes of a character class; {-1} for a range written backwards.
RECURSIVE ClassBytes(_)
ClassBytes(s) ==
  CASE s = <<>> -> {}
    [] Len(s) >= 3 /\ s[2] = "-" ->
         IF Code(s[1]) > Code(s[3]) THEN {-1}
         ELSE (Code(s[1])..Code(s[3])) \cup ClassBytes(SubSeq(s, 4, Len(s)))
    [] OTHER -> {Code(s[1])} \cup ClassBytes(Tail(s))

RECURSIVE TokensFrom(_, _, _)
TokensFrom(p, i, deep) ==
  LET Then(tok, j, d) == LET r == TokensFrom(p, j, d)
                         IN  IF r.err = "" THEN [r EXCEPT !.toks = <<tok>> \o @] ELSE r
      Star == IF At(p, i + 1) # "*" THEN Then(Simple("wild"), i + 1, deep)
              ELSE IF deep = MAX_DEEP_WILDCARDS THEN GlobErr("TooManyDeepWildcards")
              ELSE IF At(p, i + 2) = "/" THEN Then(Simple("deep_dir"), i + 3, deep + 1)
              ELSE Then(Simple("deep"), i + 2, deep + 1)
      Group == LET end == NextOf(p, i + 1, {"}"})
                   content == SubSeq(p, i + 1, end - 1)
                   e == GroupError(content, end > Len(p), \E k \in DOMAIN content : content[k] = "{")
               IN  IF e # "" THEN GlobErr(e) ELSE Then(Tok("group", <<>>, Pieces(content), {}, FALSE), end + 1, deep)
      Class == LET negated == At(p, i + 1) = "^"
                   start == IF negated THEN i + 2 ELSE i + 1
                   end == NextOf(p, start, {"]"})
                   bytes == ClassBytes(SubSeq(p, start, end - 1))
               IN  CASE end > Len(p) -> GlobErr("UnclosedCharClass")
                     [] end = start -> GlobErr("EmptyCharClass")
                     [] -1 \in bytes -> GlobErr("InvalidCharRange")
                     [] OTHER -> Then(Tok("class", <<>>, <<>>, bytes, negated), end + 1, deep)
      Text == LET end == NextOf(p, i, {"*", "?", "{", "["})
              IN  Then(Literal(SubSeq(p, i, end - 1)), end, deep)
  IN  CASE i > Len(p) -> [err |-> "", toks |-> <<>>]
        [] At(p, i) = "*" -> Star
        [] At(p, i) = "?" -> Then(Simple("any"), i + 1, deep)
        [] At(p, i) = "{" -> Group
        [] At(p, i) = "[" -> Class
        [] OTHER -> Text

tokenize(p) == IF p = <<>> THEN [err |-> "", toks |-> <<Literal(<<>>)>>] ELSE TokensFrom(p, 1, 0)

-----------------------------------------------------------------------------
(* from_patterns.  Literals and groups are lowered to offsets in an arena,  *)
(* so two of them are never equal and only the other tokens are merged.     *)

Merges(a, b) == a = b /\ a.t \notin {"literal", "group"}

RECURSIVE TrieAdd(_, _)
TrieAdd(level, toks) ==
  IF toks = <<>> THEN level
  ELSE LET same == {i \in DOMAIN level : Merges(level[i].tok, Head(toks))}
           node == [tok |-> Head(toks), terminal |-> Len(toks) = 1, children |-> TrieAdd(<<>>, Tail(toks))]
       IN  IF same = {} THEN Append(level, node)
           ELSE LET i == CHOOSE i \in same : TRUE
                IN  [level EXCEPT ![i].terminal = @ \/ Len(toks) = 1, ![i].children = TrieAdd(@, Tail(toks))]

from_patterns(parsed) ==
  LET exact == \A i \in DOMAIN parsed : Len(parsed[i]) = 1 /\ parsed[i][1].t = "literal"
  IN  IF parsed = <<>> \/ exact
      THEN [general |-> FALSE, set |-> {parsed[i][1].s : i \in DOMAIN parsed}, root |-> <<>>]
      ELSE [general |-> TRUE, set |-> {}, root |-> FoldLeft(TrieAdd, <<>>, parsed)]

\* PathMatcherSet::compile: [ok, matcher].
glob_compile(patterns) ==
  LET parsed == [i \in DOMAIN patterns |-> tokenize(patterns[i])]
      ok == \A i \in DOMAIN parsed : parsed[i].err = ""
  IN  [ok |-> ok, matcher |-> IF ok THEN from_patterns([i \in DOMAIN parsed |-> parsed[i].toks]) ELSE from_patterns(<<>>)]

-----------------------------------------------------------------------------
(* matches_backtrack.  A frame of the code's stack is (input, nodes left,   *)
(* progress); here the frame at stack height sp is a call of Frame, and its *)
(* progress the position in the lengths of input the node may consume.      *)
(* The first frame that is no "miss" decides.                               *)

From(s, n) == SubSeq(s, n + 1, Len(s))

EndsHere(nodes) == \E i \in DOMAIN nodes :
  \/ nodes[i].tok.t \in {"deep", "deep_dir"}
  \/ nodes[i].tok.t = "wild" /\ nodes[i].terminal

\* Slip: only the first alternative that fits is tried.
FirstFittingOption(opts, in) == LET all == SelectSeq(opts, LAMBDA o : IsPrefix(o, in)) IN SubSeq(all, 1, Min({1, Len(all)}))
\* The alternatives of a token that in starts with.
FittingOptions(opts, in) == SelectSeq(opts, LAMBDA o : IsPrefix(o, in))
\* The lengths of in that a token consumes, in the order the code tries them.
Consumes(tok, in) ==
  LET One(b) == IF b THEN <<1>> ELSE <<>>
      slash == NextOf(in, 1, {"/"})
      upTo == IF slash > Len(in) THEN Len(in) ELSE slash - 1
      Slash(l) == l = 0 \/ in[l] = "/"
      opts == FittingOptions(IF tok.t = "literal" THEN <<tok.s>> ELSE tok.opts, in)
  IN  CASE tok.t \in {"literal", "group"} -> [i \in DOMAIN opts |-> Len(opts[i])]
        [] tok.t = "any" -> One(in[1] # "/")
        [] tok.t = "class" -> One((Code(in[1]) \in tok.set) # tok.negated)
        [] tok.t = "wild" -> [i \in 1..(upTo + 1) |-> i - 1]
        [] OTHER -> SelectSeq([i \in 1..(Len(in) + 1) |-> i - 1], Slash)

\* The first verdict that is no miss.
FirstVerdict(Verdict(_), n) ==
  LET v == [i \in 1..n |-> Verdict(i)]
      decided == {i \in 1..n : v[i] # "miss"}
  IN  IF decided = {} THEN "miss" ELSE v[CHOOSE i \in decided : \A j \in decided : i <= j]

RECURSIVE Visit(_, _, _)
Visit(input, nodes, sp) ==
  LET Child(node, i, n, lens) ==          \* the frame for the i-th of n lengths, the options of a group on top of each other
        LET next == From(input, lens[i])
            below == IF node.tok.t = "group" THEN n - i ELSE 0
        IN  CASE node.tok.t # "group" /\ next = <<>> /\ node.terminal -> "hit"
              [] node.children = <<>> -> "miss"
              [] sp + below >= MAX_STACK_DEPTH -> "overflow"
              [] OTHER -> Visit(next, node.children, sp + below + 1)
      Node(k) ==
        LET node == nodes[k]
            lens == Consumes(node.tok, input)
            n == Len(lens)
            whole == {i \in 1..n : lens[i] = Len(input) /\ (node.children = <<>> \/ sp + n - i <= MAX_STACK_DEPTH)}
        IN  CASE node.terminal /\ node.tok.t \in {"deep", "deep_dir"} -> "hit"
              [] node.terminal /\ node.tok.t = "group" /\ whole # {} -> "hit"
              [] node.tok.t = "group" /\ node.children # <<>> /\ sp + n > MAX_STACK_DEPTH -> "overflow"
              [] OTHER -> FirstVerdict(LAMBDA i : Child(node, i, n, lens), n)
  IN  IF input = <<>> THEN (IF EndsHere(nodes) THEN "hit" ELSE "miss")
      ELSE FirstVerdict(Node, Len(nodes))

glob_matches(m, input) == IF m.general THEN Visit(input, m.root, 1) = "hit" ELSE input \in m.set

-----------------------------------------------------------------------------
(* The reference, token by token as docs/EXCLUDE_MATCHERS.md has it.        *)

\* The lengths of s that a token may take from its start.
Takes(tok, s) ==
  CASE tok.t = "literal" -> {l \in {Len(tok.s)} : IsPrefix(tok.s, s)}
    [] tok.t = "group" -> {Len(o) : o \in {tok.opts[i] : i \in {i \in DOMAIN tok.opts : IsPrefix(tok.opts[i], s)}}}
    [] tok.t = "any" -> {l \in {1} : s # <<>> /\ s[1] # "/"}
    [] tok.t = "class" -> {l \in {1} : s # <<>> /\ (Code(s[1]) \in tok.set) # tok.negated}
    [] tok.t = "wild" -> {l \in 0..Len(s) : \A j \in 1..l : s[j] # "/"}
    [] tok.t = "deep" -> 0..Len(s)
    [] tok.t = "deep_dir" -> {0, Len(s)} \cup {l \in 1..Len(s) : s[l] = "/"}

\* A sequence of tokens matches the whole of s.
RECURSIVE Means(_, _)
Means(toks, s) == IF toks = <<>> THEN s = <<>> ELSE \E l \in Takes(Head(toks), s) : Means(Tail(toks), From(s, l))

\* Where the code's "**" differs: it starts and ends at a segment's border unless it ends the pattern,
InnerDeep(toks) == \E i \in 1..(Len(toks) - 1) : toks[i].t = "deep"
\* and an input that ends where it begins is accepted, whatever the pattern has behind it.
EndsAtDeep(toks, s) == \E i \in DOMAIN toks : toks[i].t \in {"deep", "deep_dir"} /\ Means(SubSeq(toks, 1, i - 1), s)

\* The frames a pattern may need on the stack: its own, and one per token, or per option of a group, but for the last.
FramesFor(toks) ==
  FoldLeft(LAMBDA n, tok : n + IF tok.t = "group" THEN Len(tok.opts) ELSE 1, 1, SubSeq(toks, 1, Len(toks) - 1))
=============================================================================
