----------------------------- MODULE WafCompile -----------------------------
(***************************************************************************)
(* The compiler of WAF rules (libs/ophan-sec/src/l7/compiler.rs): rule     *)
(* expressions become one list of rules per phase, and the rules of a body *)
(* the two automata of CompiledBodyPhase (body.rs).                        *)
(*                                                                         *)
(* Texts are sequences of bytes.  A rule is <<"pred", p>>, <<"not", e>> or *)
(* <<"any" / "all", children>>; p is [phase, field, name, op, type, v,     *)
(* meta] and meta is [id, score, action, status].                          *)
(***************************************************************************)
EXTENDS Integers, Sequences, SequencesExt, FiniteSets

CONSTANT Unbuildable  \* sets of patterns that make no automaton, alone or with others

TextFields == {"host", "path", "query", "useragent", "header", "cookie"}

\* validate_field_phase
field_phase_ok(p) ==
  CASE p.phase = "in_headers" -> p.field \in TextFields \cup {"ip", "method"}
    [] p.phase = "out_headers" -> p.field \in {"status", "header"}
    [] OTHER -> p.field = "body"

\* validate_matrix: the operators of a field, then the value types of an operator.
FieldOps(field) ==
  CASE field \in {"method", "ip"} -> {"eq", "in"}
    [] field = "host" -> {"eq", "contains", "starts", "ends"}
    [] field = "path" -> {"eq", "contains", "starts", "ends", "regex", "glob"}
    [] field \in {"query", "header", "cookie"} -> {"eq", "contains", "starts", "ends", "regex"}
    [] field = "useragent" -> {"eq", "contains", "starts", "regex"}
    [] field = "body" -> {"contains", "regex"}
    [] field = "status" -> {"eq", "contains", "in"}
ValueTypes(op) ==
  CASE op = "eq" -> {"string", "ip", "integer"}
    [] op = "in" -> {"list", "ip", "integer"}
    [] op \in {"contains", "starts", "ends"} -> {"string"}
    [] OTHER -> {op}
matrix_ok(p) == p.op \in FieldOps(p.field) /\ p.type \in ValueTypes(p.op)

\* The arms of compile_predicate; every other pair that passes the matrix is unreachable!().
Compilable(p) ==
  CASE p.field = "ip" -> p.type = "ip"
    [] p.field = "method" -> <<p.op, p.type>> \in {<<"eq", "string">>, <<"in", "list">>}
    [] p.field = "status" -> <<p.op, p.type>> \in {<<"eq", "integer">>, <<"in", "list">>, <<"contains", "string">>}
    [] OTHER -> p.type = IF p.op \in {"regex", "glob"} THEN p.op ELSE "string"

\* StatusCodeSet: bits 100 to 599 for codes, and one bit per class behind them.
StatusBits(p) == IF p.op = "contains" THEN (CASE p.v = "1xx" -> {600} [] p.v = "2xx" -> {601} [] p.v = "3xx" -> {602}
                                              [] p.v = "4xx" -> {603} [] p.v = "5xx" -> {604} [] OTHER -> {})
                 ELSE {c \in IF p.op = "eq" THEN {p.v} ELSE ToSet(p.v) : c \in 100..599}

\* text_builder_for: a header of either direction goes to the slot of request headers.
Slot(p) == IF p.field = "status" THEN "response_status" ELSE p.field
Matcher(p) == [slot |-> Slot(p), name |-> p.name, op |-> p.op, v |-> IF p.field = "status" THEN StatusBits(p) ELSE p.v]

NewRule == [err |-> "", negated |-> FALSE, meta |-> <<>>,
            acc |-> [ph \in {"in_headers", "in_body", "out_headers", "out_body"} |-> <<>>]]

compile_predicate(b, p) ==
  CASE b.err # "" -> b
    [] ~(field_phase_ok(p) /\ matrix_ok(p)) -> [b EXCEPT !.err = "rejected"]
    [] ~Compilable(p) -> [b EXCEPT !.err = "panic"]
    [] OTHER -> [b EXCEPT !.meta = IF @ = <<>> THEN <<p.meta>> ELSE @, !.acc[p.phase] = Append(@, Matcher(p))]

RECURSIVE compile_rule(_, _)
compile_rule(b, expr) ==
  CASE expr[1] = "pred" -> compile_predicate(b, expr[2])
    [] expr[1] = "not" -> LET r == compile_rule([b EXCEPT !.negated = ~@], expr[2])
                          IN  IF r.err = "" THEN [r EXCEPT !.negated = ~@] ELSE r
    [] OTHER -> FoldLeft(LAMBDA r, e : IF r.err = "" THEN compile_rule(r, e) ELSE r, b, expr[2])

\* The automaton for all the patterns of a kind; when it does not build there is none, and no error.
Automaton(entries) ==
  IF \E u \in Unbuildable : u \subseteq {entries[i].pat : i \in DOMAIN entries} THEN <<>> ELSE entries

\* CompiledBodyPhase::compile: the literals and the regexes of the rules that are not negated.
CompiledBodyPhase(rules) ==
  LET kept == SelectSeq(rules, LAMBDA r : ~r.negated)
      Of(op) == FlattenSeq([i \in DOMAIN kept |->
                  LET m == SelectSeq(kept[i].matchers, LAMBDA x : x.op = op)
                  IN  [j \in DOMAIN m |-> [pat |-> m[j].v, meta |-> kept[i].meta]]])
      ac == Automaton(Of("contains"))
      longest == {Len(ac[i].pat) : i \in DOMAIN ac}
  IN  [ac |-> ac, dfa |-> Automaton(Of("regex")),
       overlap_len |-> IF longest = {} \/ longest = {0} THEN 0 ELSE (CHOOSE n \in longest : \A k \in longest : k <= n) - 1]

\* A rule joins every phase it has matchers for.
push_rule(built, ph) ==
  LET own == SelectSeq(built, LAMBDA b : b.acc[ph] # <<>>)
  IN  [i \in DOMAIN own |-> [matchers |-> own[i].acc[ph], meta |-> own[i].meta[1], negated |-> own[i].negated]]

\* RuleCompiler::compile
compile_waf(root) ==
  LET rules == IF root[1] = "all" THEN root[2] ELSE <<root>>
      built == [i \in DOMAIN rules |-> compile_rule(NewRule, rules[i])]
      failed == {i \in DOMAIN built : built[i].err # ""}
  IN  IF failed # {} THEN [err |-> built[Min(failed)].err]
      ELSE [err |-> "", request_headers |-> push_rule(built, "in_headers"), response_headers |-> push_rule(built, "out_headers"),
            request_body |-> CompiledBodyPhase(push_rule(built, "in_body")), response_body |-> CompiledBodyPhase(push_rule(built, "out_body"))]
=============================================================================
