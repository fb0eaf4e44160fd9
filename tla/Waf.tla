-------------------------------- MODULE Waf --------------------------------
(***************************************************************************)
(* The L7 engine at work (libs/ophan-sec/src/l7): the rules of the header  *)
(* phases (rules.rs, matchers.rs), the streaming body matcher (body.rs)    *)
(* and the session whose hooks the requests of a connection go through     *)
(* (mod.rs).  Module WafCompile is the compiler of its rules.              *)
(*                                                                         *)
(* A text is a sequence of bytes.  A regular expression is a sequence of   *)
(* byte sets, unanchored; the automaton gives up at a byte of QuitBytes.   *)
(* IpHit and TextHit are the address sets and the regex and glob matchers  *)
(* of single fields, which other libraries provide.                        *)
(***************************************************************************)
EXTENDS Integers, Sequences, FiniteSetsExt

CONSTANTS
  IpHit(_, _), TextHit(_, _, _), QuitBytes, Bytes,
  WafConfigs,              \* engines: [mode, anomaly_threshold, rules], the rules compiled
  WafRequests, WafStatuses, \* what the header hooks are given
  MaxBody, MaxChunk        \* bounds on a body and on a chunk of it

\* The overlap of a phase is the longest of its literals without a byte.
PhaseOk(phase) ==
  /\ phase.overlap_len \in Nat
  /\ DOMAIN phase.ac \cup DOMAIN phase.dfa \subseteq Nat
  /\ \A i \in DOMAIN phase.ac : /\ phase.ac[i].pat \in Seq(Bytes)
                                /\ Len(phase.ac[i].pat) <= phase.overlap_len + 1
  /\ \A r \in DOMAIN phase.dfa : phase.dfa[r].pat \in Seq(SUBSET Bytes)

ASSUME WafAssumption ==
  \A k \in DOMAIN WafConfigs : PhaseOk(WafConfigs[k].rules.request_body) /\ PhaseOk(WafConfigs[k].rules.response_body)

VARIABLES waf, session, inspected

wafVars == <<waf, session, inspected>>

Containing(text, lit) == {k \in 0..(Len(text) - Len(lit)) : \A i \in DOMAIN lit : text[k + i] = lit[i]}

-----------------------------------------------------------------------------
(* rules.rs, matchers.rs: a request is [ip, method, path, host, query,      *)
(* useragent, headers], where what may be absent is an Option.              *)

is_match(m, text) ==
  CASE m.op = "eq" -> text = m.v
    [] m.op = "contains" -> Containing(text, m.v) # {}
    [] m.op = "starts" -> 0 \in Containing(text, m.v)
    [] m.op = "ends" -> Len(text) - Len(m.v) \in Containing(text, m.v)
    [] OTHER -> TextHit(m.op, m.v, text)

matches_request(rule, ip, host, req) ==
  LET Input(m) == CASE m.slot = "path" -> <<req.path>> [] m.slot = "host" -> host [] m.slot = "query" -> req.query
                    [] m.slot = "useragent" -> req.useragent
                    [] m.slot = "header" /\ m.name \in DOMAIN req.headers -> <<req.headers[m.name]>> [] OTHER -> <<>>
      Hit(m) == CASE m.slot = "ip" -> ip # <<>> /\ IpHit(m.v, ip[1])
                  [] m.slot = "method" -> IF m.op = "eq" THEN req.method = m.v ELSE \E i \in DOMAIN m.v : req.method = m.v[i]
                  [] OTHER -> Input(m) # <<>> /\ is_match(m, Input(m)[1])
  IN  \E i \in DOMAIN rule.matchers : Hit(rule.matchers[i])

matches_response(rule, status, headers) ==
  \E i \in DOMAIN rule.matchers : rule.matchers[i].slot = "response_status" /\ status \in rule.matchers[i].v

\* evaluate_request, evaluate_response
Fires(rule, matched) == matched # rule.negated

-----------------------------------------------------------------------------
(* body.rs                                                                  *)

body_session(rewindable) == [st |-> "Empty", overlap |-> <<>>, dfa |-> <<>>, rewindable |-> rewindable, gave_up |-> FALSE, hit |-> <<>>]

regex_active(phase, s) == s.rewindable /\ ~s.gave_up /\ phase.dfa # <<>>

\* stream_find_iter over overlap ++ chunk: of the matches that end first the longest, and the first of that length.
AcHit(phase, text) ==
  LET EndsOf(i) == {k + Len(phase.ac[i].pat) : k \in Containing(text, phase.ac[i].pat)}
      ends == UNION {EndsOf(i) : i \in DOMAIN phase.ac}
      first == {i \in DOMAIN phase.ac : Min(ends) \in EndsOf(i)}
      longest == {i \in first : \A j \in first : Len(phase.ac[j].pat) <= Len(phase.ac[i].pat)}
  IN  IF ends = {} THEN <<>> ELSE <<Min(longest)>>

\* An overlap that keeps the tail of the last chunk alone.
OverlapChunkOnly(phase, overlap, chunk) ==
  LET n == IF Len(chunk) < phase.overlap_len THEN Len(chunk) ELSE phase.overlap_len
  IN  SubSeq(chunk, Len(chunk) - n + 1, Len(chunk))

\* The last min(total, overlap_len) bytes of overlap ++ chunk.
Overlap(phase, overlap, chunk) ==
  LET all == overlap \o chunk
      n == IF Len(all) < phase.overlap_len THEN Len(all) ELSE phase.overlap_len
  IN  SubSeq(all, Len(all) - n + 1, Len(all))

\* The subset automaton: <<r, k>> when k elements of regex r have matched; a match shows one byte later.
DfaStart(phase) == {<<r, 0>> : r \in DOMAIN phase.dfa}
DfaDone(phase, S) == {r \in DOMAIN phase.dfa : <<r, Len(phase.dfa[r].pat)>> \in S}
DfaNext(phase, S, b) ==
  DfaStart(phase) \cup {<<q[1], q[2] + 1>> : q \in {x \in S : x[2] < Len(phase.dfa[x[1]].pat) /\ b \in phase.dfa[x[1]].pat[x[2] + 1]}}

\* One byte: <<"run", S>>, <<"hit", regex>> or <<"quit", {}>>.
DfaStep(phase, st, b) ==
  IF st[1] # "run" THEN st
  ELSE IF b \in QuitBytes THEN <<"quit", {}>>
  ELSE IF DfaDone(phase, st[2]) # {} THEN <<"hit", Min(DfaDone(phase, st[2]))>>
  ELSE <<"run", DfaNext(phase, st[2], b)>>

\* The states of the automaton along a chunk.
DfaRun(phase, S, chunk) ==
  LET run[i \in 0..Len(chunk)] == IF i = 0 THEN <<"run", S>> ELSE DfaStep(phase, run[i - 1], chunk[i]) IN run

finish(phase, s, end) ==
  IF ~end THEN <<"Continue", [s EXCEPT !.st = "Scanning"]>>
  ELSE IF regex_active(phase, s) /\ s.dfa # <<>> /\ DfaDone(phase, s.dfa[1]) # {}
  THEN <<"Block", [s EXCEPT !.st = "Matched", !.hit = <<phase.dfa[Min(DfaDone(phase, s.dfa[1]))].meta>>]>>
  ELSE <<"Allow", [s EXCEPT !.st = "Clean"]>>

\* BodySession::feed
feed(phase, s, chunk, end) ==
  LET hit == AcHit(phase, s.overlap \o chunk)
      kept == [s EXCEPT !.overlap = Overlap(phase, @, chunk)]
      ran == DfaRun(phase, IF s.dfa = <<>> THEN DfaStart(phase) ELSE s.dfa[1], chunk)[Len(chunk)]
  IN  IF s.st = "Matched" THEN <<"Block", s>>
      ELSE IF s.st = "Clean" THEN <<"Allow", s>>
      ELSE IF hit # <<>> THEN <<"Block", [s EXCEPT !.st = "Matched", !.hit = <<phase.ac[hit[1]].meta>>]>>
      ELSE IF ~regex_active(phase, s) THEN finish(phase, kept, end)
      ELSE IF ran[1] = "hit" THEN <<"Block", [kept EXCEPT !.st = "Matched", !.hit = <<phase.dfa[ran[2]].meta>>]>>
      ELSE IF ran[1] = "quit" THEN finish(phase, [kept EXCEPT !.gave_up = TRUE], end)
      ELSE finish(phase, [kept EXCEPT !.dfa = <<ran[2]>>], end)

-----------------------------------------------------------------------------
(* mod.rs: a session is [state, score, ip, body]; a hook returns <<result,  *)
(* session>>, the result "Pass", "Log" or "Block".                          *)

NewSession(ip) == [state |-> "Initial", score |-> 0, ip |-> ip, body |-> <<>>]

apply_match(config, s, meta) ==
  LET scored == [s EXCEPT !.score = @ + meta.score]
      done == [scored EXCEPT !.state = "Done", !.body = <<>>]
  IN  IF meta.action = "allow" THEN <<"Pass", s>>
      ELSE IF config.mode = "Disabled" THEN <<"Pass", scored>>
      ELSE IF config.mode = "DetectionOnly" THEN <<"Log", scored>>
      ELSE IF meta.action \in {"block", "challenge"} \/ scored.score >= config.anomaly_threshold THEN <<"Block", done>>
      ELSE <<"Log", scored>>

\* The first rule of the list that fires decides, whatever its action.
FirstFiring(config, s, rules, fired) == IF fired = {} THEN <<"Pass", s>> ELSE apply_match(config, s, rules[Min(fired)].meta)

on_request_headers(config, s, host, req, ip) ==
  LET known == [s EXCEPT !.ip = IF ip = <<>> THEN @ ELSE ip, !.state = "ResponseHeaders", !.body = <<>>]
      rules == config.rules.request_headers
      fired == {i \in DOMAIN rules : Fires(rules[i], matches_request(rules[i], known.ip, host, req))}
  IN  IF s.state = "Done" THEN <<"Pass", s>> ELSE FirstFiring(config, known, rules, fired)

on_response_headers(config, s, status, headers) ==
  LET rules == config.rules.response_headers
      fired == {i \in DOMAIN rules : Fires(rules[i], matches_response(rules[i], status, headers))}
  IN  IF s.state = "Done" THEN <<"Pass", s>>
      ELSE FirstFiring(config, [s EXCEPT !.state = "ResponseHeaders", !.body = <<>>], rules, fired)

BodyChunk(config, s, phase, mine, chunk, end) ==
  LET body == IF s.state = mine THEN s.body[1] ELSE body_session(TRUE)
      fed == feed(phase, body, chunk, end)
      next == [s EXCEPT !.state = mine, !.body = <<fed[2]>>]
  IN  IF s.state \notin {"Initial", "ResponseHeaders", mine} THEN <<"Pass", s>>
      ELSE IF fed[1] = "Continue" THEN <<"Pass", next>>
      ELSE IF fed[1] = "Allow" THEN <<"Pass", [next EXCEPT !.state = "ResponseHeaders", !.body = <<>>]>>
      ELSE apply_match(config, next, fed[2].hit[1])

on_request_body_chunk(config, s, chunk, end) == BodyChunk(config, s, config.rules.request_body, "RequestBody", chunk, end)
on_response_body_chunk(config, s, chunk, end) == BodyChunk(config, s, config.rules.response_body, "ResponseBody", chunk, end)

session_reset(s) == [s EXCEPT !.state = "Initial", !.score = 0, !.body = <<>>]

-----------------------------------------------------------------------------
(* A session goes through its hooks in any order, for one request after        *)
(* another.  `inspected` is the body that is scanned, or was last: its text    *)
(* so far, whether it has ended, and whether a chunk of it was refused.        *)

NoBody == [side |-> "none", text |-> <<>>, ended |-> FALSE, blocked |-> FALSE]
Sides == {"request", "response"}
BodyState(side) == IF side = "request" THEN "RequestBody" ELSE "ResponseBody"

RequestHeaders(req) ==
  /\ session' = on_request_headers(WafConfigs[waf], session, req.host, req, <<>>)[2]
  /\ inspected' = NoBody
  /\ UNCHANGED waf

ResponseHeaders(status) ==
  /\ session' = on_response_headers(WafConfigs[waf], session, status, <<>>)[2]
  /\ inspected' = NoBody
  /\ UNCHANGED waf

\* A chunk that comes in another state passes, and changes nothing.
ChunkFed(side, chunk, end) ==
  LET begins == session.state \in {"Initial", "ResponseHeaders"}
      text == (IF begins THEN <<>> ELSE inspected.text) \o chunk
      r == IF side = "request" THEN on_request_body_chunk(WafConfigs[waf], session, chunk, end)
           ELSE on_response_body_chunk(WafConfigs[waf], session, chunk, end)
  IN  /\ Len(text) <= MaxBody
      /\ session' = r[2]
      /\ inspected' = IF begins \/ session.state = BodyState(side)
                      THEN [side |-> side, text |-> text, ended |-> end, blocked |-> r[1] = "Block"] ELSE inspected
      /\ UNCHANGED waf

SessionReset ==
  /\ session' = session_reset(session)
  /\ inspected' = NoBody
  /\ UNCHANGED waf

WafInit == waf \in DOMAIN WafConfigs /\ session = NewSession(<<>>) /\ inspected = NoBody

WafNext ==
  \/ \E req \in WafRequests : RequestHeaders(req)
  \/ \E status \in WafStatuses : ResponseHeaders(status)
  \/ \E side \in Sides, end \in BOOLEAN, n \in 0..MaxChunk : \E chunk \in [1..n -> Bytes] : ChunkFed(side, chunk, end)
  \/ SessionReset

WafSpec == WafInit /\ [][WafNext]_wafVars

-----------------------------------------------------------------------------
\* The regex occurs in the first n bytes of the text.
Occurs(re, text, n) == \E k \in 0..(n - Len(re)) : \A i \in DOMAIN re : text[k + i] \in re[i]

\* The bytes in which a match is seen: all, or those before the last one the automaton read before it gave up.
Readable(text) == LET quits == {i \in DOMAIN text : text[i] \in QuitBytes} IN IF quits = {} THEN Len(text) ELSE Min(quits) - 2

Offends(phase, text) ==
  \/ \E i \in DOMAIN phase.ac : Containing(text, phase.ac[i].pat) # {}
  \/ \E r \in DOMAIN phase.dfa : Occurs(phase.dfa[r].pat, text, Readable(text))

\* Every rule of the phase blocks.
Blocks(config, phase) ==
  /\ config.mode = "Blocking"
  /\ \A i \in DOMAIN phase.ac : phase.ac[i].meta.action \in {"block", "challenge"}
  /\ \A r \in DOMAIN phase.dfa : phase.dfa[r].meta.action \in {"block", "challenge"}

BodyPhase(config, side) == IF side = "request" THEN config.rules.request_body ELSE config.rules.response_body

(* BodySession::feed, WafSession::on_request_body_chunk and                    *)
(* on_response_body_chunk: however a body is cut into chunks, and whatever the *)
(* session was used for before, a body whose rules block is refused exactly    *)
(* when the text that has come holds a literal of a rule, or an expression the *)
(* automaton could read to its end.                                            *)
ChunkingInvisible ==
  LET config == WafConfigs[waf]
      phase == BodyPhase(config, inspected.side)
  IN  (inspected.ended \/ inspected.blocked) /\ Blocks(config, phase) => (inspected.blocked <=> Offends(phase, inspected.text))
=============================================================================
