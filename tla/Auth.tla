-------------------------------- MODULE Auth --------------------------------
(***************************************************************************)
(* Authentication: the auth middleware (ophan/src/middlewares/auth/mod.rs) *)
(* on AuthService (libs/ophan-auth/src/lib.rs): extraction of the tokens,  *)
(* the DPoP policy, resolution of the signing key through the cached key   *)
(* set with its refetch on an unknown kid (auth/oauth.rs), verification    *)
(* of the claims, the DPoP proof with its replay record                    *)
(* (auth/validator/dpop.rs), and the shared refresh of a session.          *)
(*                                                                         *)
(* Signatures and hashes are ideal: a token names the key that signed it,  *)
(* and a key of the replay record is the pair <<thumbprint, jti>>.  The    *)
(* fetches go through MemoryCache::get_or_fetch, of which module           *)
(* SingleFlight shows that concurrent callers share one fetch; here the    *)
(* callers that wait for an answer take it in one step.                    *)
(***************************************************************************)
EXTENDS Integers, Sequences, FiniteSets

CONSTANTS
  Clients,               \* requests served at the same time
  Attempts,              \* sequence of requests
  Mixes,                 \* [of, n]: which of them come together, and how many
  AuthConfigs,           \* sequence of auth configurations
  TokenOf,               \* the tokens that are JWTs, by name
  MaxTime,               \* bound on the clock
  MAX_PROOF_AGE_SECS, REPLAY_SWEEP_INTERVAL_SECS, ReplayCapacity,
  KEY_REFETCH_COOLDOWN, MAX_CONCURRENT_REFRESHES

(* Finitely many requests run at once.  A proof is signed once, so all that     *)
(* carry it agree on its iat.                                                  *)
ASSUME AuthAssumption ==
  /\ IsFiniteSet(Clients)
  /\ MAX_PROOF_AGE_SECS \in Nat /\ KEY_REFETCH_COOLDOWN \in Nat
  /\ \A i \in DOMAIN Attempts : Attempts[i].proof.iat \in Nat
  /\ \A i, j \in DOMAIN Attempts :
       Attempts[i].proof.id = Attempts[j].proof.id => Attempts[i].proof.iat = Attempts[j].proof.iat
  /\ \A m \in Mixes : m.of \subseteq DOMAIN Attempts

VARIABLES
  now,         \* clock
  published,   \* the key ids the provider publishes
  key_set,     \* cached key set: [kids, fetched_at], or NoKeySet
  fetch_fails, \* a failed fetch of the key set is remembered
  refetches,   \* time of the last refetch for an unknown kid, or Never
  refreshes,   \* refresh token |-> "none" or the shared outcome
  replay,      \* proof |-> expires_at, 0 when it is not recorded
  last_sweep,
  client,      \* client |-> locals of the request it serves
  attempts,    \* requests begun
  mix,         \* the requests that come in this behaviour
  accepted,    \* history: proof |-> times it was accepted
  swept,       \* history: clock of the latest sweep
  stale,       \* history: a proof was checked against a clock older than a sweep
  extra        \* history: fetches of the key set beyond the first one and those that an expiry called for

keyVars == <<published, key_set, fetch_fails, refetches, extra>>
replayVars == <<replay, last_sweep, accepted, swept, stale>>
runVars == <<attempts, mix>>
authVars == <<now, client, refreshes, keyVars, replayVars, runVars>>

Never == -1
NoKeySet == [kids |-> {}, fetched_at |-> Never]
NoToken == ""
Waiting == [pc |-> "idle", outcome |-> Never]

Proofs == {Attempts[i].proof.id : i \in DOMAIN Attempts}
RefreshTokens == {Attempts[i].refresh : i \in DOMAIN Attempts}

AuthInit ==
  /\ now = 1
  /\ published = {"k1"}
  /\ key_set \in {NoKeySet, [kids |-> {"k1"}, fetched_at |-> 0]}
  /\ fetch_fails = FALSE
  /\ refetches = Never
  /\ refreshes = [t \in RefreshTokens |-> "none"]
  /\ replay = [p \in Proofs |-> 0]
  /\ last_sweep = 0
  /\ client = [c \in Clients |-> Waiting]
  /\ attempts = 0
  /\ mix \in Mixes
  /\ accepted = [p \in Proofs |-> 0]
  /\ swept = 0
  /\ stale = FALSE
  /\ extra = IF key_set = NoKeySet THEN -1 ELSE 0

-----------------------------------------------------------------------------
(* Extraction.  A header is [scheme, token], scheme "" when the value is one   *)
(* word; schemes are compared without case and so given in lower case.         *)
token_type_for_scheme(scheme) == IF scheme = "dpop" THEN "dpop" ELSE "bearer"

match_header_value(name, value, prefix) ==
  CASE prefix # "" -> IF value.scheme = prefix THEN <<value.token, token_type_for_scheme(prefix)>> ELSE <<NoToken, "bearer">>
    [] prefix = "" /\ name = "authorization" ->
         IF value.scheme \in {"dpop", "bearer", ""} THEN <<value.token, token_type_for_scheme(value.scheme)>>
         ELSE <<NoToken, "bearer">>
    [] OTHER -> <<IF value.scheme = "" THEN value.token ELSE "opaque", "bearer">>

(* find_cookie, the query, or single_header_value: what the request carries.   *)
SentIn(attempt, s) == {v \in attempt.values : v.in = s.in /\ v.name = s.name}

(* The first source that yields a token that is not empty.  A cookie or query  *)
(* value with a prefix keeps what follows it.                                  *)
match_source_with_type(attempt, sources) ==
  LET Find(s) ==
        LET here == SentIn(attempt, s)
        IN IF here = {} THEN <<NoToken, "bearer">>
           ELSE LET value == CHOOSE v \in here : TRUE
                IN CASE s.in = "header" -> match_header_value(s.name, value, s.prefix)
                     [] OTHER -> <<IF value.scheme = s.prefix THEN value.token ELSE NoToken, "bearer">>
      hits == {i \in DOMAIN sources : Find(sources[i])[1] # NoToken}
  IN IF hits = {} THEN <<NoToken, "bearer">>
     ELSE Find(sources[CHOOSE i \in hits : \A j \in hits : i <= j])

(* extract_request_tokens: the refresh token only when the flow is enabled,    *)
(* the proof only when its header is there exactly once.                       *)
extract_request_tokens(attempt, conf) ==
  LET access == match_source_with_type(attempt, conf.sources)
  IN [access |-> access[1], type |-> access[2],
      refresh |-> IF conf.refresh_flow /\ conf.refresh_source THEN attempt.refresh ELSE NoToken,
      proof |-> conf.dpop # "disabled" /\ attempt.proof.count = 1]

(* The DPoP policy, before the token is looked at. *)
PolicyError(conf, tokens) ==
  CASE conf.dpop = "auto" /\ tokens.type = "dpop" /\ ~tokens.proof -> "proof_required"
    [] conf.dpop = "required" /\ tokens.type # "dpop" -> "required"
    [] conf.dpop = "required" /\ tokens.type = "dpop" /\ ~tokens.proof -> "proof_required"
    [] conf.dpop = "disabled" /\ tokens.type = "dpop" -> "disabled"
    [] OTHER -> "none"

-----------------------------------------------------------------------------
(* Errors: is_refreshable, status_code, and refresh_session's own mapping.     *)
is_refreshable(err) == err \in {"expired", "signature"}

status_code(err) ==
  CASE err \in {"replay_full", "busy"} -> 503
    [] err = "not_configured" -> 404
    [] err = "discovery" -> 502
    [] err \in {"algorithm", "transport"} -> 500
    [] OTHER -> 401

refresh_status(err) ==
  CASE err \in {"transport", "discovery"} -> 502 [] err = "busy" -> 503 [] OTHER -> 401

Ended(status) == [pc |-> "idle", outcome |-> status]

(* authenticate_request's handling of an error of authenticate: the locals     *)
(* after it.                                                                   *)
AfterError(local, err) ==
  CASE local.refreshed -> Ended(refresh_status(err))
    [] ~local.refreshed /\ is_refreshable(err) /\ local.tokens.refresh # NoToken -> [local EXCEPT !.pc = "refresh"]
    [] OTHER -> Ended(status_code(err))

Moves(c, step) == client' = [client EXCEPT ![c].pc = step]
Ends(c, status) == client' = [client EXCEPT ![c] = Ended(status)]
Fails(c, err) == client' = [client EXCEPT ![c] = AfterError(@, err)]

-----------------------------------------------------------------------------
ConfOf(c) == AuthConfigs[Attempts[client[c].attempt].conf]

(* discover, and resolve_key's check of the issuer it names; conf.discovery is *)
(* that issuer, or "fails".                                                    *)
DiscoveryError(conf) ==
  CASE conf.mode # "oidc" -> "none"
    [] conf.mode = "oidc" /\ conf.discovery = "fails" -> "transport"
    [] OTHER -> IF conf.issuers # {} /\ conf.discovery \notin conf.issuers THEN "discovery" ELSE "none"

(* resolve_key's checks before a fetch, on the decoded header of the token. *)
HeaderError(conf, name) ==
  LET token == TokenOf[name]
  IN CASE name \notin DOMAIN TokenOf -> "invalid"
       [] conf.mode = "static" /\ token.alg # conf.alg -> "algorithm"
       [] conf.mode = "jwks" /\ token.alg \notin conf.algs -> "algorithm"
       [] conf.mode = "oidc" /\ token.alg = "hmac" -> "algorithm"
       [] conf.mode # "static" /\ token.kid = "" -> "invalid"
       [] OTHER -> DiscoveryError(conf)

(* on_request_with_scheme, up to the first await. *)
Begun(i, tokens, step) ==
  [pc |-> step, outcome |-> Never, attempt |-> i, tokens |-> tokens, token |-> tokens.access,
   refreshed |-> FALSE, found |-> NoKeySet, second |-> FALSE, at |-> 0, full |-> FALSE]

FirstStep(i) ==
  LET attempt == Attempts[i]
      conf == AuthConfigs[attempt.conf]
      tokens == extract_request_tokens(attempt, conf)
  IN CASE attempt.skipped -> Ended(0)
       [] ~attempt.skipped /\ tokens.access = NoToken ->
            IF tokens.refresh # NoToken THEN Begun(i, tokens, "refresh") ELSE Ended(401)
       [] OTHER -> IF PolicyError(conf, tokens) # "none" THEN Ended(401) ELSE Begun(i, tokens, "header")

Begin(c, i) ==
  /\ client[c].pc = "idle"
  /\ attempts < mix.n
  /\ attempts' = attempts + 1
  /\ client' = [client EXCEPT ![c] = FirstStep(i)]
  /\ UNCHANGED <<now, keyVars, refreshes, replayVars, mix>>

(* validate_token: decode_header and the allowlist of the key source. *)
DecodeHeader(c) ==
  LET err == HeaderError(ConfOf(c), client[c].token)
  IN /\ client[c].pc = "header"
     /\ CASE err # "none" -> Fails(c, err)
          [] err = "none" /\ ConfOf(c).mode = "static" -> Moves(c, "verify")
          [] OTHER -> Moves(c, "keys")
     /\ UNCHANGED <<now, keyVars, refreshes, replayVars, runVars>>

(* Slip: the age of the cached set alone allows the refetch. *)
claim_refetch_always == TRUE

(* claim_refetch: the check and the stamp are under one map entry. *)
claim_refetch == refetches = Never \/ now - refetches >= KEY_REFETCH_COOLDOWN

(* get_verification_key, on the set it was given, which may have been replaced *)
(* since: an unknown kid is an error, or claims a refetch.                     *)
FindKey(c) ==
  LET local == client[c]
      token == TokenOf[local.token]
      known == token.kid \in local.found.kids
      refetch == ~known /\ ~local.second /\ now - local.found.fetched_at >= KEY_REFETCH_COOLDOWN /\ claim_refetch
  IN /\ local.pc = "found"
     /\ CASE refetch -> client' = [client EXCEPT ![c].pc = "drop", ![c].second = TRUE]
          [] ~refetch /\ ~known -> Fails(c, "key_not_found")
          [] known /\ token.alg # "asym" -> Fails(c, "algorithm")
          [] OTHER -> Moves(c, "verify")
     /\ refetches' = IF refetch THEN now ELSE refetches
     /\ UNCHANGED <<now, published, key_set, fetch_fails, extra, refreshes, replayVars, runVars>>

(* The claimed refetch drops the set that is cached by then, and asks again. *)
DropKeys(c) ==
  /\ client[c].pc = "drop"
  /\ Moves(c, "keys")
  /\ key_set' = NoKeySet
  /\ UNCHANGED <<now, published, fetch_fails, refetches, extra, refreshes, replayVars, runVars>>

(* key_set: the cached one, or the remembered failure, or a fetch. *)
LookUpKeys(c) ==
  /\ client[c].pc = "keys"
  /\ CASE key_set # NoKeySet -> client' = [client EXCEPT ![c].pc = "found", ![c].found = key_set]
       [] key_set = NoKeySet /\ fetch_fails -> Fails(c, "transport")
       [] OTHER -> Moves(c, "fetch")
  /\ UNCHANGED <<now, keyVars, refreshes, replayVars, runVars>>

(* fetch_key_set answers every caller that waits. *)
FetchKeys(ok) ==
  LET waiting == {c \in Clients : client[c].pc = "fetch"}
      fetched == [kids |-> published, fetched_at |-> now]
      After(local) == IF ok THEN [local EXCEPT !.pc = "found", !.found = fetched] ELSE AfterError(local, "transport")
  IN /\ waiting # {}
     /\ key_set' = IF ok THEN fetched ELSE key_set
     /\ fetch_fails' = ~ok
     /\ extra' = extra + 1
     /\ client' = [c \in Clients |-> IF c \in waiting THEN After(client[c]) ELSE client[c]]
     /\ UNCHANGED <<now, published, refetches, refreshes, replayVars, runVars>>

(* JwtValidator::validate: signature, then the claims.  An id_token is checked *)
(* against the client id as audience.                                          *)
ClaimsError(conf, token, id_token) ==
  LET audiences == IF id_token THEN {conf.client_id} ELSE conf.audiences
      refused == \/ token.nbf > now + conf.leeway
                 \/ conf.issuers # {} /\ token.iss \notin conf.issuers
                 \/ IF audiences = {} THEN token.aud # {} ELSE token.aud \cap audiences = {}
                 \/ token.iat > now + conf.max_skew
  IN CASE ~token.signed -> "signature"
       [] token.signed /\ token.exp + conf.leeway < now -> "expired"
       [] OTHER -> IF refused THEN "invalid" ELSE "none"

(* DpopValidator::validate, all but the replay record. *)
is_fresh(iat, at) == iat <= at + MAX_PROOF_AGE_SECS /\ at - iat <= MAX_PROOF_AGE_SECS

(* request: htm and htu are the request's; ath: the hash is the token's. *)
ProofFits(proof, token, at) ==
  proof.wellformed /\ is_fresh(proof.iat, at) /\ proof.jkt = token.cnf /\ proof.request /\ proof.ath

(* The claims, and for a DPoP token the proof up to its record; `now` is read  *)
(* here and used later.                                                        *)
Verify(c) ==
  LET token == TokenOf[client[c].token]
      local == client[c]
      proof == Attempts[local.attempt].proof
      err == ClaimsError(ConfOf(c), token, local.refreshed /\ local.token = Attempts[local.attempt].issued.id)
      dpop == ~local.refreshed /\ local.tokens.type = "dpop"
  IN /\ local.pc = "verify"
     /\ CASE err # "none" -> Fails(c, err)
          [] err = "none" /\ local.refreshed -> Ends(c, 0)
          [] err = "none" /\ ~local.refreshed /\ ~dpop ->
               IF token.cnf # "" THEN Ends(c, status_code("dpop")) ELSE Ends(c, 0)
          [] OTHER -> IF token.cnf = "" \/ ~ProofFits(proof, token, now) THEN Ends(c, status_code("dpop"))
                      ELSE client' = [client EXCEPT ![c].pc = "sweep", ![c].at = now]
     /\ UNCHANGED <<now, keyVars, refreshes, replayVars, runVars>>

(* ReplayCache::insert: its first look at the size, and the sweep, with the    *)
(* clock the caller read.                                                      *)
Live == Cardinality({p \in Proofs : replay[p] # 0})

Sweep(c) ==
  LET at == client[c].at
      full == Live >= ReplayCapacity
      due == at >= last_sweep + REPLAY_SWEEP_INTERVAL_SECS \/ (full /\ at > last_sweep)
  IN /\ client[c].pc = "sweep"
     /\ replay' = IF due THEN [p \in Proofs |-> IF replay[p] > at THEN replay[p] ELSE 0] ELSE replay
     /\ last_sweep' = IF due THEN at ELSE last_sweep
     /\ swept' = IF due /\ at > swept THEN at ELSE swept
     /\ client' = [client EXCEPT ![c].pc = "record", ![c].full = full]
     /\ UNCHANGED <<now, keyVars, refreshes, runVars, accepted, stale>>

(* Slip: the record keeps a proof until its issue time and not for its life.   *)
ExpiresAtIssue(iat) == iat + 1

(* expires_at: the first second in which the proof is no longer fresh. *)
ExpiresAt(iat) == iat + MAX_PROOF_AGE_SECS + 1

(* The rest of ReplayCache::insert: full, seen and live, or recorded. *)
InsertOutcome(full, taken) == IF full THEN status_code("replay_full") ELSE IF taken THEN 0 ELSE status_code("dpop")

Record(c) ==
  LET local == client[c]
      proof == Attempts[local.attempt].proof
      full == local.full /\ Live >= ReplayCapacity
      taken == ~full /\ replay[proof.id] <= local.at
  IN /\ local.pc = "record"
     /\ Ends(c, InsertOutcome(full, taken))
     /\ IF taken
        THEN /\ replay' = [replay EXCEPT ![proof.id] = ExpiresAt(proof.iat)]
             /\ accepted' = [accepted EXCEPT ![proof.id] = @ + 1]
             /\ stale' = (stale \/ local.at < swept)
        ELSE UNCHANGED <<replay, accepted, stale>>
     /\ UNCHANGED <<now, keyVars, refreshes, last_sweep, runVars, swept>>

-----------------------------------------------------------------------------
(* AuthService::refresh_session. *)
Refreshing == {Attempts[client[c].attempt].refresh : c \in {d \in Clients : client[d].pc = "refreshing"}}

(* validate_refreshed: the new access token, or the id_token beside an opaque  *)
(* one; issued is [access, id], names of tokens.                               *)
RefreshedToken(issued) == IF issued.access \in DOMAIN TokenOf THEN issued.access ELSE issued.id

RefreshSession(c) ==
  LET refresh == client[c].tokens.refresh
      issued == Attempts[client[c].attempt].issued
      known == refreshes[refresh]
  IN /\ client[c].pc = "refresh"
     /\ CASE known = "ok" -> client' = [client EXCEPT ![c].pc = "header", ![c].refreshed = TRUE, ![c].second = FALSE,
                                          ![c].token = RefreshedToken(issued)]
          [] known \notin {"ok", "none"} -> Ends(c, refresh_status(known))
          [] OTHER -> IF refresh \in Refreshing \/ Cardinality(Refreshing) < MAX_CONCURRENT_REFRESHES
                      THEN Moves(c, "refreshing") ELSE Ends(c, refresh_status("busy"))
     /\ refreshes' = IF known = "none" /\ refresh \notin Refreshing /\ Cardinality(Refreshing) >= MAX_CONCURRENT_REFRESHES
                     THEN [refreshes EXCEPT ![refresh] = "busy"] ELSE refreshes
     /\ UNCHANGED <<now, keyVars, replayVars, runVars>>

(* The provider answers; the outcome, an error too, is shared. *)
RefreshAnswered(refresh, answer) ==
  /\ refresh \in Refreshing
  /\ refreshes' = [refreshes EXCEPT ![refresh] = answer]
  /\ client' = [c \in Clients |-> IF client[c].pc = "refreshing" /\ client[c].tokens.refresh = refresh
                                  THEN [client[c] EXCEPT !.pc = "refresh"] ELSE client[c]]
  /\ UNCHANGED <<now, keyVars, replayVars, runVars>>

-----------------------------------------------------------------------------
(* The rest: time passes, keys rotate, cached values and failures expire.      *)
Pass ==
  /\ now < MaxTime
  /\ now' = now + 1
  /\ UNCHANGED <<keyVars, refreshes, replayVars, client, runVars>>

Rotate ==
  /\ published = {"k1"}
  /\ published' = {"k2"}
  /\ UNCHANGED <<now, key_set, fetch_fails, refetches, extra, refreshes, replayVars, client, runVars>>

Forget ==
  /\ \/ key_set # NoKeySet /\ key_set' = NoKeySet /\ extra' = extra - 1 /\ UNCHANGED <<fetch_fails, refreshes>>
     \/ fetch_fails /\ fetch_fails' = FALSE /\ extra' = extra - 1 /\ UNCHANGED <<key_set, refreshes>>
     \/ /\ \E t \in RefreshTokens : refreshes[t] # "none"
        /\ refreshes' = [t \in RefreshTokens |-> "none"]
        /\ UNCHANGED <<key_set, fetch_fails, extra>>
  /\ UNCHANGED <<now, published, refetches, replayVars, client, runVars>>

AuthNext ==
  \/ \E c \in Clients : \/ \E i \in mix.of : Begin(c, i)
                        \/ DecodeHeader(c) \/ LookUpKeys(c) \/ FindKey(c) \/ DropKeys(c) \/ Verify(c) \/ Sweep(c) \/ Record(c) \/ RefreshSession(c)
  \/ \E ok \in BOOLEAN : FetchKeys(ok)
  \/ \E t \in RefreshTokens, o \in {"ok", "transport", "refused"} : RefreshAnswered(t, o)
  \/ Pass \/ Rotate \/ Forget

AuthSpec == AuthInit /\ [][AuthNext]_authVars

-----------------------------------------------------------------------------
(* DpopValidator: a proof authenticates one request, however many clients      *)
(* present it at the same time and whatever the sweeps drop, as long as none   *)
(* checks it against a clock it read before another's sweep.                   *)
ProofOnce == stale \/ \A p \in Proofs : accepted[p] <= 1

(* OAuthClient: of the fetches of the key set, failed ones included, those     *)
(* that neither a first use nor the expiry of a set or of a remembered failure *)
(* calls for are caused by unknown key ids, and there is at most one of them   *)
(* in every cooldown that has begun, however many requests with such ids run   *)
(* at once, find the same old set, and drop what others have fetched since.    *)
FetchesBounded == (extra - 1) * KEY_REFETCH_COOLDOWN <= now - 1
=============================================================================
