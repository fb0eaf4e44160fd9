# Ophan: a TLA+ verification development

Ophan is an API gateway on top of pingora: a process per host, worker threads
without work stealing, lock-free limiters and counters, configuration that is
swapped in place or, when it cannot be, handed over to a new process together
with the listening sockets. This directory models the parts of it whose
correctness depends on interleavings or on long sequences of inputs, from the
configuration text to the answer, checks them with TLC on small instances and
proves the most important results with TLAPS for every instance.

Paths below are relative to `src/`.

## 1. The system and its parts

| part | source | state | operations | interacts with |
|---|---|---|---|---|
| token bucket | `ophan/src/middlewares/limiter/algorithm/token_bucket.rs` | one atomic word, the theoretical arrival time (TAT) | `check`, `is_idle` | limiter store |
| sliding window | `.../algorithm/sliding_window.rs` | four atomics: window and count, current and previous | `check` | limiter store |
| limiter store | `.../limiter/store.rs` | sharded map client → state, capacity counter, overflow key | `consume`, `evict_idle` | request filters, housekeeping |
| single-flight cache | `shared/cache/src/ufo.rs` | value cache, failure cache, in-flight slot per key | `get_or_fetch_with_ttl`, `complete_flight` | authentication (key sets, session refresh) |
| balancer | `ophan/src/balancer/{mod,upstream}.rs` | thread-local ticket, server list | `select_backend` by strategy | proxy, health checks |
| backend | `ophan/src/balancer/backend.rs` | health flag, streaks, connection and failure counters, weight, cached peer | `acquire`, `release`, `report_check`, `peer` | balancer, proxy, health checks, reload |
| health checks | `ophan/src/balancer/healthcheck.rs`, `ophan/src/housekeeping.rs` | `checking`, `last_check_ms` per upstream | `tick`, `check_due`, probes | backend, reload |
| proxy | `ophan/src/gateway/proxy.rs` | the request context `OphanCtx` | the hooks `early_request_filter` … `logging` | all of the above |
| hot reload | `ophan/src/state.rs`, `ophan/src/config/dsl/{loader,mod}.rs` | configuration, one context per gateway in an `ArcSwap`, file trackers | `reload`, `load_config`, `AppContext::build` | proxy, backend, upgrade |
| upgrade | `ophan/src/sys/{upgrade,unix_signal,pid,systemd}.rs`, `ophan/src/lib.rs`, `vendor/pingora-core/src/server` | processes, upgrade socket, PID file, systemd's main PID | signals, `respawn_self`, socket transfer, `server_run` | reload, operator |
| release installer | `ophan/src/sys/release.rs` | files of the installation | `install`, `replace_with` | upgrade |
| configuration language | `ophan/src/config/{dsl,domain.rs}` | none | parse, inherit, compile, report errors | reload, router |
| router | `libs/ophan-router` | radix tree per virtual host | `add_route`, `match_route` | proxy |
| rewriting, CORS, security headers | `ophan/src/middlewares/{rewrites,cors,helmet}` | four rule indexes; none | `rewrite_uri`, `on_request`, `on_response` | proxy |
| globs | `shared/flatkit/src/matchers/path.rs` | trie | `compile`, `matches` | every policy's `exclude_paths` |
| listeners | `ophan/src/gateway/listener.rs`, `libs/ophan-sec/src/{trusted_proxies,l4/firewall}.rs`, `shared/flatkit/src/net` | sets of addresses | `admits`, `client_address`, `client_scheme` | proxy |
| ingress filter | `libs/ophan-sec/src/l4/ingres_filter`, `libs/ophan-bpf` | port and rule maps, in memory or in the kernel | build, runtime rules, `filter`, `xdp_ingress` | none yet |
| web application firewall | `libs/ophan-sec/src/l7` | session: score, verdict, tail of the body | compile, `on_request_headers`, `feed`, ... | none yet |
| authentication | `ophan/src/middlewares/auth`, `libs/ophan-auth` | key sets, DPoP replay record, sessions being refreshed | authenticate, refetch, refresh | single-flight cache, proxy |
| static files | `libs/ophan-static` | metadata cache | `serve` | proxy |
| HTTP client | `libs/ophan-net` | connection pool | checkout, return, expiry | authentication |

What makes the system hard: several atomics updated one after the other by
threads that do not wait for each other; time stamps that are older than the
operation that uses them; futures that are dropped at any await; hooks of one
request that run before and after a reload; checks of an old and a new context
that report to one shared backend; files that change between being read and
being stat'ed, or between being looked up and being sent; two processes that
share sockets, a PID file and a service manager; data structures (radix tree,
rule indexes, address sets, streaming matcher) whose answer must not depend on
the order or the pieces in which they were fed. `PROJECT.json` lists these
hazards one by one, with the line where each bites and the property that would
catch it.

## 2. Modules

| module | models | correspondence |
|---|---|---|
| `Gcra` | the arithmetic of the token bucket | operators `Emission`, `Tolerance`, `NewTat`, `RetryAfter`, `IsIdle` are the expressions of the code with saturation at `U64Max` |
| `TokenBucket` | `TokenBucket::check` on one shared word | `Load`, `Accept`/`Retry` (the two outcomes of the compare-and-swap), `Reject`, `RejectAll`; `Arrive` is the clock read in `consume` |
| `BucketPromise` | what a limiter promises | one atomic step per decision; refined by `TokenBucket` |
| `SlidingWindow` | `SlidingWindow::check` | one action per atomic operation, from `LoadWindow` to `Accept`/`Reject` |
| `LimiterStore` | `MemoryRateLimiter::consume` and `evict_idle` | lookup, capacity read and entry are separate steps; the sweep visits one key at a time, then reads the length, then stores the counter |
| `SingleFlight` | `get_or_fetch_with_ttl` for one key | the fast path, the critical section (one action per exit), the await, `complete_flight`; `Cancel` drops a caller at its await |
| `Balancer` | `select_backend`, tickets, `acquire`/`release` | one action per load of a health flag or counter, because the health checker runs on other threads |
| `Gateway` | the proxy hooks and `build_load_balancer` | one action per hook between two awaits; `Reload` is the build and swap of a context |
| `Health` | `check_due`, probes, `report_check`, the reload of an upstream | one action per tick, probe start, probe result and end of check |
| `Reload` | `reload_inner` and `load_config` | one action per read, stat, build and swap; the operator edits files between any two |
| `Upgrade` | hand-over between processes | one action per step of each process that another can observe, and per operator action |
| `ConfigParse` | the parser of the configuration language and inheritance between blocks | one operator per `parse_raw_*`; a block is the sequence of its entries |
| `ListenerCompile`, `PolicyCompile`, `ConfigCompile` | `compile`, the domain conversions, `AppContext::build` | one operator per function; each returns its value and the codes it pushed; errors are a set of codes |
| `RadixTree`, `Router` | the radix tree, virtual hosts, method entries, patterns | `insert`, `remove`, `at`, `add_route`, `match_route` as in the code; `Meaning` is the reference: what a set of routes says, without a tree |
| `Rewrite` | the rewrite engine | `RewriteEngine::new` one rule at a time (`NewEngine`, `RuleAdded`), the four indexes and their priorities; `FirstRule` is the reference |
| `Glob` | `PathMatcherSet` | tokeniser, merged trie, walk with a bounded stack; `Means` is the reference: what the documentation says of each token |
| `Cors`, `Helmet` | the two header policies | origins, preflight, `Vary`; headers by target and level |
| `Ingress` | networks and sets of them, firewall, trusted proxies, listener table; the ingress filter with its software and XDP backends and the in-kernel program | an operator per function, addresses with `V4Bits`/`V6Bits` bits |
| `WafCompile` | the compiler of the L7 rules | an operator per function of `compiler.rs`; the body phases with their overlap |
| `Waf` | the L7 engine at work | one action per hook of a session (`RequestHeaders`, `ChunkFed`, `ResponseHeaders`, `SessionReset`), in any order; `feed` byte by byte |
| `StaticFiles` | `StaticService::serve` | one action per blocking call of the service (`Confine` is `check_confined` with its own lookup of the root); `Replace`, `Rewrite`, `Unlink`, and `MoveAway` of the whole tree, by others between any two |
| `Auth` | the auth middleware on `AuthService` | one action per stretch between two awaits; `Sweep` and `Record` are the two halves of the replay record's `insert` |
| `Release` | `ophan --upgrade` | one action per file operation; `Abort` (a crash or a failure) between any two |
| `Edge` | composition of the previous twelve rows | see below |

`Edge` composes what a configuration goes through before it is served and what
a request meets before an upstream is chosen. A behaviour is about one *scene*:
`router`, `rewrite`, `glob`, `listener`, `filter`, `body`, `cors`, `policies`,
`errors`, `static`, `auth`, `release`. `rewrite`, `body`, `static`, `auth` and
`release` are the state machines of their modules. In the others, each step gives
the code one more input (`given`) and records what the code made of it (`built`);
the properties compare the two. `listener`, `cors`, `policies` and `errors` go
all the way from configuration blocks through `ConfigParse` and the compilers to
the structure that answers requests. The scenes share no variable that changes,
so one run explores their union, not their product.

`MC*` modules give the constants their values. `*Proofs` modules hold the
theorems. `PROJECT.json` maps each definition to its lines.

Names of operators that end a mutated variant (`AcceptBlind`, `RotationShort`, …)
describe a plausible slip in the code. No specification uses them; each makes
one property fail, which shows that the property constrains the code.

History variables record what a property has to compare with and never guard a
step: `passed` (TokenBucket), `granted`, `overlapped` (SlidingWindow), `last`
(LimiterStore), `steady`, `ever`, `turn` (Balancer), `streak`, `gap` (Health),
`quiet`, `hazards` (Reload), `trouble` (Upgrade), `accepted`, `stale`, `extra`
(Auth), `seen`, `torn` (StaticFiles), `overlap` (Release), `rewrites` (Rewrite: the
rules as they are written), `inspected` (Waf: the body as it came).

### Abstractions

- Clients, servers, files, requests are model values or strings. Where a
  property is about text (routes, globs, rewrite rules, bodies) it is a sequence
  of tokens or bytes from a small alphabet; elsewhere it is one atom. Log lines
  and the wording of errors are left out.
- External: the pest grammar (a block arrives as its entries), the regex and
  automaton libraries (a regex is a sequence of byte sets or an operator), DNS,
  sockets, file system calls, signatures and hashes (ideal), the kernel's
  longest-prefix tries (`LongestRule`).
- Fetches in `Auth` go through the single-flight cache; `SingleFlight` shows that
  concurrent callers share one fetch, and `Auth` lets them take its answer in one
  step.
- `SingleFlight` has one key: entries of different keys share only the shard's
  lock. The fetched value is the number of the flight that fetched it.
- A probe of a backend is one answer. A file's content is what the program can
  tell of it: whether it parses, whether a context can be built from it, its
  sockets, its weight. What is on disk in `Upgrade` is whether `-t` accepts it,
  whether `AppContext::build` does, and a version.
- In `Health` time is kept as ages, which makes the state space finite without
  a bound on the clock. The streak counters wrap at `CounterSpan` (2^32 in the
  code), the round-robin ticket at `TicketSpan` (2^64): `fetch_add` and the
  release build wrap, and so does the model.
- Memory order: every atomic is modelled as sequentially consistent. The
  `Relaxed` counters are used for counting only, each a single location.

## 3. Runs

Ten runs pass, two show a disagreement between code and documentation.

| run | instance | checks |
|---|---|---|
| `token_bucket` | 2 threads, 4 policies (zero limit, uneven emission, bursts), clock 0..3 ms, 2 ns/ms, 2 ms/s, word of 200 | `RateConformance`: in every interval of stamps at most a full bucket plus the refill is accepted. `RetryAfterExact`: waiting as told suffices and a second less does not. `ImplementsPromise`: refinement. `CheckReturns`: the CAS loop ends |
| `sliding_window` | 2 threads, limit 2, windows of 2 ms, clock 0..5 | `SlidingPromise`: until a rotation meets another check, a request is accepted exactly when what was really let through leaves room for it |
| `limiter_store` | 2 threads, 1 client and the overflow key, capacity 1, clock 0..2 | `EvictionInvisible`: a swept client is decided as if it had not been swept. `LoadEnds`: after the load the counter is right again and idle states are gone |
| `single_flight` | 3 callers, 3 flights | `OneFetchRuns`, `CacheMovesForward`, `CallerReturns` |
| `balancer` | 2 requests of one worker, upstreams of 1, 2 and 3 servers, 4 assignments of strategies, 2 attempts, ticket span 4, 3 servers that fail and recover | `PicksByHealth`: no 503 if a server was healthy during the whole selection, and none that was unhealthy during all of it is acquired. `FewestConnections`: of two healthy servers the less loaded one is. `RoundRobinInTurn`: consecutive picks from one upstream go round |
| `gateway` | 2 requests, 2 configurations, 3 contexts, lists of up to 2 servers, 2 attempts | `ConnsAreHolders`, `ChargedOnce`, `OneSnapshot`, `InFlightStaysVisible`, `RequestEnds` |
| `health` | 1 backend, 2 contexts, counters mod 4, intervals up to 2 | `FlagFollowsStreak`, `ChecksSpaced`, `DownIsExcluded`, `RecoveredIsReadded` |
| `reload` | 2 gateway files and the master, 5 contents, 2 later changes (edits, creations, removals, files put back with an old time) | `ReloadApplies`, `ContextsMatchConfig` |
| `upgrade` | 3 processes (two hand-overs in a row), 4 kinds of files on disk | `OneServes`: always a process that accepts, never two instances. `ServerIsNamed`: PID file and systemd name the process that serves, and never a dead one. `HandoverEnds` |
| `edge` | twelve scenes, see below | the thirteen properties below |
| `health_dropped` | a reload that removes `health_check` | violated: `RecoveredIsReadded` |
| `upgrade_conflict` | as `upgrade` | violated: `RejectedKeepsServing` |

Type correctness of the modules up to `Upgrade` is no property of a run. It is part of
the proved invariants; the runs are spent on the rest.

The scenes of `edge`:

| scene | inputs | property |
|---|---|---|
| `router` | 3 of 11 routes in any order, 3 hosts, 2 methods, 9 paths | `RoutingRefines`: the answer is the one the set of routes means, whatever the order |
| `rewrite` | up to 4 of 7 rules, the strips counted, 3 sets of strip options, all paths of up to 3 tokens | `FirstRuleWins`: the indexes answer as the first matching rule of the file |
| `glob` | 2 of 13 patterns, a stack of 4 frames, all inputs of up to 4 characters | `GlobsMeanAsDocumented`: a set excludes what one of its patterns, taken alone, matches as documented |
| `listener` | 7 forms of access rules, 2 ranges out of 6 in 3 lists, 5 peers, 5 chains of hops | `PeersJudgedAsWritten`: admission, client address and scheme follow the block as written |
| `filter` | 4 builds (no interface, program not loadable, two on XDP), 2 calls, 10 kinds of frames | `FilterKeepsContract`: the verdict follows the contract of `IngressBackend`, as far as each backend keeps it |
| `body` | 3 rule sets, all bodies of up to 5 bytes over 3, in chunks of 0 to 2, request and response after each other with headers and resets between any two | `ChunkingInvisible`: blocked exactly when the whole body would be |
| `cors` | 5 policies, 56 requests | `CachedAnswersFit`: an answer reused by its `Vary` has the right headers |
| `policies` | 5 kinds of policies, set by host and match block as direct, extended, local or off | `PoliciesInherited`: each route gets the policy that is declared for it, and shares counters only by name |
| `errors` | 2 of the catalogue's faults | `EveryErrorReported`: all of them are reported, none alone accepted |
| `static` | one request at a time, 2 changes of the disk | `OneVersionServed`: headers, range and bytes are of one version of the file that was asked for |
| `auth` | 2 clients, clock 0..4, capacity 1 | `ProofOnce`. `FetchesBounded`: unknown key ids cause at most one fetch, failed or not, in a cooldown |
| `release` | 2 installers, 3 versions, 3 installations | `SwapIsSafe`: the binary is exchanged only for a whole one, with a whole copy kept |

### Bounds, and why they are enough

- Two threads give every order of two calls on one word or one map entry, which
  is the kind of race the code has to resolve there. That more threads add
  nothing to the safety properties is proved (section 4) for every component with
  threads.
- `MaxMs` of `SlidingWindow` covers three windows, so that a window is current,
  previous and forgotten. `MaxMs` of `LimiterStore` lets a bucket fill, empty,
  become idle and be swept. With one client and capacity 1 the second key is
  always the overflow key, so both sides of the capacity check happen.
- Three flights allow a flight, its replacement and a replacement after that:
  what is needed for a late caller to meet two newer flights.
- Three servers is the least number for which the two candidates of
  `least_connections` are not all servers. `TicketSpan` 4 is like the code's 2^64:
  divisible by 1 and 2 and not by 3, so that with three servers the order jumps
  when the ticket wraps. `RoundRobinInTurn` excludes that one pick and no other.
  The flags of three of the six servers change: both of the upstream of two, and
  one of the three.
- Three contexts give a request in the oldest while a backend is carried over
  twice. The second of the two configurations drops the first upstream, so that the
  other one takes its id, and lists that one's server twice; a reload may also find the same configuration again.
- `Reload` was also run with three changes (10 million states) without a change
  in the result.
- The catalogues of `MCEdge` have an example of each kind of input that the code
  they feed tells apart. Three routes are the least with which a node is split, re-ordered by
  priority and backtracked out of; four rules reach the four rewrite indexes at
  once, in every order. Two address bits for IPv4 and three for IPv6
  give nested, touching and overlapping ranges, the top of both address spaces,
  and mapped addresses. Bodies of five bytes hold every way to cut a pattern of
  three bytes with text before and after it. A replay record of capacity one is
  full at the second proof.
- `Clients` and `Installers` are symmetric; no property or action tells them
  apart.
- Deadlock is checked except in `SingleFlight`, `Gateway`, `Upgrade` and `Edge`,
  whose bounds on flights, contexts, processes and inputs end a behaviour.

### Fairness

Weak fairness, on steps of the program only, never on the environment:

- `TokenBucket`, `LimiterStore`: a thread inside a call takes its next step (the
  operating system schedules it). `CheckReturns` holds because in the bounded
  clock other threads can win only finitely often; the code has no bound of its
  own on retries when others always win. A spurious failure of
  `compare_exchange_weak` is a stutter, and fairness excludes an endless run of
  them.
- `SingleFlight`: a woken caller is polled, and a fetch that is polled ends
  (the HTTP client has timeouts). Cancellation is never required.
- `Gateway`: a hook that can run does; upstreams answer, fail or time out.
- `Health`: the housekeeping timer ticks, probes end (they have a timeout).
- `Upgrade`: each process takes its next step; the operator never has to.
- `SlidingWindow`, `Balancer`, `Reload`, `Edge` have safety properties only and
  assume none.

## 4. Proofs

Fourteen components, for every value of the constants allowed by the named assumptions
(`GcraAssumption`, `TokenBucketAssumption`, `SingleFlightAssumption`, `BalancerAssumption`,
`GatewayAssumption`, `HealthAssumption`, `ReloadAssumption`, `UpgradeAssumption`,
`AuthAssumption`, `VersionAssumption`, `StaticAssumption`, `RewriteAssumption`,
`WafAssumption`: positive conversion
factors and bounds, natural-number policies, versions and times, thresholds below the
width of the counters, an even number of tickets, at least one server per upstream,
finitely many files, requests and clients, well-formed configurations, texts that are sequences of tokens, more
priorities than rules, an overlap of the body matcher that is the longest literal without
a byte). TLC evaluates these on the run of the
component, on the rule sets that `WafCompile` makes of their source for the last. A proof
module holds the proofs of one component or of a few that share no name. Three theorems have a hypothesis of their own: `EvictionInvisibleHolds` that
the policy is one (`Policy \in Configuration`), `SlidingPromiseHolds` that the window is
at least a second (`SlidingPolicy`), `FewestConnectionsHolds` that all requests are of one
worker (`OneWorker`). The instances of the three runs satisfy them.

**`LimiterProofs`, the token bucket.** `RateConformance` is not inductive: it speaks of accepted
requests and the code only sees the shared word. The invariant

    Inv == TypeOK /\ LocalsBehind /\ LoopRefills /\ DebtBounded /\ Charged /\ RateConformance

adds that every acceptance is accounted for in the word (`Charged`: for each
interval, the start plus one emission per accepted request is at most the TAT,
unless it saturated), that the word never exceeds the limit of the current
instant (`DebtBounded`), that the value a thread holds lags the word
(`LocalsBehind`; the TAT only grows) and that a thread in the loop has a policy
that refills (`LoopRefills`). `Accept` is the only step of substance; stamps older
than the present clock are covered by splitting on whether the stamp lies in the
interval. `RetryAfterExact` follows from a lemma about ceiling division with
saturation. `ImplementsPromise` maps `Accept` to `Grant`, both rejections to
`Refuse`, `Load` and `Retry` to stuttering; a rejection computed from a stale
word is still one of the promise because the word only grew
(`RejectionIsStable`).

**`LimiterProofs`, the store.** `LimiterStore` is instantiated with the names of
`TokenBucket`, so that the lemmas about the arithmetic serve both. `StoreInv` relates
the map to `last`, what each key was last charged: a key in the map has that value, and
one that is absent was idle at the clock of the latest sweep or was never used
(`SweptIdle`). `EvictionInvisible` then is a fact about GCRA, `IdleIsFresh`: a bucket
that refills decides and charges alike from any value that is not in the future, and one
that does not refill was never charged. The order of the sweep, the overflow key and the
counter of tracked clients, wrong as it may be, play no part.

**`LimiterProofs`, the sliding window.** `SlidingInv` says what the four words mean as
long as no rotation has met another check (`Clean`). Outside a rotation they are true
(`WordsTrue`): the current count is what the current window let through, the weight of
the previous one is what the window before let through, and later windows let nothing
through. Inside, the rotating thread is alone and carries the old count along, in the
word, then in its local variable, then in the word of the previous count (`Carries`).
The other threads only need that what they read last is still so or, for the count,
not above the word (`InCheck`). A rejection with a stale count is right because the
comparison is monotone in the count (`FitsMonotone`).

**`FlightWafProofs`, the single-flight cache.** `Inv == TypeOK /\ IdsIssued /\ ObservedDone /\ SlotOrCache
/\ OneFetchRuns`: ids below `nextId`, a caller about to complete has seen its
flight end, a cached value and an occupied slot exclude each other. The last one
gives `CacheMovesForward`: whoever writes the cache owns the slot, so nothing was
cached before.

**`BalancerProofs`.** Three invariants, each above the one before. `HealthInv`: a worker
is in one selection at a time; `steady` and `ever` are what they say of the flags; what
the scan has still to visit covers every server that stayed healthy (`Candidates`), so it
cannot end without one. That gives `PicksByHealth`. `TurnInv`: a round robin selection
whose servers stay healthy is at the index of the ticket it drew (`AtTicket`), and the
record of the last pick is of the ticket before (`Recorded`), retries, failed selections
and other workers included. `RoundRobinInTurn` is then that consecutive tickets stand for
consecutive indexes (`NextIndex`, from lemmas about remainders), the wrap included when
the number of servers divides the number of tickets. `LeastInv`: the two candidates of an
upstream of two are different (`TwoCandidates`, which needs an even number of tickets),
and the counter that was loaded is still so, which holds on one worker because its other
requests cannot run in between (`OneWorker`). With two workers `FewestConnections` is
false, as TLC shows when the requests of the run are given different workers: a selection
of another worker lands between the load and the acquire.

**`GatewayProofs`.** `Inv == ContextInv /\ RequestInv /\ CountInv`. `ContextInv`
describes every context built so far: pools match their configuration entry by entry,
and the object that a pool's first entry for a server has persists as such into the
current context while the server stays listed (`IsFound`; a list may name a server
twice, and only the first object is found again). `RequestInv` says which fields of `OphanCtx` are set before which hook.
`CountInv` is `ConnsAreHolders` and `ChargedOnce` with the types of the counters.
Reloads only concern the first, hooks only the other two, which is how the proof
is divided. `TypeOK` and the four safety properties of the run follow.

**`HealthRewriteProofs`, the health checks.** `HealthInv == HealthType /\ Counted /\ Probed /\ Dated`.
`FlagFollowsStreak` speaks of the run of equal results, the code of two counters that
wrap. `Counted` relates them: the counter of the streak's kind is its length until it
wraps, and by then every threshold was passed, so the flag shows the streak. This is
where the thresholds have to be below the width (`u32` in the code). `SuccessCounts`
and `FailureCounts` are the two halves of `report_check`. `Probed` says that only a
check that has not ended has probes under way, `Dated` that `last_check_ms` is the
start of the last check, which needs the offset by one of the clock; together they
give `ChecksSpaced`. A reload needs nothing: contexts share the servers, and no step
of an old context's check touches another context's probes.

**`ReloadProofs`.** `ReloadInv` follows `reload_inner` step by step. `Unread` says which
files of the draft were not read yet, `ReadSoFar` that the others, with their trackers,
are what is on disk unless a file changed during the load. `Noticed` is the reason that
`ReloadApplies` holds between reloads: when what is loaded differs from the disk, some
tracker is older than its file, so that the next reload does not return early. Its
converse for files that were put back with an old time is the hazard `restored`, and
`Timely` says that no file is newer than the clock. `SwapsWhole` is what makes
`ContextsMatchConfig` inductive: the gateways built so far have the weights of the
draft, from the store of the configuration on all have, and the contexts swapped so far
are those of the draft.

**`AuthUpgradeProofs`, the hand-over.** `UpgradeInv` adds to types: one process *holds* the instance, from
the receipt of the sockets to their sending (`OneHolder`); the upgrade socket is of a
process that waits (`SockWaits`); the PID file is of a process that has written it and
not exited (`PidIsOf`); without overlaps and delays no ending process can still remove
the holder's PID file (`Named`); while nothing goes wrong one process starts at most,
the sender has a receiver that will load, and the sender accepts until the receiver
serves (`Calm`). `OneServes` needs the first and the last, `ServerIsNamed` the third and
the fourth. Neither is inductive: both forget who is about to become the instance.

**`AuthUpgradeProofs`, authentication.** `AuthInv == ClientsOk /\ ReplayOk`. `ProofOnce` counts acceptances, and
the code sees only the replay record; so `ReplayOk` adds that a proof accepted once
is *remembered*: it is recorded with its expiry, or a sweep has run whose clock was
past that expiry. `ClientsOk` says that a request on its way to the record found its
proof fresh at the clock it read. If the proof is remembered by the first
alternative, `Record` finds it live; by the second, the request's clock is older
than that sweep, which sets `stale`, where the property claims nothing. A full
record can only refuse.

`FetchesBounded` counts fetches, and what limits them is a claim three steps earlier.
`FetchInv` relates the two: the fetches made so far that no expiry calls for, and those
still to come (one per request about to drop the set, and one while there is neither a
set nor a remembered failure), are together (`Owed`) at most one per cooldown up to the
last claim (`Bounded`). `DropStep` and `FetchStep` move a fetch from one account to the next:
a second drop of a set that is absent, or that another request has fetched since, never
adds one. The counts are cardinalities of sets of clients, which is why these have to be
finite. A fetch whose caller is cancelled is the business of `SingleFlight`.

**`AuthUpgradeProofs`, the installer.** `ReleaseInv`: while installations have not overlapped, one
installer is at work at most, the installed binary is whole, the staged file is of
the installer's version and whole from the end of the copy on, and before the rename
the backup equals the binary. That the old backup is removed first does not matter
to it: the rename waits for the new one. `SwapStep` reads the property off it.

**`StaticProofs`.** `StaticInv == DiskOk /\ (call.pc = "idle" \/ (Current /\ CallOk(call,
seen)))`. `OneVersionServed` speaks of an answer that is complete; the invariant follows
a request to it. `Current`: the versions on the disk are among those `seen` since the
request began, path by path, which every change of the disk keeps. `Placed`: which locals are set before which call, and that only
directories get an index. `Answering`: the object that headers and range will be computed
from is a version seen since the request began, and the open handle is its own unless the
file was written in place (`torn`). `Reading`: the body so far is a prefix of the bytes of
that version that were asked for, and `left` counts the rest, unless `torn`. The step that decides is `Open`, which answers with a cached object only if the
handle's own metadata are the same. That the range is the one asked for rests on `RangeIsInterval`
(what `parse_single_range` computes is the set of positions the header names, blanks,
suffixes and ends beyond the file included) and on `AskedIsFirst` (of several ranges the
first that can be satisfied).

**`HealthRewriteProofs`, the rewrite engine.** `RewriteInv == engine.ok =>
EngineOk(engine, rewrites)` says what each index holds of the rules read so far, with the
number of a rule as its priority: a trie the first rule of every text and the least
number in it (`TrieOk`), the exact map the last rule of every path (`ExactOk`), the regex
list all of them in order (`RegexOk`). `FindBestOk`, `ExactBest` and `RegexBest` show
that each index then returns the first of its own rules that matches; `BetterOk` that
comparing candidates in turn, and not asking an index whose least number is too great,
keeps the first over all of them (`CandidateBest`).

**`FlightWafProofs`, the body matcher.** `ChunkingInvisible` compares the verdict with the
whole text, of which the session keeps a tail and a state of the automaton. `WafInv` says
what these are: the overlap is the last bytes of the text, as many as the longest
literal needs (`OverlapOk`); no literal lies in the text so far (`Clear`); the state of
the automaton is the set of prefixes of expressions that end here (`RunOk`) unless it met
a byte it cannot read (`QuitOk`). `LiteralFound` is that a literal lies in the longer text
exactly when it lies in overlap and chunk (`PlaceInTail`, `Joined`), `RunAlong` that the
automaton takes a chunk byte by byte as it would the text (`StepOk`; the runs along a
chunk are a recursive function, whose existence and induction come from minima of sets of
numbers, `RunDefined`), `RunVerdict`, `HitVerdict` and `QuitVerdict` that what it then
answers is the occurrence of an expression in the readable part. The rest (`ChunkStep`,
`HeadersStep`) is the session: a body begins with a fresh matcher whatever came before.

Only model-checked:

- Liveness (`CheckReturns`, `LoadEnds`, `CallerReturns`, `RequestEnds`,
  `DownIsExcluded`, `RecoveredIsReadded`, `HandoverEnds`), which is out of the
  prover's reach.
- What the recursive operators of `RadixTree`, `Router`, `Glob`, `Ingress` and the
  compilers compute (`RoutingRefines`, `GlobsMeanAsDocumented`, `PeersJudgedAsWritten`,
  `FilterKeepsContract`, `PoliciesInherited`, `EveryErrorReported`): it would need
  induction over trees and nested blocks. `CachedAnswersFit` is stated in `Edge` of what
  those compilers make of a block.
- That `WafCompile` and the reading of rewrite rules from a file give what
  `WafAssumption` and `RewriteAssumption` ask for in general: TLC evaluates both on the
  catalogues.

## 5. Where code and documentation disagree

Shown by a run (see `findings` in `PROJECT.json`):

1. *Health checks.* "Servers that recover are automatically re-added to the pool"
   (`docs/public/src/content/docs/health-checks.md:50`). A reload that removes
   `health_check` keeps an unhealthy flag that nothing clears.
2. *Upgrade.* "the new binary must first accept the current configuration, otherwise
   the running process keeps serving" (`ophan/src/sys/upgrade.rs:8-9`). `-t` does not
   build the contexts; a configuration that loads and does not build ends with no
   process serving.

Met while modelling. The first group is excluded by a condition of the property
named, and dropping that condition makes TLC produce the counterexample; the
second describes what the models do and no run asks about.

- `SlidingPromise` claims nothing once a rotation has met another check
  (`overlapped`). A test comment says of concurrent requests "Should not exceed
  max_requests (100) due to atomic operations" (`sliding_window.rs:261`); rotation
  publishes the new window before it resets the count (lines 49-53), a request
  counted in between is forgotten, and a window lets limit + 1 through.
- `EvictionInvisible` is conditioned on stamps not older than the sweep: with an
  older one a swept client is decided with a full bucket at an earlier time.
- `ReloadApplies` excludes edits during a load: the tracker is made after the
  content was read (`loader.rs:21-25, 44, 66-70`), so such an edit is lost until the
  next one. It also excludes added and removed gateway files: `any_file_changed`
  (`state.rs:286-292`) examines known files only, although a full upgrade is
  announced for them (`state.rs:242`, `deployment.md:118-119`).
- `ContextsMatchConfig` states the weights only after a successful reload: a failed
  one may already have changed the weight of carried-over backends
  (`state.rs:165`), against "all-or-nothing" (`state.rs:257`).
- `ReloadApplies` also excludes a file put back with an older time ("restored")
  until another file is edited: `has_changed` (`config/dsl/mod.rs:87`) looks for a
  later time only.
- `OneServes` excludes the operator acting during a hand-over: an edit between
  validation and the new process' load is validated by nobody
  (`upgrade.rs:125-126`, `lib.rs:49`), against `deployment.md:138-140`. A failed send
  of the sockets shuts the old process down too
  (`vendor/pingora-core/src/server/mod.rs:290-307`).

- `ProofOnce` excludes `stale`: a request that read the clock, and reaches the
  record only after another's sweep with a later clock, finds a replayed proof gone
  (`dpop.rs:147-170`), if the proof expires between the two clocks.
- `SwapIsSafe` excludes `overlap`: two installers share the staged file
  (`release.rs`), so one may rename what the other is writing.
- `OneVersionServed` excludes `torn`: a file written in place while it is read.
- `RoutingRefines` lets a parameter with text behind it in its segment (`{id}b`)
  answer with another matching route or 404: the tree does not backtrack into it.
- `FirstRuleWins` excludes two rules of the same plain path: the second replaces the
  first, against "always selects the rule with the *lowest* priority number"
  (`rewrites.rs:8-10`).
- `InFlightStaysVisible` is about the object that `find` returns for a server
  (`IsFound`). Nothing keeps an upstream from listing a server twice
  (`parser.rs:421-442`, `compile.rs:495-506`); a reload then gives both entries the
  first object (`state.rs:160-167`), and requests held by the second are counted on an
  object no balancer has, against "unchanged backends are carried over so their health
  and in-flight counters survive" (`state.rs:141`).
- `GlobsMeanAsDocumented` has the documented `**`, which "matches zero or more
  characters, including `/`" (`docs/EXCLUDE_MATCHERS.md:57`), and names where the code
  differs. In front of more text, `**` is walked from one segment's border to another
  (`InnerDeep`), so it matches less than documented; and an input that ends where it
  begins is accepted whatever follows, so that `/a/**/b` excludes `/a/` (`EndsAtDeep`),
  against the table at lines 442-444.
- The same property claims that a match is found only for patterns that the stack can
  hold (`FramesFor`). On a full stack the walk gives up (`path.rs:618-620`): a pattern
  with more parts than `MAX_STACK_DEPTH` may lose its matches and, as all share one
  walk, those of other patterns. The catalogue has such a pattern. The empty pattern
  is only compared on non-empty inputs.
- `FilterKeepsContract` takes the rules in force from the contract in
  `libs/ophan-sec/src/l4/ingres_filter/backend.rs`:
  "Implementations must treat **deny** rules as highest priority." (line 6), "A global
  rule (no port) applies to every port." (line 7), "Deny always takes precedence over
  any allow rule." (line 23). The backends keep less of it, and the property names what.
  On XDP there is one entry per port and network and the longest network decides
  (`xdp.rs:194-234`), so a deny gives way to an allow on a smaller network and to a later
  call for the same one (`Displaced`); unmatched clients pass; global rules are warned
  about and have no effect (`xdp.rs:139-142, 243-244`). In software, rules given at run
  time have no effect (`software.rs:82-146`), so the property asks that there be none.
- `FilterKeepsContract` asks for single addresses in IPv4 rules on XDP: keys hold the
  address as a little-endian integer (`xdp.rs:199`, `policies.rs:49`) and a trie reads
  them octet by octet, so a shorter prefix covers the wrong octets.
- `CachedAnswersFit` excludes, for a policy open to every origin, requests without an
  `Origin`: their answer has neither CORS headers nor `Vary`.

Second group:

- `RoundRobinInTurn` is about consecutive picks from one upstream, since a thread's
  ticket is shared by all (`upstream.rs:28-31, 74-83`); "Distributes requests
  sequentially across servers" (`load-balancing.md:70`) does not say so.
- A retry goes to another server only if no other request of the worker picks in
  between and the servers are healthy: `RoundRobinInTurn` is about consecutive picks.
- `FewestConnections` is about at most two servers: of more, two candidates are
  compared (`balancer/mod.rs:191-220`), while `load-balancing.md:72` says "Sends
  requests to the server with fewest active connections". It takes three requests,
  one more than the instance has, to see the difference. It is also about requests of
  one worker; see section 4.
- `retry_after` of the sliding window (`sliding_window.rs:92-111`) computes when the
  present count fits, not the count with the next request in it; `rate-limiting.md:97`
  promises "seconds until the next request is allowed".
- The sweep overwrites increments of the capacity counter (`store.rs:185-192`), so
  `max_tracked` is not an "upper bound of tracked clients" (`store.rs:21-22`) while
  requests arrive. `LoadEnds` shows that the error does not last.
- Between the end of an await and `complete_flight` (`ufo.rs:375-376`) a new caller
  finds neither cache nor live flight and fetches again, against `ufo.rs:382-383`.
- With `ip_hash` a retry returns to the same server while its flag is healthy
  (`balancer/mod.rs:121-138`), against `proxy.rs:371`.

- Configuration. Overrides in `extends`: an `identifier` is not parsed as in a
  policy; `client_id`, `client_secret` and `dpop` of an auth policy are ignored;
  `merge_cors` panics on values `build_cors` refuses; a mode without `uri` gives an
  empty location. A `from_upstream` setting is read and dropped. Port 0 is accepted.
  `RawAuthMode::Static` is never produced.
- Routes. Two parameter names at one place (`/u/:id`, `/u/{key}`), and some routes
  that are the same pattern spelled in two ways, pass `-t` and fail in
  `AppContext::build`. A `*` in a pattern that also has `{id}` is a literal. A CORS
  route of several hosts may get no preflight route for one of them.
- Firewall engine. `Not` has no effect (`compiler.rs:252-257`, against the comment at
  24-26). Rules on response headers and status classes such as `2xx` never match.
  Some operators pass `validate_matrix` with value types that reach `unreachable!()`.
  A header rule that only logs or allows ends the phase; a body rule that only logs
  is scored again by each later chunk. The gateway's own middleware is a stub and
  uses neither this engine nor the ingress filter. Literals or expressions of a phase
  from which no automaton can be built are dropped without a word (`body.rs:272-293`,
  `Unbuildable` in the model): `ChunkingInvisible` is about the automata there are.
- Static files. When a file changes twice while it is opened, the second handle is
  taken with its own metadata and not confined again (`service.rs:269-273`). The model
  does so too; `OneVersionServed` says which version is served, and no property says
  where the file lies. The ETag (size, seconds, inode) of a file rewritten in place within
  a second does not change. A listing applies the skip patterns to the absolute
  path, `serve` to the relative one.
- Authentication. An unsupported algorithm is answered with 500. The set is dropped
  before a refetch, so one that fails leaves no key set at all, and every request fails
  until the remembered failure expires. "Busy" is shared as the outcome of a refresh for as long
  as another failure.
- Installer. A crash between the rename and `setcap` leaves the new binary without
  its capabilities, and the next run says it is already installed.

## 6. Not modelled

- Pingora, apart from its socket transfer and shutdown; in `Upgrade`, failures to
  bind a new listener or to write the PID file.
- Cryptography; the grammar of the configuration language; regular expressions.
- Stateless formatting: forwarding headers, cookies, `Cache-Control`, error pages,
  log lines, metrics, the HTML of listings. Nothing of it feeds back into state.
- The HTTP client, its wire protocol and its pool: the callers' models have an
  answer, an error and a time-out at each call.
- The dispatch of policies in `middlewares/mod.rs`, and the choice of a limiter key.
- Code nothing calls: `shared/cache/src/ttl.rs`, `ophan/src/config/json`,
  `Router::remove`, `update_backends`.

Modelled and used by no property: the settings of auth and helmet policies and the
header lists, which `ConfigParse` and `PolicyCompile` carry along because their errors
and their inheritance are those of the policy.

`PROJECT.json` lists every component with its status.

## 7. What could come next

1. `Balancer` composed with `Gateway`, to state what a retry may pick.
2. The connection pool of the HTTP client (checkout, return, expiry).
