# MCP-Shield in TLA+

A formal model of the MCP-Shield gateway (`src/`, Rust): TLA+ modules translated
from the source, TLC configurations that check them on small instances, and
theorems that TLAPS proves for every value of the constants. Paths below are
relative to `src/src/` unless they start with `docs/` or `README`.

## 1. The system

A client's JSON-RPC message comes in over one of three transports, goes through
the router's gates, and leaves, if every gate lets it, for an upstream MCP
server; its result is inspected on the way back and an audit event is published.

```
 stdio ─┐                    ┌ scopes ─ Cedar ─ registry ─ schema ─ ePCA ─ session lock ┐
 SSE  ──┼─ JsonRpc ─ McpRouter                                                          ├─ proxy ─ upstream
 HTTP ──┘                    └ audit producers ◄─ egress inspector ◄────────────────────┘
        control plane (Postgres + cache) and rate limiter: built beside the pipeline
```

All of it runs in one process on tokio: any number of messages are under way at
once, every shared part is behind a lock, and a future that its transport drops
stops at the await it is at.

| component (source) | state | operations | what makes it correct |
|---|---|---|---|
| tool registry (`gateway/registry.rs`) | `tools` by qualified name, `by_server` | register, unregister a server, clear, lookups | the two maps agree; a registered name has one owner until it leaves |
| router (`gateway/router.rs`) | the locals of each message | `handle_message` | only vetted calls leave, to one registration; every message settles; the audit trail is true |
| scopes (`auth/scope.rs`) | none | `check_method`, `check_tool_access` | part of the vetting |
| sessions (`session/state.rs`) | sessions with a locked context and a call log | create, lock, check, log, terminate | a lock that stands keeps calls back; calls are logged before they leave |
| Cedar authorizer (`policy/cedar.rs`) | policy set, stored text | evaluate, reload | a decision depends on what is asked and on the scopes |
| schema validator (`protocol/schema.rs`) | cache of compiled schemas | validate, precompile, clear | the cache never changes a verdict |
| ePCA guardrail (`guardrail/ecpa.rs`) | constraint sets by tool | load a directory, register, evaluate | no half-loaded guardrail; predicates hold for arguments that pass |
| egress inspector (`guardrail/egress.rs`) | none | sanitize, rebuild | no match is left whole, a finding is not lost |
| upstream proxy (`gateway/proxy.rs`) | server table, semaphore | forward, register | permits are conserved, table steady under a call, no deadlock |
| rate limiter (`telemetry/rate_limiter.rs`) | rules, buckets | check, peek, reset, rules | a key never gets more than capacity and rate allow |
| transports (`transport/*.rs`) | sessions, streams, the loop | POST, DELETE, GET, lines | an answer for what needs one, on the right stream, in order |
| audit producers (`telemetry/producer.rs`) | buffer, topic | publish, drain | every producer is tried, no event twice, publishing ends |
| control plane (`control_plane/`) | database, cache | refresh, update, create | versions count updates, the cache converges |
| process (`main.rs`, `config.rs`) | the effective configuration, what was built from it, open exchanges | start section by section, serve, drain, stop | it serves what was configured, and what has to end ends |

What is hard here: overlap (router, proxy, limiter, HTTP, SSE, control plane),
checks that may be stale when used (registry entry, session, cached rule, cloned
channel), dropped futures and timeouts (proxy, audit), full channels and
exhausted permits, sequences of legal calls that end somewhere odd (registry,
schema cache, reload), and stopping with exchanges open (process). PROJECT.json
lists each such place with its line under `hazards`, with the properties aimed
at it.

How the program is wired (`main.rs`, modelled in Process), as far as it matters
for reading the other models: the enforcer is permissive for every transport; the
echo tools and the `echo` server are registered at start-up; nothing creates sessions in the session
manager (SSE passes its client id, stdio the word `stdio`, HTTP ids of its own);
the audit producer is the logging one; a rate limiter is built and not used; with
the authorizer enabled and its policy file missing the router has no authorizer;
the Postgres control plane is behind a feature that is off by default. The
modules therefore take these choices as constants (`Features`, `Producers`, ...):
they say what the code does for every way its parts can be put together.

## 2. Modules

| module | models | composed of |
|---|---|---|
| `ToolNames` | tool names and `parse_tool_name` as records of what lookups compare | |
| `ToolRegistry` | `gateway/registry.rs`, one action per method (each holds the lock throughout) | ToolNames |
| `ScopeEnforcer` | `auth/scope.rs` as operators | ToolNames |
| `SessionManager` | `session/state.rs`, one action per method | |
| `McpRouter` | `handle_message`, one action from one await to the next | the three above, as state machines acting between its steps |
| `Gateway` | a message with its call in the proxy: waiting for table and permit, hosts that never answer, dropped with the message | McpRouter and UpstreamProxy; implements McpRouter |
| `UpstreamProxy` | `gateway/proxy.rs`: semaphore and fair read-write lock with their queues, timeouts, dropped futures | |
| `UpstreamSlots` | what the proxy promises: a pool of `Limit` slots over a table | abstract specification of UpstreamProxy |
| `RateLimiter` | rules, buckets, the two halves of `check` and `peek`, a clock | |
| `SchemaCache` | the validator's cache and its cut keys | |
| `EcpaGuardrail`, `EgressInspector`, `CedarPolicy` | the three content checks | |
| `JsonRpc` | which JSON value is which message, what the router returns for it | |
| `StreamableHttp`, `SseTransport`, `StdioTransport` | the transports | JsonRpc |
| `SessionLifeCycle` | what a session id goes through: unopened, open, initialized, terminated | abstract specification of StreamableHttp |
| `AuditProducers` | the fanout over logging, buffering and Kafka producers | |
| `ControlPlane` | Postgres control plane over the in-memory cache | |
| `Process` | `main.rs` and the settings it decides by: start-up, the HTTP server and its draining, stdio, signals | StdioTransport |
| `Checks`, `Services` | parts that share no state, side by side, one of which moves | registry, schema cache, guardrail, inspector, policies and limiter; audit producers and control plane |
| `MC_*` | instances for TLC | |
| `ToolRegistryProofs` | theorems about the registry | ToolRegistry |
| `McpRouterProofs`, `GatewayProofs` | theorems about the router, its audit trail and session log; and about router and proxy together | McpRouter and ToolRegistryProofs; Gateway and McpRouterProofs |
| `UpstreamProxyProofs`, `StreamableHttpProofs`, `SseTransportProofs` | theorems about the module they are named after | |
| `ChecksProofs` | theorems about schema cache, limiter, authorizer, guardrail and inspector, and about the six parts side by side | Checks, ToolRegistryProofs |
| `ProcessProofs` | theorems about start-up, the stdio loop, audit producers and control plane, and about the last two side by side | Process, Services |

Conventions. An action is what the code does between two awaits, or under one
lock; its guard and its branches are the code's conditions and early returns in
their order. History variables (`current`, `shut`, `sent`, `audits`, `admitted`,
`drawn`, `delivered`, `drained`...) are marked in the declarations and are never
read by a guard of the code's. Names are data: a tool name is a record of what
`parse_tool_name` tells apart, a message the fields the pipeline looks at, a text
a sequence of words. Operators introduced by "Slip:" are plausible mistakes in
the code; no specification uses them. PROJECT.json substitutes each for the
definition it imitates, to show that a property would notice.

How the composition abstracts. McpRouter sees the proxy as its callers do: a
call is away and comes back with a reply or an error. That this view is right,
permits, queues, timeouts and dropped futures included, is `ImplementsRouter` of
Gateway, whose table and session manager stay as start-up left them. It sees policy, schema validation and guardrail as
relations (`PolicyAllows`, `Conforms`, `EcpaSatisfied`); that the cache answers
like the relation is `UnsharedKeysAreExact` of SchemaCache, for schemas whose
key is their own. The transports see the router as the set of results it may
return (`Results` of JsonRpc), and that it does return as
`EveryMessageSettles` of McpRouter.

## 3. Runs

All runs finish within minutes on two workers. Every property has a mutant.

| run | instance | question |
|---|---|---|
| `router` | one message of each of 20 kinds (calls with each kind of name, scope and argument, batches, notifications, responses, unknown methods), all five optional parts, two servers of which the proxy knows one, two schemas, one session with locks on two contexts | is every call that leaves vetted, to one registration, past a standing lock, logged once before it leaves, and recorded truthfully, while registry and session change between any two steps? |
| `gateway` | two messages and one permit; a server whose host never answers, the echo server, a stdio server that the proxy refuses; clients that go away at any step | do router and proxy together implement the router's view of a call; does the proxy hold permits and places in queues for no other message; does every message settle? |
| `proxy` | three callers, two permits, one registrar replacing entries of two servers, one host that never answers, dropped futures | are permits conserved and queues true; does the proxy implement `UpstreamSlots`; does every call and registration end (`TasksEnd`)? |
| `checks` | registry (two servers, four prefixes, four names), eight schemas (short, long, sharing a key, foreign, broken, cut inside a character), the default constraints or five constraint files over six sets, five patterns, of which four overlap and one matches across what is replaced, over results of up to two blocks, two policy evaluations over four policy files, two callers of the limiter on one key under three rules, clock to 2, tokens in halves | the properties of the six parts, each in every order of its own operations |
| `policy_order` | as `checks` | violation: two equal requests get different decisions |
| `egress_leftover` | as `checks` | violation: a rewritten text has a pattern, which a replacement completed |
| `http` | three POSTs or DELETEs, ten kinds of bodies, known, terminated and unknown session ids | are sessions opened by initialize only; do they go through one life (`SessionLifeCycle`); is every POST answered? |
| `http_response` | two calls | violation: a request is answered without a body |
| `sse` | two clients, two streams, two POSTs, channels of one message | do answers stay on their stream, notifications unanswered; do POSTs settle and replaced streams end? |
| `process` | seven configuration files, a missing and a broken one, every policy file and value of the auth variable, two HTTP connections or three lines of stdin, a signal at any moment | does the process serve what was configured, whatever order a map yields; one answer per line, in order; does what has to end end? |
| `shutdown_hangs` | as `process` | violation: a server that was told to stop waits for ever for an open stream |
| `services` | three callers through `<<kafka, buffer, log>>` with a drain; two updates of one policy, one creation, the timer's and a forced refresh, failing queries, dropped calls | is every producer tried, no event buffered twice or lost; do versions count updates; does publishing end and the cache converge? |

Why the bounds are enough to meet the cases. The hazards here need two actors and
one resource: two messages or one message and a registry or session that changes
under it (gateway, router); one call waiting for a permit and one for the table behind
a registrar that waits (proxy: three callers, two permits); a bucket made under one
rule and used under another with fractions left over (limiter: rates of one half,
one and one and a half tokens per tick against capacities 1 and 2); a session
deleted between the two looks of a POST (http: two calls, a third to interfere);
a channel of size one with two answers for it (sse); two upstreams of which one
may take over the id `echo`, and a call and a stream open while the server
drains (process). Bounds appear as
constants of the MC modules or cfg files: `MaxTime` (clock), `MaxBlocks`,
`MaxLines`, and the finite sets of ids that stand for `Uuid::new_v4`, streams and
requests. `CHECK_DEADLOCK FALSE` is set where a finite supply of these ids runs
out or a transport or the process has ended. Symmetry is used in `checks` only
(`CallersAlike`: the limiter's callers and the policy's evaluations), which has
no liveness property; its clock is bounded by the constraint `InTime`.

Fairness, and what in the code justifies it:

- `McpRouter`: `WF(Advance(r))` for each message: tokio polls ready tasks, its
  locks are fair, upstream calls and publishing end by timeouts. No fairness for
  arrivals, disconnects, registrations or administration.
- `Gateway`: `WF(GatewaySteps(r))`, the same with the proxy's steps in the place
  of the one upstream; waiting for a permit or the table is no step, and turns
  come by the guards.
- `UpstreamProxy`: `WF` of each caller's next step and of each registrar's
  write. The reqwest timeout makes an HTTP call end even if the host is
  silent; permits and locks are first come, first served, which is in the
  guards (`Turn`), not in the fairness.
- `StreamableHttp`, `StdioTransport`: `WF` of a handler's or the loop's next step.
- `SseTransport`: `WF` of the router's return and of streams; `SF(SendReply)`,
  because room in a channel comes and goes and mpsc hands it out in order; the
  client is assumed to read a connection that it keeps open.
- `Process`: `WF` of starting, of the stdio loop, of the end of a drained server
  and of each call's end, which the router's and the transports' liveness gives;
  none for signals, for what clients send, or for their leaving.
- `AuditProducers`: `WF` of steps and of a send's timeout; none for delivery.
- `ControlPlane`: `SF` of the timer's queries, which may fail but not always;
  `WF` of its stores.

## 4. What is proved

tlapm checks all of these with SMT, Zenon and LS4, for any values of the
constants that satisfy the modules' named assumptions (each is evaluated by TLC
in the runs).

| theorem | statement | inductive invariant and why |
|---|---|---|
| `RegistryInvariant`, `IndexAlwaysAgrees`, `NamesAreNeverTakenOver` | the registry's types, the agreement of its two maps, and that no step gives a name to another server | `RegistryInv`: the types with `IndexAgrees`, `NoDuplicateListing` and `OnlyQualifiedNames`. Agreement alone is not inductive: removal goes by the list and leaves a stale name behind unless names are listed once |
| `RouterInvariant`, `RouterTypes` | types of the composed router | `RouterInv`: types, `RegistryInv`, and one fact per request and stage |
| `VettedCalls` | `OnlyVettedCallsGoUpstream` | the stage facts say which gates a message at a stage has passed (`AtPolicy`, `AtLookup`, `AtValidation`, ...), against the entry it cloned and not against the registry now |
| `OneRegistration` | `ServedByOneRegistration` | the cloned entry is in `current`, which only grows while a message is in progress |
| `LocksHold` | `ShutSessionSendsNothing` | a message past the session gate is not `shut`, and nothing but a lock at arrival makes it so |
| `AuditTrailAgrees` | `AuditAgreesWithUpstream`, for all four decisions; of `Deny`, which stands for failures upstream as well (section 5), that there is no reply, and that what left all the same has failed upstream | `AuditInv`: before it settles a message has no result and no event; an error has no reply, and only the errors of the proxy are of messages that left; a tool call that went well has a reply. The event is about the result, so agreement at the end is agreement all along |
| `CallsAreLoggedOnce` | `LoggedBeforeUpstream` | `LogInv`: before it is logged a message is in no live session's log; its session id was issued, is unknown or absent; and on leaving it is in its session's log once. Without the first part nothing keeps a call from being there already; other messages append their own entries only (`OthersLog`) |
| `MessagesGoForward` | every step moves one message at most, to a later stage, and results are final: a message has at most twelve steps, whatever goes on around it | `RouterInv` with the trail's: they say that a message before the result has none, so a step that enters one overwrites nothing. `Rank` is the variant function |
| `LimiterInvariant`, `BucketsKeepTheirPromise` | `WithinCapacityAndRate`, for any number of callers, rules, keys and any clock | `LimiterInv`: for every earlier admission, the admissions since plus the tokens left are at most the capacity plus the refill up to `last`. The bound as stated is not inductive: it does not know what is left in the bucket |
| `LimiterTypes` | `LimiterTypeOK`, and that the rules stay sorted with each id once (`RulesInOrder`) | `LimiterTypesInv`. Rust's `sort_by_key` is the permutation that puts an element at the number of those that go before it (`StableSort`); that every place is taken by exactly one is a pigeonhole argument (`SortPermutes`) over the finite domain of a list |
| `HighestPriorityIsFound` | of the rules that match a key, one of the highest priority is found, for any rules in force without the priority `i32::MIN` | `RulesInOrder`, and that the rule found goes before every other that matches (`RuleFound`). With `i32::MIN` the sort key wraps and the statement is false (section 5) |
| `DefaultServerStaysKnown` | `DefaultServerIsKnown`: a call for the default server never ends as unknown | `PickInv` on top of `ProxyInv`: a picked target that waits has an entry, because entries are replaced and never removed |
| `ProxyIsWellTyped` | `ProxyTypeOK`, the two queues included | `QueueInv`: the members of a queue are those whose stage says they wait in it, each once. Both halves are needed: `Without` takes one place out, so one who is twice in a queue would stay behind |
| `ProxyInvariant`, `ProxyImplementsSlots` | the proxy implements `UpstreamSlots` | `ProxyInv`: permits plus holders make `Limit`, and a call under way has an entry. Initial states map to initial states, every step to a step or a stutter |
| `NoDeadlockInProxy` | as long as a call or a registration is under way, some task can take its next step without another's (`SomebodyCanGoOn`), for any `Limit` but zero | `QueueInv`: if nobody is under way with a host, whoever is first for the table can have it; if no permit is free, a holder is under way or waits for the table, and a holder never waits for a permit, so the waiting has no cycle. Where `CanGoOn` holds of a task its fair action is enabled, which TLC has checked on the instance of `proxy` |
| `ProxyQueuesAreFair` | nobody who waits is overtaken: the ones in front were in front before (`NobodyIsOvertaken`) | `QueueInv`, each member of a queue once; so a dropped future moves those behind it up and nobody else |
| `GatewayInvariant`, `PermitsFollow` | `PermitsFollowMessages` | `TasksInv`: a task works for a message only at the stages where the router waits for it, for the server that `TargetServer` names, and the permits held and free make `Limit`. The target is the part that is easy to miss: the proxy stores it when the call is handed over and reads it two waits later |
| `GatewayStepsAreTheRouters` | every step of `Gateway` is a step of McpRouter or none: the safety half of `ImplementsRouter` | `GatewayInv`: `RouterInv`, `TrailInv` and `TasksInv`. The look-up behind the permit is the router's step upstream, the end of the exchange its step back, and waiting is nothing |
| `GatesHoldOverTheProxy`, `MessagesGoForwardOverTheProxy` | `OnlyVettedCallsGoUpstream`, `ServedByOneRegistration`, `AuditAgreesWithUpstream` and the forward movement of messages, of `Gateway` | from the same: each holds of whatever takes only the router's steps |
| `HttpInvariant`, `HttpTypes`, `SessionsAreHandedOutOnce`, `HttpImplementsLifeCycle` | `HttpTypeOK`, `SessionsComeFromInitialize`, and that StreamableHttp implements `SessionLifeCycle`, for any number of POSTs and DELETEs | `HttpInv` adds what a POST that waits carries (`AtAwait`): its body parses; one about to open a session is an initialize with a success of its own id, one about to mark a session has an id that was drawn. Without it nothing ties the id in a response to the request that opened it |
| `SilenceHasItsReason` | a request is answered 202 without a body only if its text has the word "notification" or it names the notification that the router refuses, and what the gateway answers itself goes out under the id of the request or, as an error, under none (`SilentOnlyOverWords`): what is left of the violated `RequestsGetResponses` | `ToldInv`: what a POST will be or was told, from the router's result on, has to do with its own body and with nothing else; the marking of a session between the two does not change it |
| `SseInvariant`, `AnswersStayOnTheirStream`, `NotificationsAreSilent`, `SseTypes` | `AnswersOnTheirStream`, `NothingForNotifications`, `SseTypeOK` | `SseInv`: what a waiting POST carries (`AtWait`: the sender of a stream, and an answer only if one is due) and what a stream carries, delivered or queued, as one sequence (`Carried`), so that a delivery changes nothing |
| `AnswersArrive` | the converse of `AnswersOnTheirStream`: what the router answered to a POST that was told 202 is on its sender's stream while that stream is open (`NoAnswerIsLost`) | `KeptInv` on top of `SseInv`: a POST's stream was opened before the POST, so a stream that opens has no POST of the past; queued and delivered are one sequence, which only grows at its end while the stream is open |
| `CacheIsTransparent`, `ShortSchemasAreExact` | `UnsharedKeysAreExact`; schemas of at most 1024 bytes share no key | `SchemaInvariant`: every cached schema is under its own key |
| `WaitingIsEnough` | `ResetAfterIsEnough`, if every rule holds a token at least | `WaitInv`: an undisturbed caller's bucket is still there and, by the moment it was told, has a token (`Due`). Due is about the moment and not about now, so a peek, which refills, keeps it, and so does a refill that capacity cuts off. With capacity 0 the statement is false (section 5), so the hypothesis is part of the theorem; the rules of the runs satisfy it |
| `CedarInvariant`, `OrderOfScopesIsIgnored` | `CedarTypeOK`; `ScopesAloneDecide` | `CedarInv`: the policies in force are those of start-up, and an answer is the decision under them. Two answers from two moments can only be compared because a reload, which parses the text of start-up again, changes nothing |
| `EcpaInvariant`, `DirectoryIsLoadedWhole` | `EcpaTypeOK`, `LoadedWhole` | `EcpaInv`: every file that is no longer pending was usable, and its tool has a set |
| `SimpleSetsMeanWhatTheySay` | `SimpleSetsAreExact` | `EcpaInv` keeps that a verdict is the evaluation of the set and arguments it names; that this is the conjunction is a lemma about the first field that decides, which exists by well-foundedness |
| `FindingsAreTold` | `FindingsReachTheRouter` | `EgressInv`: `modified` says of the blocks inspected so far what it says in the end of all |
| `NoWholeMatchIsLeft` | `EgressTypeOK`, `NoMatchIsLeftWhole`, for any texts, any replacement and any patterns that do not match the empty text: a match that is left runs over a place where something was replaced. That none at all is left is false (run `egress_leftover`) | `SanitizedInv`, and the lemmas about `replace_all` (`Kept`, `Replaced`: a stretch of what is left that the upstream wrote was one in the text, and of the pattern itself none is left) and about the loop over the patterns (`InspectedIsClean`). The marks on words are what makes it inductive: later patterns work on a text that has replacements in it |
| `EventsReachTheirProducers` | `AuditTypeOK`, `EveryProducerTried` | `AuditInv` adds that an event is in no buffer before it gets there, so that a push makes it the only one; held and drained are one sequence, which a drain does not change |
| `VersionsNeverRepeat` | `ControlTypeOK`, `VersionsCountUpdates` | `ControlInv` adds that a writer about to update has loaded a row |
| `EntriesAreBacked` | what the cache can have (`CacheIsBacked`): of a policy with a row no version that the row has not reached, and no tenant but the default that the database lacks; of a policy without a row, where the cache does lead, only what an update left that saved nothing and reported success | `TrailInv` says of all that is on its way to the cache, fetched by any refresh, loaded by any writer, or just inserted, that it is not ahead: every write goes to the database first and the UPDATE counts up the row's own version. `RowlessInv` says that nothing is fetched of a policy without a row and that a writer puts its own text there: an entry it has loaded may be another's |
| `ChecksAreEachPart`, `ChecksTypes`, `ServicesTypes` | a behaviour of the parts side by side is one of each part, so `ChecksTypeOK`, `ServicesTypeOK` and the parts' promises hold there | none of their own: a step of one part is a stutter of the others |
| `ServesWhatWasConfigured` | `ServesAsConfigured` | `StartInv`: what main has settled at each phase, and that nothing later unsettles it; of the table, that the configured upstreams not waiting have their entries, so the order of the others does not matter |
| `LinesAreAnsweredOnce` | `OneAnswerPerLine` | `StdioInv`: the line that is handled is no blank one, parses while it is with the router, and fits the answer that waits to be written; everything written is of lines before it |

Assumptions worth knowing: `MethodsAssumption` (`tools/call` is a valid method,
`protocol/message.rs`) is used for the trail; `LimiterAssumption` takes times and
tokens as natural numbers of ticks and parts, where the code has floats and
nanoseconds, and priorities as integers; `GatewayAssumption` and `ControlAssumption` take the messages and the
writers as finitely many, since permits and updates are counted, and the table
of the proxy to be total, and `NoRow` to be no policy's row; `EgressAssumption` has no
pattern that matches the empty text, as none of the default ones does. A pattern
is there a set of texts: expressions that look around (anchors, word boundaries)
or take less than they can are outside, and so are the `$` references that
`replace_all` would expand in a replacement; the defaults have none of them.

Induction. The library's induction theorems take an operator, which the
provers cannot instantiate. What needs induction over numbers is proved with
`EveryNumber` (ChecksProofs): a set of numbers with 0 and every successor is Nat,
from `WFMin`. A recursive function is a CHOOSE, so first that a function with its
equation exists (`ReplaceAllUnfolds`, `RedactedTimesUnfolds`,
`InspectTextUnfolds`), then what it does.

Every invariant and action property of the passing runs is stated by a theorem.
Only model-checked is what depends on fairness, as the prover has no rules for
liveness and ENABLED: `EveryMessageSettles`, `TasksEnd`, `EveryPostAnswered`,
`EveryMessageTaken`, `ReplacedStreamEnds`, `ProcessSettles`, `PublishingEnds`,
`CacheOfPlaneConverges`, and that `ImplementsRouter` carries McpRouter's
fairness over. Of three of these the part that needs no fairness is proved:
`MessagesGoForward` bounds the steps of a message, so that `EveryMessageSettles`
can fail only by a message that stops; `NoDeadlockInProxy` and
`ProxyQueuesAreFair` say of `TasksEnd` that it cannot fail by everyone waiting on
everyone or by one who waits being passed for ever; `EntriesAreBacked` says what
the cache can have before it converges.

## 5. Where code and documentation part

Four are checked as violations, the first four here; the others were met while
modelling, and are in the models as the code has them unless a row says "not
modelled".

| code | what it does | what is said |
|---|---|---|
| `policy/cedar.rs`, `gateway/router.rs:348` | the principal is whichever scope a HashSet yields first (run `policy_order`) | "deterministic allow/deny decisions" (`policy/cedar.rs:66`) |
| `transport/streamable_http.rs:129` | an error text with the word "notification" is answered 202 without a body, for a request too (run `http_response`) | "A request expects a response" (`protocol/jsonrpc.rs:24`) |
| `guardrail/egress.rs:239` | looks for matches in the original text and replaces in the rewritten one: `<!-- <system> -->`, in which the comment pattern matches nothing, becomes `<!-- [REDACTED: ...] -->`, in which it does, and is returned so (run `egress_leftover`) | "The egress inspector detects and sanitizes such payloads." (:16) |
| `main.rs:323` | waits without a limit for open exchanges; a stream never ends by itself (run `shutdown_hangs`) | "SIGTERM handling, 30s timeout" (`docs/deployment/PRODUCTION_READINESS_CHECKLIST.md:76`) |
| `main.rs:222` | the enforcer is permissive with auth on, and nothing reads `ecpa_enabled` or `egress_enabled` | "Whether authentication is required" (`config.rs:98`), "Whether ePCA symbolic constraint evaluation is enabled." (:202) |
| `main.rs:120` | an enabled policy whose file is missing is a warning, and nothing is decided by policy | "Whether Cedar policy evaluation is enabled." (`config.rs:190`) |
| `main.rs:233` | with HTTP on, `enable_stdio` is ignored | `enable_stdio` is a setting of its own (`config.rs:64`) |
| `main.rs:41` | configuration issues are logged before tracing is initialised, so they are lost | "Configuration issue" (:42); not modelled |
| `main.rs:363` | `fmt()` writes the log to stdout, where stdio has its answers | "stderr is reserved for diagnostic logging" (`transport/stdio.rs:4`), "Logs events to stderr" (`producer.rs:109`); not modelled |
| `main.rs:68`, `gateway/proxy.rs:290` | `com.echo:uppercase` is registered, and the proxy's echo server does not know it | "Handles `tools/call` for each registered tool" (`test_server/echo.rs:15`) |
| `gateway/proxy.rs:276` | `a + b` of two 64-bit numbers overflows: a panic in a debug build, the wrapped sum in a release build | a sum is announced; not modelled |
| `control_plane/db.rs:329` | with the feature `postgres` the parameter `_database_url` is used as `database_url`: it does not compile | "or `PostgresControlPlane` if the `postgres` feature is enabled" (:322); not modelled |
| `config.rs:219` | `metrics_path` and `metrics_addr` are read nowhere | settings; not modelled |
| `gateway/registry.rs:156` | resolves names that parse as qualified and no others | "by any name format (qualified, bare, or legacy underscore)" (:151) |
| `protocol/schema.rs:132` | the key is the schema's text cut after 1024 bytes: two schemas may share one | "cached by a hash of the schema JSON" (:25) |
| `protocol/schema.rs:106` | an unsupported dialect is an error | "attempting best-effort validation" (:104) |
| `telemetry/producer.rs:287`, `gateway/router.rs:269` | waits for the broker, and the answer waits for it | "should never block the caller" (`producer.rs:83`) |
| `guardrail/ecpa.rs:447` | with a regular expression, the first field decides alone | "The argument fields this predicate applies to" (:56); a default has two (:273) |
| `guardrail/ecpa.rs:216` | the default pattern `^\.\.` finds a leading `..` only; the builder's, `\.\.` (:623), finds one anywhere | "Detect ".." path traversal" (:216); the patterns themselves are not modelled |
| `guardrail/ecpa.rs:342` | a predicate with a name of one's own has no regular expression and never holds, also one made by `ConstraintBuilder::regex` | "Add a custom regex predicate." (:691) |
| `guardrail/ecpa.rs:407` | `block_on_violation` is kept and read nowhere | "Whether violations block execution entirely." (:46) |
| `guardrail/egress.rs:297` | a bare string block is reported as modified and not changed | "Whether the payload was modified" (:39) |
| `gateway/router.rs:613` | a modified result without `content` goes out as it came | "Rebuild response with sanitized content" (:610) |
| `policy/cedar.rs:235` | the principal is quoted once more: `Client::"a"` is an evaluation error | "e.g., `Client::"service-a"`" (:36) |
| `policy/cedar.rs:343` | parses the text of start-up again | "Reload the policy set from the control plane." (:75) |
| `session/state.rs:230` | the lock refuses by visibility as well as identity: another context of the same visibility passes | "attempts to access other contexts (especially private ones) will be denied" (:119) |
| `gateway/router.rs:549` | checks a lock; nothing in the pipeline sets one | "the session is \"locked\" to that repository" (`session/state.rs:9`) |
| `gateway/router.rs:235` | records any other error as `Deny`, a call that left and failed upstream included (`AuditAgreesWithUpstream` says what the word can be relied on for) | "Request was denied by scope policy." (`producer.rs:67`) |
| `gateway/router.rs:339` | `check_method` refuses a client with a prefix scope only | "allow only tools with prefix" (`auth/scope.rs:156`) |
| `gateway/router.rs:269` | a call whose client went away while it was upstream has no audit event | "Comprehensive request/response logging" (`docs/deployment/DEPLOYMENT_GUIDE.md:36`) |
| `telemetry/rate_limiter.rs:272` | a result reports the rule in force, the bucket has the one it was made under | "Seconds until the limit resets." (:79) |
| `telemetry/rate_limiter.rs:168` | a bucket of capacity 0 announces a finite wait | the same |
| `telemetry/rate_limiter.rs:227` | `-priority` overflows for `i32::MIN` | "Find the highest priority matching rule" (:212) |
| `gateway/proxy.rs:176` | a reply's id is not compared with the request's | "with the original request ID preserved" (:99) |
| `gateway/proxy.rs:83` | one semaphore for all upstreams | "requests to any single upstream" (`config.rs:142`) |
| `transport/streamable_http.rs:196` | errors have id null | "An error response mirrors the request's `id`." (`jsonrpc.rs:40`) |
| `transport/streamable_http.rs:170` | any successful message sets `initialized`; the notification, which is an error, never does | "Mark as initialized after the initialized notification" (:168) |
| `transport/streamable_http.rs:115` | an initialize in a batch opens no session | "For initialize requests, create a new session" (:144) |
| `transport/sse.rs:125` | a client whose stream closed is still known | "Unknown or disconnected client" (:136) |
| `transport/sse.rs:126` | after a reconnect the answer goes to the old channel | "sends the response back over the SSE stream" (:107), "client ID for reconnection" (:57) |
| `transport/stdio.rs:88` | a notification whose error has a capital N is answered | "Notifications don't get responses" (:86) |
| `control_plane/postgres/mod.rs:142` | an update has no condition on the version it was made from | "Version number for optimistic concurrency." (`db.rs:57`) |
| `control_plane/postgres/mod.rs:141` | an update of a policy without a row touches nothing, reports success and is served from the cache until the next refresh (`EntriesAreBacked`) | "Policy not found: {0}" (`db.rs:138`), an error that nothing raises |
| `control_plane/postgres/mod.rs:168` | a refresh between its two writes makes `create_tenant` report a conflict with itself | "Tenant {} already exists" (`db.rs:280`) |

## 6. Not modelled

Of `config.rs` the settings that `main.rs` decides nothing by (limits, names,
addresses, telemetry) and the warnings of `validate`, which stop nothing;
`telemetry/metrics.rs` (nothing reads the counters), the data types
of `protocol/message.rs`, the constructors and serialisation of
`protocol/jsonrpc.rs`, `auth/jwt.rs` and `auth/oauth.rs` (no caller in the
program), `test_server/echo.rs` apart from its list of tools, the stubs that
allow everything, the builders of constraint sets, the regular expressions of guardrail and
inspector, the evaluation of Cedar beyond the forms of `policies/default.cedar`,
and what lies outside the process (reqwest, axum, rdkafka, sqlx), which the
modules treat as external: it may answer, fail, or time out. Docker, Helm and
the documentation are not code of the program.

## 7. Plan

Done, in this order: registry, scopes and sessions; the router over them;
limiter; proxy with its abstract specification; schema cache; transports over
JSON-RPC; audit, guardrail, inspector, policies, control plane; router and proxy
together; start-up and shutdown; the life cycle of a session; the proofs about
the audit trail, the session log, the HTTP and SSE transports and the default
server; those about the proxy's queues, router and proxy together, the five
checks, the services, start-up and the stdio loop; the order of the limiter's
rules, the absence of deadlock in the proxy, the forward movement of messages,
the answers of both network transports, the cache behind its database.

To extend:

1. One transport over the router: McpRouter itself in the place of `Results`, so
   that a POST's dropped connection is the router's Disconnect.
2. McpRouter with AuditProducers instead of the published-or-lost choice.
3. JSON-RPC replies: the constructors, `to_value`, and what relaying a reply
   through the proxy keeps of it.

To prove:

1. That the life of a session (`SessionLifeCycle`) and the slots (`UpstreamSlots`)
   have the properties they are stated for, on their own.

## 8. Running

```
tlc -workers 2 -config MC_McpRouter.cfg MC_McpRouter     # one run; PROJECT.json has module and cfg of each
tlapm McpRouterProofs.tla                                # one module of proofs
```
