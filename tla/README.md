# A TLA+ verification project for btravstack

btravstack is a set of TypeScript packages for services that run in one Node process: a
dependency-injection container (`di`), validated configuration (`config`), a kernel that takes an
application from its graph to `exited` (`core`), runtimes the kernel starts (`http-server`,
`amqp-worker`, `temporal-worker`, `outbox`), and adapters the graph is made of (`cache`, `keys`,
`oauth-client`, `http-client`, `temporal-client`, `prisma`, `storage`, `mailer`, `observability`,
...). This directory holds TLA+ models of the parts that keep state across turns of the event
loop, the TLC configurations that check them, and TLAPS proofs of what matters most.

Run, in this directory:

    tlc -workers 2 -config Kernel.cfg Kernel       # any run of PROJECT.json
    tlapm KernelProofs.tla                         # any *Proofs module

`PROJECT.json` lists the components, the runs, the map from definitions to source lines, for each
property a mutation of the model that breaks it, the hazards, the findings and the theorems.

## 1. The system

Paths are under `src/packages/`. "Turn" is a turn of Node's event loop: a callback, or the
settlement of an awaited promise, with all the synchronous code it runs. Nothing interleaves
inside a turn; everything may interleave between two.

| Part | State | Operations | Works with | Hard behaviours | What makes it correct |
|---|---|---|---|---|---|
| **core: lifecycle** (`core/src/start.ts`, `phase.ts`, `drain.ts`, `process-handlers.ts`, `run-main.ts`, `events.ts`, `runtime.ts`) | phase tracker, readiness override, `exited` deferred, abandoned-build and stop deferreds, skip-drain and stop-cut signals, deadlines | start, requestShutdown, two signals, crash, probes, serve, drain, stop, close the scope, exit code | di (`Module.scoped`), the runtime (`start`, `drain`, `stop`, `stopped`), units, observers, the process | signals and crashes in any phase; a runtime that starts after it was abandoned; deadlines racing what they bound; user code that hangs; failure of `drain`/`stop`/a finaliser | phases only advance; one outcome; the report, the events and the exit code agree; nothing is torn down under a running runtime; shutdown ends |
| **core: unit registry** (`units.ts`) | open units, counters, an AbortController each, idle waiters | run, abortAll, awaitIdle | runtimes (one unit per request, delivery, attempt), the kernel's drain | units that open during the drain or after `abortAll` | every unit is accounted for as completed or abandoned; none is told to stop too early or never |
| **core: the scope a unit forks** (`start.ts`, `runtime.ts`) | per unit: its work's outcome, the scope it forked | fork, return, tear down, close | the registry, di | a fork after the work returned, or twice; a work that returns before its scope is built; a build that fails | a unit outlives its scope; whoever forked is answered |
| **core: health, probes** (`health*.ts`, `probes.ts`) | cached readiness report, in-flight check, listener | register, cached check, `/livez` `/readyz` `/healthz` | every adapter's check, the phase | a check that never answers; a phase that moves while a check is awaited | one check at a time, bounded; an answer tells of the present phase |
| **core: observation, unit records, overrides** | AsyncLocalStorage records; observers | observe, record, fork with overrides | every runtime and adapter | throwing observers | each observer settles once |
| **di** (`build.ts`, `lifecycle.ts`, `scope.ts`, `provider.ts`, `module.ts`) | provider list, levels, acquired services, finaliser stack | resolve overrides, plan, construct, hooks, use, close | every package | siblings acquire concurrently, one fails; finalisers throw; set ports across levels | wiring bugs refused before any factory; no leak; teardown the reverse of construction |
| **outbox** (`relay.ts`, `prisma.ts`, `memory.ts`) | per-tenant loops, slot pool and queue; rows, per-tenant advisory locks | append, claim/publish/mark, prune, stop | the database, a publisher, the kernel's deadline | replicas, crash between publish and mark, session ended under the claim, refused messages, slot hand-over racing stop | at least once, in order per tenant, repeated only for a fault; fair slots; stop ends |
| **oauth-client** (`client.ts`) | discovered issuer, token cache, in-flight fetches, newest fetch per audience | token, evict, health | the issuer, callers, health monitor | overlapping fetches, late failures, slow answers, eviction | one fetch per request; no stale token; health tells of the newest |
| **http-client** (`client.ts`, `policy.ts`, `address.ts`) | per request: socket, timer, listener | request, lookup, read, abort | DNS, a peer, the caller's signal | lookup, peer, deadline and signal race; a peer that trickles; DNS that answers several addresses | one answer, which leaves nothing behind; only allowed addresses |
| **keys** (`kms.ts`, `derive.ts`) | root-key cache with TTL, in-flight unwraps | rootKey, provision, erase | KMS, other processes over the same KMS | answers that overtake an erasure, lost answers | an erased owner is readable for a bounded time only |
| **temporal-worker** (`temporal-runtime.ts`, `connection-security.ts`) | worker run, connections, reloading timer | poll/drain/stop, rotate credentials, release | Temporal SDK, the kernel's deadline, the scope | a tick in flight as the run settles; a connection refused; a key source lost; a deadline that gives up on the run | every connection closed once and never under the worker; the latest credentials in use |
| **temporal-client** (`index.ts`, `connection-security.ts`) | facade over the connection in use, reloading timer | tick, move, close | Temporal SDK, the scope | source lost and recovered, close during a tick | as above; no call falls back to a revoked key |
| **http-server: listener** (`http-runtime.ts`, `unit-scope.ts`, ...) | sockets, open responses, per-request unit and lazily forked scope | listen, request, answer, retire, stopAccepting, drain, stop | answerers (orpc, graphql, htmx, mcp), units, di | drain while responses are open, aborts, half-sent answers | the kernel waits for what clients wait for; a draining server keeps no connection; the server closes |
| **http-server: authentication** (`auth.ts`, `session.ts`) | per request: the alternatives left to try | walk the alternatives | authenticators | one alternative's authenticator down while another decides | the verdict is what the alternatives mean together |
| **http-server: OIDC login and records** (`oidc.ts`, `oidc-tokens.ts`, `oidc-token-store.ts`) | one stored record per session; sealed cookies in browsers | login, callback, session, access token, refresh, invalidate, logout | the token store's transactions, the issuer, browsers | concurrent refreshes of one session; a refresh across a logout; re-login; callbacks of another browser's flow; lost and late responses | a refresh token is used once; who signed out stays out; a browser's session is of a login of its own, and a reported login has ended the session it was sent with |
| **amqp-worker** (`amqp-runtime.ts`) | one consumer, its memoised close | consume, drain, stop | amqp-contract, the deadline | drain then stop, close that defects | one close, heard by both calls, in time |
| **cache** (`cache.ts`, `memory.ts`, `redis.ts`) | entries with expiry | get, set, delete, getOrSet | Redis, observers | load and write of `getOrSet` around a delete | what staleness is possible, and for how long |
| **entity: aggregates** (`aggregate.ts`) | an immutable instance's pending events and expected version | start, make, decide, replay, emit; a repository's save | application code | chains of decisions, several from one instance, saves that conflict | each event stored once; what is stored replays |
| **storage** (`s3.ts`, `memory.ts`) | per streamed call: upload, stream, socket slot | put, get, delete, streamed, conditional | S3 and its SDK | an upload in parts that fails at any step; answers lost and requests repeated; a body that breaks off unseen | no partial object; answers tell the store; slots come back |
| **prisma: row security** (`rls.ts`) | per transaction: the settings of its connection | begin, characterise, pin, query, end | the database's pool | a pooled connection carries settings to the next task | a query runs as its own tenant |
| **config, contract, mailer, observability, pothos, amqp-client, orpc/graphql/htmx/mcp-server, testing, templates** | none across turns but what a library keeps | validation, translation, one call of a library | | | not state machines of this repository: see section 8 |

How they interact: the kernel calls di's `Module.scoped`; di builds the graph and calls the
kernel's `use` with it; inside `use` the kernel starts the runtime and waits for a shutdown
request; the runtime opens units in the registry, and a unit forks a scope of its own from di; the
drain waits for the runtime and then for the registry, each up to the deadline; the stop releases
the runtime, and di closes the scope, running every adapter's release. The probe listener reads the
phase and asks the adapters' checks. Outbox, token source, envelope keys, cache, storage and the
Temporal facade live in that graph and share only the event loop with the rest; authentication
and the OIDC routes run inside an HTTP unit and share the token store with other replicas.

## 2. Modules

| Module | Models | Extends | Checked by |
|---|---|---|---|
| `UnitRegistry` | `units.ts`: open, close, abortAll, awaitIdle's accounting | | through Kernel, HttpServer and UnitFork |
| `Kernel` | `start.ts` and all it composes; composes UnitRegistry | UnitRegistry | Kernel, KernelStartFailed |
| `Lifecycle` | abstract: what an observer may rely on (phase, readiness, outcome) | | `ImplementsLifecycle` of Kernel; Probes runs against it |
| `Probes` | `probes.ts`, `health-monitor.ts`, `health.ts`; composes Lifecycle | | Services |
| `KernelProbes` | the listener that `start.ts` binds, over the kernel itself; composes Kernel and Probes | Kernel | proved (`KernelProofs`) |
| `UnitFork` | the `run` that `start.ts` gives a runtime, and `fork`; composes UnitRegistry | UnitRegistry | Services |
| `OutboxStore` | `outbox/src/prisma.ts`, `memory.ts`: rows, locks, marks, pruning | | through OutboxRelay |
| `OutboxRelay` | `outbox/src/relay.ts`; composes OutboxStore, several processes | OutboxStore | OutboxReplicas, OutboxSlots |
| `OutboxLog` | abstract: what the outbox promises a writer and a reader | | `ImplementsLog` of OutboxHistory |
| `OutboxHistory` | OutboxRelay with a history variable: what was written before what | OutboxRelay | OutboxReplicas |
| `DiPlan` | `di/src/build.ts`: overrides, refusals, levels | | through DiBuild |
| `DiBuild` | `runScoped`, `lifecycle.ts`, `scope.ts` | DiPlan | DiScopes |
| `TokenSource` | `oauth-client/src/client.ts` | | TokenSource |
| `EnvelopeKeys` | `keys/src/kms.ts`, several processes over one KMS | | EnvelopeKeys, EnvelopeKeysForget |
| `Reloading` | `connection-security.ts`: the tick machine both Temporal packages contain | | through the next two |
| `TemporalWorker` | `temporal-runtime.ts`: `poll`, `rotate`, the release of the graph's connection | Reloading | TemporalWorker |
| `TemporalClient` | `temporal-client/src/index.ts`: `rotating` | Reloading | Services |
| `HttpServer` | `http-server/src/http-runtime.ts`: sockets, responses, units, drain, stop | UnitRegistry | HttpServer |
| `AuthWalk` | `http-server/src/auth.ts`: the walk over an endpoint's alternatives | | Services |
| `SessionLife` | abstract: what a browser session promises | | `SessionsOnlyGoForward` of OidcLogin |
| `OidcTokens` | `oidc-tokens.ts`, `oidc-token-store.ts`: records, transactions, refreshes | | through OidcLogin |
| `OidcLogin` | `oidc.ts`, `session.ts` and browsers; composes OidcTokens | OidcTokens | OidcSessions |
| `AmqpConsumer` | `amqp-worker/src/amqp-runtime.ts`: the serving consumer | | Services |
| `CacheReadThrough` | `cache.ts`, `memory.ts`, `redis.ts`: one key | | Services |
| `Aggregate` | `entity/src/aggregate.ts`, and a repository that stores one | | Services |
| `ObjectStore` | abstract, and `storage/src/memory.ts`: one key of a store | | `StoresWholeObjects` of StreamedObjects |
| `StreamedObjects` | `storage/src/s3.ts`: the streamed calls and the socket pool | | Services |
| `HttpExchange` | `http-client/src/client.ts`: one request | | Services |
| `TenantPin` | `prisma/src/rls.ts`: `tenantPinned` over a pool | | Services |
| `MC*` | the instances TLC checks; `MCServices` composes ten modules, `MCOidc` one | their models | |
| `*Proofs` | inductive invariants, lemmas, theorems | their model, TLAPS | `tlapm` |

Definitions whose comment starts with "Wrong:" are plausible bugs of the code; the models do not
use them. `PROJECT.json` pairs each with the property that it breaks.

### How a model corresponds to the code

One action is one turn: what a callback or a settled promise runs until it has to wait again.
Timers may fire at any moment, so no deadline is ever early or late enough to hide an order.
Code that belongs to the application or to a library (constructors, finalisers, publishers, KMS,
the issuer, the Temporal SDK) answers at any time, as it likes, or never.

**Kernel.** `main` is the point reached by the promise chain that `start()` builds (binding,
building, starting, serving, preDrain, draining, stopping, closing, settled). Beside it move the
process handlers (`FirstSignal`, `SecondSignal`, `Uncaught`), the caller (`CallerRequests`), the
runtime (`RuntimeStopped`, `RuntimeServes`, `RuntimeUpTooLate`, ...), the units, and the two arms that
may settle `exited` before the chain: the stop deadline (`StopAbandoned`) and the abandoned build.
`phase`, `forcedUnready`, `reason`, `crashed`, `abandonedBuild`, `skipDrain`, `stopCut`,
`startupFailing`, `stopping` are the variables of the same name (or the deferred of the same role)
in `start.ts`. `events` is what observers are told, in order. `exitCode` is `run-main.ts`.

**Lifecycle.** Three variables and seven actions: the phase only moves forward along the
documented edges, readiness is one interval inside `serving`, `exited` settles once and in the step
that makes the phase `exited`, and a served application does not end without stopping. The
refinement maps `ready` to Kernel's `Ready` and `outcome` to the kind of `exited`.

**OutboxRelay over OutboxStore.** `pc` is where each loop is, per relay and tenant; `free` and
`waiting` are the closure variables of `take`/`give`. A claim is a database transaction: lock, read,
publish one by one, mark, and the session may end at any point of it (`SessionEnds`, `Crash`),
which releases the lock and forgets what was not committed while the process may still be publishing.
A refused publish may have gone out (`PublishRefused(.., out)`). Messages are numbered by the outbox
order, and a lower number may commit after a higher one, as ids are drawn before the commit.

**OutboxLog.** Facts are written, go out, count as published and may go out again; it knows no
relay, claim or lock. A fact notes when it is written which facts of its tenant are to go out ahead
of it, and goes out the first time only when there are none left; it repeats at most once per fault.
The relay keeps no order of commits, so `OutboxHistory` adds that one history variable, `ahead`, and
the refinement maps `times` to `deliveries` and `settled` to the marked and the pruned rows.

**DiPlan / DiBuild.** A wiring says, for each provider in declaration order, which port it answers,
which ports it needs, and whether it overrides. Planning is the synchronous loop of `plan`;
construction starts a level's factories together and each settles in a turn of its own; hooks, `use`
and finalisers follow. `PlanIsExact` compares the loop with an independent definition: no order
exists exactly when some set of providers each need another of that set.

**TokenSource.** A fetch is a record with a phase; discovery is shared; the clock is a counter, so
that expiry, skew and travel time can be compared. **EnvelopeKeys.** Every request to KMS has a send,
an effect and an answer as separate steps. **Reloading and the Temporal modules.** A tick reads,
connects or sets, moves, and closes what it left, one step per await; connections are numbered as
opened and each remembers its credentials and how often it was closed.

**HttpServer over UnitRegistry.** One action per turn of the request callback, of an answerer, of
Node's socket events, and of `Serving.drain` and `Serving.stop`; `responses` is the source's set
`open`, and `sent`, `ended`, `streams` are `headersSent`, `writableEnded` and the queued content type.
A connection whose head is not fully received is "reading", which Node's `closeIdleConnections`
passes over. A connection that has been destroyed or ended closes in a later step, and a client does
not send on it any more; pipelined requests are left out. `retired` covers both forms of retirement,
`Connection: close` and the 'finish' listener, as both end the connection as the response finishes.
The kernel's deadline is `Stop` at any time after `Drain`, or without it.

**Probes over Lifecycle.** `cached`, `recent` and `pending` are what `health-monitor.ts` keeps per
entry (the report, whether its interval still runs, the evaluation under way); a probe is one
request, with the reports it has and the checks it awaits. `SettleShared` is the bounded report of
a gating check, by answer, failure or timeout, and gives it to every probe that awaits it;
`SettleOwn` that of a check only `/healthz` asks for. `Answer` is the continuation, which reads the
phase once more. The application moves by Lifecycle's actions, of which the kernel's are
instances. **KernelProbes** puts the listener on the kernel itself: it answers from the end of
`binding` (`Listens`), reads the kernel's own `Ready`, and learns the checks of the graph in the turn
that starts the runtime (`Monitored`). `ImplementsProbes` says that this is a behaviour of Probes.

**UnitFork over UnitRegistry.** Per unit, `work` and `settled` are the promise the runtime handed
to `run`, `forked` is the scope (with `building`/`unwinding` for di's construction and its
cleanup), `forker` is whoever awaits the context, `told` what `unitOutcome()` gave the teardown.

**CacheReadThrough.** One key, as the code treats keys alike and never two together. A call is
between its read and its write, or between its change of what the key stands for and the delete
or set that follows; `known` and `overtaken` are history, kept to say which staleness is possible.
Both backends are one model: Redis differs in that a command can fail, before or after its effect.

**Aggregate.** An event is its type and a number. Instances are values, so a handler may decide
twice from the same one. The repository is the one of `examples/entity-billing-persistence`, in
both styles, as the class leaves storing to the application; it is marked external in the map.

**AmqpConsumer.** The memoised `beginClose`, the signal `drain` keeps for `stop`, and the race of
`releasedBy`. The worker's own close belongs to the library: it ends when no handler is left, or fails.

**StreamedObjects over ObjectStore.** `at` is where a call of `putStream` or `putStreamIfAbsent` is:
reading its first part, creating an upload, sending, reading, completing, aborting; a short stream is
one `PutObject`. Each request of S3 has its effect with the answer heard or lost, and the SDK asks
again what it did not hear. `held` is the pool of sockets. The refinement maps an object that is not
its writer's whole stream to the value "partial", which ObjectStore never takes.

**HttpExchange.** `wire` is the request object from the lookup to the last byte, `timer` and
`listening` are the deadline and the listener on the caller's signal; `finish` takes all of them
down. An address is of one of three kinds, as the policy decides about them.

**TenantPin.** `session` and `local` are the settings of a pooled connection and of its open
transaction, `stage` is how far `tenantPinned` has come on it. Tasks that query outside a pin share
the pool. **AuthWalk.** One turn of the loop per alternative; what each authenticator makes of the
request is chosen at first, as a scheme is asked about one and the same request.

**OidcLogin over OidcTokens.** A call is a request from its arrival to its response: it opens the
cookies its browser held, runs a transaction of the store under the reference's lock, and answers.
`Refresh` holds the lock across the issuer's answer, which is what makes the grant exclusive; a
lease that is lost (`RefreshUncommitted`) frees it with nothing committed. `heard` says whether the
answer of a transaction that committed arrives. `jar` is what the browser holds; responses set it
in the order in which they arrive, or are lost. A login flow and its session share one identity, as
an authorization code is good for one grant.
**SessionLife** keeps of all that only: open once, exchange forward, close for good.

## 3. Runs

| Run | Instance | Distinct states | Shows |
|---|---|---|---|
| `kernel` | 2 units, 1 finaliser, 2 signals, 1 crash, fair | 181 746 | reports, exit code, events, drain accounts and teardown order agree on every path; the kernel implements Lifecycle; a second signal, a crash, a shutdown of a serving application and a failed startup all end in an outcome, though user code may hang |
| `kernel_start_failed` | 1 unit, 1 finaliser | violation | finding 1 |
| `outbox_replicas` | 2 relays, 1 tenant, 3 rows, batches of 2, 2 faults | 1 468 781 | nothing lost, per-tenant order, repeats only for faults; relays, crashes and refusals implement OutboxLog |
| `outbox_slots` | 1 relay, 3 tenants, 1 row each, 1 slot, 1 fault, rows pruned, fair | 195 975 | slots neither leak nor idle; stop ends; nobody starves |
| `di_scopes` | 3 providers: every wiring over 2 ports and a set, and every one over a set and 2 seeded ports, 5 choices of overrides | 452 904 | the plan is exact; no leak; order of construction and teardown |
| `token_source` | 3 requests over 2 audiences, 3 fetches, cache of 1, time to 4 | 3 244 065 | shared fetches, fresh tokens, truthful health |
| `envelope_keys` | 2 processes, 1 owner, 2 generations, TTL 2, time to 3 | 2 842 089 | how long an erased owner stays readable |
| `envelope_keys_forget` | the same | violation | finding 2 |
| `temporal_worker` | 2 certificates, 2 keys, 4 connections | 62 949 | each connection closed once, never under the worker; current credentials |
| `http_server` | 2 connections, 3 requests | 168 908 | the kernel's units are the open responses; a draining server keeps no connection |
| `oidc_sessions` | 2 sessions, 2 logins, 2 requests at once, 1 browser, 2 refresh tokens | 1 636 793 | a refresh token is used once, signing out is final, a browser's session is of a login of its own and a re-login ends the one before it; the records implement SessionLife |
| `services` | ten modules, see below | 347 709 | probes answer and never call a drained application ready; forked scopes end inside their units; what staleness the cache allows; one stored history; the consumer's one close; no partial object and no lost slot; one answer per request, to allowed addresses; a query runs as its tenant; the authentication verdict; the Temporal facade |

`services` checks ten modules that share no state, in one run: the first state chooses the `subject`,
and the others stand still in one of their initial states. No behaviour is lost, as each module's
steps only read its own variables, and no product of their states is explored.

The deadlock check is off in every run, as each of these systems may come to rest: an application
exits, a relay stops, a clock or a number of connections reaches its bound.

### Bounds, and why they are enough

* **Kernel.** Two units show one unit completing while another is abandoned, and one that opens after
  the drain sampled its counters; symmetric, so more add nothing but copies. One finaliser can hang,
  fail, or run before or after every other event; the code treats finalisers only by counting their
  failures. Two signals are all the handlers tell apart, and the crash handler acts once. The theorems
  lift the bounds on units and finalisers.
* **Outbox.** Three rows with a batch of two give a full batch, a partial one, and a refusal in the
  middle with a later row behind it. Two relays are what a lock has to exclude. Two faults allow a
  crash followed by an ended session of the successor. For slots, one slot and three tenants give a
  holder and a queue of two, so that the order of the queue and a hand-over past a stop matter.
  Back-off lengths and the age of rows are nondeterministic.
* **DI.** Three providers are enough for a chain, a fork, a join, a cycle of any length up to three,
  a set with two members in different levels and a consumer, and two overrides of one port. All wirings
  of the two families in `MCDi` are enumerated.
* **Token source.** Two requests share an audience and one does not; three fetches allow an old one, a
  newer one and a joined or repeated one; lifetimes 2 and 6 with skew 2 fall on both sides of
  `min(skew, lifetime/2)`; a cache of one makes every insertion evict.
* **Keys.** Two processes: the one that erases and one that does not. TTL 2 within a clock of 3 lets
  keys expire after an erasure, and unwraps travel longer than a tick.
* **Temporal.** Four connections: the graph's and three reloads, so that one is left to the graph,
  one is left to the reloading, and one may be refused. In the worker's run symmetry exchanges
  certificates among themselves and keys among themselves, which the code only compares for equality.
* **HTTP.** Two connections show one response that is retired beside one that is reset, and a head that
  arrives after the drain began; three requests let one connection carry two. Connections and
  requests are symmetric; the theorems lift both bounds.
* **OIDC.** Two sessions are an old one and the one a re-login makes; two requests at once are what a
  transaction excludes; two refresh tokens are one that was replaced and its successor. One browser
  is enough: a link may bring it any flow, and flows it did not begin are those of all other browsers
  (`begun` is then `Nobody`); browsers meet only in the store, which knows references alone. All
  sessions are of one login; the other login is the manager that must not open them.
  References are random and interchangeable, so they are symmetric.
* **Probes.** Two probes share an evaluation, and one may come as it settles; one check gates, one does
  not; each may have an invalid interval, answer late or never. **Units that fork.** Two, one draining
  beside another. **Cache.** Two calls are one overtaking the other; two changes are an old and a newer
  one. **Aggregate.** Two instances may be two decisions from one; four events give an opening, two
  commands and an end, in batches of one or two. **AMQP.** Two messages. **Storage.** Two writers and a
  reader over two slots: the pool is full for the third; one of the two writers may be the one whose
  content is not what it declared, as they are alike; a stream may have any number of parts.
  **HTTP exchange.** Two chunks, of one or two, reach the limit exactly or pass it. **Tenant pin.**
  Three tasks on two connections of two tenants: one waits for a connection another tenant used.
  **Authentication.** Two alternatives over two schemes and two scopes are every pair of an earlier and
  a later one; the loop carries nothing across turns but what two show.

Bounds that only exist for TLC are constants with names: `MaxFinalisers`, `MaxFaults`,
`MaxFetches`, `MaxTime`, `MaxConnections`, `MaxRefresh`, `MaxVersion`, `MaxEvents`,
`MaxAlternatives`, and the sets of calls in flight (`Probe`, `Caller`, `Handler`, `Call`, `Delivery`).
`MaxSockets` and `MaxResponse` are settings of the code. The theorems hold for every value of theirs.

### Fairness

* **Kernel** (`Fairness` in `Kernel.tla`): weak fairness of the kernel's own continuations and timers
  only. `ProbesUp`/`ProbesFail`: binding a port answers. `FinishAborting`/`BeginDrain`,
  `ScopeSettles`: promise continuations run. `PreDrainOver`, `DrainDeadline`, `StopAbandoned`: `setTimeout`s
  that the code has armed fire. Constructors, the runtime, units and finalisers get no fairness: each may
  hang, and both liveness properties hold all the same.
* **Outbox** (`Fairness` in `OutboxRelay.tla`): weak fairness of every loop's own steps (timers
  fire, the database answers, a publisher that is not refusing answers). Strong fairness of
  `TurnSweeps`: a loop that keeps getting turns finds its back-off over in one of them, as both
  back-off (capped) and prune intervals are finite. Refusals, crashes and ended sessions are bounded by
  `MaxFaults`, and a process that crashes is started again (`Crash` leaves its loops asleep).
* **Probes**: the timeout of an evaluation fires (`SettleShared`/`SettleOwn` as unhealthy, unanswered)
  and the continuation runs (`Answer`). No dependency need ever answer its check.
* **AMQP**: the kernel's deadline passes (`Abort`), a `stop` follows a drain whose deadline is over, and
  the race's continuation runs (`Release`). No drain need come, and no handler and no close need end.
* **HTTP exchange**: the deadline's timer fires. Neither DNS, the peer nor the caller need do anything.
* The other modules are checked for safety only and assume no fairness.

## 4. Properties

Each is stated in a comment above its definition. Several are conjunctions of named parts, one per
side of one question; here is what each is for.

* **Kernel.** `ExitCodeTells` (`CrashExits70`, `CleanExitIsClean`) and `ToldAlike`
  (`ReportAgreesWithEvents`, `EventStreamWellFormed`): what an operator sees of exit code, report and
  events is consistent with what happened, whoever won the race to settle `exited`.
  `WaysOutLeaveNothing` (`RuntimeInfoSettled`, `RuntimeStoppedBeforeScope`): no adapter is released
  under a running runtime and no caller waits for ever, also if the runtime comes up after its build
  was abandoned. `DrainReportIsTrue` (`DrainAccountsForUnits`, `IdleDrainAbandonsNothing`) and
  `UnitsToldInTime` (`AbortedOnlyWhenGivenUp`, `UnitsToldToStop`): the drain. `ForcedExit`,
  `EndsWithinDeadlines` (`ShutdownCompletes`, `StartupFailureReported`): it ends. `ImplementsLifecycle`: the refinement.
* **Outbox.** `DeliveredInOrder` (`NothingLost`, `NeverOvertaken`), `RepeatsOnlyAfterFaults`;
  `ImplementsLog`: the refinement of OutboxLog; `SlotsAccountedFor` (`SlotsConserved`,
  `NoSlotIdlesWhileWaited`), `StopFinishes`, `EveryFactGoesOut`.
* **DI.** `PlanIsExact`; `ScopesComeAndGoInOrder` (`NothingLeaks`, `BuiltInOrder`, `TornDownInOrder`).
* **Token source.** `OneFetchPerRequest`; `ToldTheNewest` (`HealthIsNewest`, `ServedFresh`).
* **Keys.** `ErasureTakesHold` (`TtlBoundsErasure`, `EraserForgets`).
* **HTTP server.** `UnitsAreOpenResponses`, `NoConnectionKeptWhileDraining`. Both carry exceptions that
  are the code's: see section 6.
* **Temporal.** `ReloadsInPlace` (`ClosedOnce`, `HeldStaysOpen`, `CarriesCurrent`);
  `FacadeFollowsAndCloses` (`ClientClosedOnce`, `CallsFollowTheSource`). `CarriesCurrent` is stated for
  behaviours in which no close has failed: when the close of the connection left behind fails, the
  worker has moved on while the reloading does not count the reading as applied, and only the next
  different reading brings the two together again.
* **Probes.** `OneEvaluationPerCheck`: a check is asked once at a time, whatever probes come.
  `NeverReadyAgain`: no `/readyz` calls an application ready that has lost readiness, though it asked
  before. `EveryProbeAnswers`, though dependencies hang. Over the kernel, `ReadyMeansServing` (KernelProbes):
  who is told "ready" is told so of a kernel that serves, has not crashed and has not begun to drain.
* **Units that fork.** `UnitsEndInOrder` (`UnitsOutliveTheirScopes`, `ForkersAnswered`): an idle registry
  means no scope of a unit is left, and nobody who forked waits for ever.
* **Cache.** `StaleOnlyFromOvertaken`: after an acknowledged delete or set, an older value is found only if a
  `getOrSet` or `set` that had it in hand stored it afterwards. That exception is real: the code does not
  coordinate, and says so; such an entry lives for its ttl.
* **Aggregate.** `OneHistory` (`EachEventStoredOnce`, `StoredReplays`).
* **AMQP.** `ClosedInTime` (`CloseHeard`, `StoppedByTheDeadline`).
* **Storage.** `StoresWholeObjects`: the refinement of ObjectStore. `StreamsSettle` (`AnswersTellTheStore`,
  `SlotsAreCallsUnderWay`): a call that is over is over in S3, in the pool and for its caller alike.
* **HTTP exchange.** `AnswersLeaveNothing`, `EveryExchangeAnswers`.
* **Tenant pin.** `QueriesRunAsTheirTenant`. **Authentication.** `VerdictIsTheRequirements`, which compares the
  loop with what the declared alternatives mean together.
* **OIDC.** `RefreshTokenUsedOnce` excepts refreshes the store never committed: the issuer has then
  replaced a token that the record still carries. `SignedOutStaysOut` holds across refreshes in flight.
  `OwnLoginEndsPrevious` (`ReloginEndsPrevious`, `SessionIsOwnLogin`): a browser's session is of a login it
  began itself, and a login is reported only when the session its callback was sent with is closed, unless
  that one was over by itself or another login's. So a live session of the same login that a sign-in's
  response still takes from the browser arrived after its callback was sent; which of two overlapping
  logins the browser ends in is the order of their responses, and no property promises another (section 6).
  `SessionsOnlyGoForward`: the refinement of SessionLife.

## 5. Proofs

Every theorem holds for all values of the constants that satisfy the assumptions next to their
declarations; each module's invariant was first checked by TLC. Of the 40 properties of the passing
runs, 33 are stated by a theorem; the other seven are liveness.

| Module | Theorems | Assumptions | The inductive invariant |
|---|---|---|---|
| `KernelProofs` | `ExitCodeAlwaysTells`, `ZeroOnlyWhenClean`, `AlwaysToldAlike`, `WaysOutAlwaysComplete`, `DrainReportAlwaysTrue`, `UnitsAlwaysToldInTime`, `KernelImplementsLifecycle`, `KernelRunsProbes`, `ReadyOnlyWhileServing`, `TypeCorrect` | `UnitAssumption` (units are finite), `FinaliserAssumption` | `TypeInv` (types, and that an answer is made of what is decided by then), `ControlInv` (how phase, runtime, handlers, outcome and the flags of crash, abandoned build and failed startup follow the control point), `CleanInv` (what a report without an error still allows to go wrong), `DrainInv` (what the counters sampled at the drain are worth later), `ToldInv` (a unit is signalled from the kernel's giving up on, and not before), `SaidInv` (what the event stream has said so far tells phase, crash and drain); under the listener `MonitoredInv` (the checks are known from `starting` on), `QueriesInv` (what a probe keeps) and `CrashUnready` |
| `OutboxProofs` | `FactsGoOutInOrder`, `NothingIsLost`, `FactsKeepTheirOrder`, `RepeatsArePaidFor`, `SlotsAlwaysAccountedFor` (with `SlotsAreConserved`, `NoSlotIdles`), `RelayImplementsLog`, `TypeCorrect` | `OutboxAssumption`, `RelayAssumption` | `PublishInv` (what a loop has sent is delivered, a batch is the oldest of what it saw, what precedes it has gone out), `SlotInv` (slots free or held, the queue lists each waiting loop once), `HoldInv` (a session is with a loop that uses it, and what its loop has yet to publish is not marked), `RepeatInv` (each delivery but the first, each loop that will publish though its session went, and a fact that a claim may read again are paid for by one fault each), `AheadInv` (whoever claims a fact has seen all that is still to go out ahead of it) |
| `DiProofs` | `PlansAreExact`, `ScopesAreOrdered`, `ScopesDoNotLeak`, `TeardownIsOrdered`, `ConstructionIsOrdered`, `TypeCorrect` | `PlanAssumption`, `HooksAssumption` | `PlanInv`, `ExactInv` (what the levelling loop has placed and what it has left), `BuildInv` (a service is acquired only after what it needs), `HookInv`, `ScopeInv` (the finaliser stack has what is acquired and not ended, in an order that respects needs) |
| `TokenSourceProofs` | `CallersAreToldTheNewest`, `FetchesAreShared`, `HealthFollowsTheNewest`, `ServesFreshTokens`, `TypeCorrect` | `TokenAssumption` | `OneFetchPerRequest` is inductive; `HealthInv` (the newest fetch is the one recorded until it settles), `FreshInv` (a token was minted no earlier than it was asked for) |
| `CredentialsProofs`: EnvelopeKeys | `ErasuresTakeHold`, `ErasureIsBounded`, `EraserForgetsWhatItKept`, `TypeCorrect` | `KeysAssumption` | `KeysInv` (nothing is decrypted after the deletion, and a kept key expires a TTL after it arrived) |
| `CredentialsProofs`: OidcLogin | `RefreshTokensAreUsedOnce`, `SignedOutForGood`, `OwnLoginsEndPrevious`, `SessionLifeIsImplemented` | `OidcAssumption`, `BrowserAssumption` | `OidcInv`: records and the issuer agree but for what was never committed, one transaction holds a reference's lock, a browser's cookie names what it was last sent, and what a request carries was true when it opened its cookies |
| `TemporalWorkerProofs` | `ReloadsHappenInPlace`, `ReloadingClosesEachOnce`, `HeldConnectionStaysOpen`, `WorkerCarriesCurrent`, `TypeCorrect` | `WorkerAssumption` | `RotationInv` (all connections are closed but the reloading's own and the graph's; the one in use is one of these; the reloading is settled only after the run, and never with a tick in flight) |
| `HttpServerProofs` | `UnitsFollowResponses`, `DrainKeepsNoConnection`, `TypeCorrect` | `SocketAssumption`, `UnitAssumption` | `SocketInv` (a connection carries one open response and is busy with it or about to close), `UnitInv` (a pending challenge belongs to an open unit), `DrainInv` (while draining, each open response is retired, refused or reset) |
| `ServicesProofs` | `FacadeFollowsItsCredentials` (with `FacadeClosesEachOnce`, `FacadeFollowsTheSource`), `ChecksAreAskedOnce`, `ReadinessIsNotRegained`, `UnitsAlwaysEndInOrder`, `StaleAlwaysFromOvertaken`, `HistoryStaysOne`, `CloseAlwaysHeard`, `StreamsAlwaysSettle`, `StoreIsImplemented`, `AnswersAlwaysLeaveNothing`, `QueriesAlwaysRunAsTheirTenant`, `VerdictAlwaysTheRequirements`, `TypeCorrect` | `ServicesAssumption`, `ClientAssumption`, `UnitAssumption` | one per module: `FacadeInv`, `MonitorInv` and `ReadyInv`, `ForkInv`, `CacheInv`, `RootInv`, `CloseInv`, `StreamInv`, `ExchangeInv`, `PinInv`, `WalkInv` |

The invariants are needed because no property is inductive alone: each speaks of one moment
(the scope closes, a token is served, a request is answered) and rests on what many earlier turns
left in closures. Each proof has the same layout: lemmas about the operators on data, one lemma or
step per action, then `Init => IInv`, `IInv /\ [Next]_vars => IInv'`, and the theorem by PTL. The
refinements (`KernelImplementsLifecycle`, `KernelRunsProbes`, `RelayImplementsLog`,
`SessionLifeIsImplemented`, `StoreIsImplemented`) show that initial states map to initial states and
that each step of the detailed specification is one step of the abstract one or a stutter.
`KernelRunsProbes` builds on `KernelImplementsLifecycle`: a turn of the kernel is a step of Lifecycle, and
that is all Probes assumes of an application.

`RepeatsArePaidFor` is an amortised count. A fault has two ways to repeat a fact: a session that ends
leaves its loop publishing a batch that another claim may read as well, and a fact that has gone out
stays pending when its mark is lost. `Stale(m)` is the set of loops of the first kind, `Settled(m)` says
that the second cannot happen; a session that ends does one or the other for a fact, never both, as
the loop either has published it or has not. So deliveries, stale loops and one more for a fact that is
not settled never exceed one and the faults.

**Model-checked only.** The liveness properties (`ForcedExit`, `EndsWithinDeadlines`,
`StopFinishes`, `EveryFactGoesOut`, `EveryProbeAnswers`, `EveryExchangeAnswers`,
and of `ClosedInTime` the half that speaks of time; `CloseAlwaysHeard` proves the other): fairness and
ENABLED are beyond the prover.

**Proved, and in no run.** `KernelRunsProbes` and `ReadyOnlyWhileServing`: the product of the kernel and
its listener is large, and each of the two is checked by a run of its own. Both properties were found to
hold by TLC before they were proved, with one unit, no finaliser, one gating check and one probe
(461 282 states).

## 6. Findings

1. **`startFailed` from an application that has served** (`kernel_start_failed`). A `Serving.drain` that
   defects while the application drains passes `finish()` by and reaches `leaveFailed` in phase
   `draining` (`core/src/start.ts:482`), which emits `startFailed` after `serving`; the runtime's `stop` is
   not called and open units are not aborted. `docs/reference/core/events.md:57` says of `startFailed` that
   something failed before `serving`, and the comment at `start.ts:481` takes such a defect to be past
   `stopping`. `RuntimeStoppedBeforeScope` excepts this case by name.
2. **An erased key served by the process that erased it** (`envelope_keys_forget`). An unwrap that KMS
   answered before the deletion and that settles after `erase()` purged the cache is kept with a fresh
   TTL (`keys/src/kms.ts:260`). `docs/reference/keys.md:196` and the comment at `kms.ts:121` say that the
   process that erased forgets at once. `TtlBoundsErasure` gives the bound that does hold.

Met while modelling, and no contradiction of anything the repository says; the first two are the
exceptions the properties of `HttpServer` name:

* A cross-site request whose head completes during the drain is answered 403 before the runtime asks
  whether it is draining (`http-runtime.ts:530`), so that connection is not retired and may send again.
* A unit that fails outside `answer` (its challenge defects, or the answerer throws before it returns a
  promise) settles before its 500 is written (`http-runtime.ts:567`), so the drain does not wait for that one.
* A response that becomes an event stream after it was retired is not reset (`http-runtime.ts:467`); its
  unit stays until the deadline.
* A conditional write whose answer S3 sent and the SDK did not hear is repeated by the SDK, and the
  repetition finds the object the first one wrote: `putStreamIfAbsent` then answers `ObjectExists` about
  its own write. `AnswersTellTheStore` says what such an answer is worth.
* One `/readyz` waits for all gating checks; a report of one that is cached as the probe arrives may be
  older, by the time another has answered, than the check's interval.
* A refresh that the issuer granted and whose transaction then lost its lease leaves a record whose
  refresh token is spent (`oidc-tokens.ts:223`): the session ends at its next refresh. `RefreshTokenUsedOnce`
  excepts exactly these.
* A login ends the session its callback was sent with (`oidc.ts:377`), so two callbacks of one browser that
  are both sent before either's response arrives end neither's session: the browser keeps the session whose
  response arrives last, be it of the earlier login, and the other's record stays in the store until its session is over. A login
  whose response is lost leaves the browser with the cookie of a session that is closed, and a record no
  cookie names. `OwnLoginEndsPrevious` is about neither.

## 7. Hazards

`PROJECT.json` lists the hazards at their lines with the properties that would catch each. One has no
property: the event stream that begins after its response was retired (`http-runtime.ts:467`), where
the model follows the code and the documentation speaks only of streams open when the drain begins.
Known and not listed there: a startup that fails while a runtime has already run units leaves those
units unsignalled (the code promises nothing about them); the outbox's back-off exponent, which is
arithmetic on a capped value.

## 8. Not modelled, and why

The repository has some 57 000 lines of TypeScript, and the map reaches a small share of them. Most of
the rest is not a state machine: types that are checked by the compiler and gone at run time (the
greater part of `entity`, `di`, `contract`, `config` and `orpc-server`), wiring (modules that hand
configuration to constructors), test fixtures, the documentation site, the rendering of HTML and
the phrasing of errors. A model of those would restate single assignments. The lines that keep
state across turns of the event loop are what the modules above model, nearly all of them.

* **Parts of modelled components.** `keys`: `provision` creates keys in KMS and changes nothing a process
  keeps; an operator who cancels a deletion or disables a key; clocks that go backwards. `oauth-client`:
  which error a failure carries. `outbox`: the `oldestPending` health check and options. `temporal-worker`:
  building the worker and releasing what a failed startup left; switching between having and not having
  an API key. `di`: the wording of wiring defects. `http-server`: a bind that fails before serving,
  security headers, observers, and logins without a token store, whose session is the sealed cookie alone.
  `storage`: the unstreamed calls, `copy`, `head` and presigned URLs, each one request of S3; a defect
  inside an upload in parts. `entity`: a decision that emits no event, which stores nothing. `amqp-worker`:
  topology, the worker's start, and the outbox publisher's wiring. `prisma`: opening and closing the
  client, which is a scope's (DiBuild). `http-client`: the parsing of policies and address ranges.
* **Stateless translation**: `orpc-server`, `graphql-server`, `htmx-server`, `mcp-server`, `pothos`,
  `contract`, `config`, the authenticators. Each call is decided alone, from its own input; unit tests
  reach it.
* **One call of a library**: `mailer`, `amqp-client`, Temporal's schedules, `observability` (buffering and
  export are OpenTelemetry's), key derivation.
* **One turn**: `observe()` settles its observers by one flag before anything else runs; unit overrides
  are computed once over an immutable graph.
* **Test harnesses and templates.**

## 9. Plan

Done: the kernel and its abstraction, its probes, its units and their scopes; di; outbox and its log; token
source and HTTP exchange; envelope keys; both Temporal packages; the HTTP runtime, its
authentication and OIDC; the consumer; cache; aggregates; streamed storage; tenant pinning.
What is left, in order of worth:

1. `TemporalWorker`: the startup that fails after its connection was opened, and the switch between having
   and not having an API key, as further actions of `Reloading`.
2. The Kernel over `HttpServer` in place of its abstract runtime, to check the deadline's two sides in one
   behaviour; the two are now tied by `UnitRegistry` and by `Stop` at any time.
3. Stateless logins, beside the token store.
