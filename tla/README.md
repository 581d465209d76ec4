# A TLA+ verification of kratos-bootstrap

`kratos-bootstrap` starts go-kratos services: a `bootstrap.Context` collects
custom configuration targets, loads the configuration, initialises logger, tracer
and metrics, builds the application and runs it; the `rpc`, `data` and `cache`
packages construct servers and clients from the same configuration. This directory
models the parts of that program whose correctness depends on order, failure and
concurrency, checks them with TLC on small instances and proves the invariants
with TLAPS for instances of any size. Source lines are given as `file.go:line`
relative to `src/`.

## The system

| component | state it keeps | operations | interacts with |
|---|---|---|---|
| start-up Context (`context.go`) | `customConfigs` (key -> target), `config`, `logger`, `appInfo` | `RegisterCustomConfig`, `GetCustomConfig`, `Run` | calls the pipeline; calls back `initApp`, the cleanup it returns, `app.Run` |
| bootstrap pipeline (`bootstrap.go`, `config/`) | the process's flag set; a config provider with its reader and its watcher goroutine | `DoBootstrap`, `LoadBootstrapConfig`, `scanConfigs` | files and environment; fills the targets; calls logger, tracer, metrics |
| metrics initialisation (`metrics/metrics.go`, `instruments.go`, `exporter.go`) | package variables `initOnce`, `initErr`, `initialized`, `otelProvider`, `promHTTP`, four instruments; the default Prometheus registry | `Init`, `InitWithConfig`, `NewMetricProvider`, `PromHandler` | called by `Run` and by any goroutine; read by server and client constructors |
| metrics configuration (`metrics/options.go`) | none | `NewConfigFromProto`, `parseExporters`, `ValidateConfig` | input of the initialisation |
| HTTP and gRPC constructors (`rpc/http.go`, `rpc/grpc.go`) | captured instruments and handler, middleware chain, limits, TLS and keepalive options | `CreateHTTPServer`, `CreateHTTPClient`, `CreateGrpcServer`, `CreateGrpcClient` | metrics variables; `log.Fatalf` ends the process |
| tracing exclusion (`rpc/tracing.go`) | none; the request context carries the span context | server and client middleware, `contextWithTracingSuppressed` | peers, through request headers |
| tracer provider (`tracer/tracer.go`) | the global OpenTelemetry tracer provider | `NewTracerProvider` | called by the pipeline |
| logger (`logger/`) | two log writers with their files | `NewLogger`, `NewLoggerProvider` | called by the pipeline |
| application identity (`config/app_info.go`) | messages and maps several holders share |  `NormalizeAppInfo`, `ResolveHost`, `ServiceName` | every provider |
| application lifecycle (`NewAppWithOptions`, kratos `App`) | signal handling, `BeforeStop` delay | `app.Run`, `app.Stop` | servers, load balancer |
| data and cache clients (`data/`, `cache/`) | a third-party client each | constructors, cleanup functions | external stores |

What is hard to get right and hard to test here:

* The metrics initialisation is process-wide and runs once. Its first outcome,
  a failure too, is everybody's answer; its package variables are assigned one by
  one without a lock, while `PromHandler` and the constructors read them.
* A setup that fails half-way has already installed a global provider and
  registered collectors.
* `Run` can fail at every step, by a panic that its caller may recover and try
  again, by a panic of the application, or by `os.Exit`.
* The config provider keeps watching its file while the targets are scanned.
* Registration is guarded by a field that is set at the end of the bootstrap, not
  at its beginning.
* What a panic of one request does to the process, to the limiter and to the spans
  depends on the order in which the middlewares were appended.
* Whether a span is exported is decided by rules of several services together: the
  exclusions of those that serve and of those that call, and their samplers.

* Termination is a race of signals, failing servers, a delay that cannot be
  interrupted, and requests a load balancer still sends.
* Keepalive sections of clients and servers must fit each other in every mixture of
  old and new instances while both deployments change.
* Which log records, spans and connections are left after a failure or a restart is
  decided by defaults of several layers that take zero for different things.

`PROJECT.json` lists these hazards at the lines where they bite, with the
properties that cover them.

## Modules

How they depend on each other: `Startup` INSTANCEs `OnceResult` for the metrics
package, and `MetricsInit` implements it; `KeepaliveRollout` and `GrpcTransport`
EXTEND `GrpcKeepalive`, and `GrpcPair` composes a client and a server of
`GrpcTransport`. `AppLifecycle` is the inside of `Startup`'s `app` step, `Telemetry`
that of its tracer and metrics steps and `LogFiles` that of its logger. The others
stand for themselves. Modules whose names begin with `MC` hold the instances for TLC.

### OnceResult: what a once-initialised service promises

The abstract specification: callers ask; one outcome is settled, once, only when
somebody has asked; every accepted caller is answered with it; a refused call is
answered at once and settles nothing. `MetricsInit` implements it, `Startup` uses it.

| variable | code |
|---|---|
| `outcome` | `initErr` once `initOnce.Do` has returned for the first time |
| `asking` | goroutines inside `InitWithConfig` that passed `ValidateConfig` |
| `got` | the last value `InitWithConfig` returned to each goroutine |

### MetricsInit: metrics initialisation statement by statement

One action per statement of `InitWithConfig` and `setupMetricProvider` that changes
a package variable, for any set of goroutines.

| action | code |
|---|---|
| `CallInvalid`, `Call` | `ValidateConfig` and the early return (metrics.go:54-58) |
| `Enter`, `Pass` | `initOnce.Do`: the first goroutine runs the closure, all others wait for its end (60) |
| `CreateReader`, `ReadersFail`, `ReadersDone` | `NewMetricReaders` (exporter.go:27-43); a Prometheus reader registers a collector |
| `CreateResource` | `resource.New` (75-88) |
| `InstallProvider` | `otelProvider`, `otel.SetMeterProvider` (97-98) |
| `CreateInstrument`, `InstrumentsDone` | the four assignments of instruments.go:25-39, of which any may fail |
| `InstallHandler` | `promHTTP` (125-127) and `return nil` |
| `PublishErr`, `PublishFlag`, `Release`, `Return` | 61, 62, the end of `Do`, 64 |
| `CreateHTTPServer` | what http.go:123-136 and 166-168 capture |

A goroutine that has returned from `Do` sees everything the closure wrote
(`sync.Once` orders it). For every other goroutine the reads of `CreateHTTPServer`
race with the assignments: `Seen` and `PromHandler` then yield either value, and an
interface value read half-written is the handler `"broken"`. The exporters, the
resource and the meter are external: they succeed or fail. Runtime and host metrics
(100-109, 117-122) only print a warning and keep no state, so they are part of the
neighbouring actions. The text of errors, endpoints and intervals is left out.

### Startup: one process, its Contexts and what runs next to them

`pc[c]` is the next statement of the goroutine that runs `Run` on Context `c`:
`LookupFlag` and `DefineFlag` (flag.go:23), `Load` and `Scan` (config.go), `InitTracer`,
`AskMetrics` and `AnswerMetrics` (bootstrap.go:117-124), `Publish`, `InitApp`, `AppStops`, `Unwind`
(context.go:130-142). A failing step is the `Panic` alternative of its action. A
panic leaves through `Unwind`, which runs the deferred cleanup, to `Recover` (the
caller recovers and may call `Run` again) or `Crash`. `Exit` is `os.Exit`: from
`flag.Parse` or from a `log.Fatalf` of a constructor inside `initApp`. Next to the
Contexts run `Register` (any goroutine), `Edit` (somebody writes the file), `Reload`
(the watcher of the provider), `OtherInit` and `MetricsSettle` (the metrics package,
as `OnceResult` with `Caller <- Ctx \cup Other`).

`flag.StringVar` looks the name up and then inserts it, without a lock: a `Run` that
finds it panics, two `Run`s that look it up before either inserts both go on, each with a
provider of its own, unless the runtime notices the concurrent write (`FlagsCollide`).
The auxiliary variable `met` records the pairs of Contexts that were there together.

A message is represented by the version of the file it was scanned from (0: never
scanned). Keys are numbers in the order of `sort.Strings`. Registrations that panic
(nil target, empty or duplicate key, published Context) change nothing and are
left out. The logger returns at any rate (what a nil one
does later is `AppLifecycle`'s subject) and shares the tracer's step.

`RegisterWhileRunning = FALSE` describes programs that keep the documented rule,
`TRUE` programs whose goroutines register at any time.

### TracePropagation: exclusions along a tree of calls

Services with any configuration exchange requests that carry a span context. A span
context is a trace, an identifier (0: no span) and the sampled flag; identifiers are
numbers in the order in which they are drawn, and `origin` tells who drew each.

| action | code |
|---|---|
| `Arrive` | a request from outside, with a `traceparent` of its own or without |
| `Deliver` | the server middleware (tracing.go:22-48): not installed, skipped with a suppressed context (95-107), or a span below the caller's |
| `Work` | other instrumentation starts a span below the context of the handler |
| `Call` | the client middleware: no header, a suppressed one (109-114), or that of a client span |

`Matches` is `traceOperationMatches` (73-93) on sequences of tokens, of which one is
white space. `Start` is the parent-based sampler of tracer.go:57. A service has no
provider, and its tracer passes the parent's context on; or one whose endpoint is empty
(tracer.go:67), which samples and sends the decision on and exports nothing; or one that
exports what it samples. `Exported` tells these apart, and the properties speak of it.
`silent` is an auxiliary field: an operation above was excluded, and every hop since took
part in tracing. A hop whose server or client has tracing switched off ends the
suppression, as the source's README.md:216 says, and the model lets it. A request may be
delivered again, which is what a retry with the same headers does. Baggage, and random
identifiers that collide, are left out.

### MiddlewareChain: what a request meets on its way

The constructors append middlewares one by one; the first one is the outermost. The
layers of a client and of a server with any configuration form one path, from the
caller to the handler, and `installed` says which of them are there. Requests go
down it one layer at a time and come up with a reply, an error or a panic.

| definition or action | code |
|---|---|
| `ClientOrder`, `ClientLayers` | http.go:33-62, grpc.go:68-119 |
| `ServerOrder`, `ServerLayers` | http.go:89-140, grpc.go:183-242 |
| `Signing`, `Secret`, `Sign`, `Authenticate` | the two switches over the signing method and the JWT middlewares (grpc.go:83-95, 207-219); HTTP has none |
| `Limit`, `Release` | `midRateLimit` with BBR, or with a nil limiter when the name is another one (grpc.go:199-206, http.go:110-117) |
| `StartSpan`, `EndSpan`, `Validate`, `Recover`, `Observe` | the other middlewares |
| `App` | the middlewares the caller of a constructor passes |
| `Reply`, `Crash`, `Restart` | the end of a request in net/http, which recovers panics, and in grpc-go, which does not |
| `TimeOut`, `Withdraw`, `Discard` | a client whose time is up (http.go:64-66, grpc.go:53-62): its error goes up through the client's layers while the server still works, and what the server answers then is thrown away |

What a middleware does is kratos' code: recovery turns a panic into an error,
tracing ends its span in a deferred function, while the limiter's, the logging's and
the metrics' work after the handler is skipped by a panic. BBR sheds or admits by
load, so the model lets it choose. Left out: metadata (copies headers), CORS and
pprof (filters and routes beside the chain), the server's timeout, which only cancels the
context of its handler, streams, which do not pass the chain, and the exclusions of
tracing, which `TracePropagation` has.

`SlotsAreReturned` is weaker than one would wish, and says so: recovery is outside
the limiter, hence a request that panics below the limiter keeps its slot, and after
enough of them BBR sees a server that is always loaded.

### AppLifecycle: from `NewAppWithOptions` to the cleanup

One process between `initApp` and the end of `Run`: the goroutine of `Run` (`main`),
one goroutine for each server (`srv`), the goroutine that waits for the signal
(`stopper`), and outside a load balancer that routes requests for `LbDelay` ticks
after the signal. Time is counted only where somebody waits for it.

| action | code |
|---|---|
| `NewAppWithOptions` | bootstrap.go:52-97: a nil logger gets the default, a missing identity panics; `DelayOf` is `newAppOptions` (nil options are skipped, the last one wins) |
| `Launch`, `Notify`, `AppReturns` | kratos' `App.Run`: launch, then `signal.Notify`, then wait for every goroutine |
| `StartServer`, `ServerFails`, `StopServer`, `Drained` | kratos' servers; starting logs a line, and a logger that wraps nil (logger.go:54) panics in that goroutine |
| `Signal`, `Wake`, `SleepEnds`, `Tick` | the signal, `App.Stop` with the `BeforeStop` function (bootstrap.go:82-88), and its `time.Sleep`, which looks at nothing but the clock |
| `Cleanup` | the deferred cleanup and the end of `Run` (context.go:136-142) |
| `Join`, `Arrive`, `Finish` | readiness, routing and requests, external |
| `HandlerPanics` | a handler panics at a gRPC server without recovery (`app.bare`; grpc.go:184): the process dies, and the cleanup with it |

### GrpcKeepalive, GrpcTransport, GrpcPair: transport options

`GrpcKeepalive` translates `clientKeepaliveParameters`,
`serverKeepaliveEnforcementPolicy` and `positiveDuration`; `GrpcTransport` the rest of
what the gRPC constructors read (message sizes in int32 arithmetic, TLS files with
their defaults, `newTLSConfig`, and whether a constructor returns, panics or ends the
process). `GrpcPair` creates a client and a server from any two configurations and
lets one call pass between them: `CreateGrpcClient`, `CreateGrpcServer`, `Call`.
`Int32` may count in MB, because m * 2^20 modulo 2^32 depends on m modulo 2^12 only.
The handshake of crypto/tls is external: certificates are files with an issuer and a
name.

### KeepaliveRollout: two deployments that change

Clients and servers run with the section they started with (`running`), and will start
with the deployed one; a connection (`link`) counts strikes as grpc-go does, which is
external: 300 s without a policy, 7200 s for idle connections without permission, a ban
after the third early ping. `DeployClient` and `DeployServer` keep the rule of README.md:260
as a guard (`Compatible`): it is an obligation of the operator, not of the code.
`StartClient` and `StartServer` are a crash or a restart and run the constructor's
validation; an invalid section leaves the instance down. `Vanish` drops a connection
silently, `Notice` is the ping that is not answered.

### AppIdentity: one identity for everything that is published

A message is a pointer and its metadata a map, so `info` says which message each holder
has and `content` what each map holds. `NormalizeAppInfo`, `CloneAppInfo`,
`ResolveHost` and `ServiceName` translate config/app_info.go; `NewContext` and
`AppInfoFromContext` make the copies (context.go:36-42, 164-171). `Change` lets any holder
change what is his, and `Setenv` the environment, at any time. Names are sequences of
parts, joined by a hyphen.

### LogFiles: which records are left

`NewLogger` and `WithOptions` go from the section to the configuration of the zap
logger; `Log` sends a record through its cores in their order (zap.go:83-115) to standard
output and to two writers; `Ready`, `OpenNew`, `Written` and `RemoveOld` are
lumberjack, external, with the goroutine that removes backups beyond `maxBackups` and
those that were rotated more than `maxAge` days ago (zap.go:23-24, 35-36). Days are not
counted: `TimePasses` makes the records up to some file's first one too old (`aged`), and
`Outdated` are the backups rotated before such a record. `Crash` and `Restart` close the
writers and leave the files. A record has size one.

### Telemetry: tracer and metrics of one process

`InitTracer` is `NewTracerProvider` (tracer.go:39-84), `InitMetrics` what
`NewConfigFromProto`, `parseExporters`, `ValidateConfig` and `NewMetricReaders` make of
a section (options.go, exporter.go), as one step; how it proceeds inside is
`MetricsInit`. A panic of the bootstrap may be recovered (`Recover`), and what was
installed before goes on working. `Start`, `End` and `Export` are the spans of the SDK
with the queue of its batch processor, which is external: a span that finds it full is
lost, and a batch is delivered or lost, because the collector is down, refuses it or
answers too late. `Exit` is the end of the process, at which nobody shuts the provider
down. Samplers are in tenths.

### DataClients: what constructors make of their sections

A program calls the constructors of `data/` and `cache/` in some order (`Build`) until one
fails or all have returned (`Serve`). `NewEntClient`, `NewElasticsearchClient`,
`NewOpenSearchClient` and `NewRedisClient` give the ways a constructor may end for a
section: it returns a client or nil, an error, a panic, or `log.Fatalf`.

`LoadCACertData`, `FromSection` and `OpenSearchClient` are opensearch/client.go:41-113: the
optional fields that are there, the certificate authority of the TLS section, and on top of
both the options of the caller. A CA file that cannot be read, an empty path and an empty
PEM are errors; a file that is there and empty is none, and the client is then built
without the CA (74).

### Proof modules

`MetricsInitProofs`, `StartupProofs`, `MiddlewareChainProofs`, `TelemetryProofs` and
`AppIdentityProofs` extend the module they are named after; `ApplicationProofs` extends
`AppLifecycle` and `DataClients`, `GrpcProofs` `KeepaliveRollout` and `GrpcPair`, and
`ObservationProofs` `TracePropagation` and `LogFiles`. They hold the inductive
invariants and the theorems. So that two components fit into one module, the second of
each pair names its parts after itself: `DataInit`, `PairNext`, `LogSpec`.

Definitions commented "Faulty variant" are plausible bugs of the operation that
follows them. No specification uses them: substituted for that operation, each
makes the property it is paired with in `PROJECT.json` fail.

## Runs

Type invariants are listed where they are part of a property, and proved elsewhere.

| run | instance | shows |
|---|---|---|
| `metrics_init` | 2 goroutines, 3 calls, 7 exporter lists (437 744 states) | the safety of the initialisation and of captured servers; `PromiseKept`: it implements `OnceResult`, liveness included |
| `startup` | 2 Contexts, 1 key, 2 file versions, 2 Runs, 1 other goroutine (459 980 states) | the start-up's safety, and `RunIsDecided`: no call of `Run` waits for ever |
| `startup_rule` | 1 Context, 1 key, registration at any time | violation: see Findings |
| `trace_propagation` | 2 services, 7 configurations of each, 2 operations, 3 requests, 4 identifiers (410 459 states up to symmetry) | what is exported below an excluded operation, beside it, and in a trace as a whole |
| `middleware_chain` | HTTP and gRPC, 4 clients, 16 servers, 2 requests, timeouts (2 688 890 states up to symmetry) | what reaches a handler, what a panic or a timeout leaves behind, what log and metrics tell |
| `app_lifecycle` | 2 servers, each with or without recovery, 2 requests, 6 option lists, 3 loggers, `LbDelay = 2` (393 826 states) | who is refused at termination, that the cleanup is last, why a process that serves skips it, and that a signal or a failure ends it |
| `grpc_pair` | every pair of 153 client and 50 server sections in which one aspect varies (111 400 states) | sizes are those of the sections at both ends, peers are verified, no section falls back silently |
| `keepalive_rollout` | 2 clients, 2 servers, 4 sections each (160 270 states) | in the order of the README no ping is a strike; vanished connections are noticed |
| `app_identity` | the Context, main and one provider, 4 kinds of messages and environments (100 872 states) | the identity is complete, stable, private, and the only one published |
| `log_files` | 4 records, 2 starts, 9 sections (365 132 states) | the latest errors survive rotation, crashes and the removal of old files; surplus backups go |
| `telemetry` | 3 spans, a queue of 2, 7 Tracer and 7 Metrics sections (32 808 states) | a process that is up is observed; ended spans leave the queue |
| `data_clients` | 3 orders of constructors, 127 Data sections, 5 states of the CA file, 3 callers (106 056 states) | an OpenSearch client follows its caller, its section and its CA file, and the others are of their kinds |

Bounds, and why they are enough:

* `metrics_init`: `MaxCalls = 3` makes a call that runs the setup, one that waits for
  it, one made after a result is known. One goroutine sets up while the other calls, is
  refused, waits or creates a server. `MCConfigs`: Prometheus alone; with an OTLP
  exporter before or after it, so that the second reader can fail once the first one
  registered its collector; OTLP alone; the alias next to the exporter it excludes; an
  unknown type; the empty list.
* `startup`: `MaxRuns = 2` with two Contexts gives two Runs at the same time, or one
  after a recovered panic on the same or the other Context, or both Contexts in
  `flag.StringVar`. One key plus the Bootstrap message gives two scans with a reload
  before, between or after them; the theorems are about any number of keys.
* `trace_propagation`: three requests make a caller, an excluded operation and a
  service below it, and a second call of the same handler; four identifiers make a
  root, a suppressed context, and two spans below or beside it. The configurations
  exclude by prefix in a server, exactly (with white space around the name) in a
  client, by blank rules, or lack server tracing, client tracing, the endpoint or the
  provider. A service without endpoint between two others is what three requests allow.
* `middleware_chain`: two requests are enough for one to crash the process under the
  other, to panic while the other holds a slot, or to time out while the other goes on;
  a client may time out at any moment while the server has its request. A middleware acts on its own
  request only, so the instance varies together what does not interact: recovery,
  limiter, authentication (none, a known method, an unknown one) on their own, the
  rest all on or all off. Metrics sections with only a gauge install nothing.
* `app_lifecycle`: with two servers one fails while the other drains, with two requests
  one is in a handler while the other arrives or panics; delays are none, negative, shorter than
  and as long as the load balancer needs, and overridden by later options.
* `grpc_pair`: options do not interact before the wire, so one aspect varies at each end;
  the default, zero, a negative size, 4 MB and the largest one below 2048 MB.
* `keepalive_rollout`: two instances at each end give every mixture of old and new; the
  sections of the README, a faster client with a matching policy, none, invalid ones.
* `log_files`: files of one to three records and one or two backups, so that four
  records rotate a file past its backups, also across a restart, and some of them are too
  old when it happens; `max_age` is the default or seven days, which only matters as not
  being zero.
* `telemetry`: one span more than the queue holds; every exporter, the unknown ones
  included, every kind of sampler, lists that are empty, misspelt or contradictory.
* `data_clients`: every constructor with every kind of section, alone and after others; a
  CA file is missing, empty or one of three certificates; a caller has no options, a CA of
  its own or a field the section may have too.

`CHECK_DEADLOCK FALSE` stands where the system stops: a process that has exited or has
used up its Runs (`Startup`, `AppLifecycle`, `LogFiles`, `Telemetry`), a start-up that is
over (`DataClients`), a system whose requests have all been made (`TracePropagation`,
`MiddlewareChain`, `GrpcPair`). In the others something may always happen: a server
created, a section deployed, a variable of the environment changed.

## Fairness

* `MetricsInit`: weak fairness of `Step(c)`: a goroutine inside `InitWithConfig` is
  runnable except while it waits in `Do`, and the Go scheduler runs runnable
  goroutines; nothing inside the setup blocks for good (the exporters connect
  lazily). Nobody is obliged to call or to create a server.
* `Startup`: weak fairness of the pipeline of each Context, of the reaction to a
  panic, and of the end of a metrics setup somebody asked for. `Run`, `Register`,
  `Edit`, `Reload`, the application's end and the other goroutines have none. `initApp` is
  assumed to return.
* `OnceResult`: the outcome is settled when asked for, and every waiting caller is
  answered. `PromiseKept` shows that the detailed fairness implies it.
* `AppLifecycle`: goroutines that can run do run, time passes, handlers end. Nobody is
  obliged to send a signal or a request, and no server to fail.
* `KeepaliveRollout`: grpc-go's keepalive timer runs for a connection without streams;
  nobody is obliged to have streams, to deploy or to restart.
* `LogFiles`: the goroutine lumberjack starts for each writer runs.
* `Telemetry`: the batch processor's goroutine runs, and a panic ends in a recovery or
  in the process's end.
* The others have no liveness: nobody is obliged to call, and handlers may take for ever.

## Proofs

Assumed of the constants: they have their types, the marker values are distinct, and a
message is never the marker for none (the `ASSUME` of each module, which TLC evaluates
for the instances). No set of actors, sections or names is assumed to be finite or
non-empty. Every `Inv` below is type correctness and the parts listed.

All safety invariants the runs check are stated by a theorem, and the action properties
with them. One theorem has a hypothesis beside the `ASSUME`s: `SizesAreHonouredTheorem`
is about sizes below 2048 MB, because the code's int32 product wraps there (see
Findings); `LimitIsConfigured` says that below that bound, and only there, the limit in
force is the configured one.

**MetricsInitProofs.**
* `OneSetup`: at most one goroutine is inside the closure, and where the Once stands
  while it is, while somebody returns, and once somebody has an answer;
* `SetupSoFar`: what the package variables hold at each statement of the closure;
  `OnlyCompleteSetupServes` is not inductive without it, because `initialized` is
  derived from an error computed several statements earlier;
* `Observed`: answers and captured servers agree with the settled result;
* `Validated`: the list of every goroutine past `ValidateConfig`, and of the
  provider, is a valid one;
* `Counted`, a second invariant on top of the first: the registry holds one collector
  for each Prometheus entry the only setup has passed, counted one reader at a time
  (`OneMoreEntry`). It gives `NoForeignCollectors`.

From the others follow `SameAnswer`, `SuccessIsComplete`, `OnlyCompleteSetupServes`,
`SyncedServer`, and, which no run repeats, `TypeOK`, `ExclusiveOTLP`, the action property
`Frozen` (what is settled is not touched again) and `PromiseSafety`: every initial
state and every step of `MetricsInit` is one of `OnceResult` or a stutter. With
`SomebodySetsUp` it gives `NobodyWaitsInVain`: a goroutine that waits in `Do` waits for
one that is inside the closure, and the closure has statements left.

**StartupProofs.**
* `OnePasses`: whoever is past the insert has left the flag there, and two Contexts are past
  the look-up only if they met in it. The flag is the only exclusion the code has, and it
  is none between goroutines that arrive together;
* `ScanProgress`: targets still to scan are empty and larger than all scanned
  ones, none of which is newer than the reader, which is not newer than the file;
* `MetricsSettled`: beyond the metrics step the outcome is success;
* `EveryAppIsCleanedUp`, which is inductive by itself.

From it follow `TypeOK`, `OneBootstrapPerProcess`, `PublishedIsComplete`,
`ScansNeverGoBack`, `EveryAppIsCleanedUp`, the action properties
`PublishedConfigIsFinal` and `PublishedKeysAreFinal`, and, with `KeysTaken` and the
assumption `~RegisterWhileRunning`, `AppFindsFilledTargets`. `MetricsPromise` says the
same as `PromiseSafety` of this module's coarser use of the metrics: both detailed
specifications implement `OnceResult`. `AskersWait`, a second invariant, gives
`RunIsNeverStuck`: while targets are left there is one to scan next, and who waits for the
metrics is one of those they will answer. The least target exists although the set need
not be finite (`LeastOf`, by the well-foundedness of the natural numbers).

**ObservationProofs, TracePropagation.**
* `Sound`, of every span context held, sent or recorded: if sampled it has a span that
  is sampled too, exported by its service or kept for want of an endpoint, or belongs to
  an outside caller, if silent it is a valid parent
  that is not sampled, and if its trace began with a suppression it is silent;
* `Agrees`: the contexts of one trace have the same sampled flag.

`SilentSubtree` alone is not inductive: a span is silent because of the context it
starts from, so the invariant speaks of the contexts in handlers and in requests
under way. Every action adds one context, which is fresh (`FreshSound`), empty
(`NoSpanSound`) or derived from a sound one (`TracedSound`); `AddsInv` does the rest.
From it follow all invariants of `trace_propagation` and `TypeOK`. `BlankRulesAreInert`
needs no property of `TrimSpace` but that it empties blank text.

**ObservationProofs, LogFiles.** Which errors are left after any number of records,
rotations, removals of backups, crashes and restarts. `LatestErrorsAreKept` speaks of
numbers of records and needs, of the disk:
* `DiskOK`: every file and record that is referred to exists; `OnlyEnabledWrite`: only
  writers of this configuration are open or have backups to remove;
* `WritersFollow`: a writer's file has its name, and its `size` is the length of that
  file; `NothingShared`: the two writers never had a file in common, which is where
  `Apart` (two different names) is needed;
* `BackupsAreFull`: from any backup to the current file there are at least as many
  records as full files hold. A file found at restart may be one record short, which is
  why `BackupSize` is one less than the configured size;
* `LatestRemain`: in the error file and its backups are errors, from any backup on the
  latest ones, and if one is missing that is not too old, what is left fills `maxBackups`
  files and one record more.

`WrittenIs` reduces `Ready`, `OpenNew` and `Written` to two cases, a record at the end of
the open file (`Extended`) or in a new one (`Rotated`), and `RemovedIs` does the same for
`RemoveOld`; what these do to the set of records from a backup on (`ExtendedRecords`,
`RotatedRecords`, `RemovedRecords`) carries all four parts. `ErrorsAreKept` follows,
for any section (`ConfigType`: what `WithOptions` makes of it is in its ranges).
`RemovalIsPending` is an invariant of its own: backups beyond `maxBackups` of an open
file are known to a writer of that file, not always the one that made them, when both
write the same file. It gives `SurplusIsPending`.

**MiddlewareChainProofs.** The properties speak of requests that have reached the
handler or come back; the invariant says what a request brings along at every layer:
* `Chosen`: the installed layers are those of the configurations; `Sturdy`: with
  recovery the process is up;
* of each request `Passed` (what it has passed on its way down), `Served`, `Returning`
  (where its result comes from, and how far a panic may have come), `Counted` (its slot),
  `Traced` (its spans, also when its caller has gone back without waiting) and
  `Told` (what was observed, or still has to be).

Every action moves one request by one installed layer: `Down`, `Turn` and `Up` describe
these moves once, for all middlewares, on the positions `PathIs` and `PositionIs`
compute. All six properties of the run follow.

**ApplicationProofs, AppLifecycle.**
* `Ordered`: how `main`, the stopper, the signal and the cancellation go together;
* `DelayCovers`: with a delay as long as the load balancer needs, the sleep lasts at
  least as long as the routing, and after it nothing is routed any more. Both count
  down in `Tick`; `NothingIsRefused` is not inductive without the comparison;
* `ServersFollow` and `RequestsFollow`: the state of servers and requests at each stage;
* `DeathIsKnown`: what a process that skips its cleanup died of. `LateDeathsAreHandlers`
  follows with `ServersFollow`: nothing is routed to servers whose logger wraps nil.

**ApplicationProofs, DataClients.** `OpenSearchIsExplained`: the client of OpenSearch is
the one `OpenSearchClient` makes of the section, the caller's options and the files, and
its section had a certificate authority to read if it has TLS at all. With type correctness
it is inductive, and what it says of each option is `OpenSearchFollowsItsSection`.

**GrpcProofs, KeepaliveRollout.** `AllCompatible`: whatever an instance runs with or would start
with suits whatever an instance at the other end does. The rule of the README looks at
one change; this is what it keeps true in between, and `LinksAreOfTheLiving` that
both ends of a connection run. Then no ping is early (`PingsAreWelcome`).

**GrpcProofs, GrpcPair.** `PairInv`: client, server and call are what the two
configurations and the two sizes determine, whoever is constructed first. `PairIsSound`
then is a matter of what the constructors make of a section, for any certificates,
names and durations: `PairKeepalive` (no silent fallback) and `PairPeers` (a handshake
succeeds between ends that trust each other only).

**TelemetryProofs.** `TracerIs` and `ReadersFollow`: the provider and the readers are those of
the sections, and the tracer's come first; `Recorded`: only a provider records, and the
queue is finite and within its bound, also for infinitely many spans. `ConfigIs` and
`ReadersAre` say what `NewConfigFromProto` makes of any section, `ParsedIsKnown` that no
list of names is left without exporter.

**AppIdentityProofs.** `Published`: the Context's message is `Complete`, obeys what main gave,
and everything told so far is `TheIdentity` taken from it. `NormalIsComplete` and
`CompleteIsNormal` make normalisation idempotent, whatever the environment has become;
`ContextIsPrivate` follows because no other holder's map is the Context's.

Model-checked only: the liveness properties (`RunIsDecided`, `Terminates`,
`LostLinksAreNoticed`, `DiskIsReclaimed`, `EndedSpansLeave`, the fairness half of
`PromiseKept`), which are out of the prover's reach. What three of them rest on in every
state is proved: `RunIsNeverStuck` for `RunIsDecided`, `NobodyWaitsInVain` for
`PromiseKept`, `SurplusIsPending` for `DiskIsReclaimed`. That what is pending then happens
is fairness, and TLC's.

## Findings

`startup_rule`: README.md:109 and context.go:45 say that registration is possible
before `Run` only and panics otherwise. The guard (context.go:56) tests `c.config`,
which `Run` assigns when the whole bootstrap is over (130), after the targets were
taken at its beginning. A target registered in between is accepted, never scanned,
and `GetCustomConfig` returns it empty and without error; after a `Run` that
panicked during the bootstrap, registration is open again. The theorem about
`PublishedKeysAreFinal` is what the guard does ensure, `AppFindsFilledTargets` what a
program gets that keeps the rule by itself.

Further differences between code and comments, met while modelling. No run is spent
on them, the modules follow the code:

* Message sizes are multiplied in int32 (grpc.go:65, 255): from 2048 MB on the limit is
  negative, zero or a remainder, while README.md:235 gives the unit and no bound.
  `SizesAreHonoured` holds below, and `MsgSize` has the wrap.
* Switches and numbers of proto3 have no presence: the zap switches are commented
  「默认开启」 (logger.go:32-41), yet a section that omits them switches them off; the same
  holds of the metrics switches documented as true by default
  (kratos_conf_metrics.proto:17,23,27 against options.go:67,77,80), and of the sampler with
  its default of 1.0 (kratos_conf_tracer.proto:11 against tracer.go:57).
* An `otlp-http` exporter without an endpoint gets the port of gRPC (options.go:37), not
  4318 (exporter.go:82).
* tracer.go:20 names zipkin as supported; the name takes the default branch, standard
  output.
* `insecure_skip_verify` (kratos_conf_tls.proto:24) is read by no code.
* An empty CA path and an empty PEM are errors (opensearch/client.go:98, 107), an empty CA
  file is none: the client is built without a CA (74, 101).

## Not modelled

* The text of messages, logs and errors, the banner, colours and encodings.
* What third-party libraries do, beyond the outcomes the code distinguishes; where their
  behaviour decides a property (kratos' App, grpc-go's strikes, lumberjack's rotation, the
  SDK's batch processor) it is modelled and marked external.
* Fields a constructor only passes on: addresses, credentials, retry codes, CORS, pprof,
  metadata, and the timeouts of servers and of the data clients. The timeouts of the RPC
  clients are modelled by their effect, that a client may go back at any moment.
* What programs do with the clients of `data/` and `cache/`, nil clients included.
* The generated protobuf code beyond its data: a message is a record of the module that
  uses it, with the presence of its fields. Its descriptors, reflection and getters have
  no behaviour of their own, and they are the largest part of the implementation's lines. The
  messages for RabbitMQ, notifications and HTTP caches are read by no code here.
* The build and release scripts.

## What is left

1. `customConfigTargets` and `Register` split into their accesses to the map.
2. Exclusions of tracing inside the chains of `MiddlewareChain`.
