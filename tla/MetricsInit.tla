---------------------------- MODULE MetricsInit ----------------------------
(***************************************************************************)
(* The process-wide metrics initialisation of package metrics, called by   *)
(* any number of goroutines, and the HTTP servers that capture its result. *)
(*                                                                         *)
(* One action per statement of InitWithConfig and setupMetricProvider that *)
(* changes package state: the code holds no lock while it assigns the      *)
(* package variables, and PromHandler and the server constructors read     *)
(* them without one.                                                       *)
(***************************************************************************)
EXTENDS Naturals, Sequences, FiniteSets

CONSTANTS
    Caller,     \* goroutines
    Configs,    \* the exporter lists (Config.Exporters) the calls may carry
    MaxCalls,   \* bound on the calls of InitWithConfig, all callers together
    Unset,      \* nothing settled, no answer
    Refused,    \* the "invalid metrics config" error
    NoProvider  \* otelProvider before setup

\* The exporter types newMetricReader knows, and one it does not.
ExporterType == {"prometheus", "otlp", "otlp-grpc", "otlp-http"}
AnyExporter == ExporterType \cup {"unsupported"}

\* The values of initErr: no error, or the step of setupMetricProvider that failed.
Result == {"nil", "readers", "resource", "instruments"}

\* setupBusinessMetrics assigns four package variables, in this order: server
\* requests, server seconds, client requests, client seconds.
ServerRequests == 1
ServerSeconds == 2
ClientSeconds == 4

ASSUME MetricsAssumption ==
    /\ Configs \subseteq Seq(AnyExporter)
    /\ MaxCalls \in Nat
    /\ Unset \notin Result
    /\ Refused \notin Result
    /\ Unset # Refused
    /\ NoProvider \notin Seq(AnyExporter)

VARIABLES
    pc,           \* what each goroutine is about to do
    cfg,          \* the exporters of the call each goroutine is in
    ret,          \* what the last call of each goroutine returned
    calls,        \* number of calls made, bounded by MaxCalls
    once,         \* state of initOnce: "new", "running" or "done"
    made,         \* number of readers the running setup has created
    setupErr,     \* the value setupMetricProvider is about to return
    initErr, initialized, otelProvider, promHTTP, \* package variables
    instruments,  \* how many of the four instruments are no longer nil
    collectors,   \* Prometheus readers in the default registry
    synced,       \* goroutines that returned from initOnce.Do
    endpoint      \* what the last server each goroutine created has captured

callVars == <<pc, cfg, ret, calls, synced>>
setupVars == <<once, made, setupErr, initErr, initialized, otelProvider,
               promHTTP, instruments, collectors>>
metricsVars == <<callVars, setupVars, endpoint>>

PC == {"idle", "enter", "readers", "resource", "provider", "instruments",
       "handler", "publishErr", "publishFlag", "release", "return"}

\* The statements only the goroutine inside initOnce.Do executes.
SetupPC == PC \ {"idle", "enter", "return"}

\* A server's view of metrics: the two instruments its middleware records to
\* and the handler mounted at /metrics; inSync tells whether its creator had
\* returned from InitWithConfig before.
Endpoint == [requests : BOOLEAN, seconds : BOOLEAN,
             handler : {"none", "notFound", "live", "broken"}, inSync : BOOLEAN]

NoServer == [requests |-> FALSE, seconds |-> FALSE, handler |-> "none", inSync |-> FALSE]

TypeOK ==
    /\ pc \in [Caller -> PC]
    /\ cfg \in [Caller -> Seq(AnyExporter)]
    /\ ret \in [Caller -> Result \cup {Unset, Refused}]
    /\ calls \in 0..MaxCalls
    /\ once \in {"new", "running", "done"}
    /\ made \in Nat
    /\ setupErr \in Result
    /\ initErr \in Result
    /\ initialized \in BOOLEAN
    /\ otelProvider \in Seq(AnyExporter) \cup {NoProvider}
    /\ promHTTP \in BOOLEAN
    /\ instruments \in 0..ClientSeconds
    /\ collectors \in Nat
    /\ synced \subseteq Caller
    /\ endpoint \in [Caller -> Endpoint]

Init ==
    /\ pc = [c \in Caller |-> "idle"]
    /\ cfg = [c \in Caller |-> << >>]
    /\ ret = [c \in Caller |-> Unset]
    /\ calls = 0
    /\ once = "new"
    /\ made = 0
    /\ setupErr = "nil"
    /\ initErr = "nil"
    /\ initialized = FALSE
    /\ otelProvider = NoProvider
    /\ promHTTP = FALSE
    /\ instruments = 0
    /\ collectors = 0
    /\ synced = {}
    /\ endpoint = [c \in Caller |-> NoServer]

-----------------------------------------------------------------------------
Has(e, type) == \E i \in DOMAIN e : e[i] = type

\* Faulty variant: only the first entry is looked at.
HasPrometheusExporterFirst(e) == e # << >> /\ e[1] = "prometheus"
\* A list with a prometheus entry makes the package serve /metrics.
HasPrometheusExporter(e) == Has(e, "prometheus")

\* The gRPC and the HTTP OTLP exporter exclude each other; "otlp" is gRPC.
ValidateConfig(e) == ~ (Has(e, "otlp-http") /\ (Has(e, "otlp-grpc") \/ Has(e, "otlp")))

At(c, label) == pc[c] = label
Goto(c, label) == pc' = [pc EXCEPT ![c] = label]

-----------------------------------------------------------------------------
(* InitWithConfig, up to initOnce.Do *)

CallInvalid(c, e) ==
    /\ At(c, "idle")
    /\ calls < MaxCalls
    /\ ~ ValidateConfig(e)
    /\ calls' = calls + 1
    /\ ret' = [ret EXCEPT ![c] = Refused]
    /\ UNCHANGED <<pc, cfg, synced, setupVars, endpoint>>

Call(c, e) ==
    /\ At(c, "idle")
    /\ calls < MaxCalls
    /\ ValidateConfig(e)
    /\ calls' = calls + 1
    /\ cfg' = [cfg EXCEPT ![c] = e]
    /\ ret' = [ret EXCEPT ![c] = Unset]
    /\ Goto(c, "enter")
    /\ UNCHANGED <<synced, setupVars, endpoint>>

\* Faulty variant: a failed attempt is retried by the next call.
EnterRetryOnError(c) ==
    /\ At(c, "enter")
    /\ once = "new" \/ (once = "done" /\ initErr # "nil")
    /\ once' = "running"
    /\ made' = 0
    /\ Goto(c, "readers")
    /\ UNCHANGED <<cfg, ret, calls, synced, setupErr, initErr, initialized,
                   otelProvider, promHTTP, instruments, collectors, endpoint>>

\* The first goroutine to take the Once runs the closure ...
Enter(c) ==
    /\ At(c, "enter")
    /\ once = "new"
    /\ once' = "running"
    /\ made' = 0
    /\ Goto(c, "readers")
    /\ UNCHANGED <<cfg, ret, calls, synced, setupErr, initErr, initialized,
                   otelProvider, promHTTP, instruments, collectors, endpoint>>

\* Faulty variant: a goroutine that finds the Once taken does not wait for it.
PassWithoutWaiting(c) ==
    /\ At(c, "enter")
    /\ once \in {"running", "done"}
    /\ Goto(c, "return")
    /\ UNCHANGED <<cfg, ret, calls, synced, setupVars, endpoint>>

\* ... and every other one waits inside Do until the closure has returned.
Pass(c) ==
    /\ At(c, "enter")
    /\ once = "done"
    /\ Goto(c, "return")
    /\ UNCHANGED <<cfg, ret, calls, synced, setupVars, endpoint>>

-----------------------------------------------------------------------------
(* setupMetricProvider, run by the goroutine that entered the Once *)

Fail(c, step) ==
    /\ setupErr' = step
    /\ Goto(c, "publishErr")

\* NewMetricReaders creates one reader per entry, in order; a Prometheus
\* reader registers a collector with the default registry.
CreateReader(c) ==
    /\ At(c, "readers")
    /\ made < Len(cfg[c])
    /\ LET e == cfg[c][made + 1] IN
        /\ e \in ExporterType
        /\ collectors' = IF e = "prometheus" THEN collectors + 1 ELSE collectors
    /\ made' = made + 1
    /\ UNCHANGED <<callVars, once, setupErr, initErr, initialized,
                   otelProvider, promHTTP, instruments, endpoint>>

\* No exporter at all, an unsupported one, or an exporter that cannot be
\* built: the readers already created are dropped, their registration stays.
ReadersFail(c) ==
    /\ At(c, "readers")
    /\ cfg[c] = << >> \/ made < Len(cfg[c])
    /\ Fail(c, "readers")
    /\ UNCHANGED <<cfg, ret, calls, synced, once, made, initErr, initialized,
                   otelProvider, promHTTP, instruments, collectors, endpoint>>

ReadersDone(c) ==
    /\ At(c, "readers")
    /\ cfg[c] # << >>
    /\ made = Len(cfg[c])
    /\ Goto(c, "resource")
    /\ UNCHANGED <<cfg, ret, calls, synced, setupVars, endpoint>>

\* resource.New, which fails on malformed OTEL_RESOURCE_ATTRIBUTES.
CreateResource(c) ==
    /\ At(c, "resource")
    /\ \/ /\ Goto(c, "provider")
          /\ UNCHANGED setupErr
       \/ Fail(c, "resource")
    /\ UNCHANGED <<cfg, ret, calls, synced, once, made, initErr, initialized,
                   otelProvider, promHTTP, instruments, collectors, endpoint>>

\* The provider becomes global before the rest of the setup can fail.
InstallProvider(c) ==
    /\ At(c, "provider")
    /\ otelProvider' = cfg[c]
    /\ Goto(c, "instruments")
    /\ UNCHANGED <<cfg, ret, calls, synced, once, made, setupErr, initErr,
                   initialized, promHTTP, instruments, collectors, endpoint>>

\* setupBusinessMetrics assigns the four instruments one after the other; an
\* instrument whose creation fails is assigned whatever the meter returned.
CreateInstrument(c) ==
    /\ At(c, "instruments")
    /\ instruments < ClientSeconds
    /\ \/ /\ instruments' = instruments + 1
          /\ UNCHANGED <<pc, setupErr>>
       \/ /\ instruments' \in {instruments, instruments + 1}
          /\ Fail(c, "instruments")
    /\ UNCHANGED <<cfg, ret, calls, synced, once, made, initErr, initialized,
                   otelProvider, promHTTP, collectors, endpoint>>

InstrumentsDone(c) ==
    /\ At(c, "instruments")
    /\ instruments = ClientSeconds
    /\ Goto(c, "handler")
    /\ UNCHANGED <<cfg, ret, calls, synced, setupVars, endpoint>>

\* The last step of setupMetricProvider, which then returns nil.
InstallHandler(c) ==
    /\ At(c, "handler")
    /\ promHTTP' = (promHTTP \/ HasPrometheusExporter(cfg[c]))
    /\ setupErr' = "nil"
    /\ Goto(c, "publishErr")
    /\ UNCHANGED <<cfg, ret, calls, synced, once, made, initErr, initialized,
                   otelProvider, instruments, collectors, endpoint>>

-----------------------------------------------------------------------------
(* The rest of the closure, the end of Do, and the return of initErr *)

PublishErr(c) ==
    /\ At(c, "publishErr")
    /\ initErr' = setupErr
    /\ Goto(c, "publishFlag")
    /\ UNCHANGED <<cfg, ret, calls, synced, once, made, setupErr, initialized,
                   otelProvider, promHTTP, instruments, collectors, endpoint>>

\* Faulty variant: initialized is set whatever setupMetricProvider returned.
PublishFlagAlways(c) ==
    /\ At(c, "publishFlag")
    /\ initialized' = TRUE
    /\ Goto(c, "release")
    /\ UNCHANGED <<cfg, ret, calls, synced, once, made, setupErr, initErr,
                   otelProvider, promHTTP, instruments, collectors, endpoint>>

PublishFlag(c) ==
    /\ At(c, "publishFlag")
    /\ initialized' = (initErr = "nil")
    /\ Goto(c, "release")
    /\ UNCHANGED <<cfg, ret, calls, synced, once, made, setupErr, initErr,
                   otelProvider, promHTTP, instruments, collectors, endpoint>>

\* Faulty variant: the Once is released on the success path only.
ReleaseOnSuccess(c) ==
    /\ At(c, "release")
    /\ once' = IF initialized THEN "done" ELSE "running"
    /\ Goto(c, "return")
    /\ UNCHANGED <<cfg, ret, calls, synced, made, setupErr, initErr, initialized,
                   otelProvider, promHTTP, instruments, collectors, endpoint>>

\* The closure has returned: Do marks the Once done and lets the others pass.
Release(c) ==
    /\ At(c, "release")
    /\ once' = "done"
    /\ Goto(c, "return")
    /\ UNCHANGED <<cfg, ret, calls, synced, made, setupErr, initErr, initialized,
                   otelProvider, promHTTP, instruments, collectors, endpoint>>

\* Faulty variant: only the goroutine whose list the provider has gets the error.
ReturnOwnError(c) ==
    /\ At(c, "return")
    /\ ret' = [ret EXCEPT ![c] = IF cfg[c] = otelProvider THEN initErr ELSE "nil"]
    /\ synced' = synced \cup {c}
    /\ Goto(c, "idle")
    /\ UNCHANGED <<cfg, calls, setupVars, endpoint>>

Return(c) ==
    /\ At(c, "return")
    /\ ret' = [ret EXCEPT ![c] = initErr]
    /\ synced' = synced \cup {c}
    /\ Goto(c, "idle")
    /\ UNCHANGED <<cfg, calls, setupVars, endpoint>>

-----------------------------------------------------------------------------
(* The servers that capture what Init set up *)

\* What a goroutine may see when it asks whether an instrument is non-nil.  One
\* that returned from Do sees the current value; for any other one the read
\* races with the setup and may still yield nil.
Seen(c, assigned) ==
    IF ~ assigned THEN {FALSE} ELSE IF c \in synced THEN {TRUE} ELSE BOOLEAN

\* PromHandler reads initialized once and promHTTP twice.  A racing read may
\* see the flag but not the handler, or a handler it returns half-written.
PromHandler(c) ==
    IF c \in synced
    THEN {IF initialized /\ promHTTP THEN "live" ELSE "notFound"}
    ELSE {"notFound"} \cup (IF initialized /\ promHTTP THEN {"live", "broken"} ELSE {})

\* CreateHTTPServer with server metrics configured: the middleware keeps the
\* instruments, and the router the handler, that exist at this moment.
CreateHTTPServer(c) ==
    /\ At(c, "idle")
    /\ \E requests \in Seen(c, instruments >= ServerRequests),
          seconds \in Seen(c, instruments >= ServerSeconds),
          handler \in PromHandler(c) :
        endpoint' = [endpoint EXCEPT ![c] =
            [requests |-> requests, seconds |-> seconds, handler |-> handler,
             inSync |-> c \in synced]]
    /\ UNCHANGED <<callVars, setupVars>>

-----------------------------------------------------------------------------
SetupStep(c) ==
    \/ CreateReader(c) \/ ReadersFail(c) \/ ReadersDone(c)
    \/ CreateResource(c)
    \/ InstallProvider(c)
    \/ CreateInstrument(c) \/ InstrumentsDone(c)
    \/ InstallHandler(c)
    \/ PublishErr(c) \/ PublishFlag(c) \/ Release(c)

Step(c) == Enter(c) \/ Pass(c) \/ SetupStep(c) \/ Return(c)

Next ==
    \E c \in Caller :
        \/ \E e \in Configs : Call(c, e) \/ CallInvalid(c, e)
        \/ Step(c)
        \/ CreateHTTPServer(c)

\* A goroutine inside InitWithConfig keeps running: no step of the setup
\* blocks, and Do wakes the goroutines that wait for it.
Fairness == \A c \in Caller : WF_metricsVars(Step(c))

SafetySpec == Init /\ [][Next]_metricsVars

Spec == SafetySpec /\ Fairness

-----------------------------------------------------------------------------
(* Properties *)

\* A setup that kept its promise: everything is in place, and the handler
\* exists exactly if the exporters that won include Prometheus.
Complete ==
    /\ otelProvider # NoProvider
    /\ instruments = ClientSeconds
    /\ promHTTP <=> Has(otelProvider, "prometheus")

\* All calls of InitWithConfig that passed validation return the same result,
\* whatever their own configuration (initErr, metrics.go:60-64).
SameAnswer ==
    \A c, d \in Caller :
        (ret[c] \in Result /\ ret[d] \in Result) => ret[c] = ret[d]

\* A caller that was told "no error" finds the whole setup in place, even when
\* another goroutine did the work (metrics.go:60-64).
SuccessIsComplete ==
    \A c \in Caller : ret[c] = "nil" => (initialized /\ Complete)

\* PromHandler is enabled by initialized only: no setup that failed half-way,
\* with its provider already global, ever serves metrics (metrics.go:62,133-138).
OnlyCompleteSetupServes ==
    /\ initialized => Complete
    /\ \A c \in Caller : endpoint[c].handler = "live" => Complete

\* A server created after InitWithConfig returned has live instruments and a
\* live /metrics handler if that call succeeded with Prometheus, and answers
\* 404 otherwise; it never holds a half-written handler.
SyncedServer ==
    \A c \in Caller : endpoint[c].inSync =>
        /\ endpoint[c].handler =
              IF initErr = "nil" /\ Has(otelProvider, "prometheus") THEN "live" ELSE "notFound"
        /\ initErr = "nil" => endpoint[c].requests /\ endpoint[c].seconds

\* No provider ever holds both OTLP exporters, the alias "otlp" included
\* (ValidateConfig, options.go:154-173; README "otlp-grpc 和 otlp-http 不能同时启用").
ExclusiveOTLP ==
    otelProvider # NoProvider =>
        ~ \E i, j \in DOMAIN otelProvider :
            otelProvider[i] = "otlp-http" /\ otelProvider[j] \in {"otlp", "otlp-grpc"}

\* Every collector in the default Prometheus registry belongs to the provider
\* that serves: no abandoned attempt left one behind that a scrape would meet.
NoForeignCollectors ==
    initialized =>
        collectors = Cardinality({i \in DOMAIN otelProvider : otelProvider[i] = "prometheus"})

\* Once a caller knows the result, nothing the package set up changes again:
\* a failure is never retried and a provider never replaced.
Frozen == [][(\E c \in Caller : ret[c] \in Result) => UNCHANGED setupVars]_metricsVars

\* The initialisation keeps the promise of OnceResult.
Promise == INSTANCE OnceResult WITH
    outcome <- IF once = "done" THEN initErr ELSE Unset,
    asking <- {c \in Caller : ~ At(c, "idle")},
    got <- ret

PromiseKept == Promise!OnceSpec
=============================================================================
