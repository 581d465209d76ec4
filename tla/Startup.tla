------------------------------ MODULE Startup ------------------------------
(***************************************************************************)
(* One process that starts its application through bootstrap.Context:      *)
(* registration of custom configurations, the pipeline Context.Run and     *)
(* DoBootstrap execute (flags, config load, one scan per target, logger,   *)
(* tracer, metrics, publication, initApp, app.Run, cleanup), and what runs *)
(* next to it: the config provider nobody closes keeps reloading the file, *)
(* other goroutines register targets and initialise metrics.               *)
(*                                                                         *)
(* A panic unwinds the goroutine that runs Run; its caller recovers it or  *)
(* the process dies.                                                       *)
(***************************************************************************)
EXTENDS Naturals

CONSTANTS
    Ctx,                  \* the Contexts of the process
    NumKeys,              \* keys are numbered in sort.Strings order
    MaxVersion,           \* bound on the versions of the configuration file
    MaxRuns,              \* bound on the calls of Run, all Contexts together
    Other,                \* goroutines that call metrics.Init on their own
    Unset, Refused,       \* answers of the metrics initialisation, see OnceResult
    RegisterWhileRunning  \* whether goroutines register after Run has begun

Key == 1..NumKeys

\* What a scan fills: the Bootstrap message, always first, or a registered target.
BootstrapTarget == 0
Target == Key \cup {BootstrapTarget}

MetricsResult == {"nil", "failed"}

ASSUME StartupAssumption ==
    /\ NumKeys \in Nat
    /\ MaxVersion \in Nat \ {0}
    /\ MaxRuns \in Nat
    /\ Ctx \cap Other = {}
    /\ Unset \notin MetricsResult
    /\ Refused \notin MetricsResult
    /\ Unset # Refused
    /\ RegisterWhileRunning \in BOOLEAN

VARIABLES
    pc,          \* what the goroutine that runs each Context is about to do
    runs,        \* number of calls of Run, bounded by MaxRuns
    began,       \* the Contexts Run has been called on
    custom,      \* the keys in each Context's customConfigs
    toScan,      \* the targets LoadBootstrapConfig has still to scan
    scanned,     \* the file version each target was filled from, 0 if it was not
    config,      \* the Contexts whose config (and logger) field is set
    failed,      \* whether Run is unwinding with a panic
    owed,        \* the Contexts with a deferred cleanup
    built,       \* how many apps initApp has returned with a cleanup
    cleanups,    \* how many times a cleanup of each Context has run
    flagDefined, \* flag.CommandLine has the flag "conf"
    met,         \* the pairs of Contexts that were in flag.StringVar at the same time
    alive,       \* the process has not exited
    source,      \* version of the configuration file
    reader,      \* version the reader of each Context's provider holds, 0 before Load
    providers,   \* config providers created for each Context, none of which is ever closed
    outcome, asking, got  \* the metrics package, see OnceResult

runVars == <<pc, runs, began, failed, owed, built, cleanups>>
configVars == <<toScan, scanned, config, flagDefined, met, providers>>
envVars == <<alive, source, reader>>
metricsVars == <<outcome, asking, got>>
vars == <<runVars, custom, configVars, envVars, metricsVars>>

Metrics == INSTANCE OnceResult WITH Caller <- Ctx \cup Other, Result <- MetricsResult

PC == {"idle", "flags", "define", "load", "scan", "tracer", "metrics", "answer",
       "publish", "initApp", "app", "unwind", "panicking", "returned", "panicked"}

TypeOK ==
    /\ pc \in [Ctx -> PC]
    /\ runs \in 0..MaxRuns
    /\ began \subseteq Ctx
    /\ custom \in [Ctx -> SUBSET Key]
    /\ toScan \in [Ctx -> SUBSET Target]
    /\ scanned \in [Ctx -> [Target -> 0..MaxVersion]]
    /\ config \subseteq Ctx
    /\ failed \in [Ctx -> BOOLEAN]
    /\ owed \subseteq Ctx
    /\ built \in [Ctx -> Nat]
    /\ cleanups \in [Ctx -> Nat]
    /\ flagDefined \in BOOLEAN
    /\ met \subseteq SUBSET Ctx
    /\ alive \in BOOLEAN
    /\ source \in 1..MaxVersion
    /\ reader \in [Ctx -> 0..MaxVersion]
    /\ providers \in [Ctx -> Nat]
    /\ Metrics!OnceTypeOK

Init ==
    /\ pc = [c \in Ctx |-> "idle"]
    /\ runs = 0
    /\ began = {}
    /\ custom = [c \in Ctx |-> {}]
    /\ toScan = [c \in Ctx |-> {}]
    /\ scanned = [c \in Ctx |-> [t \in Target |-> 0]]
    /\ config = {}
    /\ failed = [c \in Ctx |-> FALSE]
    /\ owed = {}
    /\ built = [c \in Ctx |-> 0]
    /\ cleanups = [c \in Ctx |-> 0]
    /\ flagDefined = FALSE
    /\ met = {}
    /\ alive = TRUE
    /\ source = 1
    /\ reader = [c \in Ctx |-> 0]
    /\ providers = [c \in Ctx |-> 0]
    /\ Metrics!OnceInit

-----------------------------------------------------------------------------
At(c, label) == alive /\ pc[c] = label
Goto(c, label) == pc' = [pc EXCEPT ![c] = label]
Finished == {"idle", "returned", "panicked"}

\* RegisterCustomConfig with a valid target: it panics, and changes nothing,
\* for a Context whose config is set and for a key that is already there.
Register(c, k) ==
    /\ alive
    /\ RegisterWhileRunning \/ c \notin began
    /\ c \notin config
    /\ k \notin custom[c]
    /\ custom' = [custom EXCEPT ![c] = @ \cup {k}]
    /\ UNCHANGED <<runVars, configVars, envVars, metricsVars>>

-----------------------------------------------------------------------------
(* Context.Run and DoBootstrap *)

\* Run takes the registered targets before anything else can fail.
Run(c) ==
    /\ alive /\ pc[c] \in Finished
    /\ runs < MaxRuns
    /\ runs' = runs + 1
    /\ began' = began \cup {c}
    /\ toScan' = [toScan EXCEPT ![c] = custom[c] \cup {BootstrapTarget}]
    /\ failed' = [failed EXCEPT ![c] = FALSE]
    /\ Goto(c, "flags")
    /\ UNCHANGED <<custom, owed, built, cleanups, scanned, config, flagDefined, met,
                   providers, envVars, metricsVars>>

Panic(c) ==
    /\ failed' = [failed EXCEPT ![c] = TRUE]
    /\ Goto(c, "unwind")
    /\ UNCHANGED <<runs, began, owed, built, cleanups>>

Proceed(c, label) ==
    /\ Goto(c, label)
    /\ UNCHANGED <<runs, began, failed, owed, built, cleanups>>

\* Faulty variant: a flag that exists already is used again.
LookupFlagTolerant(c) ==
    /\ At(c, "flags")
    /\ met' = met \cup {{c, d} : d \in {e \in Ctx : pc[e] = "define"}}
    /\ Proceed(c, "define")
    /\ UNCHANGED <<custom, toScan, scanned, config, flagDefined, providers, envVars, metricsVars>>

\* Faulty variant: a second bootstrap waits instead of panicking.
LookupFlagWaiting(c) ==
    /\ At(c, "flags")
    /\ ~ flagDefined
    /\ met' = met \cup {{c, d} : d \in {e \in Ctx : pc[e] = "define"}}
    /\ Proceed(c, "define")
    /\ UNCHANGED <<custom, toScan, scanned, config, flagDefined, providers, envVars, metricsVars>>

\* The flag set is the process's.  flag.StringVar first looks the name up, and panics if
\* it is there ...
LookupFlag(c) ==
    /\ At(c, "flags")
    /\ \/ /\ ~ flagDefined
          /\ met' = met \cup {{c, d} : d \in {e \in Ctx : pc[e] = "define"}}
          /\ Proceed(c, "define")
       \/ flagDefined /\ Panic(c) /\ UNCHANGED met
    /\ UNCHANGED <<custom, toScan, scanned, config, flagDefined, providers, envVars, metricsVars>>

\* ... and then enters it, without a lock: who has looked it up before passes as well.
DefineFlag(c) ==
    /\ At(c, "define")
    /\ flagDefined' = TRUE
    /\ Proceed(c, "load")
    /\ UNCHANGED <<custom, toScan, scanned, config, met, providers, envVars, metricsVars>>

\* The runtime may notice that the map is written while another goroutine is at it.
FlagsCollide ==
    /\ \E c, d \in Ctx : c # d /\ At(c, "define") /\ pc[d] \in {"flags", "define"}
    /\ alive' = FALSE
    /\ UNCHANGED <<runVars, custom, configVars, source, reader, metricsVars>>

\* A new provider reads the file and goes on watching it, or cannot read it.
Load(c) ==
    /\ At(c, "load")
    /\ providers' = [providers EXCEPT ![c] = @ + 1]
    /\ \/ Proceed(c, "scan") /\ reader' = [reader EXCEPT ![c] = source]
       \/ Panic(c) /\ UNCHANGED reader
    /\ UNCHANGED <<custom, toScan, scanned, config, flagDefined, met, alive, source,
                   metricsVars>>

\* Faulty variant: the targets are scanned in map order.
ScanAnyOrder(c) ==
    /\ At(c, "scan")
    /\ \E t \in toScan[c] :
        \/ /\ scanned' = [scanned EXCEPT ![c][t] = reader[c]]
           /\ toScan' = [toScan EXCEPT ![c] = @ \ {t}]
           /\ Proceed(c, "scan")
        \/ Panic(c) /\ UNCHANGED <<scanned, toScan>>
    /\ UNCHANGED <<custom, config, flagDefined, met, providers, envVars, metricsVars>>

\* Faulty variant: a scan that fails does not stop the start.
ScanIgnoringErrors(c) ==
    /\ At(c, "scan")
    /\ \E t \in toScan[c] :
        /\ \A u \in toScan[c] : t <= u
        /\ \/ scanned' = [scanned EXCEPT ![c][t] = reader[c]]
           \/ UNCHANGED scanned
        /\ toScan' = [toScan EXCEPT ![c] = @ \ {t}]
        /\ Proceed(c, "scan")
    /\ UNCHANGED <<custom, config, flagDefined, met, providers, envVars, metricsVars>>

\* scanConfigs fills the Bootstrap message, then the targets in key order,
\* each from what the reader holds at that moment, and stops at the first error.
Scan(c) ==
    /\ At(c, "scan")
    /\ \E t \in toScan[c] :
        /\ \A u \in toScan[c] : t <= u
        /\ \/ /\ scanned' = [scanned EXCEPT ![c][t] = reader[c]]
              /\ toScan' = [toScan EXCEPT ![c] = @ \ {t}]
              /\ Proceed(c, "scan")
           \/ Panic(c) /\ UNCHANGED <<scanned, toScan>>
    /\ UNCHANGED <<custom, config, flagDefined, met, providers, envVars, metricsVars>>

ScanDone(c) ==
    /\ At(c, "scan")
    /\ toScan[c] = {}
    /\ Proceed(c, "tracer")
    /\ UNCHANGED <<custom, configVars, envVars, metricsVars>>

\* The logger never fails here (see LogFiles for what it may return); the
\* tracer is skipped, installed, or its exporter cannot be built.
InitTracer(c) ==
    /\ At(c, "tracer")
    /\ Proceed(c, "metrics") \/ Panic(c)
    /\ UNCHANGED <<custom, configVars, envVars, metricsVars>>

\* NewMetricProvider refuses an invalid configuration, or joins the process's
\* one attempt and waits for its outcome.
AskMetrics(c) ==
    /\ At(c, "metrics")
    /\ \/ Metrics!Ask(c) /\ Proceed(c, "answer")
       \/ Metrics!Refuse(c) /\ Panic(c)
    /\ UNCHANGED <<custom, configVars, envVars>>

\* Faulty variant: the error of NewMetricProvider is dropped.
AnswerMetricsIgnored(c) ==
    /\ At(c, "answer")
    /\ Metrics!Answer(c)
    /\ Proceed(c, "publish")
    /\ UNCHANGED <<custom, configVars, envVars>>

\* Run goes on only if the metrics were initialised without error.
AnswerMetrics(c) ==
    /\ At(c, "answer")
    /\ Metrics!Answer(c)
    /\ IF outcome = "nil" THEN Proceed(c, "publish") ELSE Panic(c)
    /\ UNCHANGED <<custom, configVars, envVars>>

\* DoBootstrap has returned: the Context gets its config and logger.
Publish(c) ==
    /\ At(c, "publish")
    /\ config' = config \cup {c}
    /\ Proceed(c, "initApp")
    /\ UNCHANGED <<custom, toScan, scanned, flagDefined, met, providers, envVars, metricsVars>>

\* initApp returns an app, with or without a cleanup, or an error, which panics.
InitApp(c) ==
    /\ At(c, "initApp")
    /\ \/ Proceed(c, "app")
       \/ /\ Goto(c, "app")
          /\ owed' = owed \cup {c}
          /\ built' = [built EXCEPT ![c] = @ + 1]
          /\ UNCHANGED <<runs, began, failed, cleanups>>
       \/ Panic(c)
    /\ UNCHANGED <<custom, configVars, envVars, metricsVars>>

\* app.Run returns, with or without an error, or panics.
AppStops(c) ==
    /\ At(c, "app")
    /\ Proceed(c, "unwind") \/ Panic(c)
    /\ UNCHANGED <<custom, configVars, envVars, metricsVars>>

\* Faulty variant: the cleanup is called after app.Run instead of deferred.
UnwindOnReturnOnly(c) ==
    /\ At(c, "unwind")
    /\ IF c \in owed /\ ~ failed[c]
       THEN /\ owed' = owed \ {c}
            /\ cleanups' = [cleanups EXCEPT ![c] = @ + 1]
       ELSE UNCHANGED <<owed, cleanups>>
    /\ Goto(c, IF failed[c] THEN "panicking" ELSE "returned")
    /\ UNCHANGED <<runs, began, failed, built, custom, configVars, envVars, metricsVars>>

\* The deferred cleanup runs on the way out of Run, whatever the way.
Unwind(c) ==
    /\ At(c, "unwind")
    /\ IF c \in owed
       THEN /\ owed' = owed \ {c}
            /\ cleanups' = [cleanups EXCEPT ![c] = @ + 1]
       ELSE UNCHANGED <<owed, cleanups>>
    /\ Goto(c, IF failed[c] THEN "panicking" ELSE "returned")
    /\ UNCHANGED <<runs, began, failed, built, custom, configVars, envVars, metricsVars>>

\* The caller of Run recovers the panic ...
Recover(c) ==
    /\ At(c, "panicking")
    /\ Proceed(c, "panicked")
    /\ UNCHANGED <<custom, configVars, envVars, metricsVars>>

\* ... or does not, and every goroutine of the process ends with it.
Crash(c) ==
    /\ At(c, "panicking")
    /\ alive' = FALSE
    /\ UNCHANGED <<runVars, custom, configVars, source, reader, metricsVars>>

\* flag.Parse and the log.Fatalf of the RPC constructors that initApp calls
\* leave through os.Exit: no deferred function runs.
Exit(c) ==
    /\ At(c, "load") \/ At(c, "initApp")
    /\ alive' = FALSE
    /\ UNCHANGED <<runVars, custom, configVars, source, reader, metricsVars>>

-----------------------------------------------------------------------------
(* What runs next to the Contexts *)

\* Somebody writes a new configuration file.
Edit ==
    /\ alive
    /\ source < MaxVersion
    /\ source' = source + 1
    /\ UNCHANGED <<runVars, custom, configVars, alive, reader, metricsVars>>

\* The watcher of a provider merges the new file into its reader; Load started
\* it, and nothing in the program ever stops it.
Reload(c) ==
    /\ alive
    /\ reader[c] # 0
    /\ reader' = [reader EXCEPT ![c] = source]
    /\ UNCHANGED <<runVars, custom, configVars, alive, source, metricsVars>>

\* Another goroutine of the process calls metrics.Init.
OtherInit(e) ==
    /\ alive
    /\ Metrics!Ask(e) \/ Metrics!Refuse(e) \/ Metrics!Answer(e)
    /\ UNCHANGED <<runVars, custom, configVars, envVars>>

\* The metrics setup some goroutine is running ends.
MetricsSettle ==
    /\ alive
    /\ \E r \in MetricsResult : Metrics!Settle(r)
    /\ UNCHANGED <<runVars, custom, configVars, envVars>>

-----------------------------------------------------------------------------
\* The steps the goroutine that runs a Context takes without waiting for
\* anything but the metrics setup.
Pipeline(c) ==
    \/ LookupFlag(c) \/ DefineFlag(c) \/ Load(c) \/ Scan(c) \/ ScanDone(c) \/ InitTracer(c)
    \/ AskMetrics(c) \/ AnswerMetrics(c) \/ Publish(c) \/ InitApp(c) \/ Unwind(c)

Next ==
    \/ \E c \in Ctx :
        \/ \E k \in Key : Register(c, k)
        \/ Run(c) \/ Pipeline(c) \/ AppStops(c)
        \/ Recover(c) \/ Crash(c) \/ Exit(c) \/ Reload(c)
    \/ \E e \in Other : OtherInit(e)
    \/ MetricsSettle \/ Edit \/ FlagsCollide

\* The scheduler runs every goroutine that can run.  An app may run for ever,
\* and nothing makes a program call Run or an operator edit the file.
Fairness ==
    /\ \A c \in Ctx : WF_vars(Pipeline(c)) /\ WF_vars(Recover(c) \/ Crash(c))
    /\ WF_vars(MetricsSettle)

SafetySpec == Init /\ [][Next]_vars

Spec == SafetySpec /\ Fairness

-----------------------------------------------------------------------------
(* Properties *)

\* A Context is bootstrapped once, whatever the number of Runs and of recovered panics.
\* Two Contexts of a process are, each with a provider of its own, only if their Runs met
\* in flag.StringVar, which takes no lock: a Run called after that of another Context has
\* left it never gets to load, also when that one has failed or returned (flag.go:23).
OneBootstrapPerProcess ==
    /\ \A c \in Ctx : providers[c] <= 1
    /\ \A c, d \in Ctx : c # d /\ providers[c] # 0 /\ providers[d] # 0 => {c, d} \in met

\* Whatever an application starts with is in place: it is constructed only for
\* a Context whose Bootstrap message was filled by a scan and in a process
\* whose metrics were initialised without error, by this Run or by an earlier
\* caller that used another configuration (bootstrap.go:108-126).
PublishedIsComplete ==
    \A c \in Ctx : (c \in config \/ pc[c] \in {"initApp", "app"}) =>
        /\ c \in config
        /\ scanned[c][BootstrapTarget] # 0
        /\ outcome = "nil"

\* The scans of one start may straddle a reload of the file, but a message is
\* never older than one scanned before it: Bootstrap is the oldest, and the
\* targets follow in key order (context.go:111, config.go:35-36).
ScansNeverGoBack ==
    \A c \in Ctx : \A t, u \in Target :
        (t < u /\ scanned[c][t] # 0 /\ scanned[c][u] # 0) => scanned[c][t] <= scanned[c][u]

\* The configuration of a published Context is never filled again, whoever
\* calls Run later and whatever the watcher reloads.
PublishedConfigIsFinal ==
    [][\A c \in config : c \in config' /\ scanned'[c] = scanned[c]]_vars

\* No target joins a published Context (context.go:56-58).
PublishedKeysAreFinal == [][\A c \in config : custom'[c] = custom[c]]_vars

\* If targets are registered before Run only, the application finds every key
\* of its Context filled (GetCustomConfig, context.go:70-89).
AppFindsFilledTargets ==
    \A c \in config : \A k \in custom[c] : scanned[c][k] # 0

\* Each cleanup runs exactly once, after its app stopped and before Run is
\* left, also when app.Run fails or panics (context.go:136-142).
EveryAppIsCleanedUp ==
    \A c \in Ctx :
        /\ cleanups[c] + (IF c \in owed THEN 1 ELSE 0) = built[c]
        /\ c \in owed => pc[c] \in {"app", "unwind"}

\* A call of Run gets its app running or gives up: it never waits for ever
\* before the application starts, and never between its stop and its return.
RunIsDecided ==
    \A c \in Ctx : (pc[c] \notin Finished) ~> (pc[c] \in Finished \cup {"app"} \/ ~ alive)

\* The rule the documentation states (README "只能在 Run 前注册；非法注册会立即
\* panic", context.go:45): no registration succeeds once Run has begun.
RegisteredOnlyBeforeRun == [][\A c \in began : custom'[c] = custom[c]]_vars
=============================================================================
