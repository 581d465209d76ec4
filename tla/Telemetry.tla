------------------------------- MODULE Telemetry -------------------------------
(***************************************************************************)
(* Tracing and metrics of one process, from the Tracer and Metrics         *)
(* sections of its configuration to what reaches a collector: the          *)
(* providers DoBootstrap installs one after the other                      *)
(* (src/tracer/tracer.go, src/metrics/options.go, src/bootstrap.go), what  *)
(* a failure in between leaves installed, and the spans that are recorded, *)
(* queued and exported until the process ends.                             *)
(*                                                                         *)
(* The second DoBootstrap of a process panics over its command flags, so   *)
(* there is one.  The sampler is in tenths.  What metrics initialisation   *)
(* does inside is the subject of MetricsInit.                              *)
(***************************************************************************)
EXTENDS Integers, Sequences, SequencesExt, FiniteSets

CONSTANTS
    Span,       \* the spans the process may start
    Absent,     \* a section, a value or an AppInfo that is not there
    Endpoint,   \* addresses, "" included
    Sampler,    \* the ratios of configurations, in tenths
    Tracing,    \* the Tracer sections that occur
    Metering,   \* the Metrics sections that occur
    QueueSize   \* spans the batch processor holds; 2048 in the SDK

\* Values of a file; what it omits is zero or FALSE in the message.
Tracer == [batcher : STRING, endpoint : Endpoint, sampler : Sampler \cup {Absent}]

Switch == {"on", "off", "omitted"}

Metrics == [exporters : Seq(STRING), endpoint : Endpoint, interval : Int, insecure : Switch,
            enable_runtime_metrics : Switch, enable_host_metrics : Switch]

GrpcPort == "localhost:4317"
HttpPort == "localhost:4318"

ASSUME TelemetryAssumption ==
    /\ Sampler \subseteq Int /\ QueueSize \in Nat \ {0}
    /\ {"", GrpcPort} \subseteq Endpoint
    /\ Tracing \subseteq Tracer \cup {Absent}
    /\ Metering \subseteq Metrics \cup {Absent}

VARIABLES
    trace, metrics, \* the two sections
    appInfo,        \* the identity DoBootstrap was called with: there is one, or none
    pc,             \* how far DoBootstrap is
    provider,       \* the global tracer provider
    readers,        \* the exporters of the global meter provider
    spans           \* what became of each span

vars == <<trace, metrics, appInfo, pc, provider, readers, spans>>

-----------------------------------------------------------------------------
(* metrics/options.go *)

ExporterType == {"prometheus", "otlp-grpc", "otlp-http"}

OrDefault(value, default) == IF value = "" THEN default ELSE value

\* The address is OTEL_EXPORTER_OTLP_ENDPOINT, if that is set.
DefaultConfig == [exporters |-> {"prometheus"}, endpoint |-> GrpcPort, interval |-> 15,
                  insecure |-> TRUE, runtime |-> TRUE, host |-> TRUE]

Known(name) == CASE name = "otlp" -> {"otlp-grpc"}
                 [] name \in ExporterType -> {name}
                 [] OTHER -> {}

\* parseExporters drops unknown names; the order of the others is irrelevant here.
ParseExporters(names) ==
    LET known == UNION {Known(name) : name \in ToSet(names)}
    IN  IF known = {} THEN {"prometheus"} ELSE known

NewConfigFromProto(m) ==
    IF m = Absent THEN DefaultConfig
    ELSE [exporters |-> IF m.exporters = <<>> THEN DefaultConfig.exporters
                        ELSE ParseExporters(m.exporters),
          endpoint |-> OrDefault(m.endpoint, DefaultConfig.endpoint),
          interval |-> IF m.interval > 0 THEN m.interval ELSE DefaultConfig.interval,
          insecure |-> m.insecure = "on",
          runtime |-> m.enable_runtime_metrics = "on",
          host |-> m.enable_host_metrics = "on"]

ValidateConfig(c) == ~ {"otlp-grpc", "otlp-http"} \subseteq c.exporters

\* NewMetricReaders: one endpoint for all.
Readers(c) ==
    {IF e = "prometheus" THEN [exporter |-> e, endpoint |-> "", interval |-> 0]
     ELSE [exporter |-> e, endpoint |-> c.endpoint, interval |-> c.interval] : e \in c.exporters}

-----------------------------------------------------------------------------
(* tracer/tracer.go *)

\* NewTracerExporter: the default branch is the one of "stdout".
TracerExporter(batcher) ==
    CASE batcher = "jaeger" -> "error"
      [] batcher \in {"otlp-http", "otlp-grpc"} -> batcher
      [] OTHER -> "stdout"

Ratio(t) == IF t.sampler = Absent THEN 0 ELSE t.sampler

\* Otherwise NewTracerProvider returns without a word.
Wanted == trace # Absent /\ appInfo # Absent /\ Ratio(trace) >= 0

Noop == [live |-> FALSE]

TracerProvider(t) ==
    [live |-> TRUE, ratio |-> Ratio(t),
     exporter |-> IF t.endpoint = "" THEN "none" ELSE TracerExporter(t.batcher)]

-----------------------------------------------------------------------------
Fate == {"unborn", "unsampled", "open", "queued", "sent", "lost", "dropped"}

TypeOK ==
    /\ trace \in Tracing /\ metrics \in Metering
    /\ appInfo \in {"known", Absent}
    /\ pc \in {"tracer", "metrics", "up", "panicked", "recovered", "exited"}
    /\ \/ provider = Noop
       \/ provider \in [live : {TRUE}, ratio : Nat,
                        exporter : {"none", "stdout", "otlp-http", "otlp-grpc"}]
    /\ readers \subseteq [exporter : ExporterType, endpoint : Endpoint, interval : Nat]
    /\ spans \in [Span -> Fate]

Init ==
    /\ trace \in Tracing /\ metrics \in Metering
    /\ appInfo \in {"known", Absent}
    /\ pc = "tracer"
    /\ provider = Noop
    /\ readers = {}
    /\ spans = [s \in Span |-> "unborn"]

sections == <<trace, metrics, appInfo>>

\* NewTracerProvider: an OTLP client that cannot be built is an error as well.
InitTracer ==
    /\ pc = "tracer"
    /\ \/ ~ Wanted /\ pc' = "metrics" /\ UNCHANGED provider
       \/ /\ Wanted /\ trace.endpoint # "" /\ TracerExporter(trace.batcher) # "stdout"
          /\ pc' = "panicked" /\ UNCHANGED provider
       \/ /\ Wanted /\ TracerProvider(trace).exporter # "error"
          /\ provider' = TracerProvider(trace)
          /\ pc' = "metrics"
    /\ UNCHANGED <<sections, readers, spans>>

\* Faulty variant: metrics come first.
InitMetricsFirst ==
    /\ pc = "tracer"
    /\ LET c == NewConfigFromProto(metrics)
       IN  ValidateConfig(c) /\ readers' = Readers(c)
    /\ pc' = "metrics"
    /\ UNCHANGED <<sections, provider, spans>>

\* NewMetricProvider: it may fail before and after the readers are installed.
InitMetrics ==
    /\ pc = "metrics"
    /\ LET c == NewConfigFromProto(metrics)
       IN  \/ pc' = "panicked" /\ UNCHANGED readers
           \/ /\ ValidateConfig(c)
              /\ readers' = Readers(c)
              /\ pc' \in {"panicked", "up"}
    /\ UNCHANGED <<sections, provider, spans>>

\* Somebody above Run recovers, and the process goes on.
Recover ==
    /\ pc = "panicked"
    /\ pc' = "recovered"
    /\ UNCHANGED <<sections, provider, readers, spans>>

Alive == pc \notin {"panicked", "exited"}

\* A root span: the provider decides by its ratio.
Start(s) ==
    /\ Alive
    /\ spans[s] = "unborn"
    /\ spans' \in {[spans EXCEPT ![s] = f] :
        f \in IF ~ provider.live \/ provider.ratio = 0 THEN {"unsampled"}
              ELSE IF provider.ratio >= 10 THEN {"open"} ELSE {"unsampled", "open"}}
    /\ UNCHANGED <<sections, pc, provider, readers>>

Queue == {s \in Span : spans[s] = "queued"}

\* The batch processor does not wait for room.
End(s) ==
    /\ Alive
    /\ spans[s] = "open"
    /\ spans' = [spans EXCEPT ![s] = IF provider.exporter = "none" THEN "dropped"
                                     ELSE IF Cardinality(Queue) < QueueSize THEN "queued"
                                     ELSE "lost"]
    /\ UNCHANGED <<sections, pc, provider, readers>>

\* Faulty variant: DoBootstrap stops the batch processor when it fails.
ExportUntilFailure ==
    /\ pc \in {"tracer", "metrics", "up"}
    /\ Queue # {}
    /\ spans' = [s \in Span |-> IF s \in Queue THEN "sent" ELSE spans[s]]
    /\ UNCHANGED <<sections, pc, provider, readers>>

\* The goroutine of the batch processor: the timer has expired, or the batch is full.
\* A collector that is down, refuses the batch or answers too late has none of it.
Export ==
    /\ Alive
    /\ Queue # {}
    /\ \E fate \in {"sent", "lost"} :
        /\ provider.exporter = "stdout" => fate = "sent"
        /\ spans' = [s \in Span |-> IF s \in Queue THEN fate ELSE spans[s]]
    /\ UNCHANGED <<sections, pc, provider, readers>>

\* Nothing shuts the provider down: what is queued or open is gone.
Exit ==
    /\ pc # "exited"
    /\ pc' = "exited"
    /\ spans' = [s \in Span |-> IF spans[s] \in {"open", "queued"} THEN "lost" ELSE spans[s]]
    /\ UNCHANGED <<sections, provider, readers>>

Next ==
    \/ InitTracer \/ InitMetrics \/ Recover \/ Exit \/ Export
    \/ \E s \in Span : Start(s) \/ End(s)

Spec == Init /\ [][Next]_vars

\* The goroutine of the SDK runs; a panic reaches somebody, or the runtime.
FairSpec ==
    Spec /\ WF_vars(Export) /\ WF_vars(pc = "panicked" /\ (Recover \/ Exit))

-----------------------------------------------------------------------------
(* Properties *)

Requested == Wanted /\ trace.endpoint # ""

\* Whatever the lists and sections say, misspelt names included, a process that is up has
\* metrics exported, over one OTLP protocol at most (README.md:327), again and again, to
\* the endpoint of its section if that names one, and spans if it asked for that.
UpIsObserved ==
    pc = "up" =>
        /\ readers # {}
        /\ \A r, s \in readers :
            r.exporter # "prometheus" /\ s.exporter # "prometheus" => r.exporter = s.exporter
        /\ \A r \in readers : r.exporter # "prometheus" => r.interval > 0
        /\ metrics # Absent /\ metrics.endpoint # "" =>
            \A r \in readers : r.exporter # "prometheus" => r.endpoint = metrics.endpoint
        /\ Requested => provider.live /\ provider.exporter # "none"

\* A tracer that could not be initialised leaves nothing behind: a process that
\* recovers records no spans nobody will export, unless that was asked for.
NoUnexportedSpans ==
    \A s \in Span : spans[s] \in {"open", "dropped"} /\ provider.exporter = "none" =>
        trace.endpoint = ""

\* Metrics never run without the traces that were asked for, in a process whose
\* bootstrap failed in between and was recovered as little as in one that is up.
TracerBeforeMetrics == readers # {} /\ Requested => provider.live

\* A sampled span that has ended leaves the queue, also when the bootstrap that
\* installed the provider has failed since, and whatever becomes of the batch.
EndedSpansLeave == \A s \in Span : spans[s] = "queued" ~> spans[s] \in {"sent", "lost"}

\* Both providers are what the sections asked for, or DoBootstrap panicked.
ProvidersAreSound == TypeOK /\ UpIsObserved /\ NoUnexportedSpans /\ TracerBeforeMetrics
=============================================================================
