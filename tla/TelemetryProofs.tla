---------------------------- MODULE TelemetryProofs ----------------------------
(***************************************************************************)
(* Theorems about the telemetry of a process, for any sections, any spans, *)
(* also infinitely many, and any size of the queue.                        *)
(***************************************************************************)
EXTENDS Telemetry, FiniteSetTheorems, TLAPS

-----------------------------------------------------------------------------
(* The configuration of metrics *)

Configured == NewConfigFromProto(metrics)

ConfigType == [exporters : SUBSET ExporterType, endpoint : Endpoint, interval : Nat,
               insecure : BOOLEAN, runtime : BOOLEAN, host : BOOLEAN]

\* No list of names leaves a process without exporter.
LEMMA ParsedIsKnown ==
    ASSUME NEW names
    PROVE  ParseExporters(names) # {} /\ ParseExporters(names) \subseteq ExporterType
<1>1. \A name : Known(name) \subseteq ExporterType
  BY DEF Known, ExporterType
<1>2. UNION {Known(name) : name \in ToSet(names)} \subseteq ExporterType
  BY <1>1
<1> QED BY <1>2 DEF ParseExporters, ExporterType

\* Whatever the section says, the configuration is one of exporters, with an
\* interval and an endpoint.
LEMMA ConfigIs ==
    ASSUME metrics \in Metering
    PROVE  /\ Configured.exporters # {} /\ Configured.exporters \subseteq ExporterType
           /\ Configured.endpoint \in Endpoint
           /\ Configured.interval \in Nat \ {0}
           /\ metrics # Absent /\ metrics.endpoint # "" =>
                Configured.endpoint = metrics.endpoint
<1>1. CASE metrics = Absent
  <2>1. Configured = DefaultConfig
    BY <1>1 DEF Configured, NewConfigFromProto
  <2>2. /\ DefaultConfig.exporters = {"prometheus"}
        /\ DefaultConfig.endpoint = GrpcPort
        /\ DefaultConfig.interval = 15
    BY DEF DefaultConfig
  <2>3. GrpcPort \in Endpoint
    BY TelemetryAssumption
  <2> QED BY <1>1, <2>1, <2>2, <2>3 DEF ExporterType
<1>2. CASE metrics # Absent
  <2>1. metrics.endpoint \in Endpoint /\ metrics.interval \in Int
    BY <1>2, TelemetryAssumption DEF Metrics
  <2>2. Configured.exporters # {} /\ Configured.exporters \subseteq ExporterType
    BY <1>2, ParsedIsKnown DEF Configured, NewConfigFromProto, DefaultConfig, ExporterType
  <2>3. Configured.interval \in Nat \ {0}
    BY <1>2, <2>1 DEF Configured, NewConfigFromProto, DefaultConfig
  <2>4. Configured.endpoint \in Endpoint
        /\ (metrics.endpoint # "" => Configured.endpoint = metrics.endpoint)
    BY <1>2, <2>1, TelemetryAssumption
    DEF Configured, NewConfigFromProto, DefaultConfig, OrDefault
  <2> QED BY <2>2, <2>3, <2>4
<1> QED BY <1>1, <1>2

ReaderType == [exporter : ExporterType, endpoint : Endpoint, interval : Nat]

\* One reader for each exporter.
LEMMA ReadersAre ==
    ASSUME metrics \in Metering
    PROVE  /\ Readers(Configured) \subseteq ReaderType
           /\ Readers(Configured) # {}
           /\ \A r \in Readers(Configured) :
                /\ r.exporter \in Configured.exporters
                /\ r.exporter # "prometheus" =>
                    /\ r.endpoint = Configured.endpoint
                    /\ r.interval = Configured.interval
<1> DEFINE E == Configured.exporters
           R(e) == IF e = "prometheus" THEN [exporter |-> e, endpoint |-> "", interval |-> 0]
                   ELSE [exporter |-> e, endpoint |-> Configured.endpoint,
                         interval |-> Configured.interval]
<1>1. Readers(Configured) = {R(e) : e \in E}
  BY DEF Readers
<1>2. ASSUME NEW e \in E
      PROVE  /\ R(e) \in ReaderType /\ R(e).exporter \in E
             /\ R(e).exporter # "prometheus" =>
                 /\ R(e).endpoint = Configured.endpoint
                 /\ R(e).interval = Configured.interval
  BY ConfigIs, TelemetryAssumption DEF ReaderType
<1>3. E # {}
  BY ConfigIs
<1> HIDE DEF R, E
<1> QED BY <1>1, <1>2, <1>3 DEF E

-----------------------------------------------------------------------------
(* The invariant *)

\* The provider is that of the section, once its step is over, or none.
TracerIs ==
    /\ provider # Noop => Wanted /\ provider = TracerProvider(trace)
    /\ pc = "tracer" => provider = Noop
    /\ pc \in {"metrics", "up"} /\ Wanted => provider # Noop

\* So are the readers, and they come second.
ReadersFollow ==
    /\ pc \in {"tracer", "metrics"} => readers = {}
    /\ pc = "up" => readers # {}
    /\ readers # {} =>
        /\ ValidateConfig(Configured) /\ readers = Readers(Configured)
        /\ Wanted => provider # Noop

\* Spans are recorded by a provider, and the queue has a bound.
Recorded ==
    /\ \A s \in Span : spans[s] \notin {"unborn", "unsampled"} => provider # Noop
    /\ IsFiniteSet(Queue) /\ Cardinality(Queue) <= QueueSize

Inv == TypeOK /\ TracerIs /\ ReadersFollow /\ Recorded

LEMMA ProviderIsLive ==
    ASSUME TypeOK
    PROVE  provider # Noop <=> provider.live
<1>1. CASE provider = Noop
  BY <1>1 DEF Noop
<1>2. CASE provider # Noop
  <2>1. provider.live \in {TRUE}
    BY <1>2 DEF TypeOK
  <2> QED BY <1>2, <2>1
<1> QED BY <1>1, <1>2

THEOREM Initially == Init => Inv
<1> SUFFICES ASSUME Init PROVE Inv
  OBVIOUS
<1>1. TypeOK
  <2>1. spans \in [Span -> Fate]
    BY DEF Init, Fate
  <2> QED BY <2>1 DEF Init, TypeOK
<1>4. TracerIs /\ ReadersFollow
  BY DEF Init, TracerIs, ReadersFollow
<1>2. Queue = {}
  BY DEF Init, Queue
<1>3. Recorded
  <2>1. \A s \in Span : spans[s] = "unborn"
    BY DEF Init
  <2>2. QueueSize \in Nat
    BY TelemetryAssumption
  <2>3. IsFiniteSet(Queue) /\ Cardinality(Queue) = 0
    BY <1>2, FS_EmptySet
  <2>4. Cardinality(Queue) <= QueueSize
    BY <2>2, <2>3
  <2> QED BY <2>1, <2>3, <2>4 DEF Recorded
<1> QED BY <1>1, <1>3, <1>4 DEF Inv

\* A step that leaves the spans alone leaves the queue alone.
LEMMA QueueStays ==
    ASSUME Recorded, UNCHANGED spans, provider' = provider \/ provider = Noop
    PROVE  Recorded'
<1>1. Queue' = Queue
  BY DEF Queue
<1>2. ASSUME NEW s \in Span, spans'[s] \notin {"unborn", "unsampled"} PROVE provider' # Noop'
  BY <1>2 DEF Recorded, Noop
<1> QED BY <1>1, <1>2 DEF Recorded

LEMMA TracerInv ==
    ASSUME Inv, InitTracer
    PROVE  Inv'
<1>1. pc = "tracer" /\ UNCHANGED <<sections, readers, spans>>
  BY DEF InitTracer
<1>2. provider = Noop /\ readers = {}
  BY <1>1 DEF Inv, TracerIs, ReadersFollow
<1>3. CASE UNCHANGED provider
  <2>1. pc' \in {"metrics", "panicked"} /\ (pc' = "metrics" => ~ Wanted)
    BY <1>2, <1>3 DEF InitTracer, Noop, TracerProvider
  <2>2. TypeOK'
    BY <1>1, <1>3, <2>1 DEF Inv, TypeOK, sections, Noop
  <2>3. TracerIs' /\ ReadersFollow'
    BY <1>1, <1>2, <1>3, <2>1 DEF TracerIs, ReadersFollow, sections, Noop, Wanted
  <2> QED BY <1>1, <1>3, <2>2, <2>3, QueueStays DEF Inv
<1>4. CASE Wanted /\ TracerProvider(trace).exporter # "error"
           /\ provider' = TracerProvider(trace) /\ pc' = "metrics"
  <2>1. trace \in Tracer
    BY <1>4, TelemetryAssumption DEF Inv, TypeOK, Wanted
  <2>2. Ratio(trace) \in Nat
    <3>1. trace.sampler \in Sampler \cup {Absent}
      BY <2>1 DEF Tracer
    <3>2. Sampler \subseteq Int
      BY TelemetryAssumption
    <3>3. Ratio(trace) \in Int
      <4>1. CASE trace.sampler = Absent
        <5>1. Ratio(trace) = 0
          BY <4>1 DEF Ratio
        <5> QED BY <5>1
      <4>2. CASE trace.sampler # Absent
        <5>1. Ratio(trace) = trace.sampler
          BY <4>2 DEF Ratio
        <5> QED BY <3>1, <3>2, <4>2, <5>1
      <4> QED BY <4>1, <4>2
    <3> HIDE DEF Ratio
    <3> QED BY <1>4, <3>3 DEF Wanted
  <2>3. provider' \in [live : {TRUE}, ratio : Nat,
                       exporter : {"none", "stdout", "otlp-http", "otlp-grpc"}]
    BY <1>4, <2>2 DEF TracerProvider, TracerExporter
  <2>4. TypeOK'
    BY <1>1, <1>4, <2>3 DEF Inv, TypeOK, sections
  <2>5. provider' # Noop
    BY <2>3 DEF Noop
  <2>6. TracerIs' /\ ReadersFollow'
    BY <1>1, <1>2, <1>4, <2>5
    DEF TracerIs, ReadersFollow, sections, Noop, Wanted, Ratio, TracerProvider, TracerExporter
  <2> QED BY <1>1, <1>2, <2>4, <2>6, QueueStays DEF Inv
<1> QED BY <1>3, <1>4 DEF InitTracer

LEMMA MetricsInv ==
    ASSUME Inv, InitMetrics
    PROVE  Inv'
<1>1. pc = "metrics" /\ UNCHANGED <<sections, provider, spans>>
  BY DEF InitMetrics
<1>2. \/ pc' = "panicked" /\ UNCHANGED readers
      \/ ValidateConfig(Configured) /\ readers' = Readers(Configured)
         /\ pc' \in {"panicked", "up"}
  BY DEF InitMetrics, Configured
<1>3. metrics \in Metering
  BY DEF Inv, TypeOK
<1>4. TypeOK'
  <2>1. readers' \subseteq ReaderType
    BY <1>2, <1>3, ReadersAre DEF Inv, TypeOK, ReaderType
  <2> QED BY <1>1, <1>2, <2>1 DEF Inv, TypeOK, sections, ReaderType, Noop
<1>5. TracerIs'
  BY <1>1, <1>2 DEF Inv, TracerIs, sections, Noop, Wanted, Ratio, TracerProvider, TracerExporter
<1>6. ReadersFollow'
  <2>1. Configured' = Configured /\ Readers(Configured)' = Readers(Configured)
        /\ ValidateConfig(Configured)' = ValidateConfig(Configured)
    BY <1>1 DEF sections, Configured
  <2>2. Wanted => provider # Noop
    BY <1>1 DEF Inv, TracerIs
  <2>3. Wanted' = Wanted /\ Noop' = Noop
    BY <1>1 DEF Wanted, Ratio, Noop, sections
  <2>4. readers = {}
    BY <1>1 DEF Inv, ReadersFollow
  <2> QED BY <1>1, <1>2, <1>3, <2>1, <2>2, <2>3, <2>4, ReadersAre DEF ReadersFollow
<1> QED BY <1>1, <1>4, <1>5, <1>6, QueueStays DEF Inv

\* What remains true of the sections while pc leaves the bootstrap.
LEMMA SectionsStay ==
    ASSUME Inv, UNCHANGED <<sections, provider, readers>>,
           pc' = pc \/ pc' \in {"recovered", "exited"}
    PROVE  TracerIs' /\ ReadersFollow'
<1>1. Configured' = Configured /\ Wanted' = Wanted /\ Noop' = Noop
      /\ TracerProvider(trace)' = TracerProvider(trace)
  BY DEF sections, Configured, Wanted, Ratio, Noop, TracerProvider
<1>2. Readers(Configured)' = Readers(Configured)
      /\ ValidateConfig(Configured)' = ValidateConfig(Configured)
  BY <1>1
<1> QED BY <1>1, <1>2 DEF Inv, TracerIs, ReadersFollow

\* A step of the process that changes no span.
LEMMA QuietInv ==
    ASSUME Inv, Recover \/ UNCHANGED vars
    PROVE  Inv'
<1>1. /\ UNCHANGED <<sections, provider, readers, spans>>
      /\ pc' = pc \/ pc' = "recovered"
  BY DEF Recover, vars, sections
<1>2. TypeOK'
  BY <1>1 DEF Inv, TypeOK, sections, Noop
<1> QED BY <1>1, <1>2, SectionsStay, QueueStays DEF Inv

LEMMA StartInv ==
    ASSUME Inv, NEW s \in Span, Start(s)
    PROVE  Inv'
<1>1. UNCHANGED <<sections, pc, provider, readers>> /\ spans[s] = "unborn"
  BY DEF Start
<1>2. PICK f \in {"unsampled", "open"} :
        spans' = [spans EXCEPT ![s] = f] /\ (f = "open" => provider.live)
  BY DEF Start
<1>3. spans \in [Span -> Fate] /\ f \in Fate
  BY DEF Inv, TypeOK, Fate
<1>4. Queue' = Queue
  BY <1>1, <1>2, <1>3 DEF Queue
<1>5. Recorded'
  BY <1>1, <1>2, <1>3, <1>4, ProviderIsLive DEF Inv, Recorded, Noop
<1>6. TypeOK'
  BY <1>1, <1>2, <1>3 DEF Inv, TypeOK, sections, Noop
<1> QED BY <1>1, <1>5, <1>6, SectionsStay DEF Inv

LEMMA EndInv ==
    ASSUME Inv, NEW s \in Span, End(s)
    PROVE  Inv'
<1>1. UNCHANGED <<sections, pc, provider, readers>> /\ spans[s] = "open"
  BY DEF End
<1>2. PICK f \in {"dropped", "queued", "lost"} :
        /\ spans' = [spans EXCEPT ![s] = f]
        /\ f = "queued" => Cardinality(Queue) < QueueSize
  BY DEF End
<1>3. spans \in [Span -> Fate] /\ f \in Fate
  BY DEF Inv, TypeOK, Fate
<1>4. IsFiniteSet(Queue) /\ Cardinality(Queue) \in Nat /\ Cardinality(Queue) <= QueueSize
  BY FS_CardinalityType DEF Inv, Recorded
<1>5. IsFiniteSet(Queue') /\ Cardinality(Queue') <= QueueSize
  <2>1. CASE f = "queued"
    <3>1. Queue' = Queue \cup {s} /\ s \notin Queue
      BY <1>1, <1>2, <1>3, <2>1 DEF Queue
    <3>2. IsFiniteSet(Queue') /\ Cardinality(Queue') = Cardinality(Queue) + 1
      BY <1>4, <3>1, FS_AddElement
    <3>3. QueueSize \in Nat /\ Cardinality(Queue) < QueueSize
      BY <1>2, <2>1, TelemetryAssumption
    <3>4. Cardinality(Queue) + 1 <= QueueSize
      BY <1>4, <3>3
    <3> QED BY <3>2, <3>4
  <2>2. CASE f # "queued"
    <3>1. Queue' = Queue
      BY <1>1, <1>2, <1>3, <2>2 DEF Queue
    <3> QED BY <1>4, <3>1
  <2> QED BY <2>1, <2>2
<1>6. Recorded'
  BY <1>1, <1>2, <1>3, <1>5 DEF Inv, Recorded, Noop
<1>7. TypeOK'
  BY <1>1, <1>2, <1>3 DEF Inv, TypeOK, sections, Noop
<1> QED BY <1>1, <1>6, <1>7, SectionsStay DEF Inv

LEMMA FlushInv ==
    ASSUME Inv, Export \/ Exit
    PROVE  Inv'
<1>1. UNCHANGED <<sections, provider, readers>> /\ (pc' = pc \/ pc' = "exited")
  BY DEF Export, Exit
<1>2. \A s \in Span : spans'[s] = spans[s]
                      \/ (spans[s] \in {"open", "queued"} /\ spans'[s] \in {"sent", "lost"})
  <2>1. CASE Export
    <3>1. SUFFICES ASSUME NEW s \in Span
                   PROVE  spans'[s] = spans[s]
                          \/ (spans[s] \in {"open", "queued"} /\ spans'[s] \in {"sent", "lost"})
      OBVIOUS
    <3>2. CASE s \notin Queue
      <4>1. spans'[s] = spans[s]
        BY <2>1, <3>2 DEF Export
      <4> QED BY <4>1
    <3>3. CASE s \in Queue
      <4>1. PICK fate \in {"sent", "lost"} :
              spans' = [t \in Span |-> IF t \in Queue THEN fate ELSE spans[t]]
        BY <2>1 DEF Export
      <4>2. spans'[s] = fate
        BY <3>3, <4>1
      <4> QED BY <3>3, <4>1, <4>2 DEF Queue
    <3> QED BY <3>2, <3>3
  <2>2. CASE Exit
    <3>1. SUFFICES ASSUME NEW s \in Span
                   PROVE  spans'[s] = spans[s]
                          \/ (spans[s] \in {"open", "queued"} /\ spans'[s] \in {"sent", "lost"})
      OBVIOUS
    <3>2. CASE spans[s] \in {"open", "queued"}
      <4>1. spans'[s] = "lost"
        BY <2>2, <3>2 DEF Exit
      <4> QED BY <3>2, <4>1
    <3>3. CASE spans[s] \notin {"open", "queued"}
      <4>1. spans'[s] = spans[s]
        BY <2>2, <3>3 DEF Exit
      <4> QED BY <4>1
    <3> QED BY <3>2, <3>3
  <2> QED BY <2>1, <2>2
<1>3. spans \in [Span -> Fate]
  BY DEF Inv, TypeOK
<1>4. spans' \in [Span -> Fate]
  <2>1. spans' = [s \in Span |-> spans'[s]]
    BY DEF Export, Exit
  <2> QED BY <1>2, <1>3, <2>1 DEF Fate
<1>5. Queue' = {}
  BY DEF Export, Exit, Queue
<1>6. Recorded'
  <2>1. \A s \in Span : spans'[s] \notin {"unborn", "unsampled"} =>
          spans[s] \notin {"unborn", "unsampled"}
    BY <1>2
  <2>2. \A s \in Span : spans'[s] \notin {"unborn", "unsampled"} => provider' # Noop'
    BY <1>1, <2>1 DEF Inv, Recorded, Noop
  <2>3. IsFiniteSet(Queue') /\ Cardinality(Queue') = 0 /\ 0 <= QueueSize
    <3>1. IsFiniteSet(Queue') /\ Cardinality(Queue') = 0
      BY <1>5, FS_EmptySet
    <3>2. QueueSize \in Nat
      BY TelemetryAssumption
    <3> QED BY <3>1, <3>2
  <2> QED BY <2>2, <2>3 DEF Recorded
<1>7. TypeOK'
  BY <1>1, <1>4 DEF Inv, TypeOK, sections, Noop
<1> QED BY <1>1, <1>6, <1>7, SectionsStay DEF Inv

THEOREM StepKeepsInv == Inv /\ [Next]_vars => Inv'
BY TracerInv, MetricsInv, QuietInv, StartInv, EndInv, FlushInv DEF Next

-----------------------------------------------------------------------------
(* The theorems *)

\* The inductive invariant of telemetry.
THEOREM Invariance == Spec => []Inv
BY Initially, StepKeepsInv, PTL DEF Spec

\* Whatever the sections say, a process that is up exports metrics, and spans if
\* it asked for them; what failed left nothing behind.
THEOREM ProvidersAreSoundTheorem == Spec => []ProvidersAreSound
<1>1. ASSUME Inv PROVE ProvidersAreSound
  <2>1. metrics \in Metering /\ TypeOK
    BY <1>1 DEF Inv, TypeOK
  <2>2. UpIsObserved
    <3>1. SUFFICES ASSUME pc = "up" PROVE UpIsObserved
      BY DEF UpIsObserved
    <3>2. readers # {} /\ readers = Readers(Configured) /\ ValidateConfig(Configured)
      BY <1>1, <3>1 DEF Inv, ReadersFollow
    <3>3. ASSUME NEW r \in readers, NEW s \in readers,
                 r.exporter # "prometheus", s.exporter # "prometheus"
          PROVE  r.exporter = s.exporter
      <4>1. {r.exporter, s.exporter} \subseteq Configured.exporters
            /\ Configured.exporters \subseteq ExporterType
        BY <2>1, <3>2, ReadersAre, ConfigIs
      <4> QED BY <3>2, <3>3, <4>1 DEF ValidateConfig, ExporterType
    <3>4. ASSUME NEW r \in readers, r.exporter # "prometheus"
          PROVE  /\ r.interval > 0
                 /\ metrics # Absent /\ metrics.endpoint # "" => r.endpoint = metrics.endpoint
      <4>1. r.endpoint = Configured.endpoint /\ r.interval = Configured.interval
        BY <2>1, <3>2, <3>4, ReadersAre
      <4>2. Configured.interval \in Nat \ {0}
        BY <2>1, ConfigIs
      <4>3. metrics # Absent /\ metrics.endpoint # "" => Configured.endpoint = metrics.endpoint
        BY <2>1, ConfigIs
      <4>4. r.interval > 0
        BY <4>1, <4>2
      <4> HIDE DEF Configured
      <4> QED BY <4>1, <4>3, <4>4
    <3>5. Requested => provider.live /\ provider.exporter # "none"
      <4>1. Requested => provider = TracerProvider(trace)
        BY <1>1, <3>1 DEF Inv, TracerIs, Requested
      <4>2. TracerProvider(trace).live
        BY DEF TracerProvider
      <4>3. Requested => TracerProvider(trace).exporter # "none"
        BY DEF Requested, TracerProvider, TracerExporter
      <4> QED BY <4>1, <4>2, <4>3
    <3> QED BY <3>2, <3>3, <3>4, <3>5 DEF UpIsObserved
  <2>3. NoUnexportedSpans
    <3>1. ASSUME NEW s \in Span, spans[s] \in {"open", "dropped"}, provider.exporter = "none"
          PROVE  trace.endpoint = ""
      <4>1. provider = TracerProvider(trace)
        BY <1>1, <3>1 DEF Inv, Recorded, TracerIs
      <4> QED BY <3>1, <4>1 DEF TracerProvider, TracerExporter
    <3> QED BY <3>1 DEF NoUnexportedSpans
  <2>4. TracerBeforeMetrics
    BY <1>1, <2>1, ProviderIsLive DEF Inv, ReadersFollow, TracerBeforeMetrics, Requested
  <2> QED BY <2>1, <2>2, <2>3, <2>4 DEF ProvidersAreSound
<1> QED BY <1>1, Invariance, PTL
=============================================================================
