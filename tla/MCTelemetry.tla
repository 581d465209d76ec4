---------------------------- MODULE MCTelemetry ----------------------------
(* Instances of Telemetry for TLC. *)
EXTENDS Telemetry

MCEndpoint == {"", GrpcPort, HttpPort, "collector:4317"}

MCSampler == {-1, 0, 5, 10}

Batch(batcher, endpoint, sampler) ==
    [batcher |-> batcher, endpoint |-> endpoint, sampler |-> sampler]

MCTracing ==
    {Absent, Batch("jaeger", "collector:4317", 10), Batch("stdout", "", 10),
     Batch("otlp-grpc", "collector:4317", 5), Batch("otlp-http", "collector:4317", 10),
     Batch("zipkin", "collector:4317", 10), Batch("otlp-grpc", "collector:4317", -1)}

Meter(exporters, endpoint, switch) ==
    [exporters |-> exporters, endpoint |-> endpoint, interval |-> 0, insecure |-> switch,
     enable_runtime_metrics |-> switch, enable_host_metrics |-> switch]

MCMetering ==
    {Absent, Meter(<<>>, "", "off"), Meter(<<"promethius">>, "", "on"),
     Meter(<<"otlp", "statsd">>, "", "on"), Meter(<<"prometheus", "otlp-http">>, HttpPort, "on"),
     [Meter(<<"otlp-http">>, HttpPort, "on") EXCEPT !.interval = 60],
     Meter(<<"otlp", "otlp-http">>, "collector:4317", "on")}
=============================================================================
