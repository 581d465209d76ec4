--------------------------- MODULE MCMetricsInit ---------------------------
(* Small instances of MetricsInit. *)
EXTENDS MetricsInit

\* Prometheus alone, together with one OTLP exporter in either order (so that
\* the second reader may fail after the first one registered), OTLP alone, the
\* alias combined with the exporter it excludes, and the unusable lists that
\* Config allows but ValidateConfig does not look at.
MCConfigs == {<<"prometheus">>, <<"prometheus", "otlp-grpc">>,
              <<"otlp-http", "prometheus">>, <<"otlp">>,
              <<"otlp", "otlp-http">>, <<"unsupported">>, << >>}
=============================================================================
