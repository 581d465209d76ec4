-------------------------- MODULE MCTracePropagation --------------------------
(* A small instance of TracePropagation. *)
EXTENDS TracePropagation, TLC

\* Every service may have every configuration.
MCSymmetry == Permutations(Service)

\* A method of a gRPC service, and a path without common prefix.
MCGet == <<"x", "get">>
MCOpen == <<"y">>
MCOperation == {MCGet, MCOpen}

\* White space around a name, and white space alone.
MCText == MCOperation \cup {<<"x">>, <<" ", "x", "get", " ">>, <<" ">>, << >>}

NoRules == [exact |-> {}, prefix |-> {}]

Traces(server, client, tracer, serverRules, clientRules) ==
    [server |-> server, client |-> client, tracer |-> tracer,
     serverRules |-> serverRules, clientRules |-> clientRules]

\* Services that exclude a prefix they serve, an operation they call, or
\* (by a blank rule) nothing, and services that lack one part of tracing.
MCSetting == {
    Traces(TRUE, TRUE, "exports", [exact |-> {}, prefix |-> {<<"x">>}], NoRules),
    Traces(TRUE, TRUE, "exports", [exact |-> {MCOpen}, prefix |-> {<<" ">>}],
           [exact |-> {<<" ", "x", "get", " ">>}, prefix |-> {}]),
    Traces(TRUE, TRUE, "exports", [exact |-> {<<" ">>}, prefix |-> {<<" ">>}], NoRules),
    Traces(FALSE, TRUE, "exports", NoRules, NoRules),
    Traces(TRUE, FALSE, "exports", NoRules, NoRules),
    Traces(TRUE, TRUE, "samples", NoRules, [exact |-> {MCOpen}, prefix |-> {}]),
    Traces(TRUE, TRUE, "none", NoRules, NoRules)}
=============================================================================
