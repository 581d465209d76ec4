---------------------------- MODULE MCDataClients ----------------------------
(* Instances of DataClients for TLC. *)
EXTENDS DataClients

Search(retries, disable, tls) ==
    [addresses |-> <<"search">>, max_retries |-> retries, disable_retry |-> disable,
     discover_nodes_on_start |-> Absent, tls |-> tls]

Tls(file, config) == [file |-> file, config |-> config]

Path(p) == [ca_path |-> p]
Inline(p) == [ca_pem |-> p]

MCSearch ==
    {Absent, Search(Absent, Absent, Absent), Search(0, FALSE, Absent),
     Search(3, TRUE, Tls(Path("ca.crt"), Inline("pem"))),
     Search(Absent, Absent, Tls(Path(""), Inline("pem"))),
     Search(Absent, Absent, Tls(Absent, Inline("pem"))),
     Search(Absent, Absent, Tls(Absent, Inline("")))}

\* The options of programs.
NoOption == [f \in {} |-> 0]
OwnCA == [ca |-> "own"]
OwnRetries == [max_retries |-> 5]
MCOption == {NoOption, OwnCA, OwnRetries}

Database(driver) == [driver |-> driver, max_idle_connections |-> 0, max_open_connections |-> 8]
Redis(addr, trace) == [addr |-> addr, enable_tracing |-> trace, enable_metrics |-> FALSE]
Elastic(sniff) == [addresses |-> <<"elastic">>, enable_sniffer |-> sniff, enable_health |-> FALSE]

MCSetting ==
    {Absent} \cup
    [database : {Absent, Database("mysql"), Database("unknown")},
     redis : {Absent, Redis("cache:6379", TRUE)},
     elasticsearch : {Absent, Elastic(TRUE), Elastic(FALSE)}, opensearch : MCSearch]

MCOrder == {<<"ent", "redis", "elasticsearch", "opensearch">>, <<"opensearch", "ent">>,
            <<"redis", "opensearch", "elasticsearch">>}
=============================================================================
