----------------------------- MODULE MCGrpcPair -----------------------------
(* Instances of GrpcPair for TLC. *)
EXTENDS GrpcPair

MCDuration == {0, 9, 10}
MCFile == {"", "ca.crt", "server.crt", "client.crt", "key.pem", "localhost",
           "ca2.crt", "server2.crt", "client2.crt", "svc", "missing"}
MCReadable == MCFile \ {"", "missing", "localhost", "svc"}
MCIssuer == [f \in MCFile |-> IF f \in {"server2.crt", "client2.crt"} THEN "ca2.crt" ELSE "ca.crt"]
MCNameOf == [f \in MCFile |-> IF f = "server2.crt" THEN "svc" ELSE "localhost"]

\* One aspect varies at a time: sizes, keepalive, TLS.
NoTls(size) == [max_msg_size |-> size, keepalive |-> Absent, tls |-> Absent]
ClientSizes(sizes) == {NoTls(n) : n \in sizes}
ClientKeepalives == {[NoTls(4) EXCEPT !.keepalive = k] :
    k \in {x \in Client_Keepalive : x.permit_without_stream \/ ~ x.enable}}
ClientTlss == {[NoTls(4) EXCEPT !.tls = t] :
    t \in [enable : BOOLEAN, cert_file : {"", "client2.crt", "missing"},
           key_file : {"", "key.pem"}, ca_file : {"", "ca2.crt", "missing"},
           server_name : {"", "svc"}]}

NoPolicy(size) == [max_msg_size |-> size, keepalive_enforcement_policy |-> Absent, tls |-> Absent]
ServerSizes(sizes) == {NoPolicy(n) : n \in sizes}
ServerPolicies == {[NoPolicy(4) EXCEPT !.keepalive_enforcement_policy = p] :
    p \in Server_KeepaliveEnforcementPolicy}
ServerTlss == {[NoPolicy(4) EXCEPT !.tls = t] :
    t \in [enable : BOOLEAN, cert_file : {"", "server2.crt", "missing"},
           key_file : {"", "key.pem"}, ca_file : {"", "ca2.crt"}]}

\* Below 2048 MB the product does not leave int32; at 2048 it is negative, at
\* 4096 zero, and SizesAreHonoured does not hold.
MCSize == {-1, 0, 1, 4, 2047}
MCClientConfigs == {Absent} \cup ClientSizes(MCSize) \cup ClientKeepalives \cup ClientTlss
MCServerConfigs == {Absent} \cup ServerSizes(MCSize) \cup ServerPolicies \cup ServerTlss
MCPayload == {0, 5, 17, 2047}
=============================================================================
