--------------------------- MODULE MCAppIdentity ---------------------------
(* Instances of AppIdentity for TLC. *)
EXTENDS AppIdentity

MCPart == {"shop", "core", "custom"}
MCText == {"", DefaultAppVersion, UnknownHost, "v2", "pod-1", "node", "instance"}
MCContent == {"before", "after"}

\* No message; nothing but the application; no application; everything.
MCGiven ==
    {Absent} \cup
    [project : {<<>>, <<"shop">>}, app_id : {<<>>, <<"core">>}, service_name : {<<>>},
     instance_id : {"", "instance"}, version : {""}, hostname : {""},
     metadata : {Main, Absent}] \cup
    [project : {<<"shop">>}, app_id : {<<"core">>}, service_name : {<<>>, <<"custom">>},
     instance_id : {""}, version : {"v2"}, hostname : {"", "node"}, metadata : {Main}]

MCEnvironments == [pod : {"", "pod-1"}, host : {""}, system : {"", "node"}]
=============================================================================
