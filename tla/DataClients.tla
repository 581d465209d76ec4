------------------------------ MODULE DataClients ------------------------------
(***************************************************************************)
(* The constructors of the data and cache clients of this repository       *)
(* (src/data, src/cache), called by the initApp of a program one after the *)
(* other, each with the Data section of one configuration.                 *)
(*                                                                         *)
(* The constructors differ in what they do about a section that is missing *)
(* or wrong: they return nil, an error or a client with defaults, panic,   *)
(* or end the process.  What a program does with the clients is its own.   *)
(***************************************************************************)
EXTENDS Naturals, Sequences, SequencesExt

CONSTANTS
    Absent,  \* a section, an optional field or a file that is not there
    Setting, \* the Data sections that occur
    Order,   \* the orders in which programs call their constructors
    File,    \* names of CA files
    Pem,     \* CA certificates
    Option,  \* the options programs pass to the OpenSearch constructor themselves
    Driver   \* the database drivers that are linked in

Client == {"ent", "elasticsearch", "opensearch", "redis"}

\* What a constructor returns that has no client to return.
NilClient == [kind |-> "nil"]

\* The messages, without the fields no constructor looks at and those that only
\* repeat others here.
TLS_File == [ca_path : File \cup {""}]
TLS_Config == [ca_pem : Pem \cup {""}]
TLS == [file : TLS_File \cup {Absent}, config : TLS_Config \cup {Absent}]

Data_Database == [driver : STRING, max_idle_connections : Nat, max_open_connections : Nat]
Data_Redis == [addr : STRING, enable_tracing : BOOLEAN, enable_metrics : BOOLEAN]
Data_ElasticSearch == [addresses : Seq(STRING), enable_sniffer : BOOLEAN, enable_health : BOOLEAN]
Data_OpenSearch == [addresses : Seq(STRING), max_retries : Nat \cup {Absent},
                    disable_retry : BOOLEAN \cup {Absent},
                    discover_nodes_on_start : BOOLEAN \cup {Absent}, tls : TLS \cup {Absent}]

Data == [database : Data_Database \cup {Absent}, redis : Data_Redis \cup {Absent},
         elasticsearch : Data_ElasticSearch \cup {Absent},
         opensearch : Data_OpenSearch \cup {Absent}]

\* What the OpenSearch client can be told, besides its addresses.
OptionalField == {"max_retries", "disable_retry", "discover_nodes_on_start"}
OptionName == OptionalField \cup {"ca"}

ASSUME DataAssumption ==
    /\ Setting \subseteq Data \cup {Absent}
    /\ \A o \in Order : o \in Seq(Client) /\ IsInjective(o)
    /\ "" \notin File \cup Pem /\ Absent \notin Pem \cup {""}
    /\ \A opts \in Option : DOMAIN opts \subseteq OptionName

VARIABLES
    data,      \* the Data section of the configuration
    order,     \* what this program calls
    creator,   \* it passes a dbCreator
    opts,      \* its own options for OpenSearch
    files,     \* what the CA files hold; "" is an empty one, Absent one that cannot be read
    pc,        \* how far the process is
    built,     \* how many constructors have returned
    clients,   \* what they returned
    reachable  \* the Elasticsearch server answers

program == <<data, order, creator, opts, files>>
dataVars == <<program, pc, built, clients, reachable>>

-----------------------------------------------------------------------------
(* data/opensearch/client.go *)

SectionOf(field) == IF data = Absent THEN Absent ELSE data[field]

\* Faulty variant: a file that is not named, or not there, does not count.
LoadCACertDataLenient(t) ==
    IF t.file # Absent /\ t.file.ca_path # "" /\ files[t.file.ca_path] # Absent
    THEN files[t.file.ca_path]
    ELSE IF t.config # Absent /\ t.config.ca_pem # "" THEN t.config.ca_pem
    ELSE Absent

\* loadCACertData: the file comes first.  What is missing is an error, and so is an empty
\* path or PEM; an empty file is not.
LoadCACertData(t) ==
    IF t.file # Absent
    THEN IF t.file.ca_path = "" THEN Absent ELSE files[t.file.ca_path]
    ELSE IF t.config # Absent /\ t.config.ca_pem # "" THEN t.config.ca_pem
    ELSE Absent

\* The options the section sets: the fields that are there, and a CA that is not empty.
FromSection(o) ==
    {f \in OptionalField : o[f] # Absent}
    \cup {f \in {"ca"} : o.tls # Absent /\ LoadCACertData(o.tls) # ""}

\* The options of the caller come last, and so they win.
OpenSearchClient(o) ==
    [kind |-> "opensearch", addresses |-> o.addresses,
     set |-> [f \in FromSection(o) \cup DOMAIN opts |->
                IF f \in DOMAIN opts THEN opts[f]
                ELSE IF f = "ca" THEN LoadCACertData(o.tls) ELSE o[f]]]

Returns(client) == [how |-> "returns", client |-> client]
Ends(how) == [how |-> how]

\* The library may refuse the options, or fail to reach the nodes.
NewOpenSearchClient ==
    LET o == SectionOf("opensearch")
    IN  IF o = Absent THEN {Ends("error")}
        ELSE IF o.tls # Absent /\ LoadCACertData(o.tls) = Absent THEN {Ends("error")}
        ELSE {Returns(OpenSearchClient(o)), Ends("error")}

-----------------------------------------------------------------------------
(* The other constructors *)

\* Without section or creator there is a warning and no client.
NewEntClient ==
    LET d == SectionOf("database")
    IN  IF d = Absent \/ ~ creator THEN {Returns(NilClient)}
        ELSE IF d.driver \notin Driver THEN {Ends("exit")}
        ELSE {Returns([kind |-> "ent", pool |-> <<d.max_idle_connections,
                                                  d.max_open_connections>>])}

\* Sniffer and health check talk to the server at once.
NewElasticsearchClient ==
    LET e == SectionOf("elasticsearch")
    IN  IF e = Absent THEN {Ends("panic")}
        ELSE IF (e.enable_sniffer \/ e.enable_health) /\ ~ reachable THEN {Ends("exit")}
        ELSE {Returns([kind |-> "elasticsearch", addresses |-> e.addresses])}

\* The getters are safe on nil; go-redis replaces an empty address.
NewRedisClient ==
    LET r == SectionOf("redis")
        addr == IF r = Absent THEN "" ELSE r.addr
    IN  {Returns([kind |-> "redis",
                  addr |-> IF addr = "" THEN "localhost:6379" ELSE addr])}
        \cup IF r # Absent /\ (r.enable_tracing \/ r.enable_metrics)
             THEN {Ends("exit")} ELSE {}

Outcomes(c) ==
    CASE c = "ent" -> NewEntClient
      [] c = "elasticsearch" -> NewElasticsearchClient
      [] c = "opensearch" -> NewOpenSearchClient
      [] c = "redis" -> NewRedisClient

-----------------------------------------------------------------------------
DataTypeOK ==
    /\ data \in Setting /\ order \in Order
    /\ creator \in BOOLEAN /\ opts \in Option
    /\ files \in [File -> Pem \cup {"", Absent}]
    /\ pc \in {"building", "error", "panic", "exit", "up"}
    /\ built \in 0..Len(order)
    /\ DOMAIN clients = Client
    /\ \A c \in Client : clients[c].kind \in {c, "nil"}
    /\ reachable \in BOOLEAN

DataInit ==
    /\ data \in Setting /\ order \in Order
    /\ creator \in BOOLEAN /\ opts \in Option
    /\ files \in [File -> Pem \cup {"", Absent}]
    /\ pc = "building"
    /\ built = 0
    /\ clients = [c \in Client |-> NilClient]
    /\ reachable \in BOOLEAN

Calling == order[built + 1]

\* The next constructor returns, or brings initApp to an end.
Build ==
    /\ pc = "building" /\ built < Len(order)
    /\ \E o \in Outcomes(Calling) :
        IF o.how = "returns"
        THEN /\ built' = built + 1
             /\ clients' = [clients EXCEPT ![Calling] = o.client]
             /\ UNCHANGED pc
        ELSE pc' = o.how /\ UNCHANGED <<built, clients>>
    /\ UNCHANGED <<program, reachable>>

Serve ==
    /\ pc = "building" /\ built = Len(order)
    /\ pc' = "up"
    /\ UNCHANGED <<program, built, clients, reachable>>

ServerChanges ==
    /\ pc = "building"
    /\ reachable' = ~ reachable
    /\ UNCHANGED <<program, pc, built, clients>>

DataNext == Build \/ Serve \/ ServerChanges

DataSpec == DataInit /\ [][DataNext]_dataVars

-----------------------------------------------------------------------------
(* Properties *)

\* An OpenSearch client follows its caller, and where the caller says nothing its section.
\* Optional fields are in force exactly if they are there, zero and FALSE included.  A TLS
\* section is not replaced by the other one it may hold, and there is no CA for one reason
\* only: the file is there and empty.
OpenSearchFollowsItsSection ==
    LET set == clients["opensearch"].set
        o == SectionOf("opensearch")
    IN  clients["opensearch"] # NilClient =>
        /\ \A f \in DOMAIN opts : f \in DOMAIN set /\ set[f] = opts[f]
        /\ \A f \in OptionalField \ DOMAIN opts :
            IF o[f] = Absent THEN f \notin DOMAIN set ELSE f \in DOMAIN set /\ set[f] = o[f]
        /\ "ca" \notin DOMAIN opts =>
            /\ o.tls = Absent => "ca" \notin DOMAIN set
            /\ o.tls # Absent /\ o.tls.file # Absent =>
                LET held == files[o.tls.file.ca_path]
                IN  IF "ca" \in DOMAIN set THEN set["ca"] = held ELSE held = ""
            /\ o.tls # Absent /\ o.tls.file = Absent =>
                "ca" \in DOMAIN set /\ set["ca"] = o.tls.config.ca_pem

\* The clients are of their kinds, and the OpenSearch client follows its section.
ClientsAreSound == DataTypeOK /\ OpenSearchFollowsItsSection
=============================================================================
