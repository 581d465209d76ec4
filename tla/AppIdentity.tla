----------------------------- MODULE AppIdentity -----------------------------
(***************************************************************************)
(* The identity of an application (src/config/app_info.go): the AppInfo    *)
(* its main function passes to NewContext, the normalised copy the Context *)
(* keeps, the copies it hands out, and what logger, tracer, metrics and    *)
(* kratos tell the world.  A message is a pointer and its metadata is a    *)
(* map: whoever holds one of them may change it at any time.               *)
(*                                                                         *)
(* A name is the sequence of its parts, joined by "-"; blank text is "".   *)
(***************************************************************************)
EXTENDS Sequences

CONSTANTS
    Holder,        \* who may hold an AppInfo besides the Context: main, providers
    Main,          \* the holder that calls NewContext
    Context,
    Part,          \* parts of the names of projects, applications and services
    Text,          \* versions, instances and hosts, "" included
    Content,       \* what the metadata may hold
    Given,         \* the messages main may pass
    Environments,  \* what POD_NAME, HOSTNAME and the operating system may say
    Absent         \* no message, no map

DefaultAppVersion == "1.0.0"
UnknownHost == "unknown-host"

Everybody == Holder \cup {Context}

\* The map of an AppInfo is named after the holder for whom it was made.
AppInfo == [project : Seq(Part), app_id : Seq(Part), service_name : Seq(Part),
            instance_id : Text, version : Text, hostname : Text,
            metadata : Everybody \cup {Absent}]

ASSUME IdentityAssumption ==
    /\ Main \in Holder /\ Context \notin Holder
    /\ Absent \notin Everybody /\ Absent \notin AppInfo
    /\ {"", DefaultAppVersion, UnknownHost} \subseteq Text
    /\ Given \subseteq AppInfo \cup {Absent}
    /\ \A i \in Given \ {Absent} : i.metadata \in {Main, Absent}
    /\ Environments \subseteq [pod : Text, host : Text, system : Text]

VARIABLES
    info,      \* the AppInfo each holder points to
    content,   \* what each map holds
    env,       \* POD_NAME, HOSTNAME and the name the operating system gives
    given,     \* what NewContext was called with
    told       \* the identity each component of the program has published

vars == <<info, content, env, given, told>>

Component == {"logger", "tracer", "metrics", "app"}

-----------------------------------------------------------------------------
(* config/app_info.go *)

\* All three are trimmed; the last may be an error.
ResolveHost ==
    IF env.pod # "" THEN env.pod
    ELSE IF env.host # "" THEN env.host
    ELSE IF env.system # "" THEN env.system
    ELSE UnknownHost

serviceName(project, app) == project \o app

ServiceName(i) ==
    IF i = Absent THEN <<>>
    ELSE IF i.service_name # <<>> THEN i.service_name
    ELSE serviceName(i.project, i.app_id)

IsValidAppInfo(i) == i # Absent /\ i.app_id # <<>>

\* Faulty variant: the struct is copied, its map is not.
CloneShallow(h, i) == i

\* A deep copy for holder h; its map, if there is one, is a new one.
CloneAppInfo(h, i) ==
    IF i = Absent THEN Absent
    ELSE [i EXCEPT !.metadata = IF @ = Absent THEN Absent ELSE h]

ContentOf(i, default) == IF i = Absent \/ i.metadata = Absent THEN default ELSE content[i.metadata]

Empty == [project |-> <<>>, app_id |-> <<>>, service_name |-> <<>>, instance_id |-> "",
          version |-> "", hostname |-> "", metadata |-> Absent]

\* Faulty variant: the instance is named before the host is known.
NormalizeInstanceFirst(h, i) ==
    LET c == IF i = Absent THEN Empty ELSE CloneAppInfo(h, i)
    IN  [c EXCEPT !.version = IF @ = "" THEN DefaultAppVersion ELSE @,
                  !.hostname = IF @ = "" THEN ResolveHost ELSE @,
                  !.metadata = IF @ = Absent THEN h ELSE @,
                  !.service_name = IF @ = <<>> THEN serviceName(c.project, c.app_id) ELSE @,
                  !.instance_id = IF @ = "" /\ IsValidAppInfo(c) THEN c.hostname ELSE @]

\* A copy for h in which every default is filled in.
NormalizeAppInfo(h, i) ==
    LET c == IF i = Absent THEN Empty ELSE CloneAppInfo(h, i)
        host == IF c.hostname = "" THEN ResolveHost ELSE c.hostname
    IN  [c EXCEPT !.version = IF @ = "" THEN DefaultAppVersion ELSE @,
                  !.hostname = host,
                  !.metadata = IF @ = Absent THEN h ELSE @,
                  !.service_name = IF @ = <<>> THEN serviceName(c.project, c.app_id) ELSE @,
                  !.instance_id = IF @ = "" /\ IsValidAppInfo(c) THEN host ELSE @]

-----------------------------------------------------------------------------
Unsaid == [said |-> FALSE]
Identity(i, name) == [said |-> TRUE, name |-> name, instance |-> i.instance_id]

TypeOK ==
    /\ info \in [Everybody -> AppInfo \cup {Absent}]
    /\ \A h \in Everybody : info[h] # Absent => info[h].metadata \in {h, Absent}
    /\ content \in [Everybody -> Content]
    /\ env \in Environments
    /\ given \in AppInfo \cup {Absent}
    /\ \A k \in Component : told[k] = Unsaid \/ told[k].instance \in Text

Init ==
    /\ env \in Environments
    /\ \E c \in Content : content = [h \in Everybody |-> c]
    /\ \E i \in Given : info = [h \in Everybody |-> IF h = Main THEN i ELSE Absent]
    /\ given = Absent
    /\ told = [k \in Component |-> Unsaid]

\* NewContext normalises what main passes, nil included.
NewContext ==
    /\ info[Context] = Absent
    /\ info' = [info EXCEPT ![Context] = NormalizeAppInfo(Context, info[Main])]
    /\ content' = [content EXCEPT ![Context] = ContentOf(info[Main], @)]
    /\ given' = info[Main]
    /\ UNCHANGED <<env, told>>

\* AppInfoFromContext: a provider gets a copy of its own.
AppInfoFromContext(h) ==
    /\ h # Main
    /\ info[Context] # Absent
    /\ info' = [info EXCEPT ![h] = CloneAppInfo(h, info[Context])]
    /\ content' = [content EXCEPT ![h] = ContentOf(info[Context], @)]
    /\ UNCHANGED <<env, given, told>>

Tell(k, identity) ==
    /\ info[Context] # Absent
    /\ told' = [told EXCEPT ![k] = identity]
    /\ UNCHANGED <<info, content, env, given>>

\* Log lines carry an identity only if there is an application (logger.go:81).
NewLoggerProvider ==
    Tell("logger", IF IsValidAppInfo(info[Context])
                   THEN Identity(info[Context], ServiceName(info[Context])) ELSE Unsaid)

\* Tracer and metrics take the field, not the function.
NewTracerProvider == Tell("tracer", Identity(info[Context], info[Context].service_name))
NewMetricProvider == Tell("metrics", Identity(info[Context], info[Context].service_name))

NewApp ==
    LET i == CloneAppInfo(Context, info[Context])
    IN  Tell("app", Identity(i, ServiceName(i)))

\* Whoever holds a message clears it, or changes the map it refers to.
Change(h) ==
    /\ info[h] # Absent
    /\ \/ /\ info' = [info EXCEPT ![h] = [Empty EXCEPT !.metadata = info[h].metadata]]
          /\ UNCHANGED content
       \/ /\ info[h].metadata # Absent
          /\ \E c \in Content : content' = [content EXCEPT ![info[h].metadata] = c]
          /\ UNCHANGED info
    /\ UNCHANGED <<env, given, told>>

\* The environment is the process's.
Setenv ==
    /\ env' \in Environments
    /\ UNCHANGED <<info, content, given, told>>

Next ==
    \/ NewContext \/ NewLoggerProvider \/ NewTracerProvider \/ NewMetricProvider \/ NewApp
    \/ Setenv
    \/ \E h \in Holder : AppInfoFromContext(h) \/ Change(h)

Spec == Init /\ [][Next]_vars

-----------------------------------------------------------------------------
(* Properties *)

\* What main or a provider does with its AppInfo, its metadata included, never
\* reaches the Context (context_test.go:42, app_info_test.go:54).
ContextIsPrivate ==
    [][info[Context] # Absent =>
        /\ info'[Context] = info[Context]
        /\ content'[info[Context].metadata] = content[info[Context].metadata]]_vars

\* Whatever has been changed in between, everything the process publishes, log
\* lines, spans, metrics and its registration, carries one identity.
OneIdentity ==
    \A j, k \in Component : told[j].said /\ told[k].said => told[j] = told[k]

\* The Context's AppInfo is complete (README.md:109): an application has an
\* instance, a host and a service, explicit values are kept, and normalising it again,
\* in whatever environment, changes nothing.
NormalizedOnce ==
    info[Context] # Absent =>
        /\ info[Context].hostname # ""
        /\ NormalizeAppInfo(Context, info[Context]) = info[Context]
        /\ IsValidAppInfo(info[Context]) =>
            info[Context].instance_id # "" /\ ServiceName(info[Context]) # <<>>
        /\ given # Absent =>
            /\ given.version # "" => info[Context].version = given.version
            /\ given.service_name # <<>> => info[Context].service_name = given.service_name
            /\ given.instance_id # "" => info[Context].instance_id = given.instance_id

\* What the process publishes is one identity, which no default, no second
\* normalisation and no change behind its back makes another.
IdentityIsSound == TypeOK /\ NormalizedOnce /\ OneIdentity
=============================================================================
