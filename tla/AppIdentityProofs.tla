--------------------------- MODULE AppIdentityProofs ---------------------------
(***************************************************************************)
(* Theorems about the identity of an application, for any holders, names,  *)
(* environments and messages.                                              *)
(***************************************************************************)
EXTENDS AppIdentity, SequenceTheorems, TLAPS

\* What normalisation makes of a message of the Context.
Complete(i) ==
    /\ i \in AppInfo
    /\ i.metadata = Context
    /\ i.version # "" /\ i.hostname # ""
    /\ i.service_name = <<>> => serviceName(i.project, i.app_id) = <<>>
    /\ i.app_id # <<>> => i.instance_id # ""

\* The name of the service, once it is normalised, is its field.
TheIdentity == Identity(info[Context], info[Context].service_name)

\* Values main has given are those of the Context.
Obeyed(i) ==
    /\ given.version # "" => i.version = given.version
    /\ given.service_name # <<>> => i.service_name = given.service_name
    /\ given.instance_id # "" => i.instance_id = given.instance_id

\* Types, without the instances components have told of.
Typed ==
    /\ info \in [Everybody -> AppInfo \cup {Absent}]
    /\ \A h \in Everybody : info[h] # Absent => info[h].metadata \in {h, Absent}
    /\ content \in [Everybody -> Content]
    /\ env \in Environments
    /\ given \in AppInfo \cup {Absent}

\* The Context's message is complete from the start, and all that is published
\* is taken from it.
Published ==
    /\ info[Context] # Absent => Complete(info[Context])
    /\ info[Context] # Absent /\ given # Absent => Obeyed(info[Context])
    /\ \A k \in Component : told[k] = Unsaid \/ (info[Context] # Absent /\ told[k] = TheIdentity)

Inv == Typed /\ Published

-----------------------------------------------------------------------------
(* Messages *)

LEMMA Holders == Main \in Everybody /\ Context \in Everybody /\ Main # Context
BY IdentityAssumption DEF Everybody

\* A message is its fields.
LEMMA FieldsDecide ==
    ASSUME NEW i \in AppInfo, NEW j \in AppInfo,
           i.project = j.project, i.app_id = j.app_id, i.service_name = j.service_name,
           i.instance_id = j.instance_id, i.version = j.version, i.hostname = j.hostname,
           i.metadata = j.metadata
    PROVE  i = j
BY DEF AppInfo

\* A name with a part in it is not empty.
LEMMA NameIsNotEmpty ==
    ASSUME NEW p \in Seq(Part), NEW a \in Seq(Part), a # <<>>
    PROVE  serviceName(p, a) \in Seq(Part) /\ serviceName(p, a) # <<>>
<1>1. Len(a) > 0
  BY EmptySeq
<1>2. p \o a \in Seq(Part) /\ Len(p \o a) = Len(p) + Len(a)
  BY ConcatProperties
<1>3. Len(p) \in Nat /\ Len(a) \in Nat
  BY LenProperties
<1>4. p \o a # <<>>
  BY <1>1, <1>2, <1>3, EmptySeq
<1> QED BY <1>2, <1>4 DEF serviceName

LEMMA HostIsKnown ==
    ASSUME env \in Environments
    PROVE  ResolveHost \in Text /\ ResolveHost # ""
<1>1. env.pod \in Text /\ env.host \in Text /\ env.system \in Text
  BY IdentityAssumption
<1>2. UnknownHost \in Text /\ UnknownHost # ""
  BY IdentityAssumption DEF UnknownHost
<1> QED BY <1>1, <1>2 DEF ResolveHost

\* A copy has the fields of its original, and a map of its own.
LEMMA CloneIs ==
    ASSUME NEW h \in Everybody, NEW i \in AppInfo
    PROVE  /\ CloneAppInfo(h, i) \in AppInfo
           /\ CloneAppInfo(h, i).project = i.project /\ CloneAppInfo(h, i).app_id = i.app_id
           /\ CloneAppInfo(h, i).service_name = i.service_name
           /\ CloneAppInfo(h, i).instance_id = i.instance_id
           /\ CloneAppInfo(h, i).version = i.version
           /\ CloneAppInfo(h, i).hostname = i.hostname
           /\ CloneAppInfo(h, i).metadata = (IF i.metadata = Absent THEN Absent ELSE h)
<1>1. i # Absent
  BY IdentityAssumption
<1>2. CloneAppInfo(h, i) = [i EXCEPT !.metadata = IF @ = Absent THEN Absent ELSE h]
  BY <1>1 DEF CloneAppInfo
<1> QED BY <1>2 DEF AppInfo

LEMMA EmptyIs == Empty \in AppInfo
<1>1. "" \in Text
  BY IdentityAssumption
<1> QED BY <1>1, EmptySeq DEF Empty, AppInfo

\* What normalisation starts from: a copy, or the empty message.
Base(h, i) == IF i = Absent THEN Empty ELSE CloneAppInfo(h, i)

LEMMA BaseIs ==
    ASSUME NEW h \in Everybody, NEW i \in AppInfo \cup {Absent}
    PROVE  Base(h, i) \in AppInfo /\ Base(h, i).metadata \in {h, Absent}
<1>1. CASE i = Absent
  BY <1>1, EmptyIs DEF Base, Empty
<1>2. CASE i # Absent
  BY <1>2, CloneIs DEF Base
<1> QED BY <1>1, <1>2

\* The fields of a normalised message, one by one.
LEMMA NormalFields ==
    ASSUME NEW h \in Everybody, NEW i \in AppInfo \cup {Absent}, env \in Environments
    PROVE  LET c == Base(h, i)
               n == NormalizeAppInfo(h, i)
               host == IF c.hostname = "" THEN ResolveHost ELSE c.hostname
           IN  /\ n \in AppInfo
               /\ n.project = c.project /\ n.app_id = c.app_id
               /\ n.version = (IF c.version = "" THEN DefaultAppVersion ELSE c.version)
               /\ n.hostname = host
               /\ n.metadata = h
               /\ n.service_name = (IF c.service_name = <<>> THEN serviceName(c.project, c.app_id)
                                    ELSE c.service_name)
               /\ n.instance_id = (IF c.instance_id = "" /\ c.app_id # <<>> THEN host
                                   ELSE c.instance_id)
<1> DEFINE c == Base(h, i)
           n == NormalizeAppInfo(h, i)
           host == IF c.hostname = "" THEN ResolveHost ELSE c.hostname
           version == IF c.version = "" THEN DefaultAppVersion ELSE c.version
           map == IF c.metadata = Absent THEN h ELSE c.metadata
           service == IF c.service_name = <<>> THEN serviceName(c.project, c.app_id)
                      ELSE c.service_name
           instance == IF c.instance_id = "" /\ IsValidAppInfo(c) THEN host ELSE c.instance_id
<1>1. n = [c EXCEPT !.version = version, !.hostname = host, !.metadata = map,
                    !.service_name = service, !.instance_id = instance]
  BY DEF NormalizeAppInfo, Base
<1>2. c \in AppInfo /\ c.metadata \in {h, Absent} /\ c # Absent
  BY BaseIs, IdentityAssumption
<1>3. version \in Text /\ host \in Text /\ instance \in Text
  <2>1. c.version \in Text /\ c.hostname \in Text /\ c.instance_id \in Text
    BY <1>2 DEF AppInfo
  <2>2. DefaultAppVersion \in Text
    BY IdentityAssumption
  <2> QED BY <2>1, <2>2, HostIsKnown
<1>4. map = h
  BY <1>2
<1>5. service \in Seq(Part)
  BY <1>2, ConcatProperties DEF AppInfo, serviceName
<1>6. IsValidAppInfo(c) <=> c.app_id # <<>>
  BY <1>2 DEF IsValidAppInfo
<1>7. n \in AppInfo /\ n.project = c.project /\ n.app_id = c.app_id
      /\ n.version = version /\ n.hostname = host /\ n.metadata = map
      /\ n.service_name = service /\ n.instance_id = instance
  <2> HIDE DEF c, n, version, host, map, service, instance
  <2> QED BY <1>1, <1>2, <1>3, <1>4, <1>5 DEF AppInfo
<1> HIDE DEF c, n, host
<1> QED BY <1>4, <1>6, <1>7 DEF c, n, host

\* Normalisation completes a message, and keeps what it says.
LEMMA NormalIsComplete ==
    ASSUME NEW i \in AppInfo \cup {Absent}, env \in Environments
    PROVE  /\ Complete(NormalizeAppInfo(Context, i))
           /\ NormalizeAppInfo(Context, i) # Absent
           /\ i # Absent =>
                /\ i.version # "" => NormalizeAppInfo(Context, i).version = i.version
                /\ i.service_name # <<>> =>
                    NormalizeAppInfo(Context, i).service_name = i.service_name
                /\ i.instance_id # "" => NormalizeAppInfo(Context, i).instance_id = i.instance_id
<1> DEFINE c == Base(Context, i)
           n == NormalizeAppInfo(Context, i)
           host == IF c.hostname = "" THEN ResolveHost ELSE c.hostname
<1>1. /\ n \in AppInfo
      /\ n.project = c.project /\ n.app_id = c.app_id
      /\ n.version = (IF c.version = "" THEN DefaultAppVersion ELSE c.version)
      /\ n.hostname = host
      /\ n.metadata = Context
      /\ n.service_name = (IF c.service_name = <<>> THEN serviceName(c.project, c.app_id)
                           ELSE c.service_name)
      /\ n.instance_id = (IF c.instance_id = "" /\ c.app_id # <<>> THEN host ELSE c.instance_id)
  BY NormalFields, Holders
<1>2. host # ""
  BY HostIsKnown
<1>3. i # Absent => /\ c.version = i.version /\ c.service_name = i.service_name
                    /\ c.instance_id = i.instance_id
  BY CloneIs, Holders DEF Base
<1>4. n # Absent
  BY <1>1, IdentityAssumption
<1> HIDE DEF c, n, host
<1>5. n.version # ""
  BY <1>1 DEF DefaultAppVersion
<1>6. n.service_name = <<>> => serviceName(n.project, n.app_id) = <<>>
  BY <1>1
<1>7. n.app_id # <<>> => n.instance_id # ""
  BY <1>1, <1>2
<1>8. Complete(n)
  BY <1>1, <1>2, <1>5, <1>6, <1>7 DEF Complete
<1>9. i # Absent => /\ i.version # "" => n.version = i.version
                    /\ i.service_name # <<>> => n.service_name = i.service_name
                    /\ i.instance_id # "" => n.instance_id = i.instance_id
  BY <1>1, <1>3
<1> QED BY <1>4, <1>8, <1>9 DEF n

\* Whatever the environment has become, a complete message stays as it is.
LEMMA CompleteIsNormal ==
    ASSUME NEW i, Complete(i), env \in Environments
    PROVE  NormalizeAppInfo(Context, i) = i
<1> DEFINE c == Base(Context, i)
           n == NormalizeAppInfo(Context, i)
<1>1. i \in AppInfo /\ i # Absent
  BY IdentityAssumption DEF Complete
<1>2. c = CloneAppInfo(Context, i)
  BY <1>1 DEF Base
<1>3. /\ c.project = i.project /\ c.app_id = i.app_id /\ c.service_name = i.service_name
      /\ c.instance_id = i.instance_id /\ c.version = i.version /\ c.hostname = i.hostname
  BY <1>1, <1>2, CloneIs, Holders
<1>4. /\ n \in AppInfo
      /\ n.project = c.project /\ n.app_id = c.app_id
      /\ n.version = (IF c.version = "" THEN DefaultAppVersion ELSE c.version)
      /\ n.hostname = (IF c.hostname = "" THEN ResolveHost ELSE c.hostname)
      /\ n.metadata = Context
      /\ n.service_name = (IF c.service_name = <<>> THEN serviceName(c.project, c.app_id)
                           ELSE c.service_name)
      /\ n.instance_id = (IF c.instance_id = "" /\ c.app_id # <<>>
                          THEN IF c.hostname = "" THEN ResolveHost ELSE c.hostname
                          ELSE c.instance_id)
  BY <1>1, NormalFields, Holders
<1> HIDE DEF c, n
<1>5. n.version = i.version /\ n.hostname = i.hostname /\ n.instance_id = i.instance_id
  BY <1>3, <1>4 DEF Complete
<1>6. n.service_name = i.service_name
  BY <1>3, <1>4 DEF Complete
<1>7. n.project = i.project /\ n.app_id = i.app_id /\ n.metadata = i.metadata
  BY <1>3, <1>4 DEF Complete
<1>8. n = i
  BY <1>1, <1>4, <1>5, <1>6, <1>7, FieldsDecide
<1> QED BY <1>8 DEF n

\* Name and field agree in a complete message.
LEMMA NameIsField ==
    ASSUME NEW i, Complete(i)
    PROVE  /\ i # Absent /\ ServiceName(i) = i.service_name
           /\ i.app_id # <<>> => i.service_name # <<>>
<1>1. i \in AppInfo /\ i # Absent
  BY IdentityAssumption DEF Complete
<1>2. i.project \in Seq(Part) /\ i.app_id \in Seq(Part)
  BY <1>1 DEF AppInfo
<1> QED BY <1>1, <1>2, NameIsNotEmpty DEF Complete, ServiceName

-----------------------------------------------------------------------------
(* The invariant *)

THEOREM Initially == Init => Inv
<1> SUFFICES ASSUME Init PROVE Inv
  OBVIOUS
<1>1. PICK i \in Given : info = [h \in Everybody |-> IF h = Main THEN i ELSE Absent]
  BY DEF Init
<1>2. i \in AppInfo \cup {Absent} /\ (i # Absent => i.metadata \in {Main, Absent})
  BY IdentityAssumption
<1>3. info[Context] = Absent
  BY <1>1, Holders
<1>4. \A h \in Everybody : info[h] # Absent => info[h].metadata \in {h, Absent}
  BY <1>1, <1>2
<1>5. info \in [Everybody -> AppInfo \cup {Absent}]
  BY <1>1, <1>2
<1>6. content \in [Everybody -> Content]
  BY DEF Init
<1>7. Typed
  BY <1>4, <1>5, <1>6 DEF Init, Typed
<1>8. Published
  BY <1>3 DEF Init, Published
<1> QED BY <1>7, <1>8 DEF Inv

LEMMA ContextInv ==
    ASSUME Inv, NewContext
    PROVE  Inv'
<1> DEFINE n == NormalizeAppInfo(Context, info[Main])
<1>1. info[Main] \in AppInfo \cup {Absent} /\ info[Context] = Absent
  BY Holders DEF Inv, Typed, NewContext
<1>2. env \in Environments /\ UNCHANGED <<env, told>> /\ given' = info[Main]
  BY DEF Inv, Typed, NewContext
<1>3. Complete(n) /\ n # Absent
  BY <1>1, <1>2, NormalIsComplete
<1>4. info' = [info EXCEPT ![Context] = n]
  BY DEF NewContext
<1>5. given' # Absent =>
        /\ given'.version # "" => n.version = given'.version
        /\ given'.service_name # <<>> => n.service_name = given'.service_name
        /\ given'.instance_id # "" => n.instance_id = given'.instance_id
  BY <1>1, <1>2, NormalIsComplete
<1> HIDE DEF n
<1>6. info'[Context] = n
  BY <1>4, Holders DEF Inv, Typed
<1>7. Typed'
  <2>1. n \in AppInfo /\ n.metadata = Context
    BY <1>3 DEF Complete
  <2>2. info' \in [Everybody -> AppInfo \cup {Absent}]
    BY <1>4, <2>1 DEF Inv, Typed
  <2>3. \A h \in Everybody : info'[h] # Absent => info'[h].metadata \in {h, Absent}
    BY <1>4, <2>1 DEF Inv, Typed
  <2>4. content' \in [Everybody -> Content]
    <3>1. info[Main].metadata \in {Main, Absent} \/ info[Main] = Absent
      BY Holders DEF Inv, Typed
    <3>2. ContentOf(info[Main], content[Context]) \in Content
      BY <3>1, Holders DEF ContentOf, Inv, Typed
    <3>3. content' = [content EXCEPT ![Context] = ContentOf(info[Main], content[Context])]
      BY DEF NewContext
    <3> QED BY <3>2, <3>3 DEF Inv, Typed
  <2> QED BY <1>1, <1>2, <2>2, <2>3, <2>4 DEF Typed
<1>8. Published'
  <2>1. \A k \in Component : told'[k] = Unsaid
    BY <1>1, <1>2 DEF Inv, Published
  <2>2. Complete(info'[Context])
    BY <1>3, <1>6
  <2>3. given' # Absent => Obeyed(info[Context])'
    BY <1>5, <1>6 DEF Obeyed
  <2> QED BY <2>1, <2>2, <2>3 DEF Published, Unsaid, Complete
<1> QED BY <1>7, <1>8 DEF Inv

\* What others do with their messages leaves the invariant alone.
LEMMA OthersInv ==
    ASSUME Inv, info'[Context] = info[Context], UNCHANGED <<given, told>>, Typed'
    PROVE  Inv'
BY DEF Inv, Published, TheIdentity, Identity, Unsaid, Obeyed, Complete

LEMMA CopyInv ==
    ASSUME Inv, NEW h \in Holder, AppInfoFromContext(h)
    PROVE  Inv'
<1>1. h \in Everybody /\ h # Context
  BY IdentityAssumption DEF Everybody
<1>2. info[Context] # Absent /\ Complete(info[Context])
  BY DEF AppInfoFromContext, Inv, Published
<1>3. info[Context] \in AppInfo /\ info[Context].metadata = Context
  BY <1>2 DEF Complete
<1>4. /\ CloneAppInfo(h, info[Context]) \in AppInfo
      /\ CloneAppInfo(h, info[Context]).metadata \in {h, Absent}
  BY <1>1, <1>3, CloneIs
<1>5. info' = [info EXCEPT ![h] = CloneAppInfo(h, info[Context])]
  BY DEF AppInfoFromContext
<1>6. info' \in [Everybody -> AppInfo \cup {Absent}] /\ info'[Context] = info[Context]
  BY <1>1, <1>4, <1>5, Holders DEF Inv, Typed
<1>7. \A g \in Everybody : info'[g] # Absent => info'[g].metadata \in {g, Absent}
  BY <1>1, <1>4, <1>5 DEF Inv, Typed
<1>8. content' \in [Everybody -> Content]
  <2>1. ContentOf(info[Context], content[h]) \in Content
    BY <1>1, <1>3, Holders DEF ContentOf, Inv, Typed
  <2>2. content' = [content EXCEPT ![h] = ContentOf(info[Context], content[h])]
    BY DEF AppInfoFromContext
  <2> QED BY <2>1, <2>2 DEF Inv, Typed
<1>9. UNCHANGED <<env, given, told>>
  BY DEF AppInfoFromContext
<1> QED BY <1>6, <1>7, <1>8, <1>9, OthersInv DEF Inv, Typed

LEMMA ChangeInv ==
    ASSUME Inv, NEW h \in Holder, Change(h)
    PROVE  Inv'
<1>1. h \in Everybody /\ h # Context /\ UNCHANGED <<env, given, told>>
  BY IdentityAssumption DEF Everybody, Change
<1>2. info[h] \in AppInfo /\ info[h].metadata \in {h, Absent}
  BY <1>1 DEF Change, Inv, Typed
<1>3. CASE /\ info' = [info EXCEPT ![h] = [Empty EXCEPT !.metadata = info[h].metadata]]
           /\ UNCHANGED content
  <2> DEFINE e == [Empty EXCEPT !.metadata = info[h].metadata]
  <2>1. e \in AppInfo /\ e.metadata = info[h].metadata
    BY <1>2, EmptyIs DEF AppInfo
  <2> HIDE DEF e
  <2>2. info' = [info EXCEPT ![h] = e]
    BY <1>3 DEF e
  <2>3. info' \in [Everybody -> AppInfo \cup {Absent}] /\ info'[Context] = info[Context]
    BY <1>1, <2>1, <2>2, Holders DEF Inv, Typed
  <2>4. \A g \in Everybody : info'[g] # Absent => info'[g].metadata \in {g, Absent}
    BY <1>1, <1>2, <2>1, <2>2 DEF Inv, Typed
  <2> QED BY <1>1, <1>3, <2>3, <2>4, OthersInv DEF Inv, Typed
<1>4. CASE UNCHANGED info /\ content' \in [Everybody -> Content]
  BY <1>1, <1>4, OthersInv DEF Inv, Typed
<1>5. (\E k \in Content : content' = [content EXCEPT ![info[h].metadata] = k])
      => content' \in [Everybody -> Content]
  BY DEF Inv, Typed
<1> QED BY <1>3, <1>4, <1>5 DEF Change

LEMMA TellInv ==
    ASSUME Inv,
           NewLoggerProvider \/ NewTracerProvider \/ NewMetricProvider \/ NewApp
    PROVE  Inv'
<1>1. info[Context] # Absent /\ UNCHANGED <<info, content, env, given>>
  BY DEF NewLoggerProvider, NewTracerProvider, NewMetricProvider, NewApp, Tell
<1>2. Complete(info[Context])
  BY <1>1 DEF Inv, Published
<1>3. ServiceName(info[Context]) = info[Context].service_name
  BY <1>2, NameIsField
<1>4. LET i == CloneAppInfo(Context, info[Context]) IN Identity(i, ServiceName(i)) = TheIdentity
  <2>1. info[Context] \in AppInfo /\ info[Context].metadata = Context
    BY <1>2 DEF Complete
  <2>2. Context # Absent
    BY Holders, IdentityAssumption
  <2>3. CloneAppInfo(Context, info[Context]) = info[Context]
    BY <2>1, <2>2, CloneIs, FieldsDecide, Holders
  <2> QED BY <1>3, <2>3 DEF TheIdentity
<1>5. PICK k \in Component, identity \in {Unsaid, TheIdentity} :
        told' = [told EXCEPT ![k] = identity]
  BY <1>3, <1>4
  DEF NewLoggerProvider, NewTracerProvider, NewMetricProvider, NewApp, Tell, Component, TheIdentity
<1>6. TheIdentity' = TheIdentity /\ Unsaid' = Unsaid
  BY <1>1 DEF TheIdentity, Identity, Unsaid
<1>7. \A j \in Component : told'[j] = Unsaid \/ told'[j] = TheIdentity
  BY <1>5 DEF Inv, Published
<1>8. Typed'
  BY <1>1 DEF Inv, Typed
<1>9. Published'
  BY <1>1, <1>6, <1>7 DEF Inv, Published, Obeyed, Complete
<1> QED BY <1>8, <1>9 DEF Inv

THEOREM StepKeepsInv == Inv /\ [Next]_vars => Inv'
<1> SUFFICES ASSUME Inv, [Next]_vars PROVE Inv'
  OBVIOUS
<1>1. CASE Setenv
  <2>1. Typed' /\ UNCHANGED <<info, given, told>>
    BY <1>1 DEF Inv, Typed, Setenv
  <2> QED BY <2>1, OthersInv
<1>2. CASE UNCHANGED vars
  <2>1. Typed' /\ UNCHANGED <<info, given, told>>
    BY <1>2 DEF Inv, Typed, vars
  <2> QED BY <2>1, OthersInv
<1> QED BY <1>1, <1>2, ContextInv, CopyInv, ChangeInv, TellInv DEF Next

-----------------------------------------------------------------------------
(* The theorems *)

\* The inductive invariant of identities.
THEOREM Invariance == Spec => []Inv
BY Initially, StepKeepsInv, PTL DEF Spec

\* The Context's identity is complete, stable under normalisation in any
\* environment, and the only one the process publishes.
THEOREM IdentityIsSoundTheorem == Spec => []IdentityIsSound
<1>1. ASSUME Inv PROVE IdentityIsSound
  <2>1. TypeOK
    <3>1. ASSUME NEW k \in Component PROVE told[k] = Unsaid \/ told[k].instance \in Text
      <4>1. info[Context] # Absent => info[Context].instance_id \in Text
        BY <1>1 DEF Inv, Published, Complete, AppInfo
      <4> QED BY <1>1, <4>1 DEF Inv, Published, TheIdentity, Identity
    <3> QED BY <1>1, <3>1 DEF Inv, Typed, TypeOK
  <2>2. NormalizedOnce
    <3>1. SUFFICES ASSUME info[Context] # Absent
                   PROVE  NormalizedOnce
      BY DEF NormalizedOnce
    <3>2. Complete(info[Context]) /\ env \in Environments
      BY <1>1, <3>1 DEF Inv, Typed, Published
    <3>3. NormalizeAppInfo(Context, info[Context]) = info[Context]
      BY <3>2, CompleteIsNormal
    <3>4. IsValidAppInfo(info[Context]) =>
            info[Context].instance_id # "" /\ ServiceName(info[Context]) # <<>>
      BY <3>2, NameIsField DEF IsValidAppInfo, Complete
    <3>5. given # Absent => Obeyed(info[Context])
      BY <1>1, <3>1 DEF Inv, Published
    <3>6. info[Context].hostname # ""
      BY <3>2 DEF Complete
    <3> QED BY <3>3, <3>4, <3>5, <3>6 DEF NormalizedOnce, Obeyed
  <2>3. OneIdentity
    <3>1. ~ Unsaid.said
      BY DEF Unsaid
    <3>2. \A k \in Component : told[k].said => told[k] = TheIdentity
      BY <1>1, <3>1 DEF Inv, Published
    <3> QED BY <3>2 DEF OneIdentity
  <2> QED BY <2>1, <2>2, <2>3 DEF IdentityIsSound
<1> QED BY <1>1, Invariance, PTL

\* Nobody reaches the Context through a message or a map of his own.
THEOREM ContextIsPrivateTheorem == Spec => ContextIsPrivate
<1> DEFINE Private == info[Context] # Absent =>
                        /\ info'[Context] = info[Context]
                        /\ content'[info[Context].metadata] = content[info[Context].metadata]
<1>1. ASSUME Inv, [Next]_vars PROVE [Private]_vars
  <2>1. SUFFICES ASSUME Next, info[Context] # Absent
                 PROVE  info'[Context] = info[Context] /\ content'[Context] = content[Context]
    BY <1>1 DEF Inv, Published, Complete
  <2>2. CASE NewContext
    BY <2>1, <2>2 DEF NewContext
  <2>3. CASE NewLoggerProvider \/ NewTracerProvider \/ NewMetricProvider \/ NewApp \/ Setenv
    BY <2>3 DEF NewLoggerProvider, NewTracerProvider, NewMetricProvider, NewApp, Tell, Setenv
  <2>4. ASSUME NEW h \in Holder, AppInfoFromContext(h)
        PROVE  info'[Context] = info[Context] /\ content'[Context] = content[Context]
    <3>1. h # Context
      BY IdentityAssumption
    <3> QED BY <1>1, <2>4, <3>1, Holders DEF AppInfoFromContext, Inv, Typed
  <2>5. ASSUME NEW h \in Holder, Change(h)
        PROVE  info'[Context] = info[Context] /\ content'[Context] = content[Context]
    <3>1. h # Context /\ h \in Everybody
      BY IdentityAssumption DEF Everybody
    <3>2. info[h] # Absent /\ info[h].metadata \in {h, Absent}
      BY <1>1, <2>5, <3>1 DEF Change, Inv, Typed
    <3>3. info[h].metadata # Context
      BY <3>1, <3>2, Holders, IdentityAssumption
    <3> QED BY <1>1, <2>5, <3>1, <3>3, Holders DEF Change, Inv, Typed
  <2> QED BY <2>1, <2>2, <2>3, <2>4, <2>5 DEF Next
<1> QED BY <1>1, Invariance, PTL DEF Spec, ContextIsPrivate
=============================================================================
