--------------------------- MODULE StartupProofs ---------------------------
(***************************************************************************)
(* Proofs about Startup, for any number of Contexts, keys, file versions,  *)
(* calls of Run and other goroutines.                                      *)
(***************************************************************************)
EXTENDS Startup, WellFoundedInduction, TLAPS

\* The statements of Run behind the definition of the flag.
Loading == {"load", "scan", "tracer", "metrics", "answer", "publish"}
PastFlags == Loading \cup {"initApp", "app"}

\* The Contexts a Run of which has found no flag.
Passed(c) == pc[c] = "define" \/ pc[c] \in PastFlags \/ providers[c] # 0 \/ c \in config

\* The flag lets a Context past it once, and two of them only if they met: as long as the
\* flag is not there, whoever has looked it up is still about to define it.
OnePasses ==
    /\ \A c \in Ctx : pc[c] \in PastFlags \/ providers[c] # 0 \/ c \in config => flagDefined
    /\ \A c, d \in Ctx : c # d /\ Passed(c) /\ Passed(d) => {c, d} \in met
    /\ \A c \in Ctx : pc[c] \in {"define", "load"} => providers[c] = 0
    /\ \A c \in config : pc[c] \notin Loading \cup {"define"}
    /\ \A c \in Ctx : pc[c] \in {"initApp", "app"} => c \in config
    /\ \A c \in Ctx : providers[c] <= 1

\* How far the scans have come: targets are filled in order, from a reader
\* that only moves forward.
ScanProgress ==
    /\ \A c \in Ctx : reader[c] <= source
    /\ \A c \in Ctx : providers[c] = 0 => reader[c] = 0
    /\ \A c \in Ctx, t \in Target : scanned[c][t] <= reader[c]
    /\ \A c \in Ctx : pc[c] \in {"flags", "define", "load"} => BootstrapTarget \in toScan[c]
    /\ \A c \in Ctx : pc[c] = "scan" =>
        /\ reader[c] # 0
        /\ BootstrapTarget \in toScan[c] \/ scanned[c][BootstrapTarget] # 0
        /\ \A u \in toScan[c] :
            /\ scanned[c][u] = 0
            /\ \A t \in Target : scanned[c][t] # 0 => t < u
    /\ \A c \in Ctx : pc[c] \in Loading \ {"load", "scan"} \/ c \in config =>
        scanned[c][BootstrapTarget] # 0
    /\ ScansNeverGoBack

\* No application starts before the metrics settled without error.
MetricsSettled ==
    \A c \in Ctx : pc[c] = "publish" \/ c \in config => outcome = "nil"

Inv == TypeOK /\ OnePasses /\ ScanProgress /\ MetricsSettled /\ EveryAppIsCleanedUp

-----------------------------------------------------------------------------
(* The invariant holds initially and is kept by every action *)

LEMMA InitInv == Init => Inv
<1> SUFFICES ASSUME Init PROVE Inv
  OBVIOUS
<1> USE StartupAssumption DEF Init, Target, Key, BootstrapTarget
<1>1. TypeOK
  <2>1. Metrics!OnceTypeOK
    BY DEF Metrics!OnceTypeOK, Metrics!OnceInit
  <2>2. pc \in [Ctx -> PC]
    BY DEF PC
  <2>3. /\ runs \in 0..MaxRuns /\ source \in 1..MaxVersion /\ reader \in [Ctx -> 0..MaxVersion]
        /\ scanned \in [Ctx -> [Target -> 0..MaxVersion]]
    OBVIOUS
  <2> QED BY <2>1, <2>2, <2>3 DEF TypeOK
<1>2. OnePasses
  BY DEF OnePasses, Passed, Loading, PastFlags
<1>3. ScanProgress
  BY DEF ScanProgress, Loading, ScansNeverGoBack
<1>4. MetricsSettled
  BY DEF MetricsSettled
<1>5. EveryAppIsCleanedUp
  <2>1. \A c \in Ctx : cleanups[c] = 0 /\ built[c] = 0 /\ c \notin owed
    OBVIOUS
  <2>2. ASSUME NEW c \in Ctx
        PROVE  cleanups[c] + (IF c \in owed THEN 1 ELSE 0) = built[c]
    <3>1. (IF c \in owed THEN 1 ELSE 0) = 0
      OBVIOUS
    <3>2. 0 + 0 = 0
      OBVIOUS
    <3> QED BY <3>2, Zenon
  <2> QED BY <2>2, Zenon DEF EveryAppIsCleanedUp
<1> QED BY <1>1, <1>2, <1>3, <1>4, <1>5 DEF Inv

LEMMA RegisterInv == ASSUME Inv, NEW c \in Ctx, NEW k \in Key, Register(c, k) PROVE Inv'
<1> USE StartupAssumption DEF Register, Inv, At, Goto, Proceed, Panic, runVars,
     configVars, envVars, metricsVars
<1>1. TypeOK'
  BY DEF TypeOK, Metrics!OnceTypeOK
<1>2. OnePasses'
  BY DEF OnePasses, Passed
<1>3. ScanProgress'
  BY DEF ScanProgress, ScansNeverGoBack
<1>4. MetricsSettled'
  BY DEF MetricsSettled
<1>5. EveryAppIsCleanedUp'
  BY DEF EveryAppIsCleanedUp
<1> QED BY <1>1, <1>2, <1>3, <1>4, <1>5

LEMMA RunInv == ASSUME Inv, NEW c \in Ctx, Run(c) PROVE Inv'
<1> USE StartupAssumption DEF Run, Inv, At, Goto, Proceed, Panic, runVars, configVars,
     envVars, metricsVars
<1>1. TypeOK'
  <2>1. runs' \in 0..MaxRuns
    BY DEF TypeOK
  <2>2. custom[c] \cup {BootstrapTarget} \in SUBSET Target
    BY DEF TypeOK, Target
  <2> QED BY <2>2 DEF TypeOK, PC, Metrics!OnceTypeOK
<1>2. OnePasses'
  BY DEF OnePasses, Passed, Loading, PastFlags
<1>3. ScanProgress'
  BY DEF TypeOK, ScanProgress, ScansNeverGoBack, Loading
<1>4. MetricsSettled'
  BY DEF MetricsSettled
<1>5. EveryAppIsCleanedUp'
  BY DEF EveryAppIsCleanedUp, Finished
<1> QED BY <1>1, <1>2, <1>3, <1>4, <1>5

LEMMA LookupFlagInv == ASSUME Inv, NEW c \in Ctx, LookupFlag(c) PROVE Inv'
<1> USE StartupAssumption DEF LookupFlag, Inv, At, Goto, Proceed, Panic, runVars,
     configVars, envVars, metricsVars
<1>1. TypeOK'
  <2>1. pc' \in [Ctx -> PC]
    BY DEF TypeOK, PC
  <2>2. failed' \in [Ctx -> BOOLEAN]
    BY DEF TypeOK
  <2>3. met' \subseteq SUBSET Ctx
    <3>1. met \subseteq SUBSET Ctx
      BY DEF TypeOK
    <3>2. {{c, d} : d \in {e \in Ctx : pc[e] = "define"}} \subseteq SUBSET Ctx
      OBVIOUS
    <3>3. met' = met \/ met' = met \cup {{c, d} : d \in {e \in Ctx : pc[e] = "define"}}
      OBVIOUS
    <3> QED BY <3>1, <3>2, <3>3
  <2> QED BY <2>1, <2>2, <2>3 DEF TypeOK, Metrics!OnceTypeOK
<1>2. OnePasses'
  <2>1. CASE flagDefined
    BY <2>1 DEF TypeOK, OnePasses, Passed, Loading, PastFlags
  <2>2. CASE ~ flagDefined
    <3>1. /\ pc' = [pc EXCEPT ![c] = "define"] /\ pc[c] = "flags"
          /\ met' = met \cup {{c, d} : d \in {e \in Ctx : pc[e] = "define"}}
          /\ UNCHANGED <<flagDefined, config, providers>>
      BY <2>2
    <3>2. \A d \in Ctx : pc'[d] = IF d = c THEN "define" ELSE pc[d]
      BY <3>1 DEF TypeOK
    <3>3. \A d \in Ctx : pc[d] \notin PastFlags /\ providers[d] = 0 /\ d \notin config
      BY <2>2 DEF OnePasses
    <3>4. ASSUME NEW d \in Ctx, NEW e \in Ctx, d # e, Passed(d)', Passed(e)'
          PROVE  {d, e} \in met'
      <4>1. CASE d # c /\ e # c
        BY <3>1, <3>2, <3>4, <4>1 DEF OnePasses, Passed
      <4>2. CASE d = c
        <5>1. pc[e] = "define"
          BY <3>1, <3>2, <3>3, <3>4, <4>2 DEF Passed
        <5> QED BY <3>1, <4>2, <5>1
      <4>3. CASE e = c
        <5>1. pc[d] = "define"
          BY <3>1, <3>2, <3>3, <3>4, <4>3 DEF Passed
        <5>2. {d, e} = {c, d}
          BY <4>3
        <5> QED BY <3>1, <5>1, <5>2
      <4> QED BY <4>1, <4>2, <4>3
    <3>5. \A d \in Ctx : pc'[d] \in PastFlags \/ providers'[d] # 0 \/ d \in config' => flagDefined'
      BY <3>1, <3>2, <3>3 DEF PastFlags, Loading
    <3>6. /\ \A d \in config' : pc'[d] \notin Loading \cup {"define"}
          /\ \A d \in Ctx : pc'[d] \in {"initApp", "app"} => d \in config'
          /\ \A d \in Ctx : pc'[d] \in {"define", "load"} => providers'[d] = 0
          /\ \A d \in Ctx : providers'[d] <= 1
      BY <3>1, <3>2, <3>3 DEF TypeOK, OnePasses, PastFlags
    <3> QED BY <3>4, <3>5, <3>6 DEF OnePasses
  <2> QED BY <2>1, <2>2
<1>3. ScanProgress'
  <2>1. /\ pc[c] = "flags" /\ UNCHANGED <<toScan, scanned, config, reader, source, providers>>
        /\ \E l \in {"define", "unwind"} : pc' = [pc EXCEPT ![c] = l]
    OBVIOUS
  <2>2. \A d \in Ctx : d # c => pc'[d] = pc[d]
    BY <2>1
  <2>3. pc'[c] \in {"define", "unwind"}
    BY <2>1 DEF TypeOK
  <2>4. ScansNeverGoBack'
    BY <2>1 DEF ScanProgress, ScansNeverGoBack
  <2>5. BootstrapTarget \in toScan[c]
    BY <2>1 DEF ScanProgress
  <2>6. \A d \in Ctx : pc'[d] \in Loading \/ pc'[d] = "flags" => d # c
    BY <2>3 DEF Loading
  <2> QED BY <2>1, <2>2, <2>3, <2>4, <2>5, <2>6 DEF ScanProgress, Loading
<1>4. MetricsSettled'
  BY DEF TypeOK, MetricsSettled
<1>5. EveryAppIsCleanedUp'
  BY DEF TypeOK, EveryAppIsCleanedUp
<1> QED BY <1>1, <1>2, <1>3, <1>4, <1>5

LEMMA DefineFlagInv == ASSUME Inv, NEW c \in Ctx, DefineFlag(c) PROVE Inv'
<1> USE StartupAssumption DEF DefineFlag, Inv, At, Goto, Proceed, Panic, runVars,
     configVars, envVars, metricsVars
<1>1. TypeOK'
  BY DEF TypeOK, PC, Metrics!OnceTypeOK
<1>2. OnePasses'
  BY DEF TypeOK, OnePasses, Passed, Loading, PastFlags
<1>3. ScanProgress'
  BY <1>1 DEF TypeOK, ScanProgress, ScansNeverGoBack, Loading, PastFlags, Target
<1>4. MetricsSettled'
  BY DEF TypeOK, MetricsSettled
<1>5. EveryAppIsCleanedUp'
  BY DEF TypeOK, EveryAppIsCleanedUp
<1> QED BY <1>1, <1>2, <1>3, <1>4, <1>5

LEMMA FlagsCollideInv == ASSUME Inv, FlagsCollide PROVE Inv'
<1> USE StartupAssumption DEF FlagsCollide, Inv, runVars, configVars, envVars, metricsVars
<1>1. TypeOK'
  BY DEF TypeOK, Metrics!OnceTypeOK
<1>2. OnePasses'
  BY DEF OnePasses, Passed
<1>3. ScanProgress'
  BY DEF ScanProgress, ScansNeverGoBack
<1>4. MetricsSettled'
  BY DEF MetricsSettled
<1>5. EveryAppIsCleanedUp'
  BY DEF EveryAppIsCleanedUp
<1> QED BY <1>1, <1>2, <1>3, <1>4, <1>5

LEMMA LoadInv == ASSUME Inv, NEW c \in Ctx, Load(c) PROVE Inv'
<1> USE StartupAssumption DEF Inv, runVars, configVars, envVars, metricsVars
<1>1. PICK l \in {"scan", "unwind"} :
        /\ pc' = [pc EXCEPT ![c] = l]
        /\ failed' \in [Ctx -> BOOLEAN]
        /\ pc[c] = "load" /\ providers' = [providers EXCEPT ![c] = providers[c] + 1]
        /\ reader' = IF l = "scan" THEN [reader EXCEPT ![c] = source] ELSE reader
        /\ UNCHANGED <<runs, began, owed, built, cleanups, custom, toScan, scanned,
                       config, flagDefined, met, alive, source, metricsVars>>
  BY DEF Load, At, Goto, Proceed, Panic, TypeOK
<1>2. TypeOK'
  <2>1. reader' \in [Ctx -> 0..MaxVersion]
    BY <1>1 DEF TypeOK
  <2>2. providers' \in [Ctx -> Nat]
    BY <1>1 DEF TypeOK
  <2> QED BY <1>1 DEF TypeOK, PC, Metrics!OnceTypeOK
<1>3. OnePasses'
  BY <1>1 DEF TypeOK, OnePasses, Passed, Loading, PastFlags
<1>4. ScanProgress'
  <2>1. /\ providers[c] = 0 /\ reader[c] = 0 /\ source \in Nat \ {0}
        /\ BootstrapTarget \in toScan[c] /\ c \notin config
    BY <1>1 DEF TypeOK, OnePasses, ScanProgress, Loading
  <2>2. \A t \in Target : scanned[c][t] = 0
    BY <2>1 DEF TypeOK, ScanProgress
  <2>3. ScansNeverGoBack'
    BY <1>1 DEF ScanProgress, ScansNeverGoBack
  <2>4. \A d \in Ctx : d # c =>
            pc'[d] = pc[d] /\ reader'[d] = reader[d] /\ providers'[d] = providers[d]
    BY <1>1 DEF TypeOK
  <2>5. pc'[c] = l /\ providers'[c] # 0 /\ reader'[c] = IF l = "scan" THEN source ELSE 0
    BY <1>1, <2>1 DEF TypeOK
  <2>6. BootstrapTarget \in Target /\ \A d \in Ctx : toScan[d] \subseteq Target
    BY DEF TypeOK, Target
  <2>7. \A d \in Ctx : reader'[d] <= source'
    BY <1>1, <2>1, <2>4, <2>5 DEF ScanProgress
  <2>8. \A d \in Ctx, t \in Target : scanned'[d][t] <= reader'[d]
    BY <1>1, <2>1, <2>2, <2>4, <2>5 DEF ScanProgress
  <2> QED BY <1>1, <2>1, <2>2, <2>3, <2>4, <2>5, <2>6, <2>7, <2>8 DEF ScanProgress, Loading
<1>5. MetricsSettled'
  BY <1>1 DEF MetricsSettled
<1>6. EveryAppIsCleanedUp'
  BY <1>1 DEF EveryAppIsCleanedUp
<1> QED BY <1>2, <1>3, <1>4, <1>5, <1>6

LEMMA ScanInv == ASSUME Inv, NEW c \in Ctx, Scan(c) PROVE Inv'
<1> USE StartupAssumption DEF Inv, runVars, configVars, envVars, metricsVars
<1>1. PICK l \in {"scan", "unwind"} :
        /\ pc' = [pc EXCEPT ![c] = l]
        /\ failed' \in [Ctx -> BOOLEAN]
        /\ pc[c] = "scan"
        /\ \E t \in toScan[c] :
            /\ \A u \in toScan[c] : t <= u
            /\ IF l = "scan"
               THEN /\ scanned' = [scanned EXCEPT ![c][t] = reader[c]]
                    /\ toScan' = [toScan EXCEPT ![c] = @ \ {t}]
               ELSE UNCHANGED <<scanned, toScan>>
        /\ UNCHANGED <<runs, began, owed, built, cleanups, custom, config,
                       flagDefined, met, providers, envVars, metricsVars>>
  BY DEF Scan, At, Goto, Proceed, Panic, TypeOK
<1>2. TypeOK'
  <2>1. toScan' \in [Ctx -> SUBSET Target]
    BY <1>1 DEF TypeOK
  <2>2. scanned' \in [Ctx -> [Target -> 0..MaxVersion]]
    BY <1>1 DEF TypeOK
  <2>3. pc' \in [Ctx -> PC]
    BY <1>1 DEF TypeOK, PC
  <2> QED BY <1>1, <2>1, <2>2, <2>3 DEF TypeOK, Metrics!OnceTypeOK
<1>3. OnePasses'
  BY <1>1 DEF OnePasses, Passed, Loading, PastFlags
<1>4. ScanProgress'
  <2>1. CASE l = "unwind"
    BY <1>1, <2>1 DEF ScanProgress, ScansNeverGoBack, Loading
  <2>2. CASE l = "scan"
    <3>1. PICK t \in toScan[c] :
            /\ \A u \in toScan[c] : t <= u
            /\ scanned' = [scanned EXCEPT ![c][t] = reader[c]]
            /\ toScan' = [toScan EXCEPT ![c] = @ \ {t}]
      BY <1>1, <2>2
    <3>2. /\ t \in Target /\ Target \subseteq Nat /\ toScan[c] \subseteq Target
          /\ reader[c] \in Nat /\ reader[c] # 0
          /\ pc'[c] = "scan" /\ c \notin config /\ providers[c] # 0
          /\ \A d \in Ctx, u \in Target :
                /\ scanned[d][u] \in Nat
                /\ scanned'[d][u] = IF d = c /\ u = t THEN reader[c] ELSE scanned[d][u]
      <4>1. t \in Target /\ toScan[c] \subseteq Target /\ Target \subseteq Nat
        BY DEF TypeOK, Target, Key, BootstrapTarget
      <4>2. reader[c] \in Nat /\ reader[c] # 0 /\ providers[c] # 0 /\ pc'[c] = "scan"
        BY <1>1, <2>2 DEF TypeOK, ScanProgress
      <4>3. c \notin config
        BY <1>1 DEF OnePasses, Loading
      <4>4. \A d \in Ctx, u \in Target :
                /\ scanned[d][u] \in Nat
                /\ scanned'[d][u] = IF d = c /\ u = t THEN reader[c] ELSE scanned[d][u]
        BY <3>1 DEF TypeOK
      <4> QED BY <4>1, <4>2, <4>3, <4>4
    <3>3. \A u \in Target : scanned[c][u] # 0 => u < t /\ scanned[c][u] <= reader[c]
      BY <1>1 DEF ScanProgress
    <3>4. ScansNeverGoBack'
      <4> SUFFICES ASSUME NEW d \in Ctx, NEW u \in Target, NEW v \in Target,
                          u < v, scanned'[d][u] # 0, scanned'[d][v] # 0
                   PROVE  scanned'[d][u] <= scanned'[d][v]
        BY DEF ScansNeverGoBack
      <4>1. CASE d = c /\ v = t
        BY <3>2, <3>3, <4>1
      <4>2. CASE d = c /\ u = t
        BY <3>2, <3>3, <4>2
      <4>3. CASE d # c \/ (u # t /\ v # t)
        BY <3>2, <4>3 DEF ScanProgress, ScansNeverGoBack
      <4> QED BY <4>1, <4>2, <4>3
    <3>5. ASSUME NEW u \in toScan'[c]
          PROVE  /\ scanned'[c][u] = 0
                 /\ \A v \in Target : scanned'[c][v] # 0 => v < u
      <4>1. u \in toScan[c] /\ u \in Target /\ t < u
        BY <3>1, <3>2 DEF TypeOK
      <4>2. scanned[c][u] = 0 /\ \A v \in Target : scanned[c][v] # 0 => v < u
        BY <1>1, <4>1 DEF ScanProgress
      <4> QED BY <3>2, <4>1, <4>2
    <3>6. BootstrapTarget \in toScan'[c] \/ scanned'[c][BootstrapTarget] # 0
      BY <1>1, <3>1, <3>2 DEF ScanProgress
    <3>7. \A d \in Ctx : d # c =>
            /\ pc'[d] = pc[d] /\ toScan'[d] = toScan[d]
            /\ \A u \in Target : scanned'[d][u] = scanned[d][u]
      BY <1>1, <3>1
    <3>8. ASSUME NEW d \in Ctx, NEW u \in Target PROVE scanned'[d][u] <= reader[d]
      <4>1. CASE d = c /\ u = t
        BY <3>2, <4>1
      <4>2. CASE ~ (d = c /\ u = t)
        BY <3>2, <4>2 DEF ScanProgress
      <4> QED BY <4>1, <4>2
    <3>9. ASSUME NEW d \in Ctx, d # c, pc'[d] = "scan", NEW u \in toScan'[d]
          PROVE  scanned'[d][u] = 0 /\ \A v \in Target : scanned'[d][v] # 0 => v < u
      BY <3>7, <3>9 DEF TypeOK, ScanProgress
    <3>10. BootstrapTarget \in Target
      BY DEF Target
    <3> QED BY <1>1, <3>2, <3>4, <3>5, <3>6, <3>7, <3>9, <3>10 DEF ScanProgress
  <2> QED BY <2>1, <2>2
<1>5. MetricsSettled'
  BY <1>1 DEF MetricsSettled
<1>6. EveryAppIsCleanedUp'
  BY <1>1 DEF EveryAppIsCleanedUp
<1> QED BY <1>2, <1>3, <1>4, <1>5, <1>6

LEMMA ScanDoneInv == ASSUME Inv, NEW c \in Ctx, ScanDone(c) PROVE Inv'
<1> USE StartupAssumption DEF ScanDone, Inv, At, Goto, Proceed, Panic, runVars,
     configVars, envVars, metricsVars
<1>1. TypeOK'
  BY DEF TypeOK, PC, Metrics!OnceTypeOK
<1>2. OnePasses'
  BY DEF OnePasses, Passed, Loading, PastFlags
<1>3. ScanProgress'
  BY DEF ScanProgress, ScansNeverGoBack
<1>4. MetricsSettled'
  BY DEF MetricsSettled
<1>5. EveryAppIsCleanedUp'
  BY DEF EveryAppIsCleanedUp
<1> QED BY <1>1, <1>2, <1>3, <1>4, <1>5

LEMMA InitTracerInv == ASSUME Inv, NEW c \in Ctx, InitTracer(c) PROVE Inv'
<1> USE StartupAssumption DEF InitTracer, Inv, At, Goto, Proceed, Panic, runVars,
     configVars, envVars, metricsVars
<1>1. TypeOK'
  <2>1. pc' \in [Ctx -> PC]
    BY DEF TypeOK, PC
  <2>2. failed' \in [Ctx -> BOOLEAN]
    BY DEF TypeOK
  <2> QED BY <2>1, <2>2 DEF TypeOK, Metrics!OnceTypeOK
<1>2. OnePasses'
  BY DEF TypeOK, OnePasses, Passed, Loading, PastFlags
<1>3. ScanProgress'
  <2>1. UNCHANGED <<toScan, scanned, config, providers, source, reader>>
    OBVIOUS
  <2>2. \A d \in Ctx : \/ pc'[d] = pc[d]
                       \/ pc[d] = "tracer" /\ pc'[d] \in {"metrics", "unwind"}
    <3>1. pc \in [Ctx -> PC] /\ pc[c] = "tracer"
      BY DEF TypeOK
    <3>2. \E label \in {"metrics", "unwind"} : pc' = [pc EXCEPT ![c] = label]
      OBVIOUS
    <3> QED BY <3>1, <3>2
  <2> QED BY <2>1, <2>2 DEF ScanProgress, ScansNeverGoBack, Loading
<1>4. MetricsSettled'
  BY DEF TypeOK, MetricsSettled
<1>5. EveryAppIsCleanedUp'
  BY DEF TypeOK, EveryAppIsCleanedUp
<1> QED BY <1>1, <1>2, <1>3, <1>4, <1>5

LEMMA AskMetricsInv == ASSUME Inv, NEW c \in Ctx, AskMetrics(c) PROVE Inv'
<1> USE StartupAssumption DEF Inv, runVars, configVars, envVars, metricsVars,
     Metrics!Ask, Metrics!Refuse
<1>1. PICK l \in {"answer", "unwind"} :
        /\ pc' = [pc EXCEPT ![c] = l]
        /\ failed' \in [Ctx -> BOOLEAN]
        /\ pc[c] = "metrics"
        /\ UNCHANGED outcome
        /\ UNCHANGED <<runs, began, owed, built, cleanups, custom, configVars, envVars>>
  BY DEF AskMetrics, At, Goto, Proceed, Panic, TypeOK
<1>2. Metrics!OnceTypeOK'
  BY DEF AskMetrics, TypeOK, Metrics!OnceTypeOK
<1>3. TypeOK'
  BY <1>1, <1>2 DEF TypeOK, PC
<1>4. OnePasses'
  BY <1>1 DEF OnePasses, Passed, Loading, PastFlags
<1>5. ScanProgress'
  BY <1>1 DEF ScanProgress, ScansNeverGoBack, Loading
<1>6. MetricsSettled'
  BY <1>1 DEF MetricsSettled
<1>7. EveryAppIsCleanedUp'
  BY <1>1 DEF EveryAppIsCleanedUp
<1> QED BY <1>3, <1>4, <1>5, <1>6, <1>7

LEMMA AnswerMetricsInv == ASSUME Inv, NEW c \in Ctx, AnswerMetrics(c) PROVE Inv'
<1> USE StartupAssumption DEF Inv, runVars, configVars, envVars, metricsVars,
     Metrics!Answer
<1>1. PICK l \in {"publish", "unwind"} :
        /\ pc' = [pc EXCEPT ![c] = l]
        /\ failed' \in [Ctx -> BOOLEAN]
        /\ pc[c] = "answer" /\ (l = "publish" => outcome = "nil")
        /\ UNCHANGED outcome
        /\ UNCHANGED <<runs, began, owed, built, cleanups, custom, configVars, envVars>>
  BY DEF AnswerMetrics, At, Goto, Proceed, Panic, TypeOK
<1>2. Metrics!OnceTypeOK'
  BY DEF AnswerMetrics, TypeOK, Metrics!OnceTypeOK
<1>3. TypeOK'
  BY <1>1, <1>2 DEF TypeOK, PC
<1>4. OnePasses'
  BY <1>1 DEF OnePasses, Passed, Loading, PastFlags
<1>5. ScanProgress'
  BY <1>1 DEF ScanProgress, ScansNeverGoBack, Loading
<1>6. MetricsSettled'
  BY <1>1 DEF MetricsSettled
<1>7. EveryAppIsCleanedUp'
  BY <1>1 DEF EveryAppIsCleanedUp
<1> QED BY <1>3, <1>4, <1>5, <1>6, <1>7

LEMMA PublishInv == ASSUME Inv, NEW c \in Ctx, Publish(c) PROVE Inv'
<1> USE StartupAssumption DEF Publish, Inv, At, Goto, Proceed, Panic, runVars,
     configVars, envVars, metricsVars
<1>1. TypeOK'
  BY DEF TypeOK, PC, Metrics!OnceTypeOK
<1>2. OnePasses'
  BY DEF TypeOK, OnePasses, Passed, Loading, PastFlags
<1>3. ScanProgress'
  BY DEF ScanProgress, ScansNeverGoBack, Loading
<1>4. MetricsSettled'
  BY DEF MetricsSettled
<1>5. EveryAppIsCleanedUp'
  BY DEF EveryAppIsCleanedUp
<1> QED BY <1>1, <1>2, <1>3, <1>4, <1>5

LEMMA InitAppInv == ASSUME Inv, NEW c \in Ctx, InitApp(c) PROVE Inv'
<1> USE StartupAssumption DEF Inv, runVars, configVars, envVars, metricsVars
<1>1. PICK l \in {"app", "unwind"} :
        /\ pc' = [pc EXCEPT ![c] = l]
        /\ failed' \in [Ctx -> BOOLEAN]
        /\ pc[c] = "initApp"
        /\ \/ UNCHANGED <<owed, built>>
           \/ l = "app" /\ owed' = owed \cup {c} /\ built' = [built EXCEPT ![c] = built[c] + 1]
        /\ UNCHANGED <<runs, began, cleanups, custom, configVars, envVars, metricsVars>>
  BY DEF InitApp, At, Goto, Proceed, Panic, TypeOK
<1>2. TypeOK'
  <2>1. owed' \subseteq Ctx
    BY <1>1 DEF TypeOK
  <2>2. built' \in [Ctx -> Nat]
    <3>1. built \in [Ctx -> Nat] /\ built[c] + 1 \in Nat
      BY DEF TypeOK
    <3> QED BY <1>1, <3>1
  <2>3. pc' \in [Ctx -> PC]
    BY <1>1 DEF TypeOK, PC
  <2> QED BY <1>1, <2>1, <2>3, <2>2 DEF TypeOK, Metrics!OnceTypeOK
<1>3. OnePasses'
  BY <1>1 DEF OnePasses, Passed, Loading
<1>4. ScanProgress'
  BY <1>1 DEF OnePasses, ScanProgress, ScansNeverGoBack
<1>5. MetricsSettled'
  BY <1>1 DEF MetricsSettled
<1>6. EveryAppIsCleanedUp'
  BY <1>1 DEF TypeOK, EveryAppIsCleanedUp
<1> QED BY <1>2, <1>3, <1>4, <1>5, <1>6

LEMMA AppStopsInv == ASSUME Inv, NEW c \in Ctx, AppStops(c) PROVE Inv'
<1> USE StartupAssumption DEF AppStops, Inv, At, Goto, Proceed, Panic, runVars,
     configVars, envVars, metricsVars
<1>1. TypeOK'
  <2>1. pc' \in [Ctx -> PC]
    BY DEF TypeOK, PC
  <2>2. failed' \in [Ctx -> BOOLEAN]
    BY DEF TypeOK
  <2> QED BY <2>1, <2>2 DEF TypeOK, Metrics!OnceTypeOK
<1>2. OnePasses'
  BY DEF TypeOK, OnePasses, Passed, Loading
<1>3. ScanProgress'
  BY <1>1 DEF TypeOK, OnePasses, ScanProgress, ScansNeverGoBack, Loading, PC, Target
<1>4. MetricsSettled'
  BY DEF TypeOK, MetricsSettled
<1>5. EveryAppIsCleanedUp'
  BY DEF TypeOK, EveryAppIsCleanedUp
<1> QED BY <1>1, <1>2, <1>3, <1>4, <1>5

LEMMA UnwindInv == ASSUME Inv, NEW c \in Ctx, Unwind(c) PROVE Inv'
<1> USE StartupAssumption DEF Unwind, Inv, At, Goto, Proceed, Panic, runVars,
     configVars, envVars, metricsVars
<1>1. TypeOK'
  <2>1. owed' \subseteq Ctx
    BY DEF TypeOK
  <2>2. cleanups' \in [Ctx -> Nat]
    <3>1. cleanups \in [Ctx -> Nat] /\ cleanups[c] + 1 \in Nat
      BY DEF TypeOK
    <3> QED BY <3>1
  <2>3. pc' \in [Ctx -> PC]
    BY DEF TypeOK, PC
  <2> QED BY <2>1, <2>3, <2>2 DEF TypeOK, Metrics!OnceTypeOK
<1>2. OnePasses'
  BY DEF OnePasses, Passed, Loading, PastFlags
<1>3. ScanProgress'
  BY DEF ScanProgress, ScansNeverGoBack, Loading
<1>4. MetricsSettled'
  BY DEF MetricsSettled
<1>5. EveryAppIsCleanedUp'
  BY DEF TypeOK, EveryAppIsCleanedUp
<1> QED BY <1>1, <1>2, <1>3, <1>4, <1>5

LEMMA RecoverInv == ASSUME Inv, NEW c \in Ctx, Recover(c) PROVE Inv'
<1> USE StartupAssumption DEF Recover, Inv, At, Goto, Proceed, Panic, runVars,
     configVars, envVars, metricsVars
<1>1. TypeOK'
  BY DEF TypeOK, PC, Metrics!OnceTypeOK
<1>2. OnePasses'
  BY DEF OnePasses, Passed, Loading, PastFlags
<1>3. ScanProgress'
  BY DEF ScanProgress, ScansNeverGoBack, Loading
<1>4. MetricsSettled'
  BY DEF MetricsSettled
<1>5. EveryAppIsCleanedUp'
  BY DEF EveryAppIsCleanedUp
<1> QED BY <1>1, <1>2, <1>3, <1>4, <1>5

LEMMA CrashInv == ASSUME Inv, NEW c \in Ctx, Crash(c) PROVE Inv'
<1> USE StartupAssumption DEF Crash, Inv, At, Goto, Proceed, Panic, runVars, configVars,
     envVars, metricsVars
<1>1. TypeOK'
  BY DEF TypeOK, Metrics!OnceTypeOK
<1>2. OnePasses'
  BY DEF OnePasses, Passed
<1>3. ScanProgress'
  BY DEF ScanProgress, ScansNeverGoBack
<1>4. MetricsSettled'
  BY DEF MetricsSettled
<1>5. EveryAppIsCleanedUp'
  BY DEF EveryAppIsCleanedUp
<1> QED BY <1>1, <1>2, <1>3, <1>4, <1>5

LEMMA ExitInv == ASSUME Inv, NEW c \in Ctx, Exit(c) PROVE Inv'
<1> USE StartupAssumption DEF Exit, Inv, At, Goto, Proceed, Panic, runVars, configVars,
     envVars, metricsVars
<1>1. TypeOK'
  BY DEF TypeOK, Metrics!OnceTypeOK
<1>2. OnePasses'
  BY DEF OnePasses, Passed
<1>3. ScanProgress'
  BY DEF ScanProgress, ScansNeverGoBack
<1>4. MetricsSettled'
  BY DEF MetricsSettled
<1>5. EveryAppIsCleanedUp'
  BY DEF EveryAppIsCleanedUp
<1> QED BY <1>1, <1>2, <1>3, <1>4, <1>5

LEMMA OtherInitInv == ASSUME Inv, NEW e \in Other, OtherInit(e) PROVE Inv'
<1> USE StartupAssumption DEF OtherInit, Inv, At, Goto, Proceed, Panic, runVars,
     configVars, envVars, metricsVars, Metrics!Ask, Metrics!Refuse, Metrics!Answer
<1>1. TypeOK'
  BY DEF TypeOK, Metrics!OnceTypeOK
<1>2. OnePasses'
  BY DEF OnePasses, Passed
<1>3. ScanProgress'
  BY DEF ScanProgress, ScansNeverGoBack
<1>4. MetricsSettled'
  BY DEF MetricsSettled
<1>5. EveryAppIsCleanedUp'
  BY DEF EveryAppIsCleanedUp
<1> QED BY <1>1, <1>2, <1>3, <1>4, <1>5

LEMMA MetricsSettleInv == ASSUME Inv, MetricsSettle PROVE Inv'
<1> USE StartupAssumption DEF MetricsSettle, Inv, At, Goto, Proceed, Panic, runVars,
     configVars, envVars, metricsVars, Metrics!Settle
<1>1. TypeOK'
  BY DEF TypeOK, Metrics!OnceTypeOK
<1>2. OnePasses'
  BY DEF OnePasses, Passed
<1>3. ScanProgress'
  BY DEF ScanProgress, ScansNeverGoBack
<1>4. MetricsSettled'
  BY DEF MetricsSettled, MetricsResult
<1>5. EveryAppIsCleanedUp'
  BY DEF EveryAppIsCleanedUp
<1> QED BY <1>1, <1>2, <1>3, <1>4, <1>5

LEMMA EditInv == ASSUME Inv, Edit PROVE Inv'
<1> USE StartupAssumption DEF Edit, Inv, At, Goto, Proceed, Panic, runVars, configVars,
     envVars, metricsVars
<1>1. TypeOK'
  <2>1. source' \in 1..MaxVersion
    BY DEF TypeOK
  <2> QED BY DEF TypeOK, Metrics!OnceTypeOK
<1>2. OnePasses'
  BY DEF OnePasses, Passed
<1>3. ScanProgress'
  BY DEF TypeOK, ScanProgress, ScansNeverGoBack
<1>4. MetricsSettled'
  BY DEF MetricsSettled
<1>5. EveryAppIsCleanedUp'
  BY DEF EveryAppIsCleanedUp
<1> QED BY <1>1, <1>2, <1>3, <1>4, <1>5

LEMMA ReloadInv == ASSUME Inv, NEW c \in Ctx, Reload(c) PROVE Inv'
<1> USE StartupAssumption DEF Reload, Inv, At, Goto, Proceed, Panic, runVars,
     configVars, envVars, metricsVars
<1>1. TypeOK'
  <2>1. reader' \in [Ctx -> 0..MaxVersion]
    BY DEF TypeOK
  <2> QED BY DEF TypeOK, Metrics!OnceTypeOK
<1>2. OnePasses'
  BY DEF OnePasses, Passed
<1>3. ScanProgress'
  <2>1. /\ source \in Nat /\ reader[c] # 0 /\ reader[c] <= source
        /\ reader' = [reader EXCEPT ![c] = source]
        /\ \A d \in Ctx : reader[d] \in Nat
    BY DEF TypeOK, ScanProgress
  <2>2. \A d \in Ctx : reader'[d] = IF d = c THEN source ELSE reader[d]
    BY <2>1 DEF TypeOK
  <2>3. ASSUME NEW d \in Ctx, NEW t \in Target PROVE scanned'[d][t] <= reader'[d]
    <3>1. scanned[d][t] \in Nat /\ scanned[d][t] <= reader[d]
      BY DEF TypeOK, ScanProgress
    <3> QED BY <2>1, <2>2, <3>1
  <2>4. ScansNeverGoBack'
    BY DEF ScanProgress, ScansNeverGoBack
  <2>5. \A d \in Ctx : /\ reader'[d] <= source'
                       /\ providers'[d] = 0 => reader'[d] = 0
                       /\ pc'[d] = "scan" => reader'[d] # 0
    BY <2>1, <2>2 DEF ScanProgress
  <2> QED BY <2>3, <2>4, <2>5 DEF ScanProgress
<1>4. MetricsSettled'
  BY DEF MetricsSettled
<1>5. EveryAppIsCleanedUp'
  BY DEF EveryAppIsCleanedUp
<1> QED BY <1>1, <1>2, <1>3, <1>4, <1>5

LEMMA NextInv == Inv /\ [Next]_vars => Inv'
<1> SUFFICES ASSUME Inv, [Next]_vars PROVE Inv'
  OBVIOUS
<1>1. CASE UNCHANGED vars
  BY <1>1 DEF vars, runVars, configVars, envVars, metricsVars, Inv, TypeOK,
     Metrics!OnceTypeOK, OnePasses, Passed, ScanProgress, ScansNeverGoBack, MetricsSettled,
     EveryAppIsCleanedUp
<1>2. ASSUME NEW c \in Ctx, NEW k \in Key, Register(c, k)
      PROVE  Inv'
  BY <1>2, RegisterInv
<1>3. ASSUME NEW c \in Ctx, Run(c) \/ Pipeline(c) \/ AppStops(c)
      PROVE  Inv'
  BY <1>3, RunInv, LookupFlagInv, DefineFlagInv, LoadInv, ScanInv, ScanDoneInv, InitTracerInv,
     AskMetricsInv, AnswerMetricsInv, PublishInv, InitAppInv, UnwindInv, AppStopsInv
     DEF Pipeline
<1>4. ASSUME NEW c \in Ctx, Recover(c) \/ Crash(c) \/ Exit(c) \/ Reload(c)
      PROVE  Inv'
  BY <1>4, RecoverInv, CrashInv, ExitInv, ReloadInv
<1> QED BY <1>1, <1>2, <1>3, <1>4, OtherInitInv, MetricsSettleInv, EditInv, FlagsCollideInv
     DEF Next

THEOREM Invariance == SafetySpec => []Inv
  BY InitInv, NextInv, PTL DEF SafetySpec

-----------------------------------------------------------------------------
(* What the module promises *)

\* Every variable keeps its type.
THEOREM TypeCorrect == SafetySpec => []TypeOK
<1>1. Inv => TypeOK
  BY DEF Inv
<1> QED BY <1>1, Invariance, PTL

\* Two Contexts of a process load a configuration only if their Runs met in flag.StringVar,
\* for any number of Contexts and of Runs (flag.go:23).
THEOREM OneBootstrapTheorem == SafetySpec => []OneBootstrapPerProcess
<1>1. Inv => OneBootstrapPerProcess
  BY DEF Inv, TypeOK, OnePasses, Passed, OneBootstrapPerProcess
<1> QED BY <1>1, Invariance, PTL

\* No application is constructed before its configuration was scanned and the
\* metrics of the process were initialised (bootstrap.go:108-126).
THEOREM PublishedIsCompleteTheorem == SafetySpec => []PublishedIsComplete
<1>1. Inv => PublishedIsComplete
  BY DEF Inv, OnePasses, ScanProgress, MetricsSettled, PublishedIsComplete
<1> QED BY <1>1, Invariance, PTL

\* No target is older than one scanned before it (context.go:111).
THEOREM ScansTheorem == SafetySpec => []ScansNeverGoBack
<1>1. Inv => ScansNeverGoBack
  BY DEF Inv, ScanProgress
<1> QED BY <1>1, Invariance, PTL

\* Every cleanup runs exactly once, between the end of its app and the end of
\* Run (context.go:136-142).
THEOREM CleanupTheorem == SafetySpec => []EveryAppIsCleanedUp
<1>1. Inv => EveryAppIsCleanedUp
  BY DEF Inv
<1> QED BY <1>1, Invariance, PTL

-----------------------------------------------------------------------------
(* Publication is final *)

LEMMA PublishedStep ==
    ASSUME Inv, Next, NEW c \in config
    PROVE  c \in config' /\ scanned'[c] = scanned[c] /\ custom'[c] = custom[c]
<1> USE DEF runVars, configVars, envVars, metricsVars
<1>1. c \in Ctx /\ \A d \in Ctx : pc[d] \in Loading => d # c
  BY DEF Inv, TypeOK, OnePasses
<1>2. ASSUME NEW d \in Ctx, NEW k \in Key, Register(d, k)
      PROVE  config' = config /\ scanned' = scanned /\ custom'[c] = custom[c]
  BY <1>2 DEF Register
<1>3. ASSUME NEW d \in Ctx, Scan(d)
      PROVE  config' = config /\ custom' = custom /\ scanned'[c] = scanned[c]
  BY <1>1, <1>3 DEF Scan, At, Loading, Inv, TypeOK
<1>4. ASSUME NEW d \in Ctx, Publish(d)
      PROVE  custom' = custom /\ scanned' = scanned /\ config' = config \cup {d}
  BY <1>4 DEF Publish
<1>5. ASSUME NEW d \in Ctx, Run(d) \/ (Pipeline(d) /\ ~ Scan(d) /\ ~ Publish(d)) \/ AppStops(d)
      PROVE  UNCHANGED <<custom, scanned, config>>
  BY <1>5 DEF Run, Pipeline, LookupFlag, DefineFlag, Load, ScanDone, InitTracer, AskMetrics,
     AnswerMetrics, InitApp, Unwind, AppStops
<1>6. ASSUME NEW d \in Ctx, Recover(d) \/ Crash(d) \/ Exit(d) \/ Reload(d)
      PROVE  UNCHANGED <<custom, scanned, config>>
  BY <1>6 DEF Recover, Crash, Exit, Reload
<1>7. ASSUME (\E e \in Other : OtherInit(e)) \/ MetricsSettle \/ Edit \/ FlagsCollide
      PROVE  UNCHANGED <<custom, scanned, config>>
  BY <1>7 DEF OtherInit, MetricsSettle, Edit, FlagsCollide
<1> QED BY <1>2, <1>3, <1>4, <1>5, <1>6, <1>7 DEF Next

\* A published configuration is never filled again (context.go:130).
THEOREM PublishedConfigTheorem == SafetySpec => PublishedConfigIsFinal
<1>1. Inv /\ [Next]_vars =>
        [\A c \in config : c \in config' /\ scanned'[c] = scanned[c]]_vars
  BY PublishedStep
<1> QED BY <1>1, Invariance, PTL DEF SafetySpec, PublishedConfigIsFinal

\* No target joins a published Context, whoever tries (context.go:56-58).
THEOREM PublishedKeysTheorem == SafetySpec => PublishedKeysAreFinal
<1>1. Inv /\ [Next]_vars => [\A c \in config : custom'[c] = custom[c]]_vars
  BY PublishedStep
<1> QED BY <1>1, Invariance, PTL DEF SafetySpec, PublishedKeysAreFinal

-----------------------------------------------------------------------------
(* Registration before Run *)

\* What Run has taken and not yet scanned, if nobody registers after it began.
KeysTaken ==
    \A c \in Ctx :
        /\ c \notin began => pc[c] = "idle" /\ c \notin config
        /\ \A k \in custom[c] :
            /\ pc[c] \in {"flags", "define", "load", "scan"} => k \in toScan[c] \/ scanned[c][k] # 0
            /\ pc[c] \in Loading \ {"load", "scan"} \/ c \in config => scanned[c][k] # 0

LEMMA KeysTakenStep ==
    ASSUME ~ RegisterWhileRunning, Inv, KeysTaken, [Next]_vars
    PROVE  KeysTaken'
<1> USE DEF At, Goto, Proceed, Panic, runVars, configVars, envVars, metricsVars
<1>1. CASE UNCHANGED vars
  BY <1>1 DEF vars, KeysTaken
<1>2. ASSUME NEW c \in Ctx, NEW k \in Key, Register(c, k)
      PROVE  KeysTaken'
  BY <1>2 DEF Register, KeysTaken, Loading
<1>3. ASSUME NEW c \in Ctx, Run(c)
      PROVE  KeysTaken'
  BY <1>3 DEF Run, KeysTaken, Loading, Inv, TypeOK
<1>4. ASSUME NEW c \in Ctx, Scan(c)
      PROVE  KeysTaken'
  <2>1. /\ custom' = custom /\ began' = began /\ config' = config
        /\ pc[c] = "scan" /\ reader[c] # 0 /\ c \notin config
        /\ \A d \in Ctx : d # c =>
            pc'[d] = pc[d] /\ toScan'[d] = toScan[d] /\ scanned'[d] = scanned[d]
        /\ pc'[c] \in {"scan", "unwind"}
    BY <1>4 DEF Scan, Inv, TypeOK, OnePasses, ScanProgress, Loading
  <2>2. ASSUME NEW k \in custom[c], pc'[c] = "scan"
        PROVE  k \in toScan'[c] \/ scanned'[c][k] # 0
    <3>1. PICK t \in toScan[c] :
            /\ scanned' = [scanned EXCEPT ![c][t] = reader[c]]
            /\ toScan' = [toScan EXCEPT ![c] = @ \ {t}]
      BY <1>4, <2>2 DEF Scan, Inv, TypeOK
    <3>2. t \in Target /\ k \in Target
      BY DEF Inv, TypeOK, Target
    <3>3. k \in toScan[c] \/ scanned[c][k] # 0
      BY <2>1 DEF KeysTaken
    <3> QED BY <2>1, <3>1, <3>3 DEF Inv, TypeOK
  <2> QED BY <2>1, <2>2 DEF KeysTaken, Loading
<1>5. ASSUME NEW c \in Ctx,
             LookupFlag(c) \/ DefineFlag(c) \/ Load(c) \/ ScanDone(c) \/ InitTracer(c)
      PROVE  KeysTaken'
  BY <1>5 DEF LookupFlag, DefineFlag, Load, ScanDone, InitTracer, KeysTaken, Loading, Inv, TypeOK
<1>6. ASSUME NEW c \in Ctx, AskMetrics(c) \/ AnswerMetrics(c) \/ Publish(c) \/ InitApp(c)
      PROVE  KeysTaken'
  BY <1>6 DEF AskMetrics, AnswerMetrics, Publish, InitApp, KeysTaken, Loading, Inv,
     TypeOK
<1>7. ASSUME NEW c \in Ctx,
             Unwind(c) \/ AppStops(c) \/ Recover(c) \/ Crash(c) \/ Exit(c) \/ Reload(c)
      PROVE  KeysTaken'
  BY <1>7 DEF Unwind, AppStops, Recover, Crash, Exit, Reload, KeysTaken, Loading, Inv, TypeOK
<1>8. ASSUME (\E e \in Other : OtherInit(e)) \/ MetricsSettle \/ Edit \/ FlagsCollide
      PROVE  KeysTaken'
  BY <1>8 DEF OtherInit, MetricsSettle, Edit, FlagsCollide, KeysTaken
<1> QED BY <1>1, <1>2, <1>3, <1>4, <1>5, <1>6, <1>7, <1>8 DEF Next, Pipeline

\* A program that registers before Run only finds every target of a published
\* Context filled (context.go:44-66, README "只能在 Run 前注册").
THEOREM FilledTargetsTheorem ==
    ASSUME ~ RegisterWhileRunning
    PROVE  SafetySpec => []AppFindsFilledTargets
<1>1. Init => KeysTaken
  BY DEF Init, KeysTaken, Loading
<1>2. Inv /\ KeysTaken => AppFindsFilledTargets
  BY DEF Inv, TypeOK, KeysTaken, AppFindsFilledTargets
<1>3. Inv /\ KeysTaken /\ [Next]_vars => KeysTaken'
  BY KeysTakenStep
<1> QED BY <1>1, <1>2, <1>3, Invariance, PTL DEF SafetySpec

-----------------------------------------------------------------------------
(* The metrics package, as the start-up uses it *)

\* Whatever the Contexts and the other goroutines do, they use the metrics package as
\* OnceResult describes it: one outcome, given to everybody who asked (bootstrap.go:117-124).
THEOREM MetricsPromise ==
    SafetySpec => Metrics!OnceInit /\ [][Metrics!OnceNext]_(Metrics!onceVars)
<1>1. Init => Metrics!OnceInit
  BY DEF Init
<1>2. [Next]_vars => [Metrics!OnceNext]_(Metrics!onceVars)
  <2> SUFFICES ASSUME [Next]_vars PROVE [Metrics!OnceNext]_(Metrics!onceVars)
    OBVIOUS
  <2> USE DEF metricsVars, Metrics!onceVars
  <2>1. CASE UNCHANGED vars
    BY <2>1 DEF vars
  <2>2. ASSUME NEW c \in Ctx, NEW k \in Key, Register(c, k) PROVE UNCHANGED Metrics!onceVars
    BY <2>2 DEF Register
  <2>3. ASSUME NEW c \in Ctx,
               \/ Run(c) \/ LookupFlag(c) \/ DefineFlag(c) \/ Load(c) \/ Scan(c) \/ ScanDone(c)
               \/ InitTracer(c) \/ Publish(c) \/ InitApp(c) \/ Unwind(c) \/ AppStops(c)
        PROVE  UNCHANGED Metrics!onceVars
    BY <2>3 DEF Run, LookupFlag, DefineFlag, Load, Scan, ScanDone, InitTracer, Publish,
       InitApp, Unwind, AppStops
  <2>4. ASSUME NEW c \in Ctx, Recover(c) \/ Crash(c) \/ Exit(c) \/ Reload(c)
        PROVE  UNCHANGED Metrics!onceVars
    BY <2>4 DEF Recover, Crash, Exit, Reload
  <2>5. ASSUME NEW c \in Ctx, AskMetrics(c) PROVE Metrics!Ask(c) \/ Metrics!Refuse(c)
    BY <2>5 DEF AskMetrics
  <2>6. ASSUME NEW c \in Ctx, AnswerMetrics(c) PROVE Metrics!Answer(c)
    BY <2>6 DEF AnswerMetrics
  <2>7. ASSUME NEW e \in Other, OtherInit(e)
        PROVE  Metrics!Ask(e) \/ Metrics!Refuse(e) \/ Metrics!Answer(e)
    BY <2>7 DEF OtherInit
  <2>8. CASE MetricsSettle
    BY <2>8 DEF MetricsSettle, Metrics!OnceNext
  <2>9. CASE Edit \/ FlagsCollide
    BY <2>9 DEF Edit, FlagsCollide
  <2>10. ASSUME NEW e \in Ctx \cup Other,
                Metrics!Ask(e) \/ Metrics!Refuse(e) \/ Metrics!Answer(e)
         PROVE  Metrics!OnceNext
    BY <2>10 DEF Metrics!OnceNext
  <2> QED BY <2>1, <2>2, <2>3, <2>4, <2>5, <2>6, <2>7, <2>8, <2>9, <2>10 DEF Next, Pipeline
<1> QED BY <1>1, <1>2, PTL DEF SafetySpec

-----------------------------------------------------------------------------
(* What a call of Run waits for *)

LEMMA LeastOf ==
    ASSUME NEW S \in SUBSET Nat, S # {}
    PROVE  \E t \in S : \A u \in S : t <= u
<1> DEFINE less == OpToRel(<, Nat)
<1>1. \A x, y \in Nat : <<y, x>> \in less <=> y < x
  BY DEF OpToRel
<1>2. IsWellFoundedOn(less, Nat)
  BY NatLessThanWellFounded
<1> HIDE DEF less
<1>3. PICK t \in S : \A u \in S : ~ (<<u, t>> \in less)
  BY <1>2, WFMin
<1>4. \A u \in S : t \in Nat /\ u \in Nat /\ ~ (u < t)
  BY <1>1, <1>3
<1>5. \A u \in S : t <= u
  BY <1>4
<1> QED BY <1>5

\* The Contexts that wait for the metrics are those whose Run is at that statement.
AskersWait == \A c \in Ctx : c \in asking <=> pc[c] = "answer"

LEMMA AskersStep == Inv /\ AskersWait /\ [Next]_vars => AskersWait'
<1> SUFFICES ASSUME Inv, AskersWait, [Next]_vars PROVE AskersWait'
  OBVIOUS
<1> USE DEF At, Goto, Proceed, Panic, metricsVars, runVars, Finished
<1>1. pc \in [Ctx -> PC]
  BY DEF Inv, TypeOK
<1>2. ASSUME NEW c \in Ctx, NEW label, label # "answer", pc[c] # "answer",
             pc' = [pc EXCEPT ![c] = label], asking' = asking
      PROVE  AskersWait'
  BY <1>1, <1>2 DEF AskersWait
<1>3. ASSUME pc' = pc, asking' = asking PROVE AskersWait'
  BY <1>3 DEF AskersWait
<1>4. CASE UNCHANGED vars
  BY <1>3, <1>4 DEF vars
<1>5. ASSUME NEW c \in Ctx, NEW k \in Key, Register(c, k) PROVE AskersWait'
  BY <1>3, <1>5 DEF Register
<1>6. ASSUME NEW c \in Ctx,
             Run(c) \/ LookupFlag(c) \/ DefineFlag(c) \/ Load(c) \/ Scan(c) \/ ScanDone(c)
      PROVE  AskersWait'
  BY <1>2, <1>6 DEF Run, LookupFlag, DefineFlag, Load, Scan, ScanDone
<1>7. ASSUME NEW c \in Ctx, InitTracer(c) \/ Publish(c) \/ InitApp(c) \/ AppStops(c)
      PROVE  AskersWait'
  BY <1>2, <1>7 DEF InitTracer, Publish, InitApp, AppStops
<1>8. ASSUME NEW c \in Ctx, Unwind(c) \/ Recover(c) PROVE AskersWait'
  BY <1>2, <1>8 DEF Unwind, Recover
<1>9. ASSUME NEW c \in Ctx, Crash(c) \/ Exit(c) \/ Reload(c) PROVE AskersWait'
  BY <1>3, <1>9 DEF Crash, Exit, Reload
<1>10. ASSUME NEW c \in Ctx, AskMetrics(c) PROVE AskersWait'
  <2>1. CASE Metrics!Ask(c) /\ Proceed(c, "answer")
    BY <1>1, <2>1 DEF Metrics!Ask, AskersWait
  <2>2. CASE Metrics!Refuse(c) /\ Panic(c)
    BY <1>2, <1>10, <2>2 DEF AskMetrics, Metrics!Refuse
  <2> QED BY <1>10, <2>1, <2>2 DEF AskMetrics
<1>11. ASSUME NEW c \in Ctx, AnswerMetrics(c) PROVE AskersWait'
  BY <1>1, <1>11 DEF AnswerMetrics, Metrics!Answer, AskersWait
<1>12. ASSUME NEW e \in Other, OtherInit(e) PROVE AskersWait'
  <2>1. e \notin Ctx
    BY StartupAssumption
  <2>2. pc' = pc /\ \A c \in Ctx : c \in asking' <=> c \in asking
    BY <1>12, <2>1 DEF OtherInit, Metrics!Ask, Metrics!Refuse, Metrics!Answer
  <2> QED BY <2>2 DEF AskersWait
<1>13. CASE MetricsSettle
  BY <1>3, <1>13 DEF MetricsSettle, Metrics!Settle
<1>14. CASE Edit \/ FlagsCollide
  BY <1>3, <1>14 DEF Edit, FlagsCollide
<1> QED BY <1>4, <1>5, <1>6, <1>7, <1>8, <1>9, <1>10, <1>11, <1>12, <1>13, <1>14
        DEF Next, Pipeline

\* What RunIsDecided rests on in every state: the statement a call of Run is at finds what
\* it needs.  A scan has a next target while targets are left, the metrics do not take the
\* Context for one that is asking already, and while it waits for the outcome it is one of
\* those the metrics will answer (context.go:100-113, metrics.go:60).
RunIsNeverStuck ==
    \A c \in Ctx :
        /\ pc[c] = "scan" /\ toScan[c] # {} => \E t \in toScan[c] : \A u \in toScan[c] : t <= u
        /\ pc[c] = "metrics" => c \notin asking
        /\ pc[c] = "answer" => c \in asking

\* No call of Run is ever left with targets and none to scan next, or with a metrics setup
\* that will not answer it (bootstrap.go:99-126).
THEOREM RunIsNeverStuckTheorem == SafetySpec => []RunIsNeverStuck
<1>1. Init => AskersWait
  BY DEF Init, AskersWait, Metrics!OnceInit
<1>2. Inv /\ AskersWait => RunIsNeverStuck
  <2> SUFFICES ASSUME Inv, AskersWait, NEW c \in Ctx, toScan[c] # {}
               PROVE  \E t \in toScan[c] : \A u \in toScan[c] : t <= u
    BY DEF AskersWait, RunIsNeverStuck
  <2>1. toScan[c] \in SUBSET Nat
    BY StartupAssumption DEF Inv, TypeOK, Target, Key, BootstrapTarget
  <2> QED BY <2>1, LeastOf
<1>3. SafetySpec => []AskersWait
  BY <1>1, AskersStep, Invariance, PTL DEF SafetySpec
<1> QED BY <1>2, <1>3, Invariance, PTL
=============================================================================
