------------------------- MODULE MiddlewareChainProofs -------------------------
(***************************************************************************)
(* Theorems about the middleware chains, for any requests, secrets, method *)
(* names and configurations.                                               *)
(*                                                                         *)
(* Every action but Crash, Restart and those of timeouts moves one request *)
(* by one layer that is there: down, up, or from the one to the other.     *)
(* EnterMoves and ResultMoves show that; what the properties need of a     *)
(* move is stated in Down, Turn and Up, and every part of the invariant is *)
(* proved from these three.                                                *)
(***************************************************************************)
EXTENDS MiddlewareChain, TLAPS

-----------------------------------------------------------------------------
(* The path *)

LayerName == {"clientRecovery", "clientTracing", "clientValidate", "clientAuth",
              "clientMetrics", "clientApp", "transport", "serverRecovery",
              "serverTracing", "serverValidate", "serverLimiter", "serverAuth",
              "serverLogging", "serverMetrics", "serverApp", "handler"}

\* Where the elements of two sequences are in the one they are joined to.
LEMMA Joined ==
    \A s, t \in Seq(LayerName) :
        /\ s \o t \in Seq(LayerName)
        /\ Len(s \o t) = Len(s) + Len(t)
        /\ \A i \in 1..Len(s) : (s \o t)[i] = s[i]
        /\ \A i \in 1..Len(t) : (s \o t)[Len(s) + i] = t[i]
OBVIOUS

LEMMA Single ==
    ASSUME NEW S, NEW a \in S
    PROVE  <<a>> \in Seq(S) /\ Len(<<a>>) = 1 /\ <<a>>[1] = a
OBVIOUS

\* The sixteen layers, from the caller to the handler.
LEMMA PathIs ==
    /\ Len(Path) = 16 /\ DOMAIN Path = 1..16
    /\ Path[1] = "clientRecovery" /\ Path[2] = "clientTracing"
    /\ Path[3] = "clientValidate" /\ Path[4] = "clientAuth"
    /\ Path[5] = "clientMetrics" /\ Path[6] = "clientApp"
    /\ Path[7] = "transport"
    /\ Path[8] = "serverRecovery" /\ Path[9] = "serverTracing"
    /\ Path[10] = "serverValidate" /\ Path[11] = "serverLimiter"
    /\ Path[12] = "serverAuth" /\ Path[13] = "serverLogging"
    /\ Path[14] = "serverMetrics" /\ Path[15] = "serverApp"
    /\ Path[16] = "handler"
<1>1. ClientOrder \in Seq(LayerName) /\ Len(ClientOrder) = 6
  BY DEF ClientOrder, LayerName
<1>2. ServerOrder \in Seq(LayerName) /\ Len(ServerOrder) = 8
  BY DEF ServerOrder, LayerName
<1>3. PICK t : t = <<"transport">>
  OBVIOUS
<1>4. PICK h : h = <<"handler">>
  OBVIOUS
<1>5. /\ t \in Seq(LayerName) /\ Len(t) = 1 /\ t[1] = "transport"
      /\ h \in Seq(LayerName) /\ Len(h) = 1 /\ h[1] = "handler"
  BY <1>3, <1>4, Single DEF LayerName
<1>6. PICK a : a = ClientOrder \o t
  OBVIOUS
<1>7. a \in Seq(LayerName) /\ Len(a) = 7 /\ a[7] = "transport"
      /\ \A i \in 1..6 : a[i] = ClientOrder[i]
  <2>1. /\ ClientOrder \o t \in Seq(LayerName)
        /\ Len(ClientOrder \o t) = Len(ClientOrder) + Len(t)
        /\ \A i \in 1..Len(ClientOrder) : (ClientOrder \o t)[i] = ClientOrder[i]
        /\ \A i \in 1..Len(t) : (ClientOrder \o t)[Len(ClientOrder) + i] = t[i]
    BY <1>1, <1>5, Joined, Zenon
  <2>2. Len(a) = 7 /\ a[6 + 1] = t[1]
    BY <1>1, <1>5, <1>6, <2>1
  <2> QED BY <1>1, <1>5, <1>6, <2>1, <2>2
<1>8. PICK b : b = a \o ServerOrder
  OBVIOUS
<1>9. b \in Seq(LayerName) /\ Len(b) = 15
      /\ (\A i \in 1..7 : b[i] = a[i]) /\ \A i \in 1..8 : b[7 + i] = ServerOrder[i]
  <2>1. /\ a \o ServerOrder \in Seq(LayerName)
        /\ Len(a \o ServerOrder) = Len(a) + Len(ServerOrder)
        /\ \A i \in 1..Len(a) : (a \o ServerOrder)[i] = a[i]
        /\ \A i \in 1..Len(ServerOrder) : (a \o ServerOrder)[Len(a) + i] = ServerOrder[i]
    BY <1>2, <1>7, Joined, Zenon
  <2>2. Len(a) = 7 /\ Len(ServerOrder) = 8
    BY <1>2, <1>7
  <2>3. b \in Seq(LayerName) /\ Len(b) = 15
    BY <1>8, <2>1, <2>2
  <2>4. \A i \in 1..7 : b[i] = a[i]
    BY <1>8, <2>1, <2>2
  <2>5. \A i \in 1..8 : b[7 + i] = ServerOrder[i]
    BY <1>8, <2>1, <2>2
  <2> QED BY <2>3, <2>4, <2>5
<1>10. Path = b \o h
  BY <1>3, <1>4, <1>6, <1>8 DEF Path
<1>11. Path \in Seq(LayerName) /\ Len(Path) = 16 /\ Path[16] = "handler"
       /\ \A i \in 1..15 : Path[i] = b[i]
  <2>1. /\ b \o h \in Seq(LayerName)
        /\ Len(b \o h) = Len(b) + Len(h)
        /\ \A i \in 1..Len(b) : (b \o h)[i] = b[i]
        /\ \A i \in 1..Len(h) : (b \o h)[Len(b) + i] = h[i]
    BY <1>5, <1>9, Joined, Zenon
  <2>2. Len(b) = 15 /\ Len(h) = 1 /\ h[1] = "handler"
    BY <1>5, <1>9
  <2>3. Path \in Seq(LayerName) /\ \A i \in 1..15 : Path[i] = b[i]
    BY <1>10, <2>1, <2>2
  <2>4. Len(Path) = 16
    BY <1>10, <2>1, <2>2
  <2>5. Path[15 + 1] = h[1]
    BY <1>10, <2>1, <2>2
  <2> QED BY <2>2, <2>3, <2>4, <2>5
<1>12. /\ ClientOrder[1] = "clientRecovery" /\ ClientOrder[2] = "clientTracing"
       /\ ClientOrder[3] = "clientValidate" /\ ClientOrder[4] = "clientAuth"
       /\ ClientOrder[5] = "clientMetrics" /\ ClientOrder[6] = "clientApp"
  BY DEF ClientOrder
<1>13. /\ ServerOrder[1] = "serverRecovery" /\ ServerOrder[2] = "serverTracing"
       /\ ServerOrder[3] = "serverValidate" /\ ServerOrder[4] = "serverLimiter"
       /\ ServerOrder[5] = "serverAuth" /\ ServerOrder[6] = "serverLogging"
       /\ ServerOrder[7] = "serverMetrics" /\ ServerOrder[8] = "serverApp"
  BY DEF ServerOrder
<1>14. \A i \in 1..7 : Path[i] = a[i]
  BY <1>9, <1>11
<1>15. \A i \in 1..8 : Path[7 + i] = ServerOrder[i]
  BY <1>9, <1>11
<1>16. Path[1] = ClientOrder[1] /\ Path[2] = ClientOrder[2] /\ Path[3] = ClientOrder[3]
       /\ Path[4] = ClientOrder[4] /\ Path[5] = ClientOrder[5] /\ Path[6] = ClientOrder[6]
       /\ Path[7] = "transport"
  BY <1>7, <1>14
<1>17. Path[7 + 1] = ServerOrder[1] /\ Path[7 + 2] = ServerOrder[2]
       /\ Path[7 + 3] = ServerOrder[3] /\ Path[7 + 4] = ServerOrder[4]
       /\ Path[7 + 5] = ServerOrder[5] /\ Path[7 + 6] = ServerOrder[6]
       /\ Path[7 + 7] = ServerOrder[7] /\ Path[7 + 8] = ServerOrder[8]
  BY <1>15
<1> QED BY <1>11, <1>12, <1>13, <1>16, <1>17

\* Every layer is there once.
LEMMA LayersDiffer ==
    \A i, j \in 1..16 : Path[i] = Path[j] => i = j
BY PathIs

LEMMA PositionIs ==
    /\ Position("clientRecovery") = 1 /\ Position("clientTracing") = 2
    /\ Position("clientAuth") = 4 /\ Position("transport") = 7
    /\ Position("serverRecovery") = 8 /\ Position("serverTracing") = 9
    /\ Position("serverValidate") = 10 /\ Position("serverLimiter") = 11
    /\ Position("serverAuth") = 12 /\ Position("serverLogging") = 13
    /\ Position("serverMetrics") = 14
BY PathIs, LayersDiffer DEF Position

\* n is the next layer that is installed below, or above, p.
NextBelow(p, n) ==
    /\ n \in (p + 1)..16 /\ Path[n] \in installed
    /\ \A k \in (p + 1)..(n - 1) : Path[k] \notin installed

NextAbove(p, n) ==
    /\ n \in 0..(p - 1) /\ (n # 0 => Path[n] \in installed)
    /\ \A k \in (n + 1)..(p - 1) : Path[k] \notin installed

LEMMA LeastLayer ==
    ASSUME NEW T \in SUBSET (1..16), 16 \in T
    PROVE  \E x \in T : \A y \in T : x <= y
OBVIOUS

LEMMA GreatestLayer ==
    ASSUME NEW T \in SUBSET (0..15), 0 \in T
    PROVE  \E x \in T : \A y \in T : x >= y
OBVIOUS

LEMMA BelowIs ==
    ASSUME "handler" \in installed, NEW p \in 0..15
    PROVE  NextBelow(p, Below(p))
<1> DEFINE T == {q \in DOMAIN Path : q > p /\ Path[q] \in installed}
<1>1. T \in SUBSET (1..16) /\ 16 \in T
  BY PathIs
<1>2. \E x \in T : \A y \in T : x <= y
  BY <1>1, LeastLayer
<1>3. Below(p) \in T /\ \A y \in T : Below(p) <= y
  BY <1>2 DEF Below, Min
<1> QED BY <1>3, PathIs DEF NextBelow

LEMMA AboveIs ==
    ASSUME NEW p \in 1..16
    PROVE  NextAbove(p, Above(p))
<1> DEFINE T == {0} \cup {q \in DOMAIN Path : q < p /\ Path[q] \in installed}
<1>1. T \in SUBSET (0..15) /\ 0 \in T
  BY PathIs
<1>2. \E x \in T : \A y \in T : x >= y
  BY <1>1, GreatestLayer
<1>3. Above(p) \in T /\ \A y \in T : Above(p) >= y
  BY <1>2 DEF Above, Max
<1> QED BY <1>3, PathIs DEF NextAbove
-----------------------------------------------------------------------------
(* The invariant *)

\* The layers are those of the two configurations.
Chosen == installed = {"transport", "handler"} \cup ClientLayers \cup ServerLayers

Beyond(r, layer) ==
    req[r].way = "down" /\ req[r].at > Position(layer) /\ layer \in installed

\* On its way down a request has passed what is installed above it.
Passed(r) ==
    /\ req[r].way = "idle" => req[r] = Idle
    /\ req[r].way = "down" => req[r].at # 0 /\ req[r].by = "none" /\ ~ req[r].panicked
    /\ Beyond(r, "clientAuth") => req[r].token = Secret(client)
    /\ Beyond(r, "serverValidate") => req[r].valid
    /\ Beyond(r, "serverLimiter") => server.limiter = "bbr"
    /\ Beyond(r, "serverAuth") => req[r].token = Secret(server)

\* What was served has passed all of it, and is on its way up.
Served(r) ==
    r \in served =>
        /\ req[r].way = "up"
        /\ "serverValidate" \in installed => req[r].valid
        /\ "serverAuth" \in installed => req[r].token = Secret(server)
        /\ server.limiter # "other"

\* A result comes from below, and a panic has not reached a recovery.
Returning(r) ==
    req[r].way = "up" =>
        /\ \E k \in 1..16 : k > req[r].at /\ req[r].by = Path[k]
        /\ req[r].result = "panic" =>
            /\ req[r].panicked
            /\ client.recovery => req[r].at >= Position("clientRecovery")
            /\ server.recovery => \/ req[r].at < Position("transport")
                                  \/ req[r].at >= Position("serverRecovery")
        /\ req[r].by = "serverAuth" =>
            ("clientAuth" \in installed => Secret(client) # Secret(server))

\* A slot is taken below the limiter only, but for the panics.
Counted(r) ==
    r \in slots =>
        /\ "serverLimiter" \in installed
        /\ req[r].way # "idle"
        /\ req[r].way = "down" => req[r].at > Position("serverLimiter")
        /\ req[r].panicked \/ req[r].at >= Position("serverLimiter")

Within(r, layer) ==
    \/ req[r].way = "down" /\ req[r].at > Position(layer)
    \/ req[r].way = "up" /\ req[r].at >= Position(layer)

\* Who gave up is on the client's side; the request stays on the server's until
\* its end.
Left(r) ==
    ~ Waits(r) =>
        /\ caller[r] < Position("transport")
        /\ req[r].way # "idle"
        /\ req[r].way = "down" => req[r].at > Position("transport")
        /\ req[r].way = "up" => req[r].at = 0 \/ req[r].at >= Position("transport")

\* The span of a client is open as long as the client is below its middleware.
ClientTraced(r) ==
    <<r, "clientTracing">> \in spans <=>
        /\ "clientTracing" \in installed
        /\ IF Waits(r) THEN Within(r, "clientTracing")
           ELSE caller[r] >= Position("clientTracing")

\* That of a server only so long.
ServerTraced(r) ==
    <<r, "serverTracing">> \in spans => "serverTracing" \in installed /\ Within(r, "serverTracing")

Traced(r) == Left(r) /\ ClientTraced(r) /\ ServerTraced(r)

\* What the server has observed of a request, and still has to observe.
Told(r) ==
    \A l \in {"serverLogging", "serverMetrics"} :
        /\ <<r, l>> \in observed =>
            /\ req[r].way = "up"
            /\ req[r].by \notin {"serverValidate", "serverLimiter", "serverAuth"}
        /\ /\ req[r].way = "up" /\ ~ req[r].panicked
           /\ req[r].by \in {"serverApp", "handler"}
           /\ req[r].at < Position(l) /\ l \in installed
           => <<r, l>> \in observed

\* The process is up as long as there is a recovery, and blames nobody else.
Sturdy ==
    server.recovery => ~ crashed /\ \A r \in Request : req[r].by # "transport"

Each(r) == Passed(r) /\ Served(r) /\ Returning(r) /\ Counted(r) /\ Traced(r) /\ Told(r)

Inv == TypeOK /\ Chosen /\ Sturdy /\ \A r \in Request : Each(r)

\* What the switches of the configurations install.
LEMMA WhatIsInstalled ==
    ASSUME Chosen
    PROVE  /\ "transport" \in installed /\ "handler" \in installed
           /\ client.recovery => "clientRecovery" \in installed
           /\ server.recovery => "serverRecovery" \in installed
           /\ "serverLimiter" \in installed <=> server.limiter # "none"
           /\ installed \subseteq LayerName
BY DEF Chosen, ClientLayers, ServerLayers, On, LayerName

THEOREM Initially == Init => Inv
<1> SUFFICES ASSUME Init PROVE Inv
  OBVIOUS
<1>1. Chosen
  BY DEF Init, Chosen
<1>2. TypeOK
  <2>1. installed \subseteq LayerName
    BY <1>1, WhatIsInstalled
  <2>2. \A x \in LayerName : \E i \in DOMAIN Path : x = Path[i]
    BY PathIs DEF LayerName
  <2>3. installed \subseteq {Path[i] : i \in DOMAIN Path}
    BY <2>1, <2>2
  <2>4. Idle \in [at : 0..Len(Path), way : {"idle", "down", "up"}, result : Outcome,
                  by : {"none"} \cup {Path[i] : i \in DOMAIN Path}, valid : BOOLEAN,
                  token : [key : Key \cup {NoKey}, method : {"HS256", "HS384", "HS512"}],
                  panicked : BOOLEAN]
    BY PathIs DEF Idle, Outcome, NoToken
  <2>5. caller \in [Request -> 0..Position("transport")]
    BY PositionIs DEF Init
  <2> QED BY <2>3, <2>4, <2>5 DEF Init, TypeOK, Idle
<1>3. Sturdy
  BY DEF Init, Sturdy, Idle
<1>4. ASSUME NEW r \in Request PROVE Each(r)
  <2>1. req[r] = Idle
    BY DEF Init
  <2>2. Passed(r) /\ Served(r) /\ Returning(r) /\ Counted(r)
    BY <2>1 DEF Init, Idle, Passed, Served, Returning, Counted, Beyond
  <2>3. Traced(r) /\ Told(r)
    BY <2>1 DEF Init, Idle, Traced, Left, ClientTraced, ServerTraced, Waits, Told, Within
  <2> QED BY <2>2, <2>3 DEF Each
<1> QED BY <1>1, <1>2, <1>3, <1>4 DEF Inv

-----------------------------------------------------------------------------
(* The three moves *)

Token == [key : Key \cup {NoKey}, method : {"HS256", "HS384", "HS512"}]
Result == {"reply", "error", "panic"}

Frame == [at : 0..16, way : {"idle", "down", "up"}, result : Outcome,
          by : {"none"} \cup LayerName, valid : BOOLEAN, token : Token, panicked : BOOLEAN]

Moves(r) ==
    /\ req' \in [Request -> Frame]
    /\ \A x \in Request \ {r} : req'[x] = req[x]

\* The request goes down, through the layer it was at.
Down(r) ==
    /\ UNCHANGED <<config, caller, observed, served, crashed>>
    /\ req[r].way \in {"idle", "down"}
    /\ Moves(r) /\ NextBelow(req[r].at, req'[r].at)
    /\ req'[r].way = "down" /\ req'[r].result = req[r].result /\ req'[r].by = req[r].by
    /\ req'[r].panicked = req[r].panicked
    /\ req[r].way = "down" =>
        /\ req'[r].valid = req[r].valid
        /\ req[r].at = Position("clientAuth") => req'[r].token = Secret(client)
        /\ req[r].at # Position("clientAuth") => req'[r].token = req[r].token
        /\ req[r].at = Position("serverValidate") => req[r].valid
        /\ req[r].at = Position("serverLimiter") => server.limiter = "bbr"
        /\ req[r].at = Position("serverAuth") => req[r].token = Secret(server)
    /\ slots' = IF req[r].way = "down" /\ req[r].at = Position("serverLimiter")
                THEN slots \cup {r} ELSE slots
    /\ spans' = IF req[r].way = "down"
                   /\ req[r].at \in {Position("clientTracing"), Position("serverTracing")}
                THEN spans \cup {<<r, Layer(r)>>} ELSE spans

\* A layer answers it, or the handler does.
Turn(r) ==
    /\ UNCHANGED <<config, caller, slots, spans, observed, crashed>>
    /\ req[r].way = "down"
    /\ req[r].at \notin {Position("clientRecovery"), Position("serverRecovery")}
    /\ Moves(r) /\ NextAbove(req[r].at, req'[r].at)
    /\ req'[r].way = "up" /\ req'[r].by = Layer(r) /\ req'[r].valid = req[r].valid
    /\ req'[r].token = req[r].token /\ req'[r].result # "none"
    /\ req'[r].panicked = (req'[r].result = "panic")
    /\ req[r].at = Position("transport") => crashed
    /\ req[r].at = Position("serverAuth") => req[r].token # Secret(server)
    /\ served' = IF req[r].at = 16 THEN served \cup {r} ELSE served

\* A layer hands the result on.
Up(r) ==
    /\ UNCHANGED <<config, caller, served, crashed>>
    /\ req[r].way = "up" /\ req[r].at # 0
    /\ req[r].at <= Position("transport") => Waits(r)
    /\ Moves(r) /\ NextAbove(req[r].at, req'[r].at)
    /\ req'[r].way = "up" /\ req'[r].by = req[r].by /\ req'[r].valid = req[r].valid
    /\ req'[r].token = req[r].token /\ req'[r].panicked = req[r].panicked
    /\ req'[r].result # "none"
    /\ req'[r].result = "panic" =>
        /\ req[r].result = "panic"
        /\ req[r].at \notin {Position("clientRecovery"), Position("transport"),
                             Position("serverRecovery")}
    /\ slots' = IF req[r].at = Position("serverLimiter") /\ req[r].result # "panic"
                THEN slots \ {r} ELSE slots
    /\ spans' = IF req[r].at \in {Position("clientTracing"), Position("serverTracing")}
                THEN spans \ {<<r, Layer(r)>>} ELSE spans
    /\ observed' = IF req[r].result # "panic"
                      /\ Layer(r) \in {"clientMetrics", "serverLogging", "serverMetrics"}
                   THEN observed \cup {<<r, Layer(r)>>} ELSE observed

\* What the types say of a request.
LEMMA RequestIs ==
    ASSUME TypeOK, NEW r \in Request
    PROVE  /\ req \in [Request -> Frame] /\ req[r] \in Frame
           /\ req[r].way = "up" <=> req[r].result # "none"
           /\ req[r].at # 0 => Path[req[r].at] \in installed
<1>1. {Path[i] : i \in DOMAIN Path} \subseteq LayerName
  <2>1. \A i \in 1..16 : Path[i] \in LayerName
    BY PathIs DEF LayerName
  <2> QED BY <2>1, PathIs
<1> QED BY <1>1, PathIs DEF TypeOK, Token, Frame

LEMMA SecretIsToken ==
    ASSUME TypeOK
    PROVE  Secret(client) \in Token
<1>1. client.key \in Key \cup {NoKey}
  BY ChainAssumption DEF TypeOK, Common
<1> QED BY <1>1 DEF Secret, Signing, Token

\* Where a request that is at a layer is.
LEMMA At ==
    ASSUME TypeOK, NEW r \in Request, req[r].at # 0, NEW k \in 1..16, Layer(r) = Path[k]
    PROVE  req[r].at = k
BY RequestIs, LayersDiffer DEF Layer, Frame

LEMMA MovesTo ==
    ASSUME TypeOK, NEW r \in Request, NEW q \in Frame, req' = [req EXCEPT ![r] = q]
    PROVE  Moves(r) /\ req'[r] = q
BY RequestIs DEF Moves

LEMMA CallMoves ==
    ASSUME Inv, NEW r \in Request, Call(r)
    PROVE  Down(r)
<1>1. req[r].way = "idle"
  BY DEF Call
<1>2. req[r] = Idle
  BY <1>1 DEF Inv, Each, Passed
<1>3. TypeOK /\ "handler" \in installed
  BY WhatIsInstalled DEF Inv
<1>4. req[r].at = 0 /\ req[r] \in Frame
  BY <1>2, <1>3, RequestIs DEF Idle
<1>5. PICK n : n = Below(req[r].at)
  OBVIOUS
<1>6. NextBelow(req[r].at, n) /\ n \in 1..16
  BY <1>3, <1>4, <1>5, BelowIs DEF NextBelow
<1>7. PICK v \in BOOLEAN :
        req' = [req EXCEPT ![r].way = "down", ![r].at = Below(@), ![r].valid = v]
  BY DEF Call
<1>8. PICK q : q = [req[r] EXCEPT !.way = "down", !.at = n, !.valid = v]
  OBVIOUS
<1>9. req' = [req EXCEPT ![r] = q]
  BY <1>5, <1>7, <1>8
<1>10. q \in Frame
  <2>1. req[r] \in Frame /\ n \in 0..16 /\ v \in BOOLEAN
    BY <1>4, <1>6
  <2> QED BY <1>8, <2>1 DEF Frame
<1>11. Moves(r) /\ req'[r] = q
  BY <1>3, <1>9, <1>10, MovesTo
<1>12. /\ q.way = "down" /\ q.at = n /\ q.result = req[r].result
       /\ q.by = req[r].by /\ q.panicked = req[r].panicked
  BY <1>4, <1>8 DEF Frame
<1>13. UNCHANGED <<config, effects>>
  BY DEF Call
<1> QED BY <1>1, <1>6, <1>11, <1>12, <1>13 DEF Down, effects

LEMMA PassMoves ==
    ASSUME Inv, NEW r \in Request, req[r].way = "down", req[r].at \in 1..15, Pass(r)
    PROVE  /\ Moves(r) /\ NextBelow(req[r].at, req'[r].at)
           /\ req'[r].way = "down" /\ req'[r].result = req[r].result
           /\ req'[r].by = req[r].by /\ req'[r].panicked = req[r].panicked
           /\ req'[r].valid = req[r].valid /\ req'[r].token = req[r].token
<1>1. TypeOK /\ "handler" \in installed
  BY WhatIsInstalled DEF Inv
<1>2. PICK n : n = Below(req[r].at)
  OBVIOUS
<1>3. NextBelow(req[r].at, n) /\ n \in 1..16
  BY <1>1, <1>2, BelowIs DEF NextBelow
<1>4. PICK q : q = [req[r] EXCEPT !.at = n]
  OBVIOUS
<1>5. req' = [req EXCEPT ![r] = q]
  BY <1>2, <1>4 DEF Pass
<1>6. req[r] \in Frame
  BY <1>1, RequestIs
<1>7. q \in Frame
  BY <1>3, <1>4, <1>6 DEF Frame
<1>8. Moves(r) /\ req'[r] = q
  BY <1>1, <1>5, <1>7, MovesTo
<1> QED BY <1>3, <1>4, <1>6, <1>8 DEF Frame

LEMMA AnswerMoves ==
    ASSUME Inv, NEW r \in Request, req[r].way = "down", req[r].at # 0,
           NEW x \in Result, Answer(r, x)
    PROVE  /\ Moves(r) /\ NextAbove(req[r].at, req'[r].at)
           /\ req'[r].way = "up" /\ req'[r].result = x /\ req'[r].by = Layer(r)
           /\ req'[r].panicked = (x = "panic")
           /\ req'[r].valid = req[r].valid /\ req'[r].token = req[r].token
<1>1. TypeOK
  BY DEF Inv
<1>2. req[r] \in Frame
  BY <1>1, RequestIs
<1>3. req[r].at \in 1..16
  BY <1>2 DEF Frame
<1>4. PICK n : n = Above(req[r].at)
  OBVIOUS
<1>5. NextAbove(req[r].at, n) /\ n \in 0..16
  BY <1>3, <1>4, AboveIs DEF NextAbove
<1>6. Layer(r) \in LayerName
  BY <1>3, PathIs DEF Layer, LayerName
<1>7. PICK q : q = [req[r] EXCEPT !.way = "up", !.at = n, !.result = x, !.by = Layer(r),
                                  !.panicked = (x = "panic")]
  OBVIOUS
<1>8. req' = [req EXCEPT ![r] = q]
  BY <1>4, <1>7 DEF Answer
<1>9. x \in Outcome /\ (x = "panic") \in BOOLEAN
  BY DEF Result, Outcome
<1>10. q \in Frame
  BY <1>2, <1>5, <1>6, <1>7, <1>9 DEF Frame
<1>11. Moves(r) /\ req'[r] = q
  BY <1>1, <1>8, <1>10, MovesTo
<1> QED BY <1>2, <1>5, <1>7, <1>11 DEF Frame

LEMMA ReturnMoves ==
    ASSUME Inv, NEW r \in Request, req[r].way = "up", req[r].at # 0,
           NEW x \in Result, Return(r, x)
    PROVE  /\ Moves(r) /\ NextAbove(req[r].at, req'[r].at)
           /\ req'[r].way = "up" /\ req'[r].result = x /\ req'[r].by = req[r].by
           /\ req'[r].panicked = req[r].panicked
           /\ req'[r].valid = req[r].valid /\ req'[r].token = req[r].token
<1>1. TypeOK
  BY DEF Inv
<1>2. req[r] \in Frame
  BY <1>1, RequestIs
<1>3. req[r].at \in 1..16
  BY <1>2 DEF Frame
<1>4. PICK n : n = Above(req[r].at)
  OBVIOUS
<1>5. NextAbove(req[r].at, n) /\ n \in 0..16
  BY <1>3, <1>4, AboveIs DEF NextAbove
<1>6. PICK q : q = [req[r] EXCEPT !.at = n, !.result = x]
  OBVIOUS
<1>7. req' = [req EXCEPT ![r] = q]
  BY <1>4, <1>6 DEF Return
<1>8. q \in Frame
  BY <1>2, <1>5, <1>6 DEF Frame, Result, Outcome
<1>9. Moves(r) /\ req'[r] = q
  BY <1>1, <1>7, <1>8, MovesTo
<1> QED BY <1>2, <1>5, <1>6, <1>9 DEF Frame

\* Where a request is that goes down, or up, through one of some layers.
LEMMA WhereItIs ==
    ASSUME Inv, NEW r \in Request, NEW layers,
           Descends(r, layers) \/ Ascends(r, layers)
    PROVE  /\ req[r].at \in 1..16 /\ Layer(r) = Path[req[r].at] /\ Layer(r) \in layers
           /\ \A k \in 1..16 : Layer(r) = Path[k] => req[r].at = k
           /\ Descends(r, layers) => req[r].way = "down"
           /\ Ascends(r, layers) => req[r].way = "up" /\ req[r].result \in Result
<1>1. req[r] \in Frame /\ (req[r].way = "up" <=> req[r].result # "none")
  BY RequestIs DEF Inv
<1>2. req[r].at # 0
  BY DEF Inv, Each, Passed, Descends, Ascends
<1>3. req[r].at \in 1..16
  BY <1>1, <1>2 DEF Frame
<1>4. \A k \in 1..16 : Layer(r) = Path[k] => req[r].at = k
  BY <1>3, LayersDiffer DEF Layer
<1>5. req[r].result \in Outcome
  BY <1>1 DEF Frame
<1> QED BY <1>1, <1>3, <1>4, <1>5 DEF Descends, Ascends, Layer, Outcome, Result

LEMMA EnterMoves ==
    ASSUME Inv, NEW r \in Request,
           Enter(r) \/ StartSpan(r) \/ Validate(r) \/ Transmit(r) \/ Limit(r)
             \/ Authenticate(r) \/ App(r) \/ Handle(r)
    PROVE  Down(r) \/ Turn(r)
<1> USE PositionIs
<1>1. CASE Enter(r)
  <2>1. req[r].way = "down" /\ req[r].at \in {1, 5, 8, 13, 14}
    BY <1>1, WhereItIs, PathIs DEF Enter
  <2>2. Pass(r) /\ UNCHANGED <<config, effects>>
    BY <1>1 DEF Enter
  <2> QED BY <2>1, <2>2, PassMoves DEF Down, effects
<1>2. CASE StartSpan(r)
  <2>1. req[r].way = "down" /\ req[r].at \in {2, 9}
    BY <1>2, WhereItIs, PathIs DEF StartSpan
  <2>2. Pass(r) /\ spans' = spans \cup {<<r, Layer(r)>>}
        /\ UNCHANGED <<config, caller, slots, observed, served, crashed>>
    BY <1>2 DEF StartSpan
  <2> QED BY <2>1, <2>2, PassMoves DEF Down
<1>3. CASE Validate(r)
  <2>1. req[r].way = "down" /\ req[r].at \in {3, 10}
    BY <1>3, WhereItIs, PathIs DEF Validate
  <2>2. UNCHANGED <<config, effects>>
    BY <1>3 DEF Validate
  <2>3. CASE req[r].valid /\ Pass(r)
    <3>1. /\ Moves(r) /\ NextBelow(req[r].at, req'[r].at)
          /\ req'[r].way = "down" /\ req'[r].result = req[r].result
          /\ req'[r].by = req[r].by /\ req'[r].panicked = req[r].panicked
          /\ req'[r].valid = req[r].valid /\ req'[r].token = req[r].token
      <4>1. Pass(r) /\ req[r].way = "down" /\ req[r].at \in 1..15
        BY <2>1, <2>3
      <4> QED BY <4>1, PassMoves
    <3>2. req[r].at = Position("serverValidate") => req[r].valid
      BY <2>3
    <3> QED BY <2>1, <2>2, <3>1, <3>2 DEF Down, effects
  <2>4. ASSUME NEW x \in Result, Answer(r, x) PROVE Turn(r)
    <3>1. req[r].way = "down" /\ req[r].at # 0 /\ req[r].at \notin {1, 7, 8, 12, 16}
      BY <2>1
    <3> QED BY <2>2, <2>4, <3>1, AnswerMoves DEF Turn, effects, Result
  <2> QED BY <1>3, <2>3, <2>4 DEF Validate, Result
<1>4. CASE Transmit(r)
  <2>1. req[r].way = "down" /\ req[r].at = 7
    BY <1>4, WhereItIs, PathIs DEF Transmit
  <2>2. UNCHANGED <<config, effects>>
    BY <1>4 DEF Transmit
  <2>3. CASE Pass(r)
    BY <2>1, <2>2, <2>3, PassMoves DEF Down, effects
  <2>4. CASE crashed /\ Answer(r, "error")
    BY <2>1, <2>2, <2>4, AnswerMoves DEF Turn, effects, Result
  <2> QED BY <1>4, <2>3, <2>4 DEF Transmit
<1>5. CASE Limit(r)
  <2>1. req[r].way = "down" /\ req[r].at = 11
    BY <1>5, WhereItIs, PathIs DEF Limit
  <2>2. UNCHANGED <<config, caller, spans, observed, served, crashed>>
    BY <1>5 DEF Limit
  <2>3. CASE server.limiter = "bbr" /\ Pass(r) /\ slots' = slots \cup {r}
    BY <2>1, <2>2, <2>3, PassMoves DEF Down
  <2>4. CASE Answer(r, "error") /\ UNCHANGED slots
    BY <2>1, <2>2, <2>4, AnswerMoves DEF Turn, Result
  <2>5. CASE Answer(r, "panic") /\ UNCHANGED slots
    BY <2>1, <2>2, <2>5, AnswerMoves DEF Turn, Result
  <2> QED BY <1>5, <2>3, <2>4, <2>5 DEF Limit
<1>6. CASE Authenticate(r)
  <2>1. req[r].way = "down" /\ req[r].at = 12
    BY <1>6, WhereItIs, PathIs DEF Authenticate
  <2>2. UNCHANGED <<config, effects>>
    BY <1>6 DEF Authenticate
  <2>3. CASE req[r].token = Secret(server) /\ Pass(r)
    BY <2>1, <2>2, <2>3, PassMoves DEF Down, effects
  <2>4. CASE req[r].token # Secret(server) /\ Answer(r, "error")
    BY <2>1, <2>2, <2>4, AnswerMoves DEF Turn, effects, Result
  <2> QED BY <1>6, <2>3, <2>4 DEF Authenticate
<1>7. CASE App(r)
  <2>1. req[r].way = "down" /\ req[r].at \in {6, 15}
    BY <1>7, WhereItIs, PathIs DEF App
  <2>2. UNCHANGED <<config, effects>>
    BY <1>7 DEF App
  <2>3. CASE Pass(r)
    BY <2>1, <2>2, <2>3, PassMoves DEF Down, effects
  <2>4. ASSUME NEW x \in Result, Answer(r, x) PROVE Turn(r)
    BY <2>1, <2>2, <2>4, AnswerMoves DEF Turn, effects, Result
  <2> QED BY <1>7, <2>3, <2>4 DEF App, Result
<1>8. CASE Handle(r)
  <2>1. req[r].way = "down" /\ req[r].at = 16
    BY <1>8, WhereItIs, PathIs DEF Handle
  <2>2. served' = served \cup {r} /\ UNCHANGED <<config, caller, slots, spans, observed, crashed>>
    BY <1>8 DEF Handle
  <2>3. ASSUME NEW x \in Result, Answer(r, x) PROVE Turn(r)
    BY <2>1, <2>2, <2>3, AnswerMoves DEF Turn, Result
  <2> QED BY <1>8, <2>3 DEF Handle, Result
<1> QED BY <1>1, <1>2, <1>3, <1>4, <1>5, <1>6, <1>7, <1>8

LEMMA SignMoves ==
    ASSUME Inv, NEW r \in Request, Sign(r)
    PROVE  Down(r)
<1>1. req[r].way = "down" /\ req[r].at = 4
  BY WhereItIs, PathIs DEF Sign
<1>2. TypeOK /\ "handler" \in installed
  BY WhatIsInstalled DEF Inv
<1>3. req[r] \in Frame
  BY <1>2, RequestIs
<1>4. PICK n : n = Below(req[r].at)
  OBVIOUS
<1>5. NextBelow(req[r].at, n) /\ n \in 0..16
  BY <1>1, <1>2, <1>4, BelowIs DEF NextBelow
<1>6. PICK t : t = Secret(client)
  OBVIOUS
<1>7. PICK q : q = [req[r] EXCEPT !.at = n, !.token = t]
  OBVIOUS
<1>8. req' = [req EXCEPT ![r] = q]
  BY <1>4, <1>6, <1>7 DEF Sign
<1>9. q \in Frame
  <2>1. req[r] \in Frame /\ n \in 0..16 /\ t \in Token
    BY <1>2, <1>3, <1>5, <1>6, SecretIsToken
  <2> QED BY <1>7, <2>1 DEF Frame
<1>10. Moves(r) /\ req'[r] = q
  BY <1>2, <1>8, <1>9, MovesTo
<1>11. /\ q.way = req[r].way /\ q.at = n /\ q.result = req[r].result /\ q.token = t
       /\ q.by = req[r].by /\ q.panicked = req[r].panicked /\ q.valid = req[r].valid
  BY <1>3, <1>7 DEF Frame
<1>12. UNCHANGED <<config, effects>>
  BY DEF Sign
<1> QED BY <1>1, <1>5, <1>6, <1>10, <1>11, <1>12, PositionIs DEF Down, effects

\* Who is on the way back through the client has not given up.
LEMMA AboveWaits ==
    ASSUME Inv, NEW r \in Request, req[r].way = "up", req[r].at \in 1..6
    PROVE  Waits(r)
BY PositionIs DEF Inv, Each, Traced, Left

LEMMA ResultMoves ==
    ASSUME Inv, NEW r \in Request,
           Recover(r) \/ EndSpan(r) \/ Release(r) \/ Observe(r) \/ Hand(r) \/ Reply(r)
    PROVE  Up(r)
<1> USE PositionIs
<1>1. CASE Recover(r)
  <2>1. req[r].way = "up" /\ req[r].at \in {1, 8} /\ req[r].result \in Result
        /\ Layer(r) \in {"clientRecovery", "serverRecovery"}
    BY <1>1, WhereItIs, PathIs DEF Recover
  <2>2. UNCHANGED <<config, effects>>
    BY <1>1 DEF Recover
  <2>3. PICK x \in Result : x # "panic" /\ Return(r, x)
    BY <1>1, <2>1 DEF Recover, Result
  <2> QED BY <2>1, <2>2, <2>3, AboveWaits, ReturnMoves DEF Up, effects, Result
<1>2. CASE EndSpan(r)
  <2>1. req[r].way = "up" /\ req[r].at \in {2, 9} /\ req[r].result \in Result
        /\ Layer(r) = Path[req[r].at]
    BY <1>2, WhereItIs, PathIs DEF EndSpan
  <2>2. UNCHANGED <<config, caller, slots, observed, served, crashed>>
        /\ spans' = spans \ {<<r, Layer(r)>>}
    BY <1>2 DEF EndSpan
  <2>3. PICK x \in Result : x = req[r].result /\ Return(r, x)
    BY <1>2, <2>1 DEF EndSpan
  <2> QED BY <2>1, <2>2, <2>3, AboveWaits, PathIs, ReturnMoves DEF Up, Result
<1>3. CASE Release(r)
  <2>1. req[r].way = "up" /\ req[r].at \in {11} /\ req[r].result \in Result
        /\ Layer(r) = Path[req[r].at]
    BY <1>3, WhereItIs, PathIs DEF Release
  <2>2. UNCHANGED <<config, caller, spans, observed, served, crashed>>
        /\ slots' = IF req[r].result = "panic" THEN slots ELSE slots \ {r}
    BY <1>3 DEF Release
  <2>3. PICK x \in Result : x = req[r].result /\ Return(r, x)
    BY <1>3, <2>1 DEF Release
  <2> QED BY <2>1, <2>2, <2>3, PathIs, ReturnMoves DEF Up, Result
<1>4. CASE Observe(r)
  <2>1. req[r].way = "up" /\ req[r].at \in {5, 13, 14} /\ req[r].result \in Result
        /\ Layer(r) = Path[req[r].at]
    BY <1>4, WhereItIs, PathIs DEF Observe
  <2>2. UNCHANGED <<config, caller, slots, spans, served, crashed>>
        /\ observed' = IF req[r].result = "panic" THEN observed
                       ELSE observed \cup {<<r, Layer(r)>>}
    BY <1>4 DEF Observe
  <2>3. PICK x \in Result : x = req[r].result /\ Return(r, x)
    BY <1>4, <2>1 DEF Observe
  <2> QED BY <2>1, <2>2, <2>3, AboveWaits, PathIs, ReturnMoves DEF Up, Result
<1>5. CASE Hand(r)
  <2>1. req[r].way = "up" /\ req[r].at \in {3, 10, 4, 12, 6, 15} /\ req[r].result \in Result
        /\ Layer(r) = Path[req[r].at]
    BY <1>5, WhereItIs, PathIs DEF Hand
  <2>2. UNCHANGED <<config, effects>>
    BY <1>5 DEF Hand
  <2>3. PICK x \in Result : x = req[r].result /\ Return(r, x)
    BY <1>5, <2>1 DEF Hand
  <2> QED BY <2>1, <2>2, <2>3, AboveWaits, PathIs, ReturnMoves DEF Up, effects, Result
<1>6. CASE Reply(r)
  <2>1. req[r].way = "up" /\ req[r].at = 7 /\ req[r].result \in Result
        /\ Layer(r) = "transport" /\ Waits(r)
    BY <1>6, WhereItIs, PathIs DEF Reply
  <2>2. UNCHANGED <<config, effects>>
    BY <1>6 DEF Reply
  <2>3. PICK x \in Result : x # "panic" /\ Return(r, x)
    BY <1>6, <2>1 DEF Reply, Result
  <2> QED BY <2>1, <2>2, <2>3, ReturnMoves DEF Up, effects, Result
<1> QED BY <1>1, <1>2, <1>3, <1>4, <1>5, <1>6

-----------------------------------------------------------------------------
(* A move preserves the invariant *)

\* What a request and the effects on it say to somebody who is not moved.
LEMMA OthersStay ==
    ASSUME Inv, NEW r \in Request, Down(r) \/ Turn(r) \/ Up(r),
           NEW x \in Request, x # r
    PROVE  Each(x)'
<1>1. req'[x] = req[x] /\ UNCHANGED config
  BY DEF Down, Turn, Up, Moves
<1>2. /\ x \in served' => x \in served
      /\ x \in slots' => x \in slots
      /\ \A l : <<x, l>> \in spans' <=> <<x, l>> \in spans
      /\ \A l : <<x, l>> \in observed' <=> <<x, l>> \in observed
  BY DEF Down, Turn, Up
<1>3. Each(x)
  BY DEF Inv
<1>4. Path' = Path /\ \A l : Position(l)' = Position(l)
  BY DEF Path, ClientOrder, ServerOrder, Position
<1>5. Passed(x)' /\ Served(x)'
  BY <1>1, <1>2, <1>3, <1>4 DEF Each, Passed, Served, Beyond, config, Secret
<1>6. Returning(x)' /\ Counted(x)'
  BY <1>1, <1>2, <1>3, <1>4 DEF Each, Returning, Counted, config, Secret
<1>7. Traced(x)' /\ Told(x)'
  <2>1. caller' = caller
    BY DEF Down, Turn, Up
  <2>2. Traced(x)'
    BY <1>1, <1>2, <1>3, <1>4, <2>1
       DEF Each, Traced, Left, ClientTraced, ServerTraced, Waits, Within, config
  <2> QED BY <1>1, <1>2, <1>3, <1>4, <2>2 DEF Each, Told, config
<1> QED BY <1>5, <1>6, <1>7 DEF Each

LEMMA DownKeeps ==
    ASSUME Inv, NEW r \in Request, Down(r)
    PROVE  Each(r)'
<1> DEFINE p == req[r].at
           n == req'[r].at
<1> USE PositionIs
<1>1. /\ p \in 0..15 /\ n \in (p + 1)..16
      /\ \A k \in (p + 1)..(n - 1) : Path[k] \notin installed
  <2>1. p \in 0..16 /\ n \in 0..16
    BY RequestIs DEF Inv, Frame, Down, Moves
  <2> QED BY <2>1 DEF Down, NextBelow
<1>2. Each(r) /\ req[r].way \in {"idle", "down"} /\ req'[r].way = "down"
      /\ (req[r].way = "idle" => p = 0)
  <2>1. Each(r) /\ req[r].way \in {"idle", "down"} /\ req'[r].way = "down"
    BY DEF Inv, Down
  <2>2. req[r].way = "idle" => req[r] = Idle
    BY <2>1 DEF Each, Passed
  <2> QED BY <2>1, <2>2 DEF Idle
<1>3. Passed(r)'
  BY <1>1, <1>2, PathIs DEF Each, Passed, Beyond, Down, config, Secret, Idle
<1>4. Served(r)' /\ Returning(r)'
  BY <1>2 DEF Each, Served, Returning, Down
<1>8. p # 0 => Path[p] \in installed
  BY RequestIs DEF Inv
<1>5. Counted(r)'
  BY <1>1, <1>2, <1>8, PathIs DEF Each, Counted, Down, config
<1>6. Traced(r)'
  <2>1. caller' = caller /\ installed' = installed
    BY DEF Down, config
  <2>2. Left(r) /\ ClientTraced(r) /\ ServerTraced(r)
    BY <1>2 DEF Each, Traced
  <2>3. Left(r)'
    BY <1>1, <1>2, <2>1, <2>2 DEF Left, Waits
  <2>4. ServerTraced(r)'
    BY <1>1, <1>2, <1>8, <2>1, <2>2, PathIs DEF ServerTraced, Within, Down, Layer
  <2>5. ClientTraced(r)'
    <3>1. CASE ~ Waits(r)
      <4>1. p > 7
        BY <1>1, <1>2, <2>2, <3>1 DEF Left, Waits
      <4>2. <<r, "clientTracing">> \in spans' <=> <<r, "clientTracing">> \in spans
        <5>1. p = 9 => Layer(r) = "serverTracing"
          BY PathIs DEF Layer
        <5> QED BY <4>1, <5>1 DEF Down
      <4> QED BY <2>1, <2>2, <3>1, <4>2 DEF ClientTraced, Waits
    <3>2. CASE Waits(r)
      BY <1>1, <1>2, <1>8, <2>1, <2>2, <3>2, PathIs
         DEF ClientTraced, Within, Waits, Down, Layer
    <3> QED BY <3>1, <3>2
  <2> QED BY <2>3, <2>4, <2>5 DEF Traced
<1>7. Told(r)'
  BY <1>2 DEF Each, Told, Down
<1> QED BY <1>3, <1>4, <1>5, <1>6, <1>7 DEF Each

LEMMA TurnKeeps ==
    ASSUME Inv, NEW r \in Request, Turn(r)
    PROVE  Each(r)'
<1> DEFINE p == req[r].at
           n == req'[r].at
<1> USE PositionIs
<1>1. /\ p \in 1..16 /\ n \in 0..(p - 1)
      /\ \A k \in (n + 1)..(p - 1) : Path[k] \notin installed
  <2>1. p \in 0..16 /\ n \in 0..16
    BY RequestIs DEF Inv, Frame, Turn, Moves
  <2> QED BY <2>1 DEF Turn, NextAbove
<1>2. Each(r) /\ req[r].way = "down" /\ req'[r].way = "up"
  BY DEF Inv, Turn
<1>3. Passed(r)'
  BY <1>2 DEF Passed, Beyond
<1>9. /\ server.limiter = "other" => "serverLimiter" \in installed
      /\ client.recovery => "clientRecovery" \in installed
      /\ server.recovery => "serverRecovery" \in installed
  BY WhatIsInstalled DEF Inv
<1>4. Served(r)'
  <2>1. CASE p = 16
    <3>1. /\ "serverValidate" \in installed => req[r].valid
          /\ "serverLimiter" \in installed => server.limiter = "bbr"
          /\ "serverAuth" \in installed => req[r].token = Secret(server)
      BY <1>2, <2>1 DEF Each, Passed, Beyond
    <3> QED BY <1>2, <1>9, <3>1 DEF Served, Turn, config, Secret
  <2>2. CASE p # 16
    BY <1>2, <2>2 DEF Each, Served, Turn
  <2> QED BY <2>1, <2>2
<1>5. Returning(r)'
  <2>1. \E k \in 1..16 : k > n /\ req'[r].by = Path[k]
    BY <1>1 DEF Turn, Layer
  <2>2. /\ client.recovery => n >= 1
        /\ server.recovery => n < 7 \/ n >= 8
    BY <1>1, <1>9, PathIs DEF Turn
  <2>3. req'[r].by = "serverAuth" =>
            ("clientAuth" \in installed => Secret(client) # Secret(server))
    <3>1. req'[r].by = "serverAuth" => p = 12
      <4>1. Path[p] = Path[12] => p = 12
        BY <1>1, LayersDiffer
      <4> QED BY <4>1, PathIs DEF Turn, Layer
    <3>2. p = 12 => req[r].token # Secret(server)
      BY DEF Turn
    <3>3. p = 12 /\ "clientAuth" \in installed => req[r].token = Secret(client)
      BY <1>2 DEF Each, Passed, Beyond
    <3> QED BY <3>1, <3>2, <3>3
  <2>4. req'[r].result = "panic" => req'[r].panicked
    BY DEF Turn
  <2> QED BY <2>1, <2>2, <2>3, <2>4 DEF Returning, Turn, config, Secret
<1>6. Counted(r)'
  BY <1>1, <1>2, PathIs DEF Each, Counted, Turn, config
<1>7. Traced(r)'
  <2>1. caller' = caller /\ installed' = installed /\ spans' = spans
    BY DEF Turn, config
  <2>2. Left(r) /\ ClientTraced(r) /\ ServerTraced(r)
    BY <1>2 DEF Each, Traced
  <2>3. Path[7] \in installed
    BY WhatIsInstalled, PathIs DEF Inv
  <2>4. Left(r)'
    BY <1>1, <1>2, <2>1, <2>2, <2>3 DEF Left, Waits
  <2>5. ServerTraced(r)'
    BY <1>1, <1>2, <2>1, <2>2, PathIs DEF ServerTraced, Within
  <2>6. ClientTraced(r)'
    BY <1>1, <1>2, <2>1, <2>2, PathIs DEF ClientTraced, Within, Waits
  <2> QED BY <2>4, <2>5, <2>6 DEF Traced
<1>8. Told(r)'
  BY <1>1, <1>2, PathIs DEF Each, Told, Turn, config, Layer
<1> QED BY <1>3, <1>4, <1>5, <1>6, <1>7, <1>8 DEF Each

LEMMA UpKeeps ==
    ASSUME Inv, NEW r \in Request, Up(r)
    PROVE  Each(r)'
<1> DEFINE p == req[r].at
           n == req'[r].at
<1> USE PositionIs
<1>1. /\ p \in 1..16 /\ n \in 0..(p - 1)
      /\ \A k \in (n + 1)..(p - 1) : Path[k] \notin installed
  <2>1. p \in 0..16 /\ n \in 0..16
    BY RequestIs DEF Inv, Frame, Up, Moves
  <2> QED BY <2>1 DEF Up, NextAbove
<1>2. Each(r) /\ req[r].way = "up" /\ req'[r].way = "up"
  BY DEF Inv, Up
<1>3. Passed(r)'
  BY <1>2 DEF Passed, Beyond
<1>4. Served(r)'
  BY <1>2 DEF Each, Served, Up, config, Secret
<1>9. /\ client.recovery => "clientRecovery" \in installed
      /\ server.recovery => "serverRecovery" \in installed
  BY WhatIsInstalled DEF Inv
<1>5. Returning(r)'
  <2>1. \E k \in 1..16 : k > n /\ req'[r].by = Path[k]
    BY <1>1, <1>2 DEF Each, Returning, Up
  <2>2. req'[r].result = "panic" =>
            /\ req'[r].panicked
            /\ client.recovery => n >= 1
            /\ server.recovery => n < 7 \/ n >= 8
    BY <1>1, <1>2, <1>9, PathIs DEF Each, Returning, Up
  <2>3. req'[r].by = "serverAuth" =>
            ("clientAuth" \in installed => Secret(client) # Secret(server))
    BY <1>2 DEF Each, Returning, Up
  <2> QED BY <2>1, <2>2, <2>3 DEF Returning, Up, config, Secret
<1>6. Counted(r)'
  BY <1>1, <1>2, PathIs DEF Each, Counted, Returning, Up, config
<1>7. Traced(r)'
  <2>1. caller' = caller /\ installed' = installed
    BY DEF Up, config
  <2>2. Left(r) /\ ClientTraced(r) /\ ServerTraced(r)
    BY <1>2 DEF Each, Traced
  <2>3. Path[7] \in installed
    BY WhatIsInstalled, PathIs DEF Inv
  <2>4. Left(r)'
    BY <1>1, <1>2, <2>1, <2>2, <2>3 DEF Left, Waits, Up
  <2>5. ServerTraced(r)'
    BY <1>1, <1>2, <2>1, <2>2, PathIs DEF ServerTraced, Within, Up, Layer
  <2>6. ClientTraced(r)'
    <3>1. CASE ~ Waits(r)
      <4>1. p > 7
        BY <1>1, <1>2, <2>2, <3>1 DEF Left, Waits, Up
      <4>2. <<r, "clientTracing">> \in spans' <=> <<r, "clientTracing">> \in spans
        <5>1. p = 9 => Layer(r) = "serverTracing"
          BY PathIs DEF Layer
        <5> QED BY <4>1, <5>1 DEF Up
      <4> QED BY <2>1, <2>2, <3>1, <4>2 DEF ClientTraced, Waits
    <3>2. CASE Waits(r)
      BY <1>1, <1>2, <2>1, <2>2, <3>2, PathIs DEF ClientTraced, Within, Waits, Up, Layer
    <3> QED BY <3>1, <3>2
  <2> QED BY <2>4, <2>5, <2>6 DEF Traced
<1>8. Told(r)'
  BY <1>1, <1>2, PathIs DEF Each, Told, Returning, Up, config, Layer
<1> QED BY <1>3, <1>4, <1>5, <1>6, <1>7, <1>8 DEF Each

-----------------------------------------------------------------------------
(* The steps *)

\* The types of what does not belong to one request.
LEMMA MoveKeepsTypes ==
    ASSUME Inv, NEW r \in Request, Down(r) \/ Turn(r) \/ Up(r)
    PROVE  TypeOK' /\ Chosen' /\ Sturdy'
<1> USE PositionIs
<1>1. UNCHANGED <<config, caller, crashed>> /\ Moves(r)
  BY DEF Down, Turn, Up
<1>2. \A x \in Request :
        /\ req'[x].way = "up" <=> req'[x].result # "none"
        /\ req'[x].at # 0 => Path[req'[x].at] \in installed
  <2>1. \A x \in Request \ {r} :
        /\ req'[x].way = "up" <=> req'[x].result # "none"
        /\ req'[x].at # 0 => Path[req'[x].at] \in installed
    BY <1>1, RequestIs DEF Inv, Moves
  <2>2. req'[r].way = "up" <=> req'[r].result # "none"
    BY RequestIs DEF Inv, Down, Turn, Up
  <2>3. req'[r].at # 0 => Path[req'[r].at] \in installed
    BY DEF Down, Turn, Up, NextBelow, NextAbove
  <2> QED BY <2>1, <2>2, <2>3
<1>3. /\ slots' \subseteq Request /\ served' \subseteq Request
      /\ spans' \subseteq Request \X {"clientTracing", "serverTracing"}
      /\ observed' \subseteq Request \X {"clientMetrics", "serverLogging", "serverMetrics"}
  BY PathIs DEF Inv, TypeOK, Down, Turn, Up, Layer
<1>4. /\ kind \in {"http", "grpc"} /\ client \in ClientSetting /\ server \in ServerSetting
      /\ installed \subseteq {Path[i] : i \in DOMAIN Path} /\ crashed \in BOOLEAN
  BY DEF Inv, TypeOK
<1>5. LayerName \subseteq {Path[i] : i \in DOMAIN Path}
  <2>1. \A x \in LayerName : \E i \in DOMAIN Path : x = Path[i]
    BY PathIs DEF LayerName
  <2> QED BY <2>1
<1>6. req' \in [Request -> [at : 0..Len(Path), way : {"idle", "down", "up"}, result : Outcome,
                            by : {"none"} \cup {Path[i] : i \in DOMAIN Path},
                            valid : BOOLEAN,
                            token : [key : Key \cup {NoKey},
                                     method : {"HS256", "HS384", "HS512"}],
                            panicked : BOOLEAN]]
  BY <1>1, <1>5, PathIs DEF Moves, Frame, Token
<1>10. (caller \in [Request -> 0..Position("transport")])'
  BY DEF Inv, TypeOK, Down, Turn, Up
<1>7. TypeOK'
  BY <1>1, <1>2, <1>3, <1>4, <1>6, <1>10 DEF TypeOK, config
<1>8. Chosen'
  BY <1>1 DEF Inv, Chosen, ClientLayers, ServerLayers, config
<1>9. Sturdy'
  <2>1. server.recovery => req'[r].by # "transport"
    <3>1. CASE Down(r) \/ Up(r)
      BY <3>1 DEF Inv, Sturdy, Down, Up
    <3>2. CASE Turn(r)
      <4>1. req[r].at \in 1..16
        <5>1. req[r].at \in 0..16
          BY RequestIs DEF Inv, Frame
        <5> QED BY <3>2, <5>1 DEF Inv, Each, Passed, Turn
      <4>2. Path[req[r].at] = Path[7] => req[r].at = 7
        BY <4>1, LayersDiffer
      <4> QED BY <3>2, <4>2, PathIs DEF Inv, Sturdy, Turn, Layer
    <3> QED BY <3>1, <3>2
  <2>2. \A x \in Request \ {r} : req'[x] = req[x]
    BY <1>1 DEF Moves
  <2> QED BY <1>1, <2>1, <2>2 DEF Inv, Sturdy, config
<1> QED BY <1>7, <1>8, <1>9

LEMMA MoveKeepsInv ==
    ASSUME Inv, NEW r \in Request, Down(r) \/ Turn(r) \/ Up(r)
    PROVE  Inv'
<1>1. Each(r)'
  BY DownKeeps, TurnKeeps, UpKeeps
<1>2. \A x \in Request : x # r => Each(x)'
  BY OthersStay
<1>3. TypeOK' /\ Chosen' /\ Sturdy'
  BY MoveKeepsTypes
<1> QED BY <1>1, <1>2, <1>3 DEF Inv

LEMMA LayersAreOfPath == LayerName \subseteq {Path[i] : i \in DOMAIN Path}
<1>1. \A x \in LayerName : \E i \in DOMAIN Path : x = Path[i]
  BY PathIs DEF LayerName
<1> QED BY <1>1

\* A crash needs a panic that no recovery has met, and fails every request that
\* is in the server.
LEMMA CrashKeepsInv ==
    ASSUME Inv, NEW r \in Request, Crash(r)
    PROVE  Inv'
<1> USE PositionIs
<1> DEFINE n == Above(7)
           Hit(x) == x = r \/ InServer(x)
           Back(x) == IF Waits(x) THEN n ELSE 0
<1>1. req[r].way = "up" /\ req[r].at = 7 /\ req[r].result = "panic"
  <2>1. Ascends(r, {"transport"})
    BY DEF Crash
  <2>2. req[r].at = 7 /\ req[r].way = "up"
    BY <2>1, WhereItIs, PathIs
  <2> QED BY <2>2 DEF Crash
<1>2. req[r].panicked /\ ~ server.recovery
  BY <1>1 DEF Inv, Each, Returning
<1>3. NextAbove(7, n) /\ n \in 0..6 /\ \A k \in (n + 1)..6 : Path[k] \notin installed
  BY AboveIs DEF NextAbove
<1>4. UNCHANGED <<config, caller, observed, served>> /\ slots' = {} /\ crashed' = TRUE
      /\ spans' = spans \ (Request \X {"serverTracing"})
  BY DEF Crash
<1>5. req' = [x \in Request |->
                IF Hit(x) THEN [req[x] EXCEPT !.way = "up", !.result = "error",
                                              !.at = Back(x),
                                              !.by = IF x = r THEN @ ELSE "transport"]
                ELSE req[x]]
  BY DEF Crash
<1>6. ASSUME NEW x \in Request, Hit(x)
      PROVE  /\ req'[x] \in Frame
             /\ req'[x].way = "up" /\ req'[x].at = Back(x) /\ req'[x].result = "error"
             /\ req'[x].by = IF x = r THEN req[x].by ELSE "transport"
             /\ req'[x].valid = req[x].valid /\ req'[x].token = req[x].token
             /\ req'[x].panicked = req[x].panicked
  <2>1. req[x] \in Frame
    BY RequestIs DEF Inv
  <2>2. req'[x] = [req[x] EXCEPT !.way = "up", !.result = "error", !.at = Back(x),
                                 !.by = IF x = r THEN @ ELSE "transport"]
    BY <1>5, <1>6
  <2>3. "transport" \in LayerName /\ "error" \in Outcome /\ Back(x) \in 0..16
    BY <1>3 DEF LayerName, Outcome
  <2> HIDE DEF n, Hit, Back
  <2> QED BY <2>1, <2>2, <2>3 DEF Frame
<1>7. ASSUME NEW x \in Request, ~ Hit(x) PROVE req'[x] = req[x]
  BY <1>5, <1>7
<1> HIDE DEF n, Back
<1>12. ASSUME NEW x \in Request
       PROVE  /\ Waits(x) => Back(x) = n
              /\ ~ Waits(x) => Back(x) = 0
              /\ Back(x) \in 0..6
  BY <1>3 DEF Back
<1>8. ASSUME NEW x \in Request, Hit(x) PROVE Each(x)'
  <2>1. Each(x) /\ req[x].at \in 7..16 /\ req[x].way \in {"down", "up"}
    <3>1. req[x].way \in {"idle", "down", "up"} /\ req[x].at \in 0..16
      BY RequestIs DEF Inv, Frame
    <3> QED BY <1>1, <1>8, <3>1 DEF Inv, InServer
  <2>2. Passed(x)' /\ Counted(x)'
    BY <1>4, <1>6, <1>8 DEF Passed, Beyond, Counted
  <2>3. Served(x)'
    BY <1>4, <1>6, <1>8, <2>1 DEF Each, Served, config, Secret
  <2>4. Returning(x)'
    BY <1>1, <1>4, <1>6, <1>8, <1>12, <2>1, PathIs DEF Each, Returning, config, Secret
  <2>5. Traced(x)'
    <3>1. Left(x) /\ ClientTraced(x) /\ Within(x, "clientTracing")
      BY <2>1 DEF Each, Traced, Within
    <3>2. "clientTracing" \in installed => n >= 2
      BY <1>3, PathIs
    <3>3. <<x, "clientTracing">> \in spans' <=> <<x, "clientTracing">> \in spans
      BY <1>4
    <3>4. <<x, "serverTracing">> \notin spans'
      BY <1>4
    <3>5. /\ installed' = installed /\ caller' = caller
          /\ req'[x].way = "up" /\ req'[x].at = Back(x)
      BY <1>4, <1>6, <1>8 DEF config
    <3>6. Left(x)'
      BY <1>12, <3>1, <3>5 DEF Left, Waits
    <3>7. ClientTraced(x)'
      BY <1>12, <3>1, <3>2, <3>3, <3>5 DEF ClientTraced, Waits, Within
    <3> QED BY <3>4, <3>6, <3>7 DEF Traced, ServerTraced
  <2>6. Told(x)'
    BY <1>2, <1>4, <1>6, <1>8, <1>12, <2>1 DEF Each, Told, config
  <2> QED BY <2>2, <2>3, <2>4, <2>5, <2>6 DEF Each
<1>9. ASSUME NEW x \in Request, ~ Hit(x) PROVE Each(x)'
  <2>1. Each(x) /\ req'[x] = req[x] /\ (req[x].way = "idle" \/ req[x].at <= 7)
    <3>1. req[x].at \in 0..16
      BY RequestIs DEF Inv, Frame
    <3> QED BY <1>7, <1>9, <3>1 DEF Inv, InServer
  <2>2. Passed(x)' /\ Served(x)' /\ Returning(x)' /\ Counted(x)'
    BY <1>4, <2>1 DEF Each, Passed, Served, Returning, Counted, Beyond, config, Secret
  <2>3. Traced(x)'
    <3>1. /\ <<x, "clientTracing">> \in spans' <=> <<x, "clientTracing">> \in spans
          /\ <<x, "serverTracing">> \in spans' => <<x, "serverTracing">> \in spans
      BY <1>4
    <3> QED BY <1>4, <2>1, <3>1
            DEF Each, Traced, Left, ClientTraced, ServerTraced, Waits, Within, config
  <2>4. Told(x)'
    BY <1>4, <2>1 DEF Each, Told, config
  <2> QED BY <2>2, <2>3, <2>4 DEF Each
<1>10. Chosen' /\ Sturdy'
  BY <1>2, <1>4 DEF Inv, Chosen, Sturdy, ClientLayers, ServerLayers, config
<1>11. TypeOK'
  <2>1. req' \in [Request -> Frame]
    <3>1. \A x \in Request : req'[x] \in Frame
      BY <1>6, <1>7, RequestIs DEF Inv
    <3>2. req' = [x \in Request |-> req'[x]]
      BY <1>5
    <3> QED BY <3>1, <3>2
  <2>2. \A x \in Request :
          /\ req'[x].way = "up" <=> req'[x].result # "none"
          /\ req'[x].at # 0 => Path[req'[x].at] \in installed
    BY <1>3, <1>6, <1>7, <1>12, RequestIs DEF Inv, NextAbove
  <2>3. LayerName \subseteq {Path[i] : i \in DOMAIN Path}
    BY LayersAreOfPath
  <2>4. req' \in [Request -> [at : 0..Len(Path), way : {"idle", "down", "up"},
                              result : Outcome,
                              by : {"none"} \cup {Path[i] : i \in DOMAIN Path},
                              valid : BOOLEAN,
                              token : [key : Key \cup {NoKey},
                                       method : {"HS256", "HS384", "HS512"}],
                              panicked : BOOLEAN]]
    BY <2>1, <2>3, PathIs DEF Frame, Token
  <2>5. /\ kind \in {"http", "grpc"} /\ client \in ClientSetting /\ server \in ServerSetting
        /\ installed \subseteq {Path[i] : i \in DOMAIN Path} /\ served \subseteq Request
        /\ caller \in [Request -> 0..Position("transport")]
        /\ spans \subseteq Request \X {"clientTracing", "serverTracing"}
        /\ observed \subseteq Request \X {"clientMetrics", "serverLogging", "serverMetrics"}
    BY DEF Inv, TypeOK
  <2> QED BY <1>4, <2>2, <2>4, <2>5 DEF TypeOK, config
<1> QED BY <1>8, <1>9, <1>10, <1>11 DEF Inv

\* Too late a result changes nothing but where the request is.
LEMMA DiscardKeepsInv ==
    ASSUME Inv, NEW r \in Request, Discard(r)
    PROVE  Inv'
<1> USE PositionIs
<1>1. req[r].way = "up" /\ req[r].at = 7 /\ ~ Waits(r)
  <2>1. Ascends(r, {"transport"})
    BY DEF Discard
  <2> QED BY <2>1, WhereItIs, PathIs DEF Discard
<1>2. PICK q : q = [req[r] EXCEPT !.at = 0, !.result = "error"]
  OBVIOUS
<1>3. req[r] \in Frame /\ req \in [Request -> Frame]
  BY RequestIs DEF Inv
<1>4. /\ q \in Frame /\ q.at = 0 /\ q.way = "up" /\ q.result = "error"
      /\ q.by = req[r].by /\ q.valid = req[r].valid /\ q.token = req[r].token
      /\ q.panicked = req[r].panicked
  <2>1. q \in Frame
    <3>1. PICK n \in 0..16 : n = 0
      OBVIOUS
    <3>2. PICK x \in Outcome : x = "error"
      BY DEF Outcome
    <3>3. q = [req[r] EXCEPT !.at = n, !.result = x]
      BY <1>2, <3>1, <3>2
    <3> QED BY <1>3, <3>3 DEF Frame
  <2>2. q.at = 0 /\ q.way = req[r].way /\ q.result = "error"
    BY <1>2, <1>3 DEF Frame
  <2>3. /\ q.by = req[r].by /\ q.valid = req[r].valid /\ q.token = req[r].token
        /\ q.panicked = req[r].panicked
    BY <1>2, <1>3 DEF Frame
  <2> QED BY <1>1, <2>1, <2>2, <2>3
<1>5. req' = [req EXCEPT ![r] = q] /\ UNCHANGED <<config, effects>>
  BY <1>2 DEF Discard
<1>6. Moves(r) /\ req'[r] = q
  BY <1>3, <1>4, <1>5, MovesTo DEF Inv
<1>7. ASSUME NEW x \in Request \ {r} PROVE Each(x)'
  <2>1. Each(x) /\ req'[x] = req[x]
    BY <1>6 DEF Inv, Moves
  <2>2. Passed(x)' /\ Served(x)' /\ Returning(x)' /\ Counted(x)'
    BY <1>5, <2>1
       DEF Each, Passed, Served, Returning, Counted, Beyond, config, effects, Secret
  <2>3. Traced(x)' /\ Told(x)'
    BY <1>5, <2>1 DEF Each, Traced, Left, ClientTraced, ServerTraced, Waits, Told, Within,
       config, effects
  <2> QED BY <2>2, <2>3 DEF Each
<1>8. Each(r)'
  <2>1. Each(r)
    BY DEF Inv
  <2>2. Passed(r)' /\ Served(r)' /\ Counted(r)'
    BY <1>1, <1>4, <1>5, <1>6, <2>1
       DEF Each, Passed, Served, Counted, Beyond, config, effects, Secret
  <2>3. Returning(r)'
    BY <1>1, <1>4, <1>5, <1>6, <2>1 DEF Each, Returning, config, effects, Secret
  <2>4. Traced(r)'
    <3>1. Left(r)' /\ ClientTraced(r)'
      BY <1>1, <1>4, <1>5, <1>6, <2>1
         DEF Each, Traced, Left, ClientTraced, Waits, config, effects
    <3>2. ServerTraced(r)'
      BY <1>1, <1>4, <1>5, <1>6, <2>1 DEF Each, Traced, ServerTraced, Within, effects
    <3> QED BY <3>1, <3>2 DEF Traced
  <2>5. Told(r)'
    BY <1>1, <1>4, <1>5, <1>6, <2>1 DEF Each, Told, config, effects
  <2> QED BY <2>2, <2>3, <2>4, <2>5 DEF Each
<1>9. Chosen' /\ Sturdy'
  <2>1. \A x \in Request : req'[x].by = req[x].by
    BY <1>4, <1>6 DEF Moves
  <2> QED BY <1>5, <2>1
          DEF Inv, Chosen, Sturdy, ClientLayers, ServerLayers, config, effects
<1>10. TypeOK'
  <2>1. \A x \in Request :
          /\ req'[x].way = "up" <=> req'[x].result # "none"
          /\ req'[x].at # 0 => Path[req'[x].at] \in installed
    BY <1>4, <1>6, RequestIs DEF Inv, Moves
  <2>2. req' \in [Request -> [at : 0..Len(Path), way : {"idle", "down", "up"},
                              result : Outcome,
                              by : {"none"} \cup {Path[i] : i \in DOMAIN Path},
                              valid : BOOLEAN,
                              token : [key : Key \cup {NoKey},
                                       method : {"HS256", "HS384", "HS512"}],
                              panicked : BOOLEAN]]
    BY <1>6, LayersAreOfPath, PathIs DEF Moves, Frame, Token
  <2> QED BY <1>5, <2>1, <2>2 DEF Inv, TypeOK, config, effects
<1> QED BY <1>7, <1>8, <1>9, <1>10 DEF Inv

\* A caller gives up, or goes on its way back.
LEMMA TimeOutKeepsInv ==
    ASSUME Inv, NEW r \in Request, TimeOut(r) \/ Withdraw(r)
    PROVE  Inv'
<1> USE PositionIs
<1> DEFINE c == caller[r]
           n == caller'[r]
<1>1. /\ UNCHANGED <<config, req, slots, served, crashed>>
      /\ caller' = [caller EXCEPT ![r] = Above(c)]
  BY DEF TimeOut, Withdraw
<1>2. caller \in [Request -> 0..7] /\ c \in 1..7
  BY DEF Inv, TypeOK, TimeOut, Withdraw, Waits
<1>3. PICK k : k = Above(c)
  OBVIOUS
<1>4. NextAbove(c, k) /\ n = k /\ caller' = [caller EXCEPT ![r] = k]
  BY <1>1, <1>2, <1>3, AboveIs
<1>5. n \in 0..(c - 1) /\ \A i \in (n + 1)..(c - 1) : Path[i] \notin installed
  BY <1>4 DEF NextAbove
<1>6. caller' \in [Request -> 0..7] /\ \A x \in Request \ {r} : caller'[x] = caller[x]
  BY <1>2, <1>4, <1>5
<1>7. /\ \A x, l : <<x, l>> \in spans' <=>
                   <<x, l>> \in spans /\ ~ (~ Waits(r) /\ x = r /\ l = Path[c])
      /\ spans' \subseteq spans
  BY DEF TimeOut, Withdraw
<1>8. /\ observed' \subseteq observed \cup {<<r, "clientMetrics">>}
      /\ observed \subseteq observed'
  BY DEF TimeOut, Withdraw
<1>9. ASSUME NEW x \in Request PROVE Each(x)'
  <2>1. Each(x)
    BY DEF Inv
  <2>2. Passed(x)' /\ Served(x)' /\ Returning(x)' /\ Counted(x)'
    BY <1>1, <2>1 DEF Each, Passed, Served, Returning, Counted, Beyond, config, Secret
  <2>3. Told(x)'
    <3>1. \A l \in {"serverLogging", "serverMetrics"} :
            <<x, l>> \in observed' <=> <<x, l>> \in observed
      BY <1>8
    <3> QED BY <1>1, <2>1, <3>1 DEF Each, Told, config
  <2>4. Traced(x)'
    <3>1. CASE x # r
      <4>1. caller'[x] = caller[x] /\ \A l : <<x, l>> \in spans' <=> <<x, l>> \in spans
        BY <1>6, <1>7, <3>1
      <4> QED BY <1>1, <2>1, <4>1
              DEF Each, Traced, Left, ClientTraced, ServerTraced, Waits, Within, config
    <3>2. CASE x = r
      <4>1. Left(r) /\ ClientTraced(r) /\ ServerTraced(r)
        BY <2>1, <3>2 DEF Each, Traced
      <4>2. n < 7
        BY <1>2, <1>5
      <4>3. Left(r)'
        <5>1. CASE Waits(r)
          <6>1. InServer(r) /\ req[r].at \in 0..16
            BY <5>1, RequestIs DEF TimeOut, Withdraw, Inv, Frame
          <6> QED BY <1>1, <4>2, <6>1 DEF Left, InServer
        <5>2. CASE ~ Waits(r)
          BY <1>1, <4>1, <4>2, <5>2 DEF Left
        <5> QED BY <5>1, <5>2
      <4>4. ServerTraced(r)'
        BY <1>1, <1>7, <4>1 DEF ServerTraced, Within, config
      <4>5. ClientTraced(r)'
        <5>1. Waits(r) => Within(r, "clientTracing") /\ c = 7
          BY RequestIs DEF TimeOut, Withdraw, InServer, Within, Waits, Inv, Frame
        <5>2. <<r, "clientTracing">> \in spans <=> "clientTracing" \in installed /\ c >= 2
          BY <4>1, <5>1 DEF ClientTraced
        <5>3. Path[c] = "clientTracing" <=> c = 2
          BY <1>2, PathIs
        <5>4. ~ Waits(r) => c < 7
          BY <4>1 DEF Left
        <5>5. Waits(r) => c # 2
          BY <5>1
        <5>6. "clientTracing" \in installed => (n >= 2 <=> c > 2)
          BY <1>2, <1>5, PathIs
        <5>7. <<r, "clientTracing">> \in spans' <=>
                <<r, "clientTracing">> \in spans /\ c # 2
          BY <1>7, <5>3, <5>5
        <5> QED BY <1>1, <1>2, <4>2, <5>2, <5>6, <5>7 DEF ClientTraced, Waits, config
      <4> QED BY <3>2, <4>3, <4>4, <4>5 DEF Traced
    <3> QED BY <3>1, <3>2
  <2> QED BY <2>2, <2>3, <2>4 DEF Each
<1>10. Chosen' /\ Sturdy'
  BY <1>1 DEF Inv, Chosen, Sturdy, ClientLayers, ServerLayers, config
<1>11. TypeOK'
  <2>1. /\ spans' \subseteq Request \X {"clientTracing", "serverTracing"}
        /\ observed' \subseteq Request \X {"clientMetrics", "serverLogging", "serverMetrics"}
    BY <1>7, <1>8 DEF Inv, TypeOK
  <2> QED BY <1>1, <1>6, <2>1 DEF Inv, TypeOK, config
<1> QED BY <1>9, <1>10, <1>11 DEF Inv

LEMMA NothingMoves ==
    ASSUME Inv, UNCHANGED vars \/ Restart
    PROVE  Inv'
<1>1. UNCHANGED <<config, caller, req, slots, spans, observed, served>>
      /\ (crashed' = crashed \/ crashed' = FALSE)
  BY DEF vars, effects, Restart
<1>2. TypeOK' /\ Chosen' /\ Sturdy'
  <2>1. TypeOK'
    BY <1>1 DEF Inv, TypeOK, config
  <2>2. Chosen' /\ Sturdy'
    BY <1>1 DEF Inv, Chosen, Sturdy, ClientLayers, ServerLayers, config
  <2> QED BY <2>1, <2>2
<1>3. ASSUME NEW x \in Request PROVE Each(x)'
  <2>1. Passed(x)' /\ Served(x)' /\ Returning(x)' /\ Counted(x)'
    BY <1>1 DEF Inv, Each, Passed, Served, Returning, Counted, Beyond, config, Secret
  <2>2. Traced(x)' /\ Told(x)'
    BY <1>1 DEF Inv, Each, Traced, Left, ClientTraced, ServerTraced, Waits, Told, Within,
       config
  <2> QED BY <2>1, <2>2 DEF Each
<1> QED BY <1>2, <1>3 DEF Inv

THEOREM StepKeepsInv == Inv /\ [Next]_vars => Inv'
<1> SUFFICES ASSUME Inv, [Next]_vars PROVE Inv'
  OBVIOUS
<1>1. CASE UNCHANGED vars \/ Restart
  BY <1>1, NothingMoves
<1>2. ASSUME NEW r \in Request, Call(r) \/ Sign(r) PROVE Inv'
  BY <1>2, CallMoves, SignMoves, MoveKeepsInv
<1>3. ASSUME NEW r \in Request,
             Enter(r) \/ StartSpan(r) \/ Validate(r) \/ Transmit(r) \/ Limit(r)
               \/ Authenticate(r) \/ App(r) \/ Handle(r)
      PROVE  Inv'
  BY <1>3, EnterMoves, MoveKeepsInv
<1>4. ASSUME NEW r \in Request,
             Recover(r) \/ EndSpan(r) \/ Release(r) \/ Observe(r) \/ Hand(r) \/ Reply(r)
      PROVE  Inv'
  BY <1>4, ResultMoves, MoveKeepsInv
<1>5. ASSUME NEW r \in Request, Crash(r) PROVE Inv'
  BY <1>5, CrashKeepsInv
<1>6. ASSUME NEW r \in Request, Discard(r) \/ TimeOut(r) \/ Withdraw(r) PROVE Inv'
  BY <1>6, DiscardKeepsInv, TimeOutKeepsInv
<1> QED BY <1>1, <1>2, <1>3, <1>4, <1>5, <1>6 DEF Next

-----------------------------------------------------------------------------
(* The theorems *)

\* The inductive invariant of the chains.
THEOREM Invariance == Spec => []Inv
BY Initially, StepKeepsInv, PTL DEF Spec

\* Types, for any requests, secrets, methods and configurations.
THEOREM TypeCorrect == Spec => []TypeOK
<1>1. Inv => TypeOK
  BY DEF Inv
<1> QED BY <1>1, Invariance, PTL

\* A handler runs only what every protection of its server lets through.
THEOREM HandlerIsProtectedTheorem == Spec => []HandlerIsProtected
<1>1. Inv => HandlerIsProtected
  BY DEF Inv, TypeOK, Each, Served, HandlerIsProtected
<1> QED BY <1>1, Invariance, PTL

\* With recovery switched on no panic ends the process, reaches the caller, or
\* takes other requests along.
THEOREM PanicIsContainedTheorem == Spec => []PanicIsContained
<1>1. ASSUME Inv PROVE PanicIsContained
  <2>1. ASSUME client.recovery, NEW r \in Request, Done(r) PROVE req[r].result # "panic"
    BY <1>1, <2>1, PositionIs DEF Inv, Each, Returning, Done
  <2> QED BY <1>1, <2>1 DEF Inv, Sturdy, PanicIsContained
<1> QED BY <1>1, Invariance, PTL

\* The limiter gets every slot back but those of panics.
THEOREM SlotsAreReturnedTheorem == Spec => []SlotsAreReturned
<1>1. Inv => SlotsAreReturned
  BY DEF Inv, TypeOK, Each, Counted, SlotsAreReturned
<1> QED BY <1>1, Invariance, PTL

\* Every span ends on every way back, a timeout's too; and unless the client has
\* timed out, that of the server lies within its own.
THEOREM SpansEndInOrderTheorem == Spec => []SpansEndInOrder
<1>1. ASSUME Inv, NEW r \in Request
      PROVE  /\ ~ InServer(r) => <<r, "serverTracing">> \notin spans
             /\ (IF Waits(r) THEN Done(r) ELSE caller[r] = 0) =>
                  <<r, "clientTracing">> \notin spans
             /\ <<r, "serverTracing">> \in spans /\ "clientTracing" \in installed =>
                 <<r, "clientTracing">> \in spans \/ ~ Waits(r)
  <2>1. ClientTraced(r) /\ ServerTraced(r) /\ req[r].at \in 0..16
    BY <1>1, RequestIs DEF Inv, Each, Traced, Frame
  <2> QED BY <2>1, PositionIs DEF ClientTraced, ServerTraced, Within, Done, InServer
<1>2. Inv => SpansEndInOrder
  BY <1>1 DEF SpansEndInOrder
<1> QED BY <1>2, Invariance, PTL

\* Log and metrics of the server tell of what was admitted, and of nothing else.
THEOREM AdmittedAreObservedTheorem == Spec => []AdmittedAreObserved
<1>1. ASSUME Inv PROVE AdmittedAreObserved
  <2>1. \A r \in Request : Told(r)
    BY <1>1 DEF Inv, Each
  <2>2. \A l \in {"serverLogging", "serverMetrics"} : 0 < Position(l)
    BY PositionIs
  <2> QED BY <2>1, <2>2 DEF Told, Done, AdmittedAreObserved
<1> QED BY <1>1, Invariance, PTL

\* Client and server with the same secret and equivalent methods understand
\* each other.
THEOREM SameAuthIsAcceptedTheorem == Spec => []SameAuthIsAccepted
<1>1. ASSUME Inv, "clientAuth" \in installed, Secret(client) = Secret(server),
             NEW r \in Request
      PROVE  req[r].by # "serverAuth"
  <2>1. CASE req[r].way = "up"
    BY <1>1, <2>1 DEF Inv, Each, Returning
  <2>2. CASE req[r].way # "up"
    <3>1. req[r].by = "none"
      BY <1>1, <2>2, RequestIs DEF Inv, Each, Passed, Idle, Frame
    <3> QED BY <3>1
  <2> QED BY <2>1, <2>2
<1>2. Inv => SameAuthIsAccepted
  BY <1>1 DEF SameAuthIsAccepted
<1> QED BY <1>2, Invariance, PTL
=============================================================================
