-------------------------- MODULE DeviceFleetProofs --------------------------
(***************************************************************************)
(* Proofs about DeviceFleet, for any number of devices, any limits of the  *)
(* waits and any number of outages.                                        *)
(***************************************************************************)
EXTENDS DeviceFleet, Integers, TLAPS

\* What a connection is worth: the client is there from puf_mqtt_connect to
\* puf_mqtt_disconnect; a client that is up has subscribed; a message
\* that is queued or heard has a connection that lasts; a token is only in the
\* outbox during the delay.
Connected ==
  \A d \in Devices :
    /\ dpc[d] \in {"off", "wait_wifi"} => client[d] = "off"
    /\ dpc[d] \in {"wait_connected", "wait_nonce", "wait_pir", "delay"} => client[d] # "off"
    /\ client[d] = "up" => d \in subscribed
    /\ dpc[d] \in {"wait_nonce", "wait_pir", "delay"} /\ fate[d] \in {"queued", "heard"}
         => Online(d)
    /\ "token" \in outbox[d] => dpc[d] = "delay"

\* A "ready" that was heard has its answer under way or in the bits.
Answered ==
  \A d \in Devices :
    dpc[d] = "wait_nonce" /\ fate[d] = "heard" => d \in challenge \/ "NONCE" \in bits[d]

FInv == TypeOK /\ Connected /\ Answered

-----------------------------------------------------------------------------
LEMMA WaitsInRange ==
  /\ {0, Delay, ConnectWait, WifiWait, NonceWait} \subseteq 0 .. NonceWait
  /\ Recovered \in Nat /\ 0 \in 0 .. Recovered
  BY WaitsAssumption DEF Recovered

LEMMA GotoSetsTimer ==
  ASSUME timer \in [Devices -> 0 .. NonceWait], NEW d \in Devices, NEW p,
         NEW t \in 0 .. NonceWait, Goto(d, p, t)
  PROVE  timer' \in [Devices -> 0 .. NonceWait]
  BY DEF Goto

LEMMA InitFInv == Init => FInv
  BY DevicesAssumption, WaitsAssumption
     DEF Init, FInv, TypeOK, Connected, Answered, Online, Recovered

\* The network's steps: the station and its connection to the broker.
LEMMA NetworkKeepsFInv ==
  ASSUME FInv, NEW d \in Devices,
         \/ StationEvent(d) \/ GotIp(d)
         \/ Connect(d) \/ ConnectFails(d) \/ Disconnected(d) \/ Retry(d)
  PROVE  FInv'
<1>1. CASE StationEvent(d)
  BY <1>1, DevicesAssumption DEF FInv, TypeOK, Connected, Answered, Online, StationEvent, app, mqtt, air
<1>2. CASE GotIp(d)
  BY <1>2, DevicesAssumption DEF FInv, TypeOK, Connected, Answered, Online, GotIp, Set, app, mqtt, air
<1>3. CASE Connect(d)
  BY <1>3, DevicesAssumption
     DEF FInv, TypeOK, Connected, Answered, Online, Connect, Broken, Set, app, mqtt, air
<1>4. CASE ConnectFails(d)
  BY <1>4, DevicesAssumption, WaitsAssumption
     DEF FInv, TypeOK, Connected, Answered, Online, ConnectFails, Pause, app, mqtt, air
<1>5. CASE Disconnected(d)
  BY <1>5, DevicesAssumption, WaitsAssumption
     DEF FInv, TypeOK, Connected, Answered, Online, Disconnected, Pause, app, mqtt, air
<1>6. CASE Retry(d)
  BY <1>6, DevicesAssumption DEF FInv, TypeOK, Connected, Answered, Online, Retry, app, mqtt, air
<1> QED
  BY <1>1, <1>2, <1>3, <1>4, <1>5, <1>6

\* app_main's steps.
LEMMA MainKeepsFInv ==
  ASSUME FInv, NEW d \in Devices,
         \/ WifiStart(d) \/ MqttStart(d) \/ PublishReady(d) \/ NonceReceived(d)
         \/ PublishToken(d) \/ DelayOver(d) \/ TimeOut(d)
  PROVE  FInv'
<1> USE DevicesAssumption, WaitsAssumption
    DEF FInv, TypeOK, Connected, Answered, Online, Goto, app, mqtt, air
<1>1. CASE WifiStart(d)
  BY <1>1 DEF WifiStart
<1>2. CASE MqttStart(d)
  <2>1. TypeOK'
    <3>1. timer' \in [Devices -> 0 .. NonceWait]
      <4>1. Goto(d, "wait_connected", ConnectWait) /\ ConnectWait \in 0 .. NonceWait
        BY <1>2, WaitsInRange DEF MqttStart
      <4> HIDE DEF Goto
      <4> QED
        BY <4>1, GotoSetsTimer
    <3>2. TypeOK!1'
      BY <1>2 DEF MqttStart
    <3> HIDE DEF Goto
    <3> QED
      BY <3>1, <3>2, <1>2 DEF MqttStart
  <2>2. Connected'
    BY <1>2 DEF MqttStart
  <2>3. Answered'
    BY <1>2 DEF MqttStart
  <2> QED
    BY <2>1, <2>2, <2>3
<1>3. CASE PublishReady(d)
  <2>1. TypeOK'
    <3>1. timer' \in [Devices -> 0 .. NonceWait]
      <4>1. Goto(d, "wait_nonce", NonceWait) /\ NonceWait \in 0 .. NonceWait
        BY <1>3, WaitsInRange DEF PublishReady
      <4> HIDE DEF Goto
      <4> QED
        BY <4>1, GotoSetsTimer
    <3>2. TypeOK!1'
      BY <1>3 DEF PublishReady
    <3> HIDE DEF Goto
    <3> QED
      BY <3>1, <3>2, <1>3 DEF PublishReady, Publish
  <2>2. Connected'
    BY <1>3 DEF PublishReady, Publish
  <2>3. Answered'
    BY <1>3 DEF PublishReady, Publish
  <2> QED
    BY <2>1, <2>2, <2>3
<1>4. CASE NonceReceived(d)
  BY <1>4 DEF NonceReceived
<1>5. CASE PublishToken(d)
  <2>1. TypeOK'
    <3>1. timer' \in [Devices -> 0 .. NonceWait]
      <4>1. Goto(d, "delay", Delay) /\ Delay \in 0 .. NonceWait
        BY <1>5, WaitsInRange DEF PublishToken
      <4> HIDE DEF Goto
      <4> QED
        BY <4>1, GotoSetsTimer
    <3>2. TypeOK!1'
      BY <1>5 DEF PublishToken
    <3> HIDE DEF Goto
    <3> QED
      BY <3>1, <3>2, <1>5 DEF PublishToken, Publish
  <2>2. Connected'
    BY <1>5 DEF PublishToken, Publish
  <2>3. Answered'
    BY <1>5 DEF PublishToken, Publish
  <2> QED
    BY <2>1, <2>2, <2>3
<1>6. CASE DelayOver(d)
  BY <1>6 DEF DelayOver, Disconnect
<1>7. CASE TimeOut(d)
  BY <1>7 DEF TimeOut, Disconnect
<1> QED
  BY <1>1, <1>2, <1>3, <1>4, <1>5, <1>6, <1>7

\* The messages.
LEMMA MessagesKeepFInv ==
  ASSUME FInv, NEW d \in Devices,
         Challenge(d) \/ \E m \in {"ready", "token"} : Send(d, m)
  PROVE  FInv'
<1> USE DevicesAssumption
    DEF FInv, TypeOK, Connected, Answered, Online, app, mqtt, air
<1>1. CASE Challenge(d)
  BY <1>1 DEF Challenge, Set
<1>2. CASE \E m \in {"ready", "token"} : Send(d, m)
  BY <1>2 DEF Send
<1> QED
  BY <1>1, <1>2

LEMMA AccessPointKeepsFInv == FInv /\ (ApDown \/ ApUp) => FInv'
<1> SUFFICES ASSUME FInv, ApDown \/ ApUp PROVE FInv'
  OBVIOUS
<1> USE DevicesAssumption, WaitsAssumption DEF FInv, TypeOK, app, mqtt, air
<1>1. CASE ApDown
  <2>1. TypeOK'
    <3>1. outages' \in 0 .. MaxOutages /\ calm' \in 0 .. Recovered
      BY <1>1, WaitsInRange DEF ApDown
    <3>2. fate' \in [Devices -> {"none", "queued", "cut", "unheard", "heard", "missed"}]
      BY <1>1 DEF ApDown, Broken
    <3> QED
      BY <1>1, <3>1, <3>2 DEF ApDown, Recovered
  <2>2. Connected'
    BY <1>1 DEF ApDown, Broken, Connected, Online
  <2>3. Answered'
    BY <1>1 DEF ApDown, Broken, Answered
  <2> QED
    BY <2>1, <2>2, <2>3
<1>2. CASE ApUp
  BY <1>2 DEF ApUp, Connected, Answered, Online
<1> QED
  BY <1>1, <1>2

LEMMA TickKeepsFInv == FInv /\ Tick => FInv'
  BY DevicesAssumption, WaitsAssumption
     DEF FInv, TypeOK, Connected, Answered, Online, Tick, Less, Recovered

LEMMA StutterKeepsFInv == FInv /\ UNCHANGED vars => FInv'
  BY DEF FInv, TypeOK, Connected, Answered, Online, Recovered, vars

\* The connection and the answers of every device are as the two parts say.
THEOREM Invariance == Spec => []FInv
<1>1. FInv /\ [Next]_vars => FInv'
  <2> SUFFICES ASSUME FInv, [Next]_vars PROVE FInv'
    OBVIOUS
  <2>1. CASE \E d \in Devices : Prompt(d) \/ Disconnected(d) \/ WifiStart(d) \/ PublishToken(d)
    <3> PICK d \in Devices : Prompt(d) \/ Disconnected(d) \/ WifiStart(d) \/ PublishToken(d)
      BY <2>1
    <3> QED
      BY NetworkKeepsFInv, MainKeepsFInv, MessagesKeepFInv DEF Prompt
  <2> QED
    BY <2>1, AccessPointKeepsFInv, TickKeepsFInv, StutterKeepsFInv DEF Next
<1> QED
  BY InitFInv, <1>1, PTL DEF Spec

\* What the station, the client, the broker and app_main keep has its type, and
\* a client that is off is unknown to the broker and has an empty outbox.
THEOREM TypeCorrect == Spec => []TypeOK
  BY Invariance, PTL DEF FInv

\* app_main of a device goes on in its own steps only.
LEMMA MainMoves ==
  ASSUME TypeOK, [Next]_vars, NEW d \in Devices, dpc'[d] # dpc[d]
  PROVE  \/ WifiStart(d) \/ MqttStart(d) \/ PublishReady(d) \/ NonceReceived(d)
         \/ PublishToken(d) \/ DelayOver(d) \/ TimeOut(d)
<1> USE DEF TypeOK
<1>1. dpc' # dpc
  OBVIOUS
<1>2. PICK e \in Devices :
        \/ WifiStart(e) \/ MqttStart(e) \/ PublishReady(e) \/ NonceReceived(e)
        \/ PublishToken(e) \/ DelayOver(e) \/ TimeOut(e)
  <2>1. ~ Tick /\ ~ ApDown /\ ~ ApUp /\ ~ UNCHANGED vars
    BY <1>1 DEF Tick, ApDown, ApUp, vars, app
  <2>2. PICK e \in Devices : Prompt(e) \/ Disconnected(e) \/ WifiStart(e) \/ PublishToken(e)
    BY <2>1 DEF Next
  <2>3. /\ ~ StationEvent(e) /\ ~ GotIp(e) /\ ~ Connect(e) /\ ~ ConnectFails(e)
        /\ ~ Disconnected(e) /\ ~ Retry(e) /\ ~ Challenge(e) /\ \A m : ~ Send(e, m)
    BY <1>1 DEF StationEvent, GotIp, Connect, ConnectFails, Disconnected, Retry, Challenge,
                Send, Pause, app
  <2> QED
    BY <2>2, <2>3 DEF Prompt
<1>3. e = d
  BY <1>2 DEF WifiStart, MqttStart, PublishReady, NonceReceived, PublishToken, DelayOver,
              TimeOut, Goto
<1> QED
  BY <1>2, <1>3

LEMMA OnlyTimeOutGivesUp ==
  ASSUME TypeOK, [Next]_vars, NEW d \in Devices,
         dpc'[d] # dpc[d], dpc'[d] \in {"no_wifi", "no_broker", "no_nonce"}
  PROVE  TimeOut(d)
  BY MainMoves DEF TypeOK, WifiStart, MqttStart, PublishReady, NonceReceived, PublishToken,
                   DelayOver, Goto

\* A "ready" heard over a connection that lasts is answered: the wait for the
\* nonce only runs out on it with the answer on its way.
THEOREM ReadyAnswered == Spec => HeardReadyIsAnswered
<1>1. FInv /\ [Next]_vars =>
        [\A d \in Devices :
           dpc[d] = "wait_nonce" /\ dpc'[d] = "no_nonce"
             => fate[d] # "heard" \/ d \in challenge]_vars
  <2> SUFFICES ASSUME FInv, [Next]_vars, NEW d \in Devices,
                      dpc[d] = "wait_nonce", dpc'[d] = "no_nonce"
               PROVE  fate[d] # "heard" \/ d \in challenge
    OBVIOUS
  <2>1. TimeOut(d)
    BY OnlyTimeOutGivesUp DEF FInv, TypeOK
  <2> QED
    BY <2>1 DEF FInv, TypeOK, Answered, TimeOut, Goto
<1> QED
  BY Invariance, <1>1, PTL DEF Spec, HeardReadyIsAnswered

-----------------------------------------------------------------------------
\* Time.  A token in the outbox of a live connection stops it, so the delay has
\* not begun to run.
TokenDue ==
  \A d \in Devices :
    dpc[d] = "delay" /\ fate[d] = "queued" => timer[d] > 0 /\ "token" \in outbox[d]

\* A station that could join stops it as well, so a station without an address
\* means that the access point is or was away, and a first connection that
\* failed that the pause before the next began then.
LinkOf(d) ==
  /\ (station[d] = "off") <=> (dpc[d] = "off")
  /\ "WIFI" \in bits[d] => station[d] # "off"
  /\ station[d] = "ip" => "WIFI" \in bits[d]
  /\ client[d] # "off" => "WIFI" \in bits[d]
  /\ client[d] = "up" => "CONNECTED" \in bits[d]
  /\ "WIFI" \in bits[d] /\ station[d] # "ip" => calm = 0
  /\ client[d] = "waiting" /\ "CONNECTED" \notin bits[d] => calm + pause[d] <= Reconnect

Outages == (~ ap => calm = 0) /\ \A d \in Devices : LinkOf(d)

\* A wait that has begun to run has seen one of these.
Waits ==
  \A d \in Devices :
    /\ dpc[d] = "wait_wifi" /\ "WIFI" \notin bits[d] /\ timer[d] < WifiWait => calm = 0
    /\ dpc[d] = "wait_connected" /\ "CONNECTED" \notin bits[d] /\ timer[d] < ConnectWait
         => calm <= Reconnect

TInv == TokenDue /\ Outages /\ Waits

LEMMA InitTInv == Init => TInv
  BY DevicesAssumption, WaitsAssumption DEF Init, TInv, TokenDue, Outages, LinkOf, Waits

LEMMA NetworkKeepsTInv ==
  ASSUME FInv, TInv, NEW d \in Devices,
         \/ StationEvent(d) \/ GotIp(d)
         \/ Connect(d) \/ ConnectFails(d) \/ Disconnected(d) \/ Retry(d)
  PROVE  TInv'
<1> USE WaitsAssumption
    DEF FInv, TypeOK, TInv, TokenDue, Outages, LinkOf, Waits, Recovered, app, mqtt, air
<1>1. CASE StationEvent(d)
  BY <1>1 DEF StationEvent
<1>2. CASE GotIp(d)
  BY <1>2 DEF GotIp, Set
<1>3. CASE Connect(d)
  BY <1>3 DEF Connect, Set, Broken
<1>4. CASE ConnectFails(d)
  BY <1>4 DEF ConnectFails, Pause
<1>5. CASE Disconnected(d)
  BY <1>5 DEF Disconnected, Pause
<1>6. CASE Retry(d)
  BY <1>6 DEF Retry
<1> QED
  BY <1>1, <1>2, <1>3, <1>4, <1>5, <1>6

LEMMA MainKeepsTInv ==
  ASSUME FInv, TInv, NEW d \in Devices,
         \/ WifiStart(d) \/ MqttStart(d) \/ PublishReady(d) \/ NonceReceived(d)
         \/ PublishToken(d) \/ DelayOver(d) \/ TimeOut(d)
  PROVE  TInv'
<1> USE WaitsAssumption
    DEF FInv, TypeOK, Connected, TInv, TokenDue, Outages, LinkOf, Waits, Recovered, Goto, app, mqtt, air
<1>1. CASE WifiStart(d)
  <2>1. TokenDue'
    BY <1>1 DEF WifiStart
  <2>2. Outages'
    BY <1>1 DEF WifiStart
  <2>3. Waits'
    BY <1>1 DEF WifiStart
  <2> QED
    BY <2>1, <2>2, <2>3
<1>2. CASE MqttStart(d)
  BY <1>2 DEF MqttStart
<1>3. CASE PublishReady(d)
  BY <1>3 DEF PublishReady, Publish
<1>4. CASE NonceReceived(d)
  BY <1>4 DEF NonceReceived
<1>5. CASE PublishToken(d)
  BY <1>5 DEF PublishToken, Publish
<1>6. CASE DelayOver(d)
  BY <1>6 DEF DelayOver, Disconnect
<1>7. CASE TimeOut(d)
  BY <1>7 DEF TimeOut, Disconnect
<1> QED
  BY <1>1, <1>2, <1>3, <1>4, <1>5, <1>6, <1>7

LEMMA RestKeepsTInv ==
  ASSUME FInv, TInv,
         \/ \E d \in Devices : Challenge(d) \/ \E m \in {"ready", "token"} : Send(d, m)
         \/ ApDown \/ ApUp \/ UNCHANGED vars
  PROVE  TInv'
<1> USE WaitsAssumption
    DEF FInv, TypeOK, TInv, TokenDue, Outages, LinkOf, Waits, Recovered, app, mqtt, air
<1>1. ASSUME NEW d \in Devices, Challenge(d) PROVE TInv'
  BY <1>1 DEF Challenge, Set
<1>2. ASSUME NEW d \in Devices, NEW m \in {"ready", "token"}, Send(d, m) PROVE TInv'
  BY <1>2 DEF Send, LastPublished
<1>3. CASE ApDown
  BY <1>3 DEF ApDown, Broken
<1>4. CASE ApUp
  BY <1>4 DEF ApUp
<1>5. CASE UNCHANGED vars
  BY <1>5 DEF vars
<1> QED
  BY <1>1, <1>2, <1>3, <1>4, <1>5

\* Nobody is busy when time passes.
LEMMA TickKeepsTInv ==
  ASSUME FInv, TInv, Tick
  PROVE  TInv'
<1> USE WaitsAssumption DEF FInv, TypeOK, Recovered
<1>1. TokenDue'
  <2> SUFFICES ASSUME NEW d \in Devices, dpc[d] = "delay", fate[d] = "queued" PROVE FALSE
    BY DEF TokenDue, Tick
  <2>1. Online(d) /\ "token" \in outbox[d]
    BY DEF TInv, TokenDue, Connected
  <2> QED
    BY <2>1 DEF Tick, Busy
<1>2. \A d \in Devices :
        /\ station[d] \in {"off", "ip"} \/ ~ ap
        /\ client[d] = "waiting" => pause[d] > 0
        /\ client[d] # "connecting"
  BY DEF Tick, Busy
<1>3. Outages'
  <2>1. ap' = ap /\ (~ ap => calm' = 0)
    BY DEF Tick, TInv, Outages
  <2> SUFFICES ASSUME NEW d \in Devices
               PROVE  LinkOf(d)'
    BY <2>1 DEF Outages
  <2>2. /\ (station[d] = "ip") <=> (station'[d] = "ip")
        /\ (station[d] = "off") <=> (station'[d] = "off")
    BY DEF Tick
  <2>3. /\ dpc' = dpc /\ client' = client /\ bits' = bits
        /\ calm' <= calm + 1 /\ pause'[d] = IF pause[d] > 0 THEN pause[d] - 1 ELSE 0
    BY DEF Tick, Less
  <2>4. "WIFI" \in bits[d] /\ station[d] # "ip" => ~ ap
    BY <1>2 DEF TInv, Outages, LinkOf
  <2>5. LinkOf(d)
    BY DEF TInv, Outages
  <2>6. (client[d] = "waiting" /\ "CONNECTED" \notin bits[d] => calm + pause[d] <= Reconnect)'
    <3> SUFFICES ASSUME client[d] = "waiting", "CONNECTED" \notin bits[d]
                 PROVE  calm' + pause'[d] <= Reconnect
      BY <2>3
    <3>1. /\ calm \in Nat /\ calm' \in Nat /\ pause[d] \in Nat /\ Reconnect \in Nat
          /\ calm' <= calm + 1
      BY DEF Tick
    <3>2. calm + pause[d] <= Reconnect
      BY <2>5 DEF LinkOf
    <3>3. pause'[d] = pause[d] - 1
      BY <1>2, <2>3
    <3> HIDE DEF FInv, TypeOK, Recovered
    <3> QED
      BY <3>1, <3>2, <3>3
  <2> QED
    BY <2>1, <2>2, <2>3, <2>4, <2>5, <2>6 DEF LinkOf
<1>4. Waits'
  BY <1>2 DEF TInv, Outages, LinkOf, Waits, Connected, Tick, Less
<1> QED
  BY <1>1, <1>3, <1>4 DEF TInv

\* What the time that has passed says about the connections.
THEOREM Punctual == Spec => []TInv
<1>1. FInv /\ TInv /\ [Next]_vars => TInv'
  <2> SUFFICES ASSUME FInv, TInv, [Next]_vars PROVE TInv'
    OBVIOUS
  <2>1. CASE \E d \in Devices : Prompt(d) \/ Disconnected(d) \/ WifiStart(d) \/ PublishToken(d)
    <3> PICK d \in Devices : Prompt(d) \/ Disconnected(d) \/ WifiStart(d) \/ PublishToken(d)
      BY <2>1
    <3> QED
      BY NetworkKeepsTInv, MainKeepsTInv, RestKeepsTInv DEF Prompt
  <2> QED
    BY <2>1, RestKeepsTInv, TickKeepsTInv DEF Next
<1> QED
  BY InitTInv, Invariance, <1>1, PTL DEF Spec

\* For any number of devices that push each other out, Wi-Fi or the broker is
\* given up only if the access point was away at the time, or a pause ago.
THEOREM OutagesOnly == Spec => GivesUpOnlyAfterOutage
<1>1. FInv /\ TInv /\ [Next]_vars =>
        [\A d \in Devices :
           /\ dpc[d] = "wait_wifi" /\ dpc'[d] = "no_wifi" => calm = 0
           /\ dpc[d] = "wait_connected" /\ dpc'[d] = "no_broker" => calm <= Reconnect]_vars
  <2> SUFFICES ASSUME FInv, TInv, [Next]_vars, NEW d \in Devices
               PROVE  /\ dpc[d] = "wait_wifi" /\ dpc'[d] = "no_wifi" => calm = 0
                      /\ dpc[d] = "wait_connected" /\ dpc'[d] = "no_broker"
                           => calm <= Reconnect
    OBVIOUS
  <2>1. dpc'[d] # dpc[d] /\ dpc'[d] \in {"no_wifi", "no_broker"} => TimeOut(d)
    BY OnlyTimeOutGivesUp DEF FInv
  <2>2. ASSUME TimeOut(d)
        PROVE  /\ timer[d] = 0
               /\ dpc[d] = "wait_wifi" => "WIFI" \notin bits[d]
               /\ dpc[d] = "wait_connected" => "CONNECTED" \notin bits[d]
    BY <2>2 DEF TimeOut
  <2>3. 0 < WifiWait /\ 0 < ConnectWait
    BY WaitsAssumption
  <2> QED
    BY <2>1, <2>2, <2>3 DEF TInv, Waits
<1> QED
  BY Invariance, Punctual, <1>1, PTL DEF Spec, GivesUpOnlyAfterOutage

\* The client is not stopped on a token that its connection would have carried.
THEOREM TokenSent == Spec => TokenLostOnlyOffAir
<1>1. FInv /\ TInv /\ [Next]_vars =>
        [\A d \in Devices :
           dpc[d] = "delay" /\ dpc'[d] = "done" => fate[d] # "queued"]_vars
  <2> SUFFICES ASSUME FInv, TInv, [Next]_vars, NEW d \in Devices,
                      dpc[d] = "delay", dpc'[d] = "done"
               PROVE  fate[d] # "queued"
    OBVIOUS
  <2>1. timer[d] = 0
    BY MainMoves DEF FInv, TypeOK, WifiStart, MqttStart, PublishReady, NonceReceived,
                     PublishToken, DelayOver, TimeOut
  <2> QED
    BY <2>1 DEF TInv, TokenDue
<1> QED
  BY Invariance, Punctual, <1>1, PTL DEF Spec, TokenLostOnlyOffAir

-----------------------------------------------------------------------------
\* Two devices.  How long one may still be kept from the broker: what is left of
\* its pause, and another pause if the other may push it out when it comes back.
\* The other may not once it has its connection, as it only loses that to the
\* first, nor when its own pause ends later.
TwoDevices == \A x, y, z \in Devices : x = y \/ y = z \/ x = z

Over == {"done", "no_nonce"}

MayPush(e, d) ==
  \/ dpc[e] \in {"off", "wait_wifi"}
  \/ client[e] = "connecting"
  \/ client[e] = "waiting" /\ pause[e] <= pause[d]

Left(d) ==
  IF client[d] = "up" /\ holder # d THEN Reconnect
  ELSE pause[d] + (IF \E e \in Devices \ {d} : MayPush(e, d) THEN Reconnect ELSE 0)

Unsent(d) == dpc[d] = "wait_nonce" /\ fate[d] \in {"queued", "cut"}

\* A client that is up has its connection or has lost it to the other one, which
\* has it still unless its network is gone.
Held ==
  \A d \in Devices :
    /\ client[d] # "waiting" => pause[d] = 0
    /\ dpc[d] \in Over => client[d] = "off"
    /\ \A e \in Devices \ {d} : client[d] = "up" =>
         /\ dpc[e] \notin Over => holder \in {d, e}
         /\ holder = e /\ client[e] # "up" => calm = 0

\* Since the access point was away, or since "ready" was published, no more has
\* passed than the two pauses less what may come.
Soon ==
  \A d \in Devices : Unsent(d) =>
    /\ "ready" \in outbox[d]
    /\ calm + Left(d) <= 2 * Reconnect \/ NonceWait - timer[d] + Left(d) <= 2 * Reconnect

LEMMA LeftBounded ==
  ASSUME TypeOK, NEW d \in Devices
  PROVE  Left(d) \in 0 .. 2 * Reconnect
  BY WaitsAssumption DEF TypeOK, Left

\* An address that is missing means an outage just now.
LEMMA NoAddressMeansOutage ==
  ASSUME TInv, NEW d \in Devices, client[d] # "off", station[d] # "ip"
  PROVE  calm = 0
  BY DEF TInv, Outages, LinkOf

LEMMA InitHeld == Init => Held
  BY DEF Init, Held

LEMMA NetworkKeepsHeld ==
  ASSUME FInv, TInv, Held, TwoDevices, NEW d \in Devices,
         \/ StationEvent(d) \/ GotIp(d)
         \/ Connect(d) \/ ConnectFails(d) \/ Disconnected(d) \/ Retry(d)
  PROVE  Held'
<1> USE DevicesAssumption DEF FInv, TypeOK, Held, TwoDevices, app, mqtt, air
<1>1. CASE StationEvent(d)
  BY <1>1 DEF StationEvent
<1>2. CASE GotIp(d)
  BY <1>2 DEF GotIp
<1>3. CASE Connect(d)
  BY <1>3 DEF Connect
<1>4. CASE ConnectFails(d)
  BY <1>4 DEF ConnectFails, Pause
<1>5. CASE Disconnected(d)
  BY <1>5, NoAddressMeansOutage DEF Disconnected, Pause
<1>6. CASE Retry(d)
  BY <1>6 DEF Retry
<1> QED
  BY <1>1, <1>2, <1>3, <1>4, <1>5, <1>6

LEMMA MainKeepsHeld ==
  ASSUME FInv, Held, TwoDevices, NEW d \in Devices,
         \/ WifiStart(d) \/ MqttStart(d) \/ PublishReady(d) \/ NonceReceived(d)
         \/ PublishToken(d) \/ DelayOver(d) \/ TimeOut(d)
  PROVE  Held'
<1> USE DevicesAssumption DEF FInv, TypeOK, Connected, Held, TwoDevices, Over, Goto, app, mqtt, air
<1>1. CASE WifiStart(d)
  BY <1>1 DEF WifiStart
<1>2. CASE MqttStart(d)
  BY <1>2 DEF MqttStart
<1>3. CASE PublishReady(d)
  BY <1>3 DEF PublishReady, Publish
<1>4. CASE NonceReceived(d)
  BY <1>4 DEF NonceReceived
<1>5. CASE PublishToken(d)
  BY <1>5 DEF PublishToken, Publish
<1>6. CASE DelayOver(d)
  BY <1>6 DEF DelayOver, Disconnect
<1>7. CASE TimeOut(d)
  BY <1>7 DEF TimeOut, Disconnect
<1> QED
  BY <1>1, <1>2, <1>3, <1>4, <1>5, <1>6, <1>7

LEMMA RestKeepsHeld ==
  ASSUME FInv, Held,
         \/ \E d \in Devices : Challenge(d) \/ \E m \in {"ready", "token"} : Send(d, m)
         \/ ApDown \/ ApUp \/ Tick \/ UNCHANGED vars
  PROVE  Held'
<1> USE DEF FInv, TypeOK, Held, app, mqtt, air
<1>1. ASSUME NEW d \in Devices, Challenge(d) PROVE Held'
  BY <1>1 DEF Challenge
<1>2. ASSUME NEW d \in Devices, NEW m \in {"ready", "token"}, Send(d, m) PROVE Held'
  BY <1>2 DEF Send
<1>3. CASE ApDown
  BY <1>3 DEF ApDown
<1>4. CASE ApUp
  BY <1>4 DEF ApUp
<1>5. CASE Tick
  BY <1>5 DEF Tick, Less, Busy
<1>6. CASE UNCHANGED vars
  BY <1>6 DEF vars
<1> QED
  BY <1>1, <1>2, <1>3, <1>4, <1>5, <1>6

\* A step that takes no time, and after which no device has more left.
LEMMA SoonStays ==
  ASSUME FInv, FInv', Soon, calm' = calm,
         \A d \in Devices : Unsent(d)' =>
           /\ Unsent(d) /\ "ready" \in outbox'[d]
           /\ timer'[d] = timer[d] /\ Left(d)' <= Left(d)
  PROVE  Soon'
<1> SUFFICES ASSUME NEW d \in Devices, Unsent(d)'
             PROVE  /\ "ready" \in outbox'[d]
                    /\ \/ calm + Left(d)' <= 2 * Reconnect
                       \/ NonceWait - timer[d] + Left(d)' <= 2 * Reconnect
  BY DEF Soon
<1>1. Left(d) \in Int /\ Left(d)' \in Int
  BY WaitsAssumption, LeftBounded DEF FInv, TypeOK, Left
<1>2. calm \in Int /\ timer[d] \in Int /\ Reconnect \in Int /\ NonceWait \in Int
  BY WaitsAssumption DEF FInv, TypeOK, Recovered
<1>3. /\ "ready" \in outbox'[d] /\ Left(d)' <= Left(d)
      /\ calm + Left(d) <= 2 * Reconnect \/ NonceWait - timer[d] + Left(d) <= 2 * Reconnect
  BY DEF Soon
<1> QED
  BY <1>1, <1>2, <1>3

\* A step that leaves no time since an outage.
LEMMA SoonAtOutage ==
  ASSUME FInv', calm' = 0, \A d \in Devices : Unsent(d)' => "ready" \in outbox'[d]
  PROVE  Soon'
<1> SUFFICES ASSUME NEW d \in Devices PROVE calm' + Left(d)' <= 2 * Reconnect
  BY DEF Soon
<1> QED
  BY WaitsAssumption DEF FInv, TypeOK, Left

LEMMA NetworkKeepsSoon ==
  ASSUME FInv, FInv', TInv, Held, Soon, TwoDevices, NEW d \in Devices,
         \/ StationEvent(d) \/ GotIp(d)
         \/ Connect(d) \/ ConnectFails(d) \/ Disconnected(d) \/ Retry(d)
  PROVE  Soon'
<1>1. /\ timer' = timer /\ calm' = calm /\ dpc' = dpc
      /\ \A e \in Devices : Unsent(e)' => Unsent(e) /\ "ready" \in outbox'[e]
  BY DEF StationEvent, GotIp, Connect, ConnectFails, Disconnected, Retry, Pause, Soon, Broken,
         FInv, TypeOK, Unsent, app, mqtt, air
<1>2. CASE calm = 0
  BY <1>1, <1>2, SoonAtOutage
<1>3. ASSUME calm # 0, NEW e \in Devices, Unsent(e) PROVE Left(e)' <= Left(e)
  <2> USE DevicesAssumption, WaitsAssumption, <1>1, <1>3
      DEF Left, MayPush, FInv, TypeOK, Held, mqtt
  <2>1. CASE StationEvent(d)
    BY <2>1 DEF StationEvent
  <2>2. CASE GotIp(d)
    BY <2>2 DEF GotIp
  <2>3. CASE Connect(d)
    BY <2>3 DEF Connect, TwoDevices
  <2>4. CASE ConnectFails(d)
    BY <2>4, NoAddressMeansOutage DEF ConnectFails, Pause
  <2>5. CASE Disconnected(d)
    <3>1. holder # d /\ client[d] = "up" /\ client' = [client EXCEPT ![d] = "waiting"]
          /\ pause' = [pause EXCEPT ![d] = Reconnect] /\ holder' = holder
      BY <2>5, NoAddressMeansOutage DEF Disconnected, Pause
    <3>2. CASE e = d
      <4>1. \A x \in Devices \ {d} : ~ MayPush(x, d)'
        BY <3>1, <3>2 DEF Over, Connected
      <4> QED
        BY <3>1, <3>2, <4>1
    <3>3. CASE e # d
      <4>1. client[e] = "up" \/ calm = 0
        BY <3>1, <3>3 DEF Over, Unsent
      <4> QED
        BY <3>1, <3>3, <4>1 DEF TwoDevices
    <3> QED
      BY <3>2, <3>3
  <2>6. CASE Retry(d)
    BY <2>6 DEF Retry
  <2> QED
    BY <2>1, <2>2, <2>3, <2>4, <2>5, <2>6
<1> QED
  BY <1>1, <1>2, <1>3, SoonStays

LEMMA MainKeepsSoon ==
  ASSUME FInv, FInv', Held, Soon, NEW d \in Devices,
         \/ WifiStart(d) \/ MqttStart(d) \/ PublishReady(d) \/ NonceReceived(d)
         \/ PublishToken(d) \/ DelayOver(d) \/ TimeOut(d)
  PROVE  Soon'
<1>1. CASE PublishReady(d)
  <2> SUFFICES ASSUME NEW e \in Devices, Unsent(e)'
               PROVE  /\ "ready" \in outbox'[e]
                      /\ \/ calm' + Left(e)' <= 2 * Reconnect
                         \/ NonceWait - timer'[e] + Left(e)' <= 2 * Reconnect
    BY DEF Soon
  <2>1. CASE e = d
    <3>1. Left(d)' \in 0 .. 2 * Reconnect
      BY WaitsAssumption DEF FInv, TypeOK, Left
    <3>2. "ready" \in outbox'[d] /\ timer'[d] = NonceWait
      BY <1>1 DEF PublishReady, Publish, Goto, FInv, TypeOK
    <3> QED
      BY <2>1, <3>1, <3>2, WaitsAssumption
  <2>2. CASE e # d
    <3>1. /\ calm' = calm /\ timer'[e] = timer[e] /\ outbox'[e] = outbox[e]
          /\ Unsent(e) /\ client' = client /\ holder' = holder /\ pause' = pause
      BY <1>1, <2>2 DEF PublishReady, Publish, Goto, FInv, TypeOK, Unsent, air
    <3>2. Left(e)' = Left(e)
      BY <1>1, <3>1 DEF Left, MayPush, PublishReady, Goto, FInv, TypeOK
    <3> QED
      BY <3>1, <3>2 DEF Soon
  <2> QED
    BY <2>1, <2>2
<1>2. ASSUME ~ PublishReady(d)
      PROVE  Soon'
  <2> USE <1>2 DEF FInv, TypeOK, Unsent, Goto, app, mqtt, air
  <2>1. calm' = calm
    BY DEF WifiStart, MqttStart, NonceReceived, PublishToken, Publish, DelayOver, TimeOut
  <2>2. ASSUME NEW e \in Devices, Unsent(e)'
        PROVE  e # d /\ Unsent(e) /\ "ready" \in outbox'[e] /\ timer'[e] = timer[e]
    BY <2>2 DEF WifiStart, MqttStart, NonceReceived, PublishToken, Publish, DelayOver, TimeOut,
                Disconnect, Soon
  <2>3. ASSUME NEW e \in Devices \ {d}, Unsent(e)
        PROVE  Left(e)' <= Left(e)
    <3> USE <2>3, WaitsAssumption DEF Left, MayPush, Connected
    <3>1. CASE WifiStart(d)
      BY <3>1 DEF WifiStart
    <3>2. CASE MqttStart(d)
      BY <3>2 DEF MqttStart
    <3>3. CASE NonceReceived(d)
      BY <3>3 DEF NonceReceived
    <3>4. CASE PublishToken(d)
      BY <3>4 DEF PublishToken, Publish
    <3>5. CASE DelayOver(d) \/ TimeOut(d)
      <4>1. /\ client'[e] = client[e] /\ pause'[e] = pause[e]
            /\ holder' = holder \/ (holder = d /\ holder' = None)
        BY <3>5 DEF DelayOver, TimeOut, Disconnect
      <4>2. (client'[e] = "up" /\ holder' # e) = (client[e] = "up" /\ holder # e)
        BY <4>1, DevicesAssumption
      <4>3. ASSUME NEW x \in Devices \ {e}, MayPush(x, e)'
            PROVE  MayPush(x, e)
        BY <3>5, <4>1, <4>3 DEF DelayOver, TimeOut, Disconnect
      <4>4. CASE client[e] = "up" /\ holder # e
        BY <4>2, <4>4
      <4>5. CASE ~ (client[e] = "up" /\ holder # e)
        <5>1. Left(e)' = pause[e] + IF \E x \in Devices \ {e} : MayPush(x, e)'
                                      THEN Reconnect ELSE 0
          BY <4>1, <4>2, <4>5
        <5>2. Left(e) = pause[e] + IF \E x \in Devices \ {e} : MayPush(x, e)
                                     THEN Reconnect ELSE 0
          BY <4>5
        <5>3. pause[e] \in Nat /\ Reconnect \in Nat
          OBVIOUS
        <5> HIDE DEF Left, MayPush, FInv, TypeOK
        <5> QED
          BY <4>3, <5>1, <5>2, <5>3
      <4> QED
        BY <4>4, <4>5
    <3> QED
      BY <3>1, <3>2, <3>3, <3>4, <3>5
  <2> QED
    BY <2>1, <2>2, <2>3, SoonStays
<1> QED
  BY <1>1, <1>2

LEMMA RestKeepsSoon ==
  ASSUME FInv, FInv', Held, Soon,
         \/ \E d \in Devices : Challenge(d) \/ \E m \in {"ready", "token"} : Send(d, m)
         \/ ApDown \/ ApUp \/ UNCHANGED vars
  PROVE  Soon'
<1>1. /\ timer' = timer /\ dpc' = dpc /\ client' = client /\ pause' = pause /\ holder' = holder
      /\ calm' \in {calm, 0}
      /\ \A e \in Devices : Unsent(e)' => Unsent(e) /\ "ready" \in outbox'[e]
  BY DEF Challenge, Send, LastPublished, ApDown, ApUp, vars, app, mqtt, air, Soon, Unsent, Broken,
         FInv, TypeOK
<1>2. \A e \in Devices : Left(e)' = Left(e) /\ Left(e) <= Left(e)
  BY <1>1, LeftBounded DEF Left, MayPush, FInv
<1> QED
  BY <1>1, <1>2, SoonStays, SoonAtOutage

\* A device that the broker has not heard is in its pause when time passes, or
\* there is no access point.
LEMMA TickKeepsSoon ==
  ASSUME FInv, FInv', TInv, Held, Soon, Tick
  PROVE  Soon'
<1>1. CASE ap = FALSE
  BY <1>1, SoonAtOutage DEF Tick, TInv, Outages, Soon, Unsent
<1>2. CASE ap = TRUE
  <2> SUFFICES ASSUME NEW d \in Devices, Unsent(d)
               PROVE  /\ "ready" \in outbox'[d]
                      /\ \/ calm' + Left(d)' <= 2 * Reconnect
                         \/ NonceWait - timer'[d] + Left(d)' <= 2 * Reconnect
    BY DEF Soon, Tick, Unsent
  <2>1. client[d] = "waiting" /\ pause[d] > 0
    <3>1. "ready" \in outbox[d]
      BY DEF Soon
    <3>2. station[d] = "ip"
      BY <1>2 DEF Tick, Busy, Unsent, FInv, TypeOK, Connected, TInv, Outages, LinkOf
    <3> QED
      BY <3>1, <3>2 DEF Tick, Busy, Online, Unsent, FInv, TypeOK, Connected
  <2>2. \A e \in Devices : client[e] = "waiting" => pause[e] > 0
    BY DEF Tick, Busy, FInv, TypeOK
  <2>3. \A e \in Devices : MayPush(e, d)' <=> MayPush(e, d)
    BY <2>1, <2>2 DEF MayPush, Tick, Less, FInv, TypeOK
  <2>4. Left(d)' = Left(d) - 1
    BY <2>1, <2>3, WaitsAssumption DEF Left, Tick, Less, FInv, TypeOK
  <2>5. /\ Left(d) \in Nat /\ calm \in Nat /\ calm' \in Nat /\ calm' <= calm + 1
        /\ timer[d] \in Nat /\ timer'[d] \in Nat /\ timer[d] <= timer'[d] + 1
        /\ NonceWait \in Nat /\ Reconnect \in Nat
    BY LeftBounded, WaitsAssumption DEF Tick, Less, FInv, TypeOK, Recovered
  <2>6. /\ "ready" \in outbox'[d]
        /\ calm + Left(d) <= 2 * Reconnect \/ NonceWait - timer[d] + Left(d) <= 2 * Reconnect
    BY DEF Soon, Tick
  <2> QED
    BY <2>4, <2>5, <2>6
<1> QED
  BY <1>1, <1>2 DEF FInv, TypeOK

\* Of two devices, neither keeps the other's "ready" from the broker.
THEOREM ReadySent == ASSUME TwoDevices PROVE Spec => ReadyGetsThrough
<1>1. Init => Held /\ Soon
  BY InitHeld DEF Init, Soon, Unsent
<1>2. FInv /\ FInv' /\ TInv /\ Held /\ Soon /\ [Next]_vars => Held' /\ Soon'
  <2> SUFFICES ASSUME FInv, FInv', TInv, Held, Soon, [Next]_vars PROVE Held' /\ Soon'
    OBVIOUS
  <2>1. CASE \E d \in Devices : Prompt(d) \/ Disconnected(d) \/ WifiStart(d) \/ PublishToken(d)
    <3> PICK d \in Devices : Prompt(d) \/ Disconnected(d) \/ WifiStart(d) \/ PublishToken(d)
      BY <2>1
    <3>1. Held'
      BY NetworkKeepsHeld, MainKeepsHeld, RestKeepsHeld DEF Prompt
    <3>2. Soon'
      BY NetworkKeepsSoon, MainKeepsSoon, RestKeepsSoon DEF Prompt
    <3> QED
      BY <3>1, <3>2
  <2>2. CASE ApDown \/ ApUp \/ Tick \/ UNCHANGED vars
    BY <2>2, RestKeepsHeld, RestKeepsSoon, TickKeepsSoon
  <2> QED
    BY <2>1, <2>2 DEF Next
<1>3. FInv /\ Soon /\ [Next]_vars =>
        [\A d \in Devices :
           dpc[d] = "wait_nonce" /\ dpc'[d] = "no_nonce" /\ fate[d] \in {"queued", "cut"}
             => calm < Recovered]_vars
  <2> SUFFICES ASSUME FInv, Soon, [Next]_vars, NEW d \in Devices,
                      dpc[d] = "wait_nonce", dpc'[d] = "no_nonce", fate[d] \in {"queued", "cut"}
               PROVE  calm < Recovered
    OBVIOUS
  <2>1. timer[d] = 0
    BY OnlyTimeOutGivesUp DEF FInv, TimeOut
  <2>2. Left(d) \in Nat
    BY LeftBounded, WaitsAssumption DEF FInv
  <2>3. calm + Left(d) <= 2 * Reconnect \/ NonceWait - timer[d] + Left(d) <= 2 * Reconnect
    BY DEF Soon, Unsent
  <2>4. calm \in Nat /\ NonceWait \in Nat /\ Reconnect \in Nat /\ 2 * Reconnect < NonceWait
    BY WaitsAssumption DEF FInv, TypeOK, Recovered
  <2> QED
    BY <2>1, <2>2, <2>3, <2>4 DEF Recovered
<1> QED
  BY Invariance, Punctual, <1>1, <1>2, <1>3, PTL DEF Spec, ReadyGetsThrough
=============================================================================
