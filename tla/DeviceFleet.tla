------------------------------ MODULE DeviceFleet ------------------------------
(***************************************************************************)
(* Several devices at one access point and one broker, one boot of each:   *)
(* the Wi-Fi station of puf_wifi.c, the MQTT client of puf_mqtt.c, and     *)
(* app_main's waits with their limits.  All devices connect under the      *)
(* client id "esp32s3_puf", so the broker drops the connection of one when *)
(* another connects, and the one dropped comes back after a pause.         *)
(*                                                                         *)
(* Time passes in ticks, and only when nobody has anything to do; within   *)
(* a tick all orders are possible.  What a nonce or a token is made of is  *)
(* Attestation's subject.                                                  *)
(***************************************************************************)
EXTENDS Naturals

CONSTANTS
  Devices,
  None,         \* no device
  WifiWait,     \* 60 s, the wait in puf_wifi_connect
  ConnectWait,  \* 30 s, in puf_mqtt_connect
  NonceWait,    \* 120 s, in puf_mqtt_wait_for_nonce
  Delay,        \* 2 s, between the token and the end of the client
  Reconnect,    \* 10 s, the client's pause before it connects again
  MaxOutages    \* bound: how often the access point goes away

ASSUME DevicesAssumption == None \notin Devices /\ MaxOutages \in Nat

ASSUME WaitsAssumption ==
  /\ {WifiWait, ConnectWait, NonceWait, Delay, Reconnect} \subseteq Nat \ {0}
  /\ Delay < Reconnect /\ Reconnect < ConnectWait
  /\ ConnectWait < WifiWait /\ WifiWait < NonceWait /\ 2 * Reconnect < NonceWait

VARIABLES
  dpc,        \* where app_main of each device stands
  timer,      \* what is left of its wait
  station,    \* the Wi-Fi station; "event": the handler has yet to run
  client,     \* the MQTT client
  pause,      \* what is left of its pause
  bits,       \* the bits of both event groups
  outbox,     \* messages the client has to send
  subscribed, \* devices whose connection has its subscriptions
  ap,         \* the access point is up
  outages,    \* times it went away
  calm,       \* ticks since it last was not up, up to Recovered
  holder,     \* the device whose connection the broker keeps
  challenge,  \* devices a challenge is on its way to
  fate        \* what became of the last message published, see Publish

app == <<dpc, timer>>
mqtt == <<client, pause, outbox, subscribed>>
air == <<ap, outages, calm>>
vars == <<dpc, timer, station, client, pause, bits, outbox, subscribed, ap, outages,
          calm, holder, challenge, fate>>

\* Two pauses: by then a client has connected, been pushed out and come back.
Recovered == 2 * Reconnect + 1

Init ==
  /\ dpc = [d \in Devices |-> "off"] /\ timer = [d \in Devices |-> 0]
  /\ station = [d \in Devices |-> "off"]
  /\ client = [d \in Devices |-> "off"] /\ pause = [d \in Devices |-> 0]
  /\ bits = [d \in Devices |-> {}]
  /\ outbox = [d \in Devices |-> {}] /\ subscribed = {}
  /\ ap = TRUE /\ outages = 0 /\ calm = Recovered
  /\ holder = None
  /\ challenge = {}
  /\ fate = [d \in Devices |-> "none"]

\* app_main of d goes on to p, where it waits for at most t ticks.
Goto(d, p, t) == dpc' = [dpc EXCEPT ![d] = p] /\ timer' = [timer EXCEPT ![d] = t]

Set(d, b) == bits' = [bits EXCEPT ![d] = @ \cup {b}]

\* What the end of a connection makes of a message's fate.
Broken(f) == CASE f = "queued" -> "cut" [] f = "heard" -> "missed" [] OTHER -> f

Online(d) == client[d] = "up" /\ station[d] = "ip" /\ holder = d

-----------------------------------------------------------------------------
\* puf_wifi.c

\* puf_wifi_connect: handlers are registered, then the station is started.
WifiStart(d) ==
  /\ dpc[d] = "off"
  /\ Goto(d, "wait_wifi", WifiWait)
  /\ station' = [station EXCEPT ![d] = "event"]
  /\ UNCHANGED <<mqtt, bits, air, holder, challenge, fate>>

\* Mutant: the station is not asked to connect again once it had its address.
StationEventOnce(d) ==
  /\ station[d] = "event"
  /\ station' = [station EXCEPT ![d] = IF "WIFI" \in bits[d] THEN "off" ELSE "joining"]
  /\ UNCHANGED <<app, mqtt, bits, air, holder, challenge, fate>>

\* wifi_event_handler, STA_START and STA_DISCONNECTED: esp_wifi_connect.
StationEvent(d) ==
  /\ station[d] = "event"
  /\ station' = [station EXCEPT ![d] = "joining"]
  /\ UNCHANGED <<app, mqtt, bits, air, holder, challenge, fate>>

\* STA_GOT_IP
GotIp(d) ==
  /\ station[d] = "joining" /\ ap
  /\ station' = [station EXCEPT ![d] = "ip"]
  /\ Set(d, "WIFI")
  /\ UNCHANGED <<app, mqtt, air, holder, challenge, fate>>

\* The access point goes away: STA_DISCONNECTED.  WIFI_CONNECTED_BIT stays.
ApDown ==
  /\ ap /\ outages < MaxOutages
  /\ ap' = FALSE /\ outages' = outages + 1 /\ calm' = 0
  /\ station' = [d \in Devices |-> IF station[d] = "ip" THEN "event" ELSE station[d]]
  /\ fate' = [d \in Devices |-> Broken(fate[d])]
  /\ UNCHANGED <<app, mqtt, bits, holder, challenge>>

ApUp ==
  /\ ~ap /\ ap' = TRUE
  /\ UNCHANGED <<app, station, mqtt, bits, outages, calm, holder, challenge, fate>>

-----------------------------------------------------------------------------
\* app_main and the calls it waits in

\* puf_mqtt_connect: the client is started.
MqttStart(d) ==
  /\ dpc[d] = "wait_wifi" /\ "WIFI" \in bits[d]
  /\ Goto(d, "wait_connected", ConnectWait)
  /\ client' = [client EXCEPT ![d] = "connecting"]
  /\ UNCHANGED <<station, pause, bits, outbox, subscribed, air, holder, challenge, fate>>

\* A message the broker has not had is "cut" if the connection was down at any
\* time since it was published, and "queued" otherwise.
Publish(d, m) ==
  /\ outbox' = [outbox EXCEPT ![d] = @ \cup {m}]
  /\ fate' = [fate EXCEPT ![d] = IF Online(d) THEN "queued" ELSE "cut"]
  /\ UNCHANGED <<station, client, pause, bits, subscribed, air, holder, challenge>>

\* Mutant: ready is published with QoS 0, which the client does not keep.
PublishReadyOnce(d) ==
  /\ dpc[d] = "wait_connected" /\ "CONNECTED" \in bits[d]
  /\ Goto(d, "wait_nonce", NonceWait)
  /\ outbox' = [outbox EXCEPT ![d] = IF Online(d) THEN {"ready"} ELSE {}]
  /\ fate' = [fate EXCEPT ![d] = IF Online(d) THEN "queued" ELSE "cut"]
  /\ UNCHANGED <<station, client, pause, bits, subscribed, air, holder, challenge>>

\* puf_mqtt_wait_for_nonce.  CONNECTED_BIT may be out of date.
PublishReady(d) ==
  /\ dpc[d] = "wait_connected" /\ "CONNECTED" \in bits[d]
  /\ Goto(d, "wait_nonce", NonceWait)
  /\ Publish(d, "ready")

NonceReceived(d) ==
  /\ dpc[d] = "wait_nonce" /\ "NONCE" \in bits[d]
  /\ Goto(d, "wait_pir", 0)
  /\ bits' = [bits EXCEPT ![d] = @ \ {"NONCE"}]
  /\ UNCHANGED <<station, mqtt, air, holder, challenge, fate>>

\* Mutant: no delay before puf_mqtt_disconnect.
PublishTokenNoDelay(d) ==
  /\ dpc[d] = "wait_pir"
  /\ Goto(d, "delay", 0)
  /\ Publish(d, "token")

\* The sensor goes high: the token is published.
PublishToken(d) ==
  /\ dpc[d] = "wait_pir"
  /\ Goto(d, "delay", Delay)
  /\ Publish(d, "token")

\* Mutant: the client is destroyed without being stopped.
DisconnectLeavesConnection(d) ==
  /\ client' = [client EXCEPT ![d] = "off"]
  /\ pause' = [pause EXCEPT ![d] = 0]
  /\ outbox' = [outbox EXCEPT ![d] = {}]
  /\ UNCHANGED <<subscribed, holder>>

\* puf_mqtt_disconnect: the client stops, and its outbox is gone with it.
Disconnect(d) ==
  /\ client' = [client EXCEPT ![d] = "off"]
  /\ pause' = [pause EXCEPT ![d] = 0]
  /\ outbox' = [outbox EXCEPT ![d] = {}]
  /\ subscribed' = subscribed \ {d}
  /\ holder' = IF holder = d THEN None ELSE holder

DelayOver(d) ==
  /\ dpc[d] = "delay" /\ timer[d] = 0
  /\ Goto(d, "done", 0)
  /\ Disconnect(d)
  /\ UNCHANGED <<station, bits, air, challenge, fate>>

\* A wait runs out.  Only the last one stops the client.
TimeOut(d) ==
  /\ timer[d] = 0
  /\ \/ /\ dpc[d] = "wait_wifi" /\ "WIFI" \notin bits[d]
        /\ Goto(d, "no_wifi", 0)
        /\ UNCHANGED <<mqtt, holder>>
     \/ /\ dpc[d] = "wait_connected" /\ "CONNECTED" \notin bits[d]
        /\ Goto(d, "no_broker", 0)
        /\ UNCHANGED <<mqtt, holder>>
     \/ /\ dpc[d] = "wait_nonce" /\ "NONCE" \notin bits[d]
        /\ Goto(d, "no_nonce", 0)
        /\ Disconnect(d)
  /\ UNCHANGED <<station, bits, air, challenge, fate>>

-----------------------------------------------------------------------------
\* The MQTT client's task and the broker

\* Mutant: topics are subscribed at the first connection only.
ConnectSubscribingOnce(d) ==
  /\ client[d] = "connecting" /\ station[d] = "ip"
  /\ client' = [client EXCEPT ![d] = "up"]
  /\ holder' = d
  /\ subscribed' = IF "CONNECTED" \in bits[d] THEN subscribed ELSE subscribed \cup {d}
  /\ Set(d, "CONNECTED")
  /\ fate' = [e \in Devices |-> IF e = holder THEN Broken(fate[e]) ELSE fate[e]]
  /\ UNCHANGED <<app, station, pause, outbox, air, challenge>>

\* MQTT_EVENT_CONNECTED: topics are subscribed.  The broker gives up an older
\* connection of this client id, whoever's it is.
Connect(d) ==
  /\ client[d] = "connecting" /\ station[d] = "ip"
  /\ client' = [client EXCEPT ![d] = "up"]
  /\ holder' = d
  /\ subscribed' = subscribed \cup {d}
  /\ Set(d, "CONNECTED")
  /\ fate' = [e \in Devices |-> IF e = holder THEN Broken(fate[e]) ELSE fate[e]]
  /\ UNCHANGED <<app, station, pause, outbox, air, challenge>>

Pause(d) ==
  /\ client' = [client EXCEPT ![d] = "waiting"]
  /\ pause' = [pause EXCEPT ![d] = Reconnect]
  /\ UNCHANGED <<app, station, bits, outbox, air, holder, challenge>>

ConnectFails(d) ==
  /\ client[d] = "connecting" /\ station[d] # "ip"
  /\ Pause(d)
  /\ UNCHANGED <<subscribed, fate>>

\* MQTT_EVENT_DISCONNECTED: the broker has closed the connection, or the client
\* finds it broken while the station has none.  The session is a clean one.
Disconnected(d) ==
  /\ client[d] = "up" /\ (holder # d \/ station[d] # "ip")
  /\ Pause(d)
  /\ subscribed' = subscribed \ {d}
  /\ UNCHANGED fate

Retry(d) ==
  /\ client[d] = "waiting" /\ pause[d] = 0
  /\ client' = [client EXCEPT ![d] = "connecting"]
  /\ UNCHANGED <<app, station, pause, bits, outbox, subscribed, air, holder, challenge, fate>>

\* The message d published last.
LastPublished(d) == IF dpc[d] = "delay" THEN "token" ELSE "ready"

\* The broker gets a message; a verifier session listens, and answers "ready",
\* or none does.  Until a PUBACK comes the client sends the message again.
Send(d, m) ==
  /\ Online(d) /\ m \in outbox[d]
  /\ \E listening, acked \in BOOLEAN :
       /\ fate' = [fate EXCEPT ![d] = IF m # LastPublished(d) THEN @
                                 ELSE IF listening \/ @ = "heard" THEN "heard"
                                 ELSE "unheard"]
       /\ challenge' = IF listening /\ m = "ready" THEN challenge \cup {d} ELSE challenge
       /\ outbox' = [outbox EXCEPT ![d] = IF acked THEN @ \ {m} ELSE @]
  /\ UNCHANGED <<app, station, client, pause, bits, subscribed, air, holder>>

\* A challenge goes to the device if that has subscribed, and is lost otherwise:
\* MQTT_EVENT_DATA.
Challenge(d) ==
  /\ d \in challenge
  /\ challenge' = challenge \ {d}
  /\ IF Online(d) /\ d \in subscribed THEN Set(d, "NONCE") ELSE UNCHANGED bits
  /\ UNCHANGED <<app, station, mqtt, air, holder, fate>>

-----------------------------------------------------------------------------
\* What takes no time worth counting.
Prompt(d) ==
  \/ StationEvent(d) \/ GotIp(d)
  \/ MqttStart(d) \/ PublishReady(d) \/ NonceReceived(d) \/ DelayOver(d) \/ TimeOut(d)
  \/ Connect(d) \/ ConnectFails(d) \/ Retry(d) \/ (holder # d /\ Disconnected(d))
  \/ (\E m \in {"ready", "token"} : Send(d, m)) \/ Challenge(d)

\* Something of the above is due.
Busy(d) ==
  \/ station[d] = "event" \/ (station[d] = "joining" /\ ap)
  \/ dpc[d] = "wait_wifi" /\ ("WIFI" \in bits[d] \/ timer[d] = 0)
  \/ dpc[d] = "wait_connected" /\ ("CONNECTED" \in bits[d] \/ timer[d] = 0)
  \/ dpc[d] = "wait_nonce" /\ ("NONCE" \in bits[d] \/ timer[d] = 0)
  \/ dpc[d] = "delay" /\ timer[d] = 0
  \/ client[d] = "connecting" \/ (client[d] = "waiting" /\ pause[d] = 0)
  \/ client[d] = "up" /\ holder # d
  \/ Online(d) /\ outbox[d] # {}
  \/ d \in challenge

Less(f) == [d \in Devices |-> IF f[d] > 0 THEN f[d] - 1 ELSE 0]

\* An attempt to join without an access point ends in STA_DISCONNECTED.
Tick ==
  /\ \A d \in Devices : ~Busy(d)
  /\ timer' = Less(timer) /\ pause' = Less(pause)
  /\ station' = [d \in Devices |-> IF station[d] = "joining" THEN "event" ELSE station[d]]
  /\ calm' = IF ap /\ calm < Recovered THEN calm + 1 ELSE calm
  /\ UNCHANGED <<dpc, client, bits, outbox, subscribed, ap, outages, holder, challenge, fate>>

Next ==
  \/ \E d \in Devices : Prompt(d) \/ Disconnected(d) \/ WifiStart(d) \/ PublishToken(d)
  \/ ApDown \/ ApUp \/ Tick

Spec == Init /\ [][Next]_vars

-----------------------------------------------------------------------------
\* Properties

\* Every variable holds what its counterpart can hold, the broker keeps a
\* connection of a client that is on, and what is off has nothing left in it.
TypeOK ==
  /\ dpc \in [Devices -> {"off", "wait_wifi", "wait_connected", "wait_nonce", "wait_pir",
                          "delay", "done", "no_wifi", "no_broker", "no_nonce"}]
  /\ timer \in [Devices -> 0 .. NonceWait]
  /\ station \in [Devices -> {"off", "event", "joining", "ip"}]
  /\ client \in [Devices -> {"off", "connecting", "up", "waiting"}]
  /\ pause \in [Devices -> 0 .. Reconnect]
  /\ bits \in [Devices -> SUBSET {"WIFI", "CONNECTED", "NONCE"}]
  /\ outbox \in [Devices -> SUBSET {"ready", "token"}]
  /\ subscribed \subseteq {d \in Devices : client[d] = "up"}
  /\ ap \in BOOLEAN /\ outages \in 0 .. MaxOutages /\ calm \in 0 .. Recovered
  /\ holder \in {None} \cup {d \in Devices : client[d] # "off"}
  /\ challenge \subseteq Devices
  /\ fate \in [Devices -> {"none", "queued", "cut", "unheard", "heard", "missed"}]
  /\ \A d \in Devices : client[d] = "off" => outbox[d] = {} /\ pause[d] = 0

\* Whatever other devices do with the client id, a device gives up on Wi-Fi or
\* on the broker only if the access point was away a moment ago: the station
\* joins as soon as it can, and the client connects within one pause of that.
GivesUpOnlyAfterOutage ==
  [][\A d \in Devices :
       /\ dpc[d] = "wait_wifi" /\ dpc'[d] = "no_wifi" => calm = 0
       /\ dpc[d] = "wait_connected" /\ dpc'[d] = "no_broker" => calm <= Reconnect]_vars

\* Of two devices, neither keeps the other's "ready" from the broker, although
\* each pushes the other out whenever it connects: a device gives up before the
\* broker had it only if the access point was away a moment ago.
ReadyGetsThrough ==
  [][\A d \in Devices :
       dpc[d] = "wait_nonce" /\ dpc'[d] = "no_nonce" /\ fate[d] \in {"queued", "cut"}
         => calm < Recovered]_vars

\* "Nonce timeout." is never for a "ready" that a verifier heard over a
\* connection that has lasted since, also when it is not the first one: nobody
\* listened, as "ready" is not retained, or the connection broke, or the wait
\* ran out with the answer on its way.
HeardReadyIsAnswered ==
  [][\A d \in Devices :
       dpc[d] = "wait_nonce" /\ dpc'[d] = "no_nonce"
         => fate[d] # "heard" \/ d \in challenge]_vars

\* The client is never stopped with a token that could have been sent: one the
\* broker never gets was published without a connection, or lost it at once.
TokenLostOnlyOffAir ==
  [][\A d \in Devices :
       dpc[d] = "delay" /\ dpc'[d] = "done" => fate[d] # "queued"]_vars
=============================================================================
