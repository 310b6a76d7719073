------------------------------ MODULE Attestation ------------------------------
(***************************************************************************)
(* The attestation exchange: app_main after the keys are there, the MQTT   *)
(* client's task and its event handler (puf_mqtt.c), the broker, and any   *)
(* number of verifier sessions (tools/verifier_mqtt.py) for the device.    *)
(*                                                                         *)
(* A session is its nonce: each draws one, and keeps it to its end.  The   *)
(* 32 bytes of s_nonce are written by the handler and copied by the main   *)
(* task with nothing to keep the two apart; two halves show what can       *)
(* come of it.                                                             *)
(***************************************************************************)
EXTENDS Naturals, Sequences

CONSTANTS
  Sessions,    \* runs of verifier_mqtt.py against this device
  None,        \* no nonce
  BootKeys,    \* the keys a boot may come up with: "enrolled", or "other"
  Faults,      \* which of "timeout", "crash", "disconnect", "resend" and
               \* "lost" may happen: see the actions that name them
  MaxBoots,    \* bound: boots of the device
  MaxResends   \* bound: messages the client sends a second time

ASSUME SessionsAssumption == None \notin Sessions

ASSUME BoundsAssumption == MaxBoots \in Nat /\ MaxResends \in Nat

VARIABLES
  dpc,        \* where app_main stands
  boot, key,  \* number of this boot, the K_auth it reconstructed
  mqtt_on,    \* the MQTT client and its task exist
  conn,       \* its connection to the broker is up, topics subscribed
  bits,       \* s_mqtt_events
  s_nonce,    \* the handler's buffer, in halves
  handling,   \* the challenge the handler has half parsed, or None
  nonce,      \* app_main's copy, in halves
  outbox,     \* QoS 1 messages published and not acknowledged
  sent,       \* those of them the broker has had
  resends,    \* messages sent again so far
  challenges, \* challenges[v]: challenges of session v on their way to the broker
  to_device,  \* challenges on their way from the broker
  session,    \* session[v]: the state of verifier session v
  inbox,      \* inbox[v]: messages on their way to it
  log,        \* transactions.jsonl
  presences   \* when the PIR sensor went high: boot, key, nonce, open sessions

main == <<dpc, boot, key>>
client == <<mqtt_on, conn, outbox, sent, to_device>>
verifier == <<session, inbox, challenges, log>>
vars == <<dpc, boot, key, mqtt_on, conn, bits, s_nonce, handling, nonce, outbox,
          sent, resends, to_device, session, inbox, challenges, log, presences>>

Halves == {1, 2}
NoNonce == [i \in Halves |-> None]
NonceOf(v) == [i \in Halves |-> v]

Ready == [type |-> "ready"]
Token(b, n, k) == [type |-> "token", boot |-> b, nonce |-> n, key |-> k]

Open == {v \in Sessions : session[v] \in {"subscribed", "closing"}}

Init ==
  /\ dpc = "off" /\ boot = 0 /\ key = "other"
  /\ mqtt_on = FALSE /\ conn = FALSE
  /\ bits = {} /\ s_nonce = NoNonce /\ handling = None /\ nonce = NoNonce
  /\ outbox = {} /\ sent = {} /\ resends = 0 /\ to_device = <<>>
  /\ session = [v \in Sessions |-> "idle"]
  /\ inbox = [v \in Sessions |-> <<>>]
  /\ challenges = [v \in Sessions |-> 0]
  /\ log = <<>>
  /\ presences = {}

-----------------------------------------------------------------------------
\* app_main

Goto(p) == dpc' = p /\ UNCHANGED <<boot, key>>

\* Some boot reaches "Identity reconstructed".
Boot ==
  /\ dpc = "off" /\ boot < MaxBoots
  /\ dpc' = "puf_wifi_connect"
  /\ boot' = boot + 1
  /\ key' \in BootKeys
  /\ UNCHANGED <<client, bits, s_nonce, handling, nonce, resends, verifier, presences>>

WifiConnect ==
  /\ dpc = "puf_wifi_connect"
  /\ Goto("puf_mqtt_connect")
  /\ UNCHANGED <<client, bits, s_nonce, handling, nonce, resends, verifier, presences>>

\* The client starts; app_main waits for CONNECTED_BIT.
MqttStart ==
  /\ dpc = "puf_mqtt_connect"
  /\ Goto("wait_connected")
  /\ mqtt_on' = TRUE
  /\ bits' = {}
  /\ UNCHANGED <<conn, s_nonce, handling, nonce, outbox, sent, resends, to_device,
                 verifier, presences>>

MqttConnected ==
  /\ dpc = "wait_connected" /\ "CONNECTED" \in bits
  /\ Goto("publish_ready")
  /\ UNCHANGED <<client, bits, s_nonce, handling, nonce, resends, verifier, presences>>

Publish(m) ==
  /\ outbox' = outbox \cup {m}
  /\ UNCHANGED <<mqtt_on, conn, sent, to_device>>

PublishReady ==
  /\ dpc = "publish_ready"
  /\ Goto("wait_nonce")
  /\ Publish(Ready)
  /\ UNCHANGED <<bits, s_nonce, handling, nonce, resends, verifier, presences>>

\* Mutant: memcpy whether or not the bit came.
NonceReceivedOrNot ==
  /\ dpc = "wait_nonce"
  /\ bits' = bits \ {"NONCE"}
  /\ Goto("memcpy_1")
  /\ UNCHANGED <<client, s_nonce, handling, nonce, resends, verifier, presences>>

\* xEventGroupWaitBits clears NONCE_RECEIVED_BIT as it returns; memcpy follows.
NonceReceived ==
  /\ dpc = "wait_nonce" /\ "NONCE" \in bits
  /\ bits' = bits \ {"NONCE"}
  /\ Goto("memcpy_1")
  /\ UNCHANGED <<client, s_nonce, handling, nonce, resends, verifier, presences>>

CopyNonce(i) ==
  /\ dpc = <<"memcpy_1", "memcpy_2">>[i]
  /\ nonce' = [nonce EXCEPT ![i] = s_nonce[i]]
  /\ Goto(<<"memcpy_2", "wait_pir">>[i])
  /\ UNCHANGED <<client, bits, s_nonce, handling, resends, verifier, presences>>

\* The loop on PIR_GPIO has no limit.
Presence ==
  /\ dpc = "wait_pir"
  /\ Goto("puf_attest_build")
  /\ presences' = presences \cup {[boot |-> boot, key |-> key, nonce |-> nonce, open |-> Open]}
  /\ UNCHANGED <<client, bits, s_nonce, handling, nonce, resends, verifier>>

\* puf_mqtt_disconnect, and app_main is over.  esp_mqtt_client_stop waits for
\* the client's task, and its outbox is gone with it.
Disconnect ==
  /\ handling = None
  /\ Goto("stopped")
  /\ mqtt_on' = FALSE /\ conn' = FALSE
  /\ outbox' = {} /\ sent' = {} /\ to_device' = <<>>
  /\ UNCHANGED <<bits, s_nonce, handling, resends, verifier, presences>>

\* Mutant: the client is stopped at once after the publish.
PublishTokenAndStop ==
  /\ dpc = "puf_attest_build"
  /\ Disconnect
  /\ nonce' = NoNonce

\* The token is built over app_main's copy and published; its acknowledgement
\* is not waited for.
PublishToken ==
  /\ dpc = "puf_attest_build"
  /\ Goto("delay")
  /\ Publish(Token(boot, nonce, key))
  /\ UNCHANGED <<bits, s_nonce, handling, nonce, resends, verifier, presences>>

\* Two seconds are enough for the broker to answer, or are not.  Only here, at
\* the regular end, app_main wipes its nonce.
DelayOver ==
  /\ dpc = "delay"
  /\ outbox = {} \/ "timeout" \in Faults
  /\ Disconnect
  /\ nonce' = NoNonce

\* Mutant: main.c does not stop the client when there was no nonce.
WaitFailsClientLeft ==
  /\ "timeout" \in Faults
  /\ \/ dpc \in {"puf_wifi_connect", "puf_attest_build"}
     \/ dpc = "wait_connected" /\ "CONNECTED" \notin bits
     \/ dpc = "wait_nonce" /\ "NONCE" \notin bits
  /\ Goto("stopped")
  /\ UNCHANGED <<client, bits, s_nonce, handling, nonce, resends, verifier, presences>>

\* A wait runs out, or puf_attest_build fails.  puf_mqtt_connect leaves the
\* client running when its wait does.
WaitFails ==
  /\ "timeout" \in Faults
  /\ \/ /\ \/ dpc = "puf_wifi_connect"
           \/ dpc = "wait_connected" /\ "CONNECTED" \notin bits
        /\ Goto("stopped")
        /\ UNCHANGED <<client, bits, s_nonce, handling, nonce, resends, verifier,
                       presences>>
     \/ /\ \/ dpc = "wait_nonce" /\ "NONCE" \notin bits
           \/ dpc = "puf_attest_build"
        /\ Disconnect
        /\ UNCHANGED nonce

\* Someone resets the board, or it resets itself: RAM is lost.
Reset ==
  /\ dpc = "stopped" \/ (dpc # "off" /\ "crash" \in Faults)
  /\ Goto("off")
  /\ mqtt_on' = FALSE /\ conn' = FALSE
  /\ bits' = {} /\ s_nonce' = NoNonce /\ handling' = None /\ nonce' = NoNonce
  /\ outbox' = {} /\ sent' = {} /\ to_device' = <<>>
  /\ UNCHANGED <<resends, verifier, presences>>

-----------------------------------------------------------------------------
\* The MQTT client's task

\* MQTT_EVENT_CONNECTED: the handler subscribes before anything is sent again.
Connect ==
  /\ mqtt_on /\ ~conn /\ handling = None
  /\ conn' = TRUE
  /\ bits' = bits \cup {"CONNECTED"}
  /\ UNCHANGED <<main, mqtt_on, s_nonce, handling, nonce, outbox, sent, resends,
                 to_device, verifier, presences>>

\* The connection breaks.  The session is a clean one: what was on its way is
\* lost, and CONNECTED_BIT stays.
ConnectionLost ==
  /\ "disconnect" \in Faults /\ conn
  /\ conn' = FALSE
  /\ to_device' = <<>>
  /\ UNCHANGED <<main, mqtt_on, bits, s_nonce, handling, nonce, outbox, sent,
                 resends, verifier, presences>>

\* Mutant: NONCE_RECEIVED_BIT is set before the bytes are there.
HandleChallengeSignalsFirst ==
  /\ conn /\ handling = None /\ to_device # <<>>
  /\ handling' = Head(to_device)
  /\ to_device' = Tail(to_device)
  /\ bits' = bits \cup {"NONCE"}
  /\ UNCHANGED <<main, mqtt_on, conn, s_nonce, nonce, outbox, sent, resends, verifier,
                 presences>>

\* MQTT_EVENT_DATA on the challenge topic: the hex digits are parsed into
\* s_nonce byte after byte, then NONCE_RECEIVED_BIT is set.
HandleChallenge ==
  /\ conn /\ handling = None /\ to_device # <<>>
  /\ handling' = Head(to_device)
  /\ to_device' = Tail(to_device)
  /\ s_nonce' = [s_nonce EXCEPT ![1] = Head(to_device)]
  /\ UNCHANGED <<main, mqtt_on, conn, bits, nonce, outbox, sent, resends, verifier,
                 presences>>

HandleChallengeEnd ==
  /\ handling # None
  /\ s_nonce' = [s_nonce EXCEPT ![2] = handling]
  /\ bits' = bits \cup {"NONCE"}
  /\ handling' = None
  /\ UNCHANGED <<main, client, nonce, resends, verifier, presences>>

\* The broker gets a message and passes it on to the sessions subscribed.
Forward(m) ==
  inbox' = [v \in Sessions |-> IF v \in Open THEN Append(inbox[v], m) ELSE inbox[v]]

Send(m) ==
  /\ conn /\ m \in outbox \ sent
  /\ Forward(m)
  /\ sent' = sent \cup {m}
  /\ UNCHANGED <<main, mqtt_on, conn, bits, s_nonce, handling, nonce, outbox,
                 resends, to_device, session, challenges, log, presences>>

\* No PUBACK yet, after a second or a new connection: the client sends the
\* message again, and the broker passes it on again.
Resend(m) ==
  /\ "resend" \in Faults /\ resends < MaxResends
  /\ conn /\ m \in sent
  /\ Forward(m)
  /\ resends' = resends + 1
  /\ UNCHANGED <<main, client, bits, s_nonce, handling, nonce, session, challenges, log,
                 presences>>

PubAck(m) ==
  /\ conn /\ m \in sent
  /\ outbox' = outbox \ {m} /\ sent' = sent \ {m}
  /\ UNCHANGED <<main, mqtt_on, conn, bits, s_nonce, handling, nonce, resends,
                 to_device, verifier, presences>>

-----------------------------------------------------------------------------
\* verifier_mqtt.py

\* main draws the nonce; on_connect subscribes.
Start(v) ==
  /\ session[v] = "idle"
  /\ session' = [session EXCEPT ![v] = "subscribed"]
  /\ UNCHANGED <<main, client, bits, s_nonce, handling, nonce, resends, inbox,
                 challenges, log, presences>>

\* on_message, ready.
OnReady(v) ==
  /\ v \in Open /\ inbox[v] # <<>> /\ Head(inbox[v]).type = "ready"
  /\ inbox' = [inbox EXCEPT ![v] = Tail(@)]
  /\ challenges' = [challenges EXCEPT ![v] = @ + 1]
  /\ UNCHANGED <<main, client, bits, s_nonce, handling, nonce, resends, session, log,
                 presences>>

\* The broker passes a challenge on to the device, if that is connected.
ForwardChallenge(v) ==
  /\ challenges[v] > 0
  /\ challenges' = [challenges EXCEPT ![v] = @ - 1]
  /\ to_device' = IF conn THEN Append(to_device, v) ELSE to_device
  /\ UNCHANGED <<main, mqtt_on, conn, bits, s_nonce, handling, nonce, outbox, sent,
                 resends, session, inbox, log, presences>>

\* Mutants: no check of the nonce, or of its first half only, no check of the MAC.
VerifiesAnyNonce(t, v) == t.key = "enrolled"
VerifiesFirstHalf(t, v) == t.key = "enrolled" /\ t.nonce[1] = v
VerifiesUnsigned(t, v) == t.nonce = NonceOf(v)

\* verify_cose_mac0: the MAC under the enrolled K_auth, then the nonce.
Verifies(t, v) == t.key = "enrolled" /\ t.nonce = NonceOf(v)

\* on_message, token: a transaction is logged if it verifies, and the session
\* is over either way.
OnToken(v) ==
  /\ v \in Open /\ inbox[v] # <<>> /\ Head(inbox[v]).type = "token"
  /\ inbox' = [inbox EXCEPT ![v] = Tail(@)]
  /\ log' = IF Verifies(Head(inbox[v]), v)
              THEN Append(log, [session |-> v, boot |-> Head(inbox[v]).boot])
              ELSE log
  /\ session' = [session EXCEPT ![v] = "closing"]
  /\ UNCHANGED <<main, client, bits, s_nonce, handling, nonce, resends, challenges,
                 presences>>

\* main polls state["done"] once a second; until then messages are still
\* handled.
End(v) ==
  /\ \/ session[v] = "closing"
     \/ session[v] = "subscribed" /\ "timeout" \in Faults
  /\ session' = [session EXCEPT ![v] = "ended"]
  /\ inbox' = [inbox EXCEPT ![v] = <<>>]
  /\ UNCHANGED <<main, client, bits, s_nonce, handling, nonce, resends, challenges,
                 log, presences>>

\* The verifier subscribes with QoS 0: a message to it may be lost.
Lose(v) ==
  /\ "lost" \in Faults /\ inbox[v] # <<>>
  /\ inbox' = [inbox EXCEPT ![v] = Tail(@)]
  /\ UNCHANGED <<main, client, bits, s_nonce, handling, nonce, resends, session,
                 challenges, log, presences>>

-----------------------------------------------------------------------------
\* app_main's own steps, save the wait for the PIR sensor.
Main ==
  \/ Boot \/ WifiConnect \/ MqttStart \/ MqttConnected \/ PublishReady
  \/ NonceReceived \/ (\E i \in Halves : CopyNonce(i)) \/ PublishToken \/ DelayOver

Network ==
  \/ Connect \/ HandleChallenge \/ HandleChallengeEnd
  \/ \E m \in outbox : Send(m) \/ PubAck(m)
  \/ \E v \in Sessions : ForwardChallenge(v)

Verifier(v) == OnReady(v) \/ OnToken(v) \/ End(v)

Next ==
  \/ Main \/ Presence \/ WaitFails \/ Reset
  \/ Network \/ ConnectionLost \/ \E m \in outbox : Resend(m)
  \/ \E v \in Sessions : Verifier(v) \/ Start(v) \/ Lose(v)

Spec == Init /\ [][Next]_vars

\* Tasks run, the network moves messages, the verifier's threads run.  Nothing
\* makes anyone start a verifier, reset the board or stand before the sensor.
FairSpec ==
  /\ Spec
  /\ WF_vars(Main) /\ WF_vars(Network)
  /\ \A v \in Sessions : WF_vars(Verifier(v))

-----------------------------------------------------------------------------
\* Properties

Nonces == [Halves -> Sessions \cup {None}]
Readies == {Ready}
Tokens == [type : {"token"}, boot : 1 .. MaxBoots, nonce : [Halves -> Sessions],
           key : BootKeys]

\* Every variable holds what its counterpart can hold.
TypeOK ==
  /\ dpc \in {"off", "puf_wifi_connect", "puf_mqtt_connect", "wait_connected",
              "publish_ready", "wait_nonce", "memcpy_1", "memcpy_2", "wait_pir",
              "puf_attest_build", "delay", "stopped"}
  /\ boot \in 0 .. MaxBoots /\ key \in BootKeys \cup {"other"}
  /\ mqtt_on \in BOOLEAN /\ conn \in BOOLEAN
  /\ bits \subseteq {"CONNECTED", "NONCE"}
  /\ s_nonce \in Nonces /\ nonce \in Nonces /\ handling \in Sessions \cup {None}
  /\ outbox \subseteq Readies \cup Tokens /\ sent \subseteq outbox
  /\ resends \in 0 .. MaxResends
  /\ to_device \in Seq(Sessions)
  /\ session \in [Sessions -> {"idle", "subscribed", "closing", "ended"}]
  /\ inbox \in [Sessions -> Seq(Readies \cup Tokens)]
  /\ challenges \in [Sessions -> Nat]
  /\ log \in Seq([session : Sessions, boot : 1 .. MaxBoots])
  /\ presences \subseteq [boot : 1 .. MaxBoots, key : BootKeys,
                          nonce : [Halves -> Sessions], open : SUBSET Sessions]

\* A transaction is only ever logged for a boot that came up with the enrolled
\* key and in which somebody stood before the sensor, after that session's
\* challenge had arrived whole and while the session was under way: not for an
\* earlier session's visitor, not for another session's nonce, not for a nonce
\* copied while the handler was overwriting it.
PassMeansPresenceNow ==
  \A i \in DOMAIN log : \E p \in presences :
    /\ p.boot = log[i].boot /\ p.key = "enrolled"
    /\ p.nonce = NonceOf(log[i].session)
    /\ log[i].session \in p.open

\* Past the wait, app_main holds a nonce of which both halves came in a
\* challenge: NONCE_RECEIVED_BIT is never seen before s_nonce is filled.
NonceComplete ==
  dpc \in {"wait_pir", "puf_attest_build", "delay"} => nonce \in [Halves -> Sessions]

\* A boot's token is accepted in one session at most, however many are open
\* and however often it is delivered.
OneSessionPerToken ==
  \A i, j \in DOMAIN log : log[i].boot = log[j].boot => log[i].session = log[j].session

\* A device that has given up or is done sends nothing more.  Its client, whose
\* handler still connects and takes challenges, outlives app_main only in a boot
\* in which nobody came before the sensor: where puf_mqtt_connect gave up
\* (puf_mqtt.c:83, main.c:145-148), not where the nonce or the token failed.
GaveUpIsSilent ==
  dpc = "stopped" => outbox = {} /\ (mqtt_on => \A p \in presences : p.boot # boot)

\* app_main has a nonce of two challenges.
Torn == {nonce[1], nonce[2]} \subseteq Sessions /\ nonce[1] # nonce[2]

\* With nothing lost, a session that hears "ready" while the device waits for a
\* nonce gets some session a logged transaction, however often messages are
\* repeated, unless nobody ever comes before the sensor or two challenges met in
\* s_nonce.
HeardIsSettled ==
  (/\ dpc = "wait_nonce"
   /\ \E v \in Sessions : inbox[v] # <<>> /\ Head(inbox[v]).type = "ready")
    ~> (log # <<>> \/ Torn \/ [](dpc = "wait_pir"))

\* "[PASS] Token authentic. Nonce verified. No replay." (verifier_mqtt.py:50):
\* what has been accepted is not accepted again.
NoReplay == \A i, j \in DOMAIN log : log[i] = log[j] => i = j

-----------------------------------------------------------------------------
\* Refinement: a visit is a presence under the enrolled key, with a nonce of one
\* session that was open then.
Visits ==
  {[session |-> p.nonce[1], boot |-> p.boot] :
     p \in {q \in presences : /\ q.key = "enrolled" /\ q.nonce = NonceOf(q.nonce[1])
                              /\ q.nonce[1] \in q.open}}

Ledger == INSTANCE PresenceLedger WITH
  Boots <- 1 .. MaxBoots,
  state <- [v \in Sessions |-> CASE session[v] = "idle" -> "new"
                                 [] session[v] = "ended" -> "over"
                                 [] OTHER -> "open"],
  visits <- Visits

\* The exchange keeps the ledger's promise: whatever is lost, late, repeated or
\* torn, the log only grows by a visit made for the session that logs it, while
\* that session lasts (verifier_mqtt.py:81-89 against main.c:151-176).
LedgerSpec == Ledger!Spec
=============================================================================
