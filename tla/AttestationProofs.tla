-------------------------- MODULE AttestationProofs --------------------------
(***************************************************************************)
(* Theorems about Attestation, for any number of sessions, boots and       *)
(* retransmissions and every choice of keys and faults.                    *)
(*                                                                         *)
(* AInv follows a nonce from the session that drew it to the device and    *)
(* back: every nonce, or half of one, that the device has seen belongs to  *)
(* a session that has started, and every token under way was made for a    *)
(* presence of its boot.                                                   *)
(***************************************************************************)
EXTENDS Attestation, SequenceTheorems, TLAPS

Started == {v \in Sessions : session[v] # "idle"}

\* Where app_main holds a nonce.
HasNonce == {"wait_pir", "puf_attest_build", "delay"}

\* A running device has been booted.
BootInv == dpc # "off" => boot \in 1 .. MaxBoots /\ key \in BootKeys

\* The challenges on their way, and the halves in s_nonce and in app_main's
\* copy, come from sessions that have started; NONCE_RECEIVED_BIT says that
\* both halves of s_nonce do.
NonceInv ==
  /\ \A v \in Sessions : challenges[v] > 0 => v \in Started
  /\ to_device \in Seq(Started)
  /\ handling # None => handling \in Started /\ s_nonce[1] \in Started
  /\ "NONCE" \in bits \/ dpc \in {"memcpy_1", "memcpy_2"} =>
       s_nonce \in [Halves -> Started]
  /\ dpc = "memcpy_2" => nonce[1] \in Started
  /\ dpc \in HasNonce => nonce \in [Halves -> Started]

\* A presence is for a nonce of sessions that had started, and a session that
\* is open now was open then.
PresencesKnown ==
  \A p \in presences :
    p.nonce \in [Halves -> Started] /\ (p.nonce[1] \in Open => p.nonce[1] \in p.open)

\* This boot's presence comes at the end of its run.
PresencesPast ==
  \A p \in presences :
    /\ p.boot <= boot
    /\ p.boot = boot => dpc \in {"puf_attest_build", "delay", "stopped", "off"}

OnePresencePerBoot == \A p, q \in presences : p.boot = q.boot => p = q

\* The token about to be built is for this boot's presence.
PresenceAtHand ==
  dpc = "puf_attest_build" =>
    \E p \in presences : p.boot = boot /\ p.key = key /\ p.nonce = nonce

PresenceInv == PresencesKnown /\ PresencesPast /\ OnePresencePerBoot /\ PresenceAtHand

\* The tokens made for a presence.
Made ==
  {t \in Tokens :
     \E p \in presences : p.boot = t.boot /\ p.key = t.key /\ p.nonce = t.nonce}

\* No other token is on its way.
TokenInv ==
  /\ outbox \subseteq Readies \cup Made
  /\ inbox \in [Sessions -> Seq(Readies \cup Made)]

AInv ==
  TypeOK /\ BootInv /\ NonceInv /\ PresenceInv /\ TokenInv /\ PassMeansPresenceNow

-----------------------------------------------------------------------------
LEMMA InitAInv == Init => AInv
<1> SUFFICES ASSUME Init PROVE AInv
  OBVIOUS
<1>1. /\ boot = 0 /\ boot \in 0 .. MaxBoots
      /\ to_device \in Seq(Sessions) /\ to_device \in Seq(Started)
      /\ log \in Seq([session : Sessions, boot : 1 .. MaxBoots]) /\ DOMAIN log = {}
      /\ inbox \in [Sessions -> Seq(Readies \cup Tokens)]
      /\ inbox \in [Sessions -> Seq(Readies \cup Made)]
  BY BoundsAssumption, EmptySeq DEF Init
<1>2. s_nonce \in Nonces /\ nonce \in Nonces
  BY DEF Init, NoNonce, Nonces
<1>3. challenges \in [Sessions -> Nat]
  BY DEF Init
<1>4. session \in [Sessions -> {"idle", "subscribed", "closing", "ended"}]
  BY DEF Init
<1>5. /\ boot \in 0 .. MaxBoots /\ resends \in 0 .. MaxResends
      /\ outbox = {} /\ sent = {} /\ presences = {} /\ bits = {}
      /\ handling = None /\ mqtt_on = FALSE /\ conn = FALSE
      /\ dpc = "off" /\ key = "other"
  BY BoundsAssumption DEF Init
<1>7. TypeOK
  BY ONLY <1>1, <1>2, <1>3, <1>4, <1>5 DEF TypeOK
<1>6. BootInv /\ NonceInv /\ PresenceInv /\ TokenInv /\ PassMeansPresenceNow
  BY <1>1 DEF Init, BootInv, NonceInv, PresenceInv, TokenInv,
              PassMeansPresenceNow, HasNonce, PresencesKnown, PresencesPast,
              OnePresencePerBoot, PresenceAtHand
<1> QED  BY <1>6, <1>7 DEF AInv

\* Who writes what.
LEMMA Writers ==
  ASSUME [Next]_vars
  PROVE  /\ \/ UNCHANGED boot
            \/ Boot
         /\ \/ UNCHANGED presences
            \/ Presence
         /\ \/ UNCHANGED log
            \/ \E v \in Sessions : OnToken(v)
         /\ \/ UNCHANGED session
            \/ \E v \in Sessions : Start(v) \/ OnToken(v) \/ End(v)
         /\ \/ UNCHANGED challenges
            \/ \E v \in Sessions : OnReady(v) \/ ForwardChallenge(v)
         /\ \/ UNCHANGED inbox
            \/ \E m \in outbox : Send(m) \/ Resend(m)
            \/ \E v \in Sessions : OnReady(v) \/ OnToken(v) \/ Lose(v) \/ End(v)
         /\ \/ UNCHANGED to_device
            \/ HandleChallenge \/ ConnectionLost \/ DelayOver \/ WaitFails \/ Reset
            \/ \E v \in Sessions : ForwardChallenge(v)
         /\ \/ UNCHANGED <<handling, s_nonce, bits>>
            \/ HandleChallenge \/ HandleChallengeEnd \/ MqttStart \/ NonceReceived
            \/ Connect \/ Reset
         /\ \/ UNCHANGED <<outbox, sent>>
            \/ PublishReady \/ PublishToken \/ DelayOver \/ WaitFails \/ Reset
            \/ \E m \in outbox : Send(m) \/ PubAck(m)
         /\ \/ UNCHANGED <<dpc, boot, key, nonce>>
            \/ Main \/ Presence \/ WaitFails \/ Reset
         /\ \/ UNCHANGED resends
            \/ \E m \in outbox : Resend(m)
         /\ \/ UNCHANGED <<mqtt_on, conn>>
            \/ MqttStart \/ DelayOver \/ WaitFails \/ Reset \/ Connect \/ ConnectionLost
BY ZenonT(30) DEF Next, Main, Network, Verifier, vars, main, client, verifier, Boot, WifiConnect,
       MqttStart, MqttConnected, PublishReady, Publish, NonceReceived, CopyNonce,
       PublishToken, DelayOver, Disconnect, Presence, WaitFails, Reset, Connect,
       ConnectionLost, HandleChallenge, HandleChallengeEnd, Send, Resend, PubAck,
       ForwardChallenge, OnReady, OnToken, End, Start, Lose, Goto

\* Sessions start, and are open only after.
LEMMA StartedGrows ==
  ASSUME TypeOK, [Next]_vars
  PROVE  Started \subseteq Started' /\ Open' \subseteq Open \cup (Started' \ Started)
BY Writers DEF TypeOK, Started, Open, Start, OnToken, End

LEMMA BoxGrows ==
  ASSUME NEW S, NEW S2, S \subseteq S2, NEW f \in [Sessions -> Seq(S)]
  PROVE  f \in [Sessions -> Seq(S2)]
BY SeqMonotonic

LEMMA BoxPops ==
  ASSUME NEW S, NEW f \in [Sessions -> Seq(S)], NEW v \in Sessions, f[v] # <<>>
  PROVE  Head(f[v]) \in S /\ [f EXCEPT ![v] = Tail(@)] \in [Sessions -> Seq(S)]
BY HeadTailProperties

\* Messages only come into an inbox from the outbox.
LEMMA InboxStep ==
  ASSUME NEW S, inbox \in [Sessions -> Seq(S)], outbox \subseteq S, sent \subseteq outbox,
         [Next]_vars
  PROVE  inbox' \in [Sessions -> Seq(S)]
<1>1. CASE UNCHANGED inbox
  BY <1>1
<1>2. CASE \E m \in outbox : Send(m) \/ Resend(m)
  <2>1. PICK m \in S : Forward(m)
    BY <1>2 DEF Send, Resend
  <2>2. \A v \in Sessions : Append(inbox[v], m) \in Seq(S)
    BY AppendProperties
  <2> QED  BY <2>1, <2>2 DEF Forward
<1>3. CASE \E v \in Sessions : OnReady(v) \/ OnToken(v) \/ Lose(v)
  <2>1. PICK v \in Sessions : inbox[v] # <<>> /\ inbox' = [inbox EXCEPT ![v] = Tail(@)]
    BY <1>3 DEF OnReady, OnToken, Lose
  <2> QED  BY <2>1, BoxPops
<1>4. CASE \E v \in Sessions : End(v)
  BY <1>4, EmptySeq DEF End
<1> QED  BY <1>1, <1>2, <1>3, <1>4, Writers

\* Challenges reach the device from a session that sent one.
LEMMA ToDeviceStep ==
  ASSUME NEW S, to_device \in Seq(S), {v \in Sessions : challenges[v] > 0} \subseteq S,
         [Next]_vars
  PROVE  to_device' \in Seq(S) /\ (to_device # <<>> => Head(to_device) \in S)
<1>1. to_device # <<>> => Head(to_device) \in S /\ Tail(to_device) \in Seq(S)
  BY HeadTailProperties
<1>2. \A v \in S : Append(to_device, v) \in Seq(S)
  BY AppendProperties
<1>3. <<>> \in Seq(S)
  BY EmptySeq
<1>4. CASE UNCHANGED to_device
  BY <1>1, <1>4
<1>5. CASE HandleChallenge
  BY <1>1, <1>5 DEF HandleChallenge
<1>6. CASE \E v \in Sessions : ForwardChallenge(v)
  BY <1>1, <1>2, <1>6 DEF ForwardChallenge
<1>7. CASE DelayOver \/ WaitFails \/ Reset \/ ConnectionLost
  BY <1>1, <1>3, <1>7 DEF DelayOver, WaitFails, Disconnect, Reset, ConnectionLost, client
<1> QED  BY <1>4, <1>5, <1>6, <1>7, Writers

-----------------------------------------------------------------------------
LEMMA TypeStep ==
  ASSUME AInv, [Next]_vars
  PROVE  TypeOK'
<1> USE DEF AInv
<1>1. /\ dpc' \in {"off", "puf_wifi_connect", "puf_mqtt_connect", "wait_connected",
                   "publish_ready", "wait_nonce", "memcpy_1", "memcpy_2", "wait_pir",
                   "puf_attest_build", "delay", "stopped"}
      /\ boot' \in 0 .. MaxBoots /\ key' \in BootKeys \cup {"other"}
  <2>1. CASE Boot
    BY <2>1, BoundsAssumption DEF Boot, TypeOK
  <2>2. CASE \E i \in Halves : CopyNonce(i)
    BY <2>2 DEF CopyNonce, Goto, Halves, TypeOK
  <2>3. CASE ~Boot /\ ~(\E i \in Halves : CopyNonce(i))
    BY <2>3, Writers
       DEF TypeOK, Main, WifiConnect, MqttStart, MqttConnected, PublishReady,
           NonceReceived, PublishToken, DelayOver, Disconnect, Presence, WaitFails,
           Reset, Goto
  <2> QED  BY <2>1, <2>2, <2>3
<1>2. nonce' \in Nonces
  BY ZenonT(30), Writers
     DEF TypeOK, Main, Boot, WifiConnect, MqttStart, MqttConnected, PublishReady,
         NonceReceived, CopyNonce, PublishToken, DelayOver, Disconnect, Presence,
         WaitFails, Reset, Halves, Nonces, NoNonce
<1>3. to_device' \in Seq(Sessions) /\ (to_device # <<>> => Head(to_device) \in Sessions)
  BY ToDeviceStep DEF TypeOK
<1>4. bits' \subseteq {"CONNECTED", "NONCE"} /\ handling' \in Sessions \cup {None}
  BY <1>3, Writers
     DEF TypeOK, HandleChallenge, HandleChallengeEnd, MqttStart, NonceReceived, Connect, Reset
<1>12. s_nonce' \in Nonces
  BY ZenonT(30), <1>3, Writers
     DEF TypeOK, HandleChallenge, HandleChallengeEnd, MqttStart, NonceReceived, Connect,
         Reset, Nonces, NoNonce
<1>5. outbox' \subseteq Readies \cup Tokens /\ sent' \subseteq outbox'
  <2>1. CASE PublishReady
    BY <2>1 DEF PublishReady, Publish, Ready, Readies, TypeOK, BootInv
  <2>2. CASE PublishToken
    <3>1. Token(boot, nonce, key) \in Tokens
      BY <2>2 DEF PublishToken, Token, Tokens, BootInv, NonceInv, HasNonce, Started
    <3> QED  BY <2>2, <3>1 DEF PublishToken, Publish, TypeOK
  <2>3. CASE DelayOver \/ WaitFails \/ Reset
    BY <2>3 DEF DelayOver, WaitFails, Disconnect, Reset, client, TypeOK
  <2>4. CASE \E m \in outbox : Send(m) \/ PubAck(m)
    BY <2>4 DEF Send, PubAck, TypeOK
  <2> QED  BY <2>1, <2>2, <2>3, <2>4, Writers DEF TypeOK
<1>6. inbox' \in [Sessions -> Seq(Readies \cup Tokens)]
  <2>1. /\ inbox \in [Sessions -> Seq(Readies \cup Tokens)]
        /\ outbox \subseteq Readies \cup Tokens /\ sent \subseteq outbox
    BY DEF TypeOK
  <2> QED  BY <2>1, InboxStep
<1>7. challenges' \in [Sessions -> Nat]
  <2>1. CASE \E v \in Sessions : OnReady(v)
    BY <2>1 DEF OnReady, TypeOK
  <2>2. CASE \E v \in Sessions : ForwardChallenge(v)
    BY <2>2 DEF ForwardChallenge, TypeOK
  <2> QED  BY <2>1, <2>2, Writers DEF TypeOK
<1>8. session' \in [Sessions -> {"idle", "subscribed", "closing", "ended"}]
  BY Writers DEF TypeOK, Start, OnToken, End
<1>9. log' \in Seq([session : Sessions, boot : 1 .. MaxBoots])
  <2>1. ASSUME NEW v \in Sessions, OnToken(v)
        PROVE  log' \in Seq([session : Sessions, boot : 1 .. MaxBoots])
    <3>1. Head(inbox[v]) \in Tokens
      BY <2>1, BoxPops DEF OnToken, TypeOK, Ready, Readies
    <3>2. [session |-> v, boot |-> Head(inbox[v]).boot]
             \in [session : Sessions, boot : 1 .. MaxBoots]
      BY <3>1 DEF Tokens
    <3>3. Append(log, [session |-> v, boot |-> Head(inbox[v]).boot])
             \in Seq([session : Sessions, boot : 1 .. MaxBoots])
      BY <3>2, AppendProperties DEF TypeOK
    <3> QED  BY <2>1, <3>3 DEF OnToken, TypeOK
  <2> QED  BY <2>1, Writers DEF TypeOK
<1>10. presences' \subseteq [boot : 1 .. MaxBoots, key : BootKeys,
                             nonce : [Halves -> Sessions], open : SUBSET Sessions]
  <2>1. CASE Presence
    BY <2>1 DEF Presence, TypeOK, BootInv, NonceInv, HasNonce, Started, Open
  <2> QED  BY <2>1, Writers DEF TypeOK
<1>11. resends' \in 0 .. MaxResends
  BY Writers, BoundsAssumption DEF TypeOK, Resend
<1>13. mqtt_on' \in BOOLEAN /\ conn' \in BOOLEAN
  BY Writers
     DEF TypeOK, MqttStart, DelayOver, WaitFails, Disconnect, Reset, Connect, ConnectionLost,
         client
<1> QED
  BY <1>1, <1>2, <1>3, <1>4, <1>5, <1>6, <1>7, <1>8, <1>9, <1>10, <1>11, <1>12,
     <1>13 DEF TypeOK

LEMMA BootStep ==
  ASSUME AInv, [Next]_vars
  PROVE  BootInv'
<1> USE DEF AInv
<1>1. CASE Boot
  BY <1>1, BoundsAssumption DEF Boot, TypeOK, BootInv
<1>2. CASE \E i \in Halves : CopyNonce(i)
  BY <1>2 DEF CopyNonce, Goto, Halves, BootInv
<1> QED
  BY <1>1, <1>2, Writers
     DEF BootInv, Main, WifiConnect, MqttStart, MqttConnected, PublishReady, NonceReceived,
         PublishToken, DelayOver, Disconnect, Presence, WaitFails, Reset, Goto

LEMMA NonceStep ==
  ASSUME AInv, [Next]_vars
  PROVE  NonceInv'
<1> USE DEF AInv
<1>1. Started \subseteq Started'
  BY StartedGrows
<1>2. \A v \in Sessions : challenges'[v] > 0 => v \in Started'
  BY <1>1, Writers DEF TypeOK, NonceInv, OnReady, ForwardChallenge, Open, Started
<1>3. to_device' \in Seq(Started) /\ (to_device # <<>> => Head(to_device) \in Started)
  BY ToDeviceStep DEF NonceInv
<1>4. to_device' \in Seq(Started')
  BY <1>1, <1>3, SeqMonotonic
<1>5. handling' # None => handling' \in Started' /\ s_nonce'[1] \in Started'
  BY <1>1, <1>3, Writers
     DEF TypeOK, NonceInv, HandleChallenge, HandleChallengeEnd, MqttStart, NonceReceived,
         Connect, Reset, Nonces, Halves
<1>6. "NONCE" \in bits' \/ dpc' \in {"memcpy_1", "memcpy_2"} =>
        s_nonce' \in [Halves -> Started']
  <2>1. CASE HandleChallenge
    BY <1>1, <1>3, <2>1 DEF HandleChallenge, NonceInv, TypeOK, Nonces, Halves, main
  <2>2. CASE HandleChallengeEnd
    BY <1>1, <2>2 DEF HandleChallengeEnd, NonceInv, TypeOK, Nonces, Halves, main
  <2>3. CASE NonceReceived
    BY <1>1, <2>3 DEF NonceReceived, NonceInv
  <2>4. CASE \E i \in Halves : CopyNonce(i)
    BY <1>1, <2>4 DEF CopyNonce, Goto, Halves, NonceInv
  <2>5. CASE MqttStart \/ Connect \/ Reset
    BY <1>1, <2>5 DEF MqttStart, Connect, Reset, Goto, NonceInv, main
  <2>6. CASE /\ UNCHANGED <<handling, s_nonce, bits>>
             /\ \/ UNCHANGED dpc
                \/ Boot \/ WifiConnect \/ MqttConnected \/ PublishReady \/ PublishToken
                \/ DelayOver \/ Presence \/ WaitFails
    BY <1>1, <2>6
       DEF Boot, WifiConnect, MqttConnected, PublishReady, PublishToken, DelayOver,
           Disconnect, Presence, WaitFails, Goto, NonceInv
  <2> QED  BY <2>1, <2>2, <2>3, <2>4, <2>5, <2>6, Writers DEF Main
<1>7. dpc' = "memcpy_2" => nonce'[1] \in Started'
  <2>1. CASE \E i \in Halves : CopyNonce(i)
    BY <1>1, <2>1 DEF CopyNonce, Goto, Halves, NonceInv, TypeOK, Nonces
  <2> QED
    BY <1>1, <2>1, Writers
       DEF Main, Boot, WifiConnect, MqttStart, MqttConnected, PublishReady, NonceReceived,
           PublishToken, DelayOver, Disconnect, Presence, WaitFails, Reset, Goto, NonceInv
<1>8. dpc' \in HasNonce => nonce' \in [Halves -> Started']
  <2>1. CASE CopyNonce(2)
    <3>1. nonce[1] \in Started /\ s_nonce[2] \in Started
      BY <2>1 DEF CopyNonce, NonceInv, Halves
    <3>2. nonce' = [nonce EXCEPT ![2] = s_nonce[2]] /\ nonce \in [Halves -> Sessions \cup {None}]
      BY <2>1 DEF CopyNonce, TypeOK, Nonces
    <3> QED  BY <1>1, <3>1, <3>2 DEF Halves
  <2>2. CASE CopyNonce(1)
    BY <2>2 DEF CopyNonce, Goto, HasNonce
  <2>3. CASE ~\E i \in Halves : CopyNonce(i)
    BY <1>1, <2>3, Writers
       DEF Main, Boot, WifiConnect, MqttStart, MqttConnected, PublishReady, NonceReceived,
           PublishToken, DelayOver, Disconnect, Presence, WaitFails, Reset, Goto, NonceInv,
           HasNonce
  <2> QED  BY <2>1, <2>2, <2>3 DEF Halves
<1> QED  BY <1>2, <1>4, <1>5, <1>6, <1>7, <1>8 DEF NonceInv

LEMMA PresenceStep ==
  ASSUME AInv, [Next]_vars
  PROVE  PresenceInv' /\ presences \subseteq presences'
<1> USE DEF AInv, PresenceInv
<1>1. Started \subseteq Started' /\ Open' \subseteq Open \cup (Started' \ Started)
  BY StartedGrows
<1>2. CASE Presence
  <2> DEFINE p == [boot |-> boot, key |-> key, nonce |-> nonce, open |-> Open]
  <2>1. presences' = presences \cup {p} /\ dpc = "wait_pir" /\ dpc' = "puf_attest_build"
    BY <1>2 DEF Presence, Goto
  <2>2. UNCHANGED <<session, boot, key, nonce>> /\ Started' = Started /\ Open' = Open
    BY <1>2 DEF Presence, Goto, verifier, Started, Open
  <2>3. nonce \in [Halves -> Started] /\ boot \in Nat
    BY <2>1, BoundsAssumption DEF NonceInv, HasNonce, TypeOK
  <2>4. \A q \in presences : q.boot \in Nat /\ q.boot <= boot /\ q.boot # boot
    BY <2>1, BoundsAssumption DEF PresencesPast, TypeOK
  <2> HIDE DEF p
  <2>5. p.boot = boot /\ p.key = key /\ p.nonce = nonce /\ p.open = Open
    BY DEF p
  <2>6. PresencesKnown'
    BY <2>1, <2>2, <2>3, <2>5 DEF PresencesKnown
  <2>7. PresencesPast'
    BY <2>1, <2>2, <2>3, <2>4, <2>5 DEF PresencesPast
  <2>8. OnePresencePerBoot'
    BY <2>1, <2>4, <2>5 DEF OnePresencePerBoot
  <2>9. PresenceAtHand'
    BY <2>1, <2>2, <2>5 DEF PresenceAtHand
  <2> QED  BY <2>1, <2>6, <2>7, <2>8, <2>9
<1>3. CASE Boot
  <2>1. boot \in Nat /\ \A p \in presences : p.boot \in Nat
    BY BoundsAssumption DEF TypeOK
  <2>2. Started' = Started /\ Open' = Open /\ presences' = presences
    BY <1>3 DEF Boot, Started, Open, verifier
  <2> QED
    BY <1>3, <2>1, <2>2
       DEF Boot, PresencesKnown, PresencesPast, OnePresencePerBoot, PresenceAtHand
<1>4. CASE UNCHANGED <<presences, boot>>
  <2>1. PresencesKnown'
    BY <1>1, <1>4 DEF PresencesKnown, Halves
  <2>2. PresencesPast'
    <3>1. boot \in Nat /\ ~Boot
      BY <1>4, BoundsAssumption DEF Boot, TypeOK
    <3>2. CASE \E i \in Halves : CopyNonce(i)
      BY <1>4, <3>2 DEF CopyNonce, Goto, Halves, PresencesPast
    <3>3. CASE ~\E i \in Halves : CopyNonce(i)
      BY <1>4, <3>1, <3>3, Writers
         DEF Main, WifiConnect, MqttStart, MqttConnected, PublishReady, NonceReceived,
             PublishToken, DelayOver, Disconnect, Presence, WaitFails, Reset, Goto,
             PresencesPast
    <3> QED  BY <3>2, <3>3
  <2>3. OnePresencePerBoot'
    BY <1>4 DEF OnePresencePerBoot
  <2>4. PresenceAtHand'
    <3>1. dpc' = "puf_attest_build" => UNCHANGED <<dpc, key, nonce>> \/ Presence
      BY Writers
         DEF Main, Boot, WifiConnect, MqttStart, MqttConnected, PublishReady, NonceReceived,
             CopyNonce, Halves, PublishToken, DelayOver, Disconnect, WaitFails, Reset, Goto
    <3> QED  BY <1>2, <1>4, <3>1 DEF PresenceAtHand
  <2> QED  BY <1>4, <2>1, <2>2, <2>3, <2>4
<1> QED  BY <1>2, <1>3, <1>4, Writers

LEMMA TokenStep ==
  ASSUME AInv, [Next]_vars
  PROVE  TokenInv'
<1> USE DEF AInv
<1>1. presences \subseteq presences'
  BY PresenceStep
<1>2. Made \subseteq Made'
  BY <1>1 DEF Made
<1>3. outbox' \subseteq Readies \cup Made'
  <2>1. CASE PublishReady
    BY <1>2, <2>1 DEF PublishReady, Publish, Ready, Readies, TypeOK, BootInv, TokenInv
  <2>2. CASE PublishToken
    <3>1. Token(boot, nonce, key) \in Made
      BY <2>2 DEF PublishToken, Token, Tokens, Made, BootInv, NonceInv, HasNonce, Started,
                  PresenceInv, PresenceAtHand
    <3> QED  BY <1>2, <2>2, <3>1 DEF PublishToken, Publish, TokenInv
  <2>3. CASE DelayOver \/ WaitFails \/ Reset
    BY <1>2, <2>3 DEF DelayOver, WaitFails, Disconnect, Reset, client, TokenInv
  <2>4. CASE \E m \in outbox : Send(m) \/ PubAck(m)
    BY <1>2, <2>4 DEF Send, PubAck, TokenInv
  <2> QED  BY <1>2, <2>1, <2>2, <2>3, <2>4, Writers DEF TokenInv
<1>4. inbox' \in [Sessions -> Seq(Readies \cup Made)]
  <2>1. /\ inbox \in [Sessions -> Seq(Readies \cup Made)]
        /\ outbox \subseteq Readies \cup Made /\ sent \subseteq outbox
    BY DEF TypeOK, TokenInv
  <2> QED  BY <2>1, InboxStep
<1>5. inbox' \in [Sessions -> Seq(Readies \cup Made')]
  BY <1>2, <1>4, BoxGrows
<1> QED  BY <1>3, <1>5 DEF TokenInv

\* The transaction a token adds to the log has its presence: the token was made
\* for one, under the enrolled key, and its nonce is of the session that logs it.
LEMMA LogStep ==
  ASSUME AInv, [Next]_vars
  PROVE  PassMeansPresenceNow'
<1> USE DEF AInv
<1> DEFINE Presented(e, ps) ==
      \E p \in ps : /\ p.boot = e.boot /\ p.key = "enrolled"
                    /\ p.nonce = NonceOf(e.session) /\ e.session \in p.open
<1>1. presences \subseteq presences'
  BY PresenceStep
<1>2. \A i \in DOMAIN log : Presented(log[i], presences')
  BY <1>1 DEF PassMeansPresenceNow
<1>3. \A i \in DOMAIN log' : Presented(log'[i], presences')
  <2>1. CASE UNCHANGED log
    BY <1>2, <2>1
  <2>2. ASSUME NEW v \in Sessions, OnToken(v), log' # log
        PROVE  \A i \in DOMAIN log' : Presented(log'[i], presences')
    <3> DEFINE t == Head(inbox[v])
               e == [session |-> v, boot |-> t.boot]
    <3>1. log' = Append(log, e) /\ t.key = "enrolled" /\ t.nonce = NonceOf(v) /\ v \in Open
      BY <2>2 DEF OnToken, Verifies
    <3>2. t \in Made
      BY <2>2, BoxPops DEF OnToken, TokenInv, Ready, Readies
    <3>3. PICK p \in presences : p.boot = t.boot /\ p.key = t.key /\ p.nonce = t.nonce
      BY <3>2 DEF Made
    <3>4. v \in p.open
      BY <3>1, <3>3 DEF PresenceInv, PresencesKnown, NonceOf, Halves
    <3>5. Presented(e, presences')
      BY <1>1, <3>1, <3>3, <3>4
    <3>6. e \in [session : Sessions, boot : 1 .. MaxBoots]
      BY <3>2 DEF Made, Tokens
    <3> HIDE DEF e, Presented
    <3>7. \A i \in DOMAIN log' : (i \in DOMAIN log /\ log'[i] = log[i]) \/ log'[i] = e
      <4>1. log \in Seq([session : Sessions, boot : 1 .. MaxBoots])
        BY DEF TypeOK
      <4>2. Len(log) \in Nat /\ DOMAIN log = 1 .. Len(log)
        BY <4>1, LenProperties
      <4>3. /\ log' \in Seq([session : Sessions, boot : 1 .. MaxBoots])
            /\ Len(log') = Len(log) + 1 /\ log'[Len(log) + 1] = e
            /\ \A i \in 1 .. Len(log) : log'[i] = log[i]
        BY <3>1, <3>6, <4>1, AppendProperties
      <4>4. DOMAIN log' = 1 .. Len(log) + 1
        BY <4>3, LenProperties
      <4> QED  BY <4>2, <4>3, <4>4
    <3> QED  BY <1>2, <3>5, <3>7
  <2> QED  BY <2>1, <2>2, Writers
<1> QED  BY <1>3 DEF PassMeansPresenceNow

-----------------------------------------------------------------------------
THEOREM Invariance == Spec => []AInv
<1>1. AInv /\ [Next]_vars => AInv'
  BY TypeStep, BootStep, NonceStep, PresenceStep, TokenStep, LogStep DEF AInv
<1> QED  BY InitAInv, <1>1, PTL DEF Spec

\* Every variable stays within its type.
THEOREM TypeCorrect == Spec => []TypeOK
<1>1. AInv => TypeOK
  BY DEF AInv
<1> QED  BY Invariance, <1>1, PTL

\* Whatever is lost, repeated, late or torn: a logged transaction is a presence
\* while its session was open, on a boot with the enrolled key.
THEOREM PassIsPresence == Spec => []PassMeansPresenceNow
<1>1. AInv => PassMeansPresenceNow
  BY DEF AInv
<1> QED  BY Invariance, <1>1, PTL

\* app_main never goes to the PIR sensor with a nonce that is not there.
THEOREM NonceIsComplete == Spec => []NonceComplete
<1>1. AInv => NonceComplete
  BY DEF AInv, NonceInv, NonceComplete, HasNonce, Started
<1> QED  BY Invariance, <1>1, PTL

\* The tokens of one boot are accepted in one session at most.
THEOREM OneSession == Spec => []OneSessionPerToken
<1>1. ASSUME AInv, NEW i \in DOMAIN log, NEW j \in DOMAIN log, log[i].boot = log[j].boot
      PROVE  log[i].session = log[j].session
  <2>1. PICK p \in presences :
          p.boot = log[i].boot /\ p.nonce = NonceOf(log[i].session)
    BY <1>1 DEF AInv, PassMeansPresenceNow
  <2>2. PICK q \in presences :
          q.boot = log[j].boot /\ q.nonce = NonceOf(log[j].session)
    BY <1>1 DEF AInv, PassMeansPresenceNow
  <2>3. p = q
    BY <1>1, <2>1, <2>2 DEF AInv, PresenceInv, OnePresencePerBoot
  <2>4. NonceOf(log[i].session)[1] = NonceOf(log[j].session)[1]
    BY <2>1, <2>2, <2>3
  <2> QED  BY <2>4 DEF NonceOf, Halves
<1>2. AInv => OneSessionPerToken
  BY <1>1 DEF OneSessionPerToken
<1> QED  BY Invariance, <1>2, PTL

-----------------------------------------------------------------------------
\* Where nothing of this boot is published.
Silent == {"off", "puf_wifi_connect", "puf_mqtt_connect", "wait_connected",
           "publish_ready", "stopped"}

\* A client that has outlived app_main had no presence to report.
LeftAlone == dpc = "stopped" /\ mqtt_on => \A p \in presences : p.boot # boot

SilentInv == (dpc \in Silent => outbox = {}) /\ LeftAlone

LEMMA OutboxStep ==
  ASSUME SilentInv, [Next]_vars
  PROVE  dpc' \in Silent => outbox' = {}
<1>1. CASE PublishReady \/ PublishToken \/ NonceReceived \/ Presence
  BY <1>1 DEF PublishReady, PublishToken, NonceReceived, Presence, Goto, Silent
<1>2. CASE \E i \in Halves : CopyNonce(i)
  BY <1>2 DEF CopyNonce, Goto, Halves, Silent
<1>3. CASE DelayOver \/ WaitFails \/ Reset
  BY <1>3 DEF DelayOver, WaitFails, Disconnect, Reset, Goto, SilentInv, Silent, client
<1>4. CASE Boot \/ WifiConnect \/ MqttStart \/ MqttConnected
  BY <1>4 DEF Boot, WifiConnect, MqttStart, MqttConnected, Goto, SilentInv, Silent, client
<1>5. CASE \E m \in outbox : Send(m) \/ PubAck(m)
  BY <1>5 DEF Send, PubAck, main, SilentInv
<1>6. CASE UNCHANGED <<dpc, outbox>>
  BY <1>6 DEF SilentInv
<1> QED
  BY <1>1, <1>2, <1>3, <1>4, <1>5, <1>6, Writers DEF Main

\* app_main only leaves a client behind before it has asked for a nonce.
LEMMA LeftStep ==
  ASSUME AInv, LeftAlone, [Next]_vars
  PROVE  LeftAlone'
<1>1. CASE WaitFails
  <2>1. CASE dpc \in {"puf_wifi_connect", "wait_connected"}
    <3>1. \A p \in presences : p.boot # boot
      BY <2>1 DEF AInv, PresenceInv, PresencesPast
    <3> QED  BY <1>1, <3>1 DEF WaitFails, Disconnect, Goto, LeftAlone
  <2>2. CASE dpc \notin {"puf_wifi_connect", "wait_connected"}
    BY <1>1, <2>2 DEF WaitFails, Disconnect, LeftAlone
  <2> QED  BY <2>1, <2>2
<1>2. CASE DelayOver
  BY <1>2 DEF DelayOver, Disconnect, LeftAlone
<1>3. CASE \E i \in Halves : CopyNonce(i)
  BY <1>3 DEF CopyNonce, Goto, Halves, LeftAlone
<1>4. CASE Presence \/ Reset \/ (Main /\ ~DelayOver /\ ~\E i \in Halves : CopyNonce(i))
  BY <1>4 DEF Presence, Reset, Main, Boot, WifiConnect, MqttStart, MqttConnected,
              PublishReady, NonceReceived, PublishToken, Goto, LeftAlone
<1>5. CASE UNCHANGED <<dpc, boot, key, nonce>>
  <2>1. CASE UNCHANGED <<mqtt_on, conn>> \/ Connect \/ ConnectionLost
    BY <1>5, <2>1, Writers DEF Connect, ConnectionLost, LeftAlone, Presence, Goto
  <2> QED  BY <1>1, <1>2, <1>3, <1>4, <2>1, Writers DEF Main
<1> QED
  BY <1>1, <1>2, <1>3, <1>4, <1>5, Writers

\* Once app_main has stopped, whatever its client goes on to do, nothing of its
\* boot is sent any more, and a client is left only if there was no presence.
THEOREM StopsSilent == Spec => []GaveUpIsSilent
<1>1. Init => SilentInv
  BY DEF Init, SilentInv, LeftAlone
<1>2. AInv /\ SilentInv /\ [Next]_vars => SilentInv'
  BY OutboxStep, LeftStep DEF SilentInv
<1>3. SilentInv => GaveUpIsSilent
  BY DEF SilentInv, LeftAlone, Silent, GaveUpIsSilent
<1> QED  BY Invariance, <1>1, <1>2, <1>3, PTL DEF Spec

-----------------------------------------------------------------------------
\* The exchange implements the ledger.
LedgerState == [v \in Sessions |-> CASE session[v] = "idle" -> "new"
                                     [] session[v] = "ended" -> "over"
                                     [] OTHER -> "open"]

\* A session starts or ends: the ledger's Open or Finish.
LEMMA SessionRefines ==
  ASSUME AInv, NEW v \in Sessions, Start(v) \/ End(v)
  PROVE  Ledger!Open(v) \/ Ledger!Finish(v)
<1> USE DEF AInv, TypeOK
<1>1. UNCHANGED <<Visits, log>>
  BY DEF Start, End, Visits
<1>2. CASE Start(v)
  <2>1. LedgerState[v] = "new" /\ LedgerState' = [LedgerState EXCEPT ![v] = "open"]
    BY <1>2 DEF Start, LedgerState
  <2> QED  BY <1>1, <2>1 DEF Ledger!Open, LedgerState
<1>3. CASE End(v)
  <2>1. LedgerState[v] = "open" /\ LedgerState' = [LedgerState EXCEPT ![v] = "over"]
    BY <1>3 DEF End, LedgerState
  <2> QED  BY <1>1, <2>1 DEF Ledger!Finish, LedgerState
<1> QED  BY <1>2, <1>3

\* The sensor goes high: a visit, if the boot has the enrolled key and a whole
\* nonce of a session that is open, and otherwise nothing the ledger sees.
LEMMA PresenceRefines ==
  ASSUME AInv, Presence
  PROVE  \/ \E v \in Sessions, b \in 1 .. MaxBoots : Ledger!Visit(v, b)
         \/ UNCHANGED <<LedgerState, Visits, log>>
<1> USE DEF AInv
<1> DEFINE p == [boot |-> boot, key |-> key, nonce |-> nonce, open |-> Open]
           Good(q) == /\ q.key = "enrolled" /\ q.nonce = NonceOf(q.nonce[1])
                      /\ q.nonce[1] \in q.open
<1>1. presences' = presences \cup {p} /\ UNCHANGED <<session, log>>
  BY DEF Presence, verifier
<1>2. LedgerState' = LedgerState
  BY <1>1 DEF LedgerState
<1>3. boot \in 1 .. MaxBoots
  BY DEF Presence, BootInv
<1> HIDE DEF Good
<1>4. CASE Good(p)
  <2>1. nonce[1] \in Open /\ nonce[1] \in Sessions
    BY <1>4 DEF Good, Open
  <2>2. LedgerState[nonce[1]] = "open"
    BY <2>1 DEF Open, LedgerState
  <2>3. \A x \in Visits : x.boot # boot
    <3>1. \A q \in presences : q.boot # boot
      BY DEF Presence, PresenceInv, PresencesPast
    <3> QED  BY <3>1 DEF Visits
  <2>4. Visits' = Visits \cup {[session |-> nonce[1], boot |-> boot]}
    <3> DEFINE Visit(q) == [session |-> q.nonce[1], boot |-> q.boot]
               Goods(ps) == {q \in ps : Good(q)}
    <3>1. Visits = {Visit(q) : q \in Goods(presences)}
      BY DEF Visits, Good
    <3>2. Visits' = {Visit(q) : q \in Goods(presences')}
      BY DEF Visits, Good
    <3>3. Goods(presences') = Goods(presences) \cup {p}
      BY <1>1, <1>4
    <3>4. Visit(p) = [session |-> nonce[1], boot |-> boot]
      OBVIOUS
    <3> HIDE DEF Visit, Goods, p
    <3> QED  BY <3>1, <3>2, <3>3, <3>4
  <2>5. Ledger!Visit(nonce[1], boot)
    BY <1>1, <1>2, <2>2, <2>3, <2>4 DEF Ledger!Visit, LedgerState
  <2> QED  BY <1>3, <2>1, <2>5
<1>5. CASE ~ Good(p)
  <2>1. Visits' = Visits
    BY <1>1, <1>5 DEF Visits, Good
  <2> QED  BY <1>1, <1>2, <2>1
<1> QED  BY <1>4, <1>5

\* A token that verifies was made for a visit: it is recorded.
LEMMA TokenRefines ==
  ASSUME AInv, NEW v \in Sessions, OnToken(v)
  PROVE  \/ \E b \in 1 .. MaxBoots : Ledger!Record(v, b)
         \/ UNCHANGED <<LedgerState, Visits, log>>
<1> USE DEF AInv
<1> DEFINE t == Head(inbox[v])
<1>1. LedgerState' = LedgerState /\ LedgerState[v] = "open"
  BY DEF OnToken, LedgerState, Open, TypeOK
<1>2. Visits' = Visits
  BY DEF OnToken, Visits
<1>3. CASE Verifies(t, v)
  <2>1. /\ log' = Append(log, [session |-> v, boot |-> t.boot])
        /\ t.key = "enrolled" /\ t.nonce = NonceOf(v) /\ v \in Open
    BY <1>3 DEF OnToken, Verifies
  <2>2. t \in Made
    BY BoxPops DEF OnToken, TokenInv, Ready, Readies
  <2>3. PICK p \in presences : p.boot = t.boot /\ p.key = t.key /\ p.nonce = t.nonce
    BY <2>2 DEF Made
  <2>4. p.nonce[1] = v /\ v \in p.open
    BY <2>1, <2>3 DEF PresenceInv, PresencesKnown, NonceOf, Halves
  <2>5. [session |-> v, boot |-> t.boot] \in Visits
    BY <2>1, <2>3, <2>4 DEF Visits
  <2>6. t.boot \in 1 .. MaxBoots
    BY <2>2 DEF Made, Tokens
  <2>7. Ledger!Record(v, t.boot)
    BY <1>1, <1>2, <2>1, <2>5 DEF Ledger!Record, LedgerState
  <2> QED  BY <2>6, <2>7
<1>4. CASE ~ Verifies(t, v)
  <2>1. log' = log
    BY <1>4 DEF OnToken
  <2> QED  BY <1>1, <1>2, <2>1
<1> QED  BY <1>3, <1>4

\* Every behaviour of the exchange is one of PresenceLedger: nothing is recorded
\* but visits, for the session they were made for and while that is open.
THEOREM Refinement == Spec => LedgerSpec
<1>1. Init => Ledger!Init
  BY DEF Init, Ledger!Init, Visits
<1>2. AInv /\ [Next]_vars => [Ledger!Next]_<<LedgerState, Visits, log>>
  <2> SUFFICES ASSUME AInv, [Next]_vars
               PROVE  [Ledger!Next]_<<LedgerState, Visits, log>>
    OBVIOUS
  <2>1. CASE \E v \in Sessions : Start(v) \/ End(v)
    BY <2>1, SessionRefines DEF Ledger!Next
  <2>2. CASE Presence
    BY <2>2, PresenceRefines DEF Ledger!Next
  <2>3. CASE \E v \in Sessions : OnToken(v)
    BY <2>3, TokenRefines DEF Ledger!Next
  <2>4. CASE UNCHANGED <<presences, session, log>>
    BY <2>4 DEF LedgerState, Visits
  <2> QED  BY <2>1, <2>2, <2>3, <2>4, Writers
<1> QED
  BY Invariance, <1>1, <1>2, PTL DEF Spec, LedgerSpec, Ledger!Spec, Ledger!ledger, LedgerState
=============================================================================
