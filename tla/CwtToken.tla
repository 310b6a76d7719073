------------------------------- MODULE CwtToken -------------------------------
(***************************************************************************)
(* The token, byte by byte: the device builds it with QCBOR, in buffers of *)
(* fixed sizes, and puts the lengths in a MAC_structure of its own; the    *)
(* verifier takes it apart with a decoder of its own, and builds the       *)
(* MAC_structure again.  Attestation's Verifies is what comes of it.       *)
(*                                                                         *)
(* A number is the sequence of its bytes, most significant first, without  *)
(* leading zeros: iat has 64 bits.  A MAC is 32 bytes that tell nothing    *)
(* but the key and the message they were made of.                          *)
(***************************************************************************)
EXTENDS Integers, Sequences

CONSTANTS
  Keys,    \* values of K_auth
  K_auth,  \* the one the verifier was given
  Nonces,  \* the nonces of verifier sessions
  Uptimes  \* milliseconds since boot, as numbers

Byte == 0 .. 255

ASSUME KeysAssumption == K_auth \in Keys

ASSUME NoncesAssumption == \A n \in Nonces : n \in [1 .. 32 -> Byte]

\* The most that microseconds in an int64_t make is 32 * 2^48 and some.
ASSUME UptimesAssumption ==
  \A t \in Uptimes :
    /\ t \in Seq(Byte) /\ Len(t) <= 7
    /\ Len(t) > 0 => t[1] # 0
    /\ Len(t) = 7 => t[1] <= 32

VARIABLES
  pc,         \* the next step of the device, or of the verifier
  key,        \* the device's K_auth
  nonce,      \* its nonce
  iat,        \* esp_timer_get_time() / 1000 when the payload was built
  prot, payload, mac_structure, mac, token, \* the buffers of puf_attest_build
  hex,        \* the message on the token topic
  nonce_sent, \* the nonce of the session that gets it
  verdict     \* what verify_cose_mac0 says, and the claims it returns

vars == <<pc, key, nonce, iat, prot, payload, mac_structure, mac, token, hex,
          nonce_sent, verdict>>

-----------------------------------------------------------------------------
\* Bytes

\* Without leading zeros.
Strip(bs) ==
  LET zeros == {i \in 0 .. Len(bs) : \A j \in 1 .. i : bs[j] = 0}
  IN SubSeq(bs, 1 + CHOOSE i \in zeros : \A j \in zeros : j <= i, Len(bs))

Number(n) == Strip(<<n \div 256, n % 256>>)
ValueOf(num) ==
  LET value[i \in 0 .. Len(num)] == IF i = 0 THEN 0 ELSE 256 * value[i - 1] + num[i]
  IN value[Len(num)]

\* "%02x" of each byte, as the halves of the bytes; strtol and bytes.fromhex
\* put the halves together again.
Hex(bs) == [i \in 1 .. 2 * Len(bs) |-> <<bs[(i + 1) \div 2], IF i % 2 = 1 THEN "high" ELSE "low">>]
FromHex(digits) == [i \in 1 .. Len(digits) \div 2 |-> digits[2 * i - 1][1]]

\* HMAC-SHA256
Hmac(k, message) == [i \in 1 .. 32 |-> [key |-> k, message |-> message, at |-> i]]

-----------------------------------------------------------------------------
\* puf_attest.c, with QCBOR's encoding

\* The major types, as cbor_decode numbers them.
Uint == 0
Nint == 1
Bstr == 2
Tstr == 3
List == 4
Map == 5

\* The shortest head: the number in the first byte, or in 1, 2, 4 or 8 more.
Head5(major, num) ==
  LET width == CASE Len(num) <= 2 -> Len(num) [] Len(num) \in 3 .. 4 -> 4 [] OTHER -> 8
      info == CASE width = 1 -> 24 [] width = 2 -> 25 [] width = 4 -> 26 [] OTHER -> 27
  IN IF Len(num) = 0 \/ (Len(num) = 1 /\ num[1] <= 23)
       THEN <<32 * major + ValueOf(num)>>
       ELSE <<32 * major + info>> \o [i \in 1 .. width - Len(num) |-> 0] \o num

AddInt(n) ==
  IF n >= 0 THEN Head5(Uint, Number(n)) ELSE Head5(Nint, Number(-1 - n))
AddBytes(bs) == Head5(Bstr, Number(Len(bs))) \o bs
AddText(bs) == Head5(Tstr, Number(Len(bs))) \o bs
OpenArray(n) == Head5(List, Number(n))
OpenMap(n) == Head5(Map, Number(n))

Issuer == <<101, 115, 112, 51, 50, 115, 51, 45, 112, 117, 102, 45, 118, 49>>
Mac0 == <<77, 65, 67, 48>>

\* Mutant: a payload_buf without room for a 64-bit iat.
PayloadSizeTight == 56

\* The sizes of prot_buf, payload_buf and mac_struct_buf, and of main.c's token.
ProtSize == 16
PayloadSize == 96
MacStructSize == 160
TokenMax == 256

Goto(p) == pc' = p

\* QCBOREncode_Finish: an error if the buffer was too small.
Finish(encoded, size, next) == Goto(IF Len(encoded) <= size THEN next ELSE "too_long")

Init ==
  /\ pc = "nonce" /\ key \in Keys /\ nonce = <<>> /\ iat = <<>>
  /\ prot = <<>> /\ payload = <<>> /\ mac_structure = <<>> /\ mac = <<>>
  /\ token = <<>> /\ hex = <<>>
  /\ nonce_sent \in Nonces
  /\ verdict = [says |-> "", issuer |-> <<>>, iat |-> <<>>]

\* The challenge, of this session or another: 64 digits, parsed into s_nonce.
ReceiveNonce ==
  /\ pc = "nonce"
  /\ \E n \in Nonces : Len(Hex(n)) = 64 /\ nonce' = FromHex(Hex(n))
  /\ Goto("protected")
  /\ UNCHANGED <<key, iat, prot, payload, mac_structure, mac, token, hex, nonce_sent, verdict>>

BuildProtected ==
  /\ pc = "protected"
  /\ prot' = OpenMap(1) \o AddInt(1) \o AddInt(5)
  /\ Finish(prot', ProtSize, "payload")
  /\ UNCHANGED <<key, nonce, iat, payload, mac_structure, mac, token, hex, nonce_sent, verdict>>

Claims(ms) ==
  OpenMap(3) \o AddInt(1) \o AddText(Issuer)
             \o AddInt(6) \o Head5(Uint, ms)
             \o AddInt(-1) \o AddBytes(nonce)

\* Mutant: the uptime is cast to 32 bits.
BuildPayloadNarrow ==
  /\ pc = "payload"
  /\ iat' \in Uptimes
  /\ payload' = Claims(IF Len(iat') <= 4 THEN iat'
                       ELSE Strip(SubSeq(iat', Len(iat') - 3, Len(iat'))))
  /\ Finish(payload', PayloadSize, "mac_structure")
  /\ UNCHANGED <<key, nonce, prot, mac_structure, mac, token, hex, nonce_sent, verdict>>

BuildPayload ==
  /\ pc = "payload"
  /\ iat' \in Uptimes
  /\ payload' = Claims(iat')
  /\ Finish(payload', PayloadSize, "mac_structure")
  /\ UNCHANGED <<key, nonce, prot, mac_structure, mac, token, hex, nonce_sent, verdict>>

BuildMacStructure ==
  /\ pc = "mac_structure"
  /\ mac_structure' = OpenArray(4) \o AddText(Mac0) \o AddBytes(prot) \o AddBytes(<<>>)
                                   \o AddBytes(payload)
  /\ Finish(mac_structure', MacStructSize, "mac")
  /\ UNCHANGED <<key, nonce, iat, prot, payload, mac, token, hex, nonce_sent, verdict>>

\* psa_import_key and psa_mac_compute.
ComputeMac ==
  /\ pc = "mac"
  /\ mac' = Hmac(key, mac_structure)
  /\ Goto("assemble")
  /\ UNCHANGED <<key, nonce, iat, prot, payload, mac_structure, token, hex, nonce_sent, verdict>>

\* One of the two fails; the MAC, if any, is wiped.
PsaFails ==
  /\ pc = "mac"
  /\ Goto("psa_error")
  /\ UNCHANGED <<key, nonce, iat, prot, payload, mac_structure, mac, token, hex, nonce_sent,
                 verdict>>

\* Mutant: the MAC is left on the stack.
AssembleUnwiped ==
  /\ pc = "assemble"
  /\ token' = OpenArray(4) \o AddBytes(prot) \o OpenMap(0) \o AddBytes(payload)
                           \o AddBytes(mac)
  /\ Finish(token', TokenMax, "publish")
  /\ UNCHANGED <<key, nonce, iat, prot, payload, mac_structure, mac, hex, nonce_sent, verdict>>

Assemble ==
  /\ pc = "assemble"
  /\ token' = OpenArray(4) \o AddBytes(prot) \o OpenMap(0) \o AddBytes(payload)
                           \o AddBytes(mac)
  /\ mac' = <<>>
  /\ Finish(token', TokenMax, "publish")
  /\ UNCHANGED <<key, nonce, iat, prot, payload, mac_structure, hex, nonce_sent, verdict>>

\* puf_mqtt_publish_token
Publish ==
  /\ pc = "publish"
  /\ hex' = Hex(token)
  /\ Goto("verify")
  /\ UNCHANGED <<key, nonce, iat, prot, payload, mac_structure, mac, token, nonce_sent, verdict>>

-----------------------------------------------------------------------------
\* verifier_mqtt.py.  An item is of a major type, or Python's None.

None == 8
Absent == [major |-> None, val |-> <<>>]

\* Bytes of the argument after the first: none too for a 64-bit one, of which
\* nothing is skipped.
ArgWidth(info) == CASE info = 24 -> 1 [] info = 25 -> 2 [] info = 26 -> 4 [] OTHER -> 0

\* The argument of the item at pos, and where the item goes on after it.
Argument(data, pos) ==
  LET info == data[pos] % 32
  IN IF info <= 23 THEN Number(info) ELSE Strip(SubSeq(data, pos + 1, pos + ArgWidth(info)))

After(data, pos) == pos + 1 + ArgWidth(data[pos] % 32)

\* cbor_decode of an item in another one: a list or map there is empty, here.
\* None is only met as the value of a number: no length has 64 bits.
InnerItem(data, pos) ==
  LET major == data[pos] \div 32
      start == After(data, pos)
      end == start + ValueOf(Argument(data, pos))
  IN CASE major \in {Uint, Nint} ->
            [item |-> IF data[pos] % 32 > 26 THEN Absent
                      ELSE [major |-> major, val |-> Argument(data, pos)],
             pos |-> start]
       [] major \in {Bstr, Tstr} ->
            [item |-> [major |-> major, val |-> SubSeq(data, start, end - 1)], pos |-> end]
       [] major \in {List, Map} -> [item |-> [major |-> major, val |-> <<>>], pos |-> start]

\* cbor_decode of a whole message, with the items in it one after another.
cbor_decode(data) ==
  LET major == data[1] \div 32
      n == (IF major = Map THEN 2 ELSE 1) * ValueOf(Argument(data, 1))
      at[i \in 0 .. n] == IF i = 0 THEN After(data, 1) ELSE InnerItem(data, at[i - 1]).pos
  IN IF major \in {List, Map}
       THEN [major |-> major, val |-> [i \in 1 .. n |-> InnerItem(data, at[i - 1]).item]]
       ELSE InnerItem(data, 1).item

\* claims.get: the last value under the key.
Get(claims, k) ==
  LET at == {i \in 1 .. Len(claims) \div 2 : claims[2 * i - 1] = k}
  IN IF at = {} THEN Absent ELSE claims[2 * CHOOSE i \in at : \A j \in at : j <= i]

\* Mutant: every length in a byte of its own.
cbor_bstrLong(b) == <<88, Len(b)>> \o b

cbor_bstr(b) == IF Len(b) <= 23 THEN <<64 + Len(b)>> \o b ELSE <<88, Len(b)>> \o b

Fail(why) == [says |-> why, issuer |-> <<>>, iat |-> <<>>]

verify_cose_mac0(token_bytes) ==
  LET decoded == cbor_decode(token_bytes)
      parts == decoded.val
      structure == <<132, 100>> \o Mac0 \o cbor_bstr(parts[1].val) \o <<64>>
                                \o cbor_bstr(parts[3].val)
      claims == cbor_decode(parts[3].val).val
      nonce_tok == Get(claims, [major |-> Nint, val |-> Number(0)])
  IN IF decoded.major # List \/ Len(parts) # 4 THEN Fail("Not a valid COSE_Mac0")
     ELSE IF Hmac(K_auth, structure) # parts[4].val THEN Fail("MAC verification failed")
     ELSE IF nonce_tok.major # Bstr THEN Fail("Nonce missing")
     ELSE IF nonce_tok.val # nonce_sent THEN Fail("Nonce mismatch")
     ELSE [says |-> "PASS",
           issuer |-> Get(claims, [major |-> Uint, val |-> Number(1)]).val,
           iat |-> Get(claims, [major |-> Uint, val |-> Number(6)]).val]

\* on_message, token.
OnToken ==
  /\ pc = "verify"
  /\ verdict' = verify_cose_mac0(FromHex(hex))
  /\ Goto("verified")
  /\ UNCHANGED <<key, nonce, iat, prot, payload, mac_structure, mac, token, hex, nonce_sent>>

-----------------------------------------------------------------------------
Next ==
  \/ ReceiveNonce \/ BuildProtected \/ BuildPayload \/ BuildMacStructure \/ ComputeMac
  \/ PsaFails \/ Assemble \/ Publish \/ OnToken

Spec == Init /\ [][Next]_vars

-----------------------------------------------------------------------------
\* Properties

\* Every buffer holds bytes, and the MAC is nowhere left when it has been used.
TypeOK ==
  /\ pc \in {"nonce", "protected", "payload", "mac_structure", "mac", "assemble", "publish",
             "verify", "verified", "too_long", "psa_error"}
  /\ key \in Keys /\ nonce_sent \in Nonces /\ nonce \in Nonces \cup {<<>>}
  /\ iat \in Uptimes \cup {<<>>}
  /\ \A i \in DOMAIN prot \cup DOMAIN payload :
       /\ i \in DOMAIN prot => prot[i] \in Byte
       /\ i \in DOMAIN payload => payload[i] \in Byte
  /\ Len(mac) = (IF pc = "assemble" THEN 32 ELSE 0) /\ Len(hex) \in {0, 2 * Len(token)}
  /\ verdict.says \in {"", "Not a valid COSE_Mac0", "MAC verification failed",
                       "Nonce missing", "Nonce mismatch", "PASS"}

\* The two encoders and the decoder agree at every width of iat: a token passes
\* if it was made with the verifier's key and nonce, is refused for the right
\* reason otherwise, and one whose iat needs 64 bits, 50 days after the boot,
\* is refused and never taken for anything else.
VerdictIsRight ==
  pc = "verified" =>
    verdict.says = CASE key # K_auth -> "MAC verification failed"
                     [] key = K_auth /\ Len(iat) > 4 -> "Nonce missing"
                     [] key = K_auth /\ Len(iat) <= 4 /\ nonce # nonce_sent -> "Nonce mismatch"
                     [] OTHER -> "PASS"

\* What the verifier prints and logs is what the device put in the token.
ClaimsKept ==
  verdict.says = "PASS" => verdict.issuer = Issuer /\ verdict.iat = iat

\* No buffer is too small, at any uptime: only PSA makes the build fail, and
\* hex_buf, two digits for each byte and a 0, holds the token.
FitsBuffers == pc # "too_long" /\ Len(hex) + 1 <= 2 * TokenMax + 1
=============================================================================
