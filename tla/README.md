# Verification of the ESP32-S3 SRAM-PUF firmware

A device derives two keys from the power-up state of its own RTC memory, helped
by public data it stored once, and uses one of them to sign tokens that tell a
verifier "somebody stands before me now". This directory holds TLA+ models of
that firmware and of the MQTT verifier, TLC configurations for small instances,
and theorems with TLAPS proofs. Paths are relative to `src/`.

## The system

| part | state it keeps | operations | talks to |
|---|---|---|---|
| boot hook `bootloader_components/puf_boot` | RTC slow memory | copies 256 bytes from +0x400 to +0x200 before anything else runs | capture, through the memory |
| capture `main/capture/puf_capture.c` | none | reads the copy into `R` | `app_main` |
| `app_main` `main/main.c` | `R`, `W`, `K_enc`, `K_auth`; NVS entries `helper_w`, `enrolled` | enrolment branch, reconstruction branch, attestation, cleanup | everything |
| integrity `main/integrity/puf_integrity.c` | NVS entry `hmac_tag` | `puf_integrity_enroll`, `puf_integrity_verify` | NVS, eFuse HMAC |
| helper encryption `main/integrity/puf_wenc.c` | none | AES-GCM of `W` | eFuse HMAC |
| key derivation `main/kdf/puf_kdf.c` | eFuse key block | HMAC of a label, HKDF | both of the above |
| fuzzy extractor `main/reconcile/puf_reconcile.c` | none | `puf_reconcile_enroll`, `puf_reconcile_reconstruct` | BCH codec |
| BCH codec `main/reconcile/bch.c` | tables and work polynomials of one `bch_control` | `bch_init`, `bch_encode`, `bch_decode` | fuzzy extractor |
| token `main/attestation/puf_attest.c` | none | `puf_attest_build` | `app_main` |
| Wi-Fi link `main/network/puf_wifi.c` | event group, the station | `puf_wifi_connect`; event handler on another task | access point, `app_main` |
| MQTT link `main/network/puf_mqtt.c` | event group, `s_nonce`, the client and its outbox | connect, wait for the nonce, publish, disconnect; event handler on another task | broker, `app_main` |
| verifier `tools/verifier_mqtt.py` | one nonce, `done`, `transactions.jsonl` | answers `ready`, verifies `token`, gives up after 300 s | broker |

What is hard in it: the three NVS entries are committed in two steps, and power
may go anywhere between; `is_enrolled` cannot tell "no" from "could not read";
the decoder may succeed with the wrong codeword; the event handler and
`app_main` share `s_nonce` with no lock; QoS 1 delivers at least once; several
verifiers may listen to one device; the wait for the PIR sensor has no limit
and the verifier's has one; all devices use one MQTT client id and push each
other off the broker while their waits run; token and `MAC_structure` are
written by one encoder and read by another, with lengths that change with the
uptime.

What makes each part right:

* storage and integrity: keys come from sealed helper data only; a seal never
  gets onto anything but the helper data in store; an enrolled identity is not
  overwritten; a device that is not locked keeps getting its keys;
* extractor: the keys are the enrolled ones for every response within reach,
  and for no other;
* codec: codewords are 2T+1 bits apart, a word within T bits of one is decoded
  to it, and no word is changed in more than T bits;
* attestation: a logged transaction is a presence in that session, under the
  enrolled key; a token serves one session; a session that is heard is settled;
  a device that gave up is silent, and leaves a client running only if nobody came;
* links: a device gives up for want of an access point, a broker or a verifier,
  and not because another device has its client id; the client is not stopped
  on a token it could have sent;
* token: the verifier's decoder and MAC agree with the device's at every
  uptime, and no buffer is too small.

## Modules

| module | what it is |
|---|---|
| `FuzzyExtractor` | `puf_reconcile.c` as operators over an abstract code: helper data, correction of one block, reconstruction, keys |
| `HelperVault` | abstract specification: one helper data, one seal, one key |
| `PufLifecycle` | one device from power-up to the end of `app_main`, over any number of boots; `VaultSpec` states that it implements `HelperVault` |
| `Attestation` | `app_main` from the reconstructed keys on, the MQTT client's task, the broker, any number of verifier sessions |
| `PresenceLedger` | abstract specification: sessions open and end once, a visit a boot, a log of visits of open sessions; `LedgerSpec` states that `Attestation` implements it |
| `DeviceFleet` | several devices at one access point and one broker, in time: station, client and `app_main`'s waits |
| `CwtToken` | `puf_attest_build` and `verify_cose_mac0`, byte by byte |
| `BchCode` | `bch.c` as operators: field and code tables, encoder, the decoder with its root finding |
| `BchBlock` | one block through `puf_reconcile.c`: parity stored, noisy responses decoded and corrected bit by bit |
| `FuzzyExtractorProofs`, `PufLifecycleProofs`, `AttestationProofs`, `DeviceFleetProofs`, `CwtTokenProofs`, `BchFieldProofs`, `BchCodeProofs`, `BchBlockProofs` | theorems |
| `MCPufLifecycle`, `MCBchBlock`, `MCAttestation`, `MCDeviceFleet`, `MCCwtToken` | instances for TLC |

### FuzzyExtractor

A response is a function from blocks to data: `puf_reconcile.c` uses the first
14 of each 32 bytes and never the rest. The code is given by its distances,
`Dist` on data and `EccDist` on parities (a parity is named by the data it
belongs to), and by `Decode`, what `bch_decode` and the correction loop make of
a response and a stored parity. `DecodeAssumption` is the decoder's contract: a word
within reach of a codeword goes to it, and no word is changed in more than T bits.
It leaves open what becomes of other words, because `bch_decode` does: it may refuse
them, or return errors that lead to no codeword. `Corrected` keeps the fact that error
locations in the parity are skipped (`puf_reconcile.c:142-148`): a word can decode to a
codeword whose parity is not the stored one, and nothing notices.

### BchCode and BchBlock

`BchCode` follows `bch.c` function by function and keeps its names. A field element is
the set of its set bits, a polynomial over GF(2) the set of its degrees, a polynomial
over the field the sequence of its coefficients, so bytes, words and shifts go. The
linear systems of `find_affine4_roots` are replaced by their solutions, and the order
of the roots they give is not kept: each is flipped once, whatever the order. What
the code does past the promises of the algorithm is kept, above all `gf_poly_gcd`,
which returns a divisor that may not divide, and the zeros whose logarithm is 0.
Loops are recursive functions, over the counter of the loop, which the provers can take
apart. Its two assumptions besides the parameters', `PrimitiveAssumption` and `BaseAssumption`, are the
tests with which `build_gf_tables` and `build_deg2_base` let `bch_init` fail. Its results
were compared with those of the compiled `bch.c`, for 4096 words of the small code and 60 of
the program's: returned number and locations agree on all.

`BchBlock` is the loop body of `puf_reconcile_enroll` and of `puf_reconcile_reconstruct`
around it: `Enroll`, `Capture`, `Decode`, one `Correct` per location, `Finish`. The stored
parity is without noise: it comes from flash and the tag has been checked. Its
properties are the assumptions of `FuzzyExtractor`: `NearestCodeword` and `AtMostTFlips` make
`DecodeAssumption`, `MinimumDistance` makes `CodeAssumption`; `CodecAsAssumed` proves all four
assumptions for every code that `bch_init` accepts.

### PufLifecycle

`pc` is the call `app_main` makes next, one action per call, in the order of
`main.c`. `flash` holds the NVS entries; `cache` what `nvs_set_*` was given
and is not yet in flash: `NvsFlush` may move any entry at any time, and
`nvs_commit` returns when all are there. `rtc_src` and `rtc_dst` are the two
halves of RTC memory the hook copies between. Faults are `CallFails` (any call in
`MayFail`), `Misread` (`is_enrolled` reads an error as "no"), `Crash` (power
loss, or a reset that RTC memory survives) and `Decay` (an entry whose CRC no
longer holds, while the power is off). Encryption and MAC are injective
constructors: `BlobOf(w)`, `TagOf(w)`; whether the eFuse block the code names was
burned for the HMAC (`HmacUp`) decides whether they can be computed at all.

### Attestation

`dpc` is where `app_main` stands after the keys are there. `s_nonce` is two
halves: the handler writes one, then the other (`HandleChallenge`,
`HandleChallengeEnd`), and `app_main` copies one, then the other (`CopyNonce`),
so every interleaving of the two loops that leaves a nonce of one challenge, of
two, or of none is there. The broker passes on QoS 1 messages at least once
(`Send`, `Resend`, `PubAck`), per-topic order being kept; a verifier session is
`idle`, `subscribed`, `closing` (a token was seen, `main` has not polled yet) and
`ended`. A session is identified with the 32-byte nonce it draws. `Faults` names
what may go wrong in a run. `presences` is a history variable: when the sensor
went high, with which nonce, under which key, and which sessions were open.
Nonces drawn twice and forged MACs are outside the model.

`PresenceLedger` has none of this: sessions, visits and the log. The mapping takes
`idle` for new, `subscribed` and `closing` for open and the rest for over, a presence for a
visit if it was made under the enrolled key with the nonce of a session that was
open then (`Visits`), and `transactions` for the log. It covers what the invariants
say of one state and adds what they cannot: that the log only grows, by one
entry at a time, and by nothing but such a visit. It does not promise that a visit
is recorded once, because it is not (`attest_replay`).

### DeviceFleet

One boot of each device, with a step for each thing `app_main`, the two event
handlers, the MQTT client's task and the broker do. `station` is `event` between an event
and the handler's `esp_wifi_connect`, `joining` until there is an address. `bits` is both event
groups; as in the code nothing takes back `WIFI_CONNECTED_BIT` or `CONNECTED_BIT`, so `app_main` goes on
with either out of date. The broker keeps one connection for the client id
(`holder`); the client of another finds out (`Disconnected`), pauses for
`Reconnect` and comes back (`Retry`, `Connect`). QoS 1 messages stay in `outbox` until a PUBACK
comes, over any number of connections; `puf_mqtt_disconnect` drops them. A verifier that
listens is a choice made at each `Send`; the broker itself is always there.

Time is in ticks. What takes no time worth counting (`Prompt`) is due (`Busy`)
before `Tick` may happen; within a tick all orders are possible, so a client may
connect, be pushed out and come back any way round. Not in `Prompt` are the operator's and
the visitor's steps, the access point's, and the discovery of a connection broken by the
network, which keep-alive may take any time for. `calm` and `fate` are history
variables: ticks since the access point was last away, and what became of the last message
published. What a nonce or a token is made of is left to `Attestation`.

### CwtToken

One action per step of `puf_attest_build`, each with its buffer and its failure, then
`puf_mqtt_publish_token`'s hex and `on_message`. A number is the sequence of its bytes
without leading zeros, so `iat` keeps its 64 bits; QCBOR's heads are modelled by the rule
for the shortest one. `cbor_decode` is kept with its gap: it knows no 64-bit argument,
returns `None` and skips nothing, so what follows is read out of step. HMAC is opaque: 32 bytes
which tell nothing but the key and the message. The verifier's decoder is recursive; a token and its
payload nest one deep, so `cbor_decode` is written as a list or map of `InnerItem`s, each
beginning where the one before it ends. `UptimesAssumption` says that
`iat` is what microseconds in an `int64_t` leave when they are divided by 1000: seven bytes at most.

## Runs

| run | properties | instance |
|---|---|---|
| `any_fault` | `TypeOK`, `SealedUse`, `EnrolledKeyRecovered`, `VaultSpec`, `Available` | every call may fail, every entry may decay; fairness |
| `no_misread` | `SealImpliesHelper`, `SealIsFinal`, `BrickedForGood` | the same with a flag that is always read back |
| `store_order` | `StoredAfterSeal`, violated | no fault needed |
| `enroll_once` | `EnrollOnce`, violated | one failing `is_enrolled` |
| `bch_small` | `TypeOK`, `NearestCodeword`, `AtMostTFlips`, `LocatorExact`, `MinimumDistance` | M = 6, T = 5, 16 bits of data |
| `bch_full` | `NearestCodeword` | M = 8, T = 20, 112 bits of data |
| `bch_stray` | `FoundOrRefused`, violated | M = 6, T = 5 |
| `attest_faults` | `TypeOK`, `PassMeansPresenceNow`, `NonceComplete`, `GaveUpIsSilent`, `LedgerSpec` | two sessions, two boots with either key, every fault but retransmission |
| `attest_live` | `HeardIsSettled`, `OneSessionPerToken` | two sessions, one boot, one retransmission |
| `attest_replay` | `NoReplay`, violated | one retransmission |
| `fleet` | `TypeOK`, `GivesUpOnlyAfterOutage`, `ReadyGetsThrough`, `HeardReadyIsAnswered`, `TokenLostOnlyOffAir` | two devices, one outage of the access point |
| `token_codec` | `TypeOK`, `VerdictIsRight`, `ClaimsKept`, `FitsBuffers` | both keys, two nonces, 13 uptimes |

Bounds. The lifecycle runs have no counter to bound: boots, crashes and
enrolments go on for ever in a finite state space. Their code has 3 data and 4
parity bits and distance 4, so T = 1 still leaves the four cases a response can
be in: enrolled, near, refused, and miscorrected, to another codeword through an error
located in the parity or to none. Two blocks show one block failing while the other decodes. In
`Attestation`, `MaxBoots` is 2 in `attest_faults`, so that tokens and messages of one boot meet
the next one's; `MaxResends` is 1 in `attest_live`, which is a duplicate (both at once,
with all faults, held as well but is too long to repeat each time; the theorems have no
such bounds); two sessions are what
tearing, a foreign token and two answers to one `ready` take. `CHECK_DEADLOCK
FALSE` there: after the last boot and the last session nothing is left to do.

`BchBlock` has no counter either; what is bounded is the noise. `bch_small` takes all
512 noises of nine data bits, so every weight within and beyond T and locators of every
degree up to T, which reach each root finder and the trace factoring; the noises near the
second enrolled word make the decoder correct to that one; two more have locators of
degree T+1 with as many roots, which only the degree test stops. `bch_full` runs the
program's own parameters on bursts and scattered noise.

`DeviceFleet` has two devices, which is what pushing out and coming back takes, and one
outage, at any moment of either. Its five times are 1, 2, 4, 5 and 6 ticks for 2, 10, 30, 60 and
120 s: the order is kept, and so is that two pauses are shorter than the wait for the nonce, the only
sum the properties depend on; the theorems have any values in that order.
`CwtToken`'s uptimes are on both sides of each width of a CBOR number, up to the
largest `esp_timer_get_time() / 1000`; everything else about a token has a fixed length. The
second nonce has bytes that would be heads of every kind if they were read out of step.

Fairness. `PufLifecycle`: `WF(Run)`, because `app_main` is one task that waits for
nothing on the way to the keys, and `WF(Reboot)`, the operator who restarts a
stopped board; the property is conditional on faults ending and on power-up states within reach of each
other. `DeviceFleet` states none: that what is due happens before the clock goes on is
in `Tick`, and its properties are about what a step may never do. `Attestation`:
`app_main`'s steps other than the PIR wait, the network (the client's task, the
broker) and each verifier session's handlers run; nobody is made to start a
verifier, reset the board or stand before the sensor.

## What came out

* `store_order`: `W` and the flag are committed before the tag, although
  `puf_reconcile.h:15` asks for the opposite. The price is `Bricked`: a power loss
  in between locks the device for good (`BrickedForGood`, proved).
* `enroll_once`: `puf_integrity_enroll` runs a second time on an enrolled
  device after one failing NVS call, against `puf_integrity.h:28`.
* The code uses `HMAC_KEY4` (`puf_kdf.c:9`), README.md:112-117 burns `BLOCK_KEY3`. No run is
  needed for that: a device provisioned so fails every derivation at every boot. `Efuse` says in
  the instances that the block of the code is burned, so no run explores another provisioning.
* The purpose of that key has two accounts as well: `puf_integrity.h:12` and
  `puf_integrity.c:16` have it burned as `HMAC_DOWN_ALL`, while README.md:117-120 burns it as `HMAC_UP`
  and says that `HMAC_DOWN_ALL` misconfigures the device for good. `esp_hmac_calculate`, which the code
  calls, is the upstream one; `HmacUp` follows the README. The code never looks at the purpose.
* `bch_stray`: `bch_decode` may return a number of errors for a word out of reach although
  the locations lead to no codeword (one of them twice), against `bch.c:979`. The keys
  are wrong then, as they would be for another codeword; `ExactRecovery` does not need more.
* No run is needed to see that the code is BCH(255,115), not the BCH(255,119,20) of
  `puf_reconcile.c:12` and README.md:31: with the program's parameters `ecc_bits` is 140.
* `attest_replay`: one token can be logged as two transactions.
* `TokenLostOnlyOffAir` says what is left over: a token published without a connection is
  never sent. The client's pause (10 s) is longer than the delay before it is stopped (2 s,
  `main.c:177`), while `puf_mqtt.c:105` has logged "Token published" by then.
* After "MQTT connect timeout" the client is left running (`puf_mqtt.c:83`). It stays silent
  (`GaveUpIsSilent`) but goes on taking the client id from other devices.
* `main.c:180-181` wipes the token and app_main's copy of the nonce at the regular end only: when
  `puf_attest_build` fails, `main.c:173` jumps past it and neither is wiped.
  `Attestation` keeps it so for the nonce, which is public; the keys are wiped on both ways.
* `ReadyGetsThrough` holds for two devices and not for three: with three, TLC finds an
  order of connections in which two push the third out every time before its `ready` has left, until
  its 120 s are over. For two, the pause of the one that was pushed out is long enough.
* A token whose `iat` needs more than 32 bits, 49.7 days after the boot, is refused with "Nonce
  missing" (`VerdictIsRight`). No session lives to see it: the nonce comes within 210 s of the
  boot and the session ends 300 s after it began.
* README.md:68 calls `iat` an "RTC timestamp (Unix epoch)" and README.md:172 the CBOR
  hand-encoded; the code sends milliseconds since boot and uses QCBOR. The verifier's side is the
  hand-made one.

Everything else stated holds. In particular the integrity check does keep every
mixture of entries that interrupted enrolments leave from being used, and a torn
nonce is harmless: no session accepts it.

## Proofs

For every value of the constants, from the named assumptions of the modules
(`DistAssumption`, `EccDistAssumption`, `CodeAssumption`, `DecodeAssumption`: what a BCH code and
its decoder promise, proved of `bch.c` by `CodecAsAssumed`;
`BchAssumption`, `PrimitiveAssumption`, `BaseAssumption`: what `bch_init` accepts;
`BlockAssumption`: words are data; `SentinelAssumption`: "nothing" is not a value; `PowerupsAssumption`,
`MayDecayAssumption`, `SessionsAssumption`: types):

* `NearIsReconciled`, `ExactRecovery`: unique decoding, from the triangle
  inequality and the minimum distance, through the lemma `UniqueDecoding`; the
  stored parity takes part in it, which is why `Candidates` has both distances.
* `Invariance`: `IInv` is inductive. None of the safety properties is: `SealedUse`
  needs to know that the check of the tag was made on the `W` in the buffer and
  that neither entry has changed since, so `RamInv` places the response and the
  helper data at each `pc`, `CacheInv` says which entry may still be on its way
  to flash, `RtcInv` that the copy is this boot's, and `FlashInv` that everything
  that decrypts was once made from a power-up state. `TypeCorrect`,
  `KeysAreSealed` and `RecoveryIsExact` follow, the last with `ExactRecovery`.
* `SealComesLast`, `SealStaysFinal`, `BrickedStays` assume a flag that is always
  read back (`FlagReliable`), as the run `no_misread` does; without it
  `enroll_once` is the counterexample. `EnrolInv` orders flag and tag: not in
  flash before the commit, there after it.
* `Refinement`: every step of the device is a step of the vault or a stutter,
  under the same invariant.
* `AttestationProofs`: `AInv` is inductive, for any number of sessions, boots and
  retransmissions. `PassMeansPresenceNow` alone is not: a token under way must be known to
  be made for a presence (`TokenInv`), that presence to have had the session open
  (`PresencesKnown`), which holds because the nonce can only come from a session that
  had started (`NonceInv`), through `s_nonce` and the event bit, halves apart; a session
  opens once. `OnePresencePerBoot` then gives `OneSessionPerToken`. The lemma
  `Writers` says which actions write which variable and keeps the leaves small. `StopsSilent`
  has an invariant of its own beside `AInv`: nothing is published before the wait for the nonce, and by `PresencesPast` a client
  left running then (`LeftAlone`) belongs to a boot without a presence; `Refinement` shows `LedgerSpec`: a step
  that logs is a `Record` by `TokenInv`, one that makes a presence a `Visit` or a stutter.
* `DeviceFleetProofs`: for any number of devices, any number of outages and all times in the
  order of `WaitsAssumption`. `FInv` says what a connection is worth (`Connected`: a message
  queued or heard has a connection that lasts) and that a `ready` heard has its answer under way
  or in the bits (`Answered`); `ReadyAnswered` follows. `TInv` adds what time says: because
  `Tick` waits for what is due, a live connection stops it from running down the delay (`TokenDue`), a
  station without an address means an outage, and a first connection that failed failed
  no longer ago than the pause that began then (`Outages`); a wait that has begun to run
  has seen one of these (`Waits`). `OutagesOnly` and `TokenSent` follow. `ReadySent` is for at
  most two devices (with three the property is false): it is about a `ready` that has not left, and how
  long it can have waited. `Held` and `Soon` count that in pauses: the device that pushed the other out holds the
  broker's connection until the other is back, so a device that waits with its `ready` in the
  outbox is either connected, or it, or the one that pushed it out, will be within the
  pause that runs, and no wait for the nonce is that long unless the access point was away.
* `CwtTokenProofs`: for all keys, nonces and uptimes. The lemmas say of each encoder which byte is where
  (`HeadAndBytes`, `HeadOfUptime`, then `ClaimsShape` and `TokenShapeOf`), of each case of `InnerItem`
  what it reads there (`SmallInt`, `SmallString`, `LongString`, `UptimeItem`), and of `cbor_decode` that its items
  begin where they should (`Items`); `DecodeClaims` and `DecodeToken` put them together, with
  `WideClaims` for the 64-bit `iat`, after which the key of the next claim is read from the
  middle of the number: it is 0, never -1, so "Nonce missing" is the only thing that can come of it.
  `StructuresAgree` says that both sides compute the MAC of the same bytes. With `VerifyToken` the
  invariant `CInv`, what each buffer holds at each step, is inductive, and the four properties follow.

* `BchFieldProofs`: the tables of `build_gf_tables` make a field, for every M and primitive polynomial
  the code accepts. Multiplication by X is linear and, the polynomial having a constant term, injective
  (`XInjective`); `PrimitiveAssumption` makes the powers of a distinct, so that there are as many as nonzero
  elements and every one has a logarithm (`PowerSurjective`, by counting). `FieldInduction` goes from a
  power to the next and gives `MulDistributes` and `MulAssociates`.
* `BchCodeProofs`: what each function of `bch.c` returns. `State` bounds the degree of the locator by twice the
  rounds made, so that no round reads a syndrome past the last; `RootsType` bounds the roots found by
  the degree, with one lemma per root finder (`Deg1Type` to `Deg4Type`: the cubic is multiplied by X + a2, which gives it the
  root that is taken out again) and `GcdType`, `DivType`, `FactorType` for the trace factoring, whose
  factors' degrees add up; `ProductMonic` makes the generator monic and the remainders shorter than it.
* The distance of the code, in the same two modules. `BoundOfRoots` (the BCH bound): k weights on k powers of a that
  sum to zero against the first k powers of these are all zero (`Weighted`, by induction on k,
  where a determinant would be the usual argument), so a polynomial over GF(2) that vanishes at
  a .. a^2T has more than 2T terms. `GeneratorVanishes`: g does at the odd ones, whatever class a root
  was first met in. `GeneratorFixed`: squaring the coefficients of g permutes its
  factors, so they are 0 or 1 and `genpoly` is g (`GenpolyValue`); `ValueSquared` gives the even
  powers. `EncodeValue`: at a root of g, the byte loop, its table and its carry have the value of
  the data shifted by `ecc_bits`; so two codewords differ by a polynomial that vanishes at a .. a^2T
  (`DifferingValue`) with as many terms as bits in which they differ (`DifferingSize`), and
  `CodewordDistance` follows.
* The locator polynomial, in `BchCodeProofs`. `Disc` is a coefficient of the product of a polynomial with the
  series 1 + S1 X + S2 X^2 + .. of the errors' power sums. The series is its own square in
  its even terms, so as long as the odd coefficients below are zero, the even ones are those of the
  polynomial itself (`EvenDisc`): that is why the code may look at every other syndrome. `Progress` is
  the invariant of the rounds; its bound, that the degree of `elp` is never above the number of errors,
  is Massey's (`MasseyBound`): by `RootsForced`, which uses the BCH bound again, a polynomial short enough to violate
  it would have had no discrepancy to begin with. After T rounds the 2T coefficients force the
  inverse of every error to be a root, and `RootBound` (no more roots than the degree, by dividing roots out) leaves
  room for nothing else (`LocatorRoots`). `ErrorsValue` connects the syndromes of the two parities' difference, all that
  the decoder looks at, with the errors in the whole codeword.
* `BchBlockProofs`: `Inv` is inductive, `TypeOK` with `Flips`: the flips made and the locations left are at most T together.
  `TypeCorrect` and `FlipsBounded` follow. `Stored`, that the parity kept is that of the enrolled data, is inductive too and gives
  `DistanceKept`, for blocks that `bch_decode` does not refuse for their size (the program's have 252 of 255
  bits); `ErrorsLocated` states the locator's roots for every block decoded (`SameErrors`: the code's count of
  locations and the degrees agree); `OneNearest`: `NearestCodeword` never asks for two different answers.
* The roots of the locator, in `BchCodeProofs` and `BchBlockProofs`. A polynomial `Splits` when it has as many nonzero
  roots as its degree; the locator of a word within reach does, and so does every factor of it (`FactorSplits`). That is the
  hypothesis under which the root finders are proved to list every root once; for other polynomials only types and bounds are.
  Degree 1 to 4: `QuadSolved` (x^2 + x = u by `deg2_base`, from the linearity of the map and `TraceOne`),
  `AffineSolved`, `CubicAffine` (the cubic times X + a2 is affine) and, for the quartic, `QuarticMoved` and `QuarticTurned`,
  the two substitutions of `find_poly_deg4_roots`; `NoDoubleRoot`: where it gives up, the polynomial did not split.
  Above: `DivisionEval` (the dividend is the remainder and the quotient times the monic
  divisor, on arrays sliced as the code slices them); `Euclid`, the invariant of `gf_poly_gcd`, keeps
  the common roots and, by its cofactors (`Combined`), the degree in step with their number; `TraceAt` says that `compute_trace_bk_mod`
  has at each root the trace of a^k times it, which is 0 or 1 (`TrBinary`), so a factoring splits the roots by it (`FactorSplit`).
  After M traces two roots that were never separated are the same (`TracesApart`: the conjugates of their sum, as weights on
  M powers of a, are zero by the `WeightsVanish` of the BCH bound), so what is left has degree 1 (`AgreeAll`) and `RootsListed` follows by induction on the k of
  `find_poly_roots`.
* `CodecAsAssumed` and `NearestFound`, in `BchBlockProofs`. The roots become bits of data (`PlacedBits`, `Decoded`); `Flipped` is
  what a list of locations changes in the end, with repetitions, and `Outcome` the function from response and stored parity that `FuzzyExtractor` calls
  `Decode`. `Outcomes` is inductive: at each round of the loop the data corrected so far and the locations
  left make the outcome (`FlippedTail`). `BlockOutcome` is that invariant, and `NearestFound` it with `OutcomeNear`.

Only model-checked: `Available` and `HeardIsSettled` (liveness), and the violated properties.

## Not modelled

* `tools/verifier.py` speaks a serial protocol the firmware no longer has.
* `puf_mfrc522.c` is not built. `sdkconfig` and the partition table are
  configuration.
* A broker that is down or refuses while the access point is up: in `DeviceFleet` a client whose station has
  an address connects at once, so `GivesUpOnlyAfterOutage` and `ReadyGetsThrough` are about
  outages of the access point and about other devices. `Attestation` has lost connections of any cause.
* Timing is in `DeviceFleet` alone; in `Attestation` the limits of 30 s, 60 s and 120 s, and the
  verifier's 300 s everywhere, are "may run out".
* Running out of memory in the set-up calls of `puf_wifi.c` and `puf_mqtt.c`, which abort.
* The order of `iat` over boots: nothing in the code compares two.
* Zeroing of keys and tokens on the stack, logging, and the strength of the
  primitives.

## Plan

In this order; each step is a module with its instance, properties and, where
marked *, theorems.

1. `FuzzyExtractor`, `PufLifecycle`, `HelperVault` and proofs*: done.
2. `Attestation`, its runs and proofs*: done.
3. `BchCode`, `BchBlock`, their runs and proofs*: done, `NearestCodeword` and the assumptions of
   `FuzzyExtractor` included.
4. `PresenceLedger` and `Attestation` shown to implement it*: done.
5. `DeviceFleet`, its run and proofs*: done.
6. `CwtToken`, its run and proofs*: done.
