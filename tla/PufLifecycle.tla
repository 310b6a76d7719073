----------------------------- MODULE PufLifecycle -----------------------------
(***************************************************************************)
(* One device from power-up to the end of app_main, over any number of     *)
(* boots: the bootloader hook, the enrolment and reconstruction branches   *)
(* of main.c with the calls they make to puf_integrity.c, puf_wenc.c,      *)
(* puf_kdf.c and puf_reconcile.c, and the NVS partition they share.        *)
(*                                                                         *)
(* pc names the call app_main is about to make.  A call that fails goes to *)
(* cleanup; power may be lost, and the chip may reset, between any two     *)
(* steps.  What happens between "ready" and cleanup (network, nonce, PIR,  *)
(* token) does not touch the state kept here.                              *)
(***************************************************************************)
EXTENDS FuzzyExtractor

CONSTANTS
  None,      \* nothing stored, a zeroed buffer
  Garbage,   \* flash contents that no longer pass a CRC or an authentication
  Powerups,  \* what RTC slow memory may hold after a cold power-up
  Efuse,     \* Efuse[k]: the purpose burned with eFuse key block k
  MayFail,   \* the calls that may return an error of the hardware or library
  MayDecay   \* the NVS entries that may go bad while the device is off

HMAC_KEY_ID == "HMAC_KEY4"

NvsKeys == {"helper_w", "enrolled", "hmac_tag"}

\* psa_aead_encrypt and psa_mac_compute under the keys HKDF derives from the
\* eFuse secret: without the key of that label neither can be produced.
BlobOf(w) == [label |-> "W_ENCRYPT_V1", plain |-> w]
TagOf(w) == [label |-> "INTEGRITY_V1", message |-> w]

Blobs == [label : {"W_ENCRYPT_V1"}, plain : Helpers]
Tags == [label : {"INTEGRITY_V1"}, message : Helpers]
Keys == [enc : {"KENC_V1"} \X Responses, auth : {"KAUTH_V1"} \X Responses]
PCs == {"off", "bootloader_before_init", "nvs_flash_init", "puf_capture_sram",
        "is_enrolled", "puf_reconcile_enroll", "puf_wenc_encrypt",
        "nvs_set_W", "nvs_set_enrolled", "nvs_commit_W", "hmac_compute",
        "nvs_set_tag", "nvs_commit_tag", "enrolled", "nvs_read_W",
        "puf_integrity_verify", "puf_reconcile_reconstruct", "ready",
        "cleanup", "done", "locked"}

\* The calls whose failure app_main handles by going to cleanup.
Fallible == {"puf_reconcile_enroll", "puf_wenc_encrypt", "nvs_set_W",
             "nvs_set_enrolled", "nvs_commit_W", "hmac_compute", "nvs_set_tag",
             "nvs_commit_tag", "nvs_read_W", "puf_integrity_verify",
             "puf_reconcile_reconstruct"}

ASSUME SentinelAssumption ==
  /\ None # Garbage
  /\ None \notin Blobs \cup Tags \cup Helpers \cup Responses \cup Keys \cup {1}
  /\ Garbage \notin Blobs \cup Tags \cup Helpers \cup {1}

ASSUME PowerupsAssumption == Powerups \subseteq Responses

ASSUME MayDecayAssumption == MayDecay \subseteq NvsKeys

VARIABLES
  pc,       \* the call to be made next
  flash,    \* the NVS partition: the value of each entry, or None
  cache,    \* values set through an open NVS handle and not yet in flash
  rtc_src,  \* RTC slow memory at 0x50000400: the power-up state
  rtc_dst,  \* RTC slow memory at 0x50000200: the copy the application reads
  R, W, K   \* app_main's buffers: response, helper data, K_enc and K_auth

rtc == <<rtc_src, rtc_dst>>
ram == <<R, W, K>>
vars == <<pc, flash, cache, rtc_src, rtc_dst, R, W, K>>

Empty == [k \in NvsKeys |-> None]

Init ==
  /\ pc = "off"
  /\ flash = Empty
  /\ cache = Empty
  /\ rtc_src = None /\ rtc_dst = None
  /\ R = None /\ W = None /\ K = None

-----------------------------------------------------------------------------
\* Boot

\* Cold start: both halves of RTC slow memory come up with contents of their
\* own.
PowerOn ==
  /\ pc = "off"
  /\ rtc_src' \in Powerups
  /\ rtc_dst' \in Powerups
  /\ pc' = "bootloader_before_init"
  /\ UNCHANGED <<flash, cache, R, W, K>>

\* Mutant: the linker has dropped the hook (BOOTLOADER_EXTRA_COMPONENT_DIRS
\* declared too late), nothing is copied.
BootloaderStripped ==
  /\ pc = "bootloader_before_init"
  /\ pc' = "nvs_flash_init"
  /\ UNCHANGED <<flash, cache, rtc, ram>>

\* The hook copies 256 bytes from offset 0x400 to 0x200.
Bootloader ==
  /\ pc = "bootloader_before_init"
  /\ rtc_dst' = rtc_src
  /\ pc' = "nvs_flash_init"
  /\ UNCHANGED <<flash, cache, rtc_src, R, W, K>>

NvsFlashInit ==
  /\ pc = "nvs_flash_init"
  /\ pc' = "puf_capture_sram"
  /\ UNCHANGED <<flash, cache, rtc, ram>>

CaptureSram ==
  /\ pc = "puf_capture_sram"
  /\ R' = rtc_dst
  /\ pc' = "is_enrolled"
  /\ UNCHANGED <<flash, cache, rtc, W, K>>

\* Mutant: a helper data that does not decrypt counts as "not enrolled".
IsEnrolledHeals ==
  /\ pc = "is_enrolled"
  /\ pc' = IF flash["enrolled"] = 1 /\ flash["helper_w"] \in Blobs
             THEN "nvs_read_W" ELSE "puf_reconcile_enroll"
  /\ UNCHANGED <<flash, cache, rtc, ram>>

IsEnrolled ==
  /\ pc = "is_enrolled"
  /\ pc' = IF flash["enrolled"] = 1 THEN "nvs_read_W" ELSE "puf_reconcile_enroll"
  /\ UNCHANGED <<flash, cache, rtc, ram>>

-----------------------------------------------------------------------------
\* Enrolment

ReconcileEnroll ==
  /\ pc = "puf_reconcile_enroll"
  /\ W' = HelperOf(R)
  /\ pc' = "puf_wenc_encrypt"
  /\ UNCHANGED <<flash, cache, rtc, R, K>>

\* esp_hmac_calculate uses only a key block burned for the upstream mode.
HmacUp == Efuse[HMAC_KEY_ID] = "HMAC_UP"

WencEncrypt ==
  /\ pc = "puf_wenc_encrypt"
  /\ pc' = IF HmacUp THEN "nvs_set_W" ELSE "cleanup"
  /\ UNCHANGED <<flash, cache, rtc, ram>>

\* nvs_set_*: the value may reach the flash at any time from now on, and need
\* not before nvs_commit.
NvsSet(k, v) ==
  /\ cache' = [cache EXCEPT ![k] = v]
  /\ UNCHANGED <<flash, rtc, ram>>

SetW ==
  /\ pc = "nvs_set_W"
  /\ NvsSet("helper_w", BlobOf(W))
  /\ pc' = "nvs_set_enrolled"

\* Mutant: the flag is left to a later boot.
SetEnrolledSkipped ==
  /\ pc = "nvs_set_enrolled"
  /\ pc' = "nvs_commit_W"
  /\ UNCHANGED <<flash, cache, rtc, ram>>

SetEnrolled ==
  /\ pc = "nvs_set_enrolled"
  /\ NvsSet("enrolled", 1)
  /\ pc' = "nvs_commit_W"

\* Mutant: no nvs_commit, the values set reach the flash when they do.
CommitWMissing ==
  /\ pc = "nvs_commit_W"
  /\ pc' = "hmac_compute"
  /\ UNCHANGED <<flash, cache, rtc, ram>>

\* nvs_commit returns ESP_OK once everything set is in flash.
CommitW ==
  /\ pc = "nvs_commit_W"
  /\ cache = Empty
  /\ pc' = "hmac_compute"
  /\ UNCHANGED <<flash, cache, rtc, ram>>

HmacCompute ==
  /\ pc = "hmac_compute"
  /\ pc' = IF HmacUp THEN "nvs_set_tag" ELSE "cleanup"
  /\ UNCHANGED <<flash, cache, rtc, ram>>

SetTag ==
  /\ pc = "nvs_set_tag"
  /\ NvsSet("hmac_tag", TagOf(W))
  /\ pc' = "nvs_commit_tag"

CommitTag ==
  /\ pc = "nvs_commit_tag"
  /\ cache = Empty
  /\ pc' = "enrolled"
  /\ UNCHANGED <<flash, cache, rtc, ram>>

EnrollDone ==
  /\ pc = "enrolled"
  /\ pc' = "cleanup"
  /\ UNCHANGED <<flash, cache, rtc, ram>>

NvsFlush(k) ==
  /\ cache[k] # None
  /\ flash' = [flash EXCEPT ![k] = cache[k]]
  /\ cache' = [cache EXCEPT ![k] = None]
  /\ UNCHANGED <<pc, rtc, ram>>

-----------------------------------------------------------------------------
\* Reconstruction

\* Mutant: the blob is used without checking that it decrypted.
ReadWUnchecked ==
  /\ pc = "nvs_read_W"
  /\ W' = IF flash["helper_w"] \in Blobs THEN flash["helper_w"].plain
          ELSE flash["helper_w"]
  /\ pc' = "puf_integrity_verify"
  /\ UNCHANGED <<flash, cache, rtc, R, K>>

\* nvs_get_blob, then puf_wenc_decrypt: only a blob sealed with this device's
\* key passes the GCM tag.
ReadW ==
  /\ pc = "nvs_read_W"
  /\ \/ /\ HmacUp /\ flash["helper_w"] \in Blobs
        /\ W' = flash["helper_w"].plain
        /\ pc' = "puf_integrity_verify"
     \/ /\ ~(HmacUp /\ flash["helper_w"] \in Blobs)
        /\ pc' = "cleanup"
        /\ W' = W
  /\ UNCHANGED <<flash, cache, rtc, R, K>>

\* Mutant: a missing tag is let through, as on a device of an older release.
IntegrityVerifyLenient ==
  /\ pc = "puf_integrity_verify"
  /\ pc' = IF HmacUp /\ flash["hmac_tag"] \in {TagOf(W), None}
             THEN "puf_reconcile_reconstruct" ELSE "cleanup"
  /\ UNCHANGED <<flash, cache, rtc, ram>>

\* Mutant: a failed check starts a new enrolment.
IntegrityVerifyReenrolls ==
  /\ pc = "puf_integrity_verify"
  /\ pc' = IF HmacUp /\ flash["hmac_tag"] = TagOf(W)
             THEN "puf_reconcile_reconstruct" ELSE "puf_reconcile_enroll"
  /\ UNCHANGED <<flash, cache, rtc, ram>>

IntegrityVerify ==
  /\ pc = "puf_integrity_verify"
  /\ pc' = IF HmacUp /\ flash["hmac_tag"] = TagOf(W)
             THEN "puf_reconcile_reconstruct" ELSE "cleanup"
  /\ UNCHANGED <<flash, cache, rtc, ram>>

Reconstruct ==
  /\ pc = "puf_reconcile_reconstruct"
  /\ \/ /\ Reconcilable(R, W)
        /\ K' = DeriveKeys(CodewordOf(R, W))
        /\ pc' = "ready"
     \/ /\ ~Reconcilable(R, W)
        /\ pc' = "cleanup"
        /\ K' = K
  /\ UNCHANGED <<flash, cache, rtc, R, W>>

\* The network part of app_main: it ends in cleanup, or waits for ever for the
\* PIR sensor.
Attest ==
  /\ pc = "ready"
  /\ pc' = "cleanup"
  /\ UNCHANGED <<flash, cache, rtc, ram>>

Cleanup ==
  /\ pc = "cleanup"
  /\ pc' = "done"
  /\ R' = None /\ W' = None /\ K' = None
  /\ UNCHANGED <<flash, cache, rtc>>

-----------------------------------------------------------------------------
\* Failures

\* A call returns false: app_main goes to cleanup, and nvs_close drops what an
\* error left uncommitted.  A failing nvs_flash_init ends in a loop for ever.
CallFails ==
  /\ pc \in MayFail
  /\ \/ pc = "nvs_flash_init" /\ pc' = "locked"
     \/ pc \in Fallible /\ pc' = "cleanup"
  /\ cache' = Empty
  /\ UNCHANGED <<flash, rtc, ram>>

\* is_enrolled reports every error of nvs_open and nvs_get_u8 as "not
\* enrolled".
Misread ==
  /\ pc = "is_enrolled" /\ pc \in MayFail
  /\ pc' = "puf_reconcile_enroll"
  /\ UNCHANGED <<flash, cache, rtc, ram>>

Restart(p) ==
  /\ pc' = p
  /\ cache' = Empty
  /\ R' = None /\ W' = None /\ K' = None
  /\ UNCHANGED <<flash, rtc>>

\* Power is lost, or a panic or a brown-out resets the chip; RTC slow memory
\* survives the latter.
Crash ==
  /\ pc \notin {"off", "done", "locked"}
  /\ \/ Restart("off")
     \/ pc # "bootloader_before_init" /\ Restart("bootloader_before_init")

\* app_main has returned, or hangs: someone power-cycles or resets the board.
Reboot ==
  /\ pc \in {"done", "locked"}
  /\ Restart("off") \/ Restart("bootloader_before_init")

Decay(k) ==
  /\ pc = "off"
  /\ k \in MayDecay
  /\ flash[k] \notin {None, Garbage}
  /\ flash' = [flash EXCEPT ![k] = Garbage]
  /\ UNCHANGED <<pc, cache, rtc, ram>>

-----------------------------------------------------------------------------
\* app_main up to the keys: nothing in it waits for the outside.
Run ==
  \/ PowerOn \/ Bootloader \/ NvsFlashInit \/ CaptureSram \/ IsEnrolled
  \/ ReconcileEnroll \/ WencEncrypt \/ SetW \/ SetEnrolled \/ CommitW
  \/ HmacCompute \/ SetTag \/ CommitTag \/ EnrollDone
  \/ ReadW \/ IntegrityVerify \/ Reconstruct \/ Cleanup
  \/ \E k \in NvsKeys : NvsFlush(k)

Fault ==
  \/ CallFails \/ Misread \/ Crash
  \/ \E k \in NvsKeys : Decay(k)

Next == Run \/ Attest \/ Reboot \/ Fault

Spec == Init /\ [][Next]_vars

\* The single task runs, an operator restarts a board that has stopped.
\* Nothing makes the wait for the PIR sensor end.
FairSpec == Spec /\ WF_vars(Run) /\ WF_vars(Reboot)

-----------------------------------------------------------------------------
\* Properties

\* Every variable holds what its buffer or NVS entry can hold.
TypeOK ==
  /\ pc \in PCs
  /\ flash = [k \in NvsKeys |-> flash[k]]
  /\ flash["helper_w"] \in Blobs \cup {None, Garbage}
  /\ flash["enrolled"] \in {1, None, Garbage}
  /\ flash["hmac_tag"] \in Tags \cup {None, Garbage}
  /\ cache = [k \in NvsKeys |-> cache[k]]
  /\ cache["helper_w"] \in Blobs \cup {None}
  /\ cache["enrolled"] \in {1, None}
  /\ cache["hmac_tag"] \in Tags \cup {None}
  /\ rtc_src \in Powerups \cup {None}
  /\ rtc_dst \in Powerups \cup {None}
  /\ R \in Powerups \cup {None}
  /\ W \in Helpers \cup {None}
  /\ K \in Keys \cup {None}

\* Keys exist only next to a helper data that is in flash and carries its own
\* tag there, and they are the ones this boot's response and that helper data
\* give: "no bypass, no fallback" (puf_integrity.h), through every failing
\* call, crash and bad flash entry.
SealedUse ==
  K # None =>
    /\ flash["helper_w"] = BlobOf(W)
    /\ flash["hmac_tag"] = TagOf(W)
    /\ K = DeriveKeys(CodewordOf(R, W))

\* A boot that gets as far as the keys has the enrolled ones exactly when the
\* state RTC memory powered up in is within the code's reach of the enrolled
\* one in every block: the hook, the copy in RTC memory, the capture and the
\* decoder agree on one response.
EnrolledKeyRecovered ==
  pc = "ready" => (K = DeriveKeys(Enrolled(W)) <=> Near(rtc_src, W))

\* The tag reaches the flash last: whatever was interrupted on the way, a
\* device that has one has the helper data it belongs to and the flag.  Needs
\* an is_enrolled that never fails.
SealImpliesHelper ==
  \A w \in Helpers :
    flash["hmac_tag"] = TagOf(w) =>
      /\ flash["enrolled"] = 1
      /\ flash["helper_w"] \in {BlobOf(w), Garbage}

\* Once the tag is in flash no later boot writes another identity over it.
\* Needs an is_enrolled that never fails.
SealIsFinal ==
  [][flash["hmac_tag"] # None =>
       \A k \in NvsKeys : flash'[k] \in {flash[k], Garbage}]_vars

Sealed ==
  /\ flash["helper_w"] \in Blobs
  /\ flash["hmac_tag"] = TagOf(flash["helper_w"].plain)

\* The flag is in flash, a matching tag is not, and no call that would write
\* one is under way.
Bricked ==
  /\ flash["enrolled"] = 1
  /\ ~Sealed
  /\ pc \notin {"nvs_set_W", "nvs_set_enrolled", "nvs_commit_W", "hmac_compute",
                 "nvs_set_tag", "nvs_commit_tag"}

\* A device interrupted between the commit of the flag and that of the tag
\* never leaves that state by itself: every later boot goes to the
\* reconstruction branch and fails there.  Needs an is_enrolled that never
\* fails.
BrickedForGood ==
  [][Bricked => Bricked' /\ K' = None]_vars

FaultsStop == <>[][Run \/ Attest \/ Reboot]_vars

\* The power-up state is within reach of the enrolled one.
InReach == \A w \in Helpers :
  flash["helper_w"] = BlobOf(w) /\ rtc_src # None => Near(rtc_src, w)

\* Once calls have stopped failing, power stays on and power-up states stay
\* within reach of what is enrolled, either an interrupted enrolment or a bad
\* entry has locked the device for good, or it keeps reaching its keys,
\* whatever happened before.
Available == FaultsStop /\ <>[]InReach => <>[]Bricked \/ []<>(pc = "ready")

\* "W is public - store in NVS after calling puf_integrity_enroll(W)"
\* (puf_reconcile.h:15): the tag is there before the helper data is.
StoredAfterSeal == flash["helper_w"] # None => flash["hmac_tag"] # None

\* "Call once at factory provisioning only." (puf_integrity.h:28): with a tag
\* in flash puf_integrity_enroll does not run again.
EnrollOnce == flash["hmac_tag"] # None => pc # "hmac_compute"

-----------------------------------------------------------------------------
\* Refinement: the vault's helper data is the blob without its encryption, its
\* seal the helper data the tag was computed over.
Vault == INSTANCE HelperVault WITH
  helper <- IF flash["helper_w"] \in Blobs
              THEN flash["helper_w"].plain ELSE flash["helper_w"],
  seal <- IF flash["hmac_tag"] \in Tags
            THEN flash["hmac_tag"].message ELSE flash["hmac_tag"],
  key <- K

\* The device does what the vault does: a seal only ever goes on the helper
\* data in store, keys only come from a sealed one.
VaultSpec == Vault!Spec
=============================================================================
