-------------------------- MODULE PufLifecycleProofs --------------------------
(***************************************************************************)
(* Theorems about PufLifecycle, for every code, every set of power-up      *)
(* states and every choice of failing calls and decaying entries.          *)
(*                                                                         *)
(* IInv says where the one response, the one helper data and its tag are   *)
(* at each point of app_main: in a buffer, in the NVS cache, in flash.     *)
(* EnrolInv adds the order of flag and tag, which needs a flag that is     *)
(* always read back.                                                       *)
(***************************************************************************)
EXTENDS PufLifecycle, FuzzyExtractorProofs

\* Where app_main stands.
BeforeCapture == {"off", "bootloader_before_init", "nvs_flash_init",
                  "puf_capture_sram", "locked"}
HelperMade == {"puf_wenc_encrypt", "nvs_set_W", "nvs_set_enrolled",
               "nvs_commit_W", "hmac_compute", "nvs_set_tag",
               "nvs_commit_tag", "enrolled"}
HelperSet == {"nvs_set_enrolled", "nvs_commit_W"}
HelperInFlash == {"hmac_compute", "nvs_set_tag", "nvs_commit_tag", "enrolled",
                  "puf_integrity_verify", "puf_reconcile_reconstruct", "ready"}

\* What an enrolment can have made.
Genuine == {HelperOf(r) : r \in Powerups}

\* The application reads the response the chip powered up with.
RtcInv ==
  /\ pc # "off" => rtc_src \in Powerups
  /\ pc \notin {"off", "bootloader_before_init"} => rtc_dst = rtc_src

\* R is this boot's response; W is the helper data just made or the one in
\* flash, checked against its tag before it is used; K exists only afterwards.
RamInv ==
  /\ R = IF pc \in BeforeCapture \cup {"done"} THEN None ELSE rtc_src
  /\ pc \in HelperMade => W = HelperOf(R)
  /\ pc \in HelperInFlash => W \in Genuine /\ flash["helper_w"] = BlobOf(W)
  /\ pc \in {"puf_reconcile_reconstruct", "ready"} => flash["hmac_tag"] = TagOf(W)
  /\ pc = "ready" => K # None /\ Reconcilable(R, W)
  /\ K # None => pc \in {"ready", "cleanup"} /\ W \in Helpers

\* Only the enrolment under way has uncommitted values.
CacheInv ==
  /\ cache["helper_w"] # None => pc \in HelperSet /\ cache["helper_w"] = BlobOf(W)
  /\ cache["enrolled"] # None => pc = "nvs_commit_W"
  /\ cache["hmac_tag"] # None => pc = "nvs_commit_tag" /\ cache["hmac_tag"] = TagOf(W)
  /\ pc \in HelperSet => \/ cache["helper_w"] = BlobOf(W)
                         \/ flash["helper_w"] = BlobOf(W)

\* Every helper data that decrypts was made by an enrolment.
FlashInv == flash["helper_w"] \in Blobs => flash["helper_w"].plain \in Genuine

IInv == TypeOK /\ RtcInv /\ RamInv /\ CacheInv /\ FlashInv /\ SealedUse

-----------------------------------------------------------------------------
LEMMA BlobType ==
  ASSUME NEW w \in Helpers
  PROVE  /\ BlobOf(w) \in Blobs /\ BlobOf(w).plain = w /\ BlobOf(w) # None
         /\ TagOf(w) \in Tags /\ TagOf(w).message = w /\ TagOf(w) # None
BY SentinelAssumption DEF BlobOf, Blobs, TagOf, Tags

LEMMA BlobPlain ==
  ASSUME NEW b \in Blobs
  PROVE  b.plain \in Helpers /\ b = BlobOf(b.plain)
BY DEF BlobOf, Blobs

LEMMA KeysType ==
  ASSUME NEW r \in Responses, NEW w \in Helpers, Reconcilable(r, w)
  PROVE  DeriveKeys(CodewordOf(r, w)) \in Keys /\ DeriveKeys(CodewordOf(r, w)) # None
<1>1. ASSUME NEW b \in Blocks PROVE Corrected(r[b], w[b].ecc) \in Data
  BY CorrectedType DEF Reconcilable, Responses, Helpers
<1>2. CodewordOf(r, w) \in Responses
  BY <1>1 DEF CodewordOf, Responses
<1> QED  BY <1>2, SentinelAssumption DEF DeriveKeys, Keys

LEMMA InitIInv == Init => IInv
BY SentinelAssumption
   DEF Init, IInv, TypeOK, RtcInv, RamInv, CacheInv, FlashInv, SealedUse, PCs,
       NvsKeys, Empty, BeforeCapture, HelperMade, HelperSet, HelperInFlash

LEMMA NextIInv == IInv /\ [Next]_vars => IInv'
<1> SUFFICES ASSUME IInv, [Next]_vars PROVE IInv'
  OBVIOUS
<1> USE DEF IInv, PCs, BeforeCapture, HelperMade, HelperSet, HelperInFlash, rtc, ram
<1>1. CASE PowerOn
  BY <1>1, SentinelAssumption DEF PowerOn, TypeOK, RtcInv, RamInv, CacheInv, FlashInv, SealedUse
<1>2. CASE Bootloader
  BY <1>2, SentinelAssumption DEF Bootloader, TypeOK, RtcInv, RamInv, CacheInv, FlashInv, SealedUse
<1>3. CASE NvsFlashInit
  BY <1>3, SentinelAssumption DEF NvsFlashInit, TypeOK, RtcInv, RamInv, CacheInv, FlashInv, SealedUse
<1>4. CASE CaptureSram
  BY <1>4, SentinelAssumption DEF CaptureSram, TypeOK, RtcInv, RamInv, CacheInv, FlashInv, SealedUse
<1>5. CASE IsEnrolled
  BY <1>5, SentinelAssumption DEF IsEnrolled, TypeOK, RtcInv, RamInv, CacheInv, FlashInv, SealedUse
<1>6. CASE ReconcileEnroll
  BY <1>6, SentinelAssumption, PowerupsAssumption, HelperType DEF ReconcileEnroll, TypeOK, RtcInv, RamInv, CacheInv, FlashInv, SealedUse
<1>7. CASE WencEncrypt
  BY <1>7, SentinelAssumption DEF WencEncrypt, TypeOK, RtcInv, RamInv, CacheInv, FlashInv, SealedUse
<1>8. CASE SetW
  <2>1. W \in Helpers /\ W = HelperOf(R)
    BY <1>8, PowerupsAssumption, HelperType DEF SetW, RtcInv, RamInv
  <2>2. /\ cache'["helper_w"] = BlobOf(W)
        /\ \A k \in NvsKeys \ {"helper_w"} : cache'[k] = cache[k]
        /\ cache' = [k \in NvsKeys |-> cache'[k]]
    BY <1>8 DEF SetW, NvsSet, TypeOK, NvsKeys
  <2>3. TypeOK'
    BY <1>8, <2>1, <2>2, BlobType DEF SetW, NvsSet, TypeOK, NvsKeys
  <2>4. RtcInv' /\ RamInv' /\ FlashInv' /\ SealedUse'
    BY <1>8 DEF SetW, NvsSet, RtcInv, RamInv, FlashInv, SealedUse
  <2>5. CacheInv'
    BY <1>8, <2>2 DEF SetW, NvsSet, CacheInv, NvsKeys
  <2> QED  BY <2>3, <2>4, <2>5
<1>9. CASE SetEnrolled
  <2>1. /\ cache'["enrolled"] = 1
        /\ \A k \in NvsKeys \ {"enrolled"} : cache'[k] = cache[k]
        /\ cache' = [k \in NvsKeys |-> cache'[k]]
    BY <1>9 DEF SetEnrolled, NvsSet, TypeOK, NvsKeys
  <2>2. TypeOK'
    BY <1>9, <2>1 DEF SetEnrolled, NvsSet, TypeOK, NvsKeys
  <2>3. RtcInv' /\ RamInv' /\ FlashInv' /\ SealedUse'
    BY <1>9 DEF SetEnrolled, NvsSet, RtcInv, RamInv, FlashInv, SealedUse
  <2>4. CacheInv'
    BY <1>9, <2>1 DEF SetEnrolled, NvsSet, CacheInv, NvsKeys
  <2> QED  BY <2>2, <2>3, <2>4
<1>10. CASE CommitW
  <2>1. cache["helper_w"] = None /\ flash["helper_w"] = BlobOf(W)
    BY <1>10, SentinelAssumption, BlobType, PowerupsAssumption, HelperType
       DEF CommitW, Empty, NvsKeys, CacheInv, RamInv, RtcInv
  <2>2. W \in Genuine
    BY <1>10 DEF CommitW, RamInv, RtcInv, Genuine
  <2>3. RamInv'
    BY <1>10, <2>1, <2>2 DEF CommitW, RamInv
  <2>4. TypeOK' /\ RtcInv' /\ CacheInv' /\ FlashInv' /\ SealedUse'
    BY <1>10 DEF CommitW, TypeOK, RtcInv, CacheInv, FlashInv, SealedUse, Empty, NvsKeys
  <2> QED  BY <2>3, <2>4
<1>11. CASE HmacCompute
  BY <1>11, SentinelAssumption DEF HmacCompute, TypeOK, RtcInv, RamInv, CacheInv, FlashInv, SealedUse
<1>12. CASE SetTag
  <2>1. W \in Helpers
    BY <1>12, PowerupsAssumption, HelperType DEF SetTag, RtcInv, RamInv
  <2>2. /\ cache'["hmac_tag"] = TagOf(W)
        /\ \A k \in NvsKeys \ {"hmac_tag"} : cache'[k] = cache[k]
        /\ cache' = [k \in NvsKeys |-> cache'[k]]
    BY <1>12 DEF SetTag, NvsSet, TypeOK, NvsKeys
  <2>3. TypeOK'
    BY <1>12, <2>1, <2>2, BlobType DEF SetTag, NvsSet, TypeOK, NvsKeys
  <2>4. RtcInv' /\ RamInv' /\ FlashInv' /\ SealedUse'
    BY <1>12 DEF SetTag, NvsSet, RtcInv, RamInv, FlashInv, SealedUse
  <2>5. CacheInv'
    BY <1>12, <2>2 DEF SetTag, NvsSet, CacheInv, NvsKeys
  <2> QED  BY <2>3, <2>4, <2>5
<1>13. CASE CommitTag
  BY <1>13, SentinelAssumption
     DEF CommitTag, Empty, NvsKeys, TypeOK, RtcInv, RamInv, CacheInv, FlashInv, SealedUse
<1>14. CASE EnrollDone
  BY <1>14, SentinelAssumption DEF EnrollDone, TypeOK, RtcInv, RamInv, CacheInv, FlashInv, SealedUse
<1>15. CASE ReadW
  <2>1. CASE HmacUp /\ flash["helper_w"] \in Blobs
    <3>1. /\ W' = flash["helper_w"].plain /\ pc' = "puf_integrity_verify"
          /\ pc = "nvs_read_W"
          /\ UNCHANGED <<flash, cache, rtc, R, K>>
      BY <1>15, <2>1 DEF ReadW
    <3>2. W' \in Helpers /\ W' \in Genuine /\ flash["helper_w"] = BlobOf(W')
      BY <2>1, <3>1, BlobPlain DEF FlashInv
    <3>3. K = None /\ K' = None
      BY <3>1 DEF RamInv
    <3>4. TypeOK' /\ RtcInv' /\ FlashInv' /\ SealedUse'
      BY <3>1, <3>2, <3>3 DEF TypeOK, RtcInv, FlashInv, SealedUse
    <3>5. RamInv'
      BY <3>1, <3>2, <3>3 DEF RamInv
    <3>6. CacheInv'
      BY <3>1 DEF CacheInv
    <3> QED  BY <3>4, <3>5, <3>6
  <2>2. CASE ~(HmacUp /\ flash["helper_w"] \in Blobs)
    BY <1>15, <2>2, SentinelAssumption
       DEF ReadW, TypeOK, RtcInv, RamInv, CacheInv, FlashInv, SealedUse
  <2> QED  BY <2>1, <2>2
<1>16. CASE IntegrityVerify
  BY <1>16, SentinelAssumption
     DEF IntegrityVerify, TypeOK, RtcInv, RamInv, CacheInv, FlashInv, SealedUse
<1>17. CASE Reconstruct
  <2>1. CASE Reconcilable(R, W)
    <3>1. /\ K' = DeriveKeys(CodewordOf(R, W)) /\ pc' = "ready"
          /\ pc = "puf_reconcile_reconstruct"
          /\ UNCHANGED <<flash, cache, rtc, R, W>>
      BY <1>17, <2>1 DEF Reconstruct
    <3>2. W \in Helpers
      BY <3>1, HelperType, PowerupsAssumption DEF RamInv, Genuine
    <3>r. R \in Responses
      BY <3>1, PowerupsAssumption DEF RtcInv, RamInv, BeforeCapture
    <3>3. K' \in Keys /\ K' # None
      BY <2>1, <3>1, <3>2, <3>r, KeysType
    <3>4. TypeOK' /\ RtcInv' /\ CacheInv' /\ FlashInv'
      BY <3>1, <3>3 DEF TypeOK, RtcInv, CacheInv, FlashInv
    <3>5. RamInv'
      <4>1. Reconcilable(R', W')
        BY <2>1, <3>1
      <4> QED  BY <3>1, <3>2, <3>3, <4>1 DEF RamInv
    <3>6. SealedUse'
      BY <3>1 DEF SealedUse, RamInv
    <3> QED  BY <3>4, <3>5, <3>6
  <2>2. CASE ~Reconcilable(R, W)
    BY <1>17, <2>2, SentinelAssumption
       DEF Reconstruct, TypeOK, RtcInv, RamInv, CacheInv, FlashInv, SealedUse
  <2> QED  BY <2>1, <2>2
<1>18. CASE Cleanup
  BY <1>18, SentinelAssumption DEF Cleanup, TypeOK, RtcInv, RamInv, CacheInv, FlashInv, SealedUse
<1>19. CASE \E k \in NvsKeys : NvsFlush(k)
  <2>1. PICK k \in NvsKeys : NvsFlush(k)
    BY <1>19
  <2>2. /\ flash'[k] = cache[k] /\ cache'[k] = None
        /\ \A j \in NvsKeys \ {k} : flash'[j] = flash[j] /\ cache'[j] = cache[j]
        /\ flash' = [j \in NvsKeys |-> flash'[j]]
        /\ cache' = [j \in NvsKeys |-> cache'[j]]
    BY <2>1 DEF NvsFlush, TypeOK
  <2>3. UNCHANGED <<pc, rtc, ram>> /\ cache[k] # None
    BY <2>1 DEF NvsFlush
  <2>4. pc \in {"nvs_set_enrolled", "nvs_commit_W", "nvs_commit_tag"} /\ K = None
    BY <2>3 DEF CacheInv, RamInv, NvsKeys
  <2>5. W = HelperOf(R) /\ W \in Genuine /\ W \in Helpers
    BY <2>4, HelperType, PowerupsAssumption DEF RamInv, RtcInv, Genuine
  <2>6. BlobOf(W) # None /\ TagOf(W) # None /\ BlobOf(W).plain = W
    BY <2>5, BlobType
  <2>7. TypeOK'
    BY <2>2, <2>3 DEF TypeOK, NvsKeys
  <2>8. RtcInv'
    BY <2>3 DEF RtcInv
  <2>9. flash["helper_w"] = BlobOf(W) => flash'["helper_w"] = BlobOf(W)
    BY <2>2, <2>3 DEF NvsKeys, CacheInv
  <2>10. RamInv'
    BY <2>3, <2>4, <2>9 DEF RamInv
  <2>11. CacheInv'
    BY <2>2, <2>3, <2>6, <2>9 DEF CacheInv, NvsKeys
  <2>12. FlashInv'
    BY <2>2, <2>3, <2>5, <2>6 DEF FlashInv, NvsKeys, CacheInv
  <2>13. SealedUse'
    BY <2>3, <2>4 DEF SealedUse
  <2> QED  BY <2>7, <2>8, <2>10, <2>11, <2>12, <2>13
<1>20. CASE Attest
  BY <1>20, SentinelAssumption DEF Attest, TypeOK, RtcInv, RamInv, CacheInv, FlashInv, SealedUse
<1>21. CASE Reboot
  BY <1>21, SentinelAssumption
     DEF Reboot, Restart, Empty, TypeOK, RtcInv, RamInv, CacheInv, FlashInv, SealedUse, NvsKeys
<1>22. CASE CallFails
  <2>1. /\ pc \in Fallible \cup {"nvs_flash_init"} /\ K = None
        /\ pc' = IF pc = "nvs_flash_init" THEN "locked" ELSE "cleanup"
        /\ cache' = Empty
        /\ UNCHANGED <<flash, rtc, ram>>
    BY <1>22 DEF CallFails, Fallible, RamInv
  <2>2. TypeOK'
    BY <2>1 DEF TypeOK, Empty, NvsKeys
  <2>3. RtcInv' /\ FlashInv' /\ SealedUse'
    BY <2>1 DEF RtcInv, FlashInv, SealedUse, Fallible
  <2>4. RamInv'
    BY <2>1 DEF RamInv, Fallible
  <2>5. CacheInv'
    BY <2>1 DEF CacheInv, Empty, NvsKeys
  <2> QED  BY <2>2, <2>3, <2>4, <2>5
<1>23. CASE Misread
  BY <1>23, SentinelAssumption DEF Misread, TypeOK, RtcInv, RamInv, CacheInv, FlashInv, SealedUse
<1>24. CASE Crash
  BY <1>24, SentinelAssumption
     DEF Crash, Restart, Empty, TypeOK, RtcInv, RamInv, CacheInv, FlashInv, SealedUse, NvsKeys
<1>25. CASE \E k \in NvsKeys : Decay(k)
  <2>1. PICK k \in NvsKeys : Decay(k)
    BY <1>25
  <2>2. /\ flash'[k] = Garbage
        /\ \A j \in NvsKeys \ {k} : flash'[j] = flash[j]
        /\ flash' = [j \in NvsKeys |-> flash'[j]]
        /\ pc = "off"
        /\ UNCHANGED <<pc, cache, rtc, ram>>
    BY <2>1 DEF Decay, TypeOK
  <2>3. TypeOK'
    BY <2>2 DEF TypeOK, NvsKeys
  <2>4. RtcInv' /\ RamInv' /\ CacheInv' /\ SealedUse'
    BY <2>2 DEF RtcInv, RamInv, CacheInv, SealedUse
  <2>5. FlashInv'
    BY <2>2, SentinelAssumption DEF FlashInv, NvsKeys
  <2> QED  BY <2>3, <2>4, <2>5
<1>26. CASE UNCHANGED vars
  BY <1>26 DEF vars, TypeOK, RtcInv, RamInv, CacheInv, FlashInv, SealedUse
<1> QED
  BY <1>1, <1>2, <1>3, <1>4, <1>5, <1>6, <1>7, <1>8, <1>9, <1>10, <1>11, <1>12,
     <1>13, <1>14, <1>15, <1>16, <1>17, <1>18, <1>19, <1>20, <1>21, <1>22,
     <1>23, <1>24, <1>25, <1>26
     DEF Next, Run, Fault

THEOREM Invariance == Spec => []IInv
<1>1. Init => IInv  BY InitIInv
<1>2. IInv /\ [Next]_vars => IInv'  BY NextIInv
<1> QED  BY <1>1, <1>2, PTL DEF Spec

-----------------------------------------------------------------------------
\* Every variable stays within its type.
THEOREM TypeCorrect == Spec => []TypeOK
<1>1. IInv => TypeOK  BY DEF IInv
<1> QED  BY <1>1, Invariance, PTL

\* Keys only ever come from a helper data sealed in flash.
THEOREM KeysAreSealed == Spec => []SealedUse
<1>1. IInv => SealedUse  BY DEF IInv
<1> QED  BY <1>1, Invariance, PTL

\* The keys of a boot are the enrolled ones exactly when its power-up state is
\* within reach of the enrolled one.
THEOREM RecoveryIsExact == Spec => []EnrolledKeyRecovered
<1>1. IInv => EnrolledKeyRecovered
  <2> SUFFICES ASSUME IInv, pc = "ready"
               PROVE  K = DeriveKeys(Enrolled(W)) <=> Near(rtc_src, W)
    BY DEF EnrolledKeyRecovered
  <2>1. /\ R = rtc_src /\ R \in Responses /\ W \in Genuine
        /\ K = DeriveKeys(CodewordOf(R, W)) /\ Reconcilable(R, W)
    BY PowerupsAssumption DEF IInv, RamInv, RtcInv, SealedUse, BeforeCapture, HelperInFlash
  <2>2. PICK x \in Responses : W = HelperOf(x)
    BY <2>1, PowerupsAssumption DEF Genuine
  <2>3. Enrolled(W) = x
    BY <2>2 DEF Enrolled, HelperOf, Responses
  <2>4. K = DeriveKeys(Enrolled(W)) <=> CodewordOf(R, W) = x
    BY <2>1, <2>3 DEF DeriveKeys
  <2> QED  BY <2>1, <2>2, <2>4, ExactRecovery
<1> QED  BY <1>1, Invariance, PTL

-----------------------------------------------------------------------------
\* With an is_enrolled that never fails and a flag that stays readable: the
\* flag is not in flash while an enrolment is before its commit, and is from
\* then on; the tag comes after.
EnrolInv ==
  /\ pc \in {"puf_reconcile_enroll", "puf_wenc_encrypt", "nvs_set_W", "nvs_set_enrolled"}
       => flash["enrolled"] # 1
  /\ pc = "nvs_commit_W" => 1 \in {cache["enrolled"], flash["enrolled"]}
  /\ pc \in {"hmac_compute", "nvs_set_tag", "nvs_commit_tag", "enrolled"}
       => flash["enrolled"] = 1
  /\ pc \in {"nvs_commit_W", "hmac_compute", "nvs_set_tag"} => flash["hmac_tag"] = None
  /\ cache["hmac_tag"] # None => flash["hmac_tag"] = None
  /\ pc = "nvs_commit_tag" => TagOf(W) \in {cache["hmac_tag"], flash["hmac_tag"]}
  /\ pc = "enrolled" => flash["hmac_tag"] = TagOf(W)
  /\ flash["hmac_tag"] # None => flash["enrolled"] = 1

FlagReliable == "is_enrolled" \notin MayFail /\ "enrolled" \notin MayDecay

LEMMA InitEnrolInv == Init => EnrolInv /\ SealImpliesHelper
BY SentinelAssumption, BlobType
   DEF Init, EnrolInv, SealImpliesHelper, Empty, NvsKeys

LEMMA FlushKeepsEnrolInv ==
  ASSUME IInv, EnrolInv, SealImpliesHelper, NEW k \in NvsKeys, NvsFlush(k)
  PROVE  EnrolInv' /\ SealImpliesHelper'
<1>1. /\ flash'[k] = cache[k] /\ cache'[k] = None
      /\ \A j \in NvsKeys \ {k} : flash'[j] = flash[j] /\ cache'[j] = cache[j]
      /\ UNCHANGED <<pc, W>> /\ cache[k] # None
  BY DEF NvsFlush, IInv, TypeOK, ram
<1>2. /\ pc \in HelperSet \cup {"nvs_commit_tag"}
      /\ W \in Helpers /\ BlobOf(W) # None /\ TagOf(W) # None
  BY <1>1, HelperType, BlobType, PowerupsAssumption
     DEF IInv, CacheInv, RamInv, RtcInv, NvsKeys, HelperSet, HelperMade, BeforeCapture
<1>3. CASE k = "helper_w"
  <2>1. pc \in HelperSet /\ flash'["hmac_tag"] = None /\ flash["hmac_tag"] = None
    BY <1>1, <1>3, SentinelAssumption DEF IInv, TypeOK, CacheInv, EnrolInv, HelperSet, NvsKeys
  <2>2. EnrolInv'
    BY <1>1, <1>2, <1>3, <2>1 DEF EnrolInv, HelperSet, NvsKeys
  <2>3. SealImpliesHelper'
    BY <2>1, BlobType DEF SealImpliesHelper
  <2> QED  BY <2>2, <2>3
<1>4. CASE k = "enrolled"
  <2>1. pc = "nvs_commit_W" /\ flash'["enrolled"] = 1 /\ flash'["hmac_tag"] = None
    BY <1>1, <1>4 DEF IInv, TypeOK, CacheInv, EnrolInv, NvsKeys
  <2>2. EnrolInv'
    BY <1>1, <1>2, <1>4, <2>1 DEF EnrolInv, NvsKeys
  <2>3. SealImpliesHelper'
    BY <2>1, BlobType DEF SealImpliesHelper
  <2> QED  BY <2>2, <2>3
<1>5. CASE k = "hmac_tag"
  <2>1. /\ pc = "nvs_commit_tag" /\ flash'["hmac_tag"] = TagOf(W)
        /\ flash'["enrolled"] = 1 /\ flash'["helper_w"] = BlobOf(W)
    BY <1>1, <1>5 DEF IInv, CacheInv, RamInv, EnrolInv, NvsKeys, HelperInFlash
  <2>2. EnrolInv'
    BY <1>1, <1>2, <1>5, <2>1 DEF EnrolInv, NvsKeys
  <2>3. \A w \in Helpers : TagOf(W) = TagOf(w) => w = W
    BY DEF TagOf
  <2>4. SealImpliesHelper'
    BY <2>1, <2>3 DEF SealImpliesHelper
  <2> QED  BY <2>2, <2>4
<1> QED  BY <1>3, <1>4, <1>5 DEF NvsKeys

LEMMA NextEnrolInv ==
  ASSUME FlagReliable, IInv, EnrolInv, SealImpliesHelper, [Next]_vars
  PROVE  EnrolInv' /\ SealImpliesHelper'
<1> USE DEF rtc, ram
<1>0. flash' = flash => SealImpliesHelper'
  BY DEF SealImpliesHelper
<1>1. CASE PowerOn \/ Bootloader \/ NvsFlashInit \/ CaptureSram
  BY <1>0, <1>1 DEF PowerOn, Bootloader, NvsFlashInit, CaptureSram, EnrolInv
<1>2. CASE IsEnrolled
  BY <1>0, <1>2 DEF IsEnrolled, EnrolInv
<1>3. CASE ReconcileEnroll
  BY <1>0, <1>3 DEF ReconcileEnroll, EnrolInv
<1>4. CASE WencEncrypt
  BY <1>0, <1>4 DEF WencEncrypt, EnrolInv
<1>5. CASE SetW
  BY <1>0, <1>5 DEF SetW, NvsSet, EnrolInv, IInv, TypeOK, NvsKeys
<1>6. CASE SetEnrolled
  <2>1. /\ cache'["enrolled"] = 1 /\ cache'["hmac_tag"] = cache["hmac_tag"]
        /\ pc = "nvs_set_enrolled" /\ pc' = "nvs_commit_W"
        /\ UNCHANGED <<flash, W>>
    BY <1>6 DEF SetEnrolled, NvsSet, IInv, TypeOK, NvsKeys
  <2>2. flash["hmac_tag"] = None
    BY <2>1 DEF EnrolInv
  <2> QED  BY <1>0, <2>1, <2>2 DEF EnrolInv
<1>7. CASE CommitW
  <2>1. cache["enrolled"] = None
    BY <1>7 DEF CommitW, Empty, NvsKeys
  <2> QED  BY <1>0, <1>7, <2>1, SentinelAssumption DEF CommitW, EnrolInv
<1>8. CASE HmacCompute
  BY <1>0, <1>8 DEF HmacCompute, EnrolInv
<1>9. CASE SetTag
  <2>1. /\ cache'["hmac_tag"] = TagOf(W) /\ cache'["enrolled"] = cache["enrolled"]
        /\ pc = "nvs_set_tag" /\ pc' = "nvs_commit_tag"
        /\ UNCHANGED <<flash, W>>
    BY <1>9 DEF SetTag, NvsSet, IInv, TypeOK, NvsKeys
  <2> QED  BY <1>0, <2>1 DEF EnrolInv
<1>10. CASE CommitTag
  <2>1. cache["hmac_tag"] = None /\ TagOf(W) # None
    BY <1>10, BlobType, HelperType, PowerupsAssumption
       DEF CommitTag, Empty, NvsKeys, IInv, RamInv, RtcInv, HelperMade, BeforeCapture
  <2> QED  BY <1>0, <1>10, <2>1 DEF CommitTag, EnrolInv
<1>11. CASE EnrollDone \/ ReadW \/ IntegrityVerify \/ Reconstruct \/ Attest \/ Cleanup
  BY <1>0, <1>11
     DEF EnrollDone, ReadW, IntegrityVerify, Reconstruct, Attest, Cleanup, EnrolInv
<1>12. CASE \E k \in NvsKeys : NvsFlush(k)
  BY <1>12, FlushKeepsEnrolInv
<1>13. CASE CallFails \/ Misread \/ Crash \/ Reboot
  BY <1>0, <1>13
     DEF CallFails, Misread, Crash, Reboot, Restart, Empty, NvsKeys, EnrolInv, FlagReliable
<1>14. CASE \E k \in NvsKeys : Decay(k)
  <2>1. PICK k \in NvsKeys : Decay(k)
    BY <1>14
  <2>2. /\ flash'[k] = Garbage /\ flash[k] # None /\ k # "enrolled"
        /\ \A j \in NvsKeys \ {k} : flash'[j] = flash[j]
        /\ pc = "off" /\ UNCHANGED <<pc, cache, W>>
    BY <2>1 DEF Decay, IInv, TypeOK, FlagReliable
  <2>3. cache["hmac_tag"] = None
    BY <2>2 DEF IInv, CacheInv
  <2>4. EnrolInv'
    BY <2>2, <2>3 DEF EnrolInv, NvsKeys
  <2>5. SealImpliesHelper'
    <3> SUFFICES ASSUME NEW w \in Helpers, flash'["hmac_tag"] = TagOf(w)
                 PROVE  flash'["enrolled"] = 1 /\ flash'["helper_w"] \in {BlobOf(w), Garbage}
      BY DEF SealImpliesHelper
    <3>1. k # "hmac_tag"
      BY <2>2, BlobType, SentinelAssumption
    <3> QED  BY <2>2, <3>1 DEF SealImpliesHelper, NvsKeys
  <2> QED  BY <2>4, <2>5
<1>15. CASE UNCHANGED vars
  BY <1>0, <1>15 DEF vars, EnrolInv
<1> QED
  BY <1>1, <1>2, <1>3, <1>4, <1>5, <1>6, <1>7, <1>8, <1>9, <1>10, <1>11, <1>12,
     <1>13, <1>14, <1>15
     DEF Next, Run, Fault

LEMMA EnrolInvariance ==
  ASSUME FlagReliable
  PROVE  Spec => [](IInv /\ EnrolInv /\ SealImpliesHelper)
<1>1. Init => IInv /\ EnrolInv /\ SealImpliesHelper
  BY InitIInv, InitEnrolInv
<1>2. IInv /\ EnrolInv /\ SealImpliesHelper /\ [Next]_vars
        => (IInv /\ EnrolInv /\ SealImpliesHelper)'
  BY NextIInv, NextEnrolInv
<1> QED  BY <1>1, <1>2, PTL DEF Spec

\* A device with a tag in flash has the flag and the helper data of that tag.
THEOREM SealComesLast ==
  ASSUME FlagReliable PROVE Spec => []SealImpliesHelper
BY EnrolInvariance, PTL

\* The tag, once in flash, keeps every entry as it is, decay aside.
THEOREM SealStaysFinal ==
  ASSUME FlagReliable PROVE Spec => SealIsFinal
<1> DEFINE Step == flash["hmac_tag"] # None =>
                     \A k \in NvsKeys : flash'[k] \in {flash[k], Garbage}
<1>1. ASSUME IInv, EnrolInv, [Next]_vars, flash["hmac_tag"] # None, NEW k \in NvsKeys
      PROVE  flash'[k] \in {flash[k], Garbage}
  <2>1. CASE flash' = flash
    BY <2>1
  <2>2. CASE \E j \in NvsKeys : Decay(j)
    BY <1>1, <2>2 DEF Decay, IInv, TypeOK
  <2>3. CASE \E j \in NvsKeys : NvsFlush(j)
    <3>1. PICK j \in NvsKeys : NvsFlush(j)
      BY <2>3
    <3>2. cache[j] # None /\ flash' = [flash EXCEPT ![j] = cache[j]]
      BY <3>1 DEF NvsFlush
    <3>3. j = "enrolled" /\ cache[j] = 1 /\ flash["enrolled"] = 1
      BY <1>1, <3>2 DEF IInv, TypeOK, CacheInv, EnrolInv, HelperSet, NvsKeys
    <3> QED  BY <1>1, <3>2, <3>3 DEF IInv, TypeOK
  <2> QED
    BY <1>1, <2>1, <2>2, <2>3
       DEF Next, Run, Fault, PowerOn, Bootloader, NvsFlashInit, CaptureSram,
           IsEnrolled, ReconcileEnroll, WencEncrypt, SetW, SetEnrolled, NvsSet,
           CommitW, HmacCompute, SetTag, CommitTag, EnrollDone, ReadW,
           IntegrityVerify, Reconstruct, Cleanup, Attest, Reboot, Restart,
           CallFails, Misread, Crash, vars, rtc, ram
<1>2. IInv /\ EnrolInv /\ [Next]_vars => [Step]_vars
  BY <1>1
<1>3. Spec => [][Step]_vars
  BY <1>2, EnrolInvariance, PTL DEF Spec
<1> QED  BY <1>3 DEF SealIsFinal

\* A device left with the flag and without a matching tag never gets keys
\* again.
THEOREM BrickedStays ==
  ASSUME FlagReliable PROVE Spec => BrickedForGood
<1> DEFINE Step == Bricked => Bricked' /\ K' = None
<1>1. ASSUME IInv, EnrolInv, [Next]_vars, Bricked
      PROVE  Bricked' /\ K' = None
  <2>1. ASSUME W \in Helpers, flash["helper_w"] = BlobOf(W), flash["hmac_tag"] = TagOf(W)
        PROVE  FALSE
    BY <1>1, <2>1, BlobType DEF Bricked, Sealed
  <2>2. W \in Genuine => W \in Helpers
    BY HelperType, PowerupsAssumption DEF Genuine
  <2>3. K = None
    BY <1>1, <2>1 DEF IInv, SealedUse, RamInv
  <2>4. pc \notin {"enrolled", "puf_reconcile_reconstruct", "puf_reconcile_enroll",
                   "puf_wenc_encrypt", "nvs_set_W", "nvs_set_enrolled",
                   "nvs_commit_W", "hmac_compute", "nvs_set_tag", "nvs_commit_tag"}
    BY <1>1, <2>1, <2>2 DEF IInv, RamInv, HelperInFlash, EnrolInv, Bricked
  <2>5. \A k \in NvsKeys : cache[k] = None
    BY <1>1, <2>4 DEF IInv, CacheInv, HelperSet, NvsKeys
  <2>6. CASE \E k \in NvsKeys : Decay(k)
    <3>1. PICK k \in NvsKeys : Decay(k)
      BY <2>6
    <3>2. /\ flash' = [flash EXCEPT ![k] = Garbage] /\ k # "enrolled"
          /\ UNCHANGED <<pc, K>>
      BY <3>1 DEF Decay, ram, FlagReliable
    <3>3. flash'["enrolled"] = 1 /\ ~Sealed'
      <4>1. flash'["enrolled"] = 1
        BY <1>1, <3>2 DEF Bricked, IInv, TypeOK, NvsKeys
      <4>2. CASE k = "helper_w"
        <5>1. flash'["helper_w"] = Garbage
          BY <1>1, <3>2, <4>2 DEF IInv, TypeOK, NvsKeys
        <5> QED  BY <4>1, <5>1, SentinelAssumption DEF Sealed
      <4>3. CASE k = "hmac_tag"
        <5>1. flash'["hmac_tag"] = Garbage
          BY <1>1, <3>2, <4>3 DEF IInv, TypeOK, NvsKeys
        <5>2. ASSUME flash'["helper_w"] \in Blobs
              PROVE  TagOf(flash'["helper_w"].plain) # Garbage
          BY <5>2, BlobPlain, BlobType, SentinelAssumption
        <5> QED  BY <4>1, <5>1, <5>2 DEF Sealed
      <4> QED  BY <3>2, <4>2, <4>3 DEF NvsKeys
    <3> QED  BY <1>1, <2>3, <3>2, <3>3 DEF Bricked
  <2>7. CASE ~\E k \in NvsKeys : Decay(k)
    <3>1. flash' = flash
      BY <1>1, <2>5, <2>7
         DEF Next, Run, Fault, PowerOn, Bootloader, NvsFlashInit, CaptureSram,
             IsEnrolled, ReconcileEnroll, WencEncrypt, SetW, SetEnrolled, NvsSet,
             CommitW, HmacCompute, SetTag, CommitTag, EnrollDone, ReadW, NvsFlush,
             IntegrityVerify, Reconstruct, Cleanup, Attest, Reboot, Restart,
             CallFails, Misread, Crash, vars, rtc, ram
    <3>2. /\ pc' \notin {"nvs_set_W", "nvs_set_enrolled", "nvs_commit_W",
                          "hmac_compute", "nvs_set_tag", "nvs_commit_tag"}
          /\ K' = None
      BY <1>1, <2>3, <2>4, <2>5, <2>7
         DEF Next, Run, Fault, PowerOn, Bootloader, NvsFlashInit, CaptureSram,
             IsEnrolled, ReconcileEnroll, WencEncrypt, SetW, SetEnrolled, NvsSet,
             CommitW, HmacCompute, SetTag, CommitTag, EnrollDone, ReadW, NvsFlush,
             IntegrityVerify, Reconstruct, Cleanup, Attest, Reboot, Restart,
             CallFails, Misread, Crash, vars, rtc, ram, Bricked
    <3> QED  BY <1>1, <3>1, <3>2 DEF Bricked, Sealed
  <2> QED  BY <2>6, <2>7
<1>2. IInv /\ EnrolInv /\ [Next]_vars => [Step]_vars
  BY <1>1
<1>3. Spec => [][Step]_vars
  BY <1>2, EnrolInvariance, PTL DEF Spec
<1> QED  BY <1>3 DEF BrickedForGood

-----------------------------------------------------------------------------
\* Refinement
\* The vault's operators are the device's: its constants are.
LEMMA VaultOperators ==
  /\ Vault!Helpers = Helpers /\ Vault!Responses = Responses
  /\ \A r, w : Vault!Reconcilable(r, w) <=> Reconcilable(r, w)
  /\ \A r, w : Vault!DeriveKeys(Vault!CodewordOf(r, w)) = DeriveKeys(CodewordOf(r, w))
<1>1. \A r, e : Vault!Decodable(r, e) <=> Decodable(r, e)
  BY DEF Vault!Decodable, Decodable
<1>2. \A r, e : Vault!Corrected(r, e) = Corrected(r, e)
  BY DEF Vault!Corrected, Corrected
<1>3. \A r, w : Vault!CodewordOf(r, w) = CodewordOf(r, w)
  BY <1>2 DEF Vault!CodewordOf, CodewordOf
<1>4. \A r, w : Vault!Reconcilable(r, w) <=> Reconcilable(r, w)
  BY <1>1 DEF Vault!Reconcilable, Reconcilable
<1> QED
  BY <1>3, <1>4 DEF Vault!DeriveKeys, DeriveKeys, Vault!Helpers, Helpers,
                    Vault!Responses, Responses

LEMMA VaultInit == Init => Vault!Init
BY SentinelAssumption DEF Init, Vault!Init, Empty, NvsKeys

LEMMA VaultStutter ==
  ASSUME flash' = flash, K' = K
  PROVE  UNCHANGED Vault!vars
BY DEF Vault!vars

LEMMA VaultStep ==
  ASSUME IInv, [Next]_vars
  PROVE  [Vault!Next]_(Vault!vars)
<1>1. CASE flash' = flash /\ K' = K
  BY <1>1, VaultStutter
<1>2. CASE flash' = flash /\ K' = None
  BY <1>2 DEF Vault!Next, Vault!Forget
<1>3. CASE Reconstruct
  <2>1. CASE Reconcilable(R, W)
    <3>1. /\ K' = DeriveKeys(CodewordOf(R, W)) /\ flash' = flash
          /\ pc = "puf_reconcile_reconstruct"
      BY <1>3, <2>1 DEF Reconstruct
    <3>2. /\ W \in Helpers /\ R \in Responses
          /\ flash["helper_w"] = BlobOf(W) /\ flash["hmac_tag"] = TagOf(W)
      BY <3>1, HelperType, PowerupsAssumption
         DEF IInv, RamInv, RtcInv, Genuine, HelperInFlash, BeforeCapture
    <3>3. /\ flash["helper_w"] \in Blobs /\ flash["helper_w"].plain = W
          /\ flash["hmac_tag"] \in Tags /\ flash["hmac_tag"].message = W
      BY <3>2, BlobType
    <3>4. Vault!Unlock(R)
      BY <2>1, <3>1, <3>2, <3>3, VaultOperators DEF Vault!Unlock
    <3> QED  BY <3>2, <3>4, VaultOperators DEF Vault!Next
  <2>2. CASE ~Reconcilable(R, W)
    BY <1>3, <2>2, VaultStutter DEF Reconstruct
  <2> QED  BY <2>1, <2>2
<1>4. CASE \E k \in NvsKeys : NvsFlush(k)
  <2>1. PICK k \in NvsKeys : NvsFlush(k)
    BY <1>4
  <2>2. /\ flash'[k] = cache[k] /\ cache[k] # None /\ UNCHANGED ram
        /\ \A j \in NvsKeys \ {k} : flash'[j] = flash[j]
    BY <2>1 DEF NvsFlush, IInv, TypeOK
  <2>3. /\ pc \in HelperSet \cup {"nvs_commit_tag"}
        /\ W \in Helpers /\ K = None /\ K' = None
    BY <2>2, HelperType, PowerupsAssumption
       DEF IInv, CacheInv, RamInv, RtcInv, NvsKeys, HelperSet, HelperMade,
           BeforeCapture, ram
  <2>4. CASE k = "helper_w"
    <3>1. flash'["helper_w"] = BlobOf(W) /\ flash'["hmac_tag"] = flash["hmac_tag"]
      BY <2>2, <2>4 DEF IInv, CacheInv, NvsKeys
    <3>2. flash'["helper_w"] \in Blobs /\ flash'["helper_w"].plain \in Helpers
      BY <2>3, <3>1, BlobType
    <3>3. Vault!Store
      BY <2>3, <3>1, <3>2, VaultOperators DEF Vault!Store
    <3> QED  BY <3>3 DEF Vault!Next
  <2>5. CASE k = "enrolled"
    <3>1. /\ flash'["helper_w"] = flash["helper_w"]
          /\ flash'["hmac_tag"] = flash["hmac_tag"]
      BY <2>2, <2>5 DEF NvsKeys
    <3> QED  BY <2>3, <3>1 DEF Vault!vars
  <2>6. CASE k = "hmac_tag"
    <3>1. /\ flash'["hmac_tag"] = TagOf(W) /\ flash["helper_w"] = BlobOf(W)
          /\ flash'["helper_w"] = BlobOf(W)
      BY <2>2, <2>6 DEF IInv, CacheInv, RamInv, HelperInFlash, NvsKeys
    <3>2. /\ BlobOf(W) \in Blobs /\ BlobOf(W).plain = W
          /\ TagOf(W) \in Tags /\ TagOf(W).message = W
      BY <2>3, BlobType
    <3>3. Vault!PutSeal
      BY <2>3, <3>1, <3>2, VaultOperators DEF Vault!PutSeal
    <3> QED  BY <3>3 DEF Vault!Next
  <2> QED  BY <2>4, <2>5, <2>6 DEF NvsKeys
<1>5. CASE \E k \in NvsKeys : Decay(k)
  <2>1. PICK k \in NvsKeys : Decay(k)
    BY <1>5
  <2>2. /\ flash'[k] = Garbage /\ UNCHANGED ram /\ pc = "off"
        /\ \A j \in NvsKeys \ {k} : flash'[j] = flash[j]
    BY <2>1 DEF Decay, IInv, TypeOK
  <2>3. K = None /\ K' = None /\ Garbage \notin Blobs /\ Garbage \notin Tags
    BY <2>2, SentinelAssumption DEF IInv, RamInv, ram
  <2>4. CASE k = "helper_w"
    <3>1. flash'["helper_w"] = Garbage /\ flash'["hmac_tag"] = flash["hmac_tag"]
      BY <2>2, <2>4 DEF NvsKeys
    <3>2. Vault!Lose
      BY <2>3, <3>1 DEF Vault!Lose
    <3> QED  BY <3>2 DEF Vault!Next
  <2>5. CASE k = "enrolled"
    <3>1. /\ flash'["helper_w"] = flash["helper_w"]
          /\ flash'["hmac_tag"] = flash["hmac_tag"]
      BY <2>2, <2>5 DEF NvsKeys
    <3> QED  BY <2>3, <3>1 DEF Vault!vars
  <2>6. CASE k = "hmac_tag"
    <3>1. flash'["hmac_tag"] = Garbage /\ flash'["helper_w"] = flash["helper_w"]
      BY <2>2, <2>6 DEF NvsKeys
    <3>2. Vault!Lose
      BY <2>3, <3>1 DEF Vault!Lose
    <3> QED  BY <3>2 DEF Vault!Next
  <2> QED  BY <2>4, <2>5, <2>6 DEF NvsKeys
<1> QED
  BY <1>1, <1>2, <1>3, <1>4, <1>5
     DEF Next, Run, Fault, PowerOn, Bootloader, NvsFlashInit, CaptureSram,
         IsEnrolled, ReconcileEnroll, WencEncrypt, SetW, SetEnrolled, NvsSet,
         CommitW, HmacCompute, SetTag, CommitTag, EnrollDone, ReadW,
         IntegrityVerify, Cleanup, Attest, Reboot, Restart, CallFails, Misread,
         Crash, vars, rtc, ram

\* The device implements the vault.
THEOREM Refinement == Spec => VaultSpec
<1>1. Init => Vault!Init  BY VaultInit
<1>2. IInv /\ [Next]_vars => [Vault!Next]_(Vault!vars)  BY VaultStep
<1> QED  BY <1>1, <1>2, Invariance, PTL DEF Spec, VaultSpec, Vault!Spec
=============================================================================
