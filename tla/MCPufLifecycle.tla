---------------------------- MODULE MCPufLifecycle ----------------------------
(***************************************************************************)
(* PufLifecycle on a small code: three data bits and four parity bits with *)
(* minimum distance 4, T = 1.  A response one bit away from the enrolled   *)
(* one is corrected, one two bits away is rejected, and one three bits     *)
(* away is one bit from the codeword of another data block: it is taken    *)
(* for that one, the error being located in the stored parity.  With data  *)
(* bit 3 set, a word out of reach is not rejected: the decoder locates an  *)
(* error in that bit all the same.                                         *)
(***************************************************************************)
EXTENDS PufLifecycle, FiniteSets

MCBlocks == {0, 1}

\* Enumerated, so that TLC can tell the model value Failed is not one of them.
MCData == {d : d \in SUBSET {1, 2, 3}}

Differing(a, b) == (a \ b) \cup (b \ a)

\* The parity checks of the code, as the sets of data bits they sum.
Checks == {{1, 2}, {1, 3}, {2, 3}, {1, 2, 3}}

Parity(d) == {c \in Checks : Cardinality(c \cap d) % 2 = 1}

MCDist == [p \in MCData \X MCData |-> Cardinality(Differing(p[1], p[2]))]

MCEccDist ==
  [p \in MCData \X MCData |-> Cardinality(Differing(Parity(p[1]), Parity(p[2])))]

MCDecode ==
  [p \in MCData \X MCData |->
     IF Candidates(p[1], p[2]) # {} THEN CHOOSE c \in Candidates(p[1], p[2]) : TRUE
     ELSE IF 3 \in p[1] THEN p[1] \ {3} ELSE Failed]

Response(a, b) == [i \in MCBlocks |-> IF i = 0 THEN a ELSE b]

\* Near each other, then out of reach in one block and refused, then out of
\* reach in one and not refused: taken for another codeword, or for none.
MCPowerups ==
  {Response({}, {}), Response({1}, {2}), Response({}, {1, 2}),
   Response({1, 2, 3}, {})}

\* Each corrected to each.
NearPowerups == {Response({}, {}), Response({1}, {2})}

\* HMAC_KEY4 burned, as puf_kdf.c uses it.
Key4Burned == [k \in {"HMAC_KEY3", "HMAC_KEY4"} |->
                 IF k = "HMAC_KEY4" THEN "HMAC_UP" ELSE "USER"]

AllCalls == Fallible \cup {"nvs_flash_init", "is_enrolled"}
NoMisread == Fallible \cup {"nvs_flash_init"}
=============================================================================
