------------------------------ MODULE HelperVault ------------------------------
(***************************************************************************)
(* What provisioning and reconstruction promise together, whatever happens *)
(* to the power supply and to single calls.  The device keeps one helper   *)
(* data and one seal (the HMAC tag).  A seal is only ever put on the       *)
(* helper data that is in store, and a key comes to exist only from a      *)
(* stored helper data that carries its own seal.                           *)
(***************************************************************************)
EXTENDS FuzzyExtractor

CONSTANTS
  None,      \* nothing stored, no key
  Garbage    \* contents the flash no longer holds faithfully

VARIABLES
  helper,    \* the helper data in store
  seal,      \* the helper data the stored seal was made for
  key        \* the keys in use

vars == <<helper, seal, key>>

Init ==
  /\ helper = None
  /\ seal = None
  /\ key = None

Store ==
  /\ key = None
  /\ helper' \in Helpers
  /\ UNCHANGED <<seal, key>>

PutSeal ==
  /\ helper \in Helpers
  /\ seal' = helper
  /\ UNCHANGED <<helper, key>>

Unlock(r) ==
  /\ helper \in Helpers
  /\ seal = helper
  /\ Reconcilable(r, helper)
  /\ key' = DeriveKeys(CodewordOf(r, helper))
  /\ UNCHANGED <<helper, seal>>

Forget ==
  /\ key' = None
  /\ UNCHANGED <<helper, seal>>

Lose ==
  /\ key = None
  /\ \/ helper' = Garbage /\ UNCHANGED seal
     \/ seal' = Garbage /\ UNCHANGED helper
  /\ UNCHANGED key

Next ==
  \/ Store
  \/ PutSeal
  \/ \E r \in Responses : Unlock(r)
  \/ Forget
  \/ Lose

Spec == Init /\ [][Next]_vars
=============================================================================
