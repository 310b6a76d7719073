---------------------------- MODULE PresenceLedger ----------------------------
(***************************************************************************)
(* What the attestation exchange promises, without network or device:      *)
(* verifier sessions open and end once, somebody visits a device at most   *)
(* once a boot and for one open session, and the log of transactions only  *)
(* ever grows by a visit of a session that is still open.                  *)
(***************************************************************************)
EXTENDS Naturals, Sequences

CONSTANTS
  Sessions,  \* sessions of the verifier
  Boots      \* boots of the device

VARIABLES
  state,   \* state[v]: "new", "open" or "over"
  visits,  \* who came, on which boot and for which session
  log      \* the transactions

ledger == <<state, visits, log>>

Init ==
  /\ state = [v \in Sessions |-> "new"]
  /\ visits = {}
  /\ log = <<>>

Open(v) ==
  /\ state[v] = "new"
  /\ state' = [state EXCEPT ![v] = "open"]
  /\ UNCHANGED <<visits, log>>

\* With a result or without one.
Finish(v) ==
  /\ state[v] = "open"
  /\ state' = [state EXCEPT ![v] = "over"]
  /\ UNCHANGED <<visits, log>>

Visit(v, b) ==
  /\ state[v] = "open"
  /\ \A x \in visits : x.boot # b
  /\ visits' = visits \cup {[session |-> v, boot |-> b]}
  /\ UNCHANGED <<state, log>>

\* The same visit may be recorded again while its session is open.
Record(v, b) ==
  /\ state[v] = "open"
  /\ [session |-> v, boot |-> b] \in visits
  /\ log' = Append(log, [session |-> v, boot |-> b])
  /\ UNCHANGED <<state, visits>>

Next ==
  \E v \in Sessions :
    \/ Open(v) \/ Finish(v)
    \/ \E b \in Boots : Visit(v, b) \/ Record(v, b)

Spec == Init /\ [][Next]_ledger
=============================================================================
