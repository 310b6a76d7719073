------------------------------ MODULE MCCwtToken ------------------------------
(***************************************************************************)
(* Uptimes on both sides of each width of a CBOR number, up to the largest *)
(* that esp_timer_get_time() / 1000 can be.                                *)
(***************************************************************************)
EXTENDS CwtToken

MCNonces == {[i \in 1 .. 32 |-> 0], [i \in 1 .. 32 |-> 8 * i - 1]}

MCUptimes ==
  {<<>>, <<1>>, <<23>>, <<24>>, <<255>>, <<1, 0>>, <<255, 255>>, <<1, 0, 0>>,
   <<1, 0, 0, 0>>, <<255, 255, 255, 255>>, <<1, 0, 0, 0, 0>>, <<1, 24, 24, 64, 32>>,
   <<32, 196, 155, 165, 227, 83, 247>>}
=============================================================================
