----------------------------- MODULE MCDeviceFleet -----------------------------
(***************************************************************************)
(* Two devices under one client id.                                        *)
(***************************************************************************)
EXTENDS DeviceFleet, TLC

DeviceSymmetry == Permutations(Devices)
=============================================================================
