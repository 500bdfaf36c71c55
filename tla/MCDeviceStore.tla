---------------------------- MODULE MCDeviceStore ----------------------------
(***************************************************************************)
(* DeviceStore on small instances.  Three interfaces are the fewest that   *)
(* let a scan split a stored device and join one part with another device. *)
(***************************************************************************)
EXTENDS DeviceStore, TLC

CONSTANTS a, b, c

ThreeMACs == {a, b, c}
Symmetry == Permutations(MACs)

=============================================================================
