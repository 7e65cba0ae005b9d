----------------------------- MODULE MCSioTable -----------------------------
(* The device table with three drives and four devices, one more than fit. *)
EXTENDS SioTable, TLC

Symmetry == Permutations(Devices) \cup Permutations(Slots)
=============================================================================
