---------------------------- MODULE MCDriveRack ----------------------------
(* Instances of DriveRack for TLC. Two drives and three disks, so that the *)
(* rack can be full while a disk is mounted over another one; two          *)
(* high-speed loaders (a slot may put one in while the last one waits for  *)
(* deleteLater); one executable at a time. The runs that look for one      *)
(* counterexample have three drives and two disks.                         *)
EXTENDS DriveRack, TLC

(* What hisioboot-atarisio sends, and the same request spelled backwards.  *)
BootLoaderXc == {<<1, 2>>}
BackwardsXc  == {<<2, 1>>}

Symmetry == Permutations(Shims) \cup Permutations(Files)
=============================================================================
