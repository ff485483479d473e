--------------------------- MODULE MCDiskSession ----------------------------
(* Model-checking instance of DiskSession: interchangeable mount ids.       *)
EXTENDS DiskSession, TLC

MountSymmetry == Permutations(Mounts)

=============================================================================
