---------------------------- MODULE MCSealedRun -----------------------------
(* Model-checking instance of SealedRun.                                    *)
EXTENDS SealedRun, TLC

CallSymmetry == Permutations(ToolCalls)

=============================================================================
