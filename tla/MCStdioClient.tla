--------------------------- MODULE MCStdioClient ----------------------------
(* Model-checking instance of StdioClient.                                  *)
EXTENDS StdioClient, TLC

CallerSymmetry == Permutations(Callers)

=============================================================================
