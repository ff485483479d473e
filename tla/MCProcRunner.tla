---------------------------- MODULE MCProcRunner ----------------------------
(* Model-checking instance of ProcRunner: the tool has the second of four   *)
(* process ids, so that children land before and after it in /proc.         *)
EXTENDS ProcRunner

MCPids == 1..4

=============================================================================
