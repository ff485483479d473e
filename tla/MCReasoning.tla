---------------------------- MODULE MCReasoning -----------------------------
(* Model-checking instance of Reasoning: pool A may draft an execution      *)
(* claim on a disk and a severe one in memory, pool B the first claim too.  *)
EXTENDS Reasoning

CONSTANTS exec, rootkit, execB

MCPoolA == <<exec, rootkit>>
MCPoolB == <<execB>>
MCClaim == [f \in Findings |-> IF f = rootkit THEN "rootkit" ELSE "exec"]
MCClass == [f \in Findings |-> IF f = rootkit THEN "memory" ELSE "disk"]

=============================================================================
