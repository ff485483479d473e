---------------------------- MODULE MCAuditTail -----------------------------
(* Model-checking instance of the log with a dashboard that follows it when *)
(* one server process writes.  What comes after two reads overlapped is not *)
(* explored: FollowsTheLog says nothing of it.                              *)
EXTENDS AuditTail, MCAuditLog

FollowedUses == {OneServer}

Symmetry == Permutations(Writers) \cup Permutations(Readers)

UntilOverlap == ~ overlapped

=============================================================================
