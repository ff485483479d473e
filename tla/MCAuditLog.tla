----------------------------- MODULE MCAuditLog -----------------------------
(* Model-checking instance of AuditLog: two interchangeable objects.        *)
EXTENDS AuditLog, TLC

WriterSymmetry == Permutations(Writers)

\* Several server processes, no write cut short, and callers that go on after an error.
Shared == [exclusive |-> FALSE, tears |-> {}, reuse |-> TRUE]
\* The handlers of one server process, which drop the object, and writes cut mid-line.
OneServer == [exclusive |-> TRUE, tears |-> {"fragment"}, reuse |-> FALSE]
\* The same, and a write may lose no more than its newline.
OneServerAnyTear == [OneServer EXCEPT !.tears = TearKinds]

DisciplinedUses == {Shared, OneServer}
AnyTear == {OneServerAnyTear}

=============================================================================
