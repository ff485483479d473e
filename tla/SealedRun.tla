----------------------------- MODULE SealedRun ------------------------------
(***************************************************************************)
(* Sealing a run and verifying it later: the audit log as the sequence of  *)
(* its lines, the manifest that manifest_finalize derives from it, signs   *)
(* and writes (build_manifest, write_manifest of crypto/manifest.py), and  *)
(* what the four verifiers accept: verify_manifest, and three that share   *)
(* no code with it or each other: the offline script, the dashboard in the *)
(* browser, the check of a packet before it is handed in.                  *)
(*                                                                         *)
(* A line carries two identities: one of its bytes (raw), and one of the   *)
(* record of five fields that a reader makes of it (id).  The writer gives *)
(* a line the same number for both.  They part when the same record is     *)
(* spelled in other bytes, such as a sixth key, null for {} or 3.0 for 3.  *)
(* Digests are injective, so the digest of a line is its raw identity, and *)
(* that of the record written anew in canonical form is id; the digest a   *)
(* tool call's record declares for its output is the call.  The leaves are *)
(* kept by the position of their lines, and their Merkle root is the       *)
(* leaves (module Merkle has the tree).                                    *)
(*                                                                         *)
(* Appends are whole lines (module AuditLog looks inside them).  The files *)
(* may be damaged between calls: a line altered, spelled otherwise, made   *)
(* unreadable or given the line end of another system, the end of the log  *)
(* lost, a field of the manifest or of its signature changed, a write cut  *)
(* short.                                                                  *)
(***************************************************************************)
EXTENDS Integers, Sequences, SequencesExt

CONSTANTS
  ToolCalls,    \* ids of tool calls
  NoCall,       \* a record that names none
  MaxLines,     \* bound: identities given to lines and altered fields
  MaxDamage,    \* bound: damages
  OthersAppend  \* another server process appends while this one seals

ASSUME LogAssumption ==
  /\ NoCall \notin ToolCalls /\ MaxLines \in Nat /\ MaxDamage \in Nat
  /\ OthersAppend \in BOOLEAN

Signers == {"ed25519", "sigstore", "stub"}

VARIABLES
  log,     \* audit.jsonl: a sequence of lines
  there,   \* the file exists
  lastId,  \* identities given out
  damage,  \* damages so far
  phase,   \* of manifest_finalize: idle, cited, walked, signed, written
  draft,   \* the manifest build_manifest holds
  file     \* run.manifest.json

vars == <<log, there, lastId, damage, phase, draft, file>>

Absent == [state |-> "absent"]
Torn == [state |-> "torn"]

Init ==
  /\ log = << >> /\ there = FALSE /\ lastId = 0 /\ damage = 0
  /\ phase = "idle" /\ draft = Absent /\ file = Absent

-----------------------------------------------------------------------------
(* The log.                                                                 *)

\* The digest of the bytes of a line; a carriage return at its end is one of them.
Digest(line) == IF line.returns THEN 0 - line.raw ELSE line.raw

DigestOfLast(l) == IF l = << >> THEN 0 ELSE Digest(Last(l))

\* The constructor looks at the last line only.
OpensWell(l) == l # << >> => Last(l).readable /\ Last(l).seq = Len(l)

\* verify(): canonical, numbered, each naming the digest of the one before.
ChainVerifies(l) ==
  \A i \in DOMAIN l : /\ l[i].readable /\ l[i].canonical /\ ~ l[i].returns
                      /\ l[i].seq = i
                      /\ l[i].prev = (IF i = 1 THEN 0 ELSE l[i - 1].raw)

Readable(l) == \A i \in DOMAIN l : l[i].readable

\* The records the manifest looks at: kind and the tool call they name.
Records == {<<"tool_call_output", c>> : c \in ToolCalls}
           \union {<<"finding_approved", c>> : c \in ToolCalls \union {NoCall}}
           \union {<<"other", NoCall>>}

\* audit_append, by the agents of this process or of another one.
AppendRecord(record) ==
  /\ phase = "idle" \/ OthersAppend
  /\ lastId < MaxLines /\ OpensWell(log)
  /\ log' = Append(log, [id |-> lastId + 1, raw |-> lastId + 1, seq |-> Len(log) + 1,
                         prev |-> DigestOfLast(log), readable |-> TRUE, canonical |-> TRUE,
                         returns |-> FALSE, kind |-> record[1], call |-> record[2]])
  /\ lastId' = lastId + 1 /\ there' = TRUE
  /\ UNCHANGED <<damage, phase, draft, file>>

-----------------------------------------------------------------------------
(* manifest_finalize: a pass over the log for the citations, a second one   *)
(* for the leaves, the count and the final hash, then sign and write.       *)

CitedIn(l, i, earlier) ==
  \E j \in earlier : l[j].kind = "tool_call_output" /\ l[j].call = l[i].call

Uncited(l) == {i \in DOMAIN l : l[i].kind = "finding_approved" /\ ~ CitedIn(l, i, 1..(i - 1))}

\* Variant: a finding may cite a call recorded after it.
CheckCitationsAnyOrder ==
  /\ phase = "idle" /\ OpensWell(log) /\ Readable(log)
  /\ \A i \in DOMAIN log : log[i].kind = "finding_approved" => CitedIn(log, i, DOMAIN log)
  /\ phase' = "cited"
  /\ UNCHANGED <<log, there, lastId, damage, draft, file>>

\* Anything else raises, and nothing changes.
CheckCitations ==
  /\ phase = "idle" /\ OpensWell(log) /\ Readable(log)
  /\ Uncited(log) = {}
  /\ phase' = "cited"
  /\ UNCHANGED <<log, there, lastId, damage, draft, file>>

\* A tool call is a leaf by the output it declares, a finding by its record.
Leaf(line) == [seq |-> line.seq, kind |-> line.kind,
               digest |-> IF line.kind = "tool_call_output" THEN <<line.call>> ELSE <<line.id>>]

Eligible(l) == {i \in DOMAIN l : l[i].kind # "other"}

Leaves(l) == [i \in Eligible(l) |-> Leaf(l[i])]

\* Variant: the final hash is the one the last line names, not its own.
FinalHashOfPrevious(l) == IF l = << >> THEN 0 ELSE Last(l).prev

\* Of the five fields, written anew in canonical form, whatever bytes the file
\* has for them.
FinalHash(l) == IF l = << >> THEN 0 ELSE Last(l).id

Body(l) == [count |-> Len(l), final |-> FinalHash(l), leaves |-> Leaves(l),
            root |-> Leaves(l), leafCount |-> Cardinality(Eligible(l)), extra |-> 0]

\* from is no field of the manifest: it remembers the log it was made from.
Walk ==
  /\ phase = "cited"
  /\ IF Readable(log)
     THEN /\ draft' = [state |-> "written", body |-> Body(log), anchored |-> FALSE,
                       kind |-> "none", over |-> << >>, sha |-> << >>, from |-> log]
          /\ phase' = "walked"
     ELSE phase' = "idle" /\ UNCHANGED draft
  /\ UNCHANGED <<log, there, lastId, damage, file>>

\* Variant: the anchor is part of what is signed.
SignedPartWithAnchor(m) == <<m.body, m.anchored>>

SignedPart(m) == <<m.body>>

\* Which signer it is depends on the request and on which ones fail.  The
\* digest of what was signed (payload_sha256) is kept beside the signature.
Sign(kind) ==
  /\ phase = "walked"
  /\ draft' = [draft EXCEPT !.kind = kind, !.over = SignedPart(draft), !.sha = SignedPart(draft)]
  /\ phase' = "signed"
  /\ UNCHANGED <<log, there, lastId, damage, file>>

Write ==
  /\ phase = "signed"
  /\ file' = draft
  /\ phase' = "written"
  /\ UNCHANGED <<log, there, lastId, damage, draft>>

\* On request the root is anchored and the manifest written once more.
Anchor ==
  /\ phase = "written"
  /\ file' = [draft EXCEPT !.anchored = TRUE]
  /\ phase' = "idle" /\ draft' = Absent
  /\ UNCHANGED <<log, there, lastId, damage>>

\* No anchor was asked for, or it is refused after the manifest was written.
Finish ==
  /\ phase = "written"
  /\ phase' = "idle" /\ draft' = Absent
  /\ UNCHANGED <<log, there, lastId, damage, file>>

\* The server dies; a write it was in leaves part of the file.
ServerDies ==
  /\ phase # "idle"
  /\ file' \in IF phase \in {"signed", "written"} THEN {file, Torn} ELSE {file}
  /\ phase' = "idle" /\ draft' = Absent
  /\ UNCHANGED <<log, there, lastId, damage>>

-----------------------------------------------------------------------------
(* Damage to the files while they lie there.                                *)

Damaged ==
  /\ phase = "idle" /\ damage < MaxDamage
  /\ damage' = damage + 1
  /\ UNCHANGED <<there, phase, draft>>

AlterLine(i) ==
  /\ Damaged /\ lastId < MaxLines
  /\ \E record \in Records :
       log' = [log EXCEPT ![i] = [@ EXCEPT !.id = lastId + 1, !.raw = lastId + 1,
                                           !.kind = record[1], !.call = record[2]]]
  /\ lastId' = lastId + 1
  /\ UNCHANGED file

\* Other bytes for the same five fields, in canonical form or not.
Respell(i) ==
  /\ Damaged /\ lastId < MaxLines
  /\ \E canonical \in BOOLEAN :
       log' = [log EXCEPT ![i] = [@ EXCEPT !.raw = lastId + 1, !.canonical = canonical]]
  /\ lastId' = lastId + 1
  /\ UNCHANGED file

GarbleLine(i) ==
  /\ Damaged /\ log[i].readable
  /\ log' = [log EXCEPT ![i].readable = FALSE]
  /\ UNCHANGED <<lastId, file>>

\* A file that went through another system has "\r\n" where the writer put "\n".
AddReturn(i) ==
  /\ Damaged /\ ~ log[i].returns
  /\ log' = [log EXCEPT ![i].returns = TRUE]
  /\ UNCHANGED <<lastId, file>>

LoseTail(n) ==
  /\ Damaged
  /\ log' = SubSeq(log, 1, n)
  /\ UNCHANGED <<lastId, file>>

AlteredBodies(b) ==
  { [b EXCEPT !.count = @ + 1], [b EXCEPT !.leafCount = @ + 1], [b EXCEPT !.extra = 1],
    [b EXCEPT !.final = MaxLines + 1], [b EXCEPT !.root = << >>] }
  \union {[b EXCEPT !.leaves = Restrict(@, DOMAIN @ \ {i})] : i \in DOMAIN b.leaves}

\* A field of what is signed, or the digest beside the signature.
AlterManifest ==
  /\ Damaged /\ file.state = "written"
  /\ \/ \E b \in AlteredBodies(file.body) \ {file.body} : file' = [file EXCEPT !.body = b]
     \/ \E d \in {<< >>, <<[file.body EXCEPT !.extra = 2]>>} : file' = [file EXCEPT !.sha = d]
  /\ UNCHANGED <<log, lastId>>

-----------------------------------------------------------------------------
(* verify_manifest: what "overall" says of the two files.                   *)

LogAgrees(b) ==
  /\ there /\ OpensWell(log) /\ ChainVerifies(log)
  /\ b.count = Len(log) /\ b.final = FinalHash(log) /\ b.leaves = Leaves(log)

SignaturePresent(m) == m.sha # << >>

SignatureHolds(m) == SignaturePresent(m) /\ (m.kind = "ed25519" => m.over = SignedPart(m))

Overall ==
  /\ file.state = "written"
  /\ LogAgrees(file.body)
  /\ file.body.root = file.body.leaves
  /\ file.body.leafCount = Cardinality(DOMAIN file.body.leaves)
  /\ SignatureHolds(file)

-----------------------------------------------------------------------------
(* manifest-verify-offline.py, standard library only: the same replay,      *)
(* written again, and a log without a record is a break.  The final hash    *)
(* and the leaves are of the lines as they are, not of five of their        *)
(* fields.                                                                  *)
AsWritten(l) == [i \in DOMAIN l |-> [l[i] EXCEPT !.id = l[i].raw]]

RawLeaves(l) == Leaves(AsWritten(l))

\* Variant: the anchor is part of what the signature is checked against.
OfflineSignedPartWithAnchor(m) == <<m.body, m.anchored>>

OfflineSignedPart(m) == <<m.body>>

OfflineReplays(l) == l # << >> /\ ChainVerifies(l)

OfflineLogAgrees(b) ==
  /\ b.count = Len(log) /\ b.final = DigestOfLast(log)
  /\ b.leaves = RawLeaves(log)

OfflineOverall ==
  /\ file.state = "written"
  /\ there /\ OfflineReplays(log) /\ OfflineLogAgrees(file.body)
  /\ file.body.root = file.body.leaves
  /\ file.body.leafCount = Cardinality(DOMAIN file.body.leaves)
  /\ SignaturePresent(file)
  /\ file.kind = "ed25519" => file.over = OfflineSignedPart(file)

(* verify-chain.ts: the lines are split at either line end, a digest is of  *)
(* the bytes that leaves, and no canonical form is asked for.               *)
Stripped(l) == [i \in DOMAIN l |-> [l[i] EXCEPT !.returns = FALSE]]

Folds(l) ==
  \A i \in DOMAIN l : /\ l[i].readable
                      /\ l[i].seq = i
                      /\ l[i].prev = (IF i = 1 THEN 0 ELSE Digest(l[i - 1]))

\* Everything but the signature: the field of the anchor, empty or not, is in every manifest.
WithoutSignature(m) == <<m.body, m.anchored>>

BrowserLogAgrees(l, b) ==
  /\ Folds(l)
  /\ b.count = Len(l) /\ b.final = DigestOfLast(l) /\ b.leaves = RawLeaves(l)

BrowserOverall ==
  /\ there /\ file.state = "written"
  /\ BrowserLogAgrees(Stripped(log), file.body)
  /\ file.body.root = file.body.leaves
  /\ file.body.leafCount = Cardinality(DOMAIN file.body.leaves)
  /\ SignaturePresent(file)
  /\ file.kind = "ed25519" => file.over = WithoutSignature(file)

(* validate-submission-assets.py: lines split like the browser's, in        *)
(* canonical form, and no signature will do but that of the local key,      *)
(* beside the digest of the body it is over.                                *)
PacketLogAgrees(l, b) ==
  /\ ChainVerifies(l)
  /\ b.count = Len(l) /\ b.final = DigestOfLast(l) /\ b.leaves = RawLeaves(l)
  /\ b.leafCount = Cardinality(DOMAIN b.leaves) /\ b.root = RawLeaves(l)

PacketSignatureHolds(m) == m.kind = "ed25519" /\ m.sha = <<m.body>> /\ m.over = <<m.body>>

PacketOverall ==
  /\ there /\ file.state = "written"
  /\ log # << >> /\ PacketLogAgrees(Stripped(log), file.body)
  /\ PacketSignatureHolds(file)

-----------------------------------------------------------------------------
Next ==
  \/ \E record \in Records : AppendRecord(record)
  \/ CheckCitations \/ Walk \/ (\E kind \in Signers : Sign(kind))
  \/ Write \/ Anchor \/ Finish \/ ServerDies
  \/ \E i \in DOMAIN log : AlterLine(i) \/ Respell(i) \/ GarbleLine(i) \/ AddReturn(i)
  \/ \E n \in 0..(Len(log) - 1) : LoseTail(n)
  \/ AlterManifest

Spec == Init /\ [][Next]_vars

-----------------------------------------------------------------------------
(* Properties.                                                              *)

(* "an uncited finding must never be sealed" (manifest.py:194-196): in a log *)
(* that verifies against its manifest every finding names a tool call       *)
(* recorded before it.                                                      *)
VerifiedMeansCited == Overall => Uncited(log) = {}

\* Two lines with the same five fields, whatever other bytes they have.
SameRecord(line, was) ==
  [line EXCEPT !.raw = 0, !.canonical = TRUE] = [was EXCEPT !.raw = 0, !.canonical = TRUE]

(* What verifies is what was sealed: the log line for line, and under an    *)
(* ed25519 signature the manifest too.  The count, the final hash, the      *)
(* leaves, the chain and the signature cover for one another                *)
(* (manifest.py:386-416, 471-484).  Of the last line, which no other one    *)
(* names, they cover the five fields and not the bytes: the final hash is   *)
(* of the record read from it (manifest.py:142-149).                        *)
VerifiedMeansUntouched ==
  Overall => /\ Len(log) = Len(file.from)
             /\ \A i \in DOMAIN log : IF i < Len(log) THEN log[i] = file.from[i]
                                                     ELSE SameRecord(log[i], file.from[i])
             /\ file.kind = "ed25519" => file.body = Body(file.from)

(* A manifest made from a chain that replays verifies as long as nobody     *)
(* touches the two files, whoever signed it, anchored or not, after any     *)
(* number of crashed attempts.                                              *)
CleanRunVerifies ==
  /\ file.state = "written" /\ there /\ log = file.from
  /\ ChainVerifies(log) /\ file.body = Body(log) /\ SignaturePresent(file)
  => Overall

\* The digests that verify_manifest takes of five fields are those of the lines.
ReadAsWritten(l) == \A i \in DOMAIN l : i = Len(l) \/ l[i].kind = "finding_approved" => l[i].id = l[i].raw

(* The three other verifiers share no code with verify_manifest.  The        *)
(* offline script says what it says ("Mirror of the product",                *)
(* manifest-verify-offline.py:413) of every pair of files, but for an empty  *)
(* log, which only verify_manifest lets a manifest of no records stand for,  *)
(* and for a last line or a finding in other bytes than those of its five    *)
(* fields, which only verify_manifest accepts.                               *)
(* What the browser or the packet check accepts is the log that was sealed,  *)
(* but for line ends; and of what the first two both accept the packet check *)
(* takes all that the local key signed, unless the digest kept beside the    *)
(* signature differs, and the browser all the rest.                          *)
VerifiersAgree ==
  /\ OfflineOverall <=> (Overall /\ log # << >> /\ ReadAsWritten(log))
  /\ BrowserOverall \/ PacketOverall => Stripped(log) = Stripped(file.from)
  /\ Overall /\ OfflineOverall =>
       IF file.kind = "ed25519" THEN PacketOverall <=> file.sha = SignedPart(file)
                                ELSE BrowserOverall

(* "so a valid chain verifies here" (verify-chain.ts:16-18).                *)
ValidVerifiesInBrowser == Overall => BrowserOverall

=============================================================================
