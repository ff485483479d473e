------------------------------ MODULE AuditLog ------------------------------
(***************************************************************************)
(* The hash-chained JSONL audit log: services/agent/findevil_agent/crypto/ *)
(* audit_log.py, class AuditLog, and the way every MCP handler uses it     *)
(* (open the file, append one record, drop the object).                    *)
(*                                                                         *)
(* The file is a sequence of physical lines.  A line that parses is a      *)
(* record with the fields the chain is about: its seq, the digest it names *)
(* as its predecessor, and its own digest.  Digests are model numbers: the *)
(* n-th record ever built has digest n, since every record carries its own *)
(* timestamp and payload and SHA-256 is taken to be collision free.  A     *)
(* line that json.loads rejects is Garbage: a fragment left by a torn      *)
(* write, or two records fused because the newline between them was lost.  *)
(***************************************************************************)
EXTENDS Integers, Sequences

CONSTANTS
  Writers,     \* the AuditLog objects that may exist at the same time
  Uses,        \* the ways the log may be used, of which a run has one, see use
  MaxRecords   \* bound: records ever built

TearKinds == {"fragment", "no_newline"}

ASSUME UsesAssumption ==
  Uses \subseteq [exclusive : BOOLEAN, tears : SUBSET TearKinds, reuse : BOOLEAN]
ASSUME MaxRecordsAssumption == MaxRecords \in Nat

VARIABLES
  lines,     \* the non-blank physical lines of audit.jsonl
  complete,  \* FALSE when the last line lost its newline
  synced,    \* how many lines are known to be on stable storage
  built,     \* how many records were ever built: the source of fresh digests
  pc,        \* per object: where it is in its life
  nextSeq,   \* per object: AuditLog._next_seq
  lastHash,  \* per object: AuditLog._last_hash
  pending,   \* per object: digest of the record being appended
  acked,     \* digests of the records whose append returned, in that order
  use        \* how the log is used, the same for ever

fileVars   == <<lines, complete, synced>>
objectVars == <<pc, nextSeq, lastHash, pending>>
vars       == <<lines, complete, synced, built, pc, nextSeq, lastHash, pending, acked, use>>

\* TRUE: at most one object at a time (one server process whose handlers never await);
\* FALSE: several server processes.
Exclusive == use.exclusive
\* What a write cut short can leave behind.
Tears == use.tears
\* TRUE: a caller may go on using an object whose append raised.
ReuseAfterError == use.reuse

Genesis == 0                      \* the empty prev_hash of the first record

Record(s, p, d) == [ok |-> TRUE, seq |-> s, prev |-> p, digest |-> d]
Garbage         == [ok |-> FALSE, seq |-> 0, prev |-> Genesis, digest |-> Genesis]

LastLine == lines[Len(lines)]

-----------------------------------------------------------------------------
(* The checks of the code, as predicates over the lines of a file.         *)

\* Variant: the seq/count comparison of _load_tail is missing.
TailAcceptedNoCount(ls) == Len(ls) > 0 => ls[Len(ls)].ok

\* _load_tail parses the last line only, and compares its seq with the count.
TailAccepted(ls) ==
  Len(ls) > 0 => /\ ls[Len(ls)].ok
                 /\ ls[Len(ls)].seq + 1 = Len(ls)

DigestBefore(ls, k) == IF k = 1 THEN Genesis ELSE ls[k - 1].digest

\* verify() replays every line; a record is written in canonical form, so the
\* canonical round trip holds of every line that parses.
LinksTo(ls, k) ==
  /\ ls[k].ok
  /\ ls[k].seq = k - 1
  /\ ls[k].prev = DigestBefore(ls, k)

Verifies(ls) == \A k \in 1..Len(ls) : LinksTo(ls, k)

-----------------------------------------------------------------------------
Init ==
  /\ lines = << >>
  /\ complete = TRUE
  /\ synced = 0
  /\ built = 0
  /\ pc = [w \in Writers |-> "closed"]
  /\ nextSeq = [w \in Writers |-> 0]
  /\ lastHash = [w \in Writers |-> Genesis]
  /\ pending = [w \in Writers |-> Genesis]
  /\ acked = << >>
  /\ use \in Uses

\* Variant: handlers of one server process interleave.
AloneNever(w) == TRUE

Alone(w) == \A v \in Writers \ {w} : pc[v] \in {"closed", "refused"}

(* AuditLog(path): _load_tail reads the file and caches its tail, or raises.*)
Open(w) ==
  /\ pc[w] \in {"closed", "refused"}
  /\ Exclusive => Alone(w)
  /\ TailAccepted(lines)
  /\ pc' = [pc EXCEPT ![w] = "ready"]
  /\ nextSeq' = [nextSeq EXCEPT ![w] = Len(lines)]
  /\ lastHash' = [lastHash EXCEPT ![w] = IF Len(lines) = 0 THEN Genesis ELSE LastLine.digest]
  /\ UNCHANGED <<lines, complete, synced, built, pending, acked, use>>

OpenRefused(w) ==
  /\ pc[w] = "closed"
  /\ ~ TailAccepted(lines)
  /\ pc' = [pc EXCEPT ![w] = "refused"]
  /\ UNCHANGED <<lines, complete, synced, built, nextSeq, lastHash, pending, acked, use>>

(* append(): the record is built from the cached tail and written.  O_APPEND *)
(* puts the bytes at the end of the file: after a newline they are a line of *)
(* their own, otherwise they continue the unfinished line, which no longer   *)
(* parses.                                                                   *)
NewRecord(w) == Record(nextSeq[w], lastHash[w], built + 1)

WithBytes(line) ==
  IF complete THEN Append(lines, line)
              ELSE [lines EXCEPT ![Len(lines)] = Garbage]

Write(w) ==
  /\ pc[w] = "ready"
  /\ built < MaxRecords
  /\ lines' = WithBytes(NewRecord(w))
  /\ complete' = TRUE
  /\ built' = built + 1
  /\ pending' = [pending EXCEPT ![w] = built + 1]
  /\ pc' = [pc EXCEPT ![w] = "written"]
  /\ UNCHANGED <<synced, nextSeq, lastHash, acked, use>>

\* Variant: append returns before the line is on stable storage.
SyncNoFsync(w) ==
  /\ pc[w] = "written"
  /\ lastHash' = [lastHash EXCEPT ![w] = pending[w]]
  /\ nextSeq' = [nextSeq EXCEPT ![w] = @ + 1]
  /\ acked' = Append(acked, pending[w])
  /\ pc' = [pc EXCEPT ![w] = "ready"]
  /\ UNCHANGED <<lines, complete, synced, built, pending, use>>

(* os.fsync returned: only now are the cached tail and the caller updated.  *)
Sync(w) ==
  /\ pc[w] = "written"
  /\ synced' = Len(lines)
  /\ lastHash' = [lastHash EXCEPT ![w] = pending[w]]
  /\ nextSeq' = [nextSeq EXCEPT ![w] = @ + 1]
  /\ acked' = Append(acked, pending[w])
  /\ pc' = [pc EXCEPT ![w] = "ready"]
  /\ UNCHANGED <<lines, complete, built, pending, use>>

AfterError(w) == IF ReuseAfterError THEN {"ready", "closed"} ELSE {"closed"}

(* os.fsync raised: the line is in the file, the cached tail is not advanced. *)
SyncFails(w) ==
  /\ pc[w] = "written"
  /\ \E next \in AfterError(w) : pc' = [pc EXCEPT ![w] = next]
  /\ UNCHANGED <<lines, complete, synced, built, nextSeq, lastHash, pending, acked, use>>

(* The write itself is cut short: the disk is full, or the process dies.    *)
Torn(w, tear) ==
  IF tear = "fragment" THEN Garbage ELSE NewRecord(w)

WriteFails(w) ==
  /\ pc[w] = "ready"
  /\ built < MaxRecords
  /\ \E tear \in Tears :
       /\ lines' = WithBytes(Torn(w, tear))
       /\ complete' = FALSE
  /\ built' = built + 1
  /\ \E next \in AfterError(w) : pc' = [pc EXCEPT ![w] = next]
  /\ UNCHANGED <<synced, nextSeq, lastHash, pending, acked, use>>

(* The handler returns and the object is dropped.                           *)
Close(w) ==
  /\ pc[w] = "ready"
  /\ pc' = [pc EXCEPT ![w] = "closed"]
  /\ UNCHANGED <<lines, complete, synced, built, nextSeq, lastHash, pending, acked, use>>

(* The machine stops: every object is gone and the lines that no fsync      *)
(* covered may be lost, the last surviving one torn.                        *)
Surviving == {n \in 0..Len(lines) : n >= synced}

TornAt(n, tear) ==
  /\ n > synced
  /\ lines' = IF tear = "fragment" THEN [SubSeq(lines, 1, n) EXCEPT ![n] = Garbage]
                                   ELSE SubSeq(lines, 1, n)
  /\ complete' = FALSE

SurvivesTo(n) ==
  \/ /\ lines' = SubSeq(lines, 1, n)
     /\ complete' = (IF n = Len(lines) THEN complete ELSE TRUE)
  \/ \E tear \in Tears : TornAt(n, tear)

PowerLoss ==
  /\ \E n \in Surviving : SurvivesTo(n)
  /\ pc' = [w \in Writers |-> "closed"]
  /\ UNCHANGED <<synced, built, nextSeq, lastHash, pending, acked, use>>

HandlerStepOf(w) ==
  \/ Open(w) \/ OpenRefused(w) \/ Close(w)
  \/ Write(w) \/ WriteFails(w)
  \/ Sync(w) \/ SyncFails(w)

Next == (\E w \in Writers : HandlerStepOf(w)) \/ PowerLoss

Spec == Init /\ [][Next]_vars

-----------------------------------------------------------------------------
(* Properties.                                                             *)

Digests    == 0..MaxRecords
Line       == [ok : BOOLEAN, seq : Nat, prev : Digests, digest : Digests]
LinesOf(d) == {k \in 1..Len(lines) : lines[k].ok /\ lines[k].digest = d}

Live(w) == pc[w] \in {"ready", "written"}

TypeOK ==
  /\ lines \in Seq(Line)
  /\ complete \in BOOLEAN /\ (~ complete => Len(lines) > 0)
  /\ synced \in 0..Len(lines)
  /\ built \in 0..MaxRecords
  /\ pc \in [Writers -> {"closed", "refused", "ready", "written"}]
  /\ nextSeq \in [Writers -> Nat]
  /\ lastHash \in [Writers -> Digests]
  /\ pending \in [Writers -> Digests]
  /\ acked \in Seq(Digests)
  /\ use \in Uses

(* The constructor reads one line of the whole file (audit_log.py:137-166). *)
(* Whatever the interleaving of the writers, a file it accepts passes the   *)
(* full replay of verify(): the seq/count comparison stands for the check   *)
(* of every line.                                                           *)
TailCheckSuffices == TailAccepted(lines) => Verifies(lines)

(* The conditions under which the tail check suffices: no write is ever cut *)
(* short, or one object at a time writes, is dropped when its append raised, *)
(* and a cut write loses more than the final newline.                       *)
DisciplinedUse(u) ==
  \/ u.tears = {}
  \/ u.exclusive /\ ~ u.reuse /\ u.tears \subseteq {"fragment"}
Disciplined == DisciplinedUse(use)

PrefixLinked(n) == \A k \in 1..n : LinksTo(lines, k)

\* How many lines others added to the file since object w last looked at it.
Behind(w) == Len(lines) - nextSeq[w] - (IF pc[w] = "written" THEN 1 ELSE 0)
OwnTail(w) == IF pc[w] = "written" THEN pending[w] ELSE lastHash[w]

(* The inductive form of TailCheckSuffices.  An object that has missed a    *)
(* line can never catch up (Behind never decreases), so every record it     *)
(* still writes carries a seq below its position in the file; an object     *)
(* that has missed nothing holds the true tail of a file that verifies.     *)
TailInv ==
  /\ \A n \in 1..Len(lines) : lines[n].ok /\ lines[n].seq = n - 1 => PrefixLinked(n)
  /\ \A w \in Writers : Live(w) =>
        /\ complete
        /\ Behind(w) >= 0
        /\ Behind(w) = 0 => /\ PrefixLinked(Len(lines))
                            /\ OwnTail(w) = DigestBefore(lines, Len(lines) + 1)
  /\ ~ complete => Tears # {} /\ ~ LastLine.ok
  /\ Exclusive => \A v, w \in Writers : Live(v) /\ Live(w) => v = w

(* A record whose append returned is in the file, as a line of its own that *)
(* parses, for ever after: through later appends by anyone, failed appends  *)
(* and power loss ("Every append fsyncs", audit_log.py:18).                 *)
AckedKept == \A i \in DOMAIN acked : \E k \in LinesOf(acked[i]) : k <= synced

(* Used by one object at a time the file always passes verify(), but for    *)
(* the fragment a write cut short leaves at its very end.                   *)
ChainIntact ==
  Exclusive /\ ~ ReuseAfterError =>
    \A k \in DOMAIN lines : LinksTo(lines, k) \/ (k = Len(lines) /\ ~ complete)

(* "If the writer crashes mid-line, the next writer detects a torn tail via *)
(* hash mismatch and refuses to extend" (audit_log.py:18-20).               *)
TornTailRefused == ~ complete => \A w \in Writers : pc[w] # "ready"

=============================================================================
