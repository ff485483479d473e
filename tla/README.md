# A formal model of VERDICT DFIR

TLA+ modules, TLC configurations and TLAPS proofs for the parts of this
repository that decide whether a verdict can be trusted: the audit log, those
who follow and verify it, the transport between the engine and its tool
servers, the tools' own bounds and what they leave mounted, the lanes that call
them, and the path from a drafted finding to a sealed verdict. Paths below are
relative to the repository's root.

Contents

1. [The system](#1-the-system)
2. [What is hard about it](#2-what-is-hard-about-it)
3. [Modules and the code they model](#3-modules-and-the-code-they-model)
4. [Runs: what is checked, bounds, fairness](#4-runs-what-is-checked-bounds-fairness)
5. [What is proved, and how](#5-what-is-proved-and-how)
6. [Where the code and its own documentation disagree](#6-where-the-code-and-its-own-documentation-disagree)
7. [What is only model-checked, and what is not modelled](#7-what-is-only-model-checked-and-what-is-not-modelled)
8. [Plan](#8-plan)
9. [Working on the project](#9-working-on-the-project)

## 1. The system

VERDICT investigates a disk image, a memory dump or a directory of artifacts
and answers SUSPICIOUS, INDETERMINATE or NO_EVIL, with findings that each cite
the tool call they come from, in a log that can be verified later.

```
   scripts/find_evil_auto.py  (the engine: one process, several threads)
     |  lanes, parallel calls, agent loop, gates   [Investigation, Coverage]
     |  report QA                                  [ReportQa, Coverage]
     |  reason(), compute_verdict()                [Reasoning]
     |  JSON-RPC over pipes: SshMcpClient          [EngineRpc]
     |
     +--> services/mcp        Rust server, one request at a time
     |      tools/*.rs        parsers and their limits      [ToolAnswers]
     |      tools/disk.rs     mount, extract, unmount       [DiskSession,
     |                                                       DiskArtifacts]
     |      proc_runner.rs    external tools, bounded       [ProcRunner]
     |
     +--> services/agent_mcp  Python server: audit_append, verify_finding,
     |      judge_findings, correlate_findings, manifest_finalize, ...
     |        +--> services/agent/findevil_agent
     |               crypto/audit_log.py                    [AuditLog]
     |               crypto/manifest.py, merkle.py          [SealedRun, Merkle]
     |               verifier.py, judge.py, correlator.py   [Reasoning]
     |               mcp_client.py: its own client of
     |                 services/mcp, for replays            [StdioClient]
     |
     +--> the case directory: audit.jsonl, verdict.json, run.manifest.json,
          session_resources.json
            read by apps/web (follows the log, verifies)    [AuditTail, SealedRun]
                    scripts/manifest-verify-offline.py      [SealedRun]
                    scripts/validate-submission-assets.py   [SealedRun, Packet]
```

| Component | State it keeps | Operations | What makes it correct |
|---|---|---|---|
| Audit log (`crypto/audit_log.py`) | `audit.jsonl`; per object the cached `_next_seq` and `_last_hash` | constructor with its tail check, `append` (write, flush, fsync), `verify` | what the constructor accepts passes the full replay; a record whose append returned stays |
| Dashboard (`apps/web`) | position and line buffer of `tailAuditLog`, a watcher | first read, attach, read at each change; re-verify | every line once, in order; agrees with the other verifiers |
| Engine RPC client (`SshMcpClient`) | id counter, table of waiters with one-slot queues, closed flag, one reader thread | `call`, the reader thread, end of file | a call gets its own reply or a failure; every call returns; nobody waits on a reader that ended |
| Tool server loop (`server.rs`) | none between requests | read a line, handle, reply | serial: the clients depend on it |
| Agent's stdio client (`mcp_client.py`) | process, lock, id counter, closed flag, threads left in `readline` | `call_tool`, the timeout of its reader, `close` | a call gets its own reply |
| Bounded tool runner (`proc_runner.rs`) | the child, its process group, a deadline, two drain threads | `run_with_timeout` | returns; kills the whole group as far as `/proc` and `kill(1)` let it; hits nobody else |
| Tool answers (`tools/*.rs`) | none | limit, filter, count, refuse or degrade | an answer that looks whole is whole |
| Disk session (`disk.rs`) | `session_resources.json`; the mounts of the host | mount, extract, unmount | what is mounted is recorded and can be released |
| Disk artifacts (`disk.rs`, `ewf_segments.rs`) | none | choose files under a budget, count what was left, find the segments of an image | no class starves; nothing deleted goes astray; a set with a gap is refused |
| Resilience and heartbeat | streak of failures, escalation flag, absent tools | `_call_resilient`, `_record_tool`, `_course_correct`, `_heartbeat_abort` | repeated failure ends the run at the next group of lanes |
| Lanes and parallel calls | agenda of a run, leased servers | one lane per kind of evidence; `_parallel_tool_calls` | what a claim cites answered; records in the order of calls |
| Agent loop (`agentloop/`) | steps, tool calls seen, findings | `run` to `max_steps`, the tool bridge | ends; a finding cites a call the loop saw answer |
| Coverage and no-evil gates | none | `build_coverage_manifest`, `compute_verdict` without findings, QA checks | NO_EVIL only over entries that were parsed, up to the caps; a clean run gets it |
| Verifier, judge, correlator | none | `reverify_finding`; merge of two pools; execution claims without two classes lowered | no tier above what the replays earned, no finding lost |
| Reasoning phase (`reason`, `compute_verdict`) | findings, replay failures, streak, merged findings | replay, send again, record, judge, ablate, correlate, rule | the verdict claims no more, and hides no more, than the replays support |
| Manifest (`crypto/manifest.py`) and three further verifiers | `run.manifest.json`, over `audit.jsonl` | `build_manifest`, `write_manifest`, anchor, verify | what verifies is what was sealed, and no uncited finding is in it |
| Merkle tree (`merkle.py`, `merkle.rs`) | the leaves | append, root, inclusion proof, its verification | root and count determine the leaves; every proof rebuilds the root |
| End of a run, report QA and packet check | the case directory, which a second run writes over | final form, approval, `verdict.json`, its hash, seal | a run that lost a step does not pass; an undisturbed one does |
| Memory store, fleet, launcher, decoders, metrics, rendering | files, a SQLite table, or nothing | see `PROJECT.json` | — |

How they meet: the engine calls both servers through the same client class and
appends every step to the audit log by a tool call. `verify_finding`, inside
the Python server, makes a `StdioMcpClient`, replays one tool call with it and
drops it. `manifest_finalize` reads the log that `audit_append` wrote;
`manifest_verify`, the offline script, the browser and the packet check read it
again, later, elsewhere. Nothing but the file system joins the processes: the
lock in `AuditLog` belongs to one object and does not hold off another. The
results of the lanes (`streak`, `escalated`, the drafts and the calls they cite)
are what `Reasoning` starts from, in any combination.

## 2. What is hard about it

`PROJECT.json` lists forty hazards, each at its line, all with a property. By
kind:

* **Threads and pipes.** A late reply is routed while its caller times out; end
  of file arrives while a call registers; a write blocks with the lock held;
  `put` on a one-slot queue blocks the thread that was to wake everybody; a
  thread abandoned in `readline` takes the reply of the next call; a server of a
  parallel batch does not start.
* **Files.** Two processes read one tail and both append; a crash between
  `write` and `fsync`, or inside the write; `fsync` raises after the line
  reached the file; a manifest derived from two separate passes over a file
  that grows; a manifest, a verdict or a ledger written in place; a follower
  that reads half a line.
* **Two stores.** The mounts of the host and the ledger: a layer mounted and no
  row written, a teardown that released one layer of two, a server killed with
  a request in hand.
* **Processes.** Children that leave the group, fork while `/proc` is read, or
  keep the pipe open after their parent ended; process ids handed out again
  between listing and signal; an unreadable `/proc`, a signal that fails, a
  `mount` or `umount` that never returns.
* **Limits.** A limit before a filter, a filter before a limit, a counter that
  stops with the loop: a short answer that passes for a complete one. Caps per
  kind of evidence, and one budget of registry queries for all hives.
* **Rulings.** A retry under other rules than the first attempt; a merge that
  raises a tier after the verifier lowered it; a judge or a correlator that
  fails and takes findings with it; counters that only some calls reset; three
  tables, edited apart, of the tools that open a class.
* **Numbers.** Odd tiers of the Merkle tree; floating point on the judge's
  thresholds; the last segment of a split image.

Seen and without a property, most of them because a model of them would restate
one line: `call_tool` looks at the closed flag before it takes the lock, so a
call can start a server after `close` (`mcp_client.py:188`; an action of
`StdioClient` all the same); a stderr pipe nobody reads (`mcp_client.py:151`);
a memory row committed whose audit append then fails (`memory_remember.py:67`);
the extra servers of a batch are started before the `try`, so those started are
left running when a later one fails (`find_evil_auto.py:14660`); a T1014
finding lowered to HYPOTHESIS gives INDETERMINATE (`find_evil_auto.py:16127`);
the anchor is written after the manifest is signed (`Anchor` in `SealedRun`);
which findings pair in the merge depends on which survive (`judge.py:167`,
covered by `Reasoning`'s merge over the accepted ones).

## 3. Modules and the code they model

`PROJECT.json` maps every definition to its lines.

**AuditLog** — class `AuditLog` and its use by the MCP handlers. The file is a
sequence of physical lines; a line is a record (seq, named predecessor, own
digest) or garbage that does not parse. Digests are fresh numbers, since every
record carries its timestamp and SHA-256 is taken to be collision free. `Open`
is the constructor, `Write` and `Sync` the two halves of `append` that a crash
or another process can fall between, `SyncFails` and `WriteFails` their
exceptions, `PowerLoss` the loss of lines that no fsync covered. `Uses` holds
the ways the class may be used, of which a behaviour has one: `exclusive` (one
server process, whose handlers do not interleave), `reuse` (a caller keeps an
object whose append raised), `tears` (what a cut write leaves).

**AuditTail** — `AuditLog` with a dashboard that follows the file
(`tailAuditLog`, `apps/web/lib/audit-tail.ts`). Each of its awaits is a step:
the first read of the whole file, the attaching of the watcher, `stat`, the
read, and the moment the position is set; a second change may start a second
read in between. A line is two pieces, so that a read can see half of one. What
is sent is given by position: the members of a set of lines, in ascending order.

**EngineRpc** — `SshMcpClient` (`scripts/find_evil_auto.py:763-960`) with the
serial server behind it. A caller's steps are those between which a thread can
be overtaken: register under the lock, write (which can block, lock held),
wait, leave the table. The reader thread reads, looks up the waiter under the
lock, and puts into its queue after releasing it. The server may hang at a tool
for ever, and may die at any step. **RpcPromise** is the abstract
specification: a call ends once, with the reply to that very call, or fails.
`Promise == INSTANCE RpcPromise WITH ...` maps a caller inside `call()` to a
pending call.

**StdioClient** — `StdioMcpClient` (`mcp_client.py`), whose reader is a thread
per call that does not look at ids. The threads left behind by timeouts are
part of the state. It implements the same `RpcPromise`.

**ProcRunner** — `run_with_timeout` and the processes around it. The runner
polls, lists `/proc` entry by entry, signals member by member, kills and reaps
the leader, and joins the drain threads. Between any two of these steps the
tool forks, leaves the group, closes the pipe or exits, and outsiders start and
end on free ids; an id that names a process group is not handed out. The kill is
best effort, as in the code: the group may be left alone altogether (no `/proc`,
a name that is not UTF-8), any entry may be unreadable, any signal may fail, that
to the leader included. `missed` holds the members that live on because of one
of these, so that the properties tell them from members the runner forgets.

**DiskSession** — `disk_mount`, `disk_extract_artifacts` and `disk_unmount`,
over two stores: what the host has mounted, layer by layer (an EWF image has a
container and, on it, a volume), and the rows of `session_resources.json`,
which `fs::write` truncates before it fills. A handler's steps are separate
where something is left behind when the next one fails or the server is killed.
The client is the engine's disk lane (mount, extract, unmount in a `finally`,
giving up after its timeout, closing the server at the end) or an agent that
calls the three as it likes. `AwaitsCommand` names the points at which the
server is inside a program of the host without a time limit (`mmls`, `fls`,
`icat`, the mounts and umounts run by `Command::output`), which may never
return. `faults` says what went wrong so far; `torn` names the mounts whose
teardown released something and then failed.

**DiskArtifacts** — the choice of files to extract (the filters of
`build_candidates`, then queues per class, drawn in turn under a budget), what
becomes of each, the counters of deleted entries,
and the segments of a split image. Operators over one input; the draws are a
function from how many files were taken to what the queues still hold and the
class whose turn is next.

**ToolAnswers** — for 32 tools, the loop that meets its limit, as an operator
from a source (records that are wanted, unwanted, odd, broken or beyond the
tool's own bound), a limit, a filter and the fate of the child process to an
answer (rows, counters, refused, degraded). The rows are the places of the
records they were made from. Six shapes of loop cover them; each tool names its
own, with the order of filter and limit and the counters as in its code.

**Coverage** — from the recorded calls: classes available, touched and
attempted; the empty branch of `compute_verdict`; the QA checks that a run
without findings can fail. Three tables of the tools that open a class:
`TouchedBy` (the coverage manifest), `Substantive` (`compute_verdict`) and
`Applicable` (report QA).

**Investigation** — `Investigation.run` up to `reason()`. The code has a lane
per kind of evidence, written out tool by tool; here a lane is data, a sequence
of items put in front of an agenda that the actions work off. A lane takes the
first so many entries of its class (`Taken`): the caps are the constants `Cap`
and `RegistryCalls`, whose values in the code are named where they are declared.
`CallTool` is
`_call_resilient`, the lane's own handling of a failure (defer, disclose, note
the absence, or nothing) and `_record_tool`; `LaneBoundary` is
`_heartbeat_abort`; `OpenServer` to `Record` are `_parallel_tool_calls`, with
its queue of leased servers, answers in any order, and a server that does not
start; `Respond` to `PodEnds` are the agent loop with its bridge. `chain` is the
audit log as records; each tells the turn and the group of lanes it belongs to,
which the code keeps nowhere and the properties need.

**Reasoning** — `reason()` and `compute_verdict()` with the rulings of the
verifier, judge and correlator as operators. A finding is what decides its
fate: its tier, whether the call it cites exists, its claim, its class. A
replay is one of the six outcomes `reverify_finding` tells apart. `Replay` runs
for the findings of a pool in any order (a thread pool does), `Redispatch` in
theirs. `Labels` has the judge's thresholds in integers; exactly on a threshold
both neighbours are possible, because the code divides in floating point.

**SealedRun** — the log as a sequence of whole lines, the manifest in memory
and the manifest on disk. A line has an identity of its bytes (`raw`) and one
of the record of five fields that a reader makes of it (`id`). The names that
chain the lines are digests of bytes; `verify_manifest` takes the final hash,
and the leaf of a finding, from the record written anew
(`audit_log.py:209-215`, `manifest.py:142-149`), the other three from the
bytes. `CheckCitations`, `Walk`, `Sign`, `Write`, `Anchor` are the steps of
`manifest_finalize`, in its order; `ServerDies` may fall between any two.
Damage is a set of actions: alter, garble or cut lines, spell a line otherwise
(`Respell`: a sixth key, null for `{}`, 3.0 for 3; the bytes change and the
record does not), change a line end, alter the manifest's fields or those
beside its signature, the `payload_sha256` of which the packet check alone
reads the value. `Overall` is `verify_manifest`; `OfflineOverall`,
`BrowserOverall` and `PacketOverall` are the three verifiers that share no code
with it. It takes `AuditLog` for granted (appends are whole lines, as
`ChainIntact` and `AckedKept` say) and `Merkle` too (the root of a leaf
sequence is the sequence, as `RootAndCountBindLeaves` says; all three are
proved). `OthersAppend` lets another process append while this one seals.

**Packet** — the end of a run as thirteen steps in order, of which a run may
lose single ones (`_audit` drops the answer of an append) or all after some
point, and the packet check over what one or two runs left in one case
directory. Whether a run may be signed off is **ReportQa**: the checks of
`build_report_qa_signoff` that can fail, over the findings (support of
execution and exfiltration claims, replays) and what else the run brings along.
Tool call ids and finding ids start anew in each run, so the records of two
runs name the same ids. A fault is a step that a run came to and whose effect
is missing, or the run's early end.

**Merkle** — root, inclusion proof and its verification, checked against a tree
defined by position. The loops are recursive functions from their turns to what
they have made after each, which the prover can reason about.

`MC*` modules give constants their values and declare symmetry; `*Proofs`
modules hold theorems: `AlgorithmsProofs` those about `Merkle`, `DiskArtifacts`,
`ToolAnswers` and `Packet`, `EngineRpcProofs` those about both clients,
`AuditLogProofs` those about the log and its follower. `MCAlgorithms` puts the modules that keep no state next
to each other: a Merkle tree that grows, beside one input of one of the others.

## 4. Runs: what is checked, bounds, fairness

| Run | Shows | Bounds, and why they are enough |
|---|---|---|
| `audit` | Objects of several processes interleave on one file and survive failed fsyncs, or the handlers of one process have writes cut mid-line, and the machine stops: what the O(1) tail check accepts still passes the full replay (`TailCheckSuffices`), acknowledged records stay (`AckedKept`), used by one process the chain verifies but for a fragment at the very end (`ChainIntact`). In the second use a dashboard follows the file (`FollowsTheLog`) | 2 objects, 4 records, 2 reads. Two objects suffice to fork the chain: both read one tail, both append, and a third open must refuse; a fourth record lets a stale object append after the fork. All four are proved for every bound. Two reads suffice to overlap; from there on `FollowsTheLog` claims nothing, and the constraint `UntilOverlap` stops |
| `rpc` | `KeepsPromise` (refinement of `RpcPromise`), `NobodyWaitsOnADeadReader`, `CallsReturn` | 2 threads, 4 calls, stdin room 2, stdout room 1: one thread can have a call time out, and start two more, while the other waits; the pipes can be full on both sides |
| `stdio_one_timeout` | `KeepsPromise` | 4 calls and at most **1 timeout**. With two, a call can get another's result. The bound is the use of the class: `verify_finding` makes a client for one call and drops it |
| `proc_bounded` | `TimeoutEmptiesTheGroup`, `OutsidersAreSpared`, `OnlyPipeOrToolHoldsItUp`: who is left of the group after a timeout was forked after the deadline or spared by a failure the runner met, and nothing but the pipe, or a tool no signal ended, keeps it from returning | 4 process ids, the tool on the second, so that children land before and behind it in `/proc`, a grandchild exists, and an id is handed out again; every read and every signal may fail |
| `disk_session` | `LedgerTellsTheTruth`, `NothingLeftMounted`, `UnrecordedNeedsFault`, `TeardownCanBeRetried`, `RunEnds` | 2 mounts, 3 calls of an agent: mount, unmount, and a retry; a second mount whose ledger write hits the first one's row. Every layout, every failing step, a program of the host that never returns, and a death of the server or the engine at each step |
| `algorithms` | `RootIsOfTheTree`, `ProofsRebuildRoot`, `RootAndCountBindLeaves`; `ClassesShareFairly`, `DeletedAreAccountedFor`, `WholeSetOrRefused`; `UndisturbedRunsPass`, `OneFaultIsCaught`; `WholeAnswersAreWhole` | Merkle: all sequences of up to 9 leaves over 2 digests, heights 0 to 4, odd tiers at every height. Extraction: listings of 2 arbitrary files, of classes that are wanted or not and with recovery of deleted ones on or off, and 4 that can be staged, 2 classes, budgets 0 to 3. Segments: up to 4 numbers, 2 spellings, links. Packet: one run with one fault, two runs with one between them; two faults are outside the claim; every claim over every set of four classes, of each kind of support. Answers: up to 3 records of 5 kinds, limits 0 to 3, so a limit falls before, on and behind each record |
| `investigation` | `EscalatesOnTwoInARow`, `EscalationEndsWithTheGroup`, `BatchKeepsOrder`, `ClaimsCiteAnswers`, `ClearedEntriesWereParsed`, `CleanRunsAreReleased` | 29 plans, each there for a case: every kind of single evidence, directories whose groups follow one another, batches of two and three entries, more entries of a class than its cap (2, and 3 for `mft`) and hives that want 4 registry queries of 3, a zip, an image with files in it, a truncated inventory, an agent. 2 servers: a batch of three must wait for one. Threshold 2, as in the code; 2 responses of an agent with 3 calls |
| `verdict` | `NoTierAboveItsBest`, `SuspiciousIsEarned`, `EveryFindingIsAnswered`, `OneClassIsNotConfirmed`, `NoEvilHidesNothing` | 3 possible findings, one claim made by both pools, one severe; every draft, tier, citation, replay, retry and failure of judge or correlator |
| `sealed_alone` | `VerifiedMeansCited`, `VerifiedMeansUntouched`, `CleanRunVerifies`, `VerifiersAgree` | 4 lines, 2 tool calls, 1 damage: a finding before and after its citation, one cut or altered line anywhere, re-sealing after a crash. One damage is part of the statement, not only a bound: several that agree with each other could pass when the manifest is not signed with ed25519, and nothing in the code claims otherwise |
| `audit_torn_newline`, `browser_reverify`, `verdict_judge_fails` | counterexamples, see section 6 | as small as the counterexample allows |

Deadlock is checked where the modelled system goes on for ever: `audit` (the
machine can always stop and start) and `disk_session` (a finished run says so
with `Finished`; nothing else may stop). The other runs switch it off because
the system may really stop: calls are used up, a runner has returned, a verdict
is given.

A bound is what a run needs to meet every case of the properties it checks.
Most invariants are proved as well (section 5), and those hold for every value
of the constants.

Fairness appears only where a liveness property is checked.

* `EngineRpc!Fairness`: a thread that can step does step, and a wait that is
  not answered times out (`queue.get(timeout=...)`): weak fairness. Taking the
  lock is a competition with the other threads: strong fairness for leaving the
  table, for the lookup and for closing. Nothing is assumed of the server: it
  may hang in a tool, and it need not die. So `CallsReturn` has to allow for
  the one case in which the code does not return: a live server that leaves
  stdin full, as the write has no timeout.
* `ProcRunner!Fairness`: the runner's own steps and the passing of the
  deadline; nothing of the tool or of outsiders, and nothing of the signals.
  `OnlyPipeOrToolHoldsItUp` says exactly what can keep it from returning.
* `DiskSession!Spec`: weak fairness of the server's steps except where it waits
  for a program of the host (`~ AwaitsCommand /\ ServerStep`). `mmls`, `fls`,
  `icat` and the mounts and umounts are run by `Command::output()`, which has no
  time limit (`disk.rs:677`, `:811`, `:1036`, `:1099`, `:1442`), so a hung one
  keeps the server for ever. The client's steps are fair, because its wait for an
  answer is bounded by the timeout of the RPC client, and so is its killing of the
  server at the end. That is enough for `RunEnds`, with the one exception it
  names: an engine that was killed leaves a server behind in such a program. No
  fault is ever forced to happen.

What `WholeAnswersAreWhole` says should be read with care: an answer *looks
whole* when it is not refused, has fewer rows than the limit, and no counter
shows more than came back. Neither sign is enough alone, as section 6 lists.

## 5. What is proved, and how

Forty-nine theorems, in the eight `*Proofs` modules, hold for every value of
the constants that satisfies the assumptions of the modules; `PROJECT.json`
lists them with the properties they state. Thirty-seven of the forty properties
of the passing runs are among them: all but the three that are liveness. Behind
the theorems about a module with state stands an inductive invariant, with a
lemma for each action or kind of action; those about algorithms quantify over
inputs of every size. The type invariants that are proved are not checked again
by a run.

**AuditLog.** `TailInvariant` is the inductive invariant `TailInv` when every
use is disciplined (`\A u \in Uses : DisciplinedUse(u)`, the premise of the
theorems below). The claim of interest, `TailCheckSuffices`, is not
inductive: it says nothing of objects that are open. The argument is about how
far an object is *behind* the file. An object's next seq is the length the file
had when the object last knew its tail, so an object that others have overtaken
writes records whose seq is lower than their position. It advances its seq by
one when it appends one line, so it can never catch up, and no line it ever
writes has a seq equal to its position again. An object that is not behind
holds the true tail of a file that verifies. Hence *a line whose seq equals its
position has a verified prefix before it*, which is what the tail check looks
at. A failed fsync leaves the object one behind its own line: the same case.
The premise is needed: if a write may lose only its newline, two records fuse
on one line, the file is one line shorter than the number of appends, and an
object that was behind is behind no longer. `TailCheckIsEnough` is the
corollary for `TailCheckSuffices`; it covers the fork of the chain by two
processes, which is detected at the next open. `AckedAreKept`: lines up to
`synced` end with their newline, so no action alters them or joins bytes to
them. `ChainStaysIntact`: with one writer at a time the only live object is
never behind, so what it writes extends a chain that replays; its invariant
`ChainInv` rests on `TailInv`.

**AuditTail.** Two results. `FollowedIsLog` is a refinement: every step of the
log with a follower is a step of `AuditLog` or none, so what is proved of the
log holds while somebody looks at it. `FollowerIsInStep` proves
`FollowsTheLog`. Its invariant `FollowInv` says of a follower whose reads never
overlapped that the text waiting for its newline is the beginning of the line
the position is in (or nothing, if the first read cut that line in two), that a
read under way starts where the position is, and that whatever is not read yet
has a change to tell of it, a read that will reach it, or a write still to
become visible. A read then takes pieces from one position to the next, and
`ReadPieces` shows that the lines it completes are the next ones, in order.

**Reasoning.** All five checked invariants, for pools of any size, and
`TypeCorrect`. *Nothing is lost* (`FindingsAreAnswered`, `NoEvilIsEmpty`):
`AnswerInv` follows the passes. When the pass over a pool ends every finding of
it has a ruling, and those that failed are recorded; pool B's pass cannot
disturb pool A's because no finding is in both; the judge puts every accepted
finding into a group, a choice takes one merge of each group, and a merge keeps
its members; what comes after changes tiers only. *Nothing is overstated*
(`TiersAreEarned`, `SuspicionIsEarned`): `MergeIsEarned` is the heart. A pair's
score is `bonus * (va*wa + vb*wb) / (wa + wb)`; if neither value is that of
CONFIRMED it is at most `1.2 * 0.6 = 0.72 < 0.80`, if both are HYPOTHESIS at
most `1.2 * 0.3 = 0.36 < 0.50`, so whatever the weights the label is not above
the better of the two. That needs positive weights: a pool that has a finding
in the pair has an accepted finding (`CountPositive`), and a group of several
findings has one of each pool (`PairHasBoth`). The severe technique of the
alarm is shared by the pair because the technique is part of the group key;
that is in `PoolAssumption`. `OneClassHeldDown`: the ablation comes after the
merge and nothing after it raises a tier.

`PoolAssumption` says: finitely many findings, each of one pool; a pool makes a
claim once (its finding ids differ; the judge's input refuses duplicates); the
same claim is of the same technique. The two failures of the judge are steps of
the model, which is why three statements are about runs in which it answered.

**SealedRun.** All four invariants, for a log of any length and any number of
damages. `SealInv` says of the manifest in the making and of the one on disk
what log they were made from, and what became of its lines since: record
identities are given out once and in order, so a line of the log now is the
line that was in its place then, up to its end or its readability, or bears an
identity newer than all the manifest knows (`Kept`); and so for its bytes. *From
the end to the beginning*: when the manifest's final hash is that of the last
record, or of the last line's bytes, the two logs end alike (`EndAlike`); a line
the manifest saw names, as the one before it, bytes the manifest knows, so the
line before is the manifest's too, byte for byte, and so on
(`EndDeterminesAll`). Of the last line nobody names the bytes, so
`VerifiedIsUntouched` claims them of all the lines but that one, and of that one
the five fields. `VerifiedIsCited` adds that the log was checked for
citations and did not change in between, which is why it needs
`OthersAppend = FALSE`. `TheVerifiersAgree` unfolds the three other verifiers
over the same invariant; their differences (an empty log, changed line ends, a
last line or a finding spelled otherwise, an altered `payload_sha256`) are in the
property.

**Merkle.** All three invariants, for every number of leaves. `Widths`: a tier
by position is half as wide as the one below, rounded up, since
`ceil(n / 2p) = ceil(ceil(n / p) / 2)`; so the tiers of the loop are as long as
those by position are wide (`TiersAreWide`), hold the same nodes up to the
first of width one (`TiersAreNodes`) and stay as they are from there on.
`ProofsRebuildRoots`: the climb of `inclusion_proof` goes through the tiers of
`root` (`ClimbFollows`), its path only grows (`PathGrows`), and hashing the leaf
up the path passes, after each step, through the node the climb was at
(`HashedFollows`, by `PairedStep`, which compares the parities of both sides).
`RootsBindLeaves`: a turn is injective on tiers of one length, and equal counts
give tiers of equal lengths all the way up.

**DiskArtifacts.** For listings of any length, any budget, any number of classes
and segments. `SharesAreFair` follows the draws: after each there is a pass `r`
such that a class before the one whose turn is next was drawn from `r + 1`
times, the others `r` times, and a class drawn from less often has nothing left
(`DrawsAreFair`; a draw moves the turn within the pass or begins the next,
`NextIsNext`). So a class with files left has at most one less than any other,
and not less than a later one. `DeletedAreCounted`: the entries behind the
counters, those that `build_candidates` leaves out on purpose (no class, a class
not wanted, recovery switched off), and those that the budget did not reach or
the cap turned away, are apart from one another and together all the deleted
ones. `SegmentsAreWhole`: the set is handed on in
ascending order without a gap from 1 to the last number, or refused.

**ToolAnswers.** `WholeMeansWhole`, for sources of any length and mixture of
records, every limit and filter, every fate of the child and each of the 32
tools. First the shapes of loop: one that stops with the row that fills the
answer has all it wants when the answer is not full (`LoopsHaveAll`), one that
cuts what it counted has all when the count is not above the rows. Then each
tool reduces to a shape, or to two of them joined. The tools fall into four
sorts (`SortsOfTools`), by which of the two signs says so and whether a bound no
counter shows can hide records.

**Packet.** For any number of runs, with any finding. `UndisturbedPass`: where
nothing was lost the check accepts exactly a run that is alone in its directory,
ready for sign-off and signed with ed25519, whose finding meets the two
conditions the property names. It goes through the conditions of the check, each
of which asks for something a finding ready for sign-off brings along
(`OneRunIsAccepted`). `FaultsAreCaught`: one fault is one step of one run
(`FaultsAreCounted`), and each run writes its verdict and its manifest over those
of the run before; so of an accepted directory the verdict is the last run's,
and that run is the only one or lost nothing (`LastRunIsAccepted`). If it is the
only one, the check has asked for a record of each kind, and only it can have
left them (`EvidenceIsThere`).

The hypotheses of these theorems are the shapes of inputs (`AnyInput`, `AnyCall`,
`AnyRun`). `InputsAreSome`, `CallsAreSome` and `HistoriesAreSome` prove that the
inputs the run goes through are among them, so the theorems cover the run.

**EngineRpc.** `ClientInv` and, from it, `NobodyIsForgotten` and the refinement
`ThePromiseIsKept`: every step of a caller, of the reader and of the server is
a step of `RpcPromise` or leaves what it speaks of as it was. Needed of the
state: a caller has a number nobody else has and is in the table; a queue holds
the reply to its own number or end of file; from the closing on nobody begins
or writes. The lock is what makes the last one true: the snapshot of the
waiters and the closed flag are one step.

**StdioClient.** The second half of `EngineRpcProofs` instantiates it as
`Stdio`. This client looks at no id, so it keeps the promise only while threads
and replies stand in one order: `StdioInv` says that requests, the call in hand
and replies ascend, that while the server runs it owes a reply to each thread in
`readline` and to nobody else, that the replies already in the pipe are those of
the oldest threads, and that the oldest has the buffer. The last is where it
would break: a thread that leaves hands the buffer to *any* of the others, which
is the right one only if there is one. So `StdioKeepsThePromise` has the premise
`[]OneLeftBehind`, one thread at a time that its caller gave up on, over any
number of calls and timeouts; `OneTimeoutIsHarmless` derives the premise, and
with it `KeepsPromise`, for clients of which one call at most times out. TLC
finds the promise broken with two threads left behind.

**ProcRunner.** `RunnerInv`: an outsider leads a group of its own; while ids may
be handed out unnoticed nothing is listed, and a listed id that an outsider has
by now was handed out after the deadline (`NoOutsiderIsHarmed`); after the
deadline every member of the group that is not late, and was not spared by a
failure, is unread or listed, then listed, then gone (`TheGroupIsEmptied`). The
step that spares a member is the only one that may put it on `missed`, so what
is excused is what failed, entry by entry and signal by signal.

**DiskSession.** All four invariants, in two layers. `LedgerInv` gives, for
every point of `disk_mount` and `disk_unmount`, the layers the host holds of the
mount in hand, and of every other row that it claims no more and no less
(`TheLedgerIsTrue`, `AnyTeardownCanBeRetried`). `TurnsInv` says that as long as
nobody gives up on a live server there is one request at most on its way or in
hand, the one the client waits for. `AccountedInv` over both gives
`NoneUnrecordedWithoutFault`; for `TheLaneCleansUp` an invariant names, for each
mount, who will release it: the mount in hand, its answer, the client that
knows it, or the unmount on its way.

**Investigation.** All six invariants, for every set of plans and all caps. The
lanes of a plan are concatenations of any number of parts, so their items are
not enumerated: `LaneSet` is a property of lanes closed under concatenation,
and an agenda that `Fits` fits when its head is worked off. `Streaks` ties the
streak to the records (`TwoInARowEscalates`; it is about the code's threshold,
2, and has `Threshold = 2` as its premise), `Groups` shows that no item of an
agenda skips the gate between two groups (`NoLaterGroup`), `Turns` that the
records of a batch go in the order of its entries whatever the servers do
(`BatchesKeepOrder`).

`ClearedWereParsed` counts: an inventory comes to some number of calls for a class
(`Due`: its entries up to the cap, or the registry queries its hives get), and a
NO_EVIL must have as many answers of that class's parsers. Its invariant
`PlacesInv` gives each of these calls a *place* of its own, which is an item of
the agenda that will still call the parser or a record of an answer, as long as
nothing has failed (a failure keeps the verdict from being NO_EVIL). A step
moves places and never makes two meet: the item at the head is replaced by
items with as many places, or becomes a record (`PlacesMove`, with a `Shift` for
each kind of item). `InventoryPlaces` finds the first places in the lanes, for
any inventory. At the end the agenda is empty and all places are records.

`CleanAreReleased` is the converse, and uses the same places: where nothing failed,
a class that is present has at least one answer of its parser (`PresentIsDue`; a
cap is not zero). What is left is to compare the three tables, class by class: the
parser is substantive to `compute_verdict` for one class at least, it touches the
class for the coverage manifest, and report QA finds it applicable. The conditions
of the property (`Weighed`, `DiskWeighed`, `pcap`) are where the tables differ.

Assumptions on constants are what the modules declare (`UsesAssumption`,
`PoolAssumption`, `LogAssumption`, `RoomAssumption`, `PidAssumption`, ...): bounds
are naturals, a value that stands for *nothing* is none of the others,
`PlansAssumption` that a plan is a record of the shape `Lanes` reads,
`CapsAssumption` that the caps and the registry's calls are numbers above zero.

*Induction.* The induction theorems of the library take an operator, which none
of the provers can instantiate. Where a proof goes through a sequence or the
turns of a loop it takes the set of the naturals at which the claim fails:
`NatLessThanWellFounded` and `WFMin` give it a least member, and that one is
refuted (`LeastMember` and `DownwardInduction` of `SealedRunProofs`, `UpTo` and
`DownFrom` of `AlgorithmsProofs`). That a recursive function exists and obeys its
equation is shown the same way, loop by loop (`TiersLoop` and the four after it,
`DrawsLoop`, `PicksExists`). Reasoning by least counterexample serves loops over
numbers; it does not reach recursion over other data, of which the modules
with theorems have none.

## 6. Where the code and its own documentation disagree

Each of these is a run that TLC finds violated; `PROJECT.json` quotes the lines.

1. **`audit_torn_newline`.** "The next writer detects a torn tail" does not hold
   when only the newline is lost: the tail is stripped before it is parsed, is
   accepted, and the next record is appended to the same physical line.
   Both records stop parsing, the second after its append returned.
2. **`browser_reverify`.** "So a valid chain verifies here" does not hold of a
   manifest signed with ed25519: the signature leaves out `signature` and
   `transparency_log`, the browser leaves out `signature` alone, and the
   manifest always has both fields.
3. **`verdict_judge_fails`.** NO_EVIL is documented as "emitted zero findings":
   when `judge_findings` fails or exceeds its budget the approved findings are
   replaced by an empty list, nothing is recorded as a failure, and the verdict
   is NO_EVIL.

Two more are in the models without a run of their own. With
`OthersAppend = TRUE`, `VerifiedMeansCited` is violated: citations are checked in
one pass over the file and leaves taken in another (`manifest.py:198`, `:204`),
and a finding another process appends in between is sealed unchecked, against
"an uncited finding must never be sealed". And `OnlyPipeOrToolHoldsItUp` has its
name from this: a tool that exits and leaves a child with its stdout open holds
the server in the join of the drain threads, which has no deadline
(`proc_runner.rs:148-154`, against "so the server never blocks"). So does, after a
timeout, a tool that survives its last signal: `Child::wait` has no deadline.

Met while modelling, each visible in the model as an exception of a property or
as a choice:

* *Runner.* "Force-kills the child's entire process group"
  (`proc_runner.rs:18-20`) is a best effort: without a readable `/proc`, or with a
  process name that is not UTF-8, the leader alone is killed (`:198`, `:217-219`);
  an entry that cannot be read is skipped, and an unreadable directory is an empty
  list (`:230-232`); what `kill(1)` and `Child::kill` return is dropped
  (`:209-213`). `missed` holds who is left by these.
* *Caps.* A lane takes the first so many entries of its class: 3 of memory, `mft`
  and `usnjrnl`, 5 captures, Zeek folders and folders for a sweep, 10 Velociraptor
  zips, 50 event logs, prefetch files and YARA targets, 80 links, 20 of most
  others, and 60 registry queries for all hives together
  (`find_evil_auto.py:12720`, `:13461-13466`, `:14582-14606`). What is beyond is
  not parsed, and nothing says so: no limitation, no record, and the gates look at
  classes only. A directory with four `$MFT` files can say NO_EVIL with one never
  parsed; `ClearedEntriesWereParsed` therefore claims what is up to the caps.
* *Heartbeat.* The record an escalation leaves says "continue remaining lanes"
  (`find_evil_auto.py:9675-9678`); the gates stop them, as `HEARTBEAT.md:28` and
  the comment at `:14577` say and `EscalationEndsWithTheGroup` claims.
* *Deleted files.* The limitation that tells of deleted entries speaks only when
  some were reallocated or failed (`find_evil_auto.py:11317-11326`); those left out
  by `build_candidates` or not reached by the budget are in `deleted_entries_seen`
  and in no other number.
* *Lanes.* A failed `vol_pslist` is read as no processes, so that `vol_psscan`
  alone drafts a hidden-process finding, and a failed `vol_psxview` can be what
  it cites, though comments speak of two confirmed outputs
  (`find_evil_auto.py:10789-10830`); `ClaimsCiteAnswers` names both. Most lanes
  emit no `course_correction` for a failure (against `:9631`). The members of a
  zip pass no gate after an escalation. The findings of an agent may rest on
  calls it never saw (`derived_from` is not looked up). Classes `srum` and
  `reg_txlog` are sorted and never parsed.
* *Gates.* The list of tools that touch a disk has the network tools, so a
  network capture can stand for a disk; QA's table, `Applicable`, does not have
  them and stops the verdict. A comment says the two tables agree on what counts
  as opening a class (`find_evil_auto.py:3839-3844`); each has tools the other
  lacks, and `ez_parse` and `plaso_parse` are in neither: a clean run over event
  logs and links says NO_EVIL and is never released, one over event logs and
  old `.evt` files is INDETERMINATE. Neither does a Velociraptor zip, alone or in
  a directory, get a released NO_EVIL. The conditions of `CleanRunsAreReleased`
  are these cases.
* *Limits.* Documented counters stop with the loop in `evtx_query`,
  `mft_timeline`, `usnjrnl_query` and `sysmon_network_query` (described as the
  total before the filter); limit 0 returns a row in several tools;
  `browser_history` counts after its LIMIT; `nfdump_query`, `journalctl_query`
  and `vel_collect` cut before they drop what is no object; the depth of the
  registry walk, a PST walk, the sampling of thumbnails and the first file of a
  split SRUM table are bounds no counter shows (`Bounded`).
* *Ledger.* A teardown whose second step fails can never be repeated
  (`disk.rs:1000`); a server killed inside `fs::write` leaves text that no later
  call can parse (`disk.rs:1751`); both appear as `torn` and `crash`. The mounts
  of an agent run are left to the agent (against `PLAYBOOK.md:65`).
* *Sign-off.* When the judge fails nothing is noted, so report QA has nothing to
  see it by: the NO_EVIL of the third finding above can be ready for expert
  review. An execution claim on memory and event logs has the two classes the
  ablation asks for, and is stopped by report QA, for which both are weak.
* *Packet.* A merged pair can carry CONFIRMED over a lowered member, which the
  packet check refuses; evidence inside the repository outside `/home` is
  rewritten in `verdict.json` after it was approved; a second run over one case
  directory never passes; two faults over two runs can pass with the older
  verdict.
* *Verifiers.* A manifest over an empty log is accepted by the product alone, and
  so is a last line or a finding in other bytes of the same five fields (an extra
  key, null for `{}`, 3.0 for 3), since `verify_manifest` hashes the record it
  rebuilds; the browser and the packet check accept a log with changed line ends;
  `payload_sha256` is compared by the packet check alone.
* *Dashboard.* A line half visible at the first read is lost, a write between
  the first read and the watcher's start waits for the next one, and
  overlapping reads repeat or lose lines (`audit-tail.ts:256`), against
  "Yields every existing line first, then continues".

## 7. What is only model-checked, and what is not modelled

Only model-checked:

* liveness (`CallsReturn`, `OnlyPipeOrToolHoldsItUp`, `RunEnds`): fairness and
  ENABLED are beyond the prover. What can be proved on the way to them is:
  nobody waits on a reader that ended, every member of the group is dealt with or
  was spared by a failure;
* the three counterexamples of section 6;
* that the variants named in `mutants` break their properties.

Proved under a premise that the code does not enforce, but its use does: the log
for disciplined uses (`DisciplinedUse`), the agent's client for one thread left
behind, the seal's citations for `OthersAppend = FALSE`, `TwoInARowEscalates`
for the threshold of the code.

Checked with an exemption that the property spells out, so that part of the
hazard is only bounded: `FollowsTheLog` claims nothing of overlapping reads or of
a write before the watcher is ready; `CallsReturn` excepts a live server that
never again reads a full pipe; `LedgerTellsTheTruth` excepts a teardown that was
cut short; `NothingLeftMounted` is about runs without a fault;
`VerifiedMeansCited` about one server process (`OthersAppend = FALSE`), so that
nothing is appended between the two passes; `NoEvilHidesNothing` about runs in
which the judge answered.

Not modelled:

* cryptography, beyond what is signed and that digests do not collide;
* what is text: entailment, contradiction rules, the correlator's gates over
  descriptions, redaction, the rules by which rows become a finding. `Reasoning` and `Investigation` have the outcomes they
  can produce as choices;
* the decoding of file formats (prefetch, mail, EXIF, BITS, WMI, index.dat, DBX,
  tshark reports): one call, one answer, bytes in and rows out;
* the QA checks that only warn, and how a claim is recognised in the wording;
  the release gate's fields (it never says releasable without a human);
* rendering of reports, timelines and attack flows; the fleet scripts; accuracy
  metrics; the launcher, installers, workflows, smoke tests and demo assets;
* the memory store, the case store and the lookups: one transaction, one write,
  or none;
* the opt-in gates of the verifier and the judge (off by default), the opt-in
  check of process ids, the mock mode of the disk tools;
* `notify`, `close` and the stderr drain of the engine's client; Windows and
  macOS branches of the runner.

Together these are by far the larger part of the source, and why the mapped
lines stay well below a third of it: much of `find_evil_auto.py` is text
(descriptions, thresholds, report sections), and smokes, renderers and asset
checks have no state that outlives a call. `PROJECT.json` gives the reason for
every component left out.

## 8. Plan

Written, in this order: `AuditLog` and its proofs, `EngineRpc` with
`RpcPromise`, `StdioClient`, `ProcRunner`, `SealedRun`, `Merkle`, `Reasoning`
and its proofs; then `DiskSession`, `Investigation` over `Coverage`, `Packet` over `ReportQa`,
`DiskArtifacts`, `ToolAnswers`, the further verifiers in `SealedRun`, and
`AuditTail`; then the proofs about `SealedRun`, `EngineRpc`, `ProcRunner`,
`DiskSession`, `Investigation` and `Merkle`; last those about `AuditTail`, the
other algorithms, `StdioClient`, the counting of entries and the release of clean
runs.

What remains:

1. *To prove*: no safety property that a run checks is left. The liveness
   properties need a prover for fairness.
2. *To model*: a property for T1014 (`verdict-semantics.md:25-28` against
   `find_evil_auto.py:16127`); contradiction detection and the correlator's
   gates over descriptions, once a finding of `Reasoning` has more than one
   claim; the opt-in gates of the verifier and the judge.
3. *An abstract ledger* for `AuditLog` (acknowledged records that only grow)
   would restate `AckedKept`, and is worth writing when a second component
   appends to the log without the MCP server between.

## 9. Working on the project

In this directory: `tlasany M.tla` parses, `tlc -workers 2 -config X.cfg M`
checks, `tlapm M.tla` proves. `PROJECT.json` names the module and configuration
of each run, the properties it checks, for each property a plausible mistake in
a named definition that breaks it (`mutants`; the variants are defined beside
the definitions they replace), the code lines of every definition, the hazards
and the theorems. The longest runs (`proc_bounded`, `rpc`, `verdict`,
`algorithms`) take about a minute each on two cores.
