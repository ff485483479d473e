--------------------------- MODULE Investigation ----------------------------
(***************************************************************************)
(* The investigating half of a run of the engine                           *)
(* (scripts/find_evil_auto.py, Investigation.run up to reason()): which    *)
(* tools are called, what a failed call does, when the run escalates and   *)
(* stops opening lanes, what is drafted from which call, how parallel      *)
(* calls lease their servers, and what a run without findings may claim.   *)
(* With an agent in the place of the lanes too (agentloop/).               *)
(*                                                                         *)
(* The code is a set of lanes, one per kind of evidence, written out tool  *)
(* by tool.  Here a lane is data: a sequence of items, put in front of an  *)
(* agenda that the actions below work off from its head.  A run is one     *)
(* thread but for its parallel calls.                                      *)
(*                                                                         *)
(* The answer of a tool is "some" (rows from which the lane drafts),       *)
(* "none", or a failure: "transient" and "absent" are told apart by        *)
(* markers in the message, the rest is "hard".  A lane takes the first so  *)
(* many entries of its class and says nothing of the others; the numbers   *)
(* of the code stand with the constants.                                   *)
(***************************************************************************)
EXTENDS Coverage, SequencesExt, FiniteSetsExt

CONSTANTS
  Plans,      \* what is investigated, and how
  Workers,    \* servers leased at a time, at most
  Threshold,  \* _heartbeat_threshold
  MaxSteps,   \* responses of the model in a pod, agent_max_steps
  MaxCalls,   \* bound: calls of a pod, in all its responses
  Cap,        \* entries of a class that a lane takes.  The code: 3 memory, mft and
              \* usnjrnl; 5 zeek and pcap; 10 velociraptor; 50 evtx, prefetch and
              \* yara_target; 80 lnk; 300 dbx; 20 of every other
  RegistryCalls  \* registry queries of a lane, for all its hives; 60 in the code

CappedClasses ==
  {"memory", "evtx", "mft", "usnjrnl", "prefetch", "lnk", "amcache", "jumplist", "recyclebin",
   "legacy_evt", "ie_history", "scheduled_task", "browser", "registry", "yara_target",
   "thumbnail", "sysmon_network", "zeek", "pcap", "cloud", "velociraptor", "dbx"}

ASSUME CapsAssumption == Cap \in [CappedClasses -> Nat \ {0}] /\ RegistryCalls \in Nat \ {0}

EvidenceTypes == {"directory", "memory", "evtx", "disk", "network", "cloud", "velociraptor", "unknown"}

ASSUME PlansAssumption ==
  Plans \subseteq [type : EvidenceTypes, here : Seq(STRING), inside : Seq(STRING), rules : BOOLEAN,
                   parallel : BOOLEAN, agent : BOOLEAN, truncated : BOOLEAN]

ASSUME BoundsAssumption == {Workers, Threshold, MaxSteps, MaxCalls} \subseteq Nat

VARIABLES
  plan,     \* [type, here, inside, rules, parallel, agent, truncated]
  agenda,   \* what is left to do, a sequence of items
  case,     \* the fields of the Investigation object, see NewCase
  drafts,   \* findings_pool_a and findings_pool_b: [kind, cites, rests], which
            \* cite a call (tool_call_id) and rest on others (derived_from)
  pool,     \* the leased servers of a batch of calls, see NoPool
  pod,      \* the agent at work, see NoPod
  phase     \* "lanes", "failing", "concluded" or "raised"

vars == <<plan, agenda, case, drafts, pool, pod, phase>>

-----------------------------------------------------------------------------
(* The record of the case: counters, flags, and chain, the audit log, in    *)
(* which the records of kind "tool" are also self.tool_calls.  Each record  *)
(* tells the turn (the round of calls) and the group of lanes (the gates    *)
(* passed) it belongs to; the code keeps neither.                           *)

NewCase == [streak |-> 0, escalated |-> FALSE, terminated |-> FALSE, absent |-> {},
            turn |-> 0, group |-> 0, unzipped |-> FALSE, limits |-> {}, chain |-> << >>]

Chained(c, kind, tool) ==
  [c EXCEPT !.chain = Append(@, [kind |-> kind, tool |-> tool, answer |-> "", turn |-> c.turn,
                                 group |-> c.group, entry |-> 0, answered |-> 0])]

Failed(answer) == answer \in {"transient", "absent", "hard"}

ToolRecords(c) == {i \in DOMAIN c.chain : c.chain[i].kind = "tool"}

\* The MCP tool behind the name used here: ez_parse has a subtool per artifact.
ToolOf(name) ==
  CASE name \in {"lecmd", "jlecmd", "amcacheparser", "rbcmd"} -> "ez_parse"
    [] name = "userassist" -> "registry_query"
    [] OTHER -> name

Calls(c) ==
  {[tool |-> ToolOf(c.chain[i].tool), err |-> Failed(c.chain[i].answer)] : i \in ToolRecords(c)}

\* _record_tool
\* Variant: every record ends the streak.
RecordedResetting(c, call, answer, answered) ==
  [c EXCEPT !.streak = 0,
            !.chain = Append(@, [kind |-> "tool", tool |-> call.tool, answer |-> answer,
                                 turn |-> c.turn, group |-> c.group, entry |-> call.entry,
                                 answered |-> answered])]

Recorded(c, call, answer, answered) ==
  [c EXCEPT !.streak = IF Failed(answer) THEN @ ELSE 0,
            !.chain = Append(@, [kind |-> "tool", tool |-> call.tool, answer |-> answer,
                                 turn |-> c.turn, group |-> c.group, entry |-> call.entry,
                                 answered |-> answered])]

\* _course_correct
Corrected(c, tool, counts) ==
  LET told == Chained(c, IF counts THEN "correct" ELSE "recover", tool)
      one_more == [told EXCEPT !.streak = @ + 1]
  IN IF ~ counts THEN told
     ELSE IF one_more.streak < Threshold THEN one_more
     ELSE [Chained(one_more, "escalate", tool) EXCEPT !.escalated = TRUE]

\* _note_tool_absent, for the two tools whose absence a lane looks for: both have a fallback
NotedAbsent(c, tool) ==
  IF tool \in c.absent THEN c
  ELSE Corrected([c EXCEPT !.absent = @ \cup {tool}], tool, FALSE)

Limited(c, what) == [c EXCEPT !.limits = @ \cup {what}]

\* What a lane does about a failed call before it records it.
Missed(c, call, answer) ==
  CASE call.miss = "defer"    -> Corrected(Limited(c, call.tool), call.tool, TRUE)
    [] call.miss = "absence"  -> IF answer = "absent"
                                 THEN NotedAbsent(Limited(c, call.tool), call.tool)
                                 ELSE Limited(c, call.tool)
    [] call.miss = "disclose" -> Limited(c, call.tool)
    [] call.miss = "silent"   -> c

Answered(c, call, answer, answered) ==
  Recorded(IF Failed(answer) THEN Missed(c, call, answer) ELSE c, call, answer, answered)

-----------------------------------------------------------------------------
(* Items.  How a call is made: "leads" drafts a finding when it answers     *)
(* "some", "plain" does not, "resilient" is tried again after a transient   *)
(* failure.  What is done when it fails: see Missed.                        *)

Call(tool, how, miss) ==
  [do |-> "call", tool |-> tool, how |-> how, miss |-> miss, entry |-> 0]

Item(what) == [do |-> what]

Gate == Item("gate")

\* One call per entry: these are handed to _parallel_tool_calls, those are made in turn.
Numbered(n, call) == [i \in 1..n |-> [call EXCEPT !.entry = i]]
Batch(n, tool, how, miss) ==
  IF n = 0 THEN << >>
  ELSE <<[do |-> "batch", calls |-> Numbered(n, Call(tool, how, miss))]>>

Count(here, classes) == Cardinality({i \in DOMAIN here : here[i] \in classes})

Least(m, n) == IF m <= n THEN m ELSE n

\* What a lane takes of a class; what is beyond the cap is parsed by nobody.
Taken(here, class) == Least(Count(here, {class}), Cap[class])

-----------------------------------------------------------------------------
(* The lanes.                                                               *)

Memory(rules) ==
  <<Call("vol_pslist", "resilient", "defer"), Call("vol_malfind", "resilient", "defer")>>
  \o (IF rules THEN <<Call("yara_scan", "plain", "disclose")>> ELSE << >>)
  \o <<Call("vol_psscan", "plain", "defer"), Item("views")>>

Evtx == <<Call("evtx_query", "leads", "defer")>>

Hayabusa == <<Call("hayabusa_scan", "leads", "disclose")>>

\* A sweep over each folder with two logs or more: the logs of a plan share one.
Sweep(here) == IF Count(here, {"evtx"}) >= 2 THEN Hayabusa ELSE << >>
EvtxLanes(here) == FlattenSeq([i \in 1..Taken(here, "evtx") |-> Evtx])

Mft(here)      == Batch(Taken(here, "mft"), "mft_timeline", "leads", "disclose")
UsnJrnl(here)  == Batch(Taken(here, "usnjrnl"), "usnjrnl_query", "plain", "disclose")
Prefetch(here) == Batch(Taken(here, "prefetch"), "prefetch_parse", "leads", "disclose")
Lnk(here)      == Batch(Taken(here, "lnk"), "lecmd", "leads", "absence")

EzParsed(here) ==
  Batch(Taken(here, "amcache"), "amcacheparser", "plain", "disclose")
  \o Batch(Taken(here, "jumplist"), "jlecmd", "plain", "disclose")

RecycleBin(here) == [i \in 1..Taken(here, "recyclebin") |-> Item("recycle")]

PlasoClasses == <<"legacy_evt", "ie_history", "scheduled_task">>
PlasoLane(class, n) ==
  IF n = 0 THEN << >>
  ELSE LET how == IF class = "scheduled_task" THEN "plain" ELSE "leads"
       IN <<[do |-> "plaso", calls |-> Numbered(n, Call("plaso_parse", how, "absence"))]>>
Plaso(here) ==
  FlattenSeq([i \in DOMAIN PlasoClasses |-> PlasoLane(PlasoClasses[i], Taken(here, PlasoClasses[i]))])

\* Both classes of a browser together.
Browser(here) ==
  Batch(Least(Count(here, {"browser_history", "browser_db"}), Cap["browser"]),
        "browser_history", "plain", "disclose")

\* One call per triage key (two keys to a hive here, 1 to 9 in the code), hive after hive
\* until the calls run out.
Keys == 2
Queries(here) == Least(RegistryCalls, Keys * Taken(here, "registry"))
Registry(here) ==
  [i \in 1..Queries(here) |-> Call("registry_query", "leads", "defer")]
  \o <<[do |-> "userassist", hives |-> Taken(here, "registry")]>>

YaraTargets(here, rules) ==
  IF Count(here, {"yara_target"}) = 0 THEN << >>
  ELSE IF rules THEN [i \in 1..Taken(here, "yara_target") |-> Call("yara_scan", "plain", "disclose")]
  ELSE <<Item("no_rules")>>

Thumbnails(here) == Batch(Taken(here, "thumbnail"), "thumbcache_parse", "plain", "disclose")

\* srum and reg_txlog are sorted and never parsed.
Extracted(here, rules) ==
  Mft(here) \o UsnJrnl(here) \o Prefetch(here) \o Lnk(here) \o EzParsed(here)
  \o RecycleBin(here) \o Plaso(here) \o Browser(here) \o Registry(here)
  \o YaraTargets(here, rules) \o Thumbnails(here)

OfExtracted == ExtractedClasses \cup {"yara_target"}

\* A Zeek entry stands for a folder of logs.
Network(here) ==
  [i \in 1..Taken(here, "sysmon_network") |-> Call("sysmon_network_query", "leads", "disclose")]
  \o [i \in 1..Taken(here, "zeek") |-> Call("zeek_summary", "leads", "disclose")]
  \o [i \in 1..Taken(here, "pcap") |-> Call("pcap_triage", "leads", "disclose")]

Cloud(here) == [i \in 1..Taken(here, "cloud") |-> Call("cloud_audit", "leads", "disclose")]

Each(n, lane) == FlattenSeq([i \in 1..n |-> lane])

\* The members of a zip go through the lanes above, with no gate between them.
ZipLanes(inside, rules) ==
  Each(Taken(inside, "memory"), Memory(rules)) \o EvtxLanes(inside) \o Sweep(inside)
  \o Extracted(inside, rules) \o Network(inside) \o Cloud(inside)

Bulk == Call("bulk_extract", "plain", "disclose")

DiskLanes(inside, rules) ==
  (IF Count(inside, OfExtracted) = 0 THEN << >> ELSE <<Bulk>> \o Extracted(inside, rules))
  \o EvtxLanes(inside) \o Sweep(inside)
  \o [i \in 1..Taken(inside, "dbx") |-> Call("oe_dbx_parse", "leads", "silent")]
  \o (IF Count(inside, OfExtracted \cup {"evtx"}) = 0 THEN <<Bulk, Item("no_artifacts")>> ELSE << >>)

\* case_open, mount; "mount" goes on to extract and unmount
Disk(directory) ==
  (IF directory THEN <<Call("case_open", "plain", "disclose")>> ELSE << >>) \o <<Item("mount")>>

-----------------------------------------------------------------------------
(* run and investigate_inventory.                                           *)

Inventory(p) ==
  <<Gate>> \o Each(Taken(p.here, "memory"), Memory(p.rules))
  \o <<Gate>> \o EvtxLanes(p.here)
  \o <<Gate>> \o Sweep(p.here)
  \o <<Gate>> \o Extracted(p.here, p.rules)
  \o <<Gate>> \o Network(p.here)
  \o <<Gate>> \o Cloud(p.here)
  \o <<Gate>> \o [i \in 1..Taken(p.here, "velociraptor") |-> Item("unzip")]
  \o <<Gate>> \o Each(Count(p.here, {"raw_disk"}), Disk(TRUE))
  \o (IF Count(p.here, Sources.memory \cup Sources.evtx \cup Sources.disk \cup NetworkClasses
                       \cup {"cloud", "velociraptor"}) = 0
      THEN <<Item("no_evidence")>> ELSE << >>)

Pods == <<[do |-> "pod", by |-> "A"], [do |-> "pod", by |-> "B"]>>

Lanes(p) ==
  CASE p.type = "directory" -> Inventory(p)
    [] p.type # "directory" /\ p.agent -> Pods
    [] p.type = "memory" /\ ~ p.agent -> Memory(p.rules)
    [] p.type = "evtx" /\ ~ p.agent -> Evtx
    [] p.type = "disk" /\ ~ p.agent -> Disk(FALSE)
    [] p.type = "network" /\ ~ p.agent -> Network(p.here)
    [] p.type = "cloud" /\ ~ p.agent -> Cloud(p.here)
    [] p.type = "velociraptor" /\ ~ p.agent -> <<Item("unzip")>>
    [] p.type = "unknown" /\ ~ p.agent -> << >>

\* A single file is registered first: case_open, whose failure ends the run.
Opening(p) ==
  IF p.type = "directory" THEN << >> ELSE <<Item("case_open")>>

NoPool == [open |-> {}, free |-> {}, lent |-> << >>, results |-> << >>, done |-> << >>]
NoPod  == [step |-> 0, made |-> 0, left |-> 0, seen |-> {}, found |-> {}]

Init ==
  /\ plan \in Plans
  /\ agenda = Opening(plan) \o Lanes(plan) \o <<Gate>>
  /\ case = [NewCase EXCEPT !.limits = IF plan.truncated THEN {"inventory"} ELSE {}]
  /\ drafts = {}
  /\ pool = NoPool
  /\ pod = NoPod
  /\ phase = "lanes"

-----------------------------------------------------------------------------
(* One call after the other.                                                *)

Job == agenda[1]
Rest  == Tail(agenda)
At(what) == phase \in {"lanes", "failing"} /\ agenda # << >> /\ Job.do = what

\* An exception leaves the lanes; only disk_unmount stands in a finally.
Unmount == Call("disk_unmount", "plain", "disclose")
Unwound == IF Unmount \in Range(agenda) THEN <<Unmount>> ELSE << >>

\* Markers of the message are looked for by resilient calls and where absence has a fallback.
Answers(call) ==
  {"some", "none", "hard"} \cup (IF call.how \in {"resilient", "retried"} THEN {"transient"} ELSE {})
                           \cup (IF call.miss = "absence" THEN {"absent"} ELSE {})

NextTurn(c) == [c EXCEPT !.turn = @ + 1]
Draft(kind, cites, rests) == [kind |-> kind, cites |-> cites, rests |-> rests]

\* _corroborate_execution_with_userassist: a hive that names a program drafted from prefetch.
Promoted(d, hive) ==
  IF d.kind = "prefetch_parse" /\ d.rests = {} THEN [d EXCEPT !.rests = {hive}] ELSE d

\* What a lane drafts from the record it has just made.
DraftsAfter(call, answer, record) ==
  CASE answer = "some" /\ call.how = "leads" -> drafts \cup {Draft(call.tool, record, {})}
    [] answer = "some" /\ call.how = "userassist" -> {Promoted(d, record) : d \in drafts}
    [] OTHER -> drafts

\* _call_resilient, the first attempt
Retry ==
  /\ At("call") /\ Job.how = "resilient"
  /\ case' = Chained(case, "retry", Job.tool)
  /\ agenda' = <<[Job EXCEPT !.how = "retried"]>> \o Rest
  /\ UNCHANGED <<plan, drafts, pool, pod, phase>>

CallTool ==
  /\ At("call")
  /\ \E answer \in Answers(Job) \ (IF Job.how = "resilient" THEN {"transient"} ELSE {}) :
       LET c == Answered(NextTurn(case), Job, answer, Job.entry)
       IN /\ case' = c
          /\ drafts' = DraftsAfter(Job, answer, Len(c.chain))
  /\ agenda' = Rest
  /\ UNCHANGED <<plan, pool, pod, phase>>

\* case_open of a single file: its failure raises before anything is recorded.
CaseOpen ==
  /\ At("case_open")
  /\ \/ /\ case' = Recorded(NextTurn(case), Call("case_open", "plain", "silent"), "some", 0)
        /\ agenda' = Rest
        /\ UNCHANGED phase
     \/ /\ agenda' = Unwound /\ phase' = "failing"
        /\ UNCHANGED case
  /\ UNCHANGED <<plan, drafts, pool, pod>>

\* _heartbeat_abort at the boundary of a group of lanes; the last one is that of run.
Onward ==
  /\ case' = [case EXCEPT !.group = @ + 1]
  /\ agenda' = Rest

Abort ==
  /\ case' = IF case.terminated THEN case
             ELSE [Chained(case, "terminate", "") EXCEPT !.terminated = TRUE]
  /\ agenda' = IF Len(agenda) > 1 THEN <<Gate>> ELSE << >>

\* Variant: the record is made and the lanes go on.
LaneBoundaryGoesOn ==
  /\ At("gate")
  /\ IF case.escalated
     THEN /\ case' = [Chained(case, "terminate", "") EXCEPT !.terminated = TRUE, !.group = @ + 1]
          /\ agenda' = Rest
     ELSE Onward
  /\ UNCHANGED <<plan, drafts, pool, pod, phase>>

LaneBoundary ==
  /\ At("gate")
  /\ IF case.escalated THEN Abort ELSE Onward
  /\ UNCHANGED <<plan, drafts, pool, pod, phase>>

-----------------------------------------------------------------------------
(* The lanes that look at an answer to choose what comes next.              *)

LastOf(tool) == CHOOSE i \in ToolRecords(case) :
                  /\ case.chain[i].tool = tool
                  /\ \A j \in ToolRecords(case) : case.chain[j].tool = tool => j <= i
Has(tool) == case.chain[LastOf(tool)].answer = "some"

\* process_sets_diverge: a failed listing counts as a list of no processes.
Views ==
  /\ At("views")
  /\ \E diverge \in IF Has("vol_pslist") # Has("vol_psscan") THEN {TRUE}
                    ELSE IF Has("vol_pslist") THEN BOOLEAN ELSE {FALSE} :
       agenda' = (IF diverge THEN <<Call("vol_psxview", "plain", "defer")>> ELSE << >>)
                 \o <<[do |-> "memory_findings", crossed |-> diverge]>> \o Rest
  /\ UNCHANGED <<plan, case, drafts, pool, pod, phase>>

MemoryFindings ==
  /\ At("memory_findings")
  /\ LET list == LastOf("vol_pslist")
         scan == LastOf("vol_psscan")
         view == IF Job.crossed THEN LastOf("vol_psxview") ELSE scan
     IN \E smear, uncommon \in (IF Has("vol_psscan") THEN BOOLEAN ELSE {FALSE}) :
          drafts' = drafts
            \cup (IF ~ Has("vol_psscan") \/ Has("vol_pslist") THEN {}
                  ELSE IF smear THEN {Draft("enum-smear", view, {})}
                  ELSE {Draft("dkom", view, {list, scan}), Draft("dump-integrity", scan, {list, scan})})
            \cup (IF Has("vol_malfind") THEN {Draft("injection", LastOf("vol_malfind"), {})} ELSE {})
            \cup (IF uncommon THEN {Draft("uncommon-procs", scan, {scan})} ELSE {})
  /\ agenda' = Rest
  /\ UNCHANGED <<plan, case, pool, pod, phase>>

\* INFO2 is plaso's; the other layouts, and INFO2 once plaso is known to be absent, rbcmd's.
Recycle ==
  /\ At("recycle")
  /\ \E info2 \in BOOLEAN :
       agenda' = <<IF info2 /\ "plaso_parse" \notin case.absent
                   THEN Call("plaso_parse", "leads", "absence")
                   ELSE Call("rbcmd", "leads", "disclose")>> \o Rest
  /\ UNCHANGED <<plan, case, drafts, pool, pod, phase>>

AsBatch(calls) == [do |-> "batch", calls |-> calls]

PlasoParsers ==
  /\ At("plaso")
  /\ IF "plaso_parse" \in case.absent
     THEN case' = Limited(case, "plaso_parse") /\ agenda' = Rest
     ELSE agenda' = <<AsBatch(Job.calls)>> \o Rest /\ UNCHANGED case
  /\ UNCHANGED <<plan, drafts, pool, pod, phase>>

\* Only the NTUSER.DAT hives are asked, and only when prefetch drafted something.
UserAssist ==
  /\ At("userassist")
  /\ \E n \in IF \E d \in drafts : d.kind = "prefetch_parse" THEN 0..Job.hives ELSE {0} :
       agenda' = [i \in 1..n |-> Call("userassist", "userassist", "silent")] \o Rest
  /\ UNCHANGED <<plan, case, drafts, pool, pod, phase>>

\* Nothing to parse, or nothing to parse it with.
Disclose ==
  /\ \E what \in {"no_rules", "no_artifacts", "no_evidence"} :
       At(what) /\ case' = Limited(case, what)
  /\ agenda' = Rest
  /\ UNCHANGED <<plan, drafts, pool, pod, phase>>

\* investigate_velociraptor_zip: the zip may not open, or hold nothing that is supported.
Unzip ==
  /\ At("unzip")
  /\ \/ case' = Limited(case, "velociraptor") /\ agenda' = Rest
     \/ /\ case' = [(IF plan.inside = << >> THEN Limited(case, "velociraptor") ELSE case)
                     EXCEPT !.unzipped = TRUE]
        /\ agenda' = ZipLanes(plan.inside, plan.rules) \o Rest
  /\ UNCHANGED <<plan, drafts, pool, pod, phase>>

\* investigate_disk, from disk_mount to the finally
Mount ==
  /\ At("mount")
  /\ \E answer \in {"some", "hard"} :
       /\ case' = Answered(NextTurn(case), Call("disk_mount", "plain", "disclose"), answer, 0)
       /\ agenda' = (IF Failed(answer) THEN << >> ELSE <<Item("extract"), Unmount>>) \o Rest
  /\ UNCHANGED <<plan, drafts, pool, pod, phase>>

Extract ==
  /\ At("extract")
  /\ \E answer \in {"some", "hard"} :
       /\ case' = Answered(NextTurn(case), Call("disk_extract_artifacts", "plain", "disclose"), answer, 0)
       /\ agenda' = (IF Failed(answer) THEN << >> ELSE DiskLanes(plan.inside, plan.rules)) \o Rest
  /\ UNCHANGED <<plan, drafts, pool, pod, phase>>

-----------------------------------------------------------------------------
(* _parallel_tool_calls.  A batch is answered as a whole; then its records  *)
(* are made one after the other, each with its entry.                       *)

Tasks == DOMAIN Job.calls
Lanes1 == IF Workers < Len(Job.calls) THEN Workers ELSE Len(Job.calls)
Parallel == plan.parallel /\ Len(Job.calls) > 1

\* The k-th record is that of the k-th entry, with the answer in the k-th place.
\* Variant: the answers are kept in the order they came in.
RecordsAsCompleted(calls, results, done) ==
  [k \in DOMAIN calls |-> [do |-> "record", call |-> calls[k],
                           answer |-> results[done[k]], answered |-> done[k]]]

Records(calls, results, done) ==
  [k \in DOMAIN calls |-> [do |-> "record", call |-> calls[k],
                           answer |-> results[k], answered |-> k]]

InTurn ==
  /\ At("batch") /\ ~ Parallel
  /\ \E results \in {f \in [Tasks -> {"some", "none", "hard", "absent"}] :
                       \A i \in Tasks : f[i] \in Answers(Job.calls[i])} :
       agenda' = Records(Job.calls, results, [i \in Tasks |-> i]) \o Rest
  /\ case' = NextTurn(case)
  /\ UNCHANGED <<plan, drafts, pool, pod, phase>>

Started == DOMAIN pool.lent \cup DOMAIN pool.results

OpenServer ==
  /\ At("batch") /\ Parallel
  /\ Started = {} /\ Cardinality(pool.open) < Lanes1
  /\ LET server == Cardinality(pool.open) + 1
     IN pool' = [pool EXCEPT !.open = @ \cup {server}, !.free = @ \cup {server}]
  /\ UNCHANGED <<plan, agenda, case, drafts, pod, phase>>

\* The factory raises before the try: the servers it has started stay open.
ServerFails ==
  /\ At("batch") /\ Parallel
  /\ Started = {} /\ Cardinality(pool.open) < Lanes1
  /\ phase' = "failing" /\ agenda' = Unwound
  /\ UNCHANGED <<plan, case, drafts, pool, pod>>

\* What is held for each task, with one task more.
With(held, task, value) == [i \in DOMAIN held \cup {task} |-> IF i = task THEN value ELSE held[i]]

Leased(task, server) ==
  pool' = [pool EXCEPT !.lent = With(@, task, server), !.free = @ \ {server}]

\* The tasks of the executor are taken in the order they were submitted.
Lend ==
  /\ At("batch") /\ Parallel
  /\ Cardinality(pool.open) = Lanes1
  /\ Tasks \ Started # {}
  /\ \E server \in pool.free : Leased(Min(Tasks \ Started), server)
  /\ UNCHANGED <<plan, agenda, case, drafts, pod, phase>>

Finish ==
  /\ At("batch")
  /\ \E task \in DOMAIN pool.lent : \E answer \in Answers(Job.calls[task]) :
       pool' = [pool EXCEPT !.lent = RestrictDomain(@, LAMBDA i : i # task),
                            !.free = @ \cup {pool.lent[task]},
                            !.results = With(@, task, answer),
                            !.done = Append(@, task)]
  /\ UNCHANGED <<plan, agenda, case, drafts, pod, phase>>

Collect ==
  /\ At("batch") /\ Parallel
  /\ DOMAIN pool.results = Tasks
  /\ agenda' = Records(Job.calls, pool.results, pool.done) \o Rest
  /\ case' = NextTurn(case)
  /\ pool' = NoPool
  /\ UNCHANGED <<plan, drafts, pod, phase>>

Record ==
  /\ At("record")
  /\ LET c == Answered(case, Job.call, Job.answer, Job.answered)
     IN /\ case' = c
        /\ drafts' = DraftsAfter(Job.call, Job.answer, Len(c.chain))
  /\ agenda' = Rest
  /\ UNCHANGED <<plan, pool, pod, phase>>

-----------------------------------------------------------------------------
(* Agent mode: _run_agent_pools, run_agent_loop and AgentToolBridge.  A pod *)
(* is asked at most MaxSteps times, and answers with calls of tools or of   *)
(* record_finding, or ends its turn.                                        *)

AgentTools == {"vol_psscan", "yara_scan"}

Respond ==
  /\ At("pod") /\ pod.left = 0 /\ pod.step < MaxSteps
  /\ \E calls \in 1..(MaxCalls - pod.made) :
       pod' = [pod EXCEPT !.step = @ + 1, !.made = @ + calls, !.left = calls]
  /\ UNCHANGED <<plan, agenda, case, drafts, pool, phase>>

\* Variant: a failed call is a call the pod has seen.
DispatchToolSeesAll ==
  /\ At("pod") /\ pod.left > 0
  /\ \E tool \in AgentTools, answer \in {"some", "hard"} :
       LET c == Recorded(NextTurn(case), Call(tool, "plain", "silent"), answer, 0)
       IN /\ case' = c
          /\ pod' = [pod EXCEPT !.left = @ - 1, !.seen = @ \cup {Len(c.chain)}]
  /\ UNCHANGED <<plan, agenda, drafts, pool, phase>>

\* call_and_record: a failed call is recorded, but its number is not returned to the pod
DispatchTool ==
  /\ At("pod") /\ pod.left > 0
  /\ \E tool \in AgentTools, answer \in {"some", "hard"} :
       LET c == Recorded(NextTurn(case), Call(tool, "plain", "silent"), answer, 0)
       IN /\ case' = c
          /\ pod' = [pod EXCEPT !.left = @ - 1,
                                !.seen = @ \cup (IF Failed(answer) THEN {} ELSE {Len(c.chain)})]
  /\ UNCHANGED <<plan, agenda, drafts, pool, phase>>

\* record_finding: what it cites must have been seen, what it rests on is not looked at.
DispatchFinding ==
  /\ At("pod") /\ pod.left > 0
  /\ \E kind \in {"agent", "agent-execution"}, cites \in ToolRecords(case),
        rests \in {{}} \cup {{i} : i \in ToolRecords(case)} :
       pod' = [pod EXCEPT !.left = @ - 1,
                          !.found = IF cites \in pod.seen THEN @ \cup {Draft(kind, cites, rests)} ELSE @]
  /\ UNCHANGED <<plan, agenda, case, drafts, pool, phase>>

\* discipline_agent_findings: an execution claim needs two artifact classes
Disciplined(found) ==
  {f \in found : \/ f.kind = "agent"
                 \/ Cardinality({case.chain[i].tool : i \in {f.cites} \cup f.rests}) >= 2}

PodEnds ==
  /\ At("pod") /\ pod.left = 0
  /\ \E refuted \in {{}} \cup {{f} : f \in pod.found} :
       drafts' = drafts \cup (Disciplined(pod.found) \ refuted)
  /\ pod' = NoPod
  /\ agenda' = Rest
  /\ UNCHANGED <<plan, case, pool, phase>>

\* The provider raises: the pod's findings are lost with the run.
ProviderFails ==
  /\ At("pod") /\ pod.left = 0
  /\ phase' = "failing" /\ agenda' = Unwound
  /\ UNCHANGED <<plan, case, drafts, pool, pod>>

-----------------------------------------------------------------------------
Conclude ==
  /\ agenda = << >>
  /\ \/ phase = "lanes" /\ phase' = "concluded"
     \/ phase = "failing" /\ phase' = "raised"
  /\ UNCHANGED <<plan, agenda, case, drafts, pool, pod>>

\* After that reason() begins, or the exception has left run(): nothing here goes on.
Next ==
  \/ Retry \/ CallTool \/ CaseOpen \/ LaneBoundary
  \/ Views \/ MemoryFindings \/ Recycle \/ PlasoParsers \/ UserAssist \/ Disclose
  \/ Unzip \/ Mount \/ Extract
  \/ InTurn \/ OpenServer \/ ServerFails \/ Lend \/ Finish \/ Collect \/ Record
  \/ Respond \/ DispatchTool \/ DispatchFinding \/ PodEnds \/ ProviderFails
  \/ Conclude

Spec == Init /\ [][Next]_vars

-----------------------------------------------------------------------------
(* Properties.                                                              *)

Clean(i) == case.chain[i].kind = "tool" /\ ~ Failed(case.chain[i].answer)

(* _course_correct and _record_tool, the streak that only a clean record breaks: the run escalates  *)
(* exactly when a counted correction follows another with no clean tool call recorded in between,  *)
(* whatever retries, recoveries and failed records lie there (HEARTBEAT.md, two in a row).         *)
EscalatesOnTwoInARow ==
  \A i \in DOMAIN case.chain :
    case.chain[i].kind = "correct" =>
      ((\E j \in 1..(i - 1) : /\ case.chain[j].kind = "correct"
                              /\ \A k \in j..i : ~ Clean(k))
       <=> (i < Len(case.chain) /\ case.chain[i + 1].kind = "escalate"))

(* _heartbeat_abort: a run that has escalated finishes the group of lanes it is in and calls no tool *)
(* of a later group.                                                                                *)
EscalationEndsWithTheGroup ==
  \A i, j \in DOMAIN case.chain :
    i < j /\ case.chain[i].kind = "escalate" /\ case.chain[j].kind = "tool"
      => case.chain[i].group = case.chain[j].group

(* _parallel_tool_calls: the records of one batch are in the order of its entries, and each holds    *)
(* the answer to its own entry, in whatever order the servers answered.                             *)
BatchKeepsOrder ==
  \A i \in ToolRecords(case) :
    /\ case.chain[i].entry > 0 => case.chain[i].answered = case.chain[i].entry
    /\ \A j \in ToolRecords(case) :
         i < j /\ case.chain[i].turn = case.chain[j].turn => case.chain[i].entry < case.chain[j].entry

(* AgentToolBridge and the lanes: a draft cites a call that answered (integration.py: "cite the      *)
(* tool_call_id: header from a prior tool result"), but for what memory_findings makes of a failed   *)
(* vol_psxview; and what a lane's draft rests on answered, but for a failed vol_pslist.              *)
ClaimsCiteAnswers ==
  \A d \in drafts :
    /\ Clean(d.cites) \/ case.chain[d.cites].tool = "vol_psxview"
    /\ d.kind \notin {"agent", "agent-execution"} =>
         \A i \in d.rests : Clean(i) \/ case.chain[i].tool = "vol_pslist"

-----------------------------------------------------------------------------
(* What a run without findings may say.                                     *)

Evidence == [type |-> plan.type, present |-> Range(plan.here), truncated |-> plan.truncated]

Cleared ==
  /\ phase = "concluded" /\ drafts = {}
  /\ EmptyVerdict(Evidence, Calls(case), case.unzipped, case.escalated) = "NO_EVIL"

Released == Cleared /\ ~ ClearanceFails(Evidence, Calls(case), case.unzipped)

ParserOf ==
  [memory |-> {"vol_pslist"}, evtx |-> {"evtx_query"}, mft |-> {"mft_timeline"},
   usnjrnl |-> {"usnjrnl_query"}, prefetch |-> {"prefetch_parse"}, lnk |-> {"lecmd"},
   amcache |-> {"amcacheparser"}, recyclebin |-> {"plaso_parse", "rbcmd"},
   legacy_evt |-> {"plaso_parse"}, registry |-> {"registry_query"}, pcap |-> {"pcap_triage"},
   cloud |-> {"cloud_audit"}, raw_disk |-> {"disk_mount"}]

\* The calls an inventory comes to for a class: its raw disks are all mounted.
Due(here, class) ==
  CASE class = "raw_disk" -> Count(here, {class})
    [] class = "registry" -> Least(RegistryCalls, Keys * Least(Count(here, {class}), Cap[class]))
    [] OTHER -> Least(Count(here, {class}), Cap[class])

(* The lanes, the gates and compute_verdict together: a run over a directory that says NO_EVIL has    *)
(* parsed every entry of a class that has a parser, up to the cap of the class and to the calls that  *)
(* the hives share, each with a call that answered.                                                  *)
ClearedEntriesWereParsed ==
  Cleared /\ plan.type = "directory" =>
    \A class \in Evidence.present \cap DOMAIN ParserOf :
      Cardinality({i \in ToolRecords(case) : Clean(i) /\ case.chain[i].tool \in ParserOf[class]})
        >= Due(plan.here, class)

\* The classes whose parser is in compute_verdict's list for a directory, and among the sources of
\* the disk those whose parser is in every table.
Weighed     == {"memory", "evtx", "mft", "usnjrnl", "prefetch", "registry"}
DiskWeighed == {"mft", "usnjrnl", "prefetch", "registry", "raw_disk"}

(* compute_verdict, the coverage manifest and report QA keep a table each of the tools that open a   *)
(* class.  A run over a directory in which nothing failed and nothing was found says NO_EVIL, and QA  *)
(* releases it, when each class it holds has an entry whose parser all three know; a Velociraptor    *)
(* zip has none.                                                                                     *)
CleanRunsAreReleased ==
  /\ phase = "concluded" /\ plan.type = "directory" /\ ~ plan.truncated
  /\ drafts = {} /\ ~ case.escalated /\ \A i \in ToolRecords(case) : Clean(i)
  /\ Evidence.present \cap Weighed # {} /\ "velociraptor" \notin Evidence.present
  /\ Evidence.present \cap Sources.disk # {} => Evidence.present \cap DiskWeighed # {}
  /\ Evidence.present \cap NetworkClasses # {} => "pcap" \in Evidence.present
  => Released

=============================================================================
