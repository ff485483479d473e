---------------------------- MODULE ToolAnswers -----------------------------
(***************************************************************************)
(* What the forensic tools of the Rust server answer                       *)
(* (services/mcp/src/tools/): which records of their source come back as   *)
(* rows, what the counters beside them say, and when a call is refused.    *)
(*                                                                         *)
(* call.records is what the source holds, in the order the tool goes over  *)
(* it.  A record is "wanted" or "unwanted" by the filter of the call,      *)
(* "odd" when it parses into a shape the tool has no row for, "broken"     *)
(* when it does not parse, and "beyond" when it lies past the bound of a   *)
(* tool that reads no further (bytes, files, depth); to the other tools    *)
(* that is one more wanted record.  Where a format knows no odd or broken  *)
(* records they are ordinary ones.                                         *)
(*                                                                         *)
(* call.limit stands for the limit of the call, or for the fixed cap of a  *)
(* tool without one; call.child is how far the call comes: its input is    *)
(* unfit, the program is missing, it fails, it stays silent (no output     *)
(* file, or nothing in it), it fails because nothing matched, or it ran.   *)
(* Temporary files are left out, and the sorting that thumbcache_parse,    *)
(* srum_parse, pst_parse and bulk_extract do before they cut.              *)
(*                                                                         *)
(* The rows of an answer are the places of the records they were made from *)
(* (every tool keeps the order of its source).                             *)
(***************************************************************************)
EXTENDS Naturals, Sequences, FiniteSets, FiniteSetsExt

CONSTANTS MaxRecords, RowLimits

ASSUME RowLimitsAssumption == MaxRecords \in Nat /\ RowLimits \subseteq Nat

VARIABLE call   \* an input: [records, limit, filtered, child]

-----------------------------------------------------------------------------
(* The four ways to apply a limit.  errs and keeps are sets of kinds.      *)

Answer(rows, seen, errors) ==
  [ok |-> TRUE, degraded |-> FALSE, rows |-> rows, seen |-> seen, errors |-> errors]

Refused  == [Answer({}, 0, 0) EXCEPT !.ok = FALSE]
Degraded == [Answer({}, 0, 0) EXCEPT !.degraded = TRUE]

Places(c, kinds) == {i \in DOMAIN c.records : c.records[i] \in kinds}

\* The first n of a set of places.
FirstOf(places, n) == {i \in places : Cardinality({j \in places : j <= i}) <= n}

\* The input as if the source held its first n records only.
Cut(c, n) == [c EXCEPT !.records = SubSeq(@, 1, Min({n, Len(@)}))]

\* How many records come before the first of these kinds.
Before(c, kinds) ==
  IF Places(c, kinds) = {} THEN Len(c.records) ELSE Min(Places(c, kinds)) - 1

HowMany(c, kinds, upto) == Cardinality({i \in 1..upto : c.records[i] \in kinds})

\* The limit is looked at after a row is pushed: a limit of 0 lets one through.
AtLeastOne(limit) == IF limit = 0 THEN 1 ELSE limit

\* The loop over the source ends with the row that fills the answer.
StopAfter(c, errs, keeps) ==
  LET rows == FirstOf(Places(c, keeps), AtLeastOne(c.limit))
      last == IF Cardinality(rows) = AtLeastOne(c.limit) THEN Max(rows) ELSE Len(c.records)
  IN Answer(rows, last, HowMany(c, errs, last))

\* The same, but the limit is looked at before each record.
StopBefore(c, errs, keeps) ==
  IF c.limit = 0 THEN Answer({}, 0, 0) ELSE StopAfter(c, errs, keeps)

\* Variant: the source is cut to the limit before the filter sees it.
CutThenFilter(c, keeps) ==
  Answer(Places(Cut(c, c.limit), keeps), Len(c.records), 0)

\* Everything is counted, then filtered until the answer is full.
FilterThenCut(c, keeps) ==
  Answer(FirstOf(Places(c, keeps), AtLeastOne(c.limit)), Len(c.records), 0)

\* Everything is counted, and the first of it projected.
Leading(c, drops) ==
  Answer({i \in DOMAIN Cut(c, c.limit).records : c.records[i] \notin drops}, Len(c.records), 0)

\* Rows are pushed while there is room, and all of a kind are counted.
WhileRoom(c, counts, keeps) ==
  Answer(FirstOf(Places(c, keeps), c.limit), HowMany(c, counts, Len(c.records)), 0)

-----------------------------------------------------------------------------
(* What every tool does around its loop.                                   *)

Parsed == {"wanted", "unwanted", "beyond"}
Values == Parsed \cup {"odd"}
Lines  == Values \cup {"broken"}

Matching(c) == {"wanted", "beyond"} \cup (IF c.filtered THEN {} ELSE {"unwanted"})

\* What a tool with a bound of its own gets to.
Reached(c) == Cut(c, Before(c, {"beyond"}))

InProcess(c, a) == IF c.child = "unfit" THEN Refused ELSE a
FromChild(c, a) == IF c.child \in {"silent", "ran"} THEN a ELSE Refused
FromFile(c, a)  == IF c.child = "ran" THEN a ELSE Refused

\* One value that does not parse refuses the call.
AllParse(c, a) == IF Places(c, {"broken"}) # {} THEN Refused ELSE a

-----------------------------------------------------------------------------
(* Parsers inside the server.                                              *)

EvtxQuery(c) ==
  LET a == StopAfter(c, {"broken", "odd"}, Matching(c))
  IN InProcess(c, IF a.seen > 0 /\ a.rows = {} /\ a.errors = a.seen THEN Refused ELSE a)

\* An entry without $SI passes the time filter.
MftTimeline(c)   == InProcess(c, StopAfter(c, {"broken"}, Matching(c) \cup {"odd"}))
UsnjrnlQuery(c)  == InProcess(c, StopAfter(c, {"broken"}, Matching(c) \cup {"odd"}))

\* Event id 3 is wanted when the call names none, so there always is a filter.
SysmonNetworkQuery(c) ==
  InProcess(c, StopAfter(c, {"broken", "odd"}, {"wanted", "beyond"}))

\* A record is a key; a walk of all the keys under the one asked for.
RegistryQuery(c) == InProcess(c, StopBefore(Reached(c), {}, Lines))

\* A record is a file; the wanted ones match a rule.
YaraScan(c) == InProcess(c, StopBefore(c, {"broken"}, {"wanted", "beyond"}))

\* A record is a line of any of the logs, which share one limit.
ZeekSummary(c) ==
  LET a == StopBefore(c, {"broken"}, Values)
  IN InProcess(c, [a EXCEPT !.seen = Cardinality(a.rows)])

\* LIMIT is part of the query: what it leaves out is never counted.
BrowserHistory(c) ==
  LET read == Cut(c, c.limit) IN InProcess(c, AllParse(read, Leading(read, {})))

\* Flat cache files: an empty slot is passed over, a cut payload costs its
\* digest, and the first record that is not one ends the walk.
CmmmEntries(c) ==
  LET before == Before(c, {"broken", "beyond"})
      rows   == Places(Cut(c, before), {"wanted", "odd"})
  IN Answer(rows, Cardinality(rows),
            HowMany(c, {"odd"}, before) + (IF before = Len(c.records) THEN 0 ELSE 1))

ThumbcacheParse(c) ==
  LET a == CmmmEntries(c) IN InProcess(c, [a EXCEPT !.rows = FirstOf(@, c.limit)])

\* Records of a log in JSON, or the AuditData column of a CSV file.
CloudAudit(c) == InProcess(c, AllParse(c, WhileRoom(c, Parsed, Parsed)))
VpcFlow(c)    == InProcess(c, WhileRoom(c, Values, Values))

Info2Paths(c) == InProcess(c, Leading(c, {}))

-----------------------------------------------------------------------------
(* Programs run by the server.                                             *)

\* A value that is no object becomes the row of process 0.
Processes(c) ==
  AllParse(c, FilterThenCut(c, Matching(c) \cup (IF c.filtered THEN {} ELSE {"odd"})))

VolPslist(c)  == FromChild(c, Processes(c))
VolPsscan(c)  == FromChild(c, Processes(c))
VolPsxview(c) == FromChild(c, Processes(c))
VolMalfind(c) == FromChild(c, Processes(c))

\* ... an empty row, ...
VolRun(c)       == FromChild(c, AllParse(c, Leading(c, {})))
HayabusaScan(c) == FromFile(c, AllParse(c, Leading(c, {})))

\* ... or takes a place under the limit and is then dropped.
NfdumpQuery(c)     == FromChild(c, AllParse(c, Leading(c, {"odd"})))
JournalctlQuery(c) == FromChild(c, AllParse(c, Leading(c, {"odd"})))
VelCollect(c)      == FromChild(c, AllParse(c, Leading(c, {"odd"})))

\* A line without a type is no record; to find nothing is no failure here.
Ausearch(c) ==
  IF c.child = "unmatched" THEN Answer({}, 0, 0)
  ELSE FromChild(c, WhileRoom(c, Values, Values))

LoginAccounting(c) == FromChild(c, Leading(c, {}))
IndxParse(c)       == FromChild(c, WhileRoom(c, Lines, Lines))

SuricataEve(c) == FromFile(c, AllParse(c, WhileRoom(c, Values, Parsed)))

CsvRows(c)   == WhileRoom(c, Lines, Lines)
EzParse(c)   == FromFile(c, CsvRows(c))
MacTriage(c) == FromFile(c, CsvRows(c))

\* Without lecmd there may be one row, about the path of the file alone.
LecmdFallback(c) == Degraded
LecmdParse(c)    == IF c.child = "missing" THEN LecmdFallback(c) ELSE EzParse(c)

\* A line that is no event is passed over; no output file means no events.
JsonLines(c)  == WhileRoom(c, Parsed, Parsed)
PlasoParse(c) == FromChild(c, JsonLines(c))

\* Only the first file of a table that was split is read.
SrumParse(c) ==
  IF c.child \in {"missing", "silent"} THEN Degraded
  ELSE FromFile(c, WhileRoom(Reached(c), Lines, Lines))

\* A message that cannot be read is passed over; the walk has a bound.
ExportedMessages(c) == WhileRoom(Reached(c), Values, Values)
PstParse(c) == IF c.child = "missing" THEN Degraded ELSE FromChild(c, ExportedMessages(c))

Features(c)    == WhileRoom(c, Values, Values)
BulkExtract(c) == IF c.child = "missing" THEN Degraded ELSE FromFile(c, Features(c))

-----------------------------------------------------------------------------
(* Inputs and property.                                                    *)

Calls ==
  {c \in [records : UNION {[1..n -> Lines] : n \in 0..MaxRecords}, limit : RowLimits,
          filtered : BOOLEAN, child : {"unfit", "missing", "failed", "silent", "unmatched", "ran"}] :
     /\ \A i \in 2..Len(c.records) :
          c.records[i - 1] = "beyond" => c.records[i] = "beyond"
     /\ c.child \in {"silent", "unmatched"} => c.records = << >>}

\* What each tool answers to a call.
AnswersTo(c) ==
  [evtx_query |-> EvtxQuery(c), mft_timeline |-> MftTimeline(c),
   usnjrnl_query |-> UsnjrnlQuery(c), sysmon_network_query |-> SysmonNetworkQuery(c),
   registry_query |-> RegistryQuery(c), yara_scan |-> YaraScan(c),
   zeek_summary |-> ZeekSummary(c), browser_history |-> BrowserHistory(c),
   thumbcache_parse |-> ThumbcacheParse(c), cloud_audit |-> CloudAudit(c),
   vpc_flow |-> VpcFlow(c), info2 |-> Info2Paths(c), vol_pslist |-> VolPslist(c),
   vol_psscan |-> VolPsscan(c), vol_psxview |-> VolPsxview(c),
   vol_malfind |-> VolMalfind(c), vol_run |-> VolRun(c), hayabusa_scan |-> HayabusaScan(c),
   nfdump_query |-> NfdumpQuery(c), journalctl_query |-> JournalctlQuery(c),
   vel_collect |-> VelCollect(c), ausearch |-> Ausearch(c),
   login_accounting |-> LoginAccounting(c), indx_parse |-> IndxParse(c),
   suricata_eve |-> SuricataEve(c), ez_parse |-> EzParse(c), lecmd |-> LecmdParse(c),
   mac_triage |-> MacTriage(c), plaso_parse |-> PlasoParse(c), srum_parse |-> SrumParse(c),
   pst_parse |-> PstParse(c), bulk_extract |-> BulkExtract(c)]

\* The counters of these say how much was read, not how much matched.
Filtering == {"evtx_query", "mft_timeline", "usnjrnl_query", "sysmon_network_query",
              "yara_scan", "vol_pslist", "vol_psscan", "vol_psxview", "vol_malfind"}

Bounded == {"registry_query", "thumbcache_parse", "srum_parse", "pst_parse"}

\* What a caller can go by: fewer rows than asked for, and no more seen than
\* came back.  Neither sign is enough alone.
LooksWhole(tool, c, a) ==
  /\ a.ok /\ ~ a.degraded /\ Cardinality(a.rows) < c.limit
  /\ tool \in Filtering \/ a.seen = Cardinality(a.rows) + a.errors

\* An answer that looks whole holds every wanted record, of all the tools and
\* whatever the source mixes in: no row is lost in silence between the limit,
\* the filter and the values that have no row (the loop and the counters of
\* each tool in services/mcp/src/tools).  The bounds of four tools are apart.
WholeAnswersAreWhole ==
  \A tool \in DOMAIN AnswersTo(call) :
    LET a == AnswersTo(call)[tool]
        wanted == {"wanted"} \cup (IF tool \in Bounded THEN {} ELSE {"beyond"})
    IN LooksWhole(tool, call, a) => Places(call, wanted) \subseteq a.rows

=============================================================================
