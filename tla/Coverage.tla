------------------------------ MODULE Coverage ------------------------------
(***************************************************************************)
(* What the engine makes of a run without findings: which artifact classes *)
(* the evidence has, which of them some tool opened, and whether the run   *)
(* may say NO_EVIL (scripts/find_evil_auto.py: _case_completeness,         *)
(* build_coverage_manifest, compute_verdict) and leave report QA           *)
(* (build_report_qa_signoff).  Two gates written apart, with tables of     *)
(* their own, guard the same claim.                                        *)
(*                                                                         *)
(* evidence: [type, present, truncated]; calls: a set of [tool, err], the  *)
(* recorded calls; unzipped: a Velociraptor zip was extracted.             *)
(***************************************************************************)
EXTENDS Naturals, Sequences, FiniteSets

ExtractedClasses ==
  {"mft", "prefetch", "registry", "usnjrnl", "browser_history", "browser_db", "amcache",
   "srum", "lnk", "jumplist", "scheduled_task", "recyclebin", "reg_txlog", "legacy_evt",
   "ie_history", "thumbnail"}
NetworkClasses == {"pcap", "zeek", "sysmon_network"}

CheckedClasses == {"memory", "evtx", "disk", "network", "velociraptor"}

Sources == [memory |-> {"memory"}, evtx |-> {"evtx"},
            disk |-> {"raw_disk", "yara_target"} \cup ExtractedClasses,
            network |-> NetworkClasses, velociraptor |-> {"velociraptor"}]

Available(evidence) ==
  {c \in CheckedClasses : \/ evidence.type = c
                          \/ evidence.type = "directory" /\ evidence.present \cap Sources[c] # {}}

\* The network tools count for the disk too.
TouchedBy ==
  [memory |-> {"vol_pslist", "vol_psscan", "vol_psxview", "vol_malfind"},
   evtx |-> {"evtx_query"},
   disk |-> {"disk_mount", "disk_extract_artifacts", "mft_timeline", "pcap_triage",
             "usnjrnl_query", "prefetch_parse", "registry_query", "sysmon_network_query",
             "yara_scan", "zeek_summary"},
   network |-> {"pcap_triage", "zeek_summary", "sysmon_network_query"},
   velociraptor |-> {"vel_collect"}]

ToolsRun(calls) == {call.tool : call \in calls}

Touched(calls, unzipped) ==
  {c \in CheckedClasses : \/ ToolsRun(calls) \cap TouchedBy[c] # {}
                          \/ c = "velociraptor" /\ unzipped}

\* TOOL_ARTIFACT_CLASSES: a tool alone in its class stands for the class.
ClassOfTool(tool) ==
  CASE tool \in {"evtx_query", "hayabusa_scan"} -> "evtx"
    [] tool \in {"vol_pslist", "vol_psscan", "vol_psxview", "vol_malfind"} -> "memory"
    [] tool \in {"pcap_triage", "zeek_summary", "sysmon_network_query"} -> "network"
    [] tool \in {"bulk_extract", "ez_parse", "thumbcache_parse"} -> "disk"
    [] tool \in {"disk_mount", "disk_extract_artifacts", "disk_unmount", "oe_dbx_parse"}
         -> "unknown_tool_output"
    [] OTHER -> tool

CallsOf(class, calls) == {call \in calls : ClassOfTool(call.tool) = class}

\* The rows of the coverage manifest: the checked classes and those of the calls.
Rows(calls) == CheckedClasses \cup {ClassOfTool(call.tool) : call \in calls}

Attempted(class, calls, unzipped) == class \in Touched(calls, unzipped) \/ CallsOf(class, calls) # {}

Status(class, evidence, calls, unzipped) ==
  LET failed == {call \in CallsOf(class, calls) : call.err}
      clean  == CallsOf(class, calls) \ failed
  IN CASE failed # {} /\ clean # {} -> "partial"
       [] failed # {} /\ clean = {} -> "failed"
       [] failed = {} /\ clean # {} -> "parsed"
       [] failed = {} /\ clean = {} /\ Attempted(class, calls, unzipped) -> "attempted_no_rows"
       [] OTHER -> IF class \in Available(evidence) THEN "available_not_attempted" ELSE "not_supplied"

Unexamined(evidence, calls, unzipped) ==
  {c \in Rows(calls) : Status(c, evidence, calls, unzipped) = "available_not_attempted"}

\* What coverage_parse_quality counts as examined.
ParsedWell(evidence, calls, unzipped) ==
  {c \in Rows(calls) :
     Status(c, evidence, calls, unzipped) \in {"parsed", "partial", "attempted_no_rows"}}

-----------------------------------------------------------------------------
\* compute_verdict, no finding left.  Without the type in the table no tool counts.
Substantive(type) ==
  CASE type = "directory" -> TouchedBy.memory \cup {"evtx_query", "hayabusa_scan", "mft_timeline",
                               "usnjrnl_query", "prefetch_parse", "registry_query", "yara_scan"}
    [] type = "memory"  -> TouchedBy.memory \cup {"yara_scan"}
    [] type = "evtx"    -> {"evtx_query", "hayabusa_scan"}
    [] type = "network" -> TouchedBy.network
    [] type = "cloud"   -> {"cloud_audit"}
    [] type = "disk"    -> {"mft_timeline", "usnjrnl_query", "prefetch_parse", "registry_query",
                            "yara_scan"}
    [] OTHER -> {}

\* Variant: a failed call is a call like any other.
EmptyVerdictDespiteErrors(evidence, calls, unzipped, escalated) ==
  IF \/ escalated \/ evidence.truncated
     \/ ToolsRun(calls) \cap Substantive(evidence.type) = {}
     \/ Unexamined(evidence, calls, unzipped) # {}
  THEN "INDETERMINATE" ELSE "NO_EVIL"

EmptyVerdict(evidence, calls, unzipped, escalated) ==
  IF \/ escalated \/ evidence.truncated
     \/ \E call \in calls : call.err
     \/ ToolsRun(calls) \cap Substantive(evidence.type) = {}
     \/ Unexamined(evidence, calls, unzipped) # {}
  THEN "INDETERMINATE" ELSE "NO_EVIL"

-----------------------------------------------------------------------------
\* The checks of report QA that a NO_EVIL without findings can fail.
\* Variant: one parser is missing in the second table.
ApplicableLessOne ==
  [memory |-> TouchedBy.memory, evtx |-> {"evtx_query", "hayabusa_scan"},
   disk |-> {"disk_mount", "disk_extract_artifacts", "bulk_extract", "mft_timeline",
             "prefetch_parse", "registry_query", "thumbcache_parse", "yara_scan"},
   network |-> TouchedBy.network, velociraptor |-> {"vel_collect"}]

Applicable ==
  [memory |-> TouchedBy.memory, evtx |-> {"evtx_query", "hayabusa_scan"},
   disk |-> {"disk_mount", "disk_extract_artifacts", "bulk_extract", "mft_timeline",
             "usnjrnl_query", "prefetch_parse", "registry_query", "thumbcache_parse", "yara_scan"},
   network |-> TouchedBy.network, velociraptor |-> {"vel_collect"}]

Uninvoked(evidence, calls) ==
  {c \in Available(evidence) : ToolsRun(calls) \cap Applicable[c] = {}}

CustodyOnly(evidence, calls, unzipped) ==
  "disk" \in Available(evidence) \ Touched(calls, unzipped)

ClearanceFails(evidence, calls, unzipped) ==
  \/ CustodyOnly(evidence, calls, unzipped)
  \/ Unexamined(evidence, calls, unzipped) # {}
  \/ ParsedWell(evidence, calls, unzipped) = {}
  \/ Uninvoked(evidence, calls) # {}

=============================================================================
