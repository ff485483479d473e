-------------------------- MODULE MCInvestigation ---------------------------
(* Model-checking instance of Investigation: each plan is there for a case. *)
EXTENDS Investigation

\* Caps that the plans below go beyond, once for each way a lane takes its entries.
SmallCaps == [class \in CappedClasses |-> IF class = "mft" THEN 3 ELSE 2]

Alone(type, here, inside) ==
  [type |-> type, here |-> here, inside |-> inside, rules |-> FALSE, parallel |-> FALSE,
   agent |-> FALSE, truncated |-> FALSE]

Directory(here) == [Alone("directory", here, << >>) EXCEPT !.parallel = TRUE]

SmallPlans ==
  \* single files
  {Alone("memory", <<"memory">>, << >>), Alone("evtx", <<"evtx">>, << >>),
   Alone("network", <<"pcap">>, << >>), Alone("cloud", <<"cloud">>, << >>),
   Alone("velociraptor", <<"velociraptor">>, << >>), Alone("unknown", << >>, << >>),
   Alone("velociraptor", <<"velociraptor">>, <<"evtx", "prefetch">>),
   Alone("disk", <<"raw_disk">>, << >>), Alone("disk", <<"raw_disk">>, <<"dbx">>),
   [Alone("disk", <<"raw_disk">>, <<"mft", "mft">>) EXCEPT !.parallel = TRUE],
   [Alone("memory", <<"memory">>, << >>) EXCEPT !.rules = TRUE],
   [Alone("memory", <<"memory">>, << >>) EXCEPT !.agent = TRUE]}
  \* directories
  \cup {Directory(here) : here \in
         {<< >>, <<"memory", "evtx">>, <<"evtx", "evtx", "mft">>, <<"evtx", "pcap", "srum">>,
          <<"mft", "mft", "mft", "mft">>, <<"prefetch", "registry">>, <<"registry", "registry", "pcap">>, <<"usnjrnl", "amcache", "jumplist">>,
          <<"lnk", "lnk", "cloud">>, <<"recyclebin", "legacy_evt", "ie_history">>,
          <<"legacy_evt", "legacy_evt", "legacy_evt", "scheduled_task">>, <<"zeek", "sysmon_network">>,
          <<"thumbnail", "browser_db", "yara_target">>, <<"raw_disk">>}}
  \cup {[Directory(<<"evtx">>) EXCEPT !.truncated = TRUE],
        [Directory(<<"yara_target">>) EXCEPT !.rules = TRUE],
        [Directory(<<"raw_disk">>) EXCEPT !.inside = <<"evtx", "mft">>]}

=============================================================================
