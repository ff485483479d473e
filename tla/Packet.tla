------------------------------- MODULE Packet -------------------------------
(***************************************************************************)
(* What the engine leaves of a run (scripts/find_evil_auto.py) and what    *)
(* the packet check makes of it (scripts/validate-submission-assets.py):   *)
(* the records of the audit log, verdict.json and the manifest of one case *)
(* directory, which a second run under the same case id appends to and     *)
(* writes over.                                                            *)
(*                                                                         *)
(* A run makes one tool call and drafts one finding at most; it goes       *)
(* through Steps in order, may end early, and may lose single steps:       *)
(* _audit drops the answer of an append, and outside local mode a failed   *)
(* write of verdict.json prints a warning.  Tool call ids and finding ids  *)
(* start anew in each run, so records of two runs name the same ids.       *)
(***************************************************************************)
EXTENDS ReportQa, Sequences, FiniteSetsExt

CONSTANT MaxFaults   \* over all the runs of a case

VARIABLE history     \* an input: the runs of one case directory, in order

-----------------------------------------------------------------------------
(* The engine.                                                             *)

AboutTheFinding == {"verifier_action", "replay", "acp_handoff", "finding_approved"}

\* "verdict.json" and "manifest" are files, the others records of the log.
Steps == <<"tool_call_start", "tool_call_output", "verifier_action", "replay",
           "acp_handoff", "report_qa", "customer_release_gate", "finding_approved",
           "verdict.json", "verdict_artifact", "expert_signoff_packet",
           "verdict_packet", "manifest">>

NoFinding == [action |-> "none"]

ComesTo(r) == {Steps[i] : i \in 1..r.reached}

Done(r) == {s \in ComesTo(r) \ r.lost : r.finding = NoFinding => s \notin AboutTheFinding}

RunsThat(h, s) == {i \in DOMAIN h : s \in Done(h[i])}

\* Where the artifact of the finding lies decides what its path becomes
\* before the sinks read it, ...
FinalPath(place) ==
  CASE place = "extracted"                   -> "under_case"
    [] place \in {"repo_home", "other_home"} -> "base_name"
    [] OTHER                                 -> place

\* ... and what write_verdict then makes of every path under the repository.
StoredPath(path) == IF path = "repo" THEN "under_repo" ELSE path

\* Variant: the findings are put into final form after they were approved.
DraftBody(f) == [tier |-> f.tier, path |-> f.place]

ApprovedBody(f) == [tier |-> f.tier, path |-> FinalPath(f.place)]
StoredBody(f)   == [tier |-> f.tier, path |-> StoredPath(FinalPath(f.place))]

\* report_qa, which verdict.json holds.
MergedOf(r) == {r.finding} \ {NoFinding}
Ready(r)    == ReadyForSignoff(MergedOf(r), r.notes)

\* The replay record that verifier_action, replay and acp_handoff all hash.
ReplayRecord(f) == [action |-> f.action, matched |-> f.matched]

\* build_manifest refuses a finding whose tool call the log lacks before it.
Seals(h, i) ==
  /\ i \in RunsThat(h, "manifest")
  /\ \A a \in RunsThat(h, "finding_approved") : a <= i
       => \E o \in RunsThat(h, "tool_call_output") : o <= a

-----------------------------------------------------------------------------
(* The packet check.                                                       *)

VerdictOf(h)  == Max({0} \cup RunsThat(h, "verdict.json"))
ManifestOf(h) == Max({0} \cup {i \in DOMAIN h : Seals(h, i)})

\* The manifest on disk is the last one, over the log as it is now.
ManifestHolds(h) ==
  /\ ManifestOf(h) # 0
  /\ h[ManifestOf(h)].signer = "ed25519"
  /\ \A i \in DOMAIN h : i > ManifestOf(h) => Done(h[i]) \subseteq {"verdict.json"}

RequiredKinds == {"report_qa", "customer_release_gate", "verdict_artifact",
                  "expert_signoff_packet"}

\* Variant: one artifact record with the right hash is enough.
SomeArtifactMatches(h) == VerdictOf(h) \in RunsThat(h, "verdict_artifact")

ArtifactMatches(h) == RunsThat(h, "verdict_artifact") = {VerdictOf(h)}

EvidenceOf(h, kind) ==
  {ReplayRecord(h[i].finding) : i \in {i \in RunsThat(h, kind) :
                                         kind = "replay" => h[i].finding.matched}}

FindingIsBorneOut(h, f) ==
  LET agreed == EvidenceOf(h, "verifier_action") \cap EvidenceOf(h, "acp_handoff")
                  \cap EvidenceOf(h, "replay")
  IN /\ RunsThat(h, "tool_call_start") # {}
     /\ RunsThat(h, "tool_call_output") # {}
     /\ \E i \in RunsThat(h, "finding_approved") : ApprovedBody(h[i].finding) = StoredBody(f)
     /\ agreed # {}
     /\ f.tier = "CONFIRMED" => \A e \in agreed : e.action # "downgraded"

Accepted(h) ==
  /\ ManifestHolds(h)
  /\ \A kind \in RequiredKinds : RunsThat(h, kind) # {}
  /\ VerdictOf(h) # 0
  /\ ArtifactMatches(h)
  /\ LET r == h[VerdictOf(h)] IN
       /\ Ready(r)
       /\ r.finding = NoFinding \/ FindingIsBorneOut(h, r.finding)

-----------------------------------------------------------------------------
(* Inputs.                                                                 *)

\* The verifier approves what it could replay.  A lowered finding may be
\* CONFIRMED again: the merge takes the tier of the louder twin.
Findings ==
  {f \in [action : {"approved", "downgraded"}, matched : BOOLEAN, tier : {"CONFIRMED", "INFERRED"},
          claims : {{}}, classes : {{"mft"}},
          place : {"extracted", "repo_home", "repo", "other_home", "other"}] :
     f.action = "approved" => f.matched}

\* What the finding claims and rests on, for the checks of report QA.
ClaimingFindings ==
  [action : {"approved"}, matched : {TRUE}, tier : {"CONFIRMED", "HYPOTHESIS"}, claims : SUBSET Claims,
   classes : SUBSET {"memory", "prefetch", "network", "velociraptor"} \ {{}}, place : {"extracted"}]

Quiet == [rejected |-> FALSE, forbidden |-> FALSE, uncovered |-> FALSE]

Signers == {"ed25519", "stub", "sigstore"}

AllSteps == {Steps[i] : i \in 1..Len(Steps)}

\* The steps a run lost, and that it ended early.
FaultsOf(r) == r.lost \cup (IF r.reached = Len(Steps) THEN {} ELSE {"end"})

Faults(h) ==
  Cardinality({f \in (DOMAIN h) \X (AllSteps \cup {"end"}) : f[2] \in FaultsOf(h[f[1]])})

\* The seal is not lost in silence: finalize raises and the run ends there.
Disturbed(findings, notes, signers, n) ==
  {r \in [finding : findings, notes : notes, signer : signers, reached : 0..Len(Steps),
          lost : UNION {kSubset(k, AllSteps \ {"manifest"}) : k \in 0..n}] :
     /\ Faults(<<r>>) <= n /\ r.lost \subseteq ComesTo(r)
     /\ r.notes.uncovered => r.finding = NoFinding /\ ~ r.notes.rejected}

PlainFinding == [action |-> "approved", matched |-> TRUE, tier |-> "CONFIRMED", claims |-> {},
                 classes |-> {"mft"}, place |-> "extracted"]
LoweredFinding == [PlainFinding EXCEPT !.action = "downgraded", !.tier = "INFERRED"]

PlainRuns(n) == Disturbed({NoFinding, PlainFinding, LoweredFinding}, {Quiet}, {"ed25519"}, n)

\* The faults are split over the two runs.
Reruns ==
  UNION {{<<a, b>> : a \in PlainRuns(n), b \in PlainRuns(MaxFaults - n)} : n \in 0..MaxFaults}

Histories ==
  {<<r>> : r \in Disturbed(Findings \cup {NoFinding}, {Quiet}, Signers, 1)
                 \cup Disturbed({NoFinding, PlainFinding}, Notes, {"ed25519"}, 1)
                 \cup Disturbed(ClaimingFindings, {Quiet}, {"ed25519"}, 0)}
  \cup Reruns

-----------------------------------------------------------------------------
(* Properties.                                                             *)

(* One run that nothing disturbed passes its own check exactly when report *)
(* QA held, its signature is the one the check can verify, no lowered       *)
(* finding was raised to CONFIRMED again, and the evidence is not in the    *)
(* repository outside /home, whose paths write_verdict rewrites after the   *)
(* finding was approved.  A finding whose replay differed never passes, nor *)
(* does a second run over the same directory, nor a claim of execution or   *)
(* exfiltration above a hypothesis that rests on one artifact class.        *)
UndisturbedRunsPass ==
  LET h == history
      f == h[1].finding
  IN h # << >> /\ Faults(h) = 0 =>
       /\ Accepted(h) <=>
            /\ Len(h) = 1
            /\ Ready(h[1]) /\ h[1].signer = "ed25519"
            /\ f # NoFinding =>
                 /\ f.tier = "CONFIRMED" => f.action = "approved"
                 /\ f.place # "repo"
       /\ Accepted(h) /\ f # NoFinding =>
            /\ f.matched
            /\ f.claims # {} /\ f.tier # "HYPOTHESIS" => Cardinality(f.classes) >= 2

(* No single lost append, lost write of verdict.json or early end passes:   *)
(* the accepted verdict is that of the last run that left anything, and     *)
(* that run itself recorded every kind the check asks for, although the ids *)
(* of an earlier run's records are the same.                                *)
OneFaultIsCaught ==
  LET h == history
      last == Max({i \in DOMAIN h : Done(h[i]) # {}})
  IN h # << >> /\ Faults(h) <= 1 /\ Accepted(h) =>
       /\ VerdictOf(h) = last
       /\ RequiredKinds \subseteq Done(h[last])
       /\ h[last].finding # NoFinding =>
            AboutTheFinding \cup {"tool_call_start", "tool_call_output"} \subseteq Done(h[last])

=============================================================================
