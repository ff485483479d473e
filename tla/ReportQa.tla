------------------------------ MODULE ReportQa ------------------------------
(***************************************************************************)
(* The machine checks of a report before it is signed off                  *)
(* (build_report_qa_signoff of scripts/find_evil_auto.py), as far as one   *)
(* of them can fail.  A check that fails keeps the packet from expert      *)
(* review; the others only warn.  That a finding cites a call of this run  *)
(* is left to build_manifest, which asks it of the log (Packet!Seals).     *)
(*                                                                         *)
(* finding: [tier, claims, classes, matched]; classes are those of the tool *)
(* it cites and of the timeline events linked to it.  notes: what the rest *)
(* of the run brings along, see Notes.                                     *)
(***************************************************************************)
EXTENDS Naturals, FiniteSets

Claims == {"execution", "exfiltration"}

Notes == [rejected  : BOOLEAN,   \* the verifier rejected a finding of the run
          forbidden : BOOLEAN,   \* a visible text says "clean", "cleared", ...
          uncovered : BOOLEAN]   \* the verdict is NO_EVIL, and Coverage!ClearanceFails

\* A lead that merely mentions execution is no claim of it.
ClaimsExecution(f) == "execution" \in f.claims /\ f.tier # "HYPOTHESIS"

WeakClasses == {"memory", "yara", "evtx"}

ExecutionIsSupported(f) ==
  ClaimsExecution(f) => Cardinality(f.classes) >= 2 /\ ~ f.classes \subseteq WeakClasses

PresenceClasses == {"disk/filesystem", "mft", "prefetch", "registry", "usnjrnl", "yara"}
EgressClasses   == {"network"}

\* A collection by Velociraptor counts as movement beside an independent presence.
TwoProngsMet(classes) ==
  /\ classes \cap PresenceClasses # {}
  /\ classes \cap (EgressClasses \cup {"velociraptor"}) # {}

ExfiltrationIsSupported(f) == "exfiltration" \in f.claims => TwoProngsMet(f.classes)

\* A finding whose replay differed is a failure of the verifier too, unlike
\* one that was rejected once and recovered when it was sent again.
ReplaysHold(findings, notes) == ~ notes.rejected /\ \A f \in findings : f.matched

ReadyForSignoff(findings, notes) ==
  /\ \A f \in findings : ExecutionIsSupported(f) /\ ExfiltrationIsSupported(f)
  /\ ReplaysHold(findings, notes)
  /\ ~ notes.forbidden
  /\ ~ notes.uncovered

=============================================================================
