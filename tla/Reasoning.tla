------------------------------ MODULE Reasoning -----------------------------
(***************************************************************************)
(* From drafted findings to the verdict: Investigation.reason and          *)
(* compute_verdict of scripts/find_evil_auto.py, with the rulings of the   *)
(* verifier (findevil_agent/verifier.py), the judge (judge.py and its      *)
(* tool, which applies the rulings first) and the correlator.              *)
(*                                                                         *)
(* A finding is what decides its fate: its tier, how it cites a tool call, *)
(* which claim it makes and of what kind.  A replay is what comparing its  *)
(* output with the recorded one can show.  The opt-in gates are off, as by *)
(* default.  Audit records, reports and the corroboration replays, which   *)
(* change no tier, are left out.                                           *)
(***************************************************************************)
EXTENDS Integers, Sequences, FiniteSets, SequencesExt

CONSTANTS
  PoolA, PoolB, \* the findings a pool may draft, in order
  Claim,        \* per finding: its group key; a pool makes a claim once, since
                \* its ids differ
  Class,        \* per finding: its artifact class, for the judge, or none
  Severe,       \* findings of techniques T1014 and T1055
  OneClass,     \* execution claims that cite tools of one artifact class
  Unmet         \* claims whose text does not satisfy their correlator gate

None == "none"
Findings == ToSet(PoolA) \union ToSet(PoolB)

ASSUME PoolAssumption ==
  /\ IsFiniteSet(Findings)
  /\ ToSet(PoolA) \intersect ToSet(PoolB) = {}
  /\ \A pool \in {ToSet(PoolA), ToSet(PoolB)} :
       \A f, g \in pool : Claim[f] = Claim[g] => f = g
  \* The technique is part of the group key.
  /\ \A f, g \in Findings : Claim[f] = Claim[g] => (f \in Severe <=> g \in Severe)

Tiers == {"CONFIRMED", "INFERRED", "HYPOTHESIS"}
Value == [CONFIRMED |-> 10, INFERRED |-> 6, HYPOTHESIS |-> 3]
OneLower == [CONFIRMED |-> "INFERRED", INFERRED |-> "HYPOTHESIS", HYPOTHESIS |-> "HYPOTHESIS"]

\* A call may be cited that the audit log has, that it has not, or none.
Citations == {"recorded", "unknown", "blank"}

VARIABLES
  draft,      \* the drafted findings, each with its tier and citation
  examined,   \* every available artifact class was examined, without errors
  stage,      \* replaying, redispatching, judging, ablating, correlating, ruling, done
  pool,       \* the pool under verification
  result,     \* per finding: the verifier's result; none before its replay
  retried,    \* findings sent to the verifier a second time
  streak, escalated,  \* _consecutive_failures, _heartbeat_escalated
  failures,   \* findings in verifier_replay_failures
  judged,     \* judge_findings answered, within its budget
  merged,     \* the merged findings: members, the one cloned, tier
  verdict

verifierVars == <<pool, result, retried, streak, escalated, failures>>
vars == <<draft, examined, stage, pool, result, retried, streak, escalated,
          failures, judged, merged, verdict>>

Drafted == DOMAIN draft
NoResult == [action |-> None, matched |-> FALSE, again |-> FALSE]

Init ==
  /\ \E D \in SUBSET Findings : draft \in [D -> [tier : Tiers, cites : Citations]]
  /\ examined \in BOOLEAN
  /\ stage = "replaying" /\ pool = PoolA
  /\ result = [f \in Drafted |-> NoResult] /\ retried = {}
  /\ streak \in 0..1 /\ escalated \in BOOLEAN /\ failures = {}
  /\ judged = FALSE /\ merged = {} /\ verdict = None

-----------------------------------------------------------------------------
(* reverify_finding.                                                        *)

\* What a replay shows: the call or the tool failed, an identity anchor is not
\* in the output, the output differs, a value is not in it, fewer lines support
\* it than claimed, or all is as recorded.
Replays == {"failed", "refuted", "drifted", "misread", "fewer", "exact"}

Rejected(matched, again) == [action |-> "rejected", matched |-> matched, again |-> again]
Downgraded(matched) == [action |-> "downgraded", matched |-> matched, again |-> FALSE]
Approved == [action |-> "approved", matched |-> TRUE, again |-> FALSE]

\* Only a CONFIRMED finding, and only at first, is rejected for what a second
\* replay may clear up.
Soft(f, matched, second) ==
  IF draft[f].tier = "CONFIRMED" /\ ~ second THEN Rejected(matched, TRUE) ELSE Downgraded(matched)

\* The schema turns away what is anchored and cites nothing, before the verifier
\* can name the drift class that the engine does not send again.
Ruling(f, replay, second) ==
  IF replay = "failed" THEN Rejected(FALSE, TRUE)
  ELSE IF draft[f].cites = "blank" THEN Rejected(TRUE, draft[f].tier # "HYPOTHESIS")
  ELSE IF draft[f].cites = "unknown" THEN Rejected(TRUE, FALSE)
  ELSE CASE replay = "refuted" -> Rejected(TRUE, TRUE)
         [] replay = "drifted" -> Soft(f, FALSE, second)
         [] replay = "misread" -> Soft(f, TRUE, second)
         [] replay = "fewer" -> Downgraded(TRUE)
         [] replay = "exact" -> Approved

-----------------------------------------------------------------------------
(* _verify_pool, for pool A and then for pool B.                            *)

InPool == Drafted \intersect ToSet(pool)

\* The workers end in any order; a result is kept at its finding's index.
Replay(f) ==
  /\ stage = "replaying" /\ f \in InPool /\ result[f] = NoResult
  /\ \E replay \in Replays : result' = [result EXCEPT ![f] = Ruling(f, replay, FALSE)]
  /\ UNCHANGED <<draft, examined, stage, pool, retried, streak, escalated,
                 failures, judged, merged, verdict>>

AllReplayed ==
  /\ stage = "replaying" /\ \A f \in InPool : result[f] # NoResult
  /\ stage' = "redispatching"
  /\ UNCHANGED <<draft, examined, verifierVars, judged, merged, verdict>>

ToRetry == {f \in InPool \ retried : result[f].action = "rejected" /\ result[f].again}

IsNextToRetry(f) == /\ stage = "redispatching" /\ f \in ToRetry
                    /\ f = Head(SelectSeq(pool, LAMBDA g : g \in ToRetry))

\* Once for every finding, in their order.  Nothing but a recorded tool call
\* resets the streak, so two that persist escalate, whatever is between them.
Redispatch(f) ==
  /\ IsNextToRetry(f)
  /\ \E replay \in Replays :
       LET second == Ruling(f, replay, TRUE)
           persists == second.action = "rejected"
       IN /\ result' = [result EXCEPT ![f] = second]
          /\ streak' = IF persists THEN streak + 1 ELSE streak
          /\ escalated' = (escalated \/ (persists /\ streak + 1 >= 2))
  /\ retried' = retried \union {f}
  /\ UNCHANGED <<draft, examined, stage, pool, failures, judged, merged, verdict>>

\* Variant: what could not be sent again is no failure.
FailedRetriesOnly(f) == result[f].action = "rejected" /\ result[f].again

Failed(f) == result[f].action = "rejected" \/ ~ result[f].matched

RecordActions ==
  /\ stage = "redispatching" /\ ToRetry = {}
  /\ failures' = failures \union {f \in InPool : Failed(f)}
  /\ IF pool = PoolA THEN pool' = PoolB /\ stage' = "replaying"
                     ELSE pool' = pool /\ stage' = "judging"
  /\ UNCHANGED <<draft, examined, result, retried, streak, escalated, judged, merged, verdict>>

-----------------------------------------------------------------------------
(* judge_findings.                                                          *)

Accepted == {f \in Drafted : result[f].action \in {"approved", "downgraded"}}

\* Variant: the rulings do not lower tiers before the merge.
VerifiedAsDrafted(f) == draft[f].tier

Verified(f) == IF result[f].action = "downgraded" THEN OneLower[draft[f].tier] ELSE draft[f].tier

\* A pool's credibility is its share of accepted findings times a constant that
\* cancels; both shares are brought to one denominator.
Count(p, set) == Cardinality(ToSet(p) \intersect set)
WeightA == Count(PoolA, Accepted) * Count(PoolB, Drafted)
WeightB == Count(PoolB, Accepted) * Count(PoolA, Drafted)

\* Scores are in hundredths of the weights' sum.  Where the score is on the
\* threshold the division in floating point may end below it.
Labels(score, weights) ==
  CASE score > 80 * weights -> {"CONFIRMED"}
    [] score = 80 * weights -> {"CONFIRMED", "INFERRED"}
    [] score > 50 * weights /\ score < 80 * weights -> {"INFERRED"}
    [] score = 50 * weights -> {"INFERRED", "HYPOTHESIS"}
    [] OTHER -> {"HYPOTHESIS"}

\* The class of a pair is that of the first of the two that has one.
PairClass(a, b) == IF Class[a] # None THEN Class[a] ELSE Class[b]
Corroborated(a, b) == \E g \in Accepted : Class[g] \notin {PairClass(a, b), None}

\* Variant: the bonus is counted twice, as the credibility has it too.
BonusTwice(a, b) == IF Corroborated(a, b) THEN 14 ELSE 10

Bonus(a, b) == IF Corroborated(a, b) THEN 12 ELSE 10

PairLabels(a, b) ==
  Labels(Bonus(a, b) * (Value[Verified(a)] * WeightA + Value[Verified(b)] * WeightB),
         WeightA + WeightB)

\* What is found by one pool keeps its tier; of a pair the one with the longer
\* description is cloned, under the tier of the merge.
Merges(members) ==
  IF Cardinality(members) = 1
  THEN {[members |-> members, clone |-> f, tier |-> Verified(f)] : f \in members}
  ELSE LET a == CHOOSE f \in members : f \in ToSet(PoolA)
           b == CHOOSE f \in members : f \in ToSet(PoolB)
       IN [members : {members}, clone : members, tier : PairLabels(a, b)]

\* Variant: of each claim only what pool A found is judged.
GroupsOfA == {{g \in Accepted : Claim[g] = Claim[f]} : f \in Accepted \intersect ToSet(PoolA)}

Groups == {{g \in Accepted : Claim[g] = Claim[f]} : f \in Accepted}

Judge ==
  /\ stage = "judging"
  /\ merged' \in Choices({Merges(members) : members \in Groups})
  /\ judged' = TRUE /\ stage' = "ablating"
  /\ UNCHANGED <<draft, examined, verifierVars, verdict>>

\* The call failed, its input was refused (an id drafted twice is), or the
\* judge went over its budget: each gives an empty list.
JudgeFails ==
  /\ stage = "judging"
  /\ merged' = {} /\ stage' = "ablating"
  /\ UNCHANGED <<draft, examined, verifierVars, judged, verdict>>

-----------------------------------------------------------------------------
(* The two passes of the rule that an execution claim needs two artifact    *)
(* classes: by the tools it cites, then by what its text says.              *)

Lowered(m) == [m EXCEPT !.tier = OneLower[@]]

\* Variant: the tools cited are not looked at.
AblateNothing ==
  /\ stage = "ablating"
  /\ stage' = "correlating"
  /\ UNCHANGED <<draft, examined, verifierVars, judged, merged, verdict>>

Ablate ==
  /\ stage = "ablating"
  /\ merged' = {IF m.clone \in OneClass /\ m.tier = "CONFIRMED" THEN Lowered(m) ELSE m : m \in merged}
  /\ stage' = "correlating"
  /\ UNCHANGED <<draft, examined, verifierVars, judged, verdict>>

Correlate ==
  /\ stage = "correlating"
  /\ merged' = {IF m.clone \in Unmet THEN Lowered(m) ELSE m : m \in merged}
  /\ stage' = "ruling"
  /\ UNCHANGED <<draft, examined, verifierVars, judged, verdict>>

\* On an error the findings go on as the judge left them.
CorrelateFails ==
  /\ stage = "correlating" /\ merged # {}
  /\ stage' = "ruling"
  /\ UNCHANGED <<draft, examined, verifierVars, judged, merged, verdict>>

EmptyVerdict ==
  IF escalated \/ failures # {} \/ ~ examined THEN "INDETERMINATE" ELSE "NO_EVIL"

Alarming(m) == m.tier = "CONFIRMED" \/ (m.clone \in Severe /\ m.tier = "INFERRED")

Rule ==
  /\ stage = "ruling"
  /\ verdict' = IF merged = {} THEN EmptyVerdict
                ELSE IF \E m \in merged : Alarming(m) THEN "SUSPICIOUS" ELSE "INDETERMINATE"
  /\ stage' = "done"
  /\ UNCHANGED <<draft, examined, verifierVars, judged, merged>>

Next ==
  \/ \E f \in Findings : Replay(f) \/ Redispatch(f)
  \/ AllReplayed \/ RecordActions
  \/ Judge \/ JudgeFails \/ Ablate \/ Correlate \/ CorrelateFails \/ Rule

Spec == Init /\ [][Next]_vars

-----------------------------------------------------------------------------
(* Properties.                                                              *)

Rank == [CONFIRMED |-> 3, INFERRED |-> 2, HYPOTHESIS |-> 1]

TypeOK ==
  /\ stage \in {"replaying", "redispatching", "judging", "ablating", "correlating", "ruling", "done"}
  /\ result \in [Drafted -> [action : {None, "approved", "downgraded", "rejected"},
                             matched : BOOLEAN, again : BOOLEAN]]
  /\ retried \subseteq Drafted /\ failures \subseteq Drafted
  /\ streak \in 0..(1 + Cardinality(retried))
  /\ \A m \in merged : m.members \subseteq Drafted /\ m.clone \in m.members /\ m.tier \in Tiers
  /\ verdict \in {None, "SUSPICIOUS", "INDETERMINATE", "NO_EVIL"}
  /\ verdict = None <=> stage # "done"

\* The tier that the last replay leaves a finding.
Earned(f) == IF result[f].action = "approved" THEN draft[f].tier ELSE OneLower[draft[f].tier]

(* "rejected findings never reach here, and downgraded CONFIRMED findings   *)
(* no longer keep that label" (judge.py:217-219): whatever the credibility  *)
(* of the pools and the bonus, from the merge to the verdict no finding     *)
(* stands above the best of what its replays earned.                        *)
NoTierAboveItsBest ==
  \A m \in merged : \E f \in m.members \intersect Accepted : Rank[m.tier] <= Rank[Earned(f)]

(* "Any CONFIRMED-tier finding.  A finding the verifier re-executed and     *)
(* matched" (verdict-semantics.md:16-20): the alarm goes back to a finding  *)
(* whose replay was approved as CONFIRMED, or to one of the two severe      *)
(* techniques that was replayed and is above a HYPOTHESIS.                  *)
SuspiciousIsEarned ==
  verdict = "SUSPICIOUS" =>
    \E f \in Accepted : \/ result[f].action = "approved" /\ draft[f].tier = "CONFIRMED"
                        \/ f \in Severe /\ Earned(f) # "HYPOTHESIS"

(* Every finding a pool drafted is either in what the verdict is about or   *)
(* among the failures that the summary shows as blockers                    *)
(* (find_evil_auto.py:15029 and 16574).                                     *)
EveryFindingIsAnswered ==
  stage = "done" /\ judged => Drafted \subseteq failures \union UNION {m.members : m \in merged}

(* An execution claim that rests on one artifact class is not CONFIRMED in  *)
(* the verdict, although the merge may raise it again after its replay and  *)
(* the correlator may fail (find_evil_auto.py:9722-9735).                   *)
OneClassIsNotConfirmed ==
  stage = "done" => \A m \in merged : m.clone \in OneClass => m.tier # "CONFIRMED"

(* NO_EVIL after a judge that answered: nobody drafted anything.  No        *)
(* sequence of rejections and retries empties the list and clears the host. *)
NoEvilHidesNothing == verdict = "NO_EVIL" /\ judged => Drafted = {}

(* "The agent ran the per-evidence-type playbook and emitted zero findings" *)
(* (verdict-semantics.md:66-67): NO_EVIL means that there was no finding.   *)
NoEvilMeansNoFindings == verdict = "NO_EVIL" => Drafted = {}

=============================================================================
