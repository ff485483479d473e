--------------------------- MODULE ReasoningProofs --------------------------
(***************************************************************************)
(* Theorems about Reasoning, for every pair of pools, whatever their       *)
(* findings claim.                                                         *)
(***************************************************************************)
EXTENDS Reasoning, FiniteSetTheorems, TLAPS

Actions == {"approved", "downgraded", "rejected"}
Result == [action : Actions \union {None}, matched : BOOLEAN, again : BOOLEAN]
Merged == [members : SUBSET Drafted, clone : Drafted, tier : Tiers]

(* What the steps rely on beyond TypeOK.                                    *)
Shape ==
  /\ Drafted \subseteq Findings
  /\ draft \in [Drafted -> [tier : Tiers, cites : Citations]]
  /\ pool \in {PoolA, PoolB}
  /\ escalated \in BOOLEAN /\ judged \in BOOLEAN
  /\ merged \subseteq Merged

Types == TypeOK /\ Shape

(* A choice takes an element of every set, and takes it from one of them.   *)
LEMMA ChoicesTake ==
  ASSUME NEW S, NEW c \in Choices(S)
  PROVE  /\ \A T \in S : \E x \in c : x \in T
         /\ \A x \in c : \E T \in S : x \in T
  <1>1. PICK g \in [S -> UNION S] : (\A T \in S : g[T] \in T) /\ c = Range(g)
    BY DEF Choices
  <1> QED BY <1>1 DEF Range

\* There are finitely many findings to dispatch again.
LEMMA RetriedIsFinite ==
  ASSUME Types
  PROVE  IsFiniteSet(retried) /\ Cardinality(retried) \in Nat
  <1>1. retried \subseteq Findings /\ IsFiniteSet(Findings)
    BY PoolAssumption DEF Types, TypeOK, Shape
  <1> QED BY <1>1, FS_Subset, FS_CardinalityType

\* The verifier's ruling is a result with an action (verify_finding).
LEMMA RulingType ==
  ASSUME Types, NEW f \in Drafted, NEW replay \in Replays, NEW second \in BOOLEAN
  PROVE  /\ Ruling(f, replay, second) \in Result
         /\ Ruling(f, replay, second).action \in Actions
  <1>1. draft[f].tier \in Tiers /\ draft[f].cites \in Citations
    BY DEF Types, Shape
  <1>2. \A m, a \in BOOLEAN : Rejected(m, a) \in Result /\ Rejected(m, a).action \in Actions
    BY DEF Rejected, Result, Actions
  <1>3. \A m \in BOOLEAN : Downgraded(m) \in Result /\ Downgraded(m).action \in Actions
    BY DEF Downgraded, Result, Actions
  <1>4. Approved \in Result /\ Approved.action \in Actions
    BY DEF Approved, Result, Actions
  <1>5. \A m \in BOOLEAN : Soft(f, m, second) \in Result /\ Soft(f, m, second).action \in Actions
    BY <1>2, <1>3 DEF Soft
  <1>6. CASE draft[f].cites = "blank"
    <2>1. CASE replay = "failed"
      BY <1>2, <2>1 DEF Ruling
    <2>2. CASE replay # "failed"
      BY <1>6, <2>2 DEF Ruling, Rejected, Result, Actions
    <2> QED BY <2>1, <2>2
  <1> QED BY <1>1, <1>2, <1>3, <1>4, <1>5, <1>6 DEF Ruling, Replays, Citations

\* The tier a finding has after its replay.
LEMMA VerifiedType ==
  ASSUME Types, NEW f \in Drafted
  PROVE  Verified(f) \in Tiers
  BY DEF Types, Shape, Verified, Tiers, OneLower

\* The judge labels a pair of credibilities with a tier.
LEMMA LabelsType ==
  ASSUME NEW score, NEW weights
  PROVE  Labels(score, weights) \subseteq Tiers
  BY DEF Labels, Tiers

(* The merges of a group keep its members, and clone one of them.           *)
LEMMA MergesType ==
  ASSUME Types, NEW members \in Groups, NEW m \in Merges(members)
  PROVE  m \in Merged /\ m.members = members /\ m.clone \in members
  <1>1. members \subseteq Drafted
    BY DEF Groups, Accepted
  <1>2. CASE Cardinality(members) = 1
    <2>1. PICK f \in members : m = [members |-> members, clone |-> f, tier |-> Verified(f)]
      BY <1>2 DEF Merges
    <2> QED BY <1>1, <2>1, VerifiedType DEF Merged
  <1>3. CASE Cardinality(members) # 1
    <2>1. \E a, b : m \in [members : {members}, clone : members, tier : PairLabels(a, b)]
      BY <1>3 DEF Merges
    <2>2. \A a, b : PairLabels(a, b) \subseteq Tiers
      BY LabelsType DEF PairLabels
    <2> QED BY <1>1, <2>1, <2>2 DEF Merged
  <1> QED BY <1>2, <1>3

\* The correlator keeps the members of what it lowers by one tier.
LEMMA LoweredType ==
  ASSUME NEW m \in Merged
  PROVE  /\ Lowered(m) \in Merged /\ Lowered(m).members = m.members
         /\ Lowered(m).clone = m.clone /\ Lowered(m).tier = OneLower[m.tier]
  BY DEF Lowered, Merged, OneLower, Tiers

\* The types hold for whatever the pools have drafted.
LEMMA TypesInit == Init => Types
  <1> SUFFICES ASSUME Init PROVE Types
    OBVIOUS
  <1>1. PICK D \in SUBSET Findings : draft \in [D -> [tier : Tiers, cites : Citations]]
    BY DEF Init
  <1>2. Drafted = D
    BY <1>1 DEF Drafted
  <1>3. Cardinality(retried) = 0
    BY FS_EmptySet DEF Init
  <1>4. NoResult \in Result
    BY DEF NoResult, Result
  <1>5. result \in [Drafted -> Result]
    BY <1>4 DEF Init
  <1>6. TypeOK
    BY <1>3, <1>5 DEF Init, TypeOK, Result, Actions, None
  <1>7. Shape
    BY <1>1, <1>2 DEF Init, Shape
  <1> QED BY <1>6, <1>7 DEF Types

\* Every step of the phase keeps the types.
LEMMA TypesStep == Types /\ [Next]_vars => Types'
  <1> SUFFICES ASSUME Types, [Next]_vars PROVE Types'
    OBVIOUS
  <1>1. ASSUME NEW f \in Findings, Replay(f) PROVE Types'
    <2>1. PICK replay \in Replays : result' = [result EXCEPT ![f] = Ruling(f, replay, FALSE)]
      BY <1>1 DEF Replay
    <2>2. Ruling(f, replay, FALSE) \in Result
      BY <1>1, RulingType DEF Replay, InPool
    <2>3. result' \in [Drafted -> Result]
      BY <2>1, <2>2 DEF Types, TypeOK, Result, Actions
    <2> QED BY <1>1, <2>3 DEF Replay, Types, TypeOK, Shape, Result, Actions, Drafted, Merged
  <1>2. ASSUME NEW f \in Findings, Redispatch(f) PROVE Types'
    <2>0. f \in Drafted /\ f \notin retried
      BY <1>2 DEF Redispatch, IsNextToRetry, ToRetry, InPool
    <2>1. PICK replay \in Replays : result' = [result EXCEPT ![f] = Ruling(f, replay, TRUE)]
      BY <1>2 DEF Redispatch
    <2>2. Ruling(f, replay, TRUE) \in Result
      BY <2>0, RulingType
    <2>3. result' \in [Drafted -> Result]
      BY <2>1, <2>2 DEF Types, TypeOK, Result, Actions
    <2>4. Cardinality(retried') = Cardinality(retried) + 1 /\ Cardinality(retried) \in Nat
      BY <1>2, <2>0, RetriedIsFinite, FS_AddElement DEF Redispatch
    <2>5. streak' \in 0..(1 + Cardinality(retried'))
      <3>1. streak' \in {streak, streak + 1}
        BY <1>2 DEF Redispatch
      <3> QED BY <2>4, <3>1 DEF Types, TypeOK
    <2>7. escalated' \in BOOLEAN
      BY <1>2 DEF Redispatch, Types, Shape
    <2>6. retried' \subseteq Drafted
      BY <1>2, <2>0 DEF Redispatch, Types, TypeOK
    <2>8. stage = "redispatching" /\ UNCHANGED <<draft, stage, pool, failures, judged, merged, verdict>>
      BY <1>2 DEF Redispatch, IsNextToRetry
    <2>9. TypeOK'
      BY <2>3, <2>5, <2>6, <2>8 DEF Types, TypeOK, Result, Actions, Drafted, Merged
    <2>10. Shape'
      BY <2>7, <2>8 DEF Types, Shape, Drafted, Merged
    <2> QED BY <2>9, <2>10 DEF Types
  <1>3. CASE AllReplayed
    BY <1>3 DEF AllReplayed, verifierVars, Types, TypeOK, Shape, Drafted, Merged
  <1>4. CASE RecordActions
    <2>1. failures' \subseteq Drafted
      BY <1>4 DEF RecordActions, InPool, Types, TypeOK
    <2> QED BY <1>4, <2>1 DEF RecordActions, Types, TypeOK, Shape, Drafted, Merged
  <1>5. CASE Judge
    <2>1. \A m \in merged' : m \in Merged /\ m.clone \in m.members
      BY <1>5, ChoicesTake, MergesType DEF Judge
    <2> QED BY <1>5, <2>1 DEF Judge, verifierVars, Types, TypeOK, Shape, Drafted, Merged
  <1>6. CASE JudgeFails
    BY <1>6 DEF JudgeFails, verifierVars, Types, TypeOK, Shape, Drafted, Merged
  <1>7. CASE Ablate
    <2>1. \A m \in merged' : \E n \in merged : m \in {n, Lowered(n)}
      BY <1>7 DEF Ablate
    <2>2. \A m \in merged' : m \in Merged /\ m.clone \in m.members
      BY <2>1, LoweredType DEF Types, TypeOK, Shape
    <2> QED BY <1>7, <2>2 DEF Ablate, verifierVars, Types, TypeOK, Shape, Drafted, Merged
  <1>8. CASE Correlate
    <2>1. \A m \in merged' : \E n \in merged : m \in {n, Lowered(n)}
      BY <1>8 DEF Correlate
    <2>2. \A m \in merged' : m \in Merged /\ m.clone \in m.members
      BY <2>1, LoweredType DEF Types, TypeOK, Shape
    <2> QED BY <1>8, <2>2 DEF Correlate, verifierVars, Types, TypeOK, Shape, Drafted, Merged
  <1>9. CASE CorrelateFails
    BY <1>9 DEF CorrelateFails, verifierVars, Types, TypeOK, Shape, Drafted, Merged
  <1>10. CASE Rule
    BY <1>10 DEF Rule, EmptyVerdict, verifierVars, Types, TypeOK, Shape, Drafted, Merged, None
  <1>11. CASE UNCHANGED vars
    BY <1>11 DEF vars, Types, TypeOK, Shape, Drafted, Merged
  <1> QED BY <1>1, <1>2, <1>3, <1>4, <1>5, <1>6, <1>7, <1>8, <1>9, <1>10, <1>11 DEF Next

(* Every state of every behaviour has the types TypeOK gives.               *)
THEOREM TypeCorrect == Spec => []TypeOK
  <1>1. Types => TypeOK
    BY DEF Types
  <1> QED BY <1>1, TypesInit, TypesStep, PTL DEF Spec

-----------------------------------------------------------------------------
(* No finding is lost.                                                      *)

Verifying == {"replaying", "redispatching"}

\* A finding is settled once it has a ruling, and is recorded if it failed.
Settled(f) == result[f].action \in Actions /\ (Failed(f) => f \in failures)

MergedMembers == UNION {m.members : m \in merged}

RulingInv == \A f \in Drafted : result[f].action = None => result[f] = NoResult
PoolInv == stage = "redispatching" => \A f \in InPool : result[f].action \in Actions
PoolAInv == pool = PoolB \/ stage \notin Verifying => \A f \in Drafted \intersect ToSet(PoolA) : Settled(f)
SettledInv == stage \notin Verifying => \A f \in Drafted : Settled(f)
JudgedInv == judged => stage \notin Verifying \union {"judging"} /\ Accepted \subseteq MergedMembers
ClearedInv == verdict = "NO_EVIL" => merged = {} /\ failures = {}

\* The passes of the verifier settle pool A, then pool B; the judge merges all
\* that was accepted; nothing after it drops a member.
AnswerInv == Types /\ RulingInv /\ PoolInv /\ PoolAInv /\ SettledInv /\ JudgedInv /\ ClearedInv

\* What these parts speak of, unchanged.
LEMMA AnswerFrame ==
  ASSUME AnswerInv, UNCHANGED <<draft, result, failures, pool>>
  PROVE  /\ RulingInv' /\ Drafted' = Drafted /\ Accepted' = Accepted /\ InPool' = InPool
         /\ \A f : Settled(f)' <=> Settled(f)
  BY DEF AnswerInv, RulingInv, Drafted, Accepted, Settled, Failed, InPool, NoResult

\* Another ruling on a finding of the pool under verification.
LEMMA NewRuling ==
  ASSUME AnswerInv, Types', NEW f \in InPool, NEW r \in Result, r.action \in Actions,
         result' = [result EXCEPT ![f] = r],
         stage \in Verifying, UNCHANGED <<draft, stage, pool, failures, judged, merged, verdict>>
  PROVE  AnswerInv'
  <1>1. f \in Drafted /\ f \in ToSet(pool) /\ InPool' = InPool /\ Drafted' = Drafted
    BY DEF InPool, Drafted
  <1>2. /\ result'[f] = r
        /\ \A g \in Drafted : g # f => result'[g] = result[g]
    BY <1>1 DEF AnswerInv, Types, TypeOK
  <1>3. RulingInv'
    BY <1>1, <1>2 DEF AnswerInv, RulingInv, Actions, None, NoResult
  <1>4. PoolInv'
    BY <1>1, <1>2 DEF AnswerInv, PoolInv, InPool
  <1>5. PoolAInv'
    <2>1. pool = PoolB => f \notin ToSet(PoolA)
      BY <1>1, PoolAssumption
    <2> QED BY <1>1, <1>2, <2>1 DEF AnswerInv, PoolAInv, Settled, Failed
  <1>6. SettledInv' /\ JudgedInv' /\ ClearedInv'
    BY DEF AnswerInv, SettledInv, JudgedInv, ClearedInv
  <1> QED BY <1>3, <1>4, <1>5, <1>6 DEF AnswerInv

\* A pass that keeps every member keeps what was merged.
LEMMA PassKeepsMembers ==
  ASSUME AnswerInv, NEW P, P \subseteq merged,
         merged' = {IF m \in P THEN Lowered(m) ELSE m : m \in merged}
  PROVE  MergedMembers' = MergedMembers
  <1>1. \A m \in merged : Lowered(m).members = m.members
    BY LoweredType DEF AnswerInv, Types, Shape
  <1> QED BY <1>1 DEF MergedMembers

(* Every step keeps a finding on its way to an answer: a ruling, a          *)
(* judgement, a place in the verdict.                                       *)
LEMMA AnswerStep == AnswerInv /\ Types' /\ [Next]_vars => AnswerInv'
  <1> SUFFICES ASSUME AnswerInv, Types', [Next]_vars PROVE AnswerInv'
    OBVIOUS
  <1>1. ASSUME NEW f \in Findings, Replay(f) PROVE AnswerInv'
    <2>1. PICK replay \in Replays : result' = [result EXCEPT ![f] = Ruling(f, replay, FALSE)]
      BY <1>1 DEF Replay
    <2>2. f \in InPool /\ f \in Drafted
      BY <1>1 DEF Replay, InPool
    <2>3. Ruling(f, replay, FALSE) \in Result /\ Ruling(f, replay, FALSE).action \in Actions
      BY <2>2, RulingType DEF AnswerInv
    <2> QED BY <1>1, <2>1, <2>2, <2>3, NewRuling DEF Replay, Verifying
  <1>2. ASSUME NEW f \in Findings, Redispatch(f) PROVE AnswerInv'
    <2>1. PICK replay \in Replays : result' = [result EXCEPT ![f] = Ruling(f, replay, TRUE)]
      BY <1>2 DEF Redispatch
    <2>2. f \in InPool /\ f \in Drafted
      BY <1>2 DEF Redispatch, IsNextToRetry, ToRetry, InPool
    <2>3. Ruling(f, replay, TRUE) \in Result /\ Ruling(f, replay, TRUE).action \in Actions
      BY <2>2, RulingType DEF AnswerInv
    <2> QED BY <1>2, <2>1, <2>2, <2>3, NewRuling DEF Redispatch, IsNextToRetry, Verifying
  <1>3. CASE AllReplayed
    <2>1. UNCHANGED <<draft, result, failures, pool, judged, merged, verdict>>
      BY <1>3 DEF AllReplayed, verifierVars
    <2>2. RulingInv' /\ InPool' = InPool /\ Drafted' = Drafted /\ \A f : Settled(f)' <=> Settled(f)
      BY <2>1, AnswerFrame
    <2>3. PoolInv'
      <3>1. \A f \in InPool : result[f] # NoResult /\ result[f].action \in Actions \union {None}
        BY <1>3 DEF AllReplayed, InPool, AnswerInv, Types, TypeOK, Actions
      <3> QED BY <2>1, <2>2, <3>1 DEF AnswerInv, RulingInv, PoolInv, InPool
    <2>4. PoolAInv' /\ SettledInv'
      BY <1>3, <2>1, <2>2 DEF AllReplayed, AnswerInv, PoolAInv, SettledInv, Verifying
    <2>5. JudgedInv' /\ ClearedInv'
      BY <1>3, <2>1 DEF AllReplayed, AnswerInv, JudgedInv, ClearedInv, Verifying
    <2> QED BY <2>2, <2>3, <2>4, <2>5 DEF AnswerInv
  <1>4. CASE RecordActions
    <2>1. UNCHANGED <<draft, result, judged, merged, verdict>> /\ Drafted' = Drafted /\ failures \subseteq failures'
      BY <1>4 DEF RecordActions, Drafted
    <2>2. \A f \in InPool : Settled(f)'
      BY <1>4, <2>1 DEF RecordActions, AnswerInv, PoolInv, Settled, Failed
    <2>3. \A f : Settled(f) => Settled(f)'
      BY <2>1 DEF Settled, Failed
    <2>4. pool = PoolA => \A f \in Drafted \intersect ToSet(PoolA) : Settled(f)'
      BY <2>2 DEF InPool
    <2>5. pool # PoolA => \A f \in Drafted : Settled(f)'
      <3> SUFFICES ASSUME pool # PoolA, NEW f \in Drafted PROVE Settled(f)'
        OBVIOUS
      <3>1. pool = PoolB /\ f \in ToSet(PoolA) \union ToSet(PoolB)
        BY DEF AnswerInv, Types, Shape, Findings
      <3>2. CASE f \in ToSet(PoolB)
        BY <2>2, <3>1, <3>2 DEF InPool
      <3>3. CASE f \in ToSet(PoolA)
        BY <2>3, <3>1, <3>3 DEF AnswerInv, PoolAInv
      <3> QED BY <3>1, <3>2, <3>3
    <2>6. PoolAInv' /\ SettledInv' /\ PoolInv'
      BY <1>4, <2>1, <2>4, <2>5 DEF RecordActions, PoolAInv, SettledInv, PoolInv, Verifying
    <2>7. RulingInv'
      BY <2>1 DEF AnswerInv, RulingInv, NoResult
    <2>8. ~ judged /\ verdict = None
      BY <1>4 DEF RecordActions, AnswerInv, JudgedInv, Verifying, Types, TypeOK
    <2>9. JudgedInv' /\ ClearedInv'
      BY <2>1, <2>8 DEF JudgedInv, ClearedInv, None
    <2> QED BY <2>6, <2>7, <2>9 DEF AnswerInv
  <1>5. CASE Judge
    <2>1. UNCHANGED <<draft, result, failures, pool, verdict>> /\ stage = "judging" /\ stage' = "ablating"
      BY <1>5 DEF Judge, verifierVars
    <2>2. /\ RulingInv' /\ Drafted' = Drafted /\ Accepted' = Accepted
          /\ \A f : Settled(f)' <=> Settled(f)
      BY <2>1, AnswerFrame
    <2>3. Accepted \subseteq MergedMembers'
      <3> SUFFICES ASSUME NEW f \in Accepted PROVE f \in MergedMembers'
        OBVIOUS
      <3> DEFINE group == {g \in Accepted : Claim[g] = Claim[f]}
      <3>1. group \in Groups /\ f \in group
        BY DEF Groups
      <3>2. PICK m \in merged' : m \in Merges(group)
        <4> DEFINE S == {Merges(members) : members \in Groups}
        <4>1. merged' \in Choices(S) /\ Merges(group) \in S
          BY <1>5, <3>1 DEF Judge
        <4> HIDE DEF S, group
        <4> QED BY <4>1, ChoicesTake
      <3>3. m.members = group
        BY <3>1, <3>2, MergesType DEF AnswerInv
      <3> QED BY <3>1, <3>2, <3>3 DEF MergedMembers
    <2>4. PoolAInv' /\ SettledInv' /\ PoolInv'
      BY <2>1, <2>2 DEF AnswerInv, PoolAInv, SettledInv, PoolInv, Verifying
    <2>5. JudgedInv'
      BY <2>1, <2>2, <2>3 DEF JudgedInv, Verifying
    <2>6. verdict = None
      BY <2>1 DEF AnswerInv, Types, TypeOK
    <2>7. ClearedInv'
      BY <2>1, <2>6 DEF ClearedInv, None
    <2> QED BY <2>2, <2>4, <2>5, <2>7 DEF AnswerInv
  <1>6. CASE JudgeFails \/ CorrelateFails
    <2>1. /\ UNCHANGED <<draft, result, failures, pool, verdict, judged>>
          /\ stage \in {"judging", "correlating"} /\ stage' \in {"ablating", "ruling"}
          /\ stage # "judging" => merged' = merged
      BY <1>6 DEF JudgeFails, CorrelateFails, verifierVars
    <2>2. /\ RulingInv' /\ Drafted' = Drafted /\ Accepted' = Accepted
          /\ \A f : Settled(f)' <=> Settled(f)
      BY <2>1, AnswerFrame
    <2>3. PoolAInv' /\ SettledInv' /\ PoolInv'
      BY <2>1, <2>2 DEF AnswerInv, PoolAInv, SettledInv, PoolInv, Verifying
    <2>4. JudgedInv'
      BY <2>1, <2>2 DEF AnswerInv, JudgedInv, Verifying, MergedMembers
    <2>5. verdict = None
      BY <2>1 DEF AnswerInv, Types, TypeOK
    <2>6. ClearedInv'
      BY <2>1, <2>5 DEF ClearedInv, None
    <2> QED BY <2>2, <2>3, <2>4, <2>6 DEF AnswerInv
  <1>7. CASE Ablate \/ Correlate
    <2>1. /\ UNCHANGED <<draft, result, failures, pool, verdict, judged>>
          /\ stage \in {"ablating", "correlating"} /\ stage' \in {"correlating", "ruling"}
      BY <1>7 DEF Ablate, Correlate, verifierVars
    <2>2. /\ RulingInv' /\ Drafted' = Drafted /\ Accepted' = Accepted
          /\ \A f : Settled(f)' <=> Settled(f)
      BY <2>1, AnswerFrame
    <2>3. MergedMembers' = MergedMembers
      <3>1. CASE Ablate
        <4> DEFINE P == {m \in merged : m.clone \in OneClass /\ m.tier = "CONFIRMED"}
        <4>1. merged' = {IF m \in P THEN Lowered(m) ELSE m : m \in merged}
          BY <3>1 DEF Ablate
        <4> HIDE DEF P
        <4>2. P \subseteq merged
          BY DEF P
        <4> QED BY <4>1, <4>2, PassKeepsMembers
      <3>2. CASE Correlate
        <4> DEFINE P == {m \in merged : m.clone \in Unmet}
        <4>1. merged' = {IF m \in P THEN Lowered(m) ELSE m : m \in merged}
          BY <3>2 DEF Correlate
        <4> HIDE DEF P
        <4>2. P \subseteq merged
          BY DEF P
        <4> QED BY <4>1, <4>2, PassKeepsMembers
      <3> QED BY <1>7, <3>1, <3>2
    <2>4. PoolAInv' /\ SettledInv' /\ PoolInv'
      BY <2>1, <2>2 DEF AnswerInv, PoolAInv, SettledInv, PoolInv, Verifying
    <2>5. JudgedInv'
      BY <2>1, <2>2, <2>3 DEF AnswerInv, JudgedInv, Verifying
    <2>6. verdict = None
      BY <2>1 DEF AnswerInv, Types, TypeOK
    <2>7. ClearedInv'
      BY <2>1, <2>6 DEF ClearedInv, None
    <2> QED BY <2>2, <2>4, <2>5, <2>7 DEF AnswerInv
  <1>8. CASE Rule
    <2>1. /\ UNCHANGED <<draft, result, failures, pool, judged, merged>>
          /\ stage = "ruling" /\ stage' = "done"
      BY <1>8 DEF Rule, verifierVars
    <2>2. /\ RulingInv' /\ Drafted' = Drafted /\ Accepted' = Accepted
          /\ \A f : Settled(f)' <=> Settled(f)
      BY <2>1, AnswerFrame
    <2>3. PoolAInv' /\ SettledInv' /\ PoolInv'
      BY <2>1, <2>2 DEF AnswerInv, PoolAInv, SettledInv, PoolInv, Verifying
    <2>4. JudgedInv'
      BY <2>1, <2>2 DEF AnswerInv, JudgedInv, Verifying, MergedMembers
    <2>5. ClearedInv'
      BY <1>8, <2>1 DEF Rule, EmptyVerdict, ClearedInv
    <2> QED BY <2>2, <2>3, <2>4, <2>5 DEF AnswerInv
  <1>9. CASE UNCHANGED vars
    <2>1. UNCHANGED <<draft, result, failures, pool, stage, verdict, judged, merged>>
      BY <1>9 DEF vars
    <2>2. /\ RulingInv' /\ Drafted' = Drafted /\ Accepted' = Accepted /\ InPool' = InPool
          /\ \A f : Settled(f)' <=> Settled(f)
      BY <2>1, AnswerFrame
    <2> QED BY <2>1, <2>2 DEF AnswerInv, PoolAInv, SettledInv, PoolInv, Verifying,
              JudgedInv, MergedMembers, ClearedInv
  <1> QED BY <1>1, <1>2, <1>3, <1>4, <1>5, <1>6, <1>7, <1>8, <1>9 DEF Next

\* Nothing is answered before the first replay.
LEMMA AnswerInit == Init => AnswerInv
  <1> SUFFICES ASSUME Init PROVE AnswerInv
    OBVIOUS
  <1>1. Types
    BY TypesInit
  <1>2. \A f \in Drafted : result[f] = NoResult
    BY DEF Init
  <1>3. PoolAInv
    BY PoolAssumption DEF Init, PoolAInv, Verifying
  <1> QED BY <1>1, <1>2, <1>3 DEF Init, AnswerInv, RulingInv, PoolInv, SettledInv, JudgedInv,
        ClearedInv, Verifying, None

(* While the judge answers, every finding that a pool drafted is either in  *)
(* a merged finding or among the failures that the summary shows: whatever  *)
(* the order of the workers, and whatever replays and retries return.       *)
THEOREM FindingsAreAnswered == Spec => []EveryFindingIsAnswered
  <1>1. AnswerInv => EveryFindingIsAnswered
    <2> SUFFICES ASSUME AnswerInv, stage = "done", judged, NEW f \in Drafted
                 PROVE  f \in failures \/ f \in MergedMembers
      BY DEF EveryFindingIsAnswered, MergedMembers
    <2>1. Settled(f)
      BY DEF AnswerInv, SettledInv, Verifying
    <2>2. f \in Accepted \/ result[f].action = "rejected"
      BY <2>1 DEF Settled, Actions, Accepted
    <2> QED BY <2>1, <2>2 DEF Settled, Failed, AnswerInv, JudgedInv
  <1>2. AnswerInv /\ [Next]_vars => AnswerInv'
    BY TypesStep, AnswerStep DEF AnswerInv
  <1> QED BY <1>1, <1>2, AnswerInit, PTL DEF Spec

(* NO_EVIL after a judge that answered means that nobody drafted anything.  *)
THEOREM NoEvilIsEmpty == Spec => []NoEvilHidesNothing
  <1>1. AnswerInv => NoEvilHidesNothing
    <2> SUFFICES ASSUME AnswerInv, verdict = "NO_EVIL", judged, NEW f \in Drafted PROVE FALSE
      BY DEF NoEvilHidesNothing
    <2>1. Settled(f) /\ Accepted \subseteq MergedMembers /\ merged = {} /\ failures = {}
      BY DEF AnswerInv, Types, TypeOK, SettledInv, JudgedInv, ClearedInv, Verifying, None
    <2> QED BY <2>1 DEF Settled, Actions, Accepted, Failed, MergedMembers
  <1>2. AnswerInv /\ [Next]_vars => AnswerInv'
    BY TypesStep, AnswerStep DEF AnswerInv
  <1> QED BY <1>1, <1>2, AnswerInit, PTL DEF Spec

-----------------------------------------------------------------------------
(* The rule that an execution claim needs two artifact classes.             *)

OneClassInv ==
  stage \in {"correlating", "ruling", "done"} =>
    \A m \in merged : m.clone \in OneClass => m.tier # "CONFIRMED"

(* An execution claim that rests on one artifact class is not CONFIRMED in  *)
(* the verdict: the ablation lowers it after the merge and no later step    *)
(* raises a tier, whether the correlator answers or fails.                  *)
THEOREM OneClassHeldDown == Spec => []OneClassIsNotConfirmed
  <1> DEFINE I == Types /\ OneClassInv
  <1>1. Init => I
    BY TypesInit DEF Init, OneClassInv
  <1>2. I /\ [Next]_vars => I'
    <2> SUFFICES ASSUME Types, OneClassInv, [Next]_vars PROVE OneClassInv'
      BY TypesStep
    <2>1. CASE Ablate
      <3>1. \A n \in merged : Lowered(n).clone = n.clone /\ Lowered(n).tier # "CONFIRMED"
        BY LoweredType DEF Types, Shape, Merged, OneLower, Tiers
      <3>2. \A m \in merged' : \E n \in merged :
              m = IF n.clone \in OneClass /\ n.tier = "CONFIRMED" THEN Lowered(n) ELSE n
        BY <2>1 DEF Ablate
      <3> QED BY <3>1, <3>2 DEF OneClassInv
    <2>2. CASE Correlate
      <3>1. \A n \in merged : Lowered(n).clone = n.clone /\ Lowered(n).tier # "CONFIRMED"
        BY LoweredType DEF Types, Shape, Merged, OneLower, Tiers
      <3>2. \A m \in merged' : \E n \in merged : m \in {n, Lowered(n)}
        BY <2>2 DEF Correlate
      <3> QED BY <2>2, <3>1, <3>2 DEF Correlate, OneClassInv
    <2>3. CASE CorrelateFails \/ Rule
      BY <2>3 DEF CorrelateFails, Rule, OneClassInv
    <2>4. CASE Judge \/ JudgeFails \/ AllReplayed \/ RecordActions
      BY <2>4 DEF Judge, JudgeFails, AllReplayed, RecordActions, OneClassInv
    <2>5. ASSUME NEW f \in Findings, Replay(f) \/ Redispatch(f) PROVE OneClassInv'
      BY <2>5 DEF Replay, Redispatch, OneClassInv
    <2>6. CASE UNCHANGED vars
      BY <2>6 DEF vars, OneClassInv
    <2> QED BY <2>1, <2>2, <2>3, <2>4, <2>5, <2>6 DEF Next
  <1>3. I => OneClassIsNotConfirmed
    BY DEF OneClassInv, OneClassIsNotConfirmed
  <1> QED BY <1>1, <1>2, <1>3, PTL DEF Spec

-----------------------------------------------------------------------------
(* No tier is above what the replays earned.                                *)

(* What acceptance leaves a finding is what the judge takes it for.         *)
LEMMA VerifiedIsEarned ==
  ASSUME NEW f \in Accepted
  PROVE  Verified(f) = Earned(f)
  BY DEF Accepted, Verified, Earned

(* The arithmetic of the merge: the bonus does not carry a pair over a      *)
(* threshold that neither of the two is above.                              *)
LEMMA LabelsBound ==
  ASSUME NEW wa \in Nat, NEW wb \in Nat, wa > 0, wb > 0,
         NEW va \in {10, 6, 3}, NEW vb \in {10, 6, 3}, NEW bonus \in {10, 12},
         NEW label \in Labels(bonus * (va * wa + vb * wb), wa + wb)
  PROVE  /\ label = "CONFIRMED" => va = 10 \/ vb = 10
         /\ label = "INFERRED" => va # 3 \/ vb # 3
  <1> DEFINE score == bonus * (va * wa + vb * wb)
             weights == wa + wb
  <1>1. score \in Nat /\ weights \in Nat /\ weights > 0
    OBVIOUS
  <1>2. va # 10 /\ vb # 10 => score <= 72 * weights
    <2>1. \A b \in {10, 12}, v, w \in {6, 3} : b * (v * wa + w * wb) <= 72 * (wa + wb)
      OBVIOUS
    <2> QED BY <2>1
  <1>3. va = 3 /\ vb = 3 => score <= 36 * weights
    <2>1. \A b \in {10, 12} : b * (3 * wa + 3 * wb) <= 36 * (wa + wb)
      OBVIOUS
    <2> QED BY <2>1
  <1>4. label \in Labels(score, weights)
    OBVIOUS
  <1> HIDE DEF score, weights
  <1>5. label = "CONFIRMED" => score >= 80 * weights
    BY <1>1, <1>4 DEF Labels
  <1>6. label = "INFERRED" => score >= 50 * weights
    BY <1>1, <1>4 DEF Labels
  <1> QED BY <1>1, <1>2, <1>3, <1>5, <1>6

\* A member of a group and of a pool is counted.
LEMMA CountPositive ==
  ASSUME Types, NEW p, NEW set, set \subseteq Findings, NEW f \in set, f \in ToSet(p)
  PROVE  Count(p, set) \in Nat /\ Count(p, set) > 0
  <1> DEFINE S == ToSet(p) \intersect set
  <1>1. IsFiniteSet(S) /\ f \in S
    <2>1. S \subseteq Findings /\ IsFiniteSet(Findings)
      BY PoolAssumption
    <2> QED BY <2>1, FS_Subset
  <1>2. Cardinality(S) \in Nat /\ Cardinality(S) # 0
    BY <1>1, FS_CardinalityType, FS_EmptySet
  <1> QED BY <1>2 DEF Count

(* A group of more than one finding has one of each pool.                   *)
LEMMA PairHasBoth ==
  ASSUME Types, NEW members \in Groups, Cardinality(members) # 1
  PROVE  /\ \E f \in members : f \in ToSet(PoolA)
         /\ \E f \in members : f \in ToSet(PoolB)
  <1>1. PICK f \in Accepted : members = {g \in Accepted : Claim[g] = Claim[f]}
    BY DEF Groups
  <1>2. members \subseteq ToSet(PoolA) \union ToSet(PoolB)
    BY <1>1 DEF Types, Shape, Accepted, Findings
  <1>3. members # {f} /\ f \in members
    BY <1>1, FS_Singleton
  <1>4. PICK g \in members : g # f
    BY <1>3
  <1>5. Claim[f] = Claim[g]
    BY <1>1, <1>4
  <1> QED BY <1>2, <1>3, <1>4, <1>5, PoolAssumption

(* The judge gives a group no tier above what one of its accepted members   *)
(* earned.                                                                  *)
LEMMA MergeIsEarned ==
  ASSUME Types, NEW members \in Groups, NEW m \in Merges(members)
  PROVE  \E f \in m.members \intersect Accepted : Rank[m.tier] <= Rank[Earned(f)]
  <1>1. m.members = members /\ members \subseteq Accepted /\ Accepted \subseteq Drafted
    BY MergesType DEF Groups, Accepted
  <1>2. \A f \in members : Verified(f) = Earned(f) /\ Verified(f) \in Tiers
    BY <1>1, VerifiedIsEarned, VerifiedType
  <1>3. CASE Cardinality(members) = 1
    <2>1. PICK f \in members : m = [members |-> members, clone |-> f, tier |-> Verified(f)]
      BY <1>3 DEF Merges
    <2>2. m.tier = Earned(f)
      BY <1>2, <2>1
    <2>3. Rank[Earned(f)] <= Rank[Earned(f)]
      BY <1>2 DEF Rank, Tiers
    <2> QED BY <1>1, <2>2, <2>3
  <1>4. CASE Cardinality(members) # 1
    <2> DEFINE a == CHOOSE f \in members : f \in ToSet(PoolA)
               b == CHOOSE f \in members : f \in ToSet(PoolB)
    <2>1. a \in members /\ a \in ToSet(PoolA) /\ b \in members /\ b \in ToSet(PoolB)
      BY <1>4, PairHasBoth
    <2>2. m.tier \in PairLabels(a, b)
      <3>1. m \in [members : {members}, clone : members, tier : PairLabels(a, b)]
        BY <1>4 DEF Merges
      <3> HIDE DEF a, b
      <3> QED BY <3>1
    <2> HIDE DEF a, b
    <2>3. WeightA \in Nat /\ WeightA > 0 /\ WeightB \in Nat /\ WeightB > 0
      <3>1. Accepted \subseteq Findings /\ Drafted \subseteq Findings
        BY <1>1 DEF Types, Shape
      <3>2. /\ Count(PoolA, Accepted) \in Nat /\ Count(PoolA, Accepted) > 0
            /\ Count(PoolA, Drafted) \in Nat /\ Count(PoolA, Drafted) > 0
        BY <1>1, <2>1, <3>1, CountPositive
      <3>3. /\ Count(PoolB, Accepted) \in Nat /\ Count(PoolB, Accepted) > 0
            /\ Count(PoolB, Drafted) \in Nat /\ Count(PoolB, Drafted) > 0
        BY <1>1, <2>1, <3>1, CountPositive
      <3>4. \A x, y \in Nat : x > 0 /\ y > 0 => x * y \in Nat /\ x * y > 0
        OBVIOUS
      <3> QED BY <3>2, <3>3, <3>4 DEF WeightA, WeightB
    <2>4. Bonus(a, b) \in {10, 12}
      BY DEF Bonus
    <2>5. Value[Verified(a)] \in {10, 6, 3} /\ Value[Verified(b)] \in {10, 6, 3}
      BY <1>2, <2>1 DEF Value, Tiers
    <2>6. /\ m.tier = "CONFIRMED" => Value[Verified(a)] = 10 \/ Value[Verified(b)] = 10
          /\ m.tier = "INFERRED" => Value[Verified(a)] # 3 \/ Value[Verified(b)] # 3
      BY <2>2, <2>3, <2>4, <2>5, LabelsBound DEF PairLabels
    <2>7. m.tier \in Tiers
      BY MergesType DEF Merged
    <2>8. Rank[m.tier] <= Rank[Verified(a)] \/ Rank[m.tier] <= Rank[Verified(b)]
      BY <1>2, <2>1, <2>6, <2>7 DEF Rank, Value, Tiers
    <2> QED BY <1>1, <1>2, <2>1, <2>8
  <1> QED BY <1>3, <1>4

SameClaim == \A m \in merged : \A f, g \in m.members : Claim[f] = Claim[g]

\* Nothing is merged while rulings may change; from then on the merged tiers
\* only fall, and the alarm is about one of them.
EarnedInv ==
  /\ Types
  /\ stage \in Verifying \union {"judging"} => merged = {}
  /\ NoTierAboveItsBest
  /\ SameClaim
  /\ verdict = "SUSPICIOUS" => \E m \in merged : Alarming(m)

\* What lowers some of the merged findings keeps the invariant.
LEMMA LoweringKeeps ==
  ASSUME EarnedInv, Types', stage \notin {"done", "judging"} \union Verifying,
         stage' \notin {"done", "judging"} \union Verifying,
         UNCHANGED <<draft, result, verdict>>,
         \A m \in merged' : \E n \in merged : m \in {n, Lowered(n)}
  PROVE  EarnedInv'
  <1>1. Accepted' = Accepted /\ \A f : Earned(f)' = Earned(f)
    BY DEF Accepted, Earned, Drafted
  <1>2. \A n \in merged :
          /\ Lowered(n).members = n.members /\ Rank[Lowered(n).tier] <= Rank[n.tier]
          /\ Rank[n.tier] \in Int /\ Rank[Lowered(n).tier] \in Int
    BY LoweredType DEF EarnedInv, Types, Shape, Merged, Tiers, OneLower, Rank
  <1>3. \A f \in Accepted : Rank[Earned(f)] \in Int
    BY VerifiedIsEarned, VerifiedType DEF EarnedInv, Accepted, Rank, Tiers
  <1>4. NoTierAboveItsBest'
    <2> SUFFICES ASSUME NEW m \in merged'
                 PROVE  \E f \in m.members \intersect Accepted : Rank[m.tier] <= Rank[Earned(f)]
      BY <1>1 DEF NoTierAboveItsBest
    <2>1. PICK n \in merged : m \in {n, Lowered(n)}
      OBVIOUS
    <2>2. PICK f \in n.members \intersect Accepted : Rank[n.tier] <= Rank[Earned(f)]
      BY DEF EarnedInv, NoTierAboveItsBest
    <2>3. m.members = n.members /\ Rank[m.tier] <= Rank[n.tier] /\ Rank[m.tier] \in Int
      BY <1>2, <2>1
    <2>4. Rank[m.tier] <= Rank[Earned(f)]
      BY <1>2, <1>3, <2>2, <2>3
    <2> QED BY <2>2, <2>3, <2>4
  <1>5. SameClaim'
    BY <1>2 DEF EarnedInv, SameClaim
  <1>6. verdict' # "SUSPICIOUS"
    BY DEF EarnedInv, Types, TypeOK, None
  <1> QED BY <1>4, <1>5, <1>6 DEF EarnedInv

\* Every step keeps what is merged at or below the best its members earned.
LEMMA EarnedStep == EarnedInv /\ [Next]_vars => EarnedInv'
  <1> SUFFICES ASSUME EarnedInv, [Next]_vars, Types' PROVE EarnedInv'
    BY TypesStep DEF EarnedInv
  <1>1. CASE (\E f \in Findings : Replay(f) \/ Redispatch(f)) \/ AllReplayed \/ RecordActions
    <2>1. /\ stage \in Verifying /\ stage' \in Verifying \union {"judging"}
          /\ merged' = merged /\ verdict' = verdict
      BY <1>1 DEF Replay, Redispatch, IsNextToRetry, AllReplayed, RecordActions, Verifying
    <2>2. merged' = {} /\ verdict' # "SUSPICIOUS"
      BY <2>1 DEF EarnedInv, Types, TypeOK, Verifying, None
    <2> QED BY <2>2 DEF EarnedInv, NoTierAboveItsBest, SameClaim
  <1>2. CASE Judge
    <2>1. UNCHANGED <<draft, result, verdict>> /\ stage = "judging" /\ stage' = "ablating"
      BY <1>2 DEF Judge, verifierVars
    <2>2. Accepted' = Accepted /\ \A f : Earned(f)' = Earned(f)
      BY <2>1 DEF Accepted, Earned, Drafted
    <2>3. \A m \in merged' : \E members \in Groups : m \in Merges(members)
      <3> DEFINE S == {Merges(members) : members \in Groups}
      <3>1. merged' \in Choices(S)
        BY <1>2 DEF Judge
      <3>2. \A m \in merged' : \E T \in S : m \in T
        <4> HIDE DEF S
        <4> QED BY <3>1, ChoicesTake
      <3> QED BY <3>2
    <2>4. NoTierAboveItsBest'
      <3>1. \A m \in merged' : \E f \in m.members \intersect Accepted : Rank[m.tier] <= Rank[Earned(f)]
        BY <2>3, MergeIsEarned DEF EarnedInv
      <3> QED BY <2>2, <3>1 DEF NoTierAboveItsBest
    <2>5. SameClaim'
      <3>1. \A m \in merged' : m.members \in Groups
        BY <2>3, MergesType DEF EarnedInv
      <3> QED BY <3>1 DEF SameClaim, Groups
    <2>6. verdict' # "SUSPICIOUS"
      BY <2>1 DEF EarnedInv, Types, TypeOK, None
    <2> QED BY <2>1, <2>4, <2>5, <2>6 DEF EarnedInv, Verifying
  <1>3. CASE JudgeFails
    <2>1. merged' = {} /\ verdict' # "SUSPICIOUS"
      BY <1>3 DEF JudgeFails, EarnedInv, Types, TypeOK, None
    <2> QED BY <2>1 DEF EarnedInv, NoTierAboveItsBest, SameClaim
  <1>4. CASE Ablate \/ Correlate \/ CorrelateFails
    <2>1. \A m \in merged' : \E n \in merged : m \in {n, Lowered(n)}
      BY <1>4 DEF Ablate, Correlate, CorrelateFails
    <2>2. /\ UNCHANGED <<draft, result, verdict>>
          /\ stage \in {"ablating", "correlating"} /\ stage' \in {"correlating", "ruling"}
      BY <1>4 DEF Ablate, Correlate, CorrelateFails, verifierVars
    <2> QED BY <2>1, <2>2, LoweringKeeps DEF Verifying
  <1>5. CASE Rule
    <2>1. UNCHANGED <<draft, result, merged>> /\ stage' = "done"
      BY <1>5 DEF Rule, verifierVars
    <2>2. NoTierAboveItsBest' /\ SameClaim'
      BY <2>1 DEF EarnedInv, NoTierAboveItsBest, SameClaim, Accepted, Earned, Drafted
    <2>3. verdict' = "SUSPICIOUS" => \E m \in merged : Alarming(m)
      BY <1>5 DEF Rule, EmptyVerdict
    <2> QED BY <2>1, <2>2, <2>3 DEF EarnedInv, Verifying, Alarming
  <1>6. CASE UNCHANGED vars
    BY <1>6 DEF vars, EarnedInv, NoTierAboveItsBest, SameClaim, Accepted, Earned, Drafted, Alarming
  <1> QED BY <1>1, <1>2, <1>3, <1>4, <1>5, <1>6 DEF Next

\* Nothing is merged before the first replay.
LEMMA EarnedInit == Init => EarnedInv
  BY TypesInit DEF Init, EarnedInv, NoTierAboveItsBest, SameClaim, None

(* From the merge to the verdict no tier is above the best of what the      *)
(* replays of its members earned, whatever the credibility of the pools.    *)
THEOREM TiersAreEarned == Spec => []NoTierAboveItsBest
  <1>1. EarnedInv => NoTierAboveItsBest
    BY DEF EarnedInv
  <1> QED BY <1>1, EarnedInit, EarnedStep, PTL DEF Spec

(* SUSPICIOUS goes back to a finding replayed and approved as CONFIRMED, or *)
(* to one of a severe technique that its replay leaves above a HYPOTHESIS.  *)
THEOREM SuspicionIsEarned == Spec => []SuspiciousIsEarned
  <1>1. EarnedInv => SuspiciousIsEarned
    <2> SUFFICES ASSUME EarnedInv, verdict = "SUSPICIOUS"
                 PROVE  \E f \in Accepted : \/ result[f].action = "approved" /\ draft[f].tier = "CONFIRMED"
                                            \/ f \in Severe /\ Earned(f) # "HYPOTHESIS"
      BY DEF SuspiciousIsEarned
    <2>1. PICK m \in merged : Alarming(m)
      BY DEF EarnedInv
    <2>2. PICK f \in m.members \intersect Accepted : Rank[m.tier] <= Rank[Earned(f)]
      BY DEF EarnedInv, NoTierAboveItsBest
    <2>3. Earned(f) \in Tiers /\ draft[f].tier \in Tiers
      BY <2>2, VerifiedIsEarned, VerifiedType DEF EarnedInv, Types, Shape, Accepted
    <2>4. CASE m.tier = "CONFIRMED"
      <3>1. Earned(f) = "CONFIRMED"
        BY <2>2, <2>3, <2>4 DEF Rank, Tiers
      <3>2. result[f].action = "approved" /\ draft[f].tier = "CONFIRMED"
        BY <2>3, <3>1 DEF Earned, OneLower, Tiers
      <3> QED BY <2>2, <3>2
    <2>5. CASE m.clone \in Severe /\ m.tier = "INFERRED"
      <3>1. Earned(f) # "HYPOTHESIS"
        BY <2>2, <2>3, <2>5 DEF Rank, Tiers
      <3>2. m.clone \in m.members /\ m.members \subseteq Findings
        BY DEF EarnedInv, Types, TypeOK, Shape
      <3>3. Claim[f] = Claim[m.clone]
        BY <2>2, <3>2 DEF EarnedInv, SameClaim
      <3>4. f \in Severe
        BY <2>2, <2>5, <3>2, <3>3, PoolAssumption
      <3> QED BY <2>2, <3>1, <3>4
    <2> QED BY <2>1, <2>4, <2>5 DEF Alarming
  <1> QED BY <1>1, EarnedInit, EarnedStep, PTL DEF Spec

=============================================================================
