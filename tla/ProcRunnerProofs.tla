-------------------------- MODULE ProcRunnerProofs ---------------------------
(***************************************************************************)
(* Proofs about ProcRunner, for any set of process ids: a timeout leaves   *)
(* of the tool's group only what was forked too late to be listed or was   *)
(* spared by an unreadable /proc or a failed kill, and no process that was *)
(* there at the deadline and is not of the group is ever signalled,        *)
(* whatever the tool and the outsiders do meanwhile.                       *)
(***************************************************************************)
EXTENDS ProcRunner, WellFoundedInduction, TLAPS

-----------------------------------------------------------------------------
(* The next process to signal is one of those listed.                       *)

NatLess == {pair \in Nat \X Nat : pair[1] < pair[2]}

\* The order of the library's theorem, written as a set.
LEMMA NatLessIsTheOrder == NatLess = OpToRel(<, Nat)
  BY Zenon DEF NatLess, OpToRel

\* Every set of naturals that is not empty has its least member.
LEMMA MinIsAMember ==
  ASSUME NEW T, T \subseteq Nat, T # {}
  PROVE  Min(T) \in T
<1>1. IsWellFoundedOn(NatLess, Nat)
  BY NatLessIsTheOrder, NatLessThanWellFounded, Zenon
<1>2. \E x \in T : \A y \in T : ~ (<<y, x>> \in NatLess)
  BY <1>1, WFMin, Zenon
<1>3. \A x, y \in Nat : ~ (<<y, x>> \in NatLess) => x <= y
  BY DEF NatLess
<1>4. \E x \in T : \A y \in T : x <= y
  BY <1>2, <1>3
<1>5. QED BY <1>4 DEF Min

-----------------------------------------------------------------------------
(* Types.                                                                   *)

Stages == {"spawning", "polling", "listing", "killing", "finishing", "reaping", "joining", "done"}

TypeOK ==
  /\ runner \in Stages
  /\ result \in {"none", "spawn_failed", "io_error", "output", "timeout"}
  /\ proc \in [Pids -> {"free", "tool", "outsider", "zombie"}]
  /\ group \in [Pids -> Pids]
  /\ holds \subseteq Pids /\ unread \subseteq Pids
  /\ members \subseteq Pids /\ missed \subseteq Pids /\ late \subseteq Pids
  /\ harmed \in BOOLEAN

\* A signal that has no effect.
Spares(p) == Spare(p) /\ UNCHANGED <<proc, holds, harmed>>

\* The types hold before the first process.
LEMMA TypeInitial == Init => TypeOK
  BY DEF Init, TypeOK, Stages

\* Every step of the host, the processes and the runner keeps the types.
LEMMA TypeStep == TypeOK /\ [Next]_vars => TypeOK'
<1>1. SUFFICES ASSUME TypeOK, [Next]_vars PROVE TypeOK'
  OBVIOUS
<1>2. Leader \in Pids
  BY PidAssumption
<1>3. ASSUME NEW q \in Pids, HandOut(q) PROVE late' \subseteq Pids
  BY <1>1, <1>3 DEF HandOut, TypeOK
<1>4. ASSUME NEW p \in Pids, Fork(p) PROVE TypeOK'
  <2>1. PICK q \in Pids : /\ HandOut(q)
                          /\ proc' = [proc EXCEPT ![q] = "tool"]
                          /\ group' = [group EXCEPT ![q] = group[p]]
                          /\ holds' = IF p \in holds THEN holds \union {q} ELSE holds
    BY <1>4 DEF Fork
  <2>2. late' \subseteq Pids
    BY <1>3, <2>1
  <2>3. QED BY <1>1, <1>4, <2>1, <2>2 DEF Fork, TypeOK, runnerVars
<1>5. ASSUME NEW p \in Pids, OutsiderStarts(p) PROVE TypeOK'
  <2>1. late' \subseteq Pids
    BY <1>3, <1>5 DEF OutsiderStarts
  <2>2. QED BY <1>1, <1>5, <2>1 DEF OutsiderStarts, TypeOK, runnerVars
<1>6. ASSUME NEW p \in Pids, LeaveGroup(p) \/ ClosePipe(p) \/ Exit(p) \/ OutsiderEnds(p)
      PROVE  TypeOK'
  BY <1>1, <1>2, <1>6 DEF LeaveGroup, ClosePipe, Exit, End, OutsiderEnds, TypeOK, runnerVars
<1>7. CASE Spawn \/ SpawnFails \/ SeeExit \/ WaitFails \/ Deadline
  BY <1>1, <1>2, <1>7 DEF Spawn, SpawnFails, SeeExit, WaitFails, Deadline, Group, Tools, Return,
                          TypeOK, Stages, hostVars
<1>8. CASE ListNext
  <2>1. PICK p : /\ p \in unread /\ unread' = unread \ {p}
                 /\ members' \subseteq members \union {p}
                 /\ missed' \subseteq missed \union {p}
    <3>1. unread # {} /\ unread \subseteq Nat
      BY <1>1, <1>8, PidAssumption DEF ListNext, TypeOK
    <3>2. QED BY <1>8, <3>1, MinIsAMember DEF ListNext, Spare
  <2>2. QED BY <1>1, <1>8, <2>1 DEF ListNext, TypeOK, hostVars
<1>9. ASSUME NEW p, Signal(p) \/ Spares(p), UNCHANGED <<result, unread, group, late>>,
             members' \subseteq members, runner' \in Stages
      PROVE  TypeOK'
  BY <1>1, <1>9 DEF Signal, End, Spares, Spare, Group, Tools, TypeOK
<1>10. CASE KillNext
  <2>1. PICK p : (Signal(p) \/ Spares(p)) /\ members' = members \ {p}
    BY <1>10 DEF KillNext, Spares
  <2>2. runner' \in Stages
    BY <1>1, <1>10 DEF KillNext, TypeOK
  <2>3. QED BY <1>9, <1>10, <2>1, <2>2 DEF KillNext
<1>11. CASE KillLeader
  BY <1>9, <1>11 DEF KillLeader, Spares, Stages
<1>12. CASE Listed \/ Killed \/ Reap \/ Join
  BY <1>1, <1>2, <1>12 DEF Listed, Killed, Reap, Join, Return, TypeOK, Stages, hostVars
<1>13. CASE UNCHANGED vars
  BY <1>1, <1>13 DEF vars, TypeOK
<1>14. QED
  BY <1>1, <1>4, <1>5, <1>6, <1>7, <1>8, <1>10, <1>11, <1>12, <1>13 DEF Next, HostStep, RunnerStep

-----------------------------------------------------------------------------
(* The inductive invariant.                                                 *)

\* An outsider leads a group of its own, which is not the tool's.
GroupsApart == \A p \in Pids : proc[p] = "outsider" => group[p] = p /\ p # Leader

\* While processes may be handed out unmarked, nothing is listed; a listed id
\* that an outsider has by now was handed out after the deadline.
ListedAreOurs ==
  /\ Running => members = {}
  /\ \A p \in members : proc[p] = "outsider" => p \in late
  /\ ~ harmed

\* Of the group, past the deadline, whoever was there at it and was not spared
\* by a failure is still to be listed or signalled.
Remaining == {p \in Pids : proc[p] = "tool" /\ group[p] = Leader /\ p \notin late \union missed}

GroupIsWorkedOff ==
  result = "timeout" =>
    /\ ~ Running
    /\ runner = "listing" => Remaining \subseteq unread \union members
    /\ runner = "killing" => Remaining \subseteq members
    /\ runner \notin {"listing", "killing"} => Remaining = {}

RunnerInv == TypeOK /\ GroupsApart /\ ListedAreOurs /\ GroupIsWorkedOff

-----------------------------------------------------------------------------
\* The invariant holds before the first process.
LEMMA RunnerInitial == Init => RunnerInv
<1>1. Init => GroupsApart /\ ListedAreOurs /\ GroupIsWorkedOff
  BY DEF Init, GroupsApart, ListedAreOurs, GroupIsWorkedOff
<1>2. QED BY <1>1, TypeInitial DEF RunnerInv

\* A process is signalled: it may be gone, nobody else is touched.
LEMMA SignalEffect ==
  ASSUME TypeOK, NEW p, Signal(p)
  PROVE  /\ \A q \in Pids : q # p => proc'[q] = proc[q]
         /\ p \in Pids => proc'[p] \notin {"tool", "outsider"}
         /\ missed \subseteq missed' \union {p}
  BY DEF Signal, End, TypeOK

(* No step puts an outsider in the group of the tool: pids are handed out,  *)
(* groups are inherited.                                                    *)
LEMMA GroupsStep ==
  ASSUME TypeOK, GroupsApart, [Next]_vars
  PROVE  GroupsApart'
<1>1. ASSUME NEW p \in Pids, Fork(p) PROVE GroupsApart'
  BY <1>1 DEF Fork, HandOut, GroupsApart, TypeOK
<1>2. ASSUME NEW p \in Pids, LeaveGroup(p) PROVE GroupsApart'
  BY <1>2 DEF LeaveGroup, Tools, GroupsApart, TypeOK
<1>3. ASSUME NEW p \in Pids, OutsiderStarts(p) PROVE GroupsApart'
  BY <1>3 DEF OutsiderStarts, HandOut, GroupsApart, TypeOK
<1>4. ASSUME group' = group, \A q \in Pids : proc'[q] = "outsider" => proc[q] = "outsider"
      PROVE  GroupsApart'
  BY <1>4 DEF GroupsApart
<1>5. ASSUME NEW p \in Pids, ClosePipe(p) \/ Exit(p) \/ OutsiderEnds(p) PROVE GroupsApart'
  BY <1>4, <1>5 DEF ClosePipe, Exit, End, OutsiderEnds, TypeOK
<1>6. CASE Spawn
  BY <1>6 DEF Spawn, GroupsApart, TypeOK
<1>7. CASE SpawnFails \/ SeeExit \/ WaitFails \/ Deadline \/ ListNext \/ Listed \/ Killed \/ Reap \/ Join
  BY <1>4, <1>7 DEF SpawnFails, SeeExit, WaitFails, Deadline, ListNext, Listed, Killed, Reap, Join,
                    TypeOK, hostVars
<1>8. CASE KillNext
  <2>1. PICK p : Signal(p) \/ Spares(p)
    BY <1>8 DEF KillNext, Spares
  <2>2. \A q \in Pids : proc'[q] = "outsider" => proc[q] = "outsider"
    BY <2>1, SignalEffect DEF Spares
  <2>3. QED BY <1>4, <1>8, <2>2 DEF KillNext
<1>9. CASE KillLeader
  <2>1. \A q \in Pids : proc'[q] = "outsider" => proc[q] = "outsider"
    BY <1>9, SignalEffect DEF KillLeader
  <2>2. QED BY <1>4, <1>9, <2>1 DEF KillLeader
<1>10. CASE UNCHANGED vars
  BY <1>10 DEF vars, GroupsApart
<1>11. QED
  BY <1>1, <1>2, <1>3, <1>5, <1>6, <1>7, <1>8, <1>9, <1>10 DEF Next, HostStep, RunnerStep

(* What the runner has listed was of the group when it looked, or has been  *)
(* handed out since.                                                        *)
LEMMA ListedStep ==
  ASSUME TypeOK, GroupsApart, ListedAreOurs, [Next]_vars
  PROVE  ListedAreOurs'
<1>1. ASSUME NEW q \in Pids, HandOut(q), UNCHANGED <<runnerVars, harmed>>,
             \A p \in Pids : p # q => proc'[p] = proc[p]
      PROVE  ListedAreOurs'
  <2>1. CASE Running
    BY <1>1, <2>1 DEF ListedAreOurs, Running, runnerVars
  <2>2. CASE ~ Running
    BY <1>1, <2>2 DEF HandOut, ListedAreOurs, Running, runnerVars, TypeOK
  <2>3. QED BY <2>1, <2>2
<1>2. ASSUME NEW p \in Pids, Fork(p) PROVE ListedAreOurs'
  <2>1. PICK q \in Pids : HandOut(q) /\ proc' = [proc EXCEPT ![q] = "tool"]
    BY <1>2 DEF Fork
  <2>2. \A r \in Pids : r # q => proc'[r] = proc[r]
    BY <2>1 DEF TypeOK
  <2>3. QED BY <1>1, <1>2, <2>1, <2>2 DEF Fork
<1>3. ASSUME NEW p \in Pids, OutsiderStarts(p) PROVE ListedAreOurs'
  <2>1. \A r \in Pids : r # p => proc'[r] = proc[r]
    BY <1>3 DEF OutsiderStarts, TypeOK
  <2>2. QED BY <1>1, <1>3, <2>1 DEF OutsiderStarts
<1>4. ASSUME \A q \in Pids : proc'[q] = "outsider" => proc[q] = "outsider",
             members' \subseteq members, Running' => Running, UNCHANGED <<late, harmed>>
      PROVE  ListedAreOurs'
  BY <1>4 DEF ListedAreOurs, TypeOK
<1>5. ASSUME NEW p \in Pids, LeaveGroup(p) \/ ClosePipe(p) \/ Exit(p) \/ OutsiderEnds(p)
      PROVE  ListedAreOurs'
  BY <1>4, <1>5 DEF LeaveGroup, ClosePipe, Exit, End, OutsiderEnds, Running, TypeOK, runnerVars
<1>6. CASE Spawn \/ SpawnFails \/ SeeExit \/ WaitFails \/ Deadline \/ Listed \/ Killed \/ Reap \/ Join
  BY <1>4, <1>6 DEF Spawn, SpawnFails, SeeExit, WaitFails, Deadline, Listed, Killed, Reap, Join,
                    Return, Running, TypeOK, hostVars
<1>7. CASE ListNext
  <2>1. /\ \A q \in members' : q \in members \/ (q \in Pids => group[q] = Leader)
        /\ ~ Running /\ ~ Running'
        /\ UNCHANGED <<proc, late, harmed>>
    BY <1>7 DEF ListNext, IsMember, Running, hostVars
  <2>2. members' \subseteq Pids
    BY TypeStep DEF TypeOK
  <2>3. \A q \in Pids : group[q] = Leader => proc[q] # "outsider"
    BY DEF GroupsApart
  <2>4. QED BY <2>1, <2>2, <2>3 DEF ListedAreOurs
<1>8. CASE KillNext
  <2>1. PICK p \in members : (Signal(p) \/ Spares(p)) /\ members' = members \ {p}
    <3>1. members \subseteq Nat /\ members # {}
      BY <1>8, PidAssumption DEF KillNext, TypeOK
    <3>2. QED BY <1>8, <3>1, MinIsAMember DEF KillNext, Spares
  <2>2. harmed' = harmed
    <3>1. proc[p] = "outsider" => p \in late
      BY <2>1 DEF ListedAreOurs
    <3>2. ~ harmed'
      BY <2>1, <3>1 DEF Signal, Spares, ListedAreOurs
    <3>3. QED BY <3>2, TypeStep DEF ListedAreOurs, TypeOK
  <2>3. \A q \in Pids : proc'[q] = "outsider" => proc[q] = "outsider"
    BY <2>1, SignalEffect DEF Spares
  <2>4. QED BY <1>4, <1>8, <2>1, <2>2, <2>3 DEF KillNext, Running
<1>9. CASE KillLeader
  <2>1. Leader \in Pids /\ proc[Leader] # "outsider"
    BY PidAssumption DEF GroupsApart
  <2>2. ~ harmed'
    BY <1>9, <2>1 DEF KillLeader, Signal, ListedAreOurs
  <2>3. \A q \in Pids : proc'[q] = "outsider" => proc[q] = "outsider"
    BY <1>9, SignalEffect DEF KillLeader
  <2>4. /\ members' = members /\ late' = late /\ ~ Running'
    BY <1>9 DEF KillLeader, Running
  <2>5. QED BY <2>2, <2>3, <2>4 DEF ListedAreOurs, TypeOK
<1>10. CASE UNCHANGED vars
  BY <1>4, <1>10 DEF vars, Running
<1>11. QED
  BY <1>2, <1>3, <1>5, <1>6, <1>7, <1>8, <1>9, <1>10 DEF Next, HostStep, RunnerStep

(* A timeout that has begun leaves ever fewer of the group alive, each      *)
(* still to be signalled.                                                   *)
LEMMA WorkedOffStep ==
  ASSUME TypeOK, GroupIsWorkedOff, [Next]_vars
  PROVE  GroupIsWorkedOff'
<1>1. ASSUME result = "timeout" => Remaining' \subseteq Remaining,
             UNCHANGED <<runner, result, unread, members>>
      PROVE  GroupIsWorkedOff'
  BY <1>1 DEF GroupIsWorkedOff, Running
<1>2. ASSUME NEW p \in Pids, Fork(p) PROVE GroupIsWorkedOff'
  <2>1. PICK q \in Pids : /\ HandOut(q)
                          /\ proc' = [proc EXCEPT ![q] = "tool"]
                          /\ group' = [group EXCEPT ![q] = group[p]]
    BY <1>2 DEF Fork
  <2>2. result = "timeout" => q \in late' /\ late \subseteq late'
    BY <2>1 DEF GroupIsWorkedOff, HandOut
  <2>3. result = "timeout" => Remaining' \subseteq Remaining
    BY <1>2, <2>1, <2>2 DEF Fork, runnerVars, Remaining, TypeOK
  <2>4. QED BY <1>1, <1>2, <2>3 DEF Fork, runnerVars
<1>3. ASSUME NEW p \in Pids, LeaveGroup(p) PROVE GroupIsWorkedOff'
  <2>1. Remaining' \subseteq Remaining
    BY <1>3 DEF LeaveGroup, Tools, Remaining, runnerVars, TypeOK
  <2>2. QED BY <1>1, <1>3, <2>1 DEF LeaveGroup, runnerVars
<1>4. ASSUME NEW p \in Pids, OutsiderStarts(p) PROVE GroupIsWorkedOff'
  <2>1. Remaining' \subseteq Remaining
    BY <1>4 DEF OutsiderStarts, HandOut, Remaining, runnerVars, TypeOK
  <2>2. QED BY <1>1, <1>4, <2>1 DEF OutsiderStarts, runnerVars
<1>5. ASSUME NEW p \in Pids, ClosePipe(p) \/ Exit(p) \/ OutsiderEnds(p) PROVE GroupIsWorkedOff'
  <2>1. Remaining' \subseteq Remaining
    BY <1>5 DEF ClosePipe, Exit, End, OutsiderEnds, Remaining, runnerVars, TypeOK
  <2>2. QED BY <1>1, <1>5, <2>1 DEF ClosePipe, Exit, OutsiderEnds, runnerVars
<1>6. CASE Spawn \/ SpawnFails \/ SeeExit \/ WaitFails
  BY <1>6 DEF Spawn, SpawnFails, SeeExit, WaitFails, Return, GroupIsWorkedOff, Running
<1>7. CASE Deadline
  <2>2. runner' = "listing" => unread' = Pids
    BY <1>7 DEF Deadline
  <2>3. runner' \in {"listing", "finishing"} /\ UNCHANGED <<proc, group, late>>
    BY <1>7 DEF Deadline, hostVars
  <2>4. Remaining' \subseteq Pids /\ (runner' = "finishing" => Remaining' = {})
    BY <1>7 DEF Deadline, hostVars, Remaining, Group, Tools
  <2>5. QED BY <2>2, <2>3, <2>4 DEF GroupIsWorkedOff, Running
<1>8. CASE ListNext
  <2>1. PICK p : /\ unread' = unread \ {p}
                 /\ \/ /\ members' = IF IsMember(p) THEN members \union {p} ELSE members
                       /\ UNCHANGED missed
                    \/ Spare(p) /\ UNCHANGED members
    BY <1>8 DEF ListNext
  <2>2. p \in Remaining => IsMember(p) /\ p \in Group
    BY DEF Remaining, IsMember, Group, Tools
  <2>3. /\ runner = "listing" /\ UNCHANGED <<runner, result>>
        /\ missed \subseteq missed' /\ Remaining' \subseteq Remaining
    BY <1>8, <2>1 DEF ListNext, Spare, Remaining, hostVars
  <2>4. p \in Remaining' => p \in members'
    BY <2>1, <2>2, <2>3 DEF Spare, Remaining
  <2>5. members \subseteq members'
    BY <2>1
  <2>6. QED BY <2>1, <2>3, <2>4, <2>5 DEF GroupIsWorkedOff, Running
<1>9. CASE Listed
  <2>1. /\ runner = "listing" /\ unread = {} /\ runner' = "killing" /\ UNCHANGED <<result, members>>
        /\ Remaining' = Remaining
    BY <1>9 DEF Listed, Remaining, hostVars
  <2>2. QED BY <2>1 DEF GroupIsWorkedOff, Running
<1>10. ASSUME NEW p, Signal(p) \/ Spares(p), UNCHANGED <<group, late>>
       PROVE  Remaining' \subseteq Remaining \ {p}
  <2>1. ASSUME NEW q \in Remaining', Signal(p) PROVE q \in Remaining /\ q # p
    <3>1. q \in Pids /\ proc'[q] = "tool" /\ group[q] = Leader /\ q \notin late \union missed'
      BY <1>10, <2>1 DEF Remaining
    <3>2. q # p
      BY <2>1, <3>1, SignalEffect
    <3>3. proc[q] = "tool" /\ q \notin missed
      BY <2>1, <3>1, <3>2, SignalEffect
    <3>4. QED BY <3>1, <3>2, <3>3 DEF Remaining
  <2>2. ASSUME NEW q \in Remaining', Spares(p) PROVE q \in Remaining /\ q # p
    BY <1>10, <2>2 DEF Remaining, Spares, Spare, Group, Tools
  <2>3. QED BY <1>10, <2>1, <2>2
<1>11. CASE KillNext
  <2>1. PICK p : (Signal(p) \/ Spares(p)) /\ members' = members \ {p}
    BY <1>11 DEF KillNext, Spares
  <2>2. Remaining' \subseteq Remaining \ {p}
    BY <1>10, <1>11, <2>1 DEF KillNext
  <2>3. runner = "killing" /\ UNCHANGED <<runner, result>>
    BY <1>11 DEF KillNext
  <2>4. QED BY <2>1, <2>2, <2>3 DEF GroupIsWorkedOff, Running
<1>12. CASE Killed
  <2>1. /\ runner = "killing" /\ members = {} /\ runner' = "finishing" /\ result' = result
        /\ Remaining' = Remaining
    BY <1>12 DEF Killed, Remaining, hostVars
  <2>2. QED BY <2>1 DEF GroupIsWorkedOff, Running
<1>13. CASE KillLeader
  <2>1. Remaining' \subseteq Remaining
    BY <1>10, <1>13 DEF KillLeader, Spares
  <2>2. runner = "finishing" /\ runner' = "reaping" /\ result' = result
    BY <1>13 DEF KillLeader
  <2>3. QED BY <2>1, <2>2 DEF GroupIsWorkedOff, Running
<1>14. CASE Reap
  <2>1. Remaining' \subseteq Remaining
    BY <1>14 DEF Reap, Remaining, TypeOK
  <2>2. runner = "reaping" /\ runner' = "joining" /\ result' = result
    BY <1>14 DEF Reap
  <2>3. QED BY <2>1, <2>2 DEF GroupIsWorkedOff, Running
<1>15. CASE Join
  <2>1. /\ runner = "joining" /\ runner' = "done" /\ Remaining' = Remaining
        /\ result' = "timeout" => result = "timeout"
    BY <1>15 DEF Join, Return, Remaining, hostVars
  <2>2. QED BY <2>1 DEF GroupIsWorkedOff, Running
<1>16. CASE UNCHANGED vars
  BY <1>16 DEF vars, GroupIsWorkedOff, Running, Remaining
<1>17. QED
  BY <1>2, <1>3, <1>4, <1>5, <1>6, <1>7, <1>8, <1>9, <1>11, <1>12, <1>13, <1>14, <1>15, <1>16
  DEF Next, HostStep, RunnerStep

\* Every step keeps the whole invariant.
LEMMA RunnerStepKeeps == RunnerInv /\ [Next]_vars => RunnerInv'
  BY TypeStep, GroupsStep, ListedStep, WorkedOffStep DEF RunnerInv

(* In every run: the types, an outsider in a group of its own, what is      *)
(* listed ours or handed out since, and the group on its way to be empty.   *)
THEOREM RunnerInvariant == Spec => []RunnerInv
<1>1. QED BY RunnerInitial, RunnerStepKeeps, PTL DEF Spec

(* "force-kills the child's entire process group" (proc_runner.rs:18-20),   *)
(* as far as /proc and kill(1) let it: what a timeout leaves of it was      *)
(* forked while /proc was read and the signals were sent, or was spared by  *)
(* an entry that could not be read or a signal without effect.              *)
THEOREM TheGroupIsEmptied == Spec => []TimeoutEmptiesTheGroup
<1>1. RunnerInv => TimeoutEmptiesTheGroup
  BY DEF RunnerInv, TypeOK, GroupIsWorkedOff, Remaining, TimeoutEmptiesTheGroup, Group, Tools
<1>2. QED BY <1>1, RunnerInvariant, PTL

(* "an unrelated process can never be hit" (proc_runner.rs:37-38), but for  *)
(* one that came to its id after the deadline.                              *)
THEOREM NoOutsiderIsHarmed == Spec => []OutsidersAreSpared
<1>1. RunnerInv => OutsidersAreSpared
  BY DEF RunnerInv, ListedAreOurs, OutsidersAreSpared
<1>2. QED BY <1>1, RunnerInvariant, PTL

=============================================================================
