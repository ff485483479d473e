----------------------------- MODULE ProcRunner -----------------------------
(***************************************************************************)
(* run_with_timeout of services/mcp/src/tools/proc_runner.rs: the tool     *)
(* server runs an external forensic tool in a process group of its own,    *)
(* polls it until a deadline, and then kills the members of the group one  *)
(* by one, as it reads them from /proc.                                    *)
(*                                                                         *)
(* Around it are the processes of the host: the tool forks, its children   *)
(* leave the group, close the pipe or exit when they like, and outsiders   *)
(* come and go on free process ids.  stdout and stderr are one pipe, whose *)
(* bytes are left out: the drain threads return when no process holds it.  *)
(*                                                                         *)
(* The kill is best effort in the code: what of /proc cannot be read is    *)
(* skipped, without /proc the leader alone is killed, and the results of   *)
(* kill(1) and of Child::kill are dropped.  missed remembers who was       *)
(* spared by one of these, so that the properties can tell them from those *)
(* the runner simply forgets.                                              *)
(***************************************************************************)
EXTENDS Integers, FiniteSetsExt

CONSTANTS
  Pids,   \* process ids, integers
  Leader  \* the one the tool gets

ASSUME PidAssumption == Pids \subseteq Nat /\ Leader \in Pids

VARIABLES
  runner,  \* spawning, polling, listing, killing, finishing, reaping, joining, done
  result,  \* none, spawn_failed, io_error, output, timeout
  proc,    \* per process id: free, tool, outsider, zombie
  group,   \* per process id: its process group
  holds,   \* process ids that have the pipe open for writing
  unread,  \* entries of /proc not read yet
  members, \* process ids listed and not yet signalled
  missed,  \* members that run on, spared by an unreadable /proc or a failed kill
  late,    \* process ids handed out after the deadline passed
  harmed   \* an outsider not among them got a signal

runnerVars == <<runner, result, unread, members, missed>>
hostVars == <<proc, group, holds, late, harmed>>
vars == <<runner, result, unread, members, missed, proc, group, holds, late, harmed>>

Free == {p \in Pids : proc[p] = "free"}
Tools == {p \in Pids : proc[p] = "tool"}

Init ==
  /\ runner = "spawning" /\ result = "none"
  /\ proc = [p \in Pids |-> "free"] /\ group = [p \in Pids |-> p]
  /\ holds = {} /\ unread = {} /\ members = {} /\ missed = {} /\ late = {} /\ harmed = FALSE

-----------------------------------------------------------------------------
(* The host.                                                                *)

Running == runner \in {"spawning", "polling"}

\* A process id is not handed out while it names a process group.
HandOut(q) ==
  /\ q \in Free \ {Leader}
  /\ \A r \in Pids \ Free : group[r] # q
  /\ late' = IF Running THEN late ELSE late \union {q}

Fork(p) ==
  /\ p \in Tools
  /\ \E q \in Pids :
       /\ HandOut(q)
       /\ proc' = [proc EXCEPT ![q] = "tool"]
       /\ group' = [group EXCEPT ![q] = group[p]]
       /\ holds' = IF p \in holds THEN holds \union {q} ELSE holds
  /\ UNCHANGED <<runnerVars, harmed>>

LeaveGroup(p) ==
  /\ p \in Tools \ {Leader}
  /\ group' = [group EXCEPT ![p] = p]
  /\ UNCHANGED <<runnerVars, proc, holds, late, harmed>>

ClosePipe(p) ==
  /\ p \in holds
  /\ holds' = holds \ {p}
  /\ UNCHANGED <<runnerVars, proc, group, late, harmed>>

\* The tool stays a zombie until the runner reaps it; who waits for its
\* children does so at once.
End(p) ==
  /\ proc' = [proc EXCEPT ![p] = IF p = Leader THEN "zombie" ELSE "free"]
  /\ holds' = holds \ {p} /\ missed' = missed \ {p}

Exit(p) ==
  /\ p \in Tools
  /\ End(p)
  /\ UNCHANGED <<runner, result, unread, members, group, late, harmed>>

OutsiderStarts(q) ==
  /\ HandOut(q)
  /\ proc' = [proc EXCEPT ![q] = "outsider"]
  /\ group' = [group EXCEPT ![q] = q]
  /\ UNCHANGED <<runnerVars, holds, harmed>>

OutsiderEnds(q) ==
  /\ proc[q] = "outsider"
  /\ proc' = [proc EXCEPT ![q] = "free"]
  /\ UNCHANGED <<runnerVars, group, holds, late, harmed>>

HostStep ==
  \E p \in Pids : \/ Fork(p) \/ LeaveGroup(p) \/ ClosePipe(p) \/ Exit(p)
                  \/ OutsiderStarts(p) \/ OutsiderEnds(p)

-----------------------------------------------------------------------------
(* run_with_timeout.                                                        *)

Spawn ==
  /\ runner = "spawning"
  /\ proc[Leader] = "free"
  /\ proc' = [proc EXCEPT ![Leader] = "tool"]
  /\ group' = [group EXCEPT ![Leader] = Leader]
  /\ holds' = holds \union {Leader}
  /\ runner' = "polling"
  /\ UNCHANGED <<result, unread, members, missed, late, harmed>>

Return(r) == runner' = "done" /\ result' = r

SpawnFails ==
  /\ runner = "spawning"
  /\ Return("spawn_failed")
  /\ UNCHANGED <<unread, members, missed, hostVars>>

\* try_wait: an exited tool is reaped by the poll that sees it.
SeeExit ==
  /\ runner = "polling" /\ proc[Leader] = "zombie"
  /\ proc' = [proc EXCEPT ![Leader] = "free"]
  /\ runner' = "joining"
  /\ UNCHANGED <<result, unread, members, missed, group, holds, late, harmed>>

\* Only when the child cannot be waited for; it is left alone.
WaitFails ==
  /\ runner = "polling"
  /\ Return("io_error")
  /\ UNCHANGED <<unread, members, missed, hostVars>>

\* The tool and what it forked, but for those that left the group.
Group == {p \in Tools : group[p] = Leader}

Spare(p) == missed' = IF p \in Group THEN missed \union {p} ELSE missed

\* Variant: the tool alone is killed, not its group.
DeadlineLeaderOnly ==
  /\ runner = "polling" /\ proc[Leader] = "tool"
  /\ unread' = {} /\ result' = "timeout" /\ runner' = "finishing"
  /\ UNCHANGED <<members, missed, hostVars>>

\* The deadline passed after a poll that found the tool running.  The tool leads
\* a group of its own; the code asks /proc first, and when it cannot read that
\* there (no /proc, a name in stat that is not UTF-8) it leaves the group alone.
Deadline ==
  /\ runner = "polling" /\ proc[Leader] = "tool"
  /\ result' = "timeout"
  /\ \/ unread' = Pids /\ runner' = "listing" /\ UNCHANGED missed
     \/ missed' = Group /\ runner' = "finishing" /\ UNCHANGED unread
  /\ UNCHANGED <<members, hostVars>>

\* Variant: every process is taken for a member of the group.
IsMemberAny(p) == proc[p] # "free"

IsMember(p) == proc[p] # "free" /\ group[p] = Leader

\* /proc is read entry by entry, in ascending order, each as it is then; one
\* that cannot be read is skipped, all of them when the directory cannot be.
ListNext ==
  /\ runner = "listing" /\ unread # {}
  /\ LET p == Min(unread) IN
       /\ unread' = unread \ {p}
       /\ \/ /\ members' = IF IsMember(p) THEN members \union {p} ELSE members
             /\ UNCHANGED missed
          \/ Spare(p) /\ UNCHANGED members
  /\ UNCHANGED <<runner, result, hostVars>>

Listed ==
  /\ runner = "listing" /\ unread = {}
  /\ runner' = "killing"
  /\ UNCHANGED <<result, unread, members, missed, hostVars>>

Signal(p) ==
  /\ IF proc[p] = "tool" THEN End(p)
     ELSE IF proc[p] = "outsider" THEN proc' = [proc EXCEPT ![p] = "free"] /\ UNCHANGED <<holds, missed>>
     ELSE UNCHANGED <<proc, holds, missed>>
  /\ harmed' = (harmed \/ (proc[p] = "outsider" /\ p \notin late))

\* kill(1) may not be there, may not be allowed to, and may find a process that
\* the kernel does not let go; nobody looks at what it returned.
KillNext ==
  /\ runner = "killing" /\ members # {}
  /\ LET p == Min(members) IN
       /\ members' = members \ {p}
       /\ \/ Signal(p)
          \/ Spare(p) /\ UNCHANGED <<proc, holds, harmed>>
  /\ UNCHANGED <<runner, result, unread, group, late>>

Killed ==
  /\ runner = "killing" /\ members = {}
  /\ runner' = "finishing"
  /\ UNCHANGED <<result, unread, members, missed, hostVars>>

\* The tool itself is always killed directly too, and that may fail as well.
KillLeader ==
  /\ runner = "finishing"
  /\ \/ Signal(Leader)
     \/ Spare(Leader) /\ UNCHANGED <<proc, holds, harmed>>
  /\ runner' = "reaping"
  /\ UNCHANGED <<result, unread, members, group, late>>

\* Child::wait has no deadline.
Reap ==
  /\ runner = "reaping" /\ proc[Leader] = "zombie"
  /\ proc' = [proc EXCEPT ![Leader] = "free"]
  /\ runner' = "joining"
  /\ UNCHANGED <<result, unread, members, missed, group, holds, late, harmed>>

\* Both drain threads are joined on either path; no deadline applies here.
Join ==
  /\ runner = "joining" /\ holds = {}
  /\ Return(IF result = "timeout" THEN "timeout" ELSE "output")
  /\ UNCHANGED <<unread, members, missed, hostVars>>

RunnerStep ==
  \/ Spawn \/ SpawnFails \/ SeeExit \/ WaitFails \/ Deadline
  \/ ListNext \/ Listed \/ KillNext \/ Killed \/ KillLeader \/ Reap \/ Join

Next == HostStep \/ RunnerStep

\* The runner goes on and the deadline comes; nothing is assumed of the tool.
Fairness ==
  /\ WF_vars(Spawn \/ SpawnFails)
  /\ WF_vars(SeeExit \/ Deadline)
  /\ WF_vars(ListNext \/ Listed \/ KillNext \/ Killed \/ KillLeader \/ Reap \/ Join)

Spec == Init /\ [][Next]_vars
FairSpec == Spec /\ Fairness

-----------------------------------------------------------------------------
(* Properties.                                                              *)

(* "force-kills the child's entire process group (leader plus the           *)
(* descendants the tool spawned)" (proc_runner.rs:18-20), as far as /proc   *)
(* can be read and kill(1) works: when the runner reports a timeout,        *)
(* whatever is left of the tool's group was forked after the deadline,      *)
(* while /proc was read and the signals were sent, or was spared by an      *)
(* entry that could not be read or a signal that failed.                    *)
TimeoutEmptiesTheGroup ==
  runner = "done" /\ result = "timeout" =>
    Group \subseteq late \union missed

(* "It only kills PIDs whose PGID equals that verified child group, so an   *)
(* unrelated process can never be hit" (proc_runner.rs:37-38): of those     *)
(* that were there at the deadline none is.  One that started later may     *)
(* have the id of a member that ended before its signal.                    *)
OutsidersAreSpared == ~ harmed

(* "so the server never blocks" (proc_runner.rs:142-143): the runner        *)
(* returns, whatever the tool does.                                         *)
Returns == <>(runner = "done")

(* What keeps the runner from returning: the join, while some process has   *)
(* the pipe open that after a timeout left the group, was forked too late   *)
(* to be listed or was spared by a failure; or, after a timeout, the wait   *)
(* for a tool that the last signal did not end.                             *)
OnlyPipeOrToolHoldsItUp ==
  \/ Returns
  \/ <>[](/\ runner = "joining" /\ holds # {}
          /\ result = "timeout" =>
               \A p \in holds : group[p] # Leader \/ p \in late \union missed)
  \/ <>[](runner = "reaping" /\ proc[Leader] = "tool" /\ Leader \in missed)

=============================================================================
