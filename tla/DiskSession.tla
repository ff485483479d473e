---------------------------- MODULE DiskSession -----------------------------
(***************************************************************************)
(* The disk session of services/mcp/src/tools/disk.rs: disk_mount,         *)
(* disk_extract_artifacts and disk_unmount keep two stores that must       *)
(* agree, the mounts of the host and the rows of session_resources.json,   *)
(* and the client that calls them: investigate_disk of the engine (mount,  *)
(* extract, unmount in a finally block) or an agent of its agent mode,     *)
(* which calls the three as it likes.                                      *)
(*                                                                         *)
(* The server answers one request at a time and goes on with a request its *)
(* caller has given up.  Steps of a handler are separate where a failure   *)
(* or a kill between them leaves something behind: a layer that is mounted *)
(* (an EWF image has a container and, on it, the volume), a ledger that is *)
(* truncated and not yet written (fs::write works in place).               *)
(***************************************************************************)
EXTENDS Naturals, FiniteSets, Sequences

CONSTANTS
  Mounts,     \* mount ids; each disk_mount takes a fresh one, so their number
              \* bounds the mounts of a run
  MaxCalls,   \* bound: calls an agent makes
  NoMount     \* stands for no mount id

ASSUME NoMountAssumption == NoMount \notin Mounts
ASSUME MaxCallsAssumption == MaxCalls \in Nat

VARIABLES
  host,      \* per mount id: the layers mounted on the host
  ledger,    \* the text of session_resources.json: parses, or a partial write
  rows,      \* the disk_mount rows of the ledger, by mount id
  extracts,  \* mount ids whose extraction has a row
  inbox,     \* requests the server has not read
  server,    \* the request in hand and how far it is; "exited" when gone
  reply,     \* the last answer written, for the caller that still waits
  client,    \* kind of client, where it is, the mount ids it was told of
  faults,    \* what went wrong so far
  torn       \* mount ids whose teardown released something and then failed

vars == <<host, ledger, rows, extracts, inbox, server, reply, client, faults, torn>>
disk == <<host, ledger, rows, extracts>>

Layers  == {"container", "volume", "raw"}
Layouts == {"nested", "container", "raw", "direct"}
NoRow   == [status |-> "none", layout |-> "none"]
Row(s, l) == [status |-> s, layout |-> l]

Request(op, m, id) == [op |-> op, m |-> m, id |-> id]
NoReply        == [id |-> 0, m |-> NoMount, ok |-> FALSE]
Idle           == [at |-> "idle", op |-> "none", m |-> NoMount, layout |-> "none", id |-> 0]
Exited         == [Idle EXCEPT !.at = "exited"]

Init ==
  /\ host = [m \in Mounts |-> {}]
  /\ ledger = "parses"
  /\ rows = [m \in Mounts |-> NoRow]
  /\ extracts = {}
  /\ inbox = << >>
  /\ server = Idle
  /\ reply = NoReply
  /\ client \in [kind : {"lane", "agent"}, at : {"start"}, known : {{}}, calls : {0}, mounts : {0}]
  /\ faults = {}
  /\ torn = {}

-----------------------------------------------------------------------------
(* The server.                                                             *)

\* Nobody reads what is written once the engine is dead: the write fails and
\* the server leaves its loop, with requests unread.
Answer(ok) ==
  /\ reply' = [id |-> server.id, m |-> server.m, ok |-> ok]
  /\ server' = IF client.at = "killed" THEN Exited ELSE Idle

At(step)   == server.at = step
Goto(step) == server' = [server EXCEPT !.at = step]
Fault(f)   == faults' = faults \cup {f}
NoFault    == UNCHANGED <<faults, torn>>

Fresh == {m \in Mounts : rows[m] = NoRow /\ host[m] = {} /\ m \notin client.known}

(* One request per line of stdin; disk_mount names its mount with a new id, *)
(* the others read the ledger before anything else.                        *)
ReadRequest ==
  /\ At("idle") /\ inbox # << >>
  /\ inbox' = Tail(inbox)
  /\ \E m \in (IF Head(inbox).op = "mount" THEN Fresh ELSE {Head(inbox).m}) :
       server' = [at |-> Head(inbox).op, op |-> Head(inbox).op, m |-> m,
                  layout |-> "none", id |-> Head(inbox).id]
  /\ UNCHANGED <<disk, reply, client>> /\ NoFault

(* auto_mount: read the image directly when ewfmount is missing, mount a raw *)
(* image (as it is, at the offset of its partition, under sudo), or ewfmount *)
(* the container.                                                          *)
MountDirect ==
  /\ At("mount")
  /\ server' = [server EXCEPT !.at = "register", !.layout = "direct"]
  /\ UNCHANGED <<disk, inbox, reply, client>> /\ NoFault

MountRaw ==
  /\ At("mount")
  /\ host' = [host EXCEPT ![server.m] = {"raw"}]
  /\ server' = [server EXCEPT !.at = "register", !.layout = "raw"]
  /\ UNCHANGED <<ledger, rows, extracts, inbox, reply, client>> /\ NoFault

MountContainer ==
  /\ At("mount")
  /\ host' = [host EXCEPT ![server.m] = {"container"}]
  /\ Goto("container")
  /\ UNCHANGED <<ledger, rows, extracts, inbox, reply, client>> /\ NoFault

MountFails ==
  /\ At("mount")
  /\ Answer(FALSE)
  /\ UNCHANGED <<disk, inbox, client>> /\ NoFault

(* The volume inside the container: mounted, or left (custody only).       *)
MountVolume ==
  /\ At("container")
  /\ host' = [host EXCEPT ![server.m] = @ \cup {"volume"}]
  /\ server' = [server EXCEPT !.at = "register", !.layout = "nested"]
  /\ UNCHANGED <<ledger, rows, extracts, inbox, reply, client>> /\ NoFault

\* Variant: a container without a volume is an error, and stays mounted.
SkipVolumeForgets ==
  /\ At("container")
  /\ Answer(FALSE)
  /\ UNCHANGED <<disk, inbox, client>> /\ NoFault

SkipVolume ==
  /\ At("container")
  /\ server' = [server EXCEPT !.at = "register", !.layout = "container"]
  /\ UNCHANGED <<disk, inbox, reply, client>> /\ NoFault

(* create_dir of the directory for the volume fails, behind a container    *)
(* that is mounted.                                                        *)
VolumeDirFails ==
  /\ At("container")
  /\ Answer(FALSE)
  /\ Fault("mkdir")
  /\ UNCHANGED <<disk, inbox, client, torn>>

-----------------------------------------------------------------------------
(* read_ledger and write_ledger.                                           *)

ReadFails ==
  /\ server.at \in {"register", "extract", "unmount"}
  /\ ledger = "partial"
  /\ Answer(FALSE)
  /\ UNCHANGED <<disk, inbox, client>> /\ NoFault

\* What a handler writes: the row of its own request.
NewRows ==
  CASE server.op = "mount"   -> [rows EXCEPT ![server.m] = Row("mounted", server.layout)]
    [] server.op = "unmount" -> [rows EXCEPT ![server.m].status = "unmounted"]
    [] OTHER -> rows

NewExtracts == IF server.op = "extract" THEN extracts \cup {server.m} ELSE extracts

(* fs::write opens the file with truncation, then writes the text.         *)
Truncate ==
  /\ At("write") \/ (At("register") /\ ledger = "parses")
  /\ ledger' = "partial"
  /\ Goto("truncated")
  /\ UNCHANGED <<host, rows, extracts, inbox, reply, client>> /\ NoFault

WriteDone ==
  /\ At("truncated")
  /\ ledger' = "parses"
  /\ rows' = NewRows
  /\ extracts' = NewExtracts
  /\ Answer(TRUE)
  /\ UNCHANGED <<host, inbox, client>> /\ NoFault

\* A teardown that cannot be recorded has released what its row still claims.
WriteFails ==
  /\ At("truncated") \/ At("write") \/ (At("register") /\ ledger = "parses")
  /\ Answer(FALSE)
  /\ Fault("write")
  /\ torn' = IF server.op = "unmount" THEN torn \cup {server.m} ELSE torn
  /\ UNCHANGED <<disk, inbox, client>>

-----------------------------------------------------------------------------
(* disk_extract_artifacts: the row must be there and say mounted; the files *)
(* are read from the image, not from the mount.                            *)
ExtractRefused ==
  /\ At("extract") /\ ledger = "parses" /\ rows[server.m].status # "mounted"
  /\ Answer(FALSE)
  /\ UNCHANGED <<disk, inbox, client>> /\ NoFault

Extract ==
  /\ At("extract") /\ ledger = "parses" /\ rows[server.m].status = "mounted"
  /\ Goto("write")
  /\ UNCHANGED <<disk, inbox, reply, client>> /\ NoFault

ExtractFails ==
  /\ At("extract") /\ ledger = "parses" /\ rows[server.m].status = "mounted"
  /\ Answer(FALSE)
  /\ UNCHANGED <<disk, inbox, client>> /\ NoFault

-----------------------------------------------------------------------------
(* disk_unmount.  unmount_steps: the layers to release, in order.          *)

\* Variant: the container is left to the host.
TeardownStepsInnerOnly(layout) ==
  CASE layout = "nested" -> <<"volume">>
    [] layout = "raw"    -> <<"raw">>
    [] OTHER             -> << >>

\* Variant: the container first.
TeardownStepsOuterFirst(layout) ==
  CASE layout = "nested"    -> <<"container", "volume">>
    [] layout = "container" -> <<"container">>
    [] layout = "raw"       -> <<"raw">>
    [] OTHER                -> << >>

TeardownSteps(layout) ==
  CASE layout = "nested"    -> <<"volume", "container">>
    [] layout = "container" -> <<"container">>
    [] layout = "raw"       -> <<"raw">>
    [] OTHER                -> << >>

(* umount works on a layer that is mounted and not in use by another.      *)
CanRelease(m, layer) ==
  /\ layer \in host[m]
  /\ layer = "container" => "volume" \notin host[m]

UnmountRefused ==
  /\ At("unmount") /\ ledger = "parses" /\ rows[server.m] = NoRow
  /\ Answer(FALSE)
  /\ UNCHANGED <<disk, inbox, client>> /\ NoFault

\* The plan is made from the row, whatever its status says.
UnmountBegins ==
  /\ At("unmount") /\ ledger = "parses" /\ rows[server.m] # NoRow
  /\ server' = [server EXCEPT !.at = "layer1", !.layout = rows[server.m].layout]
  /\ UNCHANGED <<disk, inbox, reply, client>> /\ NoFault

StepNumber == IF At("layer1") THEN 1 ELSE 2
NextStep   == IF At("layer1") THEN "layer2" ELSE "write"

ReleaseLayer ==
  /\ server.at \in {"layer1", "layer2"}
  /\ StepNumber <= Len(TeardownSteps(server.layout))
  /\ LET layer == TeardownSteps(server.layout)[StepNumber] IN
       /\ CanRelease(server.m, layer)
       /\ host' = [host EXCEPT ![server.m] = @ \ {layer}]
  /\ Goto(NextStep)
  /\ UNCHANGED <<ledger, rows, extracts, inbox, reply, client>> /\ NoFault

ReleaseEnds ==
  /\ server.at \in {"layer1", "layer2"}
  /\ StepNumber > Len(TeardownSteps(server.layout))
  /\ Goto("write")
  /\ UNCHANGED <<disk, inbox, reply, client>> /\ NoFault

\* umount fails, with sudo too: because the layer is not there or in use, or
\* for a reason of the host's own, which is a fault.
ReleaseFails ==
  /\ server.at \in {"layer1", "layer2"}
  /\ StepNumber <= Len(TeardownSteps(server.layout))
  /\ Answer(FALSE)
  /\ faults' = IF CanRelease(server.m, TeardownSteps(server.layout)[StepNumber])
               THEN faults \cup {"umount"} ELSE faults
  /\ torn' = IF At("layer2") THEN torn \cup {server.m} ELSE torn
  /\ UNCHANGED <<disk, inbox, client>>

\* Variant: only a client that says goodbye ends the server.
ExitsOnCloseOnly ==
  /\ At("idle") /\ inbox = << >>
  /\ client.at = "closed"
  /\ server' = Exited
  /\ UNCHANGED <<disk, inbox, reply, client>> /\ NoFault

Exits ==
  /\ At("idle") /\ inbox = << >>
  /\ client.at \in {"closed", "killed"}
  /\ server' = Exited
  /\ UNCHANGED <<disk, inbox, reply, client>> /\ NoFault

\* A teardown that is killed after it released a layer leaves it unrecorded.
Interrupted ==
  IF server.op = "unmount" /\ server.at \in {"layer2", "write", "truncated"}
  THEN torn \cup {server.m} ELSE torn

ServerDies ==
  /\ ~ At("exited")
  /\ server' = Exited
  /\ Fault("crash")
  /\ torn' = Interrupted
  /\ UNCHANGED <<disk, inbox, reply, client>>

ServerStep ==
  \/ ReadRequest
  \/ MountDirect \/ MountRaw \/ MountContainer \/ MountFails
  \/ MountVolume \/ SkipVolume \/ VolumeDirFails
  \/ ReadFails \/ Truncate \/ WriteDone \/ WriteFails
  \/ ExtractRefused \/ Extract \/ ExtractFails
  \/ UnmountRefused \/ UnmountBegins
  \/ ReleaseLayer \/ ReleaseEnds \/ ReleaseFails
  \/ Exits

(* The programs of the host (ewfmount, mount, mmls, fls, icat, umount) are   *)
(* waited for without a time limit, in these places.                       *)
AwaitsCommand ==
  \/ server.at \in {"mount", "container", "register"}
  \/ At("extract") /\ ledger = "parses" /\ rows[server.m].status = "mounted"
  \/ /\ server.at \in {"layer1", "layer2"}
     /\ StepNumber <= Len(TeardownSteps(server.layout))

-----------------------------------------------------------------------------
(* The client.  call_tool sends one request and waits for the answer with   *)
(* its id, up to a time limit; a late answer is dropped.                    *)

InFlight == client.calls
Answered == reply.id = InFlight

Calls(op, m) ==
  /\ ~ At("exited")
  /\ inbox' = Append(inbox, Request(op, m, client.calls + 1))
  /\ client' = [client EXCEPT !.at = op, !.calls = @ + 1,
                              !.mounts = IF op = "mount" THEN @ + 1 ELSE @]
  /\ UNCHANGED <<disk, server, reply>> /\ NoFault

\* What the client knows of the call it waits for: the answer, or a failure
\* because the time is up or the server is gone.
Succeeds == Answered /\ reply.ok
Refuses  == Answered /\ ~ reply.ok
GivesUp  == ~ Answered
Failure  == \/ Refuses /\ NoFault
            \/ GivesUp /\ At("exited") /\ NoFault
            \/ GivesUp /\ ~ At("exited") /\ Fault("timeout") /\ UNCHANGED torn

Learns(m, next) == client' = [client EXCEPT !.at = next, !.known = @ \cup {m}]
GoesTo(next)    == client' = [client EXCEPT !.at = next]
OnlyClient      == UNCHANGED <<disk, inbox, server, reply>>

Lane == client.kind = "lane"

(* investigate_disk: no mount, no session; after a mount the rest of the    *)
(* lane is in a try block whose finally unmounts, whatever was raised.      *)
LaneMounts ==
  /\ Lane /\ client.at = "start"
  /\ Calls("mount", NoMount)

LaneMounted ==
  /\ Lane /\ client.at = "mount" /\ Succeeds
  /\ Learns(reply.m, "mounted") /\ NoFault
  /\ OnlyClient

LaneMountFails ==
  /\ Lane
  /\ \/ client.at = "mount" /\ Failure
     \/ client.at = "start" /\ At("exited") /\ NoFault
  /\ GoesTo("finished")
  /\ OnlyClient

LaneExtracts ==
  /\ Lane /\ client.at = "mounted"
  /\ \E m \in client.known : Calls("extract", m)

\* Variant: a failed extraction returns before the try block.
LaneReadsExtractNoFinally ==
  /\ Lane /\ client.at = "extract"
  /\ \/ Succeeds /\ NoFault /\ GoesTo("parsed")
     \/ Failure /\ GoesTo("finished")
  /\ OnlyClient

LaneReadsExtract ==
  /\ Lane /\ client.at = "extract"
  /\ (Succeeds /\ NoFault) \/ Failure
  /\ GoesTo("parsed")
  /\ OnlyClient

\* Also when an exception leaves the try block before the extraction.
LaneUnmounts ==
  /\ Lane /\ client.at \in {"mounted", "parsed"} /\ ~ At("exited")
  /\ \E m \in client.known : Calls("unmount", m)

LaneEnds ==
  /\ Lane
  /\ \/ client.at = "unmount" /\ ((Succeeds /\ NoFault) \/ Failure)
     \/ client.at \in {"mounted", "parsed"} /\ At("exited") /\ NoFault
  /\ GoesTo("finished")
  /\ OnlyClient

(* An agent calls what it likes, with the mount ids it was told or others,  *)
(* and stops when it likes.  The list of tools it is offered leaves out     *)
(* disk_unmount; a call it makes all the same is passed on by its bridge.   *)
AgentCalls ==
  /\ ~ Lane /\ client.at = "start" /\ client.calls < MaxCalls
  /\ \/ client.mounts < Cardinality(Mounts) /\ Calls("mount", NoMount)
     \/ \E op \in {"extract", "unmount"}, m \in Mounts : Calls(op, m)

AgentReads ==
  /\ ~ Lane /\ client.at \in {"mount", "extract", "unmount"}
  /\ \/ Succeeds /\ NoFault /\ Learns(reply.m, "start")
     \/ Failure /\ GoesTo("start")
  /\ OnlyClient

AgentStops ==
  /\ ~ Lane /\ client.at = "start" /\ NoFault
  /\ GoesTo("finished")
  /\ OnlyClient

(* close(): end of the server's input, and a kill when it is not gone in    *)
(* time; the engine itself may be killed, which the server sees as the end  *)
(* of its input too.                                                        *)
Close ==
  /\ client.at = "finished"
  /\ GoesTo("closed") /\ NoFault
  /\ OnlyClient

KillsServer ==
  /\ client.at = "closed" /\ server.at \notin {"idle", "exited"}
  /\ server' = Exited
  /\ torn' = Interrupted
  /\ UNCHANGED <<disk, inbox, reply, client, faults>>

EngineDies ==
  /\ client.at \notin {"closed", "killed"}
  /\ GoesTo("killed") /\ Fault("killed")
  /\ OnlyClient /\ UNCHANGED torn

ClientStep ==
  \/ LaneMounts \/ LaneMounted \/ LaneMountFails
  \/ LaneExtracts \/ LaneReadsExtract \/ LaneUnmounts \/ LaneEnds
  \/ AgentCalls \/ AgentReads \/ AgentStops
  \/ Close

Over == At("exited") /\ client.at \in {"closed", "killed"}

Finished == Over /\ UNCHANGED vars

Next == ServerStep \/ ServerDies \/ KillsServer \/ ClientStep \/ EngineDies \/ Finished

(* The server is a loop that goes on by itself where it does not wait for a *)
(* program of the host, which may never end.  A client waits for an answer  *)
(* no longer than its time limit, and close() kills what is not gone after  *)
(* five seconds.                                                           *)
Spec ==
  /\ Init /\ [][Next]_vars
  /\ WF_vars(~ AwaitsCommand /\ ServerStep)
  /\ WF_vars(ClientStep) /\ WF_vars(KillsServer)

-----------------------------------------------------------------------------
(* Properties.                                                             *)

LayersOf(layout) ==
  CASE layout = "nested"    -> {"container", "volume"}
    [] layout = "container" -> {"container"}
    [] layout = "raw"       -> {"raw"}
    [] OTHER                -> {}

Faults == {"mkdir", "write", "umount", "crash", "timeout", "killed"}

(* The ledger tells the truth about the host.  A row that says unmounted is *)
(* of a mount that holds nothing any more: the teardown that disk_unmount   *)
(* plans from fs_root (disk.rs:950-983) releases every layer in an order in *)
(* which each can be released.  A row that says mounted describes what is   *)
(* on the host, layer by layer, unless a teardown of it released something  *)
(* and failed or was cut short.                                             *)
LedgerTellsTheTruth ==
  \A m \in Mounts :
    /\ rows[m].status = "unmounted" => host[m] = {}
    /\ rows[m].status = "mounted" /\ host[m] # LayersOf(rows[m].layout)
         => m \in torn \/ (server.op = "unmount" /\ server.m = m)

(* When the run is over and nothing went wrong, the disk lane has left no   *)
(* mount behind, however its extraction and parsing ended: "Release the     *)
(* mount (finally-block)", agent-config/PLAYBOOK.md:65.                     *)
NothingLeftMounted ==
  Over /\ Lane /\ faults = {} => \A m \in Mounts : host[m] = {}

(* A mount that no row of a readable ledger records, so that disk_unmount   *)
(* cannot find it, needs a fault: the ledger could not be written, the      *)
(* directory for the volume could not be made, or the server died, by       *)
(* itself or killed at the end of a run that had given up on a call.        *)
UnrecordedNeedsFault ==
  \A m \in Mounts :
    (host[m] # {} /\ rows[m] = NoRow /\ server.m # m)
      => faults \cap {"mkdir", "write", "crash", "timeout"} # {}

(* As long as no teardown of a mount failed half way, one more disk_unmount *)
(* can release it: its row names layers that are there.  After a failed     *)
(* second step the first can never succeed again (disk.rs:1000).            *)
TeardownCanBeRetried ==
  \A m \in Mounts :
    rows[m].status = "mounted" /\ host[m] # {} =>
      \/ LET steps == TeardownSteps(rows[m].layout) IN Len(steps) > 0 /\ CanRelease(m, steps[1])
      \/ m \in torn
      \/ server.op = "unmount" /\ server.m = m

(* Every run ends, with programs of the host that never do: the client      *)
(* gives up on a server that does not answer and kills it in the end.  Only *)
(* when the engine was killed can its server stay, inside such a program.   *)
RunEnds == <>Over \/ <>[](client.at = "killed" /\ AwaitsCommand)

=============================================================================
