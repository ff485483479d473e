------------------------- MODULE DiskSessionProofs -------------------------
(***************************************************************************)
(* Theorems about DiskSession, for every set of mount ids and any number of *)
(* calls of an agent.                                                      *)
(***************************************************************************)
EXTENDS DiskSession, SequenceTheorems, TLAPS

Waiting == {"mount", "extract", "unmount"}

Requests ==
  [op : {"mount"}, m : {NoMount}, id : Nat] \cup [op : {"extract", "unmount"}, m : Mounts, id : Nat]

Clients ==
  [kind : {"lane", "agent"},
   at : Waiting \cup {"start", "mounted", "parsed", "finished", "closed", "killed"},
   known : SUBSET Mounts, calls : Nat, mounts : Nat]

Servers ==
  [at : {"idle", "exited", "mount", "container", "register", "extract", "unmount",
         "layer1", "layer2", "write", "truncated"},
   op : {"none"} \cup Waiting, m : Mounts \cup {NoMount},
   layout : Layouts \cup {"none"}, id : Nat]

Rows == {NoRow} \cup [status : {"mounted", "unmounted"}, layout : Layouts]

Free == server.at \in {"idle", "exited"}

\* What a server is working on goes with where it is.
InHand ==
  /\ Free => server.m = NoMount /\ server.op = "none"
  /\ ~ Free => server.m \in Mounts
  /\ server.at \in {"mount", "container", "register"} => server.op = "mount"
  /\ server.at = "register" => server.layout \in Layouts
  /\ server.at = "truncated" => server.op \in Waiting /\ (server.op = "mount" => server.layout \in Layouts)
  /\ server.at = "extract" => server.op = "extract"
  /\ server.at \in {"unmount", "layer1", "layer2"} => server.op = "unmount"
  /\ server.at = "write" => server.op \in {"extract", "unmount"}
  /\ server.at \in {"layer1", "layer2"} => server.layout \in Layouts \cup {"none"}
  /\ (server.op = "extract" /\ ~ At("extract")) => rows[server.m] # NoRow
  /\ (server.op = "unmount" /\ ~ At("unmount")) => rows[server.m] # NoRow

TypeOK ==
  /\ host \in [Mounts -> SUBSET Layers]
  /\ ledger \in {"parses", "partial"}
  /\ rows \in [Mounts -> Rows]
  /\ extracts \subseteq Mounts
  /\ inbox \in Seq(Requests)
  /\ server \in Servers
  /\ reply \in [id : Nat, m : Mounts \cup {NoMount}, ok : BOOLEAN]
  /\ reply.ok => reply.m \in Mounts
  /\ client \in Clients
  /\ InHand

-----------------------------------------------------------------------------
(* What an answer and an end of the server leave in hand: nothing.          *)
LEMMA AnswerType ==
  ASSUME TypeOK, NEW ok \in BOOLEAN, ~ Free, Answer(ok)
  PROVE  /\ server' \in Servers /\ InHand'
         /\ reply' \in [id : Nat, m : Mounts \cup {NoMount}, ok : BOOLEAN]
         /\ reply'.ok => reply'.m \in Mounts
  <1>1. server.id \in Nat /\ server.m \in Mounts
    BY DEF TypeOK, Servers, InHand
  <1>2. reply' = [id |-> server.id, m |-> server.m, ok |-> ok]
    BY DEF Answer
  <1>3. server' \in {Idle, Exited}
    BY DEF Answer
  <1>4. server' \in Servers /\ InHand'
    BY <1>3 DEF Idle, Exited, Servers, InHand, Free, At
  <1> QED BY <1>1, <1>2, <1>4

\* The handlers of the disk tools keep the types.
LEMMA ServerType ==
  ASSUME TypeOK, ServerStep
  PROVE  TypeOK'
  <1>1. CASE ReadRequest
    <2>1. Head(inbox) \in Requests /\ Tail(inbox) \in Seq(Requests)
      BY <1>1 DEF TypeOK, ReadRequest
    <2>2. PICK m \in (IF Head(inbox).op = "mount" THEN Fresh ELSE {Head(inbox).m}) :
            server' = [at |-> Head(inbox).op, op |-> Head(inbox).op, m |-> m,
                       layout |-> "none", id |-> Head(inbox).id]
      BY <1>1 DEF ReadRequest
    <2>3. m \in Mounts /\ Head(inbox).op \in Waiting /\ Head(inbox).id \in Nat
      BY <2>1, <2>2 DEF Requests, Fresh, Waiting
    <2>4. server' \in Servers /\ InHand'
      BY <2>2, <2>3 DEF Servers, InHand, Free, At, Waiting
    <2> QED BY <1>1, <2>1, <2>4 DEF TypeOK, ReadRequest, disk
  <1>2. CASE MountDirect
    BY <1>2 DEF TypeOK, MountDirect, NoFault, disk, At, InHand, Free, Servers, Waiting, Layouts
  <1>3. CASE MountRaw
    BY <1>3 DEF TypeOK, MountRaw, NoFault, At, InHand, Free, Servers, Waiting, Layouts, Layers
  <1>4. CASE MountContainer
    BY <1>4 DEF TypeOK, MountContainer, NoFault, At, Goto, InHand, Free, Servers, Waiting, Layouts, Layers
  <1>5. CASE MountVolume
    BY <1>5 DEF TypeOK, MountVolume, NoFault, At, InHand, Free, Servers, Waiting, Layouts, Layers
  <1>6. CASE SkipVolume
    BY <1>6 DEF TypeOK, SkipVolume, NoFault, disk, At, InHand, Free, Servers, Waiting, Layouts, Layers
  <1>7. CASE MountFails \/ VolumeDirFails \/ ReadFails \/ WriteFails \/ ExtractRefused \/ ExtractFails
             \/ UnmountRefused \/ ReleaseFails
    <2>1. ~ Free /\ Answer(FALSE) /\ UNCHANGED <<disk, inbox, client>>
      BY <1>7 DEF MountFails, VolumeDirFails, ReadFails, WriteFails, ExtractRefused, ExtractFails,
                  UnmountRefused, ReleaseFails, Free, At
    <2>2. /\ server' \in Servers /\ InHand'
          /\ reply' \in [id : Nat, m : Mounts \cup {NoMount}, ok : BOOLEAN]
          /\ reply'.ok => reply'.m \in Mounts
      BY <2>1, AnswerType
    <2> QED BY <2>1, <2>2 DEF TypeOK, disk
  <1>8. CASE Truncate
    BY <1>8 DEF TypeOK, Truncate, NoFault, At, Goto, InHand, Free, Servers, Waiting
  <1>9. CASE WriteDone
    <2>1. ~ Free /\ Answer(TRUE) /\ server.op \in Waiting /\ server.m \in Mounts
      BY <1>9 DEF WriteDone, Free, At, TypeOK, InHand
    <2>2. /\ server' \in Servers
          /\ reply' \in [id : Nat, m : Mounts \cup {NoMount}, ok : BOOLEAN]
          /\ reply'.ok => reply'.m \in Mounts
      BY <2>1, AnswerType
    <2>3. rows' \in [Mounts -> Rows]
      <3>1. CASE server.op = "mount"
        <4>1. Row("mounted", server.layout) \in Rows
          BY <1>9, <3>1 DEF TypeOK, InHand, WriteDone, At, Rows, Row
        <4>2. rows' = [rows EXCEPT ![server.m] = Row("mounted", server.layout)]
          BY <1>9, <3>1 DEF WriteDone, NewRows
        <4> QED BY <2>1, <4>1, <4>2 DEF TypeOK
      <3>2. CASE server.op = "unmount"
        <4>1. rows[server.m] \in [status : {"mounted", "unmounted"}, layout : Layouts]
          BY <1>9, <2>1, <3>2 DEF TypeOK, InHand, Rows, WriteDone, At
        <4>2. rows' = [rows EXCEPT ![server.m] = [rows[server.m] EXCEPT !.status = "unmounted"]]
          BY <1>9, <2>1, <3>2 DEF WriteDone, NewRows, TypeOK
        <4>3. [rows[server.m] EXCEPT !.status = "unmounted"] \in Rows
          BY <4>1 DEF Rows
        <4> QED BY <2>1, <4>2, <4>3 DEF TypeOK
      <3>3. CASE server.op = "extract"
        BY <1>9, <3>3 DEF WriteDone, NewRows, TypeOK
      <3> QED BY <2>1, <3>1, <3>2, <3>3 DEF Waiting
    <2>4. InHand' /\ extracts' \subseteq Mounts
      BY <1>9, <2>1 DEF Answer, Idle, Exited, InHand, Free, At, WriteDone, NewExtracts, TypeOK
    <2> QED BY <1>9, <2>2, <2>3, <2>4 DEF WriteDone, TypeOK
  <1>10. CASE Extract
    BY <1>10 DEF TypeOK, Extract, NoFault, disk, At, Goto, InHand, Free, Servers, Waiting, NoRow
  <1>11. CASE UnmountBegins
    <2>1. rows[server.m].layout \in Layouts
      BY <1>11 DEF TypeOK, InHand, Rows, UnmountBegins, At, Free
    <2> QED BY <1>11, <2>1 DEF TypeOK, UnmountBegins, NoFault, disk, At, InHand, Free, Servers, Waiting
  <1>12. CASE ReleaseLayer
    <2>1. server.m \in Mounts /\ host' \in [Mounts -> SUBSET Layers]
      BY <1>12 DEF TypeOK, ReleaseLayer, InHand, Free
    <2>2. server' \in Servers /\ InHand'
      BY <1>12 DEF TypeOK, ReleaseLayer, At, Goto, NextStep, InHand, Free, Servers, Waiting
    <2> QED BY <1>12, <2>1, <2>2 DEF TypeOK, ReleaseLayer
  <1>13. CASE ReleaseEnds
    BY <1>13 DEF TypeOK, ReleaseEnds, NoFault, disk, At, Goto, InHand, Free, Servers, Waiting
  <1>14. CASE Exits
    BY <1>14 DEF TypeOK, Exits, NoFault, disk, At, Exited, Idle, InHand, Free, Servers, Waiting
  <1> QED BY <1>1, <1>2, <1>3, <1>4, <1>5, <1>6, <1>7, <1>8, <1>9, <1>10, <1>11, <1>12, <1>13, <1>14
          DEF ServerStep

\* A request sent by the lane is well formed.
LEMMA CallsType ==
  ASSUME TypeOK, NEW op \in Waiting, NEW m, Request(op, m, client.calls + 1) \in Requests, Calls(op, m)
  PROVE  TypeOK'
  <1>1. inbox' \in Seq(Requests)
    BY DEF TypeOK, Calls
  <1>2. client' \in Clients
    <2>1. /\ client \in Clients
          /\ client' = [client EXCEPT !.at = op, !.calls = @ + 1,
                                      !.mounts = IF op = "mount" THEN @ + 1 ELSE @]
      BY DEF TypeOK, Calls
    <2>2. client.calls + 1 \in Nat /\ (IF op = "mount" THEN client.mounts + 1 ELSE client.mounts) \in Nat
      BY <2>1 DEF Clients
    <2> QED BY <2>1, <2>2 DEF Clients
  <1> QED BY <1>1, <1>2 DEF TypeOK, Calls, disk, InHand, Free, At

\* A step in which only the lane's own state changes.
LEMMA OnlyClientType ==
  ASSUME TypeOK, OnlyClient, client' \in Clients
  PROVE  TypeOK'
  BY DEF TypeOK, OnlyClient, disk, InHand, Free, At

\* The steps of the lane and of the call it waits in keep the types.
LEMMA ClientType ==
  ASSUME TypeOK, ClientStep
  PROVE  TypeOK'
  <1>0. client \in Clients /\ client.calls + 1 \in Nat
    BY DEF TypeOK, Clients
  <1>1. CASE LaneMounts
    BY <1>0, <1>1, CallsType DEF LaneMounts, Request, Requests, Waiting
  <1>2. CASE LaneExtracts
    BY <1>0, <1>2, CallsType DEF LaneExtracts, Request, Requests, Waiting, Clients
  <1>3. CASE LaneUnmounts
    BY <1>0, <1>3, CallsType DEF LaneUnmounts, Request, Requests, Waiting, Clients
  <1>4. CASE AgentCalls
    BY <1>0, <1>4, CallsType DEF AgentCalls, Request, Requests, Waiting
  <1>5. CASE LaneMounted
    <2>1. reply.m \in Mounts
      BY <1>5 DEF LaneMounted, Succeeds, TypeOK
    <2>2. client' \in Clients
      BY <1>0, <1>5, <2>1 DEF LaneMounted, Learns, Clients
    <2> QED BY <1>5, <2>2, OnlyClientType DEF LaneMounted
  <1>6. CASE AgentReads
    <2>1. Succeeds => reply.m \in Mounts
      BY DEF Succeeds, TypeOK
    <2>2. client' \in Clients
      <3>1. CASE Succeeds /\ Learns(reply.m, "start")
        BY <1>0, <2>1, <3>1 DEF Learns, Clients
      <3>2. CASE GoesTo("start")
        BY <1>0, <3>2 DEF GoesTo, Clients
      <3> QED BY <1>6, <3>1, <3>2 DEF AgentReads
    <2> QED BY <1>6, <2>2, OnlyClientType DEF AgentReads
  <1>7. CASE LaneMountFails \/ LaneReadsExtract \/ LaneEnds \/ AgentStops \/ Close
    <2>1. client' \in Clients /\ OnlyClient
      BY <1>0, <1>7 DEF LaneMountFails, LaneReadsExtract, LaneEnds, AgentStops, Close, GoesTo, Clients
    <2> QED BY <2>1, OnlyClientType
  <1> QED BY <1>1, <1>2, <1>3, <1>4, <1>5, <1>6, <1>7 DEF ClientStep

\* Every step keeps the types.
LEMMA TypeStep ==
  ASSUME TypeOK, [Next]_vars
  PROVE  TypeOK'
  <1>1. CASE ServerDies \/ KillsServer
    BY <1>1 DEF TypeOK, ServerDies, KillsServer, disk, At, Exited, Idle, InHand, Free, Servers, Waiting
  <1>2. CASE EngineDies
    <2>1. client' \in Clients /\ OnlyClient
      BY <1>2 DEF TypeOK, EngineDies, GoesTo, Clients
    <2> QED BY <2>1, OnlyClientType
  <1>3. CASE UNCHANGED vars
    BY <1>3 DEF TypeOK, vars, InHand, Free, At
  <1> QED BY <1>1, <1>2, <1>3, ServerType, ClientType DEF Next, Finished

(* Every state of every behaviour has the types TypeOK gives, and what the  *)
(* server has in hand goes with where it is in its handler.                 *)
THEOREM TypeCorrect == Spec => []TypeOK
  <1>1. Init => TypeOK
    BY DEF Init, TypeOK, Rows, Servers, Idle, NoReply, Clients, Waiting, InHand, Free, At, Requests
  <1>2. TypeOK /\ [Next]_vars => TypeOK'
    BY TypeStep
  <1> QED BY <1>1, <1>2, PTL DEF Spec

-----------------------------------------------------------------------------
(* The ledger and the host.                                                 *)

\* The layers of the mount in hand, while disk_mount works on it.
Mounting ==
  server.op = "mount" =>
    /\ rows[server.m] = NoRow
    /\ At("mount") => host[server.m] = {}
    /\ At("container") => host[server.m] = {"container"}
    /\ server.at \in {"register", "truncated"} => host[server.m] = LayersOf(server.layout)

\* What is left of a mount after the first step of its teardown.
AfterFirst(layout) == IF layout = "nested" THEN {"container"} ELSE {}

Begun(m) ==
  server.op = "unmount" /\ server.m = m /\ server.at \in {"layer2", "write", "truncated"}

\* The layers of the mount in hand, while disk_unmount works on it.
Releasing ==
  /\ server.at \in {"layer1", "layer2"} => server.layout = rows[server.m].layout
  /\ At("layer2") =>
       /\ server.layout # "direct"
       /\ host[server.m] \subseteq AfterFirst(server.layout)
       /\ server.m \notin torn => host[server.m] = AfterFirst(server.layout)
  /\ server.op = "unmount" /\ server.at \in {"write", "truncated"} => host[server.m] = {}

\* A row never claims less than the host holds, and no more either unless a
\* teardown of the mount has begun and was not recorded.
RowOf(m) ==
  /\ rows[m] # NoRow => host[m] \subseteq LayersOf(rows[m].layout)
  /\ rows[m].status = "unmounted" => host[m] = {}
  /\ rows[m].status = "mounted" /\ m \notin torn /\ ~ Begun(m) => host[m] = LayersOf(rows[m].layout)

LedgerInv == Mounting /\ Releasing /\ \A m \in Mounts : RowOf(m)

(* A step that leaves the server with nothing in hand keeps the invariant   *)
(* when a teardown it cuts short is told to torn.                           *)
LEMMA LedgerLetGo ==
  ASSUME TypeOK, LedgerInv, UNCHANGED <<host, rows>>, server' \in {Idle, Exited},
         torn \subseteq torn',
         \A m \in Mounts : Begun(m) => m \in torn'
  PROVE  LedgerInv'
  <1>1. server'.at \in {"idle", "exited"} /\ server'.op = "none"
    BY DEF Idle, Exited
  <1>2. Mounting' /\ Releasing'
    BY <1>1 DEF Mounting, Releasing, At
  <1>3. ASSUME NEW m \in Mounts PROVE RowOf(m)'
    BY <1>1 DEF LedgerInv, RowOf, Begun
  <1> QED BY <1>2, <1>3 DEF LedgerInv

(* Mounting a layer of the mount in hand touches no row.                    *)
LEMMA LedgerWhileMounting ==
  ASSUME TypeOK, LedgerInv, server.op = "mount", server.m \in Mounts,
         UNCHANGED <<rows, torn>>, NEW layers, host' = [host EXCEPT ![server.m] = layers],
         server'.op = "mount", server'.m = server.m, server'.at \in {"container", "register"},
         server'.at = "container" => layers = {"container"},
         server'.at = "register" => layers = LayersOf(server'.layout)
  PROVE  LedgerInv'
  <1>1. host'[server.m] = layers /\ rows[server.m] = NoRow
    BY DEF TypeOK, LedgerInv, Mounting
  <1>2. Mounting' /\ Releasing'
    BY <1>1 DEF Mounting, Releasing, At
  <1>3. ASSUME NEW m \in Mounts PROVE RowOf(m)'
    <2>1. CASE m = server.m
      BY <1>1, <2>1 DEF RowOf, NoRow
    <2>2. CASE m # server.m
      <3>1. host'[m] = host[m]
        BY <2>2 DEF TypeOK
      <3> QED BY <3>1 DEF LedgerInv, RowOf, Begun
    <2> QED BY <2>1, <2>2
  <1> QED BY <1>2, <1>3 DEF LedgerInv

\* Every step keeps the ledger in step with the operation in hand.
LEMMA LedgerStep ==
  ASSUME TypeOK, LedgerInv, [Next]_vars
  PROVE  LedgerInv'
  <1>1. CASE ReadRequest
    <2>1. server'.at = server'.op /\ Free /\ torn' = torn /\ host' = host /\ rows' = rows
      BY <1>1 DEF ReadRequest, NoFault, disk, Free, At
    <2>2. Head(inbox) \in Requests
      BY <1>1 DEF TypeOK, ReadRequest
    <2>3. server'.op \in Waiting /\ (server'.op = "mount" => server'.m \in Fresh)
      BY <1>1, <2>2 DEF ReadRequest, Requests, Waiting
    <2>4. Mounting' /\ Releasing'
      BY <2>1, <2>3 DEF Mounting, Releasing, At, Fresh, Waiting
    <2>5. ASSUME NEW m \in Mounts PROVE RowOf(m)'
      BY <2>1 DEF LedgerInv, RowOf, Begun, Free
    <2> QED BY <2>4, <2>5 DEF LedgerInv
  <1>2. CASE MountDirect
    BY <1>2 DEF TypeOK, InHand, Free, MountDirect, NoFault, disk, At, LedgerInv, Mounting, Releasing, RowOf, Begun, LayersOf, Servers
  <1>3. CASE MountRaw
    <2>1. server.op = "mount" /\ server.m \in Mounts /\ server \in Servers
      BY <1>3 DEF MountRaw, At, TypeOK, InHand, Free
    <2>2. server' = [server EXCEPT !.at = "register", !.layout = "raw"]
      BY <1>3 DEF MountRaw
    <2> QED BY <1>3, <2>1, <2>2, LedgerWhileMounting DEF MountRaw, NoFault, Servers, LayersOf
  <1>4. CASE MountContainer
    <2>1. server.op = "mount" /\ server.m \in Mounts /\ server \in Servers
      BY <1>4 DEF MountContainer, At, TypeOK, InHand, Free
    <2>2. server' = [server EXCEPT !.at = "container"]
      BY <1>4 DEF MountContainer, Goto
    <2> QED BY <1>4, <2>1, <2>2, LedgerWhileMounting DEF MountContainer, NoFault, Servers
  <1>5. CASE MountVolume
    <2>1. server.op = "mount" /\ server.m \in Mounts /\ server \in Servers
      BY <1>5 DEF MountVolume, At, TypeOK, InHand, Free
    <2>2. server' = [server EXCEPT !.at = "register", !.layout = "nested"]
      BY <1>5 DEF MountVolume
    <2>3. host[server.m] = {"container"}
      BY <1>5, <2>1 DEF LedgerInv, Mounting, MountVolume
    <2>4. host' = [host EXCEPT ![server.m] = {"container", "volume"}]
      BY <1>5, <2>3 DEF MountVolume, TypeOK
    <2> QED BY <1>5, <2>1, <2>2, <2>4, LedgerWhileMounting DEF MountVolume, NoFault, Servers, LayersOf
  <1>6. CASE SkipVolume
    BY <1>6 DEF TypeOK, InHand, Free, SkipVolume, NoFault, disk, At, LedgerInv, Mounting, Releasing, RowOf, Begun, LayersOf, Servers
  <1>7. CASE MountFails \/ VolumeDirFails \/ ReadFails \/ ExtractRefused \/ ExtractFails \/ UnmountRefused
    <2>1. /\ Answer(FALSE) /\ torn' = torn /\ host' = host /\ rows' = rows
          /\ server.at \in {"mount", "container", "register", "extract", "unmount"}
      BY <1>7 DEF MountFails, VolumeDirFails, ReadFails, ExtractRefused, ExtractFails, UnmountRefused,
                  At, NoFault, disk
    <2> QED BY <2>1, LedgerLetGo DEF Answer, Begun
  <1>8. CASE WriteFails
    <2>1. Answer(FALSE) /\ host' = host /\ rows' = rows
      BY <1>8 DEF WriteFails, disk
    <2>2. torn \subseteq torn' /\ \A m \in Mounts : Begun(m) => m \in torn'
      BY <1>8 DEF WriteFails, Begun
    <2> QED BY <2>1, <2>2, LedgerLetGo DEF Answer
  <1>9. CASE ReleaseFails
    <2>1. Answer(FALSE) /\ host' = host /\ rows' = rows
      BY <1>9 DEF ReleaseFails, disk
    <2>2. torn \subseteq torn' /\ \A m \in Mounts : Begun(m) => m \in torn'
      BY <1>9 DEF ReleaseFails, Begun, At
    <2> QED BY <2>1, <2>2, LedgerLetGo DEF Answer
  <1>10. CASE ServerDies \/ KillsServer
    <2>1. server' = Exited /\ host' = host /\ rows' = rows
      BY <1>10 DEF ServerDies, KillsServer, disk
    <2>2. torn \subseteq torn' /\ \A m \in Mounts : Begun(m) => m \in torn'
      BY <1>10 DEF ServerDies, KillsServer, Interrupted, Begun
    <2> QED BY <2>1, <2>2, LedgerLetGo
  <1>11. CASE Exits
    <2>1. server' = Exited /\ host' = host /\ rows' = rows /\ torn' = torn /\ \A m \in Mounts : ~ Begun(m)
      BY <1>11 DEF Exits, disk, NoFault, Begun, At
    <2> QED BY <2>1, LedgerLetGo
  <1>12. CASE Truncate
    BY <1>12 DEF TypeOK, InHand, Truncate, NoFault, At, Goto, LedgerInv, Mounting, Releasing, RowOf, Begun, Servers
  <1>13. CASE WriteDone
    <2>1. server' \in {Idle, Exited} /\ host' = host /\ torn' = torn /\ rows' = NewRows
      BY <1>13 DEF WriteDone, Answer, NoFault
    <2>2. server.m \in Mounts /\ server.op \in Waiting
      BY <1>13 DEF WriteDone, At, TypeOK, InHand, Free
    <2>3. server'.at \in {"idle", "exited"} /\ server'.op = "none"
      BY <2>1 DEF Idle, Exited
    <2>4. Mounting' /\ Releasing'
      BY <2>3 DEF Mounting, Releasing, At
    <2>5. ASSUME NEW m \in Mounts PROVE RowOf(m)'
      <3>1. CASE m # server.m \/ server.op = "extract"
        <4>1. rows'[m] = rows[m] /\ ~ Begun(m)
          BY <2>1, <2>2, <3>1 DEF NewRows, TypeOK, Begun
        <4> QED BY <2>1, <4>1 DEF LedgerInv, RowOf
      <3>2. CASE m = server.m /\ server.op = "mount"
        <4>1. rows'[m] = Row("mounted", server.layout)
          BY <2>1, <2>2, <3>2 DEF NewRows, TypeOK
        <4>2. host[m] = LayersOf(server.layout)
          BY <1>13, <3>2 DEF LedgerInv, Mounting, WriteDone, At
        <4> QED BY <2>1, <4>1, <4>2 DEF RowOf, Row
      <3>3. CASE m = server.m /\ server.op = "unmount"
        <4>1. host[m] = {}
          BY <1>13, <3>3 DEF LedgerInv, Releasing, WriteDone, At
        <4>2. rows[m] \in [status : {"mounted", "unmounted"}, layout : Layouts]
          BY <1>13, <3>3 DEF TypeOK, InHand, Rows, WriteDone, At
        <4>3. rows'[m] = [rows[m] EXCEPT !.status = "unmounted"]
          BY <2>1, <2>2, <3>3 DEF NewRows, TypeOK
        <4> QED BY <2>1, <4>1, <4>2, <4>3 DEF RowOf
      <3> QED BY <2>2, <3>1, <3>2, <3>3 DEF Waiting
    <2> QED BY <2>4, <2>5 DEF LedgerInv
  <1>14. CASE Extract
    BY <1>14 DEF TypeOK, InHand, Extract, NoFault, disk, At, Goto, LedgerInv, Mounting, Releasing, RowOf, Begun, Servers
  <1>15. CASE UnmountBegins
    BY <1>15 DEF TypeOK, InHand, UnmountBegins, NoFault, disk, At, LedgerInv, Mounting, Releasing, RowOf, Begun, Servers
  <1>16. CASE ReleaseLayer
    <2> DEFINE layer == TeardownSteps(server.layout)[StepNumber]
    <2>1. /\ server.m \in Mounts /\ rows[server.m] # NoRow /\ server.op = "unmount"
          /\ rows[server.m].layout \in Layouts
      BY <1>16 DEF TypeOK, InHand, Free, ReleaseLayer, At, Rows
    <2>2. /\ host' = [host EXCEPT ![server.m] = @ \ {layer}]
          /\ rows' = rows /\ torn' = torn /\ server' = [server EXCEPT !.at = NextStep]
      BY <1>16 DEF ReleaseLayer, NoFault, Goto
    <2>3. server.layout = rows[server.m].layout /\ host[server.m] \subseteq LayersOf(server.layout)
      BY <1>16, <2>1 DEF LedgerInv, Releasing, RowOf, ReleaseLayer
    <2>4. CASE At("layer1")
      <3>1. StepNumber = 1 /\ NextStep = "layer2"
        BY <2>4 DEF StepNumber, NextStep
      <3>2. server.layout # "direct" /\ LayersOf(server.layout) \ {layer} = AfterFirst(server.layout)
        BY <1>16, <2>1, <2>3, <3>1 DEF ReleaseLayer, TeardownSteps, LayersOf, AfterFirst, Layouts
      <3>3. server.m \notin torn => host'[server.m] = AfterFirst(server.layout)
        <4> SUFFICES ASSUME server.m \notin torn PROVE host'[server.m] = AfterFirst(server.layout)
          OBVIOUS
        <4>1. rows[server.m].status = "mounted"
          <5>1. host[server.m] # {}
            BY <1>16 DEF ReleaseLayer, CanRelease
          <5>2. rows[server.m].status \in {"mounted", "unmounted"}
            BY <2>1 DEF TypeOK, Rows
          <5> QED BY <2>1, <5>1, <5>2 DEF LedgerInv, RowOf
        <4>2. host[server.m] = LayersOf(server.layout)
          BY <2>1, <2>3, <2>4, <4>1 DEF LedgerInv, RowOf, Begun, At
        <4> QED BY <2>1, <2>2, <3>2, <4>2 DEF TypeOK
      <3>4. host'[server.m] \subseteq AfterFirst(server.layout)
        BY <2>1, <2>2, <2>3, <3>2 DEF TypeOK
      <3>5. Mounting' /\ Releasing'
        BY <2>1, <2>2, <2>3, <3>1, <3>2, <3>3, <3>4 DEF Mounting, Releasing, At, TypeOK, Servers
      <3>6. ASSUME NEW m \in Mounts PROVE RowOf(m)'
        <4>1. CASE m = server.m
          <5>1. Begun(m)' /\ host'[m] \subseteq host[m]
            BY <2>1, <2>2, <3>1, <4>1 DEF Begun, TypeOK, Servers
          <5> QED BY <2>2, <5>1 DEF LedgerInv, RowOf
        <4>2. CASE m # server.m
          <5>1. host'[m] = host[m] /\ ~ Begun(m)
            BY <2>1, <2>2, <4>2 DEF TypeOK, Begun
          <5> QED BY <2>2, <5>1 DEF LedgerInv, RowOf
        <4> QED BY <4>1, <4>2
      <3> QED BY <3>5, <3>6 DEF LedgerInv
    <2>5. CASE ~ At("layer1")
      <3>1. StepNumber = 2 /\ NextStep = "write" /\ At("layer2")
        BY <1>16, <2>5 DEF StepNumber, NextStep, ReleaseLayer, At
      <3>2. server.layout = "nested" /\ layer = "container"
        BY <1>16, <2>1, <2>3, <3>1 DEF ReleaseLayer, TeardownSteps, Layouts
      <3>3. host'[server.m] = {}
        BY <2>1, <2>2, <3>1, <3>2 DEF LedgerInv, Releasing, AfterFirst, TypeOK
      <3>4. Mounting' /\ Releasing'
        BY <2>1, <2>2, <3>1, <3>3 DEF Mounting, Releasing, At, TypeOK, Servers
      <3>5. ASSUME NEW m \in Mounts PROVE RowOf(m)'
        <4>1. CASE m = server.m
          <5>1. Begun(m)'
            BY <2>1, <2>2, <3>1, <4>1 DEF Begun, TypeOK, Servers
          <5> QED BY <3>3, <4>1, <5>1 DEF RowOf
        <4>2. CASE m # server.m
          <5>1. host'[m] = host[m] /\ ~ Begun(m)
            BY <2>1, <2>2, <4>2 DEF TypeOK, Begun
          <5> QED BY <2>2, <5>1 DEF LedgerInv, RowOf
        <4> QED BY <4>1, <4>2
      <3> QED BY <3>4, <3>5 DEF LedgerInv
    <2> QED BY <2>4, <2>5
  <1>17. CASE ReleaseEnds
    <2>1. /\ server.m \in Mounts /\ rows[server.m] # NoRow /\ server.op = "unmount"
          /\ rows[server.m].layout \in Layouts
      BY <1>17 DEF TypeOK, InHand, Free, ReleaseEnds, At, Rows
    <2>2. /\ host' = host /\ rows' = rows /\ torn' = torn /\ server' = [server EXCEPT !.at = "write"]
      BY <1>17 DEF ReleaseEnds, NoFault, disk, Goto
    <2>3. server.layout = rows[server.m].layout /\ host[server.m] \subseteq LayersOf(server.layout)
      BY <1>17, <2>1 DEF LedgerInv, Releasing, RowOf, ReleaseEnds
    <2>4. host[server.m] = {}
      <3>1. CASE At("layer1")
        BY <1>17, <2>1, <2>3, <3>1 DEF ReleaseEnds, StepNumber, TeardownSteps, LayersOf, Layouts
      <3>2. CASE At("layer2")
        BY <1>17, <2>1, <2>3, <3>2 DEF ReleaseEnds, StepNumber, TeardownSteps, AfterFirst, Layouts,
                                       LedgerInv, Releasing, At
      <3> QED BY <1>17, <3>1, <3>2 DEF ReleaseEnds, At
    <2>5. Mounting' /\ Releasing'
      BY <2>1, <2>2, <2>4 DEF Mounting, Releasing, At, TypeOK, Servers
    <2>6. ASSUME NEW m \in Mounts PROVE RowOf(m)'
      BY <2>1, <2>2, <2>4 DEF LedgerInv, RowOf, Begun, TypeOK, Servers
    <2> QED BY <2>5, <2>6 DEF LedgerInv
  <1>18. CASE ClientStep \/ EngineDies
    <2>1. UNCHANGED <<host, rows, server, torn>>
      BY <1>18 DEF ClientStep, LaneMounts, LaneMounted, LaneMountFails, LaneExtracts, LaneReadsExtract,
                   LaneUnmounts, LaneEnds, AgentCalls, AgentReads, AgentStops, Close, EngineDies,
                   Calls, OnlyClient, disk, NoFault, Failure
    <2> QED BY <2>1 DEF LedgerInv, Mounting, Releasing, RowOf, Begun, At
  <1>19. CASE UNCHANGED vars
    BY <1>19 DEF vars, LedgerInv, Mounting, Releasing, RowOf, Begun, At
  <1> QED BY <1>1, <1>2, <1>3, <1>4, <1>5, <1>6, <1>7, <1>8, <1>9, <1>10, <1>11, <1>12, <1>13, <1>14,
             <1>15, <1>16, <1>17, <1>18, <1>19 DEF Next, ServerStep, Finished

(* In every run: the types, and a ledger that tells of each mount what the  *)
(* operation in hand has left to do with it (disk.rs: the row is written    *)
(* between the work on the host and the answer).                            *)
THEOREM LedgerInvariant == Spec => []LedgerInv
  <1>1. Init => LedgerInv
    BY DEF Init, LedgerInv, Mounting, Releasing, RowOf, Begun, Idle, NoRow, At
  <1>2. TypeOK /\ LedgerInv /\ [Next]_vars => LedgerInv'
    BY LedgerStep
  <1> QED BY <1>1, <1>2, TypeCorrect, PTL DEF Spec

(* A row that says unmounted is of a mount that holds nothing, and a row    *)
(* that says mounted names what the host holds, unless a teardown of it     *)
(* released something and was not recorded.                                 *)
THEOREM TheLedgerIsTrue == Spec => []LedgerTellsTheTruth
  <1>1. LedgerInv => LedgerTellsTheTruth
    BY DEF LedgerInv, RowOf, Begun, LedgerTellsTheTruth
  <1> QED BY <1>1, LedgerInvariant, PTL

(* A mount whose teardown never failed half way can be released by one more *)
(* disk_unmount: the first layer its row names is there and not in use.     *)
THEOREM AnyTeardownCanBeRetried == Spec => []TeardownCanBeRetried
  <1>1. TypeOK /\ LedgerInv => TeardownCanBeRetried
    <2> SUFFICES ASSUME TypeOK, LedgerInv, NEW m \in Mounts,
                        rows[m].status = "mounted", host[m] # {}, m \notin torn,
                        ~ (server.op = "unmount" /\ server.m = m)
                 PROVE  LET steps == TeardownSteps(rows[m].layout)
                        IN  Len(steps) > 0 /\ CanRelease(m, steps[1])
      BY DEF TeardownCanBeRetried
    <2>1. host[m] = LayersOf(rows[m].layout)
      BY DEF LedgerInv, RowOf, Begun
    <2>2. rows[m].layout \in Layouts
      BY DEF TypeOK, Rows, NoRow
    <2> QED BY <2>1, <2>2 DEF Layouts, LayersOf, TeardownSteps, CanRelease
  <1> QED BY <1>1, TypeCorrect, LedgerInvariant, PTL

-----------------------------------------------------------------------------
(* The turns of client and server.                                          *)

Patient == "timeout" \notin faults

\* A request of the call the client waits for, or waited for when it was killed.
Due(op, id) ==
  id = client.calls /\ client.at \in {op, "killed"} /\ reply.id # client.calls

\* As long as the client never gave up on a live server, at most one request is
\* on its way or in hand, and it is that of the call the client waits for.
TurnsInv ==
  /\ reply.id <= client.calls
  /\ \A i \in 1..Len(inbox) : inbox[i].id <= client.calls
  /\ ~ Free => server.id <= client.calls
  /\ Patient /\ ~ At("exited") =>
       /\ inbox # << >> => Len(inbox) = 1 /\ Free /\ Due(inbox[1].op, inbox[1].id)
       /\ ~ Free => Due(server.op, server.id)

\* What changes nothing for the turns: a handler goes on.
LEMMA TurnsWhileWorking ==
  ASSUME TypeOK, TurnsInv, ~ Free, ~ Free', server'.id = server.id, server'.op = server.op,
         UNCHANGED <<inbox, client, reply>>, faults \subseteq faults'
  PROVE  TurnsInv'
  BY DEF TurnsInv, Due, Patient, Free, At

\* An answer to the only request there is leaves nothing on its way.
LEMMA TurnsAnswer ==
  ASSUME TypeOK, TurnsInv, ~ Free, NEW ok, Answer(ok), UNCHANGED <<inbox, client>>, faults \subseteq faults'
  PROVE  TurnsInv'
  <1>1. Free' /\ reply'.id = server.id
    BY DEF Answer, Idle, Exited, Free
  <1>2. Patient /\ ~ At("exited") => inbox = << >>
    BY DEF TurnsInv
  <1>3. Patient' => Patient
    BY DEF Patient
  <1>4. ~ At("exited")
    BY DEF Free, At
  <1> QED BY <1>1, <1>2, <1>3, <1>4 DEF TurnsInv

\* The server exits: the turns of lane and server are kept.
LEMMA TurnsExit ==
  ASSUME TypeOK, TurnsInv, server' = Exited, UNCHANGED <<inbox, client, reply>>
  PROVE  TurnsInv'
  BY DEF TurnsInv, Exited, Idle, Free, At

\* The lane calls only when nothing it asked for is in flight.
LEMMA TurnsCall ==
  ASSUME TypeOK, TurnsInv, NEW op \in Waiting, NEW m, Request(op, m, client.calls + 1) \in Requests,
         Calls(op, m), client.at \notin Waiting \cup {"killed"}
  PROVE  TurnsInv'
  <1> DEFINE r == Request(op, m, client.calls + 1)
  <1>1. /\ inbox \in Seq(Requests) /\ inbox' = Append(inbox, r) /\ ~ At("exited")
        /\ server' = server /\ reply' = reply /\ faults' = faults
        /\ client.calls \in Nat /\ client'.calls = client.calls + 1 /\ client'.at = op
        /\ r.op = op /\ r.id = client.calls + 1
        /\ reply.id \in Nat
    BY DEF TypeOK, Calls, NoFault, Clients, Request
  <1>2. ~ Free => server.op \in Waiting /\ server.id \in Nat
    BY DEF TypeOK, InHand, Free, Servers
  <1>3. inbox # << >> => inbox[1] \in Requests
    BY <1>1
  <1>4. Patient => inbox = << >> /\ Free
    BY <1>1, <1>2, <1>3 DEF TurnsInv, Due, Requests, Waiting
  <1>5. \A i \in 1..Len(inbox) : inbox[i].id \in Nat
    BY <1>1 DEF Requests
  <1> HIDE DEF r
  <1>6. \A i \in 1..Len(inbox') : inbox'[i].id <= client'.calls
    <2>1. Len(inbox') = Len(inbox) + 1 /\ inbox'[Len(inbox) + 1] = r
          /\ \A i \in 1..Len(inbox) : inbox'[i] = inbox[i]
      BY <1>1
    <2> QED BY <1>1, <1>5, <2>1 DEF TurnsInv
  <1>7. Patient' => Len(inbox') = 1 /\ inbox'[1] = r /\ Free'
    BY <1>1, <1>4 DEF Patient, Free
  <1> QED BY <1>1, <1>2, <1>6, <1>7 DEF TurnsInv, Due, Free, At, Patient

\* The client stops waiting when it was answered, or for good when the server is gone.
LEMMA TurnsClientAlone ==
  ASSUME TypeOK, TurnsInv, OnlyClient, client'.calls = client.calls, faults \subseteq faults',
         \/ Answered \/ At("exited") \/ ~ Patient'
         \/ client.at \notin Waiting \cup {"killed"}
         \/ client'.at = "killed"
  PROVE  TurnsInv'
  <1>1. UNCHANGED <<inbox, server, reply>>
    BY DEF OnlyClient
  <1>2. ~ Free => server.op \in Waiting
    BY DEF TypeOK, InHand, Free, Servers, Waiting
  <1>3. inbox # << >> => inbox[1].op \in Waiting
    <2>1. inbox # << >> => inbox[1] \in Requests
      BY DEF TypeOK
    <2> QED BY <2>1 DEF Requests, Waiting
  <1>4. Patient' => Patient
    BY DEF Patient
  <1> QED BY <1>1, <1>2, <1>3, <1>4 DEF TurnsInv, Due, Free, At, Answered, InFlight

(* Every step keeps one request in flight at most, from the lane to the     *)
(* server and back.                                                         *)
LEMMA TurnsStep ==
  ASSUME TypeOK, TurnsInv, [Next]_vars
  PROVE  TurnsInv'
  <1>0. client.calls + 1 \in Nat
    BY DEF TypeOK, Clients
  <1>1. CASE ReadRequest
    <2>1. /\ inbox \in Seq(Requests) /\ inbox # << >> /\ inbox' = Tail(inbox) /\ At("idle")
          /\ server'.op = inbox[1].op /\ server'.id = inbox[1].id /\ server'.at = inbox[1].op
          /\ UNCHANGED <<client, reply, faults>>
      BY <1>1 DEF ReadRequest, TypeOK, NoFault
    <2>2. Len(inbox') = Len(inbox) - 1 /\ \A i \in 1..Len(inbox') : inbox'[i] = inbox[i + 1]
      BY <2>1
    <2>3. inbox[1] \in Requests /\ Len(inbox) \in Nat /\ Len(inbox) > 0
      BY <2>1
    <2>4. \A i \in 1..Len(inbox') : inbox'[i].id <= client'.calls
      BY <2>1, <2>2, <2>3 DEF TurnsInv
    <2>5. Patient => Len(inbox) = 1 /\ Due(inbox[1].op, inbox[1].id)
      BY <2>1 DEF TurnsInv, At, Free
    <2>6. Len(inbox) = 1 => inbox' = << >>
      BY <2>1
    <2>7. server'.id <= client'.calls
      BY <2>1, <2>3 DEF TurnsInv
    <2> QED BY <2>1, <2>4, <2>5, <2>6, <2>7 DEF TurnsInv, Due, Patient
  <1>2. CASE MountDirect \/ MountRaw \/ MountContainer \/ MountVolume \/ SkipVolume \/ Truncate \/ Extract
             \/ UnmountBegins \/ ReleaseLayer \/ ReleaseEnds
    <2>1. ~ Free /\ UNCHANGED <<inbox, client, reply, faults>>
      BY <1>2 DEF MountDirect, MountRaw, MountContainer, MountVolume, SkipVolume, Truncate, Extract,
                  UnmountBegins, ReleaseLayer, ReleaseEnds, Free, At, NoFault
    <2>2. ~ Free' /\ server'.id = server.id /\ server'.op = server.op
      BY <1>2 DEF MountDirect, MountRaw, MountContainer, MountVolume, SkipVolume, Truncate, Extract,
                  UnmountBegins, ReleaseLayer, ReleaseEnds, Free, Goto, NextStep, TypeOK, Servers
    <2> QED BY <2>1, <2>2, TurnsWhileWorking
  <1>3. CASE MountFails \/ VolumeDirFails \/ ReadFails \/ WriteFails \/ ExtractRefused \/ ExtractFails
             \/ UnmountRefused \/ ReleaseFails \/ WriteDone
    <2>1. /\ ~ Free /\ UNCHANGED <<inbox, client>> /\ faults \subseteq faults'
          /\ Answer(FALSE) \/ Answer(TRUE)
      BY <1>3 DEF MountFails, VolumeDirFails, ReadFails, WriteFails, ExtractRefused, ExtractFails,
                  UnmountRefused, ReleaseFails, WriteDone, Free, At, NoFault, Fault
    <2> QED BY <2>1, TurnsAnswer
  <1>4. CASE Exits \/ ServerDies \/ KillsServer
    BY <1>4, TurnsExit DEF Exits, ServerDies, KillsServer
  <1>5. CASE LaneMounts \/ LaneExtracts \/ LaneUnmounts \/ AgentCalls
    <2>1. PICK op \in Waiting, m \in Mounts \cup {NoMount} :
            Calls(op, m) /\ Request(op, m, client.calls + 1) \in Requests
      BY <1>0, <1>5 DEF LaneMounts, LaneExtracts, LaneUnmounts, AgentCalls, Waiting, Request, Requests,
                        TypeOK, Clients
    <2>2. client.at \notin Waiting \cup {"killed"}
      BY <1>5 DEF LaneMounts, LaneExtracts, LaneUnmounts, AgentCalls, Waiting
    <2> QED BY <2>1, <2>2, TurnsCall
  <1>6. CASE LaneMounted \/ LaneMountFails \/ LaneReadsExtract \/ LaneEnds \/ AgentReads
             \/ AgentStops \/ Close \/ EngineDies
    <2>1. OnlyClient /\ client'.calls = client.calls /\ faults \subseteq faults'
      BY <1>6 DEF LaneMounted, LaneMountFails, LaneReadsExtract, LaneEnds, AgentReads, AgentStops, Close,
                  EngineDies, Learns, GoesTo, NoFault, Fault, Failure, TypeOK, Clients
    <2>2. \/ Answered \/ At("exited") \/ ~ Patient'
          \/ client.at \notin Waiting \cup {"killed"}
          \/ client'.at = "killed"
      BY <1>6 DEF LaneMounted, LaneMountFails, LaneReadsExtract, LaneEnds, AgentReads, AgentStops, Close,
                  EngineDies, GoesTo, Fault, Failure, Succeeds, Refuses, GivesUp, Patient, Waiting,
                  TypeOK, Clients
    <2> QED BY <2>1, <2>2, TurnsClientAlone
  <1>7. CASE UNCHANGED vars
    BY <1>7 DEF vars, TurnsInv, Due, Patient, Free, At
  <1> QED BY <1>1, <1>2, <1>3, <1>4, <1>5, <1>6, <1>7 DEF Next, ServerStep, ClientStep, Finished

(* Requests do not overtake one another as long as nobody gives up.         *)
LEMMA TurnsInvariant == Spec => []TurnsInv
  <1>1. Init => TurnsInv
    BY DEF Init, TurnsInv, NoReply, Idle, Free, At
  <1>2. TypeOK /\ TurnsInv /\ [Next]_vars => TurnsInv'
    BY TurnsStep
  <1> QED BY <1>1, <1>2, TypeCorrect, PTL DEF Spec

-----------------------------------------------------------------------------
(* What the ledger does not know of.                                        *)

Trouble == faults \cap {"mkdir", "write", "crash", "timeout"} # {}

AccountedInv ==
  /\ ledger = "partial" => At("truncated") \/ faults \cap {"write", "crash", "timeout"} # {}
  /\ \A m \in Mounts :
       host[m] # {} /\ rows[m] = NoRow /\ ~ (server.op = "mount" /\ server.m = m) => Trouble

\* A server is killed at work only when the client gave up on it before.
LEMMA KilledAtWork ==
  ASSUME TypeOK, TurnsInv, KillsServer
  PROVE  ~ Patient
  <1>1. ~ Free /\ ~ At("exited") /\ server.op \in Waiting
    BY DEF KillsServer, Free, At, TypeOK, InHand, Servers, Waiting
  <1>2. client.at = "closed"
    BY DEF KillsServer
  <1> QED BY <1>1, <1>2 DEF TurnsInv, Due, Waiting

\* Whatever ends a disk_mount in hand and mounted something without a row is trouble.
LEMMA AccountedLetGo ==
  ASSUME TypeOK, LedgerInv, AccountedInv, server' \in {Idle, Exited}, UNCHANGED <<ledger, host, rows>>,
         faults \subseteq faults',
         At("truncated") => faults' \cap {"write", "crash", "timeout"} # {},
         server.op = "mount" => At("mount") \/ Trouble'
  PROVE  AccountedInv'
  <1>1. ledger' = "partial" => faults' \cap {"write", "crash", "timeout"} # {}
    BY DEF AccountedInv
  <1>2. ASSUME NEW m \in Mounts, host'[m] # {}, rows'[m] = NoRow PROVE Trouble'
    <2>1. CASE server.op = "mount" /\ server.m = m
      BY <1>2, <2>1 DEF LedgerInv, Mounting
    <2>2. CASE ~ (server.op = "mount" /\ server.m = m)
      BY <1>2, <2>2 DEF AccountedInv, Trouble
    <2> QED BY <2>1, <2>2
  <1> QED BY <1>1, <1>2 DEF AccountedInv

\* A step that mounts or releases a layer of the mount in hand, or none.
LEMMA AccountedWhileWorking ==
  ASSUME TypeOK, LedgerInv, AccountedInv, server'.m = server.m, server'.op = server.op,
         rows' = rows, faults' = faults,
         (ledger' = ledger /\ ~ At("truncated")) \/ server'.at = "truncated",
         \A m \in Mounts : host'[m] # host[m] => m = server.m /\ (server.op = "mount" \/ rows[m] # NoRow)
  PROVE  AccountedInv'
  <1>1. ledger' = "partial" => At("truncated")' \/ faults' \cap {"write", "crash", "timeout"} # {}
    BY DEF AccountedInv, At
  <1>2. ASSUME NEW m \in Mounts, host'[m] # {}, rows'[m] = NoRow, ~ (server'.op = "mount" /\ server'.m = m)
        PROVE  Trouble'
    BY <1>2 DEF AccountedInv, Trouble
  <1> QED BY <1>1, <1>2 DEF AccountedInv

(* Every step that leaves something on the host without a live row has met  *)
(* a fault.                                                                 *)
LEMMA AccountedStep ==
  ASSUME TypeOK, LedgerInv, TurnsInv, AccountedInv, [Next]_vars
  PROVE  AccountedInv'
  <1>1. CASE ReadRequest
    <2>1. server.op = "none" /\ UNCHANGED <<ledger, host, rows, faults>> /\ ~ At("truncated")
      BY <1>1 DEF ReadRequest, At, TypeOK, InHand, Free, disk, NoFault
    <2> QED BY <2>1 DEF AccountedInv, At, Trouble
  <1>2. CASE MountDirect \/ SkipVolume \/ Extract \/ UnmountBegins \/ ReleaseEnds \/ Truncate
    <2>1. server'.m = server.m /\ server'.op = server.op /\ UNCHANGED <<host, rows, faults>>
      BY <1>2 DEF MountDirect, SkipVolume, Extract, UnmountBegins, ReleaseEnds, Truncate, Goto, disk,
                  NoFault, TypeOK, Servers
    <2>2. (ledger' = ledger /\ ~ At("truncated")) \/ server'.at = "truncated"
      BY <1>2 DEF MountDirect, SkipVolume, Extract, UnmountBegins, ReleaseEnds, Truncate, At, Goto, disk,
                  TypeOK, Servers
    <2> QED BY <2>1, <2>2, AccountedWhileWorking
  <1>3. CASE MountRaw \/ MountContainer \/ MountVolume
    <2>1. /\ server'.m = server.m /\ server'.op = server.op /\ UNCHANGED <<ledger, rows, faults>>
          /\ server.op = "mount" /\ ~ At("truncated")
      BY <1>3 DEF MountRaw, MountContainer, MountVolume, Goto, At, NoFault, TypeOK, InHand, Servers
    <2>2. \A m \in Mounts : host'[m] # host[m] => m = server.m
      BY <1>3 DEF MountRaw, MountContainer, MountVolume, TypeOK
    <2> QED BY <2>1, <2>2, AccountedWhileWorking
  <1>4. CASE ReleaseLayer
    <2>1. /\ server'.m = server.m /\ server'.op = server.op /\ UNCHANGED <<ledger, rows, faults>>
          /\ rows[server.m] # NoRow /\ ~ At("truncated")
      BY <1>4 DEF ReleaseLayer, Goto, At, NoFault, TypeOK, InHand, Servers
    <2>2. \A m \in Mounts : host'[m] # host[m] => m = server.m
      BY <1>4 DEF ReleaseLayer, TypeOK
    <2> QED BY <2>1, <2>2, AccountedWhileWorking
  <1>5. CASE MountFails \/ ExtractRefused \/ ExtractFails \/ UnmountRefused \/ ReleaseFails
    <2>1. /\ server' \in {Idle, Exited} /\ UNCHANGED <<ledger, host, rows>> /\ faults \subseteq faults'
          /\ ~ At("truncated")
      BY <1>5 DEF MountFails, ExtractRefused, ExtractFails, UnmountRefused, ReleaseFails, Answer, disk,
                  NoFault, At
    <2>2. server.op = "mount" => At("mount")
      BY <1>5 DEF MountFails, ExtractRefused, ExtractFails, UnmountRefused, ReleaseFails, At, TypeOK, InHand
    <2> QED BY <2>1, <2>2, AccountedLetGo
  <1>6. CASE VolumeDirFails
    BY <1>6, AccountedLetGo DEF VolumeDirFails, Answer, disk, Fault, At, Trouble
  <1>7. CASE ReadFails
    <2>1. ~ At("truncated") /\ faults \cap {"write", "crash", "timeout"} # {}
      BY <1>7 DEF ReadFails, At, AccountedInv
    <2> QED BY <1>7, <2>1, AccountedLetGo DEF ReadFails, Answer, disk, NoFault, Trouble
  <1>8. CASE WriteFails
    BY <1>8, AccountedLetGo DEF WriteFails, Answer, disk, Fault, Trouble
  <1>9. CASE ServerDies
    BY <1>9, AccountedLetGo DEF ServerDies, disk, Fault, Trouble
  <1>10. CASE KillsServer
    <2>1. "timeout" \in faults
      BY <1>10, KilledAtWork DEF Patient
    <2> QED BY <1>10, <2>1, AccountedLetGo DEF KillsServer, disk, Trouble
  <1>11. CASE Exits
    <2>1. ~ At("truncated") /\ server.op = "none"
      BY <1>11 DEF Exits, At, TypeOK, InHand, Free
    <2> QED BY <1>11, <2>1, AccountedLetGo DEF Exits, disk, NoFault
  <1>12. CASE WriteDone
    <2>1. /\ ledger' = "parses" /\ host' = host /\ faults' = faults /\ rows' = NewRows
          /\ server.m \in Mounts /\ server.op \in Waiting
      BY <1>12 DEF WriteDone, NoFault, At, TypeOK, InHand, Free
    <2>2. ASSUME NEW m \in Mounts, host'[m] # {}, rows'[m] = NoRow PROVE Trouble'
      <3>1. CASE m = server.m /\ server.op = "mount"
        <4>1. rows'[m] = Row("mounted", server.layout)
          BY <2>1, <3>1 DEF NewRows, TypeOK
        <4> QED BY <2>2, <4>1 DEF Row, NoRow
      <3>2. CASE m = server.m /\ server.op = "unmount"
        BY <1>12, <2>1, <2>2, <3>2 DEF WriteDone, At, LedgerInv, Releasing
      <3>3. CASE ~ (m = server.m /\ server.op \in {"mount", "unmount"})
        <4>1. rows'[m] = rows[m]
          BY <2>1, <3>3 DEF NewRows, TypeOK, Waiting
        <4> QED BY <2>1, <2>2, <3>3, <4>1 DEF AccountedInv, Trouble
      <3> QED BY <3>1, <3>2, <3>3
    <2> QED BY <2>1, <2>2 DEF AccountedInv
  <1>13. CASE ClientStep \/ EngineDies
    <2>1. UNCHANGED <<ledger, host, rows, server>> /\ faults \subseteq faults'
      BY <1>13 DEF ClientStep, LaneMounts, LaneMounted, LaneMountFails, LaneExtracts, LaneReadsExtract,
                   LaneUnmounts, LaneEnds, AgentCalls, AgentReads, AgentStops, Close, EngineDies,
                   Calls, OnlyClient, disk, NoFault, Failure, Fault
    <2> QED BY <2>1 DEF AccountedInv, At, Trouble
  <1>14. CASE UNCHANGED vars
    BY <1>14 DEF vars, AccountedInv, At, Trouble
  <1> QED BY <1>1, <1>2, <1>3, <1>4, <1>5, <1>6, <1>7, <1>8, <1>9, <1>10, <1>11, <1>12, <1>13, <1>14
          DEF Next, ServerStep, Finished

(* In every run: what is mounted without a live row is accounted for by a   *)
(* fault.                                                                   *)
LEMMA AccountedInvariant == Spec => []AccountedInv
  <1>1. Init => AccountedInv
    BY DEF Init, AccountedInv
  <1>2. TypeOK /\ LedgerInv /\ TurnsInv /\ AccountedInv /\ [Next]_vars => AccountedInv'
    BY AccountedStep
  <1> QED BY <1>1, <1>2, TypeCorrect, LedgerInvariant, TurnsInvariant, PTL DEF Spec

(* A mount that the host holds and no row names needs a fault: an orderly   *)
(* handler never leaves one, and a client only kills a server at work that  *)
(* it gave up on.                                                           *)
THEOREM NoneUnrecordedWithoutFault == Spec => []UnrecordedNeedsFault
  <1>1. AccountedInv => UnrecordedNeedsFault
    BY DEF AccountedInv, Trouble, UnrecordedNeedsFault
  <1> QED BY <1>1, AccountedInvariant, PTL

-----------------------------------------------------------------------------
(* The lane that nothing goes wrong for.                                    *)

\* Who sees to it that a mount is released: the mount in hand, its answer, the
\* client that knows it, and the unmount that is on its way or in hand.
HeldBy(m) ==
  \/ client.at = "mount" /\ server.op = "mount" /\ server.m = m
  \/ client.at = "mount" /\ Succeeds /\ reply.m = m /\ rows[m].status = "mounted"
  \/ client.at \in {"mounted", "extract", "parsed"} /\ m \in client.known /\ rows[m].status = "mounted"
  \/ client.at = "unmount" /\ rows[m].status = "mounted" /\ ~ Free /\ server.m = m
  \/ client.at = "unmount" /\ rows[m].status = "mounted" /\ inbox # << >> /\ inbox[1].m = m

LaneKeeps ==
  /\ At("exited") => client.at = "closed"
  /\ client.at # "killed"
  /\ client.at \in {"start", "mount"} => client.known = {}
  /\ \A a, b \in client.known : a = b
  /\ \A m \in Mounts : host[m] # {} => HeldBy(m)

LaneInv ==
  /\ faults = {} => torn = {}
  /\ Lane /\ faults = {} => LaneKeeps

\* What the turns say as long as nothing went wrong.
LEMMA TurnsOfTheLane ==
  ASSUME TypeOK, TurnsInv, LaneKeeps, faults = {}
  PROVE  /\ ~ Free => server.op = client.at /\ ~ Answered /\ inbox = << >>
         /\ inbox # << >> /\ ~ At("exited") =>
              Len(inbox) = 1 /\ inbox[1].op = client.at /\ ~ Answered /\ Free
  <1>1. Patient
    BY DEF Patient
  <1>2. ~ Free => ~ At("exited")
    BY DEF Free, At
  <1> QED BY <1>1, <1>2 DEF TurnsInv, Due, LaneKeeps, Answered, InFlight

(* While the server works on a request nothing else in the lane's account   *)
(* of it changes.                                                           *)
LEMMA LaneWhileWorking ==
  ASSUME TypeOK, TurnsInv, LaneInv, ~ Free, ~ Free', server'.m = server.m, server'.op = server.op,
         UNCHANGED <<rows, inbox, reply, client, faults, torn>>,
         \A m \in Mounts : host'[m] # {} => host[m] # {} \/ (server.op = "mount" /\ m = server.m)
  PROVE  LaneInv'
  <1> SUFFICES ASSUME Lane, faults = {} PROVE LaneKeeps'
    BY DEF LaneInv, Lane
  <1>1. LaneKeeps
    BY DEF LaneInv
  <1>2. server.op = client.at
    BY <1>1, TurnsOfTheLane
  <1>3. ASSUME NEW m \in Mounts, host'[m] # {} PROVE HeldBy(m)'
    BY <1>1, <1>2, <1>3 DEF LaneKeeps, HeldBy, Succeeds, Answered, InFlight
  <1>4. ~ At("exited")'
    BY DEF Free, At
  <1> QED BY <1>1, <1>3, <1>4 DEF LaneKeeps

\* An answer, when what is still mounted has somebody to see to it.
LEMMA LaneAnswer ==
  ASSUME TypeOK, TurnsInv, LaneInv, ~ Free, NEW ok, Answer(ok), UNCHANGED <<host, inbox, client>>,
         faults = {} /\ faults' = {} => torn' = {},
         faults \subseteq faults',
         ASSUME Lane, faults' = {}, NEW m \in Mounts, host[m] # {}, HeldBy(m), server.op = client.at
         PROVE  HeldBy(m)'
  PROVE  LaneInv'
  <1>0. faults' = {} => faults = {}
    OBVIOUS
  <1> SUFFICES ASSUME Lane, faults' = {} PROVE LaneKeeps'
    BY <1>0 DEF LaneInv, Lane
  <1>1. LaneKeeps
    BY <1>0 DEF LaneInv
  <1>2. server.op = client.at
    BY <1>0, <1>1, TurnsOfTheLane
  <1>3. ~ At("exited")'
    BY <1>1 DEF LaneKeeps, Answer, Idle, At
  <1>4. \A m \in Mounts : host[m] # {} => HeldBy(m)'
    BY <1>1, <1>2 DEF LaneKeeps
  <1> QED BY <1>1, <1>3, <1>4 DEF LaneKeeps

(* Every step keeps what the lane knows of its mount, up to the finally     *)
(* that unmounts it.                                                        *)
LEMMA LaneStep ==
  ASSUME TypeOK, LedgerInv, TurnsInv, AccountedInv, LaneInv, [Next]_vars
  PROVE  LaneInv'
  <1>0. Free => server.op = "none"
    BY DEF TypeOK, InHand
  <1>f. faults' = {} => faults = {}
    BY DEF Next, vars, ServerStep, ReadRequest, MountDirect, MountRaw, MountContainer, MountFails,
           MountVolume, SkipVolume, VolumeDirFails, ReadFails, Truncate, WriteDone, WriteFails,
           ExtractRefused, Extract, ExtractFails, UnmountRefused, UnmountBegins, ReleaseLayer, ReleaseEnds,
           ReleaseFails, Exits, ServerDies, KillsServer, EngineDies, Finished, NoFault, Fault,
           ClientStep, LaneMounts, LaneMounted, LaneMountFails, LaneExtracts, LaneReadsExtract,
           LaneUnmounts, LaneEnds, AgentCalls, AgentReads, AgentStops, Close, Calls, Failure
  <1>1. CASE ReadRequest
    <2>1. /\ UNCHANGED <<host, rows, reply, client, faults, torn>> /\ inbox # << >> /\ Free
          /\ server'.op = Head(inbox).op /\ ~ At("exited") /\ server'.at = Head(inbox).op
      BY <1>1 DEF ReadRequest, disk, NoFault, Free, At
    <2>2. inbox[1] \in Requests /\ Head(inbox) = inbox[1]
      BY <2>1 DEF TypeOK
    <2>3. server'.op # "mount" => server'.m = inbox[1].m
      BY <1>1, <2>1, <2>2 DEF ReadRequest
    <2> SUFFICES ASSUME Lane, faults = {} PROVE LaneKeeps'
      BY <2>1 DEF LaneInv, Lane
    <2>4. LaneKeeps
      BY DEF LaneInv
    <2>5. inbox[1].op = client.at /\ ~ Answered
      BY <2>1, <2>4, TurnsOfTheLane
    <2>6. ~ Free' /\ ~ At("exited")'
      BY <2>1, <2>2 DEF Free, At, Requests
    <2>7. ASSUME NEW m \in Mounts, host'[m] # {} PROVE HeldBy(m)'
      <3>1. HeldBy(m)
        BY <2>1, <2>4, <2>7 DEF LaneKeeps
      <3>2. client.at # "mount"
        BY <1>0, <2>1, <2>5, <3>1 DEF HeldBy, Succeeds
      <3> QED BY <2>1, <2>2, <2>3, <2>5, <2>6, <3>1, <3>2 DEF HeldBy
    <2> QED BY <2>1, <2>4, <2>6, <2>7 DEF LaneKeeps
  <1>2. CASE MountDirect \/ MountRaw \/ MountContainer \/ MountVolume \/ SkipVolume \/ Truncate \/ Extract
             \/ UnmountBegins \/ ReleaseLayer \/ ReleaseEnds
    <2>1. ~ Free /\ UNCHANGED <<rows, inbox, client, reply, faults, torn>>
      BY <1>2 DEF MountDirect, MountRaw, MountContainer, MountVolume, SkipVolume, Truncate, Extract,
                  UnmountBegins, ReleaseLayer, ReleaseEnds, Free, At, NoFault, disk
    <2>2. ~ Free' /\ server'.m = server.m /\ server'.op = server.op
      BY <1>2 DEF MountDirect, MountRaw, MountContainer, MountVolume, SkipVolume, Truncate, Extract,
                  UnmountBegins, ReleaseLayer, ReleaseEnds, Free, Goto, NextStep, TypeOK, Servers
    <2>3. ASSUME NEW m \in Mounts, host'[m] # {}
          PROVE  host[m] # {} \/ (server.op = "mount" /\ m = server.m)
      <3>1. CASE MountRaw \/ MountContainer \/ MountVolume
        BY <2>3, <3>1 DEF MountRaw, MountContainer, MountVolume, At, TypeOK, InHand
      <3>2. CASE ReleaseLayer
        BY <2>3, <3>2 DEF ReleaseLayer, TypeOK
      <3>3. CASE MountDirect \/ SkipVolume \/ Truncate \/ Extract \/ UnmountBegins \/ ReleaseEnds
        BY <2>3, <3>3 DEF MountDirect, SkipVolume, Truncate, Extract, UnmountBegins, ReleaseEnds, disk
      <3> QED BY <1>2, <3>1, <3>2, <3>3
    <2> QED BY <2>1, <2>2, <2>3, LaneWhileWorking
  <1>3. CASE MountFails
    <2>1. /\ ~ Free /\ Answer(FALSE) /\ UNCHANGED <<host, inbox, client, faults, torn>>
          /\ server.op = "mount" /\ host[server.m] = {}
      BY <1>3 DEF MountFails, disk, NoFault, Free, At, TypeOK, InHand, LedgerInv, Mounting
    <2>2. ASSUME NEW m \in Mounts, host[m] # {}, HeldBy(m), server.op = client.at, faults = {}, Lane
          PROVE  HeldBy(m)'
      BY <2>1, <2>2, TurnsOfTheLane DEF HeldBy, Succeeds, LaneInv
    <2> QED BY <2>1, <2>2, LaneAnswer DEF LaneInv
  <1>4. CASE ExtractRefused \/ ExtractFails
    <2>1. /\ ~ Free /\ Answer(FALSE) /\ UNCHANGED <<host, rows, inbox, client, faults, torn>>
          /\ server.op = "extract"
      BY <1>4 DEF ExtractRefused, ExtractFails, disk, NoFault, Free, At, TypeOK, InHand
    <2>2. ASSUME NEW m \in Mounts, HeldBy(m), server.op = client.at PROVE HeldBy(m)'
      BY <2>1, <2>2 DEF HeldBy
    <2> QED BY <2>1, <2>2, LaneAnswer DEF LaneInv
  <1>5. CASE UnmountRefused
    <2>1. /\ ~ Free /\ Answer(FALSE) /\ UNCHANGED <<host, inbox, client, faults, torn>>
          /\ server.op = "unmount" /\ rows[server.m] = NoRow
      BY <1>5 DEF UnmountRefused, disk, NoFault, Free, At, TypeOK, InHand
    <2>2. ASSUME NEW m \in Mounts, HeldBy(m), server.op = client.at, faults = {}, Lane PROVE HeldBy(m)'
      BY <2>1, <2>2, TurnsOfTheLane DEF HeldBy, NoRow, LaneInv
    <2> QED BY <2>1, <2>2, LaneAnswer DEF LaneInv
  <1>6. CASE ReleaseFails
    <2> DEFINE layer == TeardownSteps(server.layout)[StepNumber]
    <2>1. /\ ~ Free /\ Answer(FALSE) /\ UNCHANGED <<host, rows, inbox, client>> /\ server.op = "unmount"
          /\ server.at \in {"layer1", "layer2"} /\ StepNumber <= Len(TeardownSteps(server.layout))
          /\ server.m \in Mounts /\ rows[server.m] # NoRow /\ rows[server.m].layout \in Layouts
      BY <1>6 DEF ReleaseFails, disk, Free, At, TypeOK, InHand, Rows
    <2>2. CanRelease(server.m, layer) => faults' # {}
      BY <1>6 DEF ReleaseFails
    <2>3. At("layer2") /\ server.m \notin torn => CanRelease(server.m, layer)
      <3> SUFFICES ASSUME At("layer2"), server.m \notin torn PROVE CanRelease(server.m, layer)
        OBVIOUS
      <3>1. StepNumber = 2 /\ server.layout = rows[server.m].layout
        BY DEF StepNumber, At, LedgerInv, Releasing
      <3>2. server.layout = "nested"
        BY <2>1, <3>1 DEF TeardownSteps, Layouts
      <3>3. host[server.m] = {"container"}
        BY <3>2 DEF LedgerInv, Releasing, AfterFirst
      <3> QED BY <3>1, <3>2, <3>3 DEF TeardownSteps, CanRelease
    <2>4. faults = {} /\ faults' = {} => torn' = {}
      BY <1>6, <2>1, <2>2, <2>3 DEF ReleaseFails, LaneInv, At
    <2>5. ASSUME NEW m \in Mounts, host[m] # {}, HeldBy(m), server.op = client.at, faults = {}, Lane
          PROVE  faults' # {}
      <3>1. m = server.m /\ rows[m].status = "mounted" /\ torn = {}
        BY <2>1, <2>5, TurnsOfTheLane DEF HeldBy, LaneInv
      <3>2. CASE At("layer2")
        BY <2>2, <2>3, <3>1, <3>2
      <3>3. CASE At("layer1")
        <4>1. host[m] = LayersOf(rows[m].layout) /\ server.layout = rows[m].layout /\ StepNumber = 1
          BY <2>1, <3>1, <3>3 DEF LedgerInv, RowOf, Releasing, Begun, At, StepNumber
        <4>2. CanRelease(m, layer)
          BY <2>1, <2>5, <3>1, <4>1 DEF LayersOf, TeardownSteps, CanRelease, Layouts
        <4> QED BY <2>2, <3>1, <4>2
      <3> QED BY <2>1, <3>2, <3>3 DEF At
    <2>6. faults \subseteq faults'
      BY <1>6 DEF ReleaseFails
    <2> HIDE DEF layer
    <2> QED BY <1>f, <2>1, <2>4, <2>5, <2>6, LaneAnswer
  <1>7. CASE ReadFails
    <2>1. faults # {} /\ faults' = faults
      BY <1>7 DEF ReadFails, AccountedInv, At, NoFault
    <2> QED BY <2>1 DEF LaneInv
  <1>8. CASE VolumeDirFails \/ WriteFails \/ ServerDies \/ EngineDies
    BY <1>8 DEF VolumeDirFails, WriteFails, ServerDies, EngineDies, Fault, LaneInv
  <1>9. CASE KillsServer
    BY <1>9, KilledAtWork DEF KillsServer, Patient, LaneInv
  <1>10. CASE WriteDone
    <2>1. /\ ~ Free /\ Answer(TRUE) /\ UNCHANGED <<host, inbox, client, faults, torn>> /\ rows' = NewRows
          /\ server.m \in Mounts /\ server.op \in Waiting
      BY <1>10 DEF WriteDone, NoFault, Free, At, TypeOK, InHand
    <2>2. ASSUME NEW m \in Mounts, host[m] # {}, HeldBy(m), server.op = client.at, faults = {}, Lane
          PROVE  HeldBy(m)'
      <3>0. ~ Answered /\ inbox = << >> /\ Due(server.op, server.id)
        BY <2>1, <2>2, TurnsOfTheLane DEF LaneInv, TurnsInv, Patient, Free, At
      <3>1. CASE server.op = "mount"
        <4>1. m = server.m
          BY <2>2, <3>0, <3>1 DEF HeldBy, Succeeds
        <4>2. rows'[m] = Row("mounted", server.layout)
          BY <2>1, <3>1, <4>1 DEF NewRows, TypeOK
        <4>3. reply'.id = client'.calls /\ reply'.ok = TRUE /\ reply'.m = m
          BY <2>1, <3>0, <4>1 DEF Answer, Due
        <4> QED BY <2>1, <2>2, <3>1, <4>2, <4>3 DEF HeldBy, Succeeds, Answered, InFlight, Row
      <3>2. CASE server.op = "extract"
        BY <2>1, <2>2, <3>2 DEF HeldBy, NewRows
      <3>3. CASE server.op = "unmount"
        <4>1. m = server.m
          BY <2>2, <3>0, <3>3 DEF HeldBy
        <4>2. host[m] = {}
          BY <1>10, <3>3, <4>1 DEF WriteDone, At, LedgerInv, Releasing
        <4> QED BY <2>2, <4>2
      <3> QED BY <2>1, <3>1, <3>2, <3>3 DEF Waiting
    <2> QED BY <2>1, <2>2, LaneAnswer DEF LaneInv
  <1>11. CASE Exits
    <2>1. UNCHANGED <<host, rows, inbox, reply, client, faults, torn>> /\ client.at \in {"closed", "killed"}
      BY <1>11 DEF Exits, disk, NoFault
    <2> QED BY <2>1 DEF LaneInv, LaneKeeps, HeldBy, Lane
  <1>12. CASE AgentCalls \/ AgentReads \/ AgentStops
    <2>1. ~ Lane /\ ~ Lane'
      BY <1>12 DEF AgentCalls, AgentReads, AgentStops, Calls, Learns, GoesTo, Lane, TypeOK, Clients
    <2>2. torn' = torn
      BY <1>12 DEF AgentCalls, AgentReads, AgentStops, Calls, Failure, NoFault
    <2> QED BY <1>f, <2>1, <2>2 DEF LaneInv
  <1>13. ASSUME LaneMounts \/ LaneMounted \/ LaneMountFails \/ LaneExtracts \/ LaneReadsExtract
                \/ LaneUnmounts \/ LaneEnds \/ Close
         PROVE  LaneInv'
    <2>1. torn' = torn /\ UNCHANGED <<host, rows, server, reply>>
      BY <1>13 DEF LaneMounts, LaneMounted, LaneMountFails, LaneExtracts, LaneReadsExtract, LaneUnmounts,
                   LaneEnds, Close, Calls, OnlyClient, disk, NoFault, Failure
    <2>2. Lane' => Lane
      BY <1>13 DEF LaneMounts, LaneMounted, LaneMountFails, LaneExtracts, LaneReadsExtract, LaneUnmounts,
                   LaneEnds, Close, Calls, Learns, GoesTo, Lane, TypeOK, Clients
    <2> SUFFICES ASSUME Lane, faults' = {} PROVE LaneKeeps'
      BY <1>f, <2>1, <2>2 DEF LaneInv
    <2>3. LaneKeeps /\ faults = {} /\ client \in Clients
      BY <1>f DEF LaneInv, TypeOK
    <2>4. Answered => Free /\ (~ At("exited") => inbox = << >>)
      BY <2>3, TurnsOfTheLane
    <2>5. CASE LaneMounts \/ LaneExtracts
      <3>1. /\ client'.known = client.known /\ ~ At("exited") /\ client'.at \in {"mount", "extract"}
            /\ (client.at = "start" /\ client'.at = "mount") \/ (client.at = "mounted" /\ client'.at = "extract")
        BY <2>3, <2>5 DEF LaneMounts, LaneExtracts, Calls, Clients
      <3> QED BY <2>1, <2>3, <3>1 DEF LaneKeeps, HeldBy, At
    <2>6. CASE LaneUnmounts
      <3>1. PICK m0 \in client.known : Calls("unmount", m0)
        BY <2>6 DEF LaneUnmounts
      <3>2. /\ client'.known = client.known /\ ~ At("exited") /\ client'.at = "unmount"
            /\ client.at \in {"mounted", "parsed"}
        BY <2>3, <2>6, <3>1 DEF LaneUnmounts, Calls, Clients
      <3>3. inbox = << >>
        <4>1. inbox # << >> => inbox[1] \in Requests
          BY DEF TypeOK
        <4> QED BY <2>3, <3>2, <4>1, TurnsOfTheLane DEF Requests
      <3>4. inbox' = <<Request("unmount", m0, client.calls + 1)>>
        BY <3>1, <3>3 DEF Calls
      <3>5. inbox' # << >> /\ inbox'[1].m = m0
        BY <3>4 DEF Request
      <3> QED BY <2>1, <2>3, <3>1, <3>2, <3>5 DEF LaneKeeps, HeldBy, At
    <2>7. CASE LaneMounted
      <3>1. client'.known = {reply.m} /\ client'.at = "mounted" /\ client.at = "mount" /\ Answered
        BY <2>3, <2>7 DEF LaneMounted, Learns, Clients, LaneKeeps, Succeeds
      <3> QED BY <1>0, <2>1, <2>3, <2>4, <3>1 DEF LaneKeeps, HeldBy, At
    <2>8. CASE LaneMountFails \/ LaneEnds
      <3>1. client'.known = client.known /\ client'.at = "finished" /\ ~ At("exited")
        BY <2>3, <2>8 DEF LaneMountFails, LaneEnds, GoesTo, Clients, LaneKeeps
      <3>2. Answered /\ (client.at = "mount" => ~ Succeeds) /\ client.at \in {"mount", "unmount"}
        BY <2>3, <2>8, <3>1 DEF LaneMountFails, LaneEnds, Failure, Succeeds, Refuses, Fault
      <3> QED BY <1>0, <2>1, <2>3, <2>4, <3>1, <3>2 DEF LaneKeeps, HeldBy, At
    <2>9. CASE LaneReadsExtract
      <3>1. client'.known = client.known /\ client'.at = "parsed" /\ client.at = "extract"
        BY <2>3, <2>9 DEF LaneReadsExtract, GoesTo, Clients
      <3> QED BY <2>1, <2>3, <3>1 DEF LaneKeeps, HeldBy, At
    <2>10. CASE Close
      <3>1. client'.known = client.known /\ client'.at = "closed" /\ client.at = "finished"
        BY <2>3, <2>10 DEF Close, GoesTo, Clients
      <3> QED BY <2>1, <2>3, <3>1 DEF LaneKeeps, HeldBy, At
    <2> QED BY <1>13, <2>5, <2>6, <2>7, <2>8, <2>9, <2>10
  <1>14. CASE UNCHANGED vars
    BY <1>14 DEF vars, LaneInv, LaneKeeps, HeldBy, Lane, At, Free, Succeeds, Answered, InFlight
  <1> QED BY <1>1, <1>2, <1>3, <1>4, <1>5, <1>6, <1>7, <1>8, <1>9, <1>10, <1>11, <1>12, <1>13, <1>14
          DEF Next, ServerStep, ClientStep, Finished

(* A disk lane that nothing goes wrong for leaves no mount behind, however  *)
(* its mount, extraction and teardown were answered.                        *)
THEOREM TheLaneCleansUp == Spec => []NothingLeftMounted
  <1>1. Init => LaneInv
    BY DEF Init, LaneInv, LaneKeeps, Idle, At
  <1>2. TypeOK /\ LedgerInv /\ TurnsInv /\ AccountedInv /\ LaneInv /\ [Next]_vars => LaneInv'
    BY LaneStep
  <1>3. LaneInv => NothingLeftMounted
    BY DEF LaneInv, LaneKeeps, HeldBy, NothingLeftMounted, Over
  <1> QED BY <1>1, <1>2, <1>3, TypeCorrect, LedgerInvariant, TurnsInvariant, AccountedInvariant, PTL DEF Spec

=============================================================================
