----------------------------- MODULE EngineRpc ------------------------------
(***************************************************************************)
(* The engine's client of an MCP server: class SshMcpClient of             *)
(* scripts/find_evil_auto.py, which the local and docker clients inherit.  *)
(* Threads call concurrently over one pair of pipes; a reader thread       *)
(* routes replies by JSON-RPC id to one-slot queues; a lock guards the id  *)
(* counter, the table of waiters, the closed flag and the write.           *)
(*                                                                         *)
(* The server is the stdio loop of services/mcp/src/server.rs: it reads a  *)
(* request, handles it, writes the reply, and only then reads again.  It   *)
(* may take for ever over a tool and it may die.  Pipes are sequences of   *)
(* call numbers with a capacity.  A call's request, its reply and its      *)
(* queue all carry the call's number; what is in them is left out.         *)
(***************************************************************************)
EXTENDS Integers, Sequences, FiniteSetsExt

CONSTANTS
  Callers,     \* threads that use the client
  MaxCalls,    \* bound: calls issued
  StdinRoom,   \* requests the server's stdin pipe holds
  StdoutRoom,  \* replies the server's stdout pipe holds
  None, Failed, Eof

ASSUME RoomAssumption == StdinRoom \in Nat \ {0} /\ StdoutRoom \in Nat \ {0}
ASSUME CallsAssumption == MaxCalls \in Nat

Calls == 1..MaxCalls

ASSUME NoneAssumption == None \notin Callers \union Calls

VARIABLES
  pc,        \* per caller: idle, writing (holding the lock), waiting, leaving
  call,      \* per caller: the number of its call
  taken,     \* per caller: what waiter.get gave it, or Failed
  outcome,   \* per caller: its last finished call and how it ended
  writer,    \* the caller that holds the lock while it writes, or None
  nextId,    \* self._next_id
  waiters,   \* the keys of self._waiters
  queue,     \* per call: its Queue(maxsize=1), a sequence of length 0 or 1
  closed,    \* self._closed
  reader,    \* the reader thread: reading, routing, putting, closing, waking, done
  inHand,    \* the reply the reader holds between readline and put
  toWake,    \* the snapshot of waiters taken at end of file
  stdin, stdout,  \* the two pipes
  handling,  \* the call the server handles, or None
  alive,     \* the server process runs
  served     \* calls the server wrote a reply to

callerVars == <<pc, call, taken, outcome>>
clientVars == <<writer, nextId, waiters, queue, closed>>
readerVars == <<reader, inHand, toWake>>
serverVars == <<stdin, stdout, handling, alive, served>>
vars == <<pc, call, taken, outcome, writer, nextId, waiters, queue, closed,
          reader, inHand, toWake, stdin, stdout, handling, alive, served>>

NoOutcome == [call |-> None, got |-> None]

Init ==
  /\ pc = [c \in Callers |-> "idle"]
  /\ call = [c \in Callers |-> None]
  /\ taken = [c \in Callers |-> None]
  /\ outcome = [c \in Callers |-> NoOutcome]
  /\ writer = None /\ nextId = 1 /\ waiters = {} /\ closed = FALSE
  /\ queue = [n \in Calls |-> << >>]
  /\ reader = "reading" /\ inHand = None /\ toWake = {}
  /\ stdin = << >> /\ stdout = << >> /\ handling = None /\ alive = TRUE /\ served = {}

LockFree == writer = None

-----------------------------------------------------------------------------
(* call(): register the waiter and write, under the lock.                   *)

Begin(c) ==
  /\ pc[c] = "idle" /\ LockFree /\ ~ closed /\ nextId <= MaxCalls
  /\ writer' = c
  /\ call' = [call EXCEPT ![c] = nextId]
  /\ waiters' = waiters \union {nextId}
  /\ nextId' = nextId + 1
  /\ pc' = [pc EXCEPT ![c] = "writing"]
  /\ UNCHANGED <<taken, outcome, queue, closed, readerVars, serverVars>>

\* The write blocks, lock held and no timeout running, while the pipe is full.
WriteRequest(c) ==
  /\ pc[c] = "writing" /\ alive /\ Len(stdin) < StdinRoom
  /\ stdin' = Append(stdin, call[c])
  /\ writer' = None
  /\ pc' = [pc EXCEPT ![c] = "waiting"]
  /\ UNCHANGED <<call, taken, outcome, nextId, waiters, queue, closed,
                 readerVars, stdout, handling, alive, served>>

Finish(c, got) ==
  /\ waiters' = waiters \ {call[c]}
  /\ outcome' = [outcome EXCEPT ![c] = [call |-> call[c], got |-> got]]
  /\ pc' = [pc EXCEPT ![c] = "idle"]
  /\ UNCHANGED <<call, nextId, queue, closed, readerVars, serverVars>>

WriteBreaks(c) ==
  /\ pc[c] = "writing" /\ ~ alive
  /\ writer' = None
  /\ Finish(c, Failed)
  /\ UNCHANGED taken

(* call(): wait for the reply, without the lock; then leave the table.      *)
Take(c) ==
  /\ pc[c] = "waiting" /\ queue[call[c]] # << >>
  /\ taken' = [taken EXCEPT ![c] = Head(queue[call[c]])]
  /\ queue' = [queue EXCEPT ![call[c]] = << >>]
  /\ pc' = [pc EXCEPT ![c] = "leaving"]
  /\ UNCHANGED <<call, outcome, writer, nextId, waiters, closed, readerVars, serverVars>>

\* Variant: the wait has no timeout.
TimeOutNever(c) == FALSE /\ UNCHANGED vars

TimeOut(c) ==
  /\ pc[c] = "waiting" /\ queue[call[c]] = << >>
  /\ taken' = [taken EXCEPT ![c] = Failed]
  /\ pc' = [pc EXCEPT ![c] = "leaving"]
  /\ UNCHANGED <<call, outcome, clientVars, readerVars, serverVars>>

Leave(c) ==
  /\ pc[c] = "leaving" /\ LockFree
  /\ Finish(c, IF taken[c] = Eof THEN Failed ELSE taken[c])
  /\ UNCHANGED <<taken, writer>>

-----------------------------------------------------------------------------
(* _reader(): one thread for the life of the client.                        *)

ReadLine ==
  /\ reader = "reading" /\ stdout # << >>
  /\ inHand' = Head(stdout)
  /\ stdout' = Tail(stdout)
  /\ reader' = "routing"
  /\ UNCHANGED <<callerVars, clientVars, toWake, stdin, handling, alive, served>>

\* A reply nobody waits for any more is dropped.
Route ==
  /\ reader = "routing" /\ LockFree
  /\ reader' = IF inHand \in waiters THEN "putting" ELSE "reading"
  /\ UNCHANGED <<callerVars, clientVars, inHand, toWake, serverVars>>

\* Variant: the reply goes to the oldest waiter instead of the one it names.
PutOldest ==
  /\ reader = "putting" /\ waiters # {}
  /\ LET n == Min(waiters) IN
       /\ queue[n] = << >>
       /\ queue' = [queue EXCEPT ![n] = <<inHand>>]
  /\ reader' = "reading"
  /\ UNCHANGED <<callerVars, writer, nextId, waiters, closed, inHand, toWake, serverVars>>

\* put() on a one-slot queue blocks while the slot is full.
Put ==
  /\ reader = "putting" /\ queue[inHand] = << >>
  /\ queue' = [queue EXCEPT ![inHand] = <<inHand>>]
  /\ reader' = "reading"
  /\ UNCHANGED <<callerVars, writer, nextId, waiters, closed, inHand, toWake, serverVars>>

ReadEof ==
  /\ reader = "reading" /\ stdout = << >> /\ ~ alive
  /\ reader' = "closing"
  /\ UNCHANGED <<callerVars, clientVars, inHand, toWake, serverVars>>

\* Variant: end of file closes the client and wakes nobody.
CloseOnly ==
  /\ reader = "closing" /\ LockFree
  /\ closed' = TRUE
  /\ toWake' = {}
  /\ reader' = "waking"
  /\ UNCHANGED <<callerVars, writer, nextId, waiters, queue, inHand, serverVars>>

CloseAndSnapshot ==
  /\ reader = "closing" /\ LockFree
  /\ closed' = TRUE
  /\ toWake' = waiters
  /\ reader' = "waking"
  /\ UNCHANGED <<callerVars, writer, nextId, waiters, queue, inHand, serverVars>>

\* The snapshot is in registration order, which is the order of the numbers.
\* A queue that a late reply filled, and whose caller timed out, holds the
\* reader here for ever: the callers after it are left to their timeouts.
WakeNext ==
  /\ reader = "waking" /\ toWake # {}
  /\ LET n == Min(toWake) IN
       /\ queue[n] = << >>
       /\ queue' = [queue EXCEPT ![n] = <<Eof>>]
       /\ toWake' = toWake \ {n}
  /\ UNCHANGED <<callerVars, writer, nextId, waiters, closed, reader, inHand, serverVars>>

ReaderEnds ==
  /\ reader = "waking" /\ toWake = {}
  /\ reader' = "done"
  /\ UNCHANGED <<callerVars, clientVars, inHand, toWake, serverVars>>

-----------------------------------------------------------------------------
(* The server.                                                              *)

ServerReads ==
  /\ alive /\ handling = None /\ stdin # << >>
  /\ handling' = Head(stdin)
  /\ stdin' = Tail(stdin)
  /\ UNCHANGED <<callerVars, clientVars, readerVars, stdout, alive, served>>

ServerReplies ==
  /\ alive /\ handling # None /\ Len(stdout) < StdoutRoom
  /\ stdout' = Append(stdout, handling)
  /\ served' = served \union {handling}
  /\ handling' = None
  /\ UNCHANGED <<callerVars, clientVars, readerVars, stdin, alive>>

ServerDies ==
  /\ alive
  /\ alive' = FALSE
  /\ UNCHANGED <<callerVars, clientVars, readerVars, stdin, stdout, handling, served>>

-----------------------------------------------------------------------------
CallerStep(c) == \/ WriteRequest(c) \/ WriteBreaks(c)
                 \/ Take(c) \/ TimeOut(c) \/ Leave(c)

ReaderStep == \/ ReadLine \/ Route \/ Put \/ ReadEof
              \/ CloseAndSnapshot \/ WakeNext \/ ReaderEnds

ServerStep == ServerReads \/ ServerReplies \/ ServerDies

Next ==
  \/ \E c \in Callers : Begin(c) \/ CallerStep(c)
  \/ ReaderStep
  \/ ServerStep

(* Threads that can run do run, and a timeout that is due fires.  Nothing   *)
(* is assumed of the server: a tool may hang, and it need not die.  A caller *)
(* that wants the lock competes with the others, so leaving needs strong    *)
(* fairness.                                                                *)
Fairness ==
  /\ \A c \in Callers : /\ WF_vars(WriteRequest(c) \/ WriteBreaks(c))
                        /\ WF_vars(Take(c) \/ TimeOut(c))
                        /\ SF_vars(Leave(c))
  /\ SF_vars(Route) /\ SF_vars(CloseAndSnapshot)
  /\ WF_vars(ReadLine \/ Put \/ ReadEof \/ WakeNext \/ ReaderEnds)

Spec == Init /\ [][Next]_vars
FairSpec == Spec /\ Fairness

-----------------------------------------------------------------------------
(* Properties.                                                              *)

(* Whoever waits when the reader has gone finds something in its queue: a   *)
(* call cannot slip in between the snapshot of the waiters and the closing  *)
(* of the client (find_evil_auto.py:849-854 against :876-886).              *)
NobodyWaitsOnADeadReader ==
  reader = "done" =>
    \A c \in Callers : pc[c] = "waiting" => queue[call[c]] # << >>

(* A call ends with the reply to that call or with a failure, in spite of   *)
(* timeouts, late replies and a dying server: the promise of RpcPromise.    *)
Promise == INSTANCE RpcPromise WITH
  calling <- [c \in Callers |-> IF pc[c] = "idle" THEN None ELSE call[c]],
  issued  <- 1..(nextId - 1),
  served  <- served

KeepsPromise == Promise!Init /\ [][Promise!Next]_(Promise!vars)

(* Every call returns, whatever the server does, unless the server lives on *)
(* and never reads from a full stdin pipe again: a call's wait is timed, its *)
(* write under the lock is not.                                             *)
CallsReturn ==
  \A c \in Callers :
    (pc[c] # "idle" ~> pc[c] = "idle") \/ <>[](alive /\ Len(stdin) = StdinRoom)

=============================================================================
