---------------------------- MODULE StdioClient -----------------------------
(***************************************************************************)
(* The agent library's client of the Rust tool server: class               *)
(* StdioMcpClient of services/agent/findevil_agent/mcp_client.py.          *)
(*                                                                         *)
(* One lock is held across a whole call: write the request, start a thread *)
(* that reads one line, join it with a timeout.  The id of the reply is    *)
(* not looked at.  A thread whose join timed out stays in readline; the    *)
(* buffered stdout serves one thread at a time, and which of the others is *)
(* next is up to the runtime.  Lines are taken one by one.                 *)
(*                                                                         *)
(* A call, its request, its reply and its reader thread carry the call's   *)
(* number.  close() takes no lock, and call_tool looks at the closed flag  *)
(* before it takes the lock.                                               *)
(***************************************************************************)
EXTENDS Integers, Sequences, FiniteSetsExt

CONSTANTS
  Callers,
  MaxCalls,     \* bound: calls issued
  MaxTimeouts,  \* bound: joins that time out
  None, Failed, Eof

ASSUME BoundsAssumption == MaxCalls \in Nat /\ MaxTimeouts \in Nat

Calls == 1..MaxCalls

VARIABLES
  pc,        \* per caller: idle, checked, writing, reading
  lock,      \* the caller inside call_tool's lock, or None
  nextId,    \* self._next_id
  current,   \* the number of the call inside the lock
  closed,    \* self._closed
  outcome,   \* per caller: its last finished call and how it ended
  timeouts,  \* joins that timed out so far
  readers,   \* the reader threads inside readline, by call
  inRead,    \* the one that has the buffer, or None
  got,       \* per call: what its reader thread returned, or None
  proc,      \* the server process: none, up, down
  stdinOpen, \* the client's end of the server's stdin is open
  stdin, stdout, handling, served

clientVars == <<lock, nextId, current, closed, timeouts>>
readerVars == <<readers, inRead, got>>
serverVars == <<proc, stdinOpen, stdin, stdout, handling, served>>
vars == <<pc, outcome, lock, nextId, current, closed, timeouts, readers, inRead, got,
          proc, stdinOpen, stdin, stdout, handling, served>>

NoOutcome == [call |-> None, got |-> None]

Init ==
  /\ pc = [c \in Callers |-> "idle"]
  /\ lock = None /\ nextId = 1 /\ current = None /\ closed = FALSE /\ timeouts = 0
  /\ outcome = [c \in Callers |-> NoOutcome]
  /\ readers = {} /\ inRead = None /\ got = [n \in Calls |-> None]
  /\ proc = "none" /\ stdinOpen = FALSE
  /\ stdin = << >> /\ stdout = << >> /\ handling = None /\ served = {}

-----------------------------------------------------------------------------
(* call_tool.                                                               *)

CheckOpen(c) ==
  /\ pc[c] = "idle" /\ ~ closed
  /\ pc' = [pc EXCEPT ![c] = "checked"]
  /\ UNCHANGED <<outcome, clientVars, readerVars, serverVars>>

\* The first call starts the server.
StartServerIfNone ==
  /\ proc' = IF proc = "none" THEN "up" ELSE proc
  /\ stdinOpen' = (proc = "none" \/ stdinOpen)

TakeNumber(c) ==
  /\ pc[c] = "checked" /\ nextId <= MaxCalls
  /\ lock' = c
  /\ StartServerIfNone
  /\ current' = nextId /\ nextId' = nextId + 1
  /\ pc' = [pc EXCEPT ![c] = "writing"]
  /\ UNCHANGED <<outcome, closed, timeouts, readerVars, stdin, stdout, handling, served>>

\* Variant: the call does not take the lock.
EnterUnlocked(c) == TakeNumber(c)

Enter(c) == lock = None /\ TakeNumber(c)

SpawnFails(c) ==
  /\ pc[c] = "checked" /\ lock = None /\ proc = "none"
  /\ pc' = [pc EXCEPT ![c] = "idle"]
  /\ UNCHANGED <<outcome, clientVars, readerVars, serverVars>>

\* Write, flush, start the reader thread; the thread gets the buffer if it is free.
WriteRequest(c) ==
  /\ pc[c] = "writing" /\ proc = "up" /\ stdinOpen
  /\ stdin' = Append(stdin, current)
  /\ readers' = readers \union {current}
  /\ inRead' = IF inRead = None THEN current ELSE inRead
  /\ pc' = [pc EXCEPT ![c] = "reading"]
  /\ UNCHANGED <<outcome, clientVars, got, proc, stdinOpen, stdout, handling, served>>

EndCall(c, result) ==
  /\ outcome' = [outcome EXCEPT ![c] = [call |-> current, got |-> result]]
  /\ lock' = None /\ current' = None
  /\ pc' = [pc EXCEPT ![c] = "idle"]
  /\ UNCHANGED <<nextId, closed, serverVars>>

WriteFails(c) ==
  /\ pc[c] = "writing" /\ (proc = "down" \/ ~ stdinOpen)
  /\ EndCall(c, Failed)
  /\ UNCHANGED <<timeouts, readerVars>>

Return(c) ==
  /\ pc[c] = "reading" /\ got[current] # None
  /\ EndCall(c, IF got[current] = Eof THEN Failed ELSE got[current])
  /\ UNCHANGED <<timeouts, readerVars>>

GiveUp(c) ==
  /\ pc[c] = "reading" /\ got[current] = None /\ timeouts < MaxTimeouts
  /\ EndCall(c, Failed)
  /\ timeouts' = timeouts + 1

TimeOut(c) == GiveUp(c) /\ UNCHANGED readerVars

-----------------------------------------------------------------------------
(* The reader threads and close().                                          *)

\* A thread leaves readline; any thread still in it may have the buffer next.
LeaveReadline(t, what) ==
  /\ inRead = t
  /\ got' = [got EXCEPT ![t] = what]
  /\ readers' = readers \ {t}
  /\ inRead' \in IF readers = {t} THEN {None} ELSE readers \ {t}

ReadLine(t) ==
  /\ stdout # << >>
  /\ LeaveReadline(t, Head(stdout))
  /\ stdout' = Tail(stdout)
  /\ UNCHANGED <<pc, outcome, clientVars, proc, stdinOpen, stdin, handling, served>>

ReadEof(t) ==
  /\ stdout = << >> /\ proc = "down"
  /\ LeaveReadline(t, Eof)
  /\ UNCHANGED <<pc, outcome, clientVars, serverVars>>

Close ==
  /\ ~ closed
  /\ closed' = TRUE
  /\ stdinOpen' = FALSE
  /\ UNCHANGED <<pc, outcome, lock, nextId, current, timeouts, readerVars,
                 proc, stdin, stdout, handling, served>>

-----------------------------------------------------------------------------
(* The server: a serial loop that may die, and does when close() kills it.  *)

ServerReads ==
  /\ proc = "up" /\ handling = None /\ stdin # << >>
  /\ handling' = Head(stdin) /\ stdin' = Tail(stdin)
  /\ UNCHANGED <<pc, outcome, clientVars, readerVars, proc, stdinOpen, stdout, served>>

ServerReplies ==
  /\ proc = "up" /\ handling # None
  /\ stdout' = Append(stdout, handling)
  /\ served' = served \union {handling}
  /\ handling' = None
  /\ UNCHANGED <<pc, outcome, clientVars, readerVars, proc, stdinOpen, stdin>>

ServerEnds ==
  /\ proc = "up"
  /\ proc' = "down"
  /\ UNCHANGED <<pc, outcome, clientVars, readerVars, stdinOpen, stdin, stdout, handling, served>>

-----------------------------------------------------------------------------
Next ==
  \/ \E c \in Callers : \/ CheckOpen(c) \/ Enter(c) \/ SpawnFails(c)
                        \/ WriteRequest(c) \/ WriteFails(c)
                        \/ Return(c) \/ TimeOut(c)
  \/ \E t \in Calls : ReadLine(t) \/ ReadEof(t)
  \/ Close
  \/ ServerReads \/ ServerReplies \/ ServerEnds

Spec == Init /\ [][Next]_vars

-----------------------------------------------------------------------------
(* Properties.                                                              *)

(* A call that ends with a reply ends with the reply the server made to     *)
(* it, and only calls that were written are answered: the promise of        *)
(* RpcPromise, kept as long as one thread at most is left behind.           *)
Promise == INSTANCE RpcPromise WITH
  calling <- [c \in Callers |-> IF pc[c] \in {"writing", "reading"} THEN current ELSE None],
  issued  <- 1..(nextId - 1)

KeepsPromise == Promise!Init /\ [][Promise!Next]_(Promise!vars)

=============================================================================
