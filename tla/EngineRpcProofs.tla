--------------------------- MODULE EngineRpcProofs ---------------------------
(***************************************************************************)
(* Proofs about EngineRpc: that the client with its lock, its table of     *)
(* waiters, its queues and its reader thread keeps the promise of module   *)
(* RpcPromise, and that nobody is left waiting by a reader that has gone,  *)
(* for any number of threads and calls and pipes of any size.  The second  *)
(* part is about StdioClient, the agent's client, which keeps the same     *)
(* promise as long as at most one thread is left behind.                   *)
(***************************************************************************)
EXTENDS EngineRpc, TLAPS

-----------------------------------------------------------------------------
(* Types.                                                                   *)

TypeOK ==
  /\ pc \in [Callers -> {"idle", "writing", "waiting", "leaving"}]
  /\ call \in [Callers -> Calls \union {None}]
  /\ taken \in [Callers -> Calls \union {None, Failed, Eof}]
  /\ outcome \in [Callers -> [call : Calls \union {None}, got : Calls \union {None, Failed, Eof}]]
  /\ writer \in Callers \union {None}
  /\ nextId \in 1..(MaxCalls + 1)
  /\ waiters \subseteq Calls
  /\ queue \in [Calls -> Seq(Calls \union {Eof})]
  /\ closed \in BOOLEAN
  /\ reader \in {"reading", "routing", "putting", "closing", "waking", "done"}
  /\ inHand \in Calls \union {None}
  /\ toWake \subseteq Calls
  /\ stdin \in Seq(Calls) /\ stdout \in Seq(Calls)
  /\ handling \in Calls \union {None}
  /\ alive \in BOOLEAN
  /\ served \subseteq Calls

-----------------------------------------------------------------------------
(* The inductive invariant.                                                 *)

\* Whoever is in a call has a number of its own, and is in the table.
InCall ==
  /\ \A c \in Callers : pc[c] # "idle" => call[c] \in waiters /\ call[c] < nextId
  /\ \A c, d \in Callers : pc[c] # "idle" /\ pc[d] # "idle" /\ call[c] = call[d] => c = d

\* Who writes holds the lock.
LockHeld == \A c \in Callers : pc[c] = "writing" <=> writer = c

\* On its way from the server to its caller, a reply is to a call that was served.
RepliesAreReal ==
  /\ \A i \in 1..Len(stdout) : stdout[i] \in served
  /\ reader \in {"routing", "putting"} => inHand \in served
  /\ \A n \in Calls : queue[n] # << >> => queue[n] = <<Eof>> \/ (queue[n] = <<n>> /\ n \in served)
  /\ \A c \in Callers : pc[c] = "leaving" =>
       taken[c] \in {Eof, Failed} \/ (taken[c] = call[c] /\ call[c] \in served)

\* The server handles what was asked.
RequestsAreReal ==
  /\ \A i \in 1..Len(stdin) : stdin[i] < nextId
  /\ handling # None => handling < nextId

\* From the closing of the client on, nobody begins or writes, and whoever
\* waits is to be woken or has something in its queue.
Closing ==
  /\ reader \in {"closing", "waking", "done"} => ~ alive
  /\ reader \in {"waking", "done"} =>
       /\ closed
       /\ \A c \in Callers : /\ pc[c] # "writing"
                             /\ pc[c] = "waiting" => call[c] \in toWake \/ queue[call[c]] # << >>
  /\ reader = "done" => toWake = {}

ClientInv == TypeOK /\ InCall /\ LockHeld /\ RepliesAreReal /\ RequestsAreReal /\ Closing

-----------------------------------------------------------------------------
(* Types.                                                                   *)

\* The types hold before the first call.
LEMMA TypeInitial == Init => TypeOK
<1>1. << >> \in Seq(Calls) /\ << >> \in Seq(Calls \union {Eof}) /\ MaxCalls \in Nat
  BY CallsAssumption
<1>2. SUFFICES ASSUME Init PROVE TypeOK
  OBVIOUS
<1>3. /\ pc \in [Callers -> {"idle", "writing", "waiting", "leaving"}]
      /\ call \in [Callers -> Calls \union {None}]
      /\ taken \in [Callers -> Calls \union {None, Failed, Eof}]
      /\ outcome \in [Callers -> [call : Calls \union {None}, got : Calls \union {None, Failed, Eof}]]
  BY <1>2 DEF Init, NoOutcome
<1>4. /\ writer \in Callers \union {None} /\ nextId \in 1..(MaxCalls + 1) /\ waiters \subseteq Calls
      /\ closed \in BOOLEAN /\ queue \in [Calls -> Seq(Calls \union {Eof})]
  <2>1. queue \in [Calls -> Seq(Calls \union {Eof})]
    BY <1>1, <1>2 DEF Init
  <2>2. nextId \in 1..(MaxCalls + 1)
    BY <1>1, <1>2 DEF Init
  <2>3. QED BY <1>2, <2>1, <2>2 DEF Init
<1>5. /\ reader = "reading" /\ inHand \in Calls \union {None} /\ toWake \subseteq Calls
      /\ stdin \in Seq(Calls) /\ stdout \in Seq(Calls)
      /\ handling \in Calls \union {None} /\ alive \in BOOLEAN /\ served \subseteq Calls
  BY <1>1, <1>2 DEF Init
<1>6. QED BY <1>3, <1>4, <1>5 DEF TypeOK

\* The number of a call under way is a number.
LEMMA CallsAreNumbers ==
  ASSUME TypeOK, InCall
  PROVE  \A c \in Callers : pc[c] # "idle" => call[c] \in Calls /\ call[c] \in Nat /\ call[c] # None
<1>1. ASSUME NEW c \in Callers, pc[c] # "idle" PROVE call[c] \in Calls
  BY <1>1 DEF TypeOK, InCall
<1>2. \A n \in Calls : n \in Nat /\ n # None
  BY NoneAssumption DEF Calls
<1>3. QED BY <1>1, <1>2

\* Every step of a caller, the reader and the server keeps the types.
LEMMA TypeStep ==
  ASSUME TypeOK, InCall, RepliesAreReal, [Next]_vars
  PROVE  TypeOK'
<1> USE CallsAssumption, NoneAssumption
<1>1. \A c \in Callers : pc[c] # "idle" => call[c] \in Calls
  BY CallsAreNumbers
<1>2. \A n \in Calls : <<n>> \in Seq(Calls \union {Eof}) /\ <<Eof>> \in Seq(Calls \union {Eof})
  OBVIOUS
<1>3. ASSUME NEW c \in Callers, Begin(c) PROVE TypeOK'
  <2>1. nextId \in Calls
    BY <1>3 DEF TypeOK, Begin, Calls
  <2>2. call' \in [Callers -> Calls \union {None}] /\ waiters' \subseteq Calls
    BY <1>3, <2>1 DEF TypeOK, Begin
  <2>3. nextId' \in 1..(MaxCalls + 1)
    BY <1>3 DEF TypeOK, Begin
  <2>4. pc' \in [Callers -> {"idle", "writing", "waiting", "leaving"}]
    BY <1>3 DEF TypeOK, Begin
  <2>5. QED BY <1>3, <2>2, <2>3, <2>4 DEF TypeOK, Begin, readerVars, serverVars
<1>4. ASSUME NEW c \in Callers, WriteRequest(c) PROVE TypeOK'
  <2>1. call[c] \in Calls
    BY <1>1, <1>4 DEF WriteRequest
  <2>2. stdin' \in Seq(Calls)
    BY <1>4, <2>1 DEF TypeOK, WriteRequest
  <2>3. QED BY <1>4, <2>2 DEF TypeOK, WriteRequest, readerVars
<1>5. ASSUME NEW c \in Callers, NEW got \in Calls \union {None, Failed, Eof}, Finish(c, got),
             taken' = taken, writer' \in Callers \union {None}
      PROVE  TypeOK'
  BY <1>5 DEF TypeOK, Finish, readerVars, serverVars
<1>6. ASSUME NEW c \in Callers, WriteBreaks(c) PROVE TypeOK'
  BY <1>5, <1>6 DEF WriteBreaks
<1>7. ASSUME NEW c \in Callers, Leave(c) PROVE TypeOK'
  <2>1. (IF taken[c] = Eof THEN Failed ELSE taken[c]) \in Calls \union {None, Failed, Eof}
    BY DEF TypeOK
  <2>2. writer' \in Callers \union {None}
    BY <1>7 DEF TypeOK, Leave
  <2>3. QED BY <1>5, <1>7, <2>1, <2>2 DEF Leave
<1>8. ASSUME NEW c \in Callers, Take(c) PROVE TypeOK'
  <2>1. call[c] \in Calls /\ queue[call[c]] \in Seq(Calls \union {Eof}) /\ queue[call[c]] # << >>
    BY <1>1, <1>8 DEF Take, TypeOK
  <2>2. Head(queue[call[c]]) \in Calls \union {Eof} /\ << >> \in Seq(Calls \union {Eof})
    BY <2>1
  <2>3. taken' \in [Callers -> Calls \union {None, Failed, Eof}]
        /\ queue' \in [Calls -> Seq(Calls \union {Eof})]
    BY <1>8, <2>2 DEF TypeOK, Take
  <2>4. QED BY <1>8, <2>3 DEF TypeOK, Take, readerVars, serverVars
<1>9. ASSUME NEW c \in Callers, TimeOut(c) PROVE TypeOK'
  BY <1>9 DEF TypeOK, TimeOut, clientVars, readerVars, serverVars
<1>10. CASE ReadLine
  <2>1. inHand' \in Calls /\ stdout' \in Seq(Calls)
    BY <1>10 DEF ReadLine, TypeOK
  <2>2. QED BY <1>10, <2>1 DEF TypeOK, ReadLine, callerVars, clientVars
<1>11. CASE Route \/ ReadEof \/ ReaderEnds
  BY <1>11 DEF TypeOK, Route, ReadEof, ReaderEnds, callerVars, clientVars, serverVars
<1>12. CASE Put
  <2>1. inHand \in Calls
    BY <1>12 DEF Put, RepliesAreReal, TypeOK
  <2>2. queue' \in [Calls -> Seq(Calls \union {Eof})]
    BY <1>2, <1>12, <2>1 DEF Put, TypeOK
  <2>3. QED BY <1>12, <2>2 DEF TypeOK, Put, callerVars, serverVars
<1>13. CASE CloseAndSnapshot
  BY <1>13 DEF TypeOK, CloseAndSnapshot, callerVars, serverVars
<1>14. CASE WakeNext
  <2>1. <<Eof>> \in Seq(Calls \union {Eof})
    OBVIOUS
  <2>2. PICK n : queue' = [queue EXCEPT ![n] = <<Eof>>] /\ toWake' = toWake \ {n}
    BY <1>14 DEF WakeNext
  <2>3. queue' \in [Calls -> Seq(Calls \union {Eof})]
    BY <2>1, <2>2 DEF TypeOK
  <2>4. QED BY <1>14, <2>2, <2>3 DEF TypeOK, WakeNext, callerVars, serverVars
<1>15. CASE ServerReads
  <2>1. handling' \in Calls /\ stdin' \in Seq(Calls)
    BY <1>15 DEF ServerReads, TypeOK
  <2>2. QED BY <1>15, <2>1 DEF TypeOK, ServerReads, callerVars, clientVars, readerVars
<1>16. CASE ServerReplies
  <2>1. handling \in Calls
    BY <1>16 DEF ServerReplies, TypeOK
  <2>2. stdout' \in Seq(Calls) /\ served' \subseteq Calls /\ handling' = None
    BY <1>16, <2>1 DEF ServerReplies, TypeOK
  <2>3. QED BY <1>16, <2>2 DEF TypeOK, ServerReplies, callerVars, clientVars, readerVars
<1>17. CASE ServerDies
  BY <1>17 DEF TypeOK, ServerDies, callerVars, clientVars, readerVars
<1>18. CASE UNCHANGED vars
  BY <1>18 DEF TypeOK, vars
<1>19. QED
  BY <1>3, <1>4, <1>6, <1>7, <1>8, <1>9, <1>10, <1>11, <1>12, <1>13, <1>14, <1>15, <1>16, <1>17, <1>18
  DEF Next, CallerStep, ReaderStep, ServerStep

-----------------------------------------------------------------------------
(* The other parts of the invariant, one by one.                            *)

\* The invariant holds before the first call.
LEMMA ClientInitial == Init => ClientInv
<1>1. Init => InCall /\ LockHeld /\ RepliesAreReal /\ RequestsAreReal /\ Closing
  <2>1. SUFFICES ASSUME Init PROVE InCall /\ LockHeld /\ RepliesAreReal /\ RequestsAreReal /\ Closing
    OBVIOUS
  <2>2. InCall
    BY <2>1 DEF Init, InCall
  <2>3. LockHeld
    BY <2>1, NoneAssumption DEF Init, LockHeld
  <2>4. RepliesAreReal
    BY <2>1 DEF Init, RepliesAreReal
  <2>5. RequestsAreReal /\ Closing
    BY <2>1 DEF Init, RequestsAreReal, Closing
  <2>6. QED BY <2>2, <2>3, <2>4, <2>5
<1>2. QED BY <1>1, TypeInitial DEF ClientInv

(* Every step keeps the callers' numbers apart and each of them in the      *)
(* table while it waits.                                                    *)
LEMMA InCallStep ==
  ASSUME TypeOK, InCall, [Next]_vars
  PROVE  InCall'
<1>1. ASSUME NEW c \in Callers, Begin(c) PROVE InCall'
  <2>1. /\ call' = [call EXCEPT ![c] = nextId] /\ waiters' = waiters \union {nextId}
        /\ nextId' = nextId + 1 /\ pc' = [pc EXCEPT ![c] = "writing"] /\ pc[c] = "idle"
        /\ nextId \in Nat
    BY <1>1 DEF Begin, TypeOK
  <2>2. \A d \in Callers : d # c => call'[d] = call[d] /\ pc'[d] = pc[d]
    BY <2>1 DEF TypeOK
  <2>3. call'[c] = nextId /\ pc'[c] = "writing"
    BY <2>1 DEF TypeOK
  <2>4. \A d \in Callers : pc[d] # "idle" =>
          call[d] \in waiters /\ call[d] < nextId /\ call[d] \in Nat /\ call[d] # nextId
    BY <2>1, CallsAreNumbers DEF InCall
  <2>5. \A d \in Callers : pc'[d] # "idle" => call'[d] \in waiters' /\ call'[d] < nextId'
    BY <2>1, <2>2, <2>3, <2>4
  <2>6. \A d, e \in Callers : pc'[d] # "idle" /\ pc'[e] # "idle" /\ call'[d] = call'[e] => d = e
    <3>1. SUFFICES ASSUME NEW d \in Callers, NEW e \in Callers,
                          pc'[d] # "idle", pc'[e] # "idle", call'[d] = call'[e]
                   PROVE  d = e
      OBVIOUS
    <3>2. CASE d # c /\ e # c
      BY <2>2, <3>1, <3>2 DEF InCall
    <3>3. CASE d = c \/ e = c
      BY <2>2, <2>3, <2>4, <3>1, <3>3
    <3>4. QED BY <3>2, <3>3
  <2>7. QED BY <2>5, <2>6 DEF InCall
<1>2. ASSUME NEW c \in Callers, NEW got, Finish(c, got), pc[c] # "idle" PROVE InCall'
  <2>1. /\ call' = call /\ waiters' = waiters \ {call[c]} /\ nextId' = nextId
        /\ pc' = [pc EXCEPT ![c] = "idle"]
    BY <1>2 DEF Finish
  <2>2. \A d \in Callers : pc'[d] # "idle" => d # c /\ pc[d] # "idle"
    BY <2>1 DEF TypeOK
  <2>3. QED BY <1>2, <2>1, <2>2 DEF InCall
<1>3. ASSUME NEW c \in Callers, UNCHANGED <<call, waiters, nextId>>, pc[c] # "idle",
             NEW at, pc' = [pc EXCEPT ![c] = at]
      PROVE  InCall'
  <2>1. \A d \in Callers : pc'[d] # "idle" => pc[d] # "idle"
    BY <1>3 DEF TypeOK
  <2>2. QED BY <1>3, <2>1 DEF InCall
<1>4. ASSUME UNCHANGED <<call, waiters, nextId, pc>> PROVE InCall'
  BY <1>4 DEF InCall
<1>5. ASSUME NEW c \in Callers, CallerStep(c) PROVE InCall'
  <2>1. CASE WriteRequest(c)
    BY <1>3, <2>1 DEF WriteRequest
  <2>2. CASE WriteBreaks(c)
    BY <1>2, <2>2 DEF WriteBreaks
  <2>3. CASE Take(c)
    BY <1>3, <2>3 DEF Take
  <2>4. CASE TimeOut(c)
    BY <1>3, <2>4 DEF TimeOut, clientVars
  <2>5. CASE Leave(c)
    BY <1>2, <2>5 DEF Leave
  <2>6. QED BY <1>5, <2>1, <2>2, <2>3, <2>4, <2>5 DEF CallerStep
<1>6. CASE ReaderStep
  BY <1>4, <1>6 DEF ReaderStep, ReadLine, Route, Put, ReadEof, CloseAndSnapshot, WakeNext,
                    ReaderEnds, callerVars, clientVars
<1>7. CASE ServerStep
  BY <1>4, <1>7 DEF ServerStep, ServerReads, ServerReplies, ServerDies, callerVars, clientVars
<1>8. CASE UNCHANGED vars
  BY <1>4, <1>8 DEF vars
<1>9. QED BY <1>1, <1>5, <1>6, <1>7, <1>8 DEF Next

(* The write lock has the one caller that writes: taken at the start, given *)
(* back on every way out.                                                   *)
LEMMA LockStep ==
  ASSUME TypeOK, LockHeld, [Next]_vars
  PROVE  LockHeld'
<1> USE NoneAssumption
<1>1. ASSUME NEW c \in Callers, Begin(c) PROVE LockHeld'
  BY <1>1 DEF Begin, LockFree, LockHeld, TypeOK
<1>2. ASSUME NEW c \in Callers, WriteRequest(c) PROVE LockHeld'
  BY <1>2 DEF WriteRequest, LockHeld, TypeOK
<1>3. ASSUME NEW c \in Callers, WriteBreaks(c) PROVE LockHeld'
  BY <1>3 DEF WriteBreaks, Finish, LockHeld, TypeOK
<1>4. ASSUME NEW c \in Callers, Take(c) PROVE LockHeld'
  BY <1>4 DEF Take, LockHeld, TypeOK
<1>5. ASSUME NEW c \in Callers, TimeOut(c) PROVE LockHeld'
  BY <1>5 DEF TimeOut, LockHeld, TypeOK, clientVars
<1>6. ASSUME NEW c \in Callers, Leave(c) PROVE LockHeld'
  BY <1>6 DEF Leave, Finish, LockHeld, TypeOK
<1>7. CASE ReaderStep
  BY <1>7 DEF ReaderStep, ReadLine, Route, Put, ReadEof, CloseAndSnapshot, WakeNext,
              ReaderEnds, callerVars, clientVars, LockHeld
<1>8. CASE ServerStep
  BY <1>8 DEF ServerStep, ServerReads, ServerReplies, ServerDies, callerVars, clientVars, LockHeld
<1>9. CASE UNCHANGED vars
  BY <1>9 DEF vars, LockHeld
<1>10. QED BY <1>1, <1>2, <1>3, <1>4, <1>5, <1>6, <1>7, <1>8, <1>9 DEF Next, CallerStep

\* What the server reads or handles was asked for by a caller.
LEMMA RequestsStep ==
  ASSUME TypeOK, InCall, RequestsAreReal, [Next]_vars
  PROVE  RequestsAreReal'
<1>1. ASSUME NEW c \in Callers, Begin(c) PROVE RequestsAreReal'
  <2>1. nextId' = nextId + 1 /\ stdin' = stdin /\ handling' = handling /\ nextId \in Nat
    BY <1>1 DEF Begin, serverVars, TypeOK
  <2>2. \A i \in 1..Len(stdin) : stdin[i] \in Nat
    <3>1. \A i \in 1..Len(stdin) : stdin[i] \in Calls
      BY DEF TypeOK
    <3>2. QED BY <3>1 DEF Calls
  <2>3. handling # None => handling \in Nat
    BY DEF TypeOK, Calls
  <2>4. QED BY <2>1, <2>2, <2>3 DEF RequestsAreReal
<1>2. ASSUME NEW c \in Callers, WriteRequest(c) PROVE RequestsAreReal'
  <2>1. call[c] \in Calls /\ call[c] < nextId
    BY <1>2, CallsAreNumbers DEF WriteRequest, InCall
  <2>2. stdin' = Append(stdin, call[c]) /\ handling' = handling /\ nextId' = nextId
    BY <1>2 DEF WriteRequest
  <2>3. stdin \in Seq(Calls)
    BY DEF TypeOK
  <2>4. \A i \in 1..Len(stdin') : (i \in 1..Len(stdin) /\ stdin'[i] = stdin[i]) \/ stdin'[i] = call[c]
    BY <2>1, <2>2, <2>3
  <2>5. QED BY <2>1, <2>2, <2>4 DEF RequestsAreReal
<1>3. ASSUME UNCHANGED <<stdin, handling, nextId>> PROVE RequestsAreReal'
  BY <1>3 DEF RequestsAreReal
<1>4. ASSUME NEW c \in Callers, WriteBreaks(c) \/ Take(c) \/ TimeOut(c) \/ Leave(c)
      PROVE  RequestsAreReal'
  BY <1>3, <1>4 DEF WriteBreaks, Take, TimeOut, Leave, Finish, clientVars, serverVars
<1>5. CASE ReaderStep
  BY <1>3, <1>5 DEF ReaderStep, ReadLine, Route, Put, ReadEof, CloseAndSnapshot, WakeNext,
                    ReaderEnds, clientVars, serverVars
<1>6. CASE ServerReads
  <2>1. /\ stdin \in Seq(Calls) /\ stdin # << >> /\ handling' = Head(stdin)
        /\ stdin' = Tail(stdin) /\ nextId' = nextId
    BY <1>6 DEF ServerReads, TypeOK, clientVars
  <2>2. handling' = stdin[1] /\ 1 \in 1..Len(stdin)
    BY <2>1
  <2>3. \A i \in 1..Len(stdin') : i + 1 \in 1..Len(stdin) /\ stdin'[i] = stdin[i + 1]
    BY <2>1
  <2>4. QED BY <2>1, <2>2, <2>3 DEF RequestsAreReal
<1>7. CASE ServerReplies
  BY <1>7 DEF ServerReplies, RequestsAreReal, clientVars
<1>8. CASE ServerDies
  BY <1>3, <1>8 DEF ServerDies, clientVars
<1>9. CASE UNCHANGED vars
  BY <1>3, <1>9 DEF vars
<1>10. QED BY <1>1, <1>2, <1>4, <1>5, <1>6, <1>7, <1>8, <1>9 DEF Next, CallerStep, ServerStep

(* Once the reader has seen the end of the output, whoever waits has been   *)
(* woken or will be.                                                        *)
LEMMA ClosingStep ==
  ASSUME TypeOK, InCall, LockHeld, Closing, [Next]_vars
  PROVE  Closing'
<1> USE NoneAssumption
<1>1. ASSUME NEW c \in Callers, Begin(c) PROVE Closing'
  BY <1>1 DEF Begin, Closing, readerVars, serverVars
<1>2. ASSUME NEW c \in Callers, WriteRequest(c) PROVE Closing'
  BY <1>2 DEF WriteRequest, Closing, readerVars
<1>3. ASSUME NEW c \in Callers, NEW got, Finish(c, got) PROVE Closing'
  <2>1. /\ UNCHANGED <<call, queue, closed, readerVars, serverVars>>
        /\ \A d \in Callers : pc'[d] = pc[d] \/ pc'[d] = "idle"
    BY <1>3 DEF Finish, TypeOK
  <2>2. QED BY <2>1 DEF Closing, readerVars, serverVars
<1>4. ASSUME NEW c \in Callers, Take(c) PROVE Closing'
  <2>1. /\ queue' = [queue EXCEPT ![call[c]] = << >>]
        /\ UNCHANGED <<call, closed, readerVars, serverVars>>
        /\ pc' = [pc EXCEPT ![c] = "leaving"] /\ pc[c] = "waiting"
    BY <1>4 DEF Take
  <2>2. \A d \in Callers : d # c => pc'[d] = pc[d]
    BY <2>1 DEF TypeOK
  <2>3. pc'[c] = "leaving"
    BY <2>1 DEF TypeOK
  <2>4. \A d \in Callers : d # c /\ pc[d] = "waiting" => queue'[call[d]] = queue[call[d]]
    <3>1. SUFFICES ASSUME NEW d \in Callers, d # c, pc[d] = "waiting"
                   PROVE  queue'[call[d]] = queue[call[d]]
      OBVIOUS
    <3>2. call[d] \in Calls /\ call[d] # call[c]
      BY <2>1, <3>1, CallsAreNumbers DEF InCall
    <3>3. QED BY <2>1, <3>2 DEF TypeOK
  <2>5. QED BY <2>1, <2>2, <2>3, <2>4 DEF Closing, readerVars, serverVars
<1>5. ASSUME NEW c \in Callers, TimeOut(c) PROVE Closing'
  <2>1. /\ UNCHANGED <<call, queue, closed, readerVars, serverVars>>
        /\ \A d \in Callers : pc'[d] = pc[d] \/ pc'[d] = "leaving"
    BY <1>5 DEF TimeOut, TypeOK, clientVars
  <2>2. QED BY <2>1 DEF Closing, readerVars, serverVars
<1>6. CASE ReadLine \/ Route \/ ReadEof
  BY <1>6 DEF ReadLine, Route, ReadEof, Closing, callerVars, clientVars, serverVars
<1>7. CASE Put
  BY <1>7 DEF Put, Closing, callerVars, serverVars
<1>8. CASE CloseAndSnapshot
  <2>1. /\ reader = "closing" /\ writer = None /\ closed' = TRUE /\ toWake' = waiters /\ reader' = "waking"
        /\ UNCHANGED <<pc, call, queue, alive>>
    BY <1>8 DEF CloseAndSnapshot, LockFree, callerVars, serverVars
  <2>2. \A c \in Callers : pc[c] # "writing" /\ (pc[c] = "waiting" => call[c] \in waiters)
    BY <2>1 DEF LockHeld, InCall
  <2>3. QED BY <2>1, <2>2 DEF Closing
<1>9. CASE WakeNext
  <2>1. PICK n : /\ queue' = [queue EXCEPT ![n] = <<Eof>>] /\ toWake' = toWake \ {n}
    BY <1>9 DEF WakeNext
  <2>2. reader = "waking" /\ UNCHANGED <<pc, call, closed, reader, alive>>
    BY <1>9 DEF WakeNext, callerVars, serverVars
  <2>3. ASSUME NEW c \in Callers, pc[c] = "waiting"
        PROVE  call[c] \in toWake' \/ queue'[call[c]] # << >>
    <3>1. call[c] \in Calls
      BY <2>3, CallsAreNumbers
    <3>2. CASE call[c] = n
      BY <2>1, <3>1, <3>2 DEF TypeOK
    <3>3. CASE call[c] # n
      BY <2>1, <2>2, <2>3, <3>1, <3>3 DEF TypeOK, Closing
    <3>4. QED BY <3>2, <3>3
  <2>4. QED BY <2>2, <2>3 DEF Closing
<1>10. CASE ReaderEnds
  BY <1>10 DEF ReaderEnds, Closing, callerVars, clientVars, serverVars
<1>11. CASE ServerStep
  BY <1>11 DEF ServerStep, ServerReads, ServerReplies, ServerDies, Closing, callerVars, clientVars, readerVars
<1>12. CASE UNCHANGED vars
  BY <1>12 DEF vars, Closing
<1>13. QED
  BY <1>1, <1>2, <1>3, <1>4, <1>5, <1>6, <1>7, <1>8, <1>9, <1>10, <1>11, <1>12
  DEF Next, CallerStep, ReaderStep, WriteBreaks, Leave

\* What travels to a caller is an answer to a request, to each at most once.
LEMMA RepliesStep ==
  ASSUME TypeOK, InCall, RepliesAreReal, [Next]_vars
  PROVE  RepliesAreReal'
<1>1. ASSUME NEW c \in Callers, NEW at \in {"idle", "writing", "waiting"},
             pc' = [pc EXCEPT ![c] = at], taken' = taken,
             \A d \in Callers : d # c => call'[d] = call[d],
             UNCHANGED <<queue, readerVars, stdout, served>>
      PROVE  RepliesAreReal'
  <2>1. \A d \in Callers : pc'[d] = "leaving" => d # c /\ pc[d] = "leaving"
    BY <1>1 DEF TypeOK
  <2>2. QED BY <1>1, <2>1 DEF RepliesAreReal, readerVars
<1>2. ASSUME NEW c \in Callers, Begin(c) PROVE RepliesAreReal'
  <2>1. \A d \in Callers : d # c => call'[d] = call[d]
    BY <1>2 DEF Begin, TypeOK
  <2>2. QED BY <1>1, <1>2, <2>1 DEF Begin, serverVars
<1>3. ASSUME NEW c \in Callers, WriteRequest(c) PROVE RepliesAreReal'
  BY <1>1, <1>3 DEF WriteRequest
<1>4. ASSUME NEW c \in Callers, WriteBreaks(c) \/ Leave(c) PROVE RepliesAreReal'
  BY <1>1, <1>4 DEF WriteBreaks, Leave, Finish, serverVars
<1>5. ASSUME NEW c \in Callers, NEW got, pc' = [pc EXCEPT ![c] = "leaving"],
             taken' = [taken EXCEPT ![c] = got],
             got \in {Eof, Failed} \/ (got = call[c] /\ call[c] \in served),
             \A n \in Calls : queue'[n] = queue[n] \/ queue'[n] = << >>,
             UNCHANGED <<call, readerVars, serverVars>>
      PROVE  RepliesAreReal'
  <2>1. \A d \in Callers : pc'[d] = "leaving" =>
          \/ d # c /\ pc[d] = "leaving" /\ taken'[d] = taken[d]
          \/ d = c /\ taken'[d] = got
    BY <1>5 DEF TypeOK
  <2>2. \A d \in Callers : pc'[d] = "leaving" =>
          taken'[d] \in {Eof, Failed} \/ (taken'[d] = call[d] /\ call[d] \in served)
    BY <1>5, <2>1 DEF RepliesAreReal
  <2>3. QED BY <1>5, <2>2 DEF RepliesAreReal, readerVars, serverVars
<1>6. ASSUME NEW c \in Callers, Take(c) PROVE RepliesAreReal'
  <2>1. call[c] \in Calls /\ queue[call[c]] # << >>
    BY <1>6, CallsAreNumbers DEF Take
  <2>2. queue[call[c]] = <<Eof>> \/ (queue[call[c]] = <<call[c]>> /\ call[c] \in served)
    BY <2>1 DEF RepliesAreReal
  <2>3. Head(queue[call[c]]) \in {Eof, Failed} \/ (Head(queue[call[c]]) = call[c] /\ call[c] \in served)
    BY <2>2
  <2>4. \A n \in Calls : queue'[n] = queue[n] \/ queue'[n] = << >>
    BY <1>6 DEF Take, TypeOK
  <2>5. QED BY <1>5, <1>6, <2>3, <2>4 DEF Take
<1>7. ASSUME NEW c \in Callers, TimeOut(c) PROVE RepliesAreReal'
  BY <1>5, <1>7 DEF TimeOut, clientVars
<1>8. CASE ReadLine
  <2>1. /\ stdout \in Seq(Calls) /\ stdout # << >> /\ inHand' = Head(stdout)
        /\ stdout' = Tail(stdout) /\ UNCHANGED <<pc, call, taken, queue, served>>
    BY <1>8 DEF ReadLine, TypeOK, callerVars, clientVars
  <2>2. inHand' = stdout[1] /\ 1 \in 1..Len(stdout)
    BY <2>1
  <2>3. \A i \in 1..Len(stdout') : i + 1 \in 1..Len(stdout) /\ stdout'[i] = stdout[i + 1]
    BY <2>1
  <2>4. QED BY <2>1, <2>2, <2>3 DEF RepliesAreReal
<1>9. CASE Route
  BY <1>9 DEF Route, RepliesAreReal, callerVars, clientVars, serverVars
<1>10. CASE Put
  <2>1. /\ inHand \in served /\ queue' = [queue EXCEPT ![inHand] = <<inHand>>] /\ reader' = "reading"
        /\ UNCHANGED <<pc, call, taken, stdout, served>>
    BY <1>10 DEF Put, RepliesAreReal, callerVars, serverVars
  <2>2. \A n \in Calls : n # inHand => queue'[n] = queue[n]
    BY <2>1 DEF TypeOK
  <2>3. inHand \in Calls => queue'[inHand] = <<inHand>>
    BY <2>1 DEF TypeOK
  <2>4. QED BY <2>1, <2>2, <2>3 DEF RepliesAreReal
<1>11. CASE ReadEof \/ CloseAndSnapshot \/ ReaderEnds
  BY <1>11 DEF ReadEof, CloseAndSnapshot, ReaderEnds, RepliesAreReal, callerVars, clientVars, serverVars
<1>12. CASE WakeNext
  <2>1. PICK m : queue' = [queue EXCEPT ![m] = <<Eof>>]
    BY <1>12 DEF WakeNext
  <2>2. \A n \in Calls : queue'[n] = queue[n] \/ queue'[n] = <<Eof>>
    BY <2>1 DEF TypeOK
  <2>3. UNCHANGED <<pc, call, taken, stdout, served, inHand, reader>>
    BY <1>12 DEF WakeNext, callerVars, serverVars
  <2>4. QED BY <2>2, <2>3 DEF RepliesAreReal
<1>13. CASE ServerReplies
  <2>1. /\ stdout \in Seq(Calls) /\ handling \in Calls /\ stdout' = Append(stdout, handling)
        /\ served' = served \union {handling}
        /\ UNCHANGED <<pc, call, taken, queue, reader, inHand>>
    BY <1>13 DEF ServerReplies, TypeOK, callerVars, clientVars, readerVars
  <2>2. \A i \in 1..Len(stdout') : stdout'[i] \in served'
    <3>1. \A i \in 1..Len(stdout') : (i \in 1..Len(stdout) /\ stdout'[i] = stdout[i]) \/ stdout'[i] = handling
      BY <2>1
    <3>2. QED BY <2>1, <3>1 DEF RepliesAreReal
  <2>3. QED BY <2>1, <2>2 DEF RepliesAreReal
<1>14. CASE ServerReads \/ ServerDies
  BY <1>14 DEF ServerReads, ServerDies, RepliesAreReal, callerVars, clientVars, readerVars
<1>15. CASE UNCHANGED vars
  BY <1>15 DEF vars, RepliesAreReal
<1>16. QED
  BY <1>2, <1>3, <1>4, <1>6, <1>7, <1>8, <1>9, <1>10, <1>11, <1>12, <1>13, <1>14, <1>15
  DEF Next, CallerStep, ReaderStep, ServerStep

\* Every step keeps the whole invariant.
LEMMA ClientStep == ClientInv /\ [Next]_vars => ClientInv'
  BY TypeStep, InCallStep, LockStep, RequestsStep, ClosingStep, RepliesStep DEF ClientInv

(* In every run: whoever is in a call has a number of its own and is in the *)
(* table, one thread writes at a time, what is on its way to a caller is    *)
(* the reply to that very call, and the reader forgets nobody it leaves.    *)
THEOREM ClientInvariant == Spec => []ClientInv
<1>1. QED BY ClientInitial, ClientStep, PTL DEF Spec

(* Whoever waits when the reader has gone finds something in its queue: no  *)
(* call slips in between the snapshot of the waiters and the closing of the *)
(* client (find_evil_auto.py:849-854 against :876-886).                     *)
THEOREM NobodyIsForgotten == Spec => []NobodyWaitsOnADeadReader
<1>1. ClientInv => NobodyWaitsOnADeadReader
  BY DEF ClientInv, Closing, NobodyWaitsOnADeadReader
<1>2. QED BY <1>1, ClientInvariant, PTL

-----------------------------------------------------------------------------
(* The promise.                                                             *)

\* Who is in a call, seen from outside.
Calling == [c \in Callers |-> IF pc[c] = "idle" THEN None ELSE call[c]]

\* The client starts where the promise starts: nobody is in a call.
LEMMA PromiseInitial == Init => Promise!Init
<1>1. SUFFICES ASSUME Init PROVE Promise!Init
  OBVIOUS
<1>2. Calling = [c \in Callers |-> None]
  BY <1>1 DEF Init, Calling
<1>3. 1..(nextId - 1) = {}
  BY <1>1 DEF Init
<1>4. QED BY <1>1, <1>2, <1>3 DEF Init, Promise!Init, Calling, NoOutcome, Promise!NoOutcome

\* Every step of the client, its reader and the server is a step of the
\* promise or leaves what it speaks of as it was.
LEMMA PromiseStep ==
  ASSUME ClientInv, [Next]_vars
  PROVE  [Promise!Next]_(Promise!vars)
<1> USE NoneAssumption
<1>1. TypeOK /\ TypeOK' /\ InCall
  BY TypeStep DEF ClientInv
<1>2. \A c \in Callers : pc[c] # "idle" => call[c] \in Calls /\ call[c] # None
  BY <1>1, CallsAreNumbers
<1>3. ASSUME UNCHANGED <<nextId, served, outcome>>, Calling' = Calling
      PROVE  UNCHANGED Promise!vars
  BY <1>3 DEF Promise!vars, Calling
<1>4. ASSUME NEW c \in Callers, Begin(c) PROVE Promise!Ask(c)
  <2>1. Calling[c] = None
    BY <1>4 DEF Begin, Calling
  <2>2. nextId \in Calls \ 1..(nextId - 1)
    BY <1>1, <1>4, CallsAssumption DEF Begin, TypeOK, Calls
  <2>3. Calling' = [Calling EXCEPT ![c] = nextId]
    <3>1. pc' = [pc EXCEPT ![c] = "writing"] /\ call' = [call EXCEPT ![c] = nextId]
      BY <1>4 DEF Begin
    <3>2. QED BY <1>1, <3>1 DEF Calling, TypeOK
  <2>4. 1..(nextId' - 1) = 1..(nextId - 1) \union {nextId}
    BY <1>1, <1>4 DEF Begin, TypeOK
  <2>5. UNCHANGED <<served, outcome>>
    BY <1>4 DEF Begin, serverVars
  <2>6. QED BY <2>1, <2>2, <2>3, <2>4, <2>5 DEF Promise!Ask, Calling
<1>5. ASSUME NEW c \in Callers, NEW got, pc[c] # "idle", Finish(c, got)
      PROVE  /\ Calling[c] = call[c] /\ Promise!EndWith(c, got)
  <2>1. Calling[c] = call[c] /\ call[c] # None
    BY <1>2, <1>5 DEF Calling
  <2>2. Calling' = [Calling EXCEPT ![c] = None]
    <3>1. pc' = [pc EXCEPT ![c] = "idle"] /\ call' = call
      BY <1>5 DEF Finish
    <3>2. QED BY <1>1, <3>1 DEF Calling, TypeOK
  <2>3. outcome' = [outcome EXCEPT ![c] = [call |-> Calling[c], got |-> got]]
    BY <1>5, <2>1 DEF Finish
  <2>4. UNCHANGED <<nextId, served>>
    BY <1>5 DEF Finish, serverVars
  <2>5. QED BY <2>1, <2>2, <2>3, <2>4 DEF Promise!EndWith, Calling
<1>6. ASSUME NEW c \in Callers, WriteBreaks(c) PROVE Promise!Fails(c)
  BY <1>5, <1>6 DEF WriteBreaks, Promise!Fails
<1>7. ASSUME NEW c \in Callers, Leave(c) PROVE Promise!Answered(c) \/ Promise!Fails(c)
  <2>1. pc[c] = "leaving" /\ Finish(c, IF taken[c] = Eof THEN Failed ELSE taken[c])
    BY <1>7 DEF Leave
  <2>2. taken[c] \in {Eof, Failed} \/ (taken[c] = call[c] /\ call[c] \in served)
    BY <2>1 DEF ClientInv, RepliesAreReal
  <2>3. CASE taken[c] \in {Eof, Failed}
    <3>1. Finish(c, Failed)
      BY <2>1, <2>3
    <3>2. QED BY <1>5, <2>1, <3>1 DEF Promise!Fails
  <2>4. CASE taken[c] \notin {Eof, Failed}
    <3>1. Finish(c, call[c]) /\ call[c] \in served
      BY <2>1, <2>2, <2>4
    <3>2. PICK n : n = call[c]
      OBVIOUS
    <3>3. Calling[c] = n /\ Promise!EndWith(c, n)
      BY <1>5, <2>1, <3>1, <3>2 DEF Finish
    <3>4. QED BY <3>1, <3>2, <3>3 DEF Promise!Answered, Promise!EndWith, Calling
  <2>5. QED BY <2>3, <2>4
<1>8. ASSUME NEW c \in Callers, NEW at \in {"waiting", "leaving"}, pc[c] # "idle",
             pc' = [pc EXCEPT ![c] = at], UNCHANGED <<call, nextId, served, outcome>>
      PROVE  UNCHANGED Promise!vars
  <2>1. Calling' = Calling
    BY <1>1, <1>8 DEF Calling, TypeOK
  <2>2. QED BY <1>3, <1>8, <2>1
<1>9. ASSUME NEW c \in Callers, WriteRequest(c) \/ Take(c) \/ TimeOut(c)
      PROVE  UNCHANGED Promise!vars
  BY <1>8, <1>9 DEF WriteRequest, Take, TimeOut, clientVars, serverVars
<1>10. ASSUME UNCHANGED <<callerVars, nextId, served>> PROVE UNCHANGED Promise!vars
  BY <1>3, <1>10 DEF callerVars, Calling
<1>11. CASE ReaderStep
  BY <1>10, <1>11 DEF ReaderStep, ReadLine, Route, Put, ReadEof, CloseAndSnapshot, WakeNext,
                      ReaderEnds, clientVars, serverVars
<1>12. CASE ServerReads \/ ServerDies
  BY <1>10, <1>12 DEF ServerReads, ServerDies, clientVars
<1>13. CASE ServerReplies
  <2>1. handling \in Calls /\ served' = served \union {handling}
    BY <1>1, <1>13 DEF ServerReplies, TypeOK
  <2>2. UNCHANGED <<pc, call, nextId, outcome>>
    BY <1>13 DEF ServerReplies, callerVars, clientVars
  <2>3. Calling' = Calling
    BY <2>2 DEF Calling
  <2>4. CASE handling \in served
    <3>1. served' = served
      BY <2>1, <2>4
    <3>2. QED BY <1>3, <2>2, <2>3, <3>1
  <2>5. CASE handling \notin served
    <3>1. handling < nextId /\ handling \in Nat /\ handling >= 1 /\ nextId \in Nat
      BY <1>1, <1>13, <2>1 DEF ClientInv, RequestsAreReal, ServerReplies, TypeOK, Calls
    <3>2. handling \in 1..(nextId - 1) \ served
      BY <2>5, <3>1
    <3>3. Promise!Serve(handling)
      BY <2>1, <2>2, <2>3, <3>2 DEF Promise!Serve, Calling
    <3>4. QED BY <2>1, <3>3 DEF Promise!Next
  <2>6. QED BY <2>4, <2>5
<1>14. CASE UNCHANGED vars
  BY <1>10, <1>14 DEF vars, callerVars
<1>15. QED
  BY <1>4, <1>6, <1>7, <1>9, <1>11, <1>12, <1>13, <1>14
  DEF Next, CallerStep, ServerStep, Promise!Next

(* A call ends with the reply to that very call or with a failure, in spite *)
(* of timeouts, late replies and a dying server: the client implements the  *)
(* promise, step by step.                                                   *)
THEOREM ThePromiseIsKept == Spec => KeepsPromise
<1>1. ClientInv /\ [Next]_vars => [Promise!Next]_(Promise!vars)
  BY PromiseStep
<1>2. QED BY PromiseInitial, <1>1, ClientInvariant, PTL DEF Spec, KeepsPromise

-----------------------------------------------------------------------------
(* The agent's client, module StdioClient: the same promise, without a      *)
(* table of waiters and without a look at the ids.                          *)

\* What StdioClient declares and EngineRpc does not; the names both have mean
\* here what they mean there.
CONSTANT MaxTimeouts
VARIABLES lock, current, timeouts, readers, inRead, got, proc, stdinOpen

Stdio == INSTANCE StdioClient

\* Of the threads that joins left behind one at most is still in readline.
OneLeftBehind == \A s, t \in readers \ {current} : s = t

StdioTypes ==
  /\ pc \in [Callers -> {"idle", "checked", "writing", "reading"}]
  /\ lock \in Callers \union {None}
  /\ nextId \in 1..(MaxCalls + 1)
  /\ current \in Calls \union {None}
  /\ timeouts \in Nat
  /\ readers \subseteq Calls
  /\ inRead \in Calls \union {None}
  /\ got \in [Calls -> Calls \union {None, Eof}]
  /\ proc \in {"none", "up", "down"}
  /\ stdin \in Seq(Calls) /\ stdout \in Seq(Calls)
  /\ handling \in Calls \union {None}
  /\ served \subseteq Calls

\* Whoever is in a call holds the lock, and its call is the newest.
OneInside ==
  /\ \A c \in Callers : pc[c] \in {"writing", "reading"} <=> lock = c
  /\ lock = None <=> current = None
  /\ current # None => current = nextId - 1

\* The number of the newest request that was written or given up.
Newest == IF \E c \in Callers : pc[c] = "writing" THEN nextId - 2 ELSE nextId - 1

\* Only what was written has a reader, is on its way, or is answered.
OnlyWritten ==
  /\ \A n \in readers \union served : n <= Newest
  /\ \A i \in DOMAIN stdin : stdin[i] <= Newest
  /\ handling # None => handling <= Newest
  /\ \A n \in Calls : got[n] # None => n <= Newest

\* Requests and replies are on their way in the order of the calls.
InLine ==
  /\ \A i, j \in DOMAIN stdin : i < j => stdin[i] < stdin[j]
  /\ \A i, j \in DOMAIN stdout : i < j => stdout[i] < stdout[j]
  /\ \A i \in DOMAIN stdin : /\ stdin[i] \notin served
                             /\ handling # None => handling < stdin[i]
                             /\ \A j \in DOMAIN stdout : stdout[j] < stdin[i]
  /\ \A j \in DOMAIN stdout : /\ stdout[j] \in served
                              /\ handling # None => stdout[j] < handling
  /\ handling # None => handling \notin served

Written == {stdin[i] : i \in DOMAIN stdin}
Replied == {stdout[i] : i \in DOMAIN stdout}

\* The thread with the buffer is the oldest one, and the replies that came
\* are those to the oldest threads; while the server runs it owes a reply to
\* each thread and to nobody else.
EachHasAReader ==
  /\ IF readers = {} THEN inRead = None
     ELSE inRead \in readers /\ \A t \in readers : inRead <= t
  /\ Replied \subseteq readers
  /\ \A m \in Replied, t \in readers : t < m => t \in Replied
  /\ proc # "down" => readers = Replied \union Written \union ({handling} \ {None})

\* A thread brings nothing, the end of file, or the reply to its own call.
OwnReplies ==
  /\ \A n \in readers : got[n] = None
  /\ \A n \in Calls : got[n] \in {None, Eof} \/ (got[n] = n /\ n \in served)

StdioInv == StdioTypes /\ OneInside /\ OnlyWritten /\ InLine /\ EachHasAReader /\ OwnReplies

\* In the beginning nothing is under way.
LEMMA StdioInitial == Stdio!Init => StdioInv
<1> SUFFICES ASSUME Stdio!Init PROVE StdioInv
  OBVIOUS
<1> USE CallsAssumption, NoneAssumption DEF Stdio!Init, Stdio!Calls, Calls
<1>1. << >> \in Seq(Calls) /\ DOMAIN << >> = {}
  OBVIOUS
<1>2. StdioTypes
  <2>1. nextId \in 1..(MaxCalls + 1) /\ timeouts \in Nat
    OBVIOUS
  <2>2. stdin \in Seq(Calls) /\ stdout \in Seq(Calls)
    BY <1>1
  <2>3. QED BY <2>1, <2>2 DEF StdioTypes
<1>3. OneInside
  BY DEF OneInside
<1>4. OnlyWritten /\ InLine
  BY <1>1 DEF OnlyWritten, InLine
<1>5. EachHasAReader /\ OwnReplies
  BY <1>1 DEF EachHasAReader, OwnReplies, Replied, Written
<1>6. QED BY <1>2, <1>3, <1>4, <1>5 DEF StdioInv

\* Steps that leave the pipes, the numbers and the threads alone: the look at
\* the closed flag, a server that does not start, close(), the server's end.
LEMMA StdioQuiet ==
  ASSUME StdioInv,
         UNCHANGED <<lock, nextId, current, timeouts, readers, inRead, got,
                     stdin, stdout, handling, served>>,
         pc' \in [Callers -> {"idle", "checked", "writing", "reading"}],
         \A c \in Callers : /\ pc'[c] = "writing" <=> pc[c] = "writing"
                            /\ pc'[c] = "reading" <=> pc[c] = "reading",
         proc' = proc \/ proc' = "down"
  PROVE  StdioInv'
<1>1. StdioTypes'
  BY DEF StdioInv, StdioTypes
<1>2. OneInside'
  BY DEF StdioInv, OneInside
<1>3. Newest' = Newest
  BY DEF Newest
<1>4. OnlyWritten' /\ InLine'
  BY <1>3 DEF StdioInv, OnlyWritten, InLine
<1>5. EachHasAReader' /\ OwnReplies'
  BY DEF StdioInv, EachHasAReader, OwnReplies, Replied, Written
<1>6. QED BY <1>1, <1>2, <1>4, <1>5 DEF StdioInv

\* A call begins: it is inside alone, and has written nothing yet.
LEMMA StdioEnter ==
  ASSUME StdioInv, NEW c \in Callers, Stdio!Enter(c)
  PROVE  StdioInv'
<1> USE CallsAssumption, NoneAssumption DEF Calls
<1>1. /\ pc' = [pc EXCEPT ![c] = "writing"] /\ pc[c] = "checked" /\ lock = None /\ lock' = c
      /\ current' = nextId /\ nextId' = nextId + 1 /\ nextId <= MaxCalls
      /\ UNCHANGED <<timeouts, readers, inRead, got, stdin, stdout, handling, served>>
      /\ proc' = IF proc = "none" THEN "up" ELSE proc
  BY DEF Stdio!Enter, Stdio!TakeNumber, Stdio!StartServerIfNone, Stdio!readerVars
<1>2. StdioTypes'
  <2>1. pc' \in [Callers -> {"idle", "checked", "writing", "reading"}]
    BY <1>1 DEF StdioInv, StdioTypes
  <2>2. nextId' \in 1..(MaxCalls + 1) /\ current' \in Calls
    BY <1>1 DEF StdioInv, StdioTypes
  <2>3. QED BY <1>1, <2>1, <2>2 DEF StdioInv, StdioTypes
<1>3. \A d \in Callers : pc[d] \notin {"writing", "reading"}
  BY <1>1 DEF StdioInv, OneInside
<1>4. OneInside'
  <2>1. \A d \in Callers : pc'[d] \in {"writing", "reading"} <=> d = c
    BY <1>1, <1>3 DEF StdioInv, StdioTypes
  <2>2. current' = nextId' - 1 /\ current' # None /\ lock' # None
    BY <1>1 DEF StdioInv, StdioTypes
  <2>3. QED BY <1>1, <2>1, <2>2 DEF OneInside
<1>5. Newest' = Newest
  <2>1. pc'[c] = "writing"
    BY <1>1 DEF StdioInv, StdioTypes
  <2>2. Newest = nextId - 1 /\ Newest' = (nextId + 1) - 2
    BY <1>1, <1>3, <2>1 DEF Newest
  <2>3. QED BY <2>2 DEF StdioInv, StdioTypes
<1>6. OnlyWritten' /\ InLine'
  BY <1>1, <1>5 DEF StdioInv, OnlyWritten, InLine
<1>7. EachHasAReader' /\ OwnReplies'
  BY <1>1 DEF StdioInv, StdioTypes, EachHasAReader, OwnReplies, Replied, Written
<1>8. QED BY <1>2, <1>4, <1>6, <1>7 DEF StdioInv

\* A call ends: nobody is inside.  A request that could not be written is as
\* one that was.
LEMMA StdioEnds ==
  ASSUME StdioInv, NEW c \in Callers, NEW result, pc[c] \in {"writing", "reading"},
         Stdio!EndCall(c, result), timeouts' \in Nat,
         UNCHANGED <<readers, inRead, got>>
  PROVE  StdioInv'
<1> USE CallsAssumption, NoneAssumption DEF Calls
<1>1. /\ pc' = [pc EXCEPT ![c] = "idle"] /\ lock' = None /\ current' = None
      /\ UNCHANGED <<nextId, proc, stdin, stdout, handling, served>>
  BY DEF Stdio!EndCall, Stdio!serverVars
<1>2. StdioTypes'
  BY <1>1 DEF StdioInv, StdioTypes
<1>3. lock = c /\ \A d \in Callers : pc[d] \in {"writing", "reading"} => d = c
  BY DEF StdioInv, OneInside
<1>4. \A d \in Callers : pc'[d] \notin {"writing", "reading"}
  BY <1>1, <1>3 DEF StdioInv, StdioTypes
<1>5. OneInside'
  BY <1>1, <1>4 DEF OneInside
<1>6. Newest' \in Int /\ Newest \in Int /\ Newest <= Newest'
  <2>1. Newest' = nextId - 1
    BY <1>1, <1>4 DEF Newest
  <2>2. QED BY <2>1 DEF StdioInv, StdioTypes, Newest
<1>7. /\ \A n \in Calls : n <= Newest => n <= Newest'
      /\ \A i \in DOMAIN stdin : stdin[i] \in Calls
  <2>1. \A i \in DOMAIN stdin : stdin[i] \in Calls
    BY DEF StdioInv, StdioTypes
  <2>2. ASSUME NEW n \in Calls, n <= Newest PROVE n <= Newest'
    BY <1>6, <2>2
  <2>3. QED BY <2>1, <2>2
<1>8. OnlyWritten'
  BY <1>1, <1>7 DEF StdioInv, StdioTypes, OnlyWritten
<1>9. InLine' /\ EachHasAReader' /\ OwnReplies'
  BY <1>1 DEF StdioInv, InLine, EachHasAReader, OwnReplies, Replied, Written
<1>10. QED BY <1>2, <1>5, <1>8, <1>9 DEF StdioInv

\* A request is written: the newest of all, and its thread the last in line.
LEMMA StdioWrites ==
  ASSUME StdioInv, NEW c \in Callers, Stdio!WriteRequest(c)
  PROVE  StdioInv'
<1> USE CallsAssumption, NoneAssumption DEF Calls
<1> DEFINE n == nextId - 1
<1>1. /\ pc[c] = "writing" /\ proc = "up" /\ pc' = [pc EXCEPT ![c] = "reading"]
      /\ stdin' = Append(stdin, current) /\ readers' = readers \union {current}
      /\ inRead' = IF inRead = None THEN current ELSE inRead
      /\ UNCHANGED <<lock, nextId, current, timeouts, got, proc, stdout, handling, served>>
  BY DEF Stdio!WriteRequest, Stdio!clientVars
<1>2. lock = c /\ current = n /\ n \in Calls
  <2>1. lock = c /\ current # None
    BY <1>1 DEF StdioInv, OneInside
  <2>2. QED BY <2>1 DEF StdioInv, OneInside, StdioTypes
<1>3. \A d \in Callers : pc[d] \in {"writing", "reading"} <=> d = c
  BY <1>2 DEF StdioInv, OneInside
<1>4. \A d \in Callers : pc'[d] \in {"writing", "reading"} <=> d = c
  BY <1>1, <1>3 DEF StdioInv, StdioTypes
<1>5. pc'[c] = "reading"
  BY <1>1 DEF StdioInv, StdioTypes
<1>6. Newest = n - 1 /\ Newest' = n
  <2>1. Newest = nextId - 2
    BY <1>1 DEF Newest
  <2>2. \A d \in Callers : pc'[d] # "writing"
    BY <1>4, <1>5
  <2>3. QED BY <1>1, <2>1, <2>2 DEF Newest, StdioInv, StdioTypes
<1>7. /\ \A m \in readers \union served : m < n
      /\ \A i \in DOMAIN stdin : stdin[i] \in Calls /\ stdin[i] < n
      /\ handling # None => handling < n
      /\ \A m \in Calls : got[m] # None => m < n
      /\ \A i \in DOMAIN stdout : stdout[i] \in Calls /\ stdout[i] < n
  <2>1. \A m \in Calls : m <= n - 1 <=> m < n
    BY <1>2
  <2>2. /\ \A i \in DOMAIN stdin : stdin[i] \in Calls
        /\ \A i \in DOMAIN stdout : stdout[i] \in Calls /\ stdout[i] \in served
        /\ readers \union served \subseteq Calls
        /\ handling # None => handling \in Calls
    BY DEF StdioInv, StdioTypes, InLine
  <2>3. QED BY <1>6, <2>1, <2>2 DEF StdioInv, OnlyWritten
<1>8. /\ stdin' \in Seq(Calls) /\ DOMAIN stdin' = DOMAIN stdin \union {Len(stdin) + 1}
      /\ stdin'[Len(stdin) + 1] = n /\ \A i \in DOMAIN stdin : stdin'[i] = stdin[i]
      /\ DOMAIN stdin = 1..Len(stdin) /\ Len(stdin) \in Nat
  BY <1>1, <1>2 DEF StdioInv, StdioTypes
<1>9. StdioTypes'
  BY <1>1, <1>2, <1>8 DEF StdioInv, StdioTypes
<1>10. OneInside'
  BY <1>1, <1>2, <1>4 DEF StdioInv, OneInside
<1> HIDE DEF n
<1>11. n \in Nat
  BY <1>2
<1>12. OnlyWritten'
  <2>1. \A m \in Calls : m < n => m <= n
    BY <1>11
  <2>2. readers \union served \subseteq Calls /\ (handling # None => handling \in Calls)
    BY DEF StdioInv, StdioTypes
  <2>3. n <= n
    BY <1>11
  <2>4. QED BY <1>1, <1>2, <1>6, <1>7, <1>8, <2>1, <2>2, <2>3 DEF OnlyWritten
<1>13. InLine'
  <2>1. \A i, j \in DOMAIN stdin' : i < j => stdin'[i] < stdin'[j]
    <3>1. ASSUME NEW i \in DOMAIN stdin', NEW j \in DOMAIN stdin', i < j
          PROVE  stdin'[i] < stdin'[j]
      <4>1. i \in DOMAIN stdin
        BY <1>8, <3>1
      <4>2. CASE j \in DOMAIN stdin
        BY <1>8, <3>1, <4>1, <4>2 DEF StdioInv, InLine
      <4>3. CASE j = Len(stdin) + 1
        BY <1>7, <1>8, <4>1, <4>3
      <4>4. QED BY <1>8, <4>2, <4>3
    <3>2. QED BY <3>1
  <2>2. n \notin served /\ n # None
    BY <1>2, <1>7, <1>11
  <2>3. \A i \in DOMAIN stdin' : /\ stdin'[i] \notin served
                                 /\ handling # None => handling < stdin'[i]
                                 /\ \A j \in DOMAIN stdout : stdout[j] < stdin'[i]
    BY <1>7, <1>8, <2>2 DEF StdioInv, InLine
  <2>4. QED BY <1>1, <2>1, <2>3 DEF StdioInv, InLine
<1>14. EachHasAReader'
  <2>1. Written' = Written \union {n} /\ Replied' = Replied
    BY <1>1, <1>8 DEF Written, Replied
  <2>2. readers' = readers \union {n}
    BY <1>1, <1>2
  <2>3. readers' = Replied' \union Written' \union ({handling'} \ {None})
    BY <1>1, <2>1, <2>2 DEF StdioInv, EachHasAReader
  <2>4. \A m \in Replied : m \in Calls /\ m < n
    BY <1>7 DEF Replied
  <2>5. \A m \in Replied, t \in readers' : t < m => t \in Replied
    <3>1. \A m \in Replied : ~ (n < m)
      BY <1>11, <2>4
    <3>2. QED BY <2>2, <3>1 DEF StdioInv, EachHasAReader
  <2>6. inRead' \in readers' /\ \A t \in readers' : inRead' <= t
    <3>1. CASE readers = {}
      BY <1>1, <1>2, <1>11, <2>2, <3>1 DEF StdioInv, EachHasAReader
    <3>2. CASE readers # {}
      <4>1. inRead \in readers /\ inRead \in Calls /\ \A t \in readers : inRead <= t
        BY <3>2 DEF StdioInv, StdioTypes, EachHasAReader
      <4>2. inRead # None /\ inRead < n
        BY <1>7, <4>1
      <4>3. inRead <= n
        BY <1>11, <4>1, <4>2
      <4>4. QED BY <1>1, <2>2, <4>1, <4>2, <4>3
    <3>3. QED BY <3>1, <3>2
  <2>7. readers' # {}
    BY <2>2
  <2>8. Replied \subseteq readers'
    BY <2>2 DEF StdioInv, EachHasAReader
  <2>9. QED BY <1>1, <2>1, <2>3, <2>5, <2>6, <2>7, <2>8 DEF EachHasAReader
<1>15. OwnReplies'
  <2>1. got[n] = None
    BY <1>2, <1>7, <1>11
  <2>2. QED BY <1>1, <1>2, <2>1 DEF StdioInv, OwnReplies
<1>16. QED BY <1>9, <1>10, <1>12, <1>13, <1>14, <1>15 DEF StdioInv

\* The first of a line and what stays behind it.
LEMMA HeadAndTail ==
  ASSUME NEW S, NEW s \in Seq(S), s # << >>
  PROVE  /\ Head(s) = s[1] /\ 1 \in DOMAIN s /\ Head(s) \in S /\ Tail(s) \in Seq(S)
         /\ \A i \in DOMAIN Tail(s) : i \in Nat /\ i + 1 \in DOMAIN s /\ Tail(s)[i] = s[i + 1]
         /\ \A j \in DOMAIN s : j = 1 \/ (j - 1 \in DOMAIN Tail(s) /\ Tail(s)[j - 1] = s[j])
OBVIOUS

\* Two threads at most are in readline, and the one that has the buffer is the
\* older one: when it leaves, the buffer goes to the other.
LEMMA NextReader ==
  ASSUME StdioInv, OneLeftBehind, NEW t \in Calls, NEW what, Stdio!LeaveReadline(t, what)
  PROVE  /\ t \in readers /\ \A s \in readers : t <= s
         /\ readers' = readers \ {t}
         /\ IF readers' = {} THEN inRead' = None
            ELSE inRead' \in readers' /\ \A s \in readers' : inRead' <= s
         /\ got' = [got EXCEPT ![t] = what]
<1> USE NoneAssumption DEF Calls
<1>1. /\ inRead = t /\ got' = [got EXCEPT ![t] = what] /\ readers' = readers \ {t}
      /\ inRead' \in IF readers = {t} THEN {None} ELSE readers \ {t}
  BY DEF Stdio!LeaveReadline
<1>2. t \in readers /\ \A s \in readers : t <= s
  <2>1. readers # {}
    BY <1>1 DEF StdioInv, EachHasAReader
  <2>2. QED BY <1>1, <2>1 DEF StdioInv, EachHasAReader
<1>3. readers' = {} <=> readers = {t}
  BY <1>1, <1>2
<1>4. ASSUME readers # {t}, NEW s \in readers' PROVE inRead' = s
  <2>1. inRead' \in readers \ {t} /\ s \in readers \ {t}
    BY <1>1, <1>4
  <2>2. \A r \in readers : r \in Nat /\ r <= Newest
    BY DEF StdioInv, StdioTypes, OnlyWritten
  <2>3. t = current => readers = {t}
    <3>1. SUFFICES ASSUME t = current PROVE \A r \in readers : r = t
      BY <1>2
    <3>2. current = nextId - 1 /\ Newest \in {nextId - 1, nextId - 2} /\ nextId \in Nat
      BY <3>1 DEF StdioInv, StdioTypes, OneInside, Newest
    <3>3. QED BY <1>2, <2>2, <3>1, <3>2
  <2>4. t \in readers \ {current}
    BY <1>2, <1>4, <2>3
  <2>5. inRead' = current /\ s = current
    BY <2>1, <2>4 DEF OneLeftBehind
  <2>6. QED BY <2>5
<1>5. ASSUME readers # {t} PROVE inRead' \in readers' /\ \A s \in readers' : inRead' <= s
  <2>1. inRead' \in readers'
    BY <1>1, <1>5
  <2>2. inRead' \in Nat
    BY <1>1, <2>1 DEF StdioInv, StdioTypes
  <2>3. inRead' <= inRead'
    BY <2>2
  <2>4. \A s \in readers' : s = inRead'
    BY <1>4, <1>5
  <2>5. QED BY <2>1, <2>3, <2>4
<1>6. readers = {t} => inRead' = None
  BY <1>1
<1>7. QED BY <1>1, <1>2, <1>3, <1>5, <1>6

\* What a thread leaves behind of the types and of the call inside.
LEMMA StdioLeaves ==
  ASSUME StdioInv, OneLeftBehind, NEW t \in Calls, NEW what \in Calls \union {Eof},
         Stdio!LeaveReadline(t, what),
         UNCHANGED <<pc, lock, nextId, current, timeouts, proc, stdin, handling, served>>,
         stdout' \in Seq(Calls)
  PROVE  StdioTypes' /\ OneInside' /\ OnlyWritten' /\ Newest' = Newest
<1>1. readers' = readers \ {t} /\ t \in readers /\ got' = [got EXCEPT ![t] = what]
      /\ inRead' \in readers' \union {None}
  BY NextReader
<1>2. StdioTypes'
  BY <1>1 DEF StdioInv, StdioTypes
<1>3. OneInside'
  BY DEF StdioInv, OneInside
<1>4. Newest' = Newest
  BY DEF Newest
<1>5. \A n \in Calls : got'[n] # None => n <= Newest
  BY <1>1 DEF StdioInv, StdioTypes, OnlyWritten
<1>6. OnlyWritten'
  BY <1>1, <1>4, <1>5 DEF StdioInv, OnlyWritten
<1>7. QED BY <1>2, <1>3, <1>4, <1>6

\* A thread reads a line: it is the oldest, and the line the oldest reply.
LEMMA StdioReads ==
  ASSUME StdioInv, OneLeftBehind, NEW t \in Calls, Stdio!ReadLine(t)
  PROVE  StdioInv'
<1>1. /\ stdout # << >> /\ Stdio!LeaveReadline(t, Head(stdout)) /\ stdout' = Tail(stdout)
      /\ UNCHANGED <<pc, lock, nextId, current, timeouts, proc, stdin, handling, served>>
  BY DEF Stdio!ReadLine, Stdio!clientVars
<1>2. stdout \in Seq(Calls)
  BY DEF StdioInv, StdioTypes
<1>3. /\ Head(stdout) = stdout[1] /\ 1 \in DOMAIN stdout /\ Head(stdout) \in Calls
      /\ stdout' \in Seq(Calls)
      /\ \A i \in DOMAIN stdout' : i \in Nat /\ i + 1 \in DOMAIN stdout /\ stdout'[i] = stdout[i + 1]
      /\ \A j \in DOMAIN stdout : j = 1 \/ (j - 1 \in DOMAIN stdout' /\ stdout'[j - 1] = stdout[j])
  BY <1>1, <1>2, HeadAndTail
<1>4. /\ t \in readers /\ \A s \in readers : t <= s
      /\ readers' = readers \ {t}
      /\ IF readers' = {} THEN inRead' = None
         ELSE inRead' \in readers' /\ \A s \in readers' : inRead' <= s
      /\ got' = [got EXCEPT ![t] = Head(stdout)]
  BY <1>1, <1>3, NextReader
<1>5. StdioTypes' /\ OneInside' /\ OnlyWritten'
  BY <1>1, <1>3, StdioLeaves
<1>6. DOMAIN stdout = 1..Len(stdout) /\ Len(stdout) \in Nat
  BY <1>2
<1>7. \A j \in DOMAIN stdout : j # 1 => stdout[1] < stdout[j] /\ stdout[1] # stdout[j]
  <2>1. \A i \in DOMAIN stdout : stdout[i] \in Nat
    BY <1>2, CallsAssumption DEF Calls
  <2>2. \A j \in DOMAIN stdout : j # 1 => 1 < j
    BY <1>6
  <2>3. \A j \in DOMAIN stdout : j # 1 => stdout[1] < stdout[j]
    BY <1>3, <2>2 DEF StdioInv, InLine
  <2>4. QED BY <1>3, <2>1, <2>3
<1>8. Head(stdout) = t /\ Head(stdout) \in served
  <2>1. Head(stdout) \in Replied /\ Head(stdout) \in readers
    BY <1>3 DEF Replied, StdioInv, EachHasAReader
  <2>2. t \in Replied
    <3>1. t = Head(stdout) \/ t < Head(stdout)
      BY <1>3, <1>4, <2>1, CallsAssumption DEF Calls
    <3>2. QED BY <1>4, <2>1, <3>1 DEF StdioInv, EachHasAReader
  <2>3. PICK j \in DOMAIN stdout : stdout[j] = t
    BY <2>2 DEF Replied
  <2>4. j = 1
    <3>1. SUFFICES ASSUME j # 1 PROVE FALSE
      OBVIOUS
    <3>2. stdout[1] < t
      BY <1>7, <2>3, <3>1
    <3>3. t <= stdout[1]
      BY <1>3, <1>4, <2>1
    <3>4. stdout[1] \in Nat
      BY <1>3, CallsAssumption DEF Calls
    <3>5. QED BY <3>2, <3>3, <3>4, CallsAssumption DEF Calls
  <2>5. QED BY <1>3, <2>3, <2>4 DEF StdioInv, InLine
<1>9. InLine'
  <2>1. \A i, j \in DOMAIN stdout' : i < j => stdout'[i] < stdout'[j]
    <3>1. ASSUME NEW i \in DOMAIN stdout', NEW j \in DOMAIN stdout', i < j
          PROVE  stdout'[i] < stdout'[j]
      <4>1. i + 1 < j + 1
        BY <1>3, <3>1
      <4>2. QED BY <1>3, <4>1 DEF StdioInv, InLine
    <3>2. QED BY <3>1
  <2>2. QED BY <1>1, <1>3, <2>1 DEF StdioInv, InLine
<1>10. Replied' = Replied \ {t}
  <2>1. \A m \in Replied' : m \in Replied /\ m # t
    <3>1. ASSUME NEW m \in Replied' PROVE m \in Replied /\ m # t
      <4>1. PICK i \in DOMAIN stdout' : m = stdout'[i]
        BY DEF Replied
      <4>2. i \in Nat /\ i + 1 \in DOMAIN stdout /\ m = stdout[i + 1] /\ i + 1 # 1
        <5>1. i \in Nat /\ i + 1 \in DOMAIN stdout /\ m = stdout[i + 1]
          BY <1>3, <4>1
        <5>2. i # 0
          BY <1>3, <4>1
        <5>3. QED BY <5>1, <5>2
      <4>3. m # t
        BY <1>3, <1>7, <1>8, <4>2
      <4>4. QED BY <4>2, <4>3 DEF Replied
    <3>2. QED BY <3>1
  <2>2. \A m \in Replied : m # t => m \in Replied'
    <3>1. ASSUME NEW m \in Replied, m # t PROVE m \in Replied'
      <4>1. PICK j \in DOMAIN stdout : m = stdout[j]
        BY DEF Replied
      <4>2. j # 1
        BY <1>3, <1>8, <3>1, <4>1
      <4>3. j - 1 \in DOMAIN stdout' /\ stdout'[j - 1] = m
        BY <1>3, <4>1, <4>2
      <4>4. QED BY <4>3 DEF Replied
    <3>2. QED BY <3>1
  <2>3. QED BY <2>1, <2>2
<1>11. t \notin Written /\ t # handling
  <2>1. \A i \in DOMAIN stdin : stdin[i] # t
    BY <1>8 DEF StdioInv, InLine
  <2>2. t # None
    BY NoneAssumption
  <2>3. QED BY <1>8, <2>1, <2>2 DEF StdioInv, InLine, Written
<1>12. EachHasAReader'
  <2>1. Written' = Written
    BY <1>1 DEF Written
  <2>2. Replied' \subseteq readers'
    BY <1>4, <1>10 DEF StdioInv, EachHasAReader
  <2>3. \A m \in Replied', s \in readers' : s < m => s \in Replied'
    BY <1>4, <1>10 DEF StdioInv, EachHasAReader
  <2>4. proc # "down" => readers' = Replied' \union Written \union ({handling} \ {None})
    BY <1>4, <1>10, <1>11 DEF StdioInv, EachHasAReader
  <2>5. QED BY <1>1, <1>4, <2>1, <2>2, <2>3, <2>4 DEF EachHasAReader
<1>13. OwnReplies'
  BY <1>1, <1>4, <1>8 DEF StdioInv, StdioTypes, OwnReplies
<1>14. QED BY <1>5, <1>9, <1>12, <1>13 DEF StdioInv

\* A thread meets the end of file: no reply is left, and none will come.
LEMMA StdioMeetsEof ==
  ASSUME StdioInv, OneLeftBehind, NEW t \in Calls, Stdio!ReadEof(t)
  PROVE  StdioInv'
<1>1. /\ stdout = << >> /\ proc = "down" /\ Stdio!LeaveReadline(t, Eof)
      /\ UNCHANGED <<pc, lock, nextId, current, timeouts, proc, stdin, stdout, handling, served>>
  BY DEF Stdio!ReadEof, Stdio!clientVars, Stdio!serverVars
<1>2. stdout' \in Seq(Calls)
  BY <1>1 DEF StdioInv, StdioTypes
<1>3. /\ t \in readers /\ readers' = readers \ {t}
      /\ IF readers' = {} THEN inRead' = None
         ELSE inRead' \in readers' /\ \A s \in readers' : inRead' <= s
      /\ got' = [got EXCEPT ![t] = Eof]
  BY <1>1, NextReader
<1>4. StdioTypes' /\ OneInside' /\ OnlyWritten'
  BY <1>1, <1>2, StdioLeaves
<1>5. InLine'
  BY <1>1 DEF StdioInv, InLine
<1>6. Replied' = {} /\ proc' = "down"
  BY <1>1 DEF Replied
<1>7. EachHasAReader'
  BY <1>3, <1>6 DEF EachHasAReader
<1>8. OwnReplies'
  BY <1>1, <1>3 DEF StdioInv, StdioTypes, OwnReplies
<1>9. QED BY <1>4, <1>5, <1>7, <1>8 DEF StdioInv

\* The server takes the oldest request.
LEMMA StdioServes ==
  ASSUME StdioInv, Stdio!ServerReads
  PROVE  StdioInv'
<1>1. /\ proc = "up" /\ handling = None /\ stdin # << >>
      /\ handling' = Head(stdin) /\ stdin' = Tail(stdin)
      /\ UNCHANGED <<pc, lock, nextId, current, timeouts, readers, inRead, got, proc, stdout, served>>
  BY DEF Stdio!ServerReads, Stdio!clientVars, Stdio!readerVars
<1>2. stdin \in Seq(Calls)
  BY DEF StdioInv, StdioTypes
<1>3. /\ Head(stdin) = stdin[1] /\ 1 \in DOMAIN stdin /\ Head(stdin) \in Calls
      /\ stdin' \in Seq(Calls)
      /\ \A i \in DOMAIN stdin' : i \in Nat /\ i + 1 \in DOMAIN stdin /\ stdin'[i] = stdin[i + 1]
      /\ \A j \in DOMAIN stdin : j = 1 \/ (j - 1 \in DOMAIN stdin' /\ stdin'[j - 1] = stdin[j])
  BY <1>1, <1>2, HeadAndTail
<1>4. \A i \in DOMAIN stdin' : i \in Nat /\ 1 < i + 1
  <2>1. \A i \in DOMAIN stdin' : i \in Nat /\ i >= 1
    BY <1>3
  <2>2. QED BY <2>1
<1>5. StdioTypes'
  BY <1>1, <1>3 DEF StdioInv, StdioTypes
<1>6. OneInside' /\ OwnReplies'
  BY <1>1 DEF StdioInv, OneInside, OwnReplies
<1>7. OnlyWritten'
  <2>1. Newest' = Newest
    BY <1>1 DEF Newest
  <2>2. QED BY <1>1, <1>3, <2>1 DEF StdioInv, OnlyWritten
<1>8. InLine'
  <2>1. \A i, j \in DOMAIN stdin' : i < j => stdin'[i] < stdin'[j]
    <3>1. ASSUME NEW i \in DOMAIN stdin', NEW j \in DOMAIN stdin', i < j
          PROVE  stdin'[i] < stdin'[j]
      <4>1. i + 1 < j + 1
        BY <1>3, <3>1
      <4>2. QED BY <1>3, <4>1 DEF StdioInv, InLine
    <3>2. QED BY <3>1
  <2>2. \A i \in DOMAIN stdin' : handling' < stdin'[i]
    BY <1>1, <1>3, <1>4 DEF StdioInv, InLine
  <2>3. QED BY <1>1, <1>3, <2>1, <2>2 DEF StdioInv, InLine
<1>9. EachHasAReader'
  <2>1. Written = Written' \union {handling'}
    <3>1. ASSUME NEW m \in Written PROVE m \in Written' \/ m = handling'
      <4>1. PICK j \in DOMAIN stdin : m = stdin[j]
        BY DEF Written
      <4>2. j = 1 \/ (j - 1 \in DOMAIN stdin' /\ stdin'[j - 1] = m)
        BY <1>3, <4>1
      <4>3. QED BY <1>1, <1>3, <4>1, <4>2 DEF Written
    <3>2. ASSUME NEW m \in Written' PROVE m \in Written
      <4>1. PICK i \in DOMAIN stdin' : m = stdin'[i]
        BY DEF Written
      <4>2. QED BY <1>3, <4>1 DEF Written
    <3>3. handling' \in Written
      BY <1>1, <1>3 DEF Written
    <3>4. QED BY <3>1, <3>2, <3>3
  <2>2. Replied' = Replied
    BY <1>1 DEF Replied
  <2>3. handling' # None
    BY <1>1, <1>3, NoneAssumption
  <2>4. readers = Replied \union Written' \union ({handling'} \ {None})
    BY <1>1, <2>1, <2>3 DEF StdioInv, EachHasAReader
  <2>5. QED BY <1>1, <2>2, <2>4 DEF StdioInv, EachHasAReader
<1>10. QED BY <1>5, <1>6, <1>7, <1>8, <1>9 DEF StdioInv

\* The server answers what it handles: the last of the replies so far.
LEMMA StdioAnswers ==
  ASSUME StdioInv, Stdio!ServerReplies
  PROVE  StdioInv'
<1>1. /\ proc = "up" /\ handling # None /\ handling' = None
      /\ stdout' = Append(stdout, handling) /\ served' = served \union {handling}
      /\ UNCHANGED <<pc, lock, nextId, current, timeouts, readers, inRead, got, proc, stdin>>
  BY DEF Stdio!ServerReplies, Stdio!clientVars, Stdio!readerVars
<1>2. handling \in Calls /\ stdout \in Seq(Calls)
  BY <1>1 DEF StdioInv, StdioTypes
<1>3. /\ stdout' \in Seq(Calls) /\ DOMAIN stdout' = DOMAIN stdout \union {Len(stdout) + 1}
      /\ stdout'[Len(stdout) + 1] = handling /\ \A i \in DOMAIN stdout : stdout'[i] = stdout[i]
      /\ DOMAIN stdout = 1..Len(stdout) /\ Len(stdout) \in Nat
  BY <1>1, <1>2
<1>4. StdioTypes'
  BY <1>1, <1>2, <1>3 DEF StdioInv, StdioTypes
<1>5. OneInside'
  BY <1>1 DEF StdioInv, OneInside
<1>6. OnlyWritten'
  <2>1. Newest' = Newest
    BY <1>1 DEF Newest
  <2>2. QED BY <1>1, <2>1 DEF StdioInv, OnlyWritten
<1>7. InLine'
  <2>1. \A i, j \in DOMAIN stdout' : i < j => stdout'[i] < stdout'[j]
    <3>1. ASSUME NEW i \in DOMAIN stdout', NEW j \in DOMAIN stdout', i < j
          PROVE  stdout'[i] < stdout'[j]
      <4>1. i \in DOMAIN stdout
        BY <1>3, <3>1
      <4>2. CASE j \in DOMAIN stdout
        BY <1>3, <3>1, <4>1, <4>2 DEF StdioInv, InLine
      <4>3. CASE j = Len(stdout) + 1
        BY <1>1, <1>3, <4>1, <4>3 DEF StdioInv, InLine
      <4>4. QED BY <1>3, <4>2, <4>3
    <3>2. QED BY <3>1
  <2>2. \A i \in DOMAIN stdin : stdin[i] \notin served'
    <3>1. \A i \in DOMAIN stdin : stdin[i] # handling
      <4>1. \A i \in DOMAIN stdin : handling < stdin[i] /\ stdin[i] \in Calls
        BY <1>1 DEF StdioInv, StdioTypes, InLine
      <4>2. QED BY <1>2, <4>1, CallsAssumption DEF Calls
    <3>2. QED BY <1>1, <3>1 DEF StdioInv, InLine
  <2>3. \A i \in DOMAIN stdin, j \in DOMAIN stdout' : stdout'[j] < stdin[i]
    BY <1>1, <1>3 DEF StdioInv, InLine
  <2>4. \A j \in DOMAIN stdout' : stdout'[j] \in served'
    BY <1>1, <1>3 DEF StdioInv, InLine
  <2>5. QED BY <1>1, <2>1, <2>2, <2>3, <2>4 DEF StdioInv, InLine
<1>8. EachHasAReader'
  <2>1. Replied' = Replied \union {handling} /\ Written' = Written
    BY <1>1, <1>3 DEF Replied, Written
  <2>2. readers = Replied \union Written \union {handling}
    BY <1>1 DEF StdioInv, EachHasAReader
  <2>3. \A m \in Written : ~ (m < handling)
    <3>1. \A m \in Written : handling < m /\ m \in Calls
      BY <1>1 DEF StdioInv, StdioTypes, InLine, Written
    <3>2. QED BY <1>2, <3>1, CallsAssumption DEF Calls
  <2>4. \A m \in Written, r \in Replied : ~ (m < r)
    <3>1. \A m \in Written, r \in Replied : r < m /\ m \in Calls /\ r \in Calls
      BY <1>2 DEF StdioInv, StdioTypes, InLine, Written, Replied
    <3>2. QED BY <3>1, CallsAssumption DEF Calls
  <2>5. \A m \in Replied', t \in readers' : t < m => t \in Replied'
    BY <1>1, <2>1, <2>2, <2>3, <2>4
  <2>6. QED BY <1>1, <2>1, <2>2, <2>5 DEF StdioInv, EachHasAReader
<1>9. OwnReplies'
  BY <1>1 DEF StdioInv, OwnReplies
<1>10. QED BY <1>4, <1>5, <1>6, <1>7, <1>8, <1>9 DEF StdioInv

\* Every step keeps the invariant while one thread at most is left behind.
LEMMA StdioStep ==
  ASSUME StdioInv, OneLeftBehind, [Stdio!Next]_(Stdio!vars)
  PROVE  StdioInv'
<1>1. ASSUME NEW c \in Callers, Stdio!CheckOpen(c) \/ Stdio!SpawnFails(c) PROVE StdioInv'
  <2>1. /\ pc[c] \in {"idle", "checked"} /\ pc \in [Callers -> {"idle", "checked", "writing", "reading"}]
        /\ \E to \in {"idle", "checked"} : pc' = [pc EXCEPT ![c] = to]
        /\ UNCHANGED <<outcome, Stdio!clientVars, Stdio!readerVars, Stdio!serverVars>>
    BY <1>1 DEF Stdio!CheckOpen, Stdio!SpawnFails, StdioInv, StdioTypes
  <2>2. /\ pc' \in [Callers -> {"idle", "checked", "writing", "reading"}]
        /\ \A d \in Callers : /\ pc'[d] = "writing" <=> pc[d] = "writing"
                              /\ pc'[d] = "reading" <=> pc[d] = "reading"
    BY <2>1
  <2>3. QED BY <2>1, <2>2, StdioQuiet DEF Stdio!clientVars, Stdio!readerVars, Stdio!serverVars
<1>2. ASSUME Stdio!Close \/ Stdio!ServerEnds \/ UNCHANGED Stdio!vars PROVE StdioInv'
  <2>1. /\ UNCHANGED <<pc, lock, nextId, current, timeouts, readers, inRead, got,
                       stdin, stdout, handling, served>>
        /\ proc' = proc \/ proc' = "down"
    BY <1>2 DEF Stdio!Close, Stdio!ServerEnds, Stdio!vars, Stdio!clientVars, Stdio!readerVars
  <2>2. pc' \in [Callers -> {"idle", "checked", "writing", "reading"}]
    BY <2>1 DEF StdioInv, StdioTypes
  <2>3. QED BY <2>1, <2>2, StdioQuiet
<1>3. ASSUME NEW c \in Callers, Stdio!WriteFails(c) \/ Stdio!Return(c) \/ Stdio!TimeOut(c)
      PROVE  StdioInv'
  <2>1. PICK result : Stdio!EndCall(c, result)
    BY <1>3 DEF Stdio!WriteFails, Stdio!Return, Stdio!TimeOut, Stdio!GiveUp
  <2>2. /\ pc[c] \in {"writing", "reading"} /\ UNCHANGED <<readers, inRead, got>>
        /\ timeouts' = timeouts \/ timeouts' = timeouts + 1
    BY <1>3 DEF Stdio!WriteFails, Stdio!Return, Stdio!TimeOut, Stdio!GiveUp, Stdio!readerVars
  <2>3. timeouts' \in Nat
    BY <2>2 DEF StdioInv, StdioTypes
  <2>4. QED BY <2>1, <2>2, <2>3, StdioEnds
<1>4. QED
  BY <1>1, <1>2, <1>3, StdioEnter, StdioWrites, StdioReads, StdioMeetsEof, StdioServes, StdioAnswers
  DEF Stdio!Next, Stdio!Calls, Calls

\* At the beginning the promise has nothing to keep.
LEMMA StdioPromiseInitial == Stdio!Init => Stdio!Promise!Init
<1> SUFFICES ASSUME Stdio!Init PROVE Stdio!Promise!Init
  OBVIOUS
<1>1. 1..(nextId - 1) = {}
  BY DEF Stdio!Init
<1>2. QED BY <1>1 DEF Stdio!Init, Stdio!Promise!Init, Stdio!NoOutcome, Stdio!Promise!NoOutcome

\* What a caller of the agent's client waits for, as the mapping to RpcPromise has it.
StdioCalling == [c \in Callers |-> IF pc[c] \in {"writing", "reading"} THEN current ELSE None]

\* Every step is a step of RpcPromise, or none.
LEMMA StdioPromiseStep ==
  ASSUME StdioInv, OneLeftBehind, [Stdio!Next]_(Stdio!vars)
  PROVE  [Stdio!Promise!Next]_(Stdio!Promise!vars)
<1> USE CallsAssumption, NoneAssumption DEF Calls, Stdio!Calls
<1>1. pc \in [Callers -> {"idle", "checked", "writing", "reading"}]
  BY DEF StdioInv, StdioTypes
<1>2. ASSUME UNCHANGED <<nextId, served, outcome>>, StdioCalling' = StdioCalling
      PROVE  UNCHANGED Stdio!Promise!vars
  BY <1>2 DEF Stdio!Promise!vars, StdioCalling
<1>3. ASSUME NEW c \in Callers, Stdio!Enter(c) PROVE Stdio!Promise!Ask(c)
  <2>1. /\ pc' = [pc EXCEPT ![c] = "writing"] /\ pc[c] = "checked" /\ lock = None
        /\ current' = nextId /\ nextId' = nextId + 1 /\ nextId <= MaxCalls
        /\ UNCHANGED <<served, outcome>>
    BY <1>3 DEF Stdio!Enter, Stdio!TakeNumber
  <2>2. \A d \in Callers : pc[d] \notin {"writing", "reading"}
    BY <2>1 DEF StdioInv, OneInside
  <2>3. StdioCalling[c] = None
    BY <2>2 DEF StdioCalling
  <2>4. StdioCalling' = [StdioCalling EXCEPT ![c] = nextId]
    BY <1>1, <2>1, <2>2 DEF StdioCalling
  <2>5. nextId \in Calls \ 1..(nextId - 1) /\ 1..(nextId' - 1) = 1..(nextId - 1) \union {nextId}
    BY <2>1 DEF StdioInv, StdioTypes
  <2>6. QED BY <2>1, <2>3, <2>4, <2>5 DEF Stdio!Promise!Ask, StdioCalling
<1>4. ASSUME NEW c \in Callers, NEW result, pc[c] \in {"writing", "reading"},
             Stdio!EndCall(c, result)
      PROVE  /\ StdioCalling[c] = current /\ Stdio!Promise!EndWith(c, result)
  <2>1. /\ outcome' = [outcome EXCEPT ![c] = [call |-> current, got |-> result]]
        /\ pc' = [pc EXCEPT ![c] = "idle"] /\ UNCHANGED <<nextId, served>>
    BY <1>4 DEF Stdio!EndCall, Stdio!serverVars
  <2>2. lock = c /\ current # None /\ \A d \in Callers : pc[d] \in {"writing", "reading"} => d = c
    BY <1>4 DEF StdioInv, OneInside
  <2>3. StdioCalling[c] = current
    BY <1>4 DEF StdioCalling
  <2>4. StdioCalling' = [StdioCalling EXCEPT ![c] = None]
    BY <1>1, <2>1, <2>2 DEF StdioCalling
  <2>5. QED BY <2>1, <2>2, <2>3, <2>4 DEF Stdio!Promise!EndWith, StdioCalling
<1>5. ASSUME NEW c \in Callers, Stdio!WriteFails(c) \/ Stdio!TimeOut(c)
      PROVE  Stdio!Promise!Fails(c)
  BY <1>4, <1>5 DEF Stdio!WriteFails, Stdio!TimeOut, Stdio!GiveUp, Stdio!Promise!Fails
<1>6. ASSUME NEW c \in Callers, Stdio!Return(c)
      PROVE  Stdio!Promise!Answered(c) \/ Stdio!Promise!Fails(c)
  <2>1. /\ pc[c] = "reading" /\ got[current] # None
        /\ Stdio!EndCall(c, IF got[current] = Eof THEN Failed ELSE got[current])
    BY <1>6 DEF Stdio!Return
  <2>2. current \in Calls
    BY <2>1 DEF StdioInv, StdioTypes, OneInside
  <2>3. CASE got[current] = Eof
    BY <1>4, <2>1, <2>3 DEF Stdio!Promise!Fails
  <2>4. CASE got[current] # Eof
    <3>1. got[current] = current /\ current \in served
      BY <2>1, <2>2, <2>4 DEF StdioInv, OwnReplies
    <3>2. Stdio!EndCall(c, current)
      BY <2>1, <2>4, <3>1
    <3>3. PICK n : n = current
      OBVIOUS
    <3>4. StdioCalling[c] = n /\ Stdio!Promise!EndWith(c, n)
      BY <1>4, <2>1, <3>2, <3>3
    <3>5. QED BY <3>1, <3>3, <3>4 DEF Stdio!Promise!Answered, Stdio!Promise!EndWith, StdioCalling
  <2>5. QED BY <2>3, <2>4
<1>7. ASSUME NEW c \in Callers, Stdio!CheckOpen(c) \/ Stdio!SpawnFails(c) \/ Stdio!WriteRequest(c)
      PROVE  UNCHANGED Stdio!Promise!vars
  <2>1. UNCHANGED <<nextId, served, outcome, current>>
    BY <1>7 DEF Stdio!CheckOpen, Stdio!SpawnFails, Stdio!WriteRequest, Stdio!clientVars, Stdio!serverVars
  <2>2. \A d \in Callers : pc'[d] \in {"writing", "reading"} <=> pc[d] \in {"writing", "reading"}
    BY <1>1, <1>7 DEF Stdio!CheckOpen, Stdio!SpawnFails, Stdio!WriteRequest
  <2>3. StdioCalling' = StdioCalling
    BY <2>1, <2>2 DEF StdioCalling
  <2>4. QED BY <1>2, <2>1, <2>3
<1>8. ASSUME UNCHANGED <<pc, outcome, nextId, current, served>> PROVE UNCHANGED Stdio!Promise!vars
  BY <1>2, <1>8 DEF StdioCalling
<1>9. ASSUME NEW t \in Calls, Stdio!ReadLine(t) \/ Stdio!ReadEof(t) PROVE UNCHANGED Stdio!Promise!vars
  BY <1>8, <1>9 DEF Stdio!ReadLine, Stdio!ReadEof, Stdio!clientVars, Stdio!serverVars
<1>10. ASSUME Stdio!Close \/ Stdio!ServerReads \/ Stdio!ServerEnds \/ UNCHANGED Stdio!vars
       PROVE  UNCHANGED Stdio!Promise!vars
  BY <1>8, <1>10 DEF Stdio!Close, Stdio!ServerReads, Stdio!ServerEnds, Stdio!vars, Stdio!clientVars
<1>11. ASSUME Stdio!ServerReplies PROVE Stdio!Promise!Serve(handling) /\ handling \in Calls
  <2>1. /\ handling # None /\ served' = served \union {handling}
        /\ UNCHANGED <<pc, outcome, nextId, current>>
    BY <1>11 DEF Stdio!ServerReplies, Stdio!clientVars
  <2>2. handling \in Calls /\ handling <= Newest /\ handling \notin served
    BY <2>1 DEF StdioInv, StdioTypes, OnlyWritten, InLine
  <2>3. Newest \in {nextId - 1, nextId - 2} /\ nextId \in Nat
    BY DEF Newest, StdioInv, StdioTypes
  <2>4. handling \in 1..(nextId - 1) \ served
    BY <2>2, <2>3
  <2>5. StdioCalling' = StdioCalling
    BY <2>1 DEF StdioCalling
  <2>6. QED BY <2>1, <2>2, <2>4, <2>5 DEF Stdio!Promise!Serve, StdioCalling
<1>12. QED
  BY <1>3, <1>5, <1>6, <1>7, <1>9, <1>10, <1>11 DEF Stdio!Next, Stdio!Promise!Next

(* A call of the agent's client ends with the reply to that very call or    *)
(* with a failure, for as long as one of the threads that timed out at most *)
(* is still in readline (mcp_client.py:205-269).                            *)
THEOREM StdioKeepsThePromise ==
  Stdio!Spec /\ []OneLeftBehind => Stdio!KeepsPromise
<1>1. Stdio!Init => StdioInv /\ Stdio!Promise!Init
  BY StdioInitial, StdioPromiseInitial
<1>2. StdioInv /\ OneLeftBehind /\ [Stdio!Next]_(Stdio!vars)
        => StdioInv' /\ [Stdio!Promise!Next]_(Stdio!Promise!vars)
  BY StdioStep, StdioPromiseStep
<1>3. QED BY <1>1, <1>2, PTL DEF Stdio!Spec, Stdio!KeepsPromise

\* With one timeout there is one thread to be left behind.
FewLeftBehind == OneLeftBehind /\ (timeouts = 0 => readers \subseteq {current})

\* The threads left behind are as few after a step.
LEMMA FewStay ==
  ASSUME StdioInv, FewLeftBehind, MaxTimeouts \in 0..1, [Stdio!Next]_(Stdio!vars)
  PROVE  FewLeftBehind'
<1> USE CallsAssumption, NoneAssumption DEF Calls, Stdio!Calls
<1>1. ASSUME readers' \ {current'} \subseteq readers \ {current}, timeouts' = timeouts
      PROVE  FewLeftBehind'
  BY <1>1 DEF FewLeftBehind, OneLeftBehind
<1>2. ASSUME NEW c \in Callers, Stdio!Enter(c) PROVE FewLeftBehind'
  <2>1. lock = None /\ UNCHANGED <<readers, timeouts>>
    BY <1>2 DEF Stdio!Enter, Stdio!TakeNumber, Stdio!readerVars
  <2>2. current = None /\ readers \subseteq Calls
    BY <2>1 DEF StdioInv, OneInside, StdioTypes
  <2>3. QED BY <1>1, <2>1, <2>2
<1>3. ASSUME NEW c \in Callers, Stdio!WriteFails(c) \/ Stdio!Return(c) PROVE FewLeftBehind'
  <2>1. UNCHANGED <<readers, timeouts>> /\ current' = None
    BY <1>3 DEF Stdio!WriteFails, Stdio!Return, Stdio!EndCall, Stdio!readerVars
  <2>2. current \notin readers
    <3>1. CASE Stdio!Return(c)
      BY <3>1 DEF Stdio!Return, StdioInv, OwnReplies
    <3>2. CASE Stdio!WriteFails(c)
      <4>1. pc[c] = "writing"
        BY <3>2 DEF Stdio!WriteFails
      <4>2. lock = c /\ current = nextId - 1 /\ Newest = nextId - 2 /\ nextId \in Nat
        BY <4>1 DEF StdioInv, StdioTypes, OneInside, Newest
      <4>3. current \in readers => current <= Newest
        BY DEF StdioInv, OnlyWritten
      <4>4. QED BY <4>2, <4>3
    <3>3. QED BY <1>3, <3>1, <3>2
  <2>3. QED BY <1>1, <2>1, <2>2
<1>4. ASSUME NEW c \in Callers, Stdio!TimeOut(c) PROVE FewLeftBehind'
  <2>1. timeouts < MaxTimeouts /\ timeouts' = timeouts + 1 /\ readers' = readers
    BY <1>4 DEF Stdio!TimeOut, Stdio!GiveUp, Stdio!readerVars
  <2>2. timeouts = 0
    BY <2>1 DEF StdioInv, StdioTypes
  <2>3. readers' \subseteq {current} /\ timeouts' = 1
    BY <2>1, <2>2 DEF FewLeftBehind
  <2>4. QED BY <2>3 DEF FewLeftBehind, OneLeftBehind
<1>5. ASSUME NEW t \in Calls, Stdio!ReadLine(t) \/ Stdio!ReadEof(t) PROVE FewLeftBehind'
  <2>1. readers' = readers \ {t} /\ UNCHANGED <<current, timeouts>>
    BY <1>5 DEF Stdio!ReadLine, Stdio!ReadEof, Stdio!LeaveReadline, Stdio!clientVars
  <2>2. QED BY <1>1, <2>1
<1>6. ASSUME NEW c \in Callers, Stdio!WriteRequest(c) PROVE FewLeftBehind'
  <2>1. readers' = readers \union {current} /\ UNCHANGED <<current, timeouts>>
    BY <1>6 DEF Stdio!WriteRequest, Stdio!clientVars
  <2>2. QED BY <1>1, <2>1
<1>7. ASSUME NEW c \in Callers, Stdio!CheckOpen(c) \/ Stdio!SpawnFails(c) PROVE FewLeftBehind'
  BY <1>1, <1>7 DEF Stdio!CheckOpen, Stdio!SpawnFails, Stdio!clientVars, Stdio!readerVars
<1>8. ASSUME \/ Stdio!Close \/ Stdio!ServerReads \/ Stdio!ServerReplies \/ Stdio!ServerEnds
             \/ UNCHANGED Stdio!vars
      PROVE  FewLeftBehind'
  BY <1>1, <1>8 DEF Stdio!Close, Stdio!ServerReads, Stdio!ServerReplies, Stdio!ServerEnds,
                    Stdio!vars, Stdio!clientVars, Stdio!readerVars
<1>9. QED BY <1>2, <1>3, <1>4, <1>5, <1>6, <1>7, <1>8 DEF Stdio!Next

(* A client of which one call at most times out keeps the promise, whatever *)
(* number of calls and callers it has: verify_finding, the one user of the  *)
(* class, makes a client for one call.                                      *)
THEOREM OneTimeoutIsHarmless ==
  ASSUME MaxTimeouts \in 0..1
  PROVE  Stdio!Spec => Stdio!KeepsPromise
<1>1. Stdio!Init => StdioInv /\ FewLeftBehind
  <2>1. Stdio!Init => FewLeftBehind
    BY DEF Stdio!Init, FewLeftBehind, OneLeftBehind
  <2>2. QED BY <2>1, StdioInitial
<1>2. StdioInv /\ FewLeftBehind /\ [Stdio!Next]_(Stdio!vars) => StdioInv' /\ FewLeftBehind'
  BY StdioStep, FewStay DEF FewLeftBehind
<1>3. StdioInv /\ FewLeftBehind => OneLeftBehind
  BY DEF FewLeftBehind
<1>4. QED BY <1>1, <1>2, <1>3, StdioKeepsThePromise, PTL DEF Stdio!Spec

=============================================================================
