----------------------------- MODULE RpcPromise -----------------------------
(***************************************************************************)
(* What a caller of a tool-server client is promised, whatever the pipes   *)
(* and threads behind it do: a call ends once, with the reply the server   *)
(* made to that very call, or with a failure.                              *)
(***************************************************************************)
EXTENDS Integers

CONSTANTS Callers, Calls, None, Failed

VARIABLES
  calling,  \* per caller: the call it waits for, or None
  issued,   \* the calls made so far
  served,   \* the calls the server has answered
  outcome   \* per caller: its last finished call and how it ended

vars == <<calling, issued, served, outcome>>

NoOutcome == [call |-> None, got |-> None]

Init ==
  /\ calling = [c \in Callers |-> None]
  /\ issued = {}
  /\ served = {}
  /\ outcome = [c \in Callers |-> NoOutcome]

Ask(c) ==
  /\ calling[c] = None
  /\ \E n \in Calls \ issued :
       /\ calling' = [calling EXCEPT ![c] = n]
       /\ issued' = issued \union {n}
  /\ UNCHANGED <<served, outcome>>

Serve(n) ==
  /\ n \in issued \ served
  /\ served' = served \union {n}
  /\ UNCHANGED <<calling, issued, outcome>>

EndWith(c, got) ==
  /\ calling[c] # None
  /\ calling' = [calling EXCEPT ![c] = None]
  /\ outcome' = [outcome EXCEPT ![c] = [call |-> calling[c], got |-> got]]
  /\ UNCHANGED <<issued, served>>

Answered(c) == calling[c] \in served /\ EndWith(c, calling[c])
Fails(c)    == EndWith(c, Failed)

Next ==
  \/ \E c \in Callers : Ask(c) \/ Answered(c) \/ Fails(c)
  \/ \E n \in Calls : Serve(n)

Fairness == \A c \in Callers : WF_vars(Answered(c) \/ Fails(c))

Spec == Init /\ [][Next]_vars /\ Fairness

=============================================================================
