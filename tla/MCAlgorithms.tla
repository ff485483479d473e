---------------------------- MODULE MCAlgorithms ----------------------------
(***************************************************************************)
(* The algorithms of the system that keep no state, each checked over all  *)
(* small inputs: a Merkle tree that grows leaf by leaf, beside one input   *)
(* of each of the others, chosen at the start.                             *)
(***************************************************************************)
EXTENDS Merkle, DiskArtifacts, Packet, ToolAnswers

NoInput == [listing |-> << >>, recover |-> TRUE, limit |-> 0, folder |-> LoneImage]
NoCall  == [records |-> << >>, limit |-> 0, filtered |-> FALSE, child |-> "ran"]

AlgorithmsInit ==
  /\ Init
  /\ \/ disk \in Inputs \cup {NoInput} /\ history = << >> /\ call = NoCall
     \/ disk = NoInput /\ history \in Histories /\ call = NoCall
     \/ disk = NoInput /\ history = << >> /\ call \in Calls

Grow ==
  /\ disk = NoInput /\ history = << >> /\ call = NoCall
  /\ Next
  /\ UNCHANGED <<disk, history, call>>

AlgorithmsSpec == AlgorithmsInit /\ [][Grow]_<<leaves, disk, history, call>>

=============================================================================
