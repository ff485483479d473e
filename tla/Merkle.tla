------------------------------- MODULE Merkle -------------------------------
(***************************************************************************)
(* The append-only Merkle tree of crypto/merkle.py, which the Rust side    *)
(* mirrors in crypto/merkle.rs: the root and the inclusion proof go up     *)
(* tier by tier, doubling the last node of a tier of odd length.           *)
(*                                                                         *)
(* A digest is a term: a leaf, or the pair of the two digests it hashes.   *)
(* A loop is a function from its turns to what it has made after each.     *)
(***************************************************************************)
EXTENDS Integers, Sequences, SequencesExt

CONSTANTS Digests, MaxLeaves

VARIABLE leaves   \* MerkleTree._leaves

Init == leaves = << >>

AppendLeaf(d) ==
  /\ Len(leaves) < MaxLeaves
  /\ leaves' = Append(leaves, d)

Next == \E d \in Digests : AppendLeaf(d)

Spec == Init /\ [][Next]_leaves

-----------------------------------------------------------------------------
EmptyRoot == <<"zero">>

\* Variant: an odd last node is dropped.
EvenDropping(tier) == IF Len(tier) % 2 = 1 THEN Front(tier) ELSE tier

Even(tier) == IF Len(tier) % 2 = 1 THEN Append(tier, Last(tier)) ELSE tier

Up(tier) == LET even == Even(tier)
            IN [i \in 1..(Len(even) \div 2) |-> <<even[2 * i - 1], even[2 * i]>>]

\* The loop of root.  Each turn shortens the tier: there are no more turns than leaves.
Turn(tier) == IF Len(tier) > 1 THEN Up(tier) ELSE tier

Tiers(tier) ==
  LET after[turns \in 0..Len(tier)] == IF turns = 0 THEN tier ELSE Turn(after[turns - 1])
  IN after

RootOf(tier) == IF tier = << >> THEN EmptyRoot ELSE Tiers(tier)[Len(tier)][1]

\* The loop of inclusion_proof, from position i (from zero): at each tier the
\* sibling, and whether the node is on the right.
\* Variant: the sibling is always the left node of the pair.
SiblingLeft(i) == i - (i % 2)

SiblingOf(i) == IF i % 2 = 1 THEN i - 1 ELSE i + 1

Step(tier, i) == [sibling |-> Even(tier)[SiblingOf(i) + 1], right |-> (i % 2 = 1)]

ClimbTurn(c) ==
  IF Len(c.tier) > 1
  THEN [tier |-> Up(c.tier), at |-> c.at \div 2, path |-> Append(c.path, Step(c.tier, c.at))]
  ELSE c

Climb(tier, i) ==
  LET after[turns \in 0..Len(tier)] ==
        IF turns = 0 THEN [tier |-> tier, at |-> i, path |-> << >>] ELSE ClimbTurn(after[turns - 1])
  IN after

InclusionProof(i) == [leaf |-> leaves[i + 1], path |-> Climb(leaves, i)[Len(leaves)].path]

\* verify_inclusion_proof: hash the leaf up the path.
Paired(h, step) == IF step.right THEN <<step.sibling, h>> ELSE <<h, step.sibling>>

Hashed(leaf, path) ==
  LET after[steps \in 0..Len(path)] == IF steps = 0 THEN leaf ELSE Paired(after[steps - 1], path[steps])
  IN after

Rebuilt(proof) == Hashed(proof.leaf, proof.path)[Len(proof.path)]

-----------------------------------------------------------------------------
(* Properties.                                                              *)

(* The tree by position: node k of a tier is made of nodes 2k and 2k+1 of   *)
(* the tier below, the last one standing in for those past the end.         *)
Powers(n) == LET power[t \in 0..n] == IF t = 0 THEN 1 ELSE 2 * power[t - 1] IN power

Width(n, t) == (n + Powers(n)[t] - 1) \div Powers(n)[t]

Inner(n, t, k) == IF k >= Width(n, t) THEN Width(n, t) - 1 ELSE k

Lowest(tier) == [k \in 0..(Len(tier) - 1) |-> tier[k + 1]]

Above(n, t, below) ==
  [k \in 0..(Width(n, t) - 1) |-> <<below[Inner(n, t - 1, 2 * k)], below[Inner(n, t - 1, 2 * k + 1)]>>]

Nodes(tier) ==
  LET node[t \in 0..Len(tier)] == IF t = 0 THEN Lowest(tier) ELSE Above(Len(tier), t, node[t - 1])
  IN node

Height == CHOOSE t \in 0..Len(leaves) :
            Width(Len(leaves), t) = 1 /\ \A u \in 0..(t - 1) : Width(Len(leaves), u) > 1

(* The root is that of the tree by position, for every number of leaves,    *)
(* the odd ones and those next to a power of two included                   *)
(* (merkle.py:93-101, merkle.rs:89-105).                                       *)
RootIsOfTheTree == leaves # << >> => RootOf(leaves) = Nodes(leaves)[Height][0]

(* Every leaf's inclusion proof rebuilds the root (merkle.py:108-150).      *)
ProofsRebuildRoot ==
  \A i \in 0..(Len(leaves) - 1) : Rebuilt(InclusionProof(i)) = RootOf(leaves)

(* With the number of leaves the root determines them, which is what the    *)
(* manifest's leaf_count is for: without it, repeating the last leaf of an  *)
(* odd tier gives the same root.                                            *)
RootAndCountBindLeaves ==
  \A other \in [1..Len(leaves) -> Digests] :
    RootOf(other) = RootOf(leaves) => other = leaves

=============================================================================
