-------------------------- MODULE AlgorithmsProofs --------------------------
(***************************************************************************)
(* Theorems about the algorithms that keep no state, for inputs of every   *)
(* size: the Merkle tree (Merkle), the choice of the files to stage from a *)
(* disk image and its counters (DiskArtifacts), what the tools answer      *)
(* (ToolAnswers) and what the packet check makes of the runs of a case     *)
(* directory (Packet).                                                     *)
(*                                                                         *)
(* The loops are recursive functions over their turns.  What holds after   *)
(* every turn is shown without an induction theorem: the set of the turns  *)
(* after which it does not hold would have a least member (UpTo, DownFrom).*)
(* AnyCall, AnyInput and AnyRun are the inputs without the bounds of the   *)
(* runs, which CallsAreSome, InputsAreSome and HistoriesAreSome show to be *)
(* some of them.                                                           *)
(***************************************************************************)
EXTENDS Merkle, DiskArtifacts, Packet, ToolAnswers, FiniteSetTheorems,
        SequenceTheorems, NaturalsInduction, WellFoundedInduction, TLAPS

-----------------------------------------------------------------------------
(* Turns.                                                                   *)

\* The order of the naturals, as a relation.
Less == {p \in Nat \X Nat : p[1] < p[2]}

\* A set of naturals that has a member has a least one.
LEMMA HasLeast ==
  ASSUME NEW T, T \subseteq Nat, T # {}
  PROVE  \E x \in T : \A y \in T : x <= y
  <1>1. Less = OpToRel(<, Nat)
    BY Zenon DEF Less, OpToRel
  <1>2. IsWellFoundedOn(Less, Nat)
    BY <1>1, NatLessThanWellFounded, Zenon
  <1>3. \E x \in T : \A y \in T : ~ (<<y, x>> \in Less)
    BY <1>2, WFMin, Zenon
  <1>4. \A x, y \in Nat : ~ (<<y, x>> \in Less) => x <= y
    BY DEF Less
  <1>5. QED BY <1>3, <1>4

\* What holds at the start and after each next turn holds after every turn.
LEMMA UpTo ==
  ASSUME NEW n \in Nat, NEW G, 0 \in G, \A t \in 1..n : t - 1 \in G => t \in G
  PROVE  \A t \in 0..n : t \in G
  <1> DEFINE T == {t \in 0..n : t \notin G}
  <1>1. SUFFICES ASSUME T # {} PROVE FALSE
    OBVIOUS
  <1>2. T \subseteq Nat
    OBVIOUS
  <1>3. PICK t \in T : \A u \in T : t <= u
    <2> HIDE DEF T
    <2>1. QED BY <1>1, <1>2, HasLeast
  <1>4. t \in 1..n /\ t - 1 \in 0..n
    BY <1>3
  <1>5. t - 1 \notin T
    BY <1>3, <1>4
  <1>6. QED BY <1>3, <1>4, <1>5

\* What holds after the last turn and after each one before holds after every turn.
LEMMA DownFrom ==
  ASSUME NEW n \in Nat, NEW G, n \in G, \A t \in 1..n : t \in G => t - 1 \in G
  PROVE  \A t \in 0..n : t \in G
  <1> DEFINE H == {t \in 0..n : n - t \in G}
  <1>1. 0 \in H
    OBVIOUS
  <1>2. ASSUME NEW t \in 1..n, t - 1 \in H PROVE t \in H
    <2>1. n - (t - 1) \in 1..n /\ n - (t - 1) \in G /\ (n - (t - 1)) - 1 = n - t
      BY <1>2
    <2>2. QED BY <2>1
  <1> HIDE DEF H
  <1>3. \A t \in 0..n : t \in H
    BY <1>1, <1>2, UpTo
  <1>4. \A t \in 0..n : n - t \in 0..n /\ n - (n - t) = t
    OBVIOUS
  <1>5. \A t \in 0..n : n - t \in H
    BY <1>3, <1>4
  <1>6. QED BY <1>4, <1>5 DEF H

-----------------------------------------------------------------------------
(* The loops do what they say.                                              *)

\* root: the tier after each turn.
LEMMA TiersLoop ==
  ASSUME NEW tier, Len(tier) \in Nat
  PROVE  /\ Tiers(tier)[0] = tier
         /\ \A t \in 1..Len(tier) : Tiers(tier)[t] = Turn(Tiers(tier)[t - 1])
  <1> DEFINE N == Len(tier)
             Loops(f, m) == f = [turns \in 0..m |-> IF turns = 0 THEN tier ELSE Turn(f[turns - 1])]
             G == {m \in Nat : \E f : Loops(f, m)}
  <1>1. 0 \in G
    <2>1. Loops([turns \in 0..0 |-> tier], 0)
      OBVIOUS
    <2>2. QED BY <2>1
  <1>2. ASSUME NEW m \in 1..N, m - 1 \in G PROVE m \in G
    <2>1. PICK f : Loops(f, m - 1)
      BY <1>2
    <2> DEFINE g == [turns \in 0..m |-> IF turns = m THEN Turn(f[m - 1]) ELSE f[turns]]
    <2>2. ASSUME NEW t \in 0..m PROVE g[t] = IF t = 0 THEN tier ELSE Turn(g[t - 1])
      <3>1. CASE t = m
        <4>1. t # 0 /\ t - 1 \in 0..m /\ t - 1 # m
          BY <3>1
        <4>2. QED BY <3>1, <4>1
      <3>2. CASE t # m
        <4>1. t \in 0..(m - 1) /\ (t # 0 => t - 1 \in 0..m /\ t - 1 # m)
          BY <3>2
        <4>2. f[t] = IF t = 0 THEN tier ELSE Turn(f[t - 1])
          BY <2>1, <4>1
        <4>3. QED BY <3>2, <4>1, <4>2
      <3>3. QED BY <3>1, <3>2
    <2>3. Loops(g, m)
      <3>1. g = [turns \in 0..m |-> g[turns]]
        OBVIOUS
      <3> HIDE DEF g
      <3>2. QED BY <2>2, <3>1
    <2> HIDE DEF g
    <2>4. \E h : Loops(h, m)
      BY <2>3
    <2> HIDE DEF Loops
    <2>5. QED BY <2>4
  <1> HIDE DEF G
  <1>3. \A m \in 0..N : m \in G
    BY <1>1, <1>2, UpTo
  <1>4. N \in 0..N
    OBVIOUS
  <1>5. \E f : Loops(f, N)
    BY <1>3, <1>4 DEF G
  <1>6. Loops(Tiers(tier), N)
    BY <1>5 DEF Tiers
  <1>7. QED BY <1>6

\* inclusion_proof: the tier, the position in it and the path after each turn.
LEMMA ClimbLoop ==
  ASSUME NEW tier, Len(tier) \in Nat, NEW i
  PROVE  /\ Climb(tier, i)[0] = [tier |-> tier, at |-> i, path |-> << >>]
         /\ \A t \in 1..Len(tier) : Climb(tier, i)[t] = ClimbTurn(Climb(tier, i)[t - 1])
  <1> DEFINE N == Len(tier)
             Loops(f, m) == f = [turns \in 0..m |-> IF turns = 0 THEN [tier |-> tier, at |-> i, path |-> << >>] ELSE ClimbTurn(f[turns - 1])]
             G == {m \in Nat : \E f : Loops(f, m)}
  <1>1. 0 \in G
    <2>1. Loops([turns \in 0..0 |-> [tier |-> tier, at |-> i, path |-> << >>]], 0)
      OBVIOUS
    <2>2. QED BY <2>1
  <1>2. ASSUME NEW m \in 1..N, m - 1 \in G PROVE m \in G
    <2>1. PICK f : Loops(f, m - 1)
      BY <1>2
    <2> DEFINE g == [turns \in 0..m |-> IF turns = m THEN ClimbTurn(f[m - 1]) ELSE f[turns]]
    <2>2. ASSUME NEW t \in 0..m PROVE g[t] = IF t = 0 THEN [tier |-> tier, at |-> i, path |-> << >>] ELSE ClimbTurn(g[t - 1])
      <3>1. CASE t = m
        <4>1. t # 0 /\ t - 1 \in 0..m /\ t - 1 # m
          BY <3>1
        <4>2. QED BY <3>1, <4>1
      <3>2. CASE t # m
        <4>1. t \in 0..(m - 1) /\ (t # 0 => t - 1 \in 0..m /\ t - 1 # m)
          BY <3>2
        <4>2. f[t] = IF t = 0 THEN [tier |-> tier, at |-> i, path |-> << >>] ELSE ClimbTurn(f[t - 1])
          BY <2>1, <4>1
        <4>3. QED BY <3>2, <4>1, <4>2
      <3>3. QED BY <3>1, <3>2
    <2>3. Loops(g, m)
      <3>1. g = [turns \in 0..m |-> g[turns]]
        OBVIOUS
      <3> HIDE DEF g
      <3>2. QED BY <2>2, <3>1
    <2> HIDE DEF g
    <2>4. \E h : Loops(h, m)
      BY <2>3
    <2> HIDE DEF Loops
    <2>5. QED BY <2>4
  <1> HIDE DEF G
  <1>3. \A m \in 0..N : m \in G
    BY <1>1, <1>2, UpTo
  <1>4. N \in 0..N
    OBVIOUS
  <1>5. \E f : Loops(f, N)
    BY <1>3, <1>4 DEF G
  <1>6. Loops(Climb(tier, i), N)
    BY <1>5 DEF Climb
  <1>7. QED BY <1>6

\* verify_inclusion_proof: the digest after each step of the path.
LEMMA HashedLoop ==
  ASSUME NEW leaf, NEW path, Len(path) \in Nat
  PROVE  /\ Hashed(leaf, path)[0] = leaf
         /\ \A t \in 1..Len(path) : Hashed(leaf, path)[t] = Paired(Hashed(leaf, path)[t - 1], path[t])
  <1> DEFINE N == Len(path)
             Loops(f, m) == f = [turns \in 0..m |-> IF turns = 0 THEN leaf ELSE Paired(f[turns - 1], path[turns])]
             G == {m \in Nat : \E f : Loops(f, m)}
  <1>1. 0 \in G
    <2>1. Loops([turns \in 0..0 |-> leaf], 0)
      OBVIOUS
    <2>2. QED BY <2>1
  <1>2. ASSUME NEW m \in 1..N, m - 1 \in G PROVE m \in G
    <2>1. PICK f : Loops(f, m - 1)
      BY <1>2
    <2> DEFINE g == [turns \in 0..m |-> IF turns = m THEN Paired(f[m - 1], path[m]) ELSE f[turns]]
    <2>2. ASSUME NEW t \in 0..m PROVE g[t] = IF t = 0 THEN leaf ELSE Paired(g[t - 1], path[t])
      <3>1. CASE t = m
        <4>1. t # 0 /\ t - 1 \in 0..m /\ t - 1 # m
          BY <3>1
        <4>2. QED BY <3>1, <4>1
      <3>2. CASE t # m
        <4>1. t \in 0..(m - 1) /\ (t # 0 => t - 1 \in 0..m /\ t - 1 # m)
          BY <3>2
        <4>2. f[t] = IF t = 0 THEN leaf ELSE Paired(f[t - 1], path[t])
          BY <2>1, <4>1
        <4>3. QED BY <3>2, <4>1, <4>2
      <3>3. QED BY <3>1, <3>2
    <2>3. Loops(g, m)
      <3>1. g = [turns \in 0..m |-> g[turns]]
        OBVIOUS
      <3> HIDE DEF g
      <3>2. QED BY <2>2, <3>1
    <2> HIDE DEF g
    <2>4. \E h : Loops(h, m)
      BY <2>3
    <2> HIDE DEF Loops
    <2>5. QED BY <2>4
  <1> HIDE DEF G
  <1>3. \A m \in 0..N : m \in G
    BY <1>1, <1>2, UpTo
  <1>4. N \in 0..N
    OBVIOUS
  <1>5. \E f : Loops(f, N)
    BY <1>3, <1>4 DEF G
  <1>6. Loops(Hashed(leaf, path), N)
    BY <1>5 DEF Hashed
  <1>7. QED BY <1>6

\* The powers of two.
LEMMA PowersLoop ==
  ASSUME NEW n \in Nat
  PROVE  /\ Powers(n)[0] = 1
         /\ \A t \in 1..n : Powers(n)[t] = 2 * Powers(n)[t - 1]
  <1> DEFINE N == n
             Loops(f, m) == f = [turns \in 0..m |-> IF turns = 0 THEN 1 ELSE 2 * f[turns - 1]]
             G == {m \in Nat : \E f : Loops(f, m)}
  <1>1. 0 \in G
    <2>1. Loops([turns \in 0..0 |-> 1], 0)
      OBVIOUS
    <2>2. QED BY <2>1
  <1>2. ASSUME NEW m \in 1..N, m - 1 \in G PROVE m \in G
    <2>1. PICK f : Loops(f, m - 1)
      BY <1>2
    <2> DEFINE g == [turns \in 0..m |-> IF turns = m THEN 2 * f[m - 1] ELSE f[turns]]
    <2>2. ASSUME NEW t \in 0..m PROVE g[t] = IF t = 0 THEN 1 ELSE 2 * g[t - 1]
      <3>1. CASE t = m
        <4>1. t # 0 /\ t - 1 \in 0..m /\ t - 1 # m
          BY <3>1
        <4>2. QED BY <3>1, <4>1
      <3>2. CASE t # m
        <4>1. t \in 0..(m - 1) /\ (t # 0 => t - 1 \in 0..m /\ t - 1 # m)
          BY <3>2
        <4>2. f[t] = IF t = 0 THEN 1 ELSE 2 * f[t - 1]
          BY <2>1, <4>1
        <4>3. QED BY <3>2, <4>1, <4>2
      <3>3. QED BY <3>1, <3>2
    <2>3. Loops(g, m)
      <3>1. g = [turns \in 0..m |-> g[turns]]
        OBVIOUS
      <3> HIDE DEF g
      <3>2. QED BY <2>2, <3>1
    <2> HIDE DEF g
    <2>4. \E h : Loops(h, m)
      BY <2>3
    <2> HIDE DEF Loops
    <2>5. QED BY <2>4
  <1> HIDE DEF G
  <1>3. \A m \in 0..N : m \in G
    BY <1>1, <1>2, UpTo
  <1>4. N \in 0..N
    OBVIOUS
  <1>5. \E f : Loops(f, N)
    BY <1>3, <1>4 DEF G
  <1>6. Loops(Powers(n), N)
    BY <1>5 DEF Powers
  <1>7. QED BY <1>6

\* The tree by position, tier by tier.
LEMMA NodesLoop ==
  ASSUME NEW tier, Len(tier) \in Nat
  PROVE  /\ Nodes(tier)[0] = Lowest(tier)
         /\ \A t \in 1..Len(tier) : Nodes(tier)[t] = Above(Len(tier), t, Nodes(tier)[t - 1])
  <1> DEFINE N == Len(tier)
             Loops(f, m) == f = [turns \in 0..m |-> IF turns = 0 THEN Lowest(tier) ELSE Above(Len(tier), turns, f[turns - 1])]
             G == {m \in Nat : \E f : Loops(f, m)}
  <1>1. 0 \in G
    <2>1. Loops([turns \in 0..0 |-> Lowest(tier)], 0)
      OBVIOUS
    <2>2. QED BY <2>1
  <1>2. ASSUME NEW m \in 1..N, m - 1 \in G PROVE m \in G
    <2>1. PICK f : Loops(f, m - 1)
      BY <1>2
    <2> DEFINE g == [turns \in 0..m |-> IF turns = m THEN Above(Len(tier), m, f[m - 1]) ELSE f[turns]]
    <2>2. ASSUME NEW t \in 0..m PROVE g[t] = IF t = 0 THEN Lowest(tier) ELSE Above(Len(tier), t, g[t - 1])
      <3>1. CASE t = m
        <4>1. t # 0 /\ t - 1 \in 0..m /\ t - 1 # m
          BY <3>1
        <4>2. QED BY <3>1, <4>1
      <3>2. CASE t # m
        <4>1. t \in 0..(m - 1) /\ (t # 0 => t - 1 \in 0..m /\ t - 1 # m)
          BY <3>2
        <4>2. f[t] = IF t = 0 THEN Lowest(tier) ELSE Above(Len(tier), t, f[t - 1])
          BY <2>1, <4>1
        <4>3. QED BY <3>2, <4>1, <4>2
      <3>3. QED BY <3>1, <3>2
    <2>3. Loops(g, m)
      <3>1. g = [turns \in 0..m |-> g[turns]]
        OBVIOUS
      <3> HIDE DEF g
      <3>2. QED BY <2>2, <3>1
    <2> HIDE DEF g
    <2>4. \E h : Loops(h, m)
      BY <2>3
    <2> HIDE DEF Loops
    <2>5. QED BY <2>4
  <1> HIDE DEF G
  <1>3. \A m \in 0..N : m \in G
    BY <1>1, <1>2, UpTo
  <1>4. N \in 0..N
    OBVIOUS
  <1>5. \E f : Loops(f, N)
    BY <1>3, <1>4 DEF G
  <1>6. Loops(Nodes(tier), N)
    BY <1>5 DEF Nodes
  <1>7. QED BY <1>6

-----------------------------------------------------------------------------
(* Tiers.                                                                   *)

\* A tier is a sequence, of digests of any kind.
IsTier(s) == \E S : s \in Seq(S)

\* What a tier is made of.
LEMMA TierIs ==
  ASSUME NEW s, IsTier(s)
  PROVE  Len(s) \in Nat /\ s = [k \in 1..Len(s) |-> s[k]]
  <1>1. PICK S : s \in Seq(S)
    BY DEF IsTier
  <1>2. QED BY <1>1

\* Nodes given by position make a tier.
LEMMA TierFrom ==
  ASSUME NEW n \in Nat, NEW s, s = [k \in 1..n |-> s[k]]
  PROVE  IsTier(s) /\ Len(s) = n
  <1> DEFINE S == {s[k] : k \in 1..n}
  <1>1. \A k \in 1..n : s[k] \in S
    OBVIOUS
  <1> HIDE DEF S
  <1>2. [k \in 1..n |-> s[k]] \in [1..n -> S]
    BY <1>1
  <1>3. s \in [1..n -> S]
    BY <1>2, Zenon
  <1>4. s \in Seq(S) /\ Len(s) = n
    BY <1>3
  <1>5. QED BY <1>4 DEF IsTier

\* Even doubles the last node of an odd tier and keeps the others where they are.
LEMMA EvenTier ==
  ASSUME NEW s, IsTier(s)
  PROVE  /\ Len(Even(s)) = 2 * ((Len(s) + 1) \div 2)
         /\ \A k \in 1..Len(Even(s)) : Even(s)[k] = s[IF k <= Len(s) THEN k ELSE Len(s)]
  <1>1. PICK S : s \in Seq(S)
    BY DEF IsTier
  <1>2. CASE Len(s) % 2 = 1
    <2>1. Len(s) \in 1..Len(s) /\ s[Len(s)] \in S
      BY <1>1, <1>2
    <2>2. Even(s) = Append(s, s[Len(s)])
      BY <1>2 DEF Even, Last
    <2>3. Len(Append(s, s[Len(s)])) = Len(s) + 1 /\ Len(s) + 1 = 2 * ((Len(s) + 1) \div 2)
      BY <1>1, <1>2, <2>1
    <2>4. \A k \in 1..(Len(s) + 1) : Append(s, s[Len(s)])[k] = s[IF k <= Len(s) THEN k ELSE Len(s)]
      BY <1>1, <2>1
    <2>5. QED BY <2>2, <2>3, <2>4
  <1>3. CASE Len(s) % 2 # 1
    <2>1. Even(s) = s /\ Len(s) = 2 * ((Len(s) + 1) \div 2) /\ Len(s) \in Nat
      BY <1>1, <1>3 DEF Even
    <2>2. QED BY <2>1
  <1>4. QED BY <1>2, <1>3

\* The next tier is half as long, rounded up; its nodes pair those of Even.
LEMMA UpTier ==
  ASSUME NEW s, IsTier(s)
  PROVE  /\ IsTier(Up(s))
         /\ Len(Up(s)) = (Len(s) + 1) \div 2
         /\ \A k \in 1..Len(Up(s)) :
              /\ Up(s)[k] = <<Even(s)[2 * k - 1], Even(s)[2 * k]>>
              /\ Even(s)[2 * k - 1] = s[2 * k - 1]
              /\ Even(s)[2 * k] = s[IF 2 * k <= Len(s) THEN 2 * k ELSE Len(s)]
  <1> DEFINE n == (Len(s) + 1) \div 2
  <1>1. Len(s) \in Nat /\ n \in Nat /\ Len(Even(s)) = 2 * n /\ Len(Even(s)) \div 2 = n
    BY TierIs, EvenTier
  <1>2. Up(s) = [k \in 1..n |-> <<Even(s)[2 * k - 1], Even(s)[2 * k]>>]
    BY <1>1 DEF Up
  <1>3. \A k \in 1..n : 2 * k - 1 \in 1..(2 * n) /\ 2 * k \in 1..(2 * n) /\ 2 * k - 1 <= Len(s)
    BY <1>1
  <1> HIDE DEF n
  <1>4. \A k \in 1..n : Up(s)[k] = <<Even(s)[2 * k - 1], Even(s)[2 * k]>>
    BY <1>2
  <1>5. Up(s) = [k \in 1..n |-> Up(s)[k]]
    BY <1>2, Zenon
  <1>6. IsTier(Up(s)) /\ Len(Up(s)) = n
    BY <1>1, <1>5, TierFrom
  <1>7. \A k \in 1..n : /\ Even(s)[2 * k - 1] = s[2 * k - 1]
                        /\ Even(s)[2 * k] = s[IF 2 * k <= Len(s) THEN 2 * k ELSE Len(s)]
    BY <1>1, <1>3, EvenTier
  <1>8. QED BY <1>4, <1>6, <1>7 DEF n

\* A turn makes a tier longer than one node shorter, and leaves no tier empty.
LEMMA TurnTier ==
  ASSUME NEW s, IsTier(s), Len(s) >= 1
  PROVE  /\ IsTier(Turn(s)) /\ Len(Turn(s)) \in Nat
         /\ Len(Turn(s)) >= 1
         /\ Len(Turn(s)) = (Len(s) + 1) \div 2
         /\ Len(s) > 1 => Len(Turn(s)) < Len(s)
         /\ Len(s) <= 1 => Turn(s) = s
  <1>1. Len(s) \in Nat
    BY TierIs
  <1>2. CASE Len(s) > 1
    BY <1>1, <1>2, UpTier DEF Turn
  <1>3. CASE Len(s) = 1
    BY <1>1, <1>3 DEF Turn
  <1>4. Len(s) > 1 \/ Len(s) = 1
    BY <1>1
  <1>5. QED BY <1>2, <1>3, <1>4, Zenon

\* Every tier is one, and after as many turns as leaves one node is left.
LEMMA TiersShrink ==
  ASSUME NEW s, IsTier(s), Len(s) >= 1
  PROVE  /\ \A t \in 0..Len(s) : /\ IsTier(Tiers(s)[t]) /\ Len(Tiers(s)[t]) \in Nat
                                 /\ Len(Tiers(s)[t]) >= 1
                                 /\ Len(Tiers(s)[t]) > 1 => Len(Tiers(s)[t]) <= Len(s) - t
         /\ Len(Tiers(s)[Len(s)]) = 1
  <1> DEFINE N == Len(s)
             Fine(t) == /\ IsTier(Tiers(s)[t]) /\ Len(Tiers(s)[t]) \in Nat
                        /\ Len(Tiers(s)[t]) >= 1
                        /\ Len(Tiers(s)[t]) > 1 => Len(Tiers(s)[t]) <= N - t
             G == {t \in 0..N : Fine(t)}
  <1>1. N \in Nat
    BY TierIs
  <1>2. Tiers(s)[0] = s /\ \A t \in 1..N : Tiers(s)[t] = Turn(Tiers(s)[t - 1])
    BY <1>1, TiersLoop
  <1>3. 0 \in G
    BY <1>1, <1>2
  <1>4. ASSUME NEW t \in 1..N, t - 1 \in G PROVE t \in G
    <2> DEFINE below == Tiers(s)[t - 1]
    <2>1. Fine(t - 1) /\ t - 1 \in 0..N /\ t \in 0..N
      BY <1>1, <1>4
    <2>2. Tiers(s)[t] = Turn(below)
      BY <1>2
    <2>3. /\ IsTier(Turn(below)) /\ Len(Turn(below)) \in Nat /\ Len(Turn(below)) >= 1
          /\ Len(below) > 1 => Len(Turn(below)) < Len(below)
          /\ Len(below) <= 1 => Turn(below) = below
      BY <2>1, TurnTier
    <2> HIDE DEF below
    <2>4. Len(Turn(below)) > 1 => Len(Turn(below)) <= N - t
      BY <1>1, <2>1, <2>3 DEF below
    <2>5. QED BY <2>1, <2>2, <2>3, <2>4
  <1> HIDE DEF G
  <1>5. \A t \in 0..N : t \in G
    BY <1>1, <1>3, <1>4, UpTo
  <1>6. \A t \in 0..N : Fine(t)
    BY <1>5 DEF G
  <1>7. N \in 0..N
    BY <1>1
  <1>8. Fine(N) /\ N - N = 0
    BY <1>1, <1>6, <1>7
  <1>9. Len(Tiers(s)[N]) = 1
    BY <1>8
  <1>10. QED BY <1>6, <1>9

-----------------------------------------------------------------------------
(* Inclusion proofs.                                                        *)

\* A node and its step of the proof give the node above.
LEMMA PairedStep ==
  ASSUME NEW s, IsTier(s), NEW at \in 0..(Len(s) - 1)
  PROVE  /\ at \div 2 \in 0..(Len(Up(s)) - 1)
         /\ Paired(s[at + 1], Step(s, at)) = Up(s)[at \div 2 + 1]
  <1> DEFINE k == at \div 2 + 1
  <1>1. Len(s) \in Nat /\ Len(Up(s)) = (Len(s) + 1) \div 2
    BY TierIs, UpTier
  <1>2. at \div 2 \in 0..(Len(Up(s)) - 1) /\ k \in 1..Len(Up(s)) /\ k \in Nat
    BY <1>1
  <1>3. /\ Up(s)[k] = <<Even(s)[2 * k - 1], Even(s)[2 * k]>>
        /\ Even(s)[2 * k - 1] = s[2 * k - 1]
        /\ Even(s)[2 * k] = s[IF 2 * k <= Len(s) THEN 2 * k ELSE Len(s)]
    BY <1>2, UpTier
  <1>4. CASE at % 2 = 1
    <2>1. 2 * k = at + 1 /\ 2 * k <= Len(s) /\ 2 * k - 1 = at /\ (at - 1) + 1 = at
      BY <1>1, <1>4
    <2>2. SiblingOf(at) + 1 = at
      BY <1>4, <2>1 DEF SiblingOf
    <2>3. Step(s, at) = [sibling |-> Even(s)[at], right |-> TRUE]
      BY <1>4, <2>2 DEF Step
    <2>4. Paired(s[at + 1], Step(s, at)) = <<Even(s)[at], s[at + 1]>>
      BY <2>3 DEF Paired
    <2>5. Up(s)[k] = <<Even(s)[at], s[at + 1]>>
      BY <1>3, <2>1
    <2>6. QED BY <1>2, <2>4, <2>5
  <1>5. CASE at % 2 # 1
    <2>1. 2 * k = at + 2 /\ 2 * k - 1 = at + 1
      BY <1>1, <1>5
    <2>2. SiblingOf(at) + 1 = 2 * k
      BY <1>5, <2>1 DEF SiblingOf
    <2>3. Step(s, at) = [sibling |-> Even(s)[2 * k], right |-> FALSE]
      BY <1>5, <2>2 DEF Step
    <2>4. Paired(s[at + 1], Step(s, at)) = <<s[at + 1], Even(s)[2 * k]>>
      BY <2>3 DEF Paired
    <2>5. Up(s)[k] = <<s[at + 1], Even(s)[2 * k]>>
      BY <1>3, <2>1
    <2>6. QED BY <1>2, <2>4, <2>5
  <1>6. QED BY <1>4, <1>5

\* What one turn of the climb does.
LEMMA ClimbStep ==
  ASSUME NEW c, IsTier(c.tier), Len(c.tier) >= 1, IsTier(c.path), c.at \in 0..(Len(c.tier) - 1)
  PROVE  /\ ClimbTurn(c).tier = Turn(c.tier)
         /\ ClimbTurn(c).at \in 0..(Len(Turn(c.tier)) - 1)
         /\ IsTier(ClimbTurn(c).path)
         /\ Len(c.tier) <= 1 => ClimbTurn(c) = c
         /\ Len(c.tier) > 1 =>
              /\ Len(ClimbTurn(c).path) = Len(c.path) + 1
              /\ \A k \in 1..Len(c.path) : ClimbTurn(c).path[k] = c.path[k]
              /\ ClimbTurn(c).path[Len(c.path) + 1] = Step(c.tier, c.at)
              /\ ClimbTurn(c).at = c.at \div 2
  <1>1. Len(c.tier) \in Nat
    BY TierIs
  <1>2. CASE Len(c.tier) > 1
    <2> DEFINE step == Step(c.tier, c.at)
               longer == Append(c.path, step)
    <2>1. ClimbTurn(c) = [tier |-> Up(c.tier), at |-> c.at \div 2, path |-> longer] /\ Turn(c.tier) = Up(c.tier)
      BY <1>2 DEF ClimbTurn, Turn
    <2>2. c.at \div 2 \in 0..(Len(Up(c.tier)) - 1)
      BY PairedStep
    <2>3. PICK S : c.path \in Seq(S)
      BY DEF IsTier
    <2>4. c.path \in Seq(S \cup {step}) /\ step \in S \cup {step}
      BY <2>3
    <2> HIDE DEF step
    <2>5. /\ longer \in Seq(S \cup {step})
          /\ Len(longer) = Len(c.path) + 1
          /\ \A k \in 1..Len(c.path) : longer[k] = c.path[k]
          /\ longer[Len(c.path) + 1] = step
      BY <2>4
    <2>6. IsTier(longer)
      BY <2>5 DEF IsTier
    <2> HIDE DEF longer
    <2>7. /\ ClimbTurn(c).tier = Up(c.tier) /\ ClimbTurn(c).at = c.at \div 2 /\ ClimbTurn(c).path = longer
      BY <2>1
    <2>8. QED BY <1>1, <1>2, <2>1, <2>2, <2>5, <2>6, <2>7 DEF step
  <1>3. CASE ~ (Len(c.tier) > 1)
    <2>1. ClimbTurn(c) = c /\ Turn(c.tier) = c.tier
      BY <1>3 DEF ClimbTurn, Turn
    <2>2. QED BY <1>1, <1>3, <2>1
  <1>4. QED BY <1>2, <1>3

\* The climb goes through the tiers of root, at a position of each.
LEMMA ClimbFollows ==
  ASSUME NEW s, IsTier(s), NEW i \in 0..(Len(s) - 1)
  PROVE  \A t \in 0..Len(s) : /\ Climb(s, i)[t].tier = Tiers(s)[t]
                              /\ Climb(s, i)[t].at \in 0..(Len(Tiers(s)[t]) - 1)
                              /\ IsTier(Climb(s, i)[t].path)
  <1> DEFINE N == Len(s)
             Fine(t) == /\ Climb(s, i)[t].tier = Tiers(s)[t]
                        /\ Climb(s, i)[t].at \in 0..(Len(Tiers(s)[t]) - 1)
                        /\ IsTier(Climb(s, i)[t].path)
             G == {t \in 0..N : Fine(t)}
  <1>1. N \in Nat /\ N >= 1
    <2>1. N \in Nat
      BY TierIs
    <2>2. QED BY <2>1
  <1>2. Tiers(s)[0] = s /\ \A t \in 1..N : Tiers(s)[t] = Turn(Tiers(s)[t - 1])
    BY <1>1, TiersLoop
  <1>3. /\ Climb(s, i)[0] = [tier |-> s, at |-> i, path |-> << >>]
        /\ \A t \in 1..N : Climb(s, i)[t] = ClimbTurn(Climb(s, i)[t - 1])
    BY <1>1, ClimbLoop
  <1>4. \A t \in 0..N : IsTier(Tiers(s)[t]) /\ Len(Tiers(s)[t]) >= 1
    BY <1>1, TiersShrink
  <1>5. 0 \in G
    <2>1. IsTier(<< >>)
      <3>1. << >> \in Seq({})
        OBVIOUS
      <3>2. QED BY <3>1 DEF IsTier
    <2>2. QED BY <1>1, <1>2, <1>3, <2>1
  <1>6. ASSUME NEW t \in 1..N, t - 1 \in G PROVE t \in G
    <2> DEFINE c == Climb(s, i)[t - 1]
    <2>1. Fine(t - 1) /\ t - 1 \in 0..N /\ t \in 0..N
      BY <1>1, <1>6
    <2>2. Climb(s, i)[t] = ClimbTurn(c) /\ Tiers(s)[t] = Turn(c.tier)
      BY <1>2, <1>3, <2>1
    <2>3. IsTier(c.tier) /\ Len(c.tier) >= 1 /\ IsTier(c.path) /\ c.at \in 0..(Len(c.tier) - 1)
      BY <1>4, <2>1
    <2> HIDE DEF c
    <2>4. /\ ClimbTurn(c).tier = Turn(c.tier)
          /\ ClimbTurn(c).at \in 0..(Len(Turn(c.tier)) - 1)
          /\ IsTier(ClimbTurn(c).path)
      BY <2>3, ClimbStep
    <2>5. Fine(t)
      BY <2>2, <2>4
    <2>6. QED BY <2>1, <2>5
  <1> HIDE DEF G
  <1>7. \A t \in 0..N : t \in G
    BY <1>1, <1>5, <1>6, UpTo
  <1>8. QED BY <1>7 DEF G

\* What ClimbStep says of a turn of the climb from c to d, from one tier to the next.
Climbed(c, d, tier, next) ==
  /\ IsTier(c.tier) /\ c.tier = tier /\ c.at \in 0..(Len(c.tier) - 1)
  /\ IsTier(c.path) /\ d.tier = next /\ d.tier = Turn(c.tier)
  /\ Len(c.tier) <= 1 => d = c
  /\ Len(c.tier) > 1 =>
       /\ Len(d.path) = Len(c.path) + 1
       /\ \A k \in 1..Len(c.path) : d.path[k] = c.path[k]
       /\ d.path[Len(c.path) + 1] = Step(c.tier, c.at)
       /\ d.at = c.at \div 2

\* Every turn of the climb is such a turn.
LEMMA ClimbSteps ==
  ASSUME NEW s, IsTier(s), NEW i \in 0..(Len(s) - 1), NEW t \in 1..Len(s)
  PROVE  Climbed(Climb(s, i)[t - 1], Climb(s, i)[t], Tiers(s)[t - 1], Tiers(s)[t])
  <1> DEFINE c == Climb(s, i)[t - 1]
             d == Climb(s, i)[t]
  <1>1. Len(s) \in Nat /\ t - 1 \in 0..Len(s) /\ t \in 0..Len(s) /\ Len(s) >= 1
    BY TierIs
  <1>2. d = ClimbTurn(c)
    BY <1>1, ClimbLoop
  <1>3. c.tier = Tiers(s)[t - 1] /\ c.at \in 0..(Len(Tiers(s)[t - 1]) - 1) /\ IsTier(c.path) /\ d.tier = Tiers(s)[t]
    BY <1>1, ClimbFollows
  <1>4. IsTier(Tiers(s)[t - 1]) /\ Len(Tiers(s)[t - 1]) >= 1
    BY <1>1, TiersShrink
  <1> HIDE DEF c, d
  <1>5. Climbed(c, d, Tiers(s)[t - 1], Tiers(s)[t])
    BY <1>2, <1>3, <1>4, ClimbStep DEF Climbed
  <1>6. QED BY <1>5 DEF c, d

\* The path only grows: what a turn added is in the finished path, in its place.
LEMMA PathGrows ==
  ASSUME NEW s, IsTier(s), NEW i \in 0..(Len(s) - 1)
  PROVE  LET path == Climb(s, i)[Len(s)].path
         IN \A t \in 0..Len(s) : /\ Len(Climb(s, i)[t].path) \in Nat
                                 /\ Len(Climb(s, i)[t].path) <= Len(path)
                                 /\ \A k \in 1..Len(Climb(s, i)[t].path) : Climb(s, i)[t].path[k] = path[k]
  <1> DEFINE N == Len(s)
             path == Climb(s, i)[N].path
             Fine(t) == /\ Len(Climb(s, i)[t].path) \in Nat
                        /\ Len(Climb(s, i)[t].path) <= Len(path)
                        /\ \A k \in 1..Len(Climb(s, i)[t].path) : Climb(s, i)[t].path[k] = path[k]
             G == {t \in 0..N : Fine(t)}
  <1>1. N \in Nat /\ N \in 0..N
    <2>1. N \in Nat
      BY TierIs
    <2>2. QED BY <2>1
  <1>2. \A t \in 0..N : Len(Climb(s, i)[t].path) \in Nat
    BY ClimbFollows, TierIs
  <1>3. N \in G
    BY <1>1, <1>2
  <1>4. ASSUME NEW t \in 1..N, t \in G PROVE t - 1 \in G
    <2> DEFINE c == Climb(s, i)[t - 1]
               d == Climb(s, i)[t]
    <2>1. Fine(t) /\ t - 1 \in 0..N /\ t \in 0..N
      BY <1>1, <1>4
    <2>2. Len(c.path) \in Nat /\ Len(d.path) \in Nat /\ Len(path) \in Nat
      BY <1>1, <1>2, <2>1
    <2>3. Climbed(c, d, Tiers(s)[t - 1], Tiers(s)[t])
      BY ClimbSteps
    <2>4. Len(d.path) <= Len(path) /\ \A k \in 1..Len(d.path) : d.path[k] = path[k]
      BY <2>1
    <2> HIDE DEF c, d, path
    <2>5. IsTier(c.tier)
      BY <2>3 DEF Climbed
    <2>6. Len(c.tier) \in Nat
      BY <2>5, TierIs
    <2>7. Len(c.path) <= Len(path) /\ \A k \in 1..Len(c.path) : c.path[k] = path[k]
      <3>1. CASE Len(c.tier) <= 1
        BY <2>3, <2>4, <3>1 DEF Climbed
      <3>2. CASE Len(c.tier) > 1
        BY <2>2, <2>3, <2>4, <3>2 DEF Climbed
      <3>3. QED BY <2>6, <3>1, <3>2
    <2>8. Fine(t - 1)
      BY <2>2, <2>7 DEF c
    <2>9. QED BY <2>1, <2>8
  <1> HIDE DEF G
  <1>5. \A t \in 0..N : t \in G
    BY <1>1, <1>3, <1>4, DownFrom
  <1>6. QED BY <1>5 DEF G

\* Hashing up the path passes, after each step, through the node the climb was at.
LEMMA HashedFollows ==
  ASSUME NEW s, IsTier(s), NEW i \in 0..(Len(s) - 1)
  PROVE  LET path == Climb(s, i)[Len(s)].path
         IN \A t \in 0..Len(s) :
              Hashed(s[i + 1], path)[Len(Climb(s, i)[t].path)] = Tiers(s)[t][Climb(s, i)[t].at + 1]
  <1> DEFINE N == Len(s)
             path == Climb(s, i)[N].path
             h == Hashed(s[i + 1], path)
             Fine(t) == h[Len(Climb(s, i)[t].path)] = Tiers(s)[t][Climb(s, i)[t].at + 1]
             G == {t \in 0..N : Fine(t)}
  <1>1. N \in Nat /\ N \in 0..N /\ N >= 1
    <2>1. N \in Nat
      BY TierIs
    <2>2. QED BY <2>1
  <1>2. Len(path) \in Nat
    BY <1>1, ClimbFollows, TierIs
  <1>3. h[0] = s[i + 1] /\ \A k \in 1..Len(path) : h[k] = Paired(h[k - 1], path[k])
    <2> HIDE DEF path
    <2>1. QED BY <1>2, HashedLoop
  <1>4. 0 \in G
    <2>1. Climb(s, i)[0] = [tier |-> s, at |-> i, path |-> << >>] /\ Tiers(s)[0] = s
      BY <1>1, ClimbLoop, TiersLoop
    <2> HIDE DEF h
    <2>2. QED BY <1>1, <1>3, <2>1
  <1>5. ASSUME NEW t \in 1..N, t - 1 \in G PROVE t \in G
    <2> DEFINE c == Climb(s, i)[t - 1]
               d == Climb(s, i)[t]
    <2>1. Fine(t - 1) /\ t - 1 \in 0..N /\ t \in 0..N
      BY <1>1, <1>5
    <2>2. Climbed(c, d, Tiers(s)[t - 1], Tiers(s)[t])
      BY ClimbSteps
    <2>3. Len(c.path) \in Nat /\ Len(d.path) <= Len(path) /\ \A k \in 1..Len(d.path) : d.path[k] = path[k]
      BY <1>1, <2>1, PathGrows
    <2>4. h[Len(c.path)] = Tiers(s)[t - 1][c.at + 1]
      BY <2>1
    <2> HIDE DEF c, d, path, h
    <2>5. IsTier(c.tier) /\ Len(c.tier) \in Nat /\ c.at \in 0..(Len(c.tier) - 1) /\ c.tier = Tiers(s)[t - 1]
      BY <2>2, TierIs DEF Climbed
    <2>6. h[Len(d.path)] = d.tier[d.at + 1]
      <3>1. CASE Len(c.tier) <= 1
        <4>1. d = c /\ d.tier = c.tier
          BY <2>2, <3>1 DEF Climbed
        <4>2. QED BY <2>4, <2>5, <4>1
      <3>2. CASE Len(c.tier) > 1
        <4>1. /\ Len(d.path) = Len(c.path) + 1 /\ d.path[Len(c.path) + 1] = Step(c.tier, c.at)
              /\ d.at = c.at \div 2 /\ d.tier = Up(c.tier)
          BY <2>2, <3>2 DEF Climbed, Turn
        <4>2. Len(d.path) \in 1..Len(path) /\ Len(d.path) \in 1..Len(d.path) /\ Len(d.path) - 1 = Len(c.path)
          BY <1>2, <2>3, <4>1
        <4>3. path[Len(d.path)] = Step(c.tier, c.at)
          BY <2>3, <4>1, <4>2
        <4>4. h[Len(d.path)] = Paired(c.tier[c.at + 1], Step(c.tier, c.at))
          BY <1>3, <2>4, <2>5, <4>2, <4>3
        <4>5. Paired(c.tier[c.at + 1], Step(c.tier, c.at)) = Up(c.tier)[c.at \div 2 + 1]
          BY <2>5, PairedStep
        <4>6. QED BY <4>1, <4>4, <4>5
      <3>3. QED BY <2>5, <3>1, <3>2
    <2>7. Fine(t)
      BY <2>2, <2>6 DEF Climbed, d
    <2>8. QED BY <2>1, <2>7
  <1> HIDE DEF G
  <1>6. \A t \in 0..N : t \in G
    BY <1>1, <1>4, <1>5, UpTo
  <1>7. QED BY <1>6 DEF G

\* The proof of a leaf rebuilds the root of the tier it is a leaf of.
LEMMA ClimbRebuilds ==
  ASSUME NEW s, IsTier(s), NEW i \in 0..(Len(s) - 1)
  PROVE  Rebuilt([leaf |-> s[i + 1], path |-> Climb(s, i)[Len(s)].path]) = RootOf(s)
  <1> DEFINE N == Len(s)
             path == Climb(s, i)[N].path
  <1>1. N \in Nat /\ N \in 0..N /\ N >= 1
    <2>1. N \in Nat
      BY TierIs
    <2>2. QED BY <2>1
  <1>2. Hashed(s[i + 1], path)[Len(path)] = Tiers(s)[N][Climb(s, i)[N].at + 1]
    BY <1>1, HashedFollows
  <1>3. Climb(s, i)[N].at \in 0..(Len(Tiers(s)[N]) - 1) /\ Len(Tiers(s)[N]) = 1
    BY <1>1, ClimbFollows, TiersShrink
  <1>4. Climb(s, i)[N].at + 1 = 1
    BY <1>3
  <1>5. RootOf(s) = Tiers(s)[N][1]
    BY <1>1 DEF RootOf
  <1> HIDE DEF path
  <1>6. Rebuilt([leaf |-> s[i + 1], path |-> path]) = Hashed(s[i + 1], path)[Len(path)]
    BY DEF Rebuilt
  <1>7. QED BY <1>2, <1>4, <1>5, <1>6 DEF path

-----------------------------------------------------------------------------
(* What the root determines.                                                *)

\* Two tiers of the same length that a turn takes to the same tier are the same.
LEMMA TurnInjective ==
  ASSUME NEW a, NEW b, IsTier(a), IsTier(b), Len(a) = Len(b), Len(a) >= 1, Turn(a) = Turn(b)
  PROVE  a = b
  <1> DEFINE n == Len(a)
  <1>0. n \in Nat
    BY TierIs
  <1>1. a = [j \in 1..n |-> a[j]] /\ b = [j \in 1..n |-> b[j]]
    BY TierIs, Zenon
  <1>2. CASE n <= 1
    BY <1>2 DEF Turn
  <1>3. CASE n > 1
    <2>1. Up(a) = Up(b)
      BY <1>3 DEF Turn
    <2>2. Len(b) = n /\ Len(Up(a)) = (n + 1) \div 2 /\ Len(Up(b)) = (n + 1) \div 2
      BY UpTier
    <2>3. \A k \in 1..((n + 1) \div 2) :
            /\ Up(a)[k] = <<a[2 * k - 1], a[IF 2 * k <= n THEN 2 * k ELSE n]>>
            /\ Up(b)[k] = <<b[2 * k - 1], b[IF 2 * k <= n THEN 2 * k ELSE n]>>
      <3>1. \A k \in 1..Len(Up(a)) : Up(a)[k] = <<a[2 * k - 1], a[IF 2 * k <= Len(a) THEN 2 * k ELSE Len(a)]>>
        BY UpTier
      <3>2. \A k \in 1..Len(Up(b)) : Up(b)[k] = <<b[2 * k - 1], b[IF 2 * k <= Len(b) THEN 2 * k ELSE Len(b)]>>
        BY UpTier
      <3> HIDE DEF n
      <3>3. QED BY <2>2, <3>1, <3>2 DEF n
    <2>4. ASSUME NEW j \in 1..n PROVE a[j] = b[j]
      <3> DEFINE k == (j + 1) \div 2
      <3>1. k \in 1..((n + 1) \div 2) /\ (2 * k - 1 = j \/ 2 * k = j)
        <4> HIDE DEF n
        <4>1. QED BY <1>0
      <3> HIDE DEF k
      <3>2. <<a[2 * k - 1], a[IF 2 * k <= n THEN 2 * k ELSE n]>> = <<b[2 * k - 1], b[IF 2 * k <= n THEN 2 * k ELSE n]>>
        BY <2>1, <2>3, <3>1
      <3>3. CASE 2 * k - 1 = j
        BY <3>2, <3>3
      <3>4. CASE 2 * k = j
        BY <1>0, <3>2, <3>4
      <3>5. QED BY <3>1, <3>3, <3>4
    <2>5. [j \in 1..n |-> a[j]] = [j \in 1..n |-> b[j]]
      BY <2>4
    <2>6. QED BY <1>1, <2>5
  <1>4. QED BY <1>0, <1>2, <1>3

\* The tiers over two tiers of the same length are of the same lengths.
LEMMA SameLengths ==
  ASSUME NEW a, NEW b, IsTier(a), IsTier(b), Len(a) = Len(b), Len(a) >= 1
  PROVE  \A t \in 0..Len(a) : Len(Tiers(a)[t]) = Len(Tiers(b)[t])
  <1> DEFINE N == Len(a)
             G == {t \in 0..N : Len(Tiers(a)[t]) = Len(Tiers(b)[t])}
  <1>1. N \in Nat
    BY TierIs
  <1>2. /\ Tiers(a)[0] = a /\ \A t \in 1..N : Tiers(a)[t] = Turn(Tiers(a)[t - 1])
        /\ Tiers(b)[0] = b /\ \A t \in 1..N : Tiers(b)[t] = Turn(Tiers(b)[t - 1])
    BY <1>1, TiersLoop
  <1>3. 0 \in G
    BY <1>1, <1>2
  <1>4. ASSUME NEW t \in 1..N, t - 1 \in G PROVE t \in G
    <2>1. t - 1 \in 0..N /\ t \in 0..N
      BY <1>1
    <2>2. /\ IsTier(Tiers(a)[t - 1]) /\ Len(Tiers(a)[t - 1]) >= 1
          /\ IsTier(Tiers(b)[t - 1]) /\ Len(Tiers(b)[t - 1]) >= 1
      BY <2>1, TiersShrink
    <2>3. /\ Len(Turn(Tiers(a)[t - 1])) = (Len(Tiers(a)[t - 1]) + 1) \div 2
          /\ Len(Turn(Tiers(b)[t - 1])) = (Len(Tiers(b)[t - 1]) + 1) \div 2
      BY <2>2, TurnTier
    <2>4. QED BY <1>2, <1>4, <2>1, <2>3
  <1> HIDE DEF G
  <1>5. \A t \in 0..N : t \in G
    BY <1>1, <1>3, <1>4, UpTo
  <1>6. QED BY <1>5 DEF G

\* Two tiers of the same length with the same root are the same.
LEMMA RootInjective ==
  ASSUME NEW a, NEW b, IsTier(a), IsTier(b), Len(a) = Len(b), Len(a) >= 1, RootOf(a) = RootOf(b)
  PROVE  a = b
  <1> DEFINE N == Len(a)
             G == {t \in 0..N : Tiers(a)[t] = Tiers(b)[t]}
  <1>1. N \in Nat /\ N \in 0..N
    <2>1. N \in Nat
      BY TierIs
    <2>2. QED BY <2>1
  <1>2. /\ Tiers(a)[0] = a /\ \A t \in 1..N : Tiers(a)[t] = Turn(Tiers(a)[t - 1])
        /\ Tiers(b)[0] = b /\ \A t \in 1..N : Tiers(b)[t] = Turn(Tiers(b)[t - 1])
    BY <1>1, TiersLoop
  <1>3. \A t \in 0..N : /\ IsTier(Tiers(a)[t]) /\ Len(Tiers(a)[t]) >= 1
                        /\ IsTier(Tiers(b)[t]) /\ Len(Tiers(b)[t]) >= 1
    BY TiersShrink
  <1>4. N \in G
    <2>1. Tiers(a)[N][1] = Tiers(b)[N][1]
      BY DEF RootOf
    <2>2. Len(Tiers(a)[N]) = 1 /\ Len(Tiers(b)[N]) = 1
      BY TiersShrink
    <2>3. /\ Tiers(a)[N] = [k \in 1..1 |-> Tiers(a)[N][k]]
          /\ Tiers(b)[N] = [k \in 1..1 |-> Tiers(b)[N][k]]
      BY <1>1, <1>3, <2>2, TierIs
    <2>4. [k \in 1..1 |-> Tiers(a)[N][k]] = [k \in 1..1 |-> Tiers(b)[N][k]]
      BY <2>1
    <2>5. QED BY <1>1, <2>3, <2>4
  <1>5. ASSUME NEW t \in 1..N, t \in G PROVE t - 1 \in G
    <2>1. t - 1 \in 0..N /\ t \in 0..N
      BY <1>1
    <2>2. Turn(Tiers(a)[t - 1]) = Turn(Tiers(b)[t - 1])
      BY <1>2, <1>5
    <2>3. Len(Tiers(a)[t - 1]) = Len(Tiers(b)[t - 1])
      BY <2>1, SameLengths
    <2>4. Tiers(a)[t - 1] = Tiers(b)[t - 1]
      BY <1>3, <2>1, <2>2, <2>3, TurnInjective
    <2>5. QED BY <2>1, <2>4
  <1> HIDE DEF G
  <1>6. \A t \in 0..N : t \in G
    BY <1>1, <1>4, <1>5, DownFrom
  <1>7. 0 \in 0..N
    BY <1>1
  <1>8. Tiers(a)[0] = Tiers(b)[0]
    BY <1>6, <1>7 DEF G
  <1>9. QED BY <1>2, <1>8

-----------------------------------------------------------------------------
(* The tree by position.                                                    *)

\* Halving a width, rounded up, is dividing by the next power.
LEMMA Halved ==
  ASSUME NEW n \in Nat, NEW p \in Nat, p >= 1
  PROVE  (n + 2 * p - 1) \div (2 * p) = ((n + p - 1) \div p + 1) \div 2
OBVIOUS

\* Each tier by position is half as wide as the one below, rounded up.
LEMMA Widths ==
  ASSUME NEW n \in Nat
  PROVE  /\ Width(n, 0) = n
         /\ \A t \in 1..n : Width(n, t) = (Width(n, t - 1) + 1) \div 2
  <1> DEFINE P == Powers(n)
             G == {t \in 0..n : P[t] \in Nat /\ P[t] >= 1}
  <1>1. P[0] = 1 /\ \A t \in 1..n : P[t] = 2 * P[t - 1]
    BY PowersLoop
  <1> HIDE DEF P
  <1>2. 0 \in G
    BY <1>1
  <1>3. ASSUME NEW t \in 1..n, t - 1 \in G PROVE t \in G
    BY <1>1, <1>3
  <1> HIDE DEF G
  <1>4. \A t \in 0..n : t \in G
    BY <1>2, <1>3, UpTo
  <1>5. \A t \in 0..n : P[t] \in Nat /\ P[t] >= 1
    BY <1>4 DEF G
  <1>6. Width(n, 0) = n
    <2>1. (n + 1 - 1) \div 1 = n
      OBVIOUS
    <2>2. QED BY <1>1, <2>1 DEF Width, P
  <1>7. ASSUME NEW t \in 1..n PROVE Width(n, t) = (Width(n, t - 1) + 1) \div 2
    <2>1. t - 1 \in 0..n /\ P[t - 1] \in Nat /\ P[t - 1] >= 1 /\ P[t] = 2 * P[t - 1]
      BY <1>1, <1>5
    <2>2. (n + 2 * P[t - 1] - 1) \div (2 * P[t - 1]) = ((n + P[t - 1] - 1) \div P[t - 1] + 1) \div 2
      BY <2>1, Halved
    <2>3. Width(n, t) = (n + P[t] - 1) \div P[t] /\ Width(n, t - 1) = (n + P[t - 1] - 1) \div P[t - 1]
      BY DEF Width, P
    <2>4. QED BY <2>1, <2>2, <2>3
  <1>8. QED BY <1>6, <1>7

\* The tiers of root are as long as those of the tree by position are wide.
LEMMA TiersAreWide ==
  ASSUME NEW s, IsTier(s), Len(s) >= 1
  PROVE  \A t \in 0..Len(s) : Len(Tiers(s)[t]) = Width(Len(s), t)
  <1> DEFINE N == Len(s)
             G == {t \in 0..N : Len(Tiers(s)[t]) = Width(N, t)}
  <1>1. N \in Nat
    BY TierIs
  <1>2. Tiers(s)[0] = s /\ \A t \in 1..N : Tiers(s)[t] = Turn(Tiers(s)[t - 1])
    BY <1>1, TiersLoop
  <1>3. Width(N, 0) = N /\ \A t \in 1..N : Width(N, t) = (Width(N, t - 1) + 1) \div 2
    BY <1>1, Widths
  <1>4. 0 \in G
    BY <1>1, <1>2, <1>3
  <1>5. ASSUME NEW t \in 1..N, t - 1 \in G PROVE t \in G
    <2>1. t - 1 \in 0..N /\ t \in 0..N
      BY <1>1
    <2>2. IsTier(Tiers(s)[t - 1]) /\ Len(Tiers(s)[t - 1]) >= 1
      BY <2>1, TiersShrink
    <2>3. Len(Turn(Tiers(s)[t - 1])) = (Len(Tiers(s)[t - 1]) + 1) \div 2
      BY <2>2, TurnTier
    <2>4. QED BY <1>2, <1>3, <1>5, <2>1, <2>3
  <1> HIDE DEF G
  <1>6. \A t \in 0..N : t \in G
    BY <1>1, <1>4, <1>5, UpTo
  <1>7. QED BY <1>6 DEF G

\* Nodes counted from 0 that are those of a tier.
NodesOf(T, below) == \A k \in 0..(Len(T) - 1) : below[k] = T[k + 1]

\* One turn makes the nodes the tree by position has there.
LEMMA AboveIsUp ==
  ASSUME NEW n \in Nat, NEW t \in 1..n, NEW T, IsTier(T), NEW below,
         Len(T) > 1, Len(T) = Width(n, t - 1), NodesOf(T, below)
  PROVE  \A k \in 0..(Width(n, t) - 1) : Above(n, t, below)[k] = Turn(T)[k + 1]
  <1> DEFINE W == Len(T)
  <1>1. W \in Nat
    BY TierIs
  <1>2. Width(n, t) = (W + 1) \div 2
    BY Widths
  <1>3. SUFFICES ASSUME NEW k \in 0..(Width(n, t) - 1) PROVE Above(n, t, below)[k] = Turn(T)[k + 1]
    OBVIOUS
  <1>4. Above(n, t, below)[k] = <<below[Inner(n, t - 1, 2 * k)], below[Inner(n, t - 1, 2 * k + 1)]>>
    BY DEF Above
  <1>5. /\ Inner(n, t - 1, 2 * k) = IF 2 * k >= W THEN W - 1 ELSE 2 * k
        /\ Inner(n, t - 1, 2 * k + 1) = IF 2 * k + 1 >= W THEN W - 1 ELSE 2 * k + 1
    BY DEF Inner
  <1>6. \A j \in 1..Len(Up(T)) : Up(T)[j] = <<T[2 * j - 1], T[IF 2 * j <= Len(T) THEN 2 * j ELSE Len(T)]>>
    BY UpTier
  <1>7. Len(Up(T)) = (W + 1) \div 2
    BY UpTier
  <1>8. Turn(T) = Up(T)
    BY DEF Turn
  <1>9. \A j \in 0..(W - 1) : below[j] = T[j + 1]
    BY DEF NodesOf
  <1>10. W > 1
    OBVIOUS
  <1>11. \A j \in 1..Len(Up(T)) : Up(T)[j] = <<T[2 * j - 1], T[IF 2 * j <= W THEN 2 * j ELSE W]>>
    BY <1>6
  <1> HIDE DEF W
  <1>12. k \in Nat /\ k + 1 \in 1..Len(Up(T)) /\ 2 * k < W /\ 2 * k \in 0..(W - 1) /\ 2 * (k + 1) = 2 * k + 2
    BY <1>1, <1>2, <1>7
  <1>13. Turn(T)[k + 1] = <<T[2 * k + 1], T[IF 2 * k + 2 <= W THEN 2 * k + 2 ELSE W]>>
    BY <1>8, <1>11, <1>12
  <1>14. below[Inner(n, t - 1, 2 * k)] = T[2 * k + 1]
    BY <1>1, <1>5, <1>9, <1>12
  <1>15. below[Inner(n, t - 1, 2 * k + 1)] = T[IF 2 * k + 2 <= W THEN 2 * k + 2 ELSE W]
    <2>1. CASE 2 * k + 1 >= W
      <3>1. ~ (2 * k + 2 <= W) /\ W - 1 \in 0..(W - 1) /\ (W - 1) + 1 = W
        BY <1>1, <1>10, <1>12, <2>1
      <3>2. QED BY <1>5, <1>9, <2>1, <3>1
    <2>2. CASE ~ (2 * k + 1 >= W)
      <3>1. 2 * k + 2 <= W /\ 2 * k + 1 \in 0..(W - 1) /\ (2 * k + 1) + 1 = 2 * k + 2
        BY <1>1, <1>10, <1>12, <2>2
      <3>2. QED BY <1>5, <1>9, <2>2, <3>1
    <2>3. QED BY <2>1, <2>2
  <1>16. QED BY <1>4, <1>13, <1>14, <1>15

\* Up to the first tier of one node, the tiers hold the nodes of the tree by position.
LEMMA TiersAreNodes ==
  ASSUME NEW s, IsTier(s), Len(s) >= 1
  PROVE  \A t \in 0..Len(s) : (\A u \in 0..(t - 1) : Width(Len(s), u) > 1) =>
           \A k \in 0..(Len(Tiers(s)[t]) - 1) : Nodes(s)[t][k] = Tiers(s)[t][k + 1]
  <1> DEFINE N == Len(s)
             Wide(t) == \A u \in 0..(t - 1) : Width(N, u) > 1
             Same(t) == \A k \in 0..(Len(Tiers(s)[t]) - 1) : Nodes(s)[t][k] = Tiers(s)[t][k + 1]
             G == {t \in 0..N : Wide(t) => Same(t)}
  <1>1. N \in Nat
    BY TierIs
  <1>2. Tiers(s)[0] = s /\ \A t \in 1..N : Tiers(s)[t] = Turn(Tiers(s)[t - 1])
    BY <1>1, TiersLoop
  <1>3. Nodes(s)[0] = Lowest(s) /\ \A t \in 1..N : Nodes(s)[t] = Above(N, t, Nodes(s)[t - 1])
    BY <1>1, NodesLoop
  <1>4. 0 \in G
    <2>1. \A k \in 0..(N - 1) : Lowest(s)[k] = s[k + 1]
      BY DEF Lowest
    <2>2. QED BY <1>1, <1>2, <1>3, <2>1
  <1>5. ASSUME NEW t \in 1..N, t - 1 \in G, Wide(t) PROVE Same(t)
    <2> DEFINE T == Tiers(s)[t - 1]
               below == Nodes(s)[t - 1]
    <2>1. t - 1 \in 0..N /\ t \in 0..N /\ t - 1 \in 0..(t - 1)
      BY <1>1
    <2>2. Wide(t - 1) /\ Width(N, t - 1) > 1
      BY <1>5, <2>1
    <2>3. Same(t - 1)
      BY <1>5, <2>2
    <2>4. Len(T) = Width(N, t - 1) /\ Len(Tiers(s)[t]) = Width(N, t)
      BY <2>1, TiersAreWide
    <2>5. IsTier(T)
      BY <2>1, TiersShrink
    <2>6. NodesOf(T, below)
      BY <2>3 DEF NodesOf
    <2>7. Nodes(s)[t] = Above(N, t, below) /\ Tiers(s)[t] = Turn(T)
      BY <1>2, <1>3
    <2>8. Len(T) > 1 /\ Len(T) = Width(N, t - 1) /\ N \in Nat
      BY <1>1, <2>2, <2>4
    <2> HIDE DEF T, below, N
    <2>9. \A k \in 0..(Width(N, t) - 1) : Above(N, t, below)[k] = Turn(T)[k + 1]
      BY <2>5, <2>6, <2>8, AboveIsUp
    <2> DEFINE now == Nodes(s)[t]
               seq == Tiers(s)[t]
    <2>10. now = Above(N, t, below) /\ seq = Turn(T) /\ Len(seq) = Width(N, t)
      BY <2>4, <2>7
    <2> HIDE DEF now, seq
    <2>11. \A k \in 0..(Len(seq) - 1) : now[k] = seq[k + 1]
      BY <2>9, <2>10
    <2>12. QED BY <2>11 DEF now, seq
  <1>6. ASSUME NEW t \in 1..N, t - 1 \in G PROVE t \in G
    BY <1>1, <1>5, <1>6
  <1> HIDE DEF G
  <1>7. \A t \in 0..N : t \in G
    BY <1>1, <1>4, <1>6, UpTo
  <1>8. QED BY <1>7 DEF G

\* A tier of one node stays as it is.
LEMMA TiersStay ==
  ASSUME NEW s, IsTier(s), Len(s) >= 1, NEW h \in 0..Len(s), Len(Tiers(s)[h]) = 1
  PROVE  Tiers(s)[Len(s)] = Tiers(s)[h]
  <1> DEFINE N == Len(s)
             G == {t \in 0..N : t >= h => Tiers(s)[t] = Tiers(s)[h]}
  <1>1. N \in Nat
    BY TierIs
  <1>2. \A t \in 1..N : Tiers(s)[t] = Turn(Tiers(s)[t - 1])
    BY <1>1, TiersLoop
  <1>3. 0 \in G
    BY <1>1
  <1>4. ASSUME NEW t \in 1..N, t - 1 \in G PROVE t \in G
    <2>1. Turn(Tiers(s)[h]) = Tiers(s)[h]
      BY DEF Turn
    <2>2. t - 1 >= h => Tiers(s)[t] = Tiers(s)[h]
      BY <1>2, <1>4, <2>1
    <2>3. t - 1 >= h \/ t = h \/ ~ (t >= h)
      BY <1>1
    <2>4. t \in 0..N
      BY <1>1
    <2>5. QED BY <2>2, <2>3, <2>4
  <1> HIDE DEF G
  <1>5. \A t \in 0..N : t \in G
    BY <1>1, <1>3, <1>4, UpTo
  <1>6. N \in 0..N /\ N >= h
    BY <1>1
  <1>7. QED BY <1>5, <1>6 DEF G

\* There is a first tier of one node: the height is its number.
LEMMA HeightIs ==
  ASSUME IsTier(leaves), Len(leaves) >= 1
  PROVE  /\ Height \in 0..Len(leaves)
         /\ Width(Len(leaves), Height) = 1
         /\ \A u \in 0..(Height - 1) : Width(Len(leaves), u) > 1
  <1> DEFINE N == Len(leaves)
             T == {t \in 0..N : Width(N, t) = 1}
  <1>1. N \in Nat /\ N \in 0..N
    <2>1. N \in Nat
      BY TierIs
    <2>2. QED BY <2>1
  <1>2. \A t \in 0..N : Width(N, t) \in Nat /\ Width(N, t) >= 1
    BY TiersShrink, TiersAreWide
  <1>3. Width(N, N) = 1
    BY <1>1, TiersShrink, TiersAreWide
  <1>4. N \in T /\ T \subseteq Nat
    BY <1>1, <1>3
  <1>5. PICK h \in T : \A t \in T : h <= t
    <2> HIDE DEF T
    <2>1. QED BY <1>4, HasLeast
  <1>6. ASSUME NEW u \in 0..(h - 1) PROVE Width(N, u) > 1
    <2>1. u \in 0..N /\ ~ (h <= u)
      BY <1>1, <1>5
    <2>2. u \notin T
      BY <1>5, <2>1
    <2>3. QED BY <1>2, <2>1, <2>2
  <1>7. \E t \in 0..N : Width(N, t) = 1 /\ \A u \in 0..(t - 1) : Width(N, u) > 1
    BY <1>5, <1>6
  <1>8. QED BY <1>7, Zenon DEF Height

-----------------------------------------------------------------------------
(* The theorems.                                                            *)

\* The leaves are a sequence of digests.
TypeOK == leaves \in Seq(Digests)

\* Appending keeps the leaves a sequence of digests (merkle.py:72-77).
THEOREM TypeCorrect == Spec => []TypeOK
  <1>1. Init => TypeOK
    BY DEF Init, TypeOK
  <1>2. TypeOK /\ [Next]_leaves => TypeOK'
    BY DEF TypeOK, Next, AppendLeaf
  <1>3. QED BY <1>1, <1>2, PTL DEF Spec

\* Leaves are a tier.
LEMMA LeavesAreTier ==
  ASSUME TypeOK
  PROVE  IsTier(leaves) /\ Len(leaves) \in Nat /\ (leaves # << >> => Len(leaves) >= 1)
  <1>1. IsTier(leaves)
    BY DEF TypeOK, IsTier
  <1>2. QED BY <1>1 DEF TypeOK

\* For every number of leaves the loop of root, which doubles the last node of
\* an odd tier as it goes, arrives at the root of the tree given by position
\* (merkle.py:93-101, merkle.rs:89-105).
THEOREM RootsAreOfTheTree == Spec => []RootIsOfTheTree
  <1>1. TypeOK => RootIsOfTheTree
    <2>1. SUFFICES ASSUME TypeOK, leaves # << >> PROVE RootOf(leaves) = Nodes(leaves)[Height][0]
      BY DEF RootIsOfTheTree
    <2> DEFINE N == Len(leaves)
    <2>2. IsTier(leaves) /\ N \in Nat /\ N >= 1
      BY <2>1, LeavesAreTier
    <2>3. Height \in 0..N /\ Width(N, Height) = 1 /\ \A u \in 0..(Height - 1) : Width(N, u) > 1
      BY <2>2, HeightIs
    <2>4. Len(Tiers(leaves)[Height]) = 1
      BY <2>2, <2>3, TiersAreWide
    <2>5. Nodes(leaves)[Height][0] = Tiers(leaves)[Height][1]
      <3>1. \A k \in 0..(Len(Tiers(leaves)[Height]) - 1) :
              Nodes(leaves)[Height][k] = Tiers(leaves)[Height][k + 1]
        BY <2>2, <2>3, TiersAreNodes
      <3>2. 0 \in 0..(Len(Tiers(leaves)[Height]) - 1) /\ 0 + 1 = 1
        BY <2>4
      <3>3. QED BY <3>1, <3>2
    <2>6. Tiers(leaves)[N] = Tiers(leaves)[Height]
      BY <2>2, <2>3, <2>4, TiersStay
    <2>7. RootOf(leaves) = Tiers(leaves)[N][1]
      BY <2>1 DEF RootOf
    <2>8. QED BY <2>5, <2>6, <2>7
  <1>2. QED BY <1>1, TypeCorrect, PTL

\* The inclusion proof of every leaf, hashed up from the leaf, gives the root
\* (merkle.py:108-150).
THEOREM ProofsRebuildRoots == Spec => []ProofsRebuildRoot
  <1>1. TypeOK => ProofsRebuildRoot
    <2>1. SUFFICES ASSUME TypeOK, NEW i \in 0..(Len(leaves) - 1) PROVE Rebuilt(InclusionProof(i)) = RootOf(leaves)
      BY DEF ProofsRebuildRoot
    <2>2. IsTier(leaves)
      BY <2>1, LeavesAreTier
    <2>3. QED BY <2>2, ClimbRebuilds DEF InclusionProof
  <1>2. QED BY <1>1, TypeCorrect, PTL

\* Two lists of as many leaves and with the same root are the same list: what
\* the manifest's root and leaf_count bind together (merkle.py:93-101).
THEOREM RootsBindLeaves == Spec => []RootAndCountBindLeaves
  <1>1. TypeOK => RootAndCountBindLeaves
    <2>1. SUFFICES ASSUME TypeOK, NEW other \in [1..Len(leaves) -> Digests], RootOf(other) = RootOf(leaves)
                   PROVE other = leaves
      BY DEF RootAndCountBindLeaves
    <2>2. IsTier(leaves) /\ Len(leaves) \in Nat
      BY <2>1, LeavesAreTier
    <2>3. other = [k \in 1..Len(leaves) |-> other[k]]
      BY <2>1
    <2>4. IsTier(other) /\ Len(other) = Len(leaves)
      BY <2>2, <2>3, TierFrom
    <2>5. CASE Len(leaves) >= 1
      BY <2>1, <2>2, <2>4, <2>5, RootInjective
    <2>6. CASE ~ (Len(leaves) >= 1)
      <3>1. leaves = [k \in 1..Len(leaves) |-> leaves[k]] /\ 1..Len(leaves) = {}
        BY <2>2, <2>6, TierIs
      <3>2. QED BY <2>3, <3>1
    <2>7. QED BY <2>5, <2>6
  <1>2. QED BY <1>1, TypeCorrect, PTL

-----------------------------------------------------------------------------
(* What the tools answer.                                                   *)

\* The calls of any source and any limit: what is beyond comes last, and a
\* program that stays silent or finds nothing had nothing to go over.
AnyCall ==
  {c \in [records : Seq(Lines), limit : Nat, filtered : BOOLEAN,
          child : {"unfit", "missing", "failed", "silent", "unmatched", "ran"}] :
     /\ \A i \in 2..Len(c.records) :
          c.records[i - 1] = "beyond" => c.records[i] = "beyond"
     /\ c.child \in {"silent", "unmatched"} => c.records = << >>}

\* The calls of a run are some of them.
LEMMA CallsAreSome == Calls \subseteq AnyCall
  <1> SUFFICES ASSUME NEW c \in Calls PROVE c \in AnyCall
    OBVIOUS
  <1>1. c.records \in Seq(Lines)
    <2>1. c.records \in UNION {[1..n -> Lines] : n \in 0..MaxRecords}
      BY DEF Calls
    <2>2. PICK n \in 0..MaxRecords : c.records \in [1..n -> Lines]
      BY <2>1
    <2> QED BY <2>2, RowLimitsAssumption
  <1>2. /\ c = [records |-> c.records, limit |-> c.limit, filtered |-> c.filtered, child |-> c.child]
        /\ c.limit \in RowLimits /\ c.filtered \in BOOLEAN
        /\ c.child \in {"unfit", "missing", "failed", "silent", "unmatched", "ran"}
    BY DEF Calls
  <1>3. /\ \A i \in 2..Len(c.records) : c.records[i - 1] = "beyond" => c.records[i] = "beyond"
        /\ c.child \in {"silent", "unmatched"} => c.records = << >>
    BY DEF Calls
  <1>4. c \in [records : Seq(Lines), limit : Nat, filtered : BOOLEAN,
               child : {"unfit", "missing", "failed", "silent", "unmatched", "ran"}]
    BY <1>1, <1>2, RowLimitsAssumption
  <1> QED BY <1>3, <1>4 DEF AnyCall

\* The places of an input are finitely many numbers.
LEMMA PlacesAreFinite ==
  ASSUME NEW c, c.records \in Seq(Lines), NEW kinds
  PROVE  IsFiniteSet(Places(c, kinds)) /\ Places(c, kinds) \subseteq 1..Len(c.records)
  <1>1. Len(c.records) \in Nat /\ DOMAIN c.records = 1..Len(c.records)
    OBVIOUS
  <1>2. IsFiniteSet(1..Len(c.records))
    BY <1>1, FS_Interval
  <1>3. Places(c, kinds) \subseteq 1..Len(c.records)
    BY <1>1 DEF Places
  <1> QED BY <1>2, <1>3, FS_Subset

(* The first n of a set are all of it when they are fewer than n.           *)
LEMMA FewAreAll ==
  ASSUME NEW S, IsFiniteSet(S), S \subseteq Nat, NEW n \in Nat, Cardinality(FirstOf(S, n)) < n
  PROVE  FirstOf(S, n) = S
  <1> SUFFICES ASSUME S \ FirstOf(S, n) # {} PROVE FALSE
    BY DEF FirstOf
  <1>1. PICK i \in S \ FirstOf(S, n) : \A j \in S \ FirstOf(S, n) : i <= j
    <2>1. S \ FirstOf(S, n) \subseteq Nat
      OBVIOUS
    <2> QED BY <2>1, HasLeast
  <1> DEFINE B == {j \in S : j < i}
             E == {j \in S : j <= i}
  <1>2. B \subseteq S /\ E \subseteq S /\ FirstOf(S, n) \subseteq S
    BY DEF FirstOf
  <1>3. IsFiniteSet(B) /\ IsFiniteSet(E) /\ IsFiniteSet(FirstOf(S, n))
    BY <1>2, FS_Subset
  <1> i \in S /\ i \in Nat
    BY <1>1
  <1>4. E = B \cup {i} /\ i \notin B
    <2>1. \A j \in S : j <= i <=> j < i \/ j = i
      OBVIOUS
    <2>2. ~ (i < i)
      OBVIOUS
    <2> QED BY <2>1, <2>2
  <1>5. B \subseteq FirstOf(S, n)
    <2> SUFFICES ASSUME NEW j \in S, j < i, j \notin FirstOf(S, n) PROVE FALSE
      OBVIOUS
    <2>1. i <= j
      BY <1>1
    <2>2. j \in Nat
      OBVIOUS
    <2> QED BY <2>1, <2>2
  <1>6. ~ (Cardinality(E) <= n)
    BY <1>1 DEF FirstOf
  <1> HIDE DEF B, E
  <1>7. Cardinality(E) = Cardinality(B) + 1
    BY <1>3, <1>4, FS_AddElement
  <1>8. Cardinality(B) <= Cardinality(FirstOf(S, n))
    BY <1>3, <1>5, FS_Subset
  <1>9. Cardinality(B) \in Nat /\ Cardinality(FirstOf(S, n)) \in Nat
    BY <1>3, FS_CardinalityType
  <1> QED BY <1>6, <1>7, <1>8, <1>9

\* The loops that stop when the answer is full.
LEMMA LoopsAreWhole ==
  ASSUME NEW c \in AnyCall, NEW kinds, NEW others
  PROVE  /\ Cardinality(StopAfter(c, others, kinds).rows) < c.limit
              => StopAfter(c, others, kinds).rows = Places(c, kinds)
         /\ Cardinality(StopBefore(c, others, kinds).rows) < c.limit
              => StopBefore(c, others, kinds).rows = Places(c, kinds)
         /\ Cardinality(FilterThenCut(c, kinds).rows) < c.limit
              => FilterThenCut(c, kinds).rows = Places(c, kinds)
         /\ Cardinality(WhileRoom(c, others, kinds).rows) < c.limit
              => WhileRoom(c, others, kinds).rows = Places(c, kinds)
  <1>1. c.records \in Seq(Lines) /\ c.limit \in Nat
    BY DEF AnyCall
  <1>2. IsFiniteSet(Places(c, kinds)) /\ Places(c, kinds) \subseteq Nat
    <2>1. IsFiniteSet(Places(c, kinds)) /\ Places(c, kinds) \subseteq 1..Len(c.records)
      BY <1>1, PlacesAreFinite
    <2> QED BY <2>1
  <1>3. Cardinality(FirstOf(Places(c, kinds), c.limit)) < c.limit => FirstOf(Places(c, kinds), c.limit) = Places(c, kinds)
    BY <1>1, <1>2, FewAreAll
  <1>4. \A n : IsFiniteSet(FirstOf(Places(c, kinds), n)) /\ Cardinality(FirstOf(Places(c, kinds), n)) \in Nat
    <2> TAKE n
    <2>1. FirstOf(Places(c, kinds), n) \subseteq Places(c, kinds)
      BY DEF FirstOf
    <2> QED BY <1>2, <2>1, FS_Subset, FS_CardinalityType
  <1>5. \A n : n = AtLeastOne(c.limit) /\ Cardinality(FirstOf(Places(c, kinds), n)) < c.limit => n = c.limit
    <2>1. c.limit = 0 => \A n : ~ (Cardinality(FirstOf(Places(c, kinds), n)) < c.limit)
      BY <1>1, <1>4
    <2> QED BY <1>1, <2>1 DEF AtLeastOne
  <1>6. StopAfter(c, others, kinds).rows = FirstOf(Places(c, kinds), AtLeastOne(c.limit))
    BY DEF StopAfter, Answer
  <1>7. StopBefore(c, others, kinds) = IF c.limit = 0 THEN Answer({}, 0, 0) ELSE StopAfter(c, others, kinds)
    BY DEF StopBefore
  <1>8. FilterThenCut(c, kinds).rows = FirstOf(Places(c, kinds), AtLeastOne(c.limit))
    BY DEF FilterThenCut, Answer
  <1>9. WhileRoom(c, others, kinds).rows = FirstOf(Places(c, kinds), c.limit)
    BY DEF WhileRoom, Answer
  <1>10. c.limit = 0 => StopBefore(c, others, kinds).rows = {} /\ ~ (Cardinality(StopBefore(c, others, kinds).rows) < c.limit)
    <2>1. Answer({}, 0, 0).rows = {}
      BY DEF Answer
    <2> QED BY <1>7, <2>1, FS_EmptySet
  <1> QED BY <1>3, <1>5, <1>6, <1>7, <1>8, <1>9, <1>10

-----------------------------------------------------------------------------
(* A call that is cut short.                                                *)

\* The lesser of two numbers.
LEMMA MinOfTwo ==
  ASSUME NEW i \in Nat, NEW j \in Nat
  PROVE  Min({i, j}) = IF i <= j THEN i ELSE j
  <1>1. \E x \in {i, j} : \A y \in {i, j} : x <= y
    OBVIOUS
  <1>2. Min({i, j}) \in {i, j} /\ \A y \in {i, j} : Min({i, j}) <= y
    BY <1>1 DEF Min
  <1> QED BY <1>2

\* What is known of a call.
LEMMA CallFields ==
  ASSUME NEW c \in AnyCall
  PROVE  /\ c = [records |-> c.records, limit |-> c.limit, filtered |-> c.filtered, child |-> c.child]
         /\ c.records \in Seq(Lines)
         /\ Len(c.records) \in Nat /\ DOMAIN c.records = 1..Len(c.records)
         /\ c.limit \in Nat /\ c.filtered \in BOOLEAN
         /\ c.child \in {"unfit", "missing", "failed", "silent", "unmatched", "ran"}
  <1>1. c \in [records : Seq(Lines), limit : Nat, filtered : BOOLEAN,
               child : {"unfit", "missing", "failed", "silent", "unmatched", "ran"}]
    BY DEF AnyCall
  <1>2. c.records \in Seq(Lines)
    BY <1>1
  <1>3. Len(c.records) \in Nat /\ DOMAIN c.records = 1..Len(c.records)
    BY <1>2
  <1>4. c.limit \in Nat /\ c.filtered \in BOOLEAN
        /\ c.child \in {"unfit", "missing", "failed", "silent", "unmatched", "ran"}
    BY <1>1
  <1> QED BY <1>1, <1>2, <1>3, <1>4

\* Cut keeps the first records as they are, and the rest of the call.
LEMMA CutIsShort ==
  ASSUME NEW c \in AnyCall, NEW n \in Nat
  PROVE  /\ Cut(c, n).records \in Seq(Lines)
         /\ Len(Cut(c, n).records) = IF n <= Len(c.records) THEN n ELSE Len(c.records)
         /\ \A i \in DOMAIN Cut(c, n).records : i \in DOMAIN c.records /\ Cut(c, n).records[i] = c.records[i]
         /\ Cut(c, n) \in AnyCall
         /\ Cut(c, n).limit = c.limit
  <1> DEFINE k == Min({n, Len(c.records)})
             s == SubSeq(c.records, 1, k)
  <1>1. /\ \A i \in 2..Len(c.records) : c.records[i - 1] = "beyond" => c.records[i] = "beyond"
        /\ c.child \in {"silent", "unmatched"} => c.records = << >>
    BY DEF AnyCall
  <1>2. Len(c.records) \in Nat /\ c.records \in Seq(Lines)
    BY CallFields
  <1>3. k = IF n <= Len(c.records) THEN n ELSE Len(c.records)
    BY <1>2, MinOfTwo
  <1>4. k \in 0..Len(c.records)
    BY <1>2, <1>3
  <1> HIDE DEF k
  <1>5. s \in Seq(Lines) /\ Len(s) = k /\ \A i \in 1..k : s[i] = c.records[i]
    BY <1>2, <1>4
  <1>6. \A i \in DOMAIN s : i \in 1..k /\ i \in DOMAIN c.records
    BY <1>2, <1>4, <1>5
  <1>7. Cut(c, n) = [c EXCEPT !.records = s]
    BY DEF Cut, k
  <1> HIDE DEF s
  <1>8. Cut(c, n) = [records |-> s, limit |-> c.limit, filtered |-> c.filtered, child |-> c.child]
    BY <1>7, CallFields
  <1>9. Cut(c, n) \in [records : Seq(Lines), limit : Nat, filtered : BOOLEAN,
                  child : {"unfit", "missing", "failed", "silent", "unmatched", "ran"}]
    <2>1. c.limit \in Nat /\ c.filtered \in BOOLEAN
          /\ c.child \in {"unfit", "missing", "failed", "silent", "unmatched", "ran"}
      BY CallFields
    <2>2. s \in Seq(Lines)
      BY <1>5
    <2>3. [records |-> s, limit |-> c.limit, filtered |-> c.filtered, child |-> c.child]
            \in [records : Seq(Lines), limit : Nat, filtered : BOOLEAN,
                 child : {"unfit", "missing", "failed", "silent", "unmatched", "ran"}]
      BY <2>1, <2>2
    <2> QED BY <1>8, <2>3, Zenon
  <1>10. Cut(c, n).records = s /\ Cut(c, n).limit = c.limit /\ Cut(c, n).child = c.child
    BY <1>8
  <1>11. \A i \in 2..Len(s) : s[i - 1] = "beyond" => s[i] = "beyond"
    <2> TAKE i \in 2..Len(s)
    <2>1. i \in 1..k /\ i - 1 \in 1..k /\ i \in 2..Len(c.records)
      BY <1>2, <1>4, <1>5
    <2>2. s[i] = c.records[i] /\ s[i - 1] = c.records[i - 1]
      BY <1>5, <2>1
    <2> QED BY <1>1, <2>1, <2>2
  <1>12. c.child \in {"silent", "unmatched"} => s = << >>
    <2> SUFFICES ASSUME c.child \in {"silent", "unmatched"} PROVE s = << >>
      OBVIOUS
    <2>1. c.records = << >>
      BY <1>1
    <2>2. Len(c.records) = 0
      BY <1>2, <2>1, EmptySeq
    <2>3. Len(s) = 0
      <3>1. Len(s) = k
        BY <1>5
      <3>2. k <= 0 /\ k \in Nat
        BY <1>2, <1>4, <2>2
      <3>3. k = 0
        BY <3>2
      <3> QED BY <3>1, <3>3, Zenon
    <2>4. s \in Seq(Lines)
      BY <1>5
    <2> QED BY <2>3, <2>4, EmptySeq
  <1>13. Cut(c, n) \in AnyCall
    BY <1>9, <1>10, <1>11, <1>12 DEF AnyCall
  <1> QED BY <1>3, <1>5, <1>6, <1>10, <1>13

\* What comes before the first of some kinds is all of the call or stops there.
LEMMA BeforeIsInside ==
  ASSUME NEW c \in AnyCall, NEW kinds
  PROVE  /\ Before(c, kinds) \in 0..Len(c.records)
         /\ Before(c, kinds) < Len(c.records) =>
              /\ Before(c, kinds) + 1 \in Places(c, kinds)
         /\ Before(c, kinds) = Len(c.records) => Places(c, kinds) = {}
  <1>1. c.records \in Seq(Lines) /\ Len(c.records) \in Nat
    BY CallFields
  <1>2. Places(c, kinds) \subseteq 1..Len(c.records)
    BY <1>1 DEF Places
  <1>3. CASE Places(c, kinds) = {}
    <2>1. Before(c, kinds) = Len(c.records)
      BY <1>3 DEF Before
    <2> QED BY <1>1, <1>3, <2>1
  <1>4. CASE Places(c, kinds) # {}
    <2>1. \E x \in Places(c, kinds) : \A y \in Places(c, kinds) : x <= y
      <3>1. Places(c, kinds) \subseteq Nat
        BY <1>2
      <3> QED BY <1>4, <3>1, HasLeast
    <2>2. Min(Places(c, kinds)) \in Places(c, kinds)
      BY <2>1 DEF Min
    <2>3. Before(c, kinds) = Min(Places(c, kinds)) - 1
      BY <1>4 DEF Before
    <2>4. Min(Places(c, kinds)) \in 1..Len(c.records)
      BY <1>2, <2>2
    <2> QED BY <1>1, <2>2, <2>3, <2>4
  <1> QED BY <1>3, <1>4

\* A tool with a bound of its own gets to every wanted record.
LEMMA ReachedIsAllWanted ==
  ASSUME NEW c \in AnyCall
  PROVE  /\ Reached(c) \in AnyCall /\ Reached(c).limit = c.limit
         /\ Places(c, {"wanted"}) \subseteq Places(Reached(c), {"wanted"})
  <1> DEFINE n == Before(c, {"beyond"})
  <1>1. c.records \in Seq(Lines) /\ Len(c.records) \in Nat
    BY CallFields
  <1>2. /\ n \in 0..Len(c.records)
        /\ n < Len(c.records) => n + 1 \in Places(c, {"beyond"})
    BY BeforeIsInside
  <1>3. Reached(c) = Cut(c, n)
    BY DEF Reached
  <1> HIDE DEF n
  <1>4. n \in Nat
    BY <1>1, <1>2
  <1>5. Reached(c) \in AnyCall /\ Reached(c).limit = c.limit
    BY <1>3, <1>4, CutIsShort
  <1>6. \A i \in Places(c, {"wanted"}) : i <= n
    <2> DEFINE L == Len(c.records)
               G == {t \in 0..(L - (n + 1)) : c.records[n + 1 + t] = "beyond"}
    <2>1. CASE n = L
      BY <1>1, <2>1 DEF Places
    <2>2. CASE n < L
      <3>1. c.records[n + 1] = "beyond" /\ L - (n + 1) \in Nat
        BY <1>1, <1>2, <2>2 DEF Places
      <3>2. 0 \in G
        BY <1>4, <3>1
      <3>3. ASSUME NEW t \in 1..(L - (n + 1)), t - 1 \in G PROVE t \in G
        <4>1. n + 1 + t \in 2..L /\ n + 1 + (t - 1) = (n + 1 + t) - 1
          BY <1>1, <1>4, <3>1
        <4>2. c.records[(n + 1 + t) - 1] = "beyond"
          BY <3>3, <4>1
        <4>3. c.records[n + 1 + t] = "beyond"
          BY <4>1, <4>2 DEF AnyCall
        <4> QED BY <3>1, <4>3
      <3> DEFINE m == L - (n + 1)
      <3>4. \A t \in 0..m : t \in G
        <4>1. m \in Nat /\ 0 \in G /\ \A t \in 1..m : t - 1 \in G => t \in G
          BY <3>1, <3>2, <3>3
        <4> HIDE DEF m, G
        <4> QED BY <4>1, UpTo
      <3>5. ASSUME NEW i \in Places(c, {"wanted"}), ~ (i <= n) PROVE FALSE
        <4>1. i \in 1..L /\ c.records[i] = "wanted"
          BY <1>1, <3>5 DEF Places
        <4>2. i - (n + 1) \in 0..m /\ n + 1 + (i - (n + 1)) = i
          BY <1>1, <1>4, <3>5, <4>1
        <4>3. i - (n + 1) \in G
          BY <3>4, <4>2
        <4>4. c.records[n + 1 + (i - (n + 1))] = "beyond"
          BY <4>3
        <4> QED BY <4>1, <4>2, <4>4
      <3> QED BY <3>5
    <2> QED BY <1>1, <1>2, <2>1, <2>2
  <1>7. Places(c, {"wanted"}) \subseteq Places(Reached(c), {"wanted"})
    <2> SUFFICES ASSUME NEW i \in Places(c, {"wanted"}) PROVE i \in Places(Reached(c), {"wanted"})
      OBVIOUS
    <2>1. i \in 1..Len(c.records) /\ c.records[i] = "wanted" /\ i <= n
      BY <1>1, <1>6 DEF Places
    <2>2. /\ Reached(c).records \in Seq(Lines)
          /\ Len(Reached(c).records) = n
          /\ \A j \in DOMAIN Reached(c).records : Reached(c).records[j] = c.records[j]
      BY <1>1, <1>2, <1>3, <1>4, CutIsShort
    <2>3. i \in DOMAIN Reached(c).records
      BY <1>1, <1>4, <2>1, <2>2
    <2> QED BY <2>1, <2>2, <2>3 DEF Places
  <1> QED BY <1>5, <1>7

-----------------------------------------------------------------------------
(* One answer.                                                              *)

\* An answer that looks whole, by its counters too or without them, has the
\* records of these kinds.
HasAll(c, a, counted, kinds) ==
  /\ a.ok /\ ~ a.degraded /\ Cardinality(a.rows) < c.limit
  /\ counted => a.seen = Cardinality(a.rows) + a.errors
  => Places(c, kinds) \subseteq a.rows

\* The fields of an answer.
LEMMA AnswerFields ==
  ASSUME NEW rows, NEW seen, NEW errors
  PROVE  /\ Answer(rows, seen, errors).ok = TRUE /\ Answer(rows, seen, errors).degraded = FALSE
         /\ Answer(rows, seen, errors).rows = rows /\ Answer(rows, seen, errors).seen = seen
         /\ Answer(rows, seen, errors).errors = errors
  BY DEF Answer

\* A refusal and an empty stand-in never look whole.
LEMMA NotWhole ==
  ASSUME NEW c, NEW counted, NEW kinds
  PROVE  HasAll(c, Refused, counted, kinds) /\ HasAll(c, Degraded, counted, kinds)
  <1>1. Refused.ok = FALSE /\ Degraded.degraded = TRUE
    BY DEF Refused, Degraded, Answer
  <1> QED BY <1>1 DEF HasAll

\* Fewer kinds are easier to have.
LEMMA FewerKinds ==
  ASSUME NEW c, NEW a, NEW counted, NEW kinds, NEW more, kinds \subseteq more, HasAll(c, a, counted, more)
  PROVE  HasAll(c, a, counted, kinds)
  <1>1. Places(c, kinds) \subseteq Places(c, more)
    BY DEF Places
  <1> QED BY <1>1 DEF HasAll

\* To look whole by more signs is harder.
LEMMA MoreSigns ==
  ASSUME NEW c, NEW a, NEW kinds, HasAll(c, a, FALSE, kinds)
  PROVE  HasAll(c, a, TRUE, kinds)
  BY DEF HasAll

\* What a tool does around its loop either refuses or keeps the answer.
LEMMA Around ==
  ASSUME NEW c, NEW a, NEW counted, NEW kinds, HasAll(c, a, counted, kinds)
  PROVE  /\ HasAll(c, InProcess(c, a), counted, kinds)
         /\ HasAll(c, FromChild(c, a), counted, kinds)
         /\ HasAll(c, FromFile(c, a), counted, kinds)
         /\ HasAll(c, AllParse(c, a), counted, kinds)
  <1>1. HasAll(c, Refused, counted, kinds)
    BY NotWhole
  <1>2. InProcess(c, a) \in {a, Refused}
    BY DEF InProcess
  <1>3. FromChild(c, a) \in {a, Refused}
    BY DEF FromChild
  <1>4. FromFile(c, a) \in {a, Refused}
    BY DEF FromFile
  <1>5. AllParse(c, a) \in {a, Refused}
    BY DEF AllParse
  <1> QED BY <1>1, <1>2, <1>3, <1>4, <1>5, Zenon

\* The loops that stop when the answer is full.
LEMMA LoopsHaveAll ==
  ASSUME NEW c \in AnyCall, NEW kinds, NEW others
  PROVE  /\ HasAll(c, StopAfter(c, others, kinds), FALSE, kinds)
         /\ HasAll(c, StopBefore(c, others, kinds), FALSE, kinds)
         /\ HasAll(c, FilterThenCut(c, kinds), FALSE, kinds)
         /\ HasAll(c, WhileRoom(c, others, kinds), FALSE, kinds)
  BY LoopsAreWhole DEF HasAll

\* The projection of what comes first shows by its counters what it left out.
LEMMA LeadingHasAll ==
  ASSUME NEW c \in AnyCall, NEW drops
  PROVE  /\ HasAll(c, Leading(c, drops), TRUE, Lines)
         /\ Leading(c, drops).rows \subseteq DOMAIN Cut(c, c.limit).records
         /\ drops = {} => Leading(c, drops).rows = DOMAIN Cut(c, c.limit).records
  <1> DEFINE s == Cut(c, c.limit).records
             R == Leading(c, drops).rows
             L == Len(c.records)
  <1>1. c.limit \in Nat /\ L \in Nat /\ DOMAIN c.records = 1..L
    BY CallFields
  <1>2. s \in Seq(Lines) /\ Len(s) = IF c.limit <= L THEN c.limit ELSE L
    BY <1>1, CutIsShort
  <1>3. Leading(c, drops) = Answer({i \in DOMAIN s : c.records[i] \notin drops}, L, 0)
    BY DEF Leading
  <1>4. /\ R = {i \in DOMAIN s : c.records[i] \notin drops}
        /\ Leading(c, drops).seen = L /\ Leading(c, drops).errors = 0
    BY <1>3 DEF Answer
  <1> HIDE DEF s, R, L
  <1>5. Len(s) \in 0..L /\ DOMAIN s = 1..Len(s)
    BY <1>1, <1>2
  <1>6. R \subseteq 1..Len(s)
    BY <1>4, <1>5
  <1>7. IsFiniteSet(1..Len(s)) /\ Cardinality(1..Len(s)) = Len(s)
    <2>1. Len(s) \in Nat /\ 1 \in Int /\ Len(s) \in Int
      BY <1>1, <1>5
    <2> DEFINE m == Len(s)
    <2> HIDE DEF m
    <2>2. m \in Nat => IsFiniteSet(1..m) /\ Cardinality(1..m) = IF 1 > m THEN 0 ELSE m - 1 + 1
      BY FS_Interval
    <2> QED BY <2>1, <2>2 DEF m
  <1>8. ASSUME L = Cardinality(R) + 0 PROVE 1..L \subseteq R
    <2>1. IsFiniteSet(R) /\ Cardinality(R) \in Nat /\ Cardinality(R) <= Len(s)
      BY <1>6, <1>7, FS_Subset, FS_CardinalityType
    <2>2. Cardinality(R) = Len(s) /\ L = Len(s)
      BY <1>1, <1>5, <1>8, <2>1
    <2>3. R = 1..Len(s)
      BY <1>6, <1>7, <2>2, FS_Subset
    <2> QED BY <2>2, <2>3
  <1>9. Places(c, Lines) \subseteq 1..L
    BY <1>1 DEF Places
  <1>10. HasAll(c, Leading(c, drops), TRUE, Lines)
    <2>1. ASSUME Leading(c, drops).seen = Cardinality(R) + Leading(c, drops).errors
          PROVE  Places(c, Lines) \subseteq R
      BY <1>4, <1>8, <1>9, <2>1
    <2> QED BY <2>1 DEF HasAll, R
  <1>11. R \subseteq DOMAIN s /\ (drops = {} => R = DOMAIN s)
    BY <1>4
  <1> QED BY <1>10, <1>11 DEF R, s

\* LIMIT in the query of browser_history: what it cut is not counted, but then
\* the rows are as many as the limit.
LEMMA BrowserHasAll ==
  ASSUME NEW c \in AnyCall
  PROVE  HasAll(c, Leading(Cut(c, c.limit), {}), FALSE, Lines)
  <1> DEFINE e == Cut(c, c.limit)
             s == Cut(e, e.limit).records
             R == Leading(e, {}).rows
             L == Len(c.records)
  <1>1. c.limit \in Nat /\ L \in Nat /\ DOMAIN c.records = 1..L
    BY CallFields
  <1>2. e \in AnyCall /\ e.limit = c.limit /\ Len(e.records) = IF c.limit <= L THEN c.limit ELSE L
    BY <1>1, CutIsShort
  <1>3. s \in Seq(Lines) /\ Len(s) = IF e.limit <= Len(e.records) THEN e.limit ELSE Len(e.records)
    BY <1>1, <1>2, CutIsShort
  <1>4. R = DOMAIN s
    BY <1>2, LeadingHasAll
  <1> HIDE DEF e, s, R
  <1>5. Len(s) \in 0..c.limit /\ DOMAIN s = 1..Len(s) /\ (Len(s) < c.limit => Len(s) = L)
    BY <1>1, <1>2, <1>3
  <1>6. Cardinality(R) = Len(s)
    <2> DEFINE m == Len(s)
    <2>1. m \in Nat /\ R = 1..m
      BY <1>1, <1>4, <1>5
    <2> HIDE DEF m
    <2>2. Cardinality(1..m) = IF 1 > m THEN 0 ELSE m - 1 + 1
      BY <2>1, FS_Interval
    <2>3. Cardinality(1..m) = m
      BY <2>1, <2>2
    <2> QED BY <2>1, <2>3 DEF m
  <1>7. Cardinality(R) < c.limit => R = 1..L
    BY <1>4, <1>5, <1>6
  <1>8. Places(c, Lines) \subseteq 1..L
    BY <1>1 DEF Places
  <1>9. Leading(Cut(c, c.limit), {}).rows = R
    BY DEF R, e
  <1> QED BY <1>7, <1>8, <1>9 DEF HasAll

\* A walk that came to the end without an error cut nothing.
LEMMA CmmmHasAll ==
  ASSUME NEW c \in AnyCall
  PROVE  HasAll(c, [CmmmEntries(c) EXCEPT !.rows = FirstOf(@, c.limit)], TRUE, {"wanted", "odd"})
  <1> DEFINE n == Before(c, {"broken", "beyond"})
             A == CmmmEntries(c)
             R == A.rows
             F == FirstOf(R, c.limit)
             B == [A EXCEPT !.rows = FirstOf(@, c.limit)]
  <1>1. c.limit \in Nat /\ Len(c.records) \in Nat /\ DOMAIN c.records = 1..Len(c.records)
    BY CallFields
  <1>2. n \in 0..Len(c.records)
    BY BeforeIsInside
  <1>3. /\ R = Places(Cut(c, n), {"wanted", "odd"})
        /\ A.seen = Cardinality(R)
        /\ A.errors = HowMany(c, {"odd"}, n) + (IF n = Len(c.records) THEN 0 ELSE 1)
        /\ B.rows = F /\ B.seen = A.seen /\ B.errors = A.errors
    BY DEF CmmmEntries, Answer
  <1> HIDE DEF n, A, R, F, B
  <1>4. n \in Nat
    BY <1>1, <1>2
  <1>5. /\ Cut(c, n).records \in Seq(Lines)
        /\ Len(Cut(c, n).records) = n
        /\ \A i \in DOMAIN Cut(c, n).records : Cut(c, n).records[i] = c.records[i]
    BY <1>1, <1>2, <1>4, CutIsShort
  <1>6. IsFiniteSet(R) /\ R \subseteq 1..n /\ Cardinality(R) \in Nat
    BY <1>3, <1>5, PlacesAreFinite, FS_CardinalityType
  <1>7. R \subseteq Nat
    BY <1>4, <1>6
  <1>8. HowMany(c, {"odd"}, n) \in Nat
    <2>1. IsFiniteSet(1..n)
      BY <1>4, FS_Interval
    <2>2. {i \in 1..n : c.records[i] \in {"odd"}} \subseteq 1..n
      OBVIOUS
    <2>3. IsFiniteSet({i \in 1..n : c.records[i] \in {"odd"}})
      BY <2>1, <2>2, FS_Subset
    <2> QED BY <2>3, FS_CardinalityType DEF HowMany
  <1>9. ASSUME Cardinality(B.rows) < c.limit, B.seen = Cardinality(B.rows) + B.errors
        PROVE  Places(c, {"wanted", "odd"}) \subseteq B.rows
    <2>1. F = R
      BY <1>1, <1>3, <1>6, <1>7, <1>9, FewAreAll DEF F
    <2>2. Cardinality(R) = Cardinality(R) + A.errors
      BY <1>3, <1>9, <2>1
    <2>3. n = Len(c.records)
      BY <1>3, <1>6, <1>8, <2>2
    <2>4. Places(c, {"wanted", "odd"}) \subseteq R
      <3>1. DOMAIN Cut(c, n).records = 1..n
        BY <1>4, <1>5
      <3> QED BY <1>1, <1>3, <1>5, <2>3, <3>1 DEF Places
    <2> QED BY <1>3, <2>1, <2>4
  <1>10. HasAll(c, B, TRUE, {"wanted", "odd"})
    BY <1>9 DEF HasAll
  <1> QED BY <1>10 DEF B, A

-----------------------------------------------------------------------------
(* Each tool.                                                               *)

\* Which kinds of records the tools keep.
LEMMA KindsOfRecords ==
  ASSUME NEW c
  PROVE  /\ {"wanted", "beyond"} \subseteq Parsed /\ Parsed \subseteq Values /\ Values \subseteq Lines
         /\ {"wanted", "beyond"} \subseteq Matching(c)
         /\ {"wanted"} \subseteq {"wanted", "beyond"} /\ {"wanted"} \subseteq {"wanted", "odd"}
         /\ \A s \in {"wanted", "beyond", "unwanted", "odd", "broken"} : s \in Lines
  BY DEF Parsed, Values, Lines, Matching

\* The tools that filter hold all there is when they hold fewer than asked for.
LEMMA FilteringTools ==
  ASSUME NEW c \in AnyCall
  PROVE  /\ HasAll(c, EvtxQuery(c), FALSE, {"wanted", "beyond"})
         /\ HasAll(c, MftTimeline(c), FALSE, {"wanted", "beyond"})
         /\ HasAll(c, UsnjrnlQuery(c), FALSE, {"wanted", "beyond"})
         /\ HasAll(c, SysmonNetworkQuery(c), FALSE, {"wanted", "beyond"})
         /\ HasAll(c, YaraScan(c), FALSE, {"wanted", "beyond"})
         /\ HasAll(c, Processes(c), FALSE, {"wanted", "beyond"})
  <1> DEFINE W == {"wanted", "beyond"}
             M == Matching(c)
  <1>1. W \subseteq M /\ \A K : W \subseteq M \cup K
    BY KindsOfRecords
  <1> HIDE DEF W, M
  <1>2. ASSUME NEW K, W \subseteq K, NEW errs
        PROVE  /\ HasAll(c, StopAfter(c, errs, K), FALSE, W)
               /\ HasAll(c, StopBefore(c, errs, K), FALSE, W)
               /\ HasAll(c, FilterThenCut(c, K), FALSE, W)
    BY <1>2, LoopsHaveAll, FewerKinds
  <1>3. HasAll(c, EvtxQuery(c), FALSE, W)
    <2> DEFINE a == StopAfter(c, {"broken", "odd"}, M)
    <2>1. HasAll(c, a, FALSE, W) /\ HasAll(c, Refused, FALSE, W)
      BY <1>1, <1>2, NotWhole
    <2> DEFINE b == IF a.seen > 0 /\ a.rows = {} /\ a.errors = a.seen THEN Refused ELSE a
    <2>2. EvtxQuery(c) = InProcess(c, b)
      BY DEF EvtxQuery, M
    <2>3. b \in {a, Refused}
      OBVIOUS
    <2> HIDE DEF a, b
    <2>4. HasAll(c, b, FALSE, W)
      BY <2>1, <2>3, Zenon
    <2> QED BY <2>2, <2>4, Around
  <1>4. HasAll(c, MftTimeline(c), FALSE, W) /\ HasAll(c, UsnjrnlQuery(c), FALSE, W)
    <2>1. HasAll(c, StopAfter(c, {"broken"}, M \cup {"odd"}), FALSE, W)
      BY <1>1, <1>2
    <2>2. HasAll(c, InProcess(c, StopAfter(c, {"broken"}, M \cup {"odd"})), FALSE, W)
      BY <2>1, Around
    <2> QED BY <2>2, Zenon DEF MftTimeline, UsnjrnlQuery, M
  <1>5. HasAll(c, SysmonNetworkQuery(c), FALSE, W)
    <2>1. HasAll(c, StopAfter(c, {"broken", "odd"}, W), FALSE, W)
      BY <1>2
    <2>2. HasAll(c, InProcess(c, StopAfter(c, {"broken", "odd"}, W)), FALSE, W)
      BY <2>1, Around
    <2> QED BY <2>2, Zenon DEF SysmonNetworkQuery, W
  <1>6. HasAll(c, YaraScan(c), FALSE, W)
    <2>1. HasAll(c, StopBefore(c, {"broken"}, W), FALSE, W)
      BY <1>2
    <2>2. HasAll(c, InProcess(c, StopBefore(c, {"broken"}, W)), FALSE, W)
      BY <2>1, Around
    <2> QED BY <2>2, Zenon DEF YaraScan, W
  <1>7. HasAll(c, Processes(c), FALSE, W)
    <2> DEFINE K == IF c.filtered THEN {} ELSE {"odd"}
    <2> HIDE DEF K
    <2>1. HasAll(c, FilterThenCut(c, M \cup K), FALSE, W)
      BY <1>1, <1>2
    <2>2. HasAll(c, AllParse(c, FilterThenCut(c, M \cup K)), FALSE, W)
      BY <2>1, Around
    <2> QED BY <2>2, Zenon DEF Processes, M, K
  <1> QED BY <1>3, <1>4, <1>5, <1>6, <1>7, Zenon DEF W

\* The tools that count all and push while there is room.
LEMMA CountingTools ==
  ASSUME NEW c \in AnyCall
  PROVE  /\ HasAll(c, ZeekSummary(c), FALSE, {"wanted", "beyond"})
         /\ HasAll(c, CloudAudit(c), FALSE, {"wanted", "beyond"})
         /\ HasAll(c, VpcFlow(c), FALSE, {"wanted", "beyond"})
         /\ HasAll(c, Ausearch(c), FALSE, {"wanted", "beyond"})
         /\ HasAll(c, IndxParse(c), FALSE, {"wanted", "beyond"})
         /\ HasAll(c, SuricataEve(c), FALSE, {"wanted", "beyond"})
         /\ HasAll(c, EzParse(c), FALSE, {"wanted", "beyond"})
         /\ HasAll(c, LecmdParse(c), FALSE, {"wanted", "beyond"})
         /\ HasAll(c, MacTriage(c), FALSE, {"wanted", "beyond"})
         /\ HasAll(c, PlasoParse(c), FALSE, {"wanted", "beyond"})
         /\ HasAll(c, BulkExtract(c), FALSE, {"wanted", "beyond"})
  <1> DEFINE W == {"wanted", "beyond"}
  <1>1. W \subseteq Parsed /\ W \subseteq Values /\ W \subseteq Lines
    BY KindsOfRecords
  <1>2. c.records \in Seq(Lines)
    BY CallFields
  <1> HIDE DEF W
  <1>3. ASSUME NEW K, W \subseteq K, NEW counts
        PROVE  HasAll(c, WhileRoom(c, counts, K), FALSE, W) /\ HasAll(c, StopBefore(c, counts, K), FALSE, W)
    BY <1>3, LoopsHaveAll, FewerKinds
  <1>4. HasAll(c, ZeekSummary(c), FALSE, W)
    <2> DEFINE a == StopBefore(c, {"broken"}, Values)
               b == [a EXCEPT !.seen = Cardinality(a.rows)]
    <2>1. HasAll(c, a, FALSE, W)
      BY <1>1, <1>3
    <2>2. a = Answer({}, 0, 0) \/ \E rows, seen, errors : a = Answer(rows, seen, errors)
      BY DEF StopBefore, StopAfter
    <2>3. ZeekSummary(c) = InProcess(c, b)
      BY DEF ZeekSummary
    <2>4. b.ok = a.ok /\ b.degraded = a.degraded /\ b.rows = a.rows
      <3> HIDE DEF a
      <3> QED BY <2>2 DEF Answer
    <2> HIDE DEF a, b
    <2>5. HasAll(c, b, FALSE, W)
      BY <2>1, <2>4 DEF HasAll
    <2> QED BY <2>3, <2>5, Around
  <1>5. HasAll(c, CloudAudit(c), FALSE, W)
    <2>1. HasAll(c, AllParse(c, WhileRoom(c, Parsed, Parsed)), FALSE, W)
      BY <1>1, <1>3, Around
    <2> QED BY <2>1, Around DEF CloudAudit
  <1>6. HasAll(c, WhileRoom(c, Values, Values), FALSE, W) /\ HasAll(c, WhileRoom(c, Lines, Lines), FALSE, W)
    BY <1>1, <1>3
  <1>7. HasAll(c, VpcFlow(c), FALSE, W)
    BY <1>6, Around DEF VpcFlow
  <1>8. HasAll(c, IndxParse(c), FALSE, W)
    BY <1>6, Around DEF IndxParse
  <1>9. HasAll(c, MacTriage(c), FALSE, W)
    BY <1>6, Around DEF MacTriage, CsvRows
  <1>10. HasAll(c, EzParse(c), FALSE, W)
    BY <1>6, Around DEF EzParse, CsvRows
  <1>11. HasAll(c, LecmdParse(c), FALSE, W)
    BY <1>10, NotWhole DEF LecmdParse, LecmdFallback
  <1>12. HasAll(c, SuricataEve(c), FALSE, W)
    <2>1. HasAll(c, AllParse(c, WhileRoom(c, Values, Parsed)), FALSE, W)
      BY <1>1, <1>3, Around
    <2> QED BY <2>1, Around DEF SuricataEve
  <1>13. HasAll(c, PlasoParse(c), FALSE, W)
    BY <1>1, <1>3, Around DEF PlasoParse, JsonLines
  <1>14. HasAll(c, BulkExtract(c), FALSE, W)
    BY <1>6, NotWhole, Around DEF BulkExtract, Features
  <1>15. HasAll(c, Ausearch(c), FALSE, W)
    <2>1. CASE c.child = "unmatched"
      <3>1. c.records = << >>
        BY <2>1 DEF AnyCall
      <3>2. Places(c, W) = {}
        BY <3>1 DEF Places
      <3> QED BY <3>2 DEF HasAll
    <2>2. CASE c.child # "unmatched"
      BY <1>6, <2>2, Around DEF Ausearch
    <2> QED BY <2>1, <2>2
  <1> QED BY <1>4, <1>5, <1>7, <1>8, <1>9, <1>10, <1>11, <1>12, <1>13, <1>14, <1>15 DEF W

\* The tools that project what comes first.
LEMMA LeadingTools ==
  ASSUME NEW c \in AnyCall
  PROVE  /\ HasAll(c, BrowserHistory(c), TRUE, {"wanted", "beyond"})
         /\ HasAll(c, Info2Paths(c), TRUE, {"wanted", "beyond"})
         /\ HasAll(c, VolRun(c), TRUE, {"wanted", "beyond"})
         /\ HasAll(c, HayabusaScan(c), TRUE, {"wanted", "beyond"})
         /\ HasAll(c, NfdumpQuery(c), TRUE, {"wanted", "beyond"})
         /\ HasAll(c, JournalctlQuery(c), TRUE, {"wanted", "beyond"})
         /\ HasAll(c, VelCollect(c), TRUE, {"wanted", "beyond"})
         /\ HasAll(c, LoginAccounting(c), TRUE, {"wanted", "beyond"})
  <1> DEFINE W == {"wanted", "beyond"}
  <1>1. W \subseteq Lines
    BY KindsOfRecords
  <1> HIDE DEF W
  <1>2. \A drops : HasAll(c, Leading(c, drops), TRUE, W)
    BY <1>1, LeadingHasAll, FewerKinds
  <1>3. \A drops : HasAll(c, AllParse(c, Leading(c, drops)), TRUE, W)
    BY <1>2, Around
  <1>4. HasAll(c, BrowserHistory(c), TRUE, W)
    <2> DEFINE read == Cut(c, c.limit)
               a == Leading(read, {})
    <2>1. HasAll(c, a, TRUE, W)
      BY <1>1, BrowserHasAll, FewerKinds, MoreSigns
    <2>2. BrowserHistory(c) = InProcess(c, AllParse(read, a))
      BY DEF BrowserHistory
    <2> HIDE DEF a, read
    <2>3. AllParse(read, a) \in {a, Refused} /\ HasAll(c, Refused, TRUE, W)
      BY NotWhole DEF AllParse
    <2>4. HasAll(c, AllParse(read, a), TRUE, W)
      BY <2>1, <2>3, Zenon
    <2> QED BY <2>2, <2>4, Around
  <1>5. HasAll(c, Info2Paths(c), TRUE, W)
    BY <1>2, Around DEF Info2Paths
  <1>6. HasAll(c, LoginAccounting(c), TRUE, W)
    BY <1>2, Around DEF LoginAccounting
  <1>7. HasAll(c, VolRun(c), TRUE, W) /\ HasAll(c, HayabusaScan(c), TRUE, W)
    BY <1>3, Around DEF VolRun, HayabusaScan
  <1>8. HasAll(c, NfdumpQuery(c), TRUE, W) /\ HasAll(c, JournalctlQuery(c), TRUE, W)
        /\ HasAll(c, VelCollect(c), TRUE, W)
    BY <1>3, Around DEF NfdumpQuery, JournalctlQuery, VelCollect
  <1> QED BY <1>4, <1>5, <1>6, <1>7, <1>8 DEF W

\* The tools with a bound of their own.
LEMMA BoundedTools ==
  ASSUME NEW c \in AnyCall
  PROVE  /\ HasAll(c, RegistryQuery(c), FALSE, {"wanted"})
         /\ HasAll(c, ThumbcacheParse(c), TRUE, {"wanted"})
         /\ HasAll(c, SrumParse(c), FALSE, {"wanted"})
         /\ HasAll(c, PstParse(c), FALSE, {"wanted"})
  <1> DEFINE e == Reached(c)
             W == {"wanted"}
  <1>1. e \in AnyCall /\ e.limit = c.limit /\ Places(c, W) \subseteq Places(e, W)
    BY ReachedIsAllWanted
  <1>2. W \subseteq Lines /\ W \subseteq Values
    BY KindsOfRecords
  <1> HIDE DEF e
  <1>3. ASSUME NEW a, NEW K, W \subseteq K, HasAll(e, a, FALSE, K) PROVE HasAll(c, a, FALSE, W)
    <2> HIDE DEF W
    <2>1. HasAll(e, a, FALSE, W)
      BY <1>3, FewerKinds
    <2> QED BY <1>1, <2>1 DEF HasAll
  <1> HIDE DEF W
  <1>4. ASSUME NEW K, W \subseteq K, NEW others
        PROVE  HasAll(c, StopBefore(e, others, K), FALSE, W) /\ HasAll(c, WhileRoom(e, others, K), FALSE, W)
    BY <1>1, <1>3, <1>4, LoopsHaveAll
  <1>5. HasAll(c, RegistryQuery(c), FALSE, W)
    BY <1>2, <1>4, Around DEF RegistryQuery, e
  <1>6. HasAll(c, SrumParse(c), FALSE, W)
    BY <1>2, <1>4, Around, NotWhole DEF SrumParse, e
  <1>7. HasAll(c, PstParse(c), FALSE, W)
    BY <1>2, <1>4, Around, NotWhole DEF PstParse, ExportedMessages, e
  <1>8. HasAll(c, ThumbcacheParse(c), TRUE, W)
    <2>1. HasAll(c, [CmmmEntries(c) EXCEPT !.rows = FirstOf(@, c.limit)], TRUE, {"wanted", "odd"})
      BY CmmmHasAll
    <2>2. W \subseteq {"wanted", "odd"}
      BY DEF W
    <2>3. HasAll(c, [CmmmEntries(c) EXCEPT !.rows = FirstOf(@, c.limit)], TRUE, W)
      BY <2>1, <2>2, FewerKinds
    <2> QED BY <2>3, Around DEF ThumbcacheParse
  <1> QED BY <1>5, <1>6, <1>7, <1>8 DEF W

-----------------------------------------------------------------------------
(* All of them.                                                             *)

\* The tools that project what comes first, and those that count all.
Projecting == {"browser_history", "info2", "vol_run", "hayabusa_scan",
               "nfdump_query", "journalctl_query", "vel_collect",
               "login_accounting"}
Counting == {"zeek_summary", "cloud_audit", "vpc_flow", "ausearch",
             "indx_parse", "suricata_eve", "ez_parse", "lecmd",
             "mac_triage", "plaso_parse", "bulk_extract"}

\* The answer of a tool has all the wanted records when it looks whole.
LEMMA AnswersHaveAll ==
  ASSUME NEW c \in AnyCall
  PROVE  /\ \A tool \in Filtering : HasAll(c, AnswersTo(c)[tool], FALSE, {"wanted", "beyond"})
         /\ \A tool \in Projecting : HasAll(c, AnswersTo(c)[tool], TRUE, {"wanted", "beyond"})
         /\ \A tool \in Counting : HasAll(c, AnswersTo(c)[tool], TRUE, {"wanted", "beyond"})
         /\ \A tool \in Bounded : HasAll(c, AnswersTo(c)[tool], TRUE, {"wanted"})
  <1>1. ASSUME NEW tool \in Filtering PROVE HasAll(c, AnswersTo(c)[tool], FALSE, {"wanted", "beyond"})
    <2>1. CASE tool = "evtx_query"
      <3>1. AnswersTo(c)[tool] = EvtxQuery(c)
        BY <2>1 DEF AnswersTo
      <3> QED BY <3>1, FilteringTools
    <2>2. CASE tool = "mft_timeline"
      <3>1. AnswersTo(c)[tool] = MftTimeline(c)
        BY <2>2 DEF AnswersTo
      <3> QED BY <3>1, FilteringTools
    <2>3. CASE tool = "usnjrnl_query"
      <3>1. AnswersTo(c)[tool] = UsnjrnlQuery(c)
        BY <2>3 DEF AnswersTo
      <3> QED BY <3>1, FilteringTools
    <2>4. CASE tool = "sysmon_network_query"
      <3>1. AnswersTo(c)[tool] = SysmonNetworkQuery(c)
        BY <2>4 DEF AnswersTo
      <3> QED BY <3>1, FilteringTools
    <2>5. CASE tool = "yara_scan"
      <3>1. AnswersTo(c)[tool] = YaraScan(c)
        BY <2>5 DEF AnswersTo
      <3> QED BY <3>1, FilteringTools
    <2>6. CASE tool = "vol_pslist"
      <3>1. AnswersTo(c)[tool] = VolPslist(c)
        BY <2>6 DEF AnswersTo
      <3> QED BY <3>1, FilteringTools, Around DEF VolPslist
    <2>7. CASE tool = "vol_psscan"
      <3>1. AnswersTo(c)[tool] = VolPsscan(c)
        BY <2>7 DEF AnswersTo
      <3> QED BY <3>1, FilteringTools, Around DEF VolPsscan
    <2>8. CASE tool = "vol_psxview"
      <3>1. AnswersTo(c)[tool] = VolPsxview(c)
        BY <2>8 DEF AnswersTo
      <3> QED BY <3>1, FilteringTools, Around DEF VolPsxview
    <2>9. CASE tool = "vol_malfind"
      <3>1. AnswersTo(c)[tool] = VolMalfind(c)
        BY <2>9 DEF AnswersTo
      <3> QED BY <3>1, FilteringTools, Around DEF VolMalfind
    <2> QED BY <2>1, <2>2, <2>3, <2>4, <2>5, <2>6, <2>7, <2>8, <2>9 DEF Filtering
  <1>2. ASSUME NEW tool \in Projecting PROVE HasAll(c, AnswersTo(c)[tool], TRUE, {"wanted", "beyond"})
    <2>1. CASE tool = "browser_history"
      <3>1. AnswersTo(c)[tool] = BrowserHistory(c)
        BY <2>1 DEF AnswersTo
      <3> QED BY <3>1, LeadingTools
    <2>2. CASE tool = "info2"
      <3>1. AnswersTo(c)[tool] = Info2Paths(c)
        BY <2>2 DEF AnswersTo
      <3> QED BY <3>1, LeadingTools
    <2>3. CASE tool = "vol_run"
      <3>1. AnswersTo(c)[tool] = VolRun(c)
        BY <2>3 DEF AnswersTo
      <3> QED BY <3>1, LeadingTools
    <2>4. CASE tool = "hayabusa_scan"
      <3>1. AnswersTo(c)[tool] = HayabusaScan(c)
        BY <2>4 DEF AnswersTo
      <3> QED BY <3>1, LeadingTools
    <2>5. CASE tool = "nfdump_query"
      <3>1. AnswersTo(c)[tool] = NfdumpQuery(c)
        BY <2>5 DEF AnswersTo
      <3> QED BY <3>1, LeadingTools
    <2>6. CASE tool = "journalctl_query"
      <3>1. AnswersTo(c)[tool] = JournalctlQuery(c)
        BY <2>6 DEF AnswersTo
      <3> QED BY <3>1, LeadingTools
    <2>7. CASE tool = "vel_collect"
      <3>1. AnswersTo(c)[tool] = VelCollect(c)
        BY <2>7 DEF AnswersTo
      <3> QED BY <3>1, LeadingTools
    <2>8. CASE tool = "login_accounting"
      <3>1. AnswersTo(c)[tool] = LoginAccounting(c)
        BY <2>8 DEF AnswersTo
      <3> QED BY <3>1, LeadingTools
    <2> QED BY <2>1, <2>2, <2>3, <2>4, <2>5, <2>6, <2>7, <2>8 DEF Projecting
  <1>3. ASSUME NEW tool \in Counting PROVE HasAll(c, AnswersTo(c)[tool], TRUE, {"wanted", "beyond"})
    <2>1. CASE tool = "zeek_summary"
      <3>1. AnswersTo(c)[tool] = ZeekSummary(c)
        BY <2>1 DEF AnswersTo
      <3> QED BY <3>1, CountingTools, MoreSigns
    <2>2. CASE tool = "cloud_audit"
      <3>1. AnswersTo(c)[tool] = CloudAudit(c)
        BY <2>2 DEF AnswersTo
      <3> QED BY <3>1, CountingTools, MoreSigns
    <2>3. CASE tool = "vpc_flow"
      <3>1. AnswersTo(c)[tool] = VpcFlow(c)
        BY <2>3 DEF AnswersTo
      <3> QED BY <3>1, CountingTools, MoreSigns
    <2>4. CASE tool = "ausearch"
      <3>1. AnswersTo(c)[tool] = Ausearch(c)
        BY <2>4 DEF AnswersTo
      <3> QED BY <3>1, CountingTools, MoreSigns
    <2>5. CASE tool = "indx_parse"
      <3>1. AnswersTo(c)[tool] = IndxParse(c)
        BY <2>5 DEF AnswersTo
      <3> QED BY <3>1, CountingTools, MoreSigns
    <2>6. CASE tool = "suricata_eve"
      <3>1. AnswersTo(c)[tool] = SuricataEve(c)
        BY <2>6 DEF AnswersTo
      <3> QED BY <3>1, CountingTools, MoreSigns
    <2>7. CASE tool = "ez_parse"
      <3>1. AnswersTo(c)[tool] = EzParse(c)
        BY <2>7 DEF AnswersTo
      <3> QED BY <3>1, CountingTools, MoreSigns
    <2>8. CASE tool = "lecmd"
      <3>1. AnswersTo(c)[tool] = LecmdParse(c)
        BY <2>8 DEF AnswersTo
      <3> QED BY <3>1, CountingTools, MoreSigns
    <2>9. CASE tool = "mac_triage"
      <3>1. AnswersTo(c)[tool] = MacTriage(c)
        BY <2>9 DEF AnswersTo
      <3> QED BY <3>1, CountingTools, MoreSigns
    <2>10. CASE tool = "plaso_parse"
      <3>1. AnswersTo(c)[tool] = PlasoParse(c)
        BY <2>10 DEF AnswersTo
      <3> QED BY <3>1, CountingTools, MoreSigns
    <2>11. CASE tool = "bulk_extract"
      <3>1. AnswersTo(c)[tool] = BulkExtract(c)
        BY <2>11 DEF AnswersTo
      <3> QED BY <3>1, CountingTools, MoreSigns
    <2> QED BY <2>1, <2>2, <2>3, <2>4, <2>5, <2>6, <2>7, <2>8, <2>9, <2>10, <2>11 DEF Counting
  <1>4. ASSUME NEW tool \in Bounded PROVE HasAll(c, AnswersTo(c)[tool], TRUE, {"wanted"})
    <2>1. CASE tool = "registry_query"
      <3>1. AnswersTo(c)[tool] = RegistryQuery(c)
        BY <2>1 DEF AnswersTo
      <3> QED BY <3>1, BoundedTools, MoreSigns
    <2>2. CASE tool = "thumbcache_parse"
      <3>1. AnswersTo(c)[tool] = ThumbcacheParse(c)
        BY <2>2 DEF AnswersTo
      <3> QED BY <3>1, BoundedTools, MoreSigns
    <2>3. CASE tool = "srum_parse"
      <3>1. AnswersTo(c)[tool] = SrumParse(c)
        BY <2>3 DEF AnswersTo
      <3> QED BY <3>1, BoundedTools, MoreSigns
    <2>4. CASE tool = "pst_parse"
      <3>1. AnswersTo(c)[tool] = PstParse(c)
        BY <2>4 DEF AnswersTo
      <3> QED BY <3>1, BoundedTools, MoreSigns
    <2> QED BY <2>1, <2>2, <2>3, <2>4 DEF Bounded
  <1> QED BY <1>1, <1>2, <1>3, <1>4

\* A tool is of one of the four sorts.
LEMMA SortsOfTools ==
  ASSUME NEW c
  PROVE  DOMAIN AnswersTo(c) \subseteq Filtering \cup Projecting \cup Counting \cup Bounded
         /\ Filtering \cap Bounded = {} /\ Projecting \cap Bounded = {} /\ Counting \cap Bounded = {}
         /\ Filtering \cap Projecting = {} /\ Filtering \cap Counting = {}
  <1>1. Filtering \cap Bounded = {} /\ Filtering \cap Projecting = {} /\ Filtering \cap Counting = {}
    BY DEF Filtering, Bounded, Projecting, Counting
  <1>2. Projecting \cap Bounded = {} /\ Counting \cap Bounded = {}
    BY DEF Bounded, Projecting, Counting
  <1>3. ASSUME NEW tool \in DOMAIN AnswersTo(c)
        PROVE  tool \in Filtering \cup Projecting \cup Counting \cup Bounded
    BY DEF AnswersTo, Filtering, Bounded, Projecting, Counting
  <1> QED BY <1>1, <1>2, <1>3

\* No tool loses a row in silence, whatever its source mixes in, however long
\* it is and whatever the limit: of every call, an answer that looks whole is
\* (the loop and the counters of each tool in services/mcp/src/tools).
THEOREM WholeMeansWhole == call \in AnyCall => WholeAnswersAreWhole
  <1> SUFFICES ASSUME call \in AnyCall, NEW tool \in DOMAIN AnswersTo(call)
               PROVE  LET a == AnswersTo(call)[tool]
                          wanted == {"wanted"} \cup (IF tool \in Bounded THEN {} ELSE {"beyond"})
                      IN LooksWhole(tool, call, a) => Places(call, wanted) \subseteq a.rows
    BY DEF WholeAnswersAreWhole
  <1> DEFINE c == call
             a == AnswersTo(c)[tool]
             wanted == {"wanted"} \cup (IF tool \in Bounded THEN {} ELSE {"beyond"})
  <1>1. c \in AnyCall /\ tool \in Filtering \cup Projecting \cup Counting \cup Bounded
    BY SortsOfTools
  <1>2. wanted = IF tool \in Bounded THEN {"wanted"} ELSE {"wanted", "beyond"}
    OBVIOUS
  <1> HIDE DEF c
  <1>3. HasAll(c, a, tool \notin Filtering, wanted)
    <2>1. CASE tool \in Filtering
      BY <1>1, <1>2, <2>1, AnswersHaveAll, SortsOfTools
    <2>2. CASE tool \in Projecting
      BY <1>1, <1>2, <2>2, AnswersHaveAll, SortsOfTools
    <2>3. CASE tool \in Counting
      BY <1>1, <1>2, <2>3, AnswersHaveAll, SortsOfTools
    <2>4. CASE tool \in Bounded
      BY <1>1, <1>2, <2>4, AnswersHaveAll, SortsOfTools
    <2> QED BY <1>1, <2>1, <2>2, <2>3, <2>4
  <1> HIDE DEF a, wanted
  <1>4. LooksWhole(tool, c, a) => Places(c, wanted) \subseteq a.rows
    BY <1>3 DEF LooksWhole, HasAll
  <1> QED BY <1>4 DEF c, a, wanted

-----------------------------------------------------------------------------
(* The files staged from a disk image.                                      *)

\* The listings of any length, of entries of any class and rank, any limit,
\* and the folders of any number of segments.
AnyEntry ==
  {k \in [wanted : BOOLEAN, class : Nat, rank : Nat, deleted : BOOLEAN, realloc : BOOLEAN,
          fate : {"whole", "empty", "unreadable", "large"}] : k.realloc => k.deleted}

AnyFolder == [files : UNION {[1..m -> SUBSET Spellings] : m \in Nat}, links : SUBSET Nat]

AnyInput == [listing : Seq(AnyEntry), recover : BOOLEAN, limit : Nat, folder : AnyFolder]

\* The inputs of a run are some of them.
LEMMA InputsAreSome == Inputs \subseteq AnyInput
  <1> Limits \subseteq Nat /\ MaxSegments \in Nat
    BY LimitsAssumption
  <1> SUFFICES ASSUME NEW d \in Inputs PROVE d \in AnyInput
    OBVIOUS
  <1>1. Kinds \subseteq AnyEntry
    <2> SUFFICES ASSUME NEW k \in Kinds PROVE k \in AnyEntry
      OBVIOUS
    <2>1. /\ k = [wanted |-> k.wanted, class |-> k.class, rank |-> k.rank, deleted |-> k.deleted,
                  realloc |-> k.realloc, fate |-> k.fate]
          /\ k.wanted \in BOOLEAN /\ k.class \in Nat /\ k.rank \in Nat /\ k.deleted \in BOOLEAN /\ k.realloc \in BOOLEAN
          /\ k.fate \in {"whole", "empty", "unreadable", "large"}
          /\ k.realloc => k.deleted
      BY DEF Kinds
    <2>2. k \in [wanted : BOOLEAN, class : Nat, rank : Nat, deleted : BOOLEAN, realloc : BOOLEAN,
                 fate : {"whole", "empty", "unreadable", "large"}]
      BY <2>1
    <2> QED BY <2>1, <2>2 DEF AnyEntry
  <1>2. Listings \subseteq Seq(AnyEntry)
    <2> SUFFICES ASSUME NEW l \in Listings PROVE l \in Seq(AnyEntry)
      OBVIOUS
    <2>1. CASE l \in UNION {[1..n -> Kinds] : n \in 0..2}
      <3>1. PICK n \in 0..2 : l \in [1..n -> Kinds]
        BY <2>1
      <3>2. n \in Nat /\ l \in [1..n -> AnyEntry]
        BY <1>1, <3>1
      <3> QED BY <3>2
    <2>2. CASE l \in [1..4 -> {k \in Kinds : k.wanted /\ k.fate = "whole" /\ ~ k.realloc}]
      <3>1. l \in [1..4 -> AnyEntry]
        BY <1>1, <2>2
      <3>2. \A n \in Nat : [1..n -> AnyEntry] \subseteq Seq(AnyEntry)
        OBVIOUS
      <3>3. 4 \in Nat
        OBVIOUS
      <3> QED BY <3>1, <3>2, <3>3, Zenon
    <2> QED BY <2>1, <2>2 DEF Listings
  <1>3. LoneImage \in AnyFolder
    <2>1. {} \in SUBSET Nat /\ [n \in 1..MaxSegments |-> IF n = 1 THEN {"upper"} ELSE {}]
             \in [1..MaxSegments -> SUBSET Spellings]
      BY DEF Spellings
    <2>2. [n \in 1..MaxSegments |-> IF n = 1 THEN {"upper"} ELSE {}]
             \in UNION {[1..m -> SUBSET Spellings] : m \in Nat}
      BY <2>1
    <2> QED BY <2>1, <2>2 DEF LoneImage, AnyFolder
  <1>4. Folders \subseteq AnyFolder
    <2> SUFFICES ASSUME NEW f \in Folders PROVE f \in AnyFolder
      OBVIOUS
    <2>1. f = [files |-> f.files, links |-> f.links] /\ f.files \in [1..MaxSegments -> SUBSET Spellings]
          /\ f.links \in SUBSET (1..MaxSegments)
      BY DEF Folders
    <2>2. f.files \in UNION {[1..m -> SUBSET Spellings] : m \in Nat} /\ f.links \in SUBSET Nat
      BY <2>1
    <2> QED BY <2>1, <2>2 DEF AnyFolder
  <1>5. /\ d.listing \in Seq(AnyEntry) /\ d.recover \in BOOLEAN /\ d.limit \in Nat
        /\ d.folder \in AnyFolder
        /\ d = [listing |-> d.listing, recover |-> d.recover, limit |-> d.limit, folder |-> d.folder]
    <2>1. CASE d \in [listing : Listings, recover : BOOLEAN, limit : Limits, folder : {LoneImage}]
      BY <1>2, <1>3, <2>1
    <2>2. CASE d \in [listing : {<< >>}, recover : {TRUE}, limit : {0},
                      folder : {f \in Folders : \A n \in f.links : f.files[n] # {}}]
      <3>1. d.listing = << >> /\ d.recover \in BOOLEAN /\ d.limit = 0 /\ d.folder \in Folders
            /\ d = [listing |-> d.listing, recover |-> d.recover, limit |-> d.limit, folder |-> d.folder]
        BY <2>2
      <3>2. << >> \in Seq(AnyEntry) /\ 0 \in Nat
        OBVIOUS
      <3>3. d.folder \in AnyFolder
        BY <1>4, <3>1
      <3>4. d.listing \in Seq(AnyEntry) /\ d.limit \in Nat
        BY <3>1, <3>2
      <3> HIDE DEF AnyFolder
      <3> QED BY <3>1, <3>3, <3>4, Zenon
    <2> QED BY <2>1, <2>2 DEF Inputs
  <1> QED BY <1>5 DEF AnyInput

\* How many the first few numbers are.
LEMMA CountUpTo ==
  ASSUME NEW n \in Nat
  PROVE  IsFiniteSet(1..n) /\ Cardinality(1..n) = n
  <1>1. IsFiniteSet(1..n) /\ Cardinality(1..n) = IF 1 > n THEN 0 ELSE n - 1 + 1
    BY FS_Interval
  <1> QED BY <1>1

\* A finite set of numbers that has a member has a greatest.
LEMMA HasGreatest ==
  ASSUME NEW T, T # {}, NEW n \in Nat, T \subseteq 0..n
  PROVE  Max(T) \in T /\ \A i \in T : i <= Max(T)
  <1> DEFINE U == {n - i : i \in T}
  <1>1. U \subseteq Nat /\ U # {}
    <2>1. \A i \in T : n - i \in Nat
      OBVIOUS
    <2>2. PICK i \in T : TRUE
      OBVIOUS
    <2> QED BY <2>1, <2>2
  <1>2. PICK u \in U : \A v \in U : u <= v
    <2> HIDE DEF U
    <2> QED BY <1>1, HasLeast
  <1>3. PICK m \in T : u = n - m
    BY <1>2
  <1>4. \A i \in T : i <= m
    <2> SUFFICES ASSUME NEW i \in T PROVE i <= m
      OBVIOUS
    <2>1. n - i \in U
      OBVIOUS
    <2>2. n - m <= n - i
      BY <1>2, <1>3, <2>1
    <2>3. i \in 0..n /\ m \in 0..n
      BY <1>3
    <2> QED BY <2>2, <2>3
  <1>5. \E x \in T : \A y \in T : x >= y
    <2>1. \A y \in T : m >= y
      <3> SUFFICES ASSUME NEW y \in T PROVE m >= y
        OBVIOUS
      <3>1. y <= m /\ y \in 0..n /\ m \in 0..n
        BY <1>3, <1>4
      <3> QED BY <3>1
    <2> QED BY <1>3, <2>1
  <1>6. Max(T) \in T /\ \A y \in T : Max(T) >= y
    BY <1>5 DEF Max
  <1>7. \A y \in T : y <= Max(T)
    <2> SUFFICES ASSUME NEW y \in T PROVE y <= Max(T)
      OBVIOUS
    <2>1. Max(T) >= y /\ y \in 0..n /\ Max(T) \in 0..n
      BY <1>6
    <2> QED BY <2>1
  <1> QED BY <1>6, <1>7

\* The first numbers in their order are themselves.
LEMMA InOrderUpTo ==
  ASSUME NEW n \in Nat
  PROVE  InOrder(1..n) = [i \in 1..n |-> i]
  <1>1. Cardinality(1..n) = n
    BY CountUpTo
  <1>2. ASSUME NEW i \in 1..n
        PROVE  (CHOOSE k \in 1..n : Cardinality({m \in 1..n : m <= k}) = i) = i
    <2>1. ASSUME NEW k \in 1..n PROVE Cardinality({m \in 1..n : m <= k}) = k
      <3>1. {m \in 1..n : m <= k} = 1..k
        OBVIOUS
      <3>2. k \in Nat
        OBVIOUS
      <3> QED BY <3>1, <3>2, CountUpTo
    <2>2. \A k \in 1..n : Cardinality({m \in 1..n : m <= k}) = i <=> k = i
      BY <2>1
    <2>3. \E k \in 1..n : Cardinality({m \in 1..n : m <= k}) = i
      BY <2>2
    <2> QED BY <2>2, <2>3
  <1> QED BY <1>1, <1>2 DEF InOrder

\* Whatever the folder holds, every segment that is visible is handed on in
\* order or the image is refused (segment_paths_for_image).
THEOREM SegmentsAreWhole == disk \in AnyInput => WholeSetOrRefused
  <1> DEFINE f == disk.folder
             P == Present(f)
             L == LastSegment(f)
  <1> SUFFICES ASSUME disk \in AnyInput, SegmentSet(f).ok
               PROVE  /\ SegmentSet(f).numbers = [n \in 1..L |-> n]
                      /\ \A n \in DOMAIN f.files : f.files[n] # {} => n <= Len(SegmentSet(f).numbers)
    BY DEF WholeSetOrRefused
  <1>1. PICK m \in Nat : f.files \in [1..m -> SUBSET Spellings]
    BY DEF AnyInput, AnyFolder
  <1>2. Missing(f) = {} /\ SegmentSet(f).numbers = InOrder(P)
    BY DEF SegmentSet
  <1>3. P \subseteq 1..(m + 1) /\ 1 \in P
    BY <1>1 DEF Present
  <1>4. L = Max(P)
    BY DEF LastSegment
  <1>5. Missing(f) = (1..L) \ P
    BY DEF Missing
  <1>6. \A n \in DOMAIN f.files : f.files[n] # {} => n \in P
    BY DEF Present
  <1> HIDE DEF P, L, f
  <1>7. L \in P /\ \A i \in P : i <= L
    <2>1. m + 1 \in Nat /\ P # {} /\ P \subseteq 0..(m + 1)
      BY <1>1, <1>3
    <2> QED BY <1>3, <1>4, <2>1, HasGreatest
  <1>8. L \in Nat /\ P = 1..L
    <2>1. L \in 1..(m + 1)
      BY <1>3, <1>7
    <2>2. 1..L \subseteq P
      BY <1>2, <1>5
    <2>3. P \subseteq 1..L
      BY <1>3, <1>7, <2>1
    <2>4. L \in Nat
      BY <2>1
    <2> QED BY <2>2, <2>3, <2>4
  <1>9. SegmentSet(f).numbers = [n \in 1..L |-> n]
    BY <1>2, <1>8, InOrderUpTo
  <1>10. Len(SegmentSet(f).numbers) = L
    BY <1>8, <1>9
  <1>11. \A n \in DOMAIN f.files : f.files[n] # {} => n <= Len(SegmentSet(f).numbers)
    BY <1>6, <1>7, <1>10
  <1> QED BY <1>9, <1>11

\* Sets without a common member are counted one by one.
LEMMA CountApart ==
  ASSUME NEW S, NEW T, IsFiniteSet(S), IsFiniteSet(T), S \cap T = {}
  PROVE  IsFiniteSet(S \cup T) /\ Cardinality(S \cup T) = Cardinality(S) + Cardinality(T)
  <1>1. Cardinality(S \cup T) = Cardinality(S) + Cardinality(T) - Cardinality(S \cap T)
        /\ IsFiniteSet(S \cup T)
    BY FS_Union
  <1>2. Cardinality(S) \in Nat /\ Cardinality(T) \in Nat /\ Cardinality(S \cap T) = 0
    BY FS_CardinalityType, FS_EmptySet
  <1> QED BY <1>1, <1>2

\* What is known of a listing.
LEMMA ListingFacts ==
  ASSUME NEW d \in AnyInput
  PROVE  /\ IsFiniteSet(Entry(d)) /\ Entry(d) \subseteq Nat /\ d.limit \in Nat
         /\ \A e \in Entry(d) :
              /\ Class(d, e) \in Nat /\ d.listing[e].rank \in Nat
              /\ d.listing[e].deleted \in BOOLEAN /\ d.listing[e].realloc \in BOOLEAN
              /\ Fate(d, e) \in {"whole", "empty", "unreadable", "large"}
              /\ d.listing[e].realloc => d.listing[e].deleted
  <1>1. d.listing \in Seq(AnyEntry) /\ d.limit \in Nat
    BY DEF AnyInput
  <1>2. Entry(d) = 1..Len(d.listing) /\ Len(d.listing) \in Nat
    BY <1>1 DEF Entry
  <1>3. IsFiniteSet(Entry(d)) /\ Entry(d) \subseteq Nat
    <2>1. IsFiniteSet(1..Len(d.listing))
      BY <1>2, CountUpTo
    <2> QED BY <1>2, <2>1
  <1>4. ASSUME NEW e \in Entry(d)
        PROVE  /\ d.listing[e].class \in Nat /\ d.listing[e].rank \in Nat
               /\ d.listing[e].deleted \in BOOLEAN /\ d.listing[e].realloc \in BOOLEAN
               /\ d.listing[e].fate \in {"whole", "empty", "unreadable", "large"}
               /\ d.listing[e].realloc => d.listing[e].deleted
    <2>1. d.listing[e] \in AnyEntry
      BY <1>1, <1>2
    <2> QED BY <2>1 DEF AnyEntry
  <1> QED BY <1>1, <1>3, <1>4 DEF Class, Fate

\* Every deleted entry is counted once (the counters of disk_extract_artifacts).
THEOREM DeletedAreCounted == disk \in AnyInput => DeletedAreAccountedFor
  <1> SUFFICES ASSUME disk \in AnyInput PROVE DeletedAreAccountedFor
    OBVIOUS
  <1> DEFINE d == disk
             E == Entry(d)
             S == Selected(d)
             A == {e \in E : Deleted(d, e)}
             D1 == {e \in Artifacts(d) : Deleted(d, e)}
             D2 == {e \in E : Deleted(d, e) /\ d.listing[e].realloc}
             D3 == {e \in S : Deleted(d, e) /\ Fate(d, e) \in {"unreadable", "empty"}}
             D4 == {e \in E \ S : Deleted(d, e) /\ Candidate(d, e)}
             D5 == {e \in S : Deleted(d, e) /\ Fate(d, e) = "large"}
             D6 == {e \in E : Deleted(d, e) /\ LeftOut(d, e)}
  <1>1. /\ IsFiniteSet(E)
        /\ \A e \in E : Fate(d, e) \in {"whole", "empty", "unreadable", "large"}
                        /\ d.listing[e].realloc \in BOOLEAN
    BY ListingFacts
  <1>2. /\ S \subseteq E /\ \A e \in S : Candidate(d, e)
        /\ \A e \in E : Candidate(d, e) => ~ d.listing[e].realloc
        /\ \A e \in E : Deleted(d, e) =>
             (LeftOut(d, e) <=> ~ d.listing[e].realloc /\ ~ Candidate(d, e))
    BY DEF Selected, Candidate, LeftOut, Deleted
  <1>3. D1 = {e \in S : Deleted(d, e) /\ Fate(d, e) = "whole"}
    BY DEF Artifacts, Staged
  <1>4. /\ Seen(d) = Cardinality(A) /\ Recovered(d) = Cardinality(D1)
        /\ SkippedRealloc(d) = Cardinality(D2) /\ RecoveryFailed(d) = Cardinality(D3)
    BY DEF Seen, Recovered, SkippedRealloc, RecoveryFailed
  <1> HIDE DEF d, S
  <1>5. A = D1 \cup D2 \cup D3 \cup D4 \cup D5 \cup D6
    BY <1>1, <1>2, <1>3
  <1>6. /\ D1 \cap D2 = {} /\ (D1 \cup D2) \cap D3 = {}
        /\ (D1 \cup D2 \cup D3) \cap D4 = {} /\ (D1 \cup D2 \cup D3 \cup D4) \cap D5 = {}
        /\ (D1 \cup D2 \cup D3 \cup D4 \cup D5) \cap D6 = {}
    BY <1>1, <1>2, <1>3
  <1>7. /\ D1 \subseteq E /\ D2 \subseteq E /\ D3 \subseteq E /\ D4 \subseteq E
        /\ D5 \subseteq E /\ D6 \subseteq E
    BY <1>2, <1>3
  <1>8. /\ Cardinality(D4) = Cardinality({e \in Entry(d) \ Selected(d) : Deleted(d, e) /\ Candidate(d, e)})
        /\ Cardinality(D5) = Cardinality({e \in Selected(d) : Deleted(d, e) /\ Fate(d, e) = "large"})
        /\ Cardinality(D6) = Cardinality({e \in Entry(d) : Deleted(d, e) /\ LeftOut(d, e)})
    BY DEF S
  <1> HIDE DEF E, A, D1, D2, D3, D4, D5, D6
  <1>9. /\ IsFiniteSet(D1) /\ IsFiniteSet(D2) /\ IsFiniteSet(D3) /\ IsFiniteSet(D4)
        /\ IsFiniteSet(D5) /\ IsFiniteSet(D6)
    BY <1>1, <1>7, FS_Subset
  <1>10. IsFiniteSet(D1 \cup D2) /\ Cardinality(D1 \cup D2) = Cardinality(D1) + Cardinality(D2)
    BY <1>6, <1>9, CountApart
  <1>11. /\ IsFiniteSet(D1 \cup D2 \cup D3)
         /\ Cardinality(D1 \cup D2 \cup D3) = Cardinality(D1 \cup D2) + Cardinality(D3)
    BY <1>6, <1>9, <1>10, CountApart
  <1>12. /\ IsFiniteSet(D1 \cup D2 \cup D3 \cup D4)
         /\ Cardinality(D1 \cup D2 \cup D3 \cup D4) = Cardinality(D1 \cup D2 \cup D3) + Cardinality(D4)
    BY <1>6, <1>9, <1>11, CountApart
  <1>13. /\ IsFiniteSet(D1 \cup D2 \cup D3 \cup D4 \cup D5)
         /\ Cardinality(D1 \cup D2 \cup D3 \cup D4 \cup D5) =
              Cardinality(D1 \cup D2 \cup D3 \cup D4) + Cardinality(D5)
    BY <1>6, <1>9, <1>12, CountApart
  <1>14. Cardinality(A) = Cardinality(D1 \cup D2 \cup D3 \cup D4 \cup D5) + Cardinality(D6)
    BY <1>5, <1>6, <1>9, <1>13, CountApart
  <1>15. \A D \in {D1, D2, D3, D4, D5, D6} : Cardinality(D) \in Nat
    BY <1>9, FS_CardinalityType
  <1>16. Cardinality(A) = Cardinality(D1) + Cardinality(D2) + Cardinality(D3) + Cardinality(D6)
                          + Cardinality(D4) + Cardinality(D5)
    BY <1>10, <1>11, <1>12, <1>13, <1>14, <1>15
  <1> QED BY <1>4, <1>8, <1>16 DEF DeletedAreAccountedFor, d

-----------------------------------------------------------------------------
(* The draws go round the classes.                                          *)

\* A set of numbers that has a member has its least one.
LEMMA MinOfNumbers ==
  ASSUME NEW T, T \subseteq Nat, T # {}
  PROVE  Min(T) \in T /\ \A i \in T : Min(T) <= i
  <1>1. \E x \in T : \A y \in T : x <= y
    BY HasLeast
  <1> QED BY <1>1 DEF Min

\* The entries of a queue are in order, so it has a head.
LEMMA FirstIsThere ==
  ASSUME NEW d \in AnyInput, NEW Q, Q \subseteq Entry(d), Q # {}
  PROVE  First(d, Q) \in Q
  <1> DEFINE Rank(e) == d.listing[e].rank
             Gone(e) == d.listing[e].deleted
             R == {Rank(e) : e \in Q}
  <1>1. /\ Q \subseteq Nat
        /\ \A e \in Q : Rank(e) \in Nat /\ Gone(e) \in BOOLEAN
    BY ListingFacts
  <1> HIDE DEF Rank, Gone
  <1>2. PICK r \in R : \A s \in R : r <= s
    <2>1. R \subseteq Nat /\ R # {}
      BY <1>1
    <2> HIDE DEF R
    <2> QED BY <2>1, HasLeast
  <1> DEFINE Low == {e \in Q : Rank(e) = r}
             Kept == {e \in Low : ~ Gone(e)}
             Best == IF Kept = {} THEN Low ELSE Kept
  <1>3. Low # {}
    BY <1>2
  <1>4. Best # {} /\ Best \subseteq Low /\ Best \subseteq Nat
    BY <1>1, <1>3
  <1>5. PICK e \in Best : \A f \in Best : e <= f
    <2> HIDE DEF Best
    <2> QED BY <1>4, HasLeast
  <1>6. e \in Q /\ Rank(e) = r /\ e \in Nat
    BY <1>1, <1>4, <1>5
  <1>7. ASSUME NEW f \in Q \ {e} PROVE DrawnBefore(d, e, f)
    <2>1. Rank(e) <= Rank(f) /\ Rank(f) \in Nat /\ Rank(e) \in Nat /\ f \in Nat
      BY <1>1, <1>2, <1>6
    <2>2. CASE Rank(f) # Rank(e)
      <3>1. Rank(e) < Rank(f)
        BY <2>1, <2>2
      <3> QED BY <3>1 DEF DrawnBefore, Rank
    <2>3. CASE Rank(f) = Rank(e) /\ Kept = {}
      <3>1. Gone(e) /\ Gone(f) /\ f \in Best
        BY <1>6, <2>3
      <3>2. e < f
        BY <1>5, <1>6, <2>1, <3>1
      <3>3. Gone(e) = Gone(f)
        BY <1>1, <1>6, <3>1
      <3> QED BY <2>3, <3>2, <3>3 DEF DrawnBefore, Rank, Gone
    <2>4. CASE Rank(f) = Rank(e) /\ Kept # {} /\ Gone(f)
      <3>1. ~ Gone(e)
        BY <1>5, <2>4
      <3> QED BY <2>4, <3>1 DEF DrawnBefore, Rank, Gone
    <2>5. CASE Rank(f) = Rank(e) /\ Kept # {} /\ ~ Gone(f)
      <3>1. ~ Gone(e) /\ f \in Best
        BY <1>5, <1>6, <2>5
      <3>2. e < f
        BY <1>5, <1>6, <2>1, <3>1
      <3>3. Gone(e) = Gone(f)
        BY <1>1, <1>6, <2>5, <3>1
      <3> QED BY <2>5, <3>2, <3>3 DEF DrawnBefore, Rank, Gone
    <2> QED BY <2>2, <2>3, <2>4, <2>5
  <1>8. \E g \in Q : \A f \in Q \ {g} : DrawnBefore(d, g, f)
    BY <1>6, <1>7
  <1> QED BY <1>8 DEF First

\* select_artifacts: the queues after each draw.
LEMMA DrawsLoop ==
  ASSUME NEW d \in AnyInput
  PROVE  /\ Draws(d)[0] = [left |-> {e \in Entry(d) : Candidate(d, e)}, next |-> 0]
         /\ \A t \in 1..d.limit : Draws(d)[t] = Draw(d, Draws(d)[t - 1])
  <1> DEFINE N == d.limit
             start == [left |-> {e \in Entry(d) : Candidate(d, e)}, next |-> 0]
             Loops(f, m) == f = [drawn \in 0..m |-> IF drawn = 0 THEN start ELSE Draw(d, f[drawn - 1])]
             G == {m \in Nat : \E f : Loops(f, m)}
  <1> N \in Nat
    BY ListingFacts
  <1> HIDE DEF start, N
  <1>1. 0 \in G
    <2>1. Loops([drawn \in 0..0 |-> start], 0)
      OBVIOUS
    <2> QED BY <2>1
  <1>2. ASSUME NEW m \in 1..N, m - 1 \in G PROVE m \in G
    <2>1. PICK f : Loops(f, m - 1)
      BY <1>2
    <2> DEFINE g == [drawn \in 0..m |-> IF drawn = m THEN Draw(d, f[m - 1]) ELSE f[drawn]]
    <2>2. ASSUME NEW t \in 0..m PROVE g[t] = IF t = 0 THEN start ELSE Draw(d, g[t - 1])
      <3>1. CASE t = m
        <4>1. t # 0 /\ t - 1 \in 0..m /\ t - 1 # m
          BY <3>1
        <4> QED BY <3>1, <4>1
      <3>2. CASE t # m
        <4>1. t \in 0..(m - 1) /\ (t # 0 => t - 1 \in 0..m /\ t - 1 # m)
          BY <3>2
        <4>2. f[t] = IF t = 0 THEN start ELSE Draw(d, f[t - 1])
          BY <2>1, <4>1
        <4> QED BY <3>2, <4>1, <4>2
      <3> QED BY <3>1, <3>2
    <2>3. Loops(g, m)
      <3>1. g = [drawn \in 0..m |-> g[drawn]]
        OBVIOUS
      <3> HIDE DEF g
      <3> QED BY <2>2, <3>1
    <2> HIDE DEF g
    <2>4. \E h : Loops(h, m)
      BY <2>3
    <2> HIDE DEF Loops
    <2> QED BY <2>4
  <1> HIDE DEF G
  <1>3. \A m \in 0..N : m \in G
    BY <1>1, <1>2, UpTo
  <1>4. N \in 0..N
    OBVIOUS
  <1>5. \E f : Loops(f, N)
    BY <1>3, <1>4 DEF G
  <1>6. Loops(Draws(d), N)
    BY <1>5 DEF Draws, N, start
  <1> DEFINE D == Draws(d)
  <1>7. Loops(D, N)
    BY <1>6
  <1> HIDE DEF D
  <1>8. D[0] = start /\ \A t \in 1..N : D[t] = Draw(d, D[t - 1])
    <2>1. D = [drawn \in 0..N |-> IF drawn = 0 THEN start ELSE Draw(d, D[drawn - 1])]
      BY <1>7
    <2>2. \A t \in 0..N : D[t] = IF t = 0 THEN start ELSE Draw(d, D[t - 1])
      BY <2>1
    <2>3. 0 \in 0..N /\ \A t \in 1..N : t \in 0..N /\ t # 0
      OBVIOUS
    <2> QED BY <2>2, <2>3
  <1> QED BY <1>8 DEF N, start, D

Drawable(d) == {e \in Entry(d) : Candidate(d, e)}

\* The files of a class that the draws have taken.
Drawn(d, left, class) == {e \in Drawable(d) \ left : Class(d, e) = class}
TakenOf(d, left, class) == Cardinality(Drawn(d, left, class))

\* The share of a class in the pass r that has come to next.
Share(r, next, class) == IF class < next THEN r ELSE r - 1

\* Every class has its share, but those that ran out.
Fair(d, left, next, r) ==
  \A class \in Nat :
    /\ TakenOf(d, left, class) <= Share(r, next, class)
    /\ Bucket(d, left, class) # {} => TakenOf(d, left, class) = Share(r, next, class)

\* After so many draws.
DrawnTo(d, drawn, s) ==
  /\ s = [left |-> s.left, next |-> s.next]
  /\ s.left \subseteq Drawable(d) /\ s.next \in Nat
  /\ Cardinality(Drawable(d) \ s.left) <= drawn
  /\ s.left # {} => Cardinality(Drawable(d) \ s.left) = drawn
  /\ \E r \in Nat : Fair(d, s.left, s.next, r)

\* What was taken are finitely many files.
LEMMA TakenIsNat ==
  ASSUME NEW d \in AnyInput, NEW left, NEW class
  PROVE  /\ IsFiniteSet(Drawn(d, left, class)) /\ TakenOf(d, left, class) \in Nat
         /\ IsFiniteSet(Drawable(d) \ left) /\ Cardinality(Drawable(d) \ left) \in Nat
  <1>1. IsFiniteSet(Entry(d)) /\ Drawn(d, left, class) \subseteq Entry(d) /\ Drawable(d) \ left \subseteq Entry(d)
    BY ListingFacts DEF Drawn, Drawable
  <1>2. IsFiniteSet(Drawn(d, left, class)) /\ IsFiniteSet(Drawable(d) \ left)
    BY <1>1, FS_Subset
  <1> QED BY <1>2, FS_CardinalityType DEF TakenOf

\* The class a pass comes to has files left, and the classes it went past have none.
LEMMA NextIsNext ==
  ASSUME NEW d \in AnyInput, NEW left, left \subseteq Drawable(d), left # {}, NEW next \in Nat
  PROVE  /\ NextClass(d, left, next) \in Nat
         /\ Bucket(d, left, NextClass(d, left, next)) # {}
         /\ \/ /\ next <= NextClass(d, left, next)
               /\ \A class \in Nat : next <= class /\ class < NextClass(d, left, next) => Bucket(d, left, class) = {}
            \/ /\ \A class \in Nat : next <= class => Bucket(d, left, class) = {}
               /\ \A class \in Nat : class < NextClass(d, left, next) => Bucket(d, left, class) = {}
  <1> DEFINE nonempty == {Class(d, e) : e \in left}
             ahead == {c \in nonempty : c >= next}
             n == NextClass(d, left, next)
  <1>1. nonempty \subseteq Nat /\ nonempty # {}
    BY ListingFacts DEF Drawable
  <1>2. \A class : Bucket(d, left, class) # {} <=> class \in nonempty
    BY DEF Bucket
  <1>3. n = Min(IF ahead = {} THEN nonempty ELSE ahead)
    BY DEF NextClass
  <1> HIDE DEF nonempty, n
  <1>4. CASE ahead # {}
    <2>1. ahead \subseteq Nat
      BY <1>1
    <2>2. n = Min(ahead)
      BY <1>3, <1>4
    <2>3. n \in ahead /\ \A i \in ahead : n <= i
      <3> HIDE DEF ahead
      <3> QED BY <1>4, <2>1, <2>2, MinOfNumbers
    <2>4. n \in nonempty /\ n \in Nat /\ next <= n
      BY <1>1, <2>3
    <2>5. ASSUME NEW class \in Nat, next <= class, class < n PROVE class \notin nonempty
      BY <2>3, <2>4, <2>5
    <2> QED BY <1>2, <2>4, <2>5 DEF n
  <1>5. CASE ahead = {}
    <2>1. n \in nonempty /\ \A i \in nonempty : n <= i
      BY <1>1, <1>3, <1>5, MinOfNumbers
    <2>2. n \in Nat
      BY <1>1, <2>1
    <2>3. ASSUME NEW class \in Nat, class < n PROVE class \notin nonempty
      BY <2>1, <2>2, <2>3
    <2>4. ASSUME NEW class \in Nat, next <= class PROVE class \notin nonempty
      BY <1>5, <2>4
    <2> QED BY <1>2, <2>1, <2>2, <2>3, <2>4 DEF n
  <1> QED BY <1>4, <1>5

\* Of the files of one class one more is taken, and no other.
TakesOne(d, left, class, rest) ==
  /\ rest \subseteq Drawable(d)
  /\ Cardinality(Drawable(d) \ rest) = Cardinality(Drawable(d) \ left) + 1
  /\ TakenOf(d, rest, class) = TakenOf(d, left, class) + 1
  /\ \A other \in Nat : other # class => TakenOf(d, rest, other) = TakenOf(d, left, other)
  /\ \A other \in Nat : Bucket(d, left, other) = {} => Bucket(d, rest, other) = {}

\* A draw does so, with the class the pass comes to.
LEMMA DrawTakesOne ==
  ASSUME NEW d \in AnyInput, NEW left, left \subseteq Drawable(d), NEW class \in Nat,
         Bucket(d, left, class) # {}
  PROVE  TakesOne(d, left, class, left \ {First(d, Bucket(d, left, class))})
  <1> DEFINE Q == Bucket(d, left, class)
             e == First(d, Q)
             rest == left \ {e}
  <1>0. rest = left \ {e}
    OBVIOUS
  <1>1. Q \subseteq Entry(d) /\ Q # {}
    BY DEF Bucket, Drawable
  <1> HIDE DEF Q
  <1>2. e \in Q
    BY <1>1, FirstIsThere
  <1> HIDE DEF e, rest
  <1>3. e \in left /\ e \in Drawable(d) /\ Class(d, e) = class
    BY <1>2 DEF Q, Bucket
  <1>4. rest \subseteq Drawable(d) /\ rest \subseteq left
    BY <1>0
  <1>5. Drawable(d) \ rest = (Drawable(d) \ left) \cup {e} /\ e \notin Drawable(d) \ left
    BY <1>0, <1>3
  <1>6. IsFiniteSet(Drawable(d) \ left)
    BY TakenIsNat
  <1>7. Cardinality(Drawable(d) \ rest) = Cardinality(Drawable(d) \ left) + 1
    BY <1>5, <1>6, FS_AddElement
  <1>8. Drawn(d, rest, class) = Drawn(d, left, class) \cup {e} /\ e \notin Drawn(d, left, class)
    BY <1>3, <1>5 DEF Drawn
  <1>9. IsFiniteSet(Drawn(d, left, class))
    BY TakenIsNat
  <1>10. TakenOf(d, rest, class) = TakenOf(d, left, class) + 1
    BY <1>8, <1>9, FS_AddElement DEF TakenOf
  <1>11. \A other \in Nat : other # class => Drawn(d, rest, other) = Drawn(d, left, other)
    BY <1>3, <1>5 DEF Drawn
  <1>12. \A other \in Nat : Bucket(d, left, other) = {} => Bucket(d, rest, other) = {}
    BY <1>4 DEF Bucket
  <1>13. TakesOne(d, left, class, rest)
    BY <1>4, <1>7, <1>10, <1>11, <1>12 DEF TakesOne, TakenOf
  <1> QED BY <1>13 DEF rest, e, Q

\* A draw keeps the shares fair: the same pass goes on, or the next begins.
LEMMA DrawIsFair ==
  ASSUME NEW d \in AnyInput, NEW left, left \subseteq Drawable(d), left # {}, NEW next \in Nat,
         NEW r \in Nat, Fair(d, left, next, r)
  PROVE  LET class == NextClass(d, left, next)
             rest  == left \ {First(d, Bucket(d, left, class))}
         IN \E q \in Nat : Fair(d, rest, class + 1, q)
  <1> DEFINE n == NextClass(d, left, next)
             rest == left \ {First(d, Bucket(d, left, n))}
  <1>1. /\ n \in Nat /\ Bucket(d, left, n) # {}
        /\ \/ /\ next <= n
              /\ \A class \in Nat : next <= class /\ class < n => Bucket(d, left, class) = {}
           \/ /\ \A class \in Nat : next <= class => Bucket(d, left, class) = {}
              /\ \A class \in Nat : class < n => Bucket(d, left, class) = {}
    BY NextIsNext
  <1> HIDE DEF n
  <1>0. TakesOne(d, left, n, rest)
    BY <1>1, DrawTakesOne
  <1> HIDE DEF rest
  <1>2. /\ TakenOf(d, rest, n) = TakenOf(d, left, n) + 1
        /\ \A other \in Nat : other # n => TakenOf(d, rest, other) = TakenOf(d, left, other)
        /\ \A other \in Nat : Bucket(d, left, other) = {} => Bucket(d, rest, other) = {}
    BY <1>0 DEF TakesOne
  <1>3. \A class \in Nat : TakenOf(d, left, class) \in Nat /\ TakenOf(d, rest, class) \in Nat
    BY TakenIsNat
  <1>4. /\ \A class \in Nat : TakenOf(d, left, class) <= Share(r, next, class)
        /\ \A class \in Nat : Bucket(d, left, class) # {} => TakenOf(d, left, class) = Share(r, next, class)
    BY DEF Fair
  <1>5. CASE /\ next <= n
             /\ \A class \in Nat : next <= class /\ class < n => Bucket(d, left, class) = {}
    <2>1. ASSUME NEW class \in Nat
          PROVE  /\ TakenOf(d, rest, class) <= Share(r, n + 1, class)
                 /\ Bucket(d, rest, class) # {} => TakenOf(d, rest, class) = Share(r, n + 1, class)
      <3>1. CASE class = n
        <4>1. TakenOf(d, left, n) = r - 1
          BY <1>1, <1>4, <1>5 DEF Share
        <4>2. TakenOf(d, rest, class) = r
          BY <1>2, <3>1, <4>1
        <4>3. class < n + 1
          BY <1>1, <3>1
        <4> QED BY <4>2, <4>3 DEF Share
      <3>2. CASE class < next
        <4>1. class < n + 1 /\ class # n
          BY <1>1, <1>5, <3>2
        <4> QED BY <1>2, <1>4, <3>2, <4>1 DEF Share
      <3>3. CASE next <= class /\ class < n
        <4>1. class < n + 1 /\ class # n /\ ~ (class < next)
          BY <1>1, <1>5, <3>3
        <4>2. Bucket(d, left, class) = {} /\ Bucket(d, rest, class) = {}
          BY <1>2, <1>5, <3>3
        <4>3. TakenOf(d, rest, class) <= r - 1
          BY <1>2, <1>4, <4>1 DEF Share
        <4> QED BY <1>3, <4>1, <4>2, <4>3 DEF Share
      <3>4. CASE n < class
        <4>1. ~ (class < n + 1) /\ class # n /\ ~ (class < next)
          BY <1>1, <1>5, <3>4
        <4> QED BY <1>2, <1>4, <4>1 DEF Share
      <3>5. class = n \/ class < next \/ (next <= class /\ class < n) \/ n < class
        BY <1>1
      <3> QED BY <3>1, <3>2, <3>3, <3>4, <3>5
    <2>2. Fair(d, rest, n + 1, r)
      BY <2>1 DEF Fair
    <2> QED BY <2>2 DEF rest, n
  <1>6. CASE /\ \A class \in Nat : next <= class => Bucket(d, left, class) = {}
             /\ \A class \in Nat : class < n => Bucket(d, left, class) = {}
    <2> DEFINE q == r + 1
    <2>0. n < next
      BY <1>1, <1>6
    <2>1. ASSUME NEW class \in Nat
          PROVE  /\ TakenOf(d, rest, class) <= Share(q, n + 1, class)
                 /\ Bucket(d, rest, class) # {} => TakenOf(d, rest, class) = Share(q, n + 1, class)
      <3>1. CASE class = n
        <4>1. TakenOf(d, left, n) = r
          BY <1>1, <1>4, <2>0 DEF Share
        <4>2. TakenOf(d, rest, class) = q
          BY <1>2, <3>1, <4>1
        <4>3. class < n + 1
          BY <1>1, <3>1
        <4> QED BY <4>2, <4>3 DEF Share
      <3>2. CASE class < n
        <4>1. class < n + 1 /\ class # n /\ class < next
          BY <1>1, <2>0, <3>2
        <4>2. Bucket(d, left, class) = {} /\ Bucket(d, rest, class) = {}
          BY <1>2, <1>6, <3>2
        <4>3. TakenOf(d, rest, class) <= r
          BY <1>2, <1>4, <4>1 DEF Share
        <4> QED BY <1>3, <4>1, <4>2, <4>3 DEF Share
      <3>3. CASE n < class
        <4>1. ~ (class < n + 1) /\ class # n
          BY <1>1, <3>3
        <4>2. Share(q, n + 1, class) = r
          BY <4>1 DEF Share
        <4>3. TakenOf(d, rest, class) <= r
          BY <1>2, <1>3, <1>4, <4>1 DEF Share
        <4>4. Bucket(d, rest, class) # {} => TakenOf(d, rest, class) = r
          <5>1. Bucket(d, rest, class) # {} => Bucket(d, left, class) # {} /\ class < next
            BY <1>2, <1>6
          <5> QED BY <1>2, <1>4, <4>1, <5>1 DEF Share
        <4> QED BY <4>2, <4>3, <4>4
      <3>4. class = n \/ class < n \/ n < class
        BY <1>1
      <3> QED BY <3>1, <3>2, <3>3, <3>4
    <2>2. q \in Nat /\ Fair(d, rest, n + 1, q)
      BY <2>1 DEF Fair
    <2> QED BY <2>2 DEF rest, n
  <1> QED BY <1>1, <1>5, <1>6

\* So it is after every draw.
LEMMA DrawsAreFair ==
  ASSUME NEW d \in AnyInput
  PROVE  DrawnTo(d, d.limit, Draws(d)[d.limit])
  <1> DEFINE N == d.limit
             D == Draws(d)
             G == {t \in 0..N : DrawnTo(d, t, D[t])}
  <1>1. N \in Nat
    BY ListingFacts
  <1>2. D[0] = [left |-> Drawable(d), next |-> 0] /\ \A t \in 1..N : D[t] = Draw(d, D[t - 1])
    BY DrawsLoop DEF Drawable
  <1> HIDE DEF N, D
  <1>3. 0 \in G
    <2>1. /\ D[0] = [left |-> D[0].left, next |-> D[0].next]
          /\ D[0].left = Drawable(d) /\ D[0].next = 0
      BY <1>2
    <2>2. Drawable(d) \ D[0].left = {} /\ Cardinality({}) = 0
      BY <2>1, FS_EmptySet
    <2>3. Fair(d, D[0].left, D[0].next, 1)
      <3>1. \A class : Drawn(d, D[0].left, class) = {}
        BY <2>2 DEF Drawn
      <3>2. \A class : TakenOf(d, D[0].left, class) = 0
        BY <2>2, <3>1 DEF TakenOf
      <3>3. \A class \in Nat : Share(1, 0, class) = 0
        BY DEF Share
      <3> QED BY <2>1, <3>2, <3>3 DEF Fair
    <2>4. DrawnTo(d, 0, D[0])
      BY <2>1, <2>2, <2>3 DEF DrawnTo
    <2> QED BY <1>1, <2>4
  <1>4. ASSUME NEW t \in 1..N, t - 1 \in G PROVE t \in G
    <2> DEFINE s == D[t - 1]
               z == D[t]
    <2>1. DrawnTo(d, t - 1, s) /\ t \in Nat /\ t - 1 \in Nat
      BY <1>1, <1>4
    <2>2. z = Draw(d, s)
      BY <1>2
    <2> HIDE DEF s, z
    <2>3. /\ s.left \subseteq Drawable(d) /\ s.next \in Nat
          /\ s = [left |-> s.left, next |-> s.next]
          /\ Cardinality(Drawable(d) \ s.left) <= t - 1
          /\ s.left # {} => Cardinality(Drawable(d) \ s.left) = t - 1
      BY <2>1 DEF DrawnTo
    <2>4. PICK r \in Nat : Fair(d, s.left, s.next, r)
      BY <2>1 DEF DrawnTo
    <2>5. CASE s.left = {}
      <3>1. z = s
        BY <2>2, <2>5 DEF Draw
      <3>2. Cardinality(Drawable(d) \ s.left) \in Nat
        BY TakenIsNat
      <3>3. Cardinality(Drawable(d) \ z.left) <= t
        BY <2>1, <2>3, <3>1, <3>2
      <3>4. DrawnTo(d, t, z)
        BY <2>3, <2>4, <2>5, <3>1, <3>3 DEF DrawnTo
      <3> QED BY <3>4 DEF z
    <2>6. CASE s.left # {}
      <3> DEFINE n == NextClass(d, s.left, s.next)
                 rest == s.left \ {First(d, Bucket(d, s.left, n))}
      <3>1. z = [left |-> rest, next |-> n + 1]
        BY <2>2, <2>6 DEF Draw
      <3>2. n \in Nat /\ Bucket(d, s.left, n) # {}
        BY <2>3, <2>6, NextIsNext
      <3>3. \E q \in Nat : Fair(d, rest, n + 1, q)
        BY <2>3, <2>4, <2>6, DrawIsFair
      <3> HIDE DEF n
      <3>0. TakesOne(d, s.left, n, rest)
        BY <2>3, <3>2, DrawTakesOne
      <3> HIDE DEF rest
      <3>4. /\ rest \subseteq Drawable(d)
            /\ Cardinality(Drawable(d) \ rest) = Cardinality(Drawable(d) \ s.left) + 1
        BY <3>0 DEF TakesOne
      <3>5. Cardinality(Drawable(d) \ rest) = t
        BY <2>1, <2>3, <2>6, <3>4
      <3>6. z.left = rest /\ z.next = n + 1 /\ z = [left |-> z.left, next |-> z.next]
        BY <3>1
      <3>7. n + 1 \in Nat
        BY <3>2
      <3>8. DrawnTo(d, t, z)
        BY <2>1, <3>3, <3>4, <3>5, <3>6, <3>7 DEF DrawnTo
      <3> QED BY <3>8 DEF z
    <2> QED BY <2>5, <2>6
  <1>5. \A t \in 0..N : t \in G
    <2> HIDE DEF G
    <2> QED BY <1>1, <1>3, <1>4, UpTo
  <1>6. N \in G
    BY <1>1, <1>5
  <1> QED BY <1>6 DEF N, D

\* Whatever the listing and the limit, no voluminous class starves the rest
\* (select_artifacts).
THEOREM SharesAreFair == disk \in AnyInput => ClassesShareFairly
  <1> SUFFICES ASSUME disk \in AnyInput PROVE ClassesShareFairly
    OBVIOUS
  <1> DEFINE d == disk
             S == Selected(d)
             s == Draws(d)[d.limit]
             left == s.left
  <1>1. DrawnTo(d, d.limit, s)
    BY DrawsAreFair
  <1>2. S = Drawable(d) \ left
    BY DEF Selected, Drawable
  <1>3. /\ left \subseteq Drawable(d) /\ s.next \in Nat
        /\ Cardinality(S) <= d.limit
        /\ left # {} => Cardinality(S) = d.limit
    BY <1>1, <1>2 DEF DrawnTo
  <1>4. PICK r \in Nat : Fair(d, left, s.next, r)
    BY <1>1 DEF DrawnTo
  <1>5. \A class : Taken(d, class) = TakenOf(d, left, class)
    BY <1>2 DEF Taken, TakenOf, Drawn
  <1>6. \A class : LeftOver(d, class) = Bucket(d, left, class)
    BY <1>2, <1>3 DEF LeftOver, Bucket, Drawable
  <1>7. \A class \in {Class(d, e) : e \in Entry(d)} : class \in Nat
    BY ListingFacts
  <1> HIDE DEF left, s, S
  <1>8. ASSUME NEW c \in Nat, LeftOver(d, c) # {}, NEW b \in Nat
        PROVE  Taken(d, b) <= Taken(d, c) + (IF b < c THEN 1 ELSE 0)
    <2>1. Taken(d, c) = Share(r, s.next, c) /\ Taken(d, b) <= Share(r, s.next, b)
      BY <1>4, <1>5, <1>6, <1>8 DEF Fair
    <2>2. Taken(d, c) \in Nat /\ Taken(d, b) \in Nat
      BY <1>5, TakenIsNat
    <2> DEFINE next == s.next
    <2>3. next \in Nat
      BY <1>3
    <2> HIDE DEF next
    <2>4. CASE b < c
      BY <2>1, <2>2, <2>3, <2>4 DEF Share, next
    <2>5. CASE ~ (b < c)
      BY <2>1, <2>2, <2>3, <2>5 DEF Share, next
    <2> QED BY <2>4, <2>5
  <1>9. \A c \in Nat : LeftOver(d, c) # {} => Cardinality(S) = d.limit
    BY <1>3, <1>6 DEF Bucket
  <1> HIDE DEF d
  <1>10. ClassesShareFairly
    BY <1>3, <1>7, <1>8, <1>9 DEF ClassesShareFairly, S, d
  <1> QED BY <1>10

-----------------------------------------------------------------------------
(* The packet.                                                              *)

AllClasses == PresenceClasses \cup EgressClasses \cup WeakClasses \cup {"velociraptor"}

\* Findings of any tier and claim on any classes, and runs that lost any steps
\* or ended anywhere.
AnyFinding ==
  {f \in [action : {"approved", "downgraded"}, matched : BOOLEAN,
          tier : {"CONFIRMED", "INFERRED", "HYPOTHESIS"}, claims : SUBSET Claims,
          classes : SUBSET AllClasses,
          place : {"extracted", "repo_home", "repo", "other_home", "other"}] :
     f.action = "approved" => f.matched}

AnyRun ==
  {r \in [finding : AnyFinding \cup {NoFinding}, notes : Notes, signer : Signers,
          reached : 0..Len(Steps), lost : SUBSET (AllSteps \ {"manifest"})] :
     r.lost \subseteq ComesTo(r)}

\* What is known of a run.
LEMMA RunFields ==
  ASSUME NEW r \in AnyRun
  PROVE  /\ r.finding \in AnyFinding \cup {NoFinding}
         /\ r.reached \in 0..13 /\ r.lost \subseteq AllSteps \ {"manifest"}
         /\ r.lost \subseteq ComesTo(r)
  <1>1. Len(Steps) = 13
    BY DEF Steps
  <1> QED BY <1>1 DEF AnyRun

\* What is known of a finding.
LEMMA FindingFields ==
  ASSUME NEW f \in AnyFinding
  PROVE  /\ f.action \in {"approved", "downgraded"} /\ f.matched \in BOOLEAN
         /\ f.tier \in {"CONFIRMED", "INFERRED", "HYPOTHESIS"}
         /\ f.claims \subseteq Claims /\ f.classes \subseteq AllClasses
         /\ f.place \in {"extracted", "repo_home", "repo", "other_home", "other"}
         /\ f.action = "approved" => f.matched
  BY DEF AnyFinding

\* The steps by name, the manifest last.
LEMMA StepNames ==
  /\ Len(Steps) = 13
  /\ Steps[13] = "manifest"
  /\ \A i \in 1..12 : Steps[i] # "manifest"
  /\ AllSteps = {"tool_call_start", "tool_call_output", "verifier_action", "replay",
                 "acp_handoff", "report_qa", "customer_release_gate", "finding_approved",
                 "verdict.json", "verdict_artifact", "expert_signoff_packet",
                 "verdict_packet", "manifest"}
  <1>1. Len(Steps) = 13
    BY DEF Steps
  <1>2. /\ Steps[1] = "tool_call_start" /\ Steps[2] = "tool_call_output" /\ Steps[3] = "verifier_action"
        /\ Steps[4] = "replay" /\ Steps[5] = "acp_handoff" /\ Steps[6] = "report_qa"
        /\ Steps[7] = "customer_release_gate" /\ Steps[8] = "finding_approved"
        /\ Steps[9] = "verdict.json" /\ Steps[10] = "verdict_artifact"
        /\ Steps[11] = "expert_signoff_packet" /\ Steps[12] = "verdict_packet"
        /\ Steps[13] = "manifest"
    BY DEF Steps
  <1>3. \A i \in 1..13 : i \in {1, 2, 3, 4, 5, 6, 7, 8, 9, 10, 11, 12, 13}
    OBVIOUS
  <1>4. \A i \in {1, 2, 3, 4, 5, 6, 7, 8, 9, 10, 11, 12, 13} : i \in 1..13
    OBVIOUS
  <1>5. \A i \in 1..12 : i \in {1, 2, 3, 4, 5, 6, 7, 8, 9, 10, 11, 12}
    OBVIOUS
  <1>6. AllSteps = {Steps[i] : i \in {1, 2, 3, 4, 5, 6, 7, 8, 9, 10, 11, 12, 13}}
    BY <1>1, <1>3, <1>4 DEF AllSteps
  <1>7. \A i \in 1..12 : Steps[i] # "manifest"
    BY <1>2, <1>5
  <1>8. AllSteps = {"tool_call_start", "tool_call_output", "verifier_action", "replay",
                    "acp_handoff", "report_qa", "customer_release_gate", "finding_approved",
                    "verdict.json", "verdict_artifact", "expert_signoff_packet",
                    "verdict_packet", "manifest"}
    BY <1>2, <1>6
  <1> QED BY <1>1, <1>2, <1>7, <1>8

\* A run comes to the manifest last, and to every step before.
LEMMA StepsOfRun ==
  ASSUME NEW r \in AnyRun
  PROVE  /\ Done(r) \subseteq ComesTo(r) /\ ComesTo(r) \subseteq AllSteps
         /\ "manifest" \in ComesTo(r) => r.reached = Len(Steps)
         /\ r.reached = Len(Steps) => ComesTo(r) = AllSteps
         /\ FaultsOf(r) \subseteq AllSteps \cup {"end"}
  <1>1. r.reached \in 0..13 /\ r.lost \subseteq AllSteps \ {"manifest"} /\ Len(Steps) = 13
    BY RunFields, StepNames
  <1>2. ComesTo(r) \subseteq AllSteps /\ (r.reached = Len(Steps) => ComesTo(r) = AllSteps)
    BY <1>1 DEF ComesTo, AllSteps
  <1>3. "manifest" \in ComesTo(r) => r.reached = Len(Steps)
    <2> SUFFICES ASSUME "manifest" \in ComesTo(r) PROVE r.reached = 13
      BY <1>1
    <2>1. PICK i \in 1..r.reached : Steps[i] = "manifest"
      BY DEF ComesTo
    <2>2. i \notin 1..12
      BY <2>1, StepNames
    <2> QED BY <1>1, <2>2
  <1>4. FaultsOf(r) \subseteq AllSteps \cup {"end"}
    BY <1>1 DEF FaultsOf
  <1> QED BY <1>2, <1>3, <1>4 DEF Done

\* A run that nothing disturbed has done all there was to do.
LEMMA UndisturbedRunIsWhole ==
  ASSUME NEW r \in AnyRun, FaultsOf(r) = {}
  PROVE  Done(r) = {s \in AllSteps : r.finding = NoFinding => s \notin AboutTheFinding}
  <1>1. r.reached = Len(Steps) /\ r.lost = {}
    BY DEF FaultsOf
  <1>2. ComesTo(r) = AllSteps
    BY <1>1, StepsOfRun
  <1> QED BY <1>1, <1>2 DEF Done

\* The faults of a history are told apart by run and step.
LEMMA FaultsAreCounted ==
  ASSUME NEW h \in Seq(AnyRun)
  PROVE  /\ Faults(h) = 0 => \A i \in DOMAIN h : FaultsOf(h[i]) = {}
         /\ Faults(h) <= 1 => \A i, j \in DOMAIN h : \A s \in FaultsOf(h[i]) : \A t \in FaultsOf(h[j]) :
                                i = j /\ s = t
  <1> DEFINE D == DOMAIN h
             Names == AllSteps \cup {"end"}
             F == {f \in D \X Names : f[2] \in FaultsOf(h[f[1]])}
  <1>1. IsFiniteSet(D)
    <2>1. D = 1..Len(h) /\ Len(h) \in Nat
      OBVIOUS
    <2> QED BY <2>1, CountUpTo
  <1>2. IsFiniteSet(Names)
    <2>1. IsFiniteSet(1..13)
      BY CountUpTo
    <2>2. AllSteps = {Steps[i] : i \in 1..13}
      BY StepNames DEF AllSteps
    <2> DEFINE st == [i \in 1..13 |-> Steps[i]]
    <2>3. st \in Surjection(1..13, AllSteps)
      BY <2>2 DEF Surjection
    <2> HIDE DEF st
    <2>4. IsFiniteSet(AllSteps)
      BY <2>1, <2>3, FS_Surjection
    <2> QED BY <2>4, FS_AddElement
  <1>3. Faults(h) = Cardinality(F)
    BY DEF Faults
  <1>4. \A i \in D : \A s \in FaultsOf(h[i]) : <<i, s>> \in F
    <2>1. \A i \in D : h[i] \in AnyRun
      OBVIOUS
    <2>2. \A i \in D : FaultsOf(h[i]) \subseteq Names
      BY <2>1, StepsOfRun
    <2> QED BY <2>2
  <1>5. F \subseteq D \X Names
    OBVIOUS
  <1> HIDE DEF D, Names, F
  <1>6. IsFiniteSet(F)
    BY <1>1, <1>2, <1>5, FS_Product, FS_Subset
  <1>7. Faults(h) = 0 => \A i \in D : FaultsOf(h[i]) = {}
    <2>1. Cardinality(F) = 0 => F = {}
      BY <1>6, FS_EmptySet
    <2> QED BY <1>3, <1>4, <2>1
  <1>8. ASSUME Faults(h) <= 1, NEW p \in F, NEW q \in F PROVE p = q
    <2>1. CASE p # q
      <3> DEFINE P == {p}
                 Q == P \cup {q}
      <3>1. IsFiniteSet(P) /\ Cardinality(P) = 1 /\ q \notin P /\ Q \subseteq F
        BY <2>1, FS_Singleton
      <3>2. Q = P \cup {q}
        OBVIOUS
      <3> HIDE DEF P, Q
      <3>3. Cardinality(Q) = 2
        <4>1. Cardinality(P \cup {q}) = Cardinality(P) + 1
          BY <3>1, FS_AddElement
        <4>2. Cardinality(Q) = 1 + 1
          BY <3>1, <3>2, <4>1
        <4> QED BY <4>2
      <3>4. Cardinality(Q) <= Cardinality(F)
        BY <1>6, <3>1, FS_Subset
      <3>5. Cardinality(F) \in Nat
        BY <1>6, FS_CardinalityType
      <3> QED BY <1>3, <1>8, <3>3, <3>4, <3>5
    <2> QED BY <2>1
  <1>9. Faults(h) <= 1 => \A i, j \in D : \A s \in FaultsOf(h[i]) : \A t \in FaultsOf(h[j]) : i = j /\ s = t
    <2> SUFFICES ASSUME Faults(h) <= 1, NEW i \in D, NEW j \in D,
                        NEW s \in FaultsOf(h[i]), NEW t \in FaultsOf(h[j])
                 PROVE  i = j /\ s = t
      OBVIOUS
    <2>1. <<i, s>> = <<j, t>>
      BY <1>4, <1>8
    <2> QED BY <2>1
  <1> QED BY <1>7, <1>9 DEF D

\* What an accepted packet says of its runs.
LEMMA AcceptedFacts ==
  ASSUME NEW h \in Seq(AnyRun), Accepted(h)
  PROVE  /\ VerdictOf(h) \in DOMAIN h /\ ManifestOf(h) \in DOMAIN h
         /\ "verdict.json" \in Done(h[VerdictOf(h)]) /\ "manifest" \in Done(h[ManifestOf(h)])
         /\ h[ManifestOf(h)].signer = "ed25519"
         /\ \A i \in RunsThat(h, "verdict.json") : i <= VerdictOf(h)
         /\ RunsThat(h, "verdict_artifact") = {VerdictOf(h)}
         /\ \A i \in DOMAIN h : i > ManifestOf(h) => Done(h[i]) \subseteq {"verdict.json"}
         /\ \A kind \in RequiredKinds : RunsThat(h, kind) # {}
  <1> DEFINE V == {0} \cup RunsThat(h, "verdict.json")
             M == {0} \cup {i \in DOMAIN h : Seals(h, i)}
             n == Len(h)
  <1>1. n \in Nat /\ DOMAIN h = 1..n
    OBVIOUS
  <1>2. V \subseteq 0..n /\ M \subseteq 0..n /\ V # {} /\ M # {}
    BY <1>1 DEF RunsThat
  <1>3. VerdictOf(h) = Max(V) /\ ManifestOf(h) = Max(M)
    BY DEF VerdictOf, ManifestOf
  <1>4. VerdictOf(h) # 0 /\ ManifestOf(h) # 0 /\ h[ManifestOf(h)].signer = "ed25519"
        /\ \A i \in DOMAIN h : i > ManifestOf(h) => Done(h[i]) \subseteq {"verdict.json"}
    BY DEF Accepted, ManifestHolds
  <1>5. RunsThat(h, "verdict_artifact") = {VerdictOf(h)} /\ \A kind \in RequiredKinds : RunsThat(h, kind) # {}
    BY DEF Accepted, ArtifactMatches
  <1>6. Max(V) \in V /\ Max(M) \in M /\ \A i \in V : i <= Max(V)
    <2> HIDE DEF V, M, n
    <2> QED BY <1>1, <1>2, HasGreatest
  <1>7. VerdictOf(h) \in RunsThat(h, "verdict.json") /\ ManifestOf(h) \in DOMAIN h /\ Seals(h, ManifestOf(h))
    BY <1>3, <1>4, <1>6
  <1>8. ManifestOf(h) \in RunsThat(h, "manifest")
    BY <1>7 DEF Seals
  <1>9. \A i \in RunsThat(h, "verdict.json") : i <= VerdictOf(h)
    BY <1>3, <1>6
  <1> QED BY <1>4, <1>5, <1>7, <1>8, <1>9 DEF RunsThat

\* Of runs with one fault at most, the check accepts what the last one left.
LEMMA LastRunIsAccepted ==
  ASSUME NEW h \in Seq(AnyRun), Accepted(h), Faults(h) <= 1
  PROVE  /\ \A i \in DOMAIN h : Done(h[i]) # {} => i <= VerdictOf(h)
         /\ \/ \A i \in DOMAIN h : i = VerdictOf(h)
            \/ FaultsOf(h[VerdictOf(h)]) = {}
  <1> DEFINE v == VerdictOf(h)
  <1>1. /\ v \in DOMAIN h /\ ManifestOf(h) \in DOMAIN h
        /\ "verdict.json" \in Done(h[v]) /\ "manifest" \in Done(h[ManifestOf(h)])
        /\ \A i \in RunsThat(h, "verdict.json") : i <= v
        /\ RunsThat(h, "verdict_artifact") = {v}
        /\ \A i \in DOMAIN h : i > ManifestOf(h) => Done(h[i]) \subseteq {"verdict.json"}
    BY AcceptedFacts
  <1> HIDE DEF v
  <1>2. \A i \in DOMAIN h : h[i] \in AnyRun /\ i \in Nat
    OBVIOUS
  <1>3. \A i, j \in DOMAIN h : \A s \in FaultsOf(h[i]) : \A t \in FaultsOf(h[j]) : i = j /\ s = t
    BY FaultsAreCounted
  <1>4. \A i \in DOMAIN h : i # v => "verdict_artifact" \notin Done(h[i])
    BY <1>1 DEF RunsThat
  <1>5. ASSUME NEW i \in DOMAIN h, i # v PROVE FaultsOf(h[i]) # {}
    <2> SUFFICES ASSUME FaultsOf(h[i]) = {} PROVE FALSE
      OBVIOUS
    <2>1. "verdict_artifact" \in Done(h[i])
      BY <1>2, UndisturbedRunIsWhole, StepNames DEF AboutTheFinding
    <2> QED BY <1>4, <1>5, <2>1
  <1>6. (\A i \in DOMAIN h : i = v) \/ FaultsOf(h[v]) = {}
    <2> SUFFICES ASSUME NEW i \in DOMAIN h, i # v, FaultsOf(h[v]) # {} PROVE FALSE
      OBVIOUS
    <2> QED BY <1>1, <1>3, <1>5
  <1>7. ASSUME NEW i \in DOMAIN h, Done(h[i]) # {}, ~ (i <= v) PROVE FALSE
    <2> DEFINE m == ManifestOf(h)
    <2>1. "verdict.json" \notin Done(h[i])
      BY <1>1, <1>7 DEF RunsThat
    <2>2. i # v /\ v \in Nat /\ i \in Nat
      BY <1>1, <1>2, <1>7
    <2>3. ~ (i > m)
      <3>1. i > m => Done(h[i]) \subseteq {"verdict.json"}
        BY <1>1
      <3> QED BY <1>7, <2>1, <3>1
    <2>4. m = i
      <3> SUFFICES ASSUME m # i PROVE FALSE
        OBVIOUS
      <3>1. m \in DOMAIN h /\ m \in Nat /\ i < m
        BY <1>1, <1>2, <2>2, <2>3
      <3>2. m # v
        BY <1>7, <2>2, <3>1
      <3>3. FaultsOf(h[m]) # {} /\ FaultsOf(h[i]) # {}
        BY <1>5, <2>2, <3>1, <3>2
      <3> QED BY <1>3, <3>1, <3>3
    <2>5. h[i].reached = Len(Steps) /\ ComesTo(h[i]) = AllSteps
      <3>1. h[i] \in AnyRun /\ "manifest" \in Done(h[i])
        BY <1>1, <1>2, <2>4
      <3> QED BY <3>1, StepsOfRun
    <2>6. "verdict.json" \in FaultsOf(h[i])
      <3>1. "verdict.json" \in h[i].lost
        BY <2>1, <2>5, StepNames DEF Done, AboutTheFinding
      <3> QED BY <3>1 DEF FaultsOf
    <2>7. "verdict_artifact" \in FaultsOf(h[i])
      <3>1. "verdict_artifact" \in h[i].lost
        BY <1>4, <2>2, <2>5, StepNames DEF Done, AboutTheFinding
      <3> QED BY <3>1 DEF FaultsOf
    <2> QED BY <1>3, <2>6, <2>7
  <1> QED BY <1>6, <1>7 DEF v

\* The check asks for a record of each kind a finding needs.
LEMMA EvidenceIsThere ==
  ASSUME NEW h \in Seq(AnyRun), Accepted(h), h[VerdictOf(h)].finding # NoFinding
  PROVE  \A kind \in AboutTheFinding \cup {"tool_call_start", "tool_call_output"} : RunsThat(h, kind) # {}
  <1> DEFINE f == h[VerdictOf(h)].finding
  <1>1. FindingIsBorneOut(h, f)
    BY DEF Accepted
  <1>2. /\ RunsThat(h, "tool_call_start") # {} /\ RunsThat(h, "tool_call_output") # {}
        /\ RunsThat(h, "finding_approved") # {}
        /\ EvidenceOf(h, "verifier_action") # {} /\ EvidenceOf(h, "acp_handoff") # {} /\ EvidenceOf(h, "replay") # {}
    BY <1>1 DEF FindingIsBorneOut
  <1>3. \A kind : EvidenceOf(h, kind) # {} => RunsThat(h, kind) # {}
    BY DEF EvidenceOf
  <1> QED BY <1>2, <1>3 DEF AboutTheFinding

\* No single lost append, lost write of verdict.json or early end passes,
\* however many runs a case directory has seen (validate_readiness_summary).
THEOREM FaultsAreCaught == history \in Seq(AnyRun) => OneFaultIsCaught
  <1> DEFINE h == history
             L == {i \in DOMAIN h : Done(h[i]) # {}}
             v == VerdictOf(h)
  <1> SUFFICES ASSUME h \in Seq(AnyRun), Faults(h) <= 1, Accepted(h)
               PROVE  /\ v = Max(L)
                      /\ RequiredKinds \subseteq Done(h[Max(L)])
                      /\ h[Max(L)].finding # NoFinding =>
                           AboutTheFinding \cup {"tool_call_start", "tool_call_output"} \subseteq Done(h[Max(L)])
    BY DEF OneFaultIsCaught
  <1> HIDE DEF h
  <1>1. /\ v \in DOMAIN h /\ "verdict.json" \in Done(h[v])
        /\ \A kind \in RequiredKinds : RunsThat(h, kind) # {}
    BY AcceptedFacts
  <1>2. /\ \A i \in DOMAIN h : Done(h[i]) # {} => i <= v
        /\ (\A i \in DOMAIN h : i = v) \/ FaultsOf(h[v]) = {}
    BY LastRunIsAccepted
  <1>3. \A i \in DOMAIN h : h[i] \in AnyRun /\ i \in 1..Len(h)
    OBVIOUS
  <1>4. h[v].finding # NoFinding =>
          \A kind \in AboutTheFinding \cup {"tool_call_start", "tool_call_output"} : RunsThat(h, kind) # {}
    BY EvidenceIsThere
  <1> HIDE DEF v
  <1>5. v = Max(L)
    <2>1. v \in L /\ \A i \in L : i <= v
      BY <1>1, <1>2
    <2> DEFINE n == Len(h)
    <2>2. n \in Nat /\ L \subseteq 1..n
      OBVIOUS
    <2> HIDE DEF n
    <2>3. n \in Nat /\ L \subseteq 0..n /\ L # {}
      <3>1. \A i \in 1..n : i \in 0..n
        BY <2>2
      <3> QED BY <2>1, <2>2, <3>1
    <2> HIDE DEF L, n
    <2>4. Max(L) \in L /\ \A i \in L : i <= Max(L)
      BY <2>3, HasGreatest
    <2>5. v <= Max(L) /\ Max(L) <= v /\ v \in 0..n /\ Max(L) \in 0..n
      BY <2>1, <2>3, <2>4
    <2> QED BY <2>5
  <1>6. RequiredKinds \subseteq Done(h[v])
    <2>1. CASE \A i \in DOMAIN h : i = v
      BY <1>1, <2>1 DEF RunsThat
    <2>2. CASE FaultsOf(h[v]) = {}
      BY <1>1, <1>3, <2>2, UndisturbedRunIsWhole, StepNames DEF RequiredKinds, AboutTheFinding
    <2> QED BY <1>2, <2>1, <2>2
  <1>7. h[v].finding # NoFinding =>
          AboutTheFinding \cup {"tool_call_start", "tool_call_output"} \subseteq Done(h[v])
    <2>1. CASE \A i \in DOMAIN h : i = v
      BY <1>4, <2>1 DEF RunsThat
    <2>2. CASE FaultsOf(h[v]) = {}
      BY <1>1, <1>3, <2>2, UndisturbedRunIsWhole, StepNames DEF AboutTheFinding
    <2> QED BY <1>2, <2>1, <2>2
  <1> QED BY <1>5, <1>6, <1>7

\* Two prongs are two artifact classes.
LEMMA ProngsAreTwo ==
  ASSUME NEW classes, IsFiniteSet(classes), TwoProngsMet(classes)
  PROVE  Cardinality(classes) >= 2
  <1>1. PICK p \in classes \cap PresenceClasses : TRUE
    BY DEF TwoProngsMet
  <1>2. PICK q \in classes \cap (EgressClasses \cup {"velociraptor"}) : TRUE
    BY DEF TwoProngsMet
  <1>3. p # q
    BY DEF PresenceClasses, EgressClasses
  <1> DEFINE P == {p}
             Q == P \cup {q}
  <1>4. IsFiniteSet(P) /\ Cardinality(P) = 1 /\ q \notin P /\ Q \subseteq classes
    BY <1>3, FS_Singleton
  <1>5. Q = P \cup {q}
    OBVIOUS
  <1> HIDE DEF P, Q
  <1>6. Cardinality(P \cup {q}) = Cardinality(P) + 1
    BY <1>4, FS_AddElement
  <1>7. Cardinality(Q) = 1 + 1
    BY <1>4, <1>5, <1>6
  <1>8. Cardinality(Q) <= Cardinality(classes) /\ Cardinality(classes) \in Nat
    BY <1>4, FS_Subset, FS_CardinalityType
  <1> QED BY <1>7, <1>8

\* The classes of artifacts are finitely many.
LEMMA ClassesAreFinite == IsFiniteSet(AllClasses)
  <1> DEFINE A == {"disk/filesystem", "mft", "prefetch", "registry", "usnjrnl", "yara"}
  <1>1. IsFiniteSet({"disk/filesystem"})
    BY FS_Singleton
  <1>2. IsFiniteSet({"disk/filesystem"} \cup {"mft"})
    BY <1>1, FS_AddElement
  <1>3. IsFiniteSet({"disk/filesystem"} \cup {"mft"} \cup {"prefetch"})
    BY <1>2, FS_AddElement
  <1>4. IsFiniteSet({"disk/filesystem"} \cup {"mft"} \cup {"prefetch"} \cup {"registry"})
    BY <1>3, FS_AddElement
  <1>5. IsFiniteSet({"disk/filesystem"} \cup {"mft"} \cup {"prefetch"} \cup {"registry"} \cup {"usnjrnl"})
    BY <1>4, FS_AddElement
  <1>6. IsFiniteSet({"disk/filesystem"} \cup {"mft"} \cup {"prefetch"} \cup {"registry"} \cup {"usnjrnl"} \cup {"yara"})
    BY <1>5, FS_AddElement
  <1>7. IsFiniteSet(PresenceClasses)
    <2>1. PresenceClasses = {"disk/filesystem"} \cup {"mft"} \cup {"prefetch"} \cup {"registry"} \cup {"usnjrnl"} \cup {"yara"}
      BY DEF PresenceClasses
    <2> QED BY <1>6, <2>1
  <1>8. IsFiniteSet(EgressClasses) /\ IsFiniteSet({"velociraptor"})
    BY FS_Singleton DEF EgressClasses
  <1>9. IsFiniteSet(WeakClasses)
    <2>1. IsFiniteSet({"memory"})
      BY FS_Singleton
    <2>2. IsFiniteSet({"memory"} \cup {"yara"})
      BY <2>1, FS_AddElement
    <2>3. IsFiniteSet({"memory"} \cup {"yara"} \cup {"evtx"})
      BY <2>2, FS_AddElement
    <2>4. WeakClasses = {"memory"} \cup {"yara"} \cup {"evtx"}
      BY DEF WeakClasses
    <2> QED BY <2>3, <2>4
  <1> QED BY <1>7, <1>8, <1>9, FS_Union DEF AllClasses

\* A packet of one undisturbed run, whose finding is borne out by itself.
LEMMA OwnEvidence ==
  ASSUME NEW h \in Seq(AnyRun), Len(h) = 1, FaultsOf(h[1]) = {}, h[1].finding # NoFinding
  PROVE  FindingIsBorneOut(h, h[1].finding) <=>
           /\ h[1].finding.matched
           /\ h[1].finding.tier = "CONFIRMED" => h[1].finding.action = "approved"
           /\ h[1].finding.place # "repo"
  <1> DEFINE f == h[1].finding
  <1>1. h[1] \in AnyRun /\ DOMAIN h = {1}
    <2>1. \A i \in 1..1 : i = 1
      OBVIOUS
    <2> QED BY <2>1
  <1>2. f \in AnyFinding
    BY <1>1, RunFields
  <1>3. \A kind \in AllSteps : RunsThat(h, kind) = {1}
    BY <1>1, UndisturbedRunIsWhole DEF RunsThat
  <1>4. AboutTheFinding \cup {"tool_call_start", "tool_call_output"} \subseteq AllSteps
    BY StepNames DEF AboutTheFinding
  <1>5. /\ f.action \in {"approved", "downgraded"} /\ f.matched \in BOOLEAN
        /\ f.place \in {"extracted", "repo_home", "repo", "other_home", "other"}
    BY <1>2, FindingFields
  <1>6. /\ RunsThat(h, "tool_call_start") = {1} /\ RunsThat(h, "tool_call_output") = {1}
        /\ RunsThat(h, "finding_approved") = {1} /\ RunsThat(h, "verifier_action") = {1}
        /\ RunsThat(h, "acp_handoff") = {1} /\ RunsThat(h, "replay") = {1}
    BY <1>3, <1>4 DEF AboutTheFinding
  <1> DEFINE e == ReplayRecord(f)
  <1>7. /\ EvidenceOf(h, "verifier_action") = {e} /\ EvidenceOf(h, "acp_handoff") = {e}
        /\ EvidenceOf(h, "replay") = IF f.matched THEN {e} ELSE {}
    BY <1>5, <1>6 DEF EvidenceOf
  <1>8. e.action = f.action
    BY DEF ReplayRecord
  <1>9. ApprovedBody(f) = StoredBody(f) <=> f.place # "repo"
    <2> DEFINE p == FinalPath(f.place)
    <2>1. p \in {"under_case", "base_name", "repo", "other"} /\ (p = "repo" <=> f.place = "repo")
      BY <1>5 DEF FinalPath
    <2> HIDE DEF p
    <2>2. StoredPath(p) = p <=> p # "repo"
      BY <2>1 DEF StoredPath
    <2>3. ApprovedBody(f) = [tier |-> f.tier, path |-> p] /\ StoredBody(f) = [tier |-> f.tier, path |-> StoredPath(p)]
      BY DEF ApprovedBody, StoredBody, p
    <2>4. ApprovedBody(f).path = p /\ StoredBody(f).path = StoredPath(p)
      BY <2>3
    <2>5. ApprovedBody(f) = StoredBody(f) <=> p = StoredPath(p)
      BY <2>3, <2>4
    <2> QED BY <2>1, <2>2, <2>5
  <1> HIDE DEF e
  <1> DEFINE agreed == EvidenceOf(h, "verifier_action") \cap EvidenceOf(h, "acp_handoff") \cap EvidenceOf(h, "replay")
  <1>10. agreed = IF f.matched THEN {e} ELSE {}
    BY <1>7
  <1>11. FindingIsBorneOut(h, f) <=>
           /\ RunsThat(h, "tool_call_start") # {} /\ RunsThat(h, "tool_call_output") # {}
           /\ \E i \in RunsThat(h, "finding_approved") : ApprovedBody(h[i].finding) = StoredBody(f)
           /\ agreed # {}
           /\ f.tier = "CONFIRMED" => \A g \in agreed : g.action # "downgraded"
    BY DEF FindingIsBorneOut
  <1> HIDE DEF agreed
  <1>12. (\E i \in RunsThat(h, "finding_approved") : ApprovedBody(h[i].finding) = StoredBody(f)) <=> f.place # "repo"
    BY <1>6, <1>9
  <1> QED BY <1>5, <1>6, <1>8, <1>10, <1>11, <1>12

\* What one undisturbed run leaves is accepted when its finding is borne out.
LEMMA OneRunIsAccepted ==
  ASSUME NEW h \in Seq(AnyRun), Len(h) = 1, FaultsOf(h[1]) = {}
  PROVE  Accepted(h) <=>
           /\ h[1].signer = "ed25519" /\ Ready(h[1])
           /\ h[1].finding # NoFinding => FindingIsBorneOut(h, h[1].finding)
  <1>1. h[1] \in AnyRun /\ DOMAIN h = {1}
    <2>1. \A i \in 1..1 : i = 1
      OBVIOUS
    <2> QED BY <2>1
  <1>2. \A kind \in AllSteps \ AboutTheFinding : RunsThat(h, kind) = {1}
    BY <1>1, UndisturbedRunIsWhole DEF RunsThat
  <1>3. /\ "verdict.json" \in AllSteps \ AboutTheFinding /\ "manifest" \in AllSteps \ AboutTheFinding
        /\ "verdict_artifact" \in AllSteps \ AboutTheFinding /\ "tool_call_output" \in AllSteps \ AboutTheFinding
        /\ RequiredKinds \subseteq AllSteps \ AboutTheFinding
    BY StepNames DEF AboutTheFinding, RequiredKinds
  <1>4. Max({0, 1}) = 1
    <2>1. {0, 1} \subseteq 0..1 /\ {0, 1} # {} /\ 1 \in Nat
      OBVIOUS
    <2>2. Max({0, 1}) \in {0, 1} /\ 1 <= Max({0, 1})
      BY <2>1, HasGreatest
    <2> QED BY <2>2
  <1>5. {0} \cup {1} = {0, 1}
    OBVIOUS
  <1>6. VerdictOf(h) = 1
    <2>1. RunsThat(h, "verdict.json") = {1}
      BY <1>2, <1>3
    <2> QED BY <1>4, <1>5, <2>1 DEF VerdictOf
  <1>7. ManifestOf(h) = 1
    <2>1. Seals(h, 1)
      BY <1>1, <1>2, <1>3 DEF Seals, RunsThat
    <2>2. {i \in DOMAIN h : Seals(h, i)} = {1}
      BY <1>1, <2>1
    <2> QED BY <1>4, <1>5, <2>2 DEF ManifestOf
  <1>8. ManifestHolds(h) <=> h[1].signer = "ed25519"
    <2>1. \A i \in DOMAIN h : ~ (i > 1)
      BY <1>1
    <2> QED BY <1>7, <2>1 DEF ManifestHolds
  <1>9. ArtifactMatches(h) /\ \A kind \in RequiredKinds : RunsThat(h, kind) # {}
    BY <1>2, <1>3, <1>6 DEF ArtifactMatches
  <1> QED BY <1>6, <1>8, <1>9 DEF Accepted

\* Of runs that nothing disturbed, the check accepts one alone.
LEMMA OneRunAlone ==
  ASSUME NEW h \in Seq(AnyRun), h # << >>, Accepted(h), \A i \in DOMAIN h : FaultsOf(h[i]) = {}
  PROVE  Len(h) = 1
  <1>1. RunsThat(h, "verdict_artifact") = {VerdictOf(h)}
    BY AcceptedFacts
  <1>2. \A i \in DOMAIN h : h[i] \in AnyRun
    OBVIOUS
  <1>3. "verdict_artifact" \in AllSteps /\ "verdict_artifact" \notin AboutTheFinding
    BY StepNames DEF AboutTheFinding
  <1>4. \A i \in DOMAIN h : "verdict_artifact" \in Done(h[i])
    BY <1>2, <1>3, UndisturbedRunIsWhole
  <1>5. \A i, j \in DOMAIN h : i = j
    BY <1>1, <1>4 DEF RunsThat
  <1>6. Len(h) \in Nat /\ DOMAIN h = 1..Len(h) /\ Len(h) # 0
    BY EmptySeq
  <1>7. 1 \in DOMAIN h /\ Len(h) \in DOMAIN h
    BY <1>6
  <1> QED BY <1>5, <1>7

\* Report QA lets no finding through whose replay differed, nor a claim that
\* rests on one artifact class.
LEMMA ReadyFindings ==
  ASSUME NEW r \in AnyRun, Ready(r), r.finding # NoFinding
  PROVE  /\ r.finding.matched
         /\ r.finding.claims # {} /\ r.finding.tier # "HYPOTHESIS" => Cardinality(r.finding.classes) >= 2
  <1> DEFINE f == r.finding
  <1>1. f \in AnyFinding /\ f \in MergedOf(r)
    BY RunFields DEF MergedOf
  <1>2. f.claims \subseteq Claims /\ f.classes \subseteq AllClasses
    BY <1>1, FindingFields
  <1> HIDE DEF f
  <1>3. ExecutionIsSupported(f) /\ ExfiltrationIsSupported(f) /\ f.matched
    BY <1>1 DEF Ready, ReadyForSignoff, ReplaysHold
  <1>4. ASSUME f.claims # {}, f.tier # "HYPOTHESIS" PROVE Cardinality(f.classes) >= 2
    <2>1. "execution" \in f.claims \/ "exfiltration" \in f.claims
      BY <1>2, <1>4 DEF Claims
    <2>2. CASE "execution" \in f.claims
      BY <1>3, <1>4, <2>2 DEF ExecutionIsSupported, ClaimsExecution
    <2>3. CASE "exfiltration" \in f.claims
      <3>1. IsFiniteSet(f.classes)
        BY <1>2, ClassesAreFinite, FS_Subset
      <3>2. TwoProngsMet(f.classes)
        BY <1>3, <2>3 DEF ExfiltrationIsSupported
      <3> QED BY <3>1, <3>2, ProngsAreTwo
    <2> QED BY <2>1, <2>2, <2>3
  <1> QED BY <1>3, <1>4 DEF f

\* However many runs nothing disturbed, whatever they found: one run passes
\* its own check exactly when report QA held, the check can verify the
\* signature, the finding was not lowered and raised again and its evidence is
\* not rewritten after it was approved; more than one never do.
THEOREM UndisturbedPass == history \in Seq(AnyRun) => UndisturbedRunsPass
  <1> DEFINE h == history
             f == h[1].finding
  <1> SUFFICES ASSUME h \in Seq(AnyRun), h # << >>, Faults(h) = 0
               PROVE  /\ Accepted(h) <=>
                           /\ Len(h) = 1
                           /\ Ready(h[1]) /\ h[1].signer = "ed25519"
                           /\ f # NoFinding =>
                                /\ f.tier = "CONFIRMED" => f.action = "approved"
                                /\ f.place # "repo"
                      /\ Accepted(h) /\ f # NoFinding =>
                           /\ f.matched
                           /\ f.claims # {} /\ f.tier # "HYPOTHESIS" => Cardinality(f.classes) >= 2
    BY DEF UndisturbedRunsPass
  <1> HIDE DEF h
  <1>1. \A i \in DOMAIN h : FaultsOf(h[i]) = {}
    BY FaultsAreCounted
  <1>2. Accepted(h) => Len(h) = 1
    BY <1>1, OneRunAlone
  <1>3. ASSUME Len(h) = 1
        PROVE  /\ h[1] \in AnyRun
               /\ Accepted(h) <=>
                    /\ Ready(h[1]) /\ h[1].signer = "ed25519"
                    /\ f # NoFinding =>
                         /\ f.tier = "CONFIRMED" => f.action = "approved"
                         /\ f.place # "repo"
               /\ Accepted(h) => Ready(h[1])
    <2>1. 1 \in DOMAIN h /\ h[1] \in AnyRun
      BY <1>3
    <2>2. FaultsOf(h[1]) = {}
      BY <1>1, <2>1
    <2>3. Accepted(h) <=>
            /\ h[1].signer = "ed25519" /\ Ready(h[1])
            /\ f # NoFinding => FindingIsBorneOut(h, f)
      BY <1>3, <2>2, OneRunIsAccepted
    <2>4. f # NoFinding /\ Ready(h[1]) => f.matched
      BY <2>1, ReadyFindings
    <2>5. f # NoFinding =>
            (FindingIsBorneOut(h, f) <=> /\ f.matched
                                         /\ f.tier = "CONFIRMED" => f.action = "approved"
                                         /\ f.place # "repo")
      BY <1>3, <2>2, OwnEvidence
    <2> HIDE DEF f
    <2> QED BY <2>1, <2>3, <2>4, <2>5
  <1>4. Accepted(h) /\ f # NoFinding =>
          /\ f.matched
          /\ f.claims # {} /\ f.tier # "HYPOTHESIS" => Cardinality(f.classes) >= 2
    BY <1>2, <1>3, ReadyFindings
  <1> HIDE DEF f
  <1> QED BY <1>2, <1>3, <1>4

\* The histories of a run are some of them.
LEMMA HistoriesAreSome == Histories \subseteq Seq(AnyRun)
  <1> DEFINE F == Findings \cup ClaimingFindings \cup {NoFinding, PlainFinding, LoweredFinding}
  <1>1. PresenceClasses \cup EgressClasses \cup WeakClasses \cup {"velociraptor"} = AllClasses
    BY DEF AllClasses
  <1>2. {"mft"} \subseteq AllClasses /\ {"memory", "prefetch", "network", "velociraptor"} \subseteq AllClasses
    BY DEF AllClasses, PresenceClasses, EgressClasses, WeakClasses
  <1>3. Findings \subseteq AnyFinding
    <2> SUFFICES ASSUME NEW f \in Findings PROVE f \in AnyFinding
      OBVIOUS
    <2>1. /\ f = [action |-> f.action, matched |-> f.matched, tier |-> f.tier, claims |-> f.claims,
                  classes |-> f.classes, place |-> f.place]
          /\ f.action \in {"approved", "downgraded"} /\ f.matched \in BOOLEAN
          /\ f.tier \in {"CONFIRMED", "INFERRED", "HYPOTHESIS"} /\ f.claims = {} /\ f.classes = {"mft"}
          /\ f.place \in {"extracted", "repo_home", "repo", "other_home", "other"}
          /\ f.action = "approved" => f.matched
      BY DEF Findings
    <2>2. f.claims \in SUBSET Claims /\ f.classes \in SUBSET AllClasses
      BY <1>2, <2>1
    <2> QED BY <2>1, <2>2 DEF AnyFinding
  <1>4. ClaimingFindings \subseteq AnyFinding
    <2> SUFFICES ASSUME NEW f \in ClaimingFindings PROVE f \in AnyFinding
      OBVIOUS
    <2>1. /\ f = [action |-> f.action, matched |-> f.matched, tier |-> f.tier, claims |-> f.claims,
                  classes |-> f.classes, place |-> f.place]
          /\ f.action = "approved" /\ f.matched = TRUE
          /\ f.tier \in {"CONFIRMED", "INFERRED", "HYPOTHESIS"} /\ f.claims \in SUBSET Claims
          /\ f.classes \in SUBSET {"memory", "prefetch", "network", "velociraptor"}
          /\ f.place = "extracted"
      BY DEF ClaimingFindings
    <2>2. f.classes \in SUBSET AllClasses
      BY <1>2, <2>1
    <2> QED BY <2>1, <2>2 DEF AnyFinding
  <1>5. PlainFinding \in AnyFinding
    BY <1>2 DEF PlainFinding, AnyFinding
  <1>6. LoweredFinding \in AnyFinding
    <2> DEFINE p == PlainFinding
               R == [action : {"approved", "downgraded"}, matched : BOOLEAN,
                     tier : {"CONFIRMED", "INFERRED", "HYPOTHESIS"}, claims : SUBSET Claims,
                     classes : SUBSET AllClasses,
                     place : {"extracted", "repo_home", "repo", "other_home", "other"}]
    <2>1. p \in R
      BY <1>5 DEF AnyFinding
    <2> HIDE DEF p
    <2>2. [p EXCEPT !.action = "downgraded"] \in R
      BY <2>1
    <2>3. [[p EXCEPT !.action = "downgraded"] EXCEPT !.tier = "INFERRED"] \in R
      <3> DEFINE q == [p EXCEPT !.action = "downgraded"]
      <3> HIDE DEF q
      <3>1. q \in R => [q EXCEPT !.tier = "INFERRED"] \in R
        OBVIOUS
      <3> QED BY <2>2, <3>1 DEF q
    <2>4. LoweredFinding = [[p EXCEPT !.action = "downgraded"] EXCEPT !.tier = "INFERRED"]
      BY DEF LoweredFinding, p
    <2>5. LoweredFinding.action = "downgraded"
      BY <2>1 DEF LoweredFinding, p
    <2> QED BY <2>3, <2>4, <2>5 DEF AnyFinding
  <1>7. F \subseteq AnyFinding \cup {NoFinding}
    BY <1>3, <1>4, <1>5, <1>6
  <1>8. Quiet \in Notes
    BY DEF Quiet, Notes
  <1> HIDE DEF F
  <1>9. ASSUME NEW findings \in SUBSET F, NEW notes \in SUBSET Notes, NEW signers \in SUBSET Signers,
               NEW n, NEW r \in Disturbed(findings, notes, signers, n)
        PROVE  r \in AnyRun
    <2>1. /\ r = [finding |-> r.finding, notes |-> r.notes, signer |-> r.signer, reached |-> r.reached,
                  lost |-> r.lost]
          /\ r.finding \in findings /\ r.notes \in notes /\ r.signer \in signers
          /\ r.reached \in 0..Len(Steps) /\ r.lost \subseteq ComesTo(r)
          /\ r.lost \in UNION {kSubset(k, AllSteps \ {"manifest"}) : k \in 0..n}
      BY DEF Disturbed
    <2>2. r.lost \in SUBSET (AllSteps \ {"manifest"})
      <3>1. PICK k \in 0..n : r.lost \in kSubset(k, AllSteps \ {"manifest"})
        BY <2>1
      <3> QED BY <3>1 DEF kSubset
    <2>3. r.finding \in AnyFinding \cup {NoFinding} /\ r.notes \in Notes /\ r.signer \in Signers
      BY <1>7, <2>1
    <2> QED BY <2>1, <2>2, <2>3 DEF AnyRun
  <1>10. /\ Findings \cup {NoFinding} \in SUBSET F /\ {NoFinding, PlainFinding} \in SUBSET F
         /\ ClaimingFindings \in SUBSET F /\ {NoFinding, PlainFinding, LoweredFinding} \in SUBSET F
    BY DEF F
  <1>11. {Quiet} \in SUBSET Notes /\ {"ed25519"} \in SUBSET Signers
    BY <1>8 DEF Signers
  <1>12. \A n : Disturbed({NoFinding, PlainFinding, LoweredFinding}, {Quiet}, {"ed25519"}, n) \subseteq AnyRun
    BY <1>9, <1>10, <1>11
  <1>13. /\ Disturbed(Findings \cup {NoFinding}, {Quiet}, Signers, 1) \subseteq AnyRun
         /\ Disturbed({NoFinding, PlainFinding}, Notes, {"ed25519"}, 1) \subseteq AnyRun
         /\ Disturbed(ClaimingFindings, {Quiet}, {"ed25519"}, 0) \subseteq AnyRun
    BY <1>9, <1>10, <1>11
  <1>14. Reruns \subseteq Seq(AnyRun)
    <2> SUFFICES ASSUME NEW h \in Reruns PROVE h \in Seq(AnyRun)
      OBVIOUS
    <2>1. PICK n \in 0..MaxFaults : h \in {<<a, b>> : a \in PlainRuns(n), b \in PlainRuns(MaxFaults - n)}
      BY DEF Reruns
    <2>3. PICK a \in PlainRuns(n), b \in PlainRuns(MaxFaults - n) : h = <<a, b>>
      BY <2>1
    <2>2. a \in AnyRun /\ b \in AnyRun
      BY <1>12, <2>3 DEF PlainRuns
    <2> QED BY <2>2, <2>3
  <1>15. \A r \in AnyRun : <<r>> \in Seq(AnyRun)
    OBVIOUS
  <1> QED BY <1>13, <1>14, <1>15 DEF Histories

=============================================================================
