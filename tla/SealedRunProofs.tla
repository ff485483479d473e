--------------------------- MODULE SealedRunProofs ---------------------------
(***************************************************************************)
(* Proofs about SealedRun: what a verifier accepts is what was sealed, for *)
(* any number of lines and of damages, and whoever else appends.           *)
(*                                                                         *)
(* The argument.  Identities are handed out once, in increasing order, so  *)
(* each line of the log either still is the record the manifest saw in its *)
(* place, in the same bytes or in others that are newer than all that the  *)
(* manifest knows of, or its record is newer too.  A log whose last record *)
(* or last line has the manifest's final hash ends in a record the         *)
(* manifest saw; and a record that is the manifest's names, as the line    *)
(* before it, bytes the manifest knows, so the line before it is the       *)
(* manifest's, byte for byte.  Hence, from the end to the beginning, they  *)
(* all are; the last one is, if it is its bytes that were compared.        *)
(***************************************************************************)
EXTENDS SealedRun, WellFoundedInduction, TLAPS

-----------------------------------------------------------------------------
(* Induction over the naturals, as a fact about sets of them: the           *)
(* theorems of the library take an operator, which no prover instantiates.  *)

NatLess == {pair \in Nat \X Nat : pair[1] < pair[2]}

\* The order of the library's theorem, written as a set.
LEMMA NatLessIsTheOrder == NatLess = OpToRel(<, Nat)
  BY Zenon DEF NatLess, OpToRel

\* Every set of naturals that is not empty has a least member.
LEMMA LeastMember ==
  ASSUME NEW T, T \subseteq Nat, T # {}
  PROVE  \E x \in T : \A y \in T : x <= y
<1>1. IsWellFoundedOn(NatLess, Nat)
  BY NatLessIsTheOrder, NatLessThanWellFounded, Zenon
<1>2. \E x \in T : \A y \in T : ~ (<<y, x>> \in NatLess)
  BY <1>1, WFMin, Zenon
<1>3. \A x, y \in Nat : ~ (<<y, x>> \in NatLess) => x <= y
  BY DEF NatLess
<1>4. QED BY <1>2, <1>3

\* A set that has n, and with each positive member the one below it, has
\* every natural up to n.
LEMMA DownwardInduction ==
  ASSUME NEW S, NEW n \in Nat, n \in S,
         \A i \in 1..n : i \in S => (i - 1) \in S
  PROVE  0..n \subseteq S
<1>1. SUFFICES ASSUME NEW k \in 0..n, k \notin S PROVE FALSE
  OBVIOUS
<1> DEFINE Above == {d \in 0..n : (n - d) \notin S}
<1>2. n - k \in Above
  <2>1. n - k \in 0..n /\ n - (n - k) = k
    OBVIOUS
  <2>2. QED BY <1>1, <2>1
<1>3. PICK d \in Above : \A e \in Above : d <= e
  <2>1. Above \subseteq Nat
    OBVIOUS
  <2>2. Above # {}
    BY <1>2
  <2> HIDE DEF Above
  <2>3. QED BY <2>1, <2>2, LeastMember
<1>4. d # 0
  BY <1>3
<1>5. n - (d - 1) \in S
  <2>1. d - 1 \notin Above
    BY <1>3
  <2>2. d - 1 \in 0..n
    BY <1>3, <1>4
  <2>3. QED BY <2>1, <2>2
<1>6. (n - (d - 1)) - 1 \in S
  BY <1>3, <1>4, <1>5
<1>7. QED BY <1>3, <1>6

-----------------------------------------------------------------------------
(* Types.                                                                   *)

Kinds == {"tool_call_output", "finding_approved", "other"}

Line == [id : Nat, raw : Nat, seq : Nat, prev : Int, readable : BOOLEAN, canonical : BOOLEAN,
         returns : BOOLEAN, kind : Kinds, call : ToolCalls \union {NoCall}]

\* The identities in a list of lines are among the first n, each in one line.
Issued(l, n) ==
  /\ \A i \in DOMAIN l : l[i].id \in 1..n /\ l[i].raw \in 1..n /\ l[i].prev <= n
  /\ \A i, j \in DOMAIN l :
       l[i].id = l[j].id \/ l[i].raw = l[j].raw \/ l[i].raw = l[j].id => i = j

\* A body has these six fields; what the leaves are is of no matter to the types.
BodyShape(b) ==
  b = [count |-> b.count, final |-> b.final, leaves |-> b.leaves, root |-> b.root,
       leafCount |-> b.leafCount, extra |-> b.extra]

ManifestShape(m) ==
  /\ m = [state |-> "written", body |-> m.body, anchored |-> m.anchored, kind |-> m.kind,
          over |-> m.over, sha |-> m.sha, from |-> m.from]
  /\ BodyShape(m.body)
  /\ m.anchored \in BOOLEAN /\ m.kind \in Signers \union {"none"}
  /\ m.from \in Seq(Line)

Phases == {"idle", "cited", "walked", "signed", "written"}

TypeOK ==
  /\ log \in Seq(Line) /\ there \in BOOLEAN
  /\ lastId \in 0..MaxLines /\ damage \in 0..MaxDamage
  /\ phase \in Phases
  /\ draft = Absent \/ ManifestShape(draft)
  /\ file = Absent \/ file = Torn \/ ManifestShape(file)

-----------------------------------------------------------------------------
(* The inductive invariant.                                                 *)

\* line is the record was, perhaps in other bytes, its end or its readability lost.
SameLine(line, was) ==
  /\ line.id = was.id /\ line.seq = was.seq /\ line.prev = was.prev
  /\ line.kind = was.kind /\ line.call = was.call
  /\ was.returns => line.returns
  /\ line.readable => was.readable

SameBytes(line, was) == line.raw = was.raw /\ line.canonical = was.canonical

Newer(x, l) == \A j \in DOMAIN l : l[j].id < x /\ l[j].raw < x /\ l[j].prev < x

\* What became, in the log now, of the lines l a manifest was made from.
Kept(l, now) ==
  \A i \in DOMAIN now :
    \/ /\ i \in DOMAIN l /\ SameLine(now[i], l[i])
       /\ SameBytes(now[i], l[i]) \/ Newer(now[i].raw, l)
    \/ Newer(now[i].id, l) /\ Newer(now[i].raw, l)

FromTheLog(m) ==
  /\ Issued(m.from, lastId) /\ Kept(m.from, log)
  /\ ~ OthersAppend => Uncited(m.from) = {}

SignedFaithfully(m) == m.kind = "ed25519" => m.over = <<Body(m.from)>>

\* Leaves may be lost from the manifest, and the others stay what they were.
LeavesAmong(leaves, l) ==
  \A i \in DOMAIN leaves : i \in Eligible(l) /\ leaves[i] = Leaf(l[i])

DraftInv ==
  /\ draft = Absent <=> phase \in {"idle", "cited"}
  /\ phase = "cited" /\ ~ OthersAppend => Uncited(log) = {}
  /\ draft # Absent =>
       /\ draft.body = Body(draft.from) /\ FromTheLog(draft) /\ SignedFaithfully(draft)

FileInv ==
  file.state = "written" =>
    /\ FromTheLog(file) /\ SignedFaithfully(file)
    /\ file.body.final \in {FinalHash(file.from), MaxLines + 1}
    /\ LeavesAmong(file.body.leaves, file.from)

SealInv == TypeOK /\ Issued(log, lastId) /\ DraftInv /\ FileInv

-----------------------------------------------------------------------------
(* What the steps do to the log.                                            *)

\* From old, with n identities given out, to new, with n1: a line is what it
\* was in its place, or has the one identity given out in the step, for its
\* bytes alone or for its record too.
Follows(new, old, n, n1) ==
  /\ n <= n1
  /\ \A i \in DOMAIN new :
       \/ /\ i \in DOMAIN old /\ SameLine(new[i], old[i])
          /\ SameBytes(new[i], old[i]) \/ (new[i].raw = n + 1 /\ n + 1 <= n1)
       \/ new[i].id = n + 1 /\ new[i].raw = n + 1 /\ n + 1 <= n1 /\ new[i].prev <= n
  /\ \A i, j \in DOMAIN new : new[i].raw = n + 1 /\ new[j].raw = n + 1 => i = j

\* What the lines of a list are.
LEMMA LineTypes ==
  ASSUME NEW l \in Seq(Line), NEW i \in DOMAIN l
  PROVE  /\ l[i] \in Line
         /\ l[i].id \in Nat /\ l[i].raw \in Nat /\ l[i].seq \in Nat /\ l[i].prev \in Int
         /\ l[i].readable \in BOOLEAN /\ l[i].canonical \in BOOLEAN /\ l[i].returns \in BOOLEAN
<1>1. l[i] \in Line
  OBVIOUS
<1>2. QED BY <1>1 DEF Line

\* Such a step keeps identities those given out, each in one line.
LEMMA FollowsIssued ==
  ASSUME NEW old \in Seq(Line), NEW new \in Seq(Line), NEW n \in Nat, NEW n1 \in Nat,
         Issued(old, n), Follows(new, old, n, n1)
  PROVE  Issued(new, n1)
<1>1. ASSUME NEW i \in DOMAIN new
      PROVE  /\ new[i].id \in 1..n1 /\ new[i].raw \in 1..n1 /\ new[i].prev <= n1
             /\ \/ /\ i \in DOMAIN old /\ new[i].id = old[i].id /\ new[i].id \in 1..n
                   /\ new[i].raw = n + 1 \/ (new[i].raw = old[i].raw /\ new[i].raw \in 1..n)
                \/ new[i].id = n + 1 /\ new[i].raw = n + 1
  <2>1. new[i] \in Line /\ n <= n1
    BY DEF Follows
  <2>2. CASE /\ i \in DOMAIN old /\ SameLine(new[i], old[i])
             /\ SameBytes(new[i], old[i]) \/ (new[i].raw = n + 1 /\ n + 1 <= n1)
    <3>1. old[i].id \in 1..n /\ old[i].raw \in 1..n /\ old[i].prev <= n /\ old[i].prev \in Int
      BY <2>2, LineTypes DEF Issued
    <3>2. new[i].id = old[i].id /\ new[i].prev = old[i].prev
      BY <2>2 DEF SameLine
    <3>3. CASE SameBytes(new[i], old[i])
      BY <2>1, <2>2, <3>1, <3>2, <3>3 DEF SameBytes
    <3>4. CASE new[i].raw = n + 1 /\ n + 1 <= n1
      BY <2>1, <2>2, <3>1, <3>2, <3>4
    <3>5. QED BY <2>2, <3>3, <3>4
  <2>3. CASE new[i].id = n + 1 /\ new[i].raw = n + 1 /\ n + 1 <= n1 /\ new[i].prev <= n
    <3>1. new[i].prev \in Int
      BY <2>1 DEF Line
    <3>2. QED BY <2>3, <3>1
  <2>4. QED BY <2>2, <2>3 DEF Follows
<1>2. ASSUME NEW i \in DOMAIN new, NEW j \in DOMAIN new,
             new[i].id = new[j].id \/ new[i].raw = new[j].raw \/ new[i].raw = new[j].id
      PROVE  i = j
  <2>1. CASE new[i].raw = n + 1 /\ new[j].raw = n + 1
    BY <2>1 DEF Follows
  <2>2. CASE new[i].raw = n + 1 /\ new[j].raw # n + 1
    <3>1. /\ j \in DOMAIN old /\ new[j].id = old[j].id /\ new[j].id \in 1..n
          /\ new[j].raw = old[j].raw /\ new[j].raw \in 1..n
      BY <1>1, <2>2
    <3>2. new[i].id = new[j].id
      BY <1>2, <2>2, <3>1
    <3>3. i \in DOMAIN old /\ new[i].id = old[i].id
      BY <1>1, <3>1, <3>2
    <3>4. QED BY <3>1, <3>2, <3>3 DEF Issued
  <2>3. CASE new[i].raw # n + 1
    <3>1. /\ i \in DOMAIN old /\ new[i].id = old[i].id /\ new[i].id \in 1..n
          /\ new[i].raw = old[i].raw /\ new[i].raw \in 1..n
      BY <1>1, <2>3
    <3>2. j \in DOMAIN old /\ new[j].id = old[j].id
      BY <1>1, <1>2, <3>1
    <3>3. new[j].raw = new[i].raw => new[j].raw = old[j].raw
      BY <1>1, <3>1
    <3>4. QED BY <1>2, <3>1, <3>2, <3>3 DEF Issued
  <2>4. QED BY <2>1, <2>2, <2>3
<1>3. QED BY <1>1, <1>2 DEF Issued

\* And it keeps what a manifest was made from.
LEMMA FollowsKept ==
  ASSUME NEW old \in Seq(Line), NEW new \in Seq(Line), NEW n \in Nat, NEW n1 \in Nat,
         NEW l \in Seq(Line), Issued(l, n), Kept(l, old), Follows(new, old, n, n1)
  PROVE  Issued(l, n1) /\ Kept(l, new)
<1>1. \A j \in DOMAIN l : l[j].id \in Nat /\ l[j].raw \in Nat /\ l[j].prev \in Int
  BY LineTypes
<1>2. Issued(l, n1)
  BY <1>1 DEF Issued, Follows
<1>3. Newer(n + 1, l)
  BY <1>1 DEF Newer, Issued
<1>4. ASSUME NEW i \in DOMAIN new
      PROVE  \/ /\ i \in DOMAIN l /\ SameLine(new[i], l[i])
                /\ SameBytes(new[i], l[i]) \/ Newer(new[i].raw, l)
             \/ Newer(new[i].id, l) /\ Newer(new[i].raw, l)
  <2>1. CASE /\ i \in DOMAIN old /\ SameLine(new[i], old[i])
             /\ SameBytes(new[i], old[i]) \/ (new[i].raw = n + 1 /\ n + 1 <= n1)
    <3>1. CASE /\ i \in DOMAIN l /\ SameLine(old[i], l[i])
               /\ SameBytes(old[i], l[i]) \/ Newer(old[i].raw, l)
      <4>1. SameLine(new[i], l[i])
        BY <2>1, <3>1 DEF SameLine
      <4>2. SameBytes(new[i], l[i]) \/ Newer(new[i].raw, l)
        BY <1>3, <2>1, <3>1 DEF SameBytes
      <4>3. QED BY <3>1, <4>1, <4>2
    <3>2. CASE Newer(old[i].id, l) /\ Newer(old[i].raw, l)
      <4>1. Newer(new[i].id, l)
        BY <2>1, <3>2 DEF SameLine
      <4>2. Newer(new[i].raw, l)
        BY <1>3, <2>1, <3>2 DEF SameBytes
      <4>3. QED BY <4>1, <4>2
    <3>3. QED BY <2>1, <3>1, <3>2 DEF Kept
  <2>2. CASE new[i].id = n + 1 /\ new[i].raw = n + 1
    BY <1>3, <2>2
  <2>3. QED BY <2>1, <2>2 DEF Follows
<1>5. QED BY <1>2, <1>4 DEF Kept

\* A line is what it was.
LEMMA SameLineAgain == \A line : SameLine(line, line) /\ SameBytes(line, line)
  BY DEF SameLine, SameBytes

\* What is appended is a line of the log.
LEMMA RecordIsALine ==
  ASSUME NEW record \in Records
  PROVE  record[1] \in Kinds /\ record[2] \in ToolCalls \union {NoCall}
BY DEF Records, Kinds

\* The digest of the last line is no newer than the identities given out.
LEMMA DigestOfLastBound ==
  ASSUME TypeOK, Issued(log, lastId)
  PROVE  DigestOfLast(log) \in Int /\ DigestOfLast(log) <= lastId
<1>1. CASE log = << >>
  BY <1>1 DEF DigestOfLast, TypeOK
<1>2. CASE log # << >>
  <2>1. Len(log) \in DOMAIN log /\ Last(log) = log[Len(log)]
    BY <1>2 DEF TypeOK, Last
  <2>2. log[Len(log)].raw \in 1..lastId
    BY <2>1 DEF Issued
  <2>3. QED BY <1>2, <2>1, <2>2 DEF DigestOfLast, Digest, TypeOK
<1>3. QED BY <1>1, <1>2

\* Each action on the log is such a step.
LEMMA LogFollows ==
  ASSUME TypeOK, Issued(log, lastId), [Next]_vars
  PROVE  /\ log' \in Seq(Line) /\ lastId' \in 0..MaxLines
         /\ Follows(log', log, lastId, lastId')
<1> USE LogAssumption
<1>0. /\ lastId \in Nat /\ log \in Seq(Line)
      /\ \A i \in DOMAIN log : log[i] \in Line /\ log[i].raw # lastId + 1
  BY DEF TypeOK, Issued
<1>1. ASSUME UNCHANGED <<log, lastId>>
      PROVE  /\ log' \in Seq(Line) /\ lastId' \in 0..MaxLines
             /\ Follows(log', log, lastId, lastId')
  BY <1>0, <1>1, SameLineAgain DEF Follows, TypeOK
<1>2. ASSUME NEW record \in Records, AppendRecord(record)
      PROVE  /\ log' \in Seq(Line) /\ lastId' \in 0..MaxLines
             /\ Follows(log', log, lastId, lastId')
  <2> DEFINE line == [id |-> lastId + 1, raw |-> lastId + 1, seq |-> Len(log) + 1,
                      prev |-> DigestOfLast(log), readable |-> TRUE, canonical |-> TRUE,
                      returns |-> FALSE, kind |-> record[1], call |-> record[2]]
  <2>1. line \in Line /\ line.id = lastId + 1 /\ line.raw = lastId + 1 /\ line.prev <= lastId
    BY <1>0, RecordIsALine, DigestOfLastBound DEF Line
  <2>2. log' = Append(log, line) /\ lastId' = lastId + 1 /\ lastId < MaxLines
    BY <1>2 DEF AppendRecord
  <2> HIDE DEF line
  <2>3. /\ log' \in Seq(Line) /\ DOMAIN log' = 1..(Len(log) + 1)
        /\ \A i \in DOMAIN log : log'[i] = log[i]
        /\ log'[Len(log) + 1] = line
    BY <1>0, <2>1, <2>2
  <2>4. \A i \in DOMAIN log' : i \in DOMAIN log \/ i = Len(log) + 1
    BY <1>0, <2>3
  <2>5. lastId' \in 0..MaxLines /\ lastId <= lastId' /\ lastId + 1 <= lastId'
    BY <1>0, <2>2 DEF TypeOK
  <2>6. QED BY <1>0, <2>1, <2>3, <2>4, <2>5, SameLineAgain DEF Follows
<1>3. ASSUME NEW i \in DOMAIN log, AlterLine(i)
      PROVE  /\ log' \in Seq(Line) /\ lastId' \in 0..MaxLines
             /\ Follows(log', log, lastId, lastId')
  <2>1. PICK record \in Records :
          log' = [log EXCEPT ![i] = [@ EXCEPT !.id = lastId + 1, !.raw = lastId + 1,
                                              !.kind = record[1], !.call = record[2]]]
    BY <1>3 DEF AlterLine
  <2> DEFINE line == [log[i] EXCEPT !.id = lastId + 1, !.raw = lastId + 1,
                                    !.kind = record[1], !.call = record[2]]
  <2>2. line \in Line /\ line.id = lastId + 1 /\ line.raw = lastId + 1 /\ line.prev <= lastId
    <3>1. line \in Line /\ line.id = lastId + 1 /\ line.raw = lastId + 1 /\ line.prev = log[i].prev
      <4>1. log[i] \in Line /\ lastId + 1 \in Nat
        BY <1>0
      <4>2. record[1] \in Kinds /\ record[2] \in ToolCalls \union {NoCall}
        BY RecordIsALine
      <4>3. QED BY <4>1, <4>2 DEF Line
    <3>2. QED BY <3>1 DEF Issued
  <2>3. log' = [log EXCEPT ![i] = line]
    BY <2>1
  <2> HIDE DEF line
  <2>4. /\ log' \in Seq(Line) /\ DOMAIN log' = DOMAIN log /\ log'[i] = line
        /\ \A j \in DOMAIN log : j # i => log'[j] = log[j]
    BY <1>0, <2>2, <2>3
  <2>5. lastId' = lastId + 1 /\ lastId' \in 0..MaxLines
    BY <1>0, <1>3 DEF AlterLine, TypeOK
  <2>6. QED BY <1>0, <2>2, <2>4, <2>5, SameLineAgain DEF Follows
<1>4. ASSUME NEW i \in DOMAIN log, GarbleLine(i) \/ AddReturn(i)
      PROVE  /\ log' \in Seq(Line) /\ lastId' \in 0..MaxLines
             /\ Follows(log', log, lastId, lastId')
  <2>1. PICK line \in Line : /\ log' = [log EXCEPT ![i] = line]
                             /\ SameLine(line, log[i]) /\ SameBytes(line, log[i])
    <3>1. CASE GarbleLine(i)
      <4>1. [log[i] EXCEPT !.readable = FALSE] \in Line
        BY <1>0 DEF Line
      <4>2. /\ SameLine([log[i] EXCEPT !.readable = FALSE], log[i])
            /\ SameBytes([log[i] EXCEPT !.readable = FALSE], log[i])
        BY <1>0 DEF Line, SameLine, SameBytes
      <4>3. log' = [log EXCEPT ![i] = [log[i] EXCEPT !.readable = FALSE]]
        BY <3>1 DEF GarbleLine
      <4>4. QED BY <4>1, <4>2, <4>3
    <3>2. CASE AddReturn(i)
      <4>1. [log[i] EXCEPT !.returns = TRUE] \in Line
        BY <1>0 DEF Line
      <4>2. /\ SameLine([log[i] EXCEPT !.returns = TRUE], log[i])
            /\ SameBytes([log[i] EXCEPT !.returns = TRUE], log[i])
        BY <1>0 DEF Line, SameLine, SameBytes
      <4>3. log' = [log EXCEPT ![i] = [log[i] EXCEPT !.returns = TRUE]]
        BY <3>2 DEF AddReturn
      <4>4. QED BY <4>1, <4>2, <4>3
    <3>3. QED BY <1>4, <3>1, <3>2
  <2>2. lastId' = lastId
    BY <1>4 DEF GarbleLine, AddReturn
  <2>3. /\ log' \in Seq(Line) /\ DOMAIN log' = DOMAIN log /\ log'[i] = line
        /\ \A j \in DOMAIN log : j # i => log'[j] = log[j]
    BY <1>0, <2>1
  <2>4. \A j \in DOMAIN log : SameLine(log'[j], log[j]) /\ SameBytes(log'[j], log[j])
    BY <2>1, <2>3, SameLineAgain
  <2>5. \A j \in DOMAIN log : log'[j].raw # lastId + 1
    BY <1>0, <2>4 DEF SameBytes
  <2>6. QED BY <1>0, <2>2, <2>3, <2>4, <2>5 DEF Follows, TypeOK
<1>5. ASSUME NEW n \in 0..(Len(log) - 1), LoseTail(n)
      PROVE  /\ log' \in Seq(Line) /\ lastId' \in 0..MaxLines
             /\ Follows(log', log, lastId, lastId')
  <2>1. /\ log' \in Seq(Line) /\ DOMAIN log' \subseteq DOMAIN log
        /\ \A i \in DOMAIN log' : log'[i] = log[i]
    BY <1>0, <1>5 DEF LoseTail
  <2>2. lastId' = lastId
    BY <1>5 DEF LoseTail
  <2>3. QED BY <1>0, <2>1, <2>2, SameLineAgain DEF Follows, TypeOK
<1>6. ASSUME NEW i \in DOMAIN log, Respell(i)
      PROVE  /\ log' \in Seq(Line) /\ lastId' \in 0..MaxLines
             /\ Follows(log', log, lastId, lastId')
  <2>1. PICK canonical \in BOOLEAN :
          log' = [log EXCEPT ![i] = [@ EXCEPT !.raw = lastId + 1, !.canonical = canonical]]
    BY <1>6 DEF Respell
  <2> DEFINE line == [log[i] EXCEPT !.raw = lastId + 1, !.canonical = canonical]
  <2>2. line \in Line /\ line.raw = lastId + 1 /\ SameLine(line, log[i])
    <3>1. log[i] \in Line /\ lastId + 1 \in Nat
      BY <1>0
    <3>2. [log[i] EXCEPT !.raw = lastId + 1] \in Line
      BY <3>1 DEF Line
    <3>3. line = [[log[i] EXCEPT !.raw = lastId + 1] EXCEPT !.canonical = canonical]
      BY <3>1 DEF Line
    <3>4. line \in Line
      BY <3>2, <3>3 DEF Line
    <3>5. /\ line.raw = lastId + 1 /\ line.id = log[i].id /\ line.seq = log[i].seq
          /\ line.prev = log[i].prev /\ line.kind = log[i].kind /\ line.call = log[i].call
          /\ line.readable = log[i].readable /\ line.returns = log[i].returns
      BY <3>1 DEF Line
    <3>6. QED BY <3>4, <3>5 DEF SameLine
  <2>3. log' = [log EXCEPT ![i] = line]
    BY <2>1
  <2> HIDE DEF line
  <2>4. /\ log' \in Seq(Line) /\ DOMAIN log' = DOMAIN log /\ log'[i] = line
        /\ \A j \in DOMAIN log : j # i => log'[j] = log[j]
    BY <1>0, <2>2, <2>3
  <2>5. lastId' = lastId + 1 /\ lastId' \in 0..MaxLines
    BY <1>0, <1>6 DEF Respell, TypeOK
  <2>6. QED BY <1>0, <2>2, <2>4, <2>5, SameLineAgain DEF Follows
<1>7. CASE \/ CheckCitations \/ Walk \/ (\E kind \in Signers : Sign(kind))
           \/ Write \/ Anchor \/ Finish \/ ServerDies \/ AlterManifest
  <2>1. UNCHANGED <<log, lastId>>
    BY <1>7 DEF CheckCitations, Walk, Sign, Write, Anchor, Finish, ServerDies, AlterManifest
  <2>2. QED BY <1>1, <2>1
<1>8. CASE UNCHANGED vars
  BY <1>1, <1>8 DEF vars
<1>9. QED BY <1>2, <1>3, <1>4, <1>5, <1>6, <1>7, <1>8 DEF Next

-----------------------------------------------------------------------------
(* The invariant is inductive.                                              *)

\* What a manifest was made from stays accounted for through every step.
LEMMA MadeFromStaysKept ==
  ASSUME TypeOK, Issued(log, lastId), [Next]_vars,
         NEW l \in Seq(Line), Issued(l, lastId), Kept(l, log)
  PROVE  Issued(l, lastId') /\ Kept(l, log')
<1>1. /\ log \in Seq(Line) /\ log' \in Seq(Line) /\ lastId \in Nat /\ lastId' \in Nat
      /\ Follows(log', log, lastId, lastId')
  BY LogFollows, LogAssumption DEF TypeOK
<1>2. QED BY <1>1, FollowsKept

\* The body of a manifest is a record of its six fields.
LEMMA BodyIsARecord == \A l : BodyShape(Body(l))
  BY DEF BodyShape, Body

\* Signing changes who signed, over what and its digest, anchoring whether there is
\* an anchor; the other fields stay.
LEMMA ManifestUpdates ==
  ASSUME NEW m, NEW x, NEW y, NEW z,
         m = [state |-> "written", body |-> m.body, anchored |-> m.anchored, kind |-> m.kind,
              over |-> m.over, sha |-> m.sha, from |-> m.from]
  PROVE  /\ [m EXCEPT !.kind = x, !.over = y, !.sha = z] =
              [state |-> "written", body |-> m.body, anchored |-> m.anchored, kind |-> x,
               over |-> y, sha |-> z, from |-> m.from]
         /\ [m EXCEPT !.anchored = x] =
              [state |-> "written", body |-> m.body, anchored |-> x, kind |-> m.kind,
               over |-> m.over, sha |-> m.sha, from |-> m.from]
<1> DEFINE m1 == [m EXCEPT !.kind = x]
           m2 == [m1 EXCEPT !.over = y]
<1>1. m1 = [state |-> "written", body |-> m.body, anchored |-> m.anchored, kind |-> x,
            over |-> m.over, sha |-> m.sha, from |-> m.from]
  OBVIOUS
<1>2. [m EXCEPT !.kind = x, !.over = y, !.sha = z] = [m2 EXCEPT !.sha = z]
  OBVIOUS
<1> HIDE DEF m1
<1>3. m2 = [state |-> "written", body |-> m.body, anchored |-> m.anchored, kind |-> x,
            over |-> y, sha |-> m.sha, from |-> m.from]
  BY <1>1
<1> HIDE DEF m2
<1>4. [m2 EXCEPT !.sha = z] =
        [state |-> "written", body |-> m.body, anchored |-> m.anchored, kind |-> x,
         over |-> y, sha |-> z, from |-> m.from]
  BY <1>3
<1>5. [m EXCEPT !.anchored = x] =
        [state |-> "written", body |-> m.body, anchored |-> x, kind |-> m.kind,
         over |-> m.over, sha |-> m.sha, from |-> m.from]
  OBVIOUS
<1>6. QED BY <1>2, <1>4, <1>5

\* The types hold before the first record.
LEMMA TypeInitial == Init => TypeOK
<1>1. MaxLines \in Nat /\ MaxDamage \in Nat
  BY LogAssumption
<1>2. << >> \in Seq(Line)
  OBVIOUS
<1>3. SUFFICES ASSUME Init PROVE TypeOK
  OBVIOUS
<1>4. log \in Seq(Line)
  BY <1>2, <1>3 DEF Init
<1>5. there \in BOOLEAN
  BY <1>3 DEF Init
<1>6. lastId \in 0..MaxLines /\ damage \in 0..MaxDamage
  BY <1>1, <1>3 DEF Init
<1>7. phase \in Phases /\ draft = Absent /\ file = Absent
  BY <1>3 DEF Init, Phases
<1>8. QED BY <1>4, <1>5, <1>6, <1>7 DEF TypeOK

(* Every step of a run, its finalizer, its signer and the damage keeps the  *)
(* types.                                                                   *)
LEMMA TypeStep ==
  ASSUME TypeOK, Issued(log, lastId), DraftInv, [Next]_vars
  PROVE  TypeOK'
<1>1. log' \in Seq(Line) /\ lastId' \in 0..MaxLines
  BY LogFollows
<1>2. ASSUME NEW record \in Records, AppendRecord(record) PROVE TypeOK'
  BY <1>1, <1>2 DEF AppendRecord, TypeOK, ManifestShape, BodyShape
<1>3. CASE CheckCitations
  BY <1>1, <1>3 DEF CheckCitations, TypeOK, Phases, ManifestShape, BodyShape
<1>4. CASE Walk
  <2>1. file' = file /\ there' = there /\ damage' = damage /\ phase' \in Phases
    BY <1>4 DEF Walk, Phases
  <2>2. CASE Readable(log)
    <3>1. draft' = [state |-> "written", body |-> Body(log), anchored |-> FALSE,
                    kind |-> "none", over |-> << >>, sha |-> << >>, from |-> log]
      BY <1>4, <2>2 DEF Walk
    <3>2. BodyShape(Body(log)) /\ log \in Seq(Line)
      BY BodyIsARecord DEF TypeOK
    <3>3. ManifestShape(draft')
      BY <3>1, <3>2 DEF ManifestShape
    <3>4. QED BY <1>1, <2>1, <3>3 DEF TypeOK, ManifestShape, BodyShape
  <2>3. CASE ~ Readable(log)
    <3>1. draft' = draft
      BY <1>4, <2>3 DEF Walk
    <3>2. QED BY <1>1, <2>1, <3>1 DEF TypeOK, ManifestShape, BodyShape
  <2>4. QED BY <2>2, <2>3
<1>5. ASSUME NEW kind \in Signers, Sign(kind) PROVE TypeOK'
  <2>1. ManifestShape(draft)
    BY <1>5 DEF Sign, TypeOK, DraftInv
  <2>2. draft' = [draft EXCEPT !.kind = kind, !.over = SignedPart(draft), !.sha = SignedPart(draft)]
    BY <1>5 DEF Sign
  <2>3. /\ draft'.state = "written" /\ draft'.body = draft.body
        /\ draft'.anchored = draft.anchored /\ draft'.from = draft.from
        /\ draft'.kind = kind /\ draft'.over = SignedPart(draft)
        /\ draft' = [state |-> "written", body |-> draft'.body, anchored |-> draft'.anchored,
                     kind |-> draft'.kind, over |-> draft'.over, sha |-> draft'.sha,
                     from |-> draft'.from]
    <3>1. draft = [state |-> "written", body |-> draft.body, anchored |-> draft.anchored,
                   kind |-> draft.kind, over |-> draft.over, sha |-> draft.sha,
                   from |-> draft.from]
      BY <2>1 DEF ManifestShape
    <3>2. draft' = [state |-> "written", body |-> draft.body, anchored |-> draft.anchored,
                    kind |-> kind, over |-> SignedPart(draft), sha |-> SignedPart(draft),
                    from |-> draft.from]
      BY <2>2, <3>1, ManifestUpdates
    <3>3. QED BY <3>2
  <2>4. ManifestShape(draft')
    BY <2>1, <2>3 DEF ManifestShape
  <2>5. file' = file /\ there' = there /\ damage' = damage /\ phase' \in Phases
    BY <1>5 DEF Sign, Phases
  <2>6. QED BY <1>1, <2>4, <2>5 DEF TypeOK, ManifestShape, BodyShape
<1>6. CASE Write
  BY <1>1, <1>6 DEF Write, TypeOK, Phases, ManifestShape, BodyShape
<1>7. CASE Anchor
  <2>1. ManifestShape(draft)
    BY <1>7 DEF Anchor, TypeOK, DraftInv
  <2>2. file' = [draft EXCEPT !.anchored = TRUE]
    BY <1>7 DEF Anchor
  <2>3. /\ file'.state = "written" /\ file'.body = draft.body
        /\ file'.anchored = TRUE /\ file'.from = draft.from
        /\ file'.kind = draft.kind /\ file'.over = draft.over
        /\ file' = [state |-> "written", body |-> file'.body, anchored |-> file'.anchored,
                    kind |-> file'.kind, over |-> file'.over, sha |-> file'.sha,
                    from |-> file'.from]
    <3>1. draft = [state |-> "written", body |-> draft.body, anchored |-> draft.anchored,
                   kind |-> draft.kind, over |-> draft.over, sha |-> draft.sha,
                   from |-> draft.from]
      BY <2>1 DEF ManifestShape
    <3>2. file' = [state |-> "written", body |-> draft.body, anchored |-> TRUE,
                   kind |-> draft.kind, over |-> draft.over, sha |-> draft.sha,
                   from |-> draft.from]
      BY <2>2, <3>1, ManifestUpdates
    <3>3. QED BY <3>2
  <2>4. ManifestShape(file')
    BY <2>1, <2>3 DEF ManifestShape
  <2>5. draft' = Absent /\ there' = there /\ damage' = damage /\ phase' \in Phases
    BY <1>7 DEF Anchor, Phases
  <2>6. QED BY <1>1, <2>4, <2>5 DEF TypeOK, ManifestShape, BodyShape
<1>8. CASE Finish
  BY <1>1, <1>8 DEF Finish, TypeOK, Phases, ManifestShape, BodyShape
<1>9. CASE ServerDies
  <2>1. file' = file \/ file' = Torn
    BY <1>9 DEF ServerDies
  <2>2. draft' = Absent /\ there' = there /\ damage' = damage /\ phase' \in Phases
    BY <1>9 DEF ServerDies, Phases
  <2>3. QED BY <1>1, <2>1, <2>2 DEF TypeOK, ManifestShape, BodyShape
<1>10. ASSUME Damaged, UNCHANGED file PROVE TypeOK'
  <2>1. damage' \in 0..MaxDamage
    BY <1>10, LogAssumption DEF Damaged, TypeOK
  <2>2. QED BY <1>1, <1>10, <2>1 DEF Damaged, TypeOK, Phases, ManifestShape, BodyShape
<1>11. ASSUME NEW i \in DOMAIN log, AlterLine(i) \/ Respell(i) \/ GarbleLine(i) \/ AddReturn(i) PROVE TypeOK'
  BY <1>10, <1>11 DEF AlterLine, Respell, GarbleLine, AddReturn
<1>12. ASSUME NEW n \in 0..(Len(log) - 1), LoseTail(n) PROVE TypeOK'
  BY <1>10, <1>12 DEF LoseTail
<1>13. CASE AlterManifest
  <2>1. ManifestShape(file)
    BY <1>13 DEF AlterManifest, TypeOK, Absent, Torn
  <2>2. ASSUME \E b \in AlteredBodies(file.body) : file' = [file EXCEPT !.body = b]
        PROVE  ManifestShape(file')
    <3>1. PICK b \in AlteredBodies(file.body) : file' = [file EXCEPT !.body = b]
      BY <2>2
    <3>2. BodyShape(b)
      BY <2>1 DEF ManifestShape, AlteredBodies, BodyShape
    <3>3. /\ file'.state = "written" /\ file'.body = b
          /\ file'.anchored = file.anchored /\ file'.from = file.from
          /\ file'.kind = file.kind /\ file'.over = file.over
          /\ file' = [state |-> "written", body |-> file'.body, anchored |-> file'.anchored,
                      kind |-> file'.kind, over |-> file'.over, sha |-> file'.sha,
                      from |-> file'.from]
      BY <2>1, <3>1 DEF ManifestShape
    <3>4. QED BY <2>1, <3>2, <3>3 DEF ManifestShape
  <2>3. ASSUME \E d \in {<< >>, <<[file.body EXCEPT !.extra = 2]>>} : file' = [file EXCEPT !.sha = d]
        PROVE  ManifestShape(file')
    <3>1. PICK d : file' = [file EXCEPT !.sha = d]
      BY <2>3
    <3>2. /\ file'.state = "written" /\ file'.body = file.body
          /\ file'.anchored = file.anchored /\ file'.from = file.from
          /\ file'.kind = file.kind /\ file'.over = file.over
          /\ file' = [state |-> "written", body |-> file'.body, anchored |-> file'.anchored,
                      kind |-> file'.kind, over |-> file'.over, sha |-> file'.sha,
                      from |-> file'.from]
      BY <2>1, <3>1 DEF ManifestShape
    <3>3. QED BY <2>1, <3>2 DEF ManifestShape
  <2>4. ManifestShape(file')
    BY <1>13, <2>2, <2>3 DEF AlterManifest
  <2>5. draft' = draft /\ there' = there /\ phase' = phase /\ damage' \in 0..MaxDamage
    BY <1>13, LogAssumption DEF AlterManifest, Damaged, TypeOK
  <2>6. QED BY <1>1, <2>4, <2>5 DEF TypeOK, ManifestShape, BodyShape
<1>14. CASE UNCHANGED vars
  BY <1>1, <1>14 DEF vars, TypeOK, ManifestShape, BodyShape
<1>15. QED BY <1>2, <1>3, <1>4, <1>5, <1>6, <1>7, <1>8, <1>9, <1>11, <1>12, <1>13, <1>14 DEF Next

\* The manifest in the making says what the log it was made from says.
LEMMA DraftStep ==
  ASSUME SealInv, [Next]_vars
  PROVE  DraftInv'
<1> DEFINE Made(m) == m.body = Body(m.from) /\ FromTheLog(m) /\ SignedFaithfully(m)
<1>1. ASSUME UNCHANGED <<phase, draft>>, UNCHANGED log \/ phase # "cited" \/ OthersAppend
      PROVE  DraftInv'
  <2>1. draft # Absent => Made(draft)'
    <3>1. SUFFICES ASSUME draft # Absent PROVE Made(draft)'
      OBVIOUS
    <3>2. draft.from \in Seq(Line) /\ Made(draft)
      BY <3>1 DEF SealInv, TypeOK, ManifestShape, DraftInv
    <3>3. Issued(draft.from, lastId') /\ Kept(draft.from, log')
      BY <3>2, MadeFromStaysKept DEF SealInv, FromTheLog
    <3>4. QED BY <1>1, <3>2, <3>3 DEF FromTheLog, SignedFaithfully
  <2>2. phase' = "cited" /\ ~ OthersAppend => Uncited(log') = {}
    BY <1>1 DEF SealInv, DraftInv
  <2>3. draft' = Absent <=> phase' \in {"idle", "cited"}
    BY <1>1 DEF SealInv, DraftInv
  <2>4. draft' # Absent => Made(draft)'
    BY <1>1, <2>1
  <2>5. QED BY <2>2, <2>3, <2>4 DEF DraftInv, Made, FromTheLog, SignedFaithfully
<1>2. ASSUME NEW record \in Records, AppendRecord(record) PROVE DraftInv'
  BY <1>1, <1>2 DEF AppendRecord
<1>3. CASE CheckCitations
  BY <1>3 DEF CheckCitations, SealInv, DraftInv
<1>4. CASE Walk
  <2>1. CASE Readable(log)
    <3>1. draft' = [state |-> "written", body |-> Body(log), anchored |-> FALSE,
                    kind |-> "none", over |-> << >>, sha |-> << >>, from |-> log]
      BY <1>4, <2>1 DEF Walk
    <3>2. phase' = "walked" /\ log' = log /\ lastId' = lastId /\ phase = "cited"
      BY <1>4, <2>1 DEF Walk
    <3>3. Kept(log, log) /\ Issued(log, lastId) /\ (~ OthersAppend => Uncited(log) = {})
      BY <3>2, SameLineAgain DEF Kept, SealInv, DraftInv
    <3>4. /\ draft'.from = log /\ draft'.body = Body(log) /\ draft'.kind = "none"
          /\ draft' # Absent
      BY <3>1 DEF Absent
    <3>5. QED BY <3>2, <3>3, <3>4 DEF DraftInv, FromTheLog, SignedFaithfully
  <2>2. CASE ~ Readable(log)
    BY <1>4, <2>2 DEF Walk, SealInv, DraftInv
  <2>3. QED BY <2>1, <2>2
<1>5. ASSUME NEW kind \in Signers, Sign(kind) PROVE DraftInv'
  <2>1. draft # Absent /\ ManifestShape(draft) /\ Made(draft)
    BY <1>5 DEF Sign, SealInv, TypeOK, DraftInv
  <2>2. /\ draft' = [draft EXCEPT !.kind = kind, !.over = SignedPart(draft), !.sha = SignedPart(draft)]
        /\ phase' = "signed" /\ log' = log /\ lastId' = lastId
    BY <1>5 DEF Sign
  <2>3. /\ draft'.state = "written" /\ draft'.body = draft.body /\ draft'.from = draft.from
        /\ draft'.over = <<draft.body>>
    <3>1. draft = [state |-> "written", body |-> draft.body, anchored |-> draft.anchored,
                   kind |-> draft.kind, over |-> draft.over, sha |-> draft.sha,
                   from |-> draft.from]
      BY <2>1 DEF ManifestShape
    <3>2. draft' = [state |-> "written", body |-> draft.body, anchored |-> draft.anchored,
                    kind |-> kind, over |-> SignedPart(draft), sha |-> SignedPart(draft),
                    from |-> draft.from]
      BY <2>2, <3>1, ManifestUpdates
    <3>3. QED BY <3>2 DEF SignedPart
  <2>4. draft' # Absent
    BY <2>3 DEF Absent
  <2>5. Made(draft')
    BY <2>1, <2>2, <2>3 DEF FromTheLog, SignedFaithfully
  <2>6. QED BY <2>2, <2>4, <2>5 DEF DraftInv, FromTheLog, SignedFaithfully
<1>6. CASE Write
  BY <1>6 DEF Write, SealInv, DraftInv, FromTheLog, SignedFaithfully
<1>7. CASE Anchor \/ Finish \/ ServerDies
  BY <1>7 DEF Anchor, Finish, ServerDies, DraftInv
<1>8. ASSUME NEW i \in DOMAIN log, AlterLine(i) \/ Respell(i) \/ GarbleLine(i) \/ AddReturn(i) PROVE DraftInv'
  BY <1>1, <1>8 DEF AlterLine, Respell, GarbleLine, AddReturn, Damaged
<1>9. ASSUME NEW n \in 0..(Len(log) - 1), LoseTail(n) PROVE DraftInv'
  BY <1>1, <1>9 DEF LoseTail, Damaged
<1>10. CASE AlterManifest
  BY <1>1, <1>10 DEF AlterManifest, Damaged
<1>11. CASE UNCHANGED vars
  BY <1>1, <1>11 DEF vars
<1>12. QED BY <1>2, <1>3, <1>4, <1>5, <1>6, <1>7, <1>8, <1>9, <1>10, <1>11 DEF Next

\* What is said of the lines a manifest is made from is what they are.
LEMMA BodyIsFaithful ==
  \A l : Body(l).final = FinalHash(l) /\ LeavesAmong(Body(l).leaves, l)
  BY DEF Body, LeavesAmong, Leaves

\* A field changed in a manifest leaves the leaves or drops one.
LEMMA AlteredBodiesAreFaithful ==
  ASSUME NEW b, BodyShape(b), NEW l, LeavesAmong(b.leaves, l), NEW c \in AlteredBodies(b)
  PROVE  c.final \in {b.final, MaxLines + 1} /\ LeavesAmong(c.leaves, l)
<1>1. b = [count |-> b.count, final |-> b.final, leaves |-> b.leaves, root |-> b.root,
           leafCount |-> b.leafCount, extra |-> b.extra]
  BY DEF BodyShape
<1>2. CASE c.leaves = b.leaves /\ c.final \in {b.final, MaxLines + 1}
  BY <1>2
<1>3. CASE \E i \in DOMAIN b.leaves :
             c = [b EXCEPT !.leaves = Restrict(b.leaves, DOMAIN b.leaves \ {i})]
  <2>1. PICK i \in DOMAIN b.leaves :
          c = [b EXCEPT !.leaves = Restrict(b.leaves, DOMAIN b.leaves \ {i})]
    BY <1>3
  <2>2. c.final = b.final /\ c.leaves = Restrict(b.leaves, DOMAIN b.leaves \ {i})
    BY <1>1, <2>1
  <2>3. LeavesAmong(Restrict(b.leaves, DOMAIN b.leaves \ {i}), l)
    BY DEF LeavesAmong, Restrict
  <2>4. QED BY <2>2, <2>3
<1>4. QED BY <1>1, <1>2, <1>3 DEF AlteredBodies

(* The manifest on disk was sealed over the log it names, whatever became   *)
(* of either since.                                                         *)
LEMMA FileStep ==
  ASSUME SealInv, [Next]_vars
  PROVE  FileInv'
<1> DEFINE Faithful(m) == /\ FromTheLog(m) /\ SignedFaithfully(m)
                          /\ m.body.final \in {FinalHash(m.from), MaxLines + 1}
                          /\ LeavesAmong(m.body.leaves, m.from)
<1>1. ASSUME NEW m, ManifestShape(m), Issued(m.from, lastId), Kept(m.from, log)
      PROVE  Issued(m.from, lastId') /\ Kept(m.from, log')
  BY <1>1, MadeFromStaysKept DEF SealInv, ManifestShape
<1>2. ASSUME UNCHANGED file PROVE FileInv'
  <2>1. SUFFICES ASSUME file.state = "written" PROVE FileInv'
    BY <1>2 DEF FileInv
  <2>2. ManifestShape(file) /\ FromTheLog(file)
    BY <2>1 DEF SealInv, TypeOK, Absent, Torn, FileInv
  <2>3. Issued(file.from, lastId') /\ Kept(file.from, log')
    BY <1>1, <2>2 DEF FromTheLog
  <2>4. QED BY <1>2, <2>1, <2>3 DEF SealInv, FileInv, FromTheLog, SignedFaithfully
<1>3. ASSUME draft # Absent, UNCHANGED <<log, lastId>>,
             file'.from = draft.from, file'.body = draft.body,
             file'.kind = draft.kind, file'.over = draft.over
      PROVE  FileInv'
  <2>1. Faithful(draft)
    BY <1>3, BodyIsFaithful DEF SealInv, DraftInv
  <2>2. QED BY <1>3, <2>1 DEF FileInv, FromTheLog, SignedFaithfully
<1>4. CASE Write
  BY <1>3, <1>4 DEF Write, SealInv, DraftInv
<1>5. CASE Anchor
  <2>1. draft # Absent /\ ManifestShape(draft)
    BY <1>5 DEF Anchor, SealInv, TypeOK, DraftInv
  <2>2. file' = [draft EXCEPT !.anchored = TRUE] /\ UNCHANGED <<log, lastId>>
    BY <1>5 DEF Anchor
  <2>3. /\ file'.from = draft.from /\ file'.body = draft.body
        /\ file'.kind = draft.kind /\ file'.over = draft.over
    BY <2>1, <2>2 DEF ManifestShape
  <2>4. QED BY <1>3, <2>1, <2>2, <2>3
<1>6. CASE ServerDies
  <2>1. CASE file' = file
    BY <1>2, <2>1
  <2>2. CASE file' = Torn
    BY <2>2 DEF FileInv, Torn
  <2>3. QED BY <1>6, <2>1, <2>2 DEF ServerDies
<1>7. CASE AlterManifest
  <2>1. ManifestShape(file) /\ Faithful(file)
    BY <1>7 DEF AlterManifest, SealInv, TypeOK, Absent, Torn, FileInv
  <2>2. UNCHANGED <<log, lastId>>
    BY <1>7 DEF AlterManifest
  <2>3. CASE \E b \in AlteredBodies(file.body) : file' = [file EXCEPT !.body = b]
    <3>1. PICK b \in AlteredBodies(file.body) : file' = [file EXCEPT !.body = b]
      BY <2>3
    <3>2. b.final \in {file.body.final, MaxLines + 1} /\ LeavesAmong(b.leaves, file.from)
      BY <2>1, AlteredBodiesAreFaithful DEF ManifestShape
    <3>3. /\ file'.from = file.from /\ file'.body = b
          /\ file'.kind = file.kind /\ file'.over = file.over
      BY <2>1, <3>1 DEF ManifestShape
    <3>4. QED BY <2>1, <2>2, <3>2, <3>3 DEF FileInv, FromTheLog, SignedFaithfully
  <2>4. CASE \E d \in {<< >>, <<[file.body EXCEPT !.extra = 2]>>} : file' = [file EXCEPT !.sha = d]
    <3>1. PICK d : file' = [file EXCEPT !.sha = d]
      BY <2>4
    <3>2. /\ file'.from = file.from /\ file'.body = file.body
          /\ file'.kind = file.kind /\ file'.over = file.over
      BY <2>1, <3>1 DEF ManifestShape
    <3>3. QED BY <2>1, <2>2, <3>2 DEF FileInv, FromTheLog, SignedFaithfully
  <2>5. QED BY <1>7, <2>3, <2>4 DEF AlterManifest
<1>8. CASE \E record \in Records : AppendRecord(record)
  BY <1>2, <1>8 DEF AppendRecord
<1>9. CASE CheckCitations \/ Walk \/ (\E kind \in Signers : Sign(kind)) \/ Finish
  BY <1>2, <1>9 DEF CheckCitations, Walk, Sign, Finish
<1>10. CASE \E i \in DOMAIN log : AlterLine(i) \/ Respell(i) \/ GarbleLine(i) \/ AddReturn(i)
  BY <1>2, <1>10 DEF AlterLine, Respell, GarbleLine, AddReturn
<1>11. CASE \E n \in 0..(Len(log) - 1) : LoseTail(n)
  BY <1>2, <1>11 DEF LoseTail
<1>12. CASE UNCHANGED vars
  BY <1>2, <1>12 DEF vars
<1>13. QED BY <1>4, <1>5, <1>6, <1>7, <1>8, <1>9, <1>10, <1>11, <1>12 DEF Next

\* The invariant holds before the first record.
LEMMA SealInitial == Init => SealInv
<1>1. Init => Issued(log, lastId) /\ DraftInv /\ FileInv
  BY DEF Init, Issued, DraftInv, FileInv, Absent
<1>2. QED BY <1>1, TypeInitial DEF SealInv

\* Every step keeps the whole invariant.
LEMMA SealStep == SealInv /\ [Next]_vars => SealInv'
<1>1. SUFFICES ASSUME SealInv, [Next]_vars PROVE SealInv'
  OBVIOUS
<1>2. TypeOK' /\ DraftInv' /\ FileInv'
  BY <1>1, TypeStep, DraftStep, FileStep DEF SealInv
<1>3. Issued(log', lastId')
  <2>1. /\ log \in Seq(Line) /\ log' \in Seq(Line) /\ lastId \in Nat /\ lastId' \in Nat
        /\ Follows(log', log, lastId, lastId')
    BY <1>1, LogFollows, LogAssumption DEF SealInv, TypeOK
  <2>2. QED BY <1>1, <2>1, FollowsIssued DEF SealInv
<1>4. QED BY <1>2, <1>3 DEF SealInv

(* In every run: the types, each identity in one line, what the manifest in *)
(* hand and the one on the disk were made from, and what became of it.      *)
THEOREM SealInvariant == Spec => []SealInv
<1>1. QED BY SealInitial, SealStep, PTL DEF Spec

-----------------------------------------------------------------------------
(* What a verifier accepts.                                                 *)

\* The digest of the last line of a list that is not empty.
LEMMA LastOfLines ==
  ASSUME NEW l \in Seq(Line), l # << >>
  PROVE  /\ Len(l) \in Nat /\ Len(l) >= 1 /\ Len(l) \in DOMAIN l
         /\ Last(l) = l[Len(l)]
  BY DEF Last

\* Two lists end alike: both are empty, or the last record of the one, or the bytes
\* of its last line, are the last record of the other.
EndAlike(l, f) ==
  IF l = << >> THEN f = << >> ELSE f # << >> /\ (Last(l).id = Last(f).id \/ Last(l).raw = Last(f).id)

\* A log whose lines name one another and that ends as a list it was made from has
\* the records of that list and no other; and the same lines, but for the last one
\* unless its bytes were compared.
LEMMA EndDeterminesAll ==
  ASSUME NEW l \in Seq(Line), NEW f \in Seq(Line), NEW n \in Nat,
         Issued(l, n), Issued(f, n), Kept(f, l),
         \A i \in DOMAIN l : i # 1 => l[i].prev = l[i - 1].raw,
         EndAlike(l, f)
  PROVE  /\ Len(l) = Len(f)
         /\ \A i \in DOMAIN l : /\ SameLine(l[i], f[i])
                                /\ i < Len(l) \/ Last(l).raw = Last(f).id => SameBytes(l[i], f[i])
<1>1. CASE l = << >>
  BY <1>1 DEF EndAlike
<1>2. CASE l # << >>
  <2>1. /\ Len(l) \in Nat /\ Len(l) >= 1 /\ Len(l) \in DOMAIN l /\ Last(l) = l[Len(l)]
        /\ l[Len(l)].id \in 1..n /\ l[Len(l)].raw \in 1..n
    BY <1>2, LastOfLines DEF Issued
  <2>2. f # << >>
    BY <1>2 DEF EndAlike
  <2>3. /\ Len(f) \in Nat /\ Len(f) >= 1 /\ Len(f) \in DOMAIN f /\ Last(f) = f[Len(f)]
        /\ f[Len(f)].id \in 1..n
    BY <2>2, LastOfLines DEF Issued
  <2>4. l[Len(l)].id = f[Len(f)].id \/ l[Len(l)].raw = f[Len(f)].id
    BY <1>2, <2>1, <2>3 DEF EndAlike
  <2>5. ~ (Newer(l[Len(l)].id, f) /\ Newer(l[Len(l)].raw, f))
    BY <2>1, <2>3, <2>4 DEF Newer
  <2>6. /\ Len(l) \in DOMAIN f /\ SameLine(l[Len(l)], f[Len(l)])
        /\ SameBytes(l[Len(l)], f[Len(l)]) \/ Newer(l[Len(l)].raw, f)
    BY <2>1, <2>5 DEF Kept
  <2>7. l[Len(l)].raw = f[Len(f)].id => SameBytes(l[Len(l)], f[Len(l)])
    <3>1. l[Len(l)].raw = f[Len(f)].id => ~ Newer(l[Len(l)].raw, f)
      BY <2>3 DEF Newer
    <3>2. QED BY <2>6, <3>1
  <2>8. Len(l) = Len(f)
    <3>1. f[Len(l)].id = f[Len(f)].id \/ f[Len(l)].raw = f[Len(f)].id
      BY <2>4, <2>6, <2>7 DEF SameLine, SameBytes
    <3>2. QED BY <2>3, <2>6, <3>1 DEF Issued
  <2> DEFINE Matches(i) == SameLine(l[i], f[i]) /\ (i < Len(l) => SameBytes(l[i], f[i]))
             S == {i \in 0..Len(l) : i >= 1 => Matches(i)}
  <2>9. ASSUME NEW i \in 1..Len(l), i \in S PROVE (i - 1) \in S
    <3>1. CASE i = 1
      BY <2>1, <3>1
    <3>2. CASE i # 1
      <4>1. i \in DOMAIN l /\ i \in DOMAIN f /\ i - 1 \in DOMAIN l /\ i - 1 \in 0..Len(l)
        BY <2>1, <2>3, <2>8, <3>2
      <4>2. SameLine(l[i], f[i])
        BY <2>9
      <4>3. f[i].prev = l[i - 1].raw
        BY <3>2, <4>1, <4>2 DEF SameLine
      <4>4. l[i - 1].raw \in Nat
        BY <4>1, LineTypes
      <4>5. ~ Newer(l[i - 1].raw, f)
        BY <4>1, <4>3, <4>4 DEF Newer
      <4>6. SameLine(l[i - 1], f[i - 1]) /\ SameBytes(l[i - 1], f[i - 1])
        BY <4>1, <4>5 DEF Kept
      <4>7. QED BY <4>1, <4>6
    <3>3. QED BY <3>1, <3>2
  <2>10. Len(l) \in S
    BY <2>1, <2>6
  <2> HIDE DEF S
  <2>11. 0..Len(l) \subseteq S
    BY <2>1, <2>9, <2>10, DownwardInduction
  <2>12. \A i \in DOMAIN l : i \in 0..Len(l) /\ i >= 1 /\ (i < Len(l) \/ i = Len(l))
    BY <2>1
  <2>13. \A i \in DOMAIN l : Matches(i)
    <3> HIDE DEF Matches
    <3>1. QED BY <2>11, <2>12 DEF S
  <2>14. QED BY <2>1, <2>3, <2>7, <2>8, <2>12, <2>13
<1>3. QED BY <1>1, <1>2

\* The identity of the bytes of the last line.
RawEnd(l) == IF l = << >> THEN 0 ELSE Last(l).raw

\* No line of the log has the identity an altered final hash has.
LEMMA FinalIsNotAltered ==
  ASSUME SealInv
  PROVE  FinalHash(log) # MaxLines + 1 /\ RawEnd(log) # MaxLines + 1
<1>1. lastId \in Nat /\ MaxLines \in Nat /\ lastId <= MaxLines
  BY LogAssumption DEF SealInv, TypeOK
<1>2. CASE log = << >>
  BY <1>1, <1>2 DEF FinalHash, RawEnd
<1>3. CASE log # << >>
  <2>1. Len(log) \in DOMAIN log /\ Last(log) = log[Len(log)]
    BY <1>3, LastOfLines DEF SealInv, TypeOK
  <2>2. log[Len(log)].id \in 1..lastId /\ log[Len(log)].raw \in 1..lastId
    BY <2>1 DEF SealInv, Issued
  <2>3. QED BY <1>1, <1>3, <2>1, <2>2 DEF FinalHash, RawEnd
<1>4. QED BY <1>2, <1>3

\* A log with the final hash of another, of its last record or its last line, ends
\* like it.
LEMMA SameFinalEndsAlike ==
  ASSUME NEW l \in Seq(Line), NEW f \in Seq(Line), NEW n \in Nat, Issued(l, n), Issued(f, n),
         FinalHash(f) \in {FinalHash(l), RawEnd(l)}
  PROVE  EndAlike(l, f)
<1>1. l # << >> => Last(l).id \in 1..n /\ Last(l).raw \in 1..n
  BY LastOfLines DEF Issued
<1>2. f # << >> => Last(f).id \in 1..n
  BY LastOfLines DEF Issued
<1>3. QED BY <1>1, <1>2 DEF EndAlike, FinalHash, RawEnd

\* So whichever verifier compares the final hash and follows the names of the
\* lines has the records that were sealed, and the lines if it compares bytes.
LEMMA AcceptedLines ==
  ASSUME SealInv, file.state = "written", file.body.final \in {FinalHash(log), RawEnd(log)},
         \A i \in DOMAIN log : i # 1 => log[i].prev = log[i - 1].raw
  PROVE  /\ file.from \in Seq(Line) /\ log \in Seq(Line) /\ Len(log) = Len(file.from)
         /\ \A i \in DOMAIN log :
              /\ SameLine(log[i], file.from[i])
              /\ i < Len(log) \/ file.body.final = RawEnd(log) => SameBytes(log[i], file.from[i])
<1>1. file.from \in Seq(Line) /\ log \in Seq(Line) /\ lastId \in Nat
  BY LogAssumption DEF SealInv, TypeOK, Absent, Torn, ManifestShape
<1>2. Issued(log, lastId) /\ Issued(file.from, lastId) /\ Kept(file.from, log)
  BY DEF SealInv, FileInv, FromTheLog
<1>3. FinalHash(file.from) = file.body.final
  BY FinalIsNotAltered DEF SealInv, FileInv
<1>4. EndAlike(log, file.from)
  BY <1>1, <1>2, <1>3, SameFinalEndsAlike
<1>5. /\ Len(log) = Len(file.from)
      /\ \A i \in DOMAIN log :
           /\ SameLine(log[i], file.from[i])
           /\ i < Len(log) \/ Last(log).raw = Last(file.from).id => SameBytes(log[i], file.from[i])
  BY <1>1, <1>2, <1>4, EndDeterminesAll
<1>6. ASSUME NEW i \in DOMAIN log, file.body.final = RawEnd(log)
      PROVE  Last(log).raw = Last(file.from).id
  <2>1. log # << >> /\ file.from # << >>
    BY <1>1, <1>4, <1>6 DEF EndAlike
  <2>2. QED BY <1>3, <1>6, <2>1 DEF FinalHash, RawEnd
<1>7. QED BY <1>1, <1>5, <1>6

\* A line is its fields.
LEMMA LinesEqual ==
  ASSUME NEW a \in Line, NEW b \in Line,
         a.id = b.id, a.raw = b.raw, a.seq = b.seq, a.prev = b.prev, a.kind = b.kind,
         a.call = b.call, a.readable = b.readable, a.canonical = b.canonical,
         a.returns = b.returns
  PROVE  a = b
  BY DEF Line

\* Two lines that differ in their bytes alone have the same record.
LEMMA RecordsEqual ==
  ASSUME NEW a \in Line, NEW b \in Line,
         a.id = b.id, a.seq = b.seq, a.prev = b.prev, a.kind = b.kind,
         a.call = b.call, a.readable = b.readable, a.returns = b.returns
  PROVE  SameRecord(a, b)
<1> DEFINE Bare(c) == [c EXCEPT !.raw = 0, !.canonical = TRUE]
<1>1. ASSUME NEW c \in Line
      PROVE  /\ Bare(c) \in Line
             /\ Bare(c).id = c.id /\ Bare(c).raw = 0 /\ Bare(c).seq = c.seq
             /\ Bare(c).prev = c.prev /\ Bare(c).kind = c.kind /\ Bare(c).call = c.call
             /\ Bare(c).readable = c.readable /\ Bare(c).canonical = TRUE
             /\ Bare(c).returns = c.returns
  <2>1. [c EXCEPT !.raw = 0] \in Line
    BY DEF Line
  <2>2. Bare(c) = [[c EXCEPT !.raw = 0] EXCEPT !.canonical = TRUE]
    BY DEF Line
  <2>3. Bare(c) \in Line
    BY <2>1, <2>2 DEF Line
  <2>4. QED BY <2>3 DEF Line
<1> HIDE DEF Bare
<1>2. Bare(a) = Bare(b)
  <2>1. Bare(a) \in Line /\ Bare(b) \in Line
    BY <1>1
  <2>2. /\ Bare(a).id = Bare(b).id /\ Bare(a).raw = Bare(b).raw /\ Bare(a).seq = Bare(b).seq
        /\ Bare(a).prev = Bare(b).prev /\ Bare(a).kind = Bare(b).kind
        /\ Bare(a).call = Bare(b).call /\ Bare(a).readable = Bare(b).readable
        /\ Bare(a).canonical = Bare(b).canonical /\ Bare(a).returns = Bare(b).returns
    <3>1. Bare(a).id = a.id /\ Bare(a).raw = 0 /\ Bare(a).seq = a.seq /\ Bare(a).prev = a.prev
          /\ Bare(a).kind = a.kind /\ Bare(a).call = a.call /\ Bare(a).readable = a.readable
          /\ Bare(a).canonical = TRUE /\ Bare(a).returns = a.returns
      BY <1>1, Zenon
    <3>2. Bare(b).id = b.id /\ Bare(b).raw = 0 /\ Bare(b).seq = b.seq /\ Bare(b).prev = b.prev
          /\ Bare(b).kind = b.kind /\ Bare(b).call = b.call /\ Bare(b).readable = b.readable
          /\ Bare(b).canonical = TRUE /\ Bare(b).returns = b.returns
      BY <1>1, Zenon
    <3>3. QED BY <3>1, <3>2, Zenon
  <2> HIDE DEF Bare
  <2>3. QED BY <2>1, <2>2, LinesEqual, Zenon
<1>3. QED BY <1>2 DEF SameRecord, Bare

(* manifest_verify says overall only of a log that is the sealed one,       *)
(* record by record, and line by line before the last one.                  *)
LEMMA OverallIsUntouched ==
  ASSUME SealInv, Overall
  PROVE  /\ Len(log) = Len(file.from) /\ file.from \in Seq(Line)
         /\ \A i \in DOMAIN log :
              /\ i < Len(log) => log[i] = file.from[i]
              /\ SameRecord(log[i], file.from[i]) /\ SameLine(log[i], file.from[i])
         /\ file.kind = "ed25519" => file.body = Body(file.from)
<1>1. /\ file.from \in Seq(Line) /\ log \in Seq(Line) /\ Len(log) = Len(file.from)
      /\ \A i \in DOMAIN log : /\ SameLine(log[i], file.from[i])
                               /\ i < Len(log) => SameBytes(log[i], file.from[i])
  <2>1. file.body.final = FinalHash(log) /\ \A i \in DOMAIN log : i # 1 => log[i].prev = log[i - 1].raw
    BY DEF Overall, LogAgrees, ChainVerifies
  <2>2. file.state = "written"
    BY DEF Overall
  <2>3. QED BY <2>1, <2>2, AcceptedLines
<1>2. ASSUME NEW i \in DOMAIN log
      PROVE  /\ i < Len(log) => log[i] = file.from[i]
             /\ SameRecord(log[i], file.from[i])
  <2>1. log[i] \in Line /\ i \in DOMAIN file.from /\ file.from[i] \in Line
    BY <1>1
  <2>2. log[i].readable /\ ~ log[i].returns /\ SameLine(log[i], file.from[i])
    BY <1>1 DEF Overall, LogAgrees, ChainVerifies
  <2>3. log[i].readable = file.from[i].readable /\ log[i].returns = file.from[i].returns
    BY <2>1, <2>2 DEF SameLine, Line
  <2>4. /\ log[i].id = file.from[i].id /\ log[i].seq = file.from[i].seq
        /\ log[i].prev = file.from[i].prev /\ log[i].kind = file.from[i].kind
        /\ log[i].call = file.from[i].call
    BY <2>2 DEF SameLine
  <2>5. SameRecord(log[i], file.from[i])
    BY <2>1, <2>3, <2>4, RecordsEqual
  <2>6. ASSUME i < Len(log) PROVE log[i] = file.from[i]
    <3>1. log[i].raw = file.from[i].raw /\ log[i].canonical = file.from[i].canonical
      BY <1>1, <2>6 DEF SameBytes
    <3>2. QED BY <2>1, <2>3, <2>4, <3>1, LinesEqual
  <2>7. QED BY <2>5, <2>6
<1>3. file.kind = "ed25519" => file.body = Body(file.from)
  <2>1. file.kind = "ed25519" => <<file.body>> = <<Body(file.from)>>
    BY DEF Overall, SignatureHolds, SignedPart, SealInv, FileInv, SignedFaithfully
  <2>2. QED BY <2>1
<1>4. QED BY <1>1, <1>2, <1>3

(* What verifies is what was sealed: the log line for line, the last one by *)
(* its record, and under an ed25519 signature the manifest too              *)
(* (manifest.py:142-149, 386-416, 471-484).                                 *)
THEOREM VerifiedIsUntouched == Spec => []VerifiedMeansUntouched
<1>1. ASSUME SealInv PROVE VerifiedMeansUntouched
  BY <1>1, OverallIsUntouched DEF VerifiedMeansUntouched
<1>2. QED BY <1>1, SealInvariant, PTL

\* What is cited is a matter of the kinds of the records and of the calls they name.
LEMMA UncitedByRecords ==
  ASSUME NEW l, NEW f, DOMAIN l = DOMAIN f,
         \A i \in DOMAIN l : l[i].kind = f[i].kind /\ l[i].call = f[i].call,
         \A i \in DOMAIN l : 1..(i - 1) \subseteq DOMAIN l
  PROVE  Uncited(l) = Uncited(f)
<1>1. ASSUME NEW i \in DOMAIN l
      PROVE  CitedIn(l, i, 1..(i - 1)) <=> CitedIn(f, i, 1..(i - 1))
  BY DEF CitedIn
<1>2. QED BY <1>1 DEF Uncited

(* "an uncited finding must never be sealed" (manifest.py:194-196), as long *)
(* as nobody else appends between the pass for the citations and the one    *)
(* for the leaves.                                                          *)
THEOREM VerifiedIsCited ==
  ASSUME ~ OthersAppend
  PROVE  Spec => []VerifiedMeansCited
<1>1. ASSUME SealInv PROVE VerifiedMeansCited
  <2>1. SUFFICES ASSUME Overall PROVE Uncited(log) = {}
    BY DEF VerifiedMeansCited
  <2>2. /\ log \in Seq(Line) /\ file.from \in Seq(Line) /\ Len(log) = Len(file.from)
        /\ \A i \in DOMAIN log : log[i].kind = file.from[i].kind /\ log[i].call = file.from[i].call
    BY <1>1, <2>1, OverallIsUntouched DEF SameLine, SealInv, TypeOK
  <2>3. Uncited(file.from) = {}
    BY <1>1, <2>1 DEF Overall, SealInv, FileInv, FromTheLog
  <2>4. DOMAIN log = DOMAIN file.from /\ \A i \in DOMAIN log : 1..(i - 1) \subseteq DOMAIN log
    BY <2>2
  <2>5. QED BY <2>2, <2>3, <2>4, UncitedByRecords
<1>2. QED BY <1>1, SealInvariant, PTL

\* The leaves of a log are at the positions of its tool calls and findings.
LEMMA LeavesOfBody ==
  \A l : /\ Body(l).count = Len(l) /\ Body(l).final = FinalHash(l)
         /\ Body(l).leaves = Leaves(l) /\ Body(l).root = Leaves(l)
         /\ Body(l).leafCount = Cardinality(DOMAIN Leaves(l))
  BY DEF Body, Leaves

(* A manifest of a chain that replays verifies until somebody touches one   *)
(* of the two files, after any number of crashed attempts.                  *)
THEOREM CleanRunsVerify == Spec => []CleanRunVerifies
<1>1. ASSUME SealInv PROVE CleanRunVerifies
  <2>1. SUFFICES ASSUME file.state = "written", there, log = file.from,
                        ChainVerifies(log), file.body = Body(log), SignaturePresent(file)
                 PROVE  Overall
    BY DEF CleanRunVerifies
  <2>2. OpensWell(log)
    <3>1. SUFFICES ASSUME log # << >> PROVE Last(log).readable /\ Last(log).seq = Len(log)
      BY DEF OpensWell
    <3>2. Len(log) \in DOMAIN log /\ Last(log) = log[Len(log)]
      BY <1>1, <3>1, LastOfLines DEF SealInv, TypeOK
    <3>3. QED BY <2>1, <3>2 DEF ChainVerifies
  <2>3. /\ file.body.count = Len(log) /\ file.body.final = FinalHash(log)
        /\ file.body.leaves = Leaves(log) /\ file.body.root = Leaves(log)
        /\ file.body.leafCount = Cardinality(DOMAIN Leaves(log))
    BY <2>1, LeavesOfBody
  <2>4. file.kind = "ed25519" => file.over = SignedPart(file)
    BY <1>1, <2>1 DEF SealInv, FileInv, SignedFaithfully, SignedPart
  <2>5. QED BY <2>1, <2>2, <2>3, <2>4 DEF Overall, LogAgrees, SignatureHolds
<1>2. QED BY <1>1, SealInvariant, PTL

-----------------------------------------------------------------------------
(* The three other verifiers.                                               *)

\* The digest of the last line of a log without a carriage return at its end.
LEMMA DigestIsRawEnd ==
  ASSUME NEW l \in Seq(Line), \A i \in DOMAIN l : ~ l[i].returns
  PROVE  DigestOfLast(l) = RawEnd(l)
<1>1. CASE l = << >>
  BY <1>1 DEF DigestOfLast, RawEnd
<1>2. CASE l # << >>
  <2>1. Len(l) \in DOMAIN l /\ Last(l) = l[Len(l)]
    BY <1>2, LastOfLines
  <2>2. QED BY <1>2, <2>1 DEF DigestOfLast, RawEnd, Digest
<1>3. QED BY <1>1, <1>2

\* A log that replays opens.
LEMMA ReplayOpens ==
  ASSUME NEW l \in Seq(Line), ChainVerifies(l)
  PROVE  OpensWell(l)
<1>1. ASSUME l # << >> PROVE Last(l).readable /\ Last(l).seq = Len(l)
  <2>1. Len(l) \in DOMAIN l /\ Last(l) = l[Len(l)]
    BY <1>1, LastOfLines
  <2>2. QED BY <2>1 DEF ChainVerifies
<1>2. QED BY <1>1 DEF OpensWell

\* What is left of the lines when their ends are taken off.
LEMMA StrippedLines ==
  ASSUME NEW l \in Seq(Line)
  PROVE  /\ Stripped(l) \in Seq(Line) /\ DOMAIN Stripped(l) = DOMAIN l /\ Len(Stripped(l)) = Len(l)
         /\ \A i \in DOMAIN l :
              /\ Stripped(l)[i].id = l[i].id /\ Stripped(l)[i].raw = l[i].raw
              /\ Stripped(l)[i].seq = l[i].seq /\ Stripped(l)[i].canonical = l[i].canonical
              /\ Stripped(l)[i].prev = l[i].prev /\ Stripped(l)[i].kind = l[i].kind
              /\ Stripped(l)[i].call = l[i].call
              /\ Stripped(l)[i].readable = l[i].readable /\ Stripped(l)[i].returns = FALSE
<1>1. ASSUME NEW i \in DOMAIN l
      PROVE  /\ [l[i] EXCEPT !.returns = FALSE] \in Line
             /\ Stripped(l)[i] = [l[i] EXCEPT !.returns = FALSE]
  <2>1. l[i] \in Line
    OBVIOUS
  <2>2. [l[i] EXCEPT !.returns = FALSE] \in Line
    BY <2>1 DEF Line
  <2>3. QED BY <2>2 DEF Stripped
<1>2. DOMAIN Stripped(l) = DOMAIN l /\ DOMAIN l = 1..Len(l) /\ Len(l) \in Nat
  BY DEF Stripped
<1>3. Stripped(l) \in [1..Len(l) -> Line]
  BY <1>1, <1>2 DEF Stripped
<1>4. Stripped(l) \in Seq(Line) /\ Len(Stripped(l)) = Len(l)
  BY <1>2, <1>3
<1>5. ASSUME NEW i \in DOMAIN l
      PROVE  /\ Stripped(l)[i].id = l[i].id /\ Stripped(l)[i].raw = l[i].raw
             /\ Stripped(l)[i].seq = l[i].seq /\ Stripped(l)[i].canonical = l[i].canonical
             /\ Stripped(l)[i].prev = l[i].prev /\ Stripped(l)[i].kind = l[i].kind
             /\ Stripped(l)[i].call = l[i].call
             /\ Stripped(l)[i].readable = l[i].readable /\ Stripped(l)[i].returns = FALSE
  <2>1. l[i] \in Line
    OBVIOUS
  <2>2. Stripped(l)[i] = [l[i] EXCEPT !.returns = FALSE]
    BY <1>1
  <2>3. QED BY <2>1, <2>2 DEF Line
<1>6. QED BY <1>2, <1>4, <1>5

\* Nothing is left of a log that has no carriage return to take off.
LEMMA StrippedAlready ==
  ASSUME NEW l \in Seq(Line), \A i \in DOMAIN l : ~ l[i].returns
  PROVE  Stripped(l) = l
<1> DEFINE s == Stripped(l)
<1>1. /\ s \in Seq(Line) /\ DOMAIN s = DOMAIN l /\ Len(s) = Len(l)
      /\ \A i \in DOMAIN l :
           /\ s[i].id = l[i].id /\ s[i].raw = l[i].raw
           /\ s[i].canonical = l[i].canonical /\ s[i].seq = l[i].seq /\ s[i].prev = l[i].prev
           /\ s[i].kind = l[i].kind /\ s[i].call = l[i].call
           /\ s[i].readable = l[i].readable /\ s[i].returns = FALSE
  BY StrippedLines
<1> HIDE DEF s
<1>2. ASSUME NEW i \in DOMAIN l PROVE s[i] = l[i]
  <2>1. l[i] \in Line /\ s[i] \in Line
    BY <1>1
  <2>2. l[i].returns = FALSE
    BY <2>1 DEF Line
  <2>3. QED BY <1>1, <2>1, <2>2, LinesEqual
<1>3. s = l
  BY <1>1, <1>2
<1>4. QED BY <1>3 DEF s

\* A list of lines and what was made from it, equal but for line ends.
LEMMA StrippedAgree ==
  ASSUME NEW l \in Seq(Line), NEW f \in Seq(Line), Len(l) = Len(f),
         \A i \in DOMAIN l : /\ l[i].readable /\ SameLine(l[i], f[i])
                            /\ SameBytes(l[i], f[i])
  PROVE  Stripped(l) = Stripped(f)
<1> DEFINE s == Stripped(l)
           t == Stripped(f)
<1>1. DOMAIN l = DOMAIN f
  OBVIOUS
<1>2. /\ s \in Seq(Line) /\ DOMAIN s = DOMAIN l /\ Len(s) = Len(l)
      /\ \A i \in DOMAIN l :
           /\ s[i].id = l[i].id /\ s[i].raw = l[i].raw
           /\ s[i].canonical = l[i].canonical /\ s[i].seq = l[i].seq /\ s[i].prev = l[i].prev
           /\ s[i].kind = l[i].kind /\ s[i].call = l[i].call
           /\ s[i].readable = l[i].readable /\ s[i].returns = FALSE
  BY StrippedLines
<1>3. /\ t \in Seq(Line) /\ DOMAIN t = DOMAIN f /\ Len(t) = Len(f)
      /\ \A i \in DOMAIN f :
           /\ t[i].id = f[i].id /\ t[i].raw = f[i].raw
           /\ t[i].canonical = f[i].canonical /\ t[i].seq = f[i].seq /\ t[i].prev = f[i].prev
           /\ t[i].kind = f[i].kind /\ t[i].call = f[i].call
           /\ t[i].readable = f[i].readable /\ t[i].returns = FALSE
  BY StrippedLines
<1> HIDE DEF s, t
<1>4. ASSUME NEW i \in DOMAIN l PROVE s[i] = t[i]
  <2>1. s[i] \in Line /\ t[i] \in Line
    BY <1>1, <1>2, <1>3
  <2>2. l[i].readable = TRUE /\ f[i].readable = TRUE
    BY <1>1, LineTypes DEF SameLine
  <2>3. /\ s[i].id = t[i].id /\ s[i].raw = t[i].raw /\ s[i].canonical = t[i].canonical
        /\ s[i].seq = t[i].seq /\ s[i].prev = t[i].prev
        /\ s[i].kind = t[i].kind /\ s[i].call = t[i].call
        /\ s[i].readable = t[i].readable /\ s[i].returns = t[i].returns
    <3>1. /\ l[i].id = f[i].id /\ l[i].seq = f[i].seq /\ l[i].prev = f[i].prev
          /\ l[i].kind = f[i].kind /\ l[i].call = f[i].call
          /\ l[i].raw = f[i].raw /\ l[i].canonical = f[i].canonical
      BY DEF SameLine, SameBytes
    <3>2. i \in DOMAIN f
      BY <1>1
    <3>3. QED BY <1>2, <1>3, <2>2, <3>1, <3>2
  <2>4. QED BY <2>1, <2>3, LinesEqual
<1>5. s = t
  BY <1>1, <1>2, <1>3, <1>4
<1>6. QED BY <1>5 DEF s, t

\* The lines as they are written have the kinds, calls and places they have as records.
LEMMA WrittenLines ==
  ASSUME NEW l \in Seq(Line)
  PROVE  /\ DOMAIN AsWritten(l) = DOMAIN l /\ Eligible(AsWritten(l)) = Eligible(l)
         /\ \A i \in DOMAIN l :
              Leaf(AsWritten(l)[i]) =
                [seq |-> l[i].seq, kind |-> l[i].kind,
                 digest |-> IF l[i].kind = "tool_call_output" THEN <<l[i].call>> ELSE <<l[i].raw>>]
<1>1. DOMAIN AsWritten(l) = DOMAIN l
  BY DEF AsWritten
<1>2. ASSUME NEW i \in DOMAIN l
      PROVE  /\ AsWritten(l)[i].kind = l[i].kind /\ AsWritten(l)[i].call = l[i].call
             /\ AsWritten(l)[i].seq = l[i].seq /\ AsWritten(l)[i].id = l[i].raw
  <2>1. l[i] \in Line
    OBVIOUS
  <2>2. AsWritten(l)[i] = [l[i] EXCEPT !.id = l[i].raw]
    BY DEF AsWritten
  <2>3. QED BY <2>1, <2>2 DEF Line
<1>3. Eligible(AsWritten(l)) = Eligible(l)
  BY <1>1, <1>2 DEF Eligible
<1>4. QED BY <1>1, <1>2, <1>3 DEF Leaf

\* Leaves of the lines as they are written are those of their records where the
\* findings are.
LEMMA RawLeavesAgree ==
  ASSUME NEW l \in Seq(Line), \A i \in DOMAIN l : l[i].kind = "finding_approved" => l[i].id = l[i].raw
  PROVE  RawLeaves(l) = Leaves(l)
<1>1. ASSUME NEW i \in DOMAIN l PROVE l[i].kind \in Kinds
  <2>1. l[i] \in Line
    OBVIOUS
  <2>2. QED BY <2>1 DEF Line
<1>2. ASSUME NEW i \in Eligible(l) PROVE Leaf(AsWritten(l)[i]) = Leaf(l[i])
  BY <1>1, <1>2, WrittenLines DEF Eligible, Leaf, Kinds
<1>3. QED BY <1>2, WrittenLines DEF RawLeaves, Leaves

\* In a list whose last digest and whose leaves were taken of its lines, and are
\* those of its records, what these are of is written as it is read.
LEMMA SealedLeavesAreRaw ==
  ASSUME NEW l \in Seq(Line), LeavesAmong(RawLeaves(l), l), FinalHash(l) = RawEnd(l)
  PROVE  ReadAsWritten(l)
<1>1. ASSUME NEW i \in DOMAIN l, l[i].kind = "finding_approved" PROVE l[i].id = l[i].raw
  <2>1. i \in Eligible(l)
    BY <1>1 DEF Eligible
  <2>2. i \in DOMAIN RawLeaves(l) /\ RawLeaves(l)[i] = Leaf(AsWritten(l)[i])
    BY <2>1, WrittenLines DEF RawLeaves, Leaves
  <2>3. Leaf(AsWritten(l)[i]) = Leaf(l[i])
    BY <2>2 DEF LeavesAmong
  <2>4. Leaf(AsWritten(l)[i]).digest = <<l[i].raw>>
    <3>1. Leaf(AsWritten(l)[i]) =
            [seq |-> l[i].seq, kind |-> l[i].kind,
             digest |-> IF l[i].kind = "tool_call_output" THEN <<l[i].call>> ELSE <<l[i].raw>>]
      BY WrittenLines
    <3>2. l[i].kind # "tool_call_output"
      BY <1>1
    <3>3. QED BY <3>1, <3>2
  <2>5. Leaf(l[i]).digest = <<l[i].id>>
    BY <1>1 DEF Leaf
  <2>6. <<l[i].raw>> = <<l[i].id>>
    BY <2>3, <2>4, <2>5
  <2>7. QED BY <2>6
<1>2. ASSUME NEW i \in DOMAIN l, i = Len(l) PROVE l[i].id = l[i].raw
  <2>1. l # << >> /\ Last(l) = l[i]
    BY <1>2, LastOfLines
  <2>2. QED BY <2>1 DEF FinalHash, RawEnd
<1>3. QED BY <1>1, <1>2 DEF ReadAsWritten

\* What the offline script accepts is the log that was sealed, byte for byte.
LEMMA OfflineIsSealed ==
  ASSUME SealInv, OfflineOverall
  PROVE  log = file.from /\ file.body.final = RawEnd(log)
<1>1. log \in Seq(Line) /\ ChainVerifies(log) /\ file.state = "written"
  BY DEF SealInv, TypeOK, OfflineOverall, OfflineReplays
<1>2. file.body.final = RawEnd(log)
  BY <1>1, DigestIsRawEnd DEF OfflineOverall, OfflineLogAgrees, ChainVerifies
<1>3. /\ file.from \in Seq(Line) /\ Len(log) = Len(file.from)
      /\ \A i \in DOMAIN log : SameLine(log[i], file.from[i]) /\ SameBytes(log[i], file.from[i])
  <2>1. \A i \in DOMAIN log : i # 1 => log[i].prev = log[i - 1].raw
    BY <1>1 DEF ChainVerifies
  <2>2. QED BY <1>1, <1>2, <2>1, AcceptedLines
<1>4. ASSUME NEW i \in DOMAIN log PROVE log[i] = file.from[i]
  <2>1. log[i] \in Line /\ i \in DOMAIN file.from /\ file.from[i] \in Line
    BY <1>1, <1>3
  <2>2. log[i].readable /\ ~ log[i].returns
    BY <1>1 DEF ChainVerifies
  <2>3. /\ log[i].readable = file.from[i].readable /\ log[i].returns = file.from[i].returns
        /\ log[i].id = file.from[i].id /\ log[i].seq = file.from[i].seq
        /\ log[i].prev = file.from[i].prev /\ log[i].kind = file.from[i].kind
        /\ log[i].call = file.from[i].call
        /\ log[i].raw = file.from[i].raw /\ log[i].canonical = file.from[i].canonical
    BY <1>3, <2>1, <2>2 DEF SameLine, SameBytes, Line
  <2>4. QED BY <2>1, <2>3, LinesEqual
<1>5. QED BY <1>1, <1>2, <1>3, <1>4

\* The offline checker and manifest_verify differ on the empty log, and on records
\* whose digests they take of other bytes, only.
LEMMA OfflineAgrees ==
  ASSUME SealInv
  PROVE  OfflineOverall <=> (Overall /\ log # << >> /\ ReadAsWritten(log))
<1>1. log \in Seq(Line)
  BY DEF SealInv, TypeOK
<1>2. ChainVerifies(log) => OpensWell(log) /\ DigestOfLast(log) = RawEnd(log)
  BY <1>1, ReplayOpens, DigestIsRawEnd DEF ChainVerifies
<1>3. OfflineSignedPart(file) = SignedPart(file)
  BY DEF OfflineSignedPart, SignedPart
<1>4. ReadAsWritten(log) => RawLeaves(log) = Leaves(log)
  BY <1>1, RawLeavesAgree DEF ReadAsWritten
<1>5. ReadAsWritten(log) => RawEnd(log) = FinalHash(log)
  BY <1>1, LastOfLines DEF ReadAsWritten, RawEnd, FinalHash
<1>6. ASSUME OfflineOverall PROVE ReadAsWritten(log)
  <2>1. log = file.from /\ file.body.final = RawEnd(log) /\ file.state = "written"
    BY <1>6, OfflineIsSealed DEF OfflineOverall
  <2>2. file.body.final \in {FinalHash(log), MaxLines + 1} /\ LeavesAmong(file.body.leaves, log)
    BY <2>1 DEF SealInv, FileInv
  <2>3. FinalHash(log) = RawEnd(log)
    BY <2>1, <2>2, FinalIsNotAltered
  <2>4. LeavesAmong(RawLeaves(log), log)
    BY <1>6, <2>2 DEF OfflineOverall, OfflineLogAgrees
  <2>5. QED BY <1>1, <2>3, <2>4, SealedLeavesAreRaw
<1>7. ASSUME ReadAsWritten(log)
      PROVE  OfflineOverall <=> (Overall /\ log # << >>)
  BY <1>2, <1>3, <1>4, <1>5, <1>7
     DEF OfflineOverall, OfflineReplays, OfflineLogAgrees, Overall, LogAgrees, SignatureHolds
<1>8. QED BY <1>6, <1>7

\* The browser and the packet check see the lines without their ends: each
\* readable, naming the one before it, the last one by the final hash.
LEMMA StrippedIsSealed ==
  ASSUME SealInv, file.state = "written",
         file.body.final = DigestOfLast(Stripped(log)),
         Folds(Stripped(log)) \/ ChainVerifies(Stripped(log))
  PROVE  Stripped(log) = Stripped(file.from)
<1> DEFINE l == Stripped(log)
<1>1. /\ log \in Seq(Line) /\ l \in Seq(Line) /\ DOMAIN l = DOMAIN log /\ Len(l) = Len(log)
      /\ \A i \in DOMAIN log : /\ l[i].raw = log[i].raw /\ l[i].prev = log[i].prev
                               /\ l[i].readable = log[i].readable /\ ~ l[i].returns
  BY StrippedLines DEF SealInv, TypeOK
<1>2. \A i \in DOMAIN log : i # 1 => i - 1 \in DOMAIN log
  BY <1>1
<1>3. DigestOfLast(l) = RawEnd(l)
  BY <1>1, DigestIsRawEnd
<1>4. RawEnd(l) = RawEnd(log)
  <2>1. CASE log = << >>
    BY <1>1, <2>1 DEF RawEnd
  <2>2. CASE log # << >>
    <3>1. l # << >> /\ Len(log) \in DOMAIN log /\ Last(log) = log[Len(log)] /\ Last(l) = l[Len(l)]
      BY <1>1, <2>2, LastOfLines
    <3>2. QED BY <1>1, <2>2, <3>1 DEF RawEnd
  <2>3. QED BY <2>1, <2>2
<1>5. ASSUME NEW i \in DOMAIN log
      PROVE  log[i].readable /\ (i # 1 => log[i].prev = log[i - 1].raw)
  <2>1. CASE Folds(l)
    BY <1>1, <1>2, <2>1 DEF Folds, Digest
  <2>2. CASE ChainVerifies(l)
    BY <1>1, <1>2, <2>2 DEF ChainVerifies
  <2>3. QED BY <2>1, <2>2
<1>6. /\ file.from \in Seq(Line) /\ Len(log) = Len(file.from)
      /\ \A i \in DOMAIN log : SameLine(log[i], file.from[i]) /\ SameBytes(log[i], file.from[i])
  <2>1. file.body.final = RawEnd(log)
    BY <1>3, <1>4
  <2>2. QED BY <1>5, <2>1, AcceptedLines
<1>7. QED BY <1>1, <1>5, <1>6, StrippedAgree

(* What manifest_verify and the offline script pass, the check of the       *)
(* packet passes if the local key signed it and the digest beside the       *)
(* signature is that of the body, and the browser if no local key did.      *)
LEMMA OthersAcceptIt ==
  ASSUME SealInv, Overall, OfflineOverall
  PROVE  IF file.kind = "ed25519" THEN PacketOverall <=> file.sha = SignedPart(file)
                                  ELSE BrowserOverall
<1>1. log \in Seq(Line) /\ ChainVerifies(log) /\ log # << >>
  BY DEF SealInv, TypeOK, Overall, LogAgrees, OfflineOverall, OfflineReplays
<1>2. Stripped(log) = log
  BY <1>1, StrippedAlready DEF ChainVerifies
<1>3. Folds(log)
  <2>1. \A i \in DOMAIN log : i # 1 => i - 1 \in DOMAIN log
    BY <1>1
  <2>2. QED BY <1>1, <2>1 DEF Folds, ChainVerifies, Digest
<1>4. /\ there /\ file.state = "written" /\ SignaturePresent(file)
      /\ file.body.count = Len(log) /\ file.body.final = DigestOfLast(log)
      /\ file.body.leaves = RawLeaves(log) /\ file.body.root = file.body.leaves
      /\ file.body.leafCount = Cardinality(DOMAIN file.body.leaves)
      /\ file.kind = "ed25519" => file.over = <<file.body>>
  BY DEF OfflineOverall, OfflineLogAgrees, OfflineSignedPart
<1>5. CASE file.kind = "ed25519"
  <2>1. PacketLogAgrees(Stripped(log), file.body)
    BY <1>1, <1>2, <1>4 DEF PacketLogAgrees
  <2>2. PacketSignatureHolds(file) <=> file.sha = SignedPart(file)
    BY <1>4, <1>5 DEF PacketSignatureHolds, SignedPart
  <2>3. QED BY <1>1, <1>4, <1>5, <2>1, <2>2 DEF PacketOverall
<1>6. CASE file.kind # "ed25519"
  <2>1. BrowserLogAgrees(Stripped(log), file.body)
    BY <1>2, <1>3, <1>4 DEF BrowserLogAgrees
  <2>2. QED BY <1>4, <1>6, <2>1 DEF BrowserOverall
<1>7. QED BY <1>5, <1>6

(* Four verifiers, written four times, agree: the offline script with       *)
(* verify_manifest wherever the bytes hashed are those of the records, the  *)
(* browser and the packet check with what was sealed but for line ends, and *)
(* each with the first two on what it will take.                            *)
THEOREM TheVerifiersAgree == Spec => []VerifiersAgree
<1>1. ASSUME SealInv PROVE VerifiersAgree
  <2>1. OfflineOverall <=> (Overall /\ log # << >> /\ ReadAsWritten(log))
    BY <1>1, OfflineAgrees
  <2>2. BrowserOverall \/ PacketOverall => Stripped(log) = Stripped(file.from)
    BY <1>1, StrippedIsSealed DEF BrowserOverall, BrowserLogAgrees, PacketOverall, PacketLogAgrees
  <2>3. Overall /\ OfflineOverall =>
          IF file.kind = "ed25519" THEN PacketOverall <=> file.sha = SignedPart(file)
                                   ELSE BrowserOverall
    BY <1>1, OthersAcceptIt
  <2>4. QED BY <2>1, <2>2, <2>3 DEF VerifiersAgree
<1>2. QED BY <1>1, SealInvariant, PTL

=============================================================================
