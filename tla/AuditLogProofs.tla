--------------------------- MODULE AuditLogProofs ---------------------------
(***************************************************************************)
(* Theorems about AuditLog and AuditTail, for every set of writers, every  *)
(* number of reads under way at a time and every bound.                    *)
(***************************************************************************)
EXTENDS AuditTail, SequenceTheorems, NaturalsInduction, WellFoundedInduction, TLAPS

\* append builds a line.
LEMMA RecordIsLine ==
  ASSUME TypeOK, NEW w \in Writers, built < MaxRecords
  PROVE  NewRecord(w) \in Line
  BY MaxRecordsAssumption DEF TypeOK, NewRecord, Record, Line, Digests

\* What is left of a line written over is a line, if not a record.
LEMMA GarbageIsLine == Garbage \in Line
  BY MaxRecordsAssumption DEF Garbage, Line, Digests, Genesis

(* Writing bytes keeps the file a sequence of lines, and never shortens it. *)
LEMMA WithBytesType ==
  ASSUME TypeOK, NEW line \in Line
  PROVE  /\ WithBytes(line) \in Seq(Line)
         /\ Len(WithBytes(line)) \in {Len(lines), Len(lines) + 1}
         /\ Len(WithBytes(line)) > 0
  <1>1. CASE complete
    BY <1>1 DEF TypeOK, WithBytes
  <1>2. CASE ~ complete
    <2>1. Len(lines) \in 1..Len(lines)
      BY <1>2 DEF TypeOK
    <2>2. /\ [lines EXCEPT ![Len(lines)] = Garbage] \in Seq(Line)
          /\ Len([lines EXCEPT ![Len(lines)] = Garbage]) = Len(lines)
      BY <2>1, GarbageIsLine, ExceptSeq DEF TypeOK
    <2> QED BY <1>2, <2>1, <2>2 DEF WithBytes, TypeOK
  <1> QED BY <1>1, <1>2 DEF TypeOK

\* What a write cut short leaves is a line.
LEMMA TornIsLine ==
  ASSUME TypeOK, NEW w \in Writers, built < MaxRecords, NEW tear \in Tears
  PROVE  Torn(w, tear) \in Line
  BY RecordIsLine, GarbageIsLine DEF Torn

(* Every state of every behaviour has the types TypeOK gives.               *)
THEOREM TypeCorrect == Spec => []TypeOK
  <1>1. Init => TypeOK
    BY MaxRecordsAssumption DEF Init, TypeOK, Digests, Genesis
  <1>2. TypeOK /\ [Next]_vars => TypeOK'
    <2> SUFFICES ASSUME TypeOK, [Next]_vars PROVE TypeOK'
      OBVIOUS
    <2> USE MaxRecordsAssumption
    <2>1. ASSUME NEW w \in Writers, Open(w) PROVE TypeOK'
      <3>1. LastLine.digest \in Digests \/ Len(lines) = 0
        <4>1. Len(lines) > 0 => LastLine \in Line
          BY DEF TypeOK, LastLine
        <4> QED BY <4>1 DEF Line
      <3> QED BY <2>1, <3>1 DEF TypeOK, Open, Genesis, Digests
    <2>2. ASSUME NEW w \in Writers, OpenRefused(w) PROVE TypeOK'
      BY <2>2 DEF TypeOK, OpenRefused
    <2>3. ASSUME NEW w \in Writers, Close(w) PROVE TypeOK'
      BY <2>3 DEF TypeOK, Close
    <2>4. ASSUME NEW w \in Writers, Write(w) PROVE TypeOK'
      <3>1. NewRecord(w) \in Line
        BY <2>4, RecordIsLine DEF Write
      <3>2. /\ lines' \in Seq(Line)
            /\ Len(lines') \in {Len(lines), Len(lines) + 1}
        BY <2>4, <3>1, WithBytesType DEF Write
      <3>3. synced' \in 0..Len(lines')
        BY <2>4, <3>2 DEF TypeOK, Write
      <3> QED BY <2>4, <3>2, <3>3 DEF TypeOK, Write, Digests
    <2>5. ASSUME NEW w \in Writers, WriteFails(w) PROVE TypeOK'
      <3>1. PICK tear \in Tears : /\ lines' = WithBytes(Torn(w, tear))
                                  /\ complete' = FALSE
        BY <2>5 DEF WriteFails
      <3>2. /\ lines' \in Seq(Line)
            /\ Len(lines') \in {Len(lines), Len(lines) + 1}
            /\ Len(lines') > 0
        BY <2>5, <3>1, TornIsLine, WithBytesType DEF WriteFails
      <3>3. synced' \in 0..Len(lines')
        BY <2>5, <3>2 DEF TypeOK, WriteFails
      <3>4. pc' \in [Writers -> {"closed", "refused", "ready", "written"}]
        BY <2>5 DEF TypeOK, WriteFails, AfterError
      <3>5. built' \in 0..MaxRecords
        BY <2>5 DEF TypeOK, WriteFails
      <3> QED BY <2>5, <3>1, <3>2, <3>3, <3>4, <3>5 DEF TypeOK, WriteFails
    <2>6. ASSUME NEW w \in Writers, Sync(w) PROVE TypeOK'
      BY <2>6 DEF TypeOK, Sync
    <2>7. ASSUME NEW w \in Writers, SyncFails(w) PROVE TypeOK'
      BY <2>7 DEF TypeOK, SyncFails, AfterError
    <2>8. CASE PowerLoss
      <3>1. PICK n \in Surviving : SurvivesTo(n)
        BY <2>8 DEF PowerLoss
      <3>2. n \in synced..Len(lines) /\ n \in Nat
        BY <3>1 DEF TypeOK, Surviving
      <3>3. /\ SubSeq(lines, 1, n) \in Seq(Line)
            /\ Len(SubSeq(lines, 1, n)) = n
        BY <3>2 DEF TypeOK
      <3>4. CASE /\ lines' = SubSeq(lines, 1, n)
                 /\ complete' = (IF n = Len(lines) THEN complete ELSE TRUE)
        <4>1. n = Len(lines) => lines' = lines
          BY <3>4, <3>2, SeqEqual, <3>3 DEF TypeOK
        <4>2. /\ lines' \in Seq(Line)
              /\ synced' \in 0..Len(lines')
              /\ complete' \in BOOLEAN /\ (~ complete' => Len(lines') > 0)
          <5>1. CASE n = Len(lines)
            BY <2>8, <3>4, <4>1, <5>1 DEF TypeOK, PowerLoss
          <5>2. CASE n # Len(lines)
            <6>1. lines' \in Seq(Line) /\ Len(lines') = n /\ complete' = TRUE
              BY <3>3, <3>4, <5>2
            <6>2. synced' \in 0..n
              BY <2>8, <3>2 DEF TypeOK, PowerLoss
            <6> QED BY <6>1, <6>2
          <5> QED BY <5>1, <5>2
        <4> QED BY <2>8, <4>2 DEF TypeOK, PowerLoss
      <3>5. ASSUME NEW tear \in Tears, TornAt(n, tear) PROVE TypeOK'
        <4>1. n \in 1..Len(SubSeq(lines, 1, n))
          BY <3>2, <3>3, <3>5 DEF TypeOK, TornAt
        <4>2. /\ [SubSeq(lines, 1, n) EXCEPT ![n] = Garbage] \in Seq(Line)
              /\ Len([SubSeq(lines, 1, n) EXCEPT ![n] = Garbage]) = n
          BY <3>3, <4>1, GarbageIsLine, ExceptSeq
        <4>3. lines' \in Seq(Line) /\ Len(lines') = n /\ complete' = FALSE
          BY <3>3, <3>5, <4>2 DEF TornAt
        <4>4. Len(lines') > 0 /\ synced' \in 0..Len(lines')
          BY <2>8, <3>2, <3>3, <4>1, <4>3 DEF TypeOK, PowerLoss
        <4> QED BY <2>8, <4>3, <4>4 DEF TypeOK, PowerLoss
      <3> QED BY <3>1, <3>4, <3>5 DEF SurvivesTo
    <2>9. CASE UNCHANGED vars
      BY <2>9 DEF TypeOK, vars
    <2> QED BY <2>1, <2>2, <2>3, <2>4, <2>5, <2>6, <2>7, <2>8, <2>9 DEF Next, HandlerStepOf
  <1> QED BY <1>1, <1>2, PTL DEF Spec

-----------------------------------------------------------------------------
(* Lines below the first changed one keep their links.                      *)
LEMMA LinksLocal ==
  ASSUME NEW ls, NEW ms, NEW k \in Nat \ {0},
         \A j \in 1..k : ms[j] = ls[j],
         LinksTo(ls, k)
  PROVE  LinksTo(ms, k)
  BY DEF LinksTo, DigestBefore

(* Appending after a newline adds one line and leaves the others alone.     *)
LEMMA AppendLine ==
  ASSUME TypeOK, complete, NEW line \in Line, lines' = WithBytes(line)
  PROVE  /\ Len(lines') = Len(lines) + 1
         /\ lines'[Len(lines) + 1] = line
         /\ \A k \in 1..Len(lines) : lines'[k] = lines[k]
         /\ \A n \in 1..Len(lines) : PrefixLinked(n) => PrefixLinked(n)'
  <1>1. /\ Len(lines') = Len(lines) + 1
        /\ lines'[Len(lines) + 1] = line
        /\ \A k \in 1..Len(lines) : lines'[k] = lines[k]
    BY DEF TypeOK, WithBytes
  <1>2. ASSUME NEW n \in 1..Len(lines), PrefixLinked(n) PROVE PrefixLinked(n)'
    <2>1. ASSUME NEW k \in 1..n PROVE LinksTo(lines', k)
      <3>1. \A j \in 1..k : lines'[j] = lines[j]
        BY <1>1 DEF TypeOK
      <3>2. LinksTo(lines, k)
        BY <1>2 DEF PrefixLinked
      <3> QED BY <3>1, <3>2, LinksLocal
    <2> QED BY <2>1 DEF PrefixLinked
  <1> QED BY <1>1, <1>2

(* No step changes how the log is used.                                     *)
LEMMA SameUse ==
  ASSUME use' = use
  PROVE  /\ Exclusive' = Exclusive /\ Tears' = Tears /\ ReuseAfterError' = ReuseAfterError
  BY DEF Exclusive, Tears, ReuseAfterError

\* A log is used in one of the ways its callers use it.
LEMMA UseIsDisciplined ==
  ASSUME TypeOK, \A u \in Uses : DisciplinedUse(u)
  PROVE  Disciplined
  BY DEF TypeOK, Disciplined

\* A log that nobody has opened has no tail to be wrong about.
LEMMA TailInvInit == Init => TailInv
  BY DEF Init, TailInv, Live, PrefixLinked

(* AuditLog.__init__: a scan of a whole file ends with the number and the   *)
(* digest of its tail.                                                      *)
LEMMA TailInvOpen ==
  ASSUME TypeOK, TailInv, NEW w \in Writers, Open(w)
  PROVE  TailInv'
  <1>1. /\ Len(lines) \in Nat
        /\ nextSeq'[w] = Len(lines) /\ pc'[w] = "ready"
        /\ lines' = lines /\ complete' = complete /\ pending' = pending
        /\ \A v \in Writers \ {w} : /\ nextSeq'[v] = nextSeq[v] /\ lastHash'[v] = lastHash[v]
                                    /\ pc'[v] = pc[v]
    BY DEF TypeOK, Open
  <1>2. \A n \in 1..Len(lines) : PrefixLinked(n)' <=> PrefixLinked(n)
    BY <1>1 DEF PrefixLinked
  <1>3. PrefixLinked(Len(lines))'
    <2>1. CASE Len(lines) = 0
      BY <1>1, <2>1 DEF PrefixLinked
    <2>2. CASE Len(lines) > 0
      <3>1. lines[Len(lines)].ok /\ lines[Len(lines)].seq = Len(lines) - 1
        <4>1. lines[Len(lines)] \in Line
          BY <1>1, <2>2 DEF TypeOK
        <4> QED BY <1>1, <2>2, <4>1 DEF Open, TailAccepted, Line
      <3> QED BY <1>1, <1>2, <2>2, <3>1 DEF TailInv
    <2> QED BY <1>1, <2>1, <2>2
  <1>4. complete
    BY <1>1 DEF TailInv, Open, TailAccepted, LastLine, TypeOK
  <1>5. OwnTail(w)' = DigestBefore(lines, Len(lines) + 1)
    BY <1>1 DEF OwnTail, DigestBefore, Open, TypeOK, LastLine
  <1>6. Behind(w)' = 0
    BY <1>1 DEF Behind
  <1>7. ASSUME NEW v \in Writers, Live(v)'
        PROVE  /\ complete'
               /\ Behind(v)' >= 0
               /\ Behind(v)' = 0 => /\ PrefixLinked(Len(lines))'
                                    /\ OwnTail(v)' = DigestBefore(lines', Len(lines') + 1)
    <2>1. CASE v = w
      BY <1>1, <1>3, <1>4, <1>5, <1>6, <2>1
    <2>2. CASE v # w
      <3>1. Live(v) /\ Behind(v)' = Behind(v) /\ OwnTail(v)' = OwnTail(v)
        BY <1>1, <1>7, <2>2 DEF Live, Behind, OwnTail
      <3> QED BY <1>1, <1>3, <1>4, <3>1 DEF TailInv
    <2> QED BY <2>1, <2>2
  <1>8. Exclusive => \A u, v \in Writers : Live(u)' /\ Live(v)' => u = v
    BY <1>1 DEF Open, Alone, Live
  <1>9. \A n \in 1..Len(lines') : lines'[n].ok /\ lines'[n].seq = n - 1 => PrefixLinked(n)'
    BY <1>1, <1>2 DEF TailInv
  <1>10. ~ complete' => Tears # {} /\ ~ LastLine'.ok
    BY <1>1, <1>4
  <1>u. Exclusive' = Exclusive /\ Tears' = Tears
    BY SameUse DEF Open
  <1> QED BY <1>u, <1>1, <1>7, <1>8, <1>9, <1>10 DEF TailInv

(* append: the line it writes carries the number and the digest of the tail *)
(* it follows.                                                              *)
LEMMA TailInvWrite ==
  ASSUME TypeOK, TailInv, NEW w \in Writers, Write(w)
  PROVE  TailInv'
  <1>1. Live(w) /\ complete
    BY DEF Write, Live, TailInv
  <1>2. /\ NewRecord(w) \in Line
        /\ lines' = WithBytes(NewRecord(w))
    BY RecordIsLine DEF Write
  <1>0. Len(lines) \in Nat
    BY DEF TypeOK
  <1>3. /\ Len(lines) \in Nat /\ Len(lines') = Len(lines) + 1
        /\ lines'[Len(lines) + 1] = NewRecord(w)
        /\ \A k \in 1..Len(lines) : lines'[k] = lines[k]
        /\ \A n \in 1..Len(lines) : PrefixLinked(n) => PrefixLinked(n)'
    BY <1>0, <1>1, <1>2, AppendLine
  <1>4. /\ pc[w] = "ready" /\ pc'[w] = "written"
        /\ pending'[w] = built + 1 /\ complete' = TRUE
        /\ nextSeq' = nextSeq /\ lastHash' = lastHash
        /\ \A v \in Writers \ {w} : pc'[v] = pc[v] /\ pending'[v] = pending[v]
        /\ \A v \in Writers : nextSeq[v] \in Nat
    BY DEF Write, TypeOK
  <1>5. nextSeq[w] = Len(lines) => PrefixLinked(Len(lines))'
    <2> SUFFICES ASSUME nextSeq[w] = Len(lines), NEW k \in 1..Len(lines')
                 PROVE  LinksTo(lines', k)
      BY DEF PrefixLinked
    <2>1. /\ PrefixLinked(Len(lines))
          /\ lastHash[w] = DigestBefore(lines, Len(lines) + 1)
      BY <1>1, <1>3, <1>4 DEF TailInv, Behind, OwnTail
    <2>2. CASE k <= Len(lines)
      <3>1. k \in 1..Len(lines) /\ Len(lines) \in 1..Len(lines)
        BY <1>3, <2>2
      <3> QED BY <1>3, <2>1, <3>1 DEF PrefixLinked
    <2>3. CASE k = Len(lines) + 1
      <3>1. DigestBefore(lines', k) = DigestBefore(lines, k)
        BY <1>3, <2>3 DEF DigestBefore
      <3> QED BY <1>3, <2>1, <2>3, <3>1 DEF LinksTo, NewRecord, Record
    <2> QED BY <1>3, <2>2, <2>3
  <1>6. \A n \in 1..Len(lines') : lines'[n].ok /\ lines'[n].seq = n - 1 => PrefixLinked(n)'
    <2> SUFFICES ASSUME NEW n \in 1..Len(lines'), lines'[n].ok, lines'[n].seq = n - 1
                 PROVE  PrefixLinked(n)'
      OBVIOUS
    <2>1. CASE n <= Len(lines)
      <3>1. n \in 1..Len(lines)
        BY <1>3, <2>1
      <3> QED BY <1>3, <3>1 DEF TailInv
    <2>2. CASE n = Len(lines) + 1
      <3>1. nextSeq[w] = Len(lines)
        BY <1>3, <1>4, <2>2 DEF NewRecord, Record
      <3> QED BY <1>3, <1>5, <2>2, <3>1 DEF PrefixLinked
    <2> QED BY <1>3, <2>1, <2>2
  <1>7. ASSUME NEW v \in Writers, Live(v)'
        PROVE  /\ complete'
               /\ Behind(v)' >= 0
               /\ Behind(v)' = 0 => /\ PrefixLinked(Len(lines))'
                                    /\ OwnTail(v)' = DigestBefore(lines', Len(lines') + 1)
    <2>1. CASE v = w
      <3>1. Behind(w)' = Behind(w) /\ Behind(w) = Len(lines) - nextSeq[w] /\ Behind(w) >= 0
        BY <1>1, <1>3, <1>4 DEF Behind, TailInv
      <3>2. OwnTail(w)' = DigestBefore(lines', Len(lines') + 1)
        BY <1>3, <1>4 DEF OwnTail, DigestBefore, NewRecord, Record
      <3>3. Behind(w) = 0 => nextSeq[w] = Len(lines)
        BY <1>3, <1>4, <3>1
      <3> QED BY <1>4, <1>5, <2>1, <3>1, <3>2, <3>3
    <2>2. CASE v # w
      <3>1. Live(v) /\ Behind(v)' = Behind(v) + 1
        BY <1>3, <1>4, <1>7, <2>2 DEF Live, Behind
      <3>2. Behind(v) >= 0 /\ Behind(v) \in Int
        BY <1>3, <1>4, <3>1 DEF TailInv, Behind
      <3> QED BY <1>4, <3>1, <3>2
    <2> QED BY <2>1, <2>2
  <1>8. Exclusive => \A u, v \in Writers : Live(u)' /\ Live(v)' => u = v
    BY <1>1, <1>4 DEF TailInv, Live
  <1>u. Exclusive' = Exclusive /\ Tears' = Tears
    BY SameUse DEF Write
  <1> QED BY <1>u, <1>4, <1>6, <1>7, <1>8 DEF TailInv

(* Steps that leave the file alone and take an object at most further behind. *)
LEMMA TailInvSync ==
  ASSUME TypeOK, TailInv, NEW w \in Writers, Sync(w)
  PROVE  TailInv'
  <1>1. /\ lines' = lines /\ complete' = complete /\ pending' = pending
        /\ pc[w] = "written" /\ pc'[w] = "ready"
        /\ nextSeq'[w] = nextSeq[w] + 1 /\ lastHash'[w] = pending[w]
        /\ nextSeq[w] \in Nat /\ Len(lines) \in Nat
        /\ \A v \in Writers \ {w} : /\ pc'[v] = pc[v] /\ nextSeq'[v] = nextSeq[v]
                                    /\ lastHash'[v] = lastHash[v]
    BY DEF Sync, TypeOK
  <1>2. \A v \in Writers : /\ Live(v)' <=> Live(v)
                            /\ Behind(v)' = Behind(v)
                            /\ OwnTail(v)' = OwnTail(v)
    BY <1>1 DEF Live, Behind, OwnTail
  <1>3. \A n : PrefixLinked(n)' <=> PrefixLinked(n)
    BY <1>1 DEF PrefixLinked
  <1>u. Exclusive' = Exclusive /\ Tears' = Tears
    BY SameUse DEF Sync
  <1> QED BY <1>u, <1>1, <1>2, <1>3 DEF TailInv, LastLine

(* A sync that fails leaves the file as written; a discipline that allows   *)
(* it ends the writer.                                                      *)
LEMMA TailInvSyncFails ==
  ASSUME TypeOK, TailInv, NEW w \in Writers, SyncFails(w)
  PROVE  TailInv'
  <1>1. /\ lines' = lines /\ complete' = complete /\ pending' = pending
        /\ nextSeq' = nextSeq /\ lastHash' = lastHash
        /\ pc[w] = "written" /\ pc'[w] \in {"ready", "closed"}
        /\ nextSeq[w] \in Nat /\ Len(lines) \in Nat
        /\ \A v \in Writers \ {w} : pc'[v] = pc[v]
    BY DEF SyncFails, AfterError, TypeOK
  <1>2. \A n : PrefixLinked(n)' <=> PrefixLinked(n)
    BY <1>1 DEF PrefixLinked
  <1>3. Live(w)' => Behind(w)' = Behind(w) + 1 /\ Behind(w) >= 0 /\ Behind(w) \in Int
    BY <1>1 DEF Live, Behind, TailInv
  <1>4. \A v \in Writers \ {w} : /\ Live(v)' <=> Live(v)
                                  /\ Behind(v)' = Behind(v)
                                  /\ OwnTail(v)' = OwnTail(v)
    BY <1>1 DEF Live, Behind, OwnTail
  <1>5. Live(w)
    BY <1>1 DEF Live
  <1>6. \A v \in Writers : Live(v)' => /\ complete'
                                       /\ Behind(v)' >= 0
                                       /\ Behind(v)' = 0 => /\ PrefixLinked(Len(lines))'
                                                            /\ OwnTail(v)' = DigestBefore(lines', Len(lines') + 1)
    BY <1>1, <1>2, <1>3, <1>4, <1>5 DEF TailInv
  <1>7. Exclusive => \A u, v \in Writers : Live(u)' /\ Live(v)' => u = v
    BY <1>1, <1>4, <1>5 DEF TailInv
  <1>u. Exclusive' = Exclusive /\ Tears' = Tears
    BY SameUse DEF SyncFails
  <1> QED BY <1>u, <1>1, <1>2, <1>6, <1>7 DEF TailInv, LastLine

\* A writer that leaves takes its belief about the tail with it.
LEMMA TailInvClose ==
  ASSUME TypeOK, TailInv, NEW w \in Writers, Close(w) \/ OpenRefused(w)
  PROVE  TailInv'
  <1>1. /\ lines' = lines /\ complete' = complete /\ pending' = pending
        /\ nextSeq' = nextSeq /\ lastHash' = lastHash
        /\ ~ Live(w)' /\ \A v \in Writers \ {w} : pc'[v] = pc[v]
    BY DEF Close, OpenRefused, Live, TypeOK
  <1>2. \A v \in Writers : Live(v)' => /\ Live(v) /\ v # w /\ Behind(v)' = Behind(v)
                                       /\ OwnTail(v)' = OwnTail(v)
    BY <1>1 DEF Live, Behind, OwnTail
  <1>3. \A n : PrefixLinked(n)' <=> PrefixLinked(n)
    BY <1>1 DEF PrefixLinked
  <1>u. Exclusive' = Exclusive /\ Tears' = Tears
    BY SameUse DEF Close, OpenRefused
  <1> QED BY <1>u, <1>1, <1>2, <1>3 DEF TailInv, LastLine

(* A write cut short leaves an unfinished line, and no object to extend it. *)
LEMMA TailInvWriteFails ==
  ASSUME TypeOK, TailInv, Disciplined, NEW w \in Writers, WriteFails(w)
  PROVE  TailInv'
  <1>1. PICK tear \in Tears : lines' = WithBytes(Torn(w, tear)) /\ complete' = FALSE
    BY DEF WriteFails
  <1>2. Exclusive /\ ~ ReuseAfterError /\ Torn(w, tear) = Garbage
    BY <1>1 DEF Disciplined, DisciplinedUse, Exclusive, Tears, ReuseAfterError, Torn
  <1>3. Live(w) /\ complete
    BY DEF WriteFails, Live, TailInv
  <1>4. /\ Len(lines) \in Nat /\ Len(lines') = Len(lines) + 1
        /\ lines'[Len(lines) + 1] = Garbage
        /\ \A k \in 1..Len(lines) : lines'[k] = lines[k]
        /\ \A n \in 1..Len(lines) : PrefixLinked(n) => PrefixLinked(n)'
    BY <1>1, <1>2, <1>3, AppendLine, GarbageIsLine DEF TypeOK
  <1>5. \A v \in Writers : ~ Live(v)'
    BY <1>2, <1>3 DEF WriteFails, AfterError, Live, TailInv, TypeOK
  <1>6. \A n \in 1..Len(lines') : lines'[n].ok /\ lines'[n].seq = n - 1 => PrefixLinked(n)'
    <2> SUFFICES ASSUME NEW n \in 1..Len(lines'), lines'[n].ok, lines'[n].seq = n - 1
                 PROVE  PrefixLinked(n)'
      OBVIOUS
    <2>1. n \in 1..Len(lines)
      BY <1>4 DEF Garbage
    <2> QED BY <1>4, <2>1 DEF TailInv
  <1>7. ~ LastLine'.ok
    BY <1>4 DEF LastLine, Garbage
  <1>u. Exclusive' = Exclusive /\ Tears' = Tears
    BY SameUse DEF WriteFails
  <1> QED BY <1>u, <1>1, <1>5, <1>6, <1>7 DEF TailInv

(* Losing the lines no fsync covered leaves a prefix, torn at most at its end. *)
LEMMA TailInvPowerLoss ==
  ASSUME TypeOK, TailInv, Disciplined, PowerLoss
  PROVE  TailInv'
  <1>1. \A v \in Writers : ~ Live(v)'
    BY DEF PowerLoss, Live
  <1>u. Exclusive' = Exclusive /\ Tears' = Tears
    BY SameUse DEF PowerLoss
  <1>2. PICK n \in Surviving : SurvivesTo(n)
    BY DEF PowerLoss
  <1>3. /\ n \in 0..Len(lines) /\ Len(lines) \in Nat
        /\ Len(SubSeq(lines, 1, n)) = n /\ SubSeq(lines, 1, n) \in Seq(Line)
        /\ \A k \in 1..n : SubSeq(lines, 1, n)[k] = lines[k]
    BY <1>2 DEF TypeOK, Surviving
  <1>4. CASE lines' = SubSeq(lines, 1, n) /\ complete' = (IF n = Len(lines) THEN complete ELSE TRUE)
    <2>1. \A m \in 1..n : PrefixLinked(m) => PrefixLinked(m)'
      <3> SUFFICES ASSUME NEW m \in 1..n, PrefixLinked(m), NEW k \in 1..m
                   PROVE  LinksTo(lines', k)
        BY DEF PrefixLinked
      <3>1. LinksTo(lines, k) /\ \A j \in 1..k : lines'[j] = lines[j]
        BY <1>3, <1>4 DEF PrefixLinked
      <3> QED BY <3>1, LinksLocal
    <2>2. \A m \in 1..Len(lines') : lines'[m].ok /\ lines'[m].seq = m - 1 => PrefixLinked(m)'
      BY <1>3, <1>4, <2>1 DEF TailInv
    <2>3. ~ complete' => Tears # {} /\ ~ LastLine'.ok
      <3> SUFFICES ASSUME ~ complete' PROVE Tears # {} /\ ~ LastLine'.ok
        OBVIOUS
      <3>1. n = Len(lines) /\ ~ complete /\ Len(lines) > 0
        BY <1>4 DEF TypeOK
      <3>2. LastLine' = LastLine
        BY <1>3, <1>4, <3>1 DEF LastLine
      <3> QED BY <3>1, <3>2 DEF TailInv
    <2> QED BY <1>u, <1>1, <2>2, <2>3 DEF TailInv
  <1>5. ASSUME NEW tear \in Tears, TornAt(n, tear) PROVE TailInv'
    <2>1. tear = "fragment" /\ n \in 1..n
      BY <1>3, <1>5 DEF Disciplined, DisciplinedUse, Tears, TornAt, TypeOK
    <2>2. /\ Len(lines') = n /\ lines'[n] = Garbage /\ complete' = FALSE
          /\ \A k \in 1..n-1 : lines'[k] = lines[k]
      <3> DEFINE kept == SubSeq(lines, 1, n)
      <3>1. lines' = [kept EXCEPT ![n] = Garbage] /\ complete' = FALSE
        BY <1>5, <2>1 DEF TornAt
      <3>2. kept \in Seq(Line) /\ Len(kept) = n /\ \A k \in 1..n : kept[k] = lines[k]
        BY <1>3
      <3> HIDE DEF kept
      <3>3. n \in 1..Len(kept)
        BY <2>1, <3>2
      <3>4. /\ Len([kept EXCEPT ![n] = Garbage]) = Len(kept)
            /\ \A j \in 1..Len(kept) : [kept EXCEPT ![n] = Garbage][j] = IF j = n THEN Garbage ELSE kept[j]
        BY <3>2, <3>3, GarbageIsLine, ExceptSeq
      <3> QED BY <1>3, <3>1, <3>2, <3>3, <3>4
    <2>3. \A m \in 1..n-1 : PrefixLinked(m) => PrefixLinked(m)'
      <3> SUFFICES ASSUME NEW m \in 1..n-1, PrefixLinked(m), NEW k \in 1..m
                   PROVE  LinksTo(lines', k)
        BY DEF PrefixLinked
      <3>1. LinksTo(lines, k) /\ \A j \in 1..k : lines'[j] = lines[j]
        BY <1>3, <2>2 DEF PrefixLinked
      <3> QED BY <3>1, LinksLocal
    <2>4. \A m \in 1..Len(lines') : lines'[m].ok /\ lines'[m].seq = m - 1 => PrefixLinked(m)'
      <3> SUFFICES ASSUME NEW m \in 1..Len(lines'), lines'[m].ok, lines'[m].seq = m - 1
                   PROVE  PrefixLinked(m)'
        OBVIOUS
      <3>1. m \in 1..n-1
        BY <1>3, <2>2 DEF Garbage
      <3>2. lines'[m] = lines[m] /\ m \in 1..Len(lines)
        BY <1>3, <2>1, <2>2, <3>1
      <3>3. lines[m].ok /\ lines[m].seq = m - 1
        BY <3>2
      <3>4. PrefixLinked(m)
        BY <3>2, <3>3 DEF TailInv
      <3> QED BY <2>3, <3>1, <3>4
    <2>5. ~ LastLine'.ok
      BY <2>2 DEF LastLine, Garbage
    <2> QED BY <1>u, <1>1, <1>5, <2>2, <2>4, <2>5 DEF TailInv
  <1> QED BY <1>2, <1>4, <1>5 DEF SurvivesTo

(* Every step of every writer, crashes and power loss among them, keeps the *)
(* tail invariant.                                                          *)
LEMMA TailInvStep ==
  ASSUME TypeOK, TailInv, Disciplined, [Next]_vars
  PROVE  TailInv'
  <1>1. CASE UNCHANGED vars
    <2>1. \A n : PrefixLinked(n)' <=> PrefixLinked(n)
      BY <1>1 DEF vars, PrefixLinked
    <2> QED BY <1>1, <2>1, SameUse DEF vars, TailInv, Live, Behind, OwnTail, LastLine
  <1> QED BY <1>1, TailInvOpen, TailInvClose, TailInvWrite, TailInvWriteFails, TailInvSync,
             TailInvSyncFails, TailInvPowerLoss DEF Next, HandlerStepOf

(* TailInv is inductive: an object that missed a line never catches up, and *)
(* one that missed none holds the tail of a file that verifies.             *)
THEOREM TailInvariant ==
  ASSUME \A u \in Uses : DisciplinedUse(u)
  PROVE  Spec => []TailInv
  <1>1. TypeOK /\ TailInv /\ [Next]_vars => TailInv'
    BY TailInvStep, UseIsDisciplined
  <1> QED BY <1>1, TailInvInit, TypeCorrect, PTL DEF Spec

(* The constructor's check of the last line is enough: a file it accepts    *)
(* passes verify(), for any number of writers and any interleaving.         *)
THEOREM TailCheckIsEnough ==
  ASSUME \A u \in Uses : DisciplinedUse(u)
  PROVE  Spec => []TailCheckSuffices
  <1>1. TypeOK /\ TailInv => TailCheckSuffices
    <2> SUFFICES ASSUME TypeOK, TailInv, TailAccepted(lines) PROVE PrefixLinked(Len(lines))
      BY DEF TailCheckSuffices, Verifies, PrefixLinked
    <2>1. CASE Len(lines) = 0
      BY <2>1 DEF PrefixLinked
    <2>2. CASE Len(lines) # 0
      <3>1. Len(lines) \in 1..Len(lines) /\ lines[Len(lines)] \in Line
        BY <2>2 DEF TypeOK
      <3>2. lines[Len(lines)].ok /\ lines[Len(lines)].seq = Len(lines) - 1
        BY <3>1 DEF TailAccepted, Line
      <3> QED BY <3>1, <3>2 DEF TailInv
    <2> QED BY <2>1, <2>2
  <1> QED BY <1>1, TailInvariant, TypeCorrect, PTL

-----------------------------------------------------------------------------
(* Acknowledged records.                                                    *)
AckInv ==
  /\ AckedKept
  /\ \A w \in Writers : pc[w] = "written" => LinesOf(pending[w]) # {}

(* A step that keeps every parsed line up to n keeps the records in it.     *)
LEMMA AckedStays ==
  ASSUME TypeOK, AckedKept, synced' = synced, acked' = acked,
         Len(lines') \in Nat, synced <= Len(lines'),
         \A k \in 1..synced : lines'[k] = lines[k]
  PROVE  AckedKept'
  <1> SUFFICES ASSUME NEW i \in DOMAIN acked
               PROVE  \E k \in LinesOf(acked[i])' : k <= synced
    BY DEF AckedKept, LinesOf
  <1>1. PICK k \in LinesOf(acked[i]) : k <= synced
    BY DEF AckedKept
  <1>2. k \in 1..synced /\ lines[k].ok /\ lines[k].digest = acked[i]
    BY <1>1 DEF LinesOf, TypeOK
  <1>3. k \in LinesOf(acked[i])'
    BY <1>2 DEF LinesOf, TypeOK
  <1> QED BY <1>1, <1>3

(* No step takes an acknowledged line away: a power loss cuts behind the    *)
(* synced part.                                                             *)
LEMMA AckInvStep ==
  ASSUME TypeOK, TailInv, Disciplined, AckInv, [Next]_vars
  PROVE  AckInv'
  <1> USE DEF AckInv
  <1>1. ASSUME NEW w \in Writers, Write(w) PROVE AckInv'
    <2>1. Live(w) /\ complete /\ NewRecord(w) \in Line /\ lines' = WithBytes(NewRecord(w))
      BY <1>1, RecordIsLine DEF Write, Live, TailInv
    <2>2. /\ Len(lines) \in Nat /\ Len(lines') = Len(lines) + 1
          /\ lines'[Len(lines) + 1] = NewRecord(w)
          /\ \A k \in 1..Len(lines) : lines'[k] = lines[k]
      <3>1. Len(lines) \in Nat
        BY DEF TypeOK
      <3> QED BY <2>1, <3>1, AppendLine
    <2>3. AckedKept'
      <3>1. synced' = synced /\ acked' = acked /\ Len(lines') \in Nat
        BY <1>1, <2>2 DEF Write
      <3>2. synced <= Len(lines') /\ \A k \in 1..synced : lines'[k] = lines[k]
        BY <2>2 DEF TypeOK
      <3> QED BY <3>1, <3>2, AckedStays
    <2>4. ASSUME NEW v \in Writers, pc'[v] = "written" PROVE LinesOf(pending[v])' # {}
      <3>1. CASE v = w
        <4>1. Len(lines) + 1 \in LinesOf(pending[v])'
          BY <1>1, <2>2, <3>1 DEF LinesOf, Write, TypeOK, NewRecord, Record
        <4> QED BY <4>1
      <3>2. CASE v # w
        <4>1. pc[v] = "written" /\ pending'[v] = pending[v]
          BY <1>1, <2>4, <3>2 DEF Write, TypeOK
        <4>2. PICK k : k \in LinesOf(pending[v])
          BY <4>1
        <4>3. k \in LinesOf(pending[v])'
          BY <2>2, <4>1, <4>2 DEF LinesOf
        <4> QED BY <4>3
      <3> QED BY <3>1, <3>2
    <2> QED BY <2>3, <2>4
  <1>2. ASSUME NEW w \in Writers, WriteFails(w) PROVE AckInv'
    <2>1. PICK tear \in Tears : lines' = WithBytes(Torn(w, tear))
      BY <1>2 DEF WriteFails
    <2>2. Exclusive /\ ~ ReuseAfterError /\ Torn(w, tear) = Garbage /\ Live(w) /\ complete
      BY <1>2, <2>1 DEF Disciplined, DisciplinedUse, Exclusive, Tears, ReuseAfterError, Torn,
                        WriteFails, Live, TailInv
    <2>3. /\ Len(lines) \in Nat /\ Len(lines') = Len(lines) + 1
          /\ \A k \in 1..Len(lines) : lines'[k] = lines[k]
      BY <2>1, <2>2, AppendLine, GarbageIsLine DEF TypeOK
    <2>4. AckedKept'
      <3>1. synced' = synced /\ acked' = acked /\ Len(lines') \in Nat
        BY <1>2, <2>3 DEF WriteFails
      <3>2. synced <= Len(lines') /\ \A k \in 1..synced : lines'[k] = lines[k]
        BY <2>3 DEF TypeOK
      <3> QED BY <3>1, <3>2, AckedStays
    <2>5. ASSUME NEW v \in Writers, pc'[v] = "written" PROVE FALSE
      <3>1. AfterError(w) = {"closed"}
        BY <2>2 DEF AfterError
      <3>2. pc' = [pc EXCEPT ![w] = "closed"]
        BY <1>2, <3>1 DEF WriteFails
      <3>3. v # w /\ Live(v)
        BY <2>5, <3>2 DEF Live, TypeOK
      <3> QED BY <2>2, <3>3 DEF TailInv
    <2> QED BY <2>4, <2>5
  <1>3. ASSUME NEW w \in Writers, Sync(w) PROVE AckInv'
    <2>1. lines' = lines /\ synced' = Len(lines) /\ pending' = pending
      BY <1>3 DEF Sync
    <2>2. LinesOf(pending[w]) # {}
      BY <1>3 DEF Sync
    <2>3. ASSUME NEW i \in DOMAIN acked'
          PROVE  \E k \in 1..Len(lines) : lines[k].ok /\ lines[k].digest = acked'[i]
      <3>1. CASE i \in DOMAIN acked
        <4>1. acked'[i] = acked[i]
          BY <1>3, <3>1 DEF Sync, TypeOK
        <4>2. PICK k \in LinesOf(acked[i]) : TRUE
          BY <3>1 DEF AckedKept
        <4> QED BY <4>1, <4>2 DEF LinesOf
      <3>2. CASE i \notin DOMAIN acked
        <4>1. acked'[i] = pending[w]
          BY <1>3, <2>3, <3>2 DEF Sync, TypeOK
        <4>2. PICK k : k \in LinesOf(pending[w])
          BY <2>2
        <4> QED BY <4>1, <4>2 DEF LinesOf
      <3> QED BY <3>1, <3>2
    <2>4. AckedKept'
      BY <2>1, <2>3 DEF AckedKept, LinesOf, TypeOK
    <2>5. \A v \in Writers : pc'[v] = "written" => pc[v] = "written"
      BY <1>3 DEF Sync, TypeOK
    <2> QED BY <2>1, <2>4, <2>5 DEF LinesOf
  <1>4. CASE PowerLoss
    <2>1. PICK n \in Surviving : SurvivesTo(n)
      BY <1>4 DEF PowerLoss
    <2>2. /\ n \in 0..Len(lines) /\ n >= synced /\ synced \in Nat
          /\ SubSeq(lines, 1, n) \in Seq(Line) /\ Len(SubSeq(lines, 1, n)) = n
          /\ \A k \in 1..synced : SubSeq(lines, 1, n)[k] = lines[k]
      BY <2>1 DEF TypeOK, Surviving
    <2>3. Len(lines') = n /\ \A k \in 1..synced : lines'[k] = lines[k]
      <3>1. CASE lines' = SubSeq(lines, 1, n)
        BY <2>2, <3>1
      <3>2. CASE n > synced /\ lines' = [SubSeq(lines, 1, n) EXCEPT ![n] = Garbage]
        <4> DEFINE kept == SubSeq(lines, 1, n)
        <4>1. kept \in Seq(Line) /\ n \in 1..Len(kept) /\ lines' = [kept EXCEPT ![n] = Garbage]
          BY <2>2, <3>2
        <4>2. \A k \in 1..synced : k \in 1..Len(kept) /\ k # n /\ kept[k] = lines[k]
          BY <2>2, <3>2
        <4>3. Len(kept) = n
          BY <2>2
        <4> HIDE DEF kept
        <4>4. /\ Len(lines') = Len(kept)
              /\ \A j \in 1..Len(kept) : lines'[j] = IF j = n THEN Garbage ELSE kept[j]
          BY <4>1, GarbageIsLine, ExceptSeq
        <4> QED BY <4>2, <4>3, <4>4
      <3> QED BY <2>1, <3>1, <3>2 DEF SurvivesTo, TornAt
    <2>4. AckedKept'
      BY <1>4, <2>2, <2>3, AckedStays DEF PowerLoss
    <2> QED BY <1>4, <2>4 DEF PowerLoss
  <1>5. ASSUME lines' = lines, synced' = synced, acked' = acked, pending' = pending,
               \A w \in Writers : pc'[w] = "written" => pc[w] = "written"
        PROVE  AckInv'
    BY <1>5 DEF AckedKept, LinesOf
  <1>6. ASSUME NEW w \in Writers, Open(w) \/ OpenRefused(w) \/ Close(w) \/ SyncFails(w)
        PROVE  AckInv'
    BY <1>5, <1>6 DEF Open, OpenRefused, Close, SyncFails, AfterError, TypeOK
  <1>7. CASE UNCHANGED vars
    BY <1>5, <1>7 DEF vars
  <1> QED BY <1>1, <1>2, <1>3, <1>4, <1>6, <1>7 DEF Next, HandlerStepOf

(* An acknowledged record is never lost or damaged.                         *)
THEOREM AckedAreKept ==
  ASSUME \A u \in Uses : DisciplinedUse(u)
  PROVE  Spec => []AckedKept
  <1>1. Init => AckInv
    BY DEF Init, AckInv, AckedKept
  <1>2. TypeOK /\ TailInv /\ AckInv /\ [Next]_vars => AckInv'
    BY AckInvStep, UseIsDisciplined
  <1>3. AckInv => AckedKept
    BY DEF AckInv
  <1> QED BY <1>1, <1>2, <1>3, TailInvariant, TypeCorrect, PTL DEF Spec

-----------------------------------------------------------------------------
(* The chain of a log that one object at a time writes.                     *)

\* The inductive form of ChainIntact: the object in use has missed no line.
ChainInv ==
  /\ ChainIntact
  /\ Exclusive /\ ~ ReuseAfterError => \A w \in Writers : Live(w) => Behind(w) = 0

(* What ChainInv says of a file in use: every line links to the one before. *)
LEMMA InUseIsLinked ==
  ASSUME TypeOK, TailInv, ChainInv, Exclusive, ~ ReuseAfterError,
         NEW w \in Writers, Live(w)
  PROVE  complete /\ Behind(w) = 0 /\ PrefixLinked(Len(lines))
  BY DEF TailInv, ChainInv

(* No step leaves two lines side by side that do not link, while all uses   *)
(* are disciplined.                                                         *)
LEMMA ChainInvStep ==
  ASSUME TypeOK, TailInv, Disciplined, ChainInv, [Next]_vars
  PROVE  ChainInv'
  <1>u. use' = use
    BY DEF Next, HandlerStepOf, Open, OpenRefused, Close, Write, WriteFails, Sync, SyncFails,
           PowerLoss, vars
  <1> SUFFICES ASSUME Exclusive, ~ ReuseAfterError
               PROVE  /\ \A k \in DOMAIN lines' : LinksTo(lines', k) \/ (k = Len(lines') /\ ~ complete')
                      /\ \A w \in Writers : Live(w)' => Behind(w)' = 0
    BY <1>u, SameUse DEF ChainInv, ChainIntact
  <1>0. Len(lines) \in Nat /\ DOMAIN lines = 1..Len(lines) /\ \A w \in Writers : nextSeq[w] \in Nat
    BY DEF TypeOK
  <1>a. \A k \in 1..Len(lines) : LinksTo(lines, k) \/ (k = Len(lines) /\ ~ complete)
    BY <1>0 DEF ChainInv, ChainIntact
  <1>b. \A w \in Writers : Live(w) => Behind(w) = 0
    BY DEF ChainInv
  <1>c. \A v, w \in Writers : Live(v) /\ Live(w) => v = w
    BY DEF TailInv
  <1>1. ASSUME NEW w \in Writers, Open(w) PROVE ChainInv'
    <2>1. lines' = lines /\ complete' = complete
      BY <1>1 DEF Open
    <2>2. Behind(w)' = 0 /\ \A v \in Writers \ {w} : ~ Live(v)'
      <3>1. pc'[w] = "ready" /\ nextSeq'[w] = Len(lines)
        BY <1>1 DEF Open, TypeOK
      <3>2. \A v \in Writers \ {w} : pc'[v] \in {"closed", "refused"}
        BY <1>1 DEF Open, Alone, TypeOK
      <3> QED BY <1>0, <2>1, <3>1, <3>2 DEF Live, Behind
    <2> QED BY <1>0, <1>a, <2>1, <2>2 DEF ChainInv, ChainIntact
  <1>2. ASSUME NEW w \in Writers, Write(w) PROVE ChainInv'
    <2>1. Live(w) /\ Behind(w) = Len(lines) - nextSeq[w]
      BY <1>0, <1>2 DEF Write, Live, Behind
    <2>2. complete /\ Behind(w) = 0
      BY <2>1, InUseIsLinked
    <2>3. Len(lines') = Len(lines) + 1 /\ DOMAIN lines' = 1..Len(lines')
      BY <1>2, <2>2, RecordIsLine DEF Write, WithBytes, TypeOK
    <2>4. Behind(w)' = 0 /\ Live(w)'
      <3>1. pc'[w] = "written" /\ nextSeq'[w] = Len(lines) /\ Len(lines) \in Nat
        BY <1>0, <1>2, <2>1, <2>2 DEF Write, TypeOK
      <3> QED BY <2>3, <3>1 DEF Behind, Live
    <2>5. PrefixLinked(Len(lines))'
      BY <2>4, TailInvStep DEF TailInv
    <2>6. \A v \in Writers : Live(v)' => v = w
      BY <1>c, <1>2, <2>1 DEF Write, Live, TypeOK
    <2> QED BY <2>3, <2>4, <2>5, <2>6 DEF ChainInv, ChainIntact, PrefixLinked
  <1>3. ASSUME NEW w \in Writers, WriteFails(w) PROVE ChainInv'
    <2>1. PICK tear \in Tears : lines' = WithBytes(Torn(w, tear)) /\ complete' = FALSE
      BY <1>3 DEF WriteFails
    <2>2. Live(w)
      BY <1>3 DEF WriteFails, Live
    <2>3. complete /\ PrefixLinked(Len(lines))
      BY <2>2, InUseIsLinked
    <2>4. Torn(w, tear) \in Line
      BY <1>3, TornIsLine DEF WriteFails
    <2>5. /\ Len(lines') = Len(lines) + 1 /\ DOMAIN lines' = 1..Len(lines')
          /\ \A k \in 1..Len(lines) : lines'[k] = lines[k]
      BY <2>1, <2>3, <2>4 DEF WithBytes, TypeOK
    <2>6. ASSUME NEW k \in 1..Len(lines) PROVE LinksTo(lines', k)
      BY <1>0, <2>3, <2>5, LinksLocal DEF PrefixLinked
    <2>7. \A v \in Writers : ~ Live(v)'
      BY <1>c, <1>3, <2>2 DEF WriteFails, AfterError, Live, TypeOK
    <2> QED BY <1>0, <2>1, <2>5, <2>6, <2>7 DEF ChainInv, ChainIntact
  <1>4. ASSUME NEW w \in Writers, Sync(w) PROVE ChainInv'
    <2>1. lines' = lines /\ complete' = complete
      BY <1>4 DEF Sync
    <2>2. ASSUME NEW v \in Writers PROVE Live(v)' = Live(v) /\ Behind(v)' = Behind(v)
      BY <1>0, <1>4 DEF Sync, Live, Behind, TypeOK
    <2> QED BY <1>0, <1>a, <1>b, <2>1, <2>2 DEF ChainInv, ChainIntact
  <1>5. ASSUME NEW w \in Writers, SyncFails(w) \/ Close(w) \/ OpenRefused(w) PROVE ChainInv'
    <2>1. lines' = lines /\ complete' = complete /\ nextSeq' = nextSeq
      BY <1>5 DEF SyncFails, Close, OpenRefused
    <2>2. ~ Live(w)' /\ \A v \in Writers \ {w} : pc'[v] = pc[v]
      BY <1>5 DEF SyncFails, Close, OpenRefused, AfterError, Live, TypeOK
    <2>3. \A v \in Writers : Live(v)' => Live(v) /\ Behind(v)' = Behind(v)
      BY <2>1, <2>2 DEF Live, Behind
    <2> QED BY <1>0, <1>a, <1>b, <2>1, <2>3 DEF ChainInv, ChainIntact
  <1>6. ASSUME PowerLoss PROVE ChainInv'
    <2>1. \A v \in Writers : ~ Live(v)'
      BY <1>6 DEF PowerLoss, Live
    <2>2. PICK n \in Surviving : SurvivesTo(n)
      BY <1>6 DEF PowerLoss
    <2> DEFINE kept == SubSeq(lines, 1, n)
    <2>3. /\ n \in 0..Len(lines) /\ synced \in Nat
          /\ kept \in Seq(Line) /\ Len(kept) = n /\ \A k \in 1..n : kept[k] = lines[k]
      BY <2>2 DEF TypeOK, Surviving
    <2>k. kept = SubSeq(lines, 1, n)
      OBVIOUS
    <2> HIDE DEF kept
    <2>4. \A k \in 1..n : k < Len(lines) => LinksTo(lines, k)
      BY <1>a, <2>3
    <2>5. CASE lines' = SubSeq(lines, 1, n) /\ complete' = (IF n = Len(lines) THEN complete ELSE TRUE)
      <3>1. ASSUME NEW k \in 1..n
            PROVE  LinksTo(lines', k) \/ (k = n /\ ~ complete')
        <4>1. CASE LinksTo(lines, k)
          <5>1. \A j \in 1..k : lines'[j] = lines[j]
            BY <2>3, <2>5, <2>k
          <5> QED BY <2>3, <4>1, <5>1, LinksLocal
        <4>2. CASE ~ LinksTo(lines, k)
          <5>1. k = Len(lines) /\ k = n /\ ~ complete
            <6>1. k \in 1..Len(lines) /\ k <= n /\ n <= Len(lines) /\ ~ (k < Len(lines))
              BY <1>0, <2>3, <2>4, <4>2
            <6> QED BY <1>a, <2>3, <4>2, <6>1
          <5> QED BY <2>5, <5>1
        <4> QED BY <4>1, <4>2
      <3> QED BY <2>1, <2>3, <2>5, <2>k, <3>1 DEF ChainInv, ChainIntact
    <2>6. ASSUME NEW tear \in Tears, TornAt(n, tear) PROVE ChainInv'
      <3>1. n \in 1..n
        BY <2>3, <2>6 DEF TornAt
      <3>2. /\ Len(lines') = n /\ DOMAIN lines' = 1..n /\ complete' = FALSE
            /\ \A k \in 1..(n - 1) : lines'[k] = lines[k]
        <4>1. lines' = kept \/ lines' = [kept EXCEPT ![n] = Garbage]
          BY <2>6, <2>k DEF TornAt
        <4> QED BY <2>3, <2>6, <3>1, <4>1, GarbageIsLine, ExceptSeq DEF TornAt
      <3>3. ASSUME NEW k \in 1..(n - 1) PROVE LinksTo(lines', k)
        BY <2>3, <2>4, <3>2, LinksLocal
      <3> QED BY <2>1, <2>3, <3>2, <3>3 DEF ChainInv, ChainIntact
    <2> QED BY <2>2, <2>5, <2>6 DEF SurvivesTo
  <1>7. CASE UNCHANGED vars
    BY <1>0, <1>a, <1>b, <1>c, <1>7 DEF vars, Live, Behind
  <1> QED BY <1>0, <1>a, <1>b, <1>c, <1>1, <1>2, <1>3, <1>4, <1>5, <1>6, <1>7, <1>u, SameUse
          DEF Next, HandlerStepOf, ChainInv, ChainIntact

(* A log that one object at a time writes, and that drops an object whose   *)
(* append raised, passes verify() but for the fragment at its very end.     *)
THEOREM ChainStaysIntact ==
  ASSUME \A u \in Uses : DisciplinedUse(u)
  PROVE  Spec => []ChainIntact
  <1>1. Init => ChainInv
    BY DEF Init, ChainInv, ChainIntact, Live
  <1>2. TypeOK /\ TailInv /\ ChainInv /\ [Next]_vars => ChainInv'
    BY ChainInvStep, UseIsDisciplined
  <1>3. ChainInv => ChainIntact
    BY DEF ChainInv
  <1> QED BY <1>1, <1>2, <1>3, TailInvariant, TypeCorrect, PTL DEF Spec

-----------------------------------------------------------------------------
(* Turns.                                                                   *)

\* The order of the naturals, as a relation.
Less == {p \in Nat \X Nat : p[1] < p[2]}

\* A set of naturals that has a member has a least one.
LEMMA HasLeast ==
  ASSUME NEW T, T \subseteq Nat, T # {}
  PROVE  \E x \in T : \A y \in T : x <= y
  <1>1. Less = OpToRel(<, Nat)
    BY Zenon DEF Less, OpToRel
  <1>2. IsWellFoundedOn(Less, Nat)
    BY <1>1, NatLessThanWellFounded, Zenon
  <1>3. \E x \in T : \A y \in T : ~ (<<y, x>> \in Less)
    BY <1>2, WFMin, Zenon
  <1>4. \A x, y \in Nat : ~ (<<y, x>> \in Less) => x <= y
    BY DEF Less
  <1> QED BY <1>3, <1>4

\* What holds at the start and after each next turn holds after every turn.
LEMMA UpTo ==
  ASSUME NEW n \in Nat, NEW G, 0 \in G, \A t \in 1..n : t - 1 \in G => t \in G
  PROVE  \A t \in 0..n : t \in G
  <1> DEFINE T == {t \in 0..n : t \notin G}
  <1> SUFFICES ASSUME T # {} PROVE FALSE
    OBVIOUS
  <1>1. T \subseteq Nat
    OBVIOUS
  <1>2. PICK t \in T : \A u \in T : t <= u
    <2> HIDE DEF T
    <2> QED BY <1>1, HasLeast
  <1>3. t \in 1..n /\ t - 1 \in 0..n
    BY <1>2
  <1>4. t - 1 \notin T
    BY <1>2, <1>3
  <1> QED BY <1>2, <1>3, <1>4

-----------------------------------------------------------------------------
(* The members of a set, in order.                                          *)

\* The value of one turn of Ascending, from the values of the turns before.
Picked(f, k, S) == IF k = 0 THEN << >> ELSE IF k \in S THEN Append(f[k - 1], k) ELSE f[k - 1]

\* f is the recursive function of Ascending(n, S).
Picks(f, n, S) == f = [k \in 0..n |-> Picked(f, k, S)]

\* What a function of the loop is at each turn.
LEMMA PicksTurn ==
  ASSUME NEW f, NEW n \in Nat, NEW S, Picks(f, n, S), NEW k \in 0..n
  PROVE  f[k] = Picked(f, k, S)
  <1> DEFINE turn(j) == Picked(f, j, S)
  <1>1. f = [j \in 0..n |-> turn(j)]
    BY DEF Picks
  <1> HIDE DEF turn
  <1>2. f[k] = turn(k)
    BY <1>1
  <1> QED BY <1>2 DEF turn

\* A function that is right at each turn is the function of the loop.
LEMMA PicksFromTurns ==
  ASSUME NEW f, NEW n \in Nat, NEW S, f = [k \in 0..n |-> f[k]],
         \A k \in 0..n : f[k] = Picked(f, k, S)
  PROVE  Picks(f, n, S)
  <1> DEFINE turn(j) == Picked(f, j, S)
  <1>1. \A k \in 0..n : f[k] = turn(k)
    OBVIOUS
  <1> HIDE DEF turn
  <1>2. f = [k \in 0..n |-> turn(k)]
    BY <1>1
  <1> QED BY <1>2 DEF turn, Picks

\* The loop has a function, however many turns.
LEMMA PicksExists ==
  ASSUME NEW n \in Nat, NEW S
  PROVE  \E f : Picks(f, n, S)
  <1> DEFINE G == {m \in Nat : \E f : Picks(f, m, S)}
  <1>1. 0 \in G
    <2> DEFINE g == [k \in 0..0 |-> << >>]
    <2>1. g = [k \in 0..0 |-> g[k]] /\ \A k \in 0..0 : g[k] = Picked(g, k, S)
      BY DEF Picked
    <2> HIDE DEF g
    <2>2. Picks(g, 0, S)
      BY <2>1, PicksFromTurns
    <2> QED BY <2>2
  <1>2. ASSUME NEW m \in 1..n, m - 1 \in G PROVE m \in G
    <2>1. PICK f : Picks(f, m - 1, S)
      BY <1>2
    <2> DEFINE g == [k \in 0..m |-> IF k = m THEN Picked(f, m, S) ELSE f[k]]
    <2>2. ASSUME NEW k \in 0..m PROVE g[k] = Picked(g, k, S)
      <3>1. CASE k = m
        <4>1. k # 0 /\ g[k - 1] = f[k - 1]
          BY <3>1
        <4>2. g[k] = Picked(f, k, S)
          BY <3>1
        <4> HIDE DEF g
        <4> QED BY <4>1, <4>2 DEF Picked
      <3>2. CASE k # m
        <4>1. k \in 0..(m - 1) /\ g[k] = f[k] /\ (k # 0 => g[k - 1] = f[k - 1])
          BY <3>2
        <4>2. f[k] = Picked(f, k, S)
          BY <2>1, <4>1, PicksTurn
        <4> HIDE DEF g
        <4> QED BY <4>1, <4>2 DEF Picked
      <3> QED BY <3>1, <3>2
    <2>3. g = [k \in 0..m |-> g[k]]
      OBVIOUS
    <2> HIDE DEF g
    <2>4. Picks(g, m, S)
      BY <2>2, <2>3, PicksFromTurns
    <2> QED BY <2>4
  <1> HIDE DEF G
  <1>3. n \in G
    <2>1. \A m \in 0..n : m \in G
      BY <1>1, <1>2, UpTo
    <2> QED BY <2>1
  <1> QED BY <1>3 DEF G

\* Loops over sets that agree have the same values, as far as both go.
LEMMA PicksAgree ==
  ASSUME NEW f, NEW n \in Nat, NEW S, Picks(f, n, S),
         NEW g, NEW m \in Nat, NEW R, Picks(g, m, R),
         NEW j \in Nat, j <= n, j <= m, \A k \in 1..j : k \in S <=> k \in R
  PROVE  f[j] = g[j]
  <1> DEFINE G == {k \in Nat : f[k] = g[k]}
  <1>1. 0 \in G
    <2>1. f[0] = Picked(f, 0, S) /\ g[0] = Picked(g, 0, R)
      BY PicksTurn
    <2> QED BY <2>1 DEF Picked
  <1>2. ASSUME NEW k \in 1..j, k - 1 \in G PROVE k \in G
    <2>1. f[k] = Picked(f, k, S) /\ g[k] = Picked(g, k, R)
      <3>1. k \in 0..n /\ k \in 0..m
        OBVIOUS
      <3> QED BY <3>1, PicksTurn
    <2>2. f[k - 1] = g[k - 1] /\ k # 0
      BY <1>2
    <2> QED BY <2>1, <2>2 DEF Picked
  <1> HIDE DEF G
  <1>3. \A k \in 0..j : k \in G
    BY <1>1, <1>2, UpTo
  <1> QED BY <1>3 DEF G

\* Ascending is the last value of the loop.
LEMMA AscendingPicks ==
  ASSUME NEW n \in Nat, NEW S, NEW m \in Nat, n <= m, NEW f, Picks(f, m, S)
  PROVE  Ascending(n, S) = f[n]
  <1> DEFINE c == CHOOSE g : Picks(g, n, S)
  <1>1. Picks(c, n, S)
    BY PicksExists
  <1>2. Ascending(n, S) = c[n]
    BY Zenon DEF Ascending, Picks, Picked
  <1> HIDE DEF c
  <1> QED BY <1>1, <1>2, PicksAgree

\* Ascending takes one number after the other.
LEMMA AscendingNext ==
  ASSUME NEW n \in Nat, NEW S
  PROVE  /\ Ascending(0, S) = << >>
         /\ n # 0 /\ n \in S => Ascending(n, S) = Append(Ascending(n - 1, S), n)
         /\ n # 0 /\ n \notin S => Ascending(n, S) = Ascending(n - 1, S)
  <1>1. PICK f : Picks(f, n, S)
    BY PicksExists
  <1>2. Ascending(0, S) = f[0] /\ Ascending(n, S) = f[n]
    BY <1>1, AscendingPicks
  <1>3. n # 0 => Ascending(n - 1, S) = f[n - 1]
    BY <1>1, AscendingPicks
  <1>4. f[0] = Picked(f, 0, S) /\ f[n] = Picked(f, n, S)
    BY <1>1, PicksTurn
  <1> QED BY <1>2, <1>3, <1>4 DEF Picked

\* Ascending looks at the numbers up to n only.
LEMMA AscendingSame ==
  ASSUME NEW n \in Nat, NEW S, NEW R, \A k \in 1..n : k \in S <=> k \in R
  PROVE  Ascending(n, S) = Ascending(n, R)
  <1>1. PICK f : Picks(f, n, S)
    BY PicksExists
  <1>2. PICK g : Picks(g, n, R)
    BY PicksExists
  <1>3. f[n] = g[n]
    BY <1>1, <1>2, PicksAgree
  <1> QED BY <1>1, <1>2, <1>3, AscendingPicks

\* Ascending is a sequence of numbers up to n.
LEMMA AscendingType ==
  ASSUME NEW n \in Nat, NEW S
  PROVE  Ascending(n, S) \in Seq(1..n)
  <1> DEFINE G == {m \in Nat : Ascending(m, S) \in Seq(1..n)}
  <1>1. 0 \in G
    <2>1. 0 \in Nat /\ Ascending(0, S) = << >>
      BY AscendingNext
    <2>2. << >> \in Seq(1..n)
      OBVIOUS
    <2> QED BY <2>1, <2>2
  <1>2. ASSUME NEW m \in 1..n, m - 1 \in G PROVE m \in G
    <2>1. Ascending(m - 1, S) \in Seq(1..n) /\ m # 0
      BY <1>2
    <2>2. Ascending(m, S) \in {Append(Ascending(m - 1, S), m), Ascending(m - 1, S)}
      BY <2>1, AscendingNext
    <2> QED BY <2>1, <2>2
  <1> HIDE DEF G
  <1>3. n \in G
    <2>1. \A m \in 0..n : m \in G
      BY <1>1, <1>2, UpTo
    <2> QED BY <2>1
  <1> QED BY <1>3 DEF G

-----------------------------------------------------------------------------
(* What one read makes of the pieces it finds.                              *)

\* The pieces from b + 1 to b + n, in their order.
Pieces(b, n) == [i \in 1..n |-> b + i]

\* What is joined on comes last.
LEMMA JoinAppend ==
  ASSUME NEW s \in Seq(Nat), NEW t \in Seq(Nat), NEW e \in Nat
  PROVE  s \o Append(t, e) = Append(s \o t, e)
  OBVIOUS

\* The lines of S are the ones that end in the pieces after b, whole and readable.
EndThere(b, n, S) ==
  \A i \in 1..n : EndsWholeLine(Pieces(b, n), i) <=> (b + i) % 2 = 0 /\ (b + i) \div 2 \in S

(* The lines that end in the pieces after b, whole and readable, come after *)
(* the ones up to b.                                                        *)
LEMMA ParsedPieces ==
  ASSUME NEW b \in Nat, NEW n \in Nat, NEW S, EndThere(b, n, S)
  PROVE  Ascending(b \div 2, S) \o Parsed(Pieces(b, n)) = Ascending((b + n) \div 2, S)
  <1> DEFINE text == Pieces(b, n)
             E == {i \in 1..n : EndsWholeLine(text, i)}
             line(i) == (b + i) \div 2
             asLines(s) == [m \in DOMAIN s |-> line(s[m])]
             G == {i \in 0..n : Ascending(b \div 2, S) \o asLines(Ascending(i, E)) = Ascending(line(i), S)}
  <1>a. b \div 2 \in Nat /\ \A i \in 0..n : line(i) \in Nat
    OBVIOUS
  <1>b. Ascending(b \div 2, S) \in Seq(Nat)
    <2>1. Ascending(b \div 2, S) \in Seq(1..(b \div 2))
      BY <1>a, AscendingType
    <2> QED BY <2>1, <1>a
  <1>c. \A i \in 1..n : i \in E <=> ((b + i) % 2 = 0 /\ line(i) \in S)
    BY DEF EndThere
  <1>d. \A i \in 0..n : Ascending(i, E) \in Seq(1..n)
    <2> HIDE DEF E
    <2>1. ASSUME NEW i \in 0..n PROVE Ascending(i, E) \in Seq(1..n)
      <3>1. Ascending(i, E) \in Seq(1..i)
        BY AscendingType
      <3> QED BY <3>1
    <2> QED BY <2>1
  <1>1. 0 \in G
    <2> HIDE DEF E
    <2>1. Ascending(0, E) = << >>
      BY AscendingNext
    <2>2. asLines(<< >>) = << >>
      OBVIOUS
    <2>3. line(0) = b \div 2
      OBVIOUS
    <2> HIDE DEF asLines, line
    <2> QED BY <1>b, <2>1, <2>2, <2>3
  <1>2. ASSUME NEW i \in 1..n, i - 1 \in G PROVE i \in G
    <2>1. Ascending(b \div 2, S) \o asLines(Ascending(i - 1, E)) = Ascending(line(i - 1), S)
      BY <1>2
    <2> HIDE DEF line, asLines, E
    <2> SUFFICES Ascending(b \div 2, S) \o asLines(Ascending(i, E)) = Ascending(line(i), S)
      OBVIOUS
    <2> HIDE DEF G
    <2>n. i # 0 /\ i \in Nat /\ i - 1 \in 0..n
      OBVIOUS
    <2>2. CASE (b + i) % 2 = 0
      <3>1. line(i - 1) = line(i) - 1 /\ line(i) \in Nat /\ line(i) # 0
        BY <2>2 DEF line
      <3>2. CASE line(i) \in S
        <4>1. i \in E
          BY <2>2, <3>2, <1>c
        <4>2. Ascending(i, E) = Append(Ascending(i - 1, E), i)
          BY <4>1, <2>n, AscendingNext
        <4>3. asLines(Ascending(i, E)) = Append(asLines(Ascending(i - 1, E)), line(i))
          <5> DEFINE s == Ascending(i - 1, E)
          <5>1. s \in Seq(1..n)
            BY <1>d, <2>n
          <5> HIDE DEF s
          <5>2. asLines(Append(s, i)) = Append(asLines(s), line(i))
            BY <5>1 DEF asLines
          <5> QED BY <4>2, <5>2 DEF s
        <4>4. asLines(Ascending(i - 1, E)) \in Seq(Nat)
          <5> DEFINE s == Ascending(i - 1, E)
          <5>1. s \in Seq(1..n)
            BY <1>d, <2>n
          <5>2. \A m \in DOMAIN s : s[m] \in 0..n
            BY <5>1
          <5> HIDE DEF s
          <5>3. \A m \in DOMAIN s : line(s[m]) \in Nat
            BY <1>a, <5>2
          <5>4. asLines(s) \in Seq(Nat)
            BY <5>1, <5>3 DEF asLines
          <5> QED BY <5>4 DEF s
        <4>5. Ascending(line(i), S) = Append(Ascending(line(i) - 1, S), line(i))
          BY <3>1, <3>2, AscendingNext
        <4>6. Ascending(b \div 2, S) \o Append(asLines(Ascending(i - 1, E)), line(i))
                = Append(Ascending(b \div 2, S) \o asLines(Ascending(i - 1, E)), line(i))
          BY <1>b, <3>1, <4>4, JoinAppend
        <4> QED BY <2>1, <3>1, <4>3, <4>5, <4>6
      <3>3. CASE line(i) \notin S
        <4>1. i \notin E
          BY <3>3, <1>c
        <4>2. Ascending(i, E) = Ascending(i - 1, E)
          BY <4>1, <2>n, AscendingNext
        <4>3. Ascending(line(i), S) = Ascending(line(i) - 1, S)
          BY <3>1, <3>3, AscendingNext
        <4> QED BY <2>1, <3>1, <4>2, <4>3
      <3> QED BY <3>2, <3>3
    <2>3. CASE (b + i) % 2 # 0
      <3>1. line(i) = line(i - 1)
        BY <2>3 DEF line
      <3>2. i \notin E
        BY <2>3, <1>c
      <3>3. Ascending(i, E) = Ascending(i - 1, E)
        BY <3>2, <2>n, AscendingNext
      <3> QED BY <2>1, <3>1, <3>3
    <2> QED BY <2>2, <2>3
  <1>3. n \in G
    <2> HIDE DEF G
    <2>1. \A i \in 0..n : i \in G
      BY <1>1, <1>2, UpTo
    <2> QED BY <2>1
  <1>4. Parsed(text) = asLines(Ascending(n, E))
    <2>1. DOMAIN text = 1..n /\ Len(text) = n
      BY DEF Pieces
    <2>2. \A m \in DOMAIN Ascending(n, E) : text[Ascending(n, E)[m]] \div 2 = line(Ascending(n, E)[m])
      <3> HIDE DEF E
      <3> QED BY <1>d DEF Pieces
    <2>3. Parsed(text) = [m \in DOMAIN Ascending(n, E) |-> text[Ascending(n, E)[m]] \div 2]
      <3> HIDE DEF text
      <3> QED BY <2>1 DEF Parsed
    <2> HIDE DEF E, line, text
    <2> QED BY <2>2, <2>3
  <1> QED BY <1>3, <1>4

(* What follows the last newline of the pieces after b is the last piece, if *)
(* it is the beginning of a line.                                           *)
LEMMA LeftOverPieces ==
  ASSUME NEW b \in Nat, NEW n \in Nat \ {0}
  PROVE  LeftOver(Pieces(b, n)) = IF (b + n) % 2 = 1 THEN <<b + n>> ELSE << >>
  <1> DEFINE text == Pieces(b, n)
             newlines == {i \in DOMAIN text : text[i] % 2 = 0}
             last == IF (b + n) % 2 = 1 THEN n - 1 ELSE n
  <1>1. text \in Seq(Nat) /\ Len(text) = n /\ DOMAIN text = 1..n /\ \A i \in 1..n : text[i] = b + i
    BY DEF Pieces
  <1>2. last \in newlines \cup {0} /\ last \in 0..n
    <2>1. CASE (b + n) % 2 = 1
      <3>1. last = n - 1 /\ (n # 1 => (b + (n - 1)) % 2 = 0)
        BY <2>1
      <3>2. n # 1 => n - 1 \in DOMAIN text /\ text[n - 1] % 2 = 0
        BY <1>1, <3>1
      <3>3. n # 1 => n - 1 \in newlines
        BY <3>2
      <3>4. n - 1 \in newlines \cup {0} /\ n - 1 \in 0..n
        BY <3>3
      <3> QED BY <3>1, <3>4
    <2>2. CASE (b + n) % 2 # 1
      <3>1. last = n /\ (b + n) % 2 = 0 /\ n \in 1..n
        BY <2>2
      <3>2. n \in DOMAIN text /\ text[n] % 2 = 0
        BY <1>1, <3>1
      <3>3. n \in newlines
        BY <3>2
      <3> QED BY <3>1, <3>3
    <2> QED BY <2>1, <2>2
  <1>3. \A i \in newlines \cup {0} : i <= last
    BY <1>1
  <1>4. newlines \cup {0} \subseteq Nat
    BY <1>1
  <1>5. Max(newlines \cup {0}) = last
    <2> HIDE DEF newlines, last
    <2>1. \E x \in newlines \cup {0} : \A y \in newlines \cup {0} : x >= y
      BY <1>2, <1>3, <1>4
    <2>2. /\ Max(newlines \cup {0}) \in newlines \cup {0}
          /\ \A y \in newlines \cup {0} : Max(newlines \cup {0}) >= y
      BY <2>1 DEF Max
    <2> DEFINE m == Max(newlines \cup {0})
    <2>3. m \in newlines \cup {0} /\ m >= last
      BY <1>2, <2>2
    <2> HIDE DEF m
    <2>4. m = last
      BY <1>2, <1>3, <1>4, <2>3
    <2> QED BY <2>4 DEF m
  <1>6. LeftOver(text) = SubSeq(text, last + 1, n)
    <2> HIDE DEF last, text
    <2> QED BY <1>1, <1>5 DEF LeftOver
  <1>7. SubSeq(text, last + 1, n) = IF (b + n) % 2 = 1 THEN <<b + n>> ELSE << >>
    <2> HIDE DEF text
    <2>1. CASE (b + n) % 2 = 1
      <3>1. last + 1 = n
        BY <2>1
      <3>2. SubSeq(text, n, n) = <<text[n]>>
        <4> DEFINE t == SubSeq(text, n, n)
        <4>1. Len(t) = 1 /\ t[1] = text[n] /\ t \in Seq(Nat)
          BY <1>1
        <4> HIDE DEF t
        <4>2. t = <<t[1]>>
          BY <4>1
        <4> QED BY <4>1, <4>2 DEF t
      <3> QED BY <1>1, <2>1, <3>1, <3>2
    <2>2. CASE (b + n) % 2 # 1
      BY <1>1, <2>2
    <2> QED BY <2>1, <2>2
  <1> QED BY <1>6, <1>7

-----------------------------------------------------------------------------
(* The log under a follower.                                                *)

\* Every step of a log that is followed is a step of the log, or leaves it alone.
LEMMA FollowedStepIsStep ==
  ASSUME [FollowedNext]_<<vars, tailVars>>
  PROVE  [Next]_vars
  <1>1. CASE HandlerStep
    BY <1>1 DEF HandlerStep, Next
  <1>2. CASE MachineStops
    BY <1>2 DEF MachineStops, Next
  <1>3. CASE Appear
    BY <1>3 DEF Appear
  <1>4. CASE TailStep
    BY <1>4 DEF TailStep
  <1>5. CASE UNCHANGED <<vars, tailVars>>
    BY <1>5
  <1> QED BY <1>1, <1>2, <1>3, <1>4, <1>5 DEF FollowedNext

(* The follower only looks: a log that is followed is a log.                *)
THEOREM FollowedIsLog == FollowedSpec => Spec
  <1>1. FollowedInit => Init
    BY DEF FollowedInit
  <1>2. [FollowedNext]_<<vars, tailVars>> => [Next]_vars
    BY FollowedStepIsStep
  <1> QED BY <1>1, <1>2, PTL DEF FollowedSpec, Spec

\* The size of the file, in pieces.
LEMMA SizeType ==
  ASSUME TypeOK
  PROVE  /\ Size \in Nat /\ Len(lines) \in Nat
         /\ \A k \in Nat : 2 * k <= Size => k <= Len(lines) /\ (~ complete => k < Len(lines))
  BY DEF TypeOK, Size

(* What a handler does to the file adds pieces to it, and leaves every line *)
(* alone that is whole.                                                     *)
LEMMA LogGrows ==
  ASSUME TypeOK, NEW w \in Writers, HandlerStepOf(w)
  PROVE  /\ Size' \in Nat /\ Size' >= Size
         /\ \A k \in Nat \ {0} : 2 * k <= Size => k \in DOMAIN lines' /\ lines'[k] = lines[k]
  <1>0. Len(lines) \in Nat /\ lines \in Seq(Line) /\ complete \in BOOLEAN /\ (~ complete => Len(lines) > 0)
    BY DEF TypeOK
  <1>1. ASSUME NEW line \in Line, lines' = WithBytes(line), complete' \in BOOLEAN
        PROVE  /\ Size' \in Nat /\ Size' >= Size
               /\ \A k \in Nat \ {0} : 2 * k <= Size => k \in DOMAIN lines' /\ lines'[k] = lines[k]
    <2>1. CASE complete
      <3>1. lines' = Append(lines, line)
        BY <1>1, <2>1 DEF WithBytes
      <3>2. Len(lines') = Len(lines) + 1 /\ DOMAIN lines' = 1..(Len(lines) + 1)
            /\ \A k \in 1..Len(lines) : lines'[k] = lines[k]
        BY <1>0, <3>1
      <3> QED BY <1>0, <1>1, <2>1, <3>2 DEF Size
    <2>2. CASE ~ complete
      <3>1. lines' = [lines EXCEPT ![Len(lines)] = Garbage] /\ Len(lines) \in 1..Len(lines)
        BY <1>0, <1>1, <2>2 DEF WithBytes
      <3>2. Len(lines') = Len(lines) /\ DOMAIN lines' = 1..Len(lines)
            /\ \A k \in 1..Len(lines) : k # Len(lines) => lines'[k] = lines[k]
        <4>1. /\ lines' \in Seq(Line) /\ Len(lines') = Len(lines)
              /\ \A k \in 1..Len(lines) : lines'[k] = IF k = Len(lines) THEN Garbage ELSE lines[k]
          BY <1>0, <3>1, GarbageIsLine, ExceptSeq
        <4>2. DOMAIN lines' = 1..Len(lines')
          BY <4>1
        <4> QED BY <4>1, <4>2
      <3>3. Size = 2 * Len(lines) - 1 /\ Size \in Nat /\ Len(lines') = Len(lines)
        <4>1. Size = 2 * Len(lines) - 1
          BY <2>2 DEF Size
        <4>2. Len(lines) \in Nat /\ Len(lines) > 0
          BY <1>0, <2>2
        <4>3. \A n \in Nat : n > 0 => 2 * n - 1 \in Nat
          OBVIOUS
        <4>4. 2 * Len(lines) - 1 \in Nat
          BY <4>2, <4>3
        <4>5. Len(lines') = Len(lines)
          BY <3>2
        <4> QED BY <4>1, <4>4, <4>5
      <3>4. Size' \in {2 * Len(lines), 2 * Len(lines) - 1}
        BY <1>0, <1>1, <3>2 DEF Size
      <3>5. Size' \in Nat /\ Size' >= Size
        BY <1>0, <3>3, <3>4
      <3>6. ASSUME NEW k \in Nat \ {0}, 2 * k <= Size PROVE k \in DOMAIN lines' /\ lines'[k] = lines[k]
        <4>1. k \in 1..Len(lines) /\ k # Len(lines)
          BY <1>0, <3>3, <3>6
        <4> QED BY <3>2, <4>1
      <3> QED BY <3>5, <3>6
    <2> QED BY <2>1, <2>2, <1>0
  <1>2. CASE Write(w)
    <2>1. NewRecord(w) \in Line
      BY <1>2, RecordIsLine DEF Write
    <2> QED BY <1>1, <1>2, <2>1 DEF Write
  <1>3. CASE WriteFails(w)
    <2>1. PICK tear \in Tears : lines' = WithBytes(Torn(w, tear)) /\ complete' = FALSE
      BY <1>3 DEF WriteFails
    <2>2. Torn(w, tear) \in Line
      BY <1>3, TornIsLine DEF WriteFails
    <2> QED BY <1>1, <2>1, <2>2
  <1>4. ASSUME lines' = lines, complete' = complete
        PROVE  /\ Size' \in Nat /\ Size' >= Size
               /\ \A k \in Nat \ {0} : 2 * k <= Size => k \in DOMAIN lines' /\ lines'[k] = lines[k]
    BY <1>0, <1>4 DEF Size
  <1>5. CASE Open(w) \/ OpenRefused(w) \/ Close(w) \/ Sync(w) \/ SyncFails(w)
    BY <1>4, <1>5 DEF Open, OpenRefused, Close, Sync, SyncFails
  <1> QED BY <1>2, <1>3, <1>5 DEF HandlerStepOf

-----------------------------------------------------------------------------
(* The follower.                                                            *)

TailTypes ==
  /\ visible \in Nat /\ visible <= Size
  /\ stage \in {"off", "draining", "attaching", "watching"}
  /\ due \in BOOLEAN /\ overlapped \in BOOLEAN /\ unseen \in BOOLEAN
  /\ reads \in [Readers -> [at : {"none", "stat", "open", "read"}, from : Nat, size : Nat]]
  /\ position \in Nat /\ halved \in Nat

Reading(r) == reads[r].at # "none"

\* What a read under way knows.
ReadKnows(r) ==
  /\ reads[r].at = "none" => reads[r] = NoRead
  /\ reads[r].at = "open" => position < reads[r].size
  /\ reads[r].at = "read" => position < reads[r].size /\ reads[r].from = position
  /\ reads[r].size <= visible

OneReading == \A q, r \in Readers : Reading(q) /\ Reading(r) => q = r

\* The lines the follower is to send.
Sendable == {k \in DOMAIN lines : lines[k].ok /\ k # halved}

\* The beginning of a line read so far, if the first read did not cut it off.
Begun == IF position % 2 = 1 /\ 2 * halved # position + 1 THEN <<position>> ELSE << >>

\* A read that will find the end of the file is under way.
WillReachEnd == \E r \in Readers : Reading(r) /\ (reads[r].at # "stat" => reads[r].size = visible)

Following == stage \in {"attaching", "watching"} /\ ~ overlapped

\* What a follower has, as long as no two of its reads overlapped.
InStep ==
  /\ position <= visible /\ 2 * halved <= position + 1
  /\ OneReading
  /\ \A r \in Readers : ReadKnows(r)
  /\ lineBuffer = Begun
  /\ sent = Ascending(position \div 2, Sendable)

\* Nothing stays unread without a change to tell, a read under way, or a write to come.
Noticed ==
  /\ stage = "attaching" /\ ~ unseen => position = visible
  /\ stage = "watching" /\ ~ due /\ ~ unseen /\ visible = Size => position = visible \/ WillReachEnd

(* The inductive form of FollowsTheLog: the text that waits for its newline *)
(* is the beginning of the line the position is in, a read under way knows  *)
(* the position, and what is not yet read will be.                          *)
FollowInv ==
  /\ TailTypes
  /\ stage # "watching" => ~ due /\ lineBuffer = << >> /\ \A r \in Readers : reads[r] = NoRead
  /\ Following => InStep /\ Noticed

\* What the follower has depends on the lines up to its position only.
LEMMA SameSendable ==
  ASSUME NEW n \in Nat, NEW S, NEW R, \A k \in 1..(n \div 2) : k \in S <=> k \in R
  PROVE  Ascending(n \div 2, S) = Ascending(n \div 2, R)
  <1>1. n \div 2 \in Nat
    OBVIOUS
  <1> QED BY <1>1, AscendingSame

\* A follower that does nothing stays in step when the file grows.
LEMMA InStepStays ==
  ASSUME TypeOK, TailTypes, InStep, visible' \in Nat, visible <= visible',
         UNCHANGED <<reads, position, halved, lineBuffer, sent>>,
         \A k \in Nat \ {0} : 2 * k <= visible => k \in DOMAIN lines /\ k \in DOMAIN lines' /\ lines'[k] = lines[k]
  PROVE  InStep'
  <1>0. position \in Nat /\ visible \in Nat /\ position <= visible
    BY DEF TailTypes, InStep
  <1>1. position' <= visible' /\ (2 * halved <= position + 1)'
    BY <1>0 DEF InStep
  <1>2. OneReading'
    BY DEF InStep, OneReading, Reading
  <1>3. ASSUME NEW r \in Readers PROVE ReadKnows(r)'
    <2>1. ReadKnows(r) /\ reads[r].size \in Nat
      BY DEF InStep, TailTypes
    <2> QED BY <1>0, <2>1 DEF ReadKnows
  <1>4. (lineBuffer = Begun)'
    BY DEF InStep, Begun
  <1>5. \A k \in 1..(position \div 2) : k \in Sendable <=> k \in Sendable'
    <2>1. ASSUME NEW k \in 1..(position \div 2) PROVE k \in DOMAIN lines /\ k \in DOMAIN lines' /\ lines'[k] = lines[k]
      <3>1. k \in Nat \ {0} /\ 2 * k <= visible
        BY <1>0
      <3> QED BY <3>1
    <2> QED BY <2>1 DEF Sendable
  <1>6. (sent = Ascending(position \div 2, Sendable))'
    <2>1. Ascending(position \div 2, Sendable) = Ascending(position \div 2, Sendable')
      BY <1>0, <1>5, SameSendable
    <2> QED BY <2>1 DEF InStep
  <1> QED BY <1>1, <1>2, <1>3, <1>4, <1>6 DEF InStep

\* A handler of the log writes, or opens, closes or syncs it.
LEMMA FollowHandlerStep ==
  ASSUME TypeOK, FollowInv, HandlerStep
  PROVE  FollowInv'
  <1>1. PICK w \in Writers : HandlerStepOf(w)
    BY DEF HandlerStep
  <1>2. /\ Size' \in Nat /\ Size' >= Size
        /\ \A k \in Nat \ {0} : 2 * k <= Size => k \in DOMAIN lines' /\ lines'[k] = lines[k]
    BY <1>1, LogGrows
  <1>3. /\ visible = Size /\ visible' = (IF stage = "off" THEN Size' ELSE visible)
        /\ UNCHANGED <<stage, due, reads, position, lineBuffer, sent, halved, overlapped, unseen>>
    BY DEF HandlerStep
  <1>4. Size \in Nat /\ \A k \in Nat \ {0} : 2 * k <= Size => k \in DOMAIN lines
    BY SizeType DEF TypeOK
  <1>5. visible' \in Nat /\ visible <= visible' /\ visible' <= Size'
    BY <1>2, <1>3, <1>4
  <1>6. TailTypes'
    BY <1>3, <1>5 DEF FollowInv, TailTypes
  <1>7. Following' => InStep' /\ Noticed'
    <2> SUFFICES ASSUME Following PROVE InStep' /\ Noticed'
      BY <1>3 DEF Following
    <2>1. InStep /\ Noticed /\ TailTypes
      BY DEF FollowInv
    <2>2. InStep'
      BY <1>2, <1>3, <1>4, <1>5, <2>1, InStepStays
    <2>3. visible' = visible
      BY <1>3 DEF Following
    <2>4. visible' = Size' => visible = Size
      BY <1>3
    <2>5. Noticed'
      BY <1>3, <2>1, <2>3, <2>4 DEF Noticed, WillReachEnd, Reading
    <2> QED BY <2>2, <2>5
  <1> QED BY <1>3, <1>6, <1>7 DEF FollowInv

\* What was written becomes visible, in part or whole.
LEMMA FollowAppear ==
  ASSUME TypeOK, FollowInv, Appear
  PROVE  FollowInv'
  <1>1. /\ UNCHANGED vars /\ UNCHANGED <<stage, reads, position, lineBuffer, sent, halved, overlapped>>
        /\ unseen' = (stage = "attaching" \/ (unseen /\ ~ due'))
    BY DEF Appear
  <1>2. PICK size \in (visible + 1)..Size :
          visible' = size /\ due' = (due \/ (stage = "watching" /\ size = Size))
    BY DEF Appear
  <1>3. Size \in Nat /\ Size' = Size /\ lines' = lines /\ visible \in Nat
    BY <1>1, SizeType DEF vars, Size, FollowInv, TailTypes
  <1>4. visible' \in Nat /\ visible < visible' /\ visible' <= Size'
    BY <1>2, <1>3
  <1>5. TailTypes'
    <2>1. due' \in BOOLEAN /\ unseen' \in BOOLEAN
      BY <1>1, <1>2
    <2> QED BY <1>1, <1>4, <2>1 DEF FollowInv, TailTypes
  <1>6. stage' # "watching" => ~ due' /\ lineBuffer' = << >> /\ \A r \in Readers : reads'[r] = NoRead
    BY <1>1, <1>2 DEF FollowInv
  <1>7. Following' => InStep' /\ Noticed'
    <2> SUFFICES ASSUME Following PROVE InStep' /\ Noticed'
      BY <1>1 DEF Following
    <2>1. InStep /\ Noticed /\ TailTypes
      BY DEF FollowInv
    <2>2. \A k \in Nat \ {0} : 2 * k <= visible => k \in DOMAIN lines
      <3>1. visible <= Size
        BY <2>1 DEF TailTypes
      <3>2. \A k \in Nat \ {0} : 2 * k <= visible => k <= Len(lines)
        BY <1>3, <3>1, SizeType
      <3> QED BY <3>2, SizeType DEF TypeOK
    <2>3. InStep'
      BY <1>1, <1>3, <1>4, <2>1, <2>2, InStepStays
    <2>4. Noticed'
      BY <1>1, <1>2, <1>3 DEF Noticed
    <2> QED BY <2>3, <2>4
  <1> QED BY <1>5, <1>6, <1>7 DEF FollowInv

\* The machine stops, or the browser closes the connection.
LEMMA FollowOff ==
  ASSUME TypeOK', FollowInv, Off, visible' \in Nat, visible' <= Size'
  PROVE  FollowInv'
  <1>1. TailTypes'
    BY DEF Off, TailTypes, NoRead
  <1> QED BY <1>1 DEF Off, FollowInv, Following

\* The browser asks for the log.
LEMMA FollowConnect ==
  ASSUME TypeOK, FollowInv, Connect, UNCHANGED vars
  PROVE  FollowInv'
  <1>1. /\ stage = "off" /\ stage' = "draining" /\ Size' = Size
        /\ UNCHANGED <<visible, due, reads, position, lineBuffer, sent, halved, overlapped, unseen>>
    BY DEF Connect, vars, Size
  <1>2. TailTypes'
    BY <1>1 DEF FollowInv, TailTypes
  <1> QED BY <1>1, <1>2 DEF FollowInv, Following

\* A line of the pieces that ends whole and reads is one that ends there and is readable.
LEMMA PiecesEndLines ==
  ASSUME NEW b \in Nat, NEW n \in Nat, NEW i \in 1..n
  PROVE  EndsWholeLine(Pieces(b, n), i) <=> i > 1 /\ (b + i) % 2 = 0 /\ lines[(b + i) \div 2].ok
  <1>1. Pieces(b, n)[i] = b + i
    BY DEF Pieces
  <1>2. CASE i = 1
    BY <1>2 DEF EndsWholeLine
  <1>3. CASE i # 1
    <2>1. i - 1 \in 1..n /\ Pieces(b, n)[i - 1] = b + (i - 1) /\ b + (i - 1) = (b + i) - 1
      BY <1>3 DEF Pieces
    <2>2. (b + i) % 2 = 0 => i = 2 \/ Pieces(b, n)[i - 2] % 2 = 0
      <3>1. CASE i # 2
        <4>1. i - 2 \in 1..n /\ Pieces(b, n)[i - 2] = b + (i - 2)
          BY <1>3, <3>1 DEF Pieces
        <4>2. (b + i) % 2 = 0 => (b + (i - 2)) % 2 = 0
          OBVIOUS
        <4> QED BY <4>1, <4>2
      <3> QED BY <3>1
    <2> HIDE DEF Pieces
    <2> QED BY <1>1, <1>3, <2>1, <2>2 DEF EndsWholeLine
  <1> QED BY <1>2, <1>3

\* The first read sends every whole line that is readable.
LEMMA FollowDrain ==
  ASSUME TypeOK, FollowInv, Drain, UNCHANGED vars
  PROVE  FollowInv'
  <1>1. /\ stage = "draining" /\ stage' = "attaching" /\ position' = visible
        /\ sent' = Parsed([i \in 1..visible |-> i])
        /\ halved' = (IF visible % 2 = 1 THEN (visible + 1) \div 2 ELSE 0)
        /\ UNCHANGED <<visible, due, reads, lineBuffer, overlapped, unseen>>
    BY DEF Drain
  <1>2. lines' = lines /\ Size' = Size /\ visible \in Nat /\ visible <= Size
    BY DEF vars, Size, FollowInv, TailTypes
  <1>3. TailTypes'
    <2>1. halved' \in Nat
      BY <1>1, <1>2
    <2> QED BY <1>1, <1>2, <2>1 DEF FollowInv, TailTypes
  <1>4. ~ due' /\ lineBuffer' = << >> /\ \A r \in Readers : reads'[r] = NoRead
    BY <1>1 DEF FollowInv
  <1>5. (sent = Ascending(position \div 2, Sendable))'
    <2>1. Pieces(0, visible) = [i \in 1..visible |-> i]
      BY <1>2 DEF Pieces
    <2>2. ASSUME NEW i \in 1..visible
          PROVE  EndsWholeLine(Pieces(0, visible), i) <=> (0 + i) % 2 = 0 /\ (0 + i) \div 2 \in Sendable'
      <3>1. EndsWholeLine(Pieces(0, visible), i) <=> i > 1 /\ (0 + i) % 2 = 0 /\ lines[(0 + i) \div 2].ok
        BY <1>2, PiecesEndLines
      <3>2. CASE i % 2 = 0
        <4>1. i > 1 /\ i \div 2 \in Nat \ {0} /\ 2 * (i \div 2) <= visible
          BY <1>2, <3>2
        <4>2. i \div 2 \in DOMAIN lines
          <5>1. 2 * (i \div 2) <= Size
            BY <1>2, <4>1, SizeType
          <5>2. i \div 2 <= Len(lines)
            BY <4>1, <5>1, SizeType
          <5>3. DOMAIN lines = 1..Len(lines) /\ Len(lines) \in Nat
            BY DEF TypeOK
          <5> QED BY <4>1, <5>2, <5>3
        <4>3. i \div 2 # halved'
          BY <1>1, <1>2, <3>2
        <4> QED BY <1>2, <3>1, <3>2, <4>1, <4>2, <4>3 DEF Sendable
      <3>3. CASE i % 2 # 0
        BY <3>1, <3>3
      <3> QED BY <3>2, <3>3
    <2>3. Ascending(0 \div 2, Sendable') \o Parsed(Pieces(0, visible)) = Ascending((0 + visible) \div 2, Sendable')
      <3>1. EndThere(0, visible, Sendable')
        BY <2>2 DEF EndThere
      <3> QED BY <1>2, <3>1, ParsedPieces
    <2>4. Ascending(0 \div 2, Sendable') = << >>
      <3>1. 0 \div 2 = 0
        OBVIOUS
      <3> QED BY <3>1, AscendingNext
    <2>5. Ascending(visible \div 2, Sendable') \in Seq(Nat)
      <3>1. visible \div 2 \in Nat
        BY <1>2
      <3>2. Ascending(visible \div 2, Sendable') \in Seq(1..(visible \div 2))
        BY <3>1, AscendingType
      <3> QED BY <3>1, <3>2
    <2>6. << >> \o Parsed(Pieces(0, visible)) = Parsed(Pieces(0, visible))
      <3>1. Parsed(Pieces(0, visible)) \in Seq(Nat)
        <4> DEFINE text == Pieces(0, visible)
        <4>1. Len(text) = visible /\ DOMAIN text = 1..visible /\ \A i \in 1..visible : text[i] \in Nat
          BY <1>2 DEF Pieces
        <4> HIDE DEF text
        <4> DEFINE ends == Ascending(Len(text), {i \in DOMAIN text : EndsWholeLine(text, i)})
        <4>2. ends \in Seq(1..visible)
          BY <1>2, <4>1, AscendingType
        <4>3. Parsed(text) = [n \in DOMAIN ends |-> text[ends[n]] \div 2]
          BY DEF Parsed
        <4> HIDE DEF ends
        <4>4. \A n \in DOMAIN ends : text[ends[n]] \div 2 \in Nat
          BY <4>1, <4>2
        <4>5. Parsed(text) \in Seq(Nat)
          BY <4>2, <4>3, <4>4
        <4> QED BY <4>5 DEF text
      <3> QED BY <3>1
    <2>7. 0 + visible = visible
      BY <1>2
    <2> QED BY <1>1, <2>1, <2>3, <2>4, <2>6, <2>7
  <1>6. InStep'
    <2>1. position' <= visible' /\ (2 * halved <= position + 1)'
      BY <1>1, <1>2
    <2>2. OneReading'
      BY <1>4 DEF OneReading, Reading, NoRead
    <2>3. \A r \in Readers : ReadKnows(r)'
      BY <1>1, <1>2, <1>4 DEF ReadKnows, NoRead
    <2>4. (lineBuffer = Begun)'
      <3>1. visible % 2 = 1 => 2 * ((visible + 1) \div 2) = visible + 1
        BY <1>2
      <3> QED BY <1>1, <1>4, <3>1 DEF Begun
    <2> QED BY <1>5, <2>1, <2>2, <2>3, <2>4 DEF InStep
  <1>7. Noticed'
    BY <1>1 DEF Noticed
  <1> QED BY <1>1, <1>3, <1>4, <1>6, <1>7 DEF FollowInv

\* The watcher is ready.
LEMMA FollowAttached ==
  ASSUME TypeOK, FollowInv, Attached, UNCHANGED vars
  PROVE  FollowInv'
  <1>1. /\ stage = "attaching" /\ stage' = "watching" /\ Size' = Size /\ lines' = lines
        /\ UNCHANGED <<visible, due, reads, position, lineBuffer, sent, halved, overlapped, unseen>>
    BY DEF Attached, vars, Size
  <1>2. TailTypes'
    BY <1>1 DEF FollowInv, TailTypes
  <1>3. Following' => InStep' /\ Noticed'
    <2> SUFFICES ASSUME Following' PROVE InStep' /\ Noticed'
      OBVIOUS
    <2>1. InStep /\ Noticed
      BY <1>1 DEF FollowInv, Following
    <2>2. InStep'
      BY <1>1, <2>1 DEF InStep, OneReading, Reading, ReadKnows, Begun, Sendable
    <2>3. Noticed'
      BY <1>1, <2>1 DEF Noticed
    <2> QED BY <2>2, <2>3
  <1> QED BY <1>1, <1>2, <1>3 DEF FollowInv

\* The watcher tells of a change.
LEMMA FollowChanged ==
  ASSUME TypeOK, FollowInv, NEW r \in Readers, Changed(r), UNCHANGED vars
  PROVE  FollowInv'
  <1>1. /\ due /\ due' = FALSE /\ reads[r] = NoRead
        /\ reads' = [reads EXCEPT ![r] = [NoRead EXCEPT !.at = "stat"]]
        /\ overlapped' = (overlapped \/ \E q \in Readers : reads[q] # NoRead)
        /\ UNCHANGED <<visible, stage, position, lineBuffer, sent, halved, unseen>>
        /\ Size' = Size /\ lines' = lines
    BY DEF Changed, vars, Size
  <1> DEFINE new == [NoRead EXCEPT !.at = "stat"]
  <1>2. new = [at |-> "stat", from |-> 0, size |-> 0]
    BY DEF NoRead
  <1>3. reads' = [reads EXCEPT ![r] = new]
    BY <1>1
  <1> HIDE DEF new
  <1>4. reads \in [Readers -> [at : {"none", "stat", "open", "read"}, from : Nat, size : Nat]]
    BY DEF FollowInv, TailTypes
  <1>5. reads'[r] = new /\ \A q \in Readers \ {r} : reads'[q] = reads[q]
    BY <1>3, <1>4
  <1>6. TailTypes'
    <2>1. reads' \in [Readers -> [at : {"none", "stat", "open", "read"}, from : Nat, size : Nat]]
      BY <1>2, <1>3, <1>4
    <2>2. due' \in BOOLEAN /\ overlapped' \in BOOLEAN
      BY <1>1 DEF FollowInv, TailTypes
    <2> QED BY <1>1, <2>1, <2>2 DEF FollowInv, TailTypes
  <1>7. stage' = "watching"
    BY <1>1 DEF FollowInv
  <1>8. Following' => InStep' /\ Noticed'
    <2> SUFFICES ASSUME Following' PROVE InStep' /\ Noticed'
      OBVIOUS
    <2>1. Following /\ InStep
      BY <1>1 DEF FollowInv, Following
    <2>2. \A q \in Readers : reads[q] = NoRead
      BY <1>1 DEF Following
    <2>3. OneReading'
      BY <1>5, <2>2 DEF OneReading, Reading, NoRead
    <2>4. ASSUME NEW q \in Readers PROVE ReadKnows(q)'
      <3>1. visible \in Nat
        BY DEF FollowInv, TailTypes
      <3>2. CASE q = r
        BY <1>1, <1>2, <1>5, <3>1, <3>2 DEF ReadKnows
      <3>3. CASE q # r
        BY <1>1, <1>5, <2>1, <3>3 DEF InStep, ReadKnows
      <3> QED BY <3>2, <3>3
    <2>5. InStep'
      <3>1. (lineBuffer = Begun)' /\ (sent = Ascending(position \div 2, Sendable))'
        BY <1>1, <2>1 DEF InStep, Begun, Sendable
      <3> QED BY <1>1, <2>1, <2>3, <2>4, <3>1 DEF InStep
    <2>6. WillReachEnd'
      <3>1. Reading(r)' /\ reads'[r].at = "stat"
        BY <1>2, <1>5 DEF Reading
      <3> QED BY <3>1 DEF WillReachEnd
    <2> QED BY <1>7, <2>5, <2>6 DEF Noticed
  <1> QED BY <1>6, <1>7, <1>8 DEF FollowInv

\* How a read that goes on without reading keeps what it knows.
GoesOn(old, new) ==
  \/ new = NoRead /\ (InStep => position = visible)
  \/ /\ new.at = "open" \/ (new.at = "read" /\ new.from = position)
     /\ InStep => position < new.size /\ new.size <= visible
     /\ new.size = (IF old.at = "stat" THEN visible ELSE old.size)

(* A read that goes on without reading: what it knows, and that it still    *)
(* reaches the end, is left to show.                                        *)
LEMMA FollowGoesOn ==
  ASSUME TypeOK, FollowInv, UNCHANGED vars, stage = "watching", NEW r \in Readers, reads[r].at # "none",
         NEW new \in [at : {"none", "stat", "open", "read"}, from : Nat, size : Nat],
         reads' = [reads EXCEPT ![r] = new],
         UNCHANGED <<visible, stage, due, position, lineBuffer, sent, halved, overlapped, unseen>>,
         GoesOn(reads[r], new)
  PROVE  FollowInv'
  <1>1. lines' = lines /\ Size' = Size
    BY DEF vars, Size
  <1>2. reads \in [Readers -> [at : {"none", "stat", "open", "read"}, from : Nat, size : Nat]]
    BY DEF FollowInv, TailTypes
  <1>3. reads'[r] = new /\ \A q \in Readers \ {r} : reads'[q] = reads[q]
    BY <1>2
  <1>4. TailTypes'
    <2>1. reads' \in [Readers -> [at : {"none", "stat", "open", "read"}, from : Nat, size : Nat]]
      BY <1>2
    <2> QED BY <1>1, <2>1 DEF FollowInv, TailTypes
  <1>5. Following' => InStep' /\ Noticed'
    <2> SUFFICES ASSUME Following' PROVE InStep' /\ Noticed'
      OBVIOUS
    <2>1. Following /\ InStep /\ Noticed
      BY DEF FollowInv, Following
    <2>2. \A q \in Readers : Reading(q) => q = r
      BY <2>1 DEF InStep, OneReading, Reading
    <2>k. visible \in Nat
      BY DEF FollowInv, TailTypes
    <2>3. OneReading'
      <3>1. \A q \in Readers : Reading(q)' => q = r
        BY <1>3, <2>2 DEF Reading
      <3> QED BY <3>1 DEF OneReading
    <2>4. ASSUME NEW q \in Readers PROVE ReadKnows(q)'
      <3>1. CASE q = r
        BY <1>3, <2>1, <2>k, <3>1 DEF ReadKnows, GoesOn, NoRead
      <3>2. CASE q # r
        BY <1>3, <2>1, <3>2 DEF InStep, ReadKnows
      <3> QED BY <3>1, <3>2
    <2>5. InStep'
      <3>1. (lineBuffer = Begun)' /\ (sent = Ascending(position \div 2, Sendable))'
        BY <1>1, <2>1 DEF InStep, Begun, Sendable
      <3> QED BY <2>1, <2>3, <2>4, <3>1 DEF InStep
    <2>6. ASSUME position # visible, WillReachEnd PROVE WillReachEnd'
      <3>1. reads[r].at # "stat" => reads[r].size = visible
        BY <2>2, <2>6 DEF WillReachEnd
      <3>2. new.at # "none" /\ new.size = visible
        BY <2>1, <2>6, <3>1 DEF GoesOn
      <3> QED BY <1>3, <3>2 DEF WillReachEnd, Reading
    <2>7. Noticed'
      BY <1>1, <2>1, <2>6 DEF Noticed
    <2> QED BY <2>5, <2>7
  <1> QED BY <1>4, <1>5 DEF FollowInv

\* The size of the file is known.
LEMMA FollowStat ==
  ASSUME TypeOK, FollowInv, NEW r \in Readers, Stat(r), UNCHANGED vars
  PROVE  FollowInv'
  <1> DEFINE old == reads[r]
             new == IF visible = position THEN NoRead ELSE [old EXCEPT !.at = "open", !.size = visible]
  <1>1. /\ old.at = "stat" /\ reads' = [reads EXCEPT ![r] = new]
        /\ UNCHANGED <<visible, stage, due, position, lineBuffer, sent, halved, overlapped, unseen>>
    BY DEF Stat
  <1>2. old \in [at : {"none", "stat", "open", "read"}, from : Nat, size : Nat]
        /\ visible \in Nat /\ position \in Nat
    BY DEF FollowInv, TailTypes
  <1>3. stage = "watching"
    BY <1>1 DEF FollowInv, NoRead
  <1> HIDE DEF old
  <1>4. new \in [at : {"none", "stat", "open", "read"}, from : Nat, size : Nat] /\ GoesOn(old, new)
    <2>1. CASE visible = position
      <3>1. new = [at |-> "none", from |-> 0, size |-> 0] /\ new = NoRead
        BY <2>1 DEF NoRead
      <3> HIDE DEF new
      <3> QED BY <2>1, <3>1 DEF GoesOn
    <2>2. CASE visible # position
      <3>1. new = [at |-> "open", from |-> old.from, size |-> visible]
        BY <1>2, <2>2
      <3>2. InStep => position < visible
        BY <1>2, <2>2 DEF InStep
      <3> HIDE DEF new
      <3> QED BY <1>1, <1>2, <3>1, <3>2 DEF GoesOn
    <2> QED BY <2>1, <2>2
  <1> HIDE DEF new
  <1> QED BY <1>1, <1>3, <1>4, FollowGoesOn DEF old

\* The file is open.
LEMMA FollowOpened ==
  ASSUME TypeOK, FollowInv, NEW r \in Readers, Opened(r), UNCHANGED vars
  PROVE  FollowInv'
  <1> DEFINE old == reads[r]
             new == IF old.size <= position THEN NoRead ELSE [old EXCEPT !.at = "read", !.from = position]
  <1>1. /\ old.at = "open" /\ reads' = [reads EXCEPT ![r] = new]
        /\ UNCHANGED <<visible, stage, due, position, lineBuffer, sent, halved, overlapped, unseen>>
    BY DEF Opened
  <1>2. old \in [at : {"none", "stat", "open", "read"}, from : Nat, size : Nat]
        /\ visible \in Nat /\ position \in Nat
    BY DEF FollowInv, TailTypes
  <1>3. stage = "watching"
    BY <1>1 DEF FollowInv, NoRead
  <1>6. InStep => position < old.size /\ old.size <= visible
    BY <1>1 DEF InStep, ReadKnows
  <1> HIDE DEF old
  <1>4. new \in [at : {"none", "stat", "open", "read"}, from : Nat, size : Nat] /\ GoesOn(old, new)
    <2>1. CASE old.size <= position
      <3>1. new = [at |-> "none", from |-> 0, size |-> 0] /\ new = NoRead
        BY <2>1 DEF NoRead
      <3>2. ~ InStep
        BY <1>2, <1>6, <2>1
      <3> HIDE DEF new
      <3> QED BY <3>1, <3>2 DEF GoesOn
    <2>2. CASE ~ (old.size <= position)
      <3>1. new = [at |-> "read", from |-> position, size |-> old.size]
        BY <1>2, <2>2
      <3> HIDE DEF new
      <3> QED BY <1>1, <1>2, <1>6, <3>1 DEF GoesOn
    <2> QED BY <2>1, <2>2
  <1> HIDE DEF new
  <1> QED BY <1>1, <1>3, <1>4, FollowGoesOn DEF old

\* The place of what is joined on behind one piece.
LEMMA JoinAfterOne ==
  ASSUME NEW s \in Seq(Nat), Len(s) = 1, NEW t \in Seq(Nat), NEW i \in Nat, i - 1 \in 1..Len(t)
  PROVE  (s \o t)[i] = t[i - 1]
  <1>1. i \in 1..(Len(s) + Len(t)) /\ ~ (i <= Len(s)) /\ i - Len(s) = i - 1
    OBVIOUS
  <1>2. (s \o t)[i] = IF i <= Len(s) THEN s[i] ELSE t[i - Len(s)]
    BY <1>1, ConcatProperties
  <1> QED BY <1>1, <1>2

\* ParsedPieces, for the lines the follower is to send.
LEMMA ParsedSendable ==
  ASSUME NEW b \in Nat, NEW n \in Nat, EndThere(b, n, Sendable)
  PROVE  Ascending(b \div 2, Sendable) \o Parsed(Pieces(b, n)) = Ascending((b + n) \div 2, Sendable)
  <1> DEFINE S == Sendable
  <1>1. EndThere(b, n, S)
    OBVIOUS
  <1> HIDE DEF S
  <1>2. Ascending(b \div 2, S) \o Parsed(Pieces(b, n)) = Ascending((b + n) \div 2, S)
    BY <1>1, ParsedPieces
  <1> QED BY <1>2 DEF S

(* A read that is alone takes the pieces up to the size it saw: what it     *)
(* sends and what it keeps.                                                 *)
LEMMA ReadPieces ==
  ASSUME TypeOK, TailTypes, InStep, NEW size \in Nat, position < size, size <= visible
  PROVE  /\ sent \o Parsed(lineBuffer \o [i \in 1..(size - position) |-> position + i])
              = Ascending(size \div 2, Sendable)
         /\ LeftOver(lineBuffer \o [i \in 1..(size - position) |-> position + i])
              = IF size % 2 = 1 THEN <<size>> ELSE << >>
  <1> DEFINE text == lineBuffer \o [i \in 1..(size - position) |-> position + i]
             b == IF Begun = << >> THEN position ELSE position - 1
             n == size - b
  <1>0. position \in Nat /\ halved \in Nat /\ visible \in Nat /\ visible <= Size /\ 2 * halved <= position + 1
    BY DEF TailTypes, InStep
  <1>1. b \in Nat /\ n \in Nat \ {0} /\ b + n = size /\ b \div 2 = position \div 2
        /\ (b % 2 = 0 \/ 2 * halved = b + 1) /\ 2 * halved <= b + 1
    <2>1. CASE position % 2 = 1 /\ 2 * halved # position + 1
      <3>1. Begun = <<position>> /\ Begun # << >>
        BY <2>1 DEF Begun
      <3>2. b = position - 1
        BY <3>1
      <3> HIDE DEF b
      <3> QED BY <1>0, <2>1, <3>2
    <2>2. CASE ~ (position % 2 = 1 /\ 2 * halved # position + 1)
      <3>1. Begun = << >>
        BY <2>2 DEF Begun
      <3>2. b = position
        BY <3>1
      <3> HIDE DEF b
      <3> QED BY <1>0, <2>2, <3>2
    <2> QED BY <2>1, <2>2
  <1>2. text = Pieces(b, n)
    <2> DEFINE rest == [i \in 1..(size - position) |-> position + i]
    <2>1. rest \in Seq(Nat) /\ Len(rest) = size - position /\ \A i \in 1..(size - position) : rest[i] = position + i
      BY <1>0
    <2>2. Pieces(b, n) \in Seq(Nat) /\ Len(Pieces(b, n)) = n /\ \A i \in 1..n : Pieces(b, n)[i] = b + i
      <3> HIDE DEF b, n
      <3> QED BY <1>1 DEF Pieces
    <2>3. CASE Begun = << >>
      <3>1. text = rest
        BY <2>1, <2>3 DEF InStep
      <3>2. b = position /\ n = size - position
        BY <2>3
      <3> QED BY <3>1, <3>2 DEF Pieces
    <2>4. CASE Begun # << >>
      <3>1. lineBuffer = <<position>>
        BY <2>4 DEF InStep, Begun
      <3>2. b = position - 1 /\ n = (size - position) + 1
        BY <1>0, <2>4
      <3> HIDE DEF b, n, rest
      <3>3. text \in Seq(Nat) /\ Len(text) = n
        BY <1>0, <2>1, <3>1, <3>2 DEF rest
      <3>4. ASSUME NEW i \in 1..n PROVE text[i] = Pieces(b, n)[i]
        <4>1. <<position>> \in Seq(Nat) /\ Len(<<position>>) = 1 /\ <<position>>[1] = position
          BY <1>0
        <4>2. text = <<position>> \o rest
          BY <3>1 DEF rest
        <4>3. CASE i = 1
          <5>1. text[i] = position
            BY <2>1, <4>1, <4>2, <4>3
          <5> QED BY <1>0, <2>2, <3>2, <4>3, <5>1
        <4>4. CASE i # 1
          <5>1. i - 1 \in 1..(size - position) /\ i \in 2..(1 + (size - position))
            BY <1>0, <3>2, <4>4
          <5> DEFINE first == <<position>>
          <5>f. first \in Seq(Nat) /\ Len(first) = 1
            BY <4>1
          <5>g. text = first \o rest
            BY <4>2
          <5> HIDE DEF first, text
          <5>2. text[i] = rest[i - 1]
            <6>1. i \in Nat /\ Len(rest) = size - position /\ rest \in Seq(Nat)
              BY <2>1, <5>1, <1>0
            <6> QED BY <5>f, <5>g, <5>1, <6>1, JoinAfterOne
          <5>3. rest[i - 1] = position + (i - 1)
            BY <2>1, <5>1
          <5>4. Pieces(b, n)[i] = b + i /\ b + i = position + (i - 1)
            BY <1>0, <2>2, <3>2, <5>1
          <5> QED BY <5>2, <5>3, <5>4
        <4> QED BY <4>3, <4>4
      <3> HIDE DEF text
      <3> QED BY <2>2, <3>3, <3>4, SeqEqual
    <2> QED BY <2>3, <2>4
  <1> HIDE DEF text, b, n
  <1>3. ASSUME NEW i \in 1..n
        PROVE  EndsWholeLine(Pieces(b, n), i) <=> (b + i) % 2 = 0 /\ (b + i) \div 2 \in Sendable
    <2>1. EndsWholeLine(Pieces(b, n), i) <=> i > 1 /\ (b + i) % 2 = 0 /\ lines[(b + i) \div 2].ok
      BY <1>1, PiecesEndLines
    <2>2. CASE (b + i) % 2 = 0
      <3>1. (b + i) \div 2 \in Nat \ {0} /\ 2 * ((b + i) \div 2) = b + i /\ b + i <= size
        BY <1>1, <2>2
      <3>2. (b + i) \div 2 \in DOMAIN lines
        <4>1. 2 * ((b + i) \div 2) <= Size
          BY <1>0, <3>1, SizeType
        <4>2. (b + i) \div 2 <= Len(lines)
          BY <3>1, <4>1, SizeType
        <4>3. DOMAIN lines = 1..Len(lines) /\ Len(lines) \in Nat
          BY DEF TypeOK
        <4> QED BY <3>1, <4>2, <4>3
      <3>3. i > 1 <=> (b + i) \div 2 # halved
        BY <1>0, <1>1, <2>2, <3>1
      <3> QED BY <2>1, <2>2, <3>2, <3>3 DEF Sendable
    <2>3. CASE (b + i) % 2 # 0
      BY <2>1, <2>3
    <2> QED BY <2>2, <2>3
  <1>4. Ascending(b \div 2, Sendable) \o Parsed(text) = Ascending(size \div 2, Sendable)
    <2>1. b \in Nat /\ n \in Nat /\ b + n = size
      BY <1>1
    <2>2. Ascending(b \div 2, Sendable) \o Parsed(Pieces(b, n)) = Ascending((b + n) \div 2, Sendable)
      <3>1. EndThere(b, n, Sendable)
        BY <1>3 DEF EndThere
      <3> QED BY <2>1, <3>1, ParsedSendable
    <2> QED BY <1>2, <2>1, <2>2
  <1>5. LeftOver(text) = IF size % 2 = 1 THEN <<size>> ELSE << >>
    BY <1>1, <1>2, LeftOverPieces
  <1> QED BY <1>1, <1>4, <1>5 DEF text, InStep

\* The new pieces are read.
LEMMA FollowRead ==
  ASSUME TypeOK, FollowInv, NEW r \in Readers, Read(r), UNCHANGED vars
  PROVE  FollowInv'
  <1> DEFINE new  == reads[r]
             text == lineBuffer \o [i \in 1..(new.size - new.from) |-> new.from + i]
  <1>1. /\ new.at = "read" /\ reads' = [reads EXCEPT ![r] = NoRead]
        /\ position' = new.size /\ sent' = sent \o Parsed(text) /\ lineBuffer' = LeftOver(text)
        /\ UNCHANGED <<visible, stage, due, halved, overlapped, unseen>>
        /\ lines' = lines /\ Size' = Size
    BY DEF Read, vars, Size
  <1>2. reads \in [Readers -> [at : {"none", "stat", "open", "read"}, from : Nat, size : Nat]]
    BY DEF FollowInv, TailTypes
  <1>3. stage = "watching"
    BY <1>1 DEF FollowInv, NoRead
  <1>4. reads'[r] = NoRead /\ \A q \in Readers \ {r} : reads'[q] = reads[q]
    BY <1>1, <1>2
  <1>5. TailTypes'
    <2>1. NoRead \in [at : {"none", "stat", "open", "read"}, from : Nat, size : Nat]
      BY DEF NoRead
    <2>2. reads' \in [Readers -> [at : {"none", "stat", "open", "read"}, from : Nat, size : Nat]]
      BY <1>1, <1>2, <2>1
    <2>3. new.size \in Nat
      BY <1>2
    <2> QED BY <1>1, <2>2, <2>3 DEF FollowInv, TailTypes
  <1>6. Following' => InStep' /\ Noticed'
    <2> SUFFICES ASSUME Following' PROVE InStep' /\ Noticed'
      OBVIOUS
    <2>1. Following /\ InStep /\ Noticed /\ TailTypes
      BY <1>1 DEF FollowInv, Following
    <2>2. position < new.size /\ new.from = position /\ new.size <= visible /\ new.size \in Nat
      BY <1>1, <1>2, <2>1 DEF InStep, ReadKnows
    <2>3. /\ sent \o Parsed(text) = Ascending(new.size \div 2, Sendable)
          /\ LeftOver(text) = IF new.size % 2 = 1 THEN <<new.size>> ELSE << >>
      <3> HIDE DEF new
      <3> QED BY <2>1, <2>2, ReadPieces
    <2> HIDE DEF text, new
    <2>4. \A q \in Readers : Reading(q) => q = r
      BY <1>1, <2>1 DEF InStep, OneReading, Reading, new
    <2>5. \A q \in Readers : ~ Reading(q)'
      BY <1>4, <2>4 DEF Reading, NoRead
    <2>6. OneReading'
      BY <2>5 DEF OneReading
    <2>7. ASSUME NEW q \in Readers PROVE ReadKnows(q)'
      <3>1. visible \in Nat
        BY <2>1 DEF TailTypes
      <3>2. CASE q = r
        BY <1>1, <1>4, <3>1, <3>2 DEF ReadKnows, NoRead
      <3>3. CASE q # r
        <4>1. reads'[q].at = "none" /\ ReadKnows(q) /\ reads'[q] = reads[q]
          BY <1>4, <2>1, <2>5, <3>3 DEF InStep, Reading
        <4> QED BY <1>1, <4>1 DEF ReadKnows
      <3> QED BY <3>2, <3>3
    <2>8. (2 * halved <= position + 1)' /\ 2 * halved # new.size + 1
      <3>1. position \in Nat /\ halved \in Nat /\ 2 * halved <= position + 1
        BY <2>1 DEF InStep, TailTypes
      <3> QED BY <1>1, <2>2, <3>1
    <2>9. (lineBuffer = Begun)'
      BY <1>1, <2>3, <2>8 DEF Begun
    <2>10. (sent = Ascending(position \div 2, Sendable))'
      BY <1>1, <2>3 DEF Sendable
    <2>11. InStep'
      BY <1>1, <2>2, <2>6, <2>7, <2>8, <2>9, <2>10 DEF InStep
    <2>12. ASSUME WillReachEnd PROVE new.size = visible
      BY <1>1, <2>4, <2>12 DEF WillReachEnd, new
    <2>13. position = visible => FALSE
      BY <2>1, <2>2 DEF TailTypes
    <2>14. Noticed'
      BY <1>1, <1>3, <2>1, <2>12, <2>13 DEF Noticed
    <2> QED BY <2>11, <2>14
  <1> QED BY <1>1, <1>3, <1>5, <1>6 DEF FollowInv

(* No step of the log or of its follower breaks the invariant.              *)
LEMMA FollowInvStep ==
  ASSUME TypeOK, TypeOK', FollowInv, [FollowedNext]_<<vars, tailVars>>
  PROVE  FollowInv'
  <1>1. CASE HandlerStep
    BY <1>1, FollowHandlerStep
  <1>2. CASE MachineStops
    <2>1. Off /\ visible' = Size'
      BY <1>2 DEF MachineStops
    <2>2. Size' \in Nat
      BY DEF TypeOK, Size
    <2> QED BY <2>1, <2>2, FollowOff
  <1>3. CASE Appear
    BY <1>3, FollowAppear
  <1>4. CASE TailStep
    <2>1. UNCHANGED vars
      BY <1>4 DEF TailStep
    <2>2. CASE Disconnect
      <3>1. Off /\ visible' = visible /\ Size' = Size
        BY <2>1, <2>2 DEF Disconnect, vars, Size
      <3>2. visible \in Nat /\ visible <= Size
        BY DEF FollowInv, TailTypes
      <3> QED BY <3>1, <3>2, FollowOff
    <2> QED BY <1>4, <2>1, <2>2, FollowConnect, FollowDrain, FollowAttached, FollowChanged,
               FollowStat, FollowOpened, FollowRead DEF TailStep
  <1>5. CASE UNCHANGED <<vars, tailVars>>
    BY <1>5 DEF vars, tailVars, FollowInv, TailTypes, Size, Following, InStep, OneReading, Reading,
                ReadKnows, Begun, Sendable, Noticed, WillReachEnd
  <1> QED BY <1>1, <1>2, <1>3, <1>4, <1>5 DEF FollowedNext

\* What the invariant says of a follower is what it promises.
LEMMA FollowInvIsEnough ==
  ASSUME FollowInv
  PROVE  FollowsTheLog
  <1> SUFFICES ASSUME stage \in {"attaching", "watching"}, ~ overlapped
               PROVE  /\ sent = Ascending(position \div 2, {k \in DOMAIN lines : lines[k].ok /\ k # halved})
                      /\ AtRest /\ ~ unseen => position = Size
    BY DEF FollowsTheLog
  <1>1. InStep /\ Noticed
    BY DEF FollowInv, Following
  <1>2. sent = Ascending(position \div 2, {k \in DOMAIN lines : lines[k].ok /\ k # halved})
    BY <1>1 DEF InStep, Sendable
  <1>3. ASSUME AtRest, ~ unseen PROVE position = Size
    <2>1. ~ WillReachEnd
      BY <1>3 DEF AtRest, WillReachEnd, Reading, NoRead
    <2> QED BY <1>1, <1>3, <2>1 DEF AtRest, Noticed
  <1> QED BY <1>2, <1>3

(* As long as no two of its reads overlapped, the dashboard has sent each   *)
(* readable line up to its position, once, in order, but for one that its   *)
(* first read cut in two; and at rest it has read the whole file, unless    *)
(* the last write came before the watcher was ready.                        *)
THEOREM FollowerIsInStep == FollowedSpec => []FollowsTheLog
  <1>1. FollowedInit => FollowInv
    <2> SUFFICES ASSUME FollowedInit PROVE FollowInv
      OBVIOUS
    <2>1. Size = 0
      BY DEF FollowedInit, Init, Size
    <2>2. TailInit
      BY DEF FollowedInit
    <2>3. TailTypes
      <3>1. NoRead \in [at : {"none", "stat", "open", "read"}, from : Nat, size : Nat]
        BY DEF NoRead
      <3>2. reads \in [Readers -> [at : {"none", "stat", "open", "read"}, from : Nat, size : Nat]]
        BY <2>2, <3>1 DEF TailInit
      <3>3. visible = 0 /\ stage = "off" /\ due = FALSE /\ overlapped = FALSE /\ unseen = FALSE
        BY <2>2 DEF TailInit
      <3>4. position = 0 /\ halved = 0
        BY <2>2 DEF TailInit
      <3>5. visible \in Nat /\ visible <= Size
        BY <2>1, <3>3
      <3>6. stage \in {"off", "draining", "attaching", "watching"}
        BY <3>3
      <3>7. due \in BOOLEAN /\ overlapped \in BOOLEAN /\ unseen \in BOOLEAN
        BY <3>3
      <3>8. position \in Nat /\ halved \in Nat
        BY <3>4
      <3> QED BY <3>2, <3>5, <3>6, <3>7, <3>8 DEF TailTypes
    <2> QED BY <2>2, <2>3 DEF TailInit, FollowInv, Following
  <1>2. TypeOK /\ TypeOK' /\ FollowInv /\ [FollowedNext]_<<vars, tailVars>> => FollowInv'
    BY FollowInvStep
  <1>3. FollowInv => FollowsTheLog
    BY FollowInvIsEnough
  <1>4. FollowedSpec => []TypeOK
    BY FollowedIsLog, TypeCorrect, PTL
  <1> QED BY <1>1, <1>2, <1>3, <1>4, PTL DEF FollowedSpec

=============================================================================
