------------------------ MODULE InvestigationProofs -------------------------
(***************************************************************************)
(* Theorems about Investigation, for every set of plans and every bound.   *)
(*                                                                         *)
(* The lanes of a plan are built of any number of parts, so what they put  *)
(* on the agenda is not described lane by lane: a lane is in LaneSet when  *)
(* it holds no records and compares no lists of processes before it has    *)
(* made them, and LaneSet is closed under concatenation (LanesJoin,        *)
(* FlattenStays).  Whatever an action puts in front of the agenda is such  *)
(* a lane, or the records of a batch in the order of its entries, and an   *)
(* agenda that Fits goes on to fit when its head is worked off.            *)
(*                                                                         *)
(* The invariant says of the record of the case that the streak tells      *)
(* whether the last counted correction is still unanswered (Streaks), that *)
(* no record is of a group after an escalation (Groups) and that the       *)
(* records of a turn are in the order of their entries (Turns); of the     *)
(* agenda that the record at its head is of a later entry than the last    *)
(* one; of drafts, and of what an agent holds, that they cite answers.     *)
(*                                                                         *)
(* That a NO_EVIL has parsed every entry is counted by places: PlacesInv   *)
(* gives each entry of a class a call of its own, on the agenda or already *)
(* answered, as long as nothing has failed; a step moves the places of the *)
(* item at the head (Shift) and leaves the rest.                           *)
(***************************************************************************)
EXTENDS Investigation, FiniteSetTheorems, WellFoundedInduction, TLAPS

-----------------------------------------------------------------------------
(* Naturals and sequences.  The theorems of the library for induction take  *)
(* an operator; a set of naturals has a least member by WFMin instead.      *)

\* The order of the naturals, as a relation.
NatLess == {p \in Nat \X Nat : p[1] < p[2]}

\* It is the relation the library's theorems are about.
LEMMA NatLessIsTheOrder == NatLess = OpToRel(<, Nat)
  BY Zenon DEF NatLess, OpToRel

\* A set of naturals that has a member has a least one.
LEMMA LeastMember ==
  ASSUME NEW T, T \subseteq Nat, T # {}
  PROVE  \E x \in T : \A y \in T : x <= y
<1>1. IsWellFoundedOn(NatLess, Nat)
  BY NatLessIsTheOrder, NatLessThanWellFounded, Zenon
<1>2. \E x \in T : \A y \in T : ~ (<<y, x>> \in NatLess)
  BY <1>1, WFMin, Zenon
<1>3. \A x, y \in Nat : ~ (<<y, x>> \in NatLess) => x <= y
  BY DEF NatLess
<1>4. QED BY <1>2, <1>3

\* A set of positions that has a member has a last one.
LEMMA LastMember ==
  ASSUME NEW n \in Nat, NEW T, T \subseteq 1..n, T # {}
  PROVE  \E x \in T : \A y \in T : y <= x
<1> DEFINE Below == {n - x : x \in T}
<1>1. Below \subseteq Nat
  <2>1. \A x \in T : n - x \in Nat
    OBVIOUS
  <2>2. QED BY <2>1
<1>2. Below # {}
  OBVIOUS
<1>3. PICK d \in Below : \A e \in Below : d <= e
  <2> HIDE DEF Below
  <2>1. QED BY <1>1, <1>2, LeastMember
<1>4. PICK x \in T : d = n - x
  BY <1>3
<1>5. ASSUME NEW y \in T PROVE y <= x
  <2>1. n - x <= n - y
    BY <1>3, <1>4
  <2>2. x \in Nat /\ y \in Nat
    OBVIOUS
  <2>3. QED BY <2>1, <2>2
<1>6. QED BY <1>5

\* h joins the sequences of ss, one after the other.
Joins(h, ss) == \A i \in DOMAIN ss : h[i] = IF i = 1 THEN ss[i] ELSE h[i - 1] \o ss[i]

\* FlattenSeq joins them all, and never leaves what concatenation does not lead out of.
LEMMA FlattenJoins ==
  ASSUME NEW L, \A s, t \in L : s \o t \in L, NEW ss \in Seq(L), ss # << >>
  PROVE  \E h \in [DOMAIN ss -> L] : Joins(h, ss) /\ FlattenSeq(ss) = h[Len(ss)]
<1> DEFINE N == Len(ss)
           Runs(f, n) == \A i \in 1..n : f[i] = IF i = 1 THEN ss[i] ELSE f[i - 1] \o ss[i]
           Joined(n) == \E f \in [1..n -> L] : Runs(f, n)
           Missing == {n \in 1..N : ~ Joined(n)}
<1>1. N \in Nat /\ N >= 1 /\ \A i \in 1..N : ss[i] \in L
  OBVIOUS
<1>2. Missing = {}
  <2>1. SUFFICES ASSUME Missing # {} PROVE FALSE
    OBVIOUS
  <2>2. PICK n \in Missing : \A k \in Missing : n <= k
    <3>1. Missing \subseteq Nat
      OBVIOUS
    <3> HIDE DEF Missing
    <3>2. QED BY <2>1, <3>1, LeastMember
  <2>3. n # 1
    <3>1. [i \in 1..1 |-> ss[1]] \in [1..1 -> L] /\ Runs([i \in 1..1 |-> ss[1]], 1)
      BY <1>1
    <3>2. QED BY <2>2, <3>1
  <2>4. n \in 1..N /\ n - 1 \in 1..N /\ n - 1 \notin Missing
    <3>1. n \in 1..N
      BY <2>2
    <3> HIDE DEF Missing, N
    <3>2. n - 1 \in 1..N /\ ~ (n <= n - 1)
      BY <1>1, <2>3, <3>1
    <3>3. QED BY <2>2, <3>1, <3>2
  <2>5. PICK f \in [1..(n - 1) -> L] : Runs(f, n - 1)
    BY <2>4
  <2> DEFINE g == [i \in 1..n |-> IF i = n THEN f[n - 1] \o ss[n] ELSE f[i]]
  <2>7. f[n - 1] \o ss[n] \in L
    BY <1>1, <2>4, <2>5
  <2>8. g \in [1..n -> L] /\ Runs(g, n)
    <3>1. g \in [1..n -> L]
      BY <2>4, <2>5, <2>7
    <3>2. ASSUME NEW i \in 1..n PROVE g[i] = IF i = 1 THEN ss[i] ELSE g[i - 1] \o ss[i]
      <4>1. CASE i = n
        <5>1. g[n] = f[n - 1] \o ss[n]
          BY <4>1
        <5>2. g[n - 1] = f[n - 1]
          BY <2>4
        <5>3. QED BY <2>3, <4>1, <5>1, <5>2
      <4>2. CASE i # n
        <5>1. i \in 1..(n - 1) /\ g[i] = f[i] /\ (i # 1 => i - 1 \in 1..(n - 1) /\ g[i - 1] = f[i - 1])
          BY <2>4, <4>2
        <5>2. QED BY <2>5, <5>1
      <4>3. QED BY <4>1, <4>2
    <3>3. QED BY <3>1, <3>2
  <2>9. QED BY <2>2, <2>8
<1>3. Joined(N)
  BY <1>1, <1>2
<1> DEFINE flatten == CHOOSE h : h = [i \in 1..N |-> IF i = 1 THEN ss[i] ELSE h[i - 1] \o ss[i]]
<1>5. \E h \in [1..N -> L] : h = [i \in 1..N |-> IF i = 1 THEN ss[i] ELSE h[i - 1] \o ss[i]]
  BY <1>3
<1>6. flatten = [i \in 1..N |-> IF i = 1 THEN ss[i] ELSE flatten[i - 1] \o ss[i]]
  BY <1>5
<1>7. FlattenSeq(ss) = flatten[N]
  BY <1>1 DEF FlattenSeq
<1> HIDE DEF flatten
<1>8. \A i \in 1..N : flatten[i] \in L
  <2> DEFINE Out == {i \in 1..N : flatten[i] \notin L}
  <2>1. SUFFICES ASSUME Out # {} PROVE FALSE
    OBVIOUS
  <2>2. PICK n \in Out : \A k \in Out : n <= k
    <3>1. Out \subseteq Nat
      OBVIOUS
    <3> HIDE DEF Out
    <3>2. QED BY <2>1, <3>1, LeastMember
  <2>3. flatten[n] = IF n = 1 THEN ss[n] ELSE flatten[n - 1] \o ss[n]
    BY <1>6
  <2>4. n # 1 => flatten[n - 1] \in L
    BY <1>1, <2>2
  <2>5. QED BY <1>1, <2>2, <2>3, <2>4
<1>9. DOMAIN ss = 1..N
  OBVIOUS
<1>10. flatten \in [1..N -> L]
  <2> HIDE DEF N
  <2>1. QED BY <1>6, <1>8
<1>11. Joins(flatten, ss)
  <2>1. SUFFICES ASSUME NEW i \in 1..N PROVE flatten[i] = IF i = 1 THEN ss[i] ELSE flatten[i - 1] \o ss[i]
    BY <1>9 DEF Joins
  <2> HIDE DEF N
  <2>2. QED BY <1>6, <2>1
<1>12. QED BY <1>7, <1>9, <1>10, <1>11

\* So what concatenation does not lead out of, FlattenSeq stays in.
LEMMA FlattenStays ==
  ASSUME NEW L, << >> \in L, \A s, t \in L : s \o t \in L,
         NEW ss \in Seq(L)
  PROVE  FlattenSeq(ss) \in L
<1>1. CASE ss = << >>
  BY <1>1 DEF FlattenSeq
<1>2. CASE ss # << >>
  BY <1>2, FlattenJoins
<1>3. QED BY <1>1, <1>2

-----------------------------------------------------------------------------
(* The items of an agenda.                                                  *)

Hows      == {"leads", "plain", "resilient", "retried", "userassist"}
Misses    == {"defer", "absence", "disclose", "silent"}
AnswerSet == {"some", "none", "hard", "transient", "absent"}

ToolNames ==
  {"vol_pslist", "vol_psscan", "vol_malfind", "vol_psxview", "yara_scan", "evtx_query",
   "hayabusa_scan", "mft_timeline", "usnjrnl_query", "prefetch_parse", "lecmd", "jlecmd",
   "amcacheparser", "rbcmd", "plaso_parse", "browser_history", "registry_query", "userassist",
   "thumbcache_parse", "sysmon_network_query", "zeek_summary", "pcap_triage", "cloud_audit",
   "bulk_extract", "oe_dbx_parse", "case_open", "disk_mount", "disk_extract_artifacts",
   "disk_unmount"}

CallItems == [do : {"call"}, tool : ToolNames, how : Hows, miss : Misses, entry : Nat]

\* The calls of a batch are numbered.
Entries == {calls \in Seq(CallItems) : \A i \in DOMAIN calls : calls[i].entry = i}

\* A record holds the answer to its own entry.
RecordItems ==
  {r \in [do : {"record"}, call : CallItems, answer : AnswerSet, answered : Nat] :
     r.answered = r.call.entry}

OtherItems ==
  [do : {"gate", "views", "recycle", "no_rules", "no_artifacts", "no_evidence", "unzip", "mount",
         "extract", "case_open"}]
  \union [do : {"batch", "plaso"}, calls : Entries]
  \union [do : {"memory_findings"}, crossed : BOOLEAN]
  \union [do : {"userassist"}, hives : Nat]
  \union [do : {"pod"}, by : {"A", "B"}]

Items == CallItems \union RecordItems \union OtherItems

\* What memory_findings looks at.
Listings == {"vol_pslist", "vol_malfind", "vol_psscan"}

\* The k-th item comes after a call of the tool, or the tool has been tried before.
After(a, k, tool, tried) ==
  tool \in tried \/ \E j \in 1..(k - 1) : a[j].do = "call" /\ a[j].tool = tool

\* Records are worked off before anything else, in order; processes are listed before the
\* lists are compared.
RecordsFirst(a) ==
  \A j, k \in DOMAIN a :
    j < k /\ a[k].do = "record" => a[j].do = "record" /\ a[j].call.entry < a[k].call.entry
ListingsFirst(a, tried) ==
  \A k \in DOMAIN a :
    /\ a[k].do \in {"views", "memory_findings"} => \A tool \in Listings : After(a, k, tool, tried)
    /\ a[k].do = "memory_findings" /\ a[k].crossed => After(a, k, "vol_psxview", tried)

Fits(a, tried) == a \in Seq(Items) /\ RecordsFirst(a) /\ ListingsFirst(a, tried)

NoRecords(a) == \A k \in DOMAIN a : a[k].do # "record"

\* A lane is in order whatever has been tried before it.
LaneSet == {a \in Seq(Items) : Fits(a, {}) /\ NoRecords(a)}

\* What has been tried stays tried.
LEMMA FitsMore ==
  ASSUME NEW a, NEW T, NEW U, T \subseteq U, Fits(a, T)
  PROVE  Fits(a, U)
  BY DEF Fits, ListingsFirst, After

\* One agenda in front of another that has no records.
LEMMA FitsAhead ==
  ASSUME NEW T, NEW s, NEW r, Fits(s, T), Fits(r, T), NoRecords(r)
  PROVE  Fits(s \o r, T)
<1> DEFINE a == s \o r
<1>1. s \in Seq(Items) /\ r \in Seq(Items) /\ Len(s) \in Nat /\ Len(r) \in Nat
  BY DEF Fits
<1>2. a \in Seq(Items) /\ Len(a) = Len(s) + Len(r)
  BY <1>1
<1>3. \A k \in 1..Len(s) : a[k] = s[k]
  BY <1>1
<1>4. \A k \in DOMAIN a : k \notin 1..Len(s) => k - Len(s) \in DOMAIN r /\ a[k] = r[k - Len(s)]
  BY <1>1
<1> HIDE DEF a
<1>5. RecordsFirst(a)
  <2>1. SUFFICES ASSUME NEW j \in DOMAIN a, NEW k \in DOMAIN a, j < k, a[k].do = "record"
                 PROVE  a[j].do = "record" /\ a[j].call.entry < a[k].call.entry
    BY DEF RecordsFirst
  <2>2. k \in 1..Len(s)
    BY <1>4, <2>1 DEF NoRecords
  <2>3. j \in 1..Len(s)
    BY <1>1, <1>2, <2>1, <2>2
  <2>4. QED BY <1>1, <1>3, <2>1, <2>2, <2>3 DEF Fits, RecordsFirst
<1>6. ListingsFirst(a, T)
  <2>1. ASSUME NEW k \in DOMAIN s, NEW tool, After(s, k, tool, T) PROVE After(a, k, tool, T)
    BY <1>1, <1>3, <2>1 DEF After
  <2>2. ASSUME NEW k \in DOMAIN a, k \notin 1..Len(s), NEW tool, After(r, k - Len(s), tool, T)
        PROVE  After(a, k, tool, T)
    <3>1. SUFFICES ASSUME NEW j \in 1..(k - Len(s) - 1), r[j].do = "call", r[j].tool = tool
                   PROVE  After(a, k, tool, T)
      BY <2>2 DEF After
    <3>2. j + Len(s) \in 1..(k - 1) /\ j + Len(s) \in DOMAIN a /\ j + Len(s) \notin 1..Len(s)
      BY <1>1, <1>2, <2>2
    <3>3. a[j + Len(s)] = r[j]
      BY <1>1, <1>4, <3>2
    <3>4. QED BY <3>1, <3>2, <3>3 DEF After
  <2>3. SUFFICES ASSUME NEW k \in DOMAIN a
                 PROVE  /\ a[k].do \in {"views", "memory_findings"} =>
                             \A tool \in Listings : After(a, k, tool, T)
                        /\ a[k].do = "memory_findings" /\ a[k].crossed => After(a, k, "vol_psxview", T)
    BY DEF ListingsFirst
  <2>4. CASE k \in 1..Len(s)
    BY <1>1, <1>3, <2>1, <2>4 DEF Fits, ListingsFirst
  <2>5. CASE k \notin 1..Len(s)
    BY <1>4, <2>2, <2>5 DEF Fits, ListingsFirst
  <2>6. QED BY <2>4, <2>5
<1>7. QED BY <1>2, <1>5, <1>6 DEF Fits, a

\* The rest of an agenda, when its first item has been worked off.
LEMMA FitsBehind ==
  ASSUME NEW T, NEW U, T \subseteq U, NEW a, a # << >>, Fits(a, T), a[1].do = "call" => a[1].tool \in U
  PROVE  Fits(Tail(a), U)
<1> DEFINE r == Tail(a)
<1>1. r \in Seq(Items) /\ a \in Seq(Items) /\ Len(a) \in Nat /\ Len(r) = Len(a) - 1
  BY DEF Fits
<1>2. \A k \in DOMAIN r : k + 1 \in DOMAIN a /\ r[k] = a[k + 1]
  BY <1>1
<1> HIDE DEF r
<1>3. RecordsFirst(r)
  BY <1>1, <1>2 DEF Fits, RecordsFirst
<1>4. ASSUME NEW k \in DOMAIN r, NEW tool, After(a, k + 1, tool, T) PROVE After(r, k, tool, U)
  <2>1. SUFFICES ASSUME NEW j \in 1..k, a[j].do = "call", a[j].tool = tool PROVE After(r, k, tool, U)
    BY <1>1, <1>4 DEF After
  <2>2. CASE j = 1
    BY <2>1, <2>2 DEF After
  <2>3. CASE j # 1
    <3>1. j - 1 \in 1..(k - 1) /\ j - 1 \in DOMAIN r
      BY <1>1, <2>3
    <3>2. r[j - 1] = a[j]
      BY <1>1, <1>2, <3>1
    <3>3. QED BY <2>1, <3>1, <3>2 DEF After
  <2>4. QED BY <2>2, <2>3
<1>5. ListingsFirst(r, U)
  BY <1>2, <1>4 DEF Fits, ListingsFirst
<1>6. QED BY <1>1, <1>3, <1>5 DEF Fits, r

\* Behind an item that is not a record there are none.
LEMMA NoneBehind ==
  ASSUME NEW T, NEW a, a # << >>, Fits(a, T), a[1].do # "record"
  PROVE  NoRecords(Tail(a))
<1>1. a \in Seq(Items) /\ \A k \in DOMAIN Tail(a) : k + 1 \in DOMAIN a /\ 1 < k + 1 /\ Tail(a)[k] = a[k + 1]
  BY DEF Fits
<1>2. QED BY <1>1 DEF Fits, RecordsFirst, NoRecords

\* Lanes are put together from lanes.
LEMMA LanesJoin ==
  ASSUME NEW s \in LaneSet, NEW r \in LaneSet
  PROVE  s \o r \in LaneSet
<1>1. Fits(s \o r, {})
  BY FitsAhead DEF LaneSet
<1>2. s \in Seq(Items) /\ r \in Seq(Items)
  BY DEF LaneSet
<1>3. \A k \in DOMAIN (s \o r) : (\E i \in DOMAIN s : (s \o r)[k] = s[i]) \/ (\E i \in DOMAIN r : (s \o r)[k] = r[i])
  BY <1>2
<1>4. NoRecords(s \o r)
  BY <1>3 DEF LaneSet, NoRecords
<1>5. QED BY <1>1, <1>4 DEF LaneSet, Fits

-----------------------------------------------------------------------------
(* The lanes are lanes.                                                     *)

\* The items that may stand anywhere.
Movable == {item \in CallItems \union OtherItems : item.do \notin {"views", "memory_findings"}}

\* The empty lane.
LEMMA NothingIsALane == << >> \in LaneSet
  BY DEF LaneSet, Fits, RecordsFirst, ListingsFirst, NoRecords

\* Movable items in any order make a lane.
LEMMA MovableLane ==
  ASSUME NEW a \in Seq(Movable)
  PROVE  a \in LaneSet
<1>1. \A item \in Movable : /\ item \in Items
                            /\ item.do \notin {"record", "views", "memory_findings"}
  BY DEF Movable, Items, CallItems, OtherItems
<1>2. Movable \subseteq Items /\ a \in Seq(Items)
  BY <1>1
<1>3. \A k \in DOMAIN a : a[k].do \notin {"record", "views", "memory_findings"}
  BY <1>1
<1>4. QED BY <1>2, <1>3 DEF LaneSet, Fits, RecordsFirst, ListingsFirst, NoRecords

\* A lane of one item.
LEMMA SingleLane ==
  ASSUME NEW item \in Movable
  PROVE  <<item>> \in LaneSet
<1>1. <<item>> \in Seq(Movable)
  OBVIOUS
<1>2. QED BY <1>1, MovableLane

\* The same item once per entry.
LEMMA RepeatedLane ==
  ASSUME NEW n \in Nat, NEW item \in Movable
  PROVE  [i \in 1..n |-> item] \in LaneSet
<1>1. [i \in 1..n |-> item] \in Seq(Movable)
  OBVIOUS
<1>2. QED BY <1>1, MovableLane

\* A call that a lane makes.
LEMMA CallIsMovable ==
  ASSUME NEW tool \in ToolNames, NEW how \in Hows, NEW miss \in Misses
  PROVE  Call(tool, how, miss) \in Movable /\ Call(tool, how, miss) \in CallItems
  BY DEF Call, Movable, CallItems

\* So can the other items that stand for a step of a lane.
LEMMA ItemIsMovable ==
  ASSUME NEW what \in {"gate", "recycle", "no_rules", "no_artifacts", "no_evidence", "unzip", "mount",
                       "extract", "case_open"}
  PROVE  Item(what) \in Movable
  BY DEF Item, Movable, OtherItems

\* The entries of a class are counted by a natural number.
LEMMA CountIsNatural ==
  ASSUME NEW here \in Seq(STRING), NEW classes
  PROVE  Count(here, classes) \in Nat
<1> DEFINE D == {i \in DOMAIN here : here[i] \in classes}
<1>1. Len(here) \in Nat /\ DOMAIN here = 1..Len(here) /\ IsFiniteSet(1..Len(here))
  BY FS_Interval
<1>2. D \subseteq 1..Len(here)
  BY <1>1
<1> HIDE DEF D
<1>3. IsFiniteSet(D)
  BY <1>1, <1>2, FS_Subset
<1>4. Cardinality(D) \in Nat
  BY <1>3, FS_CardinalityType
<1>5. QED BY <1>4 DEF Count, D

\* The smaller of two natural numbers is one of them.
LEMMA LeastIsNatural ==
  ASSUME NEW m \in Nat, NEW n \in Nat
  PROVE  Least(m, n) \in Nat
BY DEF Least

\* What a lane takes of a class, up to its cap, and the registry queries it comes to.
LEMMA TakenIsNatural ==
  ASSUME NEW here \in Seq(STRING)
  PROVE  /\ \A class \in CappedClasses : Taken(here, class) \in Nat
         /\ Queries(here) \in Nat
<1>1. ASSUME NEW class \in CappedClasses PROVE Taken(here, class) \in Nat
  BY CountIsNatural, CapsAssumption, LeastIsNatural DEF Taken
<1>2. Taken(here, "registry") \in Nat
  BY <1>1 DEF CappedClasses
<1>3. Keys * Taken(here, "registry") \in Nat /\ RegistryCalls \in Nat
  BY <1>2, CapsAssumption DEF Keys
<1>4. QED BY <1>1, <1>3, LeastIsNatural DEF Queries

\* The calls an inventory comes to for a class are those of its lane.
LEMMA DueIsTaken ==
  ASSUME NEW here \in Seq(STRING), NEW class \in DOMAIN ParserOf
  PROVE  /\ Due(here, class) \in Nat
         /\ class = "raw_disk" => Due(here, class) = Count(here, {"raw_disk"})
         /\ class = "registry" => Due(here, class) = Queries(here)
         /\ class \notin {"raw_disk", "registry"} =>
              class \in CappedClasses /\ Due(here, class) = Taken(here, class)
<1>1. class = "raw_disk" => Due(here, class) = Count(here, {"raw_disk"})
  BY DEF Due
<1>2. class = "registry" => Due(here, class) = Queries(here)
  BY DEF Due, Queries, Taken
<1>3. class \notin {"raw_disk", "registry"} => Due(here, class) = Taken(here, class)
  BY DEF Due, Taken
<1>4. class # "raw_disk" => class \in CappedClasses
  BY DEF ParserOf, CappedClasses
<1>5. Due(here, class) \in Nat
  BY <1>1, <1>2, <1>3, <1>4, CountIsNatural, TakenIsNatural
<1>6. QED BY <1>1, <1>2, <1>3, <1>4, <1>5

\* The calls made from a class of entries are numbered.
LEMMA NumberedType ==
  ASSUME NEW n \in Nat, NEW call \in CallItems
  PROVE  Numbered(n, call) \in Entries
<1>1. \A i \in 1..n : [call EXCEPT !.entry = i] \in CallItems /\ [call EXCEPT !.entry = i].entry = i
  BY DEF CallItems
<1>2. Numbered(n, call) \in Seq(CallItems)
  BY <1>1 DEF Numbered
<1>3. QED BY <1>1, <1>2 DEF Entries, Numbered

\* A batch of calls is a lane, and so is none.
LEMMA BatchLane ==
  ASSUME NEW n \in Nat, NEW tool \in ToolNames, NEW how \in Hows, NEW miss \in Misses
  PROVE  Batch(n, tool, how, miss) \in LaneSet
<1> DEFINE calls == Numbered(n, Call(tool, how, miss))
<1>1. calls \in Entries
  BY CallIsMovable, NumberedType
<1> HIDE DEF calls
<1>2. [do |-> "batch", calls |-> calls] \in Movable
  BY <1>1 DEF Movable, OtherItems
<1>3. <<[do |-> "batch", calls |-> calls]>> \in LaneSet
  BY <1>2, SingleLane
<1>4. QED BY <1>3, NothingIsALane DEF Batch, calls

\* A lane once per entry.
LEMMA EachLane ==
  ASSUME NEW n \in Nat, NEW lane \in LaneSet
  PROVE  FlattenSeq([i \in 1..n |-> lane]) \in LaneSet
<1>1. [i \in 1..n |-> lane] \in Seq(LaneSet)
  OBVIOUS
<1>2. \A s, t \in LaneSet : s \o t \in LaneSet
  BY LanesJoin
<1>3. QED BY <1>1, <1>2, NothingIsALane, FlattenStays

\* Memory: processes are listed twice and scanned for before the lists are compared.
LEMMA MemoryLane ==
  ASSUME NEW rules \in BOOLEAN
  PROVE  Memory(rules) \in LaneSet
<1> DEFINE list == Call("vol_pslist", "resilient", "defer")
           find == Call("vol_malfind", "resilient", "defer")
           yara == Call("yara_scan", "plain", "disclose")
           scan == Call("vol_psscan", "plain", "defer")
<1>1. /\ list \in CallItems /\ find \in CallItems /\ yara \in CallItems /\ scan \in CallItems
      /\ list.tool = "vol_pslist" /\ find.tool = "vol_malfind" /\ scan.tool = "vol_psscan"
      /\ list.do = "call" /\ find.do = "call" /\ scan.do = "call" /\ yara.do = "call"
  <2>1. list \in CallItems /\ find \in CallItems
    BY CallIsMovable DEF Hows, Misses, ToolNames
  <2>2. yara \in CallItems /\ scan \in CallItems
    BY CallIsMovable DEF Hows, Misses, ToolNames
  <2>3. QED BY <2>1, <2>2 DEF Call
<1>2. Item("views") \in OtherItems /\ Item("views").do = "views"
  BY DEF Item, OtherItems
<1> HIDE DEF list, find, yara, scan
<1> DEFINE middle == IF rules THEN <<yara>> ELSE << >>
           opening == <<list, find>> \o middle
           a == opening \o <<scan, Item("views")>>
           n == Len(middle)
<1>3. Memory(rules) = a
  BY DEF Memory, list, find, scan, yara
<1>4. middle \in Seq(CallItems) /\ n \in Nat
  BY <1>1
<1>5. \A k \in DOMAIN middle : middle[k].do = "call"
  BY <1>1
<1> HIDE DEF middle
<1>6. /\ opening \in Seq(CallItems) /\ Len(opening) = n + 2 /\ opening[1] = list /\ opening[2] = find
      /\ \A k \in 1..(n + 2) : opening[k].do = "call"
  <2>1. opening \in Seq(CallItems) /\ Len(opening) = n + 2 /\ opening[1] = list /\ opening[2] = find
    BY <1>1, <1>4
  <2>2. \A c \in CallItems : c.do = "call"
    BY DEF CallItems
  <2>3. \A k \in 1..(n + 2) : opening[k] \in CallItems
    BY <1>4, <2>1
  <2>4. QED BY <2>1, <2>2, <2>3
<1> HIDE DEF opening
<1>7. /\ a \in Seq(Items) /\ Len(a) = n + 4 /\ a[1] = list /\ a[2] = find
      /\ a[n + 3] = scan /\ a[n + 4] = Item("views")
      /\ \A k \in 1..(n + 2) : a[k] = opening[k]
  <2>1. opening \in Seq(Items) /\ <<scan, Item("views")>> \in Seq(Items)
    BY <1>1, <1>2, <1>6 DEF Items
  <2>2. QED BY <1>4, <1>6, <2>1
<1> HIDE DEF a
<1>8. \A k \in DOMAIN a : a[k].do \in {"call", "views"} /\ (a[k].do = "views" => k = n + 4)
  <2>1. DOMAIN a = 1..(n + 4)
    BY <1>4, <1>7
  <2>2. SUFFICES ASSUME NEW k \in 1..(n + 4), k # n + 4 PROVE a[k].do = "call"
    BY <1>2, <1>4, <1>7, <2>1
  <2>3. CASE k \in 1..(n + 2)
    BY <1>6, <1>7, <2>3
  <2>4. CASE k = n + 3
    BY <1>1, <1>7, <2>4
  <2>5. QED BY <1>4, <2>2, <2>3, <2>4
<1>9. \A tool \in Listings : After(a, n + 4, tool, {})
  <2>1. 1 \in 1..(n + 4 - 1) /\ 2 \in 1..(n + 4 - 1) /\ n + 3 \in 1..(n + 4 - 1)
    BY <1>4
  <2>2. QED BY <1>1, <1>7, <2>1 DEF After, Listings
<1>10. ListingsFirst(a, {})
  BY <1>8, <1>9 DEF ListingsFirst
<1>11. RecordsFirst(a) /\ NoRecords(a)
  BY <1>8 DEF RecordsFirst, NoRecords
<1>12. QED BY <1>3, <1>7, <1>10, <1>11 DEF LaneSet, Fits

\* The same call once, and for each entry in turn.
LEMMA CallLane ==
  ASSUME NEW n \in Nat, NEW tool \in ToolNames, NEW how \in Hows, NEW miss \in Misses
  PROVE  /\ <<Call(tool, how, miss)>> \in LaneSet
         /\ [i \in 1..n |-> Call(tool, how, miss)] \in LaneSet
BY CallIsMovable, SingleLane, RepeatedLane

\* One item, and the same for each entry.
LEMMA ItemLane ==
  ASSUME NEW n \in Nat,
         NEW what \in {"gate", "recycle", "no_rules", "no_artifacts", "no_evidence", "unzip", "mount",
                       "extract", "case_open"}
  PROVE  <<Item(what)>> \in LaneSet /\ [i \in 1..n |-> Item(what)] \in LaneSet
BY ItemIsMovable, SingleLane, RepeatedLane

\* investigate_evtx, and the sweep over a folder of logs.
LEMMA EvtxLane ==
  ASSUME NEW here \in Seq(STRING)
  PROVE  EvtxLanes(here) \in LaneSet /\ Sweep(here) \in LaneSet
<1>1. Evtx \in LaneSet /\ Hayabusa \in LaneSet
  BY CallLane DEF Evtx, Hayabusa, ToolNames, Hows, Misses
<1>2. Taken(here, "evtx") \in Nat
  BY TakenIsNatural DEF CappedClasses
<1>3. QED BY <1>1, <1>2, EachLane, NothingIsALane DEF EvtxLanes, Sweep

\* The lanes of the extracted artifacts that are batches.
LEMMA BatchLanes ==
  ASSUME NEW here \in Seq(STRING)
  PROVE  /\ Mft(here) \in LaneSet /\ UsnJrnl(here) \in LaneSet /\ Prefetch(here) \in LaneSet
         /\ Lnk(here) \in LaneSet /\ EzParsed(here) \in LaneSet /\ Browser(here) \in LaneSet
         /\ Thumbnails(here) \in LaneSet
<1>1. ASSUME NEW class \in CappedClasses, NEW tool \in ToolNames, NEW how \in Hows, NEW miss \in Misses
      PROVE  Batch(Taken(here, class), tool, how, miss) \in LaneSet
  BY TakenIsNatural, BatchLane
<1>2. Mft(here) \in LaneSet /\ UsnJrnl(here) \in LaneSet /\ Prefetch(here) \in LaneSet /\ Lnk(here) \in LaneSet
  BY <1>1 DEF Mft, UsnJrnl, Prefetch, Lnk, ToolNames, Hows, Misses, CappedClasses
<1>3. Thumbnails(here) \in LaneSet
  BY <1>1 DEF Thumbnails, ToolNames, Hows, Misses, CappedClasses
<1>4. Browser(here) \in LaneSet
  <2> DEFINE n == Least(Count(here, {"browser_history", "browser_db"}), Cap["browser"])
  <2>1. n \in Nat
    BY CountIsNatural, CapsAssumption, LeastIsNatural DEF CappedClasses
  <2> HIDE DEF n
  <2>2. Batch(n, "browser_history", "plain", "disclose") \in LaneSet
    BY <2>1, BatchLane DEF ToolNames, Hows, Misses
  <2>3. QED BY <2>2 DEF Browser, n
<1>5. /\ Batch(Taken(here, "amcache"), "amcacheparser", "plain", "disclose") \in LaneSet
      /\ Batch(Taken(here, "jumplist"), "jlecmd", "plain", "disclose") \in LaneSet
  BY <1>1 DEF ToolNames, Hows, Misses, CappedClasses
<1>6. EzParsed(here) \in LaneSet
  BY <1>5, LanesJoin DEF EzParsed
<1>7. QED BY <1>2, <1>3, <1>4, <1>6

\* The classes that are plaso's.
LEMMA PlasoLanes ==
  ASSUME NEW here \in Seq(STRING)
  PROVE  Plaso(here) \in LaneSet
<1>1. ASSUME NEW class, NEW n \in Nat PROVE PlasoLane(class, n) \in LaneSet
  <2> DEFINE calls(how) == Numbered(n, Call("plaso_parse", how, "absence"))
  <2>1. \A how \in Hows : calls(how) \in Entries
    BY CallIsMovable, NumberedType DEF ToolNames, Misses
  <2>2. \A how \in Hows : [do |-> "plaso", calls |-> calls(how)] \in Movable
    BY <2>1 DEF Movable, OtherItems
  <2>3. \A how \in Hows : <<[do |-> "plaso", calls |-> calls(how)]>> \in LaneSet
    BY <2>2, SingleLane
  <2>4. QED BY <2>3, NothingIsALane DEF PlasoLane, Hows
<1> DEFINE lanes == [i \in DOMAIN PlasoClasses |-> PlasoLane(PlasoClasses[i], Taken(here, PlasoClasses[i]))]
<1>2. DOMAIN PlasoClasses = 1..3
  BY DEF PlasoClasses
<1>3. \A i \in 1..3 : PlasoLane(PlasoClasses[i], Taken(here, PlasoClasses[i])) \in LaneSet
  <2>1. \A i \in 1..3 : PlasoClasses[i] \in CappedClasses
    BY DEF PlasoClasses, CappedClasses
  <2>2. QED BY <1>1, <2>1, TakenIsNatural
<1>4. lanes \in Seq(LaneSet)
  BY <1>2, <1>3
<1> HIDE DEF lanes
<1>5. \A s, t \in LaneSet : s \o t \in LaneSet
  BY LanesJoin
<1>6. FlattenSeq(lanes) \in LaneSet
  BY <1>4, <1>5, NothingIsALane, FlattenStays
<1>7. QED BY <1>6 DEF Plaso, lanes

\* The triage keys of each hive.
LEMMA RegistryLane ==
  ASSUME NEW here \in Seq(STRING)
  PROVE  Registry(here) \in LaneSet
<1> DEFINE hives == Taken(here, "registry")
<1>1. hives \in Nat /\ Queries(here) \in Nat
  BY TakenIsNatural DEF CappedClasses
<1> HIDE DEF hives
<1>2. [i \in 1..Queries(here) |-> Call("registry_query", "leads", "defer")] \in LaneSet
  BY <1>1, CallLane DEF ToolNames, Hows, Misses
<1>3. [do |-> "userassist", hives |-> hives] \in Movable
  BY <1>1 DEF Movable, OtherItems
<1>4. QED BY <1>2, <1>3, SingleLane, LanesJoin DEF Registry, hives

\* The targets of yara, with rules or without.
LEMMA YaraLane ==
  ASSUME NEW here \in Seq(STRING), NEW rules \in BOOLEAN
  PROVE  YaraTargets(here, rules) \in LaneSet
<1>1. Taken(here, "yara_target") \in Nat
  BY TakenIsNatural DEF CappedClasses
<1>2. [i \in 1..Taken(here, "yara_target") |-> Call("yara_scan", "plain", "disclose")] \in LaneSet
  BY <1>1, CallLane DEF ToolNames, Hows, Misses
<1>3. <<Item("no_rules")>> \in LaneSet
  BY <1>1, ItemLane
<1>4. QED BY <1>2, <1>3, NothingIsALane DEF YaraTargets

\* Everything that is parsed from extracted artifacts.
LEMMA ExtractedLane ==
  ASSUME NEW here \in Seq(STRING), NEW rules \in BOOLEAN
  PROVE  Extracted(here, rules) \in LaneSet
<1>1. RecycleBin(here) \in LaneSet
  BY TakenIsNatural, ItemLane DEF RecycleBin, CappedClasses
<1>2. QED BY <1>1, BatchLanes, PlasoLanes, RegistryLane, YaraLane, LanesJoin DEF Extracted

\* The captures and the logs of networks and of clouds.
LEMMA NetworkLane ==
  ASSUME NEW here \in Seq(STRING)
  PROVE  Network(here) \in LaneSet /\ Cloud(here) \in LaneSet
<1>1. ASSUME NEW class \in CappedClasses, NEW tool \in ToolNames
      PROVE  [i \in 1..Taken(here, class) |-> Call(tool, "leads", "disclose")] \in LaneSet
  BY TakenIsNatural, CallLane DEF Hows, Misses
<1>2. /\ [i \in 1..Taken(here, "sysmon_network") |-> Call("sysmon_network_query", "leads", "disclose")] \in LaneSet
      /\ [i \in 1..Taken(here, "zeek") |-> Call("zeek_summary", "leads", "disclose")] \in LaneSet
      /\ [i \in 1..Taken(here, "pcap") |-> Call("pcap_triage", "leads", "disclose")] \in LaneSet
      /\ [i \in 1..Taken(here, "cloud") |-> Call("cloud_audit", "leads", "disclose")] \in LaneSet
  BY <1>1 DEF ToolNames, CappedClasses
<1>3. QED BY <1>2, LanesJoin DEF Network, Cloud

\* What a zip or a disk turns out to hold.
LEMMA InnerLanes ==
  ASSUME NEW inside \in Seq(STRING), NEW rules \in BOOLEAN
  PROVE  ZipLanes(inside, rules) \in LaneSet /\ DiskLanes(inside, rules) \in LaneSet
<1>1. Each(Taken(inside, "memory"), Memory(rules)) \in LaneSet
  BY TakenIsNatural, MemoryLane, EachLane DEF Each, CappedClasses
<1>2. ZipLanes(inside, rules) \in LaneSet
  BY <1>1, EvtxLane, ExtractedLane, NetworkLane, LanesJoin DEF ZipLanes
<1>3. <<Bulk>> \in LaneSet
  BY CallLane DEF Bulk, ToolNames, Hows, Misses
<1>4. <<Bulk>> \o Extracted(inside, rules) \in LaneSet
  BY <1>3, ExtractedLane, LanesJoin
<1>5. [i \in 1..Taken(inside, "dbx") |-> Call("oe_dbx_parse", "leads", "silent")] \in LaneSet
  BY TakenIsNatural, CallLane DEF ToolNames, Hows, Misses, CappedClasses
<1>6. <<Bulk, Item("no_artifacts")>> \in LaneSet
  <2>1. Bulk \in Movable /\ Item("no_artifacts") \in Movable
    BY CallIsMovable, ItemIsMovable DEF Bulk, ToolNames, Hows, Misses
  <2>2. <<Bulk, Item("no_artifacts")>> \in Seq(Movable)
    BY <2>1
  <2>3. QED BY <2>2, MovableLane
<1>7. DiskLanes(inside, rules) \in LaneSet
  <2> DEFINE first == IF Count(inside, OfExtracted) = 0 THEN << >> ELSE <<Bulk>> \o Extracted(inside, rules)
             last  == IF Count(inside, OfExtracted \cup {"evtx"}) = 0 THEN <<Bulk, Item("no_artifacts")>> ELSE << >>
  <2>1. first \in LaneSet /\ last \in LaneSet
    BY <1>4, <1>6, NothingIsALane
  <2> HIDE DEF first, last
  <2>2. (((first \o EvtxLanes(inside)) \o Sweep(inside))
          \o [i \in 1..Taken(inside, "dbx") |-> Call("oe_dbx_parse", "leads", "silent")]) \o last \in LaneSet
    BY <1>5, <2>1, EvtxLane, LanesJoin
  <2>3. QED BY <2>2 DEF DiskLanes, first, last
<1>8. QED BY <1>2, <1>7

PlanSet == [type : EvidenceTypes, here : Seq(STRING), inside : Seq(STRING), rules : BOOLEAN,
            parallel : BOOLEAN, agent : BOOLEAN, truncated : BOOLEAN]

\* investigate_inventory: all of it is a lane.
LEMMA InventoryLane ==
  ASSUME NEW p \in PlanSet
  PROVE  Inventory(p) \in LaneSet
<1>1. p.here \in Seq(STRING) /\ p.rules \in BOOLEAN
  BY DEF PlanSet
<1>2. <<Gate>> \in LaneSet
  BY ItemLane DEF Gate
<1>3. Each(Taken(p.here, "memory"), Memory(p.rules)) \in LaneSet
  BY <1>1, TakenIsNatural, MemoryLane, EachLane DEF Each, CappedClasses
<1>4. [i \in 1..Taken(p.here, "velociraptor") |-> Item("unzip")] \in LaneSet
  BY <1>1, TakenIsNatural, ItemLane DEF CappedClasses
<1>5. Disk(TRUE) \in LaneSet
  <2>1. <<Call("case_open", "plain", "disclose")>> \in LaneSet
    BY CallLane DEF ToolNames, Hows, Misses
  <2>2. <<Item("mount")>> \in LaneSet
    BY ItemLane
  <2>3. QED BY <2>1, <2>2, LanesJoin DEF Disk
<1>6. Each(Count(p.here, {"raw_disk"}), Disk(TRUE)) \in LaneSet
  BY <1>1, <1>5, CountIsNatural, EachLane DEF Each
<1> DEFINE nothing == Count(p.here, Sources.memory \cup Sources.evtx \cup Sources.disk \cup NetworkClasses
                                    \cup {"cloud", "velociraptor"}) = 0
           last == IF nothing THEN <<Item("no_evidence")>> ELSE << >>
<1>7. last \in LaneSet
  BY ItemLane, NothingIsALane
<1> HIDE DEF last
<1>8. /\ EvtxLanes(p.here) \in LaneSet /\ Sweep(p.here) \in LaneSet /\ Extracted(p.here, p.rules) \in LaneSet
      /\ Network(p.here) \in LaneSet /\ Cloud(p.here) \in LaneSet
  BY <1>1, EvtxLane, ExtractedLane, NetworkLane
<1> DEFINE early == <<Gate>> \o Each(Taken(p.here, "memory"), Memory(p.rules))
                    \o <<Gate>> \o EvtxLanes(p.here)
                    \o <<Gate>> \o Sweep(p.here)
                    \o <<Gate>> \o Extracted(p.here, p.rules)
                    \o <<Gate>> \o Network(p.here)
<1>9. early \in LaneSet
  BY <1>2, <1>3, <1>8, LanesJoin
<1> HIDE DEF early
<1>10. early
      \o <<Gate>> \o Cloud(p.here)
      \o <<Gate>> \o [i \in 1..Taken(p.here, "velociraptor") |-> Item("unzip")]
      \o <<Gate>> \o Each(Count(p.here, {"raw_disk"}), Disk(TRUE))
      \o last \in LaneSet
  BY <1>2, <1>4, <1>6, <1>7, <1>8, <1>9, LanesJoin
<1>11. QED BY <1>10 DEF Inventory, early, last

\* What a run begins with: its lanes, and the gate in front of its end.
LEMMA FirstAgenda ==
  ASSUME NEW p \in PlanSet
  PROVE  Opening(p) \o Lanes(p) \o <<Gate>> \in LaneSet
<1>1. p.here \in Seq(STRING) /\ p.rules \in BOOLEAN /\ p.type \in EvidenceTypes /\ p.agent \in BOOLEAN
  BY DEF PlanSet
<1>2. <<Gate>> \in LaneSet /\ <<Item("unzip")>> \in LaneSet /\ Opening(p) \in LaneSet
  BY ItemLane, NothingIsALane DEF Gate, Opening
<1>3. Pods \in LaneSet
  <2>1. [do |-> "pod", by |-> "A"] \in Movable /\ [do |-> "pod", by |-> "B"] \in Movable
    BY DEF Movable, OtherItems
  <2>2. Pods \in Seq(Movable)
    BY <2>1 DEF Pods
  <2>3. QED BY <2>2, MovableLane
<1>4. Disk(FALSE) \in LaneSet
  <2>1. <<Item("mount")>> \in LaneSet
    BY ItemLane
  <2>2. QED BY <2>1, NothingIsALane, LanesJoin DEF Disk
<1>5. Lanes(p) \in LaneSet
  <2>1. Memory(p.rules) \in LaneSet /\ Evtx \in LaneSet /\ Network(p.here) \in LaneSet /\ Cloud(p.here) \in LaneSet
    BY <1>1, MemoryLane, NetworkLane, CallLane DEF Evtx, ToolNames, Hows, Misses
  <2>2. CASE p.type = "directory"
    BY <2>2, InventoryLane DEF Lanes
  <2>3. CASE p.type # "directory" /\ p.agent
    BY <1>3, <2>3 DEF Lanes
  <2>4. CASE p.type # "directory" /\ ~ p.agent
    BY <1>1, <1>2, <1>4, <2>1, <2>4, NothingIsALane DEF Lanes, EvidenceTypes
  <2>5. QED BY <2>2, <2>3, <2>4
<1>6. QED BY <1>2, <1>5, LanesJoin

-----------------------------------------------------------------------------
(* The record of the case.                                                  *)

RecordKinds == {"tool", "retry", "correct", "recover", "escalate", "terminate"}

ChainSet == [kind : RecordKinds, tool : ToolNames \union {""}, answer : AnswerSet \union {""},
             turn : Nat, group : Nat, entry : Nat, answered : Nat]

LimitNames ==
  ToolNames \union {"inventory", "velociraptor", "no_rules", "no_artifacts", "no_evidence"}

CaseSet == [streak : Nat, escalated : BOOLEAN, terminated : BOOLEAN, absent : SUBSET ToolNames,
            turn : Nat, group : Nat, unzipped : BOOLEAN, limits : SUBSET LimitNames,
            chain : Seq(ChainSet)]

CleanAt(s, i) == s[i].kind = "tool" /\ ~ Failed(s[i].answer)

\* A counted correction that no clean record has followed.
Unanswered(s) ==
  \E j \in DOMAIN s : s[j].kind = "correct" /\ \A k \in j..Len(s) : ~ CleanAt(s, k)

FollowsOne(s, i) ==
  \E j \in 1..(i - 1) : s[j].kind = "correct" /\ \A k \in j..i : ~ CleanAt(s, k)

TwoInARow(s) ==
  \A i \in DOMAIN s :
    s[i].kind = "correct" => (FollowsOne(s, i) <=> (i < Len(s) /\ s[i + 1].kind = "escalate"))

\* The streak tells whether a counted correction is still unanswered.
Streaks(c) == Threshold = 2 => TwoInARow(c.chain) /\ (c.streak >= 1 <=> Unanswered(c.chain))

\* From an escalation on the group is that of the escalation.
Groups(c) ==
  \A i, j \in DOMAIN c.chain :
    i <= j /\ c.chain[i].kind = "escalate" => c.escalated /\ c.chain[j].group = c.group

\* No record is of a turn to come; those of one turn are in the order of their entries.
Turns(c) ==
  \A i \in ToolRecords(c) :
    /\ c.chain[i].turn <= c.turn
    /\ c.chain[i].answered = c.chain[i].entry
    /\ \A j \in ToolRecords(c) :
         i < j /\ c.chain[i].turn = c.chain[j].turn => c.chain[i].entry < c.chain[j].entry

\* What is recorded next in this turn is of a later entry.
Newer(c, entry) == \A i \in ToolRecords(c) : c.chain[i].turn = c.turn => c.chain[i].entry < entry

\* A case to which records have been added.
Grows(c, d) ==
  /\ Len(c.chain) <= Len(d.chain)
  /\ \A i \in DOMAIN c.chain : d.chain[i] = c.chain[i]

\* A case to which no calls have been added, only what the engine says about them.
Notes(c, d) ==
  /\ d \in CaseSet
  /\ Grows(c, d)
  /\ ToolRecords(d) = ToolRecords(c)
  /\ d.turn = c.turn /\ d.group = c.group /\ d.terminated = c.terminated
  /\ Streaks(c) => Streaks(d)
  /\ Groups(c) => Groups(d)

\* What is added and added to again.
LEMMA GrowsOn ==
  ASSUME NEW c \in CaseSet, NEW d \in CaseSet, NEW e \in CaseSet, Grows(c, d), Grows(d, e)
  PROVE  Grows(c, e)
<1>1. c.chain \in Seq(ChainSet) /\ d.chain \in Seq(ChainSet) /\ e.chain \in Seq(ChainSet)
  BY DEF CaseSet
<1>2. QED BY <1>1 DEF Grows

\* What is noted and noted again.
LEMMA NotesOn ==
  ASSUME NEW c \in CaseSet, NEW d, NEW e, Notes(c, d), Notes(d, e)
  PROVE  Notes(c, e)
BY GrowsOn DEF Notes

\* Notes leave the records of calls as they were.
LEMMA NotesKeepTurns ==
  ASSUME NEW c \in CaseSet, NEW d, Notes(c, d)
  PROVE  /\ Turns(c) => Turns(d)
         /\ \A entry : Newer(c, entry) => Newer(d, entry)
<1>1. \A i \in ToolRecords(c) : i \in DOMAIN c.chain /\ d.chain[i] = c.chain[i]
  BY DEF ToolRecords, Notes, Grows
<1>2. QED BY <1>1 DEF Notes, Turns, Newer

\* A record that neither corrects nor escalates.
LEMMA AppendPlain ==
  ASSUME NEW s \in Seq(ChainSet), TwoInARow(s), NEW e \in ChainSet, e.kind \notin {"correct", "escalate"}
  PROVE  /\ TwoInARow(Append(s, e))
         /\ Unanswered(Append(s, e)) <=> (Unanswered(s) /\ (e.kind = "tool" => Failed(e.answer)))
<1> DEFINE t == Append(s, e)
           n == Len(s)
<1>1. /\ n \in Nat /\ DOMAIN s = 1..n /\ DOMAIN t = 1..(n + 1) /\ Len(t) = n + 1
      /\ t[n + 1] = e /\ \A i \in 1..n : t[i] = s[i]
  OBVIOUS
<1> HIDE DEF t
<1>2. \A k \in 1..n : CleanAt(t, k) <=> CleanAt(s, k)
  BY <1>1 DEF CleanAt
<1>3. CleanAt(t, n + 1) <=> e.kind = "tool" /\ ~ Failed(e.answer)
  BY <1>1 DEF CleanAt
<1>4. TwoInARow(t)
  <2>1. SUFFICES ASSUME NEW i \in 1..(n + 1), t[i].kind = "correct"
                 PROVE  FollowsOne(t, i) <=> (i < n + 1 /\ t[i + 1].kind = "escalate")
    BY <1>1 DEF TwoInARow
  <2>2. i \in 1..n /\ s[i].kind = "correct"
    BY <1>1, <2>1
  <2>3. FollowsOne(t, i) <=> FollowsOne(s, i)
    BY <1>1, <1>2, <2>2 DEF FollowsOne
  <2>4. CASE i = n
    BY <1>1, <2>2, <2>3, <2>4 DEF TwoInARow
  <2>5. CASE i # n
    <3>0. n \in Nat
      BY <1>1
    <3>1. i + 1 \in 1..n
      BY <2>2, <2>5, <3>0
    <3>2. t[i + 1] = s[i + 1]
      BY <1>1, <3>1
    <3>3. QED BY <1>1, <2>2, <2>3, <3>1, <3>2 DEF TwoInARow
  <2>6. QED BY <2>4, <2>5
<1>5. ASSUME Unanswered(t) PROVE Unanswered(s) /\ ~ CleanAt(t, n + 1)
  <2>1. PICK j \in 1..(n + 1) : t[j].kind = "correct" /\ \A k \in j..(n + 1) : ~ CleanAt(t, k)
    BY <1>1, <1>5 DEF Unanswered
  <2>2. j \in 1..n
    BY <1>1, <2>1
  <2>3. \A k \in j..n : ~ CleanAt(s, k)
    BY <1>1, <1>2, <2>1, <2>2
  <2>4. QED BY <1>1, <2>1, <2>2, <2>3 DEF Unanswered
<1>6. ASSUME Unanswered(s), ~ CleanAt(t, n + 1) PROVE Unanswered(t)
  <2>1. PICK j \in 1..n : s[j].kind = "correct" /\ \A k \in j..n : ~ CleanAt(s, k)
    BY <1>1, <1>6 DEF Unanswered
  <2>2. \A k \in j..(n + 1) : k = n + 1 \/ k \in j..n
    BY <1>1
  <2>3. \A k \in j..(n + 1) : ~ CleanAt(t, k)
    BY <1>1, <1>2, <1>6, <2>1, <2>2
  <2>4. QED BY <1>1, <2>1, <2>3 DEF Unanswered
<1>7. QED BY <1>3, <1>4, <1>5, <1>6 DEF t

\* A first counted correction.
LEMMA AppendCorrect ==
  ASSUME NEW s \in Seq(ChainSet), TwoInARow(s), NEW e \in ChainSet, e.kind = "correct"
  PROVE  /\ ~ Unanswered(s) => TwoInARow(Append(s, e))
         /\ Unanswered(Append(s, e))
         /\ FollowsOne(Append(s, e), Len(s) + 1) <=> Unanswered(s)
         /\ \A i \in 1..Len(s) : s[i].kind = "correct" =>
               (FollowsOne(Append(s, e), i) <=> (i < Len(s) /\ s[i + 1].kind = "escalate"))
<1> DEFINE t == Append(s, e)
           n == Len(s)
<1>1. /\ n \in Nat /\ DOMAIN s = 1..n /\ DOMAIN t = 1..(n + 1) /\ Len(t) = n + 1
      /\ t[n + 1] = e /\ \A i \in 1..n : t[i] = s[i]
  OBVIOUS
<1> HIDE DEF t
<1>2. \A k \in 1..n : CleanAt(t, k) <=> CleanAt(s, k)
  BY <1>1 DEF CleanAt
<1>3. ~ CleanAt(t, n + 1)
  BY <1>1 DEF CleanAt
<1>4. Unanswered(t)
  BY <1>1, <1>3 DEF Unanswered
<1>5. ASSUME FollowsOne(t, n + 1) PROVE Unanswered(s)
  <2>1. PICK j \in 1..n : t[j].kind = "correct" /\ \A k \in j..(n + 1) : ~ CleanAt(t, k)
    BY <1>1, <1>5 DEF FollowsOne
  <2>2. \A k \in j..n : ~ CleanAt(s, k)
    BY <1>1, <1>2, <2>1
  <2>3. QED BY <1>1, <2>1, <2>2 DEF Unanswered
<1>6. ASSUME Unanswered(s) PROVE FollowsOne(t, n + 1)
  <2>1. PICK j \in 1..n : s[j].kind = "correct" /\ \A k \in j..n : ~ CleanAt(s, k)
    BY <1>1, <1>6 DEF Unanswered
  <2>2. \A k \in j..(n + 1) : k = n + 1 \/ k \in j..n
    BY <1>1
  <2>3. \A k \in j..(n + 1) : ~ CleanAt(t, k)
    BY <1>1, <1>2, <1>3, <2>1, <2>2
  <2>4. j \in 1..(n + 1 - 1) /\ t[j].kind = "correct"
    BY <1>1, <2>1
  <2>5. QED BY <2>3, <2>4 DEF FollowsOne
<1>7. ASSUME NEW i \in 1..n, s[i].kind = "correct"
      PROVE  FollowsOne(t, i) <=> (i < n /\ s[i + 1].kind = "escalate")
  <2>1. FollowsOne(t, i) <=> FollowsOne(s, i)
    BY <1>1, <1>2 DEF FollowsOne
  <2>2. QED BY <1>1, <1>7, <2>1 DEF TwoInARow
<1>8. ASSUME ~ Unanswered(s) PROVE TwoInARow(t)
  <2>1. SUFFICES ASSUME NEW i \in 1..(n + 1), t[i].kind = "correct"
                 PROVE  FollowsOne(t, i) <=> (i < n + 1 /\ t[i + 1].kind = "escalate")
    BY <1>1 DEF TwoInARow
  <2>2. CASE i = n + 1
    BY <1>1, <1>5, <1>8, <2>2
  <2>3. CASE i = n /\ i # n + 1
    <3>0. n \in Nat /\ i \in 1..(n + 1)
      BY <1>1
    <3>1. i \in 1..n
      BY <2>3, <3>0
    <3>2. t[i] = s[i] /\ t[i + 1].kind = "correct"
      BY <1>1, <2>3, <3>1
    <3>3. FollowsOne(t, i) <=> (i < n /\ s[i + 1].kind = "escalate")
      BY <1>7, <2>1, <3>1, <3>2
    <3>4. QED BY <2>3, <3>0, <3>2, <3>3
  <2>4. CASE i # n /\ i # n + 1
    <3>1. n \in Nat /\ i \in 1..(n + 1)
      BY <1>1
    <3>2. i \in 1..n /\ i + 1 \in 1..n
      BY <2>4, <3>1
    <3>3. t[i + 1] = s[i + 1] /\ t[i] = s[i]
      BY <1>1, <3>2
    <3>4. FollowsOne(t, i) <=> (i < n /\ s[i + 1].kind = "escalate")
      BY <1>7, <2>1, <3>2, <3>3
    <3>5. QED BY <3>1, <3>2, <3>3, <3>4
  <2>5. QED BY <2>2, <2>3, <2>4
<1>9. QED BY <1>4, <1>5, <1>6, <1>7, <1>8 DEF t

\* The second one, and the escalation that comes with it.
LEMMA AppendEscalate ==
  ASSUME NEW s \in Seq(ChainSet), TwoInARow(s), Unanswered(s), NEW e \in ChainSet, e.kind = "correct",
         NEW f \in ChainSet, f.kind = "escalate"
  PROVE  TwoInARow(Append(Append(s, e), f)) /\ Unanswered(Append(Append(s, e), f))
<1> DEFINE t == Append(s, e)
           u == Append(t, f)
           n == Len(s)
<1>1. /\ n \in Nat /\ DOMAIN s = 1..n /\ DOMAIN t = 1..(n + 1) /\ Len(t) = n + 1 /\ t \in Seq(ChainSet)
      /\ t[n + 1] = e /\ \A i \in 1..n : t[i] = s[i]
  OBVIOUS
<1>2. /\ Unanswered(t) /\ FollowsOne(t, n + 1)
      /\ \A i \in 1..n : s[i].kind = "correct" =>
               (FollowsOne(t, i) <=> (i < n /\ s[i + 1].kind = "escalate"))
  BY AppendCorrect
<1> HIDE DEF t
<1>3. /\ DOMAIN u = 1..(n + 2) /\ Len(u) = n + 2 /\ u[n + 2] = f /\ \A i \in 1..(n + 1) : u[i] = t[i]
  BY <1>1
<1> HIDE DEF u
<1>4. \A k \in 1..(n + 1) : CleanAt(u, k) <=> CleanAt(t, k)
  BY <1>1, <1>3 DEF CleanAt
<1>5. ~ CleanAt(u, n + 2)
  BY <1>3 DEF CleanAt
<1>6. \A i \in 1..(n + 1) : FollowsOne(u, i) <=> FollowsOne(t, i)
  BY <1>1, <1>3, <1>4 DEF FollowsOne
<1>7. TwoInARow(u)
  <2>1. SUFFICES ASSUME NEW i \in 1..(n + 2), u[i].kind = "correct"
                 PROVE  FollowsOne(u, i) <=> (i < n + 2 /\ u[i + 1].kind = "escalate")
    BY <1>1, <1>3 DEF TwoInARow
  <2>2. i # n + 2
    BY <1>3, <2>1
  <2>3. CASE i = n + 1
    BY <1>1, <1>2, <1>3, <1>6, <2>3
  <2>4. CASE i = n
    <3>1. u[i + 1].kind = "correct" /\ s[i].kind = "correct" /\ i \in 1..(n + 1) /\ i \in 1..n
      BY <1>1, <1>3, <2>1, <2>4
    <3>2. QED BY <1>2, <1>6, <2>4, <3>1
  <2>5. CASE i \notin {n, n + 1}
    <3>0. n \in Nat /\ i \in 1..(n + 2)
      BY <1>1
    <3>1. i \in 1..n /\ i + 1 \in 1..n /\ i \in 1..(n + 1) /\ i + 1 \in 1..(n + 1)
      BY <2>2, <2>5, <3>0
    <3>2. u[i] = s[i] /\ u[i + 1] = s[i + 1]
      BY <1>1, <1>3, <3>1
    <3>3. FollowsOne(u, i) <=> (i < n /\ s[i + 1].kind = "escalate")
      BY <1>2, <1>6, <2>1, <3>1, <3>2
    <3>4. QED BY <1>1, <3>1, <3>2, <3>3
  <2>6. QED BY <2>2, <2>3, <2>4, <2>5
<1>8. Unanswered(u)
  <2>1. PICK j \in 1..(n + 1) : t[j].kind = "correct" /\ \A k \in j..(n + 1) : ~ CleanAt(t, k)
    BY <1>1, <1>2 DEF Unanswered
  <2>2. \A k \in j..(n + 2) : k = n + 2 \/ (k \in j..(n + 1) /\ k \in 1..(n + 1))
    BY <1>1
  <2>3. \A k \in j..(n + 2) : ~ CleanAt(u, k)
    BY <1>4, <1>5, <2>1, <2>2
  <2>4. j \in 1..(n + 2) /\ u[j].kind = "correct"
    BY <1>1, <1>3, <2>1
  <2>5. QED BY <1>3, <2>3, <2>4 DEF Unanswered
<1>9. QED BY <1>7, <1>8 DEF t, u

\* One more record of the case, of whatever kind.
LEMMA OneMore ==
  ASSUME NEW c \in CaseSet, NEW d \in CaseSet, NEW e \in ChainSet, d.chain = Append(c.chain, e)
  PROVE  /\ Grows(c, d)
         /\ Len(d.chain) = Len(c.chain) + 1 /\ d.chain[Len(c.chain) + 1] = e
         /\ e.kind = "tool" => ToolRecords(d) = ToolRecords(c) \union {Len(c.chain) + 1}
         /\ e.kind # "tool" => ToolRecords(d) = ToolRecords(c)
         /\ (/\ d.group = c.group /\ e.group = c.group
             /\ c.escalated => d.escalated
             /\ e.kind = "escalate" => d.escalated
             /\ Groups(c)) => Groups(d)
<1> DEFINE n == Len(c.chain)
<1>1. /\ n \in Nat /\ DOMAIN c.chain = 1..n /\ DOMAIN d.chain = 1..(n + 1) /\ Len(d.chain) = n + 1
      /\ d.chain[n + 1] = e /\ \A i \in 1..n : d.chain[i] = c.chain[i]
  BY DEF CaseSet
<1> HIDE DEF n
<1>2. Grows(c, d)
  BY <1>1 DEF Grows, n
<1>3. ToolRecords(d) = ToolRecords(c) \union (IF e.kind = "tool" THEN {n + 1} ELSE {})
  <2>1. \A i \in 1..(n + 1) : i = n + 1 \/ i \in 1..n
    BY <1>1
  <2>2. \A i \in 1..(n + 1) : i \in ToolRecords(d) <=> d.chain[i].kind = "tool"
    BY <1>1 DEF ToolRecords
  <2>3. \A i \in 1..n : i \in ToolRecords(c) <=> c.chain[i].kind = "tool"
    BY <1>1 DEF ToolRecords
  <2>4. ToolRecords(d) \subseteq 1..(n + 1) /\ ToolRecords(c) \subseteq 1..n /\ n + 1 \notin 1..n /\ 1..n \subseteq 1..(n + 1)
    BY <1>1 DEF ToolRecords
  <2>5. n + 1 \in 1..(n + 1)
    BY <1>1
  <2>6. QED BY <1>1, <2>1, <2>2, <2>3, <2>4, <2>5
<1>4. ASSUME d.group = c.group, e.group = c.group, c.escalated => d.escalated, e.kind = "escalate" => d.escalated, Groups(c)
      PROVE  Groups(d)
  <2>1. SUFFICES ASSUME NEW i \in 1..(n + 1), NEW j \in 1..(n + 1), i <= j, d.chain[i].kind = "escalate"
                 PROVE  d.escalated /\ d.chain[j].group = d.group
    BY <1>1 DEF Groups
  <2>2. CASE i = n + 1
    <3>1. j = n + 1
      BY <1>1, <2>1, <2>2
    <3>2. QED BY <1>1, <1>4, <2>1, <2>2, <3>1
  <2>3. CASE i # n + 1
    <3>1. i \in 1..n /\ c.chain[i].kind = "escalate" /\ i <= i
      BY <1>1, <2>1, <2>3
    <3>2. d.escalated
      BY <1>1, <1>4, <3>1 DEF Groups
    <3>3. CASE j = n + 1
      BY <1>1, <1>4, <3>2, <3>3
    <3>4. CASE j # n + 1
      <4>1. j \in 1..n
        BY <1>1, <3>4
      <4>2. QED BY <1>1, <1>4, <2>1, <3>1, <3>2, <4>1 DEF Groups
    <3>5. QED BY <3>3, <3>4
  <2>4. QED BY <2>2, <2>3
<1>5. QED BY <1>1, <1>2, <1>3, <1>4 DEF n

\* A chain with one more record is a chain.
LEMMA AppendType ==
  ASSUME NEW s \in Seq(ChainSet), NEW e \in ChainSet
  PROVE  Append(s, e) \in Seq(ChainSet)
OBVIOUS

\* A case with another chain, streak or turn is a case.
LEMMA OtherChain ==
  ASSUME NEW c \in CaseSet, NEW s \in Seq(ChainSet)
  PROVE  /\ [c EXCEPT !.chain = s] \in CaseSet
         /\ [c EXCEPT !.chain = s].chain = s
         /\ [c EXCEPT !.chain = s].streak = c.streak
         /\ [c EXCEPT !.chain = s].escalated = c.escalated
         /\ [c EXCEPT !.chain = s].terminated = c.terminated
         /\ [c EXCEPT !.chain = s].turn = c.turn
         /\ [c EXCEPT !.chain = s].group = c.group
BY DEF CaseSet

\* What the engine says without counting it.
LEMMA PlainNote ==
  ASSUME NEW c \in CaseSet, NEW kind \in {"retry", "recover", "terminate"}, NEW tool \in ToolNames \union {""}
  PROVE  Notes(c, Chained(c, kind, tool))
<1> DEFINE e == [kind |-> kind, tool |-> tool, answer |-> "", turn |-> c.turn, group |-> c.group,
                 entry |-> 0, answered |-> 0]
           d == Chained(c, kind, tool)
<1>1. e \in ChainSet /\ e.kind = kind /\ e.group = c.group
  BY DEF CaseSet, ChainSet, RecordKinds
<1>2. d = [c EXCEPT !.chain = Append(@, e)]
  BY DEF Chained
<1> HIDE DEF e, d
<1>3. /\ d \in CaseSet /\ d.chain = Append(c.chain, e) /\ d.turn = c.turn /\ d.group = c.group
      /\ d.streak = c.streak /\ d.escalated = c.escalated /\ d.terminated = c.terminated
  <2>1. c.chain \in Seq(ChainSet)
    BY DEF CaseSet
  <2>2. Append(c.chain, e) \in Seq(ChainSet)
    BY <1>1, <2>1, AppendType, Zenon
  <2>3. d = [c EXCEPT !.chain = Append(c.chain, e)]
    BY <1>2
  <2>4. QED BY <2>2, <2>3, OtherChain
<1>4. Streaks(c) => Streaks(d)
  <2>1. c.chain \in Seq(ChainSet)
    BY DEF CaseSet
  <2>2. TwoInARow(c.chain) =>
          TwoInARow(d.chain) /\ (Unanswered(d.chain) <=> Unanswered(c.chain))
    <3>1. e.kind \notin {"correct", "escalate"} /\ e.kind # "tool"
      BY <1>1
    <3>2. ASSUME TwoInARow(c.chain)
          PROVE  /\ TwoInARow(Append(c.chain, e))
                 /\ Unanswered(Append(c.chain, e)) <=> Unanswered(c.chain)
      <4>1. e \in ChainSet
        BY <1>1
      <4>2. /\ TwoInARow(Append(c.chain, e))
            /\ Unanswered(Append(c.chain, e)) <=> (Unanswered(c.chain) /\ (e.kind = "tool" => Failed(e.answer)))
        BY <2>1, <3>1, <3>2, <4>1, AppendPlain
      <4>3. QED BY <3>1, <4>2
    <3>3. QED BY <1>3, <3>2
  <2>3. QED BY <1>3, <2>2 DEF Streaks
<1>5. Grows(c, d) /\ ToolRecords(d) = ToolRecords(c) /\ (Groups(c) => Groups(d))
  <2>1. e.kind # "tool" /\ e.kind # "escalate"
    BY <1>1
  <2>2. QED BY <1>1, <1>3, <2>1, OneMore
<1>6. QED BY <1>3, <1>4, <1>5 DEF Notes, d

\* A counted correction, and the escalation when it follows another.
LEMMA CountedNote ==
  ASSUME NEW c \in CaseSet, NEW tool \in ToolNames
  PROVE  Notes(c, Corrected(c, tool, TRUE))
<1> DEFINE e == [kind |-> "correct", tool |-> tool, answer |-> "", turn |-> c.turn, group |-> c.group,
                 entry |-> 0, answered |-> 0]
           f == [kind |-> "escalate", tool |-> tool, answer |-> "", turn |-> c.turn, group |-> c.group,
                 entry |-> 0, answered |-> 0]
           d == [Chained(c, "correct", tool) EXCEPT !.streak = @ + 1]
           g == [Chained(d, "escalate", tool) EXCEPT !.escalated = TRUE]
<1>1. e \in ChainSet /\ e.kind = "correct" /\ e.group = c.group
  BY DEF CaseSet, ChainSet, RecordKinds
<1>2. f \in ChainSet /\ f.kind = "escalate" /\ f.group = c.group
  BY DEF CaseSet, ChainSet, RecordKinds
<1>3. c.chain \in Seq(ChainSet) /\ c.streak \in Nat
  BY DEF CaseSet
<1>4. Chained(c, "correct", tool) = [c EXCEPT !.chain = Append(@, e)]
  BY DEF Chained
<1>5. /\ d \in CaseSet /\ d.chain = Append(c.chain, e) /\ d.turn = c.turn /\ d.group = c.group
      /\ d.streak = c.streak + 1 /\ d.escalated = c.escalated /\ d.terminated = c.terminated
  <2> HIDE DEF e
  <2>1. Append(c.chain, e) \in Seq(ChainSet) /\ c.streak + 1 \in Nat
    BY <1>1, <1>3
  <2> DEFINE b == [c EXCEPT !.chain = Append(c.chain, e)]
  <2>2. /\ b \in CaseSet /\ b.chain = Append(c.chain, e) /\ b.turn = c.turn /\ b.group = c.group
        /\ b.streak = c.streak /\ b.escalated = c.escalated /\ b.terminated = c.terminated
    BY <2>1, OtherChain
  <2>3. d = [b EXCEPT !.streak = c.streak + 1]
    BY <1>4, <2>2
  <2> HIDE DEF b, d
  <2>4. QED BY <2>1, <2>2, <2>3 DEF CaseSet
<1>6. Chained(d, "escalate", tool) = [d EXCEPT !.chain = Append(@, f)]
  BY <1>5 DEF Chained
<1> HIDE DEF d
<1>7. /\ g \in CaseSet /\ g.chain = Append(d.chain, f) /\ g.turn = c.turn /\ g.group = c.group
      /\ g.streak = c.streak + 1 /\ g.escalated /\ g.terminated = c.terminated
  <2> HIDE DEF f
  <2>1. Append(d.chain, f) \in Seq(ChainSet)
    <3>1. d.chain \in Seq(ChainSet)
      BY <1>1, <1>3, <1>5, AppendType
    <3>2. QED BY <1>2, <3>1, AppendType
  <2> DEFINE b == [d EXCEPT !.chain = Append(d.chain, f)]
  <2>2. /\ b \in CaseSet /\ b.chain = Append(d.chain, f) /\ b.turn = d.turn /\ b.group = d.group
        /\ b.streak = d.streak /\ b.escalated = d.escalated /\ b.terminated = d.terminated
    BY <1>5, <2>1, OtherChain
  <2>3. g = [b EXCEPT !.escalated = TRUE]
    BY <1>6
  <2> HIDE DEF b, g
  <2>4. QED BY <1>5, <2>2, <2>3 DEF CaseSet
<1> HIDE DEF e, f, g
<1>8. CASE d.streak < Threshold
  <2>1. Corrected(c, tool, TRUE) = d
    BY <1>8 DEF Corrected, d
  <2>2. Streaks(c) => Streaks(d)
    BY <1>1, <1>3, <1>5, <1>8, AppendCorrect DEF Streaks
  <2>3. Grows(c, d) /\ ToolRecords(d) = ToolRecords(c) /\ (Groups(c) => Groups(d))
    BY <1>1, <1>5, OneMore
  <2>4. QED BY <1>5, <2>1, <2>2, <2>3 DEF Notes
<1>9. CASE ~ (d.streak < Threshold)
  <2>1. Corrected(c, tool, TRUE) = g
    BY <1>9 DEF Corrected, d, g
  <2>2. Streaks(c) => Streaks(g)
    BY <1>1, <1>2, <1>3, <1>5, <1>7, <1>9, AppendEscalate DEF Streaks
  <2>3. /\ Grows(c, d) /\ ToolRecords(d) = ToolRecords(c) /\ (Groups(c) => Groups(d))
    BY <1>1, <1>5, OneMore
  <2>4. /\ Grows(d, g) /\ ToolRecords(g) = ToolRecords(d) /\ (Groups(d) => Groups(g))
    BY <1>2, <1>5, <1>7, OneMore
  <2>5. Grows(c, g)
    BY <1>5, <1>7, <2>3, <2>4, GrowsOn
  <2>6. QED BY <1>7, <2>1, <2>2, <2>3, <2>4, <2>5 DEF Notes
<1>10. QED BY <1>8, <1>9

\* What is disclosed, or known of a tool, changes no record.
LEMMA SilentNote ==
  ASSUME NEW c \in CaseSet, NEW limits \in SUBSET LimitNames, NEW absent \in SUBSET ToolNames,
         NEW unzipped \in BOOLEAN
  PROVE  /\ Notes(c, c)
         /\ Notes(c, [c EXCEPT !.limits = limits])
         /\ Notes(c, [c EXCEPT !.absent = absent])
         /\ Notes(c, [c EXCEPT !.unzipped = unzipped])
<1>1. ASSUME NEW d \in CaseSet, d.chain = c.chain, d.streak = c.streak, d.escalated = c.escalated,
             d.turn = c.turn, d.group = c.group, d.terminated = c.terminated
      PROVE  Notes(c, d)
  <2>1. c.chain \in Seq(ChainSet)
    BY DEF CaseSet
  <2>2. Grows(c, d) /\ ToolRecords(d) = ToolRecords(c)
    BY <1>1, <2>1 DEF Grows, ToolRecords
  <2>3. QED BY <1>1, <2>2 DEF Notes, Streaks, Groups
<1>2. [c EXCEPT !.limits = limits] \in CaseSet /\ [c EXCEPT !.absent = absent] \in CaseSet
      /\ [c EXCEPT !.unzipped = unzipped] \in CaseSet
  BY DEF CaseSet
<1>3. QED BY <1>1, <1>2 DEF CaseSet

\* What a lane says of a failed call before it records it.
LEMMA MissedNote ==
  ASSUME NEW c \in CaseSet, NEW call \in CallItems, NEW answer
  PROVE  Notes(c, Missed(c, call, answer))
<1>1. call.tool \in ToolNames /\ call.miss \in Misses /\ call.tool \in LimitNames
  BY DEF CallItems, LimitNames
<1> DEFINE l == Limited(c, call.tool)
<1>2. Notes(c, l) /\ l \in CaseSet
  <2>1. c.limits \cup {call.tool} \in SUBSET LimitNames
    BY <1>1 DEF CaseSet
  <2>2. l = [c EXCEPT !.limits = c.limits \cup {call.tool}]
    BY DEF Limited
  <2>3. Notes(c, [c EXCEPT !.limits = c.limits \cup {call.tool}])
    BY <2>1, SilentNote
  <2>4. QED BY <2>2, <2>3 DEF Notes
<1> HIDE DEF l
<1>3. Notes(l, Corrected(l, call.tool, TRUE))
  BY <1>1, <1>2, CountedNote
<1>4. Notes(l, NotedAbsent(l, call.tool))
  <2> DEFINE m == [l EXCEPT !.absent = l.absent \cup {call.tool}]
  <2>1. l.absent \cup {call.tool} \in SUBSET ToolNames
    BY <1>1, <1>2 DEF CaseSet
  <2>2. Notes(l, m) /\ m \in CaseSet
    <3>1. Notes(l, m)
      BY <1>2, <2>1, SilentNote
    <3>2. QED BY <3>1 DEF Notes
  <2>3. NotedAbsent(l, call.tool) = IF call.tool \in l.absent THEN l ELSE Chained(m, "recover", call.tool)
    BY DEF NotedAbsent, Corrected
  <2> HIDE DEF m
  <2>4. Notes(m, Chained(m, "recover", call.tool))
    BY <1>1, <2>2, PlainNote
  <2>5. Notes(l, Chained(m, "recover", call.tool))
    BY <1>2, <2>2, <2>4, NotesOn
  <2>6. Notes(l, l)
    BY <1>2, <2>1, SilentNote
  <2>7. QED BY <2>3, <2>5, <2>6
<1>5. Notes(c, Corrected(l, call.tool, TRUE)) /\ Notes(c, NotedAbsent(l, call.tool))
  BY <1>2, <1>3, <1>4, NotesOn
<1>6. Notes(c, c)
  BY SilentNote DEF CaseSet
<1>7. Missed(c, call, answer) \in {Corrected(l, call.tool, TRUE), NotedAbsent(l, call.tool), l, c}
  BY <1>1 DEF Missed, Misses, l
<1>8. QED BY <1>2, <1>5, <1>6, <1>7

\* What holds of the case whatever is left to do.
CaseInv(c) == c \in CaseSet /\ Streaks(c) /\ Groups(c) /\ Turns(c)

\* Notes keep it.
LEMMA NotesKeep ==
  ASSUME NEW c, CaseInv(c), NEW d, Notes(c, d)
  PROVE  CaseInv(d)
BY NotesKeepTurns DEF CaseInv, Notes

\* A new turn: no record is of it yet.
LEMMA TurnKeeps ==
  ASSUME NEW c, CaseInv(c)
  PROVE  /\ CaseInv(NextTurn(c)) /\ Grows(c, NextTurn(c)) /\ ToolRecords(NextTurn(c)) = ToolRecords(c)
         /\ \A entry : Newer(NextTurn(c), entry)
<1> DEFINE d == NextTurn(c)
<1>1. /\ d \in CaseSet /\ d.chain = c.chain /\ d.turn = c.turn + 1 /\ d.group = c.group
      /\ d.streak = c.streak /\ d.escalated = c.escalated
  BY DEF CaseInv, CaseSet, NextTurn
<1> HIDE DEF d
<1>2. ToolRecords(d) = ToolRecords(c)
  BY <1>1 DEF ToolRecords
<1>3. \A i \in ToolRecords(c) : c.chain[i].turn \in Nat /\ c.chain[i].turn <= c.turn
  <2>1. c.chain \in Seq(ChainSet)
    BY DEF CaseInv, CaseSet
  <2>2. \A i \in ToolRecords(c) : c.chain[i] \in ChainSet
    BY <2>1 DEF ToolRecords
  <2>3. QED BY <2>2 DEF CaseInv, Turns, ChainSet
<1>4. c.turn \in Nat
  BY DEF CaseInv, CaseSet
<1>5. Turns(d) /\ \A entry : Newer(d, entry)
  BY <1>1, <1>2, <1>3, <1>4 DEF CaseInv, Turns, Newer
<1>6. Streaks(d) /\ Groups(d)
  BY <1>1 DEF CaseInv, Streaks, Groups
<1>7. Grows(c, d)
  BY <1>1 DEF Grows, CaseInv, CaseSet
<1>8. QED BY <1>1, <1>2, <1>5, <1>6, <1>7 DEF CaseInv, d

\* _record_tool: the record comes last, with what was answered.
LEMMA RecordKeeps ==
  ASSUME NEW c, CaseInv(c), NEW call \in CallItems, NEW answer \in AnswerSet, Newer(c, call.entry)
  PROVE  LET d == Recorded(c, call, answer, call.entry)
         IN /\ CaseInv(d) /\ Grows(c, d) /\ d.turn = c.turn
            /\ Len(d.chain) = Len(c.chain) + 1
            /\ ToolRecords(d) = ToolRecords(c) \union {Len(d.chain)}
            /\ d.chain[Len(d.chain)].tool = call.tool /\ d.chain[Len(d.chain)].answer = answer
            /\ \A entry \in Nat : call.entry < entry => Newer(d, entry)
<1> DEFINE e == [kind |-> "tool", tool |-> call.tool, answer |-> answer, turn |-> c.turn, group |-> c.group,
                 entry |-> call.entry, answered |-> call.entry]
           d == Recorded(c, call, answer, call.entry)
           n == Len(c.chain)
<1>1. c \in CaseSet /\ c.chain \in Seq(ChainSet) /\ c.streak \in Nat /\ n \in Nat /\ c.turn \in Nat
  BY DEF CaseInv, CaseSet
<1>2. e \in ChainSet
  BY <1>1 DEF CaseSet, ChainSet, RecordKinds, CallItems
<1>3. /\ e.kind = "tool" /\ e.tool = call.tool /\ e.answer = answer /\ e.turn = c.turn /\ e.group = c.group
      /\ e.entry = call.entry /\ e.answered = call.entry
  OBVIOUS
<1> DEFINE b == [c EXCEPT !.chain = Append(c.chain, e)]
<1>4. d = [b EXCEPT !.streak = IF Failed(answer) THEN c.streak ELSE 0]
  BY DEF Recorded
<1> HIDE DEF e
<1>5. /\ b \in CaseSet /\ b.chain = Append(c.chain, e) /\ b.turn = c.turn /\ b.group = c.group
      /\ b.escalated = c.escalated
  BY <1>1, <1>2, AppendType, OtherChain
<1> HIDE DEF b, d
<1>6. /\ d \in CaseSet /\ d.chain = Append(c.chain, e) /\ d.turn = c.turn /\ d.group = c.group
      /\ d.escalated = c.escalated /\ d.streak = IF Failed(answer) THEN c.streak ELSE 0
  BY <1>1, <1>4, <1>5 DEF CaseSet
<1>7. /\ Grows(c, d) /\ Len(d.chain) = n + 1 /\ d.chain[n + 1] = e
      /\ ToolRecords(d) = ToolRecords(c) \union {n + 1}
  BY <1>1, <1>2, <1>3, <1>6, OneMore
<1>8. Groups(d)
  <2>1. e.kind # "escalate" /\ Groups(c)
    BY <1>3 DEF CaseInv
  <2>2. QED BY <1>1, <1>2, <1>3, <1>6, <2>1, OneMore
<1>9. Streaks(d)
  <2>1. SUFFICES ASSUME Threshold = 2 PROVE TwoInARow(d.chain) /\ (d.streak >= 1 <=> Unanswered(d.chain))
    BY DEF Streaks
  <2>2. TwoInARow(c.chain) /\ (c.streak >= 1 <=> Unanswered(c.chain))
    BY <2>1 DEF CaseInv, Streaks
  <2>3. e.kind \notin {"correct", "escalate"}
    BY <1>3
  <2>4. /\ TwoInARow(Append(c.chain, e))
        /\ Unanswered(Append(c.chain, e)) <=> (Unanswered(c.chain) /\ (e.kind = "tool" => Failed(e.answer)))
    BY <1>1, <1>2, <2>2, <2>3, AppendPlain
  <2>5. QED BY <1>1, <1>3, <1>6, <2>2, <2>4
<1>10. \A i \in ToolRecords(c) : i \in 1..n /\ d.chain[i] = c.chain[i] /\ c.chain[i] \in ChainSet
  BY <1>1, <1>7 DEF ToolRecords, Grows
<1>11. Turns(d)
  <2>1. SUFFICES ASSUME NEW i \in ToolRecords(d)
                 PROVE  /\ d.chain[i].turn <= d.turn
                        /\ d.chain[i].answered = d.chain[i].entry
                        /\ \A j \in ToolRecords(d) :
                             i < j /\ d.chain[i].turn = d.chain[j].turn => d.chain[i].entry < d.chain[j].entry
    BY DEF Turns
  <2>2. CASE i = n + 1
    <3>1. \A j \in ToolRecords(d) : ~ (i < j)
      BY <1>1, <1>7, <1>10, <2>2
    <3>2. QED BY <1>1, <1>3, <1>6, <1>7, <2>2, <3>1
  <2>3. CASE i \in ToolRecords(c)
    <3>1. d.chain[i].turn <= d.turn /\ d.chain[i].answered = d.chain[i].entry
      BY <1>6, <1>10, <2>3 DEF CaseInv, Turns
    <3>2. ASSUME NEW j \in ToolRecords(d), i < j, d.chain[i].turn = d.chain[j].turn
          PROVE  d.chain[i].entry < d.chain[j].entry
      <4>1. CASE j = n + 1
        BY <1>3, <1>7, <1>10, <2>3, <3>2, <4>1 DEF Newer
      <4>2. CASE j \in ToolRecords(c)
        BY <1>10, <2>3, <3>2, <4>2 DEF CaseInv, Turns
      <4>3. QED BY <1>7, <4>1, <4>2
    <3>3. QED BY <3>1, <3>2
  <2>4. QED BY <1>7, <2>1, <2>2, <2>3
<1>12. ASSUME NEW entry \in Nat, call.entry < entry PROVE Newer(d, entry)
  <2>1. \A i \in ToolRecords(c) : d.chain[i].turn = d.turn => d.chain[i].entry < call.entry
    BY <1>6, <1>10 DEF Newer
  <2>2. \A i \in ToolRecords(c) : d.chain[i].entry \in Nat
    BY <1>10 DEF ChainSet
  <2>3. call.entry \in Nat
    BY DEF CallItems
  <2>4. QED BY <1>3, <1>7, <1>12, <2>1, <2>2, <2>3 DEF Newer
<1>13. CaseInv(d)
  BY <1>6, <1>8, <1>9, <1>11 DEF CaseInv
<1>14. QED BY <1>3, <1>6, <1>7, <1>12, <1>13 DEF d

\* A call of a turn of its own, or the next of a batch, with all that is made of its answer.
LEMMA AnswerKeeps ==
  ASSUME NEW c, CaseInv(c), NEW call \in CallItems, NEW answer \in AnswerSet, Newer(c, call.entry)
  PROVE  LET d == Answered(c, call, answer, call.entry)
         IN /\ CaseInv(d) /\ Grows(c, d) /\ d.turn = c.turn
            /\ Len(d.chain) \in ToolRecords(d)
            /\ ToolRecords(d) = ToolRecords(c) \union {Len(d.chain)}
            /\ d.chain[Len(d.chain)].tool = call.tool /\ d.chain[Len(d.chain)].answer = answer
            /\ \A entry \in Nat : call.entry < entry => Newer(d, entry)
<1> DEFINE m == IF Failed(answer) THEN Missed(c, call, answer) ELSE c
           d == Recorded(m, call, answer, call.entry)
<1>1. Notes(c, m)
  <2>1. c \in CaseSet
    BY DEF CaseInv
  <2>2. Notes(c, c)
    BY <2>1, SilentNote DEF CaseSet
  <2>3. QED BY <2>1, <2>2, MissedNote
<1> HIDE DEF m
<1>2. CaseInv(m) /\ Newer(m, call.entry) /\ m.turn = c.turn /\ ToolRecords(m) = ToolRecords(c) /\ Grows(c, m)
  BY <1>1, NotesKeep, NotesKeepTurns DEF CaseInv, Notes
<1>3. /\ CaseInv(d) /\ Grows(m, d) /\ d.turn = m.turn
      /\ ToolRecords(d) = ToolRecords(m) \union {Len(d.chain)}
      /\ d.chain[Len(d.chain)].tool = call.tool /\ d.chain[Len(d.chain)].answer = answer
      /\ \A entry \in Nat : call.entry < entry => Newer(d, entry)
  BY <1>2, RecordKeeps
<1> HIDE DEF d
<1>4. Grows(c, d)
  BY <1>2, <1>3, GrowsOn DEF CaseInv
<1>5. Answered(c, call, answer, call.entry) = d
  BY DEF Answered, d, m
<1>6. QED BY <1>2, <1>3, <1>4, <1>5

\* The gate of a group of lanes, passed only before any escalation.
LEMMA GateKeeps ==
  ASSUME NEW c, CaseInv(c)
  PROVE  /\ ~ c.escalated => CaseInv([c EXCEPT !.group = @ + 1])
         /\ CaseInv([Chained(c, "terminate", "") EXCEPT !.terminated = TRUE])
<1>1. ASSUME ~ c.escalated PROVE CaseInv([c EXCEPT !.group = @ + 1])
  <2> DEFINE d == [c EXCEPT !.group = @ + 1]
  <2>1. /\ d \in CaseSet /\ d.chain = c.chain /\ d.turn = c.turn /\ d.streak = c.streak
        /\ d.escalated = c.escalated
    BY DEF CaseInv, CaseSet
  <2> HIDE DEF d
  <2>2. Groups(d)
    <3>1. c.chain \in Seq(ChainSet) /\ \A i \in DOMAIN c.chain : i <= i
      BY DEF CaseInv, CaseSet
    <3>2. QED BY <1>1, <2>1, <3>1 DEF CaseInv, Groups
  <2>3. Turns(d) /\ Streaks(d)
    BY <2>1 DEF CaseInv, Turns, Streaks, ToolRecords
  <2>4. QED BY <2>1, <2>2, <2>3 DEF CaseInv, d
<1>2. CaseInv([Chained(c, "terminate", "") EXCEPT !.terminated = TRUE])
  <2> DEFINE m == Chained(c, "terminate", "")
             d == [m EXCEPT !.terminated = TRUE]
  <2>1. CaseInv(m)
    BY PlainNote, NotesKeep DEF CaseInv
  <2> HIDE DEF m
  <2>2. /\ d \in CaseSet /\ d.chain = m.chain /\ d.turn = m.turn /\ d.streak = m.streak
        /\ d.escalated = m.escalated /\ d.group = m.group
    BY <2>1 DEF CaseInv, CaseSet
  <2> HIDE DEF d
  <2>3. Groups(d) /\ Turns(d) /\ Streaks(d)
    BY <2>1, <2>2 DEF CaseInv, Groups, Turns, Streaks, ToolRecords
  <2>4. QED BY <2>2, <2>3 DEF CaseInv, d, m
<1>3. QED BY <1>1, <1>2

-----------------------------------------------------------------------------
(* Drafts.                                                                  *)

AgentKinds == {"agent", "agent-execution"}
DraftKinds ==
  ToolNames \union AgentKinds \union {"enum-smear", "dkom", "dump-integrity", "injection", "uncommon-procs"}

DraftSet == [kind : DraftKinds, cites : Nat, rests : SUBSET Nat]

\* A draft cites a record that answered, and what a lane's draft rests on answered, but for
\* what memory_findings makes of the listings.
Backed(c, d) ==
  /\ d.cites \in ToolRecords(c) /\ (CleanAt(c.chain, d.cites) \/ c.chain[d.cites].tool = "vol_psxview")
  /\ d.kind \notin AgentKinds =>
       \A i \in d.rests : i \in ToolRecords(c) /\ (CleanAt(c.chain, i) \/ c.chain[i].tool = "vol_pslist")

Tried(c) == {c.chain[i].tool : i \in ToolRecords(c)}

-----------------------------------------------------------------------------
(* The inductive invariant.                                                 *)

Mapped(f, S) == f = [i \in DOMAIN f |-> f[i]] /\ DOMAIN f \subseteq Nat /\ \A i \in DOMAIN f : f[i] \in S

PoolOK(p) ==
  /\ p = [open |-> p.open, free |-> p.free, lent |-> p.lent, results |-> p.results, done |-> p.done]
  /\ p.open \in SUBSET Nat /\ IsFiniteSet(p.open) /\ p.free \in SUBSET p.open
  /\ Mapped(p.lent, p.open) /\ Mapped(p.results, AnswerSet)

PodSet == [step : Nat, made : Nat, left : Nat, seen : SUBSET Nat, found : SUBSET DraftSet]

TypeOK ==
  /\ plan \in PlanSet
  /\ agenda \in Seq(Items)
  /\ case \in CaseSet
  /\ drafts \in SUBSET DraftSet
  /\ PoolOK(pool)
  /\ pod \in PodSet
  /\ phase \in {"lanes", "failing", "concluded", "raised"}

\* The next record is of a later entry than those of its turn so far.
HeadIsNewer == agenda # << >> /\ agenda[1].do = "record" => Newer(case, agenda[1].call.entry)

PodIsBacked ==
  /\ \A i \in pod.seen : i \in ToolRecords(case) /\ CleanAt(case.chain, i)
  /\ \A d \in pod.found : d.kind \in AgentKinds /\ Backed(case, d)

RunInv ==
  /\ TypeOK
  /\ CaseInv(case)
  /\ Fits(agenda, Tried(case)) /\ HeadIsNewer
  /\ \A d \in drafts : Backed(case, d)
  /\ PodIsBacked

\* Nothing that was recorded is lost on the way.
LEMMA StaysBacked ==
  ASSUME NEW c \in CaseSet, NEW e \in CaseSet, Grows(c, e)
  PROVE  /\ \A i \in ToolRecords(c) : i \in ToolRecords(e) /\ e.chain[i] = c.chain[i]
         /\ \A d : Backed(c, d) => Backed(e, d)
         /\ Tried(c) \subseteq Tried(e)
<1>1. \A i \in ToolRecords(c) : i \in ToolRecords(e) /\ e.chain[i] = c.chain[i]
  <2>1. c.chain \in Seq(ChainSet) /\ e.chain \in Seq(ChainSet)
    BY DEF CaseSet
  <2>2. QED BY <2>1 DEF Grows, ToolRecords
<1>2. \A d : Backed(c, d) => Backed(e, d)
  BY <1>1 DEF Backed, CleanAt
<1>3. Tried(c) \subseteq Tried(e)
  BY <1>1 DEF Tried
<1>4. QED BY <1>1, <1>2, <1>3

\* A step that adds to the record of the case and works the agenda off.
LEMMA CaseStep ==
  ASSUME RunInv, CaseInv(case'), Grows(case, case'), Fits(agenda', Tried(case')), HeadIsNewer',
         drafts' \in SUBSET DraftSet, \A d \in drafts' : d \in drafts \/ Backed(case', d),
         phase' \in {"lanes", "failing", "concluded", "raised"}, plan' = plan,
         pool' = pool \/ PoolOK(pool'), pod' = pod \/ (pod' \in PodSet /\ PodIsBacked')
  PROVE  RunInv'
<1>1. case \in CaseSet /\ case' \in CaseSet /\ agenda' \in Seq(Items)
  BY DEF RunInv, TypeOK, CaseInv, Fits
<1>2. TypeOK'
  BY <1>1 DEF RunInv, TypeOK
<1>3. \A d : Backed(case, d) => Backed(case', d)
  BY <1>1, StaysBacked
<1>4. \A d \in drafts' : Backed(case', d)
  BY <1>3 DEF RunInv
<1>5. PodIsBacked'
  <2>1. \A i \in ToolRecords(case) : i \in ToolRecords(case') /\ case'.chain[i] = case.chain[i]
    BY <1>1, StaysBacked
  <2>2. \A i \in pod.seen : i \in ToolRecords(case') /\ CleanAt(case'.chain, i)
    BY <2>1 DEF RunInv, PodIsBacked, CleanAt
  <2>3. \A d \in pod.found : d.kind \in AgentKinds /\ Backed(case', d)
    BY <1>3 DEF RunInv, PodIsBacked
  <2>4. CASE pod' = pod
    BY <2>2, <2>3, <2>4 DEF PodIsBacked
  <2>5. QED BY <2>4
<1>6. QED BY <1>2, <1>4, <1>5 DEF RunInv

\* What is at the head of the agenda.
LEMMA JobType ==
  ASSUME RunInv, agenda # << >>
  PROVE  /\ Job \in Items
         /\ Job.do = "call" => Job \in CallItems
         /\ Job.do \in {"batch", "plaso"} => Job.calls \in Entries
         /\ Job.do = "record" => Job \in RecordItems
         /\ Job.do = "userassist" => Job.hives \in Nat
         /\ Job.do = "memory_findings" => Job.crossed \in BOOLEAN
<1>1. agenda \in Seq(Items)
  BY DEF RunInv, TypeOK
<1>2. Job \in Items
  BY <1>1 DEF Job
<1>3. QED BY <1>2 DEF Items, CallItems, RecordItems, OtherItems

\* A lane in front of what is left, or nothing.
LEMMA LaneAhead ==
  ASSUME RunInv, agenda # << >>, Job.do # "record", NEW U, Tried(case) \subseteq U,
         Job.do = "call" => Job.tool \in U, NEW lane \in LaneSet
  PROVE  /\ Fits(Rest, U) /\ NoRecords(Rest)
         /\ Fits(lane \o Rest, U) /\ NoRecords(lane \o Rest)
         /\ Fits(lane, U) /\ NoRecords(lane)
<1>1. Fits(Rest, U)
  BY FitsBehind DEF RunInv, Job, Rest
<1>2. NoRecords(Rest)
  BY NoneBehind DEF RunInv, Job, Rest
<1>3. Fits(lane, U) /\ NoRecords(lane)
  BY FitsMore DEF LaneSet
<1>4. Fits(lane \o Rest, U)
  BY <1>1, <1>2, <1>3, FitsAhead
<1>5. NoRecords(lane \o Rest)
  <2>1. lane \in Seq(Items) /\ Rest \in Seq(Items)
    BY <1>1, <1>3 DEF Fits
  <2>2. \A k \in DOMAIN (lane \o Rest) : (\E i \in DOMAIN lane : (lane \o Rest)[k] = lane[i])
                                         \/ (\E i \in DOMAIN Rest : (lane \o Rest)[k] = Rest[i])
    BY <2>1
  <2>3. QED BY <1>2, <1>3, <2>2 DEF NoRecords
<1>6. QED BY <1>1, <1>2, <1>3, <1>4, <1>5

\* An agenda without records asks nothing of the turn.
LEMMA NoneIsNewer ==
  ASSUME agenda' \in Seq(Items), NoRecords(agenda')
  PROVE  HeadIsNewer'
BY DEF NoRecords, HeadIsNewer

\* The last call of a tool that has been called.
LEMMA LastOfIs ==
  ASSUME case \in CaseSet, NEW tool \in Tried(case)
  PROVE  LastOf(tool) \in ToolRecords(case) /\ case.chain[LastOf(tool)].tool = tool
<1> DEFINE T == {i \in ToolRecords(case) : case.chain[i].tool = tool}
<1>1. case.chain \in Seq(ChainSet) /\ Len(case.chain) \in Nat /\ T \subseteq 1..Len(case.chain) /\ T # {}
  BY DEF CaseSet, ToolRecords, Tried
<1>2. \E i \in T : \A j \in T : j <= i
  <2> HIDE DEF T
  <2>1. QED BY <1>1, LastMember
<1>3. \E i \in ToolRecords(case) : /\ case.chain[i].tool = tool
                                   /\ \A j \in ToolRecords(case) : case.chain[j].tool = tool => j <= i
  BY <1>2
<1>4. QED BY <1>3 DEF LastOf

\* What a lane drafts from the answer it has just recorded is backed by that record.
LEMMA DraftsAreBacked ==
  ASSUME RunInv, NEW call \in CallItems, NEW answer \in AnswerSet, NEW c, CaseInv(c), Grows(case, c),
         Len(c.chain) \in ToolRecords(c), c.chain[Len(c.chain)].answer = answer
  PROVE  /\ DraftsAfter(call, answer, Len(c.chain)) \in SUBSET DraftSet
         /\ \A d \in DraftsAfter(call, answer, Len(c.chain)) : d \in drafts \/ Backed(c, d)
<1> DEFINE n == Len(c.chain)
<1>1. n \in Nat /\ drafts \subseteq DraftSet /\ case \in CaseSet /\ c \in CaseSet
  BY DEF CaseInv, CaseSet, RunInv, TypeOK
<1> HIDE DEF n
<1>2. \A d \in drafts : Backed(c, d)
  BY <1>1, StaysBacked DEF RunInv
<1>3. answer = "some" => n \in ToolRecords(c) /\ CleanAt(c.chain, n)
  BY DEF CleanAt, Failed, ToolRecords, n
<1>4. ASSUME answer = "some"
      PROVE  Draft(call.tool, n, {}) \in DraftSet /\ Backed(c, Draft(call.tool, n, {}))
  <2>1. call.tool \in DraftKinds
    BY DEF CallItems, DraftKinds
  <2>2. QED BY <1>1, <1>3, <1>4, <2>1 DEF Draft, DraftSet, Backed
<1>5. ASSUME answer = "some", NEW d \in drafts
      PROVE  Promoted(d, n) \in DraftSet /\ Backed(c, Promoted(d, n))
  <2>1. d \in DraftSet /\ Backed(c, d)
    BY <1>1, <1>2
  <2>2. CASE d.kind = "prefetch_parse" /\ d.rests = {}
    <3>1. Promoted(d, n) = [d EXCEPT !.rests = {n}]
      BY <2>2 DEF Promoted
    <3>2. /\ [d EXCEPT !.rests = {n}] \in DraftSet /\ [d EXCEPT !.rests = {n}].rests = {n}
          /\ [d EXCEPT !.rests = {n}].cites = d.cites
      BY <1>1, <2>1 DEF DraftSet
    <3>3. QED BY <1>3, <1>5, <2>1, <3>1, <3>2 DEF Backed
  <2>3. CASE ~ (d.kind = "prefetch_parse" /\ d.rests = {})
    BY <2>1, <2>3 DEF Promoted
  <2>4. QED BY <2>2, <2>3
<1> DEFINE after == DraftsAfter(call, answer, n)
<1>6. CASE answer = "some" /\ call.how = "leads"
  <2>1. after = drafts \cup {Draft(call.tool, n, {})}
    BY <1>6 DEF DraftsAfter
  <2>2. QED BY <1>1, <1>4, <1>6, <2>1 DEF n
<1>7. CASE answer = "some" /\ call.how = "userassist"
  <2>1. after = {Promoted(d, n) : d \in drafts}
    BY <1>7 DEF DraftsAfter
  <2>2. QED BY <1>1, <1>5, <1>7, <2>1 DEF n
<1>8. CASE ~ (answer = "some" /\ call.how \in {"leads", "userassist"})
  <2>1. after = drafts
    BY <1>8 DEF DraftsAfter
  <2>2. QED BY <1>1, <2>1 DEF n
<1>9. QED BY <1>6, <1>7, <1>8

\* A call that is tried again stands where it stood.
LEMMA HeadReplaced ==
  ASSUME NEW T, NEW a, a # << >>, Fits(a, T), a[1] \in CallItems, NEW x \in CallItems, x.tool = a[1].tool
  PROVE  Fits(<<x>> \o Tail(a), T) /\ NoRecords(<<x>> \o Tail(a))
<1> DEFINE b == <<x>> \o Tail(a)
<1>1. a \in Seq(Items) /\ x \in Items /\ a[1].do = "call" /\ x.do = "call" /\ Len(a) \in Nat
  BY DEF Fits, Items, CallItems
<1>2. b \in Seq(Items) /\ Len(b) = Len(a) /\ b[1] = x
  BY <1>1
<1>3. \A k \in 2..Len(a) : b[k] = a[k]
  <2>1. Tail(a) \in Seq(Items) /\ Len(Tail(a)) = Len(a) - 1
    BY <1>1
  <2>2. \A k \in 2..Len(a) : k - 1 \in 1..Len(Tail(a)) /\ b[k] = Tail(a)[k - 1]
    BY <1>1, <2>1
  <2>3. \A k \in 2..Len(a) : Tail(a)[k - 1] = a[k]
    BY <1>1, <2>1
  <2>4. QED BY <2>2, <2>3
<1> HIDE DEF b
<1>4. \A k \in DOMAIN b : /\ k \in DOMAIN a
                          /\ k = 1 \/ k \in 2..Len(a)
  BY <1>1, <1>2
<1>5. NoRecords(a)
  <2>1. \A k \in DOMAIN a : k = 1 \/ 1 < k
    BY <1>1
  <2>2. 1 \in DOMAIN a
    BY <1>1
  <2>3. QED BY <1>1, <2>1, <2>2 DEF Fits, RecordsFirst, NoRecords
<1>6. NoRecords(b) /\ RecordsFirst(b)
  BY <1>1, <1>2, <1>3, <1>4, <1>5 DEF NoRecords, RecordsFirst
<1>7. ASSUME NEW k \in DOMAIN a, NEW tool, After(a, k, tool, T) PROVE After(b, k, tool, T)
  <2>1. SUFFICES ASSUME NEW j \in 1..(k - 1), a[j].do = "call", a[j].tool = tool PROVE After(b, k, tool, T)
    BY <1>7 DEF After
  <2>2. j \in DOMAIN a /\ (j = 1 \/ j \in 2..Len(a))
    BY <1>1
  <2>3. b[j].do = "call" /\ b[j].tool = tool
    BY <1>1, <1>2, <1>3, <2>1, <2>2
  <2>4. QED BY <2>3 DEF After
<1>8. ListingsFirst(b, T)
  <2>1. SUFFICES ASSUME NEW k \in DOMAIN b
                 PROVE  /\ b[k].do \in {"views", "memory_findings"} => \A tool \in Listings : After(b, k, tool, T)
                        /\ b[k].do = "memory_findings" /\ b[k].crossed => After(b, k, "vol_psxview", T)
    BY DEF ListingsFirst
  <2>2. CASE k = 1
    BY <1>1, <1>2, <2>2
  <2>3. CASE k \in 2..Len(a)
    BY <1>3, <1>4, <1>7, <2>3 DEF Fits, ListingsFirst
  <2>4. QED BY <1>4, <2>2, <2>3
<1>9. QED BY <1>2, <1>6, <1>8 DEF Fits, b

-----------------------------------------------------------------------------
(* The steps.                                                               *)

\* A step that adds to the record of the case and puts a lane in front of what is left,
\* goes on with what is left, or gives it up for a lane.
LEMMA LaneStep ==
  ASSUME RunInv, agenda # << >>, Job.do # "record", CaseInv(case'), Grows(case, case'),
         Job.do = "call" => Job.tool \in Tried(case'), NEW lane \in LaneSet,
         agenda' = lane \o Rest \/ agenda' = Rest \/ agenda' = lane,
         drafts' \in SUBSET DraftSet, \A d \in drafts' : d \in drafts \/ Backed(case', d),
         phase' \in {"lanes", "failing", "concluded", "raised"}, plan' = plan,
         pool' = pool \/ PoolOK(pool'), pod' = pod \/ (pod' \in PodSet /\ PodIsBacked')
  PROVE  RunInv'
<1>1. Tried(case) \subseteq Tried(case')
  BY StaysBacked DEF CaseInv, RunInv, TypeOK
<1>2. Fits(agenda', Tried(case')) /\ NoRecords(agenda')
  BY <1>1, LaneAhead
<1>3. HeadIsNewer'
  BY <1>2, NoneIsNewer DEF Fits
<1>4. QED BY <1>2, <1>3, CaseStep

\* What holds of the parts of the state.
LEMMA Parts ==
  ASSUME RunInv
  PROVE  /\ plan \in PlanSet /\ agenda \in Seq(Items) /\ case \in CaseSet /\ CaseInv(case)
         /\ drafts \in SUBSET DraftSet /\ phase \in {"lanes", "failing", "concluded", "raised"}
         /\ plan.here \in Seq(STRING) /\ plan.inside \in Seq(STRING) /\ plan.rules \in BOOLEAN
         /\ Grows(case, case)
<1>1. plan \in PlanSet /\ agenda \in Seq(Items) /\ case \in CaseSet /\ CaseInv(case)
      /\ drafts \in SUBSET DraftSet /\ phase \in {"lanes", "failing", "concluded", "raised"}
  BY DEF RunInv, TypeOK
<1>2. Grows(case, case)
  BY <1>1 DEF Grows, CaseSet
<1>3. QED BY <1>1, <1>2 DEF PlanSet

\* The first attempt of a resilient call fails and is tried again.
LEMMA RetryKeeps ==
  ASSUME RunInv, Retry
  PROVE  RunInv'
<1>1. agenda # << >> /\ Job.do = "call" /\ Job \in CallItems /\ Job.tool \in ToolNames
  BY JobType DEF Retry, At, CallItems
<1>2. Notes(case, case')
  BY <1>1, PlainNote, Parts DEF Retry
<1>3. CaseInv(case') /\ Grows(case, case')
  BY <1>2, NotesKeep, Parts DEF Notes
<1>4. [Job EXCEPT !.how = "retried"] \in CallItems /\ [Job EXCEPT !.how = "retried"].tool = Job.tool
  BY <1>1 DEF CallItems, Hows
<1>5. Fits(agenda', Tried(case)) /\ NoRecords(agenda')
  BY <1>1, <1>4, HeadReplaced DEF Retry, RunInv, Job, Rest
<1>6. Tried(case) \subseteq Tried(case')
  BY <1>3, StaysBacked, Parts DEF CaseInv
<1>7. Fits(agenda', Tried(case'))
  BY <1>5, <1>6, FitsMore
<1>8. HeadIsNewer'
  BY <1>5, NoneIsNewer DEF Fits
<1>9. drafts' = drafts /\ phase' = phase /\ UNCHANGED <<plan, pool, pod>>
  BY DEF Retry
<1>10. QED BY <1>3, <1>7, <1>8, <1>9, CaseStep, Parts

\* A call is made, answered and recorded in a turn of its own.
LEMMA AnsweredInTurn ==
  ASSUME RunInv, NEW call \in CallItems, NEW answer \in AnswerSet
  PROVE  LET c == Answered(NextTurn(case), call, answer, call.entry)
         IN /\ CaseInv(c) /\ Grows(case, c) /\ call.tool \in Tried(c)
            /\ DraftsAfter(call, answer, Len(c.chain)) \in SUBSET DraftSet
            /\ \A d \in DraftsAfter(call, answer, Len(c.chain)) : d \in drafts \/ Backed(c, d)
<1> DEFINE b == NextTurn(case)
           c == Answered(b, call, answer, call.entry)
<1>1. CaseInv(b) /\ Grows(case, b) /\ Newer(b, call.entry)
  BY TurnKeeps, Parts
<1> HIDE DEF b
<1>2. /\ CaseInv(c) /\ Grows(b, c) /\ Len(c.chain) \in ToolRecords(c)
      /\ c.chain[Len(c.chain)].tool = call.tool /\ c.chain[Len(c.chain)].answer = answer
  BY <1>1, AnswerKeeps
<1> HIDE DEF c
<1>3. Grows(case, c)
  BY <1>1, <1>2, GrowsOn, Parts DEF CaseInv
<1>4. call.tool \in Tried(c)
  BY <1>2 DEF Tried
<1>5. /\ DraftsAfter(call, answer, Len(c.chain)) \in SUBSET DraftSet
      /\ \A d \in DraftsAfter(call, answer, Len(c.chain)) : d \in drafts \/ Backed(c, d)
  BY <1>2, <1>3, DraftsAreBacked
<1>6. QED BY <1>2, <1>3, <1>4, <1>5 DEF b, c

\* _call_tool: the answer is recorded, and drafted from.
LEMMA CallToolKeeps ==
  ASSUME RunInv, CallTool
  PROVE  RunInv'
<1>1. agenda # << >> /\ Job.do = "call" /\ Job \in CallItems
  BY JobType DEF CallTool, At
<1>2. PICK answer \in Answers(Job) :
        /\ case' = Answered(NextTurn(case), Job, answer, Job.entry)
        /\ drafts' = DraftsAfter(Job, answer, Len(case'.chain))
  BY DEF CallTool
<1>3. answer \in AnswerSet
  BY DEF Answers, AnswerSet
<1>4. /\ CaseInv(case') /\ Grows(case, case') /\ Job.tool \in Tried(case')
      /\ drafts' \in SUBSET DraftSet
      /\ \A d \in drafts' : d \in drafts \/ Backed(case', d)
  BY <1>1, <1>2, <1>3, AnsweredInTurn
<1>5. agenda' = Rest /\ phase' = phase /\ UNCHANGED <<plan, pool, pod>>
  BY DEF CallTool
<1>6. QED BY <1>1, <1>4, <1>5, LaneStep, NothingIsALane, Parts

\* What an exception leaves of the agenda is a lane.
LEMMA UnwoundIsALane == Unwound \in LaneSet
  BY CallLane, NothingIsALane DEF Unwound, Unmount, ToolNames, Hows, Misses

\* case_open of a single file, or the exception it raises.
LEMMA CaseOpenKeeps ==
  ASSUME RunInv, CaseOpen
  PROVE  RunInv'
<1>1. agenda # << >> /\ Job.do = "case_open"
  BY DEF CaseOpen, At
<1>2. drafts' = drafts /\ UNCHANGED <<plan, pool, pod>>
  BY DEF CaseOpen
<1>3. CASE /\ case' = Recorded(NextTurn(case), Call("case_open", "plain", "silent"), "some", 0)
           /\ agenda' = Rest /\ UNCHANGED phase
  <2> DEFINE b == NextTurn(case)
             call == Call("case_open", "plain", "silent")
  <2>1. CaseInv(b) /\ Grows(case, b) /\ Newer(b, call.entry)
    BY TurnKeeps, Parts
  <2>2. call \in CallItems /\ call.entry = 0
    BY DEF Call, CallItems, ToolNames, Hows, Misses
  <2>3. "some" \in AnswerSet
    BY DEF AnswerSet
  <2> HIDE DEF b, call
  <2>4. CaseInv(Recorded(b, call, "some", 0)) /\ Grows(b, Recorded(b, call, "some", 0))
    BY <2>1, <2>2, <2>3, RecordKeeps
  <2>5. CaseInv(case') /\ Grows(b, case')
    BY <1>3, <2>4 DEF b, call
  <2>6. Grows(case, case')
    BY <2>1, <2>5, GrowsOn, Parts DEF CaseInv
  <2>7. QED BY <1>1, <1>2, <1>3, <2>5, <2>6, LaneStep, NothingIsALane, Parts
<1>4. CASE agenda' = Unwound /\ phase' = "failing" /\ UNCHANGED case
  BY <1>1, <1>2, <1>4, LaneStep, UnwoundIsALane, Parts
<1>5. QED BY <1>3, <1>4 DEF CaseOpen

\* _heartbeat_abort, between two groups of lanes.
LEMMA LaneBoundaryKeeps ==
  ASSUME RunInv, LaneBoundary
  PROVE  RunInv'
<1>1. agenda # << >> /\ Job.do = "gate"
  BY DEF LaneBoundary, At
<1>2. drafts' = drafts /\ phase' = phase /\ UNCHANGED <<plan, pool, pod>>
  BY DEF LaneBoundary
<1>3. CASE ~ case.escalated
  <2>1. case' = [case EXCEPT !.group = @ + 1] /\ agenda' = Rest
    BY <1>3 DEF LaneBoundary, Onward
  <2>2. CaseInv(case')
    BY <1>3, <2>1, GateKeeps, Parts
  <2>3. case'.chain = case.chain
    BY <2>1, Parts DEF CaseSet
  <2>4. Grows(case, case')
    BY <2>3, Parts DEF Grows
  <2>5. QED BY <1>1, <1>2, <2>1, <2>2, <2>4, LaneStep, NothingIsALane, Parts
<1>4. CASE case.escalated
  <2>1. /\ case' = IF case.terminated THEN case
                   ELSE [Chained(case, "terminate", "") EXCEPT !.terminated = TRUE]
        /\ agenda' = IF Len(agenda) > 1 THEN <<Gate>> ELSE << >>
    BY <1>4 DEF LaneBoundary, Abort
  <2>2. CaseInv(case')
    BY <2>1, GateKeeps, Parts
  <2>3. Grows(case, case')
    <3>1. CASE case.terminated
      BY <2>1, <3>1, Parts
    <3>2. CASE ~ case.terminated
      <4>1. Notes(case, Chained(case, "terminate", ""))
        BY PlainNote, Parts
      <4>2. case'.chain = Chained(case, "terminate", "").chain
        BY <2>1, <3>2, <4>1 DEF Notes, CaseSet
      <4>3. QED BY <4>1, <4>2 DEF Notes, Grows
    <3>3. QED BY <3>1, <3>2
  <2>4. agenda' \in LaneSet
    BY <2>1, ItemLane, NothingIsALane DEF Gate
  <2>5. QED BY <1>1, <1>2, <2>2, <2>3, <2>4, LaneStep, Parts
<1>5. QED BY <1>3, <1>4

\* Where the lists are compared, the processes have been listed.
LEMMA ListsAreThere ==
  ASSUME RunInv, agenda # << >>, Job.do \in {"views", "memory_findings"}
  PROVE  /\ Listings \subseteq Tried(case)
         /\ Job.do = "memory_findings" /\ Job.crossed => "vol_psxview" \in Tried(case)
<1>1. ListingsFirst(agenda, Tried(case)) /\ 1 \in DOMAIN agenda /\ Job = agenda[1]
  BY Parts DEF RunInv, Fits, Job
<1>2. \A tool : After(agenda, 1, tool, Tried(case)) => tool \in Tried(case)
  BY DEF After
<1>3. QED BY <1>1, <1>2 DEF ListingsFirst

\* The two lists of processes are compared.
LEMMA ViewsKeeps ==
  ASSUME RunInv, Views
  PROVE  RunInv'
<1>1. agenda # << >> /\ Job.do = "views"
  BY DEF Views, At
<1>2. PICK diverge \in BOOLEAN :
        agenda' = (IF diverge THEN <<Call("vol_psxview", "plain", "defer")>> ELSE << >>)
                  \o <<[do |-> "memory_findings", crossed |-> diverge]>> \o Rest
  BY DEF Views
<1> DEFINE view == Call("vol_psxview", "plain", "defer")
           find == [do |-> "memory_findings", crossed |-> diverge]
           head == IF diverge THEN <<view>> ELSE << >>
           lane == head \o <<find>>
<1>3. view \in CallItems /\ view \in Items /\ find \in Items /\ view.do = "call" /\ view.tool = "vol_psxview"
  BY DEF Call, CallItems, ToolNames, Hows, Misses, Items, OtherItems
<1>4. find.do = "memory_findings" /\ find.crossed = diverge
  OBVIOUS
<1>5. Listings \subseteq Tried(case)
  BY <1>1, ListsAreThere
<1> HIDE DEF view, find
<1>6. lane \in Seq(Items) /\ NoRecords(lane) /\ Fits(lane, Tried(case))
  <2>1. CASE diverge
    <3>1. lane \in Seq(Items) /\ Len(lane) = 2 /\ lane[1] = view /\ lane[2] = find
      BY <1>3, <2>1
    <3> HIDE DEF lane
    <3>2. \A k \in DOMAIN lane : k = 1 \/ k = 2
      BY <3>1
    <3>3. NoRecords(lane) /\ RecordsFirst(lane)
      BY <1>3, <1>4, <3>1, <3>2 DEF NoRecords, RecordsFirst
    <3>4. After(lane, 2, "vol_psxview", Tried(case)) /\ \A k, tool : tool \in Listings => After(lane, k, tool, Tried(case))
      BY <1>3, <1>5, <3>1 DEF After
    <3>5. ListingsFirst(lane, Tried(case))
      BY <1>3, <3>1, <3>2, <3>4 DEF ListingsFirst
    <3>6. QED BY <3>1, <3>3, <3>5 DEF Fits
  <2>2. CASE ~ diverge
    <3>1. lane \in Seq(Items) /\ Len(lane) = 1 /\ lane[1] = find
      BY <1>3, <2>2
    <3> HIDE DEF lane
    <3>2. \A k \in DOMAIN lane : k = 1
      BY <3>1
    <3>3. NoRecords(lane) /\ RecordsFirst(lane)
      BY <1>4, <3>1, <3>2 DEF NoRecords, RecordsFirst
    <3>4. \A k, tool : tool \in Listings => After(lane, k, tool, Tried(case))
      BY <1>5 DEF After
    <3>5. ListingsFirst(lane, Tried(case))
      BY <1>4, <2>2, <3>1, <3>2, <3>4 DEF ListingsFirst
    <3>6. QED BY <3>1, <3>3, <3>5 DEF Fits
  <2>3. QED BY <2>1, <2>2
<1>7. Fits(Rest, Tried(case)) /\ NoRecords(Rest)
  BY <1>1, LaneAhead, NothingIsALane
<1>8. agenda' = lane \o Rest
  BY <1>2 DEF view, find
<1> HIDE DEF lane
<1>9. Fits(agenda', Tried(case))
  BY <1>6, <1>7, <1>8, FitsAhead
<1>10. NoRecords(agenda')
  <2>1. Rest \in Seq(Items)
    BY <1>7 DEF Fits
  <2>2. \A k \in DOMAIN (lane \o Rest) : (\E i \in DOMAIN lane : (lane \o Rest)[k] = lane[i])
                                         \/ (\E i \in DOMAIN Rest : (lane \o Rest)[k] = Rest[i])
    BY <1>6, <2>1
  <2>3. QED BY <1>6, <1>7, <1>8, <2>2 DEF NoRecords
<1>11. HeadIsNewer'
  BY <1>9, <1>10, NoneIsNewer DEF Fits
<1>12. case' = case /\ drafts' = drafts /\ phase' = phase /\ UNCHANGED <<plan, pool, pod>>
  BY DEF Views
<1>13. CaseInv(case') /\ Grows(case, case') /\ Fits(agenda', Tried(case'))
  BY <1>9, <1>12, Parts
<1>14. QED BY <1>11, <1>12, <1>13, CaseStep, Parts

\* memory_findings: what is drafted rests on the listings the lane has made before.
LEMMA MemoryFindingsKeeps ==
  ASSUME RunInv, MemoryFindings
  PROVE  RunInv'
<1>1. agenda # << >> /\ Job.do = "memory_findings" /\ agenda' = Rest /\ UNCHANGED <<plan, case, pool, pod, phase>>
  BY DEF MemoryFindings, At
<1> DEFINE list == LastOf("vol_pslist")
           scan == LastOf("vol_psscan")
           find == LastOf("vol_malfind")
           view == IF Job.crossed THEN LastOf("vol_psxview") ELSE scan
<1>2. /\ list \in ToolRecords(case) /\ case.chain[list].tool = "vol_pslist"
      /\ scan \in ToolRecords(case) /\ find \in ToolRecords(case)
      /\ Job.crossed => /\ LastOf("vol_psxview") \in ToolRecords(case)
                        /\ case.chain[LastOf("vol_psxview")].tool = "vol_psxview"
  <2>1. {"vol_pslist", "vol_psscan", "vol_malfind"} \subseteq Tried(case)
        /\ (Job.crossed => "vol_psxview" \in Tried(case))
    BY <1>1, ListsAreThere DEF Listings
  <2>2. QED BY <2>1, LastOfIs, Parts
<1>3. view \in ToolRecords(case) /\ (Has("vol_psscan") => CleanAt(case.chain, view) \/ case.chain[view].tool = "vol_psxview")
  BY <1>2 DEF Has, CleanAt, Failed, ToolRecords
<1>4. /\ Has("vol_psscan") => CleanAt(case.chain, scan)
      /\ Has("vol_malfind") => CleanAt(case.chain, find)
  BY <1>2 DEF Has, CleanAt, Failed, ToolRecords
<1>5. \A i \in ToolRecords(case) : i \in Nat
  BY Parts DEF ToolRecords, CaseSet
<1> DEFINE smeared == Draft("enum-smear", view, {})
           hidden  == Draft("dkom", view, {list, scan})
           torn    == Draft("dump-integrity", scan, {list, scan})
           planted == Draft("injection", find, {})
           rare    == Draft("uncommon-procs", scan, {scan})
<1>6. PICK smear, uncommon \in (IF Has("vol_psscan") THEN BOOLEAN ELSE {FALSE}) :
        drafts' = drafts
            \cup (IF ~ Has("vol_psscan") \/ Has("vol_pslist") THEN {}
                  ELSE IF smear THEN {smeared} ELSE {hidden, torn})
            \cup (IF Has("vol_malfind") THEN {planted} ELSE {})
            \cup (IF uncommon THEN {rare} ELSE {})
  BY DEF MemoryFindings
<1> HIDE DEF list, scan, find, view
<1>7. ASSUME Has("vol_psscan")
      PROVE  \A d \in {smeared, hidden, torn, rare} : d \in DraftSet /\ Backed(case, d)
  <2>1. CleanAt(case.chain, scan) /\ (CleanAt(case.chain, view) \/ case.chain[view].tool = "vol_psxview")
    BY <1>3, <1>4, <1>7
  <2>2. smeared \in DraftSet /\ Backed(case, smeared)
    BY <1>3, <1>5, <2>1 DEF Draft, DraftSet, DraftKinds, Backed, AgentKinds
  <2>3. hidden \in DraftSet /\ Backed(case, hidden)
    BY <1>2, <1>3, <1>5, <2>1 DEF Draft, DraftSet, DraftKinds, Backed, AgentKinds, scan
  <2>4. torn \in DraftSet /\ Backed(case, torn)
    BY <1>2, <1>5, <2>1 DEF Draft, DraftSet, DraftKinds, Backed, AgentKinds, scan
  <2>5. rare \in DraftSet /\ Backed(case, rare)
    BY <1>2, <1>5, <2>1 DEF Draft, DraftSet, DraftKinds, Backed, AgentKinds, scan
  <2>6. QED BY <2>2, <2>3, <2>4, <2>5
<1>8. ASSUME Has("vol_malfind")
      PROVE  planted \in DraftSet /\ Backed(case, planted)
  BY <1>2, <1>4, <1>5, <1>8 DEF Draft, DraftSet, DraftKinds, Backed, AgentKinds, find
<1> HIDE DEF smeared, hidden, torn, planted, rare
<1>9. \A d \in drafts' : d \in drafts \/ (d \in DraftSet /\ Backed(case, d))
  BY <1>6, <1>7, <1>8
<1>10. drafts' \in SUBSET DraftSet /\ \A d \in drafts' : d \in drafts \/ Backed(case', d)
  BY <1>1, <1>9, Parts
<1>11. CaseInv(case') /\ Grows(case, case')
  BY <1>1, Parts
<1>12. QED BY <1>1, <1>10, <1>11, LaneStep, NothingIsALane, Parts

\* A step that leaves the case alone, or only notes a limit or that a zip was opened.
LEMMA QuietStep ==
  ASSUME RunInv, agenda # << >>, Job.do \notin {"record", "call"}, Notes(case, case'), NEW lane \in LaneSet,
         agenda' = lane \o Rest \/ agenda' = Rest, UNCHANGED <<plan, drafts, pool, pod, phase>>
  PROVE  RunInv'
<1>1. CaseInv(case') /\ Grows(case, case')
  BY NotesKeep, Parts DEF Notes
<1>2. QED BY <1>1, LaneStep, Parts

\* A limit that is noted.
LEMMA LimitIsNoted ==
  ASSUME NEW c \in CaseSet, NEW what \in LimitNames
  PROVE  Notes(c, Limited(c, what)) /\ Notes(c, c)
<1>1. c.limits \cup {what} \in SUBSET LimitNames
  BY DEF CaseSet
<1>2. Notes(c, [c EXCEPT !.limits = c.limits \cup {what}]) /\ Notes(c, c)
  <2>1. c.absent \in SUBSET ToolNames /\ c.unzipped \in BOOLEAN
    BY DEF CaseSet
  <2>2. QED BY <1>1, <2>1, SilentNote
<1>3. QED BY <1>2 DEF Limited

\* An entry of the recycle bin goes to one of two parsers.
LEMMA RecycleKeeps ==
  ASSUME RunInv, Recycle
  PROVE  RunInv'
<1>1. agenda # << >> /\ Job.do = "recycle" /\ UNCHANGED <<plan, case, drafts, pool, pod, phase>>
  BY DEF Recycle, At
<1>2. /\ <<Call("plaso_parse", "leads", "absence")>> \in LaneSet
      /\ <<Call("rbcmd", "leads", "disclose")>> \in LaneSet
  BY CallLane DEF ToolNames, Hows, Misses
<1>3. PICK lane \in LaneSet : agenda' = lane \o Rest
  BY <1>2 DEF Recycle
<1>4. Notes(case, case')
  BY <1>1, LimitIsNoted, Parts DEF LimitNames
<1>5. QED BY <1>1, <1>3, <1>4, QuietStep

\* Plaso's entries become a batch, unless plaso is absent.
LEMMA PlasoParsersKeeps ==
  ASSUME RunInv, PlasoParsers
  PROVE  RunInv'
<1>1. agenda # << >> /\ Job.do = "plaso" /\ UNCHANGED <<plan, drafts, pool, pod, phase>>
  BY DEF PlasoParsers, At
<1>2. CASE "plaso_parse" \in case.absent
  <2>1. case' = Limited(case, "plaso_parse") /\ agenda' = Rest
    BY <1>2 DEF PlasoParsers
  <2>2. Notes(case, case')
    BY <2>1, LimitIsNoted, Parts DEF LimitNames, ToolNames
  <2>3. QED BY <1>1, <2>1, <2>2, QuietStep, NothingIsALane
<1>3. CASE "plaso_parse" \notin case.absent
  <2>1. case' = case /\ agenda' = <<AsBatch(Job.calls)>> \o Rest
    BY <1>3 DEF PlasoParsers
  <2>2. AsBatch(Job.calls) \in Movable
    BY <1>1, JobType DEF AsBatch, Movable, OtherItems
  <2>3. <<AsBatch(Job.calls)>> \in LaneSet
    BY <2>2, SingleLane
  <2>4. Notes(case, case')
    BY <2>1, LimitIsNoted, Parts DEF LimitNames
  <2>5. QED BY <1>1, <2>1, <2>3, <2>4, QuietStep
<1>4. QED BY <1>2, <1>3

\* The hives that are asked about programs.
LEMMA UserAssistKeeps ==
  ASSUME RunInv, UserAssist
  PROVE  RunInv'
<1>1. agenda # << >> /\ Job.do = "userassist" /\ UNCHANGED <<plan, case, drafts, pool, pod, phase>>
  BY DEF UserAssist, At
<1>2. Job.hives \in Nat
  BY <1>1, JobType
<1>3. PICK n \in IF \E d \in drafts : d.kind = "prefetch_parse" THEN 0..Job.hives ELSE {0} :
        agenda' = [i \in 1..n |-> Call("userassist", "userassist", "silent")] \o Rest
  BY Zenon DEF UserAssist
<1>4. n \in Nat /\ "userassist" \in ToolNames /\ "userassist" \in Hows /\ "silent" \in Misses
  BY <1>2, <1>3 DEF ToolNames, Hows, Misses
<1>5. [i \in 1..n |-> Call("userassist", "userassist", "silent")] \in LaneSet
  BY <1>4, CallLane
<1>6. Notes(case, case')
  BY <1>1, LimitIsNoted, Parts DEF LimitNames
<1>7. QED BY <1>1, <1>3, <1>5, <1>6, QuietStep

\* What there was nothing to parse with.
LEMMA DiscloseKeeps ==
  ASSUME RunInv, Disclose
  PROVE  RunInv'
<1>1. PICK what \in {"no_rules", "no_artifacts", "no_evidence"} :
        agenda # << >> /\ Job.do = what /\ case' = Limited(case, what)
  BY DEF Disclose, At
<1>2. agenda' = Rest /\ UNCHANGED <<plan, drafts, pool, pod, phase>>
  BY DEF Disclose
<1>3. Notes(case, case')
  BY <1>1, LimitIsNoted, Parts DEF LimitNames
<1>4. QED BY <1>1, <1>2, <1>3, QuietStep, NothingIsALane

\* investigate_velociraptor_zip: the lanes of what the zip holds.
LEMMA UnzipKeeps ==
  ASSUME RunInv, Unzip
  PROVE  RunInv'
<1>1. agenda # << >> /\ Job.do = "unzip" /\ UNCHANGED <<plan, drafts, pool, pod, phase>>
  BY DEF Unzip, At
<1>2. "velociraptor" \in LimitNames
  BY DEF LimitNames
<1> DEFINE l == Limited(case, "velociraptor")
<1>3. Notes(case, l) /\ Notes(case, case)
  BY <1>2, LimitIsNoted, Parts
<1>4. CASE case' = l /\ agenda' = Rest
  BY <1>1, <1>3, <1>4, QuietStep, NothingIsALane
<1>5. CASE /\ case' = [(IF plan.inside = << >> THEN l ELSE case) EXCEPT !.unzipped = TRUE]
           /\ agenda' = ZipLanes(plan.inside, plan.rules) \o Rest
  <2> DEFINE c == IF plan.inside = << >> THEN l ELSE case
  <2>1. Notes(case, c)
    BY <1>3
  <2>2. c \in CaseSet
    BY <2>1 DEF Notes
  <2> HIDE DEF c
  <2>3. Notes(c, [c EXCEPT !.unzipped = TRUE])
    <3>1. c.limits \in SUBSET LimitNames /\ c.absent \in SUBSET ToolNames
      BY <2>2 DEF CaseSet
    <3>2. QED BY <2>2, <3>1, SilentNote
  <2>4. case' = [c EXCEPT !.unzipped = TRUE]
    BY <1>5 DEF c
  <2>5. Notes(case, case')
    BY <2>1, <2>3, <2>4, NotesOn, Parts
  <2>6. ZipLanes(plan.inside, plan.rules) \in LaneSet
    BY InnerLanes, Parts
  <2>7. QED BY <1>1, <1>5, <2>5, <2>6, QuietStep
<1>6. QED BY <1>4, <1>5 DEF Unzip

\* A call the engine makes by itself: no lane drafts from it.
LEMMA OwnCall ==
  ASSUME RunInv, agenda # << >>, Job.do \notin {"record", "call"}, NEW tool \in ToolNames, NEW answer \in AnswerSet,
         case' = Answered(NextTurn(case), Call(tool, "plain", "disclose"), answer, 0), NEW lane \in LaneSet,
         agenda' = lane \o Rest, UNCHANGED <<plan, drafts, pool, pod, phase>>
  PROVE  RunInv'
<1> DEFINE call == Call(tool, "plain", "disclose")
<1>1. call \in CallItems /\ call.entry = 0
  BY DEF Call, CallItems, Hows, Misses
<1>2. CaseInv(case') /\ Grows(case, case')
  <2> HIDE DEF call
  <2>1. CaseInv(Answered(NextTurn(case), call, answer, call.entry)) /\ Grows(case, Answered(NextTurn(case), call, answer, call.entry))
    BY <1>1, AnsweredInTurn
  <2>2. case' = Answered(NextTurn(case), call, answer, call.entry)
    BY <1>1 DEF call
  <2>3. QED BY <2>1, <2>2
<1>3. QED BY <1>2, LaneStep, Parts

\* disk_mount, and what is to follow it.
LEMMA MountKeeps ==
  ASSUME RunInv, Mount
  PROVE  RunInv'
<1>1. agenda # << >> /\ Job.do = "mount" /\ UNCHANGED <<plan, drafts, pool, pod, phase>>
  BY DEF Mount, At
<1>2. PICK answer \in {"some", "hard"} :
        /\ case' = Answered(NextTurn(case), Call("disk_mount", "plain", "disclose"), answer, 0)
        /\ agenda' = (IF Failed(answer) THEN << >> ELSE <<Item("extract"), Unmount>>) \o Rest
  BY DEF Mount
<1>3. answer \in AnswerSet /\ "disk_mount" \in ToolNames
  BY DEF AnswerSet, ToolNames
<1>4. <<Item("extract"), Unmount>> \in LaneSet
  <2>1. Item("extract") \in Movable
    BY ItemIsMovable
  <2>2. Unmount \in Movable
    BY CallIsMovable DEF Unmount, ToolNames, Hows, Misses
  <2>3. <<Item("extract"), Unmount>> \in Seq(Movable)
    BY <2>1, <2>2
  <2>4. QED BY <2>3, MovableLane
<1>5. PICK lane \in LaneSet : agenda' = lane \o Rest
  BY <1>2, <1>4, NothingIsALane
<1>6. QED BY <1>1, <1>2, <1>3, <1>5, OwnCall

\* disk_extract_artifacts, and the lanes of what it extracts.
LEMMA ExtractKeeps ==
  ASSUME RunInv, Extract
  PROVE  RunInv'
<1>1. agenda # << >> /\ Job.do = "extract" /\ UNCHANGED <<plan, drafts, pool, pod, phase>>
  BY DEF Extract, At
<1>2. PICK answer \in {"some", "hard"} :
        /\ case' = Answered(NextTurn(case), Call("disk_extract_artifacts", "plain", "disclose"), answer, 0)
        /\ agenda' = (IF Failed(answer) THEN << >> ELSE DiskLanes(plan.inside, plan.rules)) \o Rest
  BY DEF Extract
<1>3. answer \in AnswerSet /\ "disk_extract_artifacts" \in ToolNames
  BY DEF AnswerSet, ToolNames
<1>4. DiskLanes(plan.inside, plan.rules) \in LaneSet
  BY InnerLanes, Parts
<1>5. PICK lane \in LaneSet : agenda' = lane \o Rest
  BY <1>2, <1>4, NothingIsALane
<1>6. QED BY <1>1, <1>2, <1>3, <1>5, OwnCall

-----------------------------------------------------------------------------
(* The steps of a batch.                                                    *)

\* The records of a batch are those of its entries, in their order.
LEMMA RecordsType ==
  ASSUME NEW calls \in Entries, NEW results, \A k \in DOMAIN calls : results[k] \in AnswerSet, NEW done
  PROVE  /\ Records(calls, results, done) \in Seq(Items)
         /\ DOMAIN Records(calls, results, done) = DOMAIN calls
         /\ \A k \in DOMAIN calls : /\ Records(calls, results, done)[k].do = "record"
                                    /\ Records(calls, results, done)[k].call = calls[k]
                                    /\ calls[k].entry = k
<1> DEFINE a == Records(calls, results, done)
<1>1. calls \in Seq(CallItems) /\ Len(calls) \in Nat /\ DOMAIN calls = 1..Len(calls)
      /\ \A k \in DOMAIN calls : calls[k] \in CallItems /\ calls[k].entry = k
  BY DEF Entries
<1>2. DOMAIN a = DOMAIN calls
      /\ \A k \in DOMAIN calls : a[k] = [do |-> "record", call |-> calls[k], answer |-> results[k], answered |-> k]
  BY DEF Records
<1>3. \A k \in DOMAIN calls : a[k] \in Items /\ a[k].do = "record" /\ a[k].call.entry = k
  <2>1. SUFFICES ASSUME NEW k \in DOMAIN calls
                 PROVE  a[k] \in Items /\ a[k].do = "record" /\ a[k].call.entry = k
    OBVIOUS
  <2>2. k \in Nat /\ calls[k] \in CallItems /\ calls[k].entry = k /\ results[k] \in AnswerSet
    BY <1>1, <2>1
  <2>3. a[k] = [do |-> "record", call |-> calls[k], answer |-> results[k], answered |-> k]
    BY <1>2, <2>1
  <2> HIDE DEF a
  <2>4. a[k] \in RecordItems
    BY <2>2, <2>3 DEF RecordItems
  <2>5. QED BY <2>2, <2>3, <2>4 DEF Items
<1>4. a \in Seq(Items)
  <2>1. a = [k \in 1..Len(calls) |-> a[k]]
    BY <1>1 DEF Records
  <2> HIDE DEF a
  <2>2. \A k \in 1..Len(calls) : a[k] \in Items
    BY <1>1, <1>3
  <2>3. QED BY <1>1, <2>1, <2>2
<1>5. \A k \in DOMAIN calls : a[k].call = calls[k]
  BY <1>2
<1>6. QED BY <1>1, <1>2, <1>3, <1>4, <1>5

\* The records of a batch are in the order of its entries, each with its own answer.
LEMMA RecordsAhead ==
  ASSUME NEW calls \in Entries, NEW results, \A k \in DOMAIN calls : results[k] \in AnswerSet, NEW done, NEW T,
         NEW r, Fits(r, T), NoRecords(r)
  PROVE  Fits(Records(calls, results, done) \o r, T)
<1> DEFINE a == Records(calls, results, done)
<1>1. /\ a \in Seq(Items) /\ DOMAIN a = DOMAIN calls
      /\ \A k \in DOMAIN calls : a[k].do = "record" /\ a[k].call.entry = k
  BY RecordsType
<1>2. DOMAIN calls = 1..Len(calls) /\ Len(calls) \in Nat
  BY DEF Entries
<1> HIDE DEF a
<1>3. RecordsFirst(a) /\ ListingsFirst(a, T)
  BY <1>1, <1>2 DEF RecordsFirst, ListingsFirst
<1>4. QED BY <1>1, <1>3, FitsAhead DEF Fits, a

\* The answers of a batch, in a new turn, go on the agenda.
LEMMA BatchStep ==
  ASSUME RunInv, agenda # << >>, Job.do = "batch", NEW results, \A k \in Tasks : results[k] \in AnswerSet,
         NEW done, agenda' = Records(Job.calls, results, done) \o Rest, case' = NextTurn(case),
         UNCHANGED <<plan, drafts, pod, phase>>, pool' = pool \/ PoolOK(pool')
  PROVE  RunInv'
<1>1. /\ CaseInv(case') /\ Grows(case, case') /\ Tried(case') = Tried(case)
      /\ \A entry : Newer(case', entry)
  <2>1. case'.chain = case.chain
    BY Parts DEF NextTurn, CaseSet
  <2>2. QED BY <2>1, TurnKeeps, Parts DEF Tried
<1>2. Fits(Rest, Tried(case)) /\ NoRecords(Rest)
  BY LaneAhead, NothingIsALane
<1>3. Job.calls \in Entries
  BY JobType
<1>4. Fits(agenda', Tried(case'))
  BY <1>1, <1>2, <1>3, RecordsAhead DEF Tasks
<1>5. HeadIsNewer'
  BY <1>1 DEF HeadIsNewer
<1>6. QED BY <1>1, <1>4, <1>5, CaseStep, Parts

\* A batch whose calls are made one after the other.
LEMMA InTurnKeeps ==
  ASSUME RunInv, InTurn
  PROVE  RunInv'
<1>1. agenda # << >> /\ Job.do = "batch" /\ case' = NextTurn(case) /\ UNCHANGED <<plan, drafts, pool, pod, phase>>
  BY DEF InTurn, At
<1>2. PICK results \in [Tasks -> {"some", "none", "hard", "absent"}] :
        agenda' = Records(Job.calls, results, [i \in Tasks |-> i]) \o Rest
  BY DEF InTurn
<1>3. \A k \in Tasks : results[k] \in AnswerSet
  BY <1>2 DEF AnswerSet
<1>4. QED BY <1>1, <1>2, <1>3, BatchStep

\* A batch whose calls were made at the same time.
LEMMA CollectKeeps ==
  ASSUME RunInv, Collect
  PROVE  RunInv'
<1>1. agenda # << >> /\ Job.do = "batch" /\ case' = NextTurn(case) /\ UNCHANGED <<plan, drafts, pod, phase>>
      /\ agenda' = Records(Job.calls, pool.results, pool.done) \o Rest /\ DOMAIN pool.results = Tasks /\ pool' = NoPool
  BY DEF Collect, At
<1>2. \A k \in Tasks : pool.results[k] \in AnswerSet
  BY <1>1 DEF RunInv, TypeOK, PoolOK, Mapped
<1>3. PoolOK(NoPool)
  BY FS_EmptySet DEF PoolOK, NoPool, Mapped
<1>4. QED BY <1>1, <1>2, <1>3, BatchStep

\* The next record of a batch.
LEMMA RecordStepKeeps ==
  ASSUME RunInv, Record
  PROVE  RunInv'
<1>1. agenda # << >> /\ Job.do = "record" /\ agenda' = Rest /\ UNCHANGED <<plan, pool, pod, phase>>
      /\ case' = Answered(case, Job.call, Job.answer, Job.answered)
      /\ drafts' = DraftsAfter(Job.call, Job.answer, Len(case'.chain))
  BY DEF Record, At
<1>2. Job.call \in CallItems /\ Job.answer \in AnswerSet /\ Job.answered = Job.call.entry
  BY <1>1, JobType DEF RecordItems
<1>3. Newer(case, Job.call.entry)
  BY <1>1 DEF RunInv, HeadIsNewer, Job
<1>4. /\ CaseInv(case') /\ Grows(case, case')
      /\ Len(case'.chain) \in ToolRecords(case') /\ case'.chain[Len(case'.chain)].answer = Job.answer
      /\ \A entry \in Nat : Job.call.entry < entry => Newer(case', entry)
  BY <1>1, <1>2, <1>3, AnswerKeeps, Parts
<1>5. /\ drafts' \in SUBSET DraftSet
      /\ \A d \in drafts' : d \in drafts \/ Backed(case', d)
  BY <1>1, <1>2, <1>4, DraftsAreBacked
<1>6. Tried(case) \subseteq Tried(case')
  BY <1>4, StaysBacked, Parts DEF CaseInv
<1>7. Fits(agenda', Tried(case'))
  BY <1>1, <1>6, FitsBehind DEF RunInv, Rest, Job
<1>8. HeadIsNewer'
  <2>1. SUFFICES ASSUME agenda' # << >>, agenda'[1].do = "record" PROVE Newer(case', agenda'[1].call.entry)
    BY DEF HeadIsNewer
  <2>2. 1 \in DOMAIN agenda /\ 2 \in DOMAIN agenda /\ agenda'[1] = agenda[2]
    BY <1>1, <2>1, Parts DEF Rest
  <2>3. agenda[1].call.entry < agenda[2].call.entry
    BY <2>1, <2>2 DEF RunInv, Fits, RecordsFirst
  <2>4. agenda[2] \in RecordItems
    <3>1. agenda[2] \in Items /\ agenda[2].do = "record"
      BY <2>1, <2>2, Parts
    <3>2. QED BY <3>1 DEF Items, CallItems, OtherItems
  <2>5. agenda[2].call.entry \in Nat
    BY <2>4 DEF RecordItems, CallItems
  <2>6. QED BY <1>4, <2>2, <2>3, <2>5 DEF Job
<1>9. QED BY <1>1, <1>4, <1>5, <1>7, <1>8, CaseStep, Parts

\* A step of the servers only.
LEMMA PoolStep ==
  ASSUME RunInv, PoolOK(pool'), UNCHANGED <<plan, agenda, case, drafts, pod, phase>>
  PROVE  RunInv'
<1>1. CaseInv(case') /\ Grows(case, case')
  BY Parts
<1>2. Fits(agenda', Tried(case')) /\ HeadIsNewer'
  BY DEF RunInv, HeadIsNewer
<1>3. QED BY <1>1, <1>2, CaseStep, Parts

\* The servers and what they hold.
LEMMA PoolParts ==
  ASSUME RunInv
  PROVE  /\ pool = [open |-> pool.open, free |-> pool.free, lent |-> pool.lent, results |-> pool.results, done |-> pool.done]
         /\ pool.open \in SUBSET Nat /\ IsFiniteSet(pool.open) /\ pool.free \in SUBSET pool.open
         /\ Mapped(pool.lent, pool.open) /\ Mapped(pool.results, AnswerSet)
BY DEF RunInv, TypeOK, PoolOK

\* One server more.
LEMMA OpenServerKeeps ==
  ASSUME RunInv, OpenServer
  PROVE  RunInv'
<1> DEFINE server == Cardinality(pool.open) + 1
<1>1. pool' = [pool EXCEPT !.open = @ \cup {server}, !.free = @ \cup {server}]
      /\ UNCHANGED <<plan, agenda, case, drafts, pod, phase>>
  BY DEF OpenServer
<1>2. server \in Nat
  BY PoolParts, FS_CardinalityType
<1> HIDE DEF server
<1>3. IsFiniteSet(pool.open \cup {server})
  BY PoolParts, FS_AddElement
<1>4. pool' = [open |-> pool.open \cup {server}, free |-> pool.free \cup {server}, lent |-> pool.lent,
               results |-> pool.results, done |-> pool.done]
  BY <1>1, PoolParts
<1>5. Mapped(pool.lent, pool.open \cup {server})
  BY PoolParts DEF Mapped
<1>6. PoolOK(pool')
  BY <1>2, <1>3, <1>4, <1>5, PoolParts DEF PoolOK
<1>7. QED BY <1>1, <1>6, PoolStep

\* The factory of servers raises.
LEMMA ServerFailsKeeps ==
  ASSUME RunInv, ServerFails
  PROVE  RunInv'
<1>1. agenda # << >> /\ Job.do = "batch" /\ phase' = "failing" /\ agenda' = Unwound
      /\ UNCHANGED <<plan, case, drafts, pool, pod>>
  BY DEF ServerFails, At
<1>2. QED BY <1>1, LaneStep, UnwoundIsALane, Parts

\* A function with one place more ...
LEMMA MappedMore ==
  ASSUME NEW f, NEW S, Mapped(f, S), NEW i \in Nat, NEW x \in S
  PROVE  Mapped(With(f, i, x), S)
BY DEF Mapped, With

\* ... or with fewer.
LEMMA MappedLess ==
  ASSUME NEW f, NEW S, Mapped(f, S), NEW D, D \subseteq DOMAIN f
  PROVE  Mapped(Restrict(f, D), S)
BY DEF Mapped, Restrict

\* A task gets a server.
LEMMA LendKeeps ==
  ASSUME RunInv, Lend
  PROVE  RunInv'
<1> DEFINE T == Tasks \ Started
<1>1. agenda # << >> /\ Job.do = "batch" /\ T # {} /\ UNCHANGED <<plan, agenda, case, drafts, pod, phase>>
  BY DEF Lend, At
<1>2. PICK server \in pool.free : pool' = [pool EXCEPT !.lent = With(@, Min(T), server), !.free = @ \ {server}]
  BY DEF Lend, Leased
<1>3. T \subseteq Nat
  BY <1>1, JobType DEF Tasks, Entries
<1> HIDE DEF T
<1>4. Min(T) \in Nat
  BY <1>1, <1>3, LeastMember DEF Min
<1>5. Mapped(With(pool.lent, Min(T), server), pool.open)
  BY <1>2, <1>4, MappedMore, PoolParts
<1>6. pool' = [open |-> pool.open, free |-> pool.free \ {server}, lent |-> With(pool.lent, Min(T), server),
               results |-> pool.results, done |-> pool.done]
  BY <1>2, PoolParts
<1>7. PoolOK(pool')
  BY <1>5, <1>6, PoolParts DEF PoolOK
<1>8. QED BY <1>1, <1>7, PoolStep

\* A task is answered and gives its server back.
LEMMA FinishKeeps ==
  ASSUME RunInv, Finish
  PROVE  RunInv'
<1>1. agenda # << >> /\ Job.do = "batch" /\ UNCHANGED <<plan, agenda, case, drafts, pod, phase>>
  BY DEF Finish, At
<1>2. PICK task \in DOMAIN pool.lent : \E answer \in Answers(Job.calls[task]) :
        pool' = [pool EXCEPT !.lent = RestrictDomain(@, LAMBDA i : i # task),
                             !.free = @ \cup {pool.lent[task]},
                             !.results = With(@, task, answer),
                             !.done = Append(@, task)]
  BY DEF Finish
<1>3. PICK answer \in Answers(Job.calls[task]) :
        pool' = [pool EXCEPT !.lent = RestrictDomain(@, LAMBDA i : i # task),
                             !.free = @ \cup {pool.lent[task]},
                             !.results = With(@, task, answer),
                             !.done = Append(@, task)]
  BY <1>2
<1>4. answer \in AnswerSet
  BY <1>3 DEF Answers, AnswerSet
<1>5. task \in Nat /\ pool.lent[task] \in pool.open
  BY <1>2, PoolParts DEF Mapped
<1> DEFINE lent    == RestrictDomain(pool.lent, LAMBDA i : i # task)
           results == With(pool.results, task, answer)
<1>6. Mapped(lent, pool.open)
  <2>1. lent = Restrict(pool.lent, {i \in DOMAIN pool.lent : i # task})
    BY DEF RestrictDomain
  <2>2. {i \in DOMAIN pool.lent : i # task} \subseteq DOMAIN pool.lent
    OBVIOUS
  <2> HIDE DEF lent
  <2>3. QED BY <2>1, <2>2, MappedLess, PoolParts
<1>7. Mapped(results, AnswerSet)
  BY <1>4, <1>5, MappedMore, PoolParts
<1>8. pool' = [open |-> pool.open, free |-> pool.free \cup {pool.lent[task]}, lent |-> lent,
               results |-> results, done |-> Append(pool.done, task)]
  BY <1>3, PoolParts
<1> HIDE DEF lent, results
<1>9. PoolOK(pool')
  BY <1>5, <1>6, <1>7, <1>8, PoolParts DEF PoolOK
<1>10. QED BY <1>1, <1>9, PoolStep

-----------------------------------------------------------------------------
(* The steps of an agent.                                                   *)

\* An agent at the head of the agenda, which stays there.
LEMMA PodStep ==
  ASSUME RunInv, agenda # << >>, Job.do = "pod", CaseInv(case'), Grows(case, case'), pod' \in PodSet, PodIsBacked',
         UNCHANGED <<plan, agenda, drafts, pool, phase>>
  PROVE  RunInv'
<1>1. Tried(case) \subseteq Tried(case')
  BY StaysBacked, Parts DEF CaseInv
<1>2. Fits(agenda', Tried(case'))
  BY <1>1, FitsMore DEF RunInv
<1>3. HeadIsNewer'
  BY DEF HeadIsNewer, Job
<1>4. QED BY <1>2, <1>3, CaseStep, Parts

\* What the agent has.
LEMMA PodParts ==
  ASSUME RunInv
  PROVE  /\ pod \in PodSet /\ PodIsBacked
         /\ \A i \in ToolRecords(case) : i \in Nat
BY Parts DEF RunInv, TypeOK, ToolRecords, CaseSet

\* The model answers with calls.
LEMMA RespondKeeps ==
  ASSUME RunInv, Respond
  PROVE  RunInv'
<1>1. agenda # << >> /\ Job.do = "pod" /\ UNCHANGED <<plan, agenda, case, drafts, pool, phase>>
  BY DEF Respond, At
<1>2. PICK calls \in 1..(MaxCalls - pod.made) : pod' = [pod EXCEPT !.step = @ + 1, !.made = @ + calls, !.left = calls]
  BY DEF Respond
<1>3. MaxCalls \in Nat /\ pod.made \in Nat /\ pod.step \in Nat
  BY BoundsAssumption, PodParts DEF PodSet
<1>4. calls \in Nat
  BY <1>2, <1>3
<1>5. pod' \in PodSet /\ pod'.seen = pod.seen /\ pod'.found = pod.found
  <2>1. pod' = [step |-> pod.step + 1, made |-> pod.made + calls, left |-> calls, seen |-> pod.seen, found |-> pod.found]
    BY <1>2, PodParts DEF PodSet
  <2>2. pod.step + 1 \in Nat /\ pod.made + calls \in Nat /\ pod.seen \in SUBSET Nat /\ pod.found \in SUBSET DraftSet
    BY <1>3, <1>4, PodParts DEF PodSet
  <2>3. QED BY <1>4, <2>1, <2>2 DEF PodSet
<1>6. PodIsBacked'
  BY <1>1, <1>5, PodParts DEF PodIsBacked
<1>7. QED BY <1>1, <1>5, <1>6, PodStep, Parts

\* call_and_record: only an answer is seen by the agent.
LEMMA DispatchToolKeeps ==
  ASSUME RunInv, DispatchTool
  PROVE  RunInv'
<1>1. agenda # << >> /\ Job.do = "pod" /\ pod.left > 0 /\ UNCHANGED <<plan, agenda, drafts, pool, phase>>
  BY DEF DispatchTool, At
<1>2. PICK tool \in AgentTools, answer \in {"some", "hard"} :
        /\ case' = Recorded(NextTurn(case), Call(tool, "plain", "silent"), answer, 0)
        /\ pod' = [pod EXCEPT !.left = @ - 1,
                              !.seen = @ \cup (IF Failed(answer) THEN {} ELSE {Len(case'.chain)})]
  BY DEF DispatchTool
<1> DEFINE b == NextTurn(case)
           call == Call(tool, "plain", "silent")
<1>3. CaseInv(b) /\ Grows(case, b) /\ Newer(b, call.entry)
  BY TurnKeeps, Parts
<1>4. call \in CallItems /\ call.entry = 0 /\ answer \in AnswerSet
  BY DEF Call, CallItems, ToolNames, Hows, Misses, AgentTools, AnswerSet
<1> HIDE DEF b, call
<1>5. LET d == Recorded(b, call, answer, call.entry)
      IN CaseInv(d) /\ Grows(b, d) /\ ToolRecords(d) = ToolRecords(b) \union {Len(d.chain)} /\ d.chain[Len(d.chain)].answer = answer
  BY <1>3, <1>4, RecordKeeps
<1>6. CaseInv(case') /\ Grows(b, case') /\ Len(case'.chain) \in ToolRecords(case') /\ case'.chain[Len(case'.chain)].answer = answer
  <2>1. case' = Recorded(b, call, answer, call.entry)
    BY <1>2, <1>4 DEF b, call
  <2>2. QED BY <1>5, <2>1
<1>7. Grows(case, case')
  BY <1>3, <1>6, GrowsOn, Parts DEF CaseInv
<1>8. Len(case'.chain) \in Nat
  BY <1>6 DEF CaseInv, CaseSet
<1>9. pod' \in PodSet /\ pod'.seen = pod.seen \cup (IF Failed(answer) THEN {} ELSE {Len(case'.chain)}) /\ pod'.found = pod.found
  <2> DEFINE seen == pod.seen \cup (IF Failed(answer) THEN {} ELSE {Len(case'.chain)})
  <2>1. pod' = [step |-> pod.step, made |-> pod.made, left |-> pod.left - 1, seen |-> seen, found |-> pod.found]
    BY <1>2, PodParts DEF PodSet
  <2>2. pod.step \in Nat /\ pod.made \in Nat /\ pod.left - 1 \in Nat /\ pod.found \in SUBSET DraftSet
    BY <1>1, PodParts DEF PodSet
  <2>3. seen \in SUBSET Nat
    BY <1>8, PodParts DEF PodSet
  <2> HIDE DEF seen
  <2>4. pod' \in PodSet /\ pod'.seen = seen /\ pod'.found = pod.found
    BY <2>1, <2>2, <2>3 DEF PodSet
  <2>5. QED BY <2>4 DEF seen
<1>10. PodIsBacked'
  <2>1. /\ \A i \in ToolRecords(case) : i \in ToolRecords(case') /\ case'.chain[i] = case.chain[i]
        /\ \A d : Backed(case, d) => Backed(case', d)
    BY <1>6, <1>7, StaysBacked, Parts DEF CaseInv
  <2>2. \A i \in pod.seen : i \in ToolRecords(case') /\ CleanAt(case'.chain, i)
    BY <2>1, PodParts DEF PodIsBacked, CleanAt
  <2>3. ~ Failed(answer) => CleanAt(case'.chain, Len(case'.chain))
    BY <1>6 DEF CleanAt, ToolRecords
  <2>4. \A i \in pod'.seen : i \in ToolRecords(case') /\ CleanAt(case'.chain, i)
    BY <1>6, <1>9, <2>2, <2>3
  <2>5. \A d \in pod'.found : d.kind \in AgentKinds /\ Backed(case', d)
    BY <1>9, <2>1, PodParts DEF PodIsBacked
  <2>6. QED BY <2>4, <2>5 DEF PodIsBacked
<1>11. QED BY <1>1, <1>6, <1>7, <1>9, <1>10, PodStep

\* record_finding: a finding of the agent cites what it has seen.
LEMMA DispatchFindingKeeps ==
  ASSUME RunInv, DispatchFinding
  PROVE  RunInv'
<1>1. agenda # << >> /\ Job.do = "pod" /\ pod.left > 0 /\ UNCHANGED <<plan, agenda, case, drafts, pool, phase>>
  BY DEF DispatchFinding, At
<1>2. PICK kind \in {"agent", "agent-execution"}, cites \in ToolRecords(case),
           rests \in {{}} \cup {{i} : i \in ToolRecords(case)} :
        pod' = [pod EXCEPT !.left = @ - 1,
                           !.found = IF cites \in pod.seen THEN @ \cup {Draft(kind, cites, rests)} ELSE @]
  BY DEF DispatchFinding
<1> DEFINE d == Draft(kind, cites, rests)
<1>3. d \in DraftSet /\ d.kind \in AgentKinds
  <2>1. rests \in SUBSET Nat /\ cites \in Nat
    BY PodParts
  <2>2. QED BY <2>1 DEF Draft, DraftSet, DraftKinds, AgentKinds
<1>4. cites \in pod.seen => Backed(case, d)
  BY <1>3, PodParts DEF Draft, Backed, PodIsBacked
<1> HIDE DEF d
<1>5. pod' \in PodSet /\ pod'.seen = pod.seen /\ pod'.found = IF cites \in pod.seen THEN pod.found \cup {d} ELSE pod.found
  <2> DEFINE found == IF cites \in pod.seen THEN pod.found \cup {d} ELSE pod.found
  <2>1. pod' = [step |-> pod.step, made |-> pod.made, left |-> pod.left - 1, seen |-> pod.seen, found |-> found]
    BY <1>2, PodParts DEF PodSet, d
  <2>2. pod.step \in Nat /\ pod.made \in Nat /\ pod.left - 1 \in Nat /\ pod.seen \in SUBSET Nat
    BY <1>1, PodParts DEF PodSet
  <2>3. found \in SUBSET DraftSet
    BY <1>3, PodParts DEF PodSet
  <2> HIDE DEF found
  <2>4. pod' \in PodSet /\ pod'.seen = pod.seen /\ pod'.found = found
    BY <2>1, <2>2, <2>3 DEF PodSet
  <2>5. QED BY <2>4 DEF found
<1>6. PodIsBacked'
  BY <1>1, <1>3, <1>4, <1>5, PodParts DEF PodIsBacked
<1>7. QED BY <1>1, <1>5, <1>6, PodStep, Parts

\* The findings of an agent become drafts.
LEMMA PodEndsKeeps ==
  ASSUME RunInv, PodEnds
  PROVE  RunInv'
<1>1. agenda # << >> /\ Job.do = "pod" /\ agenda' = Rest /\ pod' = NoPod /\ UNCHANGED <<plan, case, pool, phase>>
  BY DEF PodEnds, At
<1>2. PICK refuted : drafts' = drafts \cup (Disciplined(pod.found) \ refuted)
  BY DEF PodEnds
<1>3. \A d \in Disciplined(pod.found) : d \in DraftSet /\ Backed(case, d)
  BY PodParts DEF Disciplined, PodIsBacked, PodSet
<1>4. drafts' \in SUBSET DraftSet /\ \A d \in drafts' : d \in drafts \/ Backed(case', d)
  BY <1>1, <1>2, <1>3, Parts
<1>5. pod' \in PodSet /\ PodIsBacked'
  BY <1>1 DEF PodSet, NoPod, PodIsBacked
<1>6. CaseInv(case') /\ Grows(case, case')
  BY <1>1, Parts
<1>7. QED BY <1>1, <1>4, <1>5, <1>6, LaneStep, NothingIsALane, Parts

\* The provider raises.
LEMMA ProviderFailsKeeps ==
  ASSUME RunInv, ProviderFails
  PROVE  RunInv'
<1>1. agenda # << >> /\ Job.do = "pod" /\ phase' = "failing" /\ agenda' = Unwound
      /\ UNCHANGED <<plan, case, drafts, pool, pod>>
  BY DEF ProviderFails, At
<1>2. QED BY <1>1, LaneStep, UnwoundIsALane, Parts

\* The run ends, or nothing happens.
LEMMA RestKeeps ==
  ASSUME RunInv, Conclude \/ UNCHANGED vars
  PROVE  RunInv'
<1>1. UNCHANGED <<plan, agenda, case, drafts, pool, pod>> /\ phase' \in {"lanes", "failing", "concluded", "raised"}
  BY Parts DEF Conclude, vars
<1>2. Fits(agenda', Tried(case')) /\ HeadIsNewer'
  BY <1>1 DEF RunInv, HeadIsNewer
<1>3. QED BY <1>1, <1>2, CaseStep, Parts

-----------------------------------------------------------------------------
(* What holds of every run.                                                 *)

\* At the start the agenda is what the plan asks for, and nothing is recorded.
LEMMA RunInit == Init => RunInv
<1> SUFFICES ASSUME Init PROVE RunInv
  OBVIOUS
<1>1. plan \in PlanSet
  BY PlansAssumption DEF Init, PlanSet
<1>2. agenda \in LaneSet
  BY <1>1, FirstAgenda DEF Init
<1>3. Fits(agenda, Tried(case)) /\ NoRecords(agenda) /\ agenda \in Seq(Items)
  BY <1>2, FitsMore DEF LaneSet
<1>4. case = [streak |-> 0, escalated |-> FALSE, terminated |-> FALSE, absent |-> {}, turn |-> 0, group |-> 0,
              unzipped |-> FALSE, limits |-> IF plan.truncated THEN {"inventory"} ELSE {}, chain |-> << >>]
  BY DEF Init, NewCase
<1>5. case \in CaseSet /\ case.chain = << >> /\ case.streak = 0
  BY <1>4 DEF CaseSet, LimitNames
<1>6. CaseInv(case)
  <2>1. Streaks(case)
    BY <1>5 DEF Streaks, TwoInARow, Unanswered
  <2>2. Groups(case)
    BY <1>5 DEF Groups
  <2>3. Turns(case)
    BY <1>5 DEF Turns, ToolRecords
  <2>4. QED BY <1>5, <2>1, <2>2, <2>3 DEF CaseInv
<1>7. PoolOK(pool)
  BY FS_EmptySet DEF PoolOK, NoPool, Mapped, Init
<1>8. pod \in PodSet /\ PodIsBacked
  BY DEF Init, PodSet, NoPod, PodIsBacked
<1>9. TypeOK
  BY <1>1, <1>3, <1>5, <1>7, <1>8 DEF TypeOK, Init
<1>10. HeadIsNewer
  BY <1>3 DEF HeadIsNewer, NoRecords
<1>11. \A d \in drafts : Backed(case, d)
  BY DEF Init
<1>12. QED BY <1>3, <1>6, <1>8, <1>9, <1>10, <1>11 DEF RunInv

\* Every step keeps the invariant.
LEMMA RunStep == RunInv /\ [Next]_vars => RunInv'
<1> SUFFICES ASSUME RunInv, [Next]_vars PROVE RunInv'
  OBVIOUS
<1>1. CASE Retry \/ CallTool \/ CaseOpen \/ LaneBoundary
  BY <1>1, RetryKeeps, CallToolKeeps, CaseOpenKeeps, LaneBoundaryKeeps
<1>2. CASE Views \/ MemoryFindings \/ Recycle \/ PlasoParsers \/ UserAssist \/ Disclose
  BY <1>2, ViewsKeeps, MemoryFindingsKeeps, RecycleKeeps, PlasoParsersKeeps, UserAssistKeeps, DiscloseKeeps
<1>3. CASE Unzip \/ Mount \/ Extract
  BY <1>3, UnzipKeeps, MountKeeps, ExtractKeeps
<1>4. CASE InTurn \/ OpenServer \/ ServerFails \/ Lend \/ Finish \/ Collect \/ Record
  BY <1>4, InTurnKeeps, OpenServerKeeps, ServerFailsKeeps, LendKeeps, FinishKeeps, CollectKeeps, RecordStepKeeps
<1>5. CASE Respond \/ DispatchTool \/ DispatchFinding \/ PodEnds \/ ProviderFails
  BY <1>5, RespondKeeps, DispatchToolKeeps, DispatchFindingKeeps, PodEndsKeeps, ProviderFailsKeeps
<1>6. CASE Conclude \/ UNCHANGED vars
  BY <1>6, RestKeeps
<1>7. QED BY <1>1, <1>2, <1>3, <1>4, <1>5, <1>6 DEF Next

\* The inductive invariant: what is recorded, what it backs, and the order of what is left to do.
THEOREM RunInvariant == Spec => []RunInv
  BY RunInit, RunStep, PTL DEF Spec

\* Every variable stays of its type: each item of the agenda is a call, a record, or one of the
\* other steps of a lane, for every plan and whatever is answered.
THEOREM RunTypeCorrect == Spec => []TypeOK
<1>1. RunInv => TypeOK
  BY DEF RunInv
<1>2. QED BY RunInvariant, <1>1, PTL

\* _course_correct: with the threshold of the code, 2, the run escalates exactly when a counted
\* correction follows another with no clean call in between.
THEOREM TwoInARowEscalates ==
  ASSUME Threshold = 2
  PROVE  Spec => []EscalatesOnTwoInARow
<1>1. RunInv => EscalatesOnTwoInARow
  BY DEF RunInv, CaseInv, Streaks, TwoInARow, FollowsOne, CleanAt, EscalatesOnTwoInARow, Clean
<1>2. QED BY RunInvariant, <1>1, PTL

\* _heartbeat_abort: after an escalation no tool of a later group of lanes is called, whatever the
\* threshold.
THEOREM NoLaterGroup == Spec => []EscalationEndsWithTheGroup
<1>1. RunInv => EscalationEndsWithTheGroup
  <2>1. RunInv => \A i \in DOMAIN case.chain : i \in Nat
    BY Parts DEF CaseSet
  <2>2. QED BY <2>1 DEF RunInv, CaseInv, Groups, EscalationEndsWithTheGroup
<1>2. QED BY RunInvariant, <1>1, PTL

\* _parallel_tool_calls: the records of a batch are in the order of its entries, each with the answer
\* to its own entry, for every number of servers and entries.
THEOREM BatchesKeepOrder == Spec => []BatchKeepsOrder
<1>1. RunInv => BatchKeepsOrder
  BY DEF RunInv, CaseInv, Turns, BatchKeepsOrder
<1>2. QED BY RunInvariant, <1>1, PTL

\* AgentToolBridge and the lanes: a draft cites a call that answered, and what a lane's draft rests on
\* answered, but for the listings memory_findings takes for empty.
THEOREM ClaimsAreCited == Spec => []ClaimsCiteAnswers
<1>1. RunInv => ClaimsCiteAnswers
  BY DEF RunInv, Backed, CleanAt, ClaimsCiteAnswers, Clean, AgentKinds
<1>2. QED BY RunInvariant, <1>1, PTL

-----------------------------------------------------------------------------
(* Every entry has its place.  An entry of the inventory is a call that has  *)
(* answered, or is still to be made: it has a place on the agenda, where an  *)
(* item holds one place for each call that it stands for.  The places are    *)
(* told one by one, by a position and a number, so that what a step does to  *)
(* them is to move them; position 0 is the record of the case.               *)

\* The j-th place of an item is one of a call of the tools in P.
InPlace(P, item, j) ==
  \/ item.do = "call" /\ j = 1 /\ item.tool \in P
  \/ item.do = "record" /\ j = 1 /\ item.call.tool \in P
  \/ item.do \in {"batch", "plaso"} /\ j \in DOMAIN item.calls /\ item.calls[j].tool \in P
  \/ item.do = "recycle" /\ j = 1 /\ {"plaso_parse", "rbcmd"} \subseteq P
  \/ item.do = "mount" /\ j = 1 /\ "disk_mount" \in P

Site(P, S, a, k, j) == IF k = 0 THEN j \in S ELSE k \in DOMAIN a /\ InPlace(P, a[k], j)

\* at and num tell n entries their places, among the records S and on the agenda a.
Seats(P, S, a, n, at, num) ==
  /\ at \in [1..n -> Nat] /\ num \in [1..n -> Nat]
  /\ \A i \in 1..n : Site(P, S, a, at[i], num[i])
  /\ \A i, j \in 1..n : at[i] = at[j] /\ num[i] = num[j] => i = j

\* n entries have places of their own.
Placed(P, S, a, n) == \E at, num : Seats(P, S, a, n, at, num)

\* So have fewer of them.
LEMMA PlacedFewer ==
  ASSUME NEW P, NEW S, NEW a, NEW m \in Nat, NEW n \in Nat, m <= n, Placed(P, S, a, n)
  PROVE  Placed(P, S, a, m)
<1>1. PICK at, num : Seats(P, S, a, n, at, num)
  BY DEF Placed
<1> DEFINE x == [i \in 1..m |-> at[i]]
           y == [i \in 1..m |-> num[i]]
<1>2. \A i \in 1..m : i \in 1..n /\ x[i] = at[i] /\ y[i] = num[i]
  OBVIOUS
<1>3. x \in [1..m -> Nat] /\ y \in [1..m -> Nat]
  <2>1. \A i \in 1..m : at[i] \in Nat /\ num[i] \in Nat
    BY <1>1, <1>2 DEF Seats
  <2>2. QED BY <2>1
<1> HIDE DEF x, y
<1>4. Seats(P, S, a, m, x, y)
  BY <1>1, <1>2, <1>3 DEF Seats
<1>5. QED BY <1>4 DEF Placed

\* No entry needs no place.
LEMMA NonePlaced ==
  ASSUME NEW P, NEW S, NEW a
  PROVE  Placed(P, S, a, 0)
<1> DEFINE x == [i \in 1..0 |-> 0]
<1>1. x \in [1..0 -> Nat]
  OBVIOUS
<1>2. Seats(P, S, a, 0, x, x)
  BY <1>1 DEF Seats
<1>3. QED BY <1>2 DEF Placed

\* Two lanes, one after the other, have the places of both.
LEMMA PlacedBoth ==
  ASSUME NEW P, NEW s \in Seq(Items), NEW t \in Seq(Items), NEW m \in Nat, NEW n \in Nat,
         Placed(P, {}, s, m), Placed(P, {}, t, n)
  PROVE  Placed(P, {}, s \o t, m + n)
<1>1. PICK at1, num1 : Seats(P, {}, s, m, at1, num1)
  BY DEF Placed
<1>2. PICK at2, num2 : Seats(P, {}, t, n, at2, num2)
  BY DEF Placed
<1> DEFINE a == s \o t
           x == [i \in 1..(m + n) |-> IF i <= m THEN at1[i] ELSE at2[i - m] + Len(s)]
           y == [i \in 1..(m + n) |-> IF i <= m THEN num1[i] ELSE num2[i - m]]
<1>3. Len(s) \in Nat /\ DOMAIN s = 1..Len(s) /\ DOMAIN t = 1..Len(t) /\ Len(t) \in Nat
  OBVIOUS
<1>4. /\ \A k \in DOMAIN s : k \in DOMAIN a /\ a[k] = s[k]
      /\ \A k \in DOMAIN t : k + Len(s) \in DOMAIN a /\ a[k + Len(s)] = t[k]
  OBVIOUS
<1> HIDE DEF a
<1>5. \A i \in 1..(m + n) : i <= m => i \in 1..m /\ x[i] = at1[i] /\ y[i] = num1[i]
  OBVIOUS
<1>6. \A i \in 1..(m + n) : ~ (i <= m) => i - m \in 1..n /\ x[i] = at2[i - m] + Len(s) /\ y[i] = num2[i - m]
  OBVIOUS
<1>7. x \in [1..(m + n) -> Nat] /\ y \in [1..(m + n) -> Nat]
  <2>1. x = [i \in 1..(m + n) |-> x[i]] /\ y = [i \in 1..(m + n) |-> y[i]]
    OBVIOUS
  <2> HIDE DEF x, y
  <2>2. ASSUME NEW i \in 1..(m + n) PROVE x[i] \in Nat /\ y[i] \in Nat
    <3>1. CASE i <= m
      BY <1>1, <1>5, <3>1 DEF Seats
    <3>2. CASE ~ (i <= m)
      BY <1>2, <1>3, <1>6, <3>2 DEF Seats
    <3>3. QED BY <3>1, <3>2
  <2>3. QED BY <2>1, <2>2
<1> HIDE DEF x, y
<1>8. \A i \in 1..m : at1[i] \in DOMAIN s /\ InPlace(P, s[at1[i]], num1[i])
  BY <1>1 DEF Seats, Site
<1>9. \A i \in 1..n : at2[i] \in DOMAIN t /\ InPlace(P, t[at2[i]], num2[i])
  BY <1>2 DEF Seats, Site
<1>10. ASSUME NEW i \in 1..(m + n) PROVE Site(P, {}, a, x[i], y[i])
  <2>1. CASE i <= m
    <3>1. x[i] \in DOMAIN a /\ a[x[i]] = s[at1[i]] /\ x[i] # 0
      BY <1>3, <1>4, <1>5, <1>8, <2>1
    <3>2. QED BY <1>5, <1>8, <2>1, <3>1 DEF Site
  <2>2. CASE ~ (i <= m)
    <3>1. x[i] \in DOMAIN a /\ a[x[i]] = t[at2[i - m]] /\ x[i] # 0
      BY <1>3, <1>4, <1>6, <1>9, <2>2
    <3>2. QED BY <1>6, <1>9, <2>2, <3>1 DEF Site
  <2>3. QED BY <2>1, <2>2
<1>11. ASSUME NEW i \in 1..(m + n), NEW j \in 1..(m + n), x[i] = x[j], y[i] = y[j] PROVE i = j
  <2>1. CASE i <= m /\ j <= m
    BY <1>1, <1>5, <1>11, <2>1 DEF Seats
  <2>2. CASE ~ (i <= m) /\ ~ (j <= m)
    <3>1. at2[i - m] = at2[j - m] /\ num2[i - m] = num2[j - m]
      BY <1>2, <1>3, <1>6, <1>11, <2>2 DEF Seats
    <3>2. i - m = j - m
      BY <1>2, <1>6, <2>2, <3>1 DEF Seats
    <3>3. QED BY <3>2
  <2>3. \A k \in 1..(m + n) : IF k <= m THEN x[k] \in 1..Len(s) ELSE x[k] > Len(s)
    <3>1. ASSUME NEW k \in 1..(m + n), k <= m PROVE x[k] \in 1..Len(s)
      BY <1>3, <1>5, <1>8, <3>1
    <3>2. ASSUME NEW k \in 1..(m + n), ~ (k <= m) PROVE x[k] > Len(s)
      <4>1. at2[k - m] \in 1..Len(t) /\ x[k] = at2[k - m] + Len(s)
        BY <1>3, <1>6, <1>9, <3>2
      <4>2. QED BY <1>3, <4>1
    <3>3. QED BY <3>1, <3>2
  <2>4. ~ (i <= m /\ ~ (j <= m)) /\ ~ (j <= m /\ ~ (i <= m))
    BY <1>3, <1>11, <2>3
  <2>5. QED BY <2>1, <2>2, <2>4
<1>12. Seats(P, {}, a, m + n, x, y)
  BY <1>7, <1>10, <1>11 DEF Seats
<1>13. QED BY <1>12 DEF Placed, a

\* A lane keeps its places among others.
LEMMA PlacedWithin ==
  ASSUME NEW P, NEW s \in Seq(Items), NEW t \in Seq(Items), NEW n \in Nat, Placed(P, {}, s, n)
  PROVE  Placed(P, {}, s \o t, n) /\ Placed(P, {}, t \o s, n)
<1>1. Placed(P, {}, t, 0)
  BY NonePlaced
<1>2. Placed(P, {}, s \o t, n + 0) /\ Placed(P, {}, t \o s, 0 + n)
  BY <1>1, PlacedBoth
<1>3. QED BY <1>2

\* The same item once per entry has a place for each.
LEMMA RepeatedPlaces ==
  ASSUME NEW P, NEW item \in Items, InPlace(P, item, 1), NEW n \in Nat
  PROVE  Placed(P, {}, [i \in 1..n |-> item], n)
<1> DEFINE a == [i \in 1..n |-> item]
           x == [i \in 1..n |-> i]
           y == [i \in 1..n |-> 1]
<1>1. x \in [1..n -> Nat] /\ y \in [1..n -> Nat]
  OBVIOUS
<1>2. \A i \in 1..n : i \in DOMAIN a /\ i # 0 /\ a[i] = item
  OBVIOUS
<1> HIDE DEF a
<1>3. \A i \in 1..n : Site(P, {}, a, x[i], y[i])
  BY <1>2 DEF Site
<1>4. Seats(P, {}, a, n, x, y)
  BY <1>1, <1>3 DEF Seats
<1>5. QED BY <1>4 DEF Placed, a

\* An item that stands for n calls has n places.
LEMMA CallsPlaces ==
  ASSUME NEW P, NEW item \in Items, item.do \in {"batch", "plaso"}, NEW n \in Nat,
         NEW call \in CallItems, call.tool \in P, item.calls = Numbered(n, call)
  PROVE  Placed(P, {}, <<item>>, n)
<1> DEFINE a == <<item>>
           x == [i \in 1..n |-> 1]
           y == [i \in 1..n |-> i]
<1>1. x \in [1..n -> Nat] /\ y \in [1..n -> Nat]
  OBVIOUS
<1>2. 1 \in DOMAIN a /\ a[1] = item
  OBVIOUS
<1>3. \A i \in 1..n : i \in DOMAIN item.calls /\ item.calls[i].tool \in P
  BY DEF Numbered, CallItems
<1> HIDE DEF a
<1>4. \A i \in 1..n : Site(P, {}, a, x[i], y[i])
  BY <1>2, <1>3 DEF Site, InPlace
<1>5. Seats(P, {}, a, n, x, y)
  BY <1>1, <1>4 DEF Seats
<1>6. QED BY <1>5 DEF Placed, a

\* FlattenSeq keeps the places of each of its lanes, and has one for each if each has one.
LEMMA FlattenPlaces ==
  ASSUME NEW P, NEW ss \in Seq(LaneSet)
  PROVE  /\ \A k \in DOMAIN ss, n \in Nat : Placed(P, {}, ss[k], n) => Placed(P, {}, FlattenSeq(ss), n)
         /\ (\A k \in DOMAIN ss : Placed(P, {}, ss[k], 1)) => Placed(P, {}, FlattenSeq(ss), Len(ss))
<1>1. CASE ss = << >>
  BY <1>1, NonePlaced
<1>2. CASE ss # << >>
  <2> DEFINE N == Len(ss)
  <2>1. N \in Nat /\ N >= 1 /\ DOMAIN ss = 1..N
    BY <1>2
  <2>2. \A s, t \in LaneSet : s \o t \in LaneSet
    BY LanesJoin
  <2>3. PICK h \in [1..N -> LaneSet] : Joins(h, ss) /\ FlattenSeq(ss) = h[N]
    BY <1>2, <2>1, <2>2, FlattenJoins
  <2>4. \A i \in 1..N : ss[i] \in Seq(Items) /\ h[i] \in Seq(Items)
    <3>1. LaneSet \subseteq Seq(Items)
      BY DEF LaneSet
    <3>2. \A i \in 1..N : ss[i] \in LaneSet /\ h[i] \in LaneSet
      BY <2>1, <2>3
    <3>3. QED BY <3>1, <3>2
  <2>5. \A i \in 1..N : h[i] = IF i = 1 THEN ss[i] ELSE h[i - 1] \o ss[i]
    BY <2>1, <2>3 DEF Joins
  <2> HIDE DEF N
  <2>6. ASSUME NEW k \in 1..N, NEW n \in Nat, Placed(P, {}, ss[k], n) PROVE Placed(P, {}, h[N], n)
    <3> DEFINE Out == {i \in k..N : ~ Placed(P, {}, h[i], n)}
    <3>1. SUFFICES ASSUME Out # {} PROVE FALSE
      BY <2>1
    <3>2. PICK i \in Out : \A j \in Out : i <= j
      <4>1. Out \subseteq Nat
        OBVIOUS
      <4> HIDE DEF Out
      <4>2. QED BY <3>1, <4>1, LeastMember
    <3>3. i \in 1..N /\ i \in k..N /\ ~ Placed(P, {}, h[i], n)
      BY <2>1, <3>2
    <3>4. CASE i = k
      <4>1. CASE i = 1
        BY <2>5, <2>6, <3>3, <3>4, <4>1
      <4>2. CASE i # 1
        <5>1. i - 1 \in 1..N /\ h[i] = h[i - 1] \o ss[i]
          BY <2>1, <2>5, <3>3, <4>2
        <5>2. QED BY <2>4, <2>6, <3>3, <3>4, <5>1, PlacedWithin
      <4>3. QED BY <4>1, <4>2
    <3>5. CASE i # k
      <4>1. i - 1 \in 1..N /\ i - 1 \in k..N /\ i # 1 /\ ~ (i <= i - 1)
        BY <2>1, <3>3, <3>5
      <4>2. Placed(P, {}, h[i - 1], n)
        BY <3>2, <4>1
      <4>3. h[i] = h[i - 1] \o ss[i]
        BY <2>5, <3>3, <4>1
      <4>4. QED BY <2>4, <3>3, <4>1, <4>2, <4>3, PlacedWithin
    <3>6. QED BY <3>4, <3>5
  <2>7. ASSUME \A k \in 1..N : Placed(P, {}, ss[k], 1) PROVE Placed(P, {}, h[N], N)
    <3> DEFINE Out == {i \in 1..N : ~ Placed(P, {}, h[i], i)}
    <3>1. SUFFICES ASSUME Out # {} PROVE FALSE
      BY <2>1
    <3>2. PICK i \in Out : \A j \in Out : i <= j
      <4>1. Out \subseteq Nat
        OBVIOUS
      <4> HIDE DEF Out
      <4>2. QED BY <3>1, <4>1, LeastMember
    <3>3. i \in 1..N /\ ~ Placed(P, {}, h[i], i)
      BY <3>2
    <3>4. i # 1
      BY <2>5, <2>7, <3>3
    <3>5. i - 1 \in 1..N /\ ~ (i <= i - 1) /\ i - 1 \in Nat /\ (i - 1) + 1 = i
      BY <2>1, <3>3, <3>4
    <3>6. Placed(P, {}, h[i - 1], i - 1)
      BY <3>2, <3>5
    <3>7. Placed(P, {}, h[i - 1] \o ss[i], (i - 1) + 1)
      BY <2>4, <2>7, <3>3, <3>5, <3>6, PlacedBoth
    <3>8. QED BY <2>5, <3>3, <3>4, <3>5, <3>7
  <2>8. QED BY <2>1, <2>3, <2>6, <2>7
<1>3. QED BY <1>1, <1>2

\* Of two lanes, the places of either.
LEMMA EitherPlaces ==
  ASSUME NEW P, NEW n \in Nat, NEW s \in LaneSet, NEW t \in LaneSet
  PROVE  /\ s \o t \in LaneSet
         /\ Placed(P, {}, s, n) \/ Placed(P, {}, t, n) => Placed(P, {}, s \o t, n)
<1>1. s \in Seq(Items) /\ t \in Seq(Items)
  BY DEF LaneSet
<1>2. QED BY <1>1, LanesJoin, PlacedWithin

\* A lane once per entry has a place for each.
LEMMA EachPlaces ==
  ASSUME NEW P, NEW n \in Nat, NEW lane \in LaneSet, Placed(P, {}, lane, 1)
  PROVE  Placed(P, {}, FlattenSeq([i \in 1..n |-> lane]), n)
<1> DEFINE ss == [i \in 1..n |-> lane]
<1>1. ss \in Seq(LaneSet) /\ Len(ss) = n /\ \A k \in DOMAIN ss : ss[k] = lane
  OBVIOUS
<1> HIDE DEF ss
<1>2. Placed(P, {}, FlattenSeq(ss), Len(ss))
  BY <1>1, FlattenPlaces
<1>3. QED BY <1>1, <1>2 DEF ss

\* A call in turn for each entry, and a batch of them, have a place for each.
LEMMA CallPlaces ==
  ASSUME NEW P, NEW n \in Nat, NEW tool \in ToolNames, tool \in P, NEW how \in Hows, NEW miss \in Misses
  PROVE  /\ Placed(P, {}, <<Call(tool, how, miss)>>, 1)
         /\ Placed(P, {}, [i \in 1..n |-> Call(tool, how, miss)], n)
         /\ Placed(P, {}, Batch(n, tool, how, miss), n)
<1> DEFINE call == Call(tool, how, miss)
           batch == [do |-> "batch", calls |-> Numbered(n, call)]
<1>1. call \in CallItems /\ call \in Items /\ InPlace(P, call, 1) /\ call.tool \in P
  BY CallIsMovable DEF Call, InPlace, Items
<1>2. batch \in Items /\ batch.do = "batch" /\ batch.calls = Numbered(n, call)
  BY <1>1, NumberedType DEF Items, OtherItems
<1> HIDE DEF call, batch
<1>3. Placed(P, {}, [i \in 1..n |-> call], n)
  BY <1>1, RepeatedPlaces
<1>4. Placed(P, {}, <<call>>, 1)
  <2>1. Placed(P, {}, [i \in 1..1 |-> call], 1)
    BY <1>1, RepeatedPlaces
  <2>2. [i \in 1..1 |-> call] = <<call>>
    OBVIOUS
  <2>3. QED BY <2>1, <2>2
<1>5. Placed(P, {}, <<batch>>, n)
  BY <1>1, <1>2, CallsPlaces
<1>6. Placed(P, {}, Batch(n, tool, how, miss), n)
  <2>1. CASE n = 0
    BY <2>1, NonePlaced
  <2>2. CASE n # 0
    BY <1>5, <2>2 DEF Batch, call, batch
  <2>3. QED BY <2>1, <2>2
<1>7. QED BY <1>3, <1>4, <1>6 DEF call

\* The classes that have a parser of their own, and are parsed with the extracted artifacts.
Filed == {"mft", "usnjrnl", "prefetch", "lnk", "amcache", "recyclebin", "legacy_evt", "registry"}

\* The old event logs are plaso's first class.
LEMMA PlasoPlaces ==
  ASSUME NEW here \in Seq(STRING)
  PROVE  Placed(ParserOf["legacy_evt"], {}, Plaso(here), Taken(here, "legacy_evt"))
<1> DEFINE P == ParserOf["legacy_evt"]
           n == Taken(here, "legacy_evt")
           lane(i) == PlasoLane(PlasoClasses[i], Taken(here, PlasoClasses[i]))
           lanes == [i \in DOMAIN PlasoClasses |-> lane(i)]
           calls(k, how) == Numbered(k, Call("plaso_parse", how, "absence"))
           item(k, how) == [do |-> "plaso", calls |-> calls(k, how)]
<1>1. "plaso_parse" \in P /\ n \in Nat
  BY TakenIsNatural DEF ParserOf, CappedClasses
<1>2. \A k \in Nat, how \in Hows : calls(k, how) \in Entries
  BY CallIsMovable, NumberedType DEF ToolNames, Misses
<1>3. \A k \in Nat, how \in Hows : item(k, how) \in Movable
  BY <1>2 DEF Movable, OtherItems
<1>4. \A k \in Nat, how \in Hows : <<item(k, how)>> \in LaneSet
  BY <1>3, SingleLane
<1>5. ASSUME NEW class, NEW k \in Nat PROVE PlasoLane(class, k) \in LaneSet
  BY <1>4, NothingIsALane DEF PlasoLane, Hows
<1>6. DOMAIN PlasoClasses = 1..3 /\ PlasoClasses[1] = "legacy_evt"
  BY DEF PlasoClasses
<1>7. lanes \in Seq(LaneSet) /\ 1 \in DOMAIN lanes /\ lanes[1] = PlasoLane("legacy_evt", n)
  <2>1. \A i \in 1..3 : lane(i) \in LaneSet
    <3>1. \A i \in 1..3 : PlasoClasses[i] \in CappedClasses
      BY DEF PlasoClasses, CappedClasses
    <3>2. QED BY <1>5, <3>1, TakenIsNatural
  <2>2. lane(1) = PlasoLane("legacy_evt", n)
    BY <1>6
  <2> HIDE DEF lane, n
  <2>3. lanes \in Seq(LaneSet) /\ 1 \in DOMAIN lanes /\ lanes[1] = lane(1)
    BY <1>6, <2>1
  <2>4. QED BY <2>2, <2>3
<1> HIDE DEF lanes, P, n
<1>8. Placed(P, {}, PlasoLane("legacy_evt", n), n)
  <2>1. CASE n = 0
    BY <2>1, NonePlaced
  <2>2. CASE n # 0
    <3> DEFINE call == Call("plaso_parse", "leads", "absence")
    <3>1. call \in CallItems /\ call.tool \in P
      BY <1>1, CallIsMovable DEF Call, ToolNames, Hows, Misses
    <3>2. item(n, "leads") \in Items
      BY <1>1, <1>3 DEF Movable, Items, Hows
    <3>3. item(n, "leads").do = "plaso" /\ item(n, "leads").calls = Numbered(n, call)
      OBVIOUS
    <3>4. PlasoLane("legacy_evt", n) = <<item(n, "leads")>>
      BY <2>2 DEF PlasoLane
    <3> HIDE DEF item, call
    <3>5. Placed(P, {}, <<item(n, "leads")>>, n)
      BY <1>1, <3>1, <3>2, <3>3, CallsPlaces
    <3>6. QED BY <3>4, <3>5
  <2>3. QED BY <2>1, <2>2
<1>9. Placed(P, {}, FlattenSeq(lanes), n)
  BY <1>1, <1>7, <1>8, FlattenPlaces
<1>10. QED BY <1>9 DEF Plaso, lanes, lane, P, n

\* The registry queries are their own places.
LEMMA RegistryPlaces ==
  ASSUME NEW here \in Seq(STRING)
  PROVE  Placed(ParserOf["registry"], {}, Registry(here), Queries(here))
<1> DEFINE P == ParserOf["registry"]
           calls == [i \in 1..Queries(here) |-> Call("registry_query", "leads", "defer")]
           last == <<[do |-> "userassist", hives |-> Taken(here, "registry")]>>
<1>1. Queries(here) \in Nat /\ Taken(here, "registry") \in Nat
  BY TakenIsNatural DEF CappedClasses
<1>2. Registry(here) = calls \o last
  BY DEF Registry
<1>3. last \in LaneSet
  <2>1. [do |-> "userassist", hives |-> Taken(here, "registry")] \in Movable
    BY <1>1 DEF Movable, OtherItems
  <2>2. QED BY <2>1, SingleLane
<1> HIDE DEF last
<1>4. calls \in LaneSet
  BY <1>1, CallLane DEF ToolNames, Hows, Misses
<1>5. Placed(P, {}, calls, Queries(here))
  BY <1>1, CallPlaces DEF ParserOf, ToolNames, Hows, Misses
<1> HIDE DEF calls
<1>6. Placed(P, {}, calls \o last, Queries(here))
  BY <1>1, <1>3, <1>4, <1>5, EitherPlaces
<1>7. QED BY <1>2, <1>6

\* The lanes of the extracted artifacts have a place for each call such a class comes to.
LEMMA ExtractedPlaces ==
  ASSUME NEW here \in Seq(STRING), NEW rules \in BOOLEAN, NEW class \in Filed
  PROVE  Placed(ParserOf[class], {}, Extracted(here, rules), Due(here, class))
<1> DEFINE P == ParserOf[class]
           n == Due(here, class)
           Holds(s) == Placed(P, {}, s, n)
<1>1. /\ n \in Nat
      /\ class # "registry" => n = Taken(here, class)
      /\ class = "registry" => n = Queries(here)
  BY DueIsTaken DEF Filed, ParserOf
<1>2. /\ Mft(here) \in LaneSet /\ UsnJrnl(here) \in LaneSet /\ Prefetch(here) \in LaneSet
      /\ Lnk(here) \in LaneSet /\ EzParsed(here) \in LaneSet /\ RecycleBin(here) \in LaneSet
      /\ Plaso(here) \in LaneSet /\ Browser(here) \in LaneSet /\ Registry(here) \in LaneSet
      /\ YaraTargets(here, rules) \in LaneSet /\ Thumbnails(here) \in LaneSet
  <2>1. RecycleBin(here) \in LaneSet
    BY TakenIsNatural, ItemLane DEF RecycleBin, CappedClasses
  <2>2. QED BY <2>1, BatchLanes, PlasoLanes, RegistryLane, YaraLane
<1>3. ASSUME class = "mft" PROVE Holds(Mft(here))
  BY <1>1, <1>3, CallPlaces DEF Mft, ParserOf, ToolNames, Hows, Misses
<1>4. ASSUME class = "usnjrnl" PROVE Holds(UsnJrnl(here))
  BY <1>1, <1>4, CallPlaces DEF UsnJrnl, ParserOf, ToolNames, Hows, Misses
<1>5. ASSUME class = "prefetch" PROVE Holds(Prefetch(here))
  BY <1>1, <1>5, CallPlaces DEF Prefetch, ParserOf, ToolNames, Hows, Misses
<1>6. ASSUME class = "lnk" PROVE Holds(Lnk(here))
  BY <1>1, <1>6, CallPlaces DEF Lnk, ParserOf, ToolNames, Hows, Misses
<1>7. class = "amcache" => Holds(EzParsed(here))
  <2>1. SUFFICES ASSUME class = "amcache" PROVE Holds(EzParsed(here))
    OBVIOUS
  <2> DEFINE first == Batch(n, "amcacheparser", "plain", "disclose")
             second == Batch(Taken(here, "jumplist"), "jlecmd", "plain", "disclose")
  <2>2. first \in LaneSet /\ second \in LaneSet
    BY <1>1, TakenIsNatural, BatchLane DEF ToolNames, Hows, Misses, CappedClasses
  <2>3. Holds(first)
    BY <1>1, <2>1, CallPlaces DEF ParserOf, ToolNames, Hows, Misses
  <2>4. EzParsed(here) = first \o second
    BY <1>1, <2>1 DEF EzParsed
  <2> HIDE DEF first, second
  <2>5. QED BY <1>1, <2>2, <2>3, <2>4, EitherPlaces
<1>8. class = "recyclebin" => Holds(RecycleBin(here))
  <2>1. SUFFICES ASSUME class = "recyclebin" PROVE Holds(RecycleBin(here))
    OBVIOUS
  <2>2. Item("recycle") \in Items /\ InPlace(P, Item("recycle"), 1)
    BY <2>1 DEF Item, Items, OtherItems, InPlace, ParserOf
  <2>3. QED BY <1>1, <2>1, <2>2, RepeatedPlaces DEF RecycleBin
<1>9. class = "legacy_evt" => Holds(Plaso(here))
  BY <1>1, PlasoPlaces
<1>10. class = "registry" => Holds(Registry(here))
  BY <1>1, RegistryPlaces
<1> HIDE DEF P, n
<1>11. \A s, t \in LaneSet : s \o t \in LaneSet /\ (Holds(s) \/ Holds(t) => Holds(s \o t))
  BY <1>1, EitherPlaces
<1>12. \/ Holds(Mft(here)) \/ Holds(UsnJrnl(here)) \/ Holds(Prefetch(here)) \/ Holds(Lnk(here))
       \/ Holds(EzParsed(here)) \/ Holds(RecycleBin(here)) \/ Holds(Plaso(here)) \/ Holds(Registry(here))
  BY <1>3, <1>4, <1>5, <1>6, <1>7, <1>8, <1>9, <1>10 DEF Filed
<1> DEFINE early == Mft(here) \o UsnJrnl(here) \o Prefetch(here) \o Lnk(here) \o EzParsed(here)
<1> HIDE DEF Holds
<1>13. /\ early \in LaneSet
       /\ \/ Holds(Mft(here)) \/ Holds(UsnJrnl(here)) \/ Holds(Prefetch(here)) \/ Holds(Lnk(here)) \/ Holds(EzParsed(here))
          => Holds(early)
  BY <1>2, <1>11
<1> DEFINE most == early \o RecycleBin(here) \o Plaso(here) \o Browser(here) \o Registry(here)
<1> HIDE DEF early
<1>14. /\ most \in LaneSet
       /\ Holds(early) \/ Holds(RecycleBin(here)) \/ Holds(Plaso(here)) \/ Holds(Registry(here)) => Holds(most)
  BY <1>2, <1>11, <1>13
<1> HIDE DEF most
<1>15. Holds(most \o YaraTargets(here, rules) \o Thumbnails(here))
  BY <1>2, <1>11, <1>12, <1>13, <1>14
<1>16. QED BY <1>15 DEF Extracted, early, most, P, n, Holds

\* The lanes of a directory have a place for each call that a class with a parser comes to.
LEMMA InventoryPlaces ==
  ASSUME NEW p \in PlanSet, p.type = "directory", NEW class \in DOMAIN ParserOf
  PROVE  Placed(ParserOf[class], {}, Opening(p) \o Lanes(p) \o <<Gate>>, Due(p.here, class))
<1> DEFINE P == ParserOf[class]
           n == Due(p.here, class)
           Holds(s) == Placed(P, {}, s, n)
           memory == Each(Taken(p.here, "memory"), Memory(p.rules))
           evtx == EvtxLanes(p.here)
           filed == Extracted(p.here, p.rules)
           network == Network(p.here)
           cloud == Cloud(p.here)
           zips == [i \in 1..Taken(p.here, "velociraptor") |-> Item("unzip")]
           disks == Each(Count(p.here, {"raw_disk"}), Disk(TRUE))
           nothing == IF Count(p.here, Sources.memory \cup Sources.evtx \cup Sources.disk \cup NetworkClasses
                                       \cup {"cloud", "velociraptor"}) = 0
                      THEN <<Item("no_evidence")>> ELSE << >>
<1>1. /\ p.here \in Seq(STRING) /\ p.rules \in BOOLEAN /\ n \in Nat
      /\ class = "raw_disk" => n = Count(p.here, {"raw_disk"})
      /\ class \notin {"raw_disk", "registry"} => class \in CappedClasses /\ n = Taken(p.here, class)
  BY DueIsTaken DEF PlanSet
<1>2. <<Gate>> \in LaneSet /\ zips \in LaneSet /\ nothing \in LaneSet
  BY <1>1, TakenIsNatural, ItemLane, NothingIsALane DEF Gate, CappedClasses
<1>3. Memory(p.rules) \in LaneSet /\ memory \in LaneSet
  BY <1>1, TakenIsNatural, MemoryLane, EachLane DEF Each, CappedClasses
<1>4. evtx \in LaneSet /\ Sweep(p.here) \in LaneSet /\ filed \in LaneSet /\ network \in LaneSet /\ cloud \in LaneSet
  BY <1>1, EvtxLane, ExtractedLane, NetworkLane
<1>5. Disk(TRUE) \in LaneSet /\ disks \in LaneSet
  <2>1. <<Call("case_open", "plain", "disclose")>> \in LaneSet
    BY CallLane DEF ToolNames, Hows, Misses
  <2>2. <<Item("mount")>> \in LaneSet
    BY ItemLane
  <2>3. Disk(TRUE) \in LaneSet
    BY <2>1, <2>2, LanesJoin DEF Disk
  <2>4. QED BY <1>1, <2>3, CountIsNatural, EachLane DEF Each
<1>6. ASSUME class = "memory" PROVE Holds(memory)
  <2> DEFINE list == Call("vol_pslist", "resilient", "defer")
             find == Call("vol_malfind", "resilient", "defer")
             opening == <<list, find>> \o (IF p.rules THEN <<Call("yara_scan", "plain", "disclose")>> ELSE << >>)
             rest == <<Call("vol_psscan", "plain", "defer"), Item("views")>>
  <2>1. list \in CallItems /\ InPlace(P, list, 1)
    BY <1>6, CallIsMovable DEF Call, InPlace, ParserOf, ToolNames, Hows, Misses
  <2>2. Memory(p.rules) = opening \o rest
    BY DEF Memory
  <2>3. Memory(p.rules)[1] = list /\ 1 \in DOMAIN Memory(p.rules)
    <3>1. opening[1] = list /\ Len(opening) \in Nat /\ Len(opening) >= 1
      BY <1>1
    <3>2. Memory(p.rules) \in Seq(Items)
      BY <1>3 DEF LaneSet
    <3> HIDE DEF list, opening
    <3>3. Len(rest) = 2
      OBVIOUS
    <3> HIDE DEF rest
    <3>4. QED BY <2>2, <3>1, <3>2, <3>3
  <2> HIDE DEF list
  <2>4. Placed(P, {}, Memory(p.rules), 1)
    <3> DEFINE x == [i \in 1..1 |-> 1]
    <3>1. Seats(P, {}, Memory(p.rules), 1, x, x)
      BY <2>1, <2>3 DEF Seats, Site
    <3>2. QED BY <3>1 DEF Placed
  <2>5. QED BY <1>1, <1>3, <1>6, <2>4, EachPlaces DEF Each
<1>7. ASSUME class = "evtx" PROVE Holds(evtx)
  <2>1. Evtx \in LaneSet /\ Placed(P, {}, Evtx, 1)
    BY <1>1, <1>7, CallLane, CallPlaces DEF Evtx, ParserOf, ToolNames, Hows, Misses
  <2>2. QED BY <1>1, <1>7, <2>1, EachPlaces DEF EvtxLanes
<1>8. ASSUME class \in Filed PROVE Holds(filed)
  BY <1>1, <1>8, ExtractedPlaces
<1>9. ASSUME class = "pcap" PROVE Holds(network)
  <2> DEFINE logs == [i \in 1..Taken(p.here, "sysmon_network") |-> Call("sysmon_network_query", "leads", "disclose")]
             zeek == [i \in 1..Taken(p.here, "zeek") |-> Call("zeek_summary", "leads", "disclose")]
             pcap == [i \in 1..Taken(p.here, "pcap") |-> Call("pcap_triage", "leads", "disclose")]
  <2>1. logs \in LaneSet /\ zeek \in LaneSet /\ pcap \in LaneSet
    BY <1>1, TakenIsNatural, CallLane DEF ToolNames, Hows, Misses, CappedClasses
  <2>2. Holds(pcap)
    BY <1>1, <1>9, CallPlaces DEF ParserOf, ToolNames, Hows, Misses
  <2>3. network = (logs \o zeek) \o pcap
    BY DEF Network
  <2> HIDE DEF logs, zeek, pcap, network
  <2>4. QED BY <1>1, <2>1, <2>2, <2>3, LanesJoin, EitherPlaces
<1>10. ASSUME class = "cloud" PROVE Holds(cloud)
  BY <1>1, <1>10, CallPlaces DEF Cloud, ParserOf, ToolNames, Hows, Misses
<1>11. ASSUME class = "raw_disk" PROVE Holds(disks)
  <2>1. <<Call("case_open", "plain", "disclose")>> \in LaneSet /\ <<Item("mount")>> \in LaneSet
    BY CallLane, ItemLane DEF ToolNames, Hows, Misses
  <2>2. Item("mount") \in Items /\ InPlace(P, Item("mount"), 1)
    BY <1>11 DEF Item, Items, OtherItems, InPlace, ParserOf
  <2>3. Placed(P, {}, <<Item("mount")>>, 1)
    <3>1. Placed(P, {}, [i \in 1..1 |-> Item("mount")], 1)
      BY <2>2, RepeatedPlaces
    <3>2. [i \in 1..1 |-> Item("mount")] = <<Item("mount")>>
      OBVIOUS
    <3>3. QED BY <3>1, <3>2
  <2>4. Placed(P, {}, Disk(TRUE), 1)
    BY <2>1, <2>3, EitherPlaces DEF Disk
  <2>5. QED BY <1>1, <1>5, <1>11, <2>4, EachPlaces DEF Each
<1>12. Holds(memory) \/ Holds(evtx) \/ Holds(filed) \/ Holds(network) \/ Holds(cloud) \/ Holds(disks)
  BY <1>6, <1>7, <1>8, <1>9, <1>10, <1>11 DEF ParserOf, Filed
<1>13. Inventory(p) = <<Gate>> \o memory \o <<Gate>> \o evtx \o <<Gate>> \o Sweep(p.here) \o <<Gate>> \o filed
                      \o <<Gate>> \o network \o <<Gate>> \o cloud \o <<Gate>> \o zips \o <<Gate>> \o disks \o nothing
  BY DEF Inventory
<1>14. \A s, t \in LaneSet : s \o t \in LaneSet /\ (Holds(s) \/ Holds(t) => Holds(s \o t))
  BY <1>1, EitherPlaces
<1> HIDE DEF P, n, Holds, memory, evtx, filed, network, cloud, zips, disks, nothing
<1> DEFINE early == <<Gate>> \o memory \o <<Gate>> \o evtx \o <<Gate>>
           most == early \o Sweep(p.here) \o <<Gate>> \o filed \o <<Gate>> \o network
           last == most \o <<Gate>> \o cloud \o <<Gate>> \o zips \o <<Gate>>
<1>15. early \in LaneSet /\ (Holds(memory) \/ Holds(evtx) => Holds(early))
  BY <1>2, <1>3, <1>4, <1>14
<1> HIDE DEF early
<1>16. most \in LaneSet /\ (Holds(early) \/ Holds(filed) \/ Holds(network) => Holds(most))
  BY <1>2, <1>4, <1>14, <1>15
<1> HIDE DEF most
<1>17. last \in LaneSet /\ (Holds(most) \/ Holds(cloud) => Holds(last))
  BY <1>2, <1>4, <1>14, <1>16
<1> HIDE DEF last
<1>18. last \o disks \o nothing \in LaneSet /\ Holds(last \o disks \o nothing)
  BY <1>2, <1>5, <1>12, <1>14, <1>15, <1>16, <1>17
<1>19. Inventory(p) \in LaneSet /\ Holds(Inventory(p))
  BY <1>13, <1>18 DEF early, most, last
<1>20. << >> \o Inventory(p) \in LaneSet /\ Holds(<< >> \o Inventory(p))
  BY <1>14, <1>19, NothingIsALane
<1>21. Holds(<< >> \o Inventory(p) \o <<Gate>>)
  BY <1>2, <1>14, <1>20
<1>22. QED BY <1>21 DEF Opening, Lanes, Holds, P, n

\* A step moves the places of the item at the head: at and num tell where each goes, to a record
\* that was not there before, or to an item of what is put in front of the rest.
Shift(P, S, T, item, new, at, num) ==
  /\ at \in [Nat -> Nat] /\ num \in [Nat -> Nat]
  /\ \A j \in Nat : InPlace(P, item, j) =>
       IF at[j] = 0 THEN num[j] \in T \ S ELSE at[j] \in DOMAIN new /\ InPlace(P, new[at[j]], num[j])
  /\ \A i, j \in Nat : InPlace(P, item, i) /\ InPlace(P, item, j) /\ at[i] = at[j] /\ num[i] = num[j] => i = j

Shifts(P, S, T, item, new) == \E at, num : Shift(P, S, T, item, new, at, num)

\* Then every entry that had a place has one.
LEMMA PlacesMove ==
  ASSUME NEW P, NEW S, NEW T, S \subseteq T, NEW a \in Seq(Items), a # << >>, NEW new \in Seq(Items),
         NEW n \in Nat, Placed(P, S, a, n), Shifts(P, S, T, a[1], new)
  PROVE  Placed(P, T, new \o Tail(a), n)
<1>1. PICK at, num : Seats(P, S, a, n, at, num)
  BY DEF Placed
<1>2. PICK goes, put : Shift(P, S, T, a[1], new, goes, put)
  BY DEF Shifts
<1> DEFINE b == new \o Tail(a)
           m == Len(new)
           Behind(k) == k - 1 + m
           x == [i \in 1..n |-> IF at[i] = 0 THEN 0 ELSE IF at[i] = 1 THEN goes[num[i]] ELSE Behind(at[i])]
           y == [i \in 1..n |-> IF at[i] = 1 THEN put[num[i]] ELSE num[i]]
<1>3. m \in Nat /\ Len(a) \in Nat /\ DOMAIN a = 1..Len(a) /\ DOMAIN new = 1..m
  OBVIOUS
<1>4. /\ \A k \in 1..m : k \in DOMAIN b /\ b[k] = new[k]
      /\ \A k \in 2..Len(a) : k - 1 + m \in DOMAIN b /\ b[k - 1 + m] = a[k]
  <2>1. Tail(a) \in Seq(Items) /\ Len(Tail(a)) = Len(a) - 1 /\ \A k \in 1..(Len(a) - 1) : Tail(a)[k] = a[k + 1]
    OBVIOUS
  <2>2. \A k \in 2..Len(a) : k - 1 \in 1..(Len(a) - 1) /\ Tail(a)[k - 1] = a[k]
    BY <1>3, <2>1
  <2> DEFINE t == Tail(a)
  <2> HIDE DEF t
  <2>3. t \in Seq(Items) /\ Len(t) = Len(a) - 1 /\ b = new \o t
    BY <2>1 DEF t
  <2>4. Len(b) = m + Len(t) /\ DOMAIN b = 1..Len(b) /\ \A k \in 1..Len(b) : b[k] = IF k <= m THEN new[k] ELSE t[k - m]
    BY <2>3
  <2> HIDE DEF b, m
  <2>5. \A k \in 1..m : k \in DOMAIN b /\ b[k] = new[k]
    BY <1>3, <2>3, <2>4
  <2>6. ASSUME NEW k \in 2..Len(a) PROVE k - 1 + m \in DOMAIN b /\ b[k - 1 + m] = a[k]
    <3>1. k - 1 + m \in 1..Len(b) /\ ~ (k - 1 + m <= m) /\ (k - 1 + m) - m = k - 1
      BY <1>3, <2>3, <2>4
    <3>2. QED BY <2>2, <2>4, <3>1 DEF t
  <2>7. QED BY <2>5, <2>6
<1> HIDE DEF b, m
<1>5. \A i \in 1..n : at[i] \in Nat /\ num[i] \in Nat
  BY <1>1 DEF Seats
<1> DEFINE In(i) == at[i] \in 2..Len(a)
<1>7. ASSUME NEW i \in 1..n
      PROVE  /\ at[i] = 0 \/ at[i] = 1 \/ In(i)
             /\ ~ In(i) \/ (at[i] # 0 /\ at[i] # 1)
             /\ at[i] = 0 => num[i] \in S
             /\ at[i] = 1 => InPlace(P, a[1], num[i])
             /\ at[i] # 0 => InPlace(P, a[at[i]], num[i])
  <2>1. at[i] = 0 => num[i] \in S
    BY <1>1 DEF Seats, Site
  <2>2. at[i] # 0 => at[i] \in 1..Len(a) /\ InPlace(P, a[at[i]], num[i])
    BY <1>1, <1>3 DEF Seats, Site
  <2>3. QED BY <1>3, <1>5, <2>1, <2>2
<1>6. ASSUME NEW i \in 1..n
      PROVE  /\ at[i] = 0 => x[i] = 0 /\ y[i] = num[i]
             /\ at[i] = 1 => x[i] = goes[num[i]] /\ y[i] = put[num[i]]
             /\ In(i) => x[i] = at[i] - 1 + m /\ y[i] = num[i] /\ x[i] \in Nat /\ x[i] > m
  <2> HIDE DEF Behind
  <2>1. x[i] = (IF at[i] = 0 THEN 0 ELSE IF at[i] = 1 THEN goes[num[i]] ELSE Behind(at[i]))
    BY Zenon
  <2>2. y[i] = IF at[i] = 1 THEN put[num[i]] ELSE num[i]
    OBVIOUS
  <2> HIDE DEF x, y
  <2>3. In(i) => at[i] # 0 /\ at[i] # 1 /\ Behind(at[i]) = at[i] - 1 + m /\ at[i] - 1 + m \in Nat /\ at[i] - 1 + m > m
    BY <1>3 DEF Behind
  <2>4. In(i) => x[i] = Behind(at[i])
    BY <2>1, <2>3, Zenon
  <2>5. at[i] = 0 => x[i] = 0
    BY <2>1
  <2>6. at[i] = 1 => x[i] = goes[num[i]]
    BY <2>1
  <2>7. QED BY <2>2, <2>3, <2>4, <2>5, <2>6
<1>8. ASSUME NEW i \in 1..n, at[i] = 1
      PROVE  /\ goes[num[i]] \in Nat /\ put[num[i]] \in Nat
             /\ goes[num[i]] = 0 => put[num[i]] \in T \ S
             /\ goes[num[i]] # 0 => goes[num[i]] \in 1..m /\ InPlace(P, new[goes[num[i]]], put[num[i]])
  <2>1. num[i] \in Nat /\ InPlace(P, a[1], num[i])
    BY <1>5, <1>7, <1>8
  <2>2. IF goes[num[i]] = 0 THEN put[num[i]] \in T \ S
        ELSE goes[num[i]] \in DOMAIN new /\ InPlace(P, new[goes[num[i]]], put[num[i]])
    BY <1>2, <2>1 DEF Shift
  <2>3. goes[num[i]] \in Nat /\ put[num[i]] \in Nat
    BY <1>2, <2>1 DEF Shift
  <2>4. QED BY <1>3, <2>2, <2>3
<1>9. x \in [1..n -> Nat] /\ y \in [1..n -> Nat]
  <2>1. x = [i \in 1..n |-> x[i]] /\ y = [i \in 1..n |-> y[i]]
    OBVIOUS
  <2> HIDE DEF x, y
  <2>2. ASSUME NEW i \in 1..n PROVE x[i] \in Nat /\ y[i] \in Nat
    <3>1. CASE at[i] = 0
      BY <1>5, <1>6, <3>1
    <3>2. CASE at[i] = 1
      BY <1>6, <1>8, <3>2
    <3>3. CASE In(i)
      BY <1>3, <1>5, <1>6, <3>3
    <3>4. QED BY <1>7, <3>1, <3>2, <3>3
  <2>3. QED BY <2>1, <2>2
<1> HIDE DEF x, y, In
<1>10. ASSUME NEW i \in 1..n PROVE Site(P, T, b, x[i], y[i])
  <2>1. CASE at[i] = 0
    BY <1>6, <1>7, <2>1 DEF Site, In
  <2>2. CASE at[i] = 1
    BY <1>4, <1>6, <1>8, <2>2 DEF Site
  <2>3. CASE In(i)
    <3>1. at[i] \in 2..Len(a) /\ x[i] = at[i] - 1 + m /\ x[i] # 0 /\ y[i] = num[i]
      <4>1. at[i] \in 2..Len(a)
        BY <2>3 DEF In
      <4>2. x[i] = at[i] - 1 + m /\ y[i] = num[i] /\ x[i] \in Nat /\ x[i] > m
        BY <1>6, <2>3
      <4>3. x[i] # 0
        BY <1>3, <4>2
      <4>4. QED BY <4>1, <4>2, <4>3
    <3>2. x[i] \in DOMAIN b /\ b[x[i]] = a[at[i]] /\ InPlace(P, a[at[i]], num[i])
      BY <1>4, <1>7, <3>1
    <3>3. QED BY <3>1, <3>2 DEF Site
  <2>4. QED BY <1>7, <2>1, <2>2, <2>3
<1>11. ASSUME NEW i \in 1..n, NEW j \in 1..n, x[i] = x[j], y[i] = y[j], at[i] <= at[j] PROVE i = j
  <2>1. SUFFICES at[i] = at[j] /\ num[i] = num[j]
    BY <1>1 DEF Seats
  <2>2. CASE at[i] = 0
    <3>1. CASE at[j] = 0
      BY <1>6, <1>11, <2>2, <3>1
    <3>2. CASE at[j] = 1
      BY <1>6, <1>7, <1>8, <1>11, <2>2, <3>2 DEF In
    <3>3. CASE In(j)
      <4>1. x[i] = 0
        BY <1>6, <2>2
      <4>2. x[j] \in Nat /\ x[j] > m
        BY <1>6, <3>3
      <4>3. QED BY <1>3, <1>11, <4>1, <4>2
    <3>4. QED BY <1>7, <3>1, <3>2, <3>3
  <2>3. CASE at[i] = 1
    <3>1. CASE at[j] = 1
      <4>1. goes[num[i]] = goes[num[j]] /\ put[num[i]] = put[num[j]]
        BY <1>6, <1>11, <2>3, <3>1
      <4>2. InPlace(P, a[1], num[i]) /\ InPlace(P, a[1], num[j]) /\ num[i] \in Nat /\ num[j] \in Nat
        BY <1>5, <1>7, <2>3, <3>1
      <4>3. num[i] = num[j]
        BY <1>2, <4>1, <4>2 DEF Shift
      <4>4. QED BY <2>3, <3>1, <4>3
    <3>2. CASE In(j)
      BY <1>3, <1>6, <1>8, <1>11, <2>3, <3>2
    <3>3. at[j] # 0
      BY <1>5, <1>11, <2>3
    <3>4. QED BY <1>7, <3>1, <3>2, <3>3
  <2>4. CASE In(i)
    <3>1. In(j)
      BY <1>3, <1>5, <1>7, <1>11, <2>4 DEF In
    <3>2. at[i] - 1 + m = at[j] - 1 + m /\ num[i] = num[j]
      BY <1>6, <1>11, <2>4, <3>1
    <3>3. QED BY <1>3, <1>5, <3>2
  <2>5. QED BY <1>7, <2>2, <2>3, <2>4
<1>12. \A i, j \in 1..n : x[i] = x[j] /\ y[i] = y[j] => i = j
  <2>1. \A i, j \in 1..n : at[i] <= at[j] \/ at[j] <= at[i]
    BY <1>5
  <2>2. QED BY <1>11, <2>1
<1>13. Seats(P, T, b, n, x, y)
  BY <1>9, <1>10, <1>12 DEF Seats
<1>14. QED BY <1>13 DEF Placed, b

\* An item that stands for no call has no places to move.
LEMMA NoShift ==
  ASSUME NEW P, NEW S, NEW T, NEW item, item.do \notin {"call", "record", "batch", "plaso", "recycle", "mount"},
         NEW new
  PROVE  Shifts(P, S, T, item, new)
<1> DEFINE x == [j \in Nat |-> 0]
<1>1. \A j \in Nat : ~ InPlace(P, item, j)
  BY DEF InPlace
<1>2. Shift(P, S, T, item, new, x, x)
  BY <1>1 DEF Shift
<1>3. QED BY <1>2 DEF Shifts

\* The one place of an item becomes that of a call.
LEMMA CallShift ==
  ASSUME NEW P, NEW S, NEW T, NEW item, item.do \in {"call", "record", "recycle", "mount"},
         NEW call, InPlace(P, item, 1) => InPlace(P, call, 1)
  PROVE  Shifts(P, S, T, item, <<call>>)
<1> DEFINE new == <<call>>
           x == [j \in Nat |-> 1]
<1>1. \A j \in Nat : InPlace(P, item, j) => j = 1
  BY DEF InPlace
<1>2. x \in [Nat -> Nat] /\ \A j \in Nat : x[j] = 1
  OBVIOUS
<1>3. 1 \in DOMAIN new /\ new[1] = call
  OBVIOUS
<1> HIDE DEF x, new
<1>4. Shift(P, S, T, item, new, x, x)
  BY <1>1, <1>2, <1>3 DEF Shift
<1>5. QED BY <1>4 DEF Shifts, new

\* The records of a batch, each in the place of its entry.
LEMMA RecordShift ==
  ASSUME NEW P, NEW S, NEW T, NEW item, item.do = "batch", item.calls \in Entries,
         NEW results, \A k \in DOMAIN item.calls : results[k] \in AnswerSet, NEW done
  PROVE  Shifts(P, S, T, item, Records(item.calls, results, done))
<1> DEFINE new == Records(item.calls, results, done)
           x == [j \in Nat |-> j]
           y == [j \in Nat |-> 1]
<1>1. DOMAIN new = DOMAIN item.calls /\ \A k \in DOMAIN new : new[k].do = "record" /\ new[k].call = item.calls[k]
  BY RecordsType
<1> HIDE DEF new
<1>2. x \in [Nat -> Nat] /\ y \in [Nat -> Nat] /\ \A j \in Nat : x[j] = j /\ y[j] = 1
  OBVIOUS
<1> HIDE DEF x, y
<1>3. \A j \in Nat : InPlace(P, item, j) => j \in DOMAIN item.calls /\ item.calls[j].tool \in P
  BY DEF InPlace
<1>4. \A j \in DOMAIN item.calls : j # 0
  BY DEF Entries
<1>5. \A j \in Nat : InPlace(P, item, j) => j # 0 /\ j \in DOMAIN new /\ InPlace(P, new[j], 1)
  BY <1>1, <1>3, <1>4 DEF InPlace
<1>6. Shift(P, S, T, item, new, x, y)
  BY <1>2, <1>5 DEF Shift
<1>7. QED BY <1>6 DEF Shifts, new

\* The entries of plaso become those of a batch.
LEMMA PlasoShift ==
  ASSUME NEW P, NEW S, NEW T, NEW item, item.do = "plaso"
  PROVE  Shifts(P, S, T, item, <<AsBatch(item.calls)>>)
<1> DEFINE b == AsBatch(item.calls)
           new == <<b>>
           x == [j \in Nat |-> 1]
           y == [j \in Nat |-> j]
<1>1. b.do = "batch" /\ b.calls = item.calls
  BY DEF AsBatch
<1> HIDE DEF b
<1>2. 1 \in DOMAIN new /\ new[1] = b
  OBVIOUS
<1> HIDE DEF new
<1>3. x \in [Nat -> Nat] /\ y \in [Nat -> Nat] /\ \A j \in Nat : x[j] = 1 /\ y[j] = j
  OBVIOUS
<1> HIDE DEF x, y
<1>4. \A j \in Nat : InPlace(P, item, j) => InPlace(P, b, j)
  BY <1>1 DEF InPlace
<1>5. Shift(P, S, T, item, new, x, y)
  BY <1>2, <1>3, <1>4 DEF Shift
<1>6. QED BY <1>5 DEF Shifts, new, b

\* Nothing has failed: no call of a tool, and no correction has led to an escalation.
Sound(c) == ~ c.escalated /\ \A i \in ToolRecords(c) : CleanAt(c.chain, i)

\* The answers of the tools in P.
ParsedBy(P, c) == {i \in ToolRecords(c) : CleanAt(c.chain, i) /\ c.chain[i].tool \in P}

\* While nothing has failed every call that a class comes to has a place; and no parser is known to be absent.
PlacesInv ==
  /\ phase \in {"concluded", "raised"} => agenda = << >>
  /\ Sound(case) => case.absent = {}
  /\ Sound(case) /\ phase \in {"lanes", "concluded"} /\ plan.type = "directory" =>
       \A class \in DOMAIN ParserOf :
         Placed(ParserOf[class], ParsedBy(ParserOf[class], case), agenda, Due(plan.here, class))

\* An answer stays one.
LEMMA ParsedStays ==
  ASSUME NEW c \in CaseSet, NEW d \in CaseSet, Grows(c, d)
  PROVE  /\ \A P : ParsedBy(P, c) \subseteq ParsedBy(P, d)
         /\ (\A i \in ToolRecords(d) : CleanAt(d.chain, i)) => (\A i \in ToolRecords(c) : CleanAt(c.chain, i))
<1>1. \A i \in ToolRecords(c) : i \in ToolRecords(d) /\ d.chain[i] = c.chain[i]
  BY StaysBacked
<1>2. QED BY <1>1 DEF ParsedBy, CleanAt

\* A turn is not a call.
LEMMA TurnIsQuiet ==
  ASSUME NEW c \in CaseSet
  PROVE  LET d == NextTurn(c)
         IN d.chain = c.chain /\ d.escalated = c.escalated /\ d.absent = c.absent
BY DEF NextTurn, CaseSet

\* The same records are the same answers.
LEMMA QuietCase ==
  ASSUME NEW c, NEW d, d.chain = c.chain, d.escalated = c.escalated
  PROVE  /\ Sound(d) <=> Sound(c)
         /\ ToolRecords(d) = ToolRecords(c)
         /\ \A P : ParsedBy(P, d) = ParsedBy(P, c)
BY DEF Sound, ParsedBy, ToolRecords

\* While nothing has failed, the record of a call is one of an answer.
LEMMA AnswerSound ==
  ASSUME NEW c, CaseInv(c), NEW call \in CallItems, NEW answer \in AnswerSet, Newer(c, call.entry),
         NEW d, d = Answered(c, call, answer, call.entry), Sound(d)
  PROVE  /\ d \in CaseSet /\ Grows(c, d) /\ ~ Failed(answer) /\ Sound(c) /\ d.absent = c.absent
         /\ Len(d.chain) \in Nat
         /\ \A P : call.tool \in P => Len(d.chain) \in ParsedBy(P, d) \ ParsedBy(P, c)
<1> DEFINE n == Len(d.chain)
<1>1. /\ CaseInv(d) /\ Grows(c, d) /\ n \in ToolRecords(d)
      /\ d.chain[n].tool = call.tool /\ d.chain[n].answer = answer
  BY AnswerKeeps
<1>2. CleanAt(d.chain, n) /\ ~ Failed(answer)
  BY <1>1 DEF Sound, CleanAt
<1>3. d = Recorded(c, call, answer, call.entry)
  BY <1>2 DEF Answered
<1>4. c \in CaseSet /\ c.chain \in Seq(ChainSet)
  BY DEF CaseInv, CaseSet
<1>5. d.escalated = c.escalated /\ d.absent = c.absent /\ n = Len(c.chain) + 1
  <2>1. n = Len(c.chain) + 1
    BY <1>3, RecordKeeps
  <2>2. d.escalated = c.escalated /\ d.absent = c.absent
    BY <1>3, <1>4 DEF Recorded, CaseSet
  <2>3. QED BY <2>1, <2>2
<1>6. n \in Nat /\ n \notin ToolRecords(c)
  BY <1>4, <1>5 DEF ToolRecords
<1>7. Sound(c)
  BY <1>1, <1>4, <1>5, ParsedStays DEF Sound, CaseInv
<1>8. \A P : call.tool \in P => n \in ParsedBy(P, d) \ ParsedBy(P, c)
  BY <1>1, <1>2, <1>6 DEF ParsedBy
<1>9. QED BY <1>1, <1>2, <1>5, <1>6, <1>7, <1>8 DEF CaseInv

\* A step that works the head of the agenda off, or puts something in its place.
LEMMA PlaceStep ==
  ASSUME RunInv, PlacesInv, agenda # << >>, case' \in CaseSet, Grows(case, case'), plan' = plan, phase' = phase,
         phase \in {"lanes", "failing"}, NEW new \in Seq(Items), agenda' = new \o Rest,
         Sound(case') => /\ Sound(case) /\ case'.absent = {}
                         /\ \A P : Shifts(P, ParsedBy(P, case), ParsedBy(P, case'), Job, new)
  PROVE  PlacesInv'
<1>1. ASSUME Sound(case'), phase = "lanes", plan.type = "directory", NEW class \in DOMAIN ParserOf
      PROVE  Placed(ParserOf[class], ParsedBy(ParserOf[class], case'), agenda', Due(plan.here, class))
  <2> DEFINE P == ParserOf[class]
             n == Due(plan.here, class)
  <2>1. Placed(P, ParsedBy(P, case), agenda, n)
    BY <1>1 DEF PlacesInv
  <2>2. n \in Nat
    BY DueIsTaken, Parts
  <2> HIDE DEF P, n
  <2>3. ParsedBy(P, case) \subseteq ParsedBy(P, case')
    BY ParsedStays, Parts
  <2>4. Shifts(P, ParsedBy(P, case), ParsedBy(P, case'), agenda[1], new)
    BY <1>1 DEF Job
  <2>5. Placed(P, ParsedBy(P, case'), new \o Tail(agenda), n)
    BY <2>1, <2>2, <2>3, <2>4, PlacesMove, Parts
  <2>6. QED BY <2>5 DEF P, n, Rest
<1>2. QED BY <1>1 DEF PlacesInv

\* Once something has failed nothing is asked.
LEMMA UnsoundStep ==
  ASSUME phase' \in {"lanes", "failing"}, Sound(case') => phase' = "failing" /\ case'.absent = {}
  PROVE  PlacesInv'
BY DEF PlacesInv

\* A step that leaves the record of the calls as it is.
LEMMA QuietPlaces ==
  ASSUME RunInv, PlacesInv, agenda # << >>, phase \in {"lanes", "failing"}, case' \in CaseSet,
         case'.chain = case.chain, case'.escalated = case.escalated, case'.absent = case.absent,
         plan' = plan, phase' = phase, NEW new \in Seq(Items), agenda' = new \o Rest,
         Sound(case) => \A P, S : Shifts(P, S, S, Job, new)
  PROVE  PlacesInv'
<1>1. Grows(case, case')
  BY Parts DEF Grows
<1>2. /\ Sound(case') <=> Sound(case)
      /\ \A P : ParsedBy(P, case') = ParsedBy(P, case)
  BY QuietCase
<1>3. QED BY <1>1, <1>2, PlaceStep DEF PlacesInv

\* A step that leaves the case, the agenda and the phase as they are.
LEMMA PlacesUnchanged ==
  ASSUME PlacesInv, UNCHANGED <<plan, agenda, case, phase>>
  PROVE  PlacesInv'
BY DEF PlacesInv

\* A lane in front of the rest, in the place of an item that stands for no call.
LEMMA LanePlaces ==
  ASSUME RunInv, PlacesInv, agenda # << >>, phase \in {"lanes", "failing"}, case' \in CaseSet,
         case'.chain = case.chain, case'.escalated = case.escalated, case'.absent = case.absent,
         plan' = plan, phase' = phase, NEW new \in Seq(Items), agenda' = new \o Rest \/ (new = << >> /\ agenda' = Rest),
         Job.do \notin {"call", "record", "batch", "plaso", "recycle", "mount"}
  PROVE  PlacesInv'
<1>1. Rest \in Seq(Items)
  BY Parts DEF Rest
<1>2. agenda' = new \o Rest
  BY <1>1
<1>3. \A P, S : Shifts(P, S, S, Job, new)
  BY NoShift
<1>4. QED BY <1>2, <1>3, QuietPlaces

\* A call that is made and recorded, whose item held one place.
LEMMA AnswerPlaces ==
  ASSUME RunInv, PlacesInv, agenda # << >>, phase \in {"lanes", "failing"}, plan' = plan, phase' = phase,
         NEW c, CaseInv(c), Grows(case, c), c.chain = case.chain, c.escalated = case.escalated, c.absent = case.absent,
         NEW call \in CallItems, NEW answer \in AnswerSet, Newer(c, call.entry),
         case' = Answered(c, call, answer, call.entry), case' \in CaseSet,
         NEW new \in Seq(Items), Sound(case') => agenda' = new \o Rest,
         \A P : \A j \in Nat : InPlace(P, Job, j) => j = 1 /\ call.tool \in P
  PROVE  PlacesInv'
<1>1. CASE ~ Sound(case')
  BY <1>1, UnsoundStep
<1>2. CASE Sound(case')
  <2> DEFINE d == case'
             n == Len(d.chain)
  <2>1. /\ d \in CaseSet /\ Grows(c, d) /\ Sound(c) /\ d.absent = c.absent /\ n \in Nat
        /\ \A P : call.tool \in P => n \in ParsedBy(P, d) \ ParsedBy(P, c)
    BY <1>2, AnswerSound
  <2>2. Grows(case, d)
    BY <2>1, GrowsOn, Parts DEF CaseInv
  <2>3. Sound(case) /\ \A P : ParsedBy(P, c) = ParsedBy(P, case)
    BY <2>1, QuietCase
  <2>4. d.absent = {}
    BY <2>1, <2>3 DEF PlacesInv
  <2>5. ASSUME NEW P PROVE Shifts(P, ParsedBy(P, case), ParsedBy(P, d), Job, new)
    <3> DEFINE x == [j \in Nat |-> 0]
               y == [j \in Nat |-> n]
    <3>1. x \in [Nat -> Nat] /\ y \in [Nat -> Nat] /\ \A j \in Nat : x[j] = 0 /\ y[j] = n
      BY <2>1
    <3> HIDE DEF x, y
    <3>2. \A j \in Nat : InPlace(P, Job, j) => j = 1 /\ n \in ParsedBy(P, d) \ ParsedBy(P, case)
      BY <2>1, <2>3
    <3> HIDE DEF n, d
    <3>3. Shift(P, ParsedBy(P, case), ParsedBy(P, d), Job, new, x, y)
      BY <3>1, <3>2 DEF Shift
    <3>4. QED BY <3>3 DEF Shifts
  <2>6. QED BY <1>2, <2>1, <2>2, <2>3, <2>4, <2>5, PlaceStep
<1>3. QED BY <1>1, <1>2

\* A call that stands at the head of the agenda, or is made for what stands there.
LEMMA TurnPlaces ==
  ASSUME RunInv, PlacesInv, agenda # << >>, phase \in {"lanes", "failing"}, plan' = plan, phase' = phase,
         NEW call \in CallItems, NEW answer \in AnswerSet,
         case' = Answered(NextTurn(case), call, answer, call.entry),
         NEW new \in Seq(Items), Sound(case') => agenda' = new \o Rest,
         \A P : \A j \in Nat : InPlace(P, Job, j) => j = 1 /\ call.tool \in P
  PROVE  PlacesInv'
<1> DEFINE c == NextTurn(case)
<1>1. CaseInv(c) /\ Grows(case, c) /\ Newer(c, call.entry)
  BY TurnKeeps, Parts
<1>2. c.chain = case.chain /\ c.escalated = case.escalated /\ c.absent = case.absent
  BY TurnIsQuiet, Parts
<1>3. case' \in CaseSet
  BY AnsweredInTurn DEF CaseInv
<1> HIDE DEF c
<1>4. case' = Answered(c, call, answer, call.entry)
  BY DEF c
<1>5. QED BY <1>1, <1>2, <1>3, <1>4, AnswerPlaces

\* What goes on with the rest puts nothing ahead of it.
LEMMA NothingAhead ==
  ASSUME RunInv
  PROVE  << >> \in Seq(Items) /\ Rest = << >> \o Rest
<1>1. agenda = << >> \/ Rest \in Seq(Items)
  BY Parts DEF Rest
<1>2. QED BY <1>1, Parts

\* The first attempt of a resilient call: the call keeps its place.
LEMMA RetryPlaces ==
  ASSUME RunInv, PlacesInv, Retry
  PROVE  PlacesInv'
<1> DEFINE again == [Job EXCEPT !.how = "retried"]
<1>1. agenda # << >> /\ Job.do = "call" /\ Job \in CallItems /\ phase \in {"lanes", "failing"}
  BY JobType DEF Retry, At
<1>2. again \in CallItems /\ again.tool = Job.tool /\ again.do = "call"
  BY <1>1 DEF CallItems, Hows
<1>3. Notes(case, case')
  <2>1. Job.tool \in ToolNames
    BY <1>1 DEF CallItems
  <2>2. QED BY <2>1, PlainNote, Parts DEF Retry
<1>4. case' \in CaseSet /\ Grows(case, case') /\ ToolRecords(case') = ToolRecords(case)
  BY <1>3 DEF Notes
<1>5. case'.escalated = case.escalated /\ case'.absent = case.absent
  BY Parts DEF Retry, Chained, CaseSet
<1> HIDE DEF again
<1>6. agenda' = <<again>> \o Rest /\ plan' = plan /\ phase' = phase
  BY DEF Retry, again
<1>7. ASSUME NEW P, NEW S, NEW T PROVE Shifts(P, S, T, Job, <<again>>)
  <2>1. InPlace(P, Job, 1) => InPlace(P, again, 1)
    BY <1>1, <1>2 DEF InPlace
  <2>2. QED BY <1>1, <2>1, CallShift
<1>8. <<again>> \in Seq(Items)
  BY <1>2 DEF Items
<1>9. Sound(case') => Sound(case)
  BY <1>4, <1>5, ParsedStays, Parts DEF Sound
<1>10. QED BY <1>1, <1>4, <1>5, <1>6, <1>7, <1>8, <1>9, PlaceStep DEF PlacesInv

\* _call_tool: the place of a call becomes that of its record.
LEMMA CallToolPlaces ==
  ASSUME RunInv, PlacesInv, CallTool
  PROVE  PlacesInv'
<1>1. agenda # << >> /\ Job.do = "call" /\ Job \in CallItems /\ phase \in {"lanes", "failing"}
  BY JobType DEF CallTool, At
<1>2. PICK answer \in Answers(Job) : case' = Answered(NextTurn(case), Job, answer, Job.entry)
  BY DEF CallTool
<1>3. answer \in AnswerSet
  BY DEF Answers, AnswerSet
<1>4. agenda' = << >> \o Rest /\ << >> \in Seq(Items) /\ phase' = phase /\ plan' = plan
  BY NothingAhead DEF CallTool
<1>5. \A P : \A j \in Nat : InPlace(P, Job, j) => j = 1 /\ Job.tool \in P
  BY <1>1 DEF InPlace
<1>6. QED BY <1>1, <1>2, <1>3, <1>4, <1>5, TurnPlaces

\* case_open of a single file, or the exception it raises.
LEMMA CaseOpenPlaces ==
  ASSUME RunInv, PlacesInv, CaseOpen
  PROVE  PlacesInv'
<1>1. agenda # << >> /\ Job.do = "case_open" /\ phase \in {"lanes", "failing"} /\ plan' = plan
  BY DEF CaseOpen, At
<1>2. CASE case' = Recorded(NextTurn(case), Call("case_open", "plain", "silent"), "some", 0)
           /\ agenda' = Rest /\ UNCHANGED phase
  <2> DEFINE call == Call("case_open", "plain", "silent")
  <2>1. call \in CallItems /\ call.entry = 0
    BY DEF Call, CallItems, ToolNames, Hows, Misses
  <2> HIDE DEF call
  <2>2. "some" \in AnswerSet /\ ~ Failed("some")
    BY DEF AnswerSet, Failed
  <2>3. case' = Answered(NextTurn(case), call, "some", call.entry)
    BY <1>2, <2>1, <2>2 DEF Answered, call
  <2>4. agenda' = << >> \o Rest /\ << >> \in Seq(Items) /\ phase' = phase
    BY <1>2, NothingAhead
  <2>5. \A P : \A j \in Nat : ~ InPlace(P, Job, j)
    BY <1>1 DEF InPlace
  <2>6. QED BY <1>1, <2>1, <2>2, <2>3, <2>4, <2>5, TurnPlaces
<1>3. CASE phase' = "failing" /\ UNCHANGED case
  BY <1>3, UnsoundStep DEF PlacesInv
<1>4. QED BY <1>2, <1>3 DEF CaseOpen

\* _heartbeat_abort: what is aborted has escalated.
LEMMA LaneBoundaryPlaces ==
  ASSUME RunInv, PlacesInv, LaneBoundary
  PROVE  PlacesInv'
<1>1. agenda # << >> /\ Job.do = "gate" /\ phase \in {"lanes", "failing"} /\ plan' = plan /\ phase' = phase
  BY DEF LaneBoundary, At
<1>2. CASE ~ case.escalated
  <2>1. case' = [case EXCEPT !.group = @ + 1] /\ agenda' = Rest
    BY <1>2 DEF LaneBoundary, Onward
  <2>2. case' \in CaseSet
    BY <1>2, <2>1, GateKeeps, Parts DEF CaseInv
  <2>3. case'.chain = case.chain /\ case'.escalated = case.escalated /\ case'.absent = case.absent
    BY <2>1, Parts DEF CaseSet
  <2>4. << >> \in Seq(Items)
    OBVIOUS
  <2>5. QED BY <1>1, <2>1, <2>2, <2>3, <2>4, LanePlaces
<1>3. CASE case.escalated
  <2>1. case' = IF case.terminated THEN case ELSE [Chained(case, "terminate", "") EXCEPT !.terminated = TRUE]
    BY <1>3 DEF LaneBoundary, Abort
  <2>2. case'.escalated = case.escalated
    BY <2>1, Parts DEF CaseSet, Chained
  <2>3. QED BY <1>1, <1>3, <2>2, UnsoundStep DEF Sound
<1>4. QED BY <1>2, <1>3

\* The lists are compared, and the cross-view asked for.
LEMMA ViewsPlaces ==
  ASSUME RunInv, PlacesInv, Views
  PROVE  PlacesInv'
<1>1. agenda # << >> /\ Job.do = "views" /\ phase \in {"lanes", "failing"} /\ UNCHANGED <<plan, case, phase>>
  BY DEF Views, At
<1>2. PICK diverge \in BOOLEAN :
        agenda' = (IF diverge THEN <<Call("vol_psxview", "plain", "defer")>> ELSE << >>)
                  \o <<[do |-> "memory_findings", crossed |-> diverge]>> \o Rest
  <2>1. PICK diverge \in IF Has("vol_pslist") # Has("vol_psscan") THEN {TRUE}
                         ELSE IF Has("vol_pslist") THEN BOOLEAN ELSE {FALSE} :
          agenda' = (IF diverge THEN <<Call("vol_psxview", "plain", "defer")>> ELSE << >>)
                    \o <<[do |-> "memory_findings", crossed |-> diverge]>> \o Rest
    BY Zenon DEF Views
  <2>2. QED BY <2>1
<1> DEFINE view == Call("vol_psxview", "plain", "defer")
           job == [do |-> "memory_findings", crossed |-> diverge]
<1>3. view \in Items
  BY DEF Call, Items, CallItems, ToolNames, Hows, Misses
<1>4. job \in Items
  BY DEF Items, OtherItems
<1> HIDE DEF view, job
<1>5. Rest \in Seq(Items)
  BY <1>1, Parts DEF Rest
<1>6. PICK first \in Seq(Items) : agenda' = first \o <<job>> \o Rest
  <2>1. <<view>> \in Seq(Items) /\ << >> \in Seq(Items)
    BY <1>3
  <2>2. QED BY <1>2, <2>1 DEF view, job
<1>7. first \o <<job>> \in Seq(Items)
  BY <1>4
<1>8. agenda' = (first \o <<job>>) \o Rest
  BY <1>6
<1>9. QED BY <1>1, <1>7, <1>8, Parts, LanePlaces

\* What is drafted from the processes.
LEMMA MemoryFindingsPlaces ==
  ASSUME RunInv, PlacesInv, MemoryFindings
  PROVE  PlacesInv'
<1>1. agenda # << >> /\ Job.do = "memory_findings" /\ phase \in {"lanes", "failing"} /\ agenda' = Rest
      /\ UNCHANGED <<plan, case, phase>>
  BY DEF MemoryFindings, At
<1>2. << >> \in Seq(Items)
  OBVIOUS
<1>3. QED BY <1>1, <1>2, Parts, LanePlaces

\* An entry of the recycle bin keeps its place, whichever the parser.
LEMMA RecyclePlaces ==
  ASSUME RunInv, PlacesInv, Recycle
  PROVE  PlacesInv'
<1>1. agenda # << >> /\ Job.do = "recycle" /\ phase \in {"lanes", "failing"} /\ UNCHANGED <<plan, case, phase>>
  BY DEF Recycle, At
<1>2. PICK call \in {Call("plaso_parse", "leads", "absence"), Call("rbcmd", "leads", "disclose")} :
        agenda' = <<call>> \o Rest
  BY DEF Recycle
<1>3. call \in CallItems /\ call.do = "call" /\ call.tool \in {"plaso_parse", "rbcmd"}
  BY DEF Call, CallItems, ToolNames, Hows, Misses
<1>4. ASSUME NEW P, NEW S PROVE Shifts(P, S, S, Job, <<call>>)
  <2>1. InPlace(P, Job, 1) => InPlace(P, call, 1)
    BY <1>1, <1>3 DEF InPlace
  <2>2. QED BY <1>1, <2>1, CallShift
<1>5. <<call>> \in Seq(Items)
  BY <1>3 DEF Items
<1>6. QED BY <1>1, <1>2, <1>4, <1>5, Parts, QuietPlaces

\* While nothing has failed plaso is not absent, and its entries become a batch.
LEMMA PlasoParsersPlaces ==
  ASSUME RunInv, PlacesInv, PlasoParsers
  PROVE  PlacesInv'
<1>1. agenda # << >> /\ Job.do = "plaso" /\ phase \in {"lanes", "failing"} /\ UNCHANGED <<plan, phase>>
  BY DEF PlasoParsers, At
<1>2. CASE "plaso_parse" \in case.absent
  <2>1. case' = Limited(case, "plaso_parse")
    BY <1>2 DEF PlasoParsers
  <2>2. case'.chain = case.chain /\ case'.escalated = case.escalated
    BY <2>1, Parts DEF Limited, CaseSet
  <2>3. ~ Sound(case')
    BY <1>2, <2>2, QuietCase DEF PlacesInv
  <2>4. QED BY <1>1, <2>3, UnsoundStep
<1>3. CASE "plaso_parse" \notin case.absent
  <2>1. case' = case /\ agenda' = <<AsBatch(Job.calls)>> \o Rest
    BY <1>3 DEF PlasoParsers
  <2>2. AsBatch(Job.calls) \in Items
    BY <1>1, JobType DEF AsBatch, OtherItems, Items
  <2>3. \A P, S : Shifts(P, S, S, Job, <<AsBatch(Job.calls)>>)
    BY <1>1, PlasoShift
  <2>4. <<AsBatch(Job.calls)>> \in Seq(Items)
    BY <2>2
  <2>5. QED BY <1>1, <2>1, <2>3, <2>4, Parts, QuietPlaces
<1>4. QED BY <1>2, <1>3

\* The hives that are asked about programs.
LEMMA UserAssistPlaces ==
  ASSUME RunInv, PlacesInv, UserAssist
  PROVE  PlacesInv'
<1>1. agenda # << >> /\ Job.do = "userassist" /\ phase \in {"lanes", "failing"} /\ UNCHANGED <<plan, case, phase>>
  BY DEF UserAssist, At
<1>2. Job.hives \in Nat
  BY <1>1, JobType
<1>3. PICK n \in IF \E d \in drafts : d.kind = "prefetch_parse" THEN 0..Job.hives ELSE {0} :
        agenda' = [i \in 1..n |-> Call("userassist", "userassist", "silent")] \o Rest
  BY Zenon DEF UserAssist
<1>4. n \in Nat
  BY <1>2, <1>3
<1>5. Call("userassist", "userassist", "silent") \in Items
  BY DEF Call, Items, CallItems, ToolNames, Hows, Misses
<1>6. [i \in 1..n |-> Call("userassist", "userassist", "silent")] \in Seq(Items)
  BY <1>4, <1>5
<1>7. QED BY <1>1, <1>3, <1>6, Parts, LanePlaces

\* What there was nothing to parse with.
LEMMA DisclosePlaces ==
  ASSUME RunInv, PlacesInv, Disclose
  PROVE  PlacesInv'
<1>1. PICK what \in {"no_rules", "no_artifacts", "no_evidence"} :
        agenda # << >> /\ Job.do = what /\ case' = Limited(case, what)
  BY DEF Disclose, At
<1>2. agenda' = Rest /\ UNCHANGED <<plan, phase>> /\ phase \in {"lanes", "failing"}
  BY DEF Disclose, At
<1>3. case' \in CaseSet
  BY <1>1, LimitIsNoted, Parts DEF LimitNames, Notes
<1>4. case'.chain = case.chain /\ case'.escalated = case.escalated /\ case'.absent = case.absent
  BY <1>1, Parts DEF Limited, CaseSet
<1>5. << >> \in Seq(Items)
  OBVIOUS
<1>6. QED BY <1>1, <1>2, <1>3, <1>4, <1>5, LanePlaces

\* investigate_velociraptor_zip: the lanes of what the zip holds.
LEMMA UnzipPlaces ==
  ASSUME RunInv, PlacesInv, Unzip
  PROVE  PlacesInv'
<1>1. agenda # << >> /\ Job.do = "unzip" /\ phase \in {"lanes", "failing"} /\ UNCHANGED <<plan, phase>>
  BY DEF Unzip, At
<1> DEFINE l == Limited(case, "velociraptor")
<1>2. l \in CaseSet /\ l.chain = case.chain /\ l.escalated = case.escalated /\ l.absent = case.absent
  <2>1. l \in CaseSet
    BY LimitIsNoted, Parts DEF LimitNames, Notes
  <2>2. QED BY <2>1, Parts DEF Limited, CaseSet
<1> HIDE DEF l
<1>3. CASE case' = l /\ agenda' = Rest
  <2>1. << >> \in Seq(Items)
    OBVIOUS
  <2>2. QED BY <1>1, <1>2, <1>3, <2>1, LanePlaces
<1>4. CASE /\ case' = [(IF plan.inside = << >> THEN l ELSE case) EXCEPT !.unzipped = TRUE]
           /\ agenda' = ZipLanes(plan.inside, plan.rules) \o Rest
  <2> DEFINE c == IF plan.inside = << >> THEN l ELSE case
  <2>1. c \in CaseSet /\ c.chain = case.chain /\ c.escalated = case.escalated /\ c.absent = case.absent
    BY <1>2, Parts
  <2> HIDE DEF c
  <2>2. case' = [c EXCEPT !.unzipped = TRUE]
    BY <1>4 DEF c
  <2>3. case' \in CaseSet /\ case'.chain = case.chain /\ case'.escalated = case.escalated /\ case'.absent = case.absent
    BY <2>1, <2>2 DEF CaseSet
  <2>4. ZipLanes(plan.inside, plan.rules) \in Seq(Items)
    BY InnerLanes, Parts DEF LaneSet
  <2>5. QED BY <1>1, <1>4, <2>3, <2>4, LanePlaces
<1>5. QED BY <1>3, <1>4 DEF Unzip, l

\* disk_mount: the place of a raw disk is that of its mount.
LEMMA MountPlaces ==
  ASSUME RunInv, PlacesInv, Mount
  PROVE  PlacesInv'
<1>1. agenda # << >> /\ Job.do = "mount" /\ phase \in {"lanes", "failing"} /\ UNCHANGED <<plan, phase>>
  BY DEF Mount, At
<1> DEFINE call == Call("disk_mount", "plain", "disclose")
<1>2. PICK answer \in {"some", "hard"} :
        /\ case' = Answered(NextTurn(case), call, answer, 0)
        /\ agenda' = (IF Failed(answer) THEN << >> ELSE <<Item("extract"), Unmount>>) \o Rest
  BY DEF Mount
<1>3. call \in CallItems /\ call.entry = 0 /\ call.tool = "disk_mount"
  BY DEF Call, CallItems, ToolNames, Hows, Misses
<1> HIDE DEF call
<1>4. answer \in AnswerSet
  BY DEF AnswerSet
<1>5. Item("extract") \in Items /\ Unmount \in Items
  BY DEF Item, Unmount, Call, Items, OtherItems, CallItems, ToolNames, Hows, Misses
<1>6. PICK new \in Seq(Items) : agenda' = new \o Rest
  <2>1. << >> \in Seq(Items) /\ <<Item("extract"), Unmount>> \in Seq(Items)
    BY <1>5
  <2>2. QED BY <1>2, <2>1
<1>7. \A P : \A j \in Nat : InPlace(P, Job, j) => j = 1 /\ call.tool \in P
  BY <1>1, <1>3 DEF InPlace
<1>8. QED BY <1>1, <1>2, <1>3, <1>4, <1>6, <1>7, TurnPlaces

\* disk_extract_artifacts, and the lanes of what it extracts.
LEMMA ExtractPlaces ==
  ASSUME RunInv, PlacesInv, Extract
  PROVE  PlacesInv'
<1>1. agenda # << >> /\ Job.do = "extract" /\ phase \in {"lanes", "failing"} /\ UNCHANGED <<plan, phase>>
  BY DEF Extract, At
<1> DEFINE call == Call("disk_extract_artifacts", "plain", "disclose")
<1>2. PICK answer \in {"some", "hard"} :
        /\ case' = Answered(NextTurn(case), call, answer, 0)
        /\ agenda' = (IF Failed(answer) THEN << >> ELSE DiskLanes(plan.inside, plan.rules)) \o Rest
  BY DEF Extract
<1>3. call \in CallItems /\ call.entry = 0
  BY DEF Call, CallItems, ToolNames, Hows, Misses
<1> HIDE DEF call
<1>4. answer \in AnswerSet
  BY DEF AnswerSet
<1>5. PICK new \in Seq(Items) : agenda' = new \o Rest
  <2>1. << >> \in Seq(Items) /\ DiskLanes(plan.inside, plan.rules) \in Seq(Items)
    BY InnerLanes, Parts DEF LaneSet
  <2>2. QED BY <1>2, <2>1
<1>6. \A P : \A j \in Nat : ~ InPlace(P, Job, j)
  BY <1>1 DEF InPlace
<1>7. QED BY <1>1, <1>2, <1>3, <1>4, <1>5, <1>6, TurnPlaces

\* The answers of a batch, in a new turn: each of its places is that of a record.
LEMMA BatchPlaces ==
  ASSUME RunInv, PlacesInv, agenda # << >>, phase \in {"lanes", "failing"}, Job.do = "batch",
         NEW results, \A k \in Tasks : results[k] \in AnswerSet, NEW done,
         agenda' = Records(Job.calls, results, done) \o Rest, case' = NextTurn(case), UNCHANGED <<plan, phase>>
  PROVE  PlacesInv'
<1>1. Job.calls \in Entries
  BY JobType
<1>2. \A k \in DOMAIN Job.calls : results[k] \in AnswerSet
  BY DEF Tasks
<1>3. Records(Job.calls, results, done) \in Seq(Items)
  BY <1>1, <1>2, RecordsType
<1>4. \A P, S : Shifts(P, S, S, Job, Records(Job.calls, results, done))
  BY <1>1, <1>2, RecordShift
<1>5. case' \in CaseSet
  BY TurnKeeps, Parts DEF CaseInv
<1>6. case'.chain = case.chain /\ case'.escalated = case.escalated /\ case'.absent = case.absent
  BY TurnIsQuiet, Parts
<1>7. QED BY <1>3, <1>4, <1>5, <1>6, QuietPlaces

\* A batch whose calls are made one after the other.
LEMMA InTurnPlaces ==
  ASSUME RunInv, PlacesInv, InTurn
  PROVE  PlacesInv'
<1>1. agenda # << >> /\ Job.do = "batch" /\ phase \in {"lanes", "failing"} /\ case' = NextTurn(case)
      /\ UNCHANGED <<plan, phase>>
  BY DEF InTurn, At
<1>2. PICK results \in [Tasks -> {"some", "none", "hard", "absent"}] :
        agenda' = Records(Job.calls, results, [i \in Tasks |-> i]) \o Rest
  BY DEF InTurn
<1>3. \A k \in Tasks : results[k] \in AnswerSet
  BY <1>2 DEF AnswerSet
<1>4. QED BY <1>1, <1>2, <1>3, BatchPlaces

\* A batch whose calls were made at the same time.
LEMMA CollectPlaces ==
  ASSUME RunInv, PlacesInv, Collect
  PROVE  PlacesInv'
<1>1. agenda # << >> /\ Job.do = "batch" /\ phase \in {"lanes", "failing"} /\ case' = NextTurn(case)
      /\ UNCHANGED <<plan, phase>> /\ agenda' = Records(Job.calls, pool.results, pool.done) \o Rest
      /\ DOMAIN pool.results = Tasks
  BY DEF Collect, At
<1>2. \A k \in Tasks : pool.results[k] \in AnswerSet
  BY <1>1, PoolParts DEF Mapped
<1>3. QED BY <1>1, <1>2, BatchPlaces

\* The next record of a batch: its place is that of the record.
LEMMA RecordPlaces ==
  ASSUME RunInv, PlacesInv, Record
  PROVE  PlacesInv'
<1>1. agenda # << >> /\ Job.do = "record" /\ phase \in {"lanes", "failing"} /\ agenda' = Rest /\ UNCHANGED <<plan, phase>>
      /\ case' = Answered(case, Job.call, Job.answer, Job.answered)
  BY DEF Record, At
<1>2. Job.call \in CallItems /\ Job.answer \in AnswerSet /\ Job.answered = Job.call.entry
  BY <1>1, JobType DEF RecordItems
<1>3. Newer(case, Job.call.entry)
  BY <1>1 DEF RunInv, HeadIsNewer, Job
<1>4. case' \in CaseSet
  BY <1>1, <1>2, <1>3, AnswerKeeps, Parts DEF CaseInv
<1>5. agenda' = << >> \o Rest /\ << >> \in Seq(Items)
  BY <1>1, NothingAhead
<1>6. \A P : \A j \in Nat : InPlace(P, Job, j) => j = 1 /\ Job.call.tool \in P
  BY <1>1 DEF InPlace
<1>7. QED BY <1>1, <1>2, <1>3, <1>4, <1>5, <1>6, AnswerPlaces, Parts

\* The servers of a batch, and the agents, leave the agenda as it is.
LEMMA OthersPlaces ==
  ASSUME RunInv, PlacesInv, OpenServer \/ Lend \/ Finish \/ Respond \/ DispatchFinding \/ UNCHANGED vars
  PROVE  PlacesInv'
<1>1. UNCHANGED <<plan, agenda, case, phase>>
  BY DEF OpenServer, Lend, Finish, Respond, DispatchFinding, vars
<1>2. QED BY <1>1, PlacesUnchanged

\* An exception ends the lanes.
LEMMA FailsPlaces ==
  ASSUME RunInv, PlacesInv, ServerFails \/ ProviderFails
  PROVE  PlacesInv'
<1>1. phase' = "failing" /\ case' = case
  BY DEF ServerFails, ProviderFails
<1>2. QED BY <1>1, UnsoundStep DEF PlacesInv

\* call_and_record: a call of an agent, who keeps the head of the agenda.
LEMMA DispatchToolPlaces ==
  ASSUME RunInv, PlacesInv, DispatchTool
  PROVE  PlacesInv'
<1>1. agenda # << >> /\ Job.do = "pod" /\ phase \in {"lanes", "failing"} /\ UNCHANGED <<plan, agenda, phase>>
  BY DEF DispatchTool, At
<1>2. PICK tool \in AgentTools, answer \in {"some", "hard"} :
        case' = Recorded(NextTurn(case), Call(tool, "plain", "silent"), answer, 0)
  BY DEF DispatchTool
<1> DEFINE call == Call(tool, "plain", "silent")
<1>3. call \in CallItems /\ call.entry = 0 /\ call.miss = "silent" /\ answer \in AnswerSet
  BY DEF Call, CallItems, ToolNames, Hows, Misses, AgentTools, AnswerSet
<1>4. case' = Answered(NextTurn(case), call, answer, call.entry)
  BY <1>2, <1>3 DEF Answered, Missed
<1> HIDE DEF call
<1>5. <<Job>> \in Seq(Items) /\ agenda' = <<Job>> \o Rest
  BY <1>1, Parts DEF Job, Rest
<1>6. \A P : \A j \in Nat : ~ InPlace(P, Job, j)
  BY <1>1 DEF InPlace
<1>7. QED BY <1>1, <1>3, <1>4, <1>5, <1>6, TurnPlaces

\* The findings of an agent become drafts.
LEMMA PodEndsPlaces ==
  ASSUME RunInv, PlacesInv, PodEnds
  PROVE  PlacesInv'
<1>1. agenda # << >> /\ Job.do = "pod" /\ phase \in {"lanes", "failing"} /\ agenda' = Rest /\ UNCHANGED <<plan, case, phase>>
  BY DEF PodEnds, At
<1>2. << >> \in Seq(Items)
  OBVIOUS
<1>3. QED BY <1>1, <1>2, Parts, LanePlaces

\* The run ends, with nothing left to do.
LEMMA ConcludePlaces ==
  ASSUME RunInv, PlacesInv, Conclude
  PROVE  PlacesInv'
<1>1. UNCHANGED <<plan, agenda, case>> /\ agenda = << >>
  BY DEF Conclude
<1>2. (phase' = "concluded" /\ phase = "lanes") \/ phase' = "raised"
  BY DEF Conclude
<1>3. QED BY <1>1, <1>2 DEF PlacesInv

\* At the start every entry is still to be parsed.
LEMMA PlacesInit == Init => PlacesInv
<1> SUFFICES ASSUME Init PROVE PlacesInv
  OBVIOUS
<1>1. plan \in PlanSet
  BY PlansAssumption DEF Init, PlanSet
<1>2. case.absent = {} /\ case.chain = << >> /\ phase = "lanes"
  BY DEF Init, NewCase
<1>3. \A P : ParsedBy(P, case) = {}
  BY <1>2 DEF ParsedBy, ToolRecords
<1>4. ASSUME plan.type = "directory", NEW class \in DOMAIN ParserOf
      PROVE  Placed(ParserOf[class], ParsedBy(ParserOf[class], case), agenda, Due(plan.here, class))
  BY <1>1, <1>3, <1>4, InventoryPlaces DEF Init
<1>5. QED BY <1>2, <1>4 DEF PlacesInv

\* Every step keeps the places.
LEMMA PlacesKept == RunInv /\ PlacesInv /\ [Next]_vars => PlacesInv'
<1> SUFFICES ASSUME RunInv, PlacesInv, [Next]_vars PROVE PlacesInv'
  OBVIOUS
<1>1. CASE Retry \/ CallTool \/ CaseOpen \/ LaneBoundary
  BY <1>1, RetryPlaces, CallToolPlaces, CaseOpenPlaces, LaneBoundaryPlaces
<1>2. CASE Views \/ MemoryFindings \/ Recycle \/ PlasoParsers \/ UserAssist \/ Disclose
  BY <1>2, ViewsPlaces, MemoryFindingsPlaces, RecyclePlaces, PlasoParsersPlaces, UserAssistPlaces, DisclosePlaces
<1>3. CASE Unzip \/ Mount \/ Extract
  BY <1>3, UnzipPlaces, MountPlaces, ExtractPlaces
<1>4. CASE InTurn \/ Collect \/ Record \/ DispatchTool \/ PodEnds \/ Conclude
  BY <1>4, InTurnPlaces, CollectPlaces, RecordPlaces, DispatchToolPlaces, PodEndsPlaces, ConcludePlaces
<1>5. CASE OpenServer \/ Lend \/ Finish \/ Respond \/ DispatchFinding \/ UNCHANGED vars
  BY <1>5, OthersPlaces
<1>6. CASE ServerFails \/ ProviderFails
  BY <1>6, FailsPlaces
<1>7. QED BY <1>1, <1>2, <1>3, <1>4, <1>5, <1>6 DEF Next

\* Each call that a class with a parser comes to, up to its cap and the registry's, has a place until
\* something fails.
THEOREM EntriesHavePlaces == Spec => []PlacesInv
<1>1. RunInv /\ RunInv' /\ PlacesInv /\ [Next]_vars => PlacesInv'
  BY PlacesKept
<1>2. QED BY RunInvariant, PlacesInit, <1>1, PTL DEF Spec

\* With an empty agenda the places are answers.
LEMMA PlacesAreAnswers ==
  ASSUME NEW P, NEW S, IsFiniteSet(S), NEW n \in Nat, Placed(P, S, << >>, n)
  PROVE  Cardinality(S) >= n
<1>1. PICK at, num : Seats(P, S, << >>, n, at, num)
  BY DEF Placed
<1>2. \A i \in 1..n : at[i] = 0 /\ num[i] \in S
  BY <1>1 DEF Seats, Site
<1>3. num \in [1..n -> S]
  <2>1. num = [i \in 1..n |-> num[i]]
    BY <1>1 DEF Seats
  <2>2. QED BY <1>2, <2>1
<1>4. \A i, j \in 1..n : num[i] = num[j] => i = j
  BY <1>1, <1>2 DEF Seats
<1>5. num \in Injection(1..n, S)
  BY <1>3, <1>4 DEF Injection, IsInjective
<1>6. IsFiniteSet(1..n) /\ Cardinality(1..n) = n
  BY FS_Interval
<1>7. Cardinality(1..n) <= Cardinality(S)
  BY <1>5, <1>6, FS_Injection
<1>8. QED BY <1>6, <1>7, FS_CardinalityType

\* The lanes, the gates and compute_verdict: a run over a directory that says NO_EVIL has parsed every
\* entry of a class that has a parser, up to the cap of the class and the calls that the hives share,
\* each with a call of its own that answered: for every inventory, whatever the caps and the threshold,
\* with parallel calls or without.
THEOREM ClearedWereParsed == Spec => []ClearedEntriesWereParsed
<1>1. RunInv /\ PlacesInv => ClearedEntriesWereParsed
  <2> SUFFICES ASSUME RunInv, PlacesInv, Cleared, plan.type = "directory",
                      NEW class \in Evidence.present \cap DOMAIN ParserOf
               PROVE  Cardinality({i \in ToolRecords(case) : Clean(i) /\ case.chain[i].tool \in ParserOf[class]})
                        >= Due(plan.here, class)
    BY DEF ClearedEntriesWereParsed
  <2> DEFINE S == ParsedBy(ParserOf[class], case)
             n == Due(plan.here, class)
  <2>1. phase = "concluded" /\ ~ case.escalated /\ ~ \E call \in Calls(case) : call.err
    BY DEF Cleared, EmptyVerdict
  <2>2. \A i \in ToolRecords(case) : ~ Failed(case.chain[i].answer)
    <3>1. \A i \in ToolRecords(case) :
            [tool |-> ToolOf(case.chain[i].tool), err |-> Failed(case.chain[i].answer)] \in Calls(case)
      BY DEF Calls
    <3>2. QED BY <2>1, <3>1
  <2>3. Sound(case)
    BY <2>1, <2>2 DEF Sound, CleanAt, ToolRecords
  <2>4. agenda = << >> /\ Placed(ParserOf[class], S, agenda, n)
    BY <2>1, <2>3 DEF PlacesInv
  <2>5. n \in Nat
    BY DueIsTaken, Parts
  <2>6. IsFiniteSet(S)
    <3>1. Len(case.chain) \in Nat /\ DOMAIN case.chain = 1..Len(case.chain)
      BY Parts DEF CaseSet
    <3>2. S \subseteq 1..Len(case.chain)
      BY <3>1 DEF ParsedBy, ToolRecords
    <3>3. IsFiniteSet(1..Len(case.chain))
      BY <3>1, FS_Interval
    <3>4. QED BY <3>2, <3>3, FS_Subset
  <2>7. Cardinality(S) >= n
    BY <2>4, <2>5, <2>6, PlacesAreAnswers
  <2>8. S = {i \in ToolRecords(case) : Clean(i) /\ case.chain[i].tool \in ParserOf[class]}
    BY DEF ParsedBy, Clean, CleanAt
  <2>9. QED BY <2>7, <2>8
<1>2. QED BY RunInvariant, EntriesHavePlaces, <1>1, PTL

-----------------------------------------------------------------------------
(* A clean run is released.                                                  *)

\* A class that is present comes to a call at least: a cap is not zero.
LEMMA PresentIsDue ==
  ASSUME NEW here \in Seq(STRING), NEW class \in Range(here) \cap DOMAIN ParserOf
  PROVE  Due(here, class) \in Nat /\ Due(here, class) >= 1
<1> DEFINE D == {i \in DOMAIN here : here[i] \in {class}}
<1>1. Len(here) \in Nat /\ DOMAIN here = 1..Len(here) /\ IsFiniteSet(1..Len(here))
  BY FS_Interval
<1>2. D \subseteq 1..Len(here) /\ D # {}
  BY <1>1 DEF Range
<1> HIDE DEF D
<1>3. IsFiniteSet(D)
  BY <1>1, <1>2, FS_Subset
<1>4. Cardinality(D) \in Nat /\ Cardinality(D) # 0
  BY <1>2, <1>3, FS_CardinalityType, FS_EmptySet
<1>5. Count(here, {class}) \in Nat /\ Count(here, {class}) >= 1
  BY <1>4 DEF Count, D
<1>6. /\ RegistryCalls \in Nat \ {0}
      /\ class # "raw_disk" => Cap[class] \in Nat \ {0}
  BY CapsAssumption DEF ParserOf, CappedClasses
<1>7. class # "raw_disk" => Least(Count(here, {class}), Cap[class]) \in Nat \ {0}
  BY <1>5, <1>6 DEF Least
<1>8. CASE class = "raw_disk"
  BY <1>5, <1>8 DEF Due
<1>9. CASE class = "registry"
  <2> DEFINE k == Least(Count(here, {class}), Cap[class])
  <2>1. k \in Nat \ {0}
    BY <1>7, <1>9
  <2>2. Due(here, class) = Least(RegistryCalls, Keys * k)
    BY <1>9 DEF Due
  <2> HIDE DEF k
  <2>3. Keys * k \in Nat /\ Keys * k >= 1
    BY <2>1 DEF Keys
  <2>4. QED BY <1>6, <2>2, <2>3 DEF Least
<1>10. CASE class \notin {"raw_disk", "registry"}
  BY <1>7, <1>10 DEF Due
<1>11. QED BY <1>8, <1>9, <1>10

\* The tool of a parser, in the tables of the gates.
LEMMA ParserTools ==
  /\ \A tool \in ParserOf["memory"] : ToolOf(tool) = "vol_pslist"
  /\ \A tool \in ParserOf["evtx"] : ToolOf(tool) = "evtx_query"
  /\ \A tool \in ParserOf["mft"] : ToolOf(tool) = "mft_timeline"
  /\ \A tool \in ParserOf["usnjrnl"] : ToolOf(tool) = "usnjrnl_query"
  /\ \A tool \in ParserOf["prefetch"] : ToolOf(tool) = "prefetch_parse"
  /\ \A tool \in ParserOf["registry"] : ToolOf(tool) = "registry_query"
  /\ \A tool \in ParserOf["raw_disk"] : ToolOf(tool) = "disk_mount"
  /\ \A tool \in ParserOf["pcap"] : ToolOf(tool) = "pcap_triage"
BY DEF ParserOf, ToolOf

\* A checked class that was touched, in a run without failed calls, has been parsed or attempted.
LEMMA TouchedIsExamined ==
  ASSUME NEW evidence, NEW calls, NEW unzipped, \A call \in calls : ~ call.err,
         NEW class, class \in Touched(calls, unzipped)
  PROVE  Status(class, evidence, calls, unzipped) \in {"parsed", "attempted_no_rows"}
<1>1. {call \in CallsOf(class, calls) : call.err} = {}
  BY DEF CallsOf
<1>2. Attempted(class, calls, unzipped)
  BY DEF Attempted
<1>3. QED BY <1>1, <1>2 DEF Status

\* compute_verdict, the coverage manifest and report QA, each with its own table: over a directory whose
\* classes all have an entry with a parser that the three tables know, a run in which nothing failed and
\* nothing was found says NO_EVIL and is released, for every inventory and every cap.
THEOREM CleanAreReleased == Spec => []CleanRunsAreReleased
<1>1. RunInv /\ PlacesInv => CleanRunsAreReleased
  <2> DEFINE calls == Calls(case)
             run == ToolsRun(calls)
             present == Evidence.present
             touched == Touched(calls, case.unzipped)
  <2>1. SUFFICES ASSUME RunInv, PlacesInv, phase = "concluded", plan.type = "directory", ~ plan.truncated,
                        drafts = {}, ~ case.escalated, \A i \in ToolRecords(case) : Clean(i),
                        present \cap Weighed # {}, "velociraptor" \notin present,
                        present \cap Sources.disk # {} => present \cap DiskWeighed # {},
                        present \cap NetworkClasses # {} => "pcap" \in present
                 PROVE  Released
    BY DEF CleanRunsAreReleased
  <2>2. Evidence.type = "directory" /\ ~ Evidence.truncated /\ present = Range(plan.here)
    BY <2>1 DEF Evidence
  <2>3. \A call \in calls : ~ call.err
    BY <2>1 DEF Calls, Clean
  <2>4. Sound(case)
    BY <2>1 DEF Sound, Clean, CleanAt
  <2>5. \A class \in present \cap DOMAIN ParserOf : \E tool \in ParserOf[class] : ToolOf(tool) \in run
    <3>1. TAKE class \in present \cap DOMAIN ParserOf
    <3> DEFINE S == ParsedBy(ParserOf[class], case)
               n == Due(plan.here, class)
    <3>2. agenda = << >> /\ Placed(ParserOf[class], S, agenda, n)
      BY <2>1, <2>4 DEF PlacesInv
    <3>3. n \in Nat /\ n >= 1
      BY <2>1, <2>2, PresentIsDue, Parts
    <3>4. S # {}
      <4>1. PICK at, num : Seats(ParserOf[class], S, << >>, n, at, num)
        BY <3>2 DEF Placed
      <4>2. 1 \in 1..n
        BY <3>3
      <4> HIDE DEF S, n
      <4>3. QED BY <4>1, <4>2 DEF Seats, Site
    <3>5. PICK i \in ToolRecords(case) : case.chain[i].tool \in ParserOf[class]
      BY <3>4 DEF ParsedBy
    <3>6. ToolOf(case.chain[i].tool) \in run
      <4> DEFINE call == [tool |-> ToolOf(case.chain[i].tool), err |-> Failed(case.chain[i].answer)]
      <4>1. call \in calls
        BY <3>5 DEF Calls
      <4>2. call.tool \in run
        BY <4>1 DEF ToolsRun
      <4>3. QED BY <4>2
    <3>7. QED BY <3>5, <3>6
  <2> HIDE DEF present, calls
  <2>6. /\ "memory" \in present => "vol_pslist" \in run
        /\ "evtx" \in present => "evtx_query" \in run
        /\ "mft" \in present => "mft_timeline" \in run
        /\ "usnjrnl" \in present => "usnjrnl_query" \in run
        /\ "prefetch" \in present => "prefetch_parse" \in run
        /\ "registry" \in present => "registry_query" \in run
        /\ "raw_disk" \in present => "disk_mount" \in run
        /\ "pcap" \in present => "pcap_triage" \in run
    <3>1. {"memory", "evtx", "mft", "usnjrnl", "prefetch", "registry", "raw_disk", "pcap"} \subseteq DOMAIN ParserOf
      BY DEF ParserOf
    <3> HIDE DEF run
    <3>2. QED BY <2>5, <3>1, ParserTools
  <2> HIDE DEF run
  <2>7. run \cap Substantive("directory") # {}
    BY <2>1, <2>6 DEF Weighed, Substantive, TouchedBy
  <2>8. /\ run \cap TouchedBy.memory # {} => "memory" \in touched
        /\ run \cap TouchedBy.evtx # {} => "evtx" \in touched
        /\ run \cap TouchedBy.disk # {} => "disk" \in touched
        /\ run \cap TouchedBy.network # {} => "network" \in touched
    BY DEF Touched, CheckedClasses, run
  <2>9. /\ "memory" \in present => "memory" \in touched /\ run \cap Applicable.memory # {}
        /\ "evtx" \in present => "evtx" \in touched /\ run \cap Applicable.evtx # {}
        /\ present \cap Sources.disk # {} => "disk" \in touched /\ run \cap Applicable.disk # {}
        /\ present \cap NetworkClasses # {} => "network" \in touched /\ run \cap Applicable.network # {}
    <3>1. "memory" \in present => "memory" \in touched /\ run \cap Applicable.memory # {}
      BY <2>6, <2>8 DEF TouchedBy, Applicable
    <3>2. "evtx" \in present => "evtx" \in touched /\ run \cap Applicable.evtx # {}
      BY <2>6, <2>8 DEF TouchedBy, Applicable
    <3>3. ASSUME present \cap DiskWeighed # {} PROVE "disk" \in touched /\ run \cap Applicable.disk # {}
      <4>1. run \cap {"mft_timeline", "usnjrnl_query", "prefetch_parse", "registry_query", "disk_mount"} # {}
        BY <2>6, <3>3 DEF DiskWeighed
      <4>2. QED BY <2>8, <4>1 DEF TouchedBy, Applicable
    <3>4. ASSUME "pcap" \in present PROVE "network" \in touched /\ run \cap Applicable.network # {}
      BY <2>6, <2>8, <3>4 DEF TouchedBy, Applicable
    <3>5. QED BY <2>1, <3>1, <3>2, <3>3, <3>4
  <2>10. \A class \in Available(Evidence) : class \in touched /\ run \cap Applicable[class] # {}
    <3>1. \A class \in Available(Evidence) : class \in CheckedClasses /\ present \cap Sources[class] # {}
      BY <2>2 DEF Available, CheckedClasses, present
    <3>2. /\ Sources.memory = {"memory"} /\ Sources.evtx = {"evtx"} /\ Sources.network = NetworkClasses
          /\ Sources.velociraptor = {"velociraptor"}
      BY DEF Sources
    <3> HIDE DEF touched
    <3>3. TAKE class \in Available(Evidence)
    <3>4. class \in {"memory", "evtx", "disk", "network", "velociraptor"} /\ present \cap Sources[class] # {}
      BY <3>1 DEF CheckedClasses
    <3>5. CASE class = "memory"
      BY <2>9, <3>2, <3>4, <3>5
    <3>6. CASE class = "evtx"
      BY <2>9, <3>2, <3>4, <3>6
    <3>7. CASE class = "disk"
      BY <2>9, <3>4, <3>7
    <3>8. CASE class = "network"
      BY <2>9, <3>2, <3>4, <3>8
    <3>9. CASE class = "velociraptor"
      BY <2>1, <3>2, <3>4, <3>9
    <3>10. QED BY <3>4, <3>5, <3>6, <3>7, <3>8, <3>9
  <2>11. \A class \in touched : Status(class, Evidence, calls, case.unzipped) \in {"parsed", "attempted_no_rows"}
    BY <2>3, TouchedIsExamined
  <2>12. Unexamined(Evidence, calls, case.unzipped) = {}
    <3>1. ASSUME NEW class, Status(class, Evidence, calls, case.unzipped) = "available_not_attempted"
          PROVE  class \in Available(Evidence)
      BY <3>1 DEF Status
    <3>2. QED BY <2>10, <2>11, <3>1 DEF Unexamined
  <2>13. ParsedWell(Evidence, calls, case.unzipped) # {}
    <3>1. present \cap Sources.disk # {} \/ "memory" \in present \/ "evtx" \in present
      BY <2>1 DEF Weighed, Sources, ExtractedClasses
    <3>2. PICK class \in {"memory", "evtx", "disk"} : class \in touched
      BY <2>9, <3>1
    <3>3. class \in Rows(calls)
      BY DEF Rows, CheckedClasses
    <3>4. QED BY <2>11, <3>2, <3>3 DEF ParsedWell
  <2>14. Uninvoked(Evidence, calls) = {}
    BY <2>10 DEF Uninvoked, run
  <2>15. ~ CustodyOnly(Evidence, calls, case.unzipped)
    BY <2>10 DEF CustodyOnly
  <2>16. EmptyVerdict(Evidence, calls, case.unzipped, case.escalated) = "NO_EVIL"
    BY <2>1, <2>2, <2>3, <2>7, <2>12 DEF EmptyVerdict, run
  <2>17. QED BY <2>1, <2>12, <2>13, <2>14, <2>15, <2>16 DEF Released, Cleared, ClearanceFails, calls
<1>2. QED BY RunInvariant, EntriesHavePlaces, <1>1, PTL

=============================================================================
