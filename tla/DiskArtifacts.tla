--------------------------- MODULE DiskArtifacts ----------------------------
(***************************************************************************)
(* What disk_extract_artifacts computes between its two ledger accesses    *)
(* (services/mcp/src/tools/disk.rs) and the segment discovery it starts    *)
(* with (ewf_segments.rs): the set of segment files, the choice of the     *)
(* files to stage from the listing of the image, and the counters.         *)
(*                                                                         *)
(* An entry of the listing is abstracted to what the choice depends on:    *)
(* whether its path has a forensic class, and one that was asked for, the  *)
(* class by priority, its rank within the class, whether it is deleted and *)
(* whether its inode was reused, and what icat will make of it.  The place *)
(* in the listing stands for the path.                                     *)
(***************************************************************************)
EXTENDS Naturals, Sequences, FiniteSets, FiniteSetsExt

CONSTANTS Limits, MaxSegments

ASSUME LimitsAssumption == Limits \subseteq Nat /\ MaxSegments \in Nat

VARIABLE disk   \* an input: [listing, recover, limit, folder]

-----------------------------------------------------------------------------
(* build_candidates and select_artifacts.                                  *)

Entry(d) == DOMAIN d.listing

\* Deleted entries are left out altogether unless they are to be recovered.
Candidate(d, e) ==
  LET k == d.listing[e] IN k.wanted /\ ~ k.realloc /\ (d.recover \/ ~ k.deleted)

Class(d, e) == d.listing[e].class

DrawnBefore(d, e, f) ==
  LET a == d.listing[e]  b == d.listing[f] IN
    \/ a.rank < b.rank
    \/ a.rank = b.rank /\ ~ a.deleted /\ b.deleted
    \/ a.rank = b.rank /\ a.deleted = b.deleted /\ e < f

\* What is left of the queue of a class, and its head.
Bucket(d, left, class) == {e \in left : Class(d, e) = class}
First(d, bucket) == CHOOSE e \in bucket : \A f \in bucket \ {e} : DrawnBefore(d, e, f)

\* Variant: a class is emptied before the next has its turn.
FirstClassLeft(d, left, next) == Min({Class(d, e) : e \in left})

\* A pass goes over the queues in the order of class_priority; next is the
\* first class it has not come to, and when no later queue holds anything
\* the next pass begins.
NextClass(d, left, next) ==
  LET nonempty == {Class(d, e) : e \in left}
      ahead    == {c \in nonempty : c >= next}
  IN Min(IF ahead = {} THEN nonempty ELSE ahead)

Draw(d, s) ==
  IF s.left = {} THEN s
  ELSE LET class == NextClass(d, s.left, s.next)
       IN [left |-> s.left \ {First(d, Bucket(d, s.left, class))}, next |-> class + 1]

\* The queues after each draw.
Draws(d) ==
  LET f[drawn \in 0..d.limit] ==
        IF drawn = 0 THEN [left |-> {e \in Entry(d) : Candidate(d, e)}, next |-> 0]
        ELSE Draw(d, f[drawn - 1])
  IN f

Selected(d) == {e \in Entry(d) : Candidate(d, e)} \ Draws(d)[d.limit].left

-----------------------------------------------------------------------------
(* tsk_extract over the selection, and the counters of the answer.         *)

Fate(d, e)    == d.listing[e].fate
Deleted(d, e) == d.listing[e].deleted

\* Variant: the size is looked at before the content.
StagedAnyway(d, e) == Fate(d, e) # "large"

Staged(d, e) == Fate(d, e) = "whole" \/ (Fate(d, e) = "empty" /\ ~ Deleted(d, e))

Artifacts(d) == {e \in Selected(d) : Staged(d, e)}

Seen(d)           == Cardinality({e \in Entry(d) : Deleted(d, e)})
SkippedRealloc(d) == Cardinality({e \in Entry(d) : Deleted(d, e) /\ d.listing[e].realloc})
Recovered(d)      == Cardinality({e \in Artifacts(d) : Deleted(d, e)})
RecoveryFailed(d) ==
  Cardinality({e \in Selected(d) : Deleted(d, e) /\ Fate(d, e) \in {"unreadable", "empty"}})
SkippedOversize(d) == Cardinality({e \in Selected(d) : Fate(d, e) = "large"})

-----------------------------------------------------------------------------
(* segment_paths_for_image: the files of the folder whose name is the      *)
(* image's with another segment number, in two spellings at most.  The     *)
(* folder is [number -> the spellings present], links a set of numbers     *)
(* whose file is not a regular one.                                        *)
Spellings == {"upper", "lower"}

Present(f)  == {n \in DOMAIN f.files : f.files[n] # {}} \cup {1}
LastSegment(f) == Max(Present(f))

\* Variant: what is there is passed on.
MissingIgnored(f) == {}

Missing(f) == (1..LastSegment(f)) \ Present(f)

\* A set of numbers in their order.
InOrder(S) ==
  [i \in 1..Cardinality(S) |-> CHOOSE n \in S : Cardinality({m \in S : m <= n}) = i]

SegmentSet(f) ==
  IF f.links # {} \/ Missing(f) # {}
  THEN [ok |-> FALSE, numbers |-> << >>]
  ELSE [ok |-> TRUE, numbers |-> InOrder(Present(f))]

-----------------------------------------------------------------------------
(* Inputs.                                                                 *)

Kinds == {k \in [wanted : BOOLEAN, class : {1, 4}, rank : {0, 2}, deleted : BOOLEAN,
                 realloc : BOOLEAN, fate : {"whole", "empty", "unreadable", "large"}] :
            /\ k.class = 1 => k.rank = 0              \* only evtx is sub-ranked
            /\ ~ k.wanted => k.class = 1 /\ k.fate = "whole"
            /\ k.realloc => k.deleted /\ k.fate = "whole"}

Listings == (UNION {[1..n -> Kinds] : n \in 0..2})
            \cup [1..4 -> {k \in Kinds : k.wanted /\ k.fate = "whole" /\ ~ k.realloc}]

Folders == [files : [1..MaxSegments -> SUBSET Spellings], links : SUBSET (1..MaxSegments)]

LoneImage == [files |-> [n \in 1..MaxSegments |-> IF n = 1 THEN {"upper"} ELSE {}], links |-> {}]

Inputs ==
  [listing : Listings, recover : BOOLEAN, limit : Limits, folder : {LoneImage}]
  \cup [listing : {<< >>}, recover : {TRUE}, limit : {0},
        folder : {f \in Folders : \A n \in f.links : f.files[n] # {}}]

-----------------------------------------------------------------------------
(* Properties.                                                             *)

Taken(d, class) == Cardinality({e \in Selected(d) : Class(d, e) = class})
LeftOver(d, class) == {e \in Entry(d) \ Selected(d) :
                         Candidate(d, e) /\ Class(d, e) = class}

(* The budget is used up to the last place, and no class with files left    *)
(* over has two fewer than another, nor one fewer than a class after it:    *)
(* "so no single voluminous class starves the rest" (disk.rs:1352-1359).    *)
ClassesShareFairly ==
  LET d == disk
      classes == {Class(d, e) : e \in Entry(d)}
  IN /\ Cardinality(Selected(d)) <= d.limit
     /\ \A c \in classes : LeftOver(d, c) # {} =>
          /\ Cardinality(Selected(d)) = d.limit
          /\ \A b \in classes : Taken(d, b) <= Taken(d, c) + (IF b < c THEN 1 ELSE 0)

\* Of no class or of one that was not asked for, or recovery is off.
LeftOut(d, e) == ~ d.listing[e].realloc /\ (~ d.listing[e].wanted \/ ~ d.recover)

(* Each deleted entry of the listing is counted as seen (disk.rs:1328),     *)
(* wanted or not, and accounted for once: by the three counters of what     *)
(* became of it, or as one that build_candidates left out on purpose, that  *)
(* the budget did not reach or that was too large.  These last three are    *)
(* what the engine's limitation (find_evil_auto.py:11313-11326) does not    *)
(* name; it takes nothing else from the reader, and counts nothing twice.   *)
DeletedAreAccountedFor ==
  LET d == disk
      leftOut == {e \in Entry(d) : Deleted(d, e) /\ LeftOut(d, e)}
      unreached == {e \in Entry(d) \ Selected(d) : Deleted(d, e) /\ Candidate(d, e)}
      large == {e \in Selected(d) : Deleted(d, e) /\ Fate(d, e) = "large"}
  IN Seen(d) = Recovered(d) + SkippedRealloc(d) + RecoveryFailed(d)
               + Cardinality(leftOut) + Cardinality(unreached) + Cardinality(large)

(* Every segment that is visible is handed on, in order, or the image is    *)
(* refused: "every fixed subprocess must receive the whole contiguous set   *)
(* in order" (ewf_segments.rs:3-6).  Segments past .E99, which carry        *)
(* letters, are not visible to it.                                          *)
WholeSetOrRefused ==
  LET f == disk.folder IN
    SegmentSet(f).ok =>
      /\ SegmentSet(f).numbers = [n \in 1..LastSegment(f) |-> n]
      /\ \A n \in DOMAIN f.files : f.files[n] # {} => n <= Len(SegmentSet(f).numbers)

=============================================================================
