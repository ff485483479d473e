------------------------------ MODULE AuditTail ------------------------------
(***************************************************************************)
(* The dashboard follows the audit log while the handlers append to it:    *)
(* tailAuditLog of apps/web/lib/audit-tail.ts, which the route             *)
(* app/api/audit sends to the browser, beside the log of module AuditLog.  *)
(*                                                                         *)
(* It reads the file once, then attaches a watcher, and reads what is new  *)
(* at each change the watcher tells of.  Between the awaits of one such    *)
(* read the next can start.                                                *)
(*                                                                         *)
(* A line of the file is two pieces, its beginning and its end with the    *)
(* newline: piece 2k - 1 and piece 2k of line k.  A write under way may be *)
(* visible to its first piece.  Sizes and positions count pieces.          *)
(***************************************************************************)
EXTENDS AuditLog, FiniteSetsExt

CONSTANTS
  Followed,  \* the uses of the log in which somebody looks at the dashboard
  Readers    \* bound: reads under way at a time

ASSUME FollowedAssumption == \A u \in Followed : u.exclusive

VARIABLES
  visible,    \* the size fs.stat reports
  stage,      \* off, draining, attaching, watching
  due,        \* the watcher has a change to tell
  reads,      \* per reader: its readNew, see NoRead
  position, lineBuffer,   \* of tailAuditLog
  sent,       \* lines sent to the browser, in order
  halved,     \* the line that the first read cut in two, or 0
  overlapped, \* two reads were under way at a time
  unseen      \* something was written while the watcher was not ready, and nothing since

tailVars == <<visible, stage, due, reads, position, lineBuffer, sent, halved, overlapped, unseen>>

NoRead == [at |-> "none", from |-> 0, size |-> 0]

Size == IF complete THEN 2 * Len(lines) ELSE 2 * Len(lines) - 1

Off ==
  /\ stage' = "off" /\ due' = FALSE /\ reads' = [r \in Readers |-> NoRead]
  /\ position' = 0 /\ lineBuffer' = << >> /\ sent' = << >>
  /\ halved' = 0 /\ overlapped' = FALSE /\ unseen' = FALSE

TailInit ==
  /\ visible = 0 /\ stage = "off" /\ due = FALSE /\ reads = [r \in Readers |-> NoRead]
  /\ position = 0 /\ lineBuffer = << >> /\ sent = << >>
  /\ halved = 0 /\ overlapped = FALSE /\ unseen = FALSE

-----------------------------------------------------------------------------
(* The log.  Nobody looking, what is written is visible at once.           *)

HandlerStep ==
  /\ visible = Size
  /\ \E w \in Writers : HandlerStepOf(w)
  /\ visible' = IF stage = "off" THEN Size' ELSE visible
  /\ UNCHANGED <<stage, due, reads, position, lineBuffer, sent, halved, overlapped, unseen>>

Appear ==
  /\ \E size \in (visible + 1)..Size :
       /\ visible' = size
       /\ due' = (due \/ (stage = "watching" /\ size = Size))
  /\ unseen' = (stage = "attaching" \/ (unseen /\ ~ due'))
  /\ UNCHANGED <<stage, reads, position, lineBuffer, sent, halved, overlapped>>
  /\ UNCHANGED vars

\* The dashboard is on the same machine.
MachineStops == PowerLoss /\ visible' = Size' /\ Off

-----------------------------------------------------------------------------
(* tailAuditLog.                                                           *)

\* Piece i of the text ends a line that is whole and parses.
EndsWholeLine(text, i) ==
  /\ text[i] % 2 = 0 /\ i > 1 /\ text[i - 1] = text[i] - 1
  /\ i = 2 \/ text[i - 2] % 2 = 0
  /\ lines[text[i] \div 2].ok

\* The members of S up to n, in order.
Ascending(n, S) ==
  LET f[k \in 0..n] == IF k = 0 THEN << >>
                       ELSE IF k \in S THEN Append(f[k - 1], k) ELSE f[k - 1]
  IN f[n]

\* splitLines and parseLine; what does not parse is passed over.
Parsed(text) ==
  LET ends == Ascending(Len(text), {i \in DOMAIN text : EndsWholeLine(text, i)})
  IN [n \in DOMAIN ends |-> text[ends[n]] \div 2]

\* Variant: what follows the last newline is thrown away.
NothingLeftOver(text) == << >>

\* What follows the last newline stays for the next read.
LeftOver(text) ==
  LET newlines == {i \in DOMAIN text : text[i] % 2 = 0}
  IN SubSeq(text, Max(newlines \cup {0}) + 1, Len(text))

Connect ==
  /\ stage = "off" /\ use \in Followed
  /\ stage' = "draining"
  /\ UNCHANGED <<visible, due, reads, position, lineBuffer, sent, halved, overlapped, unseen>>

\* The first read looks for no newline at the end.
Drain ==
  /\ stage = "draining"
  /\ position' = visible
  /\ sent' = Parsed([i \in 1..visible |-> i])
  /\ halved' = IF visible % 2 = 1 THEN (visible + 1) \div 2 ELSE 0
  /\ stage' = "attaching"
  /\ UNCHANGED <<visible, due, reads, lineBuffer, overlapped, unseen>>

Attached ==
  /\ stage = "attaching"
  /\ stage' = "watching"
  /\ UNCHANGED <<visible, due, reads, position, lineBuffer, sent, halved, overlapped, unseen>>

\* The watcher calls readNew, which does not look whether another one runs.
Changed(r) ==
  /\ due /\ reads[r] = NoRead
  /\ due' = FALSE
  /\ reads' = [reads EXCEPT ![r] = [NoRead EXCEPT !.at = "stat"]]
  /\ overlapped' = (overlapped \/ \E q \in Readers : reads[q] # NoRead)
  /\ UNCHANGED <<visible, stage, position, lineBuffer, sent, halved, unseen>>

Stat(r) ==
  /\ reads[r].at = "stat"
  /\ reads' = [reads EXCEPT ![r] = IF visible = position THEN NoRead
                                   ELSE [@ EXCEPT !.at = "open", !.size = visible]]
  /\ UNCHANGED <<visible, stage, due, position, lineBuffer, sent, halved, overlapped, unseen>>

Opened(r) ==
  /\ reads[r].at = "open"
  /\ reads' = [reads EXCEPT ![r] = IF @.size <= position THEN NoRead
                                   ELSE [@ EXCEPT !.at = "read", !.from = position]]
  /\ UNCHANGED <<visible, stage, due, position, lineBuffer, sent, halved, overlapped, unseen>>

Read(r) ==
  /\ reads[r].at = "read"
  /\ LET new  == reads[r]
         text == lineBuffer \o [i \in 1..(new.size - new.from) |-> new.from + i]
     IN /\ position' = new.size
        /\ sent' = sent \o Parsed(text)
        /\ lineBuffer' = LeftOver(text)
  /\ reads' = [reads EXCEPT ![r] = NoRead]
  /\ UNCHANGED <<visible, stage, due, halved, overlapped, unseen>>

\* The browser closes the connection.
Disconnect == stage # "off" /\ visible' = visible /\ Off

TailStep ==
  /\ \/ Connect \/ Drain \/ Attached \/ Disconnect
     \/ \E r \in Readers : Changed(r) \/ Stat(r) \/ Opened(r) \/ Read(r)
  /\ UNCHANGED vars

FollowedNext == HandlerStep \/ MachineStops \/ Appear \/ TailStep

FollowedInit == Init /\ TailInit

FollowedSpec == FollowedInit /\ [][FollowedNext]_<<vars, tailVars>>

-----------------------------------------------------------------------------
(* Property.                                                               *)

AtRest == /\ stage = "watching" /\ ~ due /\ visible = Size
          /\ \A r \in Readers : reads[r] = NoRead

(* "Yields every existing line first (so a late-connecting consumer doesn't *)
(* miss earlier events), then continues yielding appended lines"            *)
(* (audit-tail.ts:169-172): as long as no two reads overlapped, what was    *)
(* sent is each readable line up to the position, once, in order, but for   *)
(* one that the first read cut in two; and a follower at rest has read the  *)
(* whole file, unless the last write came before the watcher was ready.     *)
FollowsTheLog ==
  stage \in {"attaching", "watching"} /\ ~ overlapped =>
    /\ sent = Ascending(position \div 2, {k \in DOMAIN lines : lines[k].ok /\ k # halved})
    /\ AtRest /\ ~ unseen => position = Size

=============================================================================
