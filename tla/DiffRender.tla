----------------------------- MODULE DiffRender -----------------------------
(***************************************************************************)
(* How a diff becomes text: the renderers of the diff engine, which walk   *)
(* two files along the changes difftastic reports, the hunks of the        *)
(* context format, and the pairing of lines in the viewer of the           *)
(* dashboard.                                                              *)
(*                                                                         *)
(* Lines are their numbers, from 0 as in the code.  Each step is one       *)
(* iteration of a loop or one of the blocks in it.  The raw format is what *)
(* difftastic prints; the number of columns, headers and the text of a     *)
(* line are left out.                                                      *)
(***************************************************************************)
EXTENDS Integers, Sequences, FiniteSets

CONSTANTS
  MaxLines,    \* of a file
  MaxChanges,  \* in an answer of difftastic
  ContextLines \* of the configuration

ASSUME RenderAssumption ==
  MaxLines \in Nat /\ MaxChanges \in Nat /\ ContextLines \in Nat

VARIABLES
  format,  \* in which the diff is rendered
  prev, curr, \* the numbers of lines of the two files
  changes, \* what difftastic reports
  at,      \* the loop the code is in
  next,    \* the change it is at
  prevIdx, currIdx, \* the lines it is at
  rows,    \* what has been rendered
  pos,     \* the row the loop after that is at
  hunks,   \* the ranges of rows of the context format
  removedTo, addedTo, \* the ends of the two runs of rows the viewer is at
  view,    \* the rows in the order in which the viewer shows them
  result,
  same,    \* the places with the same line in both files, where they are compared
  fell     \* history: the line diff was taken instead of difftastic

input == <<prev, curr, changes, same>>
walk == <<next, prevIdx, currIdx, rows>>
runs == <<removedTo, addedTo>>
shown == <<pos, hunks, runs, view>>
vars == <<format, input, at, walk, shown, result, fell>>

None == -1

Formats == {"unified", "context", "full_file", "side_by_side"}

\* The formats that show more than the changes.
Walking == Formats \ {"unified"}

Least(a, b) == IF a < b THEN a ELSE b
Greatest(a, b) == IF a > b THEN a ELSE b

-----------------------------------------------------------------------------
(* What difftastic reports. *)

\* A change has a place in both files, which is not told, and the line that is told
\* of the side or sides it concerns.
Change == [prevAt : 0..MaxLines, currAt : 0..MaxLines, side : {"prev", "curr", "both"}]

PrevLine(c) == IF c.side = "curr" THEN None ELSE c.prevAt
CurrLine(c) == IF c.side = "prev" THEN None ELSE c.currAt

PrevEnd(c) == IF c.side = "curr" THEN c.prevAt ELSE c.prevAt + 1
CurrEnd(c) == IF c.side = "prev" THEN c.currAt ELSE c.currAt + 1

\* The places before and after the k-th change; past the last one the files end.
PrevFrom(k) == IF k > Len(changes) THEN prev ELSE changes[k].prevAt
CurrFrom(k) == IF k > Len(changes) THEN curr ELSE changes[k].currAt
PrevTo(k) == IF k = 0 THEN 0 ELSE PrevEnd(changes[k])
CurrTo(k) == IF k = 0 THEN 0 ELSE CurrEnd(changes[k])

\* What is not reported is the same line by line.  It need not be: difftastic does
\* not report what differs in layout only, say an empty line.
Exact == \A k \in 0..Len(changes) : PrevFrom(k + 1) - PrevTo(k) = CurrFrom(k + 1) - CurrTo(k)

-----------------------------------------------------------------------------
(* Rows. *)

Row == [sign : {"=", "-", "+", "-+"}, prev : -1..MaxLines, curr : -1..MaxLines]

Kept(p, c) == [sign |-> "=", prev |-> p, curr |-> c]
RemovedRow(p) == [sign |-> "-", prev |-> p, curr |-> None]
AddedRow(c) == [sign |-> "+", prev |-> None, curr |-> c]
ModifiedRow(p, c) == [sign |-> "-+", prev |-> p, curr |-> c]

Init ==
  /\ format \in Formats
  /\ prev \in 0..MaxLines /\ curr \in 0..MaxLines
  /\ changes = <<>>
  /\ at = "start"
  /\ next = 1 /\ prevIdx = 0 /\ currIdx = 0
  /\ rows = <<>>
  /\ pos = 1 /\ hunks = <<>> /\ view = <<>>
  /\ removedTo = 1 /\ addedTo = 1
  /\ result = "none"
  /\ same = {} /\ fell = FALSE

\* difftastic finds the next change, in order and with lines that exist.
Report(c) ==
  /\ at = "start"
  /\ Len(changes) < MaxChanges
  /\ PrevTo(Len(changes)) <= c.prevAt /\ PrevEnd(c) <= prev
  /\ CurrTo(Len(changes)) <= c.currAt /\ CurrEnd(c) <= curr
  /\ changes' = Append(changes, c)
  /\ UNCHANGED <<format, prev, curr, same, at, walk, shown, result, fell>>

Go(l) == at' = l /\ UNCHANGED <<input, fell>>

Return(r) == result' = r /\ Go("done") /\ UNCHANGED <<format, walk, shown>>

\* compute_diff_with_format: without difftastic, or with an answer that does not parse
\* and so tells no change, the lines are compared place by place and the diff is a unified one.  Texts of
\* the same lines may still differ in their end.
FallBack ==
  /\ at = "start"
  /\ changes = <<>>
  /\ same' \in SUBSET (0..Least(prev, curr) - 1)
  /\ format' = "unified"
  /\ fell' = TRUE
  /\ at' = "added"
  /\ UNCHANGED <<prev, curr, changes, walk, shown, result>>

\* First the lines of the new file that are not in their place in the old one,
LineAdded ==
  /\ at = "added"
  /\ IF currIdx < curr
     THEN /\ rows' = IF currIdx \in same THEN rows ELSE Append(rows, AddedRow(currIdx))
          /\ currIdx' = currIdx + 1
          /\ Go("added")
     ELSE Go("removed") /\ UNCHANGED <<rows, currIdx>>
  /\ UNCHANGED <<format, next, prevIdx, shown, result>>

\* and then those of the old file.
LineRemoved ==
  /\ at = "removed"
  /\ IF prevIdx < prev
     THEN /\ rows' = IF prevIdx \in same THEN rows ELSE Append(rows, RemovedRow(prevIdx))
          /\ prevIdx' = prevIdx + 1
          /\ Go("removed") /\ result' = result
     ELSE Go("view") /\ result' = "changed" /\ UNCHANGED <<rows, prevIdx>>
  /\ UNCHANGED <<format, next, currIdx, shown>>

\* The two texts are the same, difftastic says so, or it names no line.
SaysUnchanged ==
  /\ at = "start"
  /\ changes = <<>>
  /\ Return("unchanged")

\* It fails or says something unexpected.
Refuse ==
  /\ at = "start"
  /\ changes = <<>>
  /\ Return("error")

Begin ==
  /\ at = "start"
  /\ format \in Walking => changes # <<>>
  /\ Go("walk")
  /\ UNCHANGED <<format, walk, shown, result>>

-----------------------------------------------------------------------------
(* The walk. *)

PrevTarget == IF PrevLine(changes[next]) = None THEN prev ELSE PrevLine(changes[next])
CurrTarget == IF CurrLine(changes[next]) = None THEN curr ELSE CurrLine(changes[next])

\* A faulty variant of Before: the walk goes on to the target that is farther.
BeforeLast == next <= Len(changes) /\ (prevIdx < PrevTarget \/ currIdx < CurrTarget)

\* There are lines before the change the walk is at.
Before ==
  /\ next <= Len(changes)
  /\ prevIdx < PrevTarget /\ currIdx < CurrTarget

Advance == prevIdx' = prevIdx + 1 /\ currIdx' = currIdx + 1

\* A line that is kept, before a change or after the last one.
Keep ==
  /\ at = "walk" /\ format \in Walking
  /\ Before \/ (next > Len(changes) /\ prevIdx < prev /\ currIdx < curr)
  /\ rows' = IF prevIdx < prev /\ currIdx < curr
             THEN Append(rows, Kept(prevIdx, currIdx)) ELSE rows
  /\ Advance
  /\ Go("walk")
  /\ UNCHANGED <<format, next, shown, result>>

AtChange == next <= Len(changes) /\ (format \in Walking => ~Before)

\* Where the walk is after a line it has shown.
Past(idx, line) == Greatest(idx, line + 1)

\* A faulty variant of Removal: a line that is told with its new form is not shown.
RemovalAlone(c) == IF c.side = "prev" THEN PrevLine(c) ELSE None

\* The line a change removes.
Removal(c) == PrevLine(c)

\* The line a change takes from the old file, and then the one it adds to the new.
Remove ==
  /\ at = "walk" /\ format # "side_by_side" /\ AtChange
  /\ LET p == Removal(changes[next]) IN
       IF p # None /\ p < prev
       THEN /\ rows' = Append(rows, RemovedRow(p))
            /\ prevIdx' = IF format \in Walking THEN Past(prevIdx, p) ELSE prevIdx
       ELSE UNCHANGED <<rows, prevIdx>>
  /\ Go("add")
  /\ UNCHANGED <<format, next, currIdx, shown, result>>

Add ==
  /\ at = "add"
  /\ LET c == CurrLine(changes[next]) IN
       IF c # None /\ c < curr
       THEN /\ rows' = Append(rows, AddedRow(c))
            /\ currIdx' = IF format \in Walking THEN Past(currIdx, c) ELSE currIdx
       ELSE UNCHANGED <<rows, currIdx>>
  /\ next' = next + 1
  /\ Go("walk")
  /\ UNCHANGED <<format, prevIdx, shown, result>>

\* Side by side, a change is one row.
PairRow(p, c) ==
  IF p = None THEN AddedRow(c) ELSE IF c = None THEN RemovedRow(p) ELSE ModifiedRow(p, c)

SideBySide ==
  /\ at = "walk" /\ format = "side_by_side" /\ AtChange
  /\ LET p == PrevLine(changes[next])
         c == CurrLine(changes[next])
     IN  /\ rows' = IF p < prev /\ c < curr THEN Append(rows, PairRow(p, c)) ELSE rows
         /\ prevIdx' = IF p = None THEN prevIdx ELSE p + 1
         /\ currIdx' = IF c = None THEN currIdx ELSE c + 1
  /\ next' = next + 1
  /\ Go("walk")
  /\ UNCHANGED <<format, shown, result>>

WalkEnds ==
  /\ at = "walk"
  /\ next > Len(changes)
  /\ format \in Walking => ~(prevIdx < prev /\ currIdx < curr)
  /\ Go(CASE format = "context" -> "hunks" [] format = "side_by_side" -> "done" [] OTHER -> "view")
  /\ result' = "changed"
  /\ UNCHANGED <<format, walk, shown>>

-----------------------------------------------------------------------------
(* The hunks of the context format: rows from the first of a range up to the second. *)

\* A faulty variant of From: it goes under the first row.
FromUnder == pos - ContextLines

\* The range of the row the loop is at.
From == Greatest(1, pos - ContextLines)
To == Least(pos + ContextLines, Len(rows)) + 1

\* A faulty variant of Joins: the range before is not joined if it only touches.
JoinsOverlap(h) == From < h[2]

\* The range of a change is joined to the one before.
Joins(h) == From <= h[2]

Joined(h) == <<h[1], Greatest(h[2], To)>>

Widen ==
  /\ at = "hunks" /\ pos <= Len(rows)
  /\ hunks' = CASE rows[pos].sign = "=" -> hunks
                [] rows[pos].sign # "=" /\ hunks # <<>> /\ Joins(hunks[Len(hunks)]) ->
                     [hunks EXCEPT ![Len(hunks)] = Joined(@)]
                [] OTHER -> Append(hunks, <<From, To>>)
  /\ pos' = pos + 1
  /\ Go("hunks")
  /\ UNCHANGED <<format, walk, runs, view, result>>

HunksEnd ==
  /\ at = "hunks" /\ pos > Len(rows)
  /\ IF hunks = <<>>
     THEN result' = "unchanged" /\ Go("done")
     ELSE result' = result /\ Go("view")
  /\ pos' = 1
  /\ UNCHANGED <<format, walk, hunks, runs, view>>

\* The rows that are in the text.
Visible(i) ==
  format = "context" => \E h \in 1..Len(hunks) : hunks[h][1] <= i /\ i < hunks[h][2]

-----------------------------------------------------------------------------
(* The viewer: a run of removed lines and the run of added lines after it are shown  *)
(* in pairs.  Two hunks are told apart by a header, and have a kept line between.    *)

\* A faulty variant of Paired: the rest of the longer run is left out.
PairedOnly(i, a, b) ==
  [k \in 1..2 * Least(a - i, b - a) |-> IF k % 2 = 1 THEN i + k \div 2 ELSE a + k \div 2 - 1]

\* The rows from i up to a, removed, and those up to b, added, in pairs, then the rest.
Paired(i, a, b) ==
  LET m == Least(a - i, b - a) IN
  [k \in 1..b - i |->
     IF k > 2 * m THEN (IF m = b - a THEN i ELSE a) + (k - m - 1)
     ELSE IF k % 2 = 1 THEN i + k \div 2 ELSE a + k \div 2 - 1]

\* The row at j carries on a run.
InRun(j, sign) == j <= Len(rows) /\ rows[j].sign = sign

Show ==
  /\ at = "view" /\ pos <= Len(rows)
  /\ ~(Visible(pos) /\ InRun(pos, "-"))
  /\ view' = IF Visible(pos) THEN Append(view, pos) ELSE view
  /\ pos' = pos + 1
  /\ Go("view")
  /\ UNCHANGED <<format, walk, hunks, runs, result>>

CollectRemoved ==
  /\ \/ at = "view" /\ pos <= Len(rows) /\ Visible(pos) /\ InRun(pos, "-") /\ removedTo' = pos + 1
     \/ at = "collect" /\ InRun(removedTo, "-") /\ removedTo' = removedTo + 1
  /\ addedTo' = removedTo'
  /\ Go("collect")
  /\ UNCHANGED <<format, walk, pos, hunks, view, result>>

CollectAdded ==
  /\ at = "collect" /\ ~InRun(removedTo, "-") /\ InRun(addedTo, "+")
  /\ addedTo' = addedTo + 1
  /\ Go("collect")
  /\ UNCHANGED <<format, walk, pos, hunks, removedTo, view, result>>

ShowRuns ==
  /\ at = "collect" /\ ~InRun(removedTo, "-") /\ ~InRun(addedTo, "+")
  /\ view' = view \o Paired(pos, removedTo, addedTo)
  /\ pos' = addedTo
  /\ Go("view")
  /\ UNCHANGED <<format, walk, hunks, runs, result>>

ShowEnds ==
  /\ at = "view" /\ pos > Len(rows)
  /\ Go("done")
  /\ UNCHANGED <<format, walk, shown, result>>

Next ==
  \/ \E c \in Change : Report(c)
  \/ FallBack \/ LineAdded \/ LineRemoved \/ SaysUnchanged \/ Refuse \/ Begin
  \/ Keep \/ Remove \/ Add \/ SideBySide \/ WalkEnds
  \/ Widen \/ HunksEnd
  \/ Show \/ CollectRemoved \/ CollectAdded \/ ShowRuns \/ ShowEnds

Spec == Init /\ [][Next]_vars

-----------------------------------------------------------------------------

Types ==
  /\ format \in Formats
  /\ prev \in 0..MaxLines /\ curr \in 0..MaxLines
  /\ changes \in Seq(Change) /\ Len(changes) <= MaxChanges
  /\ at \in {"start", "added", "removed", "walk", "add", "hunks", "view", "collect", "done"}
  /\ next \in 1..Len(changes) + 1
  /\ prevIdx \in 0..MaxLines /\ currIdx \in 0..MaxLines
  /\ rows \in Seq(Row)
  /\ pos \in 1..Len(rows) + 1
  /\ removedTo \in 1..Len(rows) + 1 /\ addedTo \in 1..Len(rows) + 1
  /\ same \subseteq 0..MaxLines
  /\ hunks \in Seq((1..Len(rows)) \X (1..Len(rows) + 1))
  /\ view \in Seq(1..Len(rows))
  /\ result \in {"none", "unchanged", "changed", "error"}
  /\ fell \in BOOLEAN

\* Neither the walk nor a row is past the end of its own file.
InFile ==
  /\ prevIdx <= prev /\ currIdx <= curr
  /\ \A i \in 1..Len(rows) : rows[i].prev < prev /\ rows[i].curr < curr

\* Every variable has its type, and every line shown is one of its file.
TypeOK == Types /\ InFile

HasPrev(r) == r.sign # "+"
HasCurr(r) == r.sign # "-"

Walked == at \in {"hunks", "view", "collect", "done"} /\ result = "changed" /\ ~fell

\* Both files are read in full: if what is not reported is the same line by line, the
\* walk has rendered every line of each file, once and in order, and none that is
\* reported as a line that is kept.
ReadsBoth ==
  Walked /\ format \in Walking /\ Exact =>
    /\ \A l \in 0..prev - 1 : \E i \in 1..Len(rows) : HasPrev(rows[i]) /\ rows[i].prev = l
    /\ \A l \in 0..curr - 1 : \E i \in 1..Len(rows) : HasCurr(rows[i]) /\ rows[i].curr = l
    /\ \A i, j \in 1..Len(rows) : i < j =>
         /\ HasPrev(rows[i]) /\ HasPrev(rows[j]) => rows[i].prev < rows[j].prev
         /\ HasCurr(rows[i]) /\ HasCurr(rows[j]) => rows[i].curr < rows[j].curr
    /\ \A i \in 1..Len(rows), k \in 1..Len(changes) : rows[i].sign = "=" =>
         rows[i].prev # PrevLine(changes[k]) /\ rows[i].curr # CurrLine(changes[k])

\* Whatever else is hidden, no change is: every line difftastic reports is in the
\* text, as a line that is removed or added.
ChangesShown ==
  Walked /\ at = "done" =>
    \A k \in 1..Len(changes) :
      /\ PrevLine(changes[k]) # None =>
           \E i \in 1..Len(rows) : /\ Visible(i) /\ rows[i].sign \in {"-", "-+"}
                                   /\ rows[i].prev = PrevLine(changes[k])
      /\ CurrLine(changes[k]) # None =>
           \E i \in 1..Len(rows) : /\ Visible(i) /\ rows[i].sign \in {"+", "-+"}
                                   /\ rows[i].curr = CurrLine(changes[k])

\* The hunks are the rows near a change and no others, in ranges with a row between.
HunksRight ==
  Walked /\ at # "hunks" /\ format = "context" =>
    /\ \A i \in 1..Len(rows) :
         Visible(i) <=> \E j \in 1..Len(rows) : /\ rows[j].sign # "="
                                                /\ i - ContextLines <= j /\ j <= i + ContextLines
    /\ \A h \in 1..Len(hunks) - 1 : hunks[h][2] < hunks[h + 1][1]

\* The viewer shows each line of the text once, and the lines of each file in the
\* order they have in the text.
ViewKeeps ==
  at = "done" /\ result = "changed" /\ format # "side_by_side" =>
    /\ \A i \in 1..Len(rows) : Visible(i) <=> \E x \in 1..Len(view) : view[x] = i
    /\ \A x, y \in 1..Len(view) :
         /\ x < y
         /\ \/ HasPrev(rows[view[x]]) /\ HasPrev(rows[view[y]])
            \/ HasCurr(rows[view[x]]) /\ HasCurr(rows[view[y]])
         => view[x] < view[y]
=============================================================================
