-------------------------- MODULE DiffRender_proofs --------------------------
(***************************************************************************)
(* Proofs about DiffRender, for files of any length, any number of changes *)
(* and any number of lines of context.                                     *)
(***************************************************************************)
EXTENDS DiffRender, SequenceTheorems, TLAPS

-----------------------------------------------------------------------------
(* Numbers and sequences. *)

LEMMA Half ==
  ASSUME NEW k \in Nat, NEW m \in Nat
  PROVE  /\ k \div 2 \in Nat
         /\ k % 2 = 1 => k = 2 * (k \div 2) + 1
         /\ k % 2 # 1 => k = 2 * (k \div 2)
         /\ (2 * m) \div 2 = m /\ (2 * m) % 2 = 0
         /\ (2 * m + 1) \div 2 = m /\ (2 * m + 1) % 2 = 1
  BY SMT

LEMMA Bounds ==
  ASSUME NEW a \in Int, NEW b \in Int
  PROVE  /\ Least(a, b) \in {a, b} /\ Least(a, b) <= a /\ Least(a, b) <= b
         /\ Greatest(a, b) \in {a, b} /\ Greatest(a, b) >= a /\ Greatest(a, b) >= b
  BY DEF Least, Greatest

\* Two runs in pairs are a rearrangement of them that keeps the order in each.
LEMMA PairedRuns ==
  ASSUME NEW i \in Nat, NEW a \in Nat, NEW b \in Nat, i <= a, a <= b,
         NEW s, s = Paired(i, a, b)
  PROVE  /\ s \in Seq(i..b - 1) /\ Len(s) = b - i
         /\ \A k \in 1..b - i : s[k] \in i..b - 1
         /\ \A v \in i..b - 1 : \E k \in 1..b - i : s[k] = v
         /\ \A k, l \in 1..b - i : k < l /\ (s[k] < a <=> s[l] < a) => s[k] < s[l]
<1> DEFINE m == Least(a - i, b - a)
<1>1. m \in Nat /\ m <= a - i /\ m <= b - a /\ (m = b - a \/ m = a - i) /\ b - i \in Nat
  BY Bounds
<1>2. ASSUME NEW k \in 1..b - i
      PROVE  /\ s[k] = IF k > 2 * m THEN (IF m = b - a THEN i ELSE a) + (k - m - 1)
                       ELSE IF k % 2 = 1 THEN i + k \div 2 ELSE a + k \div 2 - 1
  BY DEF Paired
<1>3. s = [k \in 1..b - i |-> s[k]]
  BY DEF Paired
<1> HIDE DEF m
<1>4. ASSUME NEW k \in 1..b - i PROVE s[k] \in i..b - 1
  BY <1>1, <1>2, <1>4, Half
<1>5. ASSUME NEW v \in i..b - 1 PROVE \E k \in 1..b - i : s[k] = v
  <2>1. CASE v < a /\ v - i < m
    <3>1. 2 * (v - i) + 1 \in 1..b - i /\ v - i \in Nat
      BY <1>1, <2>1
    <3>2. s[2 * (v - i) + 1] = v
      BY <1>1, <1>2, <2>1, <3>1, Half
    <3> QED
      BY <3>1, <3>2
  <2>2. CASE v >= a /\ v - a < m
    <3>1. 2 * (v - a + 1) \in 1..b - i /\ v - a + 1 \in Nat
      BY <1>1, <2>2
    <3>2. s[2 * (v - a + 1)] = v
      BY <1>1, <1>2, <2>2, <3>1, Half
    <3> QED
      BY <3>1, <3>2
  <2>3. CASE v < a /\ v - i >= m
    <3>1. m = b - a /\ (v - i) + m + 1 \in 1..b - i /\ (v - i) + m + 1 > 2 * m
      BY <1>1, <2>3
    <3>2. s[(v - i) + m + 1] = v
      BY <1>1, <1>2, <2>3, <3>1
    <3> QED
      BY <3>1, <3>2
  <2>4. CASE v >= a /\ v - a >= m
    <3>1. m # b - a /\ (v - a) + m + 1 \in 1..b - i /\ (v - a) + m + 1 > 2 * m
      BY <1>1, <2>4
    <3>2. s[(v - a) + m + 1] = v
      BY <1>1, <1>2, <2>4, <3>1
    <3> QED
      BY <3>1, <3>2
  <2> QED
    BY <1>1, <2>1, <2>2, <2>3, <2>4
<1>6. ASSUME NEW k \in 1..b - i, NEW l \in 1..b - i, k < l, s[k] < a <=> s[l] < a
      PROVE  s[k] < s[l]
  BY <1>1, <1>2, <1>6, Half
<1>7. s \in Seq(i..b - 1) /\ Len(s) = b - i
  <2>1. s \in [1..b - i -> i..b - 1]
    BY <1>3, <1>4
  <2> QED
    BY <1>1, <2>1
<1> QED
  BY <1>4, <1>5, <1>6, <1>7

LEMMA Appended ==
  ASSUME NEW S, NEW s \in Seq(S), NEW e \in S, NEW t, t = Append(s, e)
  PROVE  /\ t \in Seq(S) /\ Len(t) = Len(s) + 1 /\ Len(s) \in Nat
         /\ t[Len(s) + 1] = e
         /\ \A i \in 1..Len(s) : t[i] = s[i]
  BY AppendProperties, LenProperties

LEMMA RowTypes ==
  ASSUME NEW p \in 0..MaxLines, NEW c \in 0..MaxLines
  PROVE  /\ Kept(p, c) \in Row /\ RemovedRow(p) \in Row /\ AddedRow(c) \in Row
         /\ ModifiedRow(p, c) \in Row
  BY RenderAssumption DEF Kept, RemovedRow, AddedRow, ModifiedRow, Row, None

-----------------------------------------------------------------------------
(* Types. *)

Building == {"start", "added", "removed", "walk", "add"}

\* What is not there yet in a phase, and what the phases hand on.
Shape ==
  /\ at \in Building => hunks = <<>> /\ view = <<>> /\ pos = 1 /\ result = "none"
  /\ at = "start" => next = 1 /\ rows = <<>> /\ prevIdx = 0 /\ currIdx = 0 /\ ~fell
  /\ at = "add" => next <= Len(changes) /\ format # "side_by_side"
  /\ at = "hunks" => view = <<>> /\ format = "context" /\ result = "changed"
  /\ at \in {"walk", "add", "hunks"} => ~fell
  /\ at \in {"added", "removed"} => fell
  /\ fell => format = "unified" /\ at # "start"
  /\ at \in {"view", "collect"} => result = "changed"
  /\ \A k \in 1..Len(changes) :
       /\ changes[k] \in Change
       /\ PrevEnd(changes[k]) <= prev /\ CurrEnd(changes[k]) <= curr
  /\ at = "collect" => pos < removedTo /\ removedTo <= addedTo

TypeInv == Types /\ Shape

LEMMA TypeInit == Init => TypeInv
<1> SUFFICES ASSUME Init PROVE TypeInv
  OBVIOUS
<1>1. \A S : <<>> \in Seq(S) /\ Len(<<>>) = 0
  BY EmptySeq
<1>2. Types
  <2>1. rows \in Seq(Row) /\ Len(rows) = 0 /\ changes \in Seq(Change) /\ Len(changes) = 0
    BY <1>1 DEF Init
  <2>2. hunks \in Seq((1..Len(rows)) \X (1..Len(rows) + 1)) /\ view \in Seq(1..Len(rows))
    BY <1>1 DEF Init
  <2>3. /\ next \in 1..Len(changes) + 1 /\ pos \in 1..Len(rows) + 1
        /\ removedTo \in 1..Len(rows) + 1 /\ addedTo \in 1..Len(rows) + 1
    BY <2>1 DEF Init
  <2>4. prevIdx \in 0..MaxLines /\ currIdx \in 0..MaxLines /\ Len(changes) <= MaxChanges
    BY <2>1, RenderAssumption DEF Init
  <2> QED
    BY <2>1, <2>2, <2>3, <2>4 DEF Init, Types
<1>3. Shape
  BY DEF Init, Shape, Building
<1> QED
  BY <1>2, <1>3 DEF TypeInv

\* What a reported line is.
LEMMA Reported ==
  ASSUME TypeInv, NEW k \in 1..Len(changes)
  PROVE  /\ changes[k] \in Change /\ changes[k].side \in {"prev", "curr", "both"}
         /\ changes[k].prevAt \in 0..prev /\ changes[k].currAt \in 0..curr
         /\ PrevLine(changes[k]) = None \/ PrevLine(changes[k]) \in 0..prev - 1
         /\ CurrLine(changes[k]) = None \/ CurrLine(changes[k]) \in 0..curr - 1
         /\ prev \in Nat /\ curr \in Nat /\ prev <= MaxLines /\ curr <= MaxLines
<1>1. prev \in Nat /\ curr \in Nat /\ prev <= MaxLines /\ curr <= MaxLines
  BY RenderAssumption DEF TypeInv, Types
<1>2. changes[k] \in Change /\ PrevEnd(changes[k]) <= prev /\ CurrEnd(changes[k]) <= curr
  BY DEF TypeInv, Shape
<1>3. /\ changes[k].side \in {"prev", "curr", "both"}
      /\ changes[k].prevAt \in 0..MaxLines /\ changes[k].currAt \in 0..MaxLines
  BY <1>2 DEF Change
<1> QED
  BY <1>1, <1>2, <1>3, RenderAssumption, SMTT(40) DEF PrevEnd, CurrEnd, PrevLine, CurrLine, None

LEMMA TypeStep == TypeInv /\ [Next]_vars => TypeInv'
<1> SUFFICES ASSUME TypeInv, [Next]_vars PROVE TypeInv'
  OBVIOUS
<1> USE RenderAssumption
<1>1. ASSUME NEW c \in Change, Report(c) PROVE TypeInv'
  <2>1. changes' = Append(changes, c) /\ changes \in Seq(Change)
    BY <1>1 DEF Report, TypeInv, Types
  <2>2. /\ changes' \in Seq(Change) /\ Len(changes') = Len(changes) + 1 /\ Len(changes) \in Nat
        /\ changes'[Len(changes) + 1] = c
        /\ \A i \in 1..Len(changes) : changes'[i] = changes[i]
    BY <2>1, Appended
  <2>3. Types'
    BY <1>1, <2>2, SMTT(40) DEF Report, TypeInv, Types, walk, shown, runs
  <2>4. \A k \in 1..Len(changes') :
          /\ changes'[k] \in Change /\ PrevEnd(changes'[k]) <= prev /\ CurrEnd(changes'[k]) <= curr
    BY <1>1, <2>2 DEF Report, TypeInv, Shape
  <2>5. Shape'
    BY <1>1, <2>4 DEF Report, TypeInv, Shape, walk, shown, runs, Building, PrevEnd, CurrEnd
  <2> QED
    BY <2>3, <2>5 DEF TypeInv
<1>2. CASE FallBack
  <2>1. Types'
    BY <1>2 DEF FallBack, TypeInv, Types, Shape, walk, shown, runs, Formats, Least
  <2>2. Shape'
    BY <1>2 DEF FallBack, TypeInv, Types, Shape, walk, shown, runs, Building, PrevEnd, CurrEnd
  <2> QED
    BY <2>1, <2>2 DEF TypeInv
<1> DEFINE Same == UNCHANGED <<prev, curr, changes>>
           Ranges == \A k \in 1..Len(changes') :
                       /\ changes'[k] \in Change
                       /\ PrevEnd(changes'[k]) <= prev' /\ CurrEnd(changes'[k]) <= curr'
<1>3. ASSUME Same PROVE Ranges
  BY <1>3 DEF TypeInv, Shape
<1>4. ASSUME NEW r \in Row, rows' = Append(rows, r)
      PROVE  rows' \in Seq(Row) /\ Len(rows') = Len(rows) + 1 /\ Len(rows) \in Nat
  BY <1>4, Appended DEF TypeInv, Types
<1> DEFINE RowsOK == rows' \in Seq(Row) /\ Len(rows') >= Len(rows) /\ Len(rows) \in Nat
<1>5. rows \in Seq(Row) /\ Len(rows) \in Nat
  BY DEF TypeInv, Types
<1> DEFINE Wide == /\ pos' \in 1..Len(rows') + 1
                    /\ removedTo' \in 1..Len(rows') + 1 /\ addedTo' \in 1..Len(rows') + 1
                    /\ hunks' \in Seq((1..Len(rows')) \X (1..Len(rows') + 1))
                    /\ view' \in Seq(1..Len(rows'))
           Scalars == /\ prev \in 0..MaxLines /\ curr \in 0..MaxLines
                      /\ prevIdx \in 0..MaxLines /\ currIdx \in 0..MaxLines
                      /\ next \in 1..Len(changes) + 1 /\ Len(changes) \in Nat
                      /\ pos \in 1..Len(rows) + 1
                      /\ removedTo \in 1..Len(rows) + 1 /\ addedTo \in 1..Len(rows) + 1
<1>17. ASSUME RowsOK, at \in Building, UNCHANGED shown PROVE Wide
  <2>1. hunks' = <<>> /\ view' = <<>>
    BY <1>17 DEF shown, runs, TypeInv, Shape
  <2>2. \A S : <<>> \in Seq(S)
    OBVIOUS
  <2>3. /\ pos' \in 1..Len(rows') + 1
        /\ removedTo' \in 1..Len(rows') + 1 /\ addedTo' \in 1..Len(rows') + 1
    BY <1>17 DEF shown, runs, TypeInv, Types
  <2> QED
    BY <2>1, <2>2, <2>3
<1>18. Scalars
  BY DEF TypeInv, Types
<1>6. CASE LineAdded
  <2>1. Same /\ Ranges
    BY <1>3, <1>6 DEF LineAdded, Go, input
  <2>2. RowsOK
    <3>1. currIdx < curr => AddedRow(currIdx) \in Row
      BY RowTypes DEF TypeInv, Types
    <3> QED
      BY <1>4, <1>5, <1>6, <3>1 DEF LineAdded
  <2>3. currIdx' \in 0..MaxLines
    BY <1>6, SMTT(40) DEF LineAdded, TypeInv, Types
  <2>4. Types'
    <3>1. Wide
      BY <1>6, <1>17, <2>2 DEF LineAdded, Building
    <3> QED
      BY <1>6, <2>2, <2>3, <3>1 DEF LineAdded, TypeInv, Types, Go, input
  <2>5. Shape'
    BY <1>6, <2>1 DEF LineAdded, TypeInv, Shape, Go, input, shown, runs, Building
  <2> QED
    BY <2>4, <2>5 DEF TypeInv
<1>7. CASE LineRemoved
  <2>1. Same /\ Ranges
    BY <1>3, <1>7 DEF LineRemoved, Go, input
  <2>2. RowsOK
    <3>1. prevIdx < prev => RemovedRow(prevIdx) \in Row
      BY RowTypes DEF TypeInv, Types
    <3> QED
      BY <1>4, <1>5, <1>7, <3>1 DEF LineRemoved
  <2>3. prevIdx' \in 0..MaxLines
    BY <1>7 DEF LineRemoved, TypeInv, Types
  <2>4. Types'
    <3>1. Wide
      BY <1>7, <1>17, <2>2 DEF LineRemoved, Building
    <3> QED
      BY <1>7, <2>2, <2>3, <3>1 DEF LineRemoved, TypeInv, Types, Go, input
  <2>5. Shape'
    BY <1>7, <2>1 DEF LineRemoved, TypeInv, Shape, Go, input, shown, runs, Building
  <2> QED
    BY <2>4, <2>5 DEF TypeInv
<1>8. CASE SaysUnchanged \/ Refuse \/ Begin \/ WalkEnds
  <2>1. Same /\ Ranges
    BY <1>3, <1>8 DEF SaysUnchanged, Refuse, Begin, WalkEnds, Return, Go, input
  <2>2. Types'
    BY <1>8 DEF SaysUnchanged, Refuse, Begin, WalkEnds, Return, Go, input, walk, shown, runs,
                TypeInv, Types
  <2>3. Shape'
    <3>1. CASE WalkEnds
      <4>1. /\ at' \in {"hunks", "done", "view"}
            /\ at' = "hunks" => format = "context"
            /\ result' = "changed"
        BY <3>1 DEF WalkEnds, Go
      <4>2. UNCHANGED <<format, next, rows, prevIdx, currIdx, hunks, view, fell>> /\ ~fell
        BY <3>1 DEF WalkEnds, Go, walk, shown, TypeInv, Shape
      <4>3. view = <<>>
        BY <3>1 DEF WalkEnds, TypeInv, Shape, Building
      <4> QED
        BY <2>1, <4>1, <4>2, <4>3 DEF Shape, Building
    <3>2. CASE SaysUnchanged \/ Refuse \/ Begin
      BY <2>1, <3>2 DEF SaysUnchanged, Refuse, Begin, Return, Go, walk, shown, TypeInv, Shape, Building
    <3> QED
      BY <1>8, <3>1, <3>2
  <2> QED
    BY <2>2, <2>3 DEF TypeInv
<1>9. CASE Keep
  <2>1. Same /\ Ranges
    BY <1>3, <1>9 DEF Keep, Go, input
  <2>2. /\ next \in 1..Len(changes) => /\ PrevTarget \in 0..prev /\ CurrTarget \in 0..curr
        /\ prevIdx < prev /\ currIdx < curr
    <3>1. next \in Nat /\ prevIdx \in Int /\ currIdx \in Int /\ prev \in Int /\ curr \in Int /\ next \in 1..Len(changes) + 1
      BY DEF TypeInv, Types
    <3>2. next \in 1..Len(changes) => /\ PrevTarget \in 0..prev /\ CurrTarget \in 0..curr
      BY Reported DEF PrevTarget, CurrTarget
    <3> QED
      BY <1>9, <3>1, <3>2 DEF Keep, Before
  <2>3. RowsOK /\ prevIdx' \in 0..MaxLines /\ currIdx' \in 0..MaxLines
    <3>1. Kept(prevIdx, currIdx) \in Row
      BY RowTypes DEF TypeInv, Types
    <3> QED
      BY <1>4, <1>5, <1>9, <2>2, <3>1 DEF Keep, Advance, TypeInv, Types
  <2>4. Types'
    <3>1. Wide
      BY <1>9, <1>17, <2>3 DEF Keep, Building
    <3> QED
      BY <1>9, <2>3, <3>1 DEF Keep, TypeInv, Types, Go, input
  <2>5. Shape'
    BY <1>9, <2>1 DEF Keep, TypeInv, Shape, Go, input, shown, runs, Building
  <2> QED
    BY <2>4, <2>5 DEF TypeInv
<1>10. CASE Remove
  <2>1. Same /\ Ranges
    BY <1>3, <1>10 DEF Remove, Go, input
  <2> DEFINE p == PrevLine(changes[next])
  <2>2. next \in 1..Len(changes)
    BY <1>10 DEF Remove, AtChange, TypeInv, Types
  <2>3. p = None \/ p \in 0..prev - 1
    BY <2>2, Reported
  <2>4. RowsOK /\ prevIdx' \in 0..MaxLines
    <3>1. p \in 0..prev - 1 => RemovedRow(p) \in Row /\ Past(prevIdx, p) \in 0..MaxLines
      BY RowTypes, SMTT(40) DEF TypeInv, Types, Past, Greatest
    <3> QED
      BY <1>4, <1>5, <1>10, <1>18, <2>3, <3>1, SMTT(40) DEF Remove, Removal
  <2>5. Types'
    <3>1. Wide
      BY <1>10, <1>17, <2>4 DEF Remove, Building
    <3> QED
      BY <1>10, <2>4, <3>1 DEF Remove, TypeInv, Types, Go, input
  <2>6. Shape'
    BY <1>10, <2>1, <2>2 DEF Remove, TypeInv, Shape, Go, input, shown, runs, Building
  <2> QED
    BY <2>5, <2>6 DEF TypeInv
<1>11. CASE Add
  <2>1. Same /\ Ranges
    BY <1>3, <1>11 DEF Add, Go, input
  <2> DEFINE c == CurrLine(changes[next])
  <2>2. next \in 1..Len(changes)
    BY <1>11 DEF Add, TypeInv, Types, Shape
  <2>3. c = None \/ c \in 0..curr - 1
    BY <2>2, Reported
  <2>4. RowsOK /\ currIdx' \in 0..MaxLines
    <3>1. c \in 0..curr - 1 => AddedRow(c) \in Row /\ Past(currIdx, c) \in 0..MaxLines
      BY RowTypes, SMTT(40) DEF TypeInv, Types, Past, Greatest
    <3> QED
      BY <1>4, <1>5, <1>11, <1>18, <2>3, <3>1, SMTT(40) DEF Add
  <2>5. Types'
    <3>1. Wide
      BY <1>11, <1>17, <2>4 DEF Add, Building
    <3> QED
      <4>1. next' \in 1..Len(changes) + 1 /\ at' = "walk"
        BY <1>11, <1>18, <2>2 DEF Add, Go
      <4>2. UNCHANGED <<format, prev, curr, changes, same, result, fell, prevIdx>>
        BY <1>11 DEF Add, Go, input
      <4> QED
        BY <2>4, <3>1, <4>1, <4>2 DEF TypeInv, Types
  <2>6. Shape'
    BY <1>11, <2>1 DEF Add, TypeInv, Shape, Go, input, shown, runs, Building
  <2> QED
    BY <2>5, <2>6 DEF TypeInv
<1>12. CASE SideBySide
  <2>1. Same /\ Ranges
    BY <1>3, <1>12 DEF SideBySide, Go, input
  <2> DEFINE p == PrevLine(changes[next])
             c == CurrLine(changes[next])
  <2>2. next \in 1..Len(changes)
    BY <1>12 DEF SideBySide, AtChange, TypeInv, Types
  <2>3. (p = None \/ p \in 0..prev - 1) /\ (c = None \/ c \in 0..curr - 1) /\ ~(p = None /\ c = None)
    BY <2>2, Reported DEF PrevLine, CurrLine, None
  <2>4. RowsOK /\ prevIdx' \in 0..MaxLines /\ currIdx' \in 0..MaxLines
    <3>1. PairRow(p, c) \in Row
      BY <1>18, <2>3, RowTypes, SMTT(40) DEF PairRow, None
    <3> QED
      <4>1. rows' = rows \/ rows' = Append(rows, PairRow(p, c))
        BY <1>12 DEF SideBySide
      <4>2. /\ prevIdx' = IF p = None THEN prevIdx ELSE p + 1
            /\ currIdx' = IF c = None THEN currIdx ELSE c + 1
        BY <1>12 DEF SideBySide
      <4> HIDE DEF p, c
      <4>3. prevIdx' \in 0..MaxLines /\ currIdx' \in 0..MaxLines
        BY <1>18, <2>3, <4>2, SMTT(40) DEF None
      <4> QED
        BY <1>4, <1>5, <3>1, <4>1, <4>3
  <2>5. Types'
    <3>1. Wide
      BY <1>12, <1>17, <2>4 DEF SideBySide, Building
    <3> QED
      BY <1>12, <2>2, <2>4, <3>1, SMTT(40) DEF SideBySide, TypeInv, Types, Go, input
  <2>6. Shape'
    BY <1>12, <2>1 DEF SideBySide, TypeInv, Shape, Go, input, shown, runs, Building
  <2> QED
    BY <2>5, <2>6 DEF TypeInv
<1>13. CASE Widen
  <2>1. Same /\ Ranges
    BY <1>3, <1>13 DEF Widen, Go, input
  <2> DEFINE S == (1..Len(rows)) \X (1..Len(rows) + 1)
  <2>2. pos \in 1..Len(rows) /\ From \in 1..Len(rows) /\ To \in 1..Len(rows) + 1
    <3>1. pos \in Nat /\ pos >= 1 /\ pos <= Len(rows)
      BY <1>5, <1>13, <1>18, SMTT(40) DEF Widen
    <3>2. From >= 1 /\ From <= pos /\ From \in Int
      BY <3>1 DEF From, Greatest
    <3>3. To <= Len(rows) + 1 /\ To > pos /\ To \in Int
      BY <1>5, <3>1 DEF To, Least
    <3> QED
      BY <1>5, <3>1, <3>2, <3>3
  <2>3. hunks \in Seq(S) /\ Len(hunks) \in Nat
    BY DEF TypeInv, Types
  <2>4. hunks' \in Seq(S)
    <3>1. Append(hunks, <<From, To>>) \in Seq(S)
      BY <2>2, <2>3
    <3>2. ASSUME hunks # <<>> PROVE [hunks EXCEPT ![Len(hunks)] = Joined(@)] \in Seq(S)
      <4>1. Len(hunks) \in 1..Len(hunks)
        BY <2>3, <3>2
      <4>2. hunks[Len(hunks)] \in S
        BY <2>3, <4>1
      <4>3. Joined(hunks[Len(hunks)]) \in S
        BY <1>5, <2>2, <4>2 DEF Joined, Greatest
      <4> QED
        BY <2>3, <4>1, <4>3, ExceptSeq
    <3> QED
      BY <1>13, <2>3, <3>1, <3>2 DEF Widen
  <2>5. Types'
    <3>1. Wide
      <4>1. rows' = rows /\ view' = view /\ removedTo' = removedTo /\ addedTo' = addedTo
            /\ pos' = pos + 1
        BY <1>13 DEF Widen, walk, runs
      <4>2. view \in Seq(1..Len(rows))
        BY DEF TypeInv, Types
      <4>3. pos' \in 1..Len(rows) + 1
        BY <1>5, <2>2, <4>1
      <4> QED
        BY <1>18, <2>4, <4>1, <4>2, <4>3
    <3> QED
      BY <1>13, <3>1 DEF Widen, TypeInv, Types, Go, input, walk
  <2>6. Shape'
    BY <1>13, <2>1 DEF Widen, TypeInv, Shape, Go, input, walk, runs, Building
  <2> QED
    BY <2>5, <2>6 DEF TypeInv
<1>14. CASE HunksEnd \/ ShowEnds
  <2>1. Same /\ Ranges
    BY <1>3, <1>14 DEF HunksEnd, ShowEnds, Go, input
  <2>2. Types'
    <3>1. /\ UNCHANGED <<format, input, walk, hunks, runs, view, fell>>
          /\ pos' \in 1..Len(rows) + 1
          /\ at' \in {"view", "done"}
          /\ result' \in {"none", "unchanged", "changed", "error"}
      BY <1>5, <1>14, <1>18, SMTT(40) DEF HunksEnd, ShowEnds, Go, shown, TypeInv, Types
    <3> QED
      BY <3>1 DEF input, walk, runs, TypeInv, Types
  <2>3. Shape'
    BY <1>14, <2>1 DEF HunksEnd, ShowEnds, Go, input, walk, shown, runs, TypeInv, Shape, Building
  <2> QED
    BY <2>2, <2>3 DEF TypeInv
<1>19. CASE Show
  <2>1. Same /\ Ranges
    BY <1>3, <1>19 DEF Show, Go, input
  <2>2. view' \in Seq(1..Len(rows))
    <3>1. pos \in 1..Len(rows)
      BY <1>5, <1>18, <1>19 DEF Show
    <3>2. view \in Seq(1..Len(rows))
      BY DEF TypeInv, Types
    <3>3. view' = view \/ view' = Append(view, pos)
      BY <1>19 DEF Show
    <3> QED
      BY <3>1, <3>2, <3>3
  <2>3. Types'
    BY <1>5, <1>19, <2>2 DEF Show, Go, input, walk, runs, TypeInv, Types
  <2>4. Shape'
    BY <1>19, <2>1 DEF Show, Go, input, walk, runs, TypeInv, Shape, Building
  <2> QED
    BY <2>3, <2>4 DEF TypeInv
<1>20. CASE CollectRemoved \/ CollectAdded
  <2>1. Same /\ Ranges
    BY <1>3, <1>20 DEF CollectRemoved, CollectAdded, Go, input
  <2>2. /\ pos' = pos /\ rows' = rows
        /\ removedTo' \in 1..Len(rows) + 1 /\ addedTo' \in 1..Len(rows) + 1
        /\ pos < removedTo' /\ removedTo' <= addedTo' /\ at' = "collect"
    <3>1. at = "collect" => pos < removedTo /\ removedTo <= addedTo
      BY DEF TypeInv, Shape
    <3> QED
      BY <1>5, <1>18, <1>20, <3>1, SMTT(40) DEF CollectRemoved, CollectAdded, Go, walk, InRun
  <2>3. Types'
    BY <1>20, <2>2 DEF CollectRemoved, CollectAdded, Go, input, walk, TypeInv, Types
  <2>4. Shape'
    BY <1>20, <2>1, <2>2 DEF CollectRemoved, CollectAdded, Go, input, walk, TypeInv, Shape, Building
  <2> QED
    BY <2>3, <2>4 DEF TypeInv
<1>15. CASE ShowRuns
  <2>1. Same /\ Ranges
    BY <1>3, <1>15 DEF ShowRuns, Go, input
  <2>2. view' \in Seq(1..Len(rows))
    <3>1. pos \in Nat /\ removedTo \in Nat /\ addedTo \in Nat /\ pos <= removedTo /\ removedTo <= addedTo /\ pos >= 1 /\ addedTo <= Len(rows) + 1
      BY <1>5, <1>15 DEF ShowRuns, TypeInv, Types, Shape
    <3>2. Paired(pos, removedTo, addedTo) \in Seq(pos..addedTo - 1)
      BY <3>1, PairedRuns
    <3>3. Paired(pos, removedTo, addedTo) \in Seq(1..Len(rows))
      BY <1>5, <3>1, <3>2
    <3> QED
      BY <1>15, <3>3 DEF ShowRuns, TypeInv, Types
  <2>3. Types'
    BY <1>5, <1>15, <2>2 DEF ShowRuns, Go, input, walk, runs, TypeInv, Types
  <2>4. Shape'
    BY <1>5, <1>15, <2>1 DEF ShowRuns, Go, input, walk, runs, TypeInv, Types, Shape, Building
  <2> QED
    BY <2>3, <2>4 DEF TypeInv
<1>16. CASE UNCHANGED vars
  BY <1>16 DEF vars, input, walk, shown, runs, TypeInv, Types, Shape, PrevEnd, CurrEnd
<1> QED
  BY <1>1, <1>2, <1>6, <1>7, <1>8, <1>9, <1>10, <1>11, <1>12, <1>13, <1>14, <1>15, <1>16, <1>19, <1>20 DEF Next

\* The line of a row, on either side, is one of its file.
Fits(r) == r.prev < prev /\ r.curr < curr

\* The walk stays in both files, and so do the rows.
LEMMA InFileStep == TypeInv /\ InFile /\ [Next]_vars => InFile'
<1> SUFFICES ASSUME TypeInv, InFile, [Next]_vars PROVE InFile'
  OBVIOUS
<1> USE RenderAssumption
<1>1. /\ rows \in Seq(Row) /\ Len(rows) \in Nat
      /\ prev \in 0..MaxLines /\ curr \in 0..MaxLines
      /\ prevIdx \in 0..prev /\ currIdx \in 0..curr
      /\ next \in 1..Len(changes) + 1 /\ Len(changes) \in Nat
      /\ \A i \in 1..Len(rows) : Fits(rows[i])
  <2>1. /\ rows \in Seq(Row) /\ Len(rows) \in Nat
        /\ prev \in 0..MaxLines /\ curr \in 0..MaxLines
        /\ prevIdx \in 0..MaxLines /\ currIdx \in 0..MaxLines
        /\ next \in 1..Len(changes) + 1 /\ Len(changes) \in Nat
    BY DEF TypeInv, Types
  <2>2. prevIdx \in 0..prev /\ currIdx \in 0..curr
    BY <2>1 DEF InFile
  <2>3. \A i \in 1..Len(rows) : Fits(rows[i])
    BY DEF InFile, Fits
  <2> QED
    BY <2>1, <2>2, <2>3
\* A row that comes is a row of lines there are.
<1>2. ASSUME NEW r \in Row, Fits(r), rows' = Append(rows, r), UNCHANGED <<prev, curr>>
      PROVE  \A i \in 1..Len(rows') : rows'[i].prev < prev' /\ rows'[i].curr < curr'
  <2>1. /\ Len(rows') = Len(rows) + 1 /\ rows'[Len(rows) + 1] = r
        /\ \A i \in 1..Len(rows) : rows'[i] = rows[i]
    BY <1>1, <1>2, Appended
  <2>2. ASSUME NEW i \in 1..Len(rows') PROVE Fits(rows'[i])
    <3>1. i \in 1..Len(rows) \/ i = Len(rows) + 1
      BY <1>1, <2>1
    <3> QED
      BY <1>1, <1>2, <2>1, <3>1
  <2> QED
    BY <1>2, <2>2 DEF Fits
<1>3. ASSUME UNCHANGED <<rows, prev, curr>>
      PROVE  \A i \in 1..Len(rows') : rows'[i].prev < prev' /\ rows'[i].curr < curr'
  BY <1>1, <1>3 DEF Fits
<1>4. ASSUME UNCHANGED <<rows, prev, curr, prevIdx, currIdx>> PROVE InFile'
  BY <1>3, <1>4 DEF InFile
<1>5. ASSUME NEW p \in 0..prev - 1
      PROVE  /\ RemovedRow(p) \in Row /\ Fits(RemovedRow(p))
             /\ \A c \in 0..curr - 1 : /\ Kept(p, c) \in Row /\ Fits(Kept(p, c))
                                       /\ ModifiedRow(p, c) \in Row /\ Fits(ModifiedRow(p, c))
  <2>1. p \in 0..MaxLines /\ p < prev /\ None < curr /\ 0 \in 0..MaxLines
    BY <1>1, <1>5 DEF None
  <2>2. RemovedRow(p) \in Row /\ Fits(RemovedRow(p))
    BY <2>1, RowTypes DEF Fits, RemovedRow
  <2>3. ASSUME NEW c \in 0..curr - 1
        PROVE  /\ Kept(p, c) \in Row /\ Fits(Kept(p, c))
               /\ ModifiedRow(p, c) \in Row /\ Fits(ModifiedRow(p, c))
    <3>1. c \in 0..MaxLines /\ c < curr
      BY <1>1, <2>3
    <3> QED
      BY <2>1, <3>1, RowTypes DEF Fits, Kept, ModifiedRow
  <2> QED
    BY <2>2, <2>3
<1>6. ASSUME NEW c \in 0..curr - 1 PROVE AddedRow(c) \in Row /\ Fits(AddedRow(c))
  BY <1>1, <1>6, RowTypes DEF Fits, AddedRow, None
<1>7. CASE LineAdded
  <2>1. UNCHANGED <<prev, curr, prevIdx>>
    BY <1>7 DEF LineAdded, Go, input
  <2>2. CASE currIdx < curr
    <3>1. currIdx \in 0..curr - 1 /\ currIdx' = currIdx + 1
      BY <1>1, <1>7, <2>2 DEF LineAdded
    <3>2. rows' = rows \/ rows' = Append(rows, AddedRow(currIdx))
      BY <1>7, <2>2 DEF LineAdded
    <3>3. \A i \in 1..Len(rows') : rows'[i].prev < prev' /\ rows'[i].curr < curr'
      BY <1>2, <1>3, <1>6, <2>1, <3>1, <3>2
    <3>4. prevIdx' <= prev' /\ currIdx' <= curr'
      BY <1>1, <2>1, <3>1
    <3> QED
      BY <3>3, <3>4 DEF InFile
  <2>3. CASE ~(currIdx < curr)
    BY <1>4, <1>7, <2>1, <2>3 DEF LineAdded
  <2> QED
    BY <2>2, <2>3
<1>8. CASE LineRemoved
  <2>1. UNCHANGED <<prev, curr, currIdx>>
    BY <1>8 DEF LineRemoved, Go, input
  <2>2. CASE prevIdx < prev
    <3>1. prevIdx \in 0..prev - 1 /\ prevIdx' = prevIdx + 1
      BY <1>1, <1>8, <2>2 DEF LineRemoved
    <3>2. rows' = rows \/ rows' = Append(rows, RemovedRow(prevIdx))
      BY <1>8, <2>2 DEF LineRemoved
    <3>3. \A i \in 1..Len(rows') : rows'[i].prev < prev' /\ rows'[i].curr < curr'
      BY <1>2, <1>3, <1>5, <2>1, <3>1, <3>2
    <3>4. prevIdx' <= prev' /\ currIdx' <= curr'
      BY <1>1, <2>1, <3>1
    <3> QED
      BY <3>3, <3>4 DEF InFile
  <2>3. CASE ~(prevIdx < prev)
    BY <1>4, <1>8, <2>1, <2>3 DEF LineRemoved
  <2> QED
    BY <2>2, <2>3
<1>9. CASE Keep
  <2>1. UNCHANGED <<prev, curr>> /\ prevIdx' = prevIdx + 1 /\ currIdx' = currIdx + 1
    BY <1>9 DEF Keep, Advance, Go, input
  <2>2. prevIdx \in 0..prev - 1 /\ currIdx \in 0..curr - 1
    <3>1. next \in 1..Len(changes) => PrevTarget \in 0..prev /\ CurrTarget \in 0..curr
      BY Reported DEF PrevTarget, CurrTarget
    <3> QED
      BY <1>1, <1>9, <3>1 DEF Keep, Before
  <2>3. rows' = Append(rows, Kept(prevIdx, currIdx))
    BY <1>1, <1>9, <2>2 DEF Keep
  <2> QED
    BY <1>1, <1>2, <1>5, <2>1, <2>2, <2>3 DEF InFile
<1>10. CASE Remove
  <2> DEFINE p == PrevLine(changes[next])
  <2>1. UNCHANGED <<prev, curr, currIdx>>
    BY <1>10 DEF Remove, Go, input
  <2>2. next \in 1..Len(changes)
    BY <1>1, <1>10 DEF Remove, AtChange
  <2>3. p = None \/ p \in 0..prev - 1
    BY <2>2, Reported
  <2>4. \/ UNCHANGED <<rows, prevIdx>>
        \/ /\ p # None /\ rows' = Append(rows, RemovedRow(p))
           /\ prevIdx' \in {prevIdx, Past(prevIdx, p)}
    BY <1>10 DEF Remove, Removal
  <2> HIDE DEF p
  <2>5. p \in 0..prev - 1 => Past(prevIdx, p) \in 0..prev
    BY <1>1, SMTT(40) DEF Past, Greatest
  <2>6. prevIdx' <= prev' /\ currIdx' <= curr'
    BY <1>1, <2>1, <2>3, <2>4, <2>5
  <2>7. \A i \in 1..Len(rows') : rows'[i].prev < prev' /\ rows'[i].curr < curr'
    BY <1>2, <1>3, <1>5, <2>1, <2>3, <2>4
  <2> QED
    BY <2>6, <2>7 DEF InFile
<1>11. CASE Add
  <2> DEFINE c == CurrLine(changes[next])
  <2>1. UNCHANGED <<prev, curr, prevIdx>>
    BY <1>11 DEF Add, Go, input
  <2>2. next \in 1..Len(changes)
    BY <1>1, <1>11 DEF Add, TypeInv, Shape
  <2>3. c = None \/ c \in 0..curr - 1
    BY <2>2, Reported
  <2>4. \/ UNCHANGED <<rows, currIdx>>
        \/ /\ c # None /\ rows' = Append(rows, AddedRow(c))
           /\ currIdx' \in {currIdx, Past(currIdx, c)}
    BY <1>11 DEF Add
  <2> HIDE DEF c
  <2>5. c \in 0..curr - 1 => Past(currIdx, c) \in 0..curr
    BY <1>1, SMTT(40) DEF Past, Greatest
  <2>6. currIdx' <= curr' /\ prevIdx' <= prev'
    BY <1>1, <2>1, <2>3, <2>4, <2>5
  <2>7. \A i \in 1..Len(rows') : rows'[i].prev < prev' /\ rows'[i].curr < curr'
    BY <1>2, <1>3, <1>6, <2>1, <2>3, <2>4
  <2> QED
    BY <2>6, <2>7 DEF InFile
<1>12. CASE SideBySide
  <2> DEFINE p == PrevLine(changes[next])
             c == CurrLine(changes[next])
  <2>1. UNCHANGED <<prev, curr>>
    BY <1>12 DEF SideBySide, Go, input
  <2>2. next \in 1..Len(changes)
    BY <1>1, <1>12 DEF SideBySide, AtChange
  <2>3. /\ p = None \/ p \in 0..prev - 1
        /\ c = None \/ c \in 0..curr - 1
        /\ ~(p = None /\ c = None)
    BY <2>2, Reported DEF PrevLine, CurrLine, None
  <2>4. /\ rows' = rows \/ rows' = Append(rows, PairRow(p, c))
        /\ prevIdx' = IF p = None THEN prevIdx ELSE p + 1
        /\ currIdx' = IF c = None THEN currIdx ELSE c + 1
    BY <1>12 DEF SideBySide
  <2> HIDE DEF p, c
  <2>5. PairRow(p, c) \in Row /\ Fits(PairRow(p, c))
    BY <1>5, <1>6, <2>3 DEF PairRow
  <2>6. prevIdx' \in 0..prev /\ currIdx' \in 0..curr
    BY <1>1, <2>3, <2>4, SMTT(40) DEF None
  <2>7. \A i \in 1..Len(rows') : rows'[i].prev < prev' /\ rows'[i].curr < curr'
    BY <1>2, <1>3, <2>1, <2>4, <2>5
  <2> QED
    BY <2>1, <2>6, <2>7 DEF InFile
\* The other steps leave the files, the walk and the rows alone.
<1>13. ASSUME \/ \E c \in Change : Report(c)
              \/ FallBack \/ SaysUnchanged \/ Refuse \/ Begin \/ WalkEnds
       PROVE  InFile'
  BY <1>4, <1>13 DEF Report, FallBack, SaysUnchanged, Refuse, Begin, WalkEnds, Return, Go, input, walk
<1>14. ASSUME \/ Widen \/ HunksEnd
              \/ Show \/ CollectRemoved \/ CollectAdded \/ ShowRuns \/ ShowEnds
       PROVE  InFile'
  BY <1>4, <1>14 DEF Widen, HunksEnd, Show, CollectRemoved, CollectAdded, ShowRuns, ShowEnds,
     Go, input, walk
<1>15. CASE UNCHANGED vars
  BY <1>4, <1>15 DEF vars, input, walk
<1> QED
  BY <1>7, <1>8, <1>9, <1>10, <1>11, <1>12, <1>13, <1>14, <1>15 DEF Next

\* Every variable keeps its type, and no row shows a line that its file does not have.
THEOREM TypeCorrect == Spec => []TypeOK
<1>1. Init => InFile
  <2> SUFFICES ASSUME Init PROVE InFile
    OBVIOUS
  <2> QED
    BY RenderAssumption DEF Init, InFile
<1>2. TypeInv /\ InFile => TypeOK
  BY DEF TypeInv, TypeOK
<1> QED
  BY <1>1, <1>2, TypeInit, TypeStep, InFileStep, PTL DEF Spec

-----------------------------------------------------------------------------
(* The answer of difftastic: changes in order. *)

Ordered ==
  \A k, j \in 1..Len(changes) : k < j =>
    PrevEnd(changes[k]) <= changes[j].prevAt /\ CurrEnd(changes[k]) <= changes[j].currAt

AnswerInv == TypeInv /\ Ordered

\* All steps but that of difftastic leave its answer alone.
LEMMA AnswerKept ==
  ASSUME [Next]_vars, \A c \in Change : ~Report(c)
  PROVE  UNCHANGED <<prev, curr, changes>>
  BY DEF Next, vars, input, FallBack, LineAdded, LineRemoved, SaysUnchanged, Refuse, Begin, Keep,
         Remove, Add, SideBySide, WalkEnds, Widen, HunksEnd, Show, CollectRemoved, CollectAdded,
         ShowRuns, ShowEnds, Go, Return

LEMMA AnswerStep == AnswerInv /\ [Next]_vars => AnswerInv'
<1> SUFFICES ASSUME AnswerInv, [Next]_vars PROVE Ordered'
  BY TypeStep DEF AnswerInv
<1>1. CASE \A c \in Change : ~Report(c)
  BY <1>1, AnswerKept DEF AnswerInv, Ordered, PrevEnd, CurrEnd
<1>2. ASSUME NEW c \in Change, Report(c) PROVE Ordered'
  <2>1. changes \in Seq(Change) /\ changes' = Append(changes, c)
    BY <1>2 DEF Report, AnswerInv, TypeInv, Types
  <2>2. /\ Len(changes') = Len(changes) + 1 /\ Len(changes) \in Nat
        /\ changes'[Len(changes) + 1] = c
        /\ \A i \in 1..Len(changes) : changes'[i] = changes[i]
    BY <2>1, Appended
  <2>3. ASSUME NEW k \in 1..Len(changes)
        PROVE  PrevEnd(changes[k]) <= c.prevAt /\ CurrEnd(changes[k]) <= c.currAt
    <3> DEFINE n == Len(changes)
    <3>1. n \in 1..Len(changes) /\ n # 0
      BY <2>2
    <3>2. PrevEnd(changes[n]) <= c.prevAt /\ CurrEnd(changes[n]) <= c.currAt
      BY <1>2, <3>1 DEF Report, PrevTo, CurrTo
    <3>3. k = n \/ /\ PrevEnd(changes[k]) <= changes[n].prevAt
                   /\ CurrEnd(changes[k]) <= changes[n].currAt
      BY <2>2, <3>1 DEF AnswerInv, Ordered
    <3>4. changes[k] \in Change /\ changes[n] \in Change
      BY <2>1, <3>1
    <3> QED
      BY <3>2, <3>3, <3>4, RenderAssumption, SMTT(40) DEF PrevEnd, CurrEnd, Change
  <2>4. ASSUME NEW k \in 1..Len(changes'), NEW j \in 1..Len(changes'), k < j
        PROVE  /\ PrevEnd(changes'[k]) <= changes'[j].prevAt
               /\ CurrEnd(changes'[k]) <= changes'[j].currAt
    <3>1. k \in 1..Len(changes) /\ (j \in 1..Len(changes) \/ j = Len(changes) + 1)
      BY <2>2, <2>4
    <3> QED
      BY <2>2, <2>3, <2>4, <3>1 DEF AnswerInv, Ordered
  <2> QED
    BY <2>4 DEF Ordered, PrevEnd, CurrEnd
<1> QED
  BY <1>1, <1>2

-----------------------------------------------------------------------------
(* The walk, where what is not reported is the same line by line. *)

\* Where the walk is, between two changes, or within one, or at its end.
Place ==
  /\ at = "walk" =>
       /\ PrevTo(next - 1) <= prevIdx /\ prevIdx <= PrevFrom(next)
       /\ currIdx - CurrTo(next - 1) = prevIdx - PrevTo(next - 1)
  /\ at = "add" => prevIdx = PrevTo(next) /\ currIdx = CurrFrom(next)
  /\ Walked => prevIdx = prev /\ currIdx = curr

\* The rows have the lines up to there and no others, in order, and as kept only
\* what is not reported.
HasAllPrev == \A l \in 0..prevIdx - 1 : \E i \in 1..Len(rows) : HasPrev(rows[i]) /\ rows[i].prev = l
HasAllCurr == \A l \in 0..currIdx - 1 : \E i \in 1..Len(rows) : HasCurr(rows[i]) /\ rows[i].curr = l
HasNoOther ==
  \A i \in 1..Len(rows) :
    /\ HasPrev(rows[i]) => rows[i].prev \in 0..prevIdx - 1
    /\ HasCurr(rows[i]) => rows[i].curr \in 0..currIdx - 1
InOrder ==
  \A i, j \in 1..Len(rows) : i < j =>
    /\ HasPrev(rows[i]) /\ HasPrev(rows[j]) => rows[i].prev < rows[j].prev
    /\ HasCurr(rows[i]) /\ HasCurr(rows[j]) => rows[i].curr < rows[j].curr
KeptAlone ==
  \A i \in 1..Len(rows), k \in 1..Len(changes) : rows[i].sign = "=" =>
    rows[i].prev # PrevLine(changes[k]) /\ rows[i].curr # CurrLine(changes[k])

Covers == HasAllPrev /\ HasAllCurr /\ HasNoOther /\ InOrder /\ KeptAlone

OnWalk == at \in {"walk", "add"} \/ Walked

WalkInv == OnWalk /\ format \in Walking /\ Exact => Place /\ Covers

\* One more row, of the lines the walk is at.
LEMMA CoversMore ==
  ASSUME TypeInv, Covers, NEW r \in Row, rows' = Append(rows, r), changes' = changes,
         /\ HasPrev(r) => r.prev = prevIdx
         /\ prevIdx' = IF HasPrev(r) THEN prevIdx + 1 ELSE prevIdx,
         /\ HasCurr(r) => r.curr = currIdx
         /\ currIdx' = IF HasCurr(r) THEN currIdx + 1 ELSE currIdx,
         \A k \in 1..Len(changes) : r.sign = "=" =>
           r.prev # PrevLine(changes[k]) /\ r.curr # CurrLine(changes[k])
  PROVE  Covers'
<1>1. prevIdx \in Nat /\ currIdx \in Nat /\ rows \in Seq(Row)
  BY RenderAssumption DEF TypeInv, Types
<1>2. /\ Len(rows') = Len(rows) + 1 /\ Len(rows) \in Nat
      /\ rows'[Len(rows) + 1] = r
      /\ \A i \in 1..Len(rows) : rows'[i] = rows[i]
  BY <1>1, Appended
<1>3. \A i \in 1..Len(rows') : i \in 1..Len(rows) \/ i = Len(rows) + 1
  BY <1>2
<1>4. \A l \in 0..prevIdx' - 1 : \E i \in 1..Len(rows') : HasPrev(rows'[i]) /\ rows'[i].prev = l
  <2> SUFFICES ASSUME NEW l \in 0..prevIdx' - 1
               PROVE  \E i \in 1..Len(rows') : HasPrev(rows'[i]) /\ rows'[i].prev = l
    OBVIOUS
  <2>1. CASE l \in 0..prevIdx - 1
    <3>1. PICK i \in 1..Len(rows) : HasPrev(rows[i]) /\ rows[i].prev = l
      BY <2>1 DEF Covers, HasAllPrev
    <3>2. i \in 1..Len(rows') /\ rows'[i] = rows[i]
      BY <1>2
    <3> QED
      BY <3>1, <3>2
  <2>2. CASE l \notin 0..prevIdx - 1
    <3>1. l = prevIdx /\ HasPrev(r)
      BY <1>1, <2>2
    <3>2. Len(rows) + 1 \in 1..Len(rows')
      BY <1>2
    <3> QED
      BY <1>2, <3>1, <3>2
  <2> QED
    BY <2>1, <2>2
<1>5. \A l \in 0..currIdx' - 1 : \E i \in 1..Len(rows') : HasCurr(rows'[i]) /\ rows'[i].curr = l
  <2> SUFFICES ASSUME NEW l \in 0..currIdx' - 1
               PROVE  \E i \in 1..Len(rows') : HasCurr(rows'[i]) /\ rows'[i].curr = l
    OBVIOUS
  <2>1. CASE l \in 0..currIdx - 1
    <3>1. PICK i \in 1..Len(rows) : HasCurr(rows[i]) /\ rows[i].curr = l
      BY <2>1 DEF Covers, HasAllCurr
    <3>2. i \in 1..Len(rows') /\ rows'[i] = rows[i]
      BY <1>2
    <3> QED
      BY <3>1, <3>2
  <2>2. CASE l \notin 0..currIdx - 1
    <3>1. l = currIdx /\ HasCurr(r)
      BY <1>1, <2>2
    <3>2. Len(rows) + 1 \in 1..Len(rows')
      BY <1>2
    <3> QED
      BY <1>2, <3>1, <3>2
  <2> QED
    BY <2>1, <2>2
<1>6. \A i \in 1..Len(rows) :
        /\ HasPrev(rows[i]) => rows[i].prev \in 0..prevIdx - 1
        /\ HasCurr(rows[i]) => rows[i].curr \in 0..currIdx - 1
  BY DEF Covers, HasNoOther
<1>7. \A i \in 1..Len(rows') :
        /\ HasPrev(rows'[i]) => rows'[i].prev \in 0..prevIdx' - 1
        /\ HasCurr(rows'[i]) => rows'[i].curr \in 0..currIdx' - 1
  BY <1>1, <1>2, <1>3, <1>6
<1>8. ASSUME NEW i \in 1..Len(rows'), NEW j \in 1..Len(rows'), i < j
      PROVE  /\ HasPrev(rows'[i]) /\ HasPrev(rows'[j]) => rows'[i].prev < rows'[j].prev
             /\ HasCurr(rows'[i]) /\ HasCurr(rows'[j]) => rows'[i].curr < rows'[j].curr
  <2>1. i \in 1..Len(rows)
    BY <1>2, <1>8
  <2>2. CASE j \in 1..Len(rows)
    BY <1>2, <1>8, <2>1, <2>2 DEF Covers, InOrder
  <2>3. CASE j = Len(rows) + 1
    BY <1>1, <1>2, <1>6, <2>1, <2>3
  <2> QED
    BY <1>3, <2>2, <2>3
<1>9. \A i \in 1..Len(rows'), k \in 1..Len(changes) : rows'[i].sign = "=" =>
        rows'[i].prev # PrevLine(changes[k]) /\ rows'[i].curr # CurrLine(changes[k])
  BY <1>2, <1>3 DEF Covers, KeptAlone
<1>10. HasAllPrev' /\ HasAllCurr'
  BY <1>4, <1>5 DEF HasAllPrev, HasAllCurr, HasPrev, HasCurr
<1>11. HasNoOther'
  BY <1>7 DEF HasNoOther, HasPrev, HasCurr
<1>12. InOrder'
  BY <1>8 DEF InOrder, HasPrev, HasCurr
<1>13. KeptAlone'
  BY <1>9 DEF KeptAlone, PrevLine, CurrLine
<1> QED
  BY <1>10, <1>11, <1>12, <1>13 DEF Covers
LEMMA Spacing ==
  ASSUME AnswerInv, NEW n \in 1..Len(changes) + 1
  PROVE  /\ PrevFrom(n) \in 0..prev /\ CurrFrom(n) \in 0..curr
         /\ PrevTo(n - 1) \in 0..PrevFrom(n) /\ CurrTo(n - 1) \in 0..CurrFrom(n)
         /\ Exact => PrevFrom(n) - PrevTo(n - 1) = CurrFrom(n) - CurrTo(n - 1)
<1>1. Len(changes) \in Nat /\ prev \in Nat /\ curr \in Nat /\ TypeInv
  BY RenderAssumption DEF AnswerInv, TypeInv, Types
<1>2. PrevFrom(n) \in 0..prev /\ CurrFrom(n) \in 0..curr
  <2>1. CASE n \in 1..Len(changes)
    BY <1>1, <2>1, Reported DEF PrevFrom, CurrFrom
  <2>2. CASE n > Len(changes)
    BY <1>1, <2>2 DEF PrevFrom, CurrFrom
  <2> QED
    BY <1>1, <2>1, <2>2
<1>3. PrevTo(n - 1) \in 0..PrevFrom(n) /\ CurrTo(n - 1) \in 0..CurrFrom(n)
  <2>1. CASE n = 1
    BY <1>2, <2>1 DEF PrevTo, CurrTo
  <2>2. CASE n # 1
    <3>1. n - 1 \in 1..Len(changes) /\ n - 1 # 0
      BY <1>1, <2>2
    <3>2. /\ PrevTo(n - 1) = PrevEnd(changes[n - 1]) /\ CurrTo(n - 1) = CurrEnd(changes[n - 1])
          /\ PrevEnd(changes[n - 1]) \in Nat /\ CurrEnd(changes[n - 1]) \in Nat
          /\ PrevEnd(changes[n - 1]) <= prev /\ CurrEnd(changes[n - 1]) <= curr
      <4>1. changes[n - 1].prevAt \in Nat /\ changes[n - 1].currAt \in Nat
        BY <1>1, <3>1, Reported
      <4> QED
        BY <1>1, <3>1, <4>1 DEF PrevTo, CurrTo, PrevEnd, CurrEnd, TypeInv, Shape
    <3>3. CASE n \in 1..Len(changes)
      <4>1. PrevTo(n - 1) <= changes[n].prevAt /\ CurrTo(n - 1) <= changes[n].currAt
        BY <1>1, <3>1, <3>2, <3>3 DEF AnswerInv, Ordered
      <4> QED
        BY <1>1, <1>2, <3>2, <3>3, <4>1 DEF PrevFrom, CurrFrom
    <3>4. CASE n > Len(changes)
      BY <1>1, <3>2, <3>4 DEF PrevFrom, CurrFrom
    <3> QED
      BY <1>1, <3>3, <3>4
  <2> QED
    BY <2>1, <2>2
<1>4. ASSUME Exact PROVE PrevFrom(n) - PrevTo(n - 1) = CurrFrom(n) - CurrTo(n - 1)
  <2>1. n - 1 \in 0..Len(changes) /\ (n - 1) + 1 = n
    BY <1>1
  <2> QED
    BY <1>4, <2>1 DEF Exact
<1> QED
  BY <1>2, <1>3, <1>4

\* A change is before a place of the walk or after it.
LEMMA Apart ==
  ASSUME AnswerInv, NEW n \in 1..Len(changes) + 1, NEW k \in 1..Len(changes)
  PROVE  /\ k < n => PrevEnd(changes[k]) <= PrevTo(n - 1) /\ CurrEnd(changes[k]) <= CurrTo(n - 1)
         /\ k >= n => PrevFrom(n) <= changes[k].prevAt /\ CurrFrom(n) <= changes[k].currAt
<1>1. Len(changes) \in Nat /\ TypeInv
  BY SMTT(40) DEF AnswerInv, TypeInv, Types
<1>2. \A j \in 1..Len(changes) :
        /\ changes[j].prevAt \in Int /\ changes[j].currAt \in Int
        /\ PrevEnd(changes[j]) \in Int /\ CurrEnd(changes[j]) \in Int
        /\ changes[j].prevAt <= PrevEnd(changes[j]) /\ changes[j].currAt <= CurrEnd(changes[j])
  BY <1>1, Reported, SMTT(40) DEF PrevEnd, CurrEnd
<1>3. CASE k < n
  <2>1. n - 1 \in 1..Len(changes) /\ n - 1 # 0 /\ k <= n - 1
    BY <1>1, <1>3
  <2>2. PrevTo(n - 1) = PrevEnd(changes[n - 1]) /\ CurrTo(n - 1) = CurrEnd(changes[n - 1])
    BY <2>1 DEF PrevTo, CurrTo
  <2>3. k = n - 1 \/ /\ PrevEnd(changes[k]) <= changes[n - 1].prevAt
                     /\ CurrEnd(changes[k]) <= changes[n - 1].currAt
    BY <1>1, <2>1 DEF AnswerInv, Ordered
  <2>4. /\ changes[n - 1].prevAt \in Int /\ changes[n - 1].currAt \in Int
        /\ PrevEnd(changes[n - 1]) \in Int /\ CurrEnd(changes[n - 1]) \in Int
        /\ changes[n - 1].prevAt <= PrevEnd(changes[n - 1])
        /\ changes[n - 1].currAt <= CurrEnd(changes[n - 1])
    BY <1>2, <2>1
  <2>5. PrevEnd(changes[k]) \in Int /\ CurrEnd(changes[k]) \in Int
    BY <1>2
  <2>6. k < n /\ PrevEnd(changes[k]) <= PrevTo(n - 1) /\ CurrEnd(changes[k]) <= CurrTo(n - 1)
    <3>1. CASE k = n - 1
      BY <1>3, <2>2, <2>4, <3>1
    <3>2. CASE k # n - 1
      BY <1>3, <2>2, <2>3, <2>4, <2>5, <3>2
    <3> QED
      BY <3>1, <3>2
  <2> QED
    BY <1>1, <2>6
<1>4. CASE k >= n
  <2>1. n \in 1..Len(changes)
    BY <1>1, <1>4
  <2>2. PrevFrom(n) = changes[n].prevAt /\ CurrFrom(n) = changes[n].currAt
    BY <1>1, <2>1 DEF PrevFrom, CurrFrom
  <2>3. k = n \/ /\ PrevEnd(changes[n]) <= changes[k].prevAt
                 /\ CurrEnd(changes[n]) <= changes[k].currAt
    BY <1>1, <1>4, <2>1 DEF AnswerInv, Ordered
  <2> QED
    BY <1>2, <1>4, <2>1, <2>2, <2>3, SMTT(40)
<1> QED
  BY <1>1, <1>3, <1>4
\* Where a change is shown the walk has come to it.
LEMMA AtTheChange ==
  ASSUME AnswerInv, Place, Exact, format \in Walking, at = "walk", AtChange
  PROVE  next \in 1..Len(changes) /\ prevIdx = PrevFrom(next) /\ currIdx = CurrFrom(next)
<1>1. /\ next \in 1..Len(changes) /\ next \in 1..Len(changes) + 1
      /\ prevIdx \in Int /\ currIdx \in Int /\ prev \in Int /\ curr \in Int
  BY RenderAssumption DEF AtChange, AnswerInv, TypeInv, Types
<1>2. PrevFrom(next) = changes[next].prevAt /\ CurrFrom(next) = changes[next].currAt
  BY <1>1 DEF PrevFrom, CurrFrom
<1>3. /\ prevIdx <= PrevFrom(next) /\ currIdx <= CurrFrom(next)
      /\ prevIdx = PrevFrom(next) <=> currIdx = CurrFrom(next)
  BY <1>1, Spacing, SMTT(40) DEF Place
<1>4. prevIdx >= PrevTarget \/ currIdx >= CurrTarget
  <2>1. PrevTarget \in Int /\ CurrTarget \in Int
    BY <1>1, Reported DEF AnswerInv, PrevTarget, CurrTarget
  <2> QED
    BY <1>1, <2>1 DEF AtChange, Before
<1>5. PrevTarget \in {prev, PrevFrom(next)} /\ CurrTarget \in {curr, CurrFrom(next)}
  BY <1>2 DEF PrevTarget, CurrTarget, PrevLine, CurrLine
<1>6. PrevFrom(next) \in 0..prev /\ CurrFrom(next) \in 0..curr
  BY <1>1, Spacing
<1> QED
  BY <1>1, <1>3, <1>4, <1>5, <1>6

\* A line is kept before the next change, or before the ends of both files.
LEMMA BeforeTheChange ==
  ASSUME AnswerInv, Place, Exact, Keep
  PROVE  prevIdx < PrevFrom(next) /\ currIdx < CurrFrom(next)
<1>1. /\ next \in 1..Len(changes) + 1 /\ Len(changes) \in Nat
      /\ prevIdx \in Int /\ currIdx \in Int /\ prev \in Int /\ curr \in Int
  BY RenderAssumption DEF AnswerInv, TypeInv, Types
<1>2. /\ prevIdx <= PrevFrom(next) /\ currIdx <= CurrFrom(next)
      /\ prevIdx = PrevFrom(next) <=> currIdx = CurrFrom(next)
      /\ PrevFrom(next) \in 0..prev /\ CurrFrom(next) \in 0..curr
  BY <1>1, Spacing, SMTT(40) DEF Place, Keep
<1>3. CASE next \in 1..Len(changes)
  <2>1. PrevFrom(next) = changes[next].prevAt /\ CurrFrom(next) = changes[next].currAt
    BY <1>1, <1>3 DEF PrevFrom, CurrFrom
  <2>2. PrevTarget = PrevFrom(next) \/ CurrTarget = CurrFrom(next)
    <3>1. changes[next].side \in {"prev", "curr", "both"}
          /\ changes[next].prevAt # None /\ changes[next].currAt # None
      BY <1>3, Reported DEF AnswerInv, None
    <3> QED
      BY <2>1, <3>1 DEF PrevTarget, CurrTarget, PrevLine, CurrLine
  <2>3. prevIdx < PrevTarget /\ currIdx < CurrTarget
    BY <1>1, <1>3 DEF Keep, Before
  <2> QED
    BY <1>1, <1>2, <2>2, <2>3
<1>4. CASE next > Len(changes)
  BY <1>1, <1>2, <1>4 DEF Keep, Before, PrevFrom, CurrFrom
<1> QED
  BY <1>1, <1>3, <1>4
LEMMA WalkInit == Init => Ordered /\ WalkInv
  BY EmptySeq DEF Init, Ordered, WalkInv, OnWalk, Walked

LEMMA WalkStep == AnswerInv /\ WalkInv /\ [Next]_vars => WalkInv'
<1> SUFFICES ASSUME AnswerInv, WalkInv, [Next]_vars, OnWalk', (format \in Walking)', Exact'
             PROVE  Place' /\ Covers'
  BY DEF WalkInv
<1>1. TypeInv /\ TypeInv'
  BY TypeStep DEF AnswerInv
<1>2. /\ next \in 1..Len(changes) + 1 /\ Len(changes) \in Nat
      /\ prevIdx \in Nat /\ currIdx \in Nat /\ prev \in Nat /\ curr \in Nat
  BY <1>1, RenderAssumption DEF TypeInv, Types
<1>3. ASSUME NEW c \in Change, Report(c) PROVE FALSE
  BY <1>3 DEF Report, OnWalk, Walked
<1>4. UNCHANGED <<prev, curr, changes>> /\ Exact
  <2>1. UNCHANGED <<prev, curr, changes>>
    BY <1>3, AnswerKept
  <2> QED
    BY <2>1 DEF Exact, PrevFrom, PrevTo, CurrFrom, CurrTo, PrevEnd, CurrEnd
<1>5. \A k \in 0..Len(changes) + 1 : /\ PrevFrom(k)' = PrevFrom(k) /\ CurrFrom(k)' = CurrFrom(k)
                                     /\ PrevTo(k)' = PrevTo(k) /\ CurrTo(k)' = CurrTo(k)
  BY <1>4 DEF PrevFrom, PrevTo, CurrFrom, CurrTo, PrevEnd, CurrEnd
<1>6. CASE Begin
  <2>1. /\ next' = 1 /\ prevIdx' = 0 /\ currIdx' = 0 /\ rows' = <<>> /\ at' = "walk"
    BY <1>1, <1>6 DEF Begin, Go, walk, TypeInv, Shape
  <2>2. PrevFrom(1) \in Nat /\ next' - 1 = 0 /\ 1 \in 0..Len(changes) + 1
    BY <1>2, <2>1, Spacing
  <2>3. Place'
    BY <1>4, <1>5, <2>1, <2>2 DEF Place, PrevTo, CurrTo, Walked
  <2>4. Covers'
    BY <2>1, EmptySeq DEF Covers, HasAllPrev, HasAllCurr, HasNoOther, InOrder, KeptAlone
  <2> QED
    BY <2>3, <2>4
<1>7. CASE Keep
  <2>1. format \in Walking /\ at = "walk" /\ at' = "walk" /\ next' = next
    BY <1>7 DEF Keep, Go
  <2>2. Place /\ Covers
    BY <1>4, <2>1 DEF WalkInv, OnWalk
  <2>3. prevIdx < PrevFrom(next) /\ currIdx < CurrFrom(next)
    BY <1>4, <1>7, <2>2, BeforeTheChange
  <2>4. PrevFrom(next) \in 0..prev /\ CurrFrom(next) \in 0..curr
    BY <1>2, Spacing
  <2> DEFINE r == Kept(prevIdx, currIdx)
  <2>5. /\ rows' = Append(rows, r) /\ prevIdx' = prevIdx + 1 /\ currIdx' = currIdx + 1
    BY <1>2, <1>7, <2>3, <2>4 DEF Keep, Advance
  <2>6. r \in Row /\ HasPrev(r) /\ HasCurr(r) /\ r.prev = prevIdx /\ r.curr = currIdx
    BY <1>1, RowTypes DEF Kept, HasPrev, HasCurr, TypeInv, Types
  <2>7. PrevTo(next - 1) <= prevIdx /\ CurrTo(next - 1) <= currIdx
    <3>1. PrevTo(next - 1) \in Int /\ CurrTo(next - 1) \in Int
      BY <1>2, <2>4, Spacing
    <3> QED
      BY <1>2, <2>1, <2>2, <3>1 DEF Place
  <2>8. ASSUME NEW k \in 1..Len(changes)
        PROVE  prevIdx # PrevLine(changes[k]) /\ currIdx # CurrLine(changes[k])
    <3>1. /\ k < next => PrevEnd(changes[k]) <= PrevTo(next - 1)
                         /\ CurrEnd(changes[k]) <= CurrTo(next - 1)
          /\ k >= next => PrevFrom(next) <= changes[k].prevAt /\ CurrFrom(next) <= changes[k].currAt
      BY <1>2, Apart
    <3>2. /\ changes[k].prevAt \in Int /\ changes[k].currAt \in Int
          /\ PrevTo(next - 1) \in Int /\ CurrTo(next - 1) \in Int
      BY <1>1, <1>2, <2>4, Reported, Spacing
    <3>3. CASE k < next
      BY <1>2, <2>7, <3>1, <3>2, <3>3, SMTT(40) DEF PrevLine, CurrLine, PrevEnd, CurrEnd, None
    <3>4. CASE k >= next
      <4>1. PrevFrom(next) \in Int /\ CurrFrom(next) \in Int
        BY <1>2, <2>4
      <4>2. PrevFrom(next) <= changes[k].prevAt /\ CurrFrom(next) <= changes[k].currAt
        BY <3>1, <3>4
      <4>3. prevIdx < changes[k].prevAt /\ currIdx < changes[k].currAt
        BY <1>2, <2>3, <3>2, <4>1, <4>2, SMTT(40)
      <4> QED
        BY <1>2, <3>2, <4>3, SMTT(40) DEF PrevLine, CurrLine, None
    <3> QED
      BY <1>2, <3>3, <3>4
  <2>9. Covers'
    <3> HIDE DEF r
    <3> QED
      BY <1>1, <1>4, <2>2, <2>5, <2>6, <2>8, CoversMore
  <2>10. Place'
    <3>1. /\ PrevTo(next - 1) \in Int /\ CurrTo(next - 1) \in Int
          /\ currIdx - CurrTo(next - 1) = prevIdx - PrevTo(next - 1)
      BY <1>2, <2>1, <2>2, <2>4, Spacing DEF Place
    <3>2. /\ PrevTo(next - 1) <= prevIdx' /\ prevIdx' <= PrevFrom(next)
          /\ currIdx' - CurrTo(next - 1) = prevIdx' - PrevTo(next - 1)
      <4>1. PrevFrom(next) \in Int
        BY <1>2, <2>4
      <4>2. prevIdx' = prevIdx + 1 /\ currIdx' = currIdx + 1
        BY <2>5
      <4>3. PrevTo(next - 1) <= prevIdx /\ prevIdx < PrevFrom(next)
        BY <2>3, <2>7
      <4>4. PrevTo(next - 1) <= prevIdx + 1 /\ prevIdx + 1 <= PrevFrom(next)
        BY <1>2, <3>1, <4>1, <4>3
      <4>5. (currIdx + 1) - CurrTo(next - 1) = (prevIdx + 1) - PrevTo(next - 1)
        BY <1>2, <3>1, SMTT(40)
      <4> QED
        BY <4>2, <4>4, <4>5
    <3>3. next \in 0..Len(changes) + 1 /\ next - 1 \in 0..Len(changes) + 1
      BY <1>2
    <3> QED
      BY <1>5, <2>1, <3>2, <3>3 DEF Place, Walked
  <2> QED
    BY <2>9, <2>10
<1>8. CASE Remove
  <2>1. format \in Walking /\ at = "walk" /\ at' = "add" /\ next' = next /\ currIdx' = currIdx
    BY <1>8 DEF Remove, Go
  <2>2. Place /\ Covers
    BY <1>4, <2>1 DEF WalkInv, OnWalk
  <2>3. next \in 1..Len(changes) /\ prevIdx = PrevFrom(next) /\ currIdx = CurrFrom(next)
    BY <1>4, <1>8, <2>1, <2>2, AtTheChange DEF Remove
  <2>4. prevIdx = changes[next].prevAt
    BY <1>2, <2>3 DEF PrevFrom
  <2>5. next # 0 /\ next \in 0..Len(changes) + 1
    BY <1>2, <2>3
  <2>6. CASE changes[next].side = "curr"
    <3>1. rows' = rows /\ prevIdx' = prevIdx
      BY <1>8, <2>6 DEF Remove, Removal, PrevLine
    <3>2. Covers'
      BY <1>4, <2>1, <2>2, <3>1 DEF Covers, HasAllPrev, HasAllCurr, HasNoOther, InOrder, KeptAlone,
         HasPrev, HasCurr, PrevLine, CurrLine
    <3>3. prevIdx' = PrevTo(next)
      BY <2>4, <2>5, <2>6, <3>1 DEF PrevTo, PrevEnd
    <3> QED
      BY <1>5, <2>1, <2>3, <2>5, <3>2, <3>3 DEF Place, Walked
  <2>7. CASE changes[next].side # "curr"
    <3>1. PrevLine(changes[next]) = prevIdx /\ prevIdx # None /\ prevIdx < prev
      <4>1. PrevLine(changes[next]) = prevIdx
        BY <2>4, <2>7 DEF PrevLine
      <4>2. prevIdx # None
        BY <1>2 DEF None
      <4> QED
        BY <1>1, <1>2, <2>3, <4>1, <4>2, Reported, SMTT(40)
    <3> DEFINE r == RemovedRow(prevIdx)
    <3>2. rows' = Append(rows, r) /\ prevIdx' = prevIdx + 1
      BY <1>2, <1>8, <2>1, <3>1 DEF Remove, Removal, Past, Greatest
    <3>3. r \in Row /\ HasPrev(r) /\ ~HasCurr(r) /\ r.prev = prevIdx /\ r.sign # "="
      BY <1>1, RowTypes DEF RemovedRow, HasPrev, HasCurr, TypeInv, Types
    <3>4. Covers'
      <4> HIDE DEF r
      <4> QED
        BY <1>1, <1>4, <2>1, <2>2, <3>2, <3>3, CoversMore
    <3>5. prevIdx' = PrevTo(next)
      BY <2>4, <2>5, <2>7, <3>2 DEF PrevTo, PrevEnd
    <3> QED
      BY <1>5, <2>1, <2>3, <2>5, <3>4, <3>5 DEF Place, Walked
  <2> QED
    BY <2>6, <2>7
<1>9. CASE Add
  <2>1. format \in Walking /\ at = "add" /\ at' = "walk" /\ next' = next + 1 /\ prevIdx' = prevIdx
    BY <1>9 DEF Add, Go
  <2>2. Place /\ Covers
    BY <1>4, <2>1 DEF WalkInv, OnWalk
  <2>3. next \in 1..Len(changes) /\ prevIdx = PrevTo(next) /\ currIdx = CurrFrom(next)
    BY <1>1, <1>2, <2>1, <2>2 DEF Place, TypeInv, Shape
  <2>4. currIdx = changes[next].currAt
    BY <1>2, <2>3 DEF CurrFrom
  <2>5. next # 0 /\ next \in 0..Len(changes) + 1 /\ next + 1 \in 1..Len(changes) + 1
        /\ next + 1 \in 0..Len(changes) + 1 /\ (next + 1) - 1 = next
    BY <1>2, <2>3
  <2>6. currIdx' = CurrTo(next) => Place'
    <3>1. PrevTo(next) \in 0..PrevFrom(next + 1) /\ CurrTo(next) \in Int /\ PrevFrom(next + 1) \in Int
      <4>1. PrevFrom(next + 1) \in 0..prev /\ CurrFrom(next + 1) \in 0..curr
        BY <2>5, Spacing
      <4>2. PrevTo(next) \in 0..PrevFrom(next + 1) /\ CurrTo(next) \in 0..CurrFrom(next + 1)
        BY <2>5, Spacing
      <4> QED
        BY <1>2, <4>1, <4>2
    <3>2. ASSUME currIdx' = CurrTo(next)
          PROVE  /\ PrevTo(next' - 1) <= prevIdx' /\ prevIdx' <= PrevFrom(next')
                 /\ currIdx' - CurrTo(next' - 1) = prevIdx' - PrevTo(next' - 1)
      BY <1>2, <2>1, <2>3, <2>5, <3>1, <3>2
    <3> QED
      BY <1>5, <2>1, <2>5, <3>2 DEF Place, Walked
  <2>7. CASE changes[next].side = "prev"
    <3>1. rows' = rows /\ currIdx' = currIdx
      BY <1>9, <2>7 DEF Add, CurrLine
    <3>2. Covers'
      BY <1>4, <2>1, <2>2, <3>1 DEF Covers, HasAllPrev, HasAllCurr, HasNoOther, InOrder, KeptAlone,
         HasPrev, HasCurr, PrevLine, CurrLine
    <3>3. currIdx' = CurrTo(next)
      BY <2>4, <2>5, <2>7, <3>1 DEF CurrTo, CurrEnd
    <3> QED
      BY <2>6, <3>2, <3>3
  <2>8. CASE changes[next].side # "prev"
    <3>1. CurrLine(changes[next]) = currIdx /\ currIdx # None /\ currIdx < curr
      <4>1. CurrLine(changes[next]) = currIdx
        BY <2>4, <2>8 DEF CurrLine
      <4>2. currIdx # None
        BY <1>2 DEF None
      <4> QED
        BY <1>1, <1>2, <2>3, <4>1, <4>2, Reported
    <3> DEFINE r == AddedRow(currIdx)
    <3>2. rows' = Append(rows, r) /\ currIdx' = currIdx + 1
      BY <1>2, <1>9, <2>1, <3>1 DEF Add, Past, Greatest
    <3>3. r \in Row /\ HasCurr(r) /\ ~HasPrev(r) /\ r.curr = currIdx /\ r.sign # "="
      BY <1>1, RowTypes DEF AddedRow, HasPrev, HasCurr, TypeInv, Types
    <3>4. Covers'
      <4> HIDE DEF r
      <4> QED
        BY <1>1, <1>4, <2>1, <2>2, <3>2, <3>3, CoversMore
    <3>5. currIdx' = CurrTo(next)
      BY <2>4, <2>5, <2>8, <3>2 DEF CurrTo, CurrEnd
    <3> QED
      BY <2>6, <3>4, <3>5
  <2> QED
    BY <2>7, <2>8
<1>10. CASE SideBySide
  <2>1. format \in Walking /\ at = "walk" /\ at' = "walk" /\ next' = next + 1
    BY <1>10 DEF SideBySide, Go, Walking, Formats
  <2>2. Place /\ Covers
    BY <1>4, <2>1 DEF WalkInv, OnWalk
  <2>3. next \in 1..Len(changes) /\ prevIdx = PrevFrom(next) /\ currIdx = CurrFrom(next)
    BY <1>4, <1>10, <2>1, <2>2, AtTheChange DEF SideBySide
  <2>4. prevIdx = changes[next].prevAt /\ currIdx = changes[next].currAt
    BY <1>2, <2>3 DEF PrevFrom, CurrFrom
  <2>5. next # 0 /\ next \in 0..Len(changes) + 1 /\ next + 1 \in 1..Len(changes) + 1
        /\ next + 1 \in 0..Len(changes) + 1 /\ (next + 1) - 1 = next
    BY <1>2, <2>3
  <2> DEFINE p == PrevLine(changes[next])
             c == CurrLine(changes[next])
             r == PairRow(p, c)
  <2>6. /\ changes[next].side \in {"prev", "curr", "both"}
        /\ p = None \/ p \in 0..prev - 1
        /\ c = None \/ c \in 0..curr - 1
        /\ p = IF changes[next].side = "curr" THEN None ELSE prevIdx
        /\ c = IF changes[next].side = "prev" THEN None ELSE currIdx
    BY <1>1, <2>3, <2>4, Reported DEF PrevLine, CurrLine
  <2>7. rows' = Append(rows, r)
        /\ prevIdx' = (IF p = None THEN prevIdx ELSE p + 1)
        /\ currIdx' = (IF c = None THEN currIdx ELSE c + 1)
    <3>1. p < prev /\ c < curr
      BY <1>2, <2>6 DEF None
    <3> QED
      BY <1>10, <3>1 DEF SideBySide
  <2> HIDE DEF p, c
  <2>8. /\ r \in Row /\ r.sign # "="
        /\ HasPrev(r) <=> p # None
        /\ HasCurr(r) <=> c # None
        /\ HasPrev(r) => r.prev = prevIdx
        /\ HasCurr(r) => r.curr = currIdx
    <3>1. prevIdx # None /\ currIdx # None
      BY <1>2 DEF None
    <3>2. RemovedRow(prevIdx) \in Row /\ AddedRow(currIdx) \in Row /\ ModifiedRow(prevIdx, currIdx) \in Row
      BY <1>1, RowTypes DEF TypeInv, Types
    <3> QED
      BY <2>6, <3>1, <3>2 DEF PairRow, RemovedRow, AddedRow, ModifiedRow, HasPrev, HasCurr
  <2>9. Covers'
    <3>1. /\ prevIdx' = IF HasPrev(r) THEN prevIdx + 1 ELSE prevIdx
          /\ currIdx' = IF HasCurr(r) THEN currIdx + 1 ELSE currIdx
      BY <1>2, <2>6, <2>7, <2>8
    <3> HIDE DEF r
    <3> QED
      BY <1>1, <1>4, <2>2, <2>7, <2>8, <3>1, CoversMore
  <2>10. Place'
    <3>1. prevIdx' = PrevTo(next) /\ currIdx' = CurrTo(next)
      <4>1. prevIdx # None /\ currIdx # None
        BY <1>2 DEF None
      <4> QED
        BY <2>4, <2>5, <2>6, <2>7, <4>1 DEF PrevTo, CurrTo, PrevEnd, CurrEnd
    <3>2. PrevTo(next) \in 0..PrevFrom(next + 1) /\ CurrTo(next) \in Int /\ PrevFrom(next + 1) \in Int
      <4>1. PrevFrom(next + 1) \in 0..prev /\ CurrFrom(next + 1) \in 0..curr
        BY <2>5, Spacing
      <4>2. PrevTo(next) \in 0..PrevFrom(next + 1) /\ CurrTo(next) \in 0..CurrFrom(next + 1)
        BY <2>5, Spacing
      <4> QED
        BY <1>2, <4>1, <4>2
    <3>3. /\ PrevTo(next' - 1) <= prevIdx' /\ prevIdx' <= PrevFrom(next')
          /\ currIdx' - CurrTo(next' - 1) = prevIdx' - PrevTo(next' - 1)
      BY <1>2, <2>1, <2>5, <3>1, <3>2
    <3> QED
      BY <1>5, <2>1, <2>5, <3>3 DEF Place, Walked
  <2> QED
    BY <2>9, <2>10
<1> DEFINE Stays == UNCHANGED <<rows, prevIdx, currIdx, changes>>
<1>11. ASSUME Stays, Covers PROVE Covers'
  BY <1>11 DEF Covers, HasAllPrev, HasAllCurr, HasNoOther, InOrder, KeptAlone,
     HasPrev, HasCurr, PrevLine, CurrLine
<1>12. CASE WalkEnds
  <2>1. /\ format \in Walking /\ at = "walk" /\ at' \in {"hunks", "done", "view"} /\ next > Len(changes)
        /\ ~(prevIdx < prev /\ currIdx < curr)
        /\ Stays
    BY <1>4, <1>12 DEF WalkEnds, Go, walk
  <2>2. Place /\ Covers
    BY <1>4, <2>1 DEF WalkInv, OnWalk
  <2>3. PrevFrom(next) = prev /\ CurrFrom(next) = curr
    BY <1>2, <2>1 DEF PrevFrom, CurrFrom
  <2>4. prevIdx = prev /\ currIdx = curr
    <3>1. /\ PrevTo(next - 1) \in 0..PrevFrom(next) /\ CurrTo(next - 1) \in 0..CurrFrom(next)
          /\ PrevFrom(next) - PrevTo(next - 1) = CurrFrom(next) - CurrTo(next - 1)
      BY <1>2, <1>4, Spacing
    <3> QED
      BY <1>2, <2>1, <2>2, <2>3, <3>1 DEF Place
  <2> QED
    BY <1>4, <1>11, <2>1, <2>2, <2>4 DEF Place
<1>13. CASE \/ Widen \/ HunksEnd \/ Show \/ CollectRemoved \/ CollectAdded \/ ShowRuns \/ ShowEnds
            \/ UNCHANGED vars
  <2>1. Stays /\ UNCHANGED <<format, fell>>
    BY <1>13 DEF Widen, HunksEnd, Show, CollectRemoved, CollectAdded, ShowRuns, ShowEnds,
       vars, input, walk, Go
  <2>2. OnWalk /\ (Walked' => Walked) /\ (at' \in {"walk", "add"} => at' = at /\ next' = next)
    <3>1. CASE UNCHANGED vars
      BY <3>1 DEF vars, walk, OnWalk, Walked
    <3>2. CASE \/ Widen \/ HunksEnd \/ Show \/ CollectRemoved \/ CollectAdded \/ ShowRuns \/ ShowEnds
      <4>1. /\ at \in {"hunks", "view", "collect"} /\ at' \in {"hunks", "view", "collect", "done"}
            /\ result' \in {result, "unchanged"}
        BY <3>2 DEF Widen, HunksEnd, Show, CollectRemoved, CollectAdded, ShowRuns, ShowEnds, Go
      <4> QED
        BY <2>1, <4>1 DEF OnWalk, Walked
    <3> QED
      BY <1>13, <3>1, <3>2
  <2>3. Place /\ Covers
    BY <1>4, <2>1, <2>2 DEF WalkInv
  <2>4. next \in 0..Len(changes) + 1 /\ next - 1 \in 0..Len(changes) + 1
    BY <1>2
  <2>5. Place'
    BY <1>4, <1>5, <2>1, <2>2, <2>3, <2>4 DEF Place
  <2> QED
    BY <1>11, <2>1, <2>3, <2>5
<1>14. CASE FallBack \/ LineAdded \/ LineRemoved \/ SaysUnchanged \/ Refuse
  <2>1. /\ at' \in {"added", "removed"} \/ result' \in {"unchanged", "error"} \/ fell'
        /\ at' \notin {"walk", "add"}
    BY <1>1, <1>14 DEF FallBack, LineAdded, LineRemoved, SaysUnchanged, Refuse, Return, Go, TypeInv, Shape
  <2> QED
    BY <2>1 DEF OnWalk, Walked
<1> QED
  BY <1>3, <1>6, <1>7, <1>8, <1>9, <1>10, <1>12, <1>13, <1>14 DEF Next

\* Both files are read in full.
THEOREM BothRead == Spec => []ReadsBoth
<1>1. Init => AnswerInv /\ WalkInv
  BY TypeInit, WalkInit DEF AnswerInv
<1>2. AnswerInv /\ WalkInv => ReadsBoth
  <2> SUFFICES ASSUME AnswerInv, WalkInv, Walked, format \in Walking, Exact PROVE Covers /\ Place
    BY DEF ReadsBoth, Covers, Place, HasAllPrev, HasAllCurr, InOrder, KeptAlone
  <2> QED
    BY DEF WalkInv, OnWalk
<1> QED
  BY <1>1, <1>2, AnswerStep, WalkStep, PTL DEF Spec
-----------------------------------------------------------------------------
(* The lines that are reported. *)

RemovedIn(k) ==
  PrevLine(changes[k]) # None =>
    \E i \in 1..Len(rows) : rows[i].sign \in {"-", "-+"} /\ rows[i].prev = PrevLine(changes[k])
AddedIn(k) ==
  CurrLine(changes[k]) # None =>
    \E i \in 1..Len(rows) : rows[i].sign \in {"+", "-+"} /\ rows[i].curr = CurrLine(changes[k])

\* The changes the walk has passed are in the rows.
ReportInv ==
  /\ \A k \in 1..Len(changes) : k < next => RemovedIn(k) /\ AddedIn(k)
  /\ at = "add" => RemovedIn(next)
  /\ Walked => next = Len(changes) + 1

\* Rows are only appended while a diff is rendered.
LEMMA RowsKept ==
  ASSUME TypeInv, [Next]_vars
  PROVE  /\ Len(rows) \in Nat /\ Len(rows') \in Nat /\ Len(rows) <= Len(rows')
         /\ \A i \in 1..Len(rows) : rows'[i] = rows[i]
<1>1. rows \in Seq(Row) /\ rows' \in Seq(Row)
  BY TypeStep DEF TypeInv, Types
<1>2. rows' = rows \/ \E r : rows' = Append(rows, r)
  <2>1. rows' = rows \/ LineAdded \/ LineRemoved \/ Keep \/ Remove \/ Add \/ SideBySide
    BY DEF Next, vars, input, walk, Report, FallBack, SaysUnchanged, Refuse, Begin, WalkEnds,
           Widen, HunksEnd, Show, CollectRemoved, CollectAdded, ShowRuns, ShowEnds, Return
  <2> QED
    BY <2>1 DEF LineAdded, LineRemoved, Keep, Remove, Add, SideBySide
<1>3. ASSUME NEW r, rows' = Append(rows, r)
      PROVE  Len(rows') = Len(rows) + 1 /\ \A i \in 1..Len(rows) : rows'[i] = rows[i]
  BY <1>1, <1>3
<1> QED
  BY <1>1, <1>2, <1>3

LEMMA StillIn ==
  ASSUME TypeInv, [Next]_vars, changes' = changes, NEW k \in 1..Len(changes)
  PROVE  (RemovedIn(k) => RemovedIn(k)') /\ (AddedIn(k) => AddedIn(k)')
<1>1. \A i \in 1..Len(rows) : i \in 1..Len(rows') /\ rows'[i] = rows[i]
  BY RowsKept
<1>2. ASSUME RemovedIn(k) PROVE RemovedIn(k)'
  <2>1. ASSUME PrevLine(changes[k]) # None
        PROVE  \E i \in 1..Len(rows') : rows'[i].sign \in {"-", "-+"}
                                        /\ rows'[i].prev = PrevLine(changes[k])
    <3>1. PICK i \in 1..Len(rows) : rows[i].sign \in {"-", "-+"} /\ rows[i].prev = PrevLine(changes[k])
      BY <1>2, <2>1 DEF RemovedIn
    <3> QED
      BY <1>1, <3>1
  <2> QED
    BY <2>1 DEF RemovedIn, PrevLine
<1>3. ASSUME AddedIn(k) PROVE AddedIn(k)'
  <2>1. ASSUME CurrLine(changes[k]) # None
        PROVE  \E i \in 1..Len(rows') : rows'[i].sign \in {"+", "-+"}
                                        /\ rows'[i].curr = CurrLine(changes[k])
    <3>1. PICK i \in 1..Len(rows) : rows[i].sign \in {"+", "-+"} /\ rows[i].curr = CurrLine(changes[k])
      BY <1>3, <2>1 DEF AddedIn
    <3> QED
      BY <1>1, <3>1
  <2> QED
    BY <2>1 DEF AddedIn, CurrLine
<1> QED
  BY <1>2, <1>3

LEMMA ReportInit == Init => ReportInv
  BY EmptySeq DEF Init, ReportInv, Walked

LEMMA ReportStep == AnswerInv /\ ReportInv /\ [Next]_vars => ReportInv'
<1> SUFFICES ASSUME AnswerInv, ReportInv, [Next]_vars PROVE ReportInv'
  OBVIOUS
<1>0. TypeInv /\ TypeInv'
  BY TypeStep DEF AnswerInv
<1>1. /\ TypeInv /\ TypeInv' /\ rows \in Seq(Row)
      /\ next \in 1..Len(changes) + 1 /\ Len(changes) \in Nat
      /\ prev \in Nat /\ curr \in Nat /\ prev \in 0..MaxLines /\ curr \in 0..MaxLines
      /\ MaxLines \in Nat
  <2>1. /\ rows \in Seq(Row) /\ next \in 1..Len(changes) + 1 /\ changes \in Seq(Change)
        /\ prev \in 0..MaxLines /\ curr \in 0..MaxLines
    BY DEF AnswerInv, TypeInv, Types
  <2> QED
    BY <1>0, <2>1, RenderAssumption
<1>2. ASSUME NEW c \in Change, Report(c) PROVE ReportInv'
  BY <1>1, <1>2 DEF Report, walk, ReportInv, Walked, TypeInv, Shape
<1>3. ASSUME UNCHANGED <<changes, next>>, at' \notin {"add"}, Walked' => Walked
      PROVE  ReportInv'
  <2>1. ASSUME NEW k \in 1..Len(changes), k < next PROVE RemovedIn(k)' /\ AddedIn(k)'
    <3>1. RemovedIn(k) /\ AddedIn(k)
      BY <2>1 DEF ReportInv
    <3> QED
      BY <1>1, <1>3, <3>1, StillIn
  <2> QED
    BY <1>1, <1>3, <2>1 DEF ReportInv
<1>4. CASE Begin \/ SaysUnchanged \/ Refuse \/ FallBack \/ LineAdded \/ LineRemoved
  <2>1. UNCHANGED <<changes, next>> /\ at' \notin {"add"} /\ ~Walked'
    BY <1>1, <1>4 DEF Begin, SaysUnchanged, Refuse, FallBack, LineAdded, LineRemoved, Return, Go,
       walk, input, Walked, TypeInv, Shape
  <2> QED
    BY <1>3, <2>1
<1>5. CASE Keep
  BY <1>3, <1>5 DEF Keep, Go, input, Walked
<1>6. CASE Remove
  <2>1. /\ at' = "add" /\ UNCHANGED <<changes, next>> /\ next \in 1..Len(changes) /\ ~Walked'
    BY <1>1, <1>6 DEF Remove, AtChange, Go, input, Walked
  <2>2. ASSUME NEW k \in 1..Len(changes), k < next PROVE RemovedIn(k)' /\ AddedIn(k)'
    <3>1. RemovedIn(k) /\ AddedIn(k)
      BY <2>2 DEF ReportInv
    <3> QED
      BY <1>1, <2>1, <3>1, StillIn
  <2> DEFINE p == PrevLine(changes[next])
  <2>3. ASSUME p # None
        PROVE  \E i \in 1..Len(rows') : rows'[i].sign \in {"-", "-+"} /\ rows'[i].prev = p
    <3>1. p \in 0..prev - 1
      BY <1>1, <2>1, <2>3, Reported
    <3>2. rows' = Append(rows, RemovedRow(p))
      BY <1>1, <1>6, <2>3, <3>1 DEF Remove, Removal
    <3>3. RemovedRow(p) \in Row
      BY <1>1, <3>1, RowTypes
    <3>4. Len(rows) + 1 \in 1..Len(rows') /\ rows'[Len(rows) + 1] = RemovedRow(p)
      BY <1>1, <3>2, <3>3, Appended
    <3> QED
      BY <3>4 DEF RemovedRow
  <2>4. RemovedIn(next)'
    BY <2>1, <2>3 DEF RemovedIn, PrevLine
  <2> QED
    BY <2>1, <2>2, <2>4 DEF ReportInv
<1>7. CASE Add
  <2>1. /\ at = "add" /\ at' = "walk" /\ next \in 1..Len(changes) /\ next' = next + 1
        /\ changes' = changes /\ ~Walked'
    BY <1>1, <1>7 DEF Add, Go, input, Walked, TypeInv, Shape
  <2>2. ASSUME NEW k \in 1..Len(changes), k < next PROVE RemovedIn(k)' /\ AddedIn(k)'
    <3>1. RemovedIn(k) /\ AddedIn(k)
      BY <2>2 DEF ReportInv
    <3> QED
      BY <1>1, <2>1, <3>1, StillIn
  <2>3. ASSUME NEW k \in 1..Len(changes), k = next PROVE RemovedIn(k)'
    <3>1. RemovedIn(k)
      BY <2>1, <2>3 DEF ReportInv
    <3> QED
      BY <1>1, <2>1, <3>1, StillIn
  <2> DEFINE c == CurrLine(changes[next])
  <2>4. ASSUME c # None
        PROVE  \E i \in 1..Len(rows') : rows'[i].sign \in {"+", "-+"} /\ rows'[i].curr = c
    <3>1. c \in 0..curr - 1
      BY <1>1, <2>1, <2>4, Reported
    <3>2. rows' = Append(rows, AddedRow(c))
      BY <1>1, <1>7, <2>4, <3>1 DEF Add
    <3>3. AddedRow(c) \in Row
      BY <1>1, <3>1, RowTypes
    <3>4. Len(rows) + 1 \in 1..Len(rows') /\ rows'[Len(rows) + 1] = AddedRow(c)
      BY <1>1, <3>2, <3>3, Appended
    <3> QED
      BY <3>4 DEF AddedRow
  <2>5. ASSUME NEW k \in 1..Len(changes), k = next PROVE AddedIn(k)'
    BY <2>1, <2>4, <2>5 DEF AddedIn, CurrLine
  <2> QED
    BY <1>1, <2>1, <2>2, <2>3, <2>5 DEF ReportInv
<1>8. CASE SideBySide
  <2>1. /\ at' = "walk" /\ next \in 1..Len(changes) /\ next' = next + 1
        /\ changes' = changes /\ ~Walked'
    BY <1>1, <1>8 DEF SideBySide, AtChange, Go, input, Walked
  <2>2. ASSUME NEW k \in 1..Len(changes), k < next PROVE RemovedIn(k)' /\ AddedIn(k)'
    <3>1. RemovedIn(k) /\ AddedIn(k)
      BY <2>2 DEF ReportInv
    <3> QED
      BY <1>1, <2>1, <3>1, StillIn
  <2> DEFINE p == PrevLine(changes[next])
             c == CurrLine(changes[next])
             r == PairRow(p, c)
  <2>3. (p = None \/ p \in 0..prev - 1) /\ (c = None \/ c \in 0..curr - 1) /\ ~(p = None /\ c = None)
    BY <1>1, <2>1, Reported DEF PrevLine, CurrLine, None
  <2>4. r \in Row
    <3>1. /\ p # None => p \in 0..MaxLines
          /\ c # None => c \in 0..MaxLines
          /\ 0 \in 0..MaxLines
      BY <1>1, <2>3
    <3> QED
      BY <2>3, <3>1, RowTypes DEF PairRow
  <2>5. rows' = Append(rows, r)
    <3>1. p < prev /\ c < curr
      BY <1>1, <2>3 DEF None
    <3> QED
      BY <1>8, <3>1 DEF SideBySide
  <2>6. Len(rows) + 1 \in 1..Len(rows') /\ rows'[Len(rows) + 1] = r
    BY <1>1, <2>4, <2>5, Appended
  <2>7. /\ p # None => r.sign \in {"-", "-+"} /\ r.prev = p
        /\ c # None => r.sign \in {"+", "-+"} /\ r.curr = c
    BY <2>3 DEF PairRow, RemovedRow, AddedRow, ModifiedRow
  <2>8. ASSUME NEW k \in 1..Len(changes), k = next PROVE RemovedIn(k)' /\ AddedIn(k)'
    BY <2>1, <2>6, <2>7, <2>8 DEF RemovedIn, AddedIn, PrevLine, CurrLine
  <2> QED
    BY <1>1, <2>1, <2>2, <2>8 DEF ReportInv
<1>9. CASE WalkEnds
  <2>1. UNCHANGED <<changes, next>> /\ at' \notin {"add"} /\ next = Len(changes) + 1
    BY <1>1, <1>9 DEF WalkEnds, Go, input, walk
  <2>2. ASSUME NEW k \in 1..Len(changes), k < next PROVE RemovedIn(k)' /\ AddedIn(k)'
    <3>1. RemovedIn(k) /\ AddedIn(k)
      BY <2>2 DEF ReportInv
    <3> QED
      BY <1>1, <2>1, <3>1, StillIn
  <2> QED
    BY <1>1, <2>1, <2>2 DEF ReportInv
<1>10. CASE Widen \/ HunksEnd \/ Show \/ CollectRemoved \/ CollectAdded \/ ShowRuns \/ ShowEnds
  <2>1. /\ at \in {"hunks", "view", "collect"} /\ at' \in {"hunks", "view", "collect", "done"}
        /\ result' \in {result, "unchanged"} /\ fell' = fell /\ UNCHANGED <<changes, next>>
    BY <1>10 DEF Widen, HunksEnd, Show, CollectRemoved, CollectAdded, ShowRuns, ShowEnds, Go, input, walk
  <2> QED
    BY <1>3, <2>1 DEF Walked
<1>11. CASE UNCHANGED vars
  BY <1>11 DEF vars, input, walk, ReportInv, RemovedIn, AddedIn, PrevLine, CurrLine, Walked
<1> QED
  BY <1>2, <1>4, <1>5, <1>6, <1>7, <1>8, <1>9, <1>10, <1>11 DEF Next
-----------------------------------------------------------------------------
(* The hunks. *)

Near(i, j) == i - ContextLines <= j /\ j <= i + ContextLines

InHunk(i) == \E h \in 1..Len(hunks) : hunks[h][1] <= i /\ i < hunks[h][2]

Separate == \A h \in 1..Len(hunks) - 1 : hunks[h][2] < hunks[h + 1][1]

\* The hunks are what is near the changes up to a row.
HunksUpTo(n) ==
  \A i \in 1..Len(rows) : InHunk(i) <=> \E j \in 1..n : rows[j].sign # "=" /\ Near(i, j)

HunkInv ==
  /\ at = "hunks" =>
       /\ HunksUpTo(pos - 1) /\ Separate
       /\ hunks # <<>> => hunks[Len(hunks)][1] <= From
  /\ Walked /\ at # "hunks" /\ format = "context" => HunksUpTo(Len(rows)) /\ Separate

LEMMA HunkInit == Init => HunkInv
  BY DEF Init, HunkInv, Walked

\* The range of a row is what is near it.
LEMMA FromTo ==
  ASSUME TypeInv, NEW i \in 1..Len(rows), pos <= Len(rows)
  PROVE  /\ From \in 1..Len(rows) /\ To \in 1..Len(rows) + 1 /\ From <= pos /\ pos < To
         /\ Near(i, pos) <=> From <= i /\ i < To
<1>1. pos \in Nat /\ pos >= 1 /\ Len(rows) \in Nat /\ ContextLines \in Nat
  BY RenderAssumption DEF TypeInv, Types
<1>2. From = IF 1 > pos - ContextLines THEN 1 ELSE pos - ContextLines
  BY DEF From, Greatest
<1>3. To = (IF pos + ContextLines < Len(rows) THEN pos + ContextLines ELSE Len(rows)) + 1
  BY DEF To, Least
<1> QED
  BY <1>1, <1>2, <1>3 DEF Near

LEMMA HunkStep == TypeInv /\ HunkInv /\ [Next]_vars => HunkInv'
<1> SUFFICES ASSUME TypeInv, HunkInv, [Next]_vars PROVE HunkInv'
  OBVIOUS
<1>1. /\ rows \in Seq(Row) /\ Len(rows) \in Nat /\ pos \in 1..Len(rows) + 1
      /\ hunks \in Seq((1..Len(rows)) \X (1..Len(rows) + 1)) /\ Len(hunks) \in Nat
  BY DEF TypeInv, Types
<1>2. \A h \in 1..Len(hunks) : hunks[h][1] \in 1..Len(rows) /\ hunks[h][2] \in 1..Len(rows) + 1
  BY <1>1
<1>3. CASE WalkEnds
  <2>1. CASE format = "context"
    <3>1. at' = "hunks" /\ hunks' = <<>> /\ pos' = 1 /\ rows' = rows
      BY <1>3, <2>1 DEF WalkEnds, Go, shown, walk, TypeInv, Shape, Building
    <3>2. Len(hunks') = 0
      BY <3>1, EmptySeq
    <3> QED
      BY <3>1, <3>2 DEF HunkInv, HunksUpTo, InHunk, Separate, Walked
  <2>2. CASE format # "context"
    BY <1>3, <2>2 DEF WalkEnds, Go, HunkInv, Walked
  <2> QED
    BY <2>1, <2>2
<1>4. CASE Widen
  <2>1. /\ at = "hunks" /\ at' = "hunks" /\ pos <= Len(rows) /\ pos' = pos + 1 /\ rows' = rows
        /\ pos \in 1..Len(rows)
    BY <1>1, <1>4 DEF Widen, Go, walk
  <2>2. HunksUpTo(pos - 1) /\ Separate /\ (hunks # <<>> => hunks[Len(hunks)][1] <= From)
    BY <2>1 DEF HunkInv
  <2>3. From \in 1..Len(rows) /\ To \in 1..Len(rows) + 1 /\ From <= pos /\ pos < To
    BY <2>1, FromTo
  <2>4. From' \in Int /\ From <= From'
    BY <1>1, <2>1, RenderAssumption DEF From, Greatest
  <2> DEFINE Known(i) == \E j \in 1..pos - 1 : rows[j].sign # "=" /\ Near(i, j)
             Now(i) == \E j \in 1..pos : rows[j].sign # "=" /\ Near(i, j)
             In(i) == \E h \in 1..Len(hunks') : hunks'[h][1] <= i /\ i < hunks'[h][2]
  <2>5. \A i \in 1..Len(rows) : InHunk(i) <=> Known(i)
    BY <2>2 DEF HunksUpTo
  <2>6. \A i \in 1..Len(rows) : Now(i) <=> Known(i) \/ (rows[pos].sign # "=" /\ Near(i, pos))
    BY <1>1, <2>1
  <2>7. ASSUME \A i \in 1..Len(rows) : In(i) <=> Now(i),
               \A h \in 1..Len(hunks') - 1 : hunks'[h][2] < hunks'[h + 1][1],
               hunks' # <<>> => hunks'[Len(hunks')][1] <= From'
        PROVE  HunkInv'
    <3>1. pos' - 1 = pos
      BY <1>1, <2>1
    <3> QED
      BY <2>1, <2>7, <3>1 DEF HunkInv, HunksUpTo, InHunk, Separate, Near
  <2>8. CASE rows[pos].sign = "="
    <3>1. hunks' = hunks
      BY <1>4, <2>8 DEF Widen
    <3>2. \A i \in 1..Len(rows) : In(i) <=> InHunk(i)
      BY <3>1 DEF InHunk
    <3>3. hunks # <<>> => hunks[Len(hunks)][1] \in Int
      BY <1>1, <1>2
    <3>4. hunks' # <<>> => hunks'[Len(hunks')][1] <= From'
      BY <2>2, <2>3, <2>4, <3>1, <3>3
    <3> QED
      BY <2>2, <2>5, <2>6, <2>7, <2>8, <3>1, <3>2, <3>4 DEF Separate
  <2>9. CASE rows[pos].sign # "=" /\ hunks # <<>> /\ Joins(hunks[Len(hunks)])
    <3> DEFINE n == Len(hunks)
               e == Joined(hunks[n])
    <3>1. n \in 1..Len(hunks) /\ hunks' = [hunks EXCEPT ![n] = e]
      BY <1>1, <1>4, <2>9 DEF Widen
    <3>2. Len(hunks') = n /\ hunks'[n] = e /\ \A h \in 1..n : h # n => hunks'[h] = hunks[h]
      BY <1>1, <3>1
    <3>3. hunks[n][1] \in 1..Len(rows) /\ hunks[n][2] \in 1..Len(rows) + 1
      BY <1>2, <3>1
    <3>4. /\ e[1] = hunks[n][1] /\ e[2] = IF hunks[n][2] > To THEN hunks[n][2] ELSE To
          /\ hunks[n][1] <= From /\ From <= hunks[n][2]
      BY <2>2, <2>9 DEF Joined, Joins, Greatest
    <3> HIDE DEF n, e
    <3>5. ASSUME NEW i \in 1..Len(rows)
          PROVE  e[1] <= i /\ i < e[2] <=> (hunks[n][1] <= i /\ i < hunks[n][2]) \/ Near(i, pos)
      <4>1. Near(i, pos) <=> From <= i /\ i < To
        BY <2>1, FromTo
      <4>2. From \in Int /\ To \in Int /\ hunks[n][1] \in Int /\ hunks[n][2] \in Int
        BY <1>1, <2>3, <3>3
      <4> QED
        BY <3>4, <4>1, <4>2
    <3>6. ASSUME NEW i \in 1..Len(rows) PROVE In(i) <=> InHunk(i) \/ Near(i, pos)
      <4>1. ASSUME In(i) PROVE InHunk(i) \/ Near(i, pos)
        <5>1. PICK h \in 1..n : hunks'[h][1] <= i /\ i < hunks'[h][2]
          BY <3>2, <4>1
        <5> QED
          BY <3>2, <3>5, <5>1 DEF InHunk, n
      <4>2. ASSUME InHunk(i) PROVE In(i)
        <5>1. PICK h \in 1..n : hunks[h][1] <= i /\ i < hunks[h][2]
          BY <4>2 DEF InHunk, n
        <5> QED
          BY <3>2, <3>5, <5>1
      <4>3. ASSUME Near(i, pos) PROVE In(i)
        BY <3>1, <3>2, <3>5, <4>3 DEF n
      <4> QED
        BY <4>1, <4>2, <4>3
    <3>7. ASSUME NEW h \in 1..Len(hunks') - 1 PROVE hunks'[h][2] < hunks'[h + 1][1]
      <4>1. h \in 1..n - 1 /\ h \in 1..n /\ h # n /\ h + 1 \in 1..n
        <5>1. n \in Nat /\ n >= 1
          BY <1>1, <3>1 DEF n
        <5>2. h \in 1..n - 1
          BY <3>2, <3>7
        <5> QED
          BY <5>1, <5>2
      <4>2. hunks[h][2] < hunks[h + 1][1]
        BY <2>2, <4>1 DEF Separate, n
      <4> QED
        BY <3>2, <3>4, <4>1, <4>2
    <3>8. hunks'[Len(hunks')][1] <= From'
      BY <2>3, <2>4, <3>2, <3>3, <3>4
    <3> QED
      BY <2>5, <2>6, <2>7, <2>9, <3>6, <3>7, <3>8
  <2>10. CASE rows[pos].sign # "=" /\ ~(hunks # <<>> /\ Joins(hunks[Len(hunks)]))
    <3> DEFINE n == Len(hunks)
               e == <<From, To>>
    <3>1. hunks' = Append(hunks, e)
      BY <1>4, <2>10 DEF Widen
    <3>2. Len(hunks') = n + 1 /\ hunks'[n + 1] = e /\ \A h \in 1..n : hunks'[h] = hunks[h]
      BY <1>1, <2>3, <3>1, Appended
    <3>3. n \in Nat /\ e[1] = From /\ e[2] = To
      BY <1>1
    <3>4. n # 0 => hunks[n][2] < From
      <4>1. n # 0 => hunks # <<>> /\ n \in 1..Len(hunks)
        BY <1>1, EmptySeq
      <4> QED
        BY <1>2, <2>3, <2>10, <4>1 DEF Joins
    <3> HIDE DEF n, e
    <3>5. ASSUME NEW i \in 1..Len(rows) PROVE In(i) <=> InHunk(i) \/ Near(i, pos)
      <4>1. e[1] <= i /\ i < e[2] <=> Near(i, pos)
        BY <2>1, <3>3, FromTo
      <4>2. ASSUME In(i) PROVE InHunk(i) \/ Near(i, pos)
        <5>1. PICK h \in 1..n + 1 : hunks'[h][1] <= i /\ i < hunks'[h][2]
          BY <3>2, <4>2
        <5>2. h \in 1..n \/ h = n + 1
          BY <3>3
        <5> QED
          BY <3>2, <4>1, <5>1, <5>2 DEF InHunk, n
      <4>3. ASSUME InHunk(i) PROVE In(i)
        <5>1. PICK h \in 1..n : hunks[h][1] <= i /\ i < hunks[h][2]
          BY <4>3 DEF InHunk, n
        <5>2. h \in 1..n + 1
          BY <3>3
        <5> QED
          BY <3>2, <5>1, <5>2
      <4>4. ASSUME Near(i, pos) PROVE In(i)
        <5>1. n + 1 \in 1..n + 1
          BY <3>3
        <5> QED
          BY <3>2, <4>1, <4>4, <5>1
      <4> QED
        BY <4>2, <4>3, <4>4
    <3>6. ASSUME NEW h \in 1..Len(hunks') - 1 PROVE hunks'[h][2] < hunks'[h + 1][1]
      <4>1. h \in 1..n
        BY <3>2, <3>3, <3>6
      <4>2. CASE h = n
        BY <3>2, <3>3, <3>4, <4>1, <4>2
      <4>3. CASE h # n
        <5>1. h \in 1..n - 1 /\ h + 1 \in 1..n
          BY <3>3, <4>1, <4>3
        <5>2. hunks[h][2] < hunks[h + 1][1]
          BY <2>2, <5>1 DEF Separate, n
        <5> QED
          BY <3>2, <4>1, <5>1, <5>2
      <4> QED
        BY <4>2, <4>3
    <3>7. hunks'[Len(hunks')][1] <= From'
      BY <2>3, <2>4, <3>2, <3>3
    <3> QED
      BY <2>5, <2>6, <2>7, <2>10, <3>5, <3>6, <3>7
  <2> QED
    BY <2>8, <2>9, <2>10
<1>5. CASE HunksEnd
  <2>1. /\ at = "hunks" /\ at' # "hunks" /\ pos > Len(rows) /\ UNCHANGED <<rows, hunks>>
    BY <1>5 DEF HunksEnd, Go, walk
  <2>2. HunksUpTo(Len(rows)) /\ Separate
    <3>1. pos - 1 = Len(rows)
      BY <1>1, <2>1
    <3> QED
      BY <2>1, <3>1 DEF HunkInv
  <2> QED
    BY <2>1, <2>2 DEF HunkInv, HunksUpTo, InHunk, Separate, Near
<1>6. ASSUME at' # "hunks", ~Walked' PROVE HunkInv'
  BY <1>6 DEF HunkInv
<1>7. ASSUME NEW c \in Change, Report(c) PROVE HunkInv'
  BY <1>7 DEF Report, HunkInv, Walked
<1>8. CASE FallBack \/ LineAdded \/ LineRemoved \/ SaysUnchanged \/ Refuse \/ Begin \/ Keep \/ Remove \/ Add \/ SideBySide
  <2>1. at' # "hunks" /\ ~Walked'
    BY <1>8 DEF FallBack, LineAdded, LineRemoved, SaysUnchanged, Refuse, Begin, Keep, Remove, Add,
       SideBySide, Return, Go, Walked, TypeInv, Shape
  <2> QED
    BY <1>6, <2>1
<1>9. CASE Show \/ CollectRemoved \/ CollectAdded \/ ShowRuns \/ ShowEnds
  <2>1. /\ at \in {"view", "collect"} /\ at' # "hunks" /\ (Walked' => Walked)
        /\ UNCHANGED <<rows, hunks, format>>
    BY <1>9 DEF Show, CollectRemoved, CollectAdded, ShowRuns, ShowEnds, Go, walk, shown, Walked
  <2> QED
    BY <2>1 DEF HunkInv, HunksUpTo, InHunk, Separate, Near
<1>10. CASE UNCHANGED vars
  BY <1>10 DEF vars, walk, shown, HunkInv, HunksUpTo, InHunk, Separate, Near, Walked, From
<1> QED
  BY <1>3, <1>4, <1>5, <1>7, <1>8, <1>9, <1>10 DEF Next

\* The hunks are the rows near a change, and no change is hidden.
THEOREM HunksAreRight == Spec => []HunksRight
<1>1. TypeInv /\ HunkInv => HunksRight
  BY DEF HunkInv, HunksRight, HunksUpTo, InHunk, Near, Separate, Visible
<1> QED
  BY <1>1, TypeInit, TypeStep, HunkInit, HunkStep, PTL DEF Spec
\* A row of a change is in the text.
LEMMA ChangeVisible ==
  ASSUME TypeInv, HunkInv, Walked \/ fell, at # "hunks", NEW i \in 1..Len(rows), rows[i].sign # "="
  PROVE  Visible(i)
<1>1. CASE format # "context"
  BY <1>1 DEF Visible
<1>2. CASE format = "context"
  <2>1. Walked
    BY <1>2 DEF TypeInv, Shape
  <2>2. Near(i, i)
    <3>1. Len(rows) \in Nat
      BY DEF TypeInv, Types
    <3> QED
      BY <3>1, RenderAssumption DEF Near
  <2>3. InHunk(i)
    BY <1>2, <2>1, <2>2 DEF HunkInv, HunksUpTo
  <2> QED
    BY <2>3 DEF Visible, InHunk
<1> QED
  BY <1>1, <1>2

\* No change is hidden.
THEOREM NoChangeHidden == Spec => []ChangesShown
<1>1. TypeInv /\ HunkInv /\ ReportInv => ChangesShown
  <2> SUFFICES ASSUME TypeInv, HunkInv, ReportInv, Walked, at = "done", NEW k \in 1..Len(changes)
               PROVE  /\ PrevLine(changes[k]) # None =>
                           \E i \in 1..Len(rows) : /\ Visible(i) /\ rows[i].sign \in {"-", "-+"}
                                                   /\ rows[i].prev = PrevLine(changes[k])
                      /\ CurrLine(changes[k]) # None =>
                           \E i \in 1..Len(rows) : /\ Visible(i) /\ rows[i].sign \in {"+", "-+"}
                                                   /\ rows[i].curr = CurrLine(changes[k])
    BY DEF ChangesShown
  <2>1. RemovedIn(k) /\ AddedIn(k)
    <3>1. next = Len(changes) + 1 /\ Len(changes) \in Nat
      BY DEF ReportInv, TypeInv, Types
    <3> QED
      BY <3>1 DEF ReportInv
  <2>2. \A i \in 1..Len(rows) : rows[i].sign \in {"-", "+", "-+"} => Visible(i)
    BY ChangeVisible
  <2>3. ASSUME PrevLine(changes[k]) # None
        PROVE  \E i \in 1..Len(rows) : /\ Visible(i) /\ rows[i].sign \in {"-", "-+"}
                                       /\ rows[i].prev = PrevLine(changes[k])
    <3>1. PICK i \in 1..Len(rows) : rows[i].sign \in {"-", "-+"} /\ rows[i].prev = PrevLine(changes[k])
      BY <2>1, <2>3 DEF RemovedIn
    <3> QED
      BY <2>2, <3>1
  <2>4. ASSUME CurrLine(changes[k]) # None
        PROVE  \E i \in 1..Len(rows) : /\ Visible(i) /\ rows[i].sign \in {"+", "-+"}
                                       /\ rows[i].curr = CurrLine(changes[k])
    <3>1. PICK i \in 1..Len(rows) : rows[i].sign \in {"+", "-+"} /\ rows[i].curr = CurrLine(changes[k])
      BY <2>1, <2>4 DEF AddedIn
    <3> QED
      BY <2>2, <3>1
  <2> QED
    BY <2>3, <2>4
<1>2. Init => AnswerInv /\ HunkInv /\ ReportInv
  BY TypeInit, WalkInit, HunkInit, ReportInit DEF AnswerInv
<1>3. AnswerInv /\ HunkInv /\ ReportInv /\ [Next]_vars => (AnswerInv /\ HunkInv /\ ReportInv)'
  BY AnswerStep, HunkStep, ReportStep DEF AnswerInv
<1>4. AnswerInv => TypeInv
  BY DEF AnswerInv
<1> QED
  BY <1>1, <1>2, <1>3, <1>4, PTL DEF Spec

-----------------------------------------------------------------------------
(* The viewer. *)

Viewing == at \in {"view", "collect"} \/ (at = "done" /\ result = "changed" /\ format # "side_by_side")

\* The rows before the one the viewer is at are shown, once they are visible.
ViewedUpTo == \A i \in 1..Len(rows) : (\E x \in 1..Len(view) : view[x] = i) <=> i < pos /\ Visible(i)

SameSide(i, j) ==
  \/ HasPrev(rows[i]) /\ HasPrev(rows[j])
  \/ HasCurr(rows[i]) /\ HasCurr(rows[j])

ViewedInOrder ==
  \A x, y \in 1..Len(view) : x < y /\ SameSide(view[x], view[y]) => view[x] < view[y]

\* The runs the viewer collects.
Collected ==
  /\ \A i \in pos..removedTo - 1 : rows[i].sign = "-"
  /\ \A i \in removedTo..addedTo - 1 : rows[i].sign = "+"

ViewInv ==
  /\ Viewing => ViewedUpTo /\ ViewedInOrder /\ (Walked \/ fell)
  /\ at = "collect" => Collected
  /\ at = "done" /\ Viewing => pos = Len(rows) + 1

LEMMA ViewInit == Init => ViewInv
  BY DEF Init, ViewInv, Viewing

\* What is visible stays so while the rows and the hunks do.
LEMMA VisibleKept ==
  ASSUME UNCHANGED <<format, hunks>>, NEW i PROVE Visible(i)' = Visible(i)
  BY DEF Visible

LEMMA ViewStep == TypeInv /\ HunkInv /\ ViewInv /\ [Next]_vars => ViewInv'
<1> SUFFICES ASSUME TypeInv, HunkInv, ViewInv, [Next]_vars PROVE ViewInv'
  OBVIOUS
<1>1. /\ rows \in Seq(Row) /\ Len(rows) \in Nat /\ pos \in 1..Len(rows) + 1
      /\ view \in Seq(1..Len(rows)) /\ Len(view) \in Nat
      /\ removedTo \in 1..Len(rows) + 1 /\ addedTo \in 1..Len(rows) + 1
  BY DEF TypeInv, Types
<1>2. \A x \in 1..Len(view) : view[x] \in 1..Len(rows)
  BY <1>1
<1>3. ASSUME pos' = 1, view' = <<>>, at' = "view", (Walked \/ fell)' PROVE ViewInv'
  <2>1. Len(view') = 0
    BY <1>3, EmptySeq
  <2>2. ViewedUpTo' /\ ViewedInOrder'
    BY <1>3, <2>1 DEF ViewedUpTo, ViewedInOrder
  <2> QED
    BY <1>3, <2>2 DEF ViewInv
<1>4. ASSUME ~Viewing' PROVE ViewInv'
  BY <1>4 DEF ViewInv, Viewing
<1>5. CASE WalkEnds
  <2>1. at = "walk" /\ view = <<>> /\ pos = 1 /\ UNCHANGED <<pos, view, format, fell>> /\ result' = "changed"
    BY <1>5 DEF WalkEnds, Go, shown, TypeInv, Shape, Building
  <2>2. CASE format \in {"unified", "full_file"}
    <3>1. at' = "view"
      BY <1>5, <2>2 DEF WalkEnds, Go
    <3> QED
      BY <1>3, <2>1, <3>1 DEF Walked
  <2>3. CASE format = "context"
    <3>1. at' = "hunks"
      BY <1>5, <2>3 DEF WalkEnds, Go
    <3> QED
      BY <1>4, <3>1 DEF Viewing
  <2>4. CASE format = "side_by_side"
    <3>1. at' = "done"
      BY <1>5, <2>4 DEF WalkEnds, Go
    <3> QED
      BY <1>4, <2>1, <2>4, <3>1 DEF Viewing
  <2> QED
    BY <2>2, <2>3, <2>4 DEF TypeInv, Types, Formats
<1>6. CASE HunksEnd
  <2>1. view' = <<>> /\ pos' = 1 /\ format' = "context" /\ ~fell' /\ result = "changed"
    BY <1>6 DEF HunksEnd, Go, TypeInv, Shape
  <2>2. CASE hunks = <<>>
    BY <1>4, <1>6, <2>2 DEF HunksEnd, Go, Viewing
  <2>3. CASE hunks # <<>>
    <3>1. at' = "view" /\ result' = "changed"
      BY <1>6, <2>1, <2>3 DEF HunksEnd, Go
    <3> QED
      BY <1>3, <2>1, <3>1 DEF Walked
  <2> QED
    BY <2>2, <2>3
<1>7. CASE LineRemoved
  <2>1. at = "removed" /\ fell' /\ view = <<>> /\ pos = 1 /\ UNCHANGED <<pos, view>>
    BY <1>7 DEF LineRemoved, Go, shown, TypeInv, Shape, Building
  <2>2. at' \in {"removed", "view"}
    BY <1>7 DEF LineRemoved, Go
  <2> QED
    BY <1>3, <1>4, <2>1, <2>2 DEF Viewing
<1>8. ASSUME NEW c \in Change, Report(c) PROVE ViewInv'
  BY <1>4, <1>8 DEF Report, Viewing
<1>9. CASE FallBack \/ LineAdded \/ SaysUnchanged \/ Refuse \/ Begin \/ Keep \/ Remove \/ Add \/ SideBySide \/ Widen
  <2>1. ~Viewing'
    BY <1>9 DEF FallBack, LineAdded, SaysUnchanged, Refuse, Begin, Keep, Remove, Add, SideBySide, Widen,
       Return, Go, Viewing
  <2> QED
    BY <1>4, <2>1
<1>10. CASE Show
  <2>1. /\ at = "view" /\ at' = "view" /\ pos \in 1..Len(rows) /\ pos' = pos + 1
        /\ UNCHANGED <<rows, hunks, format, result, fell>>
        /\ view' = IF Visible(pos) THEN Append(view, pos) ELSE view
    BY <1>1, <1>10 DEF Show, Go, walk
  <2>2. ViewedUpTo /\ ViewedInOrder /\ (Walked \/ fell)
    BY <2>1 DEF ViewInv, Viewing
  <2>3. (Walked \/ fell)'
    BY <2>1, <2>2 DEF Walked
  <2>4. CASE ~Visible(pos)
    <3>1. \A i \in 1..Len(rows) : (\E x \in 1..Len(view) : view[x] = i) <=> i < pos + 1 /\ Visible(i)
      BY <1>1, <2>1, <2>2, <2>4 DEF ViewedUpTo
    <3>2. ViewedUpTo'
      BY <2>1, <2>4, <3>1, VisibleKept DEF ViewedUpTo
    <3>3. ViewedInOrder'
      BY <2>1, <2>2, <2>4 DEF ViewedInOrder, SameSide, HasPrev, HasCurr
    <3> QED
      BY <2>1, <2>3, <3>2, <3>3 DEF ViewInv
  <2>5. CASE Visible(pos)
    <3>1. /\ Len(view') = Len(view) + 1 /\ view'[Len(view) + 1] = pos
          /\ \A x \in 1..Len(view) : view'[x] = view[x]
      BY <1>1, <2>1, <2>5, Appended
    <3>2. \A x \in 1..Len(view') : x \in 1..Len(view) \/ x = Len(view) + 1
      BY <1>1, <3>1
    <3>3. \A x \in 1..Len(view) : view[x] < pos
      BY <1>2, <2>2 DEF ViewedUpTo
    <3>4. ASSUME NEW i \in 1..Len(rows)
          PROVE  (\E x \in 1..Len(view') : view'[x] = i) <=> i < pos + 1 /\ Visible(i)
      <4>1. ASSUME NEW x \in 1..Len(view'), view'[x] = i PROVE i < pos + 1 /\ Visible(i)
        <5>1. CASE x \in 1..Len(view)
          BY <1>1, <2>1, <2>2, <3>1, <4>1, <5>1 DEF ViewedUpTo
        <5>2. CASE x = Len(view) + 1
          BY <2>1, <2>5, <3>1, <4>1, <5>2
        <5> QED
          BY <3>2, <5>1, <5>2
      <4>2. ASSUME i < pos + 1, Visible(i) PROVE \E x \in 1..Len(view') : view'[x] = i
        <5>1. CASE i = pos
          <6>1. Len(view) + 1 \in 1..Len(view')
            BY <1>1, <3>1
          <6> QED
            BY <3>1, <5>1, <6>1
        <5>2. CASE i < pos
          <6>1. PICK x \in 1..Len(view) : view[x] = i
            BY <2>2, <4>2, <5>2 DEF ViewedUpTo
          <6>2. x \in 1..Len(view')
            BY <1>1, <3>1
          <6> QED
            BY <3>1, <6>1, <6>2
        <5> QED
          BY <2>1, <4>2, <5>1, <5>2
      <4> QED
        BY <4>1, <4>2
    <3>5. ViewedUpTo'
      BY <2>1, <3>4, VisibleKept DEF ViewedUpTo
    <3>6. ASSUME NEW x \in 1..Len(view'), NEW y \in 1..Len(view'), x < y, SameSide(view'[x], view'[y])
          PROVE  view'[x] < view'[y]
      <4>1. x \in 1..Len(view)
        BY <1>1, <3>1, <3>6
      <4>2. CASE y \in 1..Len(view)
        BY <2>2, <3>1, <3>6, <4>1, <4>2 DEF ViewedInOrder
      <4>3. CASE y = Len(view) + 1
        BY <3>1, <3>3, <4>1, <4>3
      <4> QED
        BY <3>2, <4>2, <4>3
    <3>7. ViewedInOrder'
      BY <2>1, <3>6 DEF ViewedInOrder, SameSide, HasPrev, HasCurr
    <3> QED
      BY <2>1, <2>3, <3>5, <3>7 DEF ViewInv
  <2> QED
    BY <2>4, <2>5
<1>11. CASE CollectRemoved \/ CollectAdded
  <2>1. /\ at \in {"view", "collect"} /\ at' = "collect"
        /\ UNCHANGED <<pos, rows, hunks, format, view, result, fell>>
    BY <1>11 DEF CollectRemoved, CollectAdded, Go, walk
  <2>2. ViewedUpTo /\ ViewedInOrder /\ (Walked \/ fell)
    BY <2>1 DEF ViewInv, Viewing
  <2>3. (Walked \/ fell)'
    BY <2>1, <2>2 DEF Walked
  <2>4. ViewedUpTo'
    BY <2>1, <2>2, VisibleKept DEF ViewedUpTo
  <2>5. ViewedInOrder'
    BY <2>1, <2>2 DEF ViewedInOrder, SameSide, HasPrev, HasCurr
  <2>6. Collected'
    <3>1. CASE CollectRemoved
      <4>1. /\ \/ at = "view" /\ InRun(pos, "-") /\ removedTo' = pos + 1
               \/ at = "collect" /\ InRun(removedTo, "-") /\ removedTo' = removedTo + 1
            /\ addedTo' = removedTo'
        BY <3>1 DEF CollectRemoved
      <4>2. \A i \in pos..removedTo' - 1 : rows[i].sign = "-"
        <5>1. CASE at = "view"
          BY <1>1, <4>1, <5>1 DEF InRun
        <5>2. CASE at = "collect"
          BY <1>1, <4>1, <5>2 DEF InRun, ViewInv, Collected
        <5> QED
          BY <2>1, <5>1, <5>2
      <4>3. removedTo' \in Int
        BY <1>1, <4>1
      <4> QED
        BY <2>1, <4>1, <4>2, <4>3 DEF Collected
    <3>2. CASE CollectAdded
      <4>1. /\ at = "collect" /\ InRun(addedTo, "+") /\ addedTo' = addedTo + 1 /\ removedTo' = removedTo
        BY <3>2 DEF CollectAdded
      <4>2. Collected
        BY <4>1 DEF ViewInv
      <4>3. \A i \in removedTo..addedTo' - 1 : i \in removedTo..addedTo - 1 \/ i = addedTo
        BY <1>1, <4>1
      <4> QED
        BY <2>1, <4>1, <4>2, <4>3 DEF Collected, InRun
    <3> QED
      BY <1>11, <3>1, <3>2
  <2> QED
    BY <2>1, <2>3, <2>4, <2>5, <2>6 DEF ViewInv
<1>12. CASE ShowRuns
  <2> DEFINE s == Paired(pos, removedTo, addedTo)
  <2>1. /\ at = "collect" /\ at' = "view" /\ pos' = addedTo /\ view' = view \o s
        /\ UNCHANGED <<rows, hunks, format, result, fell>>
    BY <1>12 DEF ShowRuns, Go, walk
  <2>2. ViewedUpTo /\ ViewedInOrder /\ (Walked \/ fell) /\ Collected
    BY <2>1 DEF ViewInv, Viewing
  <2>3. (Walked \/ fell)'
    BY <2>1, <2>2 DEF Walked
  <2>4. /\ pos \in Nat /\ removedTo \in Nat /\ addedTo \in Nat
        /\ pos <= removedTo /\ removedTo <= addedTo /\ addedTo - pos \in Nat
    BY <1>1, <2>1 DEF TypeInv, Shape
  <2>5. /\ s \in Seq(pos..addedTo - 1) /\ Len(s) = addedTo - pos
        /\ \A k \in 1..addedTo - pos : s[k] \in pos..addedTo - 1
        /\ \A v \in pos..addedTo - 1 : \E k \in 1..addedTo - pos : s[k] = v
        /\ \A k, l \in 1..addedTo - pos : k < l /\ (s[k] < removedTo <=> s[l] < removedTo) => s[k] < s[l]
    BY <2>4, PairedRuns
  <2> HIDE DEF s
  <2> DEFINE n == Len(view)
             m == addedTo - pos
  <2>6. /\ Len(view') = n + m
        /\ \A x \in 1..n : view'[x] = view[x]
        /\ \A k \in 1..m : view'[n + k] = s[k]
    <3>1. s \in Seq(Int) /\ view \in Seq(Int)
      BY <1>1, <2>4, <2>5
    <3>2. /\ Len(view \o s) = n + m
          /\ \A x \in 1..Len(view) + Len(s) :
               (view \o s)[x] = IF x <= Len(view) THEN view[x] ELSE s[x - Len(view)]
      BY <1>1, <2>4, <2>5, <3>1, ConcatProperties
    <3>3. ASSUME NEW k \in 1..m PROVE view'[n + k] = s[k]
      <4>1. n + k \in 1..Len(view) + Len(s) /\ ~(n + k <= Len(view)) /\ (n + k) - Len(view) = k
        BY <1>1, <2>4, <2>5, SMTT(40)
      <4> QED
        BY <2>1, <3>2, <4>1
    <3>4. ASSUME NEW x \in 1..n PROVE view'[x] = view[x]
      <4>1. x \in 1..Len(view) + Len(s) /\ x <= Len(view)
        BY <1>1, <2>4, <2>5
      <4> QED
        BY <2>1, <3>2, <4>1
    <3> QED
      BY <2>1, <3>2, <3>3, <3>4
  <2>7. n \in Nat /\ m \in Nat
    BY <1>1, <2>4
  <2> HIDE DEF n, m
  <2>8. ASSUME NEW x \in 1..Len(view')
        PROVE  x \in 1..n \/ \E k \in 1..m : x = n + k
    <3>1. CASE x <= n
      BY <2>6, <2>7, <3>1
    <3>2. CASE x > n
      <4>1. x - n \in 1..m /\ x = n + (x - n)
        BY <2>6, <2>7, <3>2
      <4> QED
        BY <4>1
    <3> QED
      BY <2>6, <2>7, <3>1, <3>2
  <2>9. \A v \in pos..addedTo - 1 : v \in 1..Len(rows) /\ Visible(v) /\ rows[v].sign \in {"-", "+"}
    <3> SUFFICES ASSUME NEW v \in pos..addedTo - 1
                 PROVE  v \in 1..Len(rows) /\ Visible(v) /\ rows[v].sign \in {"-", "+"}
      OBVIOUS
    <3>1. v \in 1..Len(rows)
      BY <1>1, <2>4
    <3>2. rows[v].sign = "-" \/ rows[v].sign = "+"
      BY <2>2, <2>4 DEF Collected
    <3> QED
      BY <2>1, <2>2, <3>1, <3>2, ChangeVisible
  <2>10. \A x \in 1..n : view[x] \in 1..Len(rows) /\ view[x] < pos
    BY <1>2, <2>2 DEF ViewedUpTo, n
  <2>11. ASSUME NEW i \in 1..Len(rows)
         PROVE  (\E x \in 1..Len(view') : view'[x] = i) <=> i < addedTo /\ Visible(i)
    <3>1. ASSUME NEW x \in 1..Len(view'), view'[x] = i PROVE i < addedTo /\ Visible(i)
      <4>1. CASE x \in 1..n
        <5>1. view[x] = i
          BY <2>6, <3>1, <4>1
        <5>2. i < pos /\ Visible(i)
          BY <2>2, <4>1, <5>1 DEF ViewedUpTo, n
        <5> QED
          BY <2>4, <5>2
      <4>2. CASE \E k \in 1..m : x = n + k
        <5>1. PICK k \in 1..m : x = n + k
          BY <4>2
        <5>2. i \in pos..addedTo - 1
          BY <2>5, <2>6, <3>1, <5>1 DEF m
        <5> QED
          BY <2>4, <2>9, <5>2
      <4> QED
        BY <2>8, <4>1, <4>2
    <3>2. ASSUME i < addedTo, Visible(i) PROVE \E x \in 1..Len(view') : view'[x] = i
      <4>1. CASE i < pos
        <5>1. PICK x \in 1..n : view[x] = i
          BY <2>2, <3>2, <4>1 DEF ViewedUpTo, n
        <5>2. x \in 1..Len(view')
          BY <2>6, <2>7
        <5> QED
          BY <2>6, <5>1, <5>2
      <4>2. CASE i >= pos
        <5>1. i \in pos..addedTo - 1
          BY <2>4, <3>2, <4>2
        <5>2. PICK k \in 1..m : s[k] = i
          BY <2>5, <5>1 DEF m
        <5>3. n + k \in 1..Len(view')
          BY <2>6, <2>7
        <5> QED
          BY <2>6, <5>2, <5>3
      <4> QED
        BY <2>4, <4>1, <4>2
    <3> QED
      BY <3>1, <3>2
  <2>12. ViewedUpTo'
    BY <2>1, <2>11, VisibleKept DEF ViewedUpTo
  <2>13. ASSUME NEW x \in 1..Len(view'), NEW y \in 1..Len(view'), x < y, SameSide(view'[x], view'[y])
         PROVE  view'[x] < view'[y]
    <3>1. CASE x \in 1..n /\ y \in 1..n
      <4>1. view'[x] = view[x] /\ view'[y] = view[y]
        BY <2>6, <3>1
      <4> QED
        BY <2>2, <2>13, <3>1, <4>1 DEF ViewedInOrder, n
    <3>2. CASE x \in 1..n /\ \E k \in 1..m : y = n + k
      <4>1. PICK k \in 1..m : y = n + k
        BY <3>2
      <4>2. view'[y] \in pos..addedTo - 1
        BY <2>5, <2>6, <4>1 DEF m
      <4>3. view'[x] = view[x] /\ view[x] \in Int /\ view[x] < pos
        BY <2>6, <2>10, <3>2
      <4> QED
        BY <2>4, <4>2, <4>3
    <3>3. CASE (\E k \in 1..m : x = n + k) /\ \E l \in 1..m : y = n + l
      <4>1. PICK k \in 1..m : x = n + k
        BY <3>3
      <4>2. PICK l \in 1..m : y = n + l
        BY <3>3
      <4>3. k < l
        BY <2>7, <2>13, <4>1, <4>2
      <4>4. /\ view'[x] = s[k] /\ view'[y] = s[l]
            /\ s[k] \in pos..addedTo - 1 /\ s[l] \in pos..addedTo - 1
        BY <2>5, <2>6, <4>1, <4>2 DEF m
      <4>5. rows[s[k]].sign = rows[s[l]].sign
        <5>1. rows[s[k]].sign \in {"-", "+"} /\ rows[s[l]].sign \in {"-", "+"}
          BY <2>9, <4>4
        <5>2. SameSide(s[k], s[l])
          BY <2>13, <4>4
        <5> QED
          BY <5>1, <5>2 DEF SameSide, HasPrev, HasCurr
      <4>6. s[k] < removedTo <=> s[l] < removedTo
        <5>1. \A v \in pos..addedTo - 1 : v < removedTo <=> rows[v].sign = "-"
          <6> SUFFICES ASSUME NEW v \in pos..addedTo - 1 PROVE v < removedTo <=> rows[v].sign = "-"
            OBVIOUS
          <6>1. v < removedTo => rows[v].sign = "-"
            BY <2>2, <2>4 DEF Collected
          <6>2. v >= removedTo => rows[v].sign = "+"
            BY <2>2, <2>4 DEF Collected
          <6> QED
            BY <2>4, <6>1, <6>2
        <5> QED
          BY <4>4, <4>5, <5>1
      <4> QED
        BY <2>5, <4>3, <4>4, <4>6 DEF m
    <3>4. CASE (\E k \in 1..m : x = n + k) /\ y \in 1..n
      BY <2>7, <2>13, <3>4
    <3> QED
      BY <2>8, <3>1, <3>2, <3>3, <3>4
  <2>14. ViewedInOrder'
    BY <2>1, <2>13 DEF ViewedInOrder, SameSide, HasPrev, HasCurr
  <2> QED
    BY <2>1, <2>3, <2>12, <2>14 DEF ViewInv
<1>13. CASE ShowEnds
  <2>1. /\ at = "view" /\ at' = "done" /\ pos > Len(rows)
        /\ UNCHANGED <<pos, rows, hunks, format, view, result, fell>>
    BY <1>13 DEF ShowEnds, Go, walk, shown
  <2>2. ViewedUpTo /\ ViewedInOrder /\ (Walked \/ fell)
    BY <2>1 DEF ViewInv, Viewing
  <2>3. (Walked \/ fell)'
    BY <2>1, <2>2 DEF Walked
  <2>4. ViewedUpTo'
    BY <2>1, <2>2, VisibleKept DEF ViewedUpTo
  <2>5. ViewedInOrder'
    BY <2>1, <2>2 DEF ViewedInOrder, SameSide, HasPrev, HasCurr
  <2>6. pos' = Len(rows') + 1
    BY <1>1, <2>1
  <2> QED
    BY <2>1, <2>3, <2>4, <2>5, <2>6 DEF ViewInv
<1>14. CASE UNCHANGED vars
  <2>1. UNCHANGED <<at, pos, rows, hunks, format, view, result, fell, removedTo, addedTo>>
    BY <1>14 DEF vars, walk, shown, runs
  <2>2. ViewedUpTo => ViewedUpTo'
    BY <2>1, VisibleKept DEF ViewedUpTo
  <2>3. ViewedInOrder => ViewedInOrder'
    BY <2>1 DEF ViewedInOrder, SameSide, HasPrev, HasCurr
  <2>4. Collected => Collected'
    BY <2>1 DEF Collected
  <2> QED
    BY <2>1, <2>2, <2>3, <2>4 DEF ViewInv, Viewing, Walked
<1> QED
  BY <1>5, <1>6, <1>7, <1>8, <1>9, <1>10, <1>11, <1>12, <1>13, <1>14 DEF Next

\* The viewer shows every line of the text once, in the order of each file.
THEOREM ViewerKeeps == Spec => []ViewKeeps
<1>1. TypeInv /\ ViewInv => ViewKeeps
  <2> SUFFICES ASSUME TypeInv, ViewInv, at = "done", result = "changed", format # "side_by_side"
               PROVE  ViewKeeps
    BY DEF ViewKeeps
  <2>1. ViewedUpTo /\ ViewedInOrder /\ pos = Len(rows) + 1
    BY DEF ViewInv, Viewing
  <2>2. \A i \in 1..Len(rows) : i < pos
    <3>1. Len(rows) \in Nat
      BY DEF TypeInv, Types
    <3> QED
      BY <2>1, <3>1
  <2> QED
    BY <2>1, <2>2 DEF ViewKeeps, ViewedUpTo, ViewedInOrder, SameSide
<1>2. Init => TypeInv /\ HunkInv /\ ViewInv
  BY TypeInit, HunkInit, ViewInit
<1>3. TypeInv /\ HunkInv /\ ViewInv /\ [Next]_vars => (TypeInv /\ HunkInv /\ ViewInv)'
  BY TypeStep, HunkStep, ViewStep
<1> QED
  BY <1>1, <1>2, <1>3, PTL DEF Spec
=============================================================================
