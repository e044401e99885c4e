------------------------- MODULE FileHistory_proofs -------------------------
(***************************************************************************)
(* Proofs about FileHistory, for every set of contents, every capacity of  *)
(* the channel to the main loop, and any number of edits, runs and faults. *)
(***************************************************************************)
EXTENDS FileHistory, SequenceTheorems, TLAPS

\* The steps that keep a content, and those that set its hash.
Setting == {"keepHash", "baseHash"}
Keeping == {"keepBlob", "baseBlob"} \union Setting

\* The types, with what AppendEvent and the writes of a content need.
TypeInv ==
  /\ TypeOK
  /\ pc # "down" => run # 0
  /\ pc \in Keeping => hand.curr \in Content

\* What the updates of the event in hand leave and set.
LEMMA NoHandType == NoHand \in Hand /\ Absent \in Item /\ NoHand.curr = Absent
  BY DEF NoHand, Hand, Item, Kind

\* The empty queue.
LEMMA Empty == <<>> \in Seq(Kind) /\ Len(<<>>) = 0
  OBVIOUS

\* The memory of an agent that has ended has its types.
LEMMA EndsTypes ==
  ASSUME Ends, BoundAssumption
  PROVE  /\ watching' \in BOOLEAN
         /\ raw' \in Seq(Kind) /\ out' \in Seq(Kind) /\ Len(out') <= OutCapacity
         /\ window' \in Kind \union {Absent} /\ held' \in Kind \union {Absent}
         /\ hand' \in Hand /\ known' \in Item
         /\ pc' = "down" /\ lastEdit' = "missed"
<1>1. watching' \in BOOLEAN
  BY DEF Ends
<1>2. raw' \in Seq(Kind) /\ out' \in Seq(Kind) /\ Len(out') = 0
  BY Empty DEF Ends
<1>3. Len(out') <= OutCapacity
  BY <1>2 DEF BoundAssumption
<1> QED
  BY <1>1, <1>2, <1>3, NoHandType DEF Ends

\* A kind taken from the channel, a content read by the baseline, the hash of a
\* removal, and both contents of a change.
LEMMA SetKind ==
  ASSUME NEW k \in Kind
  PROVE  [NoHand EXCEPT !.kind = k] \in Hand
  BY DEF NoHand, Hand, Item

LEMMA SetCurr ==
  ASSUME NEW c \in Item
  PROVE  /\ [NoHand EXCEPT !.curr = c] \in Hand
         /\ [NoHand EXCEPT !.curr = c].curr = c
  BY DEF NoHand, Hand, Item, Kind

LEMMA SetPrev ==
  ASSUME NEW h \in Hand, NEW p \in Item
  PROVE  /\ [h EXCEPT !.prev = p] \in Hand
         /\ [h EXCEPT !.prev = p].prev = p
         /\ [h EXCEPT !.prev = p].curr = h.curr
  BY DEF Hand

LEMMA SetBoth ==
  ASSUME NEW h \in Hand, NEW p \in Item, NEW c \in Item
  PROVE  /\ [h EXCEPT !.prev = p, !.curr = c] \in Hand
         /\ [h EXCEPT !.prev = p, !.curr = c].prev = p
         /\ [h EXCEPT !.prev = p, !.curr = c].curr = c
  BY DEF Hand

\* The watcher reports kinds of events.
LEMMA ReportTypes ==
  ASSUME raw \in Seq(Kind), NEW k \in Kind, Report(k)
  PROVE  raw' \in Seq(Kind)
<1>1. CASE watching
  BY <1>1 DEF Report
<1>2. CASE ~watching
  BY <1>2 DEF Report
<1> QED
  BY <1>1, <1>2

\* No step takes a variable out of its type.
LEMMA TypeStep == TypeInv /\ [Next]_vars => TypeInv'
<1> SUFFICES ASSUME TypeInv, [Next]_vars
             PROVE  TypeInv'
  OBVIOUS
<1> USE ContentAssumption, BoundAssumption
<1> USE DEF TypeInv, TypeOK, Step, Keeping, Setting, watchVars, storeVars,
            countVars
<1>1. CASE Start
  BY <1>1 DEF Start, Item
<1>2. CASE BaselineSkips
  BY <1>2 DEF BaselineSkips
<1>3. CASE BaselineReads
  <2>1. file \in Content /\ file \in Item
    BY <1>3 DEF BaselineReads, Item
  <2>2. hand' \in Hand /\ hand'.curr = file
    BY <1>3, <2>1, SetCurr DEF BaselineReads
  <2> QED
    BY <1>3, <2>1, <2>2 DEF BaselineReads
<1>4. CASE PublishInitial
  BY <1>4 DEF PublishInitial, Exists, Item
<1>5. CASE Take
  <2>1. Head(out) \in Kind /\ Tail(out) \in Seq(Kind) /\ Len(Tail(out)) <= Len(out)
    BY <1>5 DEF Take
  <2>2. hand' \in Hand
    BY <1>5, <2>1, SetKind DEF Take
  <2> QED
    BY <1>5, <2>1, <2>2 DEF Take
<1>6. CASE AcquireRemoved
  <2>1. hand' \in Hand
    BY <1>6, SetPrev DEF AcquireRemoved
  <2> QED
    BY <1>6, <2>1 DEF AcquireRemoved
<1>7. CASE AcquireTouched
  BY <1>7 DEF AcquireTouched
<1>8. CASE ReadFile
  <2>1. (IF Exists(known) THEN known ELSE Absent) \in Item
    BY DEF Exists, Item
  <2>2. hand' \in Hand
    BY <1>8, <2>1, SetBoth DEF ReadFile
  <2> QED
    BY <1>8, <2>2 DEF ReadFile
<1>9. CASE ReadFails
  BY <1>9, EndsTypes DEF ReadFails
<1>10. CASE AppendEvent
  <2>1. [prev |-> hand.prev, curr |-> hand.curr, run |-> run] \in Entry
    BY <1>10 DEF AppendEvent, Entry, Hand
  <2> QED
    BY <1>10, <2>1 DEF AppendEvent
<1>11. CASE Publish
  <2>1. hand.curr \in Item
    BY DEF Hand
  <2> QED
    BY <1>11, <2>1 DEF Publish, ContentFirst, Item
<1>12. CASE WriteBlob
  BY <1>12 DEF WriteBlob
<1>13. CASE SetHash
  BY <1>13 DEF SetHash, AfterKeep, Item
<1>14. CASE Watch
  BY <1>14 DEF Watch
<1>15. CASE Ingest
  <2>1. Head(raw) \in Kind /\ Tail(raw) \in Seq(Kind)
    BY <1>15 DEF Ingest
  <2> QED
    BY <1>15, <2>1 DEF Ingest, KeepLatest
<1>16. CASE SendDebounced
  <2>1. held \in Kind
    BY <1>16 DEF SendDebounced
  <2>2. /\ Append(out, held) \in Seq(Kind)
        /\ Len(Append(out, held)) = Len(out) + 1
    BY <2>1
  <2>3. Len(out) \in Nat
    OBVIOUS
  <2> QED
    BY <1>16, <2>2, <2>3 DEF SendDebounced, Room
<1>17. CASE Flush
  BY <1>17 DEF Flush
<1>18. ASSUME NEW c \in Item, Edit(c) PROVE TypeInv'
  <2>0. {"touched"} \subseteq Kind
    BY DEF Kind
  <2>1. PICK k \in Kind : Report(k)
    BY <1>18, <2>0 DEF Edit
  <2>2. raw' \in Seq(Kind)
    BY <2>1, ReportTypes
  <2> QED
    BY <1>18, <2>2 DEF Edit
<1>19. CASE Touch
  <2>1. raw' \in Seq(Kind)
    BY <1>19, ReportTypes DEF Touch, Kind
  <2> QED
    BY <1>19, <2>1 DEF Touch
<1>20. ASSUME NEW c \in Content, RemoveBlob(c) PROVE TypeInv'
  BY <1>20 DEF RemoveBlob
<1>21. CASE Crash
  BY <1>21, EndsTypes DEF Crash
<1>22. CASE PublishInitialFails
  BY <1>22 DEF PublishInitialFails, Fault
<1>23. CASE AppendFails
  BY <1>23 DEF AppendFails, Fault, AfterFailedAppend
<1>24. CASE WriteBlobFails
  <2>1. faults' \in 0..MaxFaults
    BY <1>24 DEF WriteBlobFails, Fault
  <2> QED
    BY <1>24, <2>1 DEF WriteBlobFails
<1>25. CASE SetHashFails
  BY <1>25 DEF SetHashFails, Fault, AfterKeep, Item
<1>26. CASE UNCHANGED vars
  BY <1>26 DEF vars
<1> QED
  BY <1>1, <1>2, <1>3, <1>4, <1>5, <1>6, <1>7, <1>8, <1>9, <1>10, <1>11, <1>12,
     <1>13, <1>14, <1>15, <1>16, <1>17, <1>18, <1>19, <1>20, <1>21, <1>22,
     <1>23, <1>24, <1>25, <1>26
     DEF Next, Main, Debounce, Environment, Failure

-----------------------------------------------------------------------------
(* The snapshot store. *)

Readable(c) == blobs[c] = "whole" \/ c \in lost

\* A hash is set only when the write of its content is over, well or badly.
StoreInv ==
  /\ KnownReadable
  /\ pc \in Setting => Readable(hand.curr)

\* No step sets a hash whose content was not written.
LEMMA StoreStep == TypeInv /\ StoreInv /\ [Next]_vars => StoreInv'
<1> SUFFICES ASSUME TypeInv, StoreInv, [Next]_vars
             PROVE  StoreInv'
  OBVIOUS
<1> USE ContentAssumption
<1> USE DEF StoreInv, KnownReadable, Readable, TypeInv, TypeOK, Item, Setting,
            Keeping, watchVars, storeVars, countVars
<1>1. CASE Start
  BY <1>1 DEF Start
<1>2. CASE WriteBlob
  BY <1>2 DEF WriteBlob
<1>3. CASE WriteBlobFails
  BY <1>3 DEF WriteBlobFails
<1>4. CASE SetHash \/ SetHashFails
  BY <1>4 DEF SetHash, SetHashFails, AfterKeep
<1>5. ASSUME NEW c \in Content, RemoveBlob(c) PROVE StoreInv'
  BY <1>5 DEF RemoveBlob
<1>6. CASE ReadFails
  BY <1>6 DEF ReadFails, Ends
<1>7. CASE Crash
  BY <1>7 DEF Crash, Ends
\* Every other step leaves the store alone and sets no hash next.
<1>8. CASE BaselineSkips \/ BaselineReads \/ PublishInitial \/ PublishInitialFails
  BY <1>8 DEF BaselineSkips, BaselineReads, PublishInitial, PublishInitialFails
<1>9. CASE Take \/ AcquireRemoved \/ AcquireTouched \/ ReadFile
  BY <1>9 DEF Take, AcquireRemoved, AcquireTouched, ReadFile
<1>10. CASE AppendEvent \/ AppendFails \/ Publish
  BY <1>10 DEF AppendEvent, AppendFails, Publish, AfterFailedAppend, ContentFirst
<1>11. CASE Watch \/ Ingest \/ SendDebounced \/ Flush \/ Touch
  BY <1>11 DEF Watch, Ingest, SendDebounced, Flush, Touch
<1>12. ASSUME NEW c \in Item, Edit(c) PROVE StoreInv'
  BY <1>12 DEF Edit
<1>13. CASE UNCHANGED vars
  BY <1>13 DEF vars
<1> QED
  BY <1>1, <1>2, <1>3, <1>4, <1>5, <1>6, <1>7, <1>8, <1>9, <1>10, <1>11, <1>12,
     <1>13 DEF Next, Main, Debounce, Environment, Failure

-----------------------------------------------------------------------------
(* The chain of the events. *)

\* The newest event is one of this run.
Newest == log[Len(log)]
InRun == log # <<>> /\ Newest.run = run

\* Where the main task stands agrees with the newest event: between two events
\* the hash in memory is the content it ended with, and while an event is on its
\* way the hash still is the one the event started from.
LinkInv ==
  /\ Linked
  /\ \A i \in 1..Len(log) : log[i].run <= run /\ LastContent(log[i]) # Absent
  /\ pc \in {"baseline", "baseBlob", "baseHash", "initial"} => ~InRun
  /\ pc \in {"idle", "acquire", "read", "append"} /\ InRun =>
       known = LastContent(Newest)
  /\ pc \in {"publish", "keepBlob", "keepHash"} =>
       /\ InRun
       /\ hand.curr = Newest.curr
       /\ hand.curr = Absent => known = Newest.prev
  /\ pc = "acquire" => hand.curr = Absent
  /\ pc = "append" =>
       /\ hand.prev \in {known, Absent}
       /\ hand.curr # known
       /\ hand.prev = Absent /\ known # Absent => known \in lost
       /\ hand.curr = Absent => hand.prev # Absent

IInv == TypeInv /\ StoreInv /\ LinkInv

\* An event is linked to the newest one of its run by the hash in memory.
LEMMA AppendLinks == IInv /\ AppendEvent => LinkInv'
<1> SUFFICES ASSUME IInv, AppendEvent
             PROVE  LinkInv'
  OBVIOUS
<1> DEFINE e == [prev |-> hand.prev, curr |-> hand.curr, run |-> run]
<1>1. log \in Seq(Entry) /\ e \in Entry /\ run \in Nat
  BY BoundAssumption DEF IInv, TypeInv, TypeOK, AppendEvent, Entry, Hand
<1>2. /\ log' = Append(log, e)
      /\ pc = "append" /\ pc' = "publish"
      /\ UNCHANGED <<hand, known, lost, run>>
  BY DEF AppendEvent, storeVars, countVars
<1>3. e.prev = hand.prev /\ e.curr = hand.curr /\ e.run = run
  OBVIOUS
<1> HIDE DEF e
<1>4. /\ Len(log') = Len(log) + 1
      /\ \A i \in 1..Len(log) : log'[i] = log[i]
      /\ log'[Len(log) + 1] = e
  BY <1>1, <1>2
<1>5. /\ hand.prev \in {known, Absent}
      /\ hand.curr # known
      /\ hand.prev = Absent /\ known # Absent => known \in lost
      /\ hand.curr = Absent => hand.prev # Absent
      /\ InRun => known = LastContent(Newest)
  BY <1>2 DEF IInv, LinkInv
<1>6. Newest' = e /\ InRun' /\ LastContent(e) # Absent
  BY <1>1, <1>2, <1>3, <1>4, <1>5 DEF Newest, InRun, LastContent
<1>7. Linked'
  <2> SUFFICES ASSUME NEW i \in 1..Len(log')-1, log'[i].run = log'[i + 1].run
               PROVE  /\ log'[i + 1].prev \in {Absent, LastContent(log'[i])}
                      /\ log'[i + 1].prev = Absent => LastContent(log'[i]) \in lost'
                      /\ log'[i + 1].curr # LastContent(log'[i])
    BY DEF Linked, LastContent
  <2>1. CASE i = Len(log)
    <3>1. Len(log) \in 1..Len(log) /\ log # <<>>
      BY <1>1, <1>4, <2>1
    <3>2. log'[i] = Newest /\ log'[i + 1] = e
      BY <1>4, <2>1, <3>1 DEF Newest
    <3>3. InRun
      BY <1>3, <3>1, <3>2 DEF InRun
    <3>4. known = LastContent(Newest) /\ known # Absent
      BY <1>5, <3>1, <3>3 DEF IInv, LinkInv, Newest
    <3> QED
      BY <1>2, <1>3, <1>5, <3>2, <3>4
  <2>2. CASE i # Len(log)
    <3>1. i \in 1..Len(log)-1 /\ i \in 1..Len(log) /\ i + 1 \in 1..Len(log)
      BY <1>1, <1>4, <2>2
    <3>2. log'[i] = log[i] /\ log'[i + 1] = log[i + 1]
      BY <1>4, <3>1
    <3> QED
      BY <1>2, <3>1, <3>2 DEF IInv, LinkInv, Linked
  <2> QED
    BY <2>1, <2>2
<1>8. \A i \in 1..Len(log') : log'[i].run <= run' /\ LastContent(log'[i]) # Absent
  <2> SUFFICES ASSUME NEW i \in 1..Len(log')
               PROVE  log'[i].run <= run' /\ LastContent(log'[i]) # Absent
    OBVIOUS
  <2>1. CASE i = Len(log) + 1
    BY <1>1, <1>2, <1>3, <1>4, <1>6, <2>1
  <2>2. CASE i # Len(log) + 1
    <3>1. i \in 1..Len(log)
      BY <1>1, <1>4, <2>2
    <3> QED
      BY <1>2, <1>4, <3>1 DEF IInv, LinkInv
  <2> QED
    BY <2>1, <2>2
<1> QED
  BY <1>2, <1>3, <1>5, <1>6, <1>7, <1>8 DEF LinkInv, LastContent

\* Whatever leaves the log alone and loses no content leaves the events linked.
LEMMA LogStays ==
  ASSUME UNCHANGED log, lost \subseteq lost', Linked
  PROVE  Linked'
  BY DEF Linked, LastContent

\* What the main loop has in hand once the file is read.
LEMMA ReadHand ==
  ASSUME TypeInv, ReadFile
  PROVE  hand'.prev = (IF Exists(known) THEN known ELSE Absent) /\ hand'.curr = file
<1> DEFINE p == IF Exists(known) THEN known ELSE Absent
<1>1. p \in Item /\ file \in Item /\ hand \in Hand
  BY DEF Exists, TypeInv, TypeOK, Item
<1>2. hand' = [hand EXCEPT !.prev = p, !.curr = file]
  BY DEF ReadFile
<1>3. p = IF Exists(known) THEN known ELSE Absent
  OBVIOUS
<1> HIDE DEF p
<1>4. [hand EXCEPT !.prev = p, !.curr = file].prev = p
  BY <1>1 DEF Hand
<1>5. [hand EXCEPT !.prev = p, !.curr = file].curr = file
  BY <1>1 DEF Hand
<1> QED
  BY <1>2, <1>3, <1>4, <1>5

\* No step parts the hash in memory from the newest event.
LEMMA LinkStep == IInv /\ [Next]_vars => LinkInv'
<1> SUFFICES ASSUME IInv, [Next]_vars
             PROVE  LinkInv'
  OBVIOUS
<1>1. CASE AppendEvent
  BY <1>1, AppendLinks
<1> USE ContentAssumption
<1> USE DEF IInv, TypeInv, TypeOK, Item, LinkInv, InRun, Newest, LastContent,
            watchVars, storeVars, countVars
<1>2. CASE Start
  <2>1. ~InRun'
    <3>1. ASSUME log # <<>> PROVE Len(log) \in 1..Len(log)
      BY <3>1
    <3>2. ASSUME log # <<>> PROVE log[Len(log)].run <= run
      BY <3>1, <3>2
    <3>3. ASSUME log # <<>> PROVE log[Len(log)] \in Entry
      BY <3>1, <3>3
    <3> QED
      BY <1>2, <3>2, <3>3, BoundAssumption DEF Start, Entry
  <2>2. \A i \in 1..Len(log) : log[i].run <= run'
    <3> SUFFICES ASSUME NEW i \in 1..Len(log) PROVE log[i].run <= run'
      OBVIOUS
    <3>1. log[i] \in Entry /\ log[i].run <= run
      OBVIOUS
    <3>2. log[i].run \in Nat /\ run \in Nat /\ run' = run + 1
      BY <1>2, <3>1, BoundAssumption, SMTT(40) DEF Start, Entry
    <3> QED
      BY <3>1, <3>2
  <2> QED
    BY <1>2, <2>1, <2>2, LogStays DEF Start
<1>3. CASE BaselineSkips \/ BaselineReads
  BY <1>3, LogStays DEF BaselineSkips, BaselineReads
<1>4. CASE PublishInitial \/ PublishInitialFails
  BY <1>4, LogStays DEF PublishInitial, PublishInitialFails
<1>5. CASE Take
  <2>1. hand'.curr = Absent
    BY <1>5 DEF Take, NoHand
  <2> QED
    BY <1>5, <2>1, LogStays DEF Take
<1>6. CASE AcquireRemoved
  <2>1. hand'.prev = known /\ hand'.curr = hand.curr
    BY <1>6, SetPrev DEF AcquireRemoved
  <2> QED
    BY <1>6, <2>1, LogStays DEF AcquireRemoved
<1>7. CASE AcquireTouched
  BY <1>7, LogStays DEF AcquireTouched
<1>8. CASE ReadFile
  <2>3. hand'.prev = (IF Exists(known) THEN known ELSE Absent) /\ hand'.curr = file
    BY <1>8, ReadHand
  <2>4. known # Absent /\ ~Exists(known) => known \in lost
    BY DEF StoreInv, KnownReadable, Exists
  <2> QED
    BY <1>8, <2>3, <2>4, LogStays DEF ReadFile
<1>9. CASE ReadFails
  BY <1>9, LogStays DEF ReadFails, Ends
<1>10. CASE AppendFails
  BY <1>10, LogStays DEF AppendFails, AfterFailedAppend
<1>11. CASE Publish
  BY <1>11, LogStays DEF Publish, ContentFirst
<1>12. CASE WriteBlob \/ WriteBlobFails
  BY <1>12, LogStays DEF WriteBlob, WriteBlobFails
<1>13. CASE SetHash \/ SetHashFails
  BY <1>13, LogStays DEF SetHash, SetHashFails, AfterKeep, Keeping, Setting
<1>14. CASE Watch \/ Ingest \/ SendDebounced \/ Flush \/ Touch
  BY <1>14, LogStays DEF Watch, Ingest, SendDebounced, Flush, Touch
<1>15. ASSUME NEW c \in Item, Edit(c) PROVE LinkInv'
  BY <1>15, LogStays DEF Edit
<1>16. ASSUME NEW c \in Content, RemoveBlob(c) PROVE LinkInv'
  BY <1>16, LogStays DEF RemoveBlob
<1>17. CASE Crash
  BY <1>17, LogStays DEF Crash, Ends
<1>18. CASE UNCHANGED vars
  BY <1>18, LogStays DEF vars
<1> QED
  BY <1>1, <1>2, <1>3, <1>4, <1>5, <1>6, <1>7, <1>8, <1>9, <1>10, <1>11, <1>12,
     <1>13, <1>14, <1>15, <1>16, <1>17, <1>18
     DEF Next, Main, Debounce, Environment, Failure

\* The invariant holds before the agent is first started.
LEMMA InitInv == Init => IInv
<1> SUFFICES ASSUME Init
             PROVE  IInv
  OBVIOUS
<1>1. TypeInv
  <2>1. log \in Seq(Entry) /\ log = <<>>
    BY DEF Init
  <2>2. watching \in BOOLEAN
    BY DEF Init
  <2>3. raw \in Seq(Kind) /\ out \in Seq(Kind) /\ Len(out) <= OutCapacity
    BY Empty, BoundAssumption DEF Init
  <2> QED
    BY <2>1, <2>2, <2>3, NoHandType, BoundAssumption
       DEF Init, TypeInv, TypeOK, Step, Keeping, Setting, Item
<1>2. StoreInv
  BY DEF Init, StoreInv, KnownReadable, Setting
<1>3. LinkInv
  BY DEF Init, LinkInv, Linked, InRun
<1> QED
  BY <1>1, <1>2, <1>3 DEF IInv

-----------------------------------------------------------------------------
\* The inductive invariant.
THEOREM Invariance == Spec => []IInv
<1>1. IInv /\ [Next]_vars => IInv'
  BY TypeStep, StoreStep, LinkStep DEF IInv
<1> QED
  BY InitInv, <1>1, PTL DEF Spec

\* The queues and the snapshot store keep their types, and the channel to the
\* main loop its capacity.
THEOREM TypeCorrect == Spec => []TypeOK
<1>1. IInv => TypeOK
  BY DEF IInv, TypeInv
<1> QED
  BY Invariance, <1>1, PTL

\* The events of one run are a chain, whatever the sweep removes, whatever write
\* fails, and however slow the main loop is.
THEOREM EventsLinked == Spec => []Linked
<1>1. IInv => Linked
  BY DEF IInv, LinkInv
<1> QED
  BY Invariance, <1>1, PTL

\* The content of a hash is there and whole, unless it was removed or its write
\* failed: no crash between the two writes leaves a hash without its content.
THEOREM HashReadable == Spec => []KnownReadable
<1>1. IInv => KnownReadable
  BY DEF IInv, StoreInv
<1> QED
  BY Invariance, <1>1, PTL

-----------------------------------------------------------------------------
(* A file that has come to rest: what Settles and RecordSettles say but that *)
(* the queues come to be empty.                                              *)

\* The newest kind between the watcher and the main loop, Absent if there is
\* none: behind it nothing waits.
LastOf(s) == s[Len(s)]
NewestKind ==
  IF raw # <<>> THEN LastOf(raw)
  ELSE IF window # Absent THEN window
  ELSE IF held # Absent THEN held
  ELSE IF out # <<>> THEN LastOf(out)
  ELSE Absent

\* Once the queues are empty and the main loop is idle, a file that was last
\* changed under the eyes of the watcher has the content the agent knows, and the
\* newest event of the run tells it, unless that event is a removal of this very
\* content: a file that is removed and created again with its old content is the
\* one way to leave a history behind its file (pipeline.rs snapshot_acquire).
\* It speaks of a file that is there and within the limit, and not after the
\* spool has refused an event or the agent has ended.
CaughtUp ==
  lastEdit = "seen" /\ file \in Content \ Oversize /\ NewestKind = Absent
      /\ pc = "idle" =>
    /\ known = file
    /\ \/ Recorded = file
       \/ InRun /\ Newest.curr = Absent /\ Newest.prev = file

\* The last edit that the watcher has seen is followed by a touch that is still
\* on its way, by the main loop that has not read the file yet or has read what
\* it holds now, or by a hash that has caught up with it.
Followed ==
  /\ watching => pc \in Live
  /\ lastEdit = "seen" => watching
  /\ lastEdit = "seen" /\ file \in Content \ Oversize =>
       \/ NewestKind = "touched"
       \/ pc \in {"acquire", "read"} /\ hand.kind = "touched"
       \/ pc \in {"append", "publish", "keepBlob", "keepHash"} /\ hand.curr = file
       \/ known = file /\ pc \in {"idle", "acquire", "read"}
       \/ known = file /\ pc \in {"append", "publish"} /\ hand.curr = Absent

\* What is put at the end of a queue is its newest.
LEMMA LastAppended ==
  ASSUME NEW S, NEW s \in Seq(S), NEW k \in S
  PROVE  Append(s, k) # <<>> /\ LastOf(Append(s, k)) = k
  BY DEF LastOf

\* What is taken from a queue was its newest only if nothing else was in it.
LEMMA LastTaken ==
  ASSUME NEW S, NEW s \in Seq(S), s # <<>>
  PROVE  LastOf(s) = IF Tail(s) = <<>> THEN Head(s) ELSE LastOf(Tail(s))
<1>1. /\ Len(s) \in Nat \ {0} /\ Head(s) = s[1]
      /\ Tail(s) \in Seq(S) /\ Len(Tail(s)) = Len(s) - 1
      /\ \A i \in 1..Len(Tail(s)) : Tail(s)[i] = s[i + 1]
  BY EmptySeq, HeadTailProperties
<1>2. CASE Tail(s) = <<>>
  <2>1. Len(Tail(s)) = 0
    BY <1>2, Empty
  <2>2. \A n \in Nat : n - 1 = 0 => n = 1
    OBVIOUS
  <2>3. Len(s) = 1
    BY <1>1, <2>1, <2>2, Zenon
  <2> QED
    BY <1>1, <1>2, <2>3 DEF LastOf
<1>3. CASE Tail(s) # <<>>
  <2>1. Len(Tail(s)) \in Nat \ {0}
    BY <1>1, <1>3, EmptySeq
  <2>2. Len(Tail(s)) \in 1..Len(Tail(s)) /\ Len(Tail(s)) + 1 = Len(s)
    BY <1>1, <2>1
  <2> QED
    BY <1>1, <1>3, <2>2 DEF LastOf
<1> QED
  BY <1>2, <1>3

\* The debounce task passes the newest kind on.
LEMMA NewestStays ==
  ASSUME TypeInv, Ingest \/ Flush \/ SendDebounced
  PROVE  NewestKind' = NewestKind
<1> USE ContentAssumption
<1> USE DEF NewestKind
<1>0. /\ raw \in Seq(Kind) /\ out \in Seq(Kind)
      /\ window \in Kind \union {Absent} /\ held \in Kind \union {Absent}
  BY DEF TypeInv, TypeOK
<1>1. CASE Ingest
  <2>1. LastOf(raw) = IF raw' = <<>> THEN window' ELSE LastOf(raw')
    BY <1>0, <1>1, LastTaken DEF Ingest, KeepLatest
  <2>2. raw # <<>> /\ held = Absent /\ UNCHANGED <<held, out>>
    BY <1>1 DEF Ingest
  <2>3. window' # Absent
    BY <1>0, <1>1 DEF Ingest, KeepLatest, Kind
  <2> QED
    BY <2>1, <2>2, <2>3 DEF LastOf
<1>2. CASE Flush
  BY <1>0, <1>2 DEF Flush, LastOf
<1>3. CASE SendDebounced
  <2>1. out' # <<>> /\ LastOf(out') = held
    BY <1>0, <1>3, LastAppended DEF SendDebounced
  <2> QED
    BY <1>3, <2>1 DEF SendDebounced, LastOf
<1> QED
  BY <1>1, <1>2, <1>3

\* A touch that is reported is the newest.
LEMMA NewestReported ==
  ASSUME raw \in Seq(Kind), watching, Report("touched"),
         UNCHANGED <<window, held, out>>
  PROVE  NewestKind' = "touched"
<1>1. raw' = Append(raw, "touched") /\ "touched" \in Kind
  BY DEF Report, Kind
<1>2. raw' # <<>> /\ LastOf(raw') = "touched"
  BY <1>1, LastAppended
<1> QED
  BY <1>2 DEF NewestKind, LastOf

\* The main loop takes the newest kind, or leaves it the newest.
LEMMA NewestTaken ==
  ASSUME TypeInv, Take, NewestKind = "touched"
  PROVE  NewestKind' = "touched" \/ hand'.kind = "touched"
<1>1. /\ out \in Seq(Kind) /\ out # <<>> /\ out' = Tail(out)
      /\ UNCHANGED <<raw, window, held>>
  BY DEF TypeInv, TypeOK, Take, watchVars
<1>2. hand'.kind = Head(out)
  BY DEF Take, NoHand
<1>3. LastOf(out) = IF out' = <<>> THEN hand'.kind ELSE LastOf(out')
  BY <1>1, <1>2, LastTaken
<1> QED
  BY <1>1, <1>3 DEF NewestKind, LastOf

\* Every step keeps the last edit followed.
LEMMA FollowedStep == IInv /\ Followed /\ [Next]_vars => Followed'
<1> SUFFICES ASSUME IInv, Followed, [Next]_vars
             PROVE  Followed'
  OBVIOUS
<1> USE ContentAssumption
<1>0. /\ TypeInv /\ raw \in Seq(Kind)
      /\ hand \in Hand /\ known \in Item
      /\ pc = "acquire" => hand.curr = Absent
  BY DEF IInv, TypeInv, TypeOK, LinkInv
<1>1. CASE Start \/ ReadFails \/ Crash
  BY <1>1 DEF Start, ReadFails, Crash, Ends, Followed, Live, watchVars
<1>2. CASE AppendFails
  BY <1>2 DEF AppendFails, AfterFailedAppend, Followed, Live, watchVars
<1>3. CASE BaselineSkips \/ BaselineReads \/ PublishInitial \/ PublishInitialFails
  BY <1>3 DEF BaselineSkips, BaselineReads, PublishInitial, PublishInitialFails,
              Followed, Live, watchVars
<1>4. CASE Ingest \/ Flush \/ SendDebounced
  <2>1. UNCHANGED <<file, watching, pc, hand, known, lastEdit>>
    BY <1>4 DEF Ingest, Flush, SendDebounced, storeVars
  <2> QED
    BY <1>0, <1>4, <2>1, NewestStays DEF Followed
<1>5. ASSUME NEW c \in Item, Edit(c) PROVE Followed'
  <2>1. UNCHANGED <<watching, window, held, out, pc>> /\ file' = c
    BY <1>5 DEF Edit
  <2>2. ASSUME watching, c # Absent PROVE NewestKind' = "touched"
    <3>1. Report("touched")
      BY <1>5, <2>2 DEF Edit
    <3> QED
      BY <1>0, <2>1, <2>2, <3>1, NewestReported
  <2>3. lastEdit' = "seen" => watching
    BY <1>5 DEF Edit
  <2> QED
    BY <2>1, <2>2, <2>3 DEF Followed
<1>6. CASE Touch
  <2>1. NewestKind' = "touched"
    BY <1>0, <1>6, NewestReported DEF Touch
  <2> QED
    BY <1>6, <2>1 DEF Touch, Followed
\* Every other step leaves the queues to the watcher alone.
<1>7. ASSUME UNCHANGED <<raw, window, held, out>>
      PROVE  NewestKind' = NewestKind
  BY <1>7 DEF NewestKind, LastOf
<1>8. CASE Watch
  <2>1. NewestKind' = NewestKind
    BY <1>7, <1>8 DEF Watch
  <2> QED
    BY <1>8, <2>1 DEF Watch, storeVars, Followed
<1>9. CASE Take
  <2>1. NewestKind = "touched" => NewestKind' = "touched" \/ hand'.kind = "touched"
    BY <1>0, <1>9, NewestTaken
  <2>2. pc = "idle" /\ pc' = "acquire" /\ UNCHANGED <<file, watching, known, lastEdit>>
    BY <1>9 DEF Take, storeVars
  <2> QED
    BY <2>1, <2>2 DEF Followed, Live
<1>10. CASE AcquireRemoved
  <2>1. NewestKind' = NewestKind
    BY <1>7, <1>10 DEF AcquireRemoved, watchVars
  <2>2. hand'.curr = Absent
    BY <1>0, <1>10, SetPrev DEF AcquireRemoved
  <2>3. /\ pc = "acquire" /\ pc' \in {"idle", "append"} /\ hand.kind = "removed"
        /\ UNCHANGED <<file, watching, known, lastEdit>>
    BY <1>10 DEF AcquireRemoved, watchVars, storeVars
  <2> QED
    BY <2>1, <2>2, <2>3 DEF Followed, Live
<1>11. CASE AcquireTouched
  <2>1. NewestKind' = NewestKind
    BY <1>7, <1>11 DEF AcquireTouched, watchVars
  <2> QED
    BY <1>11, <2>1 DEF AcquireTouched, watchVars, storeVars, Followed, Live
<1>12. CASE ReadFile
  <2>1. NewestKind' = NewestKind
    BY <1>7, <1>12 DEF ReadFile, watchVars
  <2>2. hand'.curr = file
    BY <1>0, <1>12, ReadHand
  <2>3. /\ pc = "read" /\ pc' = IF file = known THEN "idle" ELSE "append"
        /\ UNCHANGED <<file, watching, known, lastEdit>>
    BY <1>12 DEF ReadFile, watchVars, storeVars
  <2> QED
    BY <2>1, <2>2, <2>3 DEF Followed, Live
<1>13. CASE AppendEvent
  <2>1. NewestKind' = NewestKind
    BY <1>7, <1>13 DEF AppendEvent, watchVars
  <2> QED
    BY <1>13, <2>1 DEF AppendEvent, watchVars, storeVars, Followed, Live
<1>14. CASE Publish
  <2>1. NewestKind' = NewestKind
    BY <1>7, <1>14 DEF Publish, watchVars
  <2> QED
    BY <1>14, <2>1 DEF Publish, ContentFirst, watchVars, storeVars, Followed, Live
<1>15. CASE WriteBlob \/ WriteBlobFails
  <2>1. NewestKind' = NewestKind
    BY <1>7, <1>15 DEF WriteBlob, WriteBlobFails, watchVars
  <2> QED
    BY <1>15, <2>1 DEF WriteBlob, WriteBlobFails, watchVars, Followed, Live
<1>16. CASE SetHash \/ SetHashFails
  <2>1. NewestKind' = NewestKind
    BY <1>7, <1>16 DEF SetHash, SetHashFails, watchVars
  <2> QED
    BY <1>16, <2>1 DEF SetHash, SetHashFails, AfterKeep, watchVars, Followed, Live
<1>17. ASSUME NEW c \in Content, RemoveBlob(c) PROVE Followed'
  <2>1. NewestKind' = NewestKind
    BY <1>7, <1>17 DEF RemoveBlob, watchVars
  <2> QED
    BY <1>17, <2>1 DEF RemoveBlob, watchVars, Followed
<1>18. CASE UNCHANGED vars
  <2>1. NewestKind' = NewestKind
    BY <1>7, <1>18 DEF vars, watchVars
  <2> QED
    BY <1>18, <2>1 DEF vars, watchVars, storeVars, Followed
<1> QED
  BY <1>1, <1>2, <1>3, <1>4, <1>5, <1>6, <1>8, <1>9, <1>10, <1>11, <1>12,
     <1>13, <1>14, <1>15, <1>16, <1>17, <1>18
     DEF Next, Main, Debounce, Environment, Failure

\* Whatever is edited, swept, lost or killed: with nothing left to do, the agent
\* knows what the file holds, and its newest event tells it but for a removal.
THEOREM NothingForgotten == Spec => []CaughtUp
<1>1. Init => Followed
  BY DEF Init, Followed
<1>2. IInv /\ Followed => CaughtUp
  <2> SUFFICES ASSUME IInv, Followed, lastEdit = "seen",
                      file \in Content \ Oversize, NewestKind = Absent, pc = "idle"
               PROVE  /\ known = file
                      /\ \/ Recorded = file
                         \/ InRun /\ Newest.curr = Absent /\ Newest.prev = file
    BY DEF CaughtUp
  <2>1. known = file
    BY ContentAssumption DEF Followed
  <2>2. InRun => known = LastContent(Newest)
    BY DEF IInv, LinkInv
  <2>3. Recorded = IF InRun THEN Newest.curr ELSE known
    BY DEF Recorded, InRun, Newest
  <2>4. CASE InRun
    <3>1. file = IF Newest.curr = Absent THEN Newest.prev ELSE Newest.curr
      BY <2>1, <2>2, <2>4 DEF LastContent
    <3> QED
      BY <2>1, <2>3, <2>4, <3>1
  <2> QED
    BY <2>1, <2>3, <2>4
<1> QED
  BY <1>1, <1>2, FollowedStep, Invariance, PTL DEF Spec

=============================================================================
