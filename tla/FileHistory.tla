----------------------------- MODULE FileHistory -----------------------------
(***************************************************************************)
(* From a file to the change events of its history: the watcher and the    *)
(* debounce task (config-agent watcher.rs, debounce.rs, app.rs), the main  *)
(* loop up to the spool and after it (app.rs, pipeline.rs), the snapshot   *)
(* store with its hash of each file and its contents (config-snapshot      *)
(* store.rs) and the retention sweep that removes contents (retention.rs). *)
(*                                                                         *)
(* There is one file: the paths share nothing but the queues.  A hash      *)
(* stands for its content, and a raw event is what it makes of the         *)
(* pipeline: "removed", or "touched" for any other kind.                   *)
(*                                                                         *)
(* AgentDelivery models what happens to an event once the spool has it,    *)
(* and the state file that does not parse; here a state file is written as *)
(* a whole or not at all.                                                  *)
(***************************************************************************)
EXTENDS Integers, Sequences

CONSTANTS
  Content,      \* the contents the file may have
  Oversize,     \* those of them over the limit of 5 MiB
  Absent,       \* there is no file, no hash, no event
  OutCapacity,  \* the capacity of the channel to the main loop, 64 in the code
  MaxEdits,     \* bound: what happens to the file
  MaxRuns,      \* bound: how often the agent is started
  MaxFaults     \* bound: failing writes and publishes

ASSUME ContentAssumption ==
  /\ Absent \notin Content \union {"touched", "removed"}
  /\ Oversize \subseteq Content

ASSUME BoundAssumption ==
  /\ OutCapacity \in Nat \ {0}
  /\ MaxEdits \in Nat
  /\ MaxRuns \in Nat
  /\ MaxFaults \in Nat

VARIABLES
  file,       \* the content of the file
  \* The watcher and the debounce task, in the agent's memory.
  watching,   \* whether the watcher is registered
  raw,        \* the raw events on their way to the debounce task
  window,     \* the kind in the debounce window, or Absent
  held,       \* the event the debounce task waits to send, or Absent
  out,        \* the debounced events, bounded
  \* The main task.
  pc,         \* its next step
  hand,       \* the event in hand: its kind, previous and current content
  known,      \* the hash of the file in the snapshot store's memory
  \* On the agent's disk.
  disk,       \* the hash of the file in current_state.json
  blobs,      \* the contents of the snapshot store, as they read
  log,        \* the change events handed to the spool, in their order
  \* History.
  announced,  \* the initial snapshot published in this run, or Absent
  lastEdit,   \* the last edit: before this run, seen by the watcher, missed
  lost,       \* contents ever removed, or written in vain
  run, edits, faults

watchVars == <<watching, raw, window, held, out>>
storeVars == <<known, disk, blobs, lost>>
countVars == <<run, edits, faults>>
vars == <<file, watchVars, pc, hand, storeVars, log, announced, lastEdit,
          countVars>>

-----------------------------------------------------------------------------
(* What a state says. *)

Kind == {"touched", "removed"}

Step == {"down", "baseline", "baseBlob", "baseHash", "initial",
         "idle", "acquire", "read", "append", "publish", "keepBlob",
         "keepHash"}

Live == {"idle", "acquire", "read", "append", "publish", "keepBlob",
         "keepHash"}

Item == Content \union {Absent}
Hand == [kind : Kind, prev : Item, curr : Item]
Entry == [prev : Item, curr : Item, run : 1..MaxRuns]

NoHand == [kind |-> "touched", prev |-> Absent, curr |-> Absent]

\* content_exists looks for the file of the hash and not into it.
Exists(c) == c \in Content /\ blobs[c] # "none"

\* One window holds the newest kind of event.  Faulty variant: the first.
KeepFirst(old, new) == IF old = Absent THEN new ELSE old
KeepLatest(old, new) == new

\* A bounded channel takes what it has room for.  Faulty variant: no bound.
NoBound(s) == TRUE
Room(s) == Len(s) < OutCapacity

\* The main loop drops an event that it cannot spool.
\* Faulty variant: it goes on as if it had.
KeepUnspooled == "keepBlob"
AfterFailedAppend == "idle"

\* The content is written before the hash.  Faulty variant: the hash alone.
HashAlone == "keepHash"
ContentFirst == "keepBlob"

Fault ==
  /\ faults < MaxFaults
  /\ faults' = faults + 1

\* The process ends, and with it its memory: the debounce window is not flushed.
Ends ==
  /\ pc' = "down"
  /\ hand' = NoHand
  /\ known' = Absent
  /\ watching' = FALSE
  /\ raw' = <<>>
  /\ window' = Absent
  /\ held' = Absent
  /\ out' = <<>>
  /\ lastEdit' = "missed"

-----------------------------------------------------------------------------
Init ==
  /\ file \in Item
  /\ watching = FALSE
  /\ raw = <<>>
  /\ window = Absent
  /\ held = Absent
  /\ out = <<>>
  /\ pc = "down"
  /\ hand = NoHand
  /\ known = Absent
  /\ disk = Absent
  /\ blobs = [c \in Content |-> "none"]
  /\ log = <<>>
  /\ announced = Absent
  /\ lastEdit = "before"
  /\ lost = {}
  /\ run = 0
  /\ edits = 0
  /\ faults = 0

-----------------------------------------------------------------------------
(* The file.  A file that is moved away is reported as modified, and an    *)
(* access or a late write of an open file is reported even after it was    *)
(* removed.                                                                *)

Report(k) ==
  IF watching THEN raw' = Append(raw, k) ELSE UNCHANGED raw

Edit(c) ==
  /\ edits < MaxEdits
  /\ c # file
  /\ file' = c
  /\ \E k \in IF c = Absent THEN Kind ELSE {"touched"} : Report(k)
  /\ lastEdit' = IF watching THEN "seen" ELSE "missed"
  /\ edits' = edits + 1
  /\ UNCHANGED <<watching, window, held, out, pc, hand, storeVars, log,
                 announced, run, faults>>

Touch ==
  /\ edits < MaxEdits
  /\ watching
  /\ Report("touched")
  /\ edits' = edits + 1
  /\ UNCHANGED <<file, watching, window, held, out, pc, hand, storeVars, log,
                 announced, lastEdit, run, faults>>

-----------------------------------------------------------------------------
(* The watcher and the debounce task. *)

\* The watcher is started last, in a task of its own.
Watch ==
  /\ pc \in Live
  /\ ~watching
  /\ watching' = TRUE
  /\ UNCHANGED <<file, raw, window, held, out, pc, hand, storeVars, log,
                 announced, lastEdit, countVars>>

\* While the debounce task waits to send it takes no raw event.
Ingest ==
  /\ raw # <<>>
  /\ held = Absent
  /\ window' = KeepLatest(window, Head(raw))
  /\ raw' = Tail(raw)
  /\ UNCHANGED <<file, watching, held, out, pc, hand, storeVars, log,
                 announced, lastEdit, countVars>>

\* The window of the path has expired.
Flush ==
  /\ window # Absent
  /\ held = Absent
  /\ held' = window
  /\ window' = Absent
  /\ UNCHANGED <<file, watching, raw, out, pc, hand, storeVars, log,
                 announced, lastEdit, countVars>>

SendDebounced ==
  /\ held # Absent
  /\ Room(out)
  /\ out' = Append(out, held)
  /\ held' = Absent
  /\ UNCHANGED <<file, watching, raw, window, pc, hand, storeVars, log,
                 announced, lastEdit, countVars>>

-----------------------------------------------------------------------------
(* Start-up: the state is loaded, the baseline taken, the initial snapshot *)
(* of each tracked file published.                                         *)

Start ==
  /\ pc = "down"
  /\ run < MaxRuns
  /\ run' = run + 1
  /\ known' = disk
  /\ announced' = Absent
  /\ lastEdit' = "before"
  /\ pc' = "baseline"
  /\ UNCHANGED <<file, watchVars, hand, disk, blobs, lost, log, edits, faults>>

\* A file with a hash and its content is skipped, whatever it holds by now; so
\* is one that is not there, cannot be read or is too large.
BaselineSkips ==
  /\ pc = "baseline"
  /\ Exists(known) \/ file \in Oversize \union {Absent}
  /\ pc' = "initial"
  /\ UNCHANGED <<file, watchVars, hand, storeVars, log, announced, lastEdit,
                 countVars>>

BaselineReads ==
  /\ pc = "baseline"
  /\ ~Exists(known)
  /\ file \in Content \ Oversize
  /\ hand' = [NoHand EXCEPT !.curr = file]
  /\ pc' = "baseBlob"
  /\ UNCHANGED <<file, watchVars, storeVars, log, announced, lastEdit,
                 countVars>>

\* Every tracked file whose content can be read, the deleted ones included.
\* The file itself is not looked at.
PublishInitial ==
  /\ pc = "initial"
  /\ announced' = IF Exists(known) THEN known ELSE Absent
  /\ pc' = "idle"
  /\ UNCHANGED <<file, watchVars, hand, storeVars, log, lastEdit, countVars>>

PublishInitialFails ==
  /\ pc = "initial"
  /\ Fault
  /\ pc' = "idle"
  /\ UNCHANGED <<file, watchVars, hand, storeVars, log, announced, lastEdit,
                 run, edits>>

-----------------------------------------------------------------------------
(* The main loop. *)

Take ==
  /\ pc = "idle"
  /\ out # <<>>
  /\ hand' = [NoHand EXCEPT !.kind = Head(out)]
  /\ out' = Tail(out)
  /\ pc' = "acquire"
  /\ UNCHANGED <<file, watching, raw, window, held, storeVars, log, announced,
                 lastEdit, countVars>>

\* snapshot_acquire of a removal asks for no file, only for a hash.
AcquireRemoved ==
  /\ pc = "acquire"
  /\ hand.kind = "removed"
  /\ hand' = [hand EXCEPT !.prev = known]
  /\ pc' = IF known = Absent THEN "idle" ELSE "append"
  /\ UNCHANGED <<file, watchVars, storeVars, log, announced, lastEdit,
                 countVars>>

\* Of anything else: a file that is missing is unchanged.
AcquireTouched ==
  /\ pc = "acquire"
  /\ hand.kind = "touched"
  /\ pc' = IF file = Absent THEN "idle" ELSE "read"
  /\ UNCHANGED <<file, watchVars, hand, storeVars, log, announced, lastEdit,
                 countVars>>

\* The file is compared with the hash; the previous content goes with the event
\* if it can still be read.
ReadFile ==
  /\ pc = "read"
  /\ file \in Content \ Oversize
  /\ hand' = [hand EXCEPT !.prev = IF Exists(known) THEN known ELSE Absent,
                          !.curr = file]
  /\ pc' = IF file = known THEN "idle" ELSE "append"
  /\ UNCHANGED <<file, watchVars, storeVars, log, announced, lastEdit,
                 countVars>>

\* The file has gone since the test that it exists, or it is too large: the
\* error leaves the main loop, and the agent ends.
ReadFails ==
  /\ pc = "read"
  /\ file \in Oversize \union {Absent}
  /\ Ends
  /\ UNCHANGED <<file, disk, blobs, lost, log, announced, countVars>>

AppendEvent ==
  /\ pc = "append"
  /\ log' = Append(log, [prev |-> hand.prev, curr |-> hand.curr, run |-> run])
  /\ pc' = "publish"
  /\ UNCHANGED <<file, watchVars, hand, storeVars, announced, lastEdit,
                 countVars>>

AppendFails ==
  /\ pc = "append"
  /\ Fault
  /\ lastEdit' = "missed"
  /\ pc' = AfterFailedAppend
  /\ UNCHANGED <<file, watchVars, hand, storeVars, log, announced, run, edits>>

\* However the publish ends: the new content is kept, a removal keeps the hash.
Publish ==
  /\ pc = "publish"
  /\ pc' = IF hand.curr = Absent THEN "idle" ELSE ContentFirst
  /\ UNCHANGED <<file, watchVars, hand, storeVars, log, announced, lastEdit,
                 countVars>>

\* write_snapshot: the content, and the state as it is in memory.
WriteBlob ==
  /\ pc \in {"keepBlob", "baseBlob"}
  /\ blobs' = [blobs EXCEPT ![hand.curr] = "whole"]
  /\ disk' = known
  /\ pc' = IF pc = "keepBlob" THEN "keepHash" ELSE "baseHash"
  /\ UNCHANGED <<file, watchVars, hand, known, lost, log, announced, lastEdit,
                 countVars>>

\* The content may be there, torn or missing.  The main loop logs the error and
\* sets the hash all the same, the baseline leaves the file.
WriteBlobFails ==
  /\ pc \in {"keepBlob", "baseBlob"}
  /\ Fault
  /\ \E s \in {blobs[hand.curr], "torn", "whole"} :
       blobs' = [blobs EXCEPT ![hand.curr] = s]
  /\ lost' = lost \union {hand.curr}
  /\ pc' = IF pc = "keepBlob" THEN "keepHash" ELSE "initial"
  /\ UNCHANGED <<file, watchVars, hand, known, disk, log, announced, lastEdit,
                 run, edits>>

AfterKeep == IF pc = "keepHash" THEN "idle" ELSE "initial"

\* set_current_hash: the memory first, then the state file.
SetHash ==
  /\ pc \in {"keepHash", "baseHash"}
  /\ known' = hand.curr
  /\ disk' = hand.curr
  /\ pc' = AfterKeep
  /\ UNCHANGED <<file, watchVars, hand, blobs, lost, log, announced, lastEdit,
                 countVars>>

SetHashFails ==
  /\ pc \in {"keepHash", "baseHash"}
  /\ Fault
  /\ known' = hand.curr
  /\ pc' = AfterKeep
  /\ UNCHANGED <<file, watchVars, hand, disk, blobs, lost, log, announced,
                 lastEdit, run, edits>>

-----------------------------------------------------------------------------
\* A sweep of enforce_retention removes the contents that are old, or the
\* largest, and knows nothing of the hash the file has.
RemoveBlob(c) ==
  /\ pc \in Live
  /\ blobs[c] # "none"
  /\ blobs' = [blobs EXCEPT ![c] = "none"]
  /\ lost' = lost \union {c}
  /\ UNCHANGED <<file, watchVars, pc, hand, known, disk, log, announced,
                 lastEdit, countVars>>

\* A kill at any step, or Ctrl-C; a content that is being written is torn.
Crash ==
  /\ pc # "down"
  /\ run < MaxRuns
  /\ Ends
  /\ \/ UNCHANGED <<blobs, lost>>
     \/ /\ pc \in {"keepBlob", "baseBlob"}
        /\ blobs' = [blobs EXCEPT ![hand.curr] = "torn"]
        /\ lost' = lost \union {hand.curr}
  /\ UNCHANGED <<file, disk, log, announced, countVars>>

-----------------------------------------------------------------------------
Debounce == Ingest \/ SendDebounced

Main ==
  \/ Start \/ BaselineSkips \/ BaselineReads \/ PublishInitial
  \/ Take \/ AcquireRemoved \/ AcquireTouched \/ ReadFile \/ ReadFails
  \/ AppendEvent \/ Publish \/ WriteBlob \/ SetHash

Environment ==
  \/ \E c \in Item : Edit(c)
  \/ Touch
  \/ \E c \in Content : RemoveBlob(c)
  \/ Crash

Failure ==
  PublishInitialFails \/ AppendFails \/ WriteBlobFails \/ SetHashFails

Next == Main \/ Watch \/ Debounce \/ Flush \/ Environment \/ Failure

Spec == Init /\ [][Next]_vars

\* The tasks of the agent are scheduled, its timer ticks, and a publish comes to
\* an end.  Nothing says that a file changes or that a sweep finds an old file.
FairSpec ==
  /\ Spec
  /\ WF_vars(Main) /\ WF_vars(Watch) /\ WF_vars(Debounce) /\ WF_vars(Flush)

-----------------------------------------------------------------------------
(* Properties. *)

\* The queues, the store and the log hold what the code may put there, and the
\* channel to the main loop no more than its capacity.
TypeOK ==
  /\ file \in Item
  /\ watching \in BOOLEAN
  /\ raw \in Seq(Kind)
  /\ window \in Kind \union {Absent}
  /\ held \in Kind \union {Absent}
  /\ out \in Seq(Kind) /\ Len(out) <= OutCapacity
  /\ pc \in Step
  /\ hand \in Hand
  /\ known \in Item
  /\ disk \in Item
  /\ blobs \in [Content -> {"none", "whole", "torn"}]
  /\ log \in Seq(Entry)
  /\ announced \in Item
  /\ lastEdit \in {"before", "seen", "missed"}
  /\ lost \subseteq Content
  /\ run \in 0..MaxRuns
  /\ edits \in 0..MaxEdits
  /\ faults \in 0..MaxFaults

\* The content the file had last, as an entry of the log tells it.
LastContent(e) == IF e.curr = Absent THEN e.prev ELSE e.curr

\* The events of one run are a chain: each starts from the content the one
\* before it ended with, or from nothing when that content is lost, and none
\* records that content again.  The link is the hash in memory, which is set
\* only after the spool has the event (app.rs).
Linked ==
  \A i \in 1..Len(log) - 1 :
    log[i].run = log[i + 1].run =>
      /\ log[i + 1].prev \in {Absent, LastContent(log[i])}
      /\ log[i + 1].prev = Absent => LastContent(log[i]) \in lost
      /\ log[i + 1].curr # LastContent(log[i])

\* What the agent compares the next change with can be read: the content of the
\* hash in memory and of the one on disk is in the store and whole, unless it
\* was removed or its own write failed.
KnownReadable ==
  \A c \in {known, disk} \ {Absent} : blobs[c] = "whole" \/ c \in lost

\* A change that the watcher has seen is not forgotten: once the file rests at
\* a content, that content is what the agent knows, unless the agent ends or
\* the spool refuses the event.
Settles ==
  \A c \in Content \ Oversize :
    lastEdit = "seen" /\ file = c ~> known = c \/ file # c \/ lastEdit # "seen"

\* The control plane has the current state of a file that has not changed since
\* the agent was started (the comment of publish_initial_snapshots).
FullCurrentState ==
  pc = "idle" /\ lastEdit = "before" /\ announced # Absent => announced = file

\* The newest entry of the run, or the hash it began with.
Recorded ==
  IF log # <<>> /\ log[Len(log)].run = run THEN log[Len(log)].curr ELSE known

\* The events tell the content of a file that has come to rest (the README: the
\* agent watches files, debounces rapid changes and persists events).
RecordSettles ==
  \A c \in Content \ Oversize :
    lastEdit = "seen" /\ file = c ~>
      Recorded = c \/ file # c \/ lastEdit # "seen"

=============================================================================
