---------------------------- MODULE AgentDelivery ----------------------------
(***************************************************************************)
(* The way of a change event from one agent to the control plane: the      *)
(* agent's main loop and its replay at start-up (config-agent app.rs), the *)
(* files of the spool (spool.rs), one POST per publish (publish.rs and     *)
(* config-transport client.rs) and the idempotent ingest handler           *)
(* (config-control-plane ingest.rs), with crashes of the agent at any      *)
(* step, failing disk writes, and requests whose answer is lost.           *)
(*                                                                         *)
(* An event is a member of Event.  What the file-system watcher, the       *)
(* debounce window and the snapshot store do before an event exists is not *)
(* in this module: Detect(e) hands the main loop an event it has not had.  *)
(* The events of Initial are the initial snapshots: the agent builds one   *)
(* for each tracked file when it starts, and publishes it past the spool.  *)
(*                                                                         *)
(* Every write of the spool is std::fs::write, which truncates the file    *)
(* and then fills it: a crash or a full disk may leave it empty.  An entry *)
(* that does not parse is "torn"; an index that does not parse reads as    *)
(* the empty index.                                                        *)
(***************************************************************************)
EXTENDS Integers

CONSTANTS
  Event,       \* the change events the main loop may build
  Key,         \* the idempotency keys
  KeyOf,       \* the key of an event; two events of one minute may share it
  Initial,     \* those of them that are initial snapshots of tracked files
  Refused,     \* events the control plane answers with an error every time,
               \* such as one whose body is over the limit of the JSON extractor
  NoEvent,     \* the value of cur when the agent handles no event
  MaxRetries,  \* max_publish_retries of the main loop, 5 in the code
  MaxRuns,     \* bound: how often the agent is started
  MaxFaults    \* bound: failing writes, lost or failed requests, expiries

ASSUME EventAssumption ==
  /\ NoEvent \notin Event
  /\ KeyOf \in [Event -> Key]
  /\ Initial \subseteq Event
  /\ Refused \subseteq Event

ASSUME BoundAssumption ==
  /\ MaxRetries \in Nat \ {0}
  /\ MaxRuns \in Nat
  /\ MaxFaults \in Nat

VARIABLES
  \* On the agent's disk.
  spool,      \* pending/<event_id>.jsonl of each event, as it reads
  index,      \* index.json: the status it gives each event
  attempts,   \* the attempts field of each entry
  createdAt,  \* the created_at field of each entry, 0 before it is written
  stateOk,    \* whether current_state.json of the snapshot store parses
  \* In the agent's memory.
  pc,         \* the next step of the agent's main task
  mode,       \* the loop that step belongs to: initial snapshots, replay, main
  cur,        \* the event in hand
  toReplay,   \* the entries read at start-up and not replayed yet
  answer,     \* how the publish that is being awaited ended
  auth,       \* whether the agent holds a credential the control plane accepts
  \* On the network and at the control plane.
  requests,   \* the publish requests that are travelling or being handled
  rows,       \* the events that have a row in change_events
  \* The environment, and history.
  run,        \* how often the agent was started
  faults,     \* how many faults there were
  now,        \* the clock of created_at: the number of entries written
  detected,   \* the events built so far
  missed      \* events whose append or publish returned an error in this run

spoolVars == <<spool, index, attempts, createdAt>>
diskVars  == <<spoolVars, stateOk>>
agentVars == <<pc, mode, cur, toReplay, answer, auth>>
planeVars == <<requests, rows>>
envVars   == <<run, faults, now, detected, missed>>
vars == <<diskVars, agentVars, planeVars, envVars>>

-----------------------------------------------------------------------------
(* What a state says. *)

EntryState  == {"absent", "torn", "pending", "delivered", "failed"}
IndexStatus == {"none", "pending", "delivered", "failed"}
EmptyIndex  == [e \in Event |-> "none"]

Step == {"down", "baseline", "register", "initial", "load", "replay", "idle",
         "append", "appendIndex", "send", "wait", "markIndex", "markEntry",
         "attempt", "failIndex", "failEntry", "save"}

\* One publish of one event by one incarnation of the agent.
Request == [ev : Event, run : 1..MaxRuns, auth : BOOLEAN, checked : BOOLEAN]

\* change_events has a row with the idempotency key of e.
KeyStored(e) == \E f \in rows : KeyOf[f] = KeyOf[e]

\* pending_entries reads the entries and not the index; it skips a torn entry.
\* Faulty variants: the index decides; all that is not delivered is pending.
PendingByIndex == {e \in Event : index[e] = "pending"}
NotDelivered == {e \in Event : spool[e] \in {"pending", "failed"}}
PendingEntries == {e \in Event : spool[e] = "pending"}

\* The entries are replayed in the order of created_at.
\* Faulty variant: in the order of the directory.
AnyOf(e, S) == e \in S
Oldest(e, S) == e \in S /\ \A f \in S : createdAt[e] <= createdAt[f]

\* A 2xx and a 409 are Ok, any other status and a broken connection are Err.
\* Faulty variant: the status is not looked at.
Answered(a) == a # "none"
Succeeds(a) == a \in {"created", "conflict"}

\* Faulty variant: the first failure is the last.
AnyFailure(n) == n >= 1
Exhausted(n) == n >= MaxRetries

\* Where a publish ends: at the head of a start-up loop, or with the snapshot of
\* the file.
Loop == IF mode = "live" THEN "save" ELSE mode

\* Nothing is marked for an initial snapshot.
AfterOk == IF mode = "initial" THEN "initial" ELSE "markIndex"

\* The loops of the start-up go on, the main loop counts the attempt.
\* Faulty variants: the publish is retried without end; the error is ignored.
ResendAfterError == "send"
MarkAfterError == "markIndex"
AfterError == IF mode = "live" THEN "attempt" ELSE mode

\* Where the main loop starts with an event: its entry comes before its request.
SpoolFirst == "append"

\* idempotency_key is UNIQUE in change_events.
KeyIsFree(e) == ~KeyStored(e)

\* The writes in progress at a step: the entry of cur, or the index.
WritesEntry == {"append", "markEntry", "attempt", "failEntry"}
WritesIndex == {"appendIndex", "markIndex", "failIndex"}
WritesState == {"baseline", "save"}

Fault ==
  /\ faults < MaxFaults
  /\ faults' = faults + 1

SetEntry(s)  == spool' = [spool EXCEPT ![cur] = s]
SetIndex(s)  == index' = [index EXCEPT ![cur] = s]

\* A failed write leaves the file as it was or truncated.
BadEntryWrite == \E s \in {spool[cur], "torn"} : SetEntry(s)
BadIndexWrite == \E i \in {index, EmptyIndex} : index' = i

\* The process ends, and its memory with it.
Ends ==
  /\ pc' = "down"
  /\ mode' = "live"
  /\ cur' = NoEvent
  /\ toReplay' = {}
  /\ answer' = "none"
  /\ auth' = FALSE

-----------------------------------------------------------------------------
Init ==
  /\ spool = [e \in Event |-> "absent"]
  /\ index = EmptyIndex
  /\ attempts = [e \in Event |-> 0]
  /\ createdAt = [e \in Event |-> 0]
  /\ stateOk = TRUE
  /\ pc = "down"
  /\ mode = "live"
  /\ cur = NoEvent
  /\ toReplay = {}
  /\ answer = "none"
  /\ auth = FALSE
  /\ requests = {}
  /\ rows = {}
  /\ run = 0
  /\ faults = 0
  /\ now = 0
  /\ detected = {}
  /\ missed = {}

-----------------------------------------------------------------------------
(* Start-up. *)

\* SnapshotStore::new returns an error for a state file that does not parse, and
\* the agent does not start.
Start ==
  /\ pc = "down"
  /\ stateOk
  /\ run < MaxRuns
  /\ run' = run + 1
  /\ missed' = {}
  /\ pc' = "baseline"
  /\ UNCHANGED <<diskVars, mode, cur, toReplay, answer, auth, planeVars,
                 faults, now, detected>>

\* The baseline scan may save the state of the snapshot store, and an error of
\* it is only logged.
Baseline ==
  /\ pc = "baseline"
  /\ pc' = "register"
  /\ UNCHANGED <<diskVars, mode, cur, toReplay, answer, auth, planeVars,
                 envVars>>

\* The credential of a successful registration replaces the enrollment token.
Register ==
  /\ pc = "register"
  /\ auth' = TRUE
  /\ pc' = "initial"
  /\ UNCHANGED <<diskVars, mode, cur, toReplay, answer, planeVars, envVars>>

\* A failed registration is logged and start-up goes on: the token stays the
\* enrollment token, which no endpoint but the registration accepts.
RegisterFails ==
  /\ pc = "register"
  /\ Fault
  /\ pc' = "initial"
  /\ UNCHANGED <<diskVars, mode, cur, toReplay, answer, auth, planeVars, run,
                 now, detected, missed>>

\* publish_initial_snapshots: one publish for each file in the state, and an
\* error of it is only logged.  A file whose snapshot cannot be read is skipped.
PublishInitial(e) ==
  /\ pc = "initial"
  /\ e \in Initial \ detected
  /\ detected' = detected \union {e}
  /\ cur' = e
  /\ mode' = "initial"
  /\ pc' = "send"
  /\ UNCHANGED <<diskVars, toReplay, answer, auth, planeVars, run, faults, now,
                 missed>>

InitialDone ==
  /\ pc = "initial"
  /\ pc' = "load"
  /\ UNCHANGED <<diskVars, mode, cur, toReplay, answer, auth, planeVars,
                 envVars>>

LoadPending ==
  /\ pc = "load"
  /\ toReplay' = PendingEntries
  /\ mode' = "replay"
  /\ pc' = "replay"
  /\ UNCHANGED <<diskVars, cur, answer, auth, planeVars, envVars>>

ReplayNext(e) ==
  /\ pc = "replay"
  /\ Oldest(e, toReplay)
  /\ toReplay' = toReplay \ {e}
  /\ cur' = e
  /\ pc' = "send"
  /\ UNCHANGED <<diskVars, mode, answer, auth, planeVars, envVars>>

ReplayDone ==
  /\ pc = "replay"
  /\ toReplay = {}
  /\ mode' = "live"
  /\ cur' = NoEvent
  /\ pc' = "idle"
  /\ UNCHANGED <<diskVars, toReplay, answer, auth, planeVars, envVars>>

-----------------------------------------------------------------------------
(* The main loop: append, publish, and what follows from the answer. *)

Detect(e) ==
  /\ pc = "idle"
  /\ e \notin detected \union Initial
  /\ detected' = detected \union {e}
  /\ cur' = e
  /\ pc' = SpoolFirst
  /\ UNCHANGED <<diskVars, mode, toReplay, answer, auth, planeVars, run, faults,
                 now, missed>>

AppendEntry ==
  /\ pc = "append"
  /\ SetEntry("pending")
  /\ now' = now + 1
  /\ createdAt' = [createdAt EXCEPT ![cur] = now']
  /\ pc' = "appendIndex"
  /\ UNCHANGED <<stateOk, index, attempts, mode, cur, toReplay, answer, auth,
                 planeVars, run, faults, detected, missed>>

AppendIndex ==
  /\ pc = "appendIndex"
  /\ SetIndex("pending")
  /\ pc' = "send"
  /\ UNCHANGED <<stateOk, spool, attempts, createdAt, mode, cur, toReplay,
                 answer, auth, planeVars, envVars>>

\* append returns an error: the main loop drops the event and continues.
AppendEntryFails ==
  /\ pc = "append"
  /\ Fault
  /\ BadEntryWrite
  /\ missed' = missed \union {cur}
  /\ pc' = "idle"
  /\ UNCHANGED <<stateOk, index, attempts, createdAt, mode, cur, toReplay,
                 answer, auth, planeVars, run, now, detected>>

AppendIndexFails ==
  /\ pc = "appendIndex"
  /\ Fault
  /\ BadIndexWrite
  /\ missed' = missed \union {cur}
  /\ pc' = "idle"
  /\ UNCHANGED <<stateOk, spool, attempts, createdAt, mode, cur, toReplay,
                 answer, auth, planeVars, run, now, detected>>

\* One POST, with no retry and no time limit.
Send ==
  /\ pc = "send"
  /\ requests' = requests \union
       {[ev |-> cur, run |-> run, auth |-> auth, checked |-> FALSE]}
  /\ pc' = "wait"
  /\ UNCHANGED <<diskVars, mode, cur, toReplay, answer, auth, rows, envVars>>

PublishOk ==
  /\ pc = "wait"
  /\ Succeeds(answer)
  /\ answer' = "none"
  /\ pc' = AfterOk
  /\ UNCHANGED <<diskVars, mode, cur, toReplay, auth, planeVars, envVars>>

PublishErr ==
  /\ pc = "wait"
  /\ answer = "error"
  /\ answer' = "none"
  /\ missed' = missed \union {cur}
  /\ pc' = AfterError
  /\ UNCHANGED <<diskVars, mode, cur, toReplay, auth, planeVars, run,
                 faults, now, detected>>

\* mark_delivered: the index first, then the entry.  A failure is logged.
MarkIndex ==
  /\ pc = "markIndex"
  /\ SetIndex("delivered")
  /\ pc' = "markEntry"
  /\ UNCHANGED <<stateOk, spool, attempts, createdAt, mode, cur, toReplay,
                 answer, auth, planeVars, envVars>>

MarkEntry ==
  /\ pc = "markEntry"
  /\ SetEntry("delivered")
  /\ pc' = Loop
  /\ UNCHANGED <<stateOk, index, attempts, createdAt, mode, cur, toReplay,
                 answer, auth, planeVars, envVars>>

\* increment_attempts, and mark_failed once the attempts are used up.
\* Faulty variant of the count: the attempts that are left.
CountDown(n) == n - 1
CountUp(n) == n + 1

Attempt ==
  /\ pc = "attempt"
  /\ attempts' = [attempts EXCEPT ![cur] = CountUp(@)]
  /\ pc' = IF Exhausted(attempts'[cur]) THEN "failIndex" ELSE "save"
  /\ UNCHANGED <<stateOk, spool, index, createdAt, mode, cur, toReplay, answer,
                 auth, planeVars, envVars>>

\* An error of increment_attempts ends the agent (the ? in the main loop).
AttemptFails ==
  /\ pc = "attempt"
  /\ Fault
  /\ BadEntryWrite
  /\ Ends
  /\ UNCHANGED <<stateOk, index, attempts, createdAt, planeVars, run, now,
                 detected, missed>>

FailIndex ==
  /\ pc = "failIndex"
  /\ SetIndex("failed")
  /\ pc' = "failEntry"
  /\ UNCHANGED <<stateOk, spool, attempts, createdAt, mode, cur, toReplay,
                 answer, auth, planeVars, envVars>>

FailEntry ==
  /\ pc = "failEntry"
  /\ SetEntry("failed")
  /\ pc' = "save"
  /\ UNCHANGED <<stateOk, index, attempts, createdAt, mode, cur, toReplay,
                 answer, auth, planeVars, envVars>>

\* mark_delivered or mark_failed returns an error, which is only logged.
MarkIndexFails ==
  /\ pc \in {"markIndex", "failIndex"}
  /\ Fault
  /\ BadIndexWrite
  /\ pc' = Loop
  /\ UNCHANGED <<stateOk, spool, attempts, createdAt, mode, cur, toReplay,
                 answer, auth, planeVars, run, now, detected, missed>>

MarkEntryFails ==
  /\ pc \in {"markEntry", "failEntry"}
  /\ Fault
  /\ BadEntryWrite
  /\ pc' = Loop
  /\ UNCHANGED <<stateOk, index, attempts, createdAt, mode, cur, toReplay,
                 answer, auth, planeVars, run, now, detected, missed>>

\* A changed or created file has its snapshot written and its hash set, both of
\* which save the state; a deleted one has not.
SaveState ==
  /\ pc = "save"
  /\ \/ stateOk' = TRUE
     \/ UNCHANGED stateOk
  /\ pc' = "idle"
  /\ UNCHANGED <<spoolVars, mode, cur, toReplay, answer, auth, planeVars,
                 envVars>>

\* A save that fails is logged, and the next one writes the whole state again.
SaveStateFails ==
  /\ pc \in WritesState
  /\ Fault
  /\ \/ stateOk' = FALSE
     \/ UNCHANGED stateOk
  /\ pc' = IF pc = "save" THEN "idle" ELSE "register"
  /\ UNCHANGED <<spoolVars, mode, cur, toReplay, answer, auth, planeVars, run,
                 now, detected, missed>>

-----------------------------------------------------------------------------
(* The control plane: the token is verified, the key is looked up, the row *)
(* is inserted, with other requests handled between these.                 *)

Done(r) == requests' = requests \ {r}

\* The agent hears of the end of the request it awaits, and of no other.
Answer(r, a) ==
  answer' = IF /\ pc = "wait"
               /\ r.run = run
               /\ r.ev = cur
               /\ answer = "none"
            THEN a
            ELSE answer

\* 401 for a token that is not a valid credential, 413 and the like for Refused.
Rejects(r) ==
  /\ ~r.checked
  /\ ~r.auth \/ r.ev \in Refused
  /\ Done(r)
  /\ Answer(r, "error")
  /\ UNCHANGED <<diskVars, pc, mode, cur, toReplay, auth, rows, envVars>>

Accepts(r) == r.auth /\ r.ev \notin Refused /\ ~r.checked

\* exists_by_idempotency_key finds a row: 409.
FindsDuplicate(r) ==
  /\ Accepts(r)
  /\ KeyStored(r.ev)
  /\ Done(r)
  /\ Answer(r, "conflict")
  /\ UNCHANGED <<diskVars, pc, mode, cur, toReplay, auth, rows, envVars>>

FindsNone(r) ==
  /\ Accepts(r)
  /\ ~KeyStored(r.ev)
  /\ requests' = (requests \ {r}) \union {[r EXCEPT !.checked = TRUE]}
  /\ UNCHANGED <<diskVars, agentVars, rows, envVars>>

\* The insert is atomic, and idempotency_key is UNIQUE in the table.
InsertRow(r) ==
  /\ r.checked
  /\ KeyIsFree(r.ev)
  /\ rows' = rows \union {r.ev}

Inserts(r) ==
  /\ InsertRow(r)
  /\ Done(r)
  /\ Answer(r, "created")
  /\ UNCHANGED <<diskVars, pc, mode, cur, toReplay, auth, envVars>>

\* The insert fails on the unique key of a row that came in between: 500.
InsertConflicts(r) ==
  /\ r.checked
  /\ ~KeyIsFree(r.ev)
  /\ Done(r)
  /\ Answer(r, "error")
  /\ UNCHANGED <<diskVars, pc, mode, cur, toReplay, auth, rows, envVars>>

\* The row is there, but the query for the host's environment fails: 500.
InsertsButErrs(r) ==
  /\ Fault
  /\ InsertRow(r)
  /\ Done(r)
  /\ Answer(r, "error")
  /\ UNCHANGED <<diskVars, pc, mode, cur, toReplay, auth, run, now, detected,
                 missed>>

\* A request that never arrives, or a database error before the insert.
RequestFails(r) ==
  /\ Fault
  /\ Done(r)
  /\ Answer(r, "error")
  /\ UNCHANGED <<diskVars, pc, mode, cur, toReplay, auth, rows, run, now,
                 detected, missed>>

\* The connection breaks, and the control plane goes on with the request.
ConnectionBreaks ==
  /\ pc = "wait"
  /\ answer = "none"
  /\ Fault
  /\ answer' = "error"
  /\ UNCHANGED <<diskVars, pc, mode, cur, toReplay, auth, planeVars, run, now,
                 detected, missed>>

-----------------------------------------------------------------------------
(* The environment. *)

\* The credential is valid for 24 hours, and the agent registers only once.
CredentialExpires ==
  /\ auth
  /\ Fault
  /\ auth' = FALSE
  /\ UNCHANGED <<diskVars, pc, mode, cur, toReplay, answer, planeVars, run, now,
                 detected, missed>>

\* A kill at any step, Ctrl-C, which the main loop takes when it is idle, or an
\* error that ends the agent.  A file that is being written is whole or torn.
Crash ==
  /\ pc # "down"
  /\ run < MaxRuns
  /\ Ends
  /\ \/ UNCHANGED <<spool, index, stateOk>>
     \/ pc \in WritesEntry /\ SetEntry("torn") /\ UNCHANGED <<index, stateOk>>
     \/ /\ pc \in WritesIndex
        /\ index' = EmptyIndex
        /\ UNCHANGED <<spool, stateOk>>
     \/ pc \in WritesState /\ stateOk' = FALSE /\ UNCHANGED <<spool, index>>
  /\ UNCHANGED <<attempts, createdAt, planeVars, envVars>>

-----------------------------------------------------------------------------
Agent ==
  \/ Start \/ Baseline \/ Register \/ InitialDone \/ LoadPending \/ ReplayDone
  \/ \E e \in Event : PublishInitial(e) \/ ReplayNext(e)
  \/ AppendEntry \/ AppendIndex \/ Send \/ PublishOk \/ PublishErr
  \/ MarkIndex \/ MarkEntry \/ Attempt \/ FailIndex \/ FailEntry
  \/ SaveState

ControlPlane ==
  \E r \in requests :
    \/ Rejects(r) \/ FindsDuplicate(r) \/ FindsNone(r)
    \/ Inserts(r) \/ InsertConflicts(r)

Failure ==
  \/ RegisterFails \/ AppendEntryFails \/ AppendIndexFails
  \/ AttemptFails \/ MarkIndexFails \/ MarkEntryFails
  \/ SaveStateFails
  \/ \E r \in requests : InsertsButErrs(r) \/ RequestFails(r)
  \/ ConnectionBreaks \/ CredentialExpires \/ Crash

Next == Agent \/ ControlPlane \/ Failure \/ \E e \in Event : Detect(e)

Spec == Init /\ [][Next]_vars

\* The agent's task is scheduled and is restarted after it ends, and the
\* control plane handles what reaches it.  Nothing says that files change.
FairSpec == Spec /\ WF_vars(Agent) /\ WF_vars(ControlPlane)

-----------------------------------------------------------------------------
(* Properties. *)

\* The files of the spool, the agent's memory, the network and the table hold
\* what the code may put there.
TypeOK ==
  /\ spool \in [Event -> EntryState]
  /\ index \in [Event -> IndexStatus]
  /\ attempts \in [Event -> Nat]
  /\ createdAt \in [Event -> Nat]
  /\ stateOk \in BOOLEAN
  /\ pc \in Step
  /\ mode \in {"initial", "replay", "live"}
  /\ cur \in Event \union {NoEvent}
  /\ toReplay \subseteq Event
  /\ answer \in {"none", "created", "conflict", "error"}
  /\ auth \in BOOLEAN
  /\ requests \subseteq Request
  /\ rows \subseteq Event
  /\ run \in 0..MaxRuns
  /\ faults \in 0..MaxFaults
  /\ now \in Nat
  /\ detected \subseteq Event
  /\ missed \subseteq Event

\* What the spool calls delivered, in the entry or in the index, is in the
\* control plane's history: a row with its key is there.  spool.rs marks an
\* event only after an answer, and an answer may come from a duplicate.
DeliveredIsStored ==
  \A e \in Event :
    spool[e] = "delivered" \/ index[e] = "delivered" => KeyStored(e)

\* However publishes race (a replay with a request of the incarnation before
\* it), an idempotency key has at most one row.
OneRowPerKey == \A e, f \in rows : KeyOf[e] = KeyOf[f] => e = f

\* Persist to disk before network: whatever is on its way to the control plane
\* or stored there has been written to the spool, but for initial snapshots.
SpooledBeforeSent ==
  /\ \A r \in requests : spool[r.ev] # "absent" \/ r.ev \in Initial
  /\ \A e \in rows : spool[e] # "absent" \/ e \in Initial

\* Events are published in the order in which they were spooled: when one is
\* sent, in the replay or in the main loop, every older entry that is still
\* pending has its key stored or has had an error since the agent was started.
PublishedInOrder ==
  pc = "send" =>
    \A e \in Event :
      spool[e] = "pending" /\ createdAt[e] < createdAt[cur] =>
        KeyStored(e) \/ e \in missed

\* No event that still waits for its row is given up on: with the five attempts
\* of the main loop none is ever marked failed, since only the first publish of
\* an event counts as an attempt.
NeverGivenUp == MaxRetries > 1 => \A e \in Event : spool[e] # "failed"

\* What becomes of an entry.  Delivered and failed are for good: no crash, replay
\* or torn write takes an entry out of them.  And one whose append returned, and
\* whose key has no row, is pending until its key is stored: only the rewrite that
\* counts its own failed publish may tear it, and only an event that is out of
\* attempts is marked failed.  No other crash, failing write, replay or answer
\* takes it from the replay (spool.rs: append, mark_delivered, increment_attempts,
\* mark_failed_permanent).
EntryFate ==
  [][\A e \in Event :
       /\ spool[e] \in {"delivered", "failed"} => spool'[e] = spool[e]
       /\ createdAt[e] > 0 /\ spool[e] = "pending" /\ ~KeyStored(e) =>
            \/ spool'[e] = "pending"
            \/ /\ e = cur /\ e \in missed
               /\ \/ pc = "attempt" /\ spool'[e] = "torn"
                  \/ pc = "failEntry" /\ spool'[e] \in {"torn", "failed"}]_vars

\* An entry whose append returned stays in the spool, to be replayed after a
\* crash, until its key is stored or it is marked failed (the README: events
\* are persisted to a local spool, for crash recovery).
AppendedSurvives ==
  \A e \in Event :
    createdAt[e] > 0 =>
      KeyStored(e) \/ spool[e] \in {"pending", "failed"}

\* The spool and the ingest handler together implement the outbox.
Abstract == INSTANCE Outbox WITH
  Unspooled <- Initial,
  spooled <- {e \in Event : spool[e] # "absent"},
  stored  <- rows,
  acked   <- {e \in Event : spool[e] = "delivered"}

ImplementsOutbox == Abstract!Spec

\* There are no more faults and crashes to come.
Quiet == run = MaxRuns /\ faults = MaxFaults

\* Crash recovery: an agent that starts once more after the last failure
\* delivers every pending entry that the control plane does not refuse.
RestartDelivers ==
  \A e \in Event \ Refused :
    pc = "register" /\ Quiet /\ spool[e] = "pending" ~> KeyStored(e)

\* Every pass of the replay and of the main loop comes to its end, whatever
\* the control plane answers: no event keeps those behind it waiting for ever.
LoopReturns ==
  pc \in {"initial", "replay", "append"} ~> pc \in {"idle", "down"}

\* A publish that failed is retried while the agent runs (the README: publish
\* with exponential backoff; app.rs: "will retry later").
PublishRetried ==
  \A e \in Event \ Refused :
    pc = "idle" /\ spool[e] = "pending" ~> KeyStored(e) \/ pc = "down"

=============================================================================
