------------------------ MODULE AgentDelivery_proofs ------------------------
(***************************************************************************)
(* Proofs about AgentDelivery, for every set of events, every assignment   *)
(* of keys, every retry limit and every number of runs and faults.         *)
(***************************************************************************)
EXTENDS AgentDelivery, TLAPS

\* The steps of the main task at which it has an entry of the spool in hand.
InHand == {"appendIndex", "send", "wait", "markIndex", "markEntry", "attempt",
           "failIndex", "failEntry"}

\* The types, with what Send and AppendEntry need to keep them.
TypeInv ==
  /\ TypeOK
  /\ pc \in InHand \union {"append"} => cur \in Event
  /\ pc # "down" => run # 0

\* No step takes a variable out of its type.
LEMMA TypeStep == TypeInv /\ [Next]_vars => TypeInv'
<1> SUFFICES ASSUME TypeInv, [Next]_vars
             PROVE  TypeInv'
  OBVIOUS
<1> USE EventAssumption, BoundAssumption
<1> USE DEF TypeInv, TypeOK, Step, EntryState, IndexStatus, InHand
<1> USE DEF spoolVars, diskVars, agentVars, planeVars, envVars
<1>1. CASE Start
  BY <1>1 DEF Start
<1>2. CASE Baseline
  BY <1>2 DEF Baseline
<1>3. CASE Register
  BY <1>3 DEF Register
<1>4. CASE LoadPending
  BY <1>4 DEF LoadPending, PendingEntries
<1>5. CASE ReplayDone
  BY <1>5 DEF ReplayDone
<1>6. ASSUME NEW e \in Event, ReplayNext(e) PROVE TypeInv'
  BY <1>6 DEF ReplayNext, Oldest
<1>7. CASE AppendEntry
  BY <1>7 DEF AppendEntry, SetEntry
<1>8. CASE AppendIndex
  BY <1>8 DEF AppendIndex, SetIndex
<1>9. CASE Send
  <2>1. [ev |-> cur, run |-> run, auth |-> auth, checked |-> FALSE] \in Request
    BY <1>9 DEF Send, Request
  <2> QED
    BY <1>9, <2>1 DEF Send
<1>10. CASE PublishOk
  BY <1>10 DEF PublishOk, AfterOk
<1>11. CASE PublishErr
  BY <1>11 DEF PublishErr, AfterError
<1>12. CASE MarkIndex
  BY <1>12 DEF MarkIndex, SetIndex
<1>13. CASE MarkEntry
  BY <1>13 DEF MarkEntry, SetEntry, Loop
<1>14. CASE Attempt
  BY <1>14 DEF Attempt, CountUp
<1>15. CASE FailIndex
  BY <1>15 DEF FailIndex, SetIndex
<1>16. CASE FailEntry
  BY <1>16 DEF FailEntry, SetEntry
<1>17. CASE SaveState
  BY <1>17 DEF SaveState
<1>18. ASSUME NEW r \in requests, Rejects(r) PROVE TypeInv'
  BY <1>18 DEF Rejects, Done, Answer
<1>19. ASSUME NEW r \in requests, FindsDuplicate(r) PROVE TypeInv'
  BY <1>19 DEF FindsDuplicate, Done, Answer
<1>20. ASSUME NEW r \in requests, FindsNone(r) PROVE TypeInv'
  BY <1>20, ZenonT(40) DEF FindsNone, Request
<1>21. ASSUME NEW r \in requests, Inserts(r) PROVE TypeInv'
  BY <1>21 DEF Inserts, InsertRow, Done, Answer, Request
<1>22. ASSUME NEW r \in requests, InsertConflicts(r) PROVE TypeInv'
  BY <1>22 DEF InsertConflicts, Done, Answer
<1>23. CASE RegisterFails
  BY <1>23 DEF RegisterFails, Fault
<1>24. CASE AppendEntryFails
  BY <1>24 DEF AppendEntryFails, Fault, BadEntryWrite, SetEntry
<1>25. CASE AppendIndexFails
  BY <1>25 DEF AppendIndexFails, Fault, BadIndexWrite, EmptyIndex
<1>26. CASE AttemptFails
  <2>1. faults' \in 0..MaxFaults
    BY <1>26 DEF AttemptFails, Fault
  <2> QED
    BY <1>26, <2>1 DEF AttemptFails, BadEntryWrite, SetEntry, Ends
<1>27. CASE MarkIndexFails
  BY <1>27 DEF MarkIndexFails, Fault, BadIndexWrite, EmptyIndex, Loop
<1>28. CASE MarkEntryFails
  BY <1>28 DEF MarkEntryFails, Fault, BadEntryWrite, SetEntry, Loop
<1>29. CASE SaveStateFails
  <2>1. faults' \in 0..MaxFaults
    BY <1>29 DEF SaveStateFails, Fault
  <2> QED
    BY <1>29, <2>1 DEF SaveStateFails, WritesState
<1>30. ASSUME NEW r \in requests, InsertsButErrs(r) PROVE TypeInv'
  BY <1>30 DEF InsertsButErrs, InsertRow, Done, Answer, Fault, Request
<1>31. ASSUME NEW r \in requests, RequestFails(r) PROVE TypeInv'
  BY <1>31 DEF RequestFails, Done, Answer, Fault
<1>32. CASE ConnectionBreaks
  BY <1>32 DEF ConnectionBreaks, Fault
<1>33. CASE CredentialExpires
  <2>1. faults' \in 0..MaxFaults
    BY <1>33 DEF CredentialExpires, Fault
  <2> QED
    BY <1>33, <2>1, ZenonT(40) DEF CredentialExpires
<1>34. CASE Crash
  BY <1>34 DEF Crash, Ends, WritesEntry, WritesIndex, WritesState, SetEntry,
               EmptyIndex
<1>35. ASSUME NEW e \in Event, Detect(e) PROVE TypeInv'
  BY <1>35 DEF Detect, SpoolFirst
<1>36. CASE InitialDone
  BY <1>36 DEF InitialDone
<1>37. ASSUME NEW e \in Event, PublishInitial(e) PROVE TypeInv'
  BY <1>37 DEF PublishInitial
<1>38. CASE UNCHANGED vars
  BY <1>38 DEF vars
<1> QED
  BY <1>1, <1>2, <1>3, <1>4, <1>5, <1>6, <1>7, <1>8, <1>9, <1>10, <1>11, <1>12,
     <1>13, <1>14, <1>15, <1>16, <1>17, <1>18, <1>19, <1>20, <1>21, <1>22,
     <1>23, <1>24, <1>25, <1>26, <1>27, <1>28, <1>29, <1>30, <1>31, <1>32,
     <1>33, <1>34, <1>35, <1>36, <1>37, <1>38
     DEF Next, Agent, ControlPlane, Failure

-----------------------------------------------------------------------------
(* The inductive invariant.  No property below is inductive by itself: each *)
(* speaks of files and rows, and what a step does to them depends on where  *)
(* the main task stands and on what it has in its hand.                     *)

\* Where the main task stands agrees with what is on the disk: the entry in hand
\* is pending, a new one is absent, and what is left to replay is pending.
Position ==
  /\ pc = "append" => spool[cur] = "absent" /\ cur \in detected
  /\ pc \in InHand => cur \notin toReplay
  /\ pc \in InHand /\ mode # "initial" => spool[cur] = "pending"
  /\ pc \in InHand /\ mode = "initial" =>
       cur \in Initial /\ pc \in {"send", "wait"} /\ spool[cur] = "absent"
  /\ pc = "initial" => mode \in {"initial", "live"}
  /\ pc \in {"down", "baseline", "register", "append", "appendIndex", "attempt",
             "failIndex", "failEntry", "save", "idle"} => mode = "live"
  /\ pc = "replay" => mode = "replay"
  /\ mode # "replay" => toReplay = {}
  /\ \A e \in toReplay : spool[e] = "pending"
  /\ \A e \in Event \ detected : spool[e] = "absent"

\* An answer, a mark under way and a mark on the disk each mean that the key is
\* stored.
Acknowledged ==
  /\ pc # "wait" => answer = "none"
  /\ pc = "wait" /\ Succeeds(answer) => KeyStored(cur)
  /\ pc \in {"markIndex", "markEntry"} => KeyStored(cur)
  /\ DeliveredIsStored

\* Every pending entry is in hand, is still to be replayed, has its key stored
\* or has had an error, and the one in hand is the oldest of the replay.
Ordered ==
  /\ pc \in {"attempt", "failIndex", "failEntry"} => cur \in missed
  /\ pc \notin {"down", "baseline", "register", "initial", "load"} /\ mode # "initial" =>
       \A e \in Event \ toReplay :
         spool[e] = "pending" /\ (pc \in InHand => e # cur) =>
           KeyStored(e) \/ e \in missed
  /\ pc = "send" => \A e \in toReplay : createdAt[cur] <= createdAt[e]
  /\ \A e \in Event : spool[e] = "absent" => createdAt[e] = 0

\* An event that has not come to the count of its attempts has none.
Attempts ==
  /\ \A e \in Event \ detected : attempts[e] = 0
  /\ pc \in {"append", "appendIndex", "send", "wait", "attempt"} /\ mode = "live" =>
       attempts[cur] = 0
  /\ MaxRetries > 1 => pc \notin {"failIndex", "failEntry"}
  /\ NeverGivenUp

IInv ==
  /\ TypeInv
  /\ Position
  /\ Acknowledged
  /\ OneRowPerKey
  /\ SpooledBeforeSent
  /\ Ordered
  /\ Attempts

\* No step breaks the inductive invariant.
LEMMA InvStep == IInv /\ [Next]_vars => IInv'
<1> SUFFICES ASSUME IInv, [Next]_vars
             PROVE  IInv'
  OBVIOUS
<1>0. TypeInv'
  BY TypeStep DEF IInv
<1> USE <1>0, EventAssumption, BoundAssumption
<1> USE DEF IInv, TypeInv, TypeOK, InHand
<1> USE DEF Position, Acknowledged, Ordered, Attempts
<1> USE DEF OneRowPerKey, SpooledBeforeSent, DeliveredIsStored, NeverGivenUp
<1> USE DEF KeyStored, Succeeds
<1> USE DEF spoolVars, diskVars, agentVars, planeVars, envVars
<1>1. CASE Start
  BY <1>1 DEF Start
<1>2. CASE Baseline
  BY <1>2 DEF Baseline
<1>3. CASE Register
  BY <1>3 DEF Register
<1>4. CASE LoadPending
  BY <1>4 DEF LoadPending, PendingEntries
<1>5. CASE ReplayDone
  BY <1>5 DEF ReplayDone
<1>6. ASSUME NEW e \in Event, ReplayNext(e) PROVE IInv'
  BY <1>6 DEF ReplayNext, Oldest
<1>7. CASE AppendEntry
  BY <1>7 DEF AppendEntry, SetEntry
<1>8. CASE AppendIndex
  BY <1>8 DEF AppendIndex, SetIndex
<1>9. CASE Send
  BY <1>9 DEF Send
<1>10. CASE PublishOk
  BY <1>10 DEF PublishOk, AfterOk
<1>11. CASE PublishErr
  BY <1>11 DEF PublishErr, AfterError
<1>12. CASE MarkIndex
  BY <1>12 DEF MarkIndex, SetIndex
<1>13. CASE MarkEntry
  BY <1>13 DEF MarkEntry, SetEntry, Loop
<1>14. CASE Attempt
  BY <1>14 DEF Attempt, CountUp, Exhausted
<1>15. CASE FailIndex
  BY <1>15 DEF FailIndex, SetIndex
<1>16. CASE FailEntry
  BY <1>16 DEF FailEntry, SetEntry
<1>17. CASE SaveState
  BY <1>17 DEF SaveState
<1>18. ASSUME NEW r \in requests, Rejects(r) PROVE IInv'
  BY <1>18 DEF Rejects, Done, Answer
<1>19. ASSUME NEW r \in requests, FindsDuplicate(r) PROVE IInv'
  BY <1>19 DEF FindsDuplicate, Done, Answer
<1>20. ASSUME NEW r \in requests, FindsNone(r) PROVE IInv'
  <2>1. [r EXCEPT !.checked = TRUE].ev = r.ev
    BY DEF Request
  <2>2. \A q \in requests' : \E p \in requests : q.ev = p.ev
    BY <1>20, <2>1 DEF FindsNone
  <2> QED
    BY <1>20, <2>2 DEF FindsNone
<1>21. ASSUME NEW r \in requests, Inserts(r) PROVE IInv'
  BY <1>21 DEF Inserts, InsertRow, KeyIsFree, Done, Answer
<1>22. ASSUME NEW r \in requests, InsertConflicts(r) PROVE IInv'
  BY <1>22 DEF InsertConflicts, Done, Answer
<1>23. CASE RegisterFails
  BY <1>23 DEF RegisterFails
<1>24. CASE AppendEntryFails
  BY <1>24 DEF AppendEntryFails, BadEntryWrite, SetEntry
<1>25. CASE AppendIndexFails
  BY <1>25 DEF AppendIndexFails, BadIndexWrite, EmptyIndex
<1>26. CASE AttemptFails
  BY <1>26 DEF AttemptFails, BadEntryWrite, SetEntry, Ends
<1>27. CASE MarkIndexFails
  BY <1>27 DEF MarkIndexFails, BadIndexWrite, EmptyIndex, Loop
<1>28. CASE MarkEntryFails
  BY <1>28 DEF MarkEntryFails, BadEntryWrite, SetEntry, Loop
<1>29. CASE SaveStateFails
  BY <1>29 DEF SaveStateFails, WritesState
<1>30. ASSUME NEW r \in requests, InsertsButErrs(r) PROVE IInv'
  BY <1>30 DEF InsertsButErrs, InsertRow, KeyIsFree, Done, Answer
<1>31. ASSUME NEW r \in requests, RequestFails(r) PROVE IInv'
  BY <1>31 DEF RequestFails, Done, Answer
<1>32. CASE ConnectionBreaks
  BY <1>32 DEF ConnectionBreaks
<1>33. CASE CredentialExpires
  BY <1>33 DEF CredentialExpires
<1>34. CASE Crash
  <2>1. /\ pc' = "down"
        /\ mode' = "live"
        /\ toReplay' = {}
        /\ answer' = "none"
        /\ UNCHANGED <<attempts, createdAt, planeVars, envVars>>
    BY <1>34 DEF Crash, Ends
  <2>2. \A e \in Event : \/ spool'[e] = spool[e]
                         \/ spool'[e] = "torn" /\ e \in detected
    <3>1. CASE pc \in WritesEntry /\ SetEntry("torn")
      BY <3>1 DEF WritesEntry, SetEntry
    <3> QED
      BY <1>34, <3>1 DEF Crash
  <2>3. \A e \in Event : index'[e] = index[e] \/ index'[e] = "none"
    BY <1>34 DEF Crash, EmptyIndex
  <2>4. DeliveredIsStored'
    BY <2>1, <2>2, <2>3
  <2>5. Position'
    BY <2>1, <2>2
  <2>6. OneRowPerKey' /\ SpooledBeforeSent'
    BY <2>1, <2>2 DEF Request
  <2>7. Attempts'
    BY <2>1, <2>2
  <2>8. Ordered'
    BY <2>1, <2>2
  <2>9. Acknowledged'
    BY <2>1, <2>4
  <2> QED
    BY <2>5, <2>6, <2>7, <2>8, <2>9
<1>35. ASSUME NEW e \in Event, Detect(e) PROVE IInv'
  BY <1>35 DEF Detect, SpoolFirst
<1>36. CASE InitialDone
  BY <1>36 DEF InitialDone
<1>37. ASSUME NEW e \in Event, PublishInitial(e) PROVE IInv'
  BY <1>37 DEF PublishInitial
<1>38. CASE UNCHANGED vars
  BY <1>38 DEF vars
<1> QED
  BY <1>1, <1>2, <1>3, <1>4, <1>5, <1>6, <1>7, <1>8, <1>9, <1>10, <1>11,
     <1>12, <1>13, <1>14, <1>15, <1>16, <1>17, <1>18, <1>19, <1>20, <1>21,
     <1>22, <1>23, <1>24, <1>25, <1>26, <1>27, <1>28, <1>29, <1>30, <1>31,
     <1>32, <1>33, <1>34, <1>35, <1>36, <1>37, <1>38
     DEF Next, Agent, ControlPlane, Failure

-----------------------------------------------------------------------------
(* The invariants.                                                          *)

\* IInv holds in every state of every execution.
THEOREM Invariance == Spec => []IInv
<1>1. Init => IInv
  <2> SUFFICES ASSUME Init
               PROVE  IInv
    OBVIOUS
  <2> USE DEF Init, EmptyIndex, InHand
  <2>1. TypeInv
    <3>1. 0 \in 0..MaxRuns /\ 0 \in 0..MaxFaults
      BY BoundAssumption
    <3>2. pc \in Step /\ requests \subseteq Request
      BY DEF Step
    <3> QED
      BY <3>1, <3>2 DEF TypeInv, TypeOK, EntryState, IndexStatus
  <2>2. Position /\ Acknowledged
    BY DEF Position, Acknowledged, DeliveredIsStored
  <2>3. OneRowPerKey /\ SpooledBeforeSent
    BY DEF OneRowPerKey, SpooledBeforeSent
  <2>4. Ordered /\ Attempts
    BY DEF Ordered, Attempts, NeverGivenUp
  <2> QED
    BY <2>1, <2>2, <2>3, <2>4 DEF IInv
<1>2. IInv /\ [Next]_vars => IInv'
  BY InvStep
<1> QED
  BY <1>1, <1>2, PTL DEF Spec

\* Every variable keeps its type, whatever crashes or fails.
THEOREM TypeCorrect == Spec => []TypeOK
<1>1. IInv => TypeOK
  BY DEF IInv, TypeInv
<1> QED
  BY <1>1, Invariance, PTL

\* An event that the spool calls delivered has a row with its key.
THEOREM DeliveredStored == Spec => []DeliveredIsStored
<1>1. IInv => DeliveredIsStored
  BY DEF IInv, Acknowledged
<1> QED
  BY <1>1, Invariance, PTL

\* No idempotency key has two rows, however publishes race.
THEOREM KeysUnique == Spec => []OneRowPerKey
<1>1. IInv => OneRowPerKey
  BY DEF IInv
<1> QED
  BY <1>1, Invariance, PTL

\* What travels or is stored has been written to the spool before.
THEOREM DiskBeforeNetwork == Spec => []SpooledBeforeSent
<1>1. IInv => SpooledBeforeSent
  BY DEF IInv
<1> QED
  BY <1>1, Invariance, PTL

\* Older pending entries are published, or have failed in this run, first.
THEOREM PublishOrder == Spec => []PublishedInOrder
<1>1. IInv => PublishedInOrder
  <2> SUFFICES ASSUME IInv, pc = "send",
                      NEW e \in Event, spool[e] = "pending",
                      createdAt[e] < createdAt[cur]
               PROVE  KeyStored(e) \/ e \in missed
    BY DEF PublishedInOrder
  <2>1. cur \in Event /\ createdAt[e] \in Nat /\ createdAt[cur] \in Nat
    BY DEF IInv, TypeInv, TypeOK, InHand
  <2>2. e \notin toReplay /\ e # cur
    BY <2>1 DEF IInv, Ordered
  <2>3. mode # "initial"
    BY <2>1 DEF IInv, Ordered, Position, InHand
  <2> QED
    BY <2>2, <2>3 DEF IInv, Ordered
<1> QED
  BY <1>1, Invariance, PTL

\* With more than one attempt allowed, no event is ever marked failed.
THEOREM NoneGivenUp == Spec => []NeverGivenUp
<1>1. IInv => NeverGivenUp
  BY DEF IInv, Attempts
<1> QED
  BY <1>1, Invariance, PTL

-----------------------------------------------------------------------------
(* What a step does to the entries of the spool.                            *)

\* A step sets at most the entry in hand, and that one leaves "absent" for
\* "pending" or "torn", and "pending" for "delivered", "failed" or "torn".
EntryStep ==
  \/ UNCHANGED spool
  \/ \E s \in EntryState :
       /\ cur \in Event
       /\ SetEntry(s)
       /\ UNCHANGED rows
       /\ \/ spool[cur] = "absent" /\ s \in {"absent", "pending", "torn"}
          \/ spool[cur] = "pending" /\ s \in {"pending", "failed", "torn"}
          \/ spool[cur] = "pending" /\ s = "delivered" /\ KeyStored(cur)

\* The steps that write no entry.
LEMMA EntryWriters ==
  ASSUME [Next]_vars
  PROVE  \/ UNCHANGED spool
         \/ AppendEntry \/ AppendEntryFails \/ MarkEntry \/ MarkEntryFails
         \/ AttemptFails \/ FailEntry \/ Crash
<1> USE DEF diskVars, spoolVars
<1>1. ASSUME Agent PROVE UNCHANGED spool \/ AppendEntry \/ MarkEntry \/ FailEntry
  BY <1>1 DEF Agent, Start, Baseline, Register, InitialDone, PublishInitial,
              LoadPending, ReplayDone, ReplayNext,
              AppendIndex, Send, PublishOk, PublishErr, MarkIndex, Attempt,
              FailIndex, SaveState
<1>2. ASSUME ControlPlane PROVE UNCHANGED spool
  BY <1>2 DEF ControlPlane, Rejects, FindsDuplicate, FindsNone, Inserts,
              InsertConflicts
<1>3. ASSUME Failure
      PROVE  \/ UNCHANGED spool
             \/ AppendEntryFails \/ MarkEntryFails \/ AttemptFails \/ Crash
  BY <1>3 DEF Failure, RegisterFails, AppendIndexFails, MarkIndexFails,
              SaveStateFails, InsertsButErrs, RequestFails, ConnectionBreaks,
              CredentialExpires
<1>4. ASSUME NEW e \in Event, Detect(e) PROVE UNCHANGED spool
  BY <1>4 DEF Detect
<1> QED
  BY <1>1, <1>2, <1>3, <1>4 DEF Next, vars

\* The few steps that write an entry leave a final one alone.
LEMMA EntrySteps == IInv /\ [Next]_vars => EntryStep
<1> SUFFICES ASSUME IInv, [Next]_vars
             PROVE  EntryStep
  OBVIOUS
<1> USE DEF EntryStep, EntryState, BadEntryWrite, planeVars
<1>1. /\ cur \in Event \/ pc \notin InHand \union {"append"}
      /\ spool \in [Event -> EntryState]
      /\ pc \in InHand \ {"send", "wait"} => spool[cur] = "pending"
      /\ pc = "append" => spool[cur] = "absent"
      /\ pc = "markEntry" => KeyStored(cur)
  BY DEF IInv, TypeInv, TypeOK, Position, Acknowledged
<1>2. CASE AppendEntry
  BY <1>1, <1>2 DEF AppendEntry
<1>3. CASE AppendEntryFails
  BY <1>1, <1>3 DEF AppendEntryFails
<1>4. CASE MarkEntry
  BY <1>1, <1>4 DEF MarkEntry, InHand
<1>5. CASE MarkEntryFails
  BY <1>1, <1>5 DEF MarkEntryFails, InHand
<1>6. CASE AttemptFails
  BY <1>1, <1>6 DEF AttemptFails, InHand
<1>7. CASE FailEntry
  BY <1>1, <1>7 DEF FailEntry, InHand
<1>8. CASE Crash
  BY <1>1, <1>8 DEF Crash, WritesEntry, InHand
<1>9. CASE UNCHANGED spool
  BY <1>9
<1> QED
  BY <1>2, <1>3, <1>4, <1>5, <1>6, <1>7, <1>8, <1>9, EntryWriters

-----------------------------------------------------------------------------
(* The spool and the ingest handler implement the outbox.                   *)

\* A step adds at most the event of one request to the rows, its key is free
\* and its entry is written.
LEMMA RowSteps ==
  ASSUME IInv, [Next]_vars
  PROVE  \/ UNCHANGED rows
         \/ \E r \in requests : InsertRow(r) /\ UNCHANGED spool
<1> USE DEF planeVars, diskVars, spoolVars
<1>1. ASSUME Agent PROVE UNCHANGED rows
  BY <1>1 DEF Agent, Start, Baseline, Register, InitialDone, PublishInitial,
              LoadPending, ReplayDone, ReplayNext,
              AppendEntry, AppendIndex, Send, PublishOk, PublishErr, MarkIndex,
              MarkEntry, Attempt, FailIndex, FailEntry, SaveState
<1>2. ASSUME ControlPlane
      PROVE  UNCHANGED rows \/ \E r \in requests : InsertRow(r) /\ UNCHANGED spool
  <2>1. ASSUME NEW r \in requests, Inserts(r)
        PROVE  InsertRow(r) /\ UNCHANGED spool
    BY <2>1 DEF Inserts
  <2>2. ASSUME NEW r \in requests,
               Rejects(r) \/ FindsDuplicate(r) \/ FindsNone(r) \/ InsertConflicts(r)
        PROVE  UNCHANGED rows
    BY <2>2 DEF Rejects, FindsDuplicate, FindsNone, InsertConflicts
  <2>3. PICK r \in requests : \/ Rejects(r) \/ FindsDuplicate(r) \/ FindsNone(r)
                              \/ Inserts(r) \/ InsertConflicts(r)
    BY <1>2 DEF ControlPlane
  <2> QED
    BY <2>1, <2>2, <2>3
<1>3. ASSUME Failure
      PROVE  UNCHANGED rows \/ \E r \in requests : InsertRow(r) /\ UNCHANGED spool
  <2>1. ASSUME NEW r \in requests, InsertsButErrs(r)
        PROVE  InsertRow(r) /\ UNCHANGED spool
    BY <2>1 DEF InsertsButErrs
  <2>2. ASSUME NEW r \in requests, RequestFails(r)
        PROVE  UNCHANGED rows
    BY <2>2 DEF RequestFails
  <2>3. CASE \E r \in requests : InsertsButErrs(r) \/ RequestFails(r)
    BY <2>1, <2>2, <2>3
  <2>4. CASE AppendEntryFails \/ AppendIndexFails \/ AttemptFails
             \/ MarkIndexFails \/ MarkEntryFails
    BY <2>4 DEF AppendEntryFails, AppendIndexFails, AttemptFails,
                MarkIndexFails, MarkEntryFails
  <2>5. CASE RegisterFails \/ SaveStateFails \/ ConnectionBreaks
             \/ CredentialExpires \/ Crash
    BY <2>5 DEF RegisterFails, SaveStateFails, ConnectionBreaks,
                CredentialExpires, Crash
  <2> QED
    BY <1>3, <2>3, <2>4, <2>5 DEF Failure
<1>4. ASSUME NEW e \in Event, Detect(e) PROVE UNCHANGED rows
  BY <1>4 DEF Detect
<1> QED
  BY <1>1, <1>2, <1>3, <1>4 DEF Next, vars

\* Every execution of the delivery is one of the outbox: an entry that is first
\* written is a Spool, an inserted row a Store, an entry marked delivered an Ack.
THEOREM Implementation == Spec => ImplementsOutbox
<1>1. Init => Abstract!Init
  BY DEF Init, Abstract!Init
<1>2. IInv /\ [Next]_vars => [Abstract!Next]_(Abstract!vars)
  <2> SUFFICES ASSUME IInv, [Next]_vars
               PROVE  [Abstract!Next]_(Abstract!vars)
    OBVIOUS
  <2> USE DEF Abstract!Next, Abstract!vars
  <2>1. CASE UNCHANGED <<spool, rows>>
    BY <2>1
  <2>2. ASSUME UNCHANGED spool, NEW r \in requests, InsertRow(r)
        PROVE  Abstract!Next
    <3>1. r.ev \in Event /\ (spool[r.ev] # "absent" \/ r.ev \in Initial)
      BY DEF IInv, TypeInv, TypeOK, Request, SpooledBeforeSent
    <3>2. Abstract!Store(r.ev)
      BY <2>2, <3>1 DEF Abstract!Store, InsertRow, KeyIsFree, KeyStored
    <3> QED
      BY <3>1, <3>2
  <2>3. ASSUME UNCHANGED rows, spool' # spool
        PROVE  [Abstract!Next]_(Abstract!vars)
    <3>1. PICK s \in EntryState :
            /\ cur \in Event
            /\ SetEntry(s)
            /\ \/ spool[cur] = "absent" /\ s \in {"absent", "pending", "torn"}
               \/ spool[cur] = "pending" /\ s \in {"pending", "failed", "torn"}
               \/ spool[cur] = "pending" /\ s = "delivered" /\ KeyStored(cur)
      BY <2>3, EntrySteps DEF EntryStep
    <3>2. spool \in [Event -> EntryState]
      BY DEF IInv, TypeInv, TypeOK
    <3>3. PICK e \in Event : e = cur
      BY <3>1
    <3>4. CASE spool[e] = "absent" /\ s # "absent"
      <4>1. Abstract!Spool(e)
        BY <2>3, <3>1, <3>2, <3>3, <3>4 DEF SetEntry, Abstract!Spool
      <4> QED
        BY <4>1
    <3>5. CASE spool[e] = "pending" /\ s = "delivered"
      <4>1. Abstract!Ack(e)
        BY <2>3, <3>1, <3>2, <3>3, <3>5 DEF SetEntry, KeyStored, Abstract!Ack
      <4> QED
        BY <4>1
    <3>6. CASE \/ spool[e] = "pending" /\ s # "delivered"
               \/ s = "absent"
      BY <2>3, <3>1, <3>2, <3>3, <3>6 DEF SetEntry
    <3> QED
      BY <3>1, <3>3, <3>4, <3>5, <3>6
  <2> QED
    BY <2>1, <2>2, <2>3, RowSteps
<1> QED
  BY <1>1, <1>2, Invariance, PTL DEF Spec, ImplementsOutbox, Abstract!Spec

-----------------------------------------------------------------------------
(* What an appended entry may be lost by.                                   *)

\* The steps that rewrite a pending entry: what is marked delivered has its row,
\* and an entry is only counted or given up after an error.
LEMMA PendingSteps ==
  ASSUME IInv, [Next]_vars, NEW e \in Event,
         spool[e] = "pending", spool'[e] # "pending", ~KeyStored(e)
  PROVE  /\ e = cur /\ e \in missed
         /\ \/ pc = "attempt" /\ spool'[e] = "torn"
            \/ pc = "failEntry" /\ spool'[e] \in {"torn", "failed"}
<1> USE DEF BadEntryWrite, SetEntry
<1>1. /\ spool \in [Event -> EntryState]
      /\ pc = "append" => spool[cur] = "absent"
      /\ pc = "markEntry" => KeyStored(cur)
      /\ pc \in {"attempt", "failEntry"} => cur \in missed
  BY DEF IInv, TypeInv, TypeOK, Position, Acknowledged, Ordered
<1>2. CASE AppendEntry \/ AppendEntryFails
  BY <1>1, <1>2 DEF AppendEntry, AppendEntryFails
<1>3. CASE MarkEntry
  BY <1>1, <1>3 DEF MarkEntry
<1>4. CASE MarkEntryFails
  BY <1>1, <1>4 DEF MarkEntryFails
<1>5. CASE AttemptFails
  BY <1>1, <1>5 DEF AttemptFails
<1>6. CASE FailEntry
  BY <1>1, <1>6 DEF FailEntry
<1>7. CASE Crash
  BY <1>1, <1>7 DEF Crash, WritesEntry
<1> QED
  BY <1>2, <1>3, <1>4, <1>5, <1>6, <1>7, EntryWriters

\* An entry that is delivered or failed stays so for good, and the only way to
\* lose an appended one is that of the run delivery_lost.
THEOREM EntriesKept == Spec => EntryFate
<1>1. IInv /\ [Next]_vars =>
        [\A e \in Event :
           /\ spool[e] \in {"delivered", "failed"} => spool'[e] = spool[e]
           /\ createdAt[e] > 0 /\ spool[e] = "pending" /\ ~KeyStored(e) =>
                \/ spool'[e] = "pending"
                \/ /\ e = cur /\ e \in missed
                   /\ \/ pc = "attempt" /\ spool'[e] = "torn"
                      \/ pc = "failEntry" /\ spool'[e] \in {"torn", "failed"}]_vars
  <2> SUFFICES ASSUME IInv, [Next]_vars, NEW e \in Event
               PROVE  /\ spool[e] \in {"delivered", "failed"} => spool'[e] = spool[e]
                      /\ spool[e] = "pending" /\ ~KeyStored(e) =>
                           \/ spool'[e] = "pending"
                           \/ /\ e = cur /\ e \in missed
                              /\ \/ pc = "attempt" /\ spool'[e] = "torn"
                                 \/ pc = "failEntry" /\ spool'[e] \in {"torn", "failed"}
    OBVIOUS
  <2>1. spool[e] \in {"delivered", "failed"} => spool'[e] = spool[e]
    <3>1. EntryStep
      BY EntrySteps
    <3> QED
      BY <3>1 DEF EntryStep, SetEntry, IInv, TypeInv, TypeOK
  <2> QED
    BY <2>1, PendingSteps
<1> QED
  BY <1>1, Invariance, PTL DEF Spec, EntryFate

-----------------------------------------------------------------------------
(* A restart after the last fault: what RestartDelivers says but that the   *)
(* replay comes to its end.                                                 *)

\* What the control plane does not refuse and the spool calls pending has its
\* key stored.
Replayed == \A e \in Event \ Refused : spool[e] = "pending" => KeyStored(e)

\* Crash recovery: once an agent registers with no more faults to come, it is
\* never idle with an entry left whose row is missing, be the entry of an
\* earlier run or of an event that is detected later.  It may end with an answer
\* outstanding, and whether it ever is idle again is LoopReturns.
RestartReplays == [](pc = "register" /\ Quiet => [](pc = "idle" => Replayed))

\* A request belongs to this run, if the agent has come as far as to send one,
\* or to an earlier one.
RequestRuns ==
  \A r \in requests :
    r.run <= run /\ (pc \in {"baseline", "register"} => r.run < run)

\* After a restart with no fault to come the agent has its credential, each
\* error it hears of is a refusal or a lost race for the key, and all that is
\* pending is stored, still to be replayed or in hand.
QuietInv ==
  /\ Quiet
  /\ pc \notin {"down", "baseline"}
  /\ pc # "register" => auth
  /\ \A r \in requests : r.run = run => r.auth
  /\ pc = "wait" /\ answer = "error" => cur \in Refused \/ KeyStored(cur)
  /\ pc \notin {"register", "initial", "load"} /\ mode # "initial" =>
       \A e \in Event \ Refused :
         spool[e] = "pending" =>
           \/ KeyStored(e) \/ e \in toReplay
           \/ e = cur /\ pc \in {"appendIndex", "send", "wait"}

\* Only Send adds a request, of the present run.
LEMMA RunsStep == IInv /\ RequestRuns /\ [Next]_vars => RequestRuns'
<1> SUFFICES ASSUME IInv, RequestRuns, [Next]_vars
             PROVE  RequestRuns'
  OBVIOUS
<1> DEFINE Keeps ==
      /\ run' = run
      /\ requests' \subseteq requests
      /\ pc' \in {"baseline", "register"} => pc \in {"baseline", "register"}
<1> USE BoundAssumption
<1> USE DEF planeVars, envVars
<1>1. /\ run \in Nat
      /\ \A r \in requests : r.run \in Nat
      /\ requests \subseteq Request
      /\ mode \in {"initial", "replay", "live"}
  BY DEF IInv, TypeInv, TypeOK, Request
<1>2. CASE Start
  BY <1>1, <1>2 DEF Start, RequestRuns
<1>3. CASE Send
  BY <1>1, <1>3 DEF Send, RequestRuns
<1>4. ASSUME NEW r \in requests, FindsNone(r)
      PROVE  RequestRuns'
  <2>1. [r EXCEPT !.checked = TRUE].run = r.run
    BY <1>1 DEF Request
  <2> QED
    BY <1>1, <1>4, <2>1 DEF FindsNone, agentVars, RequestRuns
<1>5. ASSUME Agent PROVE Start \/ Send \/ Keeps
  <2>1. CASE \E e \in Event : PublishInitial(e) \/ ReplayNext(e)
    BY <2>1 DEF PublishInitial, ReplayNext
  <2>2. CASE PublishOk \/ PublishErr
    BY <1>1, <2>2 DEF PublishOk, PublishErr, AfterOk, AfterError
  <2>3. CASE MarkEntry
    BY <1>1, <2>3 DEF MarkEntry, Loop
  <2>4. CASE Attempt
    BY <2>4 DEF Attempt
  <2>5. CASE AppendEntry \/ AppendIndex \/ MarkIndex \/ FailIndex \/ FailEntry
    BY <2>5 DEF AppendEntry, AppendIndex, MarkIndex, FailIndex, FailEntry
  <2>6. CASE Baseline \/ Register \/ InitialDone \/ LoadPending \/ ReplayDone
             \/ SaveState
    BY <2>6 DEF Baseline, Register, InitialDone, LoadPending, ReplayDone,
                SaveState
  <2> QED
    BY <1>5, <2>1, <2>2, <2>3, <2>4, <2>5, <2>6 DEF Agent
<1>6. ASSUME NEW r \in requests,
             \/ Rejects(r) \/ FindsDuplicate(r) \/ Inserts(r) \/ InsertConflicts(r)
             \/ InsertsButErrs(r) \/ RequestFails(r)
      PROVE  Keeps
  BY <1>6 DEF Rejects, FindsDuplicate, Inserts, InsertConflicts, InsertsButErrs,
              RequestFails, Done
<1>7. CASE AppendEntryFails \/ AppendIndexFails \/ AttemptFails
           \/ MarkIndexFails \/ MarkEntryFails
  <2>1. Keeps
    BY <1>1, <1>7 DEF AppendEntryFails, AppendIndexFails, AttemptFails,
                      MarkIndexFails, MarkEntryFails, Loop, Ends
  <2> QED
    BY <1>1, <2>1 DEF RequestRuns
<1>8. CASE RegisterFails \/ SaveStateFails \/ ConnectionBreaks
           \/ CredentialExpires \/ Crash
  <2>1. Keeps
    BY <1>8 DEF RegisterFails, SaveStateFails, WritesState, ConnectionBreaks,
                CredentialExpires, Crash, Ends
  <2> QED
    BY <1>1, <2>1 DEF RequestRuns
<1>9. CASE \E e \in Event : Detect(e)
  <2>1. Keeps
    BY <1>9 DEF Detect, SpoolFirst
  <2> QED
    BY <1>1, <2>1 DEF RequestRuns
<1>10. CASE UNCHANGED vars
  BY <1>10 DEF vars, agentVars, RequestRuns
<1>11. ASSUME Keeps PROVE RequestRuns'
  BY <1>1, <1>11 DEF RequestRuns
<1> QED
  BY <1>2, <1>3, <1>4, <1>5, <1>6, <1>7, <1>8, <1>9, <1>10, <1>11
     DEF Next, ControlPlane, Failure

\* Nothing that is left to happen after the last fault breaks QuietInv.
LEMMA QuietStep ==
  IInv /\ RequestRuns /\ QuietInv /\ [Next]_vars => QuietInv'
<1> SUFFICES ASSUME IInv, RequestRuns, QuietInv, [Next]_vars
             PROVE  QuietInv'
  OBVIOUS
<1> USE BoundAssumption
<1> USE DEF QuietInv, Quiet, InHand, KeyStored
<1> USE DEF spoolVars, diskVars, agentVars, planeVars, envVars
<1>1. /\ spool \in [Event -> EntryState]
      /\ requests \subseteq Request
      /\ mode \in {"initial", "replay", "live"}
      /\ run \in Nat /\ faults \in Nat
      /\ pc \in InHand \union {"append"} => cur \in Event
      /\ Position /\ Acknowledged
  BY DEF IInv, TypeInv, TypeOK
<1>2. CASE Start \/ Baseline \/ Register
  BY <1>2 DEF Start, Baseline, Register, RequestRuns
<1>3. CASE InitialDone
  BY <1>3 DEF InitialDone
<1>4. CASE LoadPending
  BY <1>4 DEF LoadPending, PendingEntries
<1>5. CASE ReplayDone
  BY <1>1, <1>5 DEF ReplayDone, Position
<1>6. ASSUME NEW e \in Event, PublishInitial(e) PROVE QuietInv'
  BY <1>6 DEF PublishInitial
<1>7. ASSUME NEW e \in Event, ReplayNext(e) PROVE QuietInv'
  BY <1>1, <1>7 DEF ReplayNext, Position
<1>8. CASE AppendEntry
  BY <1>1, <1>8 DEF AppendEntry, SetEntry, Position
<1>9. CASE AppendIndex
  BY <1>9 DEF AppendIndex
<1>10. CASE Send
  <2>1. answer = "none" /\ auth
    BY <1>1, <1>10 DEF Send, Acknowledged
  <2>2. \A r \in requests' : r.run = run' => r.auth
    BY <1>10, <2>1 DEF Send
  <2> QED
    BY <1>1, <1>10, <2>1, <2>2 DEF Send, Position
<1>11. CASE PublishOk
  BY <1>1, <1>11 DEF PublishOk, AfterOk, Position, Acknowledged, Succeeds
<1>12. CASE PublishErr
  BY <1>1, <1>12 DEF PublishErr, AfterError, Position
<1>13. CASE MarkIndex
  BY <1>13 DEF MarkIndex
<1>14. CASE MarkEntry
  BY <1>1, <1>14 DEF MarkEntry, SetEntry, Loop, Position
<1>15. CASE Attempt \/ FailIndex
  BY <1>15 DEF Attempt, FailIndex
<1>16. CASE FailEntry
  BY <1>1, <1>16 DEF FailEntry, SetEntry
<1>17. CASE SaveState
  BY <1>17 DEF SaveState
<1>18. ASSUME NEW r \in requests, Rejects(r) PROVE QuietInv'
  BY <1>18 DEF Rejects, Done, Answer
<1>19. ASSUME NEW r \in requests, FindsDuplicate(r) PROVE QuietInv'
  BY <1>19 DEF FindsDuplicate, Done, Answer
<1>20. ASSUME NEW r \in requests, FindsNone(r) PROVE QuietInv'
  <2>1. /\ [r EXCEPT !.checked = TRUE].run = r.run
        /\ [r EXCEPT !.checked = TRUE].auth = r.auth
    BY <1>1 DEF Request
  <2> QED
    BY <1>20, <2>1 DEF FindsNone
<1>21. ASSUME NEW r \in requests, Inserts(r) PROVE QuietInv'
  BY <1>21 DEF Inserts, InsertRow, Done, Answer
<1>22. ASSUME NEW r \in requests, InsertConflicts(r) PROVE QuietInv'
  BY <1>22 DEF InsertConflicts, KeyIsFree, Done, Answer
<1>23. ~Fault
  BY <1>1 DEF Fault
<1>24. ~Crash
  BY <1>1 DEF Crash
<1>25. CASE Failure
  BY <1>23, <1>24, <1>25
     DEF Failure, RegisterFails, AppendEntryFails, AppendIndexFails,
         AttemptFails, MarkIndexFails, MarkEntryFails, SaveStateFails,
         InsertsButErrs, RequestFails, ConnectionBreaks, CredentialExpires
<1>26. ASSUME NEW e \in Event, Detect(e) PROVE QuietInv'
  BY <1>1, <1>26 DEF Detect, SpoolFirst, Position
<1>27. CASE UNCHANGED vars
  BY <1>27 DEF vars
<1> QED
  BY <1>2, <1>3, <1>4, <1>5, <1>6, <1>7, <1>8, <1>9, <1>10, <1>11, <1>12,
     <1>13, <1>14, <1>15, <1>16, <1>17, <1>18, <1>19, <1>20, <1>21, <1>22,
     <1>25, <1>26, <1>27 DEF Next, Agent, ControlPlane

\* Each request is of the run that sent it.
LEMMA RunsInvariant == Spec => []RequestRuns
<1>1. Init => RequestRuns
  BY DEF Init, RequestRuns
<1> QED
  BY <1>1, RunsStep, Invariance, PTL DEF Spec

\* An agent that is restarted after the last fault has, whenever it is idle,
\* every entry stored that the control plane does not refuse.
THEOREM RestartRecovers == Spec => RestartReplays
<1>1. IInv /\ RequestRuns /\ pc = "register" /\ Quiet => QuietInv
  <2> SUFFICES ASSUME IInv, RequestRuns, pc = "register", Quiet
               PROVE  QuietInv
    OBVIOUS
  <2>1. run \in Nat /\ \A r \in requests : r.run < run
    BY DEF IInv, TypeInv, TypeOK, RequestRuns
  <2>2. requests \subseteq Request /\ answer = "none"
    BY DEF IInv, TypeInv, TypeOK, Acknowledged
  <2> QED
    BY <2>1, <2>2 DEF QuietInv, Request
<1>2. IInv /\ QuietInv => (pc = "idle" => Replayed)
  BY DEF IInv, Position, QuietInv, Replayed
<1> QED
  BY <1>1, <1>2, QuietStep, RunsInvariant, Invariance, PTL
     DEF Spec, RestartReplays
-----------------------------------------------------------------------------
(* The attempts. *)

\* An entry is counted at most once, in whatever runs: the main loop sends only what
\* it has just appended, and the replay, which sends an entry again, does not count.
\* The limit of five attempts is never reached (app.rs:371, publish_change).
CountedOnce ==
  /\ \A e \in Event : attempts[e] \in {0, 1}
  /\ pc = "send" /\ attempts[cur] = 1 => mode = "replay"

\* Only Attempt writes a count.
LEMMA CountSteps ==
  ASSUME IInv, [Next]_vars, ~Attempt
  PROVE  UNCHANGED attempts
<1> USE DEF spoolVars, diskVars, agentVars, planeVars, envVars
<1>1. CASE Agent
  BY <1>1 DEF Agent, Start, Baseline, Register, LoadPending, ReplayDone, ReplayNext,
     AppendEntry, AppendIndex, Send, PublishOk, PublishErr, MarkIndex, MarkEntry, FailIndex,
     FailEntry, SaveState, InitialDone, PublishInitial
<1>2. CASE ControlPlane
  BY <1>2 DEF ControlPlane, Rejects, FindsDuplicate, FindsNone, Inserts, InsertConflicts
<1>3. CASE Failure
  BY <1>3 DEF Failure, RegisterFails, AppendEntryFails, AppendIndexFails, AttemptFails,
     MarkIndexFails, MarkEntryFails, SaveStateFails, InsertsButErrs, RequestFails,
     ConnectionBreaks, CredentialExpires, Crash
<1>4. ASSUME NEW e \in Event, Detect(e) PROVE UNCHANGED attempts
  BY <1>4 DEF Detect
<1> QED
  BY <1>1, <1>2, <1>3, <1>4 DEF Next, vars

\* An event that is not in the spool, an initial snapshot's too, has no count.
THEOREM AttemptsCountedOnce == Spec => []CountedOnce
<1> DEFINE Count == \A e \in Event : /\ attempts[e] \in {0, 1}
                                     /\ spool[e] = "absent" => attempts[e] = 0
<1>1. Init => Count
  BY DEF Init
<1>2. IInv /\ Count /\ [Next]_vars => Count'
  <2> SUFFICES ASSUME IInv, Count, [Next]_vars PROVE Count'
    OBVIOUS
  <2>1. CASE Attempt
    <3>1. /\ cur \in Event /\ attempts[cur] = 0 /\ attempts \in [Event -> Nat]
          /\ attempts' = [attempts EXCEPT ![cur] = attempts[cur] + 1]
          /\ spool[cur] = "pending" /\ spool' = spool
      BY <2>1 DEF Attempt, CountUp, IInv, TypeInv, TypeOK, InHand, Attempts, Position,
                  diskVars, spoolVars
    <3> QED
      BY <3>1
  <2>2. CASE ~Attempt
    <3>1. UNCHANGED attempts
      BY <2>2, CountSteps
    <3>2. \A e \in Event : spool'[e] = "absent" => spool[e] = "absent"
      BY EntrySteps DEF EntryStep, SetEntry, IInv, TypeInv, TypeOK
    <3> QED
      BY <3>1, <3>2
  <2> QED
    BY <2>1, <2>2
<1>3. IInv /\ Count => CountedOnce
  BY DEF IInv, Attempts, Position, TypeInv, TypeOK, InHand, CountedOnce, EventAssumption
<1> QED
  BY <1>1, <1>2, <1>3, Invariance, PTL DEF Spec

-----------------------------------------------------------------------------
(* The loops of the agent: what LoopReturns says but that fair steps come.  *)

\* An agent that waits has its request under way or its answer at hand, whatever
\* requests of earlier runs or for other events the control plane handles first: the
\* client sets no time limit, so a request that was forgotten would stop the agent
\* for good (publish_change).
Awaited ==
  pc = "wait" /\ answer = "none" => \E r \in requests : r.run = run /\ r.ev = cur

\* The end of a request.
LEMMA AwaitedDone ==
  ASSUME IInv, Awaited, NEW r \in requests, NEW a, a # "none", Done(r), Answer(r, a),
         UNCHANGED <<pc, run, cur>>
  PROVE  Awaited'
<1> SUFFICES ASSUME pc = "wait", answer' = "none"
             PROVE  \E q \in requests' : q.run = run /\ q.ev = cur
  BY DEF Awaited
<1>1. answer = "none" /\ ~(r.run = run /\ r.ev = cur)
  BY DEF Answer
<1>2. PICK q \in requests : q.run = run /\ q.ev = cur
  BY <1>1 DEF Awaited
<1>3. q \in requests'
  BY <1>1, <1>2 DEF Done
<1> QED
  BY <1>2, <1>3

THEOREM AnswerComes == Spec => []Awaited
<1>1. Init => Awaited
  BY DEF Init, Awaited
<1>2. IInv /\ Awaited /\ [Next]_vars => Awaited'
  <2> SUFFICES ASSUME IInv, Awaited, [Next]_vars PROVE Awaited'
    OBVIOUS
  <2> USE DEF spoolVars, diskVars, agentVars, planeVars, envVars
  <2>1. CASE Agent
    <3>1. CASE Send
      <4> DEFINE q == [ev |-> cur, run |-> run, auth |-> auth, checked |-> FALSE]
      <4>1. /\ q \in requests' /\ q.ev = cur /\ q.run = run
            /\ UNCHANGED <<run, cur>>
        BY <3>1 DEF Send
      <4> HIDE DEF q
      <4> QED
        BY <4>1 DEF Awaited
    <3>2. CASE ~Send
      <4>1. pc' # "wait" \/ UNCHANGED <<pc, answer, requests, run, cur>>
        BY <2>1, <3>2 DEF Agent, Start, Baseline, Register, LoadPending, ReplayDone,
           ReplayNext, AppendEntry, AppendIndex, PublishOk, PublishErr, MarkIndex,
           MarkEntry, Attempt, FailIndex, FailEntry, SaveState, InitialDone,
           PublishInitial, AfterOk, AfterError, Loop, IInv, TypeInv, TypeOK
      <4> QED
        BY <4>1 DEF Awaited
    <3> QED
      BY <3>1, <3>2
  <2>2. CASE ControlPlane
    <3>1. ASSUME NEW r \in requests, FindsNone(r) PROVE Awaited'
      <4>1. /\ [r EXCEPT !.checked = TRUE].run = r.run
            /\ [r EXCEPT !.checked = TRUE].ev = r.ev
        BY DEF IInv, TypeInv, TypeOK, Request
      <4>2. /\ requests' = (requests \ {r}) \union {[r EXCEPT !.checked = TRUE]}
            /\ UNCHANGED <<pc, answer, run, cur>>
        BY <3>1 DEF FindsNone
      <4>3. ASSUME NEW q \in requests
            PROVE  \E p \in requests' : p.run = q.run /\ p.ev = q.ev
        BY <4>1, <4>2
      <4> QED
        BY <4>2, <4>3 DEF Awaited
    <3>2. ASSUME NEW r \in requests,
                 Rejects(r) \/ FindsDuplicate(r) \/ Inserts(r) \/ InsertConflicts(r)
          PROVE  Awaited'
      <4>1. /\ Done(r) /\ \E a \in {"created", "conflict", "error"} : Answer(r, a)
            /\ UNCHANGED <<pc, run, cur>>
        BY <3>2 DEF Rejects, FindsDuplicate, Inserts, InsertConflicts
      <4> QED
        BY <4>1, AwaitedDone
    <3> QED
      BY <2>2, <3>1, <3>2 DEF ControlPlane
  <2>3. CASE Failure
    <3>1. ASSUME NEW r \in requests, InsertsButErrs(r) \/ RequestFails(r)
          PROVE  Awaited'
      <4>1. Done(r) /\ Answer(r, "error") /\ UNCHANGED <<pc, run, cur>>
        BY <3>1 DEF InsertsButErrs, RequestFails
      <4> QED
        BY <4>1, AwaitedDone
    <3>2. CASE ConnectionBreaks
      BY <3>2 DEF ConnectionBreaks, Awaited
    <3>3. CASE CredentialExpires
      BY <3>3 DEF CredentialExpires, Awaited
    <3>4. CASE \/ RegisterFails \/ AppendEntryFails \/ AppendIndexFails
               \/ AttemptFails \/ MarkIndexFails \/ MarkEntryFails
               \/ SaveStateFails \/ Crash
      <4>1. pc' # "wait"
        BY <3>4 DEF RegisterFails, AppendEntryFails, AppendIndexFails, AttemptFails,
           MarkIndexFails, MarkEntryFails, SaveStateFails, Crash, Ends, Loop, IInv,
           TypeInv, TypeOK
      <4> QED
        BY <4>1 DEF Awaited
    <3> QED
      BY <2>3, <3>1, <3>2, <3>3, <3>4 DEF Failure
  <2>4. ASSUME NEW e \in Event, Detect(e) PROVE Awaited'
    BY <2>4 DEF Detect, SpoolFirst, Awaited
  <2>5. CASE UNCHANGED vars
    BY <2>5 DEF vars, Awaited
  <2> QED
    BY <2>1, <2>2, <2>3, <2>4, <2>5 DEF Next
<1> QED
  BY <1>1, <1>2, Invariance, PTL DEF Spec

\* How far the agent has come: first the initial snapshots that are left, then the
\* entries that are left to replay, then the steps of the publish in hand.
Phase ==
  IF pc \in {"initial", "load"} \/ mode = "initial" THEN 1
  ELSE IF mode = "replay" THEN 2 ELSE 3

ToPublish == Initial \ detected

Stage ==
  CASE pc = "append" -> 1
    [] pc = "appendIndex" -> 2
    [] pc = "send" -> 3
    [] pc = "wait" -> 4
    [] pc \in {"markIndex", "attempt"} -> 5
    [] pc \in {"markEntry", "failIndex"} -> 6
    [] pc = "failEntry" -> 7
    [] pc \in {"initial", "replay", "save"} -> 8
    [] OTHER -> 9

Shrinks(new, old) == new \subseteq old /\ new # old

GoesOn ==
  \/ pc' \in {"idle", "down"}
  \/ Phase' > Phase
  \/ /\ Phase' = Phase
     /\ \/ Shrinks(ToPublish', ToPublish)
        \/ ToPublish' = ToPublish /\ Shrinks(toReplay', toReplay)
        \/ ToPublish' = ToPublish /\ toReplay' = toReplay /\ Stage' > Stage

InLoop == pc \notin {"down", "baseline", "register", "idle"}

\* The agent's own steps.
Moves == ~UNCHANGED <<pc, mode, cur, toReplay, detected>>

\* No step of the start-up and of the main loop leads back to where the agent has
\* been: a publish that is refused, fails or loses its answer leaves the entry to
\* those behind it, and each pass comes nearer to its end (app.rs run, publish_change;
\* mark_failed).
LoopAdvances == [][InLoop /\ Moves => GoesOn]_vars

\* From one step to the next of the same publish.
LEMMA NextStage ==
  ASSUME UNCHANGED <<mode, toReplay, detected>>, pc \notin {"initial", "load"},
         pc' \notin {"initial", "load"} \/ mode = "initial", Stage' > Stage
  PROVE  GoesOn
BY DEF GoesOn, Phase, ToPublish

THEOREM LoopsEnd == Spec => LoopAdvances
<1>1. IInv /\ [Next]_vars => (InLoop /\ Moves => GoesOn)
  <2> SUFFICES ASSUME IInv, [Next]_vars, InLoop, Moves PROVE GoesOn
    OBVIOUS
  <2> USE DEF spoolVars, diskVars, agentVars, planeVars, envVars
  <2>1. /\ mode \in {"initial", "replay", "live"}
        /\ pc \in InHand /\ mode = "initial" => pc \in {"send", "wait"}
        /\ pc = "replay" => mode = "replay"
        /\ pc = "initial" => mode \in {"initial", "live"}
        /\ pc \in {"append", "appendIndex", "attempt", "failIndex", "failEntry", "save"}
             => mode = "live"
    BY DEF IInv, TypeInv, TypeOK, Position
  <2>2. CASE Start \/ Baseline \/ Register \/ RegisterFails
    BY <2>2 DEF Start, Baseline, Register, RegisterFails, InLoop
  <2>3. ASSUME NEW e \in Event, PublishInitial(e) PROVE GoesOn
    BY <2>3 DEF PublishInitial, GoesOn, Phase, ToPublish, Shrinks
  <2>4. CASE InitialDone
    BY <2>4 DEF InitialDone, GoesOn, Phase, ToPublish, Stage
  <2>5. CASE LoadPending
    BY <2>5 DEF LoadPending, GoesOn, Phase
  <2>6. ASSUME NEW e \in Event, ReplayNext(e) PROVE GoesOn
    BY <2>1, <2>6 DEF ReplayNext, Oldest, GoesOn, Phase, ToPublish, Shrinks
  <2>7. CASE \/ ReplayDone \/ SaveState \/ AppendEntryFails \/ AppendIndexFails
             \/ AttemptFails \/ Crash
    BY <2>7 DEF ReplayDone, SaveState, AppendEntryFails, AppendIndexFails, AttemptFails,
       Crash, Ends, GoesOn
  <2>8. CASE SaveStateFails
    BY <2>8 DEF SaveStateFails, WritesState, InLoop, GoesOn
  <2>9. CASE AppendEntry \/ AppendIndex \/ Send
    BY <2>9, NextStage DEF AppendEntry, AppendIndex, Send, Stage
  <2>10. CASE PublishOk \/ PublishErr
    BY <2>1, <2>10 DEF PublishOk, PublishErr, AfterOk, AfterError, Stage, GoesOn, Phase,
       ToPublish
  <2>11. CASE MarkIndex \/ Attempt \/ FailIndex \/ FailEntry
    BY <2>11, NextStage DEF MarkIndex, Attempt, FailIndex, FailEntry, Stage
  <2>12. CASE MarkEntry \/ MarkIndexFails \/ MarkEntryFails
    <3>1. pc' \in {"save", "replay"} /\ UNCHANGED <<mode, toReplay, detected>>
      BY <2>1, <2>12 DEF MarkEntry, MarkIndexFails, MarkEntryFails, Loop, InHand
    <3>2. Stage' > Stage
      BY <2>12, <3>1 DEF MarkEntry, MarkIndexFails, MarkEntryFails, Stage
    <3> QED
      BY <2>12, <3>1, <3>2, NextStage DEF MarkEntry, MarkIndexFails, MarkEntryFails
  <2>13. ASSUME NEW r \in requests,
                \/ Rejects(r) \/ FindsDuplicate(r) \/ FindsNone(r) \/ Inserts(r)
                \/ InsertConflicts(r) \/ InsertsButErrs(r) \/ RequestFails(r)
         PROVE  FALSE
    BY <2>13 DEF Rejects, FindsDuplicate, FindsNone, Inserts, InsertConflicts,
       InsertsButErrs, RequestFails, Moves
  <2>14. CASE ConnectionBreaks \/ CredentialExpires \/ UNCHANGED vars
    BY <2>14 DEF ConnectionBreaks, CredentialExpires, vars, Moves
  <2>15. ASSUME NEW e \in Event, Detect(e) PROVE FALSE
    BY <2>15 DEF Detect, InLoop
  <2> QED
    BY <2>2, <2>3, <2>4, <2>5, <2>6, <2>7, <2>8, <2>9, <2>10, <2>11, <2>12, <2>13, <2>14,
       <2>15 DEF Next, Agent, ControlPlane, Failure
<1> QED
  BY <1>1, Invariance, PTL DEF Spec, LoopAdvances
=============================================================================
