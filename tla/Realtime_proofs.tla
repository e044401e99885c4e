--------------------------- MODULE Realtime_proofs ---------------------------
(***************************************************************************)
(* Proofs about Realtime, for any number of events, files, instances,      *)
(* clients and faults, and any size of the ring and of the channel.        *)
(***************************************************************************)
EXTENDS Realtime, SequenceTheorems, FiniteSetTheorems, TLAPS

-----------------------------------------------------------------------------
(* Sequences and what is in them. *)

LEMMA Appended ==
  ASSUME NEW S, NEW s \in Seq(S), NEW e \in S
  PROVE  /\ Append(s, e) \in Seq(S) /\ Len(s) \in Nat
         /\ Len(Append(s, e)) = Len(s) + 1
         /\ DOMAIN s = 1..Len(s) /\ DOMAIN Append(s, e) = 1..Len(s) + 1
         /\ \A k \in 1..Len(s) : Append(s, e)[k] = s[k]
         /\ Append(s, e)[Len(s) + 1] = e
         /\ Items(Append(s, e)) = Items(s) \union {e}
<1>1. /\ Append(s, e) \in Seq(S) /\ Len(Append(s, e)) = Len(s) + 1 /\ Len(s) \in Nat
      /\ DOMAIN s = 1..Len(s) /\ DOMAIN Append(s, e) = 1..Len(s) + 1
      /\ \A k \in 1..Len(s) : Append(s, e)[k] = s[k]
      /\ Append(s, e)[Len(s) + 1] = e
  BY AppendProperties, LenProperties
<1>2. 1..Len(s) + 1 = (1..Len(s)) \union {Len(s) + 1}
  BY <1>1
<1>3. Items(Append(s, e)) = Items(s) \union {e}
  BY <1>1, <1>2 DEF Items
<1> QED
  BY <1>1, <1>3

LEMMA Taken ==
  ASSUME NEW S, NEW s \in Seq(S), s # <<>>
  PROVE  /\ Head(s) \in S /\ Head(s) \in Items(s) /\ Head(s) = s[1] /\ 1 \in DOMAIN s
         /\ Tail(s) \in Seq(S) /\ Items(Tail(s)) \subseteq Items(s)
         /\ Items(s) \subseteq Items(Tail(s)) \union {Head(s)}
         /\ \A k \in DOMAIN Tail(s) : k + 1 \in DOMAIN s /\ Tail(s)[k] = s[k + 1] /\ k \in Nat \ {0}
<1>1. /\ Tail(s) \in Seq(S) /\ Len(Tail(s)) = Len(s) - 1 /\ Len(s) \in Nat /\ Len(s) # 0
      /\ Head(s) = s[1] /\ DOMAIN s = 1..Len(s) /\ DOMAIN Tail(s) = 1..Len(s) - 1
      /\ \A k \in 1..Len(s) - 1 : Tail(s)[k] = s[k + 1]
  BY HeadTailProperties, LenProperties, EmptySeq
<1>2. 1 \in DOMAIN s /\ \A k \in DOMAIN Tail(s) : k + 1 \in DOMAIN s
  BY <1>1
<1>3. Items(Tail(s)) \subseteq Items(s)
  BY <1>1, <1>2 DEF Items
<1>4. s[1] \in S
  BY <1>2, ElementOfSeq
<1>5. ASSUME NEW k \in DOMAIN s, k # 1 PROVE s[k] \in Items(Tail(s))
  <2>1. k - 1 \in DOMAIN Tail(s) /\ Tail(s)[k - 1] = s[k]
    BY <1>1, <1>5
  <2> QED
    BY <2>1 DEF Items
<1>6. Items(s) \subseteq Items(Tail(s)) \union {Head(s)}
  BY <1>1, <1>5 DEF Items
<1>7. s[1] \in Items(s)
  BY <1>2 DEF Items
<1>8. \A k \in DOMAIN Tail(s) : Tail(s)[k] = s[k + 1] /\ k \in Nat \ {0}
  BY <1>1
<1> QED
  BY <1>1, <1>2, <1>3, <1>4, <1>6, <1>7, <1>8

LEMMA Nothing == Items(<<>>) = {}
  BY DEF Items

LEMMA ItemsIn ==
  ASSUME NEW S, NEW s \in Seq(S)
  PROVE  Items(s) \subseteq S /\ Len(s) \in Nat /\ DOMAIN s = 1..Len(s)
  BY ElementOfSeq, LenProperties DEF Items

\* What the ring holds has been put into it.
LEMMA RingRecent ==
  ASSUME NEW i, recent[i] \in Seq(Event)
  PROVE  Ring(i) \subseteq Items(recent[i])
<1> DEFINE s == recent[i]
           m == IF Len(s) > RingSize THEN Len(s) - RingSize + 1 ELSE 1
<1>1. Len(s) \in Nat /\ DOMAIN s = 1..Len(s)
  BY LenProperties
<1>2. m \in Nat \ {0}
  BY <1>1, RealtimeAssumption
<1>3. Ring(i) = Items(SubSeq(s, m, Len(s)))
  BY DEF Ring, LastOf
<1> HIDE DEF m, s
<1>4. CASE m <= Len(s)
  <2>1. /\ SubSeq(s, m, Len(s)) \in Seq(Event) /\ Len(SubSeq(s, m, Len(s))) = Len(s) - m + 1
        /\ \A k \in 1..Len(s) - m + 1 : SubSeq(s, m, Len(s))[k] = s[m + k - 1]
    BY <1>1, <1>2, <1>4, SubSeqProperties DEF s
  <2>2. DOMAIN SubSeq(s, m, Len(s)) = 1..Len(s) - m + 1
    BY <2>1, LenProperties
  <2>3. \A k \in 1..Len(s) - m + 1 : m + k - 1 \in DOMAIN s
    BY <1>1, <1>2
  <2>4. Items(SubSeq(s, m, Len(s))) \subseteq Items(s)
    BY <2>1, <2>2, <2>3 DEF Items
  <2> QED
    BY <1>3, <2>4 DEF s
<1>5. CASE m > Len(s)
  <2>1. SubSeq(s, m, Len(s)) = <<>>
    BY <1>1, <1>2, <1>5, SubSeqEmpty
  <2> QED
    BY <1>3, <2>1, Nothing
<1> QED
  BY <1>1, <1>2, <1>4, <1>5

-----------------------------------------------------------------------------
(* The types. *)

LEMMA NewestType ==
  ASSUME rows \in Seq(Rows), NEW f
  PROVE  Newest(f) \in Event \union {None}
<1>1. Items(rows) \subseteq Rows
  BY ItemsIn
<1>2. \A r \in Items(rows) : r.event \in Event
  BY <1>1 DEF Rows
<1> QED
  BY <1>2 DEF Newest

LEMMA SetRequest ==
  ASSUME TypeOK, NEW i \in Instance, NEW e \in Event, NEW v \in Requests,
         req' = [req EXCEPT ![i][e] = v]
  PROVE  /\ req' \in [Instance -> [Event -> Requests]]
         /\ req'[i][e] = v
         /\ \A j \in Instance, d \in Event : j # i \/ d # e => req'[j][d] = req[j][d]
<1>1. req \in [Instance -> [Event -> Requests]]
  BY DEF TypeOK
<1>2. [req[i] EXCEPT ![e] = v] \in [Event -> Requests]
  BY <1>1
<1>3. req' = [req EXCEPT ![i] = [req[i] EXCEPT ![e] = v]]
  BY <1>1
<1> QED
  BY <1>1, <1>2, <1>3

LEMMA Moved ==
  ASSUME TypeOK, NEW i \in Instance, NEW e \in Event, NEW step \in Steps, Move(i, e, step)
  PROVE  /\ req' \in [Instance -> [Event -> Requests]]
         /\ req'[i][e].at = step
         /\ \A j \in Instance, d \in Event : j # i \/ d # e => req'[j][d] = req[j][d]
<1>1. req[i][e] \in Requests
  BY DEF TypeOK
<1> DEFINE v == [req[i][e] EXCEPT !.at = step]
<1>2. v \in Requests /\ v.at = step
  BY <1>1 DEF Requests
<1>3. req' = [req EXCEPT ![i][e] = v]
  BY DEF Move
<1> HIDE DEF v
<1> QED
  BY <1>2, <1>3, SetRequest, ZenonT(40)

LEMMA TypeInit == Init => TypeOK
<1> SUFFICES ASSUME Init PROVE TypeOK
  OBVIOUS
<1>1. Idle \in Requests /\ [Idle EXCEPT !.at = "done"] \in Requests
  BY DEF Idle, Requests, Steps
<1>2. req \in [Instance -> [Event -> Requests]]
  BY <1>1 DEF Init
<1>3. rows \in Seq(Rows)
  <2>1. Len(Old) \in Nat /\ DOMAIN Old = 1..Len(Old) /\ \A k \in 1..Len(Old) : Old[k] \in Event
    BY RealtimeAssumption, LenProperties, ElementOfSeq
  <2>2. rows \in [1..Len(Old) -> Rows]
    <3>1. \A k \in 1..Len(Old) :
            [event |-> Old[k], prev |-> OldPrev[k], snap |-> TRUE, time |-> k] \in Rows
      BY <2>1, RealtimeAssumption DEF Rows
    <3> QED
      BY <2>1, <3>1 DEF Init
  <2> QED
    BY <2>1, <2>2, IsASeq
<1>4. clock \in Nat
  BY RealtimeAssumption, LenProperties DEF Init
<1>5. <<>> \in Seq(Event) /\ <<>> \in Seq(Nat)
  BY EmptySeq
<1>6. Closed \in Subscription
  BY <1>5 DEF Closed, Subscription
<1>7. /\ listener \in [Instance -> {"listening", "deaf", "down", "gone"}]
      /\ client \in [Client -> Subscription]
      /\ fetching \in [Instance -> Event \union {None}]
      /\ faults \in 0..MaxFaults
  BY <1>6, RealtimeAssumption DEF Init
<1>8. /\ sent \in [Instance -> Seq(Event)] /\ recent \in [Instance -> Seq(Event)]
      /\ inbox \in [Instance -> Seq(Event)]
      /\ missed \in [Instance -> SUBSET Event] /\ late \in [Instance -> SUBSET Event]
      /\ overlapped \subseteq File
  BY <1>5 DEF Init
<1> QED
  BY <1>2, <1>3, <1>4, <1>7, <1>8 DEF TypeOK

LEMMA FaultType ==
  ASSUME TypeOK, Fault \/ UNCHANGED faults
  PROVE  faults' \in 0..MaxFaults
  BY RealtimeAssumption DEF TypeOK, Fault

LEMMA TypeStep == TypeOK /\ [Next]_vars => TypeOK'
<1> SUFFICES ASSUME TypeOK, [Next]_vars PROVE TypeOK'
  OBVIOUS
<1>0. /\ req \in [Instance -> [Event -> Requests]] /\ rows \in Seq(Rows) /\ clock \in Nat
      /\ sent \in [Instance -> Seq(Event)] /\ recent \in [Instance -> Seq(Event)]
      /\ listener \in [Instance -> {"listening", "deaf", "down", "gone"}]
      /\ inbox \in [Instance -> Seq(Event)]
      /\ fetching \in [Instance -> Event \union {None}]
      /\ client \in [Client -> Subscription]
      /\ missed \in [Instance -> SUBSET Event] /\ late \in [Instance -> SUBSET Event]
      /\ overlapped \subseteq File /\ FileOf \in [Event -> File]
  BY RealtimeAssumption DEF TypeOK
<1>a. {"idle", "ready", "stored", "announced", "done"} = Steps
  BY DEF Steps
<1>1. CASE UNCHANGED vars
  BY <1>1 DEF TypeOK, vars
\* A request moves, and what else may change has its type.
<1>2. ASSUME NEW i \in Instance, NEW e \in Event, NEW step \in Steps, Move(i, e, step),
             sent' \in [Instance -> Seq(Event)], recent' \in [Instance -> Seq(Event)],
             Fault \/ UNCHANGED faults,
             UNCHANGED <<rows, clock, overlapped, listenVars, client>>
      PROVE  TypeOK'
  BY <1>2, Moved, FaultType DEF TypeOK, listenVars
<1>3. ASSUME NEW i \in Instance, NEW e \in Event,
             FindsDuplicate(i, e) \/ InsertFails(i, e) \/ AnnounceFails(i, e)
      PROVE  TypeOK'
  BY <1>0, <1>a, <1>2, <1>3 DEF FindsDuplicate, InsertFails, AnnounceFails
<1>4. ASSUME NEW i \in Instance, NEW e \in Event, Announce(i, e) PROVE TypeOK'
  <2>1. Append(sent[i], e) \in Seq(Event)
    BY <1>0, Appended
  <2>2. sent' \in [Instance -> Seq(Event)]
    BY <1>0, <1>4, <2>1 DEF Announce, Broadcast
  <2> QED
    BY <1>0, <1>a, <1>2, <1>4, <2>2 DEF Announce
<1>5. ASSUME NEW i \in Instance, NEW e \in Event, Remember(i, e) PROVE TypeOK'
  <2>1. Append(recent[i], e) \in Seq(Event)
    BY <1>0, Appended
  <2>2. recent' \in [Instance -> Seq(Event)]
    BY <1>0, <1>5, <2>1 DEF Remember
  <2> QED
    BY <1>0, <1>a, <1>2, <1>5, <2>2 DEF Remember
<1>6. ASSUME NEW i \in Instance, NEW e \in Event, Prepare(i, e) PROVE TypeOK'
  <2>1. PICK p \in {Newest(FileOf[e]), None}, held \in {h \in BOOLEAN : h => e \in HasContent} :
          /\ Fault \/ UNCHANGED faults
          /\ req' = [req EXCEPT ![i][e] =
               [at |-> "ready", prev |-> p, snap |-> held, time |-> clock + 1]]
    BY <1>6 DEF Prepare
  <2>2. p \in Event \union {None} /\ held \in BOOLEAN
    BY <1>0, <2>1, NewestType
  <2>3. [at |-> "ready", prev |-> p, snap |-> held, time |-> clock + 1] \in Requests
    BY <1>0, <2>2 DEF Requests, Steps
  <2>4. req' \in [Instance -> [Event -> Requests]]
    BY <2>1, <2>3, SetRequest
  <2>5. clock' \in Nat /\ overlapped' \subseteq File
    BY <1>0, <1>6 DEF Prepare
  <2> QED
    BY <1>0, <1>6, <2>1, <2>4, <2>5, FaultType DEF Prepare, TypeOK, listenVars
<1>7. ASSUME NEW i \in Instance, NEW e \in Event, Insert(i, e) PROVE TypeOK'
  <2>1. req' \in [Instance -> [Event -> Requests]]
    BY <1>7, <1>a, Moved DEF Insert
  <2>2. req[i][e] \in Requests
    BY <1>0
  <2>3. [event |-> e, prev |-> req[i][e].prev, snap |-> req[i][e].snap, time |-> req[i][e].time]
          \in Rows
    BY <2>2 DEF Requests, Rows
  <2>4. rows' \in Seq(Rows)
    BY <1>0, <1>7, <2>3, Appended DEF Insert
  <2>5. \A j \in Instance : Append(inbox[j], e) \in Seq(Event)
    BY <1>0, Appended
  <2>6. inbox' \in [Instance -> Seq(Event)]
    BY <1>0, <1>7, <2>5 DEF Insert, Notify
  <2>7. missed' \in [Instance -> SUBSET Event]
    BY <1>0, <1>7 DEF Insert, Notify
  <2> QED
    BY <1>0, <1>7, <2>1, <2>4, <2>6, <2>7 DEF Insert, TypeOK
\* The listener.
<1>8. ASSUME NEW i \in Instance, Take(i) PROVE TypeOK'
  <2>1. inbox[i] \in Seq(Event) /\ inbox[i] # <<>>
    BY <1>0, <1>8 DEF Take
  <2>2. Head(inbox[i]) \in Event /\ Tail(inbox[i]) \in Seq(Event)
    BY <2>1, Taken
  <2>3. inbox' \in [Instance -> Seq(Event)]
    BY <1>0, <1>8, <2>2 DEF Take
  <2>4. fetching' \in [Instance -> Event \union {None}]
    BY <1>0, <1>8, <2>2 DEF Take
  <2>5. late' \in [Instance -> SUBSET Event]
    BY <1>0, <1>8, <2>2 DEF Take
  <2> QED
    BY <1>0, <1>8, <2>3, <2>4, <2>5 DEF Take, TypeOK, ingestVars
<1>9. ASSUME NEW i \in Instance, Forward(i) PROVE TypeOK'
  <2>1. fetching[i] \in Event /\ Append(sent[i], fetching[i]) \in Seq(Event)
    BY <1>0, <1>9, Appended DEF Forward
  <2>2. sent' \in [Instance -> Seq(Event)] /\ fetching' \in [Instance -> Event \union {None}]
    BY <1>0, <1>9, <2>1 DEF Forward, Broadcast
  <2> QED
    BY <1>0, <1>9, <2>2 DEF Forward, TypeOK, ingestVars
<1>10. ASSUME NEW i \in Instance, FetchFails(i) PROVE TypeOK'
  <2>1. missed' \in [Instance -> SUBSET Event] /\ fetching' \in [Instance -> Event \union {None}]
    BY <1>0, <1>10 DEF FetchFails
  <2> QED
    BY <1>0, <1>10, <2>1, FaultType DEF FetchFails, TypeOK, ingestVars
<1>11. ASSUME NEW i \in Instance, Break(i) PROVE TypeOK'
  <2>1. Items(inbox[i]) \subseteq Event
    BY <1>0, ItemsIn
  <2>2. missed' \in [Instance -> SUBSET Event]
    BY <1>0, <1>11, <2>1 DEF Break
  <2>3. /\ inbox' \in [Instance -> Seq(Event)]
        /\ listener' \in [Instance -> {"listening", "deaf", "down", "gone"}]
    BY <1>0, <1>11, EmptySeq DEF Break
  <2> QED
    BY <1>0, <1>11, <2>2, <2>3, FaultType DEF Break, TypeOK, ingestVars
<1>12. ASSUME NEW i \in Instance, Reconnect(i) PROVE TypeOK'
  <2>1. listener' \in [Instance -> {"listening", "deaf", "down", "gone"}]
    BY <1>0, <1>12 DEF Reconnect
  <2> QED
    BY <1>0, <1>12, <2>1 DEF Reconnect, TypeOK, ingestVars
\* Subscribers.
<1>13. ASSUME NEW c \in Client, NEW i \in Instance, Subscribe(c, i) PROVE TypeOK'
  <2>1. Len(sent[i]) \in Nat /\ Len(rows) \in Nat /\ <<>> \in Seq(Nat)
    BY <1>0, LenProperties, EmptySeq
  <2>2. Upcoming(i) \in Nat \ {0}
    BY <2>1 DEF Upcoming
  <2>3. [on |-> i, next |-> Upcoming(i), got |-> <<>>, from |-> Upcoming(i), since |-> Len(rows)]
          \in Subscription
    BY <2>1, <2>2 DEF Subscription
  <2>4. client' \in [Client -> Subscription]
    BY <1>0, <1>13, <2>3 DEF Subscribe
  <2> QED
    BY <1>0, <1>13, <2>4 DEF Subscribe, TypeOK, ingestVars, listenVars
<1>14. ASSUME NEW c \in Client, Receive(c) PROVE TypeOK'
  <2> DEFINE v == [client[c] EXCEPT !.next = @ + 1,
                     !.got = IF sent[client[c].on][client[c].next] \in Wanted[c]
                             THEN Append(@, client[c].next) ELSE @]
  <2>1. client[c] \in Subscription
    BY <1>0
  <2>2. Append(client[c].got, client[c].next) \in Seq(Nat) /\ client[c].next + 1 \in Nat \ {0}
    BY <2>1, Appended DEF Subscription
  <2>3. v \in Subscription
    BY <2>1, <2>2 DEF Subscription
  <2>4. client' = [client EXCEPT ![c] = v]
    BY <1>0, <1>14 DEF Receive
  <2> HIDE DEF v
  <2>5. client' \in [Client -> Subscription]
    BY <1>0, <2>3, <2>4
  <2> QED
    BY <1>0, <1>14, <2>5 DEF Receive, TypeOK, ingestVars, listenVars
<1>15. ASSUME NEW c \in Client, SkipAhead(c) PROVE TypeOK'
  <2> DEFINE n == Len(sent[client[c].on]) - Capacity + 1
             v == [client[c] EXCEPT !.next = n, !.got = @ \o GapNotice]
  <2>1. client[c] \in Subscription /\ client[c].on # None
    BY <1>0, <1>15 DEF SkipAhead
  <2>2. client[c].on \in Instance /\ client[c].next \in Nat \ {0} /\ client[c].got \in Seq(Nat)
    BY <2>1 DEF Subscription
  <2>3. Len(sent[client[c].on]) \in Nat
    BY <1>0, <2>2, LenProperties
  <2>4. n \in Nat \ {0}
    <3>1. Len(sent[client[c].on]) - client[c].next >= Capacity /\ Capacity \in Nat
      BY <1>15, RealtimeAssumption DEF SkipAhead, Lags
    <3>2. ASSUME NEW l \in Nat, NEW x \in Nat \ {0}, NEW m \in Nat, l - x >= m
          PROVE  l - m + 1 \in Nat \ {0}
      BY <3>2
    <3> QED
      BY <2>2, <2>3, <3>1, <3>2
  <2>5. client[c].got \o GapNotice = Append(client[c].got, 0)
    BY <2>2, AppendIsConcat DEF GapNotice
  <2>6. client[c].got \o GapNotice \in Seq(Nat)
    BY <2>2, <2>5, Appended
  <2>7. client' = [client EXCEPT ![c] = v]
    BY <1>0, <1>15 DEF SkipAhead
  <2> HIDE DEF n
  <2>8. v \in Subscription
    BY <2>1, <2>4, <2>6 DEF Subscription
  <2> HIDE DEF v
  <2>9. client' \in [Client -> Subscription]
    BY <1>0, <2>7, <2>8
  <2> QED
    BY <1>0, <1>15, <2>9 DEF SkipAhead, TypeOK, ingestVars, listenVars
<1>16. Closed \in Subscription
  BY EmptySeq DEF Closed, Subscription
<1>17. ASSUME NEW c \in Client, Close(c) PROVE TypeOK'
  <2>1. client' \in [Client -> Subscription]
    BY <1>0, <1>16, <1>17 DEF Close
  <2> QED
    BY <1>0, <1>17, <2>1, FaultType DEF Close, TypeOK, ingestVars, listenVars
<1>18. ASSUME NEW i \in Instance, Restart(i) PROVE TypeOK'
  <2>1. \A e \in Event : [req[i][e] EXCEPT !.at = "done"] \in Requests /\ req[i][e] \in Requests
    <3>1. \A e \in Event : req[i][e] \in Requests
      BY <1>0
    <3>2. \A v \in Requests : [v EXCEPT !.at = "done"] \in Requests
      BY DEF Requests, Steps
    <3> QED
      BY <3>1, <3>2
  <2> DEFINE r == [e \in Event |-> IF InHand(i, e) THEN [req[i][e] EXCEPT !.at = "done"] ELSE req[i][e]]
  <2>2. r \in [Event -> Requests]
    BY <2>1
  <2>3. req' = [req EXCEPT ![i] = r]
    BY <1>0, <1>18 DEF Restart
  <2> HIDE DEF r
  <2>4. req' \in [Instance -> [Event -> Requests]]
    BY <1>0, <2>2, <2>3
  <2>5. Items(inbox[i]) \subseteq Event
    BY <1>0, ItemsIn
  <2>6. missed' \in [Instance -> SUBSET Event]
    BY <1>0, <1>18, <2>5 DEF Restart
  <2>7. /\ sent' \in [Instance -> Seq(Event)] /\ recent' \in [Instance -> Seq(Event)]
        /\ inbox' \in [Instance -> Seq(Event)] /\ late' \in [Instance -> SUBSET Event]
        /\ fetching' \in [Instance -> Event \union {None}]
    BY <1>0, <1>18, EmptySeq DEF Restart
  <2>8. /\ listener' \in [Instance -> {"listening", "deaf", "down", "gone"}]
        /\ client' \in [Client -> Subscription]
    BY <1>0, <1>16, <1>18 DEF Restart
  <2> QED
    BY <1>0, <1>18, <2>4, <2>6, <2>7, <2>8, FaultType DEF Restart, TypeOK
<1>19. Balanced \subseteq Instance
  BY RealtimeAssumption
<1> QED
  BY <1>1, <1>3, <1>4, <1>5, <1>6, <1>7, <1>8, <1>9, <1>10, <1>11, <1>12, <1>13, <1>14, <1>15,
     <1>17, <1>18, <1>19 DEF Next, Arrive, Handle, Listen, Deliver, Follow

\* Every variable keeps its type in every behaviour of every instance.
THEOREM TypeCorrect == Spec => []TypeOK
  BY TypeInit, TypeStep, PTL DEF Spec

-----------------------------------------------------------------------------
(* What a client is sent. *)

Start(s, k) == IF k = 1 THEN s.from ELSE s.got[k - 1] + 1
Silent(log, w, a, b) == \A p \in a..b : log[p] \notin w

\* Everything wanted that has been read was sent, or a gap stands in its place.
Whole(s, log, w) ==
  \A p \in s.from..s.next - 1 : log[p] \in w => p \in Items(s.got) \/ Gapped(s, p)

\* The subscription s has read the log up to s.next: what FaithfulFeed says, where
\* the positions lie, and that nothing wanted is left out without a gap.
Feed(s, log, w) ==
  /\ s.from \in Nat \ {0} /\ s.from <= s.next /\ s.next <= Len(log) + 1
  /\ \A k \in DOMAIN s.got : s.got[k] # 0 =>
       s.from <= s.got[k] /\ s.got[k] < s.next /\ log[s.got[k]] \in w
  /\ \A j, k \in DOMAIN s.got : j < k /\ s.got[j] # 0 /\ s.got[k] # 0 => s.got[j] < s.got[k]
  /\ \A k \in DOMAIN s.got :
       s.got[k] # 0 /\ (k = 1 \/ s.got[k - 1] # 0) => Silent(log, w, Start(s, k), s.got[k] - 1)
  /\ (s.got = <<>> \/ s.got[Len(s.got)] # 0) =>
       Silent(log, w, Start(s, Len(s.got) + 1), s.next - 1)
  /\ Whole(s, log, w)

\* A gap stays where it is while later messages and gaps come behind it.
LEMMA GapStays ==
  ASSUME NEW s, s.got \in Seq(Nat), NEW x \in Nat, NEW p \in Nat, Gapped(s, p),
         NEW t, t.got = Append(s.got, x), x = 0 \/ p < x
  PROVE  Gapped(t, p)
<1> DEFINE n == Len(s.got)
<1>1. /\ n \in Nat /\ Len(t.got) = n + 1
      /\ DOMAIN s.got = 1..n /\ DOMAIN t.got = 1..n + 1
      /\ \A k \in 1..n : t.got[k] = s.got[k]
      /\ t.got[n + 1] = x
  BY Appended
<1> HIDE DEF n
<1>2. PICK k \in 1..n :
        /\ s.got[k] = 0
        /\ \A j \in 1..k - 1 : s.got[j] # 0 => s.got[j] < p
        /\ \A j \in k + 1..n : s.got[j] # 0 => p < s.got[j]
  BY <1>1 DEF Gapped, n
<1>3. /\ k \in 1..n + 1 /\ t.got[k] = 0
      /\ \A j \in 1..k - 1 : j \in 1..n
      /\ \A j \in k + 1..n + 1 : (j \in k + 1..n /\ j \in 1..n) \/ j = n + 1
  BY <1>1, <1>2
<1>4. \A j \in k + 1..n + 1 : t.got[j] # 0 => p < t.got[j]
  BY <1>1, <1>2, <1>3
<1>5. \A j \in 1..k - 1 : t.got[j] # 0 => t.got[j] < p
  BY <1>1, <1>2, <1>3
<1> QED
  BY <1>1, <1>3, <1>4, <1>5 DEF Gapped

LEMMA Within ==
  ASSUME NEW f \in Nat, NEW n \in Nat, NEW a \in Nat, NEW b \in Int, f <= a, b <= n - 1
  PROVE  \A p \in a..b : p \in f..n - 1
  OBVIOUS

\* A log that grows says the same of its old positions.
LEMMA FeedGrows ==
  ASSUME NEW s \in Subscription, NEW log \in Seq(Event), NEW w, NEW e \in Event, Feed(s, log, w)
  PROVE  Feed(s, Append(log, e), w)
<1> DEFINE l == Append(log, e)
<1>1. /\ Len(l) = Len(log) + 1 /\ Len(log) \in Nat
      /\ \A k \in 1..Len(log) : l[k] = log[k]
  BY Appended
<1> HIDE DEF l
<1>2. /\ s.next \in Nat \ {0} /\ s.got \in Seq(Nat) /\ Len(s.got) \in Nat
      /\ DOMAIN s.got = 1..Len(s.got) /\ \A k \in DOMAIN s.got : s.got[k] \in Nat
  BY ItemsIn, ElementOfSeq, LenProperties DEF Subscription
<1>3. /\ s.from \in Nat \ {0} /\ s.from <= s.next /\ s.next <= Len(log) + 1
  BY DEF Feed
<1>4. \A p \in s.from..s.next - 1 : l[p] = log[p]
  BY <1>1, <1>2, <1>3, SMTT(40)
<1>5. \A k \in DOMAIN s.got : s.got[k] # 0 =>
        s.from <= s.got[k] /\ s.got[k] < s.next /\ l[s.got[k]] \in w
  <2>1. \A k \in DOMAIN s.got : s.got[k] # 0 =>
          s.from <= s.got[k] /\ s.got[k] < s.next /\ log[s.got[k]] \in w
    BY DEF Feed
  <2>2. \A x \in Nat : s.from <= x /\ x < s.next => x \in s.from..s.next - 1
    BY <1>2, <1>3
  <2> QED
    BY <1>2, <1>4, <2>1, <2>2
<1>6. ASSUME NEW k \in DOMAIN s.got, s.got[k] # 0, k = 1 \/ s.got[k - 1] # 0
      PROVE  Silent(l, w, Start(s, k), s.got[k] - 1)
  <2>1. Silent(log, w, Start(s, k), s.got[k] - 1)
    BY <1>6 DEF Feed
  <2>2. Start(s, k) \in Nat /\ Start(s, k) >= s.from
    <3>1. CASE k = 1
      BY <1>3, <3>1 DEF Start
    <3>2. CASE k # 1
      <4>1. k - 1 \in DOMAIN s.got /\ s.got[k - 1] # 0
        BY <1>2, <1>6, <3>2
      <4>2. Start(s, k) = s.got[k - 1] + 1 /\ s.from <= s.got[k - 1] /\ s.got[k - 1] \in Nat
        BY <1>2, <1>5, <3>2, <4>1 DEF Start
      <4> QED
        BY <1>3, <4>2
    <3> QED
      BY <3>1, <3>2
  <2>3. s.got[k] - 1 <= s.next - 1
    BY <1>2, <1>5, <1>6, SMTT(40)
  <2>4. \A p \in Start(s, k)..s.got[k] - 1 : p \in s.from..s.next - 1
    <3> DEFINE a == Start(s, k)
               b == s.got[k] - 1
    <3>1. b \in Int /\ b <= s.next - 1 /\ a \in Nat /\ s.from <= a
      BY <1>2, <1>3, <1>6, <2>2, <2>3, SMTT(40)
    <3> HIDE DEF a, b
    <3>2. \A p \in a..b : p \in s.from..s.next - 1
      BY <1>2, <1>3, <3>1, Within
    <3> QED
      BY <3>2 DEF a, b
  <2> QED
    BY <1>4, <2>1, <2>4 DEF Silent
<1>7. ASSUME s.got = <<>> \/ s.got[Len(s.got)] # 0
      PROVE  Silent(l, w, Start(s, Len(s.got) + 1), s.next - 1)
  <2>1. Silent(log, w, Start(s, Len(s.got) + 1), s.next - 1)
    BY <1>7 DEF Feed
  <2>2. Start(s, Len(s.got) + 1) \in Nat /\ Start(s, Len(s.got) + 1) >= s.from
    <3>1. CASE Len(s.got) = 0
      BY <1>3, <3>1 DEF Start
    <3>2. CASE Len(s.got) # 0
      <4>1. Len(s.got) \in DOMAIN s.got /\ s.got # <<>>
        BY <1>2, <3>2
      <4>2. s.got[Len(s.got)] # 0 /\ Len(s.got) + 1 # 1 /\ Len(s.got) + 1 - 1 = Len(s.got)
        BY <1>2, <1>7, <3>2, <4>1
      <4>3. /\ Start(s, Len(s.got) + 1) = s.got[Len(s.got)] + 1
            /\ s.from <= s.got[Len(s.got)] /\ s.got[Len(s.got)] \in Nat
        BY <1>2, <1>5, <4>1, <4>2, SMTT(40) DEF Start
      <4> QED
        BY <1>3, <4>3
    <3> QED
      BY <3>1, <3>2
  <2>3. \A p \in Start(s, Len(s.got) + 1)..s.next - 1 : p \in s.from..s.next - 1
    BY <1>2, <1>3, <2>2
  <2> QED
    BY <1>4, <2>1, <2>3 DEF Silent
<1>8. Whole(s, l, w)
  BY <1>4 DEF Feed, Whole
<1>9. \A j, k \in DOMAIN s.got : j < k /\ s.got[j] # 0 /\ s.got[k] # 0 => s.got[j] < s.got[k]
  BY DEF Feed
<1>10. s.next <= Len(l) + 1
  BY <1>1, <1>2, <1>3
<1>11. Feed(s, l, w)
  BY <1>3, <1>5, <1>6, <1>7, <1>8, <1>9, <1>10 DEF Feed
<1> QED
  BY <1>11 DEF l

\* A new subscription.
LEMMA FeedStarts ==
  ASSUME NEW s, NEW n \in Nat \ {0}, NEW log, NEW w, Len(log) + 1 = n,
         s.got = <<>>, s.from = n, s.next = n
  PROVE  Feed(s, log, w)
  BY DEF Feed, Start, Silent, Items, Whole

\* The next message is read, and kept if it is wanted.
LEMMA FeedReads ==
  ASSUME NEW s \in Subscription, NEW log, Len(log) \in Nat, NEW w, Feed(s, log, w),
         s.next <= Len(log), NEW t \in Subscription,
         t.from = s.from, t.next = s.next + 1,
         t.got = IF log[s.next] \in w THEN Append(s.got, s.next) ELSE s.got
  PROVE  Feed(t, log, w)
<1>1. /\ s.next \in Nat \ {0} /\ s.got \in Seq(Nat) /\ Len(s.got) \in Nat
      /\ DOMAIN s.got = 1..Len(s.got) /\ \A k \in DOMAIN s.got : s.got[k] \in Nat
  BY ItemsIn, ElementOfSeq, LenProperties DEF Subscription
<1>2. /\ s.from \in Nat \ {0} /\ s.from <= s.next
  BY DEF Feed
<1>3. /\ t.from \in Nat \ {0} /\ t.from <= t.next /\ t.next <= Len(log) + 1
  BY <1>1, <1>2
<1>4. CASE log[s.next] \notin w
  <2>1. t.got = s.got /\ \A k : Start(t, k) = Start(s, k)
    BY <1>4 DEF Start
  <2>2. \A k \in DOMAIN t.got : t.got[k] # 0 =>
          t.from <= t.got[k] /\ t.got[k] < t.next /\ log[t.got[k]] \in w
    <3>1. \A k \in DOMAIN s.got : s.got[k] # 0 =>
            s.from <= s.got[k] /\ s.got[k] < s.next /\ log[s.got[k]] \in w
      BY DEF Feed
    <3>2. \A x \in Nat : x < s.next => x < t.next
      BY <1>1
    <3> QED
      BY <1>1, <2>1, <3>1, <3>2
  <2>3. ASSUME t.got = <<>> \/ t.got[Len(t.got)] # 0
        PROVE  Silent(log, w, Start(t, Len(t.got) + 1), t.next - 1)
    <3>1. Silent(log, w, Start(s, Len(s.got) + 1), s.next - 1)
      BY <2>1, <2>3 DEF Feed
    <3>2. \A a : a \in Nat => \A p \in a..t.next - 1 : p \in a..s.next - 1 \/ p = s.next
      BY <1>1
    <3>3. Start(s, Len(s.got) + 1) \in Nat
      BY <1>1, <1>2, <2>1, <2>3 DEF Start
    <3> QED
      BY <1>4, <2>1, <3>1, <3>2, <3>3 DEF Silent
  <2>4. Whole(t, log, w)
    <3>1. \A p \in t.from..t.next - 1 : p \in s.from..s.next - 1 \/ p = s.next
      BY <1>1, <1>2
    <3>2. \A p : Gapped(s, p) => Gapped(t, p)
      BY <2>1 DEF Gapped
    <3> QED
      BY <1>4, <2>1, <3>1, <3>2 DEF Feed, Whole
  <2>5. \A k \in DOMAIN t.got :
          t.got[k] # 0 /\ (k = 1 \/ t.got[k - 1] # 0) => Silent(log, w, Start(t, k), t.got[k] - 1)
    BY <2>1 DEF Feed
  <2>6. \A j, k \in DOMAIN t.got : j < k /\ t.got[j] # 0 /\ t.got[k] # 0 => t.got[j] < t.got[k]
    BY <2>1 DEF Feed
  <2> QED
    BY <1>3, <2>2, <2>3, <2>4, <2>5, <2>6 DEF Feed
<1>5. CASE log[s.next] \in w
  <2> DEFINE n == Len(s.got)
  <2>1. /\ t.got = Append(s.got, s.next) /\ Len(t.got) = n + 1 /\ n \in Nat
        /\ DOMAIN s.got = 1..n /\ DOMAIN t.got = 1..n + 1
        /\ \A k \in 1..n : t.got[k] = s.got[k]
        /\ t.got[n + 1] = s.next
        /\ Items(t.got) = Items(s.got) \union {s.next}
    <3>1. t.got = Append(s.got, s.next) /\ s.next \in Nat
      BY <1>1, <1>5
    <3> DEFINE u == Append(s.got, s.next)
    <3>2. /\ Len(u) = Len(s.got) + 1
          /\ DOMAIN s.got = 1..Len(s.got) /\ DOMAIN u = 1..Len(s.got) + 1
          /\ \A k \in 1..Len(s.got) : u[k] = s.got[k]
          /\ u[Len(s.got) + 1] = s.next
          /\ Items(u) = Items(s.got) \union {s.next}
      BY <1>1, <3>1, Appended
    <3> HIDE DEF u
    <3>3. t.got = u
      BY <3>1 DEF u
    <3> QED
      BY <1>1, <3>2, <3>3 DEF u
  <2> HIDE DEF n
  <2>2. \A k \in DOMAIN s.got : s.got[k] # 0 =>
          s.from <= s.got[k] /\ s.got[k] < s.next /\ log[s.got[k]] \in w
    BY DEF Feed
  <2>3. \A k \in 1..n + 1 : k \in 1..n \/ k = n + 1
    BY <2>1
  <2>4. \A k \in DOMAIN t.got : t.got[k] # 0 =>
          t.from <= t.got[k] /\ t.got[k] < t.next /\ log[t.got[k]] \in w
    BY <1>1, <1>2, <1>5, <2>1, <2>2, <2>3, SMTT(40)
  <2>5. ASSUME NEW j \in DOMAIN t.got, NEW k \in DOMAIN t.got, j < k, t.got[j] # 0, t.got[k] # 0
        PROVE  t.got[j] < t.got[k]
    <3>1. j \in 1..n
      BY <2>1, <2>5
    <3>2. CASE k \in 1..n
      BY <2>1, <2>5, <3>1, <3>2 DEF Feed
    <3>3. CASE k = n + 1
      BY <2>1, <2>2, <2>5, <3>1, <3>3
    <3> QED
      BY <2>1, <2>3, <3>2, <3>3
  <2>6. ASSUME NEW k \in DOMAIN t.got, t.got[k] # 0, k = 1 \/ t.got[k - 1] # 0
        PROVE  Silent(log, w, Start(t, k), t.got[k] - 1)
    <3>1. Start(t, k) = Start(s, k)
      <4>1. k # 1 => k - 1 \in 1..n
        BY <2>1
      <4> QED
        BY <2>1, <4>1 DEF Start
    <3>2. CASE k \in 1..n
      <4>1. s.got[k] = t.got[k] /\ (k = 1 \/ s.got[k - 1] # 0)
        <5>1. k # 1 => k - 1 \in 1..n
          BY <2>1
        <5> QED
          BY <2>1, <2>6, <3>2, <5>1
      <4> QED
        BY <2>1, <2>6, <3>1, <3>2, <4>1 DEF Feed
    <3>3. CASE k = n + 1
      <4>1. s.got = <<>> \/ s.got[n] # 0
        <5>1. n = 0 => s.got = <<>>
          BY <1>1, EmptySeq DEF n
        <5>2. n # 0 => n \in 1..n /\ k # 1 /\ k - 1 = n
          BY <2>1, <3>3
        <5> QED
          BY <2>1, <2>6, <5>1, <5>2
      <4>2. Silent(log, w, Start(s, n + 1), s.next - 1)
        BY <4>1 DEF Feed, n
      <4> QED
        BY <2>1, <3>1, <3>3, <4>2
    <3> QED
      BY <2>1, <2>3, <3>2, <3>3
  <2>7. Silent(log, w, Start(t, Len(t.got) + 1), t.next - 1)
    <3>1. Start(t, Len(t.got) + 1) = s.next + 1
      BY <1>1, <2>1 DEF Start
    <3> QED
      BY <1>1, <3>1 DEF Silent
  <2>8. Whole(t, log, w)
    <3>1. /\ \A p \in t.from..t.next - 1 : p \in s.from..s.next - 1 \/ p = s.next
          /\ \A p \in s.from..s.next - 1 : p \in Nat /\ p < s.next
      BY <1>1, <1>2
    <3>2. \A p \in s.from..s.next - 1 : Gapped(s, p) => Gapped(t, p)
      BY <1>1, <2>1, <3>1, GapStays
    <3> QED
      BY <2>1, <3>1, <3>2 DEF Feed, Whole
  <2> QED
    BY <1>3, <2>4, <2>5, <2>6, <2>7, <2>8 DEF Feed
<1> QED
  BY <1>4, <1>5

\* The client has fallen behind: a gap stands for what the channel dropped.
LEMMA FeedSkips ==
  ASSUME NEW s \in Subscription, NEW log, Len(log) \in Nat, NEW w, Feed(s, log, w),
         NEW t \in Subscription, t.from = s.from,
         s.next <= t.next, t.next <= Len(log) + 1, t.got = Append(s.got, 0)
  PROVE  Feed(t, log, w)
<1>1. /\ s.next \in Nat \ {0} /\ t.next \in Nat /\ s.got \in Seq(Nat) /\ Len(s.got) \in Nat
      /\ \A k \in DOMAIN s.got : s.got[k] \in Nat
  BY ItemsIn, ElementOfSeq, LenProperties DEF Subscription
<1> DEFINE n == Len(s.got)
<1>2. /\ Len(t.got) = n + 1 /\ n \in Nat
      /\ DOMAIN s.got = 1..n /\ DOMAIN t.got = 1..n + 1
      /\ \A k \in 1..n : t.got[k] = s.got[k]
      /\ t.got[n + 1] = 0
      /\ Items(t.got) = Items(s.got) \union {0}
  BY <1>1, Appended, SMTT(40)
<1>3. s.from \in Nat \ {0} /\ s.from <= s.next
  BY DEF Feed
<1> HIDE DEF n
<1>4. \A k \in DOMAIN t.got : t.got[k] # 0 => k \in DOMAIN s.got /\ t.got[k] = s.got[k]
  <2>1. \A k \in 1..n + 1 : k \in 1..n \/ k = n + 1
    BY <1>2
  <2> QED
    BY <1>2, <2>1
<1>5. \A k \in DOMAIN t.got : t.got[k] # 0 =>
        t.from <= t.got[k] /\ t.got[k] < t.next /\ log[t.got[k]] \in w
  <2>1. \A k \in DOMAIN s.got : s.got[k] # 0 =>
          s.from <= s.got[k] /\ s.got[k] < s.next /\ log[s.got[k]] \in w
    BY DEF Feed
  <2>2. \A x \in Nat : x < s.next => x < t.next
    BY <1>1
  <2> QED
    BY <1>1, <1>4, <2>1, <2>2
<1>6. \A j, k \in DOMAIN t.got : j < k /\ t.got[j] # 0 /\ t.got[k] # 0 => t.got[j] < t.got[k]
  BY <1>4 DEF Feed
<1>7. ASSUME NEW k \in DOMAIN t.got, t.got[k] # 0, k = 1 \/ t.got[k - 1] # 0
      PROVE  Silent(log, w, Start(t, k), t.got[k] - 1)
  <2>1. k \in 1..n /\ t.got[k] = s.got[k]
    BY <1>2, <1>4, <1>7
  <2>2. k # 1 => k - 1 \in 1..n
    BY <1>2, <2>1
  <2>3. Start(t, k) = Start(s, k) /\ (k = 1 \/ s.got[k - 1] # 0)
    BY <1>2, <1>7, <2>2 DEF Start
  <2> QED
    BY <1>2, <1>7, <2>1, <2>3 DEF Feed
<1>8. ~(t.got = <<>> \/ t.got[Len(t.got)] # 0)
  <2>1. n + 1 \in DOMAIN t.got /\ Len(t.got) # 0
    BY <1>2
  <2>2. t.got # <<>>
    BY <2>1, EmptySeq
  <2> QED
    BY <1>2, <2>2
<1>9. Whole(t, log, w)
  <2>1. \A p \in t.from..t.next - 1 : p \in Nat /\ (p \in s.from..s.next - 1 \/ p >= s.next)
    BY <1>1, <1>3
  <2>2. \A p \in s.from..s.next - 1 : Gapped(s, p) => Gapped(t, p)
    <3>1. \A p \in s.from..s.next - 1 : p \in Nat
      BY <1>1, <1>3
    <3> QED
      BY <1>1, <3>1, GapStays
\* The gap stands for all that is skipped: what was sent before is older.
  <2>3. ASSUME NEW p \in Nat, p >= s.next PROVE Gapped(t, p)
    <3>1. \A j \in 1..n : t.got[j] # 0 => t.got[j] < p
      <4>1. \A j \in 1..n : s.got[j] # 0 => s.got[j] < s.next
        BY <1>2 DEF Feed
      <4> QED
        BY <1>1, <1>2, <2>3, <4>1
    <3>2. /\ n + 1 \in DOMAIN t.got /\ n + 1 - 1 = n
          /\ \A j \in n + 1 + 1..Len(t.got) : FALSE
      BY <1>2
    <3> QED
      BY <1>2, <3>1, <3>2 DEF Gapped
  <2> QED
    BY <1>2, <2>1, <2>2, <2>3 DEF Feed, Whole
<1>10. t.from \in Nat \ {0} /\ t.from <= t.next
  BY <1>1, <1>3
<1> QED
  BY <1>5, <1>6, <1>7, <1>8, <1>9, <1>10 DEF Feed

FeedInv ==
  \A c \in Client : client[c].on # None =>
    Feed(client[c], sent[client[c].on], Wanted[c])

LEMMA FeedInit == Init => FeedInv
  BY DEF Init, FeedInv, Closed

\* One client changes, and keeps to its feed.
LEMMA FeedChange ==
  ASSUME TypeOK, FeedInv, NEW c \in Client, NEW t, client' = [client EXCEPT ![c] = t],
         sent' = sent,
         t.on # None => Feed(t, sent[t.on], Wanted[c])
  PROVE  FeedInv'
<1>1. client'[c] = t /\ \A b \in Client \ {c} : client'[b] = client[b]
  BY DEF TypeOK
<1>2. ASSUME NEW b \in Client, client'[b].on # None
      PROVE  Feed(client'[b], sent'[client'[b].on], Wanted[b])
  <2>1. CASE b = c
    BY <1>1, <1>2, <2>1
  <2>2. CASE b # c
    BY <1>1, <1>2, <2>2 DEF FeedInv
  <2> QED
    BY <2>1, <2>2
<1> QED
  BY <1>2 DEF FeedInv

\* An instance broadcasts a message.
LEMMA FeedBroadcast ==
  ASSUME TypeOK, FeedInv, NEW i \in Instance, NEW e \in Event, Broadcast(i, e), client' = client
  PROVE  FeedInv'
<1>1. sent'[i] = Append(sent[i], e) /\ \A j \in Instance \ {i} : sent'[j] = sent[j]
  BY DEF TypeOK, Broadcast
<1>2. ASSUME NEW c \in Client, client'[c].on # None
      PROVE  Feed(client'[c], sent'[client'[c].on], Wanted[c])
  <2>1. /\ client'[c] = client[c] /\ client[c] \in Subscription /\ client[c].on \in Instance
        /\ sent[client[c].on] \in Seq(Event)
    BY <1>2 DEF TypeOK, Subscription
  <2>2. Feed(client[c], sent[client[c].on], Wanted[c])
    BY <1>2, <2>1 DEF FeedInv
  <2>3. CASE client[c].on = i
    BY <1>1, <2>1, <2>2, <2>3, FeedGrows
  <2>4. CASE client[c].on # i
    BY <1>1, <2>1, <2>2, <2>4
  <2> QED
    BY <2>3, <2>4
<1> QED
  BY <1>2 DEF FeedInv

LEMMA FeedStep == TypeOK /\ FeedInv /\ [Next]_vars => FeedInv'
<1> SUFFICES ASSUME TypeOK, FeedInv, [Next]_vars PROVE FeedInv'
  OBVIOUS
<1>0. client \in [Client -> Subscription] /\ sent \in [Instance -> Seq(Event)] /\ rows \in Seq(Rows)
  BY DEF TypeOK
<1>1. CASE UNCHANGED <<client, sent>>
  BY <1>1 DEF FeedInv
<1>2. ASSUME NEW i \in Instance, NEW e \in Event, Announce(i, e) PROVE FeedInv'
  BY <1>2, FeedBroadcast DEF Announce
<1>3. ASSUME NEW i \in Instance, Forward(i) PROVE FeedInv'
  <2>1. fetching[i] \in Event
    BY <1>3 DEF Forward, TypeOK
  <2> QED
    BY <1>3, <2>1, FeedBroadcast DEF Forward
<1>4. ASSUME NEW c \in Client, NEW i \in Instance, Subscribe(c, i) PROVE FeedInv'
  <2> DEFINE t == [on |-> i, next |-> Upcoming(i), got |-> <<>>,
                   from |-> Upcoming(i), since |-> Len(rows)]
  <2>1. Len(sent[i]) \in Nat
    BY <1>0, LenProperties
  <2>2. Upcoming(i) \in Nat \ {0} /\ Len(sent[i]) + 1 = Upcoming(i)
    BY <2>1 DEF Upcoming
  <2>3. t.on = i /\ t.got = <<>> /\ t.from = Upcoming(i) /\ t.next = Upcoming(i)
    OBVIOUS
  <2>4. client' = [client EXCEPT ![c] = t] /\ sent' = sent
    BY <1>4 DEF Subscribe
  <2> HIDE DEF t
  <2>5. Feed(t, sent[t.on], Wanted[c])
    BY <2>2, <2>3, FeedStarts
  <2> QED
    BY <2>4, <2>5, FeedChange
<1>5. ASSUME NEW c \in Client, client[c].on # None
      PROVE  /\ client[c] \in Subscription /\ client[c].on \in Instance
             /\ client[c].next \in Nat \ {0} /\ client[c].got \in Seq(Nat)
             /\ Len(sent[client[c].on]) \in Nat
             /\ Feed(client[c], sent[client[c].on], Wanted[c])
  <2>1. client[c] \in Subscription
    BY <1>0
  <2>2. client[c].on \in Instance /\ client[c].next \in Nat \ {0} /\ client[c].got \in Seq(Nat)
    BY <1>5, <2>1 DEF Subscription
  <2>3. Len(sent[client[c].on]) \in Nat
    BY <1>0, <2>2, LenProperties
  <2> QED
    BY <1>5, <2>1, <2>2, <2>3 DEF FeedInv
<1>6. ASSUME NEW c \in Client, Receive(c) PROVE FeedInv'
  <2> DEFINE s == client[c]
             log == sent[client[c].on]
             g == IF log[s.next] \in Wanted[c] THEN Append(s.got, s.next) ELSE s.got
             t == [s EXCEPT !.next = @ + 1, !.got = g]
  <2>1. s.on # None /\ s.next <= Len(log) /\ sent' = sent
    BY <1>6 DEF Receive
  <2>2. /\ s \in Subscription /\ Len(log) \in Nat /\ Feed(s, log, Wanted[c])
        /\ s.next \in Nat \ {0} /\ s.got \in Seq(Nat)
    BY <1>5, <2>1
  <2>3. client' = [client EXCEPT ![c] = t]
    BY <1>0, <1>6 DEF Receive
  <2>4. Append(s.got, s.next) \in Seq(Nat)
    BY <2>2, Appended
  <2>a. g \in Seq(Nat) /\ s.next + 1 \in Nat \ {0}
    BY <2>2, <2>4
  <2> HIDE DEF g
  <2>5. t \in Subscription /\ t.from = s.from /\ t.next = s.next + 1 /\ t.on = s.on /\ t.got = g
    BY <2>2, <2>a DEF Subscription
  <2>b. t.got = IF log[s.next] \in Wanted[c] THEN Append(s.got, s.next) ELSE s.got
    BY <2>5 DEF g
  <2> HIDE DEF t
  <2>6. Feed(t, log, Wanted[c])
    BY <2>1, <2>2, <2>5, <2>b, FeedReads
  <2> QED
    BY <2>1, <2>3, <2>5, <2>6, FeedChange
<1>7. ASSUME NEW c \in Client, SkipAhead(c) PROVE FeedInv'
  <2> DEFINE s == client[c]
             log == sent[client[c].on]
             n == Len(log) - Capacity + 1
             t == [s EXCEPT !.next = n, !.got = @ \o GapNotice]
  <2>1. s.on # None /\ Len(log) - s.next >= Capacity /\ sent' = sent
    BY <1>7 DEF SkipAhead, Lags
  <2>2. /\ s \in Subscription /\ Len(log) \in Nat /\ Feed(s, log, Wanted[c])
        /\ s.next \in Nat \ {0} /\ s.got \in Seq(Nat)
    BY <1>5, <2>1
  <2>3. client' = [client EXCEPT ![c] = t]
    BY <1>0, <1>7 DEF SkipAhead
  <2>4. n \in Nat \ {0} /\ s.next <= n /\ n <= Len(log) + 1
    <3>1. Capacity \in Nat \ {0}
      BY RealtimeAssumption
    <3>2. ASSUME NEW l \in Nat, NEW x \in Nat \ {0}, NEW m \in Nat \ {0}, l - x >= m
          PROVE  l - m + 1 \in Nat \ {0} /\ x <= l - m + 1 /\ l - m + 1 <= l + 1
      BY <3>2
    <3> QED
      BY <2>1, <2>2, <3>1, <3>2
  <2> HIDE DEF n
  <2>5. s.got \o GapNotice = Append(s.got, 0)
    BY <2>2, AppendIsConcat DEF GapNotice
  <2>6. Append(s.got, 0) \in Seq(Nat)
    BY <2>2, Appended
  <2>7. t \in Subscription /\ t.from = s.from /\ t.next = n /\ t.on = s.on
        /\ t.got = Append(s.got, 0)
    BY <2>2, <2>4, <2>5, <2>6 DEF Subscription
  <2> HIDE DEF t
  <2>8. Feed(t, log, Wanted[c])
    BY <2>2, <2>4, <2>7, FeedSkips
  <2> QED
    BY <2>1, <2>3, <2>7, <2>8, FeedChange
<1>8. ASSUME NEW c \in Client, Close(c) PROVE FeedInv'
  BY <1>8, FeedChange DEF Close, Closed
<1>9. ASSUME NEW i \in Instance, Restart(i) PROVE FeedInv'
  <2>1. ASSUME NEW c \in Client, client'[c].on # None
        PROVE  Feed(client'[c], sent'[client'[c].on], Wanted[c])
    <3>1. client'[c] = client[c] /\ client[c].on # i
      BY <1>9, <2>1 DEF Restart, Closed
    <3>2. client[c].on \in Instance
      BY <1>5, <2>1, <3>1
    <3>3. sent'[client[c].on] = sent[client[c].on]
      BY <1>0, <1>9, <3>1, <3>2 DEF Restart
    <3> QED
      BY <1>5, <2>1, <3>1, <3>3
  <2> QED
    BY <2>1 DEF FeedInv
<1>10. ASSUME NEW i \in Instance, NEW e \in Event,
              Arrive(i, e) \/ Insert(i, e) \/ InsertFails(i, e) \/ AnnounceFails(i, e) \/ Remember(i, e)
       PROVE  FeedInv'
  BY <1>1, <1>10 DEF Arrive, FindsDuplicate, Prepare, Insert, InsertFails, AnnounceFails, Remember
<1>11. ASSUME NEW i \in Instance, Take(i) \/ FetchFails(i) \/ Reconnect(i) \/ Break(i) PROVE FeedInv'
  BY <1>1, <1>11 DEF Take, FetchFails, Reconnect, Break
<1>12. CASE UNCHANGED vars
  BY <1>1, <1>12 DEF vars
<1>13. Balanced \subseteq Instance
  BY RealtimeAssumption
<1> QED
  BY <1>2, <1>3, <1>4, <1>6, <1>7, <1>8, <1>9, <1>10, <1>11, <1>12, <1>13
     DEF Next, Handle, Listen, Deliver, Follow

\* What a client is sent is the feed of its instance from its subscription on, in
\* order and without repetition, with a gap wherever wanted messages are left out.
THEOREM FeedIsFaithful == Spec => []FaithfulFeed
<1>1. FeedInv => FaithfulFeed
  BY DEF FeedInv, Feed, Start, Silent, FaithfulFeed
<1> QED
  BY <1>1, TypeInit, TypeStep, FeedInit, FeedStep, PTL DEF Spec

-----------------------------------------------------------------------------
(* Nothing is lost. *)

InRows(e) == \E r \in Items(rows) : r.event = e

\* What an instance has handled or been told of is stored.
StoredInv ==
  \A i \in Instance, e \in Event :
    \/ req[i][e].at \in {"stored", "announced"} \/ e \in Items(recent[i])
    \/ e \in Items(inbox[i]) \/ fetching[i] = e \/ e \in Items(sent[i])
    => InRows(e)

LEMMA StoredInit == Init => StoredInv
<1> SUFFICES ASSUME Init PROVE StoredInv
  OBVIOUS
<1>1. \A i \in Instance : recent[i] = <<>> /\ inbox[i] = <<>> /\ sent[i] = <<>> /\ fetching[i] = None
  BY DEF Init
<1>2. \A i \in Instance, e \in Event : req[i][e].at \in {"idle", "done"}
  BY DEF Init, Idle
<1> QED
  BY <1>1, <1>2, Nothing, RealtimeAssumption, SMTT(40) DEF StoredInv

\* A step that stores nothing.
LEMMA StoredKept ==
  ASSUME StoredInv, UNCHANGED rows,
         \A i \in Instance, e \in Event :
           (\/ req'[i][e].at \in {"stored", "announced"} \/ e \in Items(recent'[i])
            \/ e \in Items(inbox'[i]) \/ fetching'[i] = e \/ e \in Items(sent'[i]))
           => \/ req[i][e].at \in {"stored", "announced"} \/ e \in Items(recent[i])
              \/ e \in Items(inbox[i]) \/ fetching[i] = e \/ e \in Items(sent[i])
  PROVE  StoredInv'
<1>1. \A e : InRows(e) => InRows(e)'
  BY DEF InRows
<1> QED
  BY <1>1 DEF StoredInv

LEMMA StoredStep == TypeOK /\ StoredInv /\ [Next]_vars => StoredInv'
<1> SUFFICES ASSUME TypeOK, StoredInv, [Next]_vars PROVE StoredInv'
  OBVIOUS
<1>0. /\ req \in [Instance -> [Event -> Requests]] /\ rows \in Seq(Rows)
      /\ sent \in [Instance -> Seq(Event)] /\ recent \in [Instance -> Seq(Event)]
      /\ inbox \in [Instance -> Seq(Event)]
      /\ fetching \in [Instance -> Event \union {None}] /\ None \notin Event
  BY RealtimeAssumption DEF TypeOK
<1>a. Steps = {"idle", "ready", "stored", "announced", "done"}
  BY DEF Steps
<1>1. CASE UNCHANGED vars
  BY <1>1, StoredKept DEF vars
\* Requests.
<1>2. ASSUME NEW i \in Instance, NEW e \in Event,
             FindsDuplicate(i, e) \/ InsertFails(i, e) \/ AnnounceFails(i, e)
      PROVE  StoredInv'
  <2>1. Move(i, e, "done") /\ UNCHANGED <<rows, recent, inbox, fetching, sent>>
    BY <1>2 DEF FindsDuplicate, InsertFails, AnnounceFails, listenVars
  <2>2. req'[i][e].at = "done" /\ \A j \in Instance, d \in Event : j # i \/ d # e => req'[j][d] = req[j][d]
    BY <1>a, <2>1, Moved
  <2> QED
    BY <2>1, <2>2, StoredKept
<1>3. ASSUME NEW i \in Instance, NEW e \in Event, Prepare(i, e) PROVE StoredInv'
  <2>1. /\ req'[i][e].at = "ready"
        /\ \A j \in Instance, d \in Event : j # i \/ d # e => req'[j][d].at = req[j][d].at
    BY <1>0, <1>3 DEF Prepare
  <2>2. UNCHANGED <<rows, recent, inbox, fetching, sent>>
    BY <1>3 DEF Prepare, listenVars
  <2> QED
    BY <2>1, <2>2, StoredKept
<1>4. ASSUME NEW i \in Instance, NEW e \in Event, Insert(i, e) PROVE StoredInv'
  <2> DEFINE r == [event |-> e, prev |-> req[i][e].prev, snap |-> req[i][e].snap, time |-> req[i][e].time]
  <2>1. r \in Rows /\ r.event = e
    <3>1. req[i][e] \in Requests
      BY <1>0
    <3> QED
      BY <3>1 DEF Requests, Rows
  <2>2. rows' = Append(rows, r)
    BY <1>4 DEF Insert
  <2> HIDE DEF r
  <2>3. Items(rows') = Items(rows) \union {r}
    BY <1>0, <2>1, <2>2, Appended
  <2>4. InRows(e)' /\ \A d : InRows(d) => InRows(d)'
    BY <2>1, <2>3 DEF InRows
  <2>5. /\ \A j \in Instance, d \in Event : j # i \/ d # e => req'[j][d] = req[j][d]
        /\ UNCHANGED <<recent, fetching, sent>>
    BY <1>4, <1>a, Moved DEF Insert
  <2>6. \A j \in Instance : Items(inbox'[j]) \subseteq Items(inbox[j]) \union {e}
    <3>1. \A j \in Instance : Items(Append(inbox[j], e)) = Items(inbox[j]) \union {e}
      BY <1>0, Appended
    <3> QED
      BY <1>4, <3>1 DEF Insert, Notify
  <2> QED
    BY <2>4, <2>5, <2>6 DEF StoredInv
<1>5. ASSUME NEW i \in Instance, NEW e \in Event, Announce(i, e) PROVE StoredInv'
  <2>1. /\ req[i][e].at = "stored"
        /\ \A j \in Instance, d \in Event : j # i \/ d # e => req'[j][d] = req[j][d]
        /\ UNCHANGED <<rows, recent, inbox, fetching>>
    BY <1>5, <1>a, Moved DEF Announce, listenVars
  <2>2. Items(Append(sent[i], e)) = Items(sent[i]) \union {e}
    BY <1>0, Appended
  <2>3. \A j \in Instance : sent'[j] = IF j = i THEN Append(sent[i], e) ELSE sent[j]
    BY <1>0, <1>5 DEF Announce, Broadcast
  <2>4. ASSUME NEW j \in Instance, NEW d \in Event, d \in Items(sent'[j])
        PROVE  d \in Items(sent[j]) \/ (j = i /\ d = e)
    <3>1. CASE j = i
      <4>1. sent'[j] = Append(sent[i], e)
        BY <2>3, <3>1
      <4> QED
        BY <2>2, <2>4, <3>1, <4>1
    <3>2. CASE j # i
      <4>1. sent'[j] = sent[j]
        BY <2>3, <3>2
      <4> QED
        BY <2>4, <4>1
    <3> QED
      BY <3>1, <3>2
  <2> QED
    BY <2>1, <2>4, StoredKept
<1>6. ASSUME NEW i \in Instance, NEW e \in Event, Remember(i, e) PROVE StoredInv'
  <2>1. /\ req[i][e].at = "announced"
        /\ \A j \in Instance, d \in Event : j # i \/ d # e => req'[j][d] = req[j][d]
        /\ UNCHANGED <<rows, sent, inbox, fetching>>
    BY <1>6, <1>a, Moved DEF Remember, listenVars
  <2>2. Items(Append(recent[i], e)) = Items(recent[i]) \union {e}
    BY <1>0, Appended
  <2>3. \A j \in Instance : recent'[j] = IF j = i THEN Append(recent[i], e) ELSE recent[j]
    BY <1>0, <1>6 DEF Remember
  <2>4. ASSUME NEW j \in Instance, NEW d \in Event, d \in Items(recent'[j])
        PROVE  d \in Items(recent[j]) \/ (j = i /\ d = e)
    <3>1. CASE j = i
      <4>1. recent'[j] = Append(recent[i], e)
        BY <2>3, <3>1
      <4> QED
        BY <2>2, <2>4, <3>1, <4>1
    <3>2. CASE j # i
      <4>1. recent'[j] = recent[j]
        BY <2>3, <3>2
      <4> QED
        BY <2>4, <4>1
    <3> QED
      BY <3>1, <3>2
  <2> QED
    BY <2>1, <2>4, StoredKept
\* The listener.
<1>7. ASSUME NEW i \in Instance, Take(i) PROVE StoredInv'
  <2>1. inbox[i] \in Seq(Event) /\ inbox[i] # <<>> /\ UNCHANGED <<rows, req, sent, recent>>
    BY <1>0, <1>7 DEF Take, ingestVars
  <2>2. Head(inbox[i]) \in Items(inbox[i]) /\ Items(Tail(inbox[i])) \subseteq Items(inbox[i])
    BY <2>1, Taken
  <2>3. /\ \A j \in Instance : inbox'[j] = IF j = i THEN Tail(inbox[i]) ELSE inbox[j]
        /\ \A j \in Instance : j # i => fetching'[j] = fetching[j]
        /\ fetching'[i] \in {None, Head(inbox[i])}
    BY <1>0, <1>7 DEF Take
  <2>4. \A j \in Instance, d \in Event :
          d \in Items(inbox'[j]) \/ fetching'[j] = d => d \in Items(inbox[j]) \/ fetching[j] = d
    BY <1>0, <2>2, <2>3
  <2> QED
    BY <2>1, <2>4, StoredKept
<1>8. ASSUME NEW i \in Instance, Forward(i) PROVE StoredInv'
  <2>1. fetching[i] \in Event /\ UNCHANGED <<rows, req, recent, inbox>>
    BY <1>0, <1>8 DEF Forward, ingestVars
  <2>2. Items(Append(sent[i], fetching[i])) = Items(sent[i]) \union {fetching[i]}
    BY <1>0, <2>1, Appended
  <2>3. \A j \in Instance :
          /\ sent'[j] = IF j = i THEN Append(sent[i], fetching[i]) ELSE sent[j]
          /\ fetching'[j] = IF j = i THEN None ELSE fetching[j]
    BY <1>0, <1>8 DEF Forward, Broadcast
  <2>4. \A j \in Instance, d \in Event :
          d \in Items(sent'[j]) \/ fetching'[j] = d => d \in Items(sent[j]) \/ fetching[j] = d
    BY <1>0, <2>2, <2>3
  <2> QED
    BY <2>1, <2>4, StoredKept
<1>9. ASSUME NEW i \in Instance, FetchFails(i) \/ Reconnect(i) \/ Break(i) PROVE StoredInv'
  <2>1. UNCHANGED <<rows, req, sent, recent>>
    BY <1>9 DEF FetchFails, Reconnect, Break, ingestVars
  <2>2. \A j \in Instance : inbox'[j] \in {inbox[j], <<>>} /\ fetching'[j] \in {fetching[j], None}
    BY <1>0, <1>9 DEF FetchFails, Reconnect, Break
  <2> QED
    BY <1>0, <2>1, <2>2, Nothing, StoredKept
<1>10. ASSUME NEW i \in Instance, Restart(i) PROVE StoredInv'
  <2>1. UNCHANGED rows
    BY <1>10 DEF Restart
  <2>2. \A j \in Instance : /\ inbox'[j] \in {inbox[j], <<>>} /\ fetching'[j] \in {fetching[j], None}
                            /\ sent'[j] \in {sent[j], <<>>} /\ recent'[j] \in {recent[j], <<>>}
    BY <1>0, <1>10 DEF Restart
  <2>3. \A j \in Instance, d \in Event : req'[j][d].at \in {req[j][d].at, "done"}
    <3>1. \A d \in Event : [req[i][d] EXCEPT !.at = "done"].at = "done"
      BY <1>0 DEF Requests
    <3> QED
      BY <1>0, <1>10, <3>1 DEF Restart
  <2> QED
    BY <1>0, <2>1, <2>2, <2>3, Nothing, StoredKept
\* Subscribers.
<1>11. ASSUME NEW c \in Client, Follow(c) PROVE StoredInv'
  <2>1. UNCHANGED <<rows, req, sent, recent, inbox, fetching>>
    BY <1>11 DEF Follow, Deliver, Subscribe, Receive, SkipAhead, Close, ingestVars, listenVars
  <2> QED
    BY <2>1, StoredKept
<1> QED
  BY <1>1, <1>2, <1>3, <1>4, <1>5, <1>6, <1>7, <1>8, <1>9, <1>10, <1>11
     DEF Next, Arrive, Handle, Listen

-----------------------------------------------------------------------------

Shows(s, log, e) == \E p \in DOMAIN log : p >= s.from /\ log[p] = e

\* The feed of a client's instance has the event.
Covered(c, e) == Shows(client[c], sent[client[c].on], e)

\* The listener of an instance has it in hand, or has missed it.
OnItsWay(i, e) == e \in Items(inbox[i]) \/ fetching[i] = e \/ e \in missed[i]

\* The handler of an instance has broadcast it.
Claimed(i, e) == req[i][e].at = "announced" \/ e \in Items(recent[i])

LostAt(c) ==
  client[c].on # None =>
    /\ client[c].since <= Len(rows)
    /\ \A e \in Due(c) :
         /\ Covered(c, e) \/ OnItsWay(client[c].on, e)
         /\ Claimed(client[c].on, e) => Covered(c, e)

LostInv == \A c \in Client : LostAt(c)

LEMMA LostInit == Init => LostInv
  BY DEF Init, LostInv, LostAt, Closed

\* A log that grows shows what it did, and what was added.
LEMMA ShowsGrows ==
  ASSUME NEW s, s.from \in Nat, NEW log \in Seq(Event), NEW x \in Event, s.from <= Len(log) + 1
  PROVE  /\ \A e : Shows(s, log, e) => Shows(s, Append(log, x), e)
         /\ Shows(s, Append(log, x), x)
<1> DEFINE l == Append(log, x)
<1>1. /\ Len(log) \in Nat /\ DOMAIN log = 1..Len(log) /\ DOMAIN l = 1..Len(log) + 1
      /\ \A k \in 1..Len(log) : l[k] = log[k]
      /\ l[Len(log) + 1] = x
  BY Appended
<1> HIDE DEF l
<1>2. Len(log) + 1 \in DOMAIN l /\ Len(log) + 1 >= s.from
  BY <1>1
<1>3. \A p \in DOMAIN log : p \in DOMAIN l
  BY <1>1
<1>4. Shows(s, l, x)
  BY <1>1, <1>2 DEF Shows
<1>5. ASSUME NEW e, Shows(s, log, e) PROVE Shows(s, l, e)
  BY <1>1, <1>3, <1>5 DEF Shows
<1> QED
  BY <1>4, <1>5 DEF l

\* A step that stores nothing, for a client whose subscription goes on.
LEMMA LostKept ==
  ASSUME TypeOK, FeedInv, NEW c \in Client, LostAt(c), UNCHANGED rows,
         NEW i, i = client[c].on,
         i # None =>
           /\ client'[c].on = i /\ client'[c].from = client[c].from /\ client'[c].since = client[c].since
           /\ sent'[i] = sent[i] \/ \E x \in Event : sent'[i] = Append(sent[i], x)
           /\ \A e \in Event :
                /\ OnItsWay(i, e) =>
                     OnItsWay(i, e)' \/ Claimed(i, e) \/ sent'[i] = Append(sent[i], e)
                /\ Claimed(i, e)' => Claimed(i, e) \/ sent'[i] = Append(sent[i], e),
         client'[c].on # None => client[c].on # None
  PROVE  LostAt(c)'
<1> SUFFICES ASSUME client'[c].on # None
             PROVE  /\ client'[c].since <= Len(rows')
                    /\ \A e \in Due(c)' :
                         /\ Covered(c, e)' \/ OnItsWay(client[c].on, e)'
                         /\ Claimed(client[c].on, e)' => Covered(c, e)'
  BY DEF LostAt
<1>1. /\ client[c].on # None /\ client'[c].on = i /\ client'[c].from = client[c].from
      /\ client'[c].since = client[c].since
      /\ sent'[i] = sent[i] \/ \E x \in Event : sent'[i] = Append(sent[i], x)
      /\ i = client[c].on
  OBVIOUS
<1>2. /\ i \in Instance /\ client[c] \in Subscription /\ sent[i] \in Seq(Event)
      /\ client[c].from \in Nat /\ client[c].from <= Len(sent[i]) + 1
  <2>1. client[c] \in Subscription
    BY DEF TypeOK
  <2>2. i \in Instance /\ client[c].next \in Nat /\ client[c].from \in Nat
    BY <1>1, <2>1 DEF Subscription
  <2>3. sent[i] \in Seq(Event) /\ Len(sent[i]) \in Nat
    BY <2>2, LenProperties DEF TypeOK
  <2>4. client[c].from <= client[c].next /\ client[c].next <= Len(sent[i]) + 1
    BY <1>1 DEF FeedInv, Feed
  <2> QED
    BY <2>1, <2>2, <2>3, <2>4
<1>3. \A e : Shows(client'[c], sent'[i], e) <=> Shows(client[c], sent'[i], e)
  BY <1>1 DEF Shows
<1>4. \A e : Covered(c, e) => Shows(client[c], sent'[i], e)
  <2>1. CASE sent'[i] = sent[i]
    BY <1>1, <2>1 DEF Covered
  <2>2. ASSUME NEW x \in Event, sent'[i] = Append(sent[i], x)
        PROVE  \A e : Covered(c, e) => Shows(client[c], sent'[i], e)
    BY <1>1, <1>2, <2>2, ShowsGrows DEF Covered
  <2> QED
    BY <1>1, <2>1, <2>2
<1>5. \A e \in Event : sent'[i] = Append(sent[i], e) => Shows(client[c], sent'[i], e)
  BY <1>2, ShowsGrows
<1>6. \A e : Shows(client[c], sent'[i], e) => Covered(c, e)'
  BY <1>1, <1>3 DEF Covered
<1>7. Due(c)' = Due(c) /\ Due(c) \subseteq Event
  <2>1. Wanted[c] \subseteq Event
    BY RealtimeAssumption
  <2> QED
    BY <1>1, <2>1 DEF Due
<1>8. /\ client[c].since <= Len(rows)
      /\ \A e \in Due(c) : /\ Covered(c, e) \/ OnItsWay(i, e)
                           /\ Claimed(i, e) => Covered(c, e)
  BY <1>1 DEF LostAt
<1>9. \A e \in Event :
        /\ OnItsWay(i, e) => OnItsWay(i, e)' \/ Claimed(i, e) \/ sent'[i] = Append(sent[i], e)
        /\ Claimed(i, e)' => Claimed(i, e) \/ sent'[i] = Append(sent[i], e)
  BY <1>1
<1>10. /\ \A e : OnItsWay(i, e)' => OnItsWay(client[c].on, e)'
       /\ \A e : Claimed(client[c].on, e)' => Claimed(i, e)'
  BY <1>1 DEF OnItsWay, Claimed
<1> QED
  BY <1>1, <1>4, <1>5, <1>6, <1>7, <1>8, <1>9, <1>10

LEMMA LostStep == TypeOK /\ FeedInv /\ StoredInv /\ LostInv /\ [Next]_vars => LostInv'
<1> SUFFICES ASSUME TypeOK, FeedInv, StoredInv, LostInv, [Next]_vars, NEW c \in Client,
                    NEW k, k = client[c].on
             PROVE  LostAt(c)'
  BY DEF LostInv
<1>0. /\ req \in [Instance -> [Event -> Requests]] /\ rows \in Seq(Rows)
      /\ sent \in [Instance -> Seq(Event)] /\ recent \in [Instance -> Seq(Event)]
      /\ inbox \in [Instance -> Seq(Event)] /\ missed \in [Instance -> SUBSET Event]
      /\ fetching \in [Instance -> Event \union {None}] /\ None \notin Event
      /\ client \in [Client -> Subscription] /\ LostAt(c)
      /\ k # None => k \in Instance
  <2>1. client[c] \in Subscription
    BY DEF TypeOK
  <2> QED
    BY <2>1, RealtimeAssumption DEF TypeOK, LostInv, Subscription
<1>a. Steps = {"idle", "ready", "stored", "announced", "done"}
  BY DEF Steps
\* The requests and the listener of the client's instance decide; the client
\* goes on.
<1>b. ASSUME UNCHANGED <<rows, client>>,
             k # None =>
               /\ sent'[k] = sent[k] \/ \E x \in Event : sent'[k] = Append(sent[k], x)
               /\ \A e \in Event :
                    /\ OnItsWay(k, e) => OnItsWay(k, e)' \/ Claimed(k, e) \/ sent'[k] = Append(sent[k], e)
                    /\ Claimed(k, e)' => Claimed(k, e) \/ sent'[k] = Append(sent[k], e)
      PROVE  LostAt(c)'
  BY <1>0, <1>b, LostKept
<1>1. CASE UNCHANGED vars
  BY <1>1, <1>b DEF vars, OnItsWay, Claimed
\* Requests.
<1>2. ASSUME NEW i \in Instance, NEW e \in Event,
             FindsDuplicate(i, e) \/ InsertFails(i, e) \/ AnnounceFails(i, e)
      PROVE  LostAt(c)'
  <2>1. Move(i, e, "done") /\ UNCHANGED <<rows, recent, inbox, fetching, missed, sent, client>>
    BY <1>2 DEF FindsDuplicate, InsertFails, AnnounceFails, listenVars
  <2>2. req'[i][e].at = "done" /\ \A j \in Instance, d \in Event : j # i \/ d # e => req'[j][d] = req[j][d]
    BY <1>a, <2>1, Moved
  <2> QED
    BY <1>0, <1>b, <2>1, <2>2 DEF OnItsWay, Claimed
<1>3. ASSUME NEW i \in Instance, NEW e \in Event, Prepare(i, e) PROVE LostAt(c)'
  <2>1. /\ req'[i][e].at = "ready"
        /\ \A j \in Instance, d \in Event : j # i \/ d # e => req'[j][d].at = req[j][d].at
    BY <1>0, <1>3 DEF Prepare
  <2>2. UNCHANGED <<rows, recent, inbox, fetching, missed, sent, client>>
    BY <1>3 DEF Prepare, listenVars
  <2> QED
    BY <1>0, <1>b, <2>1, <2>2 DEF OnItsWay, Claimed
\* A new row: the listener is told or misses it, and no handler has claimed it.
<1>4. ASSUME NEW i \in Instance, NEW e \in Event, Insert(i, e) PROVE LostAt(c)'
  <2> DEFINE r == [event |-> e, prev |-> req[i][e].prev, snap |-> req[i][e].snap, time |-> req[i][e].time]
  <2>1. r \in Rows /\ r.event = e
    <3>1. req[i][e] \in Requests
      BY <1>0
    <3> QED
      BY <3>1 DEF Requests, Rows
  <2>2. rows' = Append(rows, r) /\ UNCHANGED <<client, sent, recent, fetching>> /\ ~InRows(e)
    BY <1>4 DEF Insert, InRows
  <2> HIDE DEF r
  <2>3. /\ Len(rows) \in Nat /\ Len(rows') = Len(rows) + 1
        /\ \A m \in 1..Len(rows) : rows'[m] = rows[m]
        /\ rows'[Len(rows) + 1] = r
    BY <1>0, <2>1, <2>2, Appended
  <2>4. CASE k = None
    BY <2>2, <2>4 DEF LostAt
  <2>5. CASE k # None
    <3>1. /\ client[c].since \in Nat /\ client[c].since <= Len(rows)
          /\ \A d \in Due(c) : /\ Covered(c, d) \/ OnItsWay(k, d)
                               /\ Claimed(k, d) => Covered(c, d)
      <4>1. client[c] \in Subscription
        BY <1>0
      <4> QED
        BY <1>0, <2>5, <4>1 DEF LostAt, Subscription
    <3>2. \A d \in Due(c)' : d \in Due(c) \/ d = e
      <4>1. \A m \in client[c].since + 1 .. Len(rows') :
              m = Len(rows) + 1 \/ (m \in client[c].since + 1 .. Len(rows) /\ m \in 1..Len(rows))
        BY <2>3, <3>1
      <4> QED
        BY <2>1, <2>2, <2>3, <4>1 DEF Due
    <3>3. Due(c)' \subseteq Event
      <4>1. Wanted[c] \subseteq Event
        BY RealtimeAssumption
      <4> QED
        BY <4>1 DEF Due
    <3>4. /\ \A d \in Event : d # e => req'[k][d] = req[k][d]
          /\ req'[k][e].at \in {req[k][e].at, "stored"}
      <4>1. Move(i, e, "stored") /\ "stored" \in Steps
        BY <1>4, <1>a DEF Insert
      <4>2. /\ req'[i][e].at = "stored"
            /\ \A j \in Instance, d \in Event : j # i \/ d # e => req'[j][d] = req[j][d]
        BY <4>1, Moved
      <4> QED
        BY <1>0, <2>5, <4>2
    <3>5. ~Claimed(k, e)
      BY <1>0, <2>2, <2>5 DEF StoredInv, Claimed
    <3>6. \A d \in Event : Claimed(k, d)' => Claimed(k, d) /\ d # e
      BY <2>2, <3>4, <3>5 DEF Claimed
    <3>7. /\ Items(inbox[k]) \subseteq Items(inbox'[k]) /\ missed[k] \subseteq missed'[k]
          /\ e \in Items(inbox'[k]) \union missed'[k]
      <4>1. Items(Append(inbox[k], e)) = Items(inbox[k]) \union {e}
        BY <1>0, <2>5, Appended
      <4> QED
        BY <1>0, <1>4, <2>5, <4>1 DEF Insert, Notify
    <3>8. OnItsWay(k, e)' /\ \A d : OnItsWay(k, d) => OnItsWay(k, d)'
      BY <2>2, <3>7 DEF OnItsWay
    <3>9. \A d : Covered(c, d)' = Covered(c, d)
      BY <2>2 DEF Covered, Shows
    <3>10. client'[c].since <= Len(rows') /\ client'[c].on = k
      BY <2>2, <2>3, <3>1
    <3>11. \A d \in Due(c)' : /\ Covered(c, d)' \/ OnItsWay(k, d)'
                              /\ Claimed(k, d)' => Covered(c, d)'
      BY <3>1, <3>2, <3>3, <3>6, <3>8, <3>9
    <3>12. \A d : /\ OnItsWay(k, d)' => OnItsWay(client[c].on, d)'
                  /\ Claimed(client[c].on, d)' => Claimed(k, d)'
      BY <3>10 DEF OnItsWay, Claimed
    <3> QED
      BY <3>10, <3>11, <3>12 DEF LostAt
  <2> QED
    BY <2>4, <2>5
<1>5. ASSUME NEW i \in Instance, NEW e \in Event, Announce(i, e) PROVE LostAt(c)'
  <2>1. /\ \A j \in Instance, d \in Event : j # i \/ d # e => req'[j][d] = req[j][d]
        /\ UNCHANGED <<rows, recent, inbox, fetching, missed, client>>
    BY <1>5, <1>a, Moved DEF Announce, listenVars
  <2>2. \A j \in Instance : sent'[j] = IF j = i THEN Append(sent[i], e) ELSE sent[j]
    BY <1>0, <1>5 DEF Announce, Broadcast
  <2> QED
    BY <1>0, <1>b, <2>1, <2>2 DEF OnItsWay, Claimed
<1>6. ASSUME NEW i \in Instance, NEW e \in Event, Remember(i, e) PROVE LostAt(c)'
  <2>1. /\ req[i][e].at = "announced"
        /\ req'[i][e].at = "done"
        /\ \A j \in Instance, d \in Event : j # i \/ d # e => req'[j][d] = req[j][d]
        /\ UNCHANGED <<rows, sent, inbox, fetching, missed, client>>
    BY <1>6, <1>a, Moved DEF Remember, listenVars
  <2>2. Items(Append(recent[i], e)) = Items(recent[i]) \union {e}
    BY <1>0, Appended
  <2>3. Items(recent'[i]) = Items(recent[i]) \union {e} /\ \A j \in Instance : j # i => recent'[j] = recent[j]
    BY <1>0, <1>6, <2>2 DEF Remember
  <2>4. \A j \in Instance, d \in Event : Claimed(j, d)' => Claimed(j, d)
    <3>1. ASSUME NEW j \in Instance, NEW d \in Event, Claimed(j, d)', j # i PROVE Claimed(j, d)
      BY <2>1, <2>3, <3>1 DEF Claimed
    <3>2. ASSUME NEW d \in Event, Claimed(i, d)' PROVE Claimed(i, d)
      <4>1. CASE d = e
        BY <2>1, <4>1 DEF Claimed
      <4>2. CASE d # e
        BY <2>1, <2>3, <3>2, <4>2 DEF Claimed
      <4> QED
        BY <4>1, <4>2
    <3> QED
      BY <3>1, <3>2
  <2>5. \A j, d : OnItsWay(j, d)' = OnItsWay(j, d)
    BY <2>1 DEF OnItsWay
  <2> QED
    BY <1>0, <1>b, <2>1, <2>4, <2>5
\* The listener.
<1>7. ASSUME NEW i \in Instance, Take(i) PROVE LostAt(c)'
  <2>1. /\ inbox[i] \in Seq(Event) /\ inbox[i] # <<>> /\ fetching[i] = None
        /\ UNCHANGED <<rows, req, sent, recent, missed, client>>
    BY <1>0, <1>7 DEF Take, ingestVars
  <2>2. Head(inbox[i]) \in Event /\ Items(inbox[i]) \subseteq Items(Tail(inbox[i])) \union {Head(inbox[i])}
    BY <2>1, Taken
  <2>3. /\ inbox'[i] = Tail(inbox[i]) /\ fetching'[i] = IF Skips(i, Head(inbox[i])) THEN None ELSE Head(inbox[i])
        /\ \A j \in Instance : j # i => inbox'[j] = inbox[j] /\ fetching'[j] = fetching[j]
    BY <1>0, <1>7 DEF Take
  <2>4. Ring(i) \subseteq Items(recent[i])
    BY <1>0, RingRecent
  <2>5. ASSUME NEW d \in Event, OnItsWay(i, d) PROVE OnItsWay(i, d)' \/ Claimed(i, d)
    <3>1. CASE d = Head(inbox[i]) /\ d \in Ring(i)
      BY <2>4, <3>1 DEF Claimed
    <3>2. CASE d = Head(inbox[i]) /\ d \notin Ring(i)
      BY <2>3, <3>2 DEF OnItsWay, Skips
    <3>3. CASE d # Head(inbox[i])
      <4>1. d \in Items(Tail(inbox[i])) \/ d \in missed[i]
        BY <1>0, <2>1, <2>2, <2>5, <3>3 DEF OnItsWay
      <4> QED
        BY <2>1, <2>3, <4>1 DEF OnItsWay
    <3> QED
      BY <3>1, <3>2, <3>3
  <2>6. \A j \in Instance, d \in Event : j # i => OnItsWay(j, d)' = OnItsWay(j, d)
    BY <2>1, <2>3 DEF OnItsWay
  <2>7. \A j, d : Claimed(j, d)' = Claimed(j, d)
    BY <2>1 DEF Claimed
  <2>8. CASE k = i
    BY <1>0, <1>b, <2>1, <2>5, <2>7, <2>8
  <2>9. CASE k # i
    BY <1>0, <1>b, <2>1, <2>6, <2>7, <2>9
  <2> QED
    BY <2>8, <2>9
<1>8. ASSUME NEW i \in Instance, Forward(i) PROVE LostAt(c)'
  <2>1. fetching[i] \in Event /\ UNCHANGED <<rows, req, recent, inbox, missed, client>>
    BY <1>0, <1>8 DEF Forward, ingestVars
  <2>2. \A j \in Instance :
          /\ sent'[j] = IF j = i THEN Append(sent[i], fetching[i]) ELSE sent[j]
          /\ fetching'[j] = IF j = i THEN None ELSE fetching[j]
    BY <1>0, <1>8 DEF Forward, Broadcast
  <2> QED
    BY <1>0, <1>b, <2>1, <2>2 DEF OnItsWay, Claimed
<1>9. ASSUME NEW i \in Instance, FetchFails(i) PROVE LostAt(c)'
  <2>1. /\ fetching[i] \in Event /\ UNCHANGED <<rows, req, sent, recent, inbox, client>>
    BY <1>0, <1>9 DEF FetchFails, ingestVars
  <2>2. \A j \in Instance :
          /\ missed'[j] = IF j = i THEN missed[i] \union {fetching[i]} ELSE missed[j]
          /\ fetching'[j] = IF j = i THEN None ELSE fetching[j]
    BY <1>0, <1>9 DEF FetchFails
  <2> QED
    BY <1>0, <1>b, <2>1, <2>2 DEF OnItsWay, Claimed
<1>10. ASSUME NEW i \in Instance, Break(i) PROVE LostAt(c)'
  <2>1. UNCHANGED <<rows, req, sent, recent, fetching, client>>
    BY <1>10 DEF Break, ingestVars
  <2>2. \A j \in Instance :
          /\ missed'[j] = IF j = i THEN missed[i] \union Items(inbox[i]) ELSE missed[j]
          /\ inbox'[j] = IF j = i THEN <<>> ELSE inbox[j]
    BY <1>0, <1>10 DEF Break
  <2>3. \A j \in Instance, d \in Event : OnItsWay(j, d) => OnItsWay(j, d)'
    BY <2>1, <2>2 DEF OnItsWay
  <2>4. \A j, d : Claimed(j, d)' = Claimed(j, d)
    BY <2>1 DEF Claimed
  <2> QED
    BY <1>0, <1>b, <2>1, <2>3, <2>4
<1>11. ASSUME NEW i \in Instance, Reconnect(i) PROVE LostAt(c)'
  BY <1>11, <1>b DEF Reconnect, ingestVars, OnItsWay, Claimed
\* The subscriptions of an instance end with it.
<1>12. ASSUME NEW i \in Instance, Restart(i) PROVE LostAt(c)'
  <2>1. UNCHANGED rows /\ client'[c] = IF k = i THEN Closed ELSE client[c]
    BY <1>12 DEF Restart
  <2>2. CASE client'[c].on = None
    BY <2>2 DEF LostAt
  <2>3. CASE client'[c].on # None
    <3>1. k # i /\ client'[c] = client[c] /\ k # None
      BY <2>1, <2>3 DEF Closed
    <3>2. /\ sent'[k] = sent[k] /\ recent'[k] = recent[k] /\ inbox'[k] = inbox[k]
          /\ fetching'[k] = fetching[k] /\ missed'[k] = missed[k] /\ req'[k] = req[k]
      BY <1>0, <1>12, <3>1 DEF Restart
    <3>3. \A d : OnItsWay(k, d)' = OnItsWay(k, d) /\ Claimed(k, d)' = Claimed(k, d)
      BY <3>2 DEF OnItsWay, Claimed
    <3>4. /\ \A d : OnItsWay(client[c].on, d)' = OnItsWay(k, d)'
          /\ \A d : Claimed(client[c].on, d)' = Claimed(k, d)'
      BY <3>1 DEF OnItsWay, Claimed
    <3> QED
      BY <1>0, <2>1, <2>3, <3>1, <3>2, <3>3, <3>4, LostKept DEF OnItsWay, Claimed
  <2> QED
    BY <2>2, <2>3
\* Subscribers.
<1>13. ASSUME NEW d \in Client, NEW i \in Instance, Subscribe(d, i) PROVE LostAt(c)'
  <2>1. UNCHANGED <<rows, req, sent, recent, inbox, fetching, missed>>
    BY <1>13 DEF Subscribe, ingestVars, listenVars
  <2>2. CASE c # d
    <3>1. client'[c] = client[c]
      BY <1>0, <1>13, <2>2 DEF Subscribe
    <3> QED
      BY <1>0, <2>1, <3>1 DEF LostAt, Due, Covered, Shows, OnItsWay, Claimed
  <2>3. CASE c = d
    <3>1. client'[c].since = Len(rows) /\ Len(rows) \in Nat
      BY <1>0, <1>13, <2>3, LenProperties DEF Subscribe
    <3>2. Due(c)' = {}
      BY <2>1, <3>1 DEF Due
    <3> QED
      BY <2>1, <3>1, <3>2 DEF LostAt
  <2> QED
    BY <2>2, <2>3
<1>14. ASSUME NEW d \in Client, Receive(d) \/ SkipAhead(d) PROVE LostAt(c)'
  <2>1. UNCHANGED <<rows, req, sent, recent, inbox, fetching, missed>>
    BY <1>14 DEF Receive, SkipAhead, ingestVars, listenVars
  <2>2. /\ client'[c].on = client[c].on /\ client'[c].from = client[c].from
        /\ client'[c].since = client[c].since
    <3>1. ASSUME NEW x, NEW y, client' = [client EXCEPT ![d] = [client[d] EXCEPT !.next = x, !.got = y]]
          PROVE  /\ client'[c].on = client[c].on /\ client'[c].from = client[c].from
                 /\ client'[c].since = client[c].since
      <4>1. client[c] \in Subscription /\ client[d] \in Subscription
        BY <1>0
      <4>2. CASE c # d
        BY <1>0, <3>1, <4>2
      <4>3. CASE c = d
        <5>1. client'[c] = [client[c] EXCEPT !.next = x, !.got = y]
          BY <1>0, <3>1, <4>3
        <5> QED
          BY <4>1, <5>1 DEF Subscription
      <4> QED
        BY <4>2, <4>3
    <3>2. CASE Receive(d)
      <4> DEFINE y == IF sent[client[d].on][client[d].next] \in Wanted[d]
                      THEN Append(client[d].got, client[d].next) ELSE client[d].got
      <4>1. client' = [client EXCEPT ![d] = [client[d] EXCEPT !.next = client[d].next + 1, !.got = y]]
        BY <1>0, <3>2 DEF Receive
      <4> HIDE DEF y
      <4> QED
        BY <3>1, <4>1
    <3>3. CASE SkipAhead(d)
      <4> DEFINE x == Len(sent[client[d].on]) - Capacity + 1
                 y == client[d].got \o GapNotice
      <4>1. client' = [client EXCEPT ![d] = [client[d] EXCEPT !.next = x, !.got = y]]
        BY <1>0, <3>3 DEF SkipAhead
      <4> HIDE DEF x, y
      <4> QED
        BY <3>1, <4>1
    <3> QED
      BY <1>14, <3>2, <3>3
  <2> QED
    BY <1>0, <2>1, <2>2, LostKept DEF OnItsWay, Claimed
<1>15. ASSUME NEW d \in Client, Close(d) PROVE LostAt(c)'
  <2>1. UNCHANGED <<rows, req, sent, recent, inbox, fetching, missed>>
    BY <1>15 DEF Close, ingestVars, listenVars
  <2>2. CASE c # d
    <3>1. client'[c] = client[c]
      BY <1>0, <1>15, <2>2 DEF Close
    <3> QED
      BY <1>0, <2>1, <3>1 DEF LostAt, Due, Covered, Shows, OnItsWay, Claimed
  <2>3. CASE c = d
    <3>1. client'[c].on = None
      BY <1>0, <1>15, <2>3 DEF Close, Closed
    <3> QED
      BY <3>1 DEF LostAt
  <2> QED
    BY <2>2, <2>3
<1>16. Balanced \subseteq Instance
  BY RealtimeAssumption
<1> QED
  BY <1>1, <1>2, <1>3, <1>4, <1>5, <1>6, <1>7, <1>8, <1>9, <1>10, <1>11, <1>12, <1>13, <1>14, <1>15, <1>16
     DEF Next, Arrive, Handle, Listen, Follow, Deliver

\* A stored row has reached the subscriber, or a gap in its place, or it is on its
\* way, or the listener of the instance has missed it.
THEOREM NothingIsLost == Spec => []NothingLost
<1>1. ASSUME TypeOK, FeedInv, LostInv PROVE NothingLost
  <2> SUFFICES ASSUME NEW c \in Client, client[c].on # None, NEW e \in Due(c),
                      ~OnItsWay(client[c].on, e)
               PROVE  Reached(c, e) \/ e \in Unread(c)
    BY DEF NothingLost, OnItsWay
  <2> DEFINE s == client[c]
             log == sent[client[c].on]
  <2>1. client[c] \in Subscription
    BY <1>1 DEF TypeOK
  <2>2. client[c].on \in Instance /\ s.next \in Nat \ {0} /\ s.from \in Nat
    BY <2>1 DEF Subscription
  <2>3. log \in Seq(Event) /\ Len(log) \in Nat /\ DOMAIN log = 1..Len(log)
    BY <1>1, <2>2, LenProperties DEF TypeOK
  <2>4. PICK p \in DOMAIN log : p >= s.from /\ log[p] = e
    BY <1>1 DEF LostInv, LostAt, Covered, Shows
  <2>5. log[p] \in Wanted[c]
    BY <2>4 DEF Due
  <2>6. \A q \in s.from..s.next - 1 : log[q] \in Wanted[c] => q \in Items(s.got) \/ Gapped(s, q)
    BY <1>1 DEF FeedInv, Feed, Whole
  <2>7. p \in s.next..Len(log) \/ p \in s.from..s.next - 1
    BY <2>2, <2>3, <2>4
  <2> QED
    BY <2>4, <2>5, <2>6, <2>7 DEF Reached, Unread
<1> QED
  BY <1>1, TypeInit, TypeStep, FeedInit, FeedStep, StoredInit, StoredStep, LostInit, LostStep, PTL DEF Spec

\* A client that has read all its instance has broadcast, of an instance whose
\* listener has nothing in hand.
AtRest(c) ==
  /\ inbox[client[c].on] = <<>> /\ fetching[client[c].on] = None
  /\ client[c].next > Len(sent[client[c].on])

\* Where Reaches comes to: when nothing more is on its way, a client has been sent
\* every row of its filter that was stored since it subscribed, or a gap in its place,
\* but for those the listener of the instance missed (handle_ws, start_pg_listener).
AllReached ==
  \A c \in Client : client[c].on # None /\ AtRest(c) =>
    \A e \in Due(c) : Reached(c, e) \/ e \in missed[client[c].on]

THEOREM RestReachesAll == Spec => []AllReached
<1>1. ASSUME TypeOK, NothingLost PROVE AllReached
  <2> SUFFICES ASSUME NEW c \in Client, client[c].on # None, AtRest(c), NEW e \in Due(c)
               PROVE  Reached(c, e) \/ e \in missed[client[c].on]
    BY DEF AllReached
  <2>1. client[c] \in Subscription /\ e # None
    BY <1>1, RealtimeAssumption DEF TypeOK, Due
  <2>2. /\ client[c].on \in Instance /\ client[c].next \in Nat
        /\ Len(sent[client[c].on]) \in Nat
    BY <1>1, <2>1, LenProperties DEF TypeOK, Subscription
  <2>3. e \notin Items(inbox[client[c].on]) /\ fetching[client[c].on] # e
    BY <2>1, Nothing DEF AtRest
  <2>4. client[c].next..Len(sent[client[c].on]) = {}
    BY <2>2 DEF AtRest
  <2>5. e \notin Unread(c)
    BY <2>4 DEF Unread
  <2> QED
    BY <1>1, <2>3, <2>5 DEF NothingLost
<1> QED
  BY <1>1, NothingIsLost, TypeCorrect, PTL

-----------------------------------------------------------------------------
(* The chain of snapshots. *)

\* Of the first n rows the last of the file has the event x, with its content.
Follows(rs, f, x, n) ==
  \E j \in 1..n :
    /\ rs[j].event = x /\ rs[j].snap /\ FileOf[rs[j].event] = f
    /\ \A m \in j + 1..n : FileOf[rs[m].event] # f

Ready(i, e) == req[i][e].at = "ready"

\* The rows of a file are in the order of their times, and linked; there is one
\* request for it at a time, later than its rows and linked to the last.
ChainOf(f) ==
  /\ \A a, b \in DOMAIN rows :
       a < b /\ FileOf[rows[a].event] = f /\ FileOf[rows[b].event] = f => rows[a].time < rows[b].time
  /\ \A k \in DOMAIN rows : FileOf[rows[k].event] = f /\ rows[k].prev # None =>
       Follows(rows, f, rows[k].prev, k - 1)
  /\ \A i \in Instance, e \in Event : Ready(i, e) /\ FileOf[e] = f =>
       /\ \A a \in DOMAIN rows : FileOf[rows[a].event] = f => rows[a].time < req[i][e].time
       /\ req[i][e].prev # None => Follows(rows, f, req[i][e].prev, Len(rows))
  /\ \A i, j \in Instance, d, e \in Event :
       Ready(i, d) /\ Ready(j, e) /\ FileOf[d] = f /\ FileOf[e] = f => i = j /\ d = e

ChainInv ==
  /\ \A a \in DOMAIN rows : rows[a].time <= clock
  /\ \A i \in Instance, e \in Event : Ready(i, e) => req[i][e].time <= clock
  /\ \A f \in File : f \notin overlapped => ChainOf(f)

LEMMA ChainInit == Init => ChainInv
<1> SUFFICES ASSUME Init PROVE ChainInv
  OBVIOUS
<1>1. /\ Len(Old) \in Nat /\ DOMAIN Old = 1..Len(Old) /\ DOMAIN rows = 1..Len(Old)
      /\ clock = Len(Old)
      /\ \A k \in DOMAIN rows : /\ rows[k].event = Old[k] /\ rows[k].prev = OldPrev[k]
                                /\ rows[k].snap /\ rows[k].time = k
  BY RealtimeAssumption, LenProperties DEF Init
<1>2. \A i \in Instance, e \in Event : ~Ready(i, e)
  BY DEF Init, Idle, Ready
<1>3. ASSUME NEW k \in DOMAIN rows, rows[k].prev # None
      PROVE  Follows(rows, FileOf[rows[k].event], rows[k].prev, k - 1)
  <2>1. PICK j \in 1..k - 1 :
          /\ Old[j] = OldPrev[k] /\ FileOf[Old[j]] = FileOf[Old[k]]
          /\ \A m \in j + 1..k - 1 : FileOf[Old[m]] # FileOf[Old[k]]
    BY <1>1, <1>3, RealtimeAssumption
  <2>2. \A m \in 1..k - 1 : m \in DOMAIN rows
    BY <1>1
  <2>3. \A m \in j + 1..k - 1 : m \in 1..k - 1
    BY <1>1, <2>1
  <2>4. \A m \in j + 1..k - 1 : FileOf[rows[m].event] # FileOf[rows[k].event]
    BY <1>1, <2>1, <2>2, <2>3
  <2>5. rows[j].event = rows[k].prev /\ rows[j].snap /\ FileOf[rows[j].event] = FileOf[rows[k].event]
    BY <1>1, <2>1, <2>2
  <2> QED
    BY <2>1, <2>4, <2>5 DEF Follows
<1>4. \A a \in DOMAIN rows : rows[a].time <= clock
  BY <1>1
<1>5. \A a, b \in DOMAIN rows : a < b => rows[a].time < rows[b].time
  BY <1>1
<1> QED
  BY <1>2, <1>3, <1>4, <1>5 DEF ChainInv, ChainOf

\* A step that stores nothing and makes no request ready.
LEMMA ChainKept ==
  ASSUME ChainInv, UNCHANGED <<rows, clock, overlapped>>,
         \A i \in Instance, e \in Event : Ready(i, e)' => req'[i][e] = req[i][e]
  PROVE  ChainInv'
<1>1. \A i \in Instance, e \in Event : Ready(i, e)' => Ready(i, e) /\ req'[i][e] = req[i][e]
  BY DEF Ready
<1>2. ASSUME NEW f \in File, ChainOf(f) PROVE ChainOf(f)'
  <2>1. \A x, n : Follows(rows, f, x, n)' = Follows(rows, f, x, n)
    BY DEF Follows
  <2>2. \A a, b \in DOMAIN rows' :
          a < b /\ FileOf[rows'[a].event] = f /\ FileOf[rows'[b].event] = f => rows'[a].time < rows'[b].time
    BY <1>2 DEF ChainOf
  <2>3. \A k \in DOMAIN rows' : FileOf[rows'[k].event] = f /\ rows'[k].prev # None =>
          Follows(rows', f, rows'[k].prev, k - 1)
    BY <1>2 DEF ChainOf
  <2>4. ASSUME NEW i \in Instance, NEW e \in Event, Ready(i, e)', FileOf[e] = f
        PROVE  /\ \A a \in DOMAIN rows' : FileOf[rows'[a].event] = f => rows'[a].time < req'[i][e].time
               /\ req'[i][e].prev # None => Follows(rows', f, req'[i][e].prev, Len(rows'))
    <3>1. Ready(i, e) /\ req'[i][e] = req[i][e]
      BY <1>1, <2>4
    <3> QED
      BY <1>2, <2>4, <3>1 DEF ChainOf
  <2>5. \A i, j \in Instance, d, e \in Event :
          Ready(i, d)' /\ Ready(j, e)' /\ FileOf[d] = f /\ FileOf[e] = f => i = j /\ d = e
    BY <1>1, <1>2 DEF ChainOf
  <2> QED
    BY <2>2, <2>3, <2>4, <2>5 DEF ChainOf
<1>3. \A i \in Instance, e \in Event : Ready(i, e)' => req'[i][e].time <= clock'
  BY <1>1 DEF ChainInv
<1> QED
  BY <1>2, <1>3 DEF ChainInv

\* The newest row of a file whose rows are in the order of their times is its last.
LEMMA NewestFollows ==
  ASSUME TypeOK, NEW f \in File, ChainOf(f), Newest(f) # None
  PROVE  Follows(rows, f, Newest(f), Len(rows))
<1> DEFINE mine == {r \in Items(rows) : FileOf[r.event] = f}
           last == {r \in mine : \A s \in mine : s.time <= r.time}
<1>1. /\ rows \in Seq(Rows) /\ Len(rows) \in Nat /\ DOMAIN rows = 1..Len(rows)
      /\ \A k \in DOMAIN rows : rows[k] \in Rows
  BY LenProperties, ElementOfSeq DEF TypeOK
<1>2. PICK r \in last : r.snap /\ Newest(f) = r.event
  <2>1. \E r \in last : r.snap
    BY DEF Newest
  <2>2. Newest(f) = (CHOOSE r \in last : r.snap).event
    BY <2>1 DEF Newest
  <2> HIDE DEF last
  <2> QED
    BY <2>1, <2>2
<1>3. PICK j \in DOMAIN rows : rows[j] = r
  BY <1>2 DEF Items
<1>4. FileOf[rows[j].event] = f
  BY <1>2, <1>3
<1>5. ASSUME NEW m \in j + 1..Len(rows), FileOf[rows[m].event] = f PROVE FALSE
  <2>1. m \in DOMAIN rows /\ j < m
    BY <1>1, <1>3
  <2>2. rows[j].time < rows[m].time
    BY <1>4, <1>5, <2>1 DEF ChainOf
  <2>3. rows[m] \in mine
    BY <1>5, <2>1 DEF Items
  <2>4. rows[m].time <= rows[j].time
    BY <1>2, <1>3, <2>3
  <2>5. rows[j].time \in Nat /\ rows[m].time \in Nat
    BY <1>1, <2>1 DEF Rows
  <2> QED
    BY <2>2, <2>4, <2>5
<1>6. j \in 1..Len(rows)
  BY <1>1
<1> QED
  BY <1>2, <1>3, <1>4, <1>5, <1>6 DEF Follows

\* A row added changes nothing for the rows before it, nor for other files.
LEMMA FollowsAppended ==
  ASSUME NEW rs \in Seq(Rows), NEW r \in Rows, NEW f, NEW x
  PROVE  /\ \A n \in 0..Len(rs) : Follows(rs, f, x, n) => Follows(Append(rs, r), f, x, n)
         /\ Follows(rs, f, x, Len(rs)) /\ FileOf[r.event] # f =>
              Follows(Append(rs, r), f, x, Len(rs) + 1)
<1> DEFINE ts == Append(rs, r)
<1>1. /\ Len(rs) \in Nat /\ \A k \in 1..Len(rs) : ts[k] = rs[k]
      /\ ts[Len(rs) + 1] = r
  BY Appended
<1> HIDE DEF ts
<1>2. ASSUME NEW n \in 0..Len(rs), Follows(rs, f, x, n)
      PROVE  /\ Follows(ts, f, x, n)
             /\ n = Len(rs) /\ FileOf[r.event] # f => Follows(ts, f, x, Len(rs) + 1)
  <2>1. PICK j \in 1..n :
          /\ rs[j].event = x /\ rs[j].snap /\ FileOf[rs[j].event] = f
          /\ \A m \in j + 1..n : FileOf[rs[m].event] # f
    BY <1>2 DEF Follows
  <2>2. n \in Nat /\ j \in 1..Len(rs) /\ \A m \in j + 1..n : m \in 1..Len(rs)
    BY <1>1, <2>1
  <2>3. /\ ts[j].event = x /\ ts[j].snap /\ FileOf[ts[j].event] = f
        /\ \A m \in j + 1..n : FileOf[ts[m].event] # f
    BY <1>1, <2>1, <2>2
  <2>4. Follows(ts, f, x, n)
    BY <2>1, <2>3 DEF Follows
  <2>5. ASSUME n = Len(rs), FileOf[r.event] # f PROVE Follows(ts, f, x, Len(rs) + 1)
    <3>1. \A m \in j + 1..Len(rs) + 1 : m \in j + 1..n \/ m = Len(rs) + 1
      BY <1>1, <2>2, <2>5
    <3>2. j \in 1..Len(rs) + 1
      BY <1>1, <2>2
    <3>3. \A m \in j + 1..Len(rs) + 1 : FileOf[ts[m].event] # f
      BY <1>1, <2>3, <2>5, <3>1
    <3> QED
      BY <2>3, <3>2, <3>3 DEF Follows
  <2> QED
    BY <2>4, <2>5
<1>3. Len(rs) \in 0..Len(rs)
  BY <1>1
<1> QED
  BY <1>2, <1>3 DEF ts

LEMMA ChainPrepares ==
  ASSUME TypeOK, ChainInv, NEW i \in Instance, NEW e \in Event, Prepare(i, e)
  PROVE  ChainInv'
<1>0. /\ req \in [Instance -> [Event -> Requests]] /\ rows \in Seq(Rows) /\ clock \in Nat
      /\ Len(rows) \in Nat /\ DOMAIN rows = 1..Len(rows)
      /\ \A k \in DOMAIN rows : rows[k].time \in Nat
      /\ FileOf[e] \in File
  <2>1. \A k \in DOMAIN rows : rows[k] \in Rows
    BY ElementOfSeq DEF TypeOK
  <2> QED
    BY <2>1, LenProperties, RealtimeAssumption DEF TypeOK, Rows
<1>1. PICK p \in {Newest(FileOf[e]), None}, held \in {h \in BOOLEAN : h => e \in HasContent} :
        req' = [req EXCEPT ![i][e] =
          [at |-> "ready", prev |-> p, snap |-> held, time |-> clock + 1]]
  BY DEF Prepare
<1>2. /\ UNCHANGED rows /\ clock' = clock + 1 /\ overlapped \subseteq overlapped'
      /\ FileOf[e] \notin overlapped' =>
           \A j \in Instance, d \in Event : FileOf[d] = FileOf[e] => ~Ready(j, d)
  BY DEF Prepare, Ready
<1>3. /\ req'[i][e].prev = p /\ req'[i][e].time = clock + 1
      /\ \A j \in Instance, d \in Event : j # i \/ d # e => req'[j][d] = req[j][d]
  BY <1>0, <1>1
<1>4. \A a \in DOMAIN rows : rows[a].time <= clock /\ rows[a].time < clock + 1
  BY <1>0 DEF ChainInv
<1>5. \A j \in Instance, d \in Event : Ready(j, d)' => req'[j][d].time <= clock'
  <2>1. ASSUME NEW j \in Instance, NEW d \in Event, Ready(j, d)', j # i \/ d # e
        PROVE  req'[j][d].time <= clock'
    <3>1. Ready(j, d) /\ req'[j][d] = req[j][d]
      BY <1>3, <2>1 DEF Ready
    <3>2. req[j][d].time <= clock /\ req[j][d].time \in Nat
      BY <1>0, <3>1 DEF ChainInv, Requests
    <3> QED
      BY <1>0, <1>2, <3>1, <3>2
  <2>2. req'[i][e].time <= clock'
    BY <1>0, <1>2, <1>3
  <2> QED
    BY <2>1, <2>2
<1>6. \A a \in DOMAIN rows' : rows'[a].time <= clock'
  BY <1>0, <1>2, <1>4
<1>7. ASSUME NEW f \in File, f \notin overlapped' PROVE ChainOf(f)'
  <2>1. ChainOf(f)
    BY <1>2, <1>7 DEF ChainInv
  <2>2. /\ \A a, b \in DOMAIN rows' :
             a < b /\ FileOf[rows'[a].event] = f /\ FileOf[rows'[b].event] = f => rows'[a].time < rows'[b].time
        /\ \A k \in DOMAIN rows' : FileOf[rows'[k].event] = f /\ rows'[k].prev # None =>
             Follows(rows', f, rows'[k].prev, k - 1)
    BY <1>2, <2>1 DEF ChainOf
  <2>3. ASSUME NEW j \in Instance, NEW d \in Event, Ready(j, d)', FileOf[d] = f
        PROVE  /\ \A a \in DOMAIN rows' : FileOf[rows'[a].event] = f => rows'[a].time < req'[j][d].time
               /\ req'[j][d].prev # None => Follows(rows', f, req'[j][d].prev, Len(rows'))
    <3>1. CASE j = i /\ d = e
      <4>1. p # None => Follows(rows, f, p, Len(rows))
        BY <1>1, <2>1, <2>3, <3>1, NewestFollows
      <4> QED
        BY <1>2, <1>3, <1>4, <3>1, <4>1
    <3>2. CASE j # i \/ d # e
      <4>1. Ready(j, d) /\ req'[j][d] = req[j][d]
        BY <1>3, <2>3, <3>2 DEF Ready
      <4> QED
        BY <1>2, <2>1, <2>3, <4>1 DEF ChainOf
    <3> QED
      BY <3>1, <3>2
  <2>4. ASSUME NEW j \in Instance, NEW k \in Instance, NEW c \in Event, NEW d \in Event,
               Ready(j, c)', Ready(k, d)', FileOf[c] = f, FileOf[d] = f
        PROVE  j = k /\ c = d
    <3>1. CASE f = FileOf[e]
      <4>1. ASSUME NEW l \in Instance, NEW b \in Event, Ready(l, b)', FileOf[b] = f PROVE l = i /\ b = e
        <5>1. ~Ready(l, b)
          BY <1>2, <1>7, <3>1, <4>1
        <5> QED
          BY <1>3, <4>1, <5>1 DEF Ready
      <4> QED
        BY <2>4, <4>1
    <3>2. CASE f # FileOf[e]
      <4>1. Ready(j, c) /\ Ready(k, d)
        BY <1>3, <2>4, <3>2 DEF Ready
      <4> QED
        BY <2>1, <2>4, <4>1 DEF ChainOf
    <3> QED
      BY <3>1, <3>2
  <2> QED
    BY <2>2, <2>3, <2>4 DEF ChainOf
<1> QED
  BY <1>5, <1>6, <1>7 DEF ChainInv

LEMMA ChainInserts ==
  ASSUME TypeOK, ChainInv, NEW i \in Instance, NEW e \in Event, Insert(i, e)
  PROVE  ChainInv'
<1> DEFINE r == [event |-> e, prev |-> req[i][e].prev, snap |-> req[i][e].snap, time |-> req[i][e].time]
<1>0. /\ rows \in Seq(Rows) /\ clock \in Nat
      /\ \A k \in DOMAIN rows : rows[k].time \in Nat
      /\ FileOf[e] \in File /\ "stored" \in Steps
  <2>1. \A k \in DOMAIN rows : rows[k] \in Rows
    BY ElementOfSeq DEF TypeOK
  <2> QED
    BY <2>1, LenProperties, RealtimeAssumption DEF TypeOK, Rows, Steps
<1>1. Ready(i, e) /\ rows' = Append(rows, r) /\ Move(i, e, "stored") /\ UNCHANGED <<clock, overlapped>>
  BY DEF Insert, Ready
<1>2. r \in Rows /\ r.event = e /\ r.prev = req[i][e].prev /\ r.time = req[i][e].time /\ r.time \in Nat
  <2>1. req[i][e] \in Requests
    BY DEF TypeOK
  <2> QED
    BY <2>1 DEF Requests, Rows
<1> HIDE DEF r
<1>3. /\ Len(rows) \in Nat /\ Len(rows') = Len(rows) + 1
      /\ DOMAIN rows = 1..Len(rows) /\ DOMAIN rows' = 1..Len(rows) + 1
      /\ \A k \in 1..Len(rows) : rows'[k] = rows[k]
      /\ rows'[Len(rows) + 1] = r
  BY <1>0, <1>1, <1>2, Appended
<1>4. \A k \in DOMAIN rows' : k = Len(rows) + 1 \/ (k \in DOMAIN rows /\ rows'[k] = rows[k])
  BY <1>3
<1>5. /\ ~Ready(i, e)'
      /\ \A j \in Instance, d \in Event : j # i \/ d # e => req'[j][d] = req[j][d]
  BY <1>0, <1>1, Moved DEF Ready
<1>6. \A j \in Instance, d \in Event : Ready(j, d)' => Ready(j, d) /\ req'[j][d] = req[j][d] /\ (j # i \/ d # e)
  BY <1>5 DEF Ready
<1>7. \A a \in DOMAIN rows' : rows'[a].time <= clock'
  <2>1. r.time <= clock
    BY <1>1, <1>2 DEF ChainInv
  <2> QED
    BY <1>1, <1>3, <1>4, <2>1 DEF ChainInv
<1>8. \A j \in Instance, d \in Event : Ready(j, d)' => req'[j][d].time <= clock'
  BY <1>1, <1>6 DEF ChainInv
<1>9. ASSUME NEW f \in File, f \notin overlapped' PROVE ChainOf(f)'
  <2>1. ChainOf(f)
    BY <1>1, <1>9 DEF ChainInv
  <2>2. f = FileOf[e] =>
          /\ \A a \in DOMAIN rows : FileOf[rows[a].event] = f => rows[a].time < r.time
          /\ r.prev # None => Follows(rows, f, r.prev, Len(rows))
    BY <1>1, <1>2, <2>1 DEF ChainOf
  <2>3. /\ \A x, n : n \in 0..Len(rows) => (Follows(rows, f, x, n) => Follows(rows', f, x, n))
        /\ \A x : Follows(rows, f, x, Len(rows)) /\ f # FileOf[e] => Follows(rows', f, x, Len(rows'))
    BY <1>0, <1>1, <1>2, <1>3, FollowsAppended
  <2>4. ASSUME NEW a \in DOMAIN rows', NEW b \in DOMAIN rows', a < b,
               FileOf[rows'[a].event] = f, FileOf[rows'[b].event] = f
        PROVE  rows'[a].time < rows'[b].time
    <3>1. a \in DOMAIN rows /\ rows'[a] = rows[a]
      BY <1>3, <1>4, <2>4
    <3>2. CASE b \in DOMAIN rows
      <4>1. rows'[b] = rows[b]
        BY <1>3, <3>2
      <4> QED
        BY <2>1, <2>4, <3>1, <3>2, <4>1 DEF ChainOf
    <3>3. CASE b = Len(rows) + 1
      BY <1>2, <1>3, <2>2, <2>4, <3>1, <3>3
    <3> QED
      BY <1>4, <3>2, <3>3
  <2>5. ASSUME NEW k \in DOMAIN rows', FileOf[rows'[k].event] = f, rows'[k].prev # None
        PROVE  Follows(rows', f, rows'[k].prev, k - 1)
    <3>1. CASE k \in DOMAIN rows
      <4>1. rows'[k] = rows[k] /\ k - 1 \in 0..Len(rows)
        BY <1>3, <3>1
      <4>2. Follows(rows, f, rows[k].prev, k - 1)
        BY <2>1, <2>5, <3>1, <4>1 DEF ChainOf
      <4> QED
        BY <2>3, <4>1, <4>2
    <3>2. CASE k = Len(rows) + 1
      <4>1. rows'[k] = r /\ k - 1 = Len(rows) /\ k - 1 \in 0..Len(rows)
        BY <1>3, <3>2
      <4>2. Follows(rows, f, r.prev, Len(rows))
        BY <1>2, <2>2, <2>5, <4>1
      <4> QED
        BY <2>3, <4>1, <4>2
    <3> QED
      BY <1>4, <3>1, <3>2
  <2>6. ASSUME NEW j \in Instance, NEW d \in Event, Ready(j, d)', FileOf[d] = f
        PROVE  /\ \A a \in DOMAIN rows' : FileOf[rows'[a].event] = f => rows'[a].time < req'[j][d].time
               /\ req'[j][d].prev # None => Follows(rows', f, req'[j][d].prev, Len(rows'))
    <3>1. Ready(j, d) /\ req'[j][d] = req[j][d] /\ (j # i \/ d # e)
      BY <1>6, <2>6
    <3>2. f # FileOf[e]
      BY <1>1, <2>1, <2>6, <3>1 DEF ChainOf
    <3>3. /\ \A a \in DOMAIN rows : FileOf[rows[a].event] = f => rows[a].time < req[j][d].time
          /\ req[j][d].prev # None => Follows(rows, f, req[j][d].prev, Len(rows))
      BY <2>1, <2>6, <3>1 DEF ChainOf
    <3> QED
      BY <1>2, <1>3, <1>4, <2>3, <3>1, <3>2, <3>3
  <2>7. \A j, k \in Instance, c, d \in Event :
          Ready(j, c)' /\ Ready(k, d)' /\ FileOf[c] = f /\ FileOf[d] = f => j = k /\ c = d
    BY <1>6, <2>1 DEF ChainOf
  <2> QED
    BY <2>4, <2>5, <2>6, <2>7 DEF ChainOf
<1> QED
  BY <1>7, <1>8, <1>9 DEF ChainInv

LEMMA ChainStep == TypeOK /\ ChainInv /\ [Next]_vars => ChainInv'
<1> SUFFICES ASSUME TypeOK, ChainInv, [Next]_vars PROVE ChainInv'
  OBVIOUS
<1>a. Steps = {"idle", "ready", "stored", "announced", "done"}
  BY DEF Steps
<1>1. ASSUME UNCHANGED <<req, rows, clock, overlapped>> PROVE ChainInv'
  BY <1>1, ChainKept
<1>2. ASSUME NEW i \in Instance, NEW e \in Event,
             FindsDuplicate(i, e) \/ InsertFails(i, e) \/ Announce(i, e) \/ AnnounceFails(i, e) \/ Remember(i, e)
      PROVE  ChainInv'
  <2>1. PICK step \in {"done", "announced"} : Move(i, e, step)
    BY <1>2 DEF FindsDuplicate, InsertFails, Announce, AnnounceFails, Remember
  <2>2. UNCHANGED <<rows, clock, overlapped>>
    BY <1>2 DEF FindsDuplicate, InsertFails, Announce, AnnounceFails, Remember
  <2>3. req'[i][e].at = step /\ \A j \in Instance, d \in Event : j # i \/ d # e => req'[j][d] = req[j][d]
    BY <1>a, <2>1, Moved
  <2>4. \A j \in Instance, d \in Event : Ready(j, d)' => req'[j][d] = req[j][d]
    BY <2>3 DEF Ready
  <2> QED
    BY <2>2, <2>4, ChainKept
<1>3. ASSUME NEW i \in Instance, Restart(i) PROVE ChainInv'
  <2>1. UNCHANGED <<rows, clock, overlapped>>
    BY <1>3 DEF Restart
  <2>2. \A j \in Instance, d \in Event : Ready(j, d)' => req'[j][d] = req[j][d]
    <3>1. req \in [Instance -> [Event -> Requests]]
      BY DEF TypeOK
    <3>2. \A d \in Event : [req[i][d] EXCEPT !.at = "done"].at = "done"
      BY <3>1 DEF Requests
    <3> QED
      BY <1>3, <3>1, <3>2 DEF Restart, Ready
  <2> QED
    BY <2>1, <2>2, ChainKept
<1>4. ASSUME NEW i \in Instance, Listen(i) \/ Break(i) PROVE ChainInv'
  BY <1>1, <1>4 DEF Listen, Take, Forward, FetchFails, Reconnect, Break, ingestVars
<1>5. ASSUME NEW c \in Client, Follow(c) PROVE ChainInv'
  BY <1>1, <1>5 DEF Follow, Deliver, Subscribe, Receive, SkipAhead, Close, ingestVars
<1>6. CASE UNCHANGED vars
  BY <1>1, <1>6 DEF vars
<1> QED
  BY <1>2, <1>3, <1>4, <1>5, <1>6, ChainPrepares, ChainInserts DEF Next, Arrive, Handle

\* A change is linked to the snapshot of the change of its file stored right before
\* it, or to none, unless two requests for the file were handled at one time.
THEOREM SnapshotsChained == Spec => []Chained
<1>1. ASSUME TypeOK, ChainInv PROVE Chained
  <2> SUFFICES ASSUME NEW k \in DOMAIN rows, FileOf[rows[k].event] \notin overlapped, rows[k].prev # None
               PROVE  Follows(rows, FileOf[rows[k].event], rows[k].prev, k - 1)
    BY DEF Chained, Follows
  <2>1. FileOf[rows[k].event] \in File
    <3>1. rows[k] \in Rows
      BY <1>1, ElementOfSeq DEF TypeOK
    <3> QED
      BY <3>1, RealtimeAssumption DEF Rows
  <2> QED
    BY <1>1, <2>1 DEF ChainInv, ChainOf
<1> QED
  BY <1>1, TypeInit, TypeStep, ChainInit, ChainStep, PTL DEF Spec

-----------------------------------------------------------------------------
(* How often an event is broadcast. *)

LEMMA TimesIn ==
  ASSUME NEW S, NEW s \in Seq(S), NEW e
  PROVE  /\ IsFiniteSet({k \in DOMAIN s : s[k] = e}) /\ Times(e, s) \in Nat
         /\ e \notin Items(s) => Times(e, s) = 0
<1>1. Len(s) \in Nat /\ DOMAIN s = 1..Len(s)
  BY LenProperties
<1>2. IsFiniteSet(1..Len(s))
  BY <1>1, FS_Interval
<1>3. IsFiniteSet({k \in DOMAIN s : s[k] = e})
  BY <1>1, <1>2, FS_Subset
<1>4. Times(e, s) \in Nat
  BY <1>3, FS_CardinalityType DEF Times
<1>5. ASSUME e \notin Items(s) PROVE Times(e, s) = 0
  <2>1. {k \in DOMAIN s : s[k] = e} = {}
    BY <1>5 DEF Items
  <2> QED
    BY <2>1, FS_EmptySet DEF Times
<1> QED
  BY <1>3, <1>4, <1>5

LEMMA TimesAppended ==
  ASSUME NEW S, NEW s \in Seq(S), NEW x \in S, NEW e
  PROVE  Times(e, Append(s, x)) = IF x = e THEN Times(e, s) + 1 ELSE Times(e, s)
<1> DEFINE t == Append(s, x)
           A == {k \in DOMAIN s : s[k] = e}
           B == {k \in DOMAIN t : t[k] = e}
           n == Len(s) + 1
<1>1. /\ Len(s) \in Nat /\ DOMAIN s = 1..Len(s) /\ DOMAIN t = 1..Len(s) + 1
      /\ \A k \in 1..Len(s) : t[k] = s[k]
      /\ t[Len(s) + 1] = x
  BY Appended
<1>2. IsFiniteSet(A)
  BY TimesIn
<1> HIDE DEF t
<1>3. B = IF x = e THEN A \union {n} ELSE A
  <2>1. 1..Len(s) + 1 = (1..Len(s)) \union {n}
    BY <1>1
  <2>2. n \notin 1..Len(s)
    BY <1>1
  <2> QED
    BY <1>1, <2>1, <2>2
<1>4. n \notin A
  BY <1>1
<1> HIDE DEF A, B, n
<1>5. Cardinality(A \union {n}) = Cardinality(A) + 1
  BY <1>2, <1>4, FS_AddElement
<1>6. Cardinality(B) = IF x = e THEN Cardinality(A) + 1 ELSE Cardinality(A)
  BY <1>3, <1>5
<1> QED
  BY <1>6 DEF Times, A, B, t

Bit(b) == IF b THEN 1 ELSE 0

\* An event waits to be broadcast by its handler, and in the inbox and the hands
\* of the listener.
Waits(i, e) == req[i][e].at = "stored"
Told(i, e) == e \in Items(inbox[i])
Fetches(i, e) == fetching[i] = e

\* What was broadcast and what may still be.  Where the ring knew in time, what
\* the listener is told has not been broadcast, or it will find it in the ring.
OnceAt(i, e) ==
  /\ Times(e, sent[i]) + Bit(Waits(i, e)) + Bit(Told(i, e)) + Bit(Fetches(i, e)) <= 2
  /\ ~(Told(i, e) /\ Fetches(i, e))
  /\ e \notin late[i] =>
       /\ Times(e, sent[i]) + Bit(Waits(i, e)) + Bit(Fetches(i, e)) <= 1
       /\ Told(i, e) /\ Times(e, sent[i]) # 0 => Claimed(i, e)

NoRepeat(s) == \A a, b \in DOMAIN s : s[a] = s[b] => a = b

OnceInv == \A i \in Instance : NoRepeat(inbox[i]) /\ \A e \in Event : OnceAt(i, e)

LEMMA OnceInit == Init => OnceInv
<1> SUFFICES ASSUME Init, NEW i \in Instance PROVE NoRepeat(inbox[i]) /\ \A e \in Event : OnceAt(i, e)
  BY DEF OnceInv
<1>1. inbox[i] = <<>> /\ sent[i] = <<>> /\ fetching[i] = None
  BY DEF Init
<1>2. NoRepeat(inbox[i])
  BY <1>1 DEF NoRepeat
<1>3. ASSUME NEW e \in Event PROVE OnceAt(i, e)
  <2>1. ~Waits(i, e)
    BY DEF Init, Idle, Waits
  <2>2. ~Told(i, e) /\ ~Fetches(i, e)
    BY <1>1, Nothing, RealtimeAssumption DEF Told, Fetches
  <2>3. Times(e, sent[i]) = 0
    BY <1>1, TimesIn, EmptySeq, Nothing
  <2> QED
    BY <2>1, <2>2, <2>3 DEF OnceAt, Bit
<1> QED
  BY <1>2, <1>3

\* A step that broadcasts nothing and adds nothing that waits to be.
LEMMA OnceFewer ==
  ASSUME NEW i \in Instance, NEW e \in Event, OnceAt(i, e),
         Times(e, sent[i]) \in Nat,
         Times(e, sent'[i]) = Times(e, sent[i]),
         Waits(i, e)' => Waits(i, e), Told(i, e)' => Told(i, e), Fetches(i, e)' => Fetches(i, e),
         e \in late[i] => e \in late'[i],
         Told(i, e)' /\ Claimed(i, e) => Claimed(i, e)'
  PROVE  OnceAt(i, e)'
<1> DEFINE t == Times(e, sent[i])
<1>1. t \in Nat
  OBVIOUS
<1>2. t + Bit(Waits(i, e)') + Bit(Told(i, e)') + Bit(Fetches(i, e)') <= 2
  BY <1>1 DEF OnceAt, Bit
<1>3. e \notin late'[i] =>
        /\ t + Bit(Waits(i, e)') + Bit(Fetches(i, e)') <= 1
        /\ Told(i, e)' /\ t # 0 => Claimed(i, e)'
  BY <1>1 DEF OnceAt, Bit
<1> HIDE DEF t
<1>4. ~(Told(i, e)' /\ Fetches(i, e)')
  BY DEF OnceAt
<1> QED
  BY <1>2, <1>3, <1>4 DEF OnceAt, Bit, t

\* A message is added to an inbox that does not hold it.
LEMMA RepeatsNot ==
  ASSUME NEW s \in Seq(Event), NoRepeat(s)
  PROVE  /\ \A e \in Event : e \notin Items(s) => NoRepeat(Append(s, e))
         /\ s # <<>> => NoRepeat(Tail(s)) /\ Head(s) \notin Items(Tail(s))
<1>1. ASSUME NEW e \in Event, e \notin Items(s) PROVE NoRepeat(Append(s, e))
  <2> DEFINE t == Append(s, e)
  <2>1. /\ Len(s) \in Nat /\ DOMAIN s = 1..Len(s) /\ DOMAIN t = 1..Len(s) + 1
        /\ \A k \in 1..Len(s) : t[k] = s[k]
        /\ t[Len(s) + 1] = e
    BY Appended
  <2> HIDE DEF t
  <2>2. \A k \in DOMAIN t : k = Len(s) + 1 \/ (k \in DOMAIN s /\ t[k] = s[k] /\ t[k] # e)
    BY <1>1, <2>1 DEF Items
  <2>3. NoRepeat(t)
    BY <2>1, <2>2 DEF NoRepeat
  <2> QED
    BY <2>3 DEF t
<1>2. ASSUME s # <<>> PROVE NoRepeat(Tail(s)) /\ Head(s) \notin Items(Tail(s))
  <2> DEFINE t == Tail(s)
  <2>1. /\ Head(s) = s[1] /\ 1 \in DOMAIN s
        /\ \A k \in DOMAIN t : k + 1 \in DOMAIN s /\ t[k] = s[k + 1] /\ k \in Nat \ {0}
    BY <1>2, Taken
  <2> HIDE DEF t
  <2>2. \A a, b \in DOMAIN t : t[a] = t[b] => a = b
    <3> SUFFICES ASSUME NEW a \in DOMAIN t, NEW b \in DOMAIN t, t[a] = t[b] PROVE a = b
      OBVIOUS
    <3>1. a + 1 = b + 1
      BY <2>1 DEF NoRepeat
    <3> QED
      BY <2>1, <3>1
  <2>3. \A k \in DOMAIN t : t[k] # s[1]
    <3> SUFFICES ASSUME NEW k \in DOMAIN t, t[k] = s[1] PROVE FALSE
      OBVIOUS
    <3>1. k + 1 = 1
      BY <2>1 DEF NoRepeat
    <3> QED
      BY <2>1, <3>1
  <2>4. NoRepeat(t) /\ Head(s) \notin Items(t)
    BY <2>1, <2>2, <2>3 DEF NoRepeat, Items
  <2> QED
    BY <2>4 DEF t
<1> QED
  BY <1>1, <1>2

LEMMA OnceStep == TypeOK /\ StoredInv /\ OnceInv /\ [Next]_vars => OnceInv'
<1> SUFFICES ASSUME TypeOK, StoredInv, OnceInv, [Next]_vars, NEW k \in Instance
             PROVE  NoRepeat(inbox'[k]) /\ \A d \in Event : OnceAt(k, d)'
  BY DEF OnceInv, OnceAt, Waits, Told, Fetches, Claimed
<1>0. /\ req \in [Instance -> [Event -> Requests]]
      /\ sent \in [Instance -> Seq(Event)] /\ recent \in [Instance -> Seq(Event)]
      /\ inbox \in [Instance -> Seq(Event)] /\ late \in [Instance -> SUBSET Event]
      /\ fetching \in [Instance -> Event \union {None}] /\ None \notin Event
      /\ NoRepeat(inbox[k]) /\ \A d \in Event : OnceAt(k, d) /\ Times(d, sent[k]) \in Nat
  <2>1. \A d \in Event : Times(d, sent[k]) \in Nat
    BY TimesIn DEF TypeOK
  <2> QED
    BY <2>1, RealtimeAssumption DEF TypeOK, OnceInv
<1>a. Steps = {"idle", "ready", "stored", "announced", "done"}
  BY DEF Steps
<1>n. NoRepeat(<<>>)
  BY DEF NoRepeat
\* A step of another instance, or one that broadcasts nothing here.
<1>b. ASSUME inbox'[k] = inbox[k] \/ inbox'[k] = <<>>, fetching'[k] = fetching[k] \/ fetching'[k] = None,
             UNCHANGED <<sent, late>>,
             \A d \in Event : /\ Waits(k, d)' => Waits(k, d)
                              /\ Claimed(k, d) => Claimed(k, d)'
      PROVE  NoRepeat(inbox'[k]) /\ \A d \in Event : OnceAt(k, d)'
  <2>1. \A d \in Event : (Told(k, d)' => Told(k, d)) /\ (Fetches(k, d)' => Fetches(k, d))
    BY <1>0, <1>b, Nothing DEF Told, Fetches
  <2>2. \A d \in Event : OnceAt(k, d)'
    BY <1>0, <1>b, <2>1, OnceFewer
  <2> QED
    BY <1>0, <1>b, <1>n, <2>2
<1>1. CASE UNCHANGED vars
  BY <1>1, <1>b DEF vars, Waits, Claimed
\* Requests.
<1>2. ASSUME NEW i \in Instance, NEW e \in Event,
             FindsDuplicate(i, e) \/ InsertFails(i, e) \/ AnnounceFails(i, e)
      PROVE  NoRepeat(inbox'[k]) /\ \A d \in Event : OnceAt(k, d)'
  <2>1. Move(i, e, "done") /\ req[i][e].at # "announced" /\ UNCHANGED <<recent, inbox, fetching, late, sent>>
    BY <1>2 DEF FindsDuplicate, InsertFails, AnnounceFails, listenVars
  <2>2. req'[i][e].at = "done" /\ \A j \in Instance, d \in Event : j # i \/ d # e => req'[j][d] = req[j][d]
    BY <1>a, <2>1, Moved
  <2> QED
    BY <1>b, <2>1, <2>2 DEF Waits, Claimed
<1>3. ASSUME NEW i \in Instance, NEW e \in Event, Prepare(i, e)
      PROVE  NoRepeat(inbox'[k]) /\ \A d \in Event : OnceAt(k, d)'
  <2>1. /\ req[i][e].at = "idle" /\ req'[i][e].at = "ready"
        /\ \A j \in Instance, d \in Event : j # i \/ d # e => req'[j][d].at = req[j][d].at
    BY <1>0, <1>3 DEF Prepare
  <2>2. UNCHANGED <<recent, inbox, fetching, late, sent>>
    BY <1>3 DEF Prepare, listenVars
  <2> QED
    BY <1>b, <2>1, <2>2 DEF Waits, Claimed
\* A new row has been broadcast nowhere.
<1>4. ASSUME NEW i \in Instance, NEW e \in Event, Insert(i, e)
      PROVE  NoRepeat(inbox'[k]) /\ \A d \in Event : OnceAt(k, d)'
  <2>1. /\ ~InRows(e) /\ Move(i, e, "stored") /\ req[i][e].at = "ready"
        /\ UNCHANGED <<sent, recent, fetching, late>>
    BY <1>4 DEF Insert, InRows
  <2>2. \A d \in Event : d # e => req'[k][d] = req[k][d]
    BY <1>a, <2>1, Moved
  <2>3. e \notin Items(sent[k]) /\ ~Told(k, e) /\ ~Fetches(k, e)
    BY <2>1 DEF StoredInv, Told, Fetches
  <2>4. inbox'[k] = inbox[k] \/ inbox'[k] = Append(inbox[k], e)
    BY <1>4 DEF Insert, Notify
  <2>5. Items(Append(inbox[k], e)) = Items(inbox[k]) \union {e}
    BY <1>0, Appended
  <2>6. NoRepeat(inbox'[k])
    <3>1. NoRepeat(Append(inbox[k], e))
      BY <1>0, <2>3, RepeatsNot DEF Told
    <3> QED
      BY <1>0, <2>4, <3>1
  <2>7. ASSUME NEW d \in Event, d # e PROVE OnceAt(k, d)'
    <3>1. Items(inbox'[k]) \subseteq Items(inbox[k]) \union {e}
      BY <2>4, <2>5
    <3> QED
      BY <1>0, <2>1, <2>2, <2>7, <3>1, OnceFewer DEF Waits, Told, Fetches, Claimed
  <2>8. OnceAt(k, e)'
    <3>1. Times(e, sent'[k]) = 0
      BY <1>0, <2>1, <2>3, TimesIn
    <3>2. ~Fetches(k, e)'
      BY <2>1, <2>3 DEF Fetches
    <3> QED
      BY <3>1, <3>2 DEF OnceAt, Bit
  <2> QED
    BY <2>6, <2>7, <2>8
<1>5. ASSUME NEW i \in Instance, NEW e \in Event, Announce(i, e)
      PROVE  NoRepeat(inbox'[k]) /\ \A d \in Event : OnceAt(k, d)'
  <2>1. /\ req[i][e].at = "stored" /\ req'[i][e].at = "announced"
        /\ \A j \in Instance, d \in Event : j # i \/ d # e => req'[j][d] = req[j][d]
        /\ UNCHANGED <<recent, inbox, fetching, late>>
    BY <1>5, <1>a, Moved DEF Announce, listenVars
  <2>2. \A j \in Instance : sent'[j] = IF j = i THEN Append(sent[i], e) ELSE sent[j]
    BY <1>0, <1>5 DEF Announce, Broadcast
  <2>3. \A d \in Event : Times(d, Append(sent[i], e)) = IF d = e THEN Times(d, sent[i]) + 1 ELSE Times(d, sent[i])
    BY <1>0, TimesAppended
  <2>4. ASSUME NEW d \in Event, k # i \/ d # e PROVE OnceAt(k, d)'
    <3>1. Times(d, sent'[k]) = Times(d, sent[k])
      BY <2>2, <2>3, <2>4
    <3> QED
      BY <1>0, <2>1, <2>4, <3>1, OnceFewer DEF Waits, Told, Fetches, Claimed
  <2>5. CASE k = i
    <3>1. /\ Times(e, sent'[k]) = Times(e, sent[k]) + 1
          /\ Waits(k, e) /\ ~Waits(k, e)' /\ Claimed(k, e)'
          /\ Told(k, e)' = Told(k, e) /\ Fetches(k, e)' = Fetches(k, e) /\ late'[k] = late[k]
      BY <2>1, <2>2, <2>3, <2>5 DEF Waits, Claimed, Told, Fetches
    <3>2. OnceAt(k, e)'
      BY <1>0, <3>1 DEF OnceAt, Bit
    <3> QED
      BY <1>0, <2>1, <2>4, <3>2
  <2> QED
    BY <1>0, <2>1, <2>4, <2>5
<1>6. ASSUME NEW i \in Instance, NEW e \in Event, Remember(i, e)
      PROVE  NoRepeat(inbox'[k]) /\ \A d \in Event : OnceAt(k, d)'
  <2>1. /\ req[i][e].at = "announced" /\ req'[i][e].at = "done"
        /\ \A j \in Instance, d \in Event : j # i \/ d # e => req'[j][d] = req[j][d]
        /\ UNCHANGED <<sent, inbox, fetching, late>>
    BY <1>6, <1>a, Moved DEF Remember, listenVars
  <2>2. Items(Append(recent[i], e)) = Items(recent[i]) \union {e}
    BY <1>0, Appended
  <2>3. /\ \A j \in Instance : Items(recent[j]) \subseteq Items(recent'[j])
        /\ e \in Items(recent'[i])
    <3>1. recent'[i] = Append(recent[i], e) /\ \A j \in Instance : j # i => recent'[j] = recent[j]
      BY <1>0, <1>6 DEF Remember
    <3> QED
      BY <2>2, <3>1
  <2> QED
    BY <1>b, <2>1, <2>3 DEF Waits, Claimed
\* The listener.
<1>7. ASSUME NEW i \in Instance, Take(i)
      PROVE  NoRepeat(inbox'[k]) /\ \A d \in Event : OnceAt(k, d)'
  <2>1. /\ fetching[i] = None /\ inbox[i] # <<>> /\ UNCHANGED <<req, sent, recent>>
    BY <1>7 DEF Take, ingestVars
  <2>2. CASE k # i
    <3>1. inbox'[k] = inbox[k] /\ fetching'[k] = fetching[k] /\ late'[k] = late[k]
      BY <1>0, <1>7, <2>2 DEF Take
    <3>2. \A d \in Event : OnceAt(k, d)'
      BY <1>0, <2>1, <3>1, OnceFewer DEF Waits, Told, Fetches, Claimed
    <3> QED
      BY <1>0, <3>1, <3>2
  <2>3. CASE k = i
    <3>0. PICK x \in Event : x = Head(inbox[k])
      BY <1>0, <2>1, <2>3, Taken
    <3>1. x \in Items(inbox[k]) /\ Items(Tail(inbox[k])) \subseteq Items(inbox[k])
      BY <1>0, <2>1, <2>3, <3>0, Taken
    <3>2. NoRepeat(Tail(inbox[k])) /\ x \notin Items(Tail(inbox[k]))
      BY <1>0, <2>1, <2>3, <3>0, RepeatsNot
    <3>3. /\ inbox'[k] = Tail(inbox[k]) /\ late[k] \subseteq late'[k]
          /\ fetching'[k] = IF Skips(k, x) THEN None ELSE x
          /\ x \notin Ring(k) /\ (Waits(k, x) \/ Claimed(k, x)) => x \in late'[k]
      BY <1>0, <1>7, <2>3, <3>0 DEF Take, Waits, Claimed
    <3>4. /\ \A d : Told(k, d)' => Told(k, d)
          /\ \A d : Waits(k, d)' = Waits(k, d) /\ Claimed(k, d)' = Claimed(k, d)
          /\ sent'[k] = sent[k]
      BY <2>1, <3>1, <3>3 DEF Told, Waits, Claimed
    <3>5. ASSUME NEW d \in Event, Skips(k, x) \/ d # x PROVE OnceAt(k, d)'
      <4>1. ~Fetches(k, d)'
        BY <1>0, <3>3, <3>5 DEF Fetches
      <4> QED
        BY <1>0, <3>3, <3>4, <4>1, OnceFewer
    <3>6. ASSUME ~Skips(k, x) PROVE OnceAt(k, x)'
      <4>1. /\ Times(x, sent'[k]) = Times(x, sent[k]) /\ Times(x, sent[k]) \in Nat /\ OnceAt(k, x)
            /\ Waits(k, x)' = Waits(k, x) /\ Told(k, x) /\ ~Told(k, x)'
            /\ ~Fetches(k, x) /\ Fetches(k, x)'
        BY <1>0, <2>1, <2>3, <3>1, <3>2, <3>3, <3>4, <3>6 DEF Told, Fetches
      <4>2. x \notin late'[k] => x \notin late[k] /\ ~Waits(k, x) /\ ~Claimed(k, x)
        BY <3>3, <3>6 DEF Skips
      <4> QED
        BY <4>1, <4>2 DEF OnceAt, Bit
    <3> QED
      BY <3>1, <3>2, <3>3, <3>5, <3>6
  <2> QED
    BY <2>2, <2>3
<1>8. ASSUME NEW i \in Instance, Forward(i)
      PROVE  NoRepeat(inbox'[k]) /\ \A d \in Event : OnceAt(k, d)'
  <2>0. PICK x \in Event : x = fetching[i]
    BY <1>0, <1>8 DEF Forward
  <2>1. UNCHANGED <<req, recent, inbox, late>>
    BY <1>8 DEF Forward, ingestVars
  <2>2. \A j \in Instance :
          /\ sent'[j] = IF j = i THEN Append(sent[i], x) ELSE sent[j]
          /\ fetching'[j] = IF j = i THEN None ELSE fetching[j]
    BY <1>0, <1>8, <2>0 DEF Forward, Broadcast
  <2>3. \A d \in Event : Times(d, Append(sent[i], x)) = IF x = d THEN Times(d, sent[i]) + 1 ELSE Times(d, sent[i])
    BY <1>0, <2>1, TimesAppended
  <2>4. ASSUME NEW d \in Event, k # i \/ d # x PROVE OnceAt(k, d)'
    <3>1. Times(d, sent'[k]) = Times(d, sent[k])
      BY <2>2, <2>3, <2>4
    <3>2. Fetches(k, d)' => Fetches(k, d)
      BY <1>0, <2>2 DEF Fetches
    <3> QED
      BY <1>0, <2>1, <3>1, <3>2, OnceFewer DEF Waits, Told, Claimed
  <2>5. CASE k = i
    <3>1. /\ Times(x, sent'[k]) = Times(x, sent[k]) + 1 /\ Times(x, sent[k]) \in Nat /\ OnceAt(k, x)
          /\ Fetches(k, x) /\ ~Fetches(k, x)'
          /\ Told(k, x)' = Told(k, x) /\ Waits(k, x)' = Waits(k, x) /\ late'[k] = late[k]
      BY <1>0, <2>0, <2>1, <2>2, <2>3, <2>5 DEF Waits, Told, Fetches
    <3>2. OnceAt(k, x)'
      BY <3>1 DEF OnceAt, Bit
    <3> QED
      BY <1>0, <2>1, <2>4, <3>2
  <2> QED
    BY <1>0, <2>1, <2>4, <2>5
<1>9. ASSUME NEW i \in Instance, FetchFails(i) \/ Reconnect(i) \/ Break(i)
      PROVE  NoRepeat(inbox'[k]) /\ \A d \in Event : OnceAt(k, d)'
  <2>1. UNCHANGED <<req, sent, recent, late>>
    BY <1>9 DEF FetchFails, Reconnect, Break, ingestVars
  <2>2. inbox'[k] \in {inbox[k], <<>>} /\ fetching'[k] \in {fetching[k], None}
    BY <1>0, <1>9 DEF FetchFails, Reconnect, Break
  <2> QED
    BY <1>b, <2>1, <2>2 DEF Waits, Claimed
<1>10. ASSUME NEW i \in Instance, Restart(i)
       PROVE  NoRepeat(inbox'[k]) /\ \A d \in Event : OnceAt(k, d)'
  <2>1. CASE k = i
    <3>1. inbox'[k] = <<>> /\ sent'[k] = <<>> /\ fetching'[k] = None
      BY <1>0, <1>10, <2>1 DEF Restart
    <3>2. ASSUME NEW d \in Event PROVE OnceAt(k, d)'
      <4>1. Times(d, sent'[k]) = 0 /\ ~Told(k, d)' /\ ~Fetches(k, d)'
        BY <1>0, <3>1, TimesIn, EmptySeq, Nothing DEF Told, Fetches
      <4> QED
        BY <4>1 DEF OnceAt, Bit
    <3> QED
      BY <1>n, <3>1, <3>2
  <2>2. CASE k # i
    <3>1. /\ inbox'[k] = inbox[k] /\ sent'[k] = sent[k] /\ fetching'[k] = fetching[k]
          /\ late'[k] = late[k] /\ recent'[k] = recent[k] /\ req'[k] = req[k]
      BY <1>0, <1>10, <2>2 DEF Restart
    <3>2. \A d \in Event : OnceAt(k, d)'
      BY <1>0, <3>1, OnceFewer DEF Waits, Told, Fetches, Claimed
    <3> QED
      BY <1>0, <3>1, <3>2
  <2> QED
    BY <2>1, <2>2
\* Subscribers.
<1>11. ASSUME NEW c \in Client, Follow(c)
       PROVE  NoRepeat(inbox'[k]) /\ \A d \in Event : OnceAt(k, d)'
  <2>1. UNCHANGED <<req, sent, recent, inbox, fetching, late>>
    BY <1>11 DEF Follow, Deliver, Subscribe, Receive, SkipAhead, Close, ingestVars, listenVars
  <2> QED
    BY <1>b, <2>1 DEF Waits, Claimed
<1> QED
  BY <1>1, <1>2, <1>3, <1>4, <1>5, <1>6, <1>7, <1>8, <1>9, <1>10, <1>11
     DEF Next, Arrive, Handle, Listen

\* An instance broadcasts a row once, twice only where the ring could not help, and
\* never three times.
THEOREM BroadcastOnce == Spec => []OnceEach
<1>1. ASSUME TypeOK, OnceInv PROVE OnceEach
  <2> SUFFICES ASSUME NEW i \in Instance, NEW e \in Event
               PROVE  Times(e, sent[i]) <= IF e \in late[i] THEN 2 ELSE 1
    BY DEF OnceEach
  <2>1. Times(e, sent[i]) \in Nat /\ OnceAt(i, e)
    BY <1>1, TimesIn DEF TypeOK, OnceInv
  <2> QED
    BY <2>1 DEF OnceAt, Bit
<1> QED
  BY <1>1, TypeInit, TypeStep, StoredInit, StoredStep, OnceInit, OnceStep, PTL DEF Spec

=============================================================================
