------------------------------ MODULE Realtime ------------------------------
(***************************************************************************)
(* The realtime feed.  An instance of the control plane that ingests a     *)
(* change stores a row and broadcasts it to its own subscribers; Postgres  *)
(* notifies the listener of every instance, which broadcasts the row too   *)
(* unless it finds it in a ring of events this instance has just           *)
(* broadcast.  A subscriber reads the broadcast channel of one instance    *)
(* and is told of a gap when it has fallen behind.                         *)
(*                                                                         *)
(* An event stands for its message.  The requests that are refused for     *)
(* their form (schema version, key) change nothing and are left out; the   *)
(* clocks of the instances are taken to agree.                             *)
(***************************************************************************)
EXTENDS Naturals, Sequences, FiniteSets

CONSTANTS
  Event,       \* the change events
  File,        \* the files they are about
  FileOf,      \* the file of each event
  HasContent,  \* the events that carry the content of the file
  Old,         \* the events stored before, in their order
  OldPrev,     \* the previous snapshot each is linked to
  Instance,    \* the instances of the control plane
  Listening,   \* those whose broadcast mode is Postgres: they have a listener
  Client,      \* the subscribers
  Balanced,    \* the instances a subscriber may be led to
  Wanted,      \* the events that pass the filter of each subscriber
  RingSize,    \* LOCAL_EVENT_DEDUP_CAPACITY, 64 in the code
  Capacity,    \* of the broadcast channel, 256 in the code
  MaxFaults,   \* errors, restarts, reconnections and repeated requests
  None         \* no event

ASSUME RealtimeAssumption ==
  /\ FileOf \in [Event -> File]
  /\ HasContent \subseteq Event
  /\ Old \in Seq(HasContent)
  /\ \A j, k \in DOMAIN Old : Old[j] = Old[k] => j = k
  /\ OldPrev \in [DOMAIN Old -> Event \union {None}]
  /\ \A k \in DOMAIN Old : OldPrev[k] # None =>
       \E j \in 1..k - 1 :
         /\ Old[j] = OldPrev[k] /\ FileOf[Old[j]] = FileOf[Old[k]]
         /\ \A m \in j + 1..k - 1 : FileOf[Old[m]] # FileOf[Old[k]]
  /\ Wanted \in [Client -> SUBSET Event]
  /\ Balanced \subseteq Instance /\ Listening \subseteq Instance
  /\ RingSize \in Nat \ {0} /\ Capacity \in Nat \ {0} /\ MaxFaults \in Nat
  /\ None \notin Event /\ None \notin Instance

VARIABLES
  req,       \* the request of each event at each instance
  rows,      \* change_events, in the order of insertion
  clock,     \* counts the time stamps given to rows
  sent,      \* what each instance has broadcast
  recent,    \* what each instance has put in its ring; the ring is the end of it
  listener,  \* the state of each instance's listener
  inbox,     \* the notifications its connection holds
  fetching,  \* the notification it reads the row of
  client,    \* the subscription of each client
  faults,
  missed,    \* history: the rows each listener was never told of, or failed to read
  late,      \* history: the rows each listener let through that its ring should hold
  overlapped \* history: the files two requests were handled for at one time

ingestVars == <<req, rows, clock, overlapped>>
listenVars == <<listener, inbox, fetching, missed, late>>
vars == <<req, rows, clock, sent, recent, listener, inbox, fetching, client,
          faults, missed, late, overlapped>>

-----------------------------------------------------------------------------

Steps == {"idle", "ready", "stored", "announced", "done"}

Requests == [at : Steps, prev : Event \union {None}, snap : BOOLEAN, time : Nat]

Rows == [event : Event, prev : Event \union {None}, snap : BOOLEAN, time : Nat]

Idle == [at |-> "idle", prev |-> None, snap |-> FALSE, time |-> 0]

\* A subscription: its instance, the next message to read, the messages
\* written to the socket, 0 for a gap, and the rows there were at its start.
Closed == [on |-> None, next |-> 1, got |-> <<>>, from |-> 0, since |-> 0]

Items(s) == {s[k] : k \in DOMAIN s}

\* The last n elements of s.
LastOf(s, n) == SubSeq(s, IF Len(s) > n THEN Len(s) - n + 1 ELSE 1, Len(s))

Ring(i) == Items(LastOf(recent[i], RingSize))

InHand(i, e) == req[i][e].at \notin {"idle", "done"}

\* A faulty variant of Newest: the order of the query is turned round.
Oldest(f) ==
  LET mine == {r \in Items(rows) : FileOf[r.event] = f}
      first == {r \in mine : \A s \in mine : s.time >= r.time}
  IN  IF \E r \in first : r.snap THEN (CHOOSE r \in first : r.snap).event ELSE None

\* The snapshot of the newest row of a file: ORDER BY event_time DESC LIMIT 1.
Newest(f) ==
  LET mine == {r \in Items(rows) : FileOf[r.event] = f}
      last == {r \in mine : \A s \in mine : s.time <= r.time}
  IN  IF \E r \in last : r.snap THEN (CHOOSE r \in last : r.snap).event ELSE None

-----------------------------------------------------------------------------
\* Ingest.

Fault == faults < MaxFaults /\ faults' = faults + 1

Move(i, e, step) == req' = [req EXCEPT ![i][e].at = step]

\* An agent sends each change once, and those of a file one after the other;
\* when an answer is lost or the agent restarts it may send one again, and send
\* one while an earlier request is still being handled.
InTurn(e) ==
  /\ \A j \in Instance : req[j][e].at = "idle"
  /\ \A j \in Instance, d \in Event : FileOf[d] = FileOf[e] => ~InHand(j, d)

\* The key is known: 409.
FindsDuplicate(i, e) ==
  /\ req[i][e].at = "idle"
  /\ IF InTurn(e) THEN UNCHANGED faults ELSE Fault
  /\ \E r \in Items(rows) : r.event = e
  /\ Move(i, e, "done")
  /\ UNCHANGED <<rows, clock, overlapped, sent, recent, listenVars, client>>

\* The key is new: the previous snapshot is looked up, an error counting as
\* none, the content is stored, the row being written without it when that fails, and
\* the row is given its time.
Prepare(i, e) ==
  /\ req[i][e].at = "idle"
  /\ \A r \in Items(rows) : r.event # e
  /\ \E p \in {Newest(FileOf[e]), None}, held \in {h \in BOOLEAN : h => e \in HasContent} :
       /\ IF InTurn(e) /\ p = Newest(FileOf[e]) /\ held = (e \in HasContent)
          THEN UNCHANGED faults ELSE Fault
       /\ req' = [req EXCEPT ![i][e] =
            [at |-> "ready", prev |-> p, snap |-> held, time |-> clock + 1]]
  /\ clock' = clock + 1
  /\ overlapped' = IF \E j \in Instance, d \in Event :
                        FileOf[d] = FileOf[e] /\ req[j][d].at = "ready"
                   THEN overlapped \union {FileOf[e]} ELSE overlapped
  /\ UNCHANGED <<rows, sent, recent, listenVars, client>>

\* The trigger on the table tells every listener that is listening.
Notify(e) ==
  /\ inbox' = [i \in Instance |->
       IF listener[i] = "listening" THEN Append(inbox[i], e) ELSE inbox[i]]
  /\ missed' = [i \in Instance |->
       IF listener[i] = "listening" THEN missed[i] ELSE missed[i] \union {e}]

Insert(i, e) ==
  /\ req[i][e].at = "ready"
  /\ \A r \in Items(rows) : r.event # e
  /\ rows' = Append(rows, [event |-> e, prev |-> req[i][e].prev,
                           snap |-> req[i][e].snap, time |-> req[i][e].time])
  /\ Move(i, e, "stored")
  /\ Notify(e)
  /\ UNCHANGED <<clock, overlapped, sent, recent, listener, fetching, late, client, faults>>

\* The unique key refuses the row, or the database does: 500.  A snapshot whose
\* row could not be written comes to the same, by the foreign key.
InsertFails(i, e) ==
  /\ req[i][e].at = "ready"
  /\ \/ (\E r \in Items(rows) : r.event = e) /\ UNCHANGED faults
     \/ Fault
  /\ Move(i, e, "done")
  /\ UNCHANGED <<rows, clock, overlapped, sent, recent, listenVars, client>>

Broadcast(i, e) == sent' = [sent EXCEPT ![i] = Append(@, e)]

\* The environment of the host is read and the message broadcast.
Announce(i, e) ==
  /\ req[i][e].at = "stored"
  /\ Move(i, e, "announced")
  /\ Broadcast(i, e)
  /\ UNCHANGED <<rows, clock, overlapped, recent, listenVars, client, faults>>

\* It cannot be read: 500, with the row stored and nothing broadcast.
AnnounceFails(i, e) ==
  /\ req[i][e].at = "stored"
  /\ Fault
  /\ Move(i, e, "done")
  /\ UNCHANGED <<rows, clock, overlapped, sent, recent, listenVars, client>>

Remember(i, e) ==
  /\ req[i][e].at = "announced"
  /\ Move(i, e, "done")
  /\ recent' = [recent EXCEPT ![i] = Append(@, e)]
  /\ UNCHANGED <<rows, clock, overlapped, sent, listenVars, client, faults>>

-----------------------------------------------------------------------------
\* The listener.

\* Faulty variants of Skips: the ring is not asked, or the listener counts on
\* the handler that has stored the row.
SkipsNone(i, e) == FALSE
SkipsLocal(i, e) == req[i][e].at # "idle"

\* Whether the listener leaves a row alone.
Skips(i, e) == e \in Ring(i)

Take(i) ==
  /\ fetching[i] = None /\ inbox[i] # <<>>
  /\ LET e == Head(inbox[i]) IN
     /\ fetching' = [fetching EXCEPT ![i] = IF Skips(i, e) THEN None ELSE e]
     /\ late' = IF /\ e \notin Ring(i)
                   /\ req[i][e].at \in {"stored", "announced"} \/ e \in Items(recent[i])
                THEN [late EXCEPT ![i] = @ \union {e}] ELSE late
  /\ inbox' = [inbox EXCEPT ![i] = Tail(@)]
  /\ UNCHANGED <<ingestVars, sent, recent, listener, missed, client, faults>>

Forward(i) ==
  /\ fetching[i] # None
  /\ Broadcast(i, fetching[i])
  /\ fetching' = [fetching EXCEPT ![i] = None]
  /\ UNCHANGED <<ingestVars, recent, listener, inbox, missed, late, client, faults>>

FetchFails(i) ==
  /\ fetching[i] # None
  /\ Fault
  /\ missed' = [missed EXCEPT ![i] = @ \union {fetching[i]}]
  /\ fetching' = [fetching EXCEPT ![i] = None]
  /\ UNCHANGED <<ingestVars, sent, recent, listener, inbox, late, client>>

\* The connection breaks and with it goes what it holds.  The driver connects
\* again by itself, or reports the error.
Break(i) ==
  /\ listener[i] \in {"listening", "deaf"} /\ fetching[i] = None
  /\ Fault
  /\ missed' = [missed EXCEPT ![i] = @ \union Items(inbox[i])]
  /\ inbox' = [inbox EXCEPT ![i] = <<>>]
  /\ \E s \in {listener[i], "down"} : listener' = [listener EXCEPT ![i] = s]
  /\ UNCHANGED <<ingestVars, sent, recent, fetching, late, client>>

\* After the back-off.  The outage may make LISTEN fail too: the connection is
\* kept and nothing arrives on it, until it breaks again.
Reconnect(i) ==
  /\ listener[i] = "down"
  /\ \E s \in {"listening", "deaf"} : listener' = [listener EXCEPT ![i] = s]
  /\ UNCHANGED <<ingestVars, sent, recent, inbox, fetching, missed, late, client, faults>>

-----------------------------------------------------------------------------
\* Subscribers.

\* A faulty variant of GapNotice: the client is told nothing.
NoNotice == <<>>

\* What a client that has fallen behind is sent.
GapNotice == <<0>>

\* A faulty variant of Upcoming: off by one.
Newly(i) == Len(sent[i])

\* Where a new subscription starts: past what has been broadcast.
Upcoming(i) == Len(sent[i]) + 1

Subscribe(c, i) ==
  /\ client[c].on = None
  /\ client' = [client EXCEPT ![c] =
       [on |-> i, next |-> Upcoming(i), got |-> <<>>,
        from |-> Upcoming(i), since |-> Len(rows)]]
  /\ UNCHANGED <<ingestVars, sent, recent, listenVars, faults>>

\* The channel keeps its last Capacity messages.
Lags(c) == Len(sent[client[c].on]) - client[c].next >= Capacity

Receive(c) ==
  /\ client[c].on # None
  /\ ~Lags(c) /\ client[c].next <= Len(sent[client[c].on])
  /\ client' = [client EXCEPT
       ![c].next = @ + 1,
       ![c].got = IF sent[client[c].on][client[c].next] \in Wanted[c]
                  THEN Append(@, client[c].next) ELSE @]
  /\ UNCHANGED <<ingestVars, sent, recent, listenVars, faults>>

SkipAhead(c) ==
  /\ client[c].on # None
  /\ Lags(c)
  /\ client' = [client EXCEPT
       ![c].next = Len(sent[client[c].on]) - Capacity + 1,
       ![c].got = @ \o GapNotice]
  /\ UNCHANGED <<ingestVars, sent, recent, listenVars, faults>>

\* Either side closes.
Close(c) ==
  /\ client[c].on # None
  /\ Fault
  /\ client' = [client EXCEPT ![c] = Closed]
  /\ UNCHANGED <<ingestVars, sent, recent, listenVars>>

\* An instance stops and is started again: its requests, its channel, its ring
\* and its subscriptions are gone.  A listener that cannot connect at the
\* start is not started.
Restart(i) ==
  /\ Fault
  /\ req' = [req EXCEPT ![i] = [e \in Event |->
       IF InHand(i, e) THEN [@[e] EXCEPT !.at = "done"] ELSE @[e]]]
  /\ recent' = [recent EXCEPT ![i] = <<>>]
  /\ sent' = [sent EXCEPT ![i] = <<>>]
  /\ late' = [late EXCEPT ![i] = {}]
  /\ missed' = [missed EXCEPT ![i] = @ \union Items(inbox[i]) \union ({fetching[i]} \ {None})]
  /\ inbox' = [inbox EXCEPT ![i] = <<>>]
  /\ fetching' = [fetching EXCEPT ![i] = None]
  /\ \E s \in {"listening", "gone"} :
       /\ s = "listening" => i \in Listening
       /\ listener' = [listener EXCEPT ![i] = s]
  /\ client' = [c \in Client |-> IF client[c].on = i THEN Closed ELSE client[c]]
  /\ UNCHANGED <<rows, clock, overlapped>>

-----------------------------------------------------------------------------

Init ==
  /\ req = [i \in Instance |-> [e \in Event |->
              IF e \in Items(Old) THEN [Idle EXCEPT !.at = "done"] ELSE Idle]]
  /\ rows = [k \in DOMAIN Old |->
       [event |-> Old[k], prev |-> OldPrev[k], snap |-> TRUE, time |-> k]]
  /\ clock = Len(Old)
  /\ sent = [i \in Instance |-> <<>>]
  /\ recent = [i \in Instance |-> <<>>]
  /\ listener = [i \in Instance |-> IF i \in Listening THEN "listening" ELSE "gone"]
  /\ inbox = [i \in Instance |-> <<>>]
  /\ fetching = [i \in Instance |-> None]
  /\ client = [c \in Client |-> Closed]
  /\ faults = 0
  /\ missed = [i \in Instance |-> {}]
  /\ late = [i \in Instance |-> {}]
  /\ overlapped = {}

Arrive(i, e) == FindsDuplicate(i, e) \/ Prepare(i, e)

\* One more step of the handler of a request, of a listener, of a subscription.
Handle(i, e) ==
  \/ Insert(i, e) \/ InsertFails(i, e)
  \/ Announce(i, e) \/ AnnounceFails(i, e) \/ Remember(i, e)

Listen(i) == Take(i) \/ Forward(i) \/ FetchFails(i) \/ Reconnect(i)

Deliver(c) == Receive(c) \/ SkipAhead(c)

\* A client connects to whichever instance answers, reads until the connection
\* ends, and connects again.
Follow(c) == (\E i \in Balanced : Subscribe(c, i)) \/ Deliver(c) \/ Close(c)

Next ==
  \/ \E i \in Instance, e \in Event : Arrive(i, e) \/ Handle(i, e)
  \/ \E i \in Instance : Listen(i) \/ Break(i) \/ Restart(i)
  \/ \E c \in Client : Follow(c)

Handlers == \E i \in Instance, e \in Event : Handle(i, e)

Listeners == \E i \in Instance : Listen(i)

Sockets == \E c \in Client : Deliver(c)

\* The runtime schedules the handlers, the listeners and the tasks of the
\* sockets; each has finitely many steps to make.  Nothing says that a change
\* is sent or that anyone subscribes.
Fairness == WF_vars(Handlers) /\ WF_vars(Listeners) /\ WF_vars(Sockets)

Spec == Init /\ [][Next]_vars /\ Fairness

-----------------------------------------------------------------------------
\* Properties.

Subscription == [on : Instance \union {None}, next : Nat \ {0}, got : Seq(Nat),
                 from : Nat, since : Nat]

\* The variables have their types.  A message read by a client is one that was
\* sent, a gap has no number.
TypeOK ==
  /\ req \in [Instance -> [Event -> Requests]]
  /\ rows \in Seq(Rows)
  /\ clock \in Nat
  /\ sent \in [Instance -> Seq(Event)]
  /\ recent \in [Instance -> Seq(Event)]
  /\ listener \in [Instance -> {"listening", "deaf", "down", "gone"}]
  /\ inbox \in [Instance -> Seq(Event)]
  /\ fetching \in [Instance -> Event \union {None}]
  /\ client \in [Client -> Subscription]
  /\ faults \in 0..MaxFaults
  /\ missed \in [Instance -> SUBSET Event]
  /\ late \in [Instance -> SUBSET Event]
  /\ overlapped \subseteq File

\* The rows that were stored since c subscribed and pass its filter.
Due(c) == {rows[k].event : k \in client[c].since + 1 .. Len(rows)} \intersect Wanted[c]

Unread(c) == {sent[client[c].on][k] : k \in client[c].next .. Len(sent[client[c].on])}

\* A subscription has a gap between what it was sent before message p and after it.
Gapped(s, p) ==
  \E k \in DOMAIN s.got :
    /\ s.got[k] = 0
    /\ \A j \in 1..k - 1 : s.got[j] # 0 => s.got[j] < p
    /\ \A j \in k + 1..Len(s.got) : s.got[j] # 0 => p < s.got[j]

\* A row has been shown to c, or it was told of a gap in its place.
Reached(c, e) ==
  \E p \in client[c].from..client[c].next - 1 :
    /\ sent[client[c].on][p] = e
    /\ p \in Items(client[c].got) \/ Gapped(client[c], p)

\* A row stored while a client is subscribed has reached it, itself or a gap in its
\* place, or it is on its way, in the channel or in the hands of the listener,
\* whatever becomes of the handler that stored it.  The only rows lost in silence are
\* those the listener of the instance missed.  (ingest.rs, pg_notify.rs and handle_ws
\* together: the ring never drops a row that has not been broadcast.)
NothingLost ==
  \A c \in Client : client[c].on # None =>
    LET i == client[c].on IN
    \A e \in Due(c) :
      \/ Reached(c, e) \/ e \in Unread(c)
      \/ e \in Items(inbox[i]) \/ fetching[i] = e
      \/ e \in missed[i]

\* What a client is sent is the feed of its instance from the moment it
\* subscribed: in order, each message once, and where wanted messages are left
\* out there is a gap in their place (handle_ws).
FaithfulFeed ==
  \A c \in Client : client[c].on # None =>
    LET got == client[c].got
        log == sent[client[c].on]
        Start(k) == IF k = 1 THEN client[c].from ELSE got[k - 1] + 1
        Silent(a, b) == \A p \in a..b : log[p] \notin Wanted[c]
    IN  /\ \A k \in DOMAIN got : got[k] # 0 => log[got[k]] \in Wanted[c]
        /\ \A j, k \in DOMAIN got : j < k /\ got[j] # 0 /\ got[k] # 0 => got[j] < got[k]
        /\ \A k \in DOMAIN got :
             got[k] # 0 /\ (k = 1 \/ got[k - 1] # 0) => Silent(Start(k), got[k] - 1)
        /\ (got = <<>> \/ got[Len(got)] # 0) => Silent(Start(Len(got) + 1), client[c].next - 1)

Times(e, s) == Cardinality({k \in DOMAIN s : s[k] = e})

\* An instance broadcasts a row once; twice only if its listener was told of the
\* row before the handler had put it in the ring, or when the ring had already
\* dropped it; and never three times (ingest.rs:230, pg_notify.rs:69).
OnceEach ==
  \A i \in Instance, e \in Event :
    Times(e, sent[i]) <= IF e \in late[i] THEN 2 ELSE 1

\* As long as no two requests for a file were handled at one time, a change is
\* linked to the snapshot of the change stored right before it, or to none
\* (ingest.rs:99).
Chained ==
  \A k \in DOMAIN rows : FileOf[rows[k].event] \notin overlapped =>
    \/ rows[k].prev = None
    \/ \E j \in 1..k - 1 :
         /\ rows[j].event = rows[k].prev /\ rows[j].snap
         /\ FileOf[rows[j].event] = FileOf[rows[k].event]
         /\ \A m \in j + 1..k - 1 : FileOf[rows[m].event] # FileOf[rows[k].event]

\* A row that is stored while a client is subscribed is shown to it in the end, or a
\* gap in its place, unless the subscription ends or the listener of the
\* instance missed the row (handle_ws, start_pg_listener).
Reaches ==
  \A c \in Client, e \in Event :
    (client[c].on # None /\ e \in Due(c)) ~>
      \/ client[c].on = None \/ e \notin Due(c)
      \/ Reached(c, e) \/ e \in missed[client[c].on]

=============================================================================
