------------------------------- MODULE Tunnel -------------------------------
(***************************************************************************)
(* Questions to an agent.  The agent keeps a connection, the tunnel, to    *)
(* the control plane, and the control plane sends through it the questions *)
(* of its operators: about a file, and about the two revisions of a        *)
(* change, from which it renders a diff that it caches.  When the tunnel   *)
(* gives no answer, the question goes to the agent's own HTTP interface.   *)
(*                                                                         *)
(* One host, one change event.  An answer stands for its data.  The errors *)
(* of the database end a request as a failed rendering does and are not    *)
(* told apart from it; pings, which keep no state, are left out.           *)
(***************************************************************************)
EXTENDS Naturals, Sequences, FiniteSets

CONSTANTS
  FileQuery,  \* requests about a file as it is now
  KindOf,     \* "stat", "preview" or "content"
  Diff,       \* requests for the diff of the event
  FormatOf,   \* the format of each
  PathOf,     \* what the agent's policy makes of the path asked for
  Capacity,   \* of the way to the agent and of the way back; in the code a channel
              \* of 64 messages and the sockets
  CacheSize,  \* of the diff cache, 1024 in the code
  MaxConn,    \* connections of the agent
  MaxFaults,  \* connections that break, and requests that fail at the server
  None

Side == {"prev", "curr"}

Query == FileQuery \union (Diff \X Side)

Conn == 1..MaxConn

Of(q) == IF q \in FileQuery THEN q ELSE q[1]

ASSUME TunnelAssumption ==
  /\ KindOf \in [FileQuery -> {"stat", "preview", "content"}]
  /\ PathOf \in [FileQuery \union Diff -> {"watched", "denied", "outside", "large"}]
  /\ FileQuery \intersect (Diff \X Side) = {}
  /\ Capacity \in Nat \ {0} /\ CacheSize \in Nat \ {0}
  /\ MaxConn \in Nat /\ MaxFaults \in Nat
  /\ None \notin Nat
  /\ None \notin {"ok", "gone", "unreachable", "denied", "large", "success", "nohash"}

VARIABLES
  agent,    \* the connection the agent is serving
  conn,     \* the handler of each connection at the control plane
  current,  \* the registry: the connection entered for the host
  pending,  \* and the queries waiting for an answer in that entry
  gauge,    \* tunnel_connections_active
  down, up, \* the messages of each connection to the agent and from it
  query,    \* each query: where it is, and its result
  diff,     \* each diff request: where it is, and its answer
  cache,    \* the rendered diffs, the most recently used last
  hashes,   \* the sides of the event that have a hash
  blobs,    \* those the agent's snapshot store has
  faults,
  alone,    \* history: the connections accepted when every other was gone
  missed,   \* history: for each diff being fetched, the sides the agent has looked
              \* for and not had
  gaps      \* history: the formats and sides of which a diff was rendered without a
              \* side that was missed

tunnelVars == <<agent, conn, current, gauge, down, up, alone>>
diffVars == <<diff, cache, missed, gaps>>
vars == <<agent, conn, current, pending, gauge, down, up, query, diff, cache,
          hashes, blobs, faults, alone, missed, gaps>>

Items(s) == {s[k] : k \in DOMAIN s}

Fault == faults < MaxFaults /\ faults' = faults + 1

-----------------------------------------------------------------------------
\* What the agent answers.

\* A revision is looked for before it is read: when it is swept in between the
\* answer is an error, as for a file that cannot be read.
Answers(q) ==
  LET path == PathOf[Of(q)] IN
  IF path \in {"denied", "outside"} THEN {path}
  ELSE IF q \in FileQuery
       THEN IF path = "large" /\ KindOf[q] = "content" THEN {"large"} ELSE {"success", "error"}
  ELSE IF q[2] \in blobs THEN {"success", "error"} ELSE {"gone"}

\* The history when the answer to q is a.
Noted(q, a) ==
  IF a = "gone" /\ diff[q[1]].at = "fetching"
  THEN [missed EXCEPT ![q[1]] = @ \union {q[2]}] ELSE missed

\* The words of the tunnel for it, and those of the HTTP client.
Told(a) == IF a \in {"success", "gone", "denied"} THEN a ELSE "error"
Replied(a) == IF a = "outside" THEN "denied" ELSE a

\* What a query comes to when the tunnel has answered, None if HTTP is tried:
\* the statuses 200, 403, 413 and 502 of a question about a file are "ok",
\* "denied", "large" and "failed".
FromTunnel(q, s) ==
  IF q \in FileQuery
  THEN CASE s = "success" -> "ok" [] s = "denied" -> "denied" [] OTHER -> "failed"
  ELSE CASE s = "success" -> "ok" [] s = "gone" -> "gone"
         [] s = "denied" -> "unreachable" [] OTHER -> None

FromHttp(q, s) ==
  IF q \in FileQuery
  THEN CASE s = "success" -> "ok" [] s = "denied" -> "denied"
         [] s = "large" -> "large" [] OTHER -> "failed"
  ELSE CASE s = "success" -> "ok" [] s = "gone" -> "gone" [] OTHER -> "unreachable"

\* The row to be written about a query about a file; it is not missed when it
\* cannot be written, and the content is read unrecorded.
Record(q, s) == IF q \in FileQuery /\ KindOf[q] # "content" THEN s ELSE None

Fresh == [at |-> "idle", result |-> None, audit |-> None]
OnHttp == [Fresh EXCEPT !.at = "http"]
Done(r, a) == [at |-> "done", result |-> r, audit |-> a]

\* The senders of the queries in s are used or dropped: those still waiting
\* have the status st, or try HTTP when there is none.
Settle(s, st) ==
  [q \in Query |->
     IF q \notin s \/ query[q].at # "waiting" THEN query[q]
     ELSE IF st = None \/ FromTunnel(q, st) = None THEN OnHttp
     ELSE Done(FromTunnel(q, st), Record(q, st))]

-----------------------------------------------------------------------------
\* The connection.

\* The agent dials and its token is accepted.
Connect(c) ==
  /\ agent = None
  /\ conn[c] = "none" /\ \A d \in 1..c - 1 : conn[d] # "none"
  /\ agent' = c
  /\ conn' = [conn EXCEPT ![c] = "accepted"]
  /\ alone' = IF \A d \in 1..c - 1 : conn[d] = "gone" THEN alone \union {c} ELSE alone
  /\ UNCHANGED <<current, pending, gauge, down, up, query, diffVars, hashes, blobs, faults>>

\* A faulty variant of the two steps of register: the entry is made first.
EnterFirst(c) ==
  \/ /\ conn[c] = "accepted"
     /\ conn' = [conn EXCEPT ![c] = "entering"]
     /\ current' = c /\ gauge' = gauge + 1
  \/ /\ conn[c] = "entering"
     /\ conn' = [conn EXCEPT ![c] = "open"]
     /\ current' = None /\ UNCHANGED gauge

\* register: an entry that is there is removed, then the new one is made.
Enter(c) ==
  \/ /\ conn[c] = "accepted"
     /\ conn' = [conn EXCEPT ![c] = "entering"]
     /\ current' = None /\ UNCHANGED gauge
  \/ /\ conn[c] = "entering"
     /\ conn' = [conn EXCEPT ![c] = "open"]
     /\ current' = c /\ gauge' = gauge + 1

\* Either way the queries of the entry that goes are left without an answer.
Register(c) ==
  /\ Enter(c)
  /\ query' = Settle(pending, None)
  /\ pending' = {}
  /\ UNCHANGED <<agent, down, up, diffVars, hashes, blobs, faults, alone>>

\* The agent loses the connection, or finds that the other end has closed it.
Leave(c) ==
  /\ agent = c
  /\ IF conn[c] \in {"ended", "gone"} THEN UNCHANGED faults ELSE Fault
  /\ agent' = None
  /\ down' = [down EXCEPT ![c] = <<>>]
  /\ UNCHANGED <<conn, current, pending, gauge, up, query, diffVars, hashes, blobs, alone>>

\* A task of the handler ends: the agent is gone, or cannot be written to.
Hangup(c) ==
  /\ conn[c] = "open"
  /\ IF agent # c THEN UNCHANGED faults ELSE Fault
  /\ conn' = [conn EXCEPT ![c] = "ended"]
  /\ down' = [down EXCEPT ![c] = <<>>]
  /\ up' = [up EXCEPT ![c] = <<>>]
  /\ UNCHANGED <<agent, current, pending, gauge, query, diffVars, hashes, blobs, alone>>

\* A faulty variant of Removes: a handler leaves its own entry.
RemovesOther(c) == current \notin {c, None}

\* The entry unregister removes: the one of the host, whosever it is.
Removes(c) == current # None

Unregister(c) ==
  /\ conn[c] = "ended"
  /\ conn' = [conn EXCEPT ![c] = "gone"]
  /\ IF Removes(c)
     THEN /\ current' = None
          /\ gauge' = gauge - 1
          /\ query' = Settle(pending, "error")
          /\ pending' = {}
     ELSE UNCHANGED <<current, gauge, query, pending>>
  /\ UNCHANGED <<agent, down, up, diffVars, hashes, blobs, faults, alone>>

\* The agent answers one message after the other, and waits when what it sends
\* is not taken.
Serve(c) ==
  /\ agent = c /\ down[c] # <<>> /\ Len(up[c]) < Capacity
  /\ \E a \in Answers(Head(down[c])) :
       /\ up' = [up EXCEPT ![c] = Append(@, [about |-> Head(down[c]), status |-> Told(a)])]
       /\ missed' = Noted(Head(down[c]), a)
  /\ down' = [down EXCEPT ![c] = Tail(@)]
  /\ UNCHANGED <<agent, conn, current, pending, gauge, query, diff, cache, gaps, hashes, blobs,
                 faults, alone>>

\* A faulty variant of Answered: whoever waits is answered.
AnsweredAny(q) == pending

\* The waiting queries an answer about q goes to: those with its request id.
Answered(q) == pending \intersect {q}

\* handle_response, by the handler of any connection of the host.
Deliver(c) ==
  /\ conn[c] = "open" /\ up[c] # <<>>
  /\ LET m == Head(up[c]) IN
     /\ query' = Settle(Answered(m.about), m.status)
     /\ pending' = pending \ Answered(m.about)
  /\ up' = [up EXCEPT ![c] = Tail(@)]
  /\ UNCHANGED <<agent, conn, current, gauge, down, diffVars, hashes, blobs, faults, alone>>

-----------------------------------------------------------------------------
\* A query.

May(q) == q \notin FileQuery => (diff[Of(q)].at = "fetching" /\ q[2] \in hashes)

\* Through the tunnel, when the host has an entry and the channel takes it; the
\* channel and what its socket holds are one queue.
Ask(q) ==
  /\ query[q].at = "idle" /\ May(q)
  /\ current # None /\ conn[current] = "open" /\ Len(down[current]) < Capacity
  /\ down' = [down EXCEPT ![current] = IF agent = current THEN Append(@, q) ELSE @]
  /\ pending' = pending \union {q}
  /\ query' = [query EXCEPT ![q].at = "waiting"]
  /\ UNCHANGED <<agent, conn, current, gauge, up, diffVars, hashes, blobs, faults, alone>>

\* No entry, a channel that is closed, or one that is full.
AskFails(q) ==
  /\ query[q].at = "idle" /\ May(q)
  /\ current # None => (conn[current] = "open" => Len(down[current]) >= Capacity)
  /\ query' = [query EXCEPT ![q] = OnHttp]
  /\ UNCHANGED <<tunnelVars, pending, diffVars, hashes, blobs, faults>>

\* A faulty variant of Overdue: no query is given up.
Endless(q) == FALSE

Overdue(q) == query[q].at = "waiting"

\* The sender stays in the entry; what is sent through it later is lost.
TimeOut(q) ==
  /\ Overdue(q)
  /\ query' = [query EXCEPT ![q] = OnHttp]
  /\ UNCHANGED <<tunnelVars, pending, diffVars, hashes, blobs, faults>>

\* The HTTP request ends: the agent has answered, it cannot be reached, or it
\* wants a token, which the client never sends.  All that fails is recorded as
\* denied.
Fetch(q) ==
  /\ query[q].at = "http"
  /\ \E a \in Answers(q) \union {"error"} :
       LET r == FromHttp(q, Replied(a)) IN
       /\ query' = [query EXCEPT ![q] =
            Done(r, Record(q, IF r = "ok" THEN "success" ELSE "denied"))]
       /\ missed' = Noted(q, a)
  /\ UNCHANGED <<tunnelVars, pending, diff, cache, gaps, hashes, blobs, faults>>

-----------------------------------------------------------------------------
\* A diff.

NotAsked == [at |-> "idle", code |-> None, prev |-> None, curr |-> None, unavailable |-> FALSE]

\* LruCache: get makes an entry the most recent, put drops the least recent.
Without(f) ==
  LET Found(k) == cache[k].format = f
      n == CHOOSE k \in DOMAIN cache : Found(k)
  IN  IF \E k \in DOMAIN cache : Found(k)
      THEN SubSeq(cache, 1, n - 1) \o SubSeq(cache, n + 1, Len(cache)) ELSE cache
LastOf(s, n) == SubSeq(s, IF Len(s) > n THEN Len(s) - n + 1 ELSE 1, Len(s))

\* A faulty variant of Put: nothing is dropped.
PutMore(e) == Append(cache, e)

Put(e) == LastOf(Append(Without(e.format), e), CacheSize)

Hit(d) ==
  /\ diff[d].at = "idle"
  /\ \E k \in DOMAIN cache :
       /\ cache[k].format = FormatOf[d]
       /\ diff' = [diff EXCEPT ![d] =
            [at |-> "done", code |-> 200, prev |-> cache[k].prev, curr |-> cache[k].curr,
             unavailable |-> FALSE]]
       /\ cache' = Put(cache[k])
  /\ UNCHANGED <<tunnelVars, pending, query, missed, gaps, hashes, blobs, faults>>

Miss(d) ==
  /\ diff[d].at = "idle"
  /\ \A k \in DOMAIN cache : cache[k].format # FormatOf[d]
  /\ diff' = [diff EXCEPT ![d].at = "fetching"]
  /\ UNCHANGED <<tunnelVars, pending, query, cache, missed, gaps, hashes, blobs, faults>>

Outcome(d, s) == IF s \in hashes THEN query[<<d, s>>].result ELSE "nohash"

\* A faulty variant of Refusal: a side that was not fetched counts as empty.
RefusalIfGone(d) ==
  IF \A s \in Side : Outcome(d, s) = "gone" THEN 410 ELSE None

\* The answer when no diff can be rendered.
Refusal(d) ==
  IF \E s \in Side : Outcome(d, s) = "unreachable" THEN 503
  ELSE IF \A s \in Side : Outcome(d, s) = "gone" THEN 410 ELSE None

\* Both sides have been fetched.  A side that is gone or was never there is
\* empty in the rendering, which may fail.
Render(d) ==
  /\ diff[d].at = "fetching"
  /\ \A s \in hashes : query[<<d, s>>].at = "done"
  /\ LET p == Outcome(d, "prev")
         c == Outcome(d, "curr")
         Answer(code) == diff' = [diff EXCEPT ![d] =
           [at |-> "done", code |-> code, prev |-> p, curr |-> c,
            unavailable |-> code = 200 /\ p = "gone"]]
     IN  \/ /\ Refusal(d) # None
            /\ Answer(Refusal(d))
            /\ UNCHANGED <<cache, gaps, faults>>
         \/ /\ Refusal(d) = None
            /\ Answer(200)
            /\ cache' = Put([format |-> FormatOf[d], prev |-> p, curr |-> c])
            /\ gaps' = gaps \union ({FormatOf[d]} \X {s \in missed[d] : Outcome(d, s) = "gone"})
            /\ UNCHANGED faults
         \/ /\ Refusal(d) = None
            /\ Answer(500)
            /\ Fault /\ UNCHANGED <<cache, gaps>>
  /\ missed' = [missed EXCEPT ![d] = {}]
  /\ UNCHANGED <<tunnelVars, pending, query, hashes, blobs>>

\* The diff is asked for again.  The queries of the next request have new ids:
\* those of this one are out of use when their names are given to it.
Again(d) ==
  /\ diff[d].at = "done"
  /\ \A s \in Side : /\ <<d, s>> \notin pending
                     /\ \A c \in Conn : /\ <<d, s>> \notin Items(down[c])
                                        /\ \A m \in Items(up[c]) : m.about # <<d, s>>
  /\ diff' = [diff EXCEPT ![d] = NotAsked]
  /\ query' = [q \in Query |-> IF q \notin FileQuery /\ Of(q) = d THEN Fresh ELSE query[q]]
  /\ UNCHANGED <<tunnelVars, pending, cache, missed, gaps, hashes, blobs, faults>>

\* The retention of the agent.
Sweep(s) ==
  /\ s \in blobs
  /\ blobs' = blobs \ {s}
  /\ UNCHANGED <<tunnelVars, pending, query, diffVars, hashes, faults>>

\* The agent keeps the content of a side: that of the change once its event has
\* been published, and one that is gone when a file is found to have it again.
Keep(s) ==
  /\ s \in hashes \ blobs
  /\ blobs' = blobs \union {s}
  /\ UNCHANGED <<tunnelVars, pending, query, diffVars, hashes, faults>>

-----------------------------------------------------------------------------

Init ==
  /\ agent = None
  /\ conn = [c \in Conn |-> "none"]
  /\ current = None
  /\ pending = {}
  /\ gauge = 0
  /\ down = [c \in Conn |-> <<>>]
  /\ up = [c \in Conn |-> <<>>]
  /\ query = [q \in Query |-> Fresh]
  /\ diff = [d \in Diff |-> NotAsked]
  /\ cache = <<>>
  /\ hashes \in SUBSET Side
  /\ blobs \in SUBSET hashes
  /\ faults = 0
  /\ alone = {}
  /\ missed = [d \in Diff |-> {}]
  /\ gaps = {}

Link(c) == Register(c) \/ Hangup(c) \/ Unregister(c) \/ Deliver(c)

\* The steps of the handler of a request once it has begun.
Answering(q) == TimeOut(q) \/ Fetch(q)

Rendering(d) ==
  \/ Render(d)
  \/ \E s \in Side : Ask(<<d, s>>) \/ AskFails(<<d, s>>) \/ Answering(<<d, s>>)

Next ==
  \/ \E c \in Conn : Connect(c) \/ Link(c) \/ Leave(c) \/ Serve(c)
  \/ \E q \in FileQuery : Ask(q) \/ AskFails(q) \/ Answering(q)
  \/ \E d \in Diff : Hit(d) \/ Miss(d) \/ Rendering(d) \/ Again(d)
  \/ \E s \in Side : Sweep(s) \/ Keep(s)

\* The runtime of the control plane runs the tasks of its requests; the timer
\* of a query is one of them, and an HTTP request to the agent is taken to end.
\* Nothing is asked of the agent or of the connection.  Each of these steps moves
\* a query or a diff.
Fairness ==
  /\ \A q \in FileQuery : WF_query(Answering(q))
  /\ \A d \in Diff : WF_<<query, diff>>(Rendering(d))

Spec == Init /\ [][Next]_vars /\ Fairness

-----------------------------------------------------------------------------
\* Properties.

Outcomes == {"ok", "gone", "unreachable"}

Shown == Outcomes \union {None, "nohash"}

Statuses == {"success", "gone", "denied", "error"}

Message == [about : Query, status : Statuses]

Asked == [at : {"idle", "waiting", "http", "done"},
          result : Outcomes \union {None, "denied", "large", "failed"},
          audit : Statuses \union {None}]

Reply == [at : {"idle", "fetching", "done"}, code : {None, 200, 410, 500, 503},
          prev : Shown, curr : Shown, unavailable : BOOLEAN]

Entry == [format : {FormatOf[d] : d \in Diff}, prev : Shown, curr : Shown]

\* The variables have their types; no channel holds more than it can, and the
\* cache no more than its limit.
TypeOK ==
  /\ agent \in Conn \union {None}
  /\ conn \in [Conn -> {"none", "accepted", "entering", "open", "ended", "gone"}]
  /\ current \in Conn \union {None}
  /\ pending \subseteq Query
  /\ gauge \in Nat
  /\ down \in [Conn -> Seq(Query)] /\ \A c \in Conn : Len(down[c]) <= Capacity
  /\ up \in [Conn -> Seq(Message)] /\ \A c \in Conn : Len(up[c]) <= Capacity
  /\ query \in [Query -> Asked]
  /\ diff \in [Diff -> Reply]
  /\ cache \in Seq(Entry) /\ Len(cache) <= CacheSize
  /\ hashes \subseteq Side /\ blobs \subseteq hashes
  /\ faults \in 0..MaxFaults
  /\ alone \subseteq Conn
  /\ missed \in [Diff -> SUBSET Side] /\ gaps \subseteq {FormatOf[d] : d \in Diff} \X Side

\* The entry of the registry is that of a handler that is still there, so that
\* it will be taken out; queries wait in an entry only; and the gauge counts at
\* least the entry there is (tunnel.rs: register, unregister, send_query).
RegistrySound ==
  /\ current # None => conn[current] \in {"open", "ended"}
  /\ current = None => pending = {}
  /\ \A q \in Query : query[q].at = "waiting" => q \in pending
  /\ gauge >= IF current = None THEN 0 ELSE 1

\* A connection made after the handlers of all earlier ones had left, and not
\* followed by another, has the entry of the host as long as it is open: the
\* operators' questions reach the agent through it.
Routed ==
  \A c \in alone :
    (conn[c] = "open" /\ \A d \in Conn : d > c => conn[d] = "none") => current = c

\* Whatever a diff is shown from, fresh or cached, was fetched: neither side is
\* one the agent could not be asked for, they are not both gone, a side said to
\* be gone was not there at some time while it was asked for, and a side is left
\* empty for having no hash only if it has none.  A side that was gone may have
\* come since: what is cached without it stays (routes.rs: change_diff_handler;
\* diff_service.rs).
DiffSound ==
  LET Sound(e, f) ==
        /\ "unreachable" \notin {e.prev, e.curr}
        /\ ~(e.prev = "gone" /\ e.curr = "gone")
        /\ e.prev = "gone" => <<f, "prev">> \in gaps
        /\ e.curr = "gone" => <<f, "curr">> \in gaps
        /\ (e.prev = "nohash") <=> ("prev" \notin hashes)
        /\ (e.curr = "nohash") <=> ("curr" \notin hashes)
  IN  /\ \A k \in DOMAIN cache : Sound(cache[k], cache[k].format)
      /\ \A d \in Diff : diff[d].code = 200 => Sound(diff[d], FormatOf[d])

\* Where a question is, to one who does not see by which way it is answered.
Seen(q) ==
  [query[q] EXCEPT !.at = IF @ \in {"waiting", "http"} THEN "asked" ELSE @]

\* The tunnel, HTTP and the diff service together implement the questions of the
\* operators: each is answered once, by what the agent says of its own file or
\* revision, is recorded as it was answered, and a diff is remembered by its
\* format (routes.rs: file_stat_handler, change_diff_handler; diff_service.rs).
Abstract == INSTANCE Questions WITH
  query      <- [q \in Query |-> Seen(q)],
  remembered <- Items(cache)

ImplementsQuestions == Abstract!Spec

\* Every question that is asked is answered, whatever becomes of the tunnel.
Ends ==
  /\ \A q \in FileQuery : query[q].at # "idle" ~> query[q].at = "done"
  /\ \A d \in Diff : diff[d].at # "idle" ~> diff[d].at = "done"

=============================================================================
