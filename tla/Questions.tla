------------------------------ MODULE Questions ------------------------------
(***************************************************************************)
(* What an operator is promised of a question to an agent, with no tunnel, *)
(* connection, channel, timer or HTTP request in sight.  A question that   *)
(* is asked is answered once, by what the agent may say of that file or    *)
(* that revision, and what is recorded of it agrees with the answer.  A    *)
(* diff is rendered when all its questions are answered, and is remembered *)
(* until it is forgotten, one for each format.                             *)
(*                                                                         *)
(* Tunnel implements this specification.                                   *)
(***************************************************************************)

CONSTANTS
  FileQuery,  \* questions about a file
  KindOf,     \* "stat", "preview" or "content"
  Diff,       \* requests for the diff of an event
  FormatOf,   \* the format of each
  PathOf,     \* "watched", "denied", "outside" or "large"
  None

VARIABLES
  query,       \* each question: idle, asked or done, its result and its audit row
  diff,        \* each diff request: where it is, and its answer
  remembered,  \* the diffs that may be shown without asking
  hashes,      \* the sides of the event that have a hash
  blobs,       \* those the agent has
  missed       \* for each diff being fetched, those the agent has looked for in vain

vars == <<query, diff, remembered, hashes, blobs, missed>>

Side == {"prev", "curr"}

Query == FileQuery \union (Diff \X Side)

Fresh == [at |-> "idle", result |-> None, audit |-> None]

NotAsked == [at |-> "idle", code |-> None, prev |-> None, curr |-> None, unavailable |-> FALSE]

-----------------------------------------------------------------------------
\* What is true of a file or of a revision.

Readable(q) == PathOf[q] = "watched" \/ (PathOf[q] = "large" /\ KindOf[q] # "content")

\* The answer v to a question about a file, and its row: the content is read
\* unrecorded, and all that is not an error is recorded for what it is.
OfFile(q, v) ==
  /\ \/ v.result = "ok" /\ Readable(q)
     \/ v.result = "denied" /\ PathOf[q] \in {"denied", "outside"}
     \/ v.result = "large" /\ PathOf[q] = "large" /\ KindOf[q] = "content"
     \/ v.result = "failed"
  /\ IF KindOf[q] = "content" THEN v.audit = None
     ELSE \/ v.result = "ok" /\ v.audit = "success"
          \/ v.result # "ok" /\ v.audit = "denied"
          \/ v.result = "failed" /\ v.audit = "error"

\* And to a question about a revision, which is not recorded: it is gone only if
\* the agent was without it at some time since its diff is being fetched, which
\* m tells.
OfRevision(q, v, m) ==
  /\ \/ v.result = "ok" /\ PathOf[q[1]] \in {"watched", "large"}
     \/ v.result = "gone" /\ PathOf[q[1]] \in {"watched", "large"} /\ q[2] \in m[q[1]]
     \/ v.result = "unreachable"
  /\ v.audit = None

Truthful(q, v, m) ==
  /\ v.at = "done"
  /\ IF q \in FileQuery THEN OfFile(q, v) ELSE OfRevision(q, v, m)

-----------------------------------------------------------------------------

Init ==
  /\ query = [q \in Query |-> Fresh]
  /\ diff = [d \in Diff |-> NotAsked]
  /\ remembered = {}
  /\ hashes \in SUBSET Side
  /\ blobs \in SUBSET hashes
  /\ missed = [d \in Diff |-> {}]

\* The revisions of a diff are asked for while it is being fetched, those that
\* have a hash only.
Ask(q) ==
  /\ query[q].at = "idle"
  /\ q \in FileQuery \/ (diff[q[1]].at = "fetching" /\ q[2] \in hashes)
  /\ query' = [query EXCEPT ![q].at = "asked"]
  /\ UNCHANGED <<diff, remembered, hashes, blobs, missed>>

\* Some of those that were asked are looked for, and some are answered, each by
\* its own answer.
Answer ==
  /\ UNCHANGED <<diff, remembered, hashes, blobs>>
  /\ DOMAIN missed' = Diff
  /\ \A d \in Diff :
       /\ missed[d] \subseteq missed'[d]
       /\ missed'[d] \subseteq
            missed[d] \union IF diff[d].at = "fetching" THEN hashes \ blobs ELSE {}
  /\ DOMAIN query' = Query
  /\ \A q \in Query :
       query'[q] = query[q] \/ (query[q].at = "asked" /\ Truthful(q, query'[q], missed'))

\* What was rendered or shown last is remembered, in the place of what there
\* was for its format; others may be forgotten.
Remember(e) ==
  /\ e \in remembered'
  /\ remembered' \subseteq {e} \union {f \in remembered : f.format # e.format}

Show(d) ==
  /\ diff[d].at = "idle"
  /\ \E e \in remembered :
       /\ e.format = FormatOf[d]
       /\ diff' = [diff EXCEPT ![d] =
            [at |-> "done", code |-> 200, prev |-> e.prev, curr |-> e.curr, unavailable |-> FALSE]]
       /\ Remember(e)
  /\ UNCHANGED <<query, hashes, blobs, missed>>

Fetch(d) ==
  /\ diff[d].at = "idle"
  /\ \A e \in remembered : e.format # FormatOf[d]
  /\ diff' = [diff EXCEPT ![d].at = "fetching"]
  /\ UNCHANGED <<query, remembered, hashes, blobs, missed>>

Outcome(d, s) == IF s \in hashes THEN query[<<d, s>>].result ELSE "nohash"

\* A side that cannot be had, or two that are gone, and there is no diff.
Unreachable(d) == \E s \in Side : Outcome(d, s) = "unreachable"
Gone(d) == \A s \in Side : Outcome(d, s) = "gone"

Render(d) ==
  /\ diff[d].at = "fetching"
  /\ \A s \in hashes : query[<<d, s>>].at = "done"
  /\ LET p == Outcome(d, "prev")
         c == Outcome(d, "curr")
         Reply(code) == diff' = [diff EXCEPT ![d] =
           [at |-> "done", code |-> code, prev |-> p, curr |-> c,
            unavailable |-> code = 200 /\ p = "gone"]]
     IN  \/ Unreachable(d) /\ Reply(503) /\ UNCHANGED remembered
         \/ Gone(d) /\ Reply(410) /\ UNCHANGED remembered
         \/ /\ ~Unreachable(d) /\ ~Gone(d)
            /\ \/ Reply(200) /\ Remember([format |-> FormatOf[d], prev |-> p, curr |-> c])
               \/ Reply(500) /\ UNCHANGED remembered
  /\ missed' = [missed EXCEPT ![d] = {}]
  /\ UNCHANGED <<query, hashes, blobs>>

\* The diff is asked for again, and its questions are new ones.
Again(d) ==
  /\ diff[d].at = "done"
  /\ diff' = [diff EXCEPT ![d] = NotAsked]
  /\ query' = [q \in Query |-> IF q \in {d} \X Side THEN Fresh ELSE query[q]]
  /\ UNCHANGED <<remembered, hashes, blobs, missed>>

Sweep(s) ==
  /\ s \in blobs
  /\ blobs' = blobs \ {s}
  /\ UNCHANGED <<query, diff, remembered, hashes, missed>>

\* A content the agent has not kept yet, or has found again.
Keep(s) ==
  /\ s \in hashes \ blobs
  /\ blobs' = blobs \union {s}
  /\ UNCHANGED <<query, diff, remembered, hashes, missed>>

Next ==
  \/ Answer
  \/ \E q \in Query : Ask(q)
  \/ \E d \in Diff : Show(d) \/ Fetch(d) \/ Render(d) \/ Again(d)
  \/ \E s \in Side : Sweep(s) \/ Keep(s)

Spec == Init /\ [][Next]_vars

=============================================================================
