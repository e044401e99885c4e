# Verification of config-watch

TLA+ modules, TLC configurations and TLAPS proofs for config-watch: an agent on
each host that watches YAML files, snapshots them and reports every change, and
a control plane that stores the reports, streams them and turns selected ones
into pull requests. Paths below are relative to the repository; `app.rs` alone
means `crates/config-agent/src/app.rs`. `PROJECT.json` maps every definition
that models code to its lines.

## The system and its parts

| Component | State | Operations | Where it gets hard |
|---|---|---|---|
| File watcher and debounce window (`watcher.rs`, `debounce.rs`) | raw events, one window per path, two bounded channels | report, ingest, flush, send | several kinds of event in one window; a full channel blocks the task; what happens before the watch is registered |
| Change pipeline (`pipeline.rs`) | none of its own | baseline scan, initial snapshots, decide on a change | the file is read long after the event; a removal is decided from the hash alone |
| Snapshot store and retention (`crates/config-snapshot`) | contents by hash, hash of each file in memory and in `current_state.json` | write a content, set a hash, sweep | two writes for one change; the sweep and the hash know nothing of each other |
| Spool (`spool.rs`) | one file per event, an index | append, mark delivered, mark failed, count attempts, list pending | two files per status, rewritten in place |
| Agent main task (`app.rs`) | what it has in hand | start-up, replay, main loop | any step may be the last; many errors are only logged, some end the agent |
| Publisher and client (`publish.rs`, `crates/config-transport/src/client.rs`) | the credential | register, publish, heartbeat | a publish is one POST with no time limit; the credential expires |
| Ingest (`ingest.rs` of the control plane, `crates/config-storage`) | `change_events`, `snapshots` | look up the key, insert, broadcast | look-up and insert are apart; an error after the insert |
| Realtime feed (`pg_notify.rs`, `realtime.rs`, `http/routes.rs`) | broadcast channel and ring of recent events of each instance, the listener of NOTIFY | broadcast, notify, reconnect, subscribe | an event comes two ways; the ring forgets; subscribers lag; a listener is cut off |
| Tunnel (`tunnel.rs` of agent, transport and control plane) | connections by host, pending queries | register, query, answer, time out, fall back to HTTP, reconnect | a new connection before the old one is gone; answers after the timeout |
| File queries and diff service (`query_handler.rs`, `api.rs`, `diff_service.rs`) | cache of rendered diffs | stat, preview, content, diff | a side that is only missing; a rendering that outlives its sides |
| Workflow (`crates/config-workflow`) | workflow rows, a clone per repository | clone, reset, write, commit, push, open a pull request, mark | a restart in the middle; two workflows in one clone |
| Operators (`auth.rs`, `ws_ticket.rs`, `extractors.rs`, the proxy handler) | accounts, sessions, tickets | sign up, sign in, approve, reject, set a role | two statements for one decision; ignored errors |
| Dashboard (`web/dashboard`) | identity, CSRF token, form, panel of a workflow | log in, log out, ask, poll | answers that arrive after the page has moved on |
| Diff engine and viewer (`crates/config-diff`, `diff_viewer.rs`) | a rendering under way: the lines it is at, rows, hunks | walk both files along the changes, join hunks, pair removed and added lines | changes that name one file only; hunks that touch; a diff by syntax that is shown by lines |
| Host registry, credentials, policy, lint, CLI | host rows, or none | upserts, checks and text processing | nothing that two actors share |

How they interact: the watcher and the debounce task hand events to the main
task through channels; the main task decides on a change against the snapshot
store, writes the event to the spool, publishes it by HTTP, marks it, and
updates the store. Ingest checks the idempotency key, inserts a row and
broadcasts it; Postgres notifies the instances that listen. The dashboard asks
the control plane, which lets through who may; it sends file queries back through
the tunnel and renders diffs from the answers. A workflow reads rows and contents.

What makes the parts correct:

- delivery: every event in the spool reaches the control plane once, in order,
  and nothing is called delivered that is not stored;
- history: the events of a file are a chain, each starts from the content the
  one before it ended with, and a file at rest is known;
- realtime: a stored row is shown to a subscriber or covered by a gap, once;
- tunnel: a query is answered by what the agent said of it, and ends; a diff is
  rendered from two sides that are known;
- workflow: what is pushed is the change and nothing else, a status describes
  what was done, and each workflow comes to an end;
- diffs: no reported line is hidden, none is shown twice or out of order;
- operators: nobody is let in without an approval or after a rejection.

The hazards behind these, each with its line, are in `PROJECT.json`.

## Modules

| Module | What it is |
|---|---|
| `Outbox` | the abstract specification of delivery: put in, stored once for each key, crossed off |
| `AgentDelivery` | main task, spool, publish and ingest, with crashes, failing writes and lost answers |
| `AgentDelivery_proofs` | its theorems |
| `MCAgentDelivery` | its instances for TLC |
| `FileHistory` | watcher, debounce task, pipeline, snapshot store and retention, for one file |
| `FileHistory_proofs` | its theorems |
| `MCFileHistory` | its instances for TLC |
| `Realtime`, `Realtime_proofs`, `MCRealtime` | ingest with the snapshot chain, NOTIFY, the ring, subscribers; its theorems; its instance |
| `Questions` | the abstract specification of questions to an agent: answered once, by what the agent may say; diffs of both answers, one remembered for each format |
| `Tunnel`, `Tunnel_proofs`, `MCTunnel` | the tunnel, questions about files and revisions, diffs and their cache |
| `PullRequests` | the abstract specification of workflows: statuses in order, nothing a workflow has pushed pushed over, one pull request for a branch |
| `Workflow`, `Workflow_proofs`, `MCWorkflow` | the executor, the clone, GitHub, the panel that polls |
| `Access`, `Access_proofs`, `MCAccess` | accounts, sessions, tickets, extractors, login page and identity |
| `DiffRender`, `DiffRender_proofs`, `MCDiffRender` | the renderers of the diff engine and the pairing of the viewer |

Operators named as a faulty variant (`Answered`, `NoConstraint`, `KeepFirst`,
...) are not part of a specification. Each stands for a mistake the code could
have made; it is put in the place of the operator after it to show that a
property notices.

### AgentDelivery

An event is a model value with an idempotency key (`KeyOf`); two events of one
file in one minute may share a key (`derive_idempotency_key`). `pc` is the step
of the main task, `mode` the loop it is in (initial snapshots, replay, main
loop), `cur` the event in hand. `spool`, `index`, `attempts` and `createdAt` are
the files of the spool as they would be read: `std::fs::write` truncates before
it fills, so an interrupted write leaves a torn entry or an empty index.
`stateOk` says whether `current_state.json` parses; if not, the agent cannot
start. `requests` and `rows` are the network and the table.

One action is one write or one message: `AppendEntry`, `AppendIndex`, `Send`,
`PublishOk`/`PublishErr`, `MarkIndex`, `MarkEntry`, `Attempt`, `FailIndex`,
`FailEntry`, `SaveState`, each with a form that fails. A request is handled in
two steps, `FindsDuplicate`/`FindsNone` and `Inserts`/`InsertConflicts`, with
other requests between them: after a restart the request of the old process and
the replay may race. `Crash` may follow any step. Initial snapshots
(`PublishInitial`) are published past the spool, so `Outbox` excepts
them.

### FileHistory

One file, since paths share only the queues. A hash stands for its content. A
raw event is `touched` or `removed`: the pipeline makes no other difference.
`raw` joins the unbounded queue of notify and the bounded channel behind it;
`held` is the event the debounce task is sending while the channel to the main
loop is full, and while it holds one it takes no raw event. `known` and `disk`
are the hash in memory and in the state file, `blobs` the stored contents. The
main loop goes `acquire`, `read`, `append`, `publish`, `keepBlob`, `keepHash`,
and the file may change at any point between. `log` is the sequence of events
given to the spool. `RemoveBlob` is what a sweep does to one content.

What the environment may do comes from notify: a file that is moved away is
reported as modified, and an open file may be written after its removal.

### Realtime

An event stands for its message and is stored once. `req[i][e]` is the handler of
event e's request at instance i: `idle`, `ready` (its previous snapshot has been
looked up and its row has a time), `stored`, `announced` (broadcast) and `done`
(in the ring); another task may run between any two. `sent[i]` is all that
instance i has broadcast, of which its channel holds the last `Capacity`; a
client is the position it reads at, and `got` the positions it was sent, 0 for a
gap. `recent[i]` is all that was put in the ring, whose content is the end of it.
The listener (`Take`, `Forward`, `FetchFails`, `Break`, `Reconnect`) reads the
notifications of its connection, which are lost with it; a LISTEN that fails on a
connection that stays open leaves it `deaf`. The history variables `missed`,
`late` and `overlapped` say for which rows a promise cannot be kept: those a
listener was not told of, those its ring could not stop, and files with two
requests at one time. The environment of the host is read between the insert and
the broadcast, and its error leaves a row nobody is told of by the handler.

### Tunnel

One host and one change. `conn[c]` is the handler of the c-th connection at the
control plane; registration is a removal and an insertion (`Connect`,
`Register`), and `Unregister` removes the entry of the host, whosever it is: the
code compares nothing. `current` is the entry and `pending` its table of waiting queries,
`down` and `up` the two directions of a connection. A query is sent, waits, and is answered, overdue or sent by HTTP; a late answer
finds nobody. `FromTunnel` and `FromHttp` are the two tables of statuses, which
differ. A diff asks for its two sides at once, is refused or rendered, and cached
under its event and format. `blobs` are the sides whose content the agent has: it keeps
that of a change after its event has been published, and a swept one again when a file
is found to have it (`Keep`), and its retention takes any away (`Sweep`), so that "gone"
is true of the time a side was looked for and not of later. The history variables say
when that was: `missed`, for each diff being fetched, the sides the agent has looked for
and not had, and `gaps` the formats and sides for which a diff was rendered so.
`Questions` has none of the connections: a query that waits, or is on its way by HTTP, is
one that was asked, and the list of the cache is the set of what is remembered
(`Abstract`); contents come and go there too, and a revision may be called gone only if
the agent was without it at some time since its diff is being fetched.

### Workflow

A file's value is the workflow that wrote it, the version of the base branch, or
`Other` for what the default branch has (`Default`), so that what was pushed can be told
from what should have been. A clone made anew has the files and the index of the default
branch (`NewClone`, the workflow is then in `cloned`); one that is there is reset to the
base branch. A push that is not forced makes a branch, or moves one forward (`Pushes`,
`Ancestor`), so that a name `Taken` at GitHub by a branch made of the base branch is
accepted and one that a workflow has pushed to is not. `clone` is the
one directory all workflows of a repository share: HEAD, branches, origin/base,
files and the index on disk; `index[w]` is the index a task has in memory. `at`
is the next step of each task, one for each call of git_ops that another task can
come between. `crossed` holds the workflows that were in the clone at one time
with another. `Fail` is any error of the network, the disk or the database,
`Restart` ends all tasks, `Advance` is a commit of somebody else. `PullRequests` has
neither clone nor task: what is left of a step is the status it writes and what it
does at GitHub; the remote is what was pushed. The panel polls on after a verdict, for
its interval is not cleared, and shows what the row says then (`Poll`); a request whose
answer was lost has no row to poll (`unsent`). All workflows have one base branch, which
exists at GitHub and has the same files as the default branch, and the answers to the
polls of a panel come in their order.

### Access

Each operator has one browser. The account library behind `/auth` is external
and modelled from what `auth_proxy_handler` expects of it; what the handler does
after it (`MarkPending`, `RevokeNew`, `Check`, `Deny`) are statements of their own
that may fail and whose error is ignored. `reject` is a rejection between its two
statements. A request is looked at twice, its session and then its user, with
anything between; a ticket is presented as a stream, once, since the page asks for one
for every connection. `LoggedOut` is what `on_unauthorized` does to the page: a sign-out
does it whatever the answer, a read that is refused does it unless it is the poll of a
workflow, a write or a ticket does not (`Hear`); an error of the server or a broken
connection leaves the page as it is (`Fails`). A page that is loaded again keeps identity
and token (`Reload`); a browser that is closed and opened again keeps the identity, which
is in localStorage, and not the token, whose cookie has no age (`Reopen`, which sets
`closed`); that the library's cookie may go with it is, for the page, the end of the
session (`Expire`). `slipped` holds the users for whom a statement failed or a handler
was dropped, `crossed` the pages logged out between the answer to a sign-in and its
handling.

### DiffRender

A line is its number. `changes` is what difftastic reports, one at a time
(`Report`, external): a change has a place in both files but names a line of one
or both, as the chunks of its JSON do. The renderers keep `prevIdx`, `currIdx`
and `next`, and `rows` is what they have written; one action is one iteration of
`render_context`, `render_full_file` or `render_side_by_side`, which walk alike, or of
`render_unified`, which shows the changes only. `Widen` is the loop that makes
hunks of rows, `CollectRemoved`, `CollectAdded` and `ShowRuns` are
`pair_and_build` of the viewer. `LineAdded` and `LineRemoved` are the line diff taken
when difftastic is not there (`fell`), with `same` the places at which both files have
one line. `Exact` says that what lies between two changes is as long in both files.

## Runs

| Run | Shows |
|---|---|
| `delivery` | `TypeOK`; `DeliveredIsStored`; `PublishedInOrder`; `NeverGivenUp`; `ImplementsOutbox` (refinement of `Outbox`: one row for each key, and none that was not spooled) |
| `delivery_settles` | `EntryFate`: what may become of an entry, one step at a time; `RestartDelivers`: a last restart delivers what is pending; `LoopReturns`: no event keeps the others waiting |
| `delivery_lost` | violated: an entry torn while its attempts are counted is lost |
| `delivery_retry` | violated: a failed publish is not retried before the next start |
| `history` | `TypeOK`; `Linked`; `KnownReadable`; `Settles` |
| `history_initial` | violated: initial snapshots are not the current state |
| `history_deleted` | violated: a file that comes back with its old content stays deleted |
| `realtime` | `TypeOK`; `NothingLost`; `FaithfulFeed`; `OnceEach`; `Chained`; `Reaches`: a stored row is shown, or a gap in its place, in the end |
| `tunnel` | `TypeOK`; `RegistrySound`; `Routed`; `ImplementsQuestions` (refinement of `Questions`); `DiffSound`; `Ends`: every question is answered |
| `workflow` | `TypeOK`; `OwnChange`; `Truthful`; `ImplementsPullRequests` (refinement of `PullRequests`); `Settles`: the panel comes to an end |
| `access` | `TypeOK`; `Revoked`; `OnlyApproved`; `RejectionHolds`; `Tokened`; `SignInEnds`: the form can be used again |
| `render` | `TypeOK`; `ReadsBoth`; `ChangesShown`; `HunksRight`; `ViewKeeps` |

Bounds. `delivery` has four events over two keys: a pair of change events with
one key, and an initial snapshot that shares its key with another; two starts,
so that one crash separates a first run from a replay; two faults, so that a
failure can follow a failure. `delivery_settles` allows one attempt instead of
the five of the code, so that entries are marked failed at all, and has one
event that is always refused. `history` has two contents and one over the limit
of 5 MiB, three edits, a channel of one event (so that one is in the channel,
one is held and one is in the window), two starts and one fault. Deadlock is not
checked: when the bounds are used up the agent is down for good, or waits for a
file to change; the other modules stop when nothing more is asked.

`realtime` has three changes of one file, one of them stored before and one
without content, at two instances of which one listens, so that an event may come
by its own handler and by NOTIFY; a ring of one event, so that it can forget, a
channel of one message, so that a client lags behind two; and one fault, be it a
repeated request, a content that cannot be written, an error, a broken connection or a restart (344,583 states).
`tunnel` has two connections, the least that can be confused, a question about a
file out of the watch roots and one diff with its two sides, asked for again and
again, with room for one message and one fault, and sides that are kept and swept at any
time (547,769 states). `workflow` has two workflows in two files, one of which deletes
its file, two names that both may choose, one of them taken at GitHub, two versions of a
base branch that is not the default branch (where it is, a fresh clone is like one that
was reset) and one fault (302,932 states).
`access` has one operator, for operators share nothing but the setting; two forms
sent, two requests at a time, two decisions, so that a rejection may follow an
approval or the reverse, and one fault (1,552,602 states). `render` has files of up
to four lines, up to four changes and one line of context: two hunks a line apart
and runs of unequal length need four lines, and a context of one line is cut off
at both ends of a file (1,276,201 states). A rendering comes to an end, so deadlock
is not checked.

Fairness. The agent's tasks are scheduled by the runtime, its timer ticks, and
the control plane handles what reaches it: weak fairness of `Agent` and
`ControlPlane`, and of `Main`, `Watch`, `Debounce` and `Flush`. That an agent is
started again is the service manager's doing and part of `Start`. Nothing says
that a file changes, a write fails or a sweep runs. In `FileHistory` a publish
comes to an end; the client sets no time limit, so a control plane that accepts
a connection and never answers would stop the main loop, and `AgentDelivery`
too assumes that each request has an end. In `Realtime` the handlers, listeners
and sockets are each a task of the runtime: weak fairness of `Handlers`,
`Listeners` and `Sockets`, and nothing of the subscribers. In `Tunnel` only the
control plane's own tasks are fair, `Answering` and `Rendering`, which include the
timer of a query; neither the agent nor its connection owes anything, and `Ends`
holds by the timeout and the fallback, for an HTTP request that has an end. In
`Workflow` the task and the interval timer of the browser are fair; `Settles`
excepts workflows whose last status was not written, which a restart makes of all
that run. In `Access` the server handles a sign-in and the page its answer.
`RestartDelivers` and `Settles` speak
of what happens once faults are over; the bounds on faults and runs make that
come.

## Findings

- `spool.rs:186`: `increment_attempts` rewrites an entry in place. A crash in it
  leaves a torn entry, which `pending_entries` skips: the event is lost, against
  the crash recovery of README line 46.
- `app.rs:368`: a failed publish is counted and left; it is published again only
  by the replay of the next start. README line 78 speaks of exponential backoff,
  `app.rs:114` of a later retry. A consequence is `NeverGivenUp`: since only the
  first publish counts as an attempt, no entry reaches the limit of five.
- `pipeline.rs:85`: a file with a known hash is not read by the baseline scan;
  what happened to it while the agent was down is not reported, and a removed
  file is announced at every start, against the comment at `pipeline.rs:395`.
- `pipeline.rs:233`: a removal keeps the hash, so a file that comes back with
  the content it had is taken to be unchanged and stays deleted in its history.
  The same happens when a removal is handled after the file has come back.

Met while modelling the other parts, and visible in the modules:

- Tunnel: the handler of an old connection removes the entry of a newer one
  (`tunnel.rs:53` of the control plane), and the agent, whose connection stays
  open, is reached through it no more until it reconnects; hence `Routed` speaks
  of connections made when every other was gone. The gauge of connections drifts
  upwards the same way. A diff rendered when the previous revision was gone is
  served from the cache without `previous_unavailable`. And a diff may be asked for when
  the agent has published a change (`app.rs:354`) and not yet kept its content
  (`app.rs:386`): it is rendered without the current side, and the cache serves it so
  when the content is there, until a later diff pushes it out; likewise for a content
  that was swept and is kept again. Hence `DiffSound` and `Questions` speak of the time
  a side was looked for. The audit says "denied"
  for any HTTP error of a query. The dashboard keeps the text of a failed diff as
  if it were a rendering.
- FileHistory: the sweep removes contents that are still current
  (`retention.rs:66` of config-snapshot), so the first modification of a file may have
  no previous version, which the comment at `pipeline.rs:32` promises.
- Realtime: a listener that is cut off, or whose LISTEN failed, misses rows, and
  the subscribers of its instance are told of no gap. The command line's `tail`
  sends no session and no ticket, which `WsAuthenticatedUser` wants.
- Workflow: two workflows in one clone disturb each other's HEAD, index and files.
  A failed workflow leaves its branch in the clone, and the same name then fails.
  A clone made anew is one of the default branch (`git_ops.rs:100`), whatever the base
  branch of the workflow is, and nothing checks that out: the commit "from `base_branch`"
  (`git_ops.rs:293`) then has the files of the default branch, hence `cloned` in
  `OwnChange`. The next workflow resets the clone and is not concerned.
  A pull request may exist though the row says "failed", and a restart leaves a
  status that nothing ever changes.
- DiffRender: the walks go on in step between changes and stop when either file ends
  (`difftastic.rs:763`). difftastic compares syntax and does not report what differs in
  layout only, so the full-file format leaves such lines out, against the comment at
  `difftastic.rs:676` ("entire file"), and pairs lines that differ; hence `Exact` in
  `ReadsBoth`. The viewer reads a side-by-side text back by its first ` | `, so a line
  of the left file that has one, such as a padded `key: |`, shifts the columns.
- Access: a sign-up that is refused leaves the form disabled until the page is
  loaded again. An open stream outlives a rejection. A ticket can be presented
  any number of times in its 30 seconds. A late answer to a request of an earlier
  session logs out a new one. A log-out clears the token, not the session cookie. A
  browser that was closed shows the dashboard with an identity and no token: what it
  writes is refused with 403, which does not log the page out, until a read that is
  refused or the operator does; hence `closed` in `Tokened`.

## Proofs

All theorems hold for any set of events or contents, any assignment of keys, any
capacity and retry limit, and any number of edits, runs and faults. The assumptions
are those on the constants: `EventAssumption`, `ContentAssumption` (that there is no
file is told from every content and raw event), the two `BoundAssumption`s,
`RealtimeAssumption`, `TunnelAssumption`, `WorkflowAssumption` (no status is told
from every status) with `NoneAssumption` (no commit from every commit),
`AccessAssumption` and `RenderAssumption`, which TLC evaluates in the runs.

`AgentDelivery_proofs`. No property is inductive by itself; even `TypeOK` needs that
a step that writes an entry has an event in hand and that a running agent was
started. `IInv` adds where the main task stands (`Position`: the entry in hand is
pending, one about to be appended is absent, what is left to replay is pending),
what an answer means (`Acknowledged`: the key behind a success, and behind every
mark, is stored), the order of what is left to replay (`Ordered`) and the attempts
counted so far (`Attempts`). `Invariance` proves it; the safety properties follow,
and `Implementation` from a step-by-step map to `Outbox`. `EntriesKept`
(`EntryFate`), from the few actions that write an entry (`EntryWriters`), says that
a final mark stays and that a pending entry whose key is not stored stops being
pending in two places only: in the rewrite that counts its attempt and in the one
that marks it failed. The first is what `delivery_lost` shows, and there is no other
way to lose an event that was appended. `AttemptsCountedOnce` is the cause behind
`NeverGivenUp` and `delivery_retry`: no number of starts and replays counts an entry
twice. It needs that an entry not yet in the spool has no count, initial snapshots
included. `RestartRecovers` is the safety half of `RestartDelivers`: after a last
restart an idle agent has no pending entry whose row is missing (`QuietInv`: each
error it hears of is a refusal or a lost race for the key, and what is pending is
stored, to be replayed or in hand). `LoopReturns` is reduced to its fairness:
`AnswerComes` says that an agent that waits has its own request under way, among
those of earlier runs, and `LoopsEnd` (`LoopAdvances`) gives the variant of the
loops, the initial snapshots left, then the entries left to replay, then the step of
the publish, which no step of the agent brings back.

`FileHistory_proofs`. `TypeInv` adds that a content is in hand while one is kept.
`StoreInv` adds to `KnownReadable` that the content in hand is readable, or lost,
before its hash is set. `LinkInv` relates the main task to the newest event: between
events the hash in memory is the content the newest event of the run ended with;
from the append on it is the content that event started from; and an event about to
be appended starts from the hash or from nothing, the latter only if the content of
the hash is lost. `AppendLinks` uses it to extend the chain, and every other step
leaves the log alone (`LogStays`). `NothingForgotten` is the safety half of
`Settles`: the last edit seen by the watcher is on its way as a touch, about to be
read, or known; once the queues are empty, the newest event tells what the file has,
or is a removal of this very content. The latter is what `history_deleted` shows,
and there is no other way to it.

`Realtime_proofs`. `FeedInv` (`FeedIsFaithful`) says of each subscription where its
positions lie in the log and, which the property does not, that a feed without a gap
has left out nothing wanted. `StoredInv` says that whatever a handler, a listener, a
ring or a channel holds is a row, so that a new row is nowhere yet. `LostInv`
(`NothingIsLost`) says that each row that is due is in the log past the start of the
subscription, or with the listener, or missed, and is in the log if its handler has
announced it or the ring was given it: that is why a listener that skips it loses
nothing. What a client was not sent has a gap in its place, between what was before
and what came after (`Whole`, kept by each message by `GapStays`), and not just
anywhere in its feed. `RestReachesAll` follows: the safety half of `Reaches`.
`OnceInv` (`BroadcastOnce`) counts, for an instance and an event, what has been
broadcast and what may still be by handler, inbox and listener: two in all, and one
where `late` does not except it. `ChainInv` (`SnapshotsChained`) says that the rows
of a file are in the order of their times, that one request is ready for it at a
time, and that this one is linked to the last row and later than all.

`Tunnel_proofs`. `TypeInv` includes `RegistrySound`, without which the gauge might
go under zero; `TypeOK` bounds the channels and the cache. `RouteInv` (`AgentRouted`): of a connection that was alone the
handlers before it are gone. `AnswerInv` (`AnswersMatch`): every message on its way
back fits the query it is about, with the statuses of the tunnel and of HTTP, and one
that says a revision is gone is about a side in `missed`; it needs that the queries of a
diff are at work only while it is fetched (`StageInv`). What is in `missed` was not there
when it was looked for (`MissesOnlyAbsent`), whatever has been kept since.
`Implementation` maps every step to one of `Questions` or to a stutter: a connection
that ends fails all queries that wait in one step of `Answer`, and a delivery
answers one; it needs `AnswerInv`, and for the cache that it has one entry for each
format (`OnePerFormat`, since `put` after `get` keeps it so) and that the list and
the set of what is remembered change alike (`PutRemembers`). `SoundInv`
(`DiffsSound`): cached renderings and answers have the sides they claim, and the ones
they leave out are in `gaps`; the sides come from `AnswerInv` and the refusals of
`Refusal`.

`Workflow_proofs`. `TypeInv` adds that a workflow that runs has a branch. `PrInv`
(`CompletedHasPr`) relates tasks, rows and panels to pull requests. `SoloInv`
(`PushesOwnChange`) says, step by step from the reset to the push, what a workflow
that is alone in the clone finds there: any step of another marks it as crossed, so
its own steps are the only ones to look at; its files and its index are those of
the base branch, or those of the default branch when it had the clone made. `PushKeeps`
says that a commit of a workflow stays at its branch, and that a branch that is a version
of the base branch only goes forward: a push that is not forced finds the one in its way,
but not the other, and what decides is that no commit a workflow makes comes after
another workflow's. `Implementation` maps every step to one of
`PullRequests` or to a stutter; it needs that the status of a row is that of the
step its task is at (`StatusInv`), that what a task has pushed is still there
(`PushedInv`), and `PrInv`. `PanelFollows` is the safety half of `Settles`: a panel
that polls, or has shown a verdict and polls on, follows a task that runs or a row with
a final status, but for the two exceptions of `Settles`.

`Access_proofs`. `ServerInv` (`NoSessionLeft`, `ApprovedOnly`) says where an account
stands while its sign-up, sign-in or rejection is handled: which of them still has
the deletion of the sessions before it, and that an account nobody approved is
banned or about to be. `LateInv` (`RejectedStaysOut`): what is late was asked for by
one who is banned still. `TokenInv` (`DashboardHasToken`): an identity comes
with a token and goes with it; what separates them is the end of the browser (`closed`)
and the two halves of a sign-in whose page is logged out in between (`crossed`), and
nothing else. `FormsServed` is the safety half of `SignInEnds`, for sign-ups too:
a form that was sent has its handler at work or its answer with the page, after a
broken connection, a new page or a log-out.

`DiffRender_proofs`, for files of any length, any number of changes and any context.
`AnswerInv` says that the changes are in order in both files and inside them.
`TypeCorrect` has `Types` and `InFile`, that the walk and what it shows stay within each
file's own length.
`WalkInv` (`BothRead`) says where the walk stands between two changes (`Place`) and,
where the answer is `Exact`, that the rows so far are the lines so far of both
files, in order. `ReportInv` (`NoChangeHidden`) keeps a row for each change passed.
`HunkInv` (`HunksAreRight`) says what the hunks are for the rows up to `pos` and
that they are a row apart; `ViewInv` (`ViewerKeeps`) that the rows up to `pos` are
shown once, in order for each file, and that what is collected are two runs. Both
rest on lemmas about half of an index and about the pairs of two runs (`Half`,
`PairedRuns`).

Only model-checked: the liveness properties (`RestartDelivers`, `LoopReturns`, and
the `Settles` of two modules, `Reaches`, `Ends`, `SignInEnds`), which need fairness
and so `ENABLED`, which the prover cannot treat, and the violated properties. Of all
these but `Ends` the part that says no state is a dead end is proved as named above;
what remains to TLC is that the fair steps come. For `Ends` the refinement gives
that a question goes forward only, and the timer of a query needs nothing but that
the query waits. Every invariant, action property and refinement of a passing run is
proved.

## Not modelled

- Of the diff engine the raw format, which is what difftastic prints, the reading of
  its JSON, the widths of columns and the cutting of long lines, the counts in hunk
  headers and `summary.rs`; of the viewer the words within a line and the reading of
  a text back into rows.
- Lint and diagnosis, redaction, the lists and forms of the dashboard: text processing
  and rendering over unbounded strings, with no state that another part depends on.
- The comparison of files in the dashboard (`file_compare.rs`), a page of its own that
  asks for two to four files, waits for all answers and shows the lines `similar` finds
  to differ. Read with the viewer in mind: the places its buttons scroll to are indices
  of the unified text, which in the side-by-side view are other rows after the first
  replaced block, and a file that could not be fetched is shown as an empty one.
- Host registry and heartbeats: upserts of one row by the host's id that read
  nothing. The status derived from the age of a heartbeat is computed by a function
  that has no caller.
- Credentials and path policy: stateless checks; in `Tunnel` a path is watched,
  denied, outside or too large, and in `AgentDelivery` a token is good or not.
- `max_spool_events` and `max_spool_bytes` only produce warnings. The choice of the
  watcher's backend and the globs decide which files are watched and keep no state.
- That the idempotency key has the minute of a change and its two hashes: a file
  that goes from one content to another twice in a minute has its second change
  taken for a duplicate. `AgentDelivery` lets two events share a key, and
  `DeliveredIsStored` speaks of the key; which changes share one would need a clock
  in `FileHistory`.
- The requests that are refused for their form, lists and reads of the control
  plane, and the back-off between two connections, which is any time.

The hash is taken to be injective, signatures to be sound, and the clocks of the
instances of the control plane to agree.
