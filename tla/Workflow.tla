------------------------------ MODULE Workflow ------------------------------
(***************************************************************************)
(* Pull requests.  An operator selects a change in the dashboard and asks  *)
(* for a pull request; a task of the control plane brings a clone of the   *)
(* repository up to date, writes the file, commits, pushes a branch and    *)
(* asks GitHub for the pull request, and the dashboard polls its status.   *)
(* All workflows of a repository share one clone and nothing guards it.    *)
(*                                                                         *)
(* One repository, one changed file to a workflow, one base branch, that   *)
(* need not be the default branch of the repository, with the same files.  *)
(* A file's value is the workflow that wrote it, or the version of the     *)
(* base branch, or that of the default branch; the k-th version of the     *)
(* base branch is taken to change every file.  The steps of git are those  *)
(* another task can come between; the previous snapshot of a change is     *)
(* left out, for it decides only what is logged.                           *)
(***************************************************************************)
EXTENDS Naturals, FiniteSets

CONSTANTS
  Workflow,     \* the workflows
  Event,        \* the changes selected
  EventOf,      \* the change each workflow is for
  File, FileOf, \* the files of the repository, and the one each change is found in
  Deletes,      \* the workflows whose change is that the file was deleted
  Branch,       \* the names an operator may give
  Taken,        \* those somebody has given to a branch made of the base branch
  BaseIsDefault, \* is the base branch the default branch of the repository?
  Other,        \* what the files are on the default branch when it is not
  MaxUpstream,  \* versions of the base branch
  MaxFaults,    \* errors of the network, the disk or the database, and restarts
  None

ASSUME WorkflowAssumption ==
  /\ EventOf \in [Workflow -> Event]
  /\ FileOf \in [Workflow -> File]
  /\ Deletes \subseteq Workflow /\ Taken \subseteq Branch
  /\ BaseIsDefault \in BOOLEAN
  /\ MaxUpstream \in Nat /\ MaxFaults \in Nat
  /\ Other \notin Nat \union Workflow \union {None}
  /\ None \notin Branch /\ None \notin Workflow /\ None \notin Nat
  /\ None \notin {"pending", "cloning", "applying", "committing", "pushing", "creating_pr",
                  "completed", "failed"}

VARIABLES
  row,      \* workflows: the status of each
  at,       \* where the task of each is
  branch,   \* the branch each was asked for
  got,      \* the version each has fetched
  index,    \* the index each has in memory
  clone,    \* the clone: is it there, its HEAD, branches, origin/base, files, index
  remote,   \* the branches of the repository at GitHub
  upstream, \* the version of its base branch
  pr,       \* the pull request of each branch, by workflow
  marked,   \* change_events.pr_url: the branch of the pull request
  panel,    \* the panel of the dashboard
  faults,
  crossed,  \* history: the workflows that used the clone while another did
  unwritten, \* history: those whose last status could not be written
  cloned    \* history: those the clone was made for

gitVars == <<branch, got, index, clone, crossed, cloned>>
hubVars == <<remote, upstream, pr, marked>>
vars == <<row, at, branch, got, index, clone, remote, upstream, pr, marked, panel,
          faults, crossed, unwritten, cloned>>

-----------------------------------------------------------------------------

Value == (0..MaxUpstream) \union Workflow \union {None, Other}
Tree == [File -> Value]
Commit == [base : 0..MaxUpstream, by : Workflow \union {None}, tree : Tree]

ASSUME NoneAssumption == None \notin Commit

UpTree(k) == [f \in File |-> k]
Up(k) == [base |-> k, by |-> None, tree |-> UpTree(k)]

\* What w makes of its file.
Change(w) == IF w \in Deletes THEN None ELSE w

NoBranch == [b \in Branch |-> None]

\* The files of the default branch.
Default(k) == IF BaseIsDefault THEN UpTree(k) ELSE [f \in File |-> Other]

\* A faulty variant of NewClone: HEAD is kept as a name of the default branch.
NewCloneNamed(k) == [there |-> TRUE, head |-> "main", refs |-> NoBranch, tracking |-> k,
                     tree |-> Default(k), index |-> Default(k)]

\* What git clone makes: it has all branches, and HEAD, the files and the index
\* are those of the default branch, which no workflow commits to.
NewClone(k) == [there |-> TRUE, head |-> None, refs |-> NoBranch, tracking |-> k,
                tree |-> Default(k), index |-> Default(k)]

Using == {"fetched", "wiped", "ready", "written", "staged", "committed"}

Running == Using \union {"pending", "pushed", "created", "completed", "erring"}

Fault == faults < MaxFaults /\ faults' = faults + 1

\* w works on the clone.
Touch(w) ==
  LET others == {v \in Workflow \ {w} : at[v] \in Using} IN
  crossed' = IF others = {} THEN crossed ELSE crossed \union others \union {w}

Go(w, s) == at' = [at EXCEPT ![w] = s]
Status(w, s) == row' = [row EXCEPT ![w] = s]

-----------------------------------------------------------------------------
\* The request.

\* An event that is shown with a pull request cannot be selected.  The row is
\* inserted and the task spawned; the answer may be lost, and the panel has failed
\* with nothing to follow.
Submit(w, b) ==
  /\ at[w] = "new" /\ marked[EventOf[w]] = None
  /\ branch' = [branch EXCEPT ![w] = b]
  /\ Status(w, "pending")
  /\ Go(w, "pending")
  /\ \/ panel' = [panel EXCEPT ![w] = "polling"] /\ UNCHANGED faults
     \/ panel' = [panel EXCEPT ![w] = "unsent"] /\ Fault
  /\ UNCHANGED <<got, index, clone, crossed, cloned, hubVars, unwritten>>

SubmitFails(w) ==
  /\ at[w] = "new"
  /\ Fault
  /\ Go(w, "ended")
  /\ panel' = [panel EXCEPT ![w] = "unsent"]
  /\ UNCHANGED <<row, gitVars, hubVars, unwritten>>

-----------------------------------------------------------------------------
\* The task.

\* Fetching sets origin/base.
Fetch(w) ==
  /\ at[w] = "pending" /\ clone.there
  /\ Status(w, "cloning")
  /\ Go(w, "fetched")
  /\ got' = [got EXCEPT ![w] = upstream]
  /\ clone' = [clone EXCEPT !.tracking = upstream]
  /\ Touch(w)
  /\ UNCHANGED <<branch, index, cloned, hubVars, panel, faults, unwritten>>

\* A faulty variant of Clean: what is staged stays.
CleanNothing(k) ==
  [clone EXCEPT !.refs = IF clone.head = None THEN @ ELSE [@ EXCEPT ![clone.head] = Up(k)]]

\* reset --hard: the branch HEAD is on, the files and the index.
Clean(k) ==
  [clone EXCEPT !.refs = IF clone.head = None THEN @ ELSE [@ EXCEPT ![clone.head] = Up(k)],
                !.tree = UpTree(k), !.index = UpTree(k)]

Reset(w) ==
  /\ at[w] = "fetched" /\ clone.there
  /\ Go(w, "ready")
  /\ clone' = Clean(got[w])
  /\ index' = [index EXCEPT ![w] = clone'.index]
  /\ Touch(w)
  /\ UNCHANGED <<row, branch, got, cloned, hubVars, panel, faults, unwritten>>

\* The clone cannot be opened or pulled: it is removed.
Discard(w) ==
  /\ at[w] \in {"pending", "fetched"}
  /\ IF clone.there THEN Fault ELSE UNCHANGED faults
  /\ Status(w, "cloning")
  /\ Go(w, "wiped")
  /\ clone' = [clone EXCEPT !.there = FALSE]
  /\ Touch(w)
  /\ UNCHANGED <<branch, got, index, cloned, hubVars, panel, unwritten>>

\* git clone wants an empty directory.
Clone(w) ==
  /\ at[w] = "wiped" /\ ~clone.there
  /\ Go(w, "ready")
  /\ clone' = NewClone(upstream)
  /\ index' = [index EXCEPT ![w] = clone'.index]
  /\ Touch(w)
  /\ cloned' = cloned \union {w}
  /\ UNCHANGED <<row, branch, got, hubVars, panel, faults, unwritten>>

Write(w) ==
  /\ at[w] = "ready" /\ clone.there
  /\ clone.tree[FileOf[w]] # None
  /\ Status(w, "applying")
  /\ Go(w, "written")
  /\ clone' = [clone EXCEPT !.tree[FileOf[w]] = Change(w)]
  /\ Touch(w)
  /\ UNCHANGED <<branch, got, index, cloned, hubVars, panel, faults, unwritten>>

\* The file as it then is goes into the index in memory, and that to the disk.
Stage(w) ==
  /\ at[w] = "written" /\ clone.there
  /\ w \in Deletes \/ clone.tree[FileOf[w]] # None
  /\ Go(w, "staged")
  /\ index' = [index EXCEPT ![w][FileOf[w]] = IF w \in Deletes THEN None ELSE clone.tree[FileOf[w]]]
  /\ clone' = [clone EXCEPT !.index = index'[w]]
  /\ Touch(w)
  /\ UNCHANGED <<row, branch, got, cloned, hubVars, panel, faults, unwritten>>

\* A new branch at origin/base, a commit of the index on it, and HEAD.
MakeCommit(w) ==
  /\ at[w] = "staged" /\ clone.there
  /\ clone.refs[branch[w]] = None
  /\ Status(w, "committing")
  /\ Go(w, "committed")
  /\ clone' = [clone EXCEPT
       !.refs[branch[w]] = [base |-> clone.tracking, by |-> w, tree |-> index[w]],
       !.head = branch[w]]
  /\ Touch(w)
  /\ UNCHANGED <<branch, got, index, cloned, hubVars, panel, faults, unwritten>>

\* A faulty variant of Pushes: the push is forced.
PushesForced(b, c) == TRUE

\* What c comes after in the history of the repository, other than itself.
Ancestor(d, c) == d.by = None /\ d.base <= c.base

\* A push that is not forced makes a branch, finds it as it is or moves it forward.
Pushes(b, c) == remote[b] \notin {None, c} => Ancestor(remote[b], c)

Push(w) ==
  /\ at[w] = "committed" /\ clone.there
  /\ LET c == clone.refs[branch[w]] IN
     /\ c # None /\ Pushes(branch[w], c)
     /\ remote' = [remote EXCEPT ![branch[w]] = c]
  /\ Status(w, "pushing")
  /\ Go(w, "pushed")
  /\ Touch(w)
  /\ UNCHANGED <<branch, got, index, clone, cloned, upstream, pr, marked, panel, faults, unwritten>>

\* GitHub wants commits that the base branch has not, and one request to a
\* branch.  The answer may be lost, which is an error.
CreatePr(w) ==
  /\ at[w] = "pushed"
  /\ remote[branch[w]].by # None /\ pr[branch[w]] = None
  /\ Status(w, "creating_pr")
  /\ pr' = [pr EXCEPT ![branch[w]] = w]
  /\ \/ Go(w, "created") /\ UNCHANGED faults
     \/ Go(w, "erring") /\ Fault
  /\ UNCHANGED <<gitVars, remote, upstream, marked, panel, unwritten>>

\* The status and the address; the database may do it and not be heard.
Complete(w) ==
  /\ at[w] = "created"
  /\ Status(w, "completed")
  /\ \/ Go(w, "completed") /\ UNCHANGED faults
     \/ Go(w, "erring") /\ Fault
  /\ UNCHANGED <<gitVars, hubVars, panel, unwritten>>

\* The event gets the address, or nobody minds.
Mark(w) ==
  /\ at[w] = "completed"
  /\ Go(w, "ended")
  /\ \/ /\ marked' = [marked EXCEPT ![EventOf[w]] = branch[w]]
        /\ UNCHANGED faults
     \/ UNCHANGED marked /\ Fault
  /\ UNCHANGED <<row, gitVars, remote, upstream, pr, panel, unwritten>>

\* What makes the next step impossible.
Refused(w) ==
  CASE at[w] = "wiped" -> clone.there
    [] at[w] = "ready" -> ~clone.there \/ clone.tree[FileOf[w]] = None
    [] at[w] = "written" -> ~clone.there \/ (w \notin Deletes /\ clone.tree[FileOf[w]] = None)
    [] at[w] = "staged" -> ~clone.there \/ clone.refs[branch[w]] # None
    [] at[w] = "committed" -> \/ ~clone.there \/ clone.refs[branch[w]] = None
                              \/ ~Pushes(branch[w], clone.refs[branch[w]])
    [] at[w] = "pushed" -> remote[branch[w]].by = None \/ pr[branch[w]] # None
    [] OTHER -> FALSE

\* A faulty variant of Failing: an error of GitHub is passed over.
FailingOn(w) == IF at[w] = "pushed" THEN "created" ELSE "erring"

\* Where a step that fails leads.
Failing(w) == "erring"

\* A step fails: it is impossible, objects it needs went with the clone, or
\* something is out of order.
Fail(w) ==
  /\ at[w] \in Running \ {"completed", "erring"}
  /\ IF Refused(w) \/ (w \in crossed /\ at[w] \in Using) THEN UNCHANGED faults ELSE Fault
  /\ Go(w, Failing(w))
  /\ UNCHANGED <<row, gitVars, hubVars, panel, unwritten>>

\* The failure is written to the row, if it can be.
Report(w) ==
  /\ at[w] = "erring"
  /\ Go(w, "ended")
  /\ \/ Status(w, "failed") /\ UNCHANGED <<faults, unwritten>>
     \/ /\ Fault /\ unwritten' = unwritten \union {w}
        /\ UNCHANGED row
  /\ UNCHANGED <<gitVars, hubVars, panel>>

-----------------------------------------------------------------------------

\* The control plane stops: its tasks are gone, and nobody takes them up.
Restart ==
  /\ Fault
  /\ at' = [w \in Workflow |-> IF at[w] \in Running THEN "ended" ELSE at[w]]
  /\ unwritten' = unwritten \union {w \in Workflow : at[w] \in Running \ {"completed"}}
  /\ UNCHANGED <<row, gitVars, hubVars, panel>>

\* Others push to the base branch.
Advance ==
  /\ upstream < MaxUpstream
  /\ upstream' = upstream + 1
  /\ UNCHANGED <<row, at, gitVars, remote, pr, marked, panel, faults, unwritten>>

\* A faulty variant of Final: a failure is not one.
FinalGood == {"completed"}

\* The statuses the panel minds.
Final == {"completed", "failed"}

\* The interval is not cleared: the panel polls on when it has shown one, and may
\* show the other.
Poll(w) ==
  /\ panel[w] \in {"polling", "completed", "failed"}
  /\ row[w] \in Final /\ row[w] # panel[w]
  /\ panel' = [panel EXCEPT ![w] = row[w]]
  /\ UNCHANGED <<row, at, gitVars, hubVars, faults, unwritten>>

Init ==
  /\ row = [w \in Workflow |-> None]
  /\ at = [w \in Workflow |-> "new"]
  /\ branch = [w \in Workflow |-> None]
  /\ got = [w \in Workflow |-> 0]
  /\ index = [w \in Workflow |-> UpTree(0)]
  /\ clone = [NewClone(0) EXCEPT !.there = FALSE]
  /\ remote = [b \in Branch |-> IF b \in Taken THEN Up(0) ELSE None]
  /\ upstream = 0
  /\ pr = NoBranch
  /\ marked = [e \in Event |-> None]
  /\ panel = [w \in Workflow |-> "editing"]
  /\ faults = 0
  /\ crossed = {}
  /\ unwritten = {}
  /\ cloned = {}

Work(w) ==
  \/ Fetch(w) \/ Reset(w) \/ Discard(w) \/ Clone(w) \/ Write(w) \/ Stage(w)
  \/ MakeCommit(w) \/ Push(w) \/ CreatePr(w) \/ Complete(w) \/ Mark(w)
  \/ Fail(w) \/ Report(w)

Next ==
  \/ \E w \in Workflow : Work(w) \/ Poll(w) \/ SubmitFails(w)
  \/ \E w \in Workflow, b \in Branch : Submit(w, b)
  \/ Restart \/ Advance

\* The runtime runs the task, the browser its interval timer.
Fairness == \A w \in Workflow : WF_vars(Work(w)) /\ WF_vars(Poll(w))

Spec == Init /\ [][Next]_vars /\ Fairness

-----------------------------------------------------------------------------
\* Properties.

Rows == {None, "pending", "cloning", "applying", "committing", "pushing", "creating_pr",
         "completed", "failed"}

Places == Running \union {"new", "ended"}

Repo == [there : BOOLEAN, head : Branch \union {None},
         refs : [Branch -> Commit \union {None}],
         tracking : 0..MaxUpstream, tree : Tree, index : Tree]

\* The variables have their types.
TypeOK ==
  /\ row \in [Workflow -> Rows]
  /\ at \in [Workflow -> Places]
  /\ branch \in [Workflow -> Branch \union {None}]
  /\ got \in [Workflow -> 0..MaxUpstream]
  /\ index \in [Workflow -> Tree]
  /\ clone \in Repo
  /\ remote \in [Branch -> Commit \union {None}]
  /\ upstream \in 0..MaxUpstream
  /\ pr \in [Branch -> Workflow \union {None}]
  /\ marked \in [Event -> Branch \union {None}]
  /\ panel \in [Workflow -> {"editing", "polling", "completed", "failed", "unsent"}]
  /\ faults \in 0..MaxFaults
  /\ crossed \subseteq Workflow /\ unwritten \subseteq Workflow /\ cloned \subseteq Workflow

\* A workflow that had the clone to itself pushes a commit of its own on a version
\* of the base branch, that differs from it in its file and in nothing else,
\* whatever earlier workflows, finished or failed, have left in the clone.  One that
\* had the clone made pushes the files of the default branch instead, whatever its
\* base branch is (git_ops.rs: clone_repo, pull_repo, commit_changes; README: "writes
\* the exact event changes into the working tree").
OwnChange ==
  \A w \in Workflow \ crossed : at[w] \in {"pushed", "created", "completed"} =>
    \E k \in 0..upstream :
      LET files == IF w \in cloned THEN Default(k) ELSE UpTree(k) IN
      remote[branch[w]] =
        [base |-> k, by |-> w, tree |-> [files EXCEPT ![FileOf[w]] = Change(w)]]

\* A workflow said to be completed, in its row or on the panel, has made the pull
\* request of its branch, and an event is linked to a pull request that was made
\* for that event (run_workflow_inner, workflow_panel.rs).
Truthful ==
  /\ \A w \in Workflow : "completed" \in {row[w], panel[w]} => pr[branch[w]] = w
  /\ \A e \in Event : marked[e] # None =>
       pr[marked[e]] # None /\ EventOf[pr[marked[e]]] = e

\* The tasks, the clone, GitHub, the database and the dashboard together implement
\* the pull requests: nothing of what the operator sees tells that workflows share a
\* clone, fail half way or are cut off (executor.rs, git_ops.rs, workflow_panel.rs).
Abstract == INSTANCE PullRequests WITH
  Changing <- {c \in Commit : c.by # None},
  pushed   <- remote

ImplementsPullRequests == Abstract!Spec

\* The panel that follows a workflow comes to say what its row says, completed or
\* failed, and to stay with it, unless the server was restarted or the failure could
\* not be written (run_workflow; nothing resumes a workflow).
Settles ==
  \A w \in Workflow : panel[w] = "polling" ~>
    ([](row[w] \in {"completed", "failed"} /\ panel[w] = row[w]) \/ w \in unwritten)

=============================================================================
