---------------------------- MODULE PullRequests ----------------------------
(***************************************************************************)
(* What an operator is promised of the pull requests, with no clone,       *)
(* commit, task or restart in sight.  A workflow goes through its statuses *)
(* in their order, may fail at any of them, and is completed only when the *)
(* pull request of its branch is its own; what a workflow has pushed is    *)
(* never pushed over, and a branch has one pull request; a change is       *)
(* linked to the branch of a workflow that was asked for it; the panel     *)
(* says what the status says.                                              *)
(*                                                                         *)
(* Workflow implements this specification.                                 *)
(***************************************************************************)

CONSTANTS
  Workflow,  \* the workflows
  Event,     \* the changes selected
  EventOf,   \* the change each workflow is for
  Branch,    \* the names of branches
  Commit,    \* what may be pushed
  Changing,  \* the commits that are not versions of the base branch
  None

VARIABLES
  row,     \* the status of each workflow
  branch,  \* the branch each was asked for
  pushed,  \* the commit each branch is at
  pr,      \* the workflow that made the pull request of each branch
  marked,  \* the branch each change is linked to
  panel    \* what the panel says of each workflow

vars == <<row, branch, pushed, pr, marked, panel>>

Status(w, s) == row' = [row EXCEPT ![w] = s]

-----------------------------------------------------------------------------

Init ==
  /\ row = [w \in Workflow |-> None]
  /\ branch = [w \in Workflow |-> None]
  /\ pushed \in [Branch -> (Commit \ Changing) \union {None}]
  /\ pr = [b \in Branch |-> None]
  /\ marked = [e \in Event |-> None]
  /\ panel = [w \in Workflow |-> "editing"]

\* A change that has a pull request is not asked for again.  The panel may say
\* that the request was not made when it was.
Request(w, b) ==
  /\ panel[w] = "editing" /\ marked[EventOf[w]] = None
  /\ branch' = [branch EXCEPT ![w] = b]
  /\ Status(w, "pending")
  /\ \E s \in {"polling", "unsent"} : panel' = [panel EXCEPT ![w] = s]
  /\ UNCHANGED <<pushed, pr, marked>>

RequestFails(w) ==
  /\ panel[w] = "editing"
  /\ panel' = [panel EXCEPT ![w] = "unsent"]
  /\ UNCHANGED <<row, branch, pushed, pr, marked>>

\* The work that is seen in the status only.
Prepare(w) ==
  /\ \/ row[w] = "pending" /\ Status(w, "cloning")
     \/ row[w] = "cloning" /\ Status(w, "applying")
     \/ row[w] = "applying" /\ Status(w, "committing")
  /\ UNCHANGED <<branch, pushed, pr, marked, panel>>

Push(w, c) ==
  /\ row[w] = "committing"
  /\ pushed[branch[w]] \in Changing => pushed[branch[w]] = c
  /\ Status(w, "pushing")
  /\ pushed' = [pushed EXCEPT ![branch[w]] = c]
  /\ UNCHANGED <<branch, pr, marked, panel>>

Open(w) ==
  /\ row[w] = "pushing"
  /\ pushed[branch[w]] \in Changing /\ pr[branch[w]] = None
  /\ Status(w, "creating_pr")
  /\ pr' = [pr EXCEPT ![branch[w]] = w]
  /\ UNCHANGED <<branch, pushed, marked, panel>>

Complete(w) ==
  /\ row[w] = "creating_pr" /\ pr[branch[w]] = w
  /\ Status(w, "completed")
  /\ UNCHANGED <<branch, pushed, pr, marked, panel>>

\* Whatever has been done by then stays, a completed workflow included.
Fail(w) ==
  /\ row[w] \notin {None, "failed"}
  /\ Status(w, "failed")
  /\ UNCHANGED <<branch, pushed, pr, marked, panel>>

Link(w) ==
  /\ row[w] = "completed"
  /\ marked' = [marked EXCEPT ![EventOf[w]] = branch[w]]
  /\ UNCHANGED <<row, branch, pushed, pr, panel>>

Poll(w) ==
  /\ panel[w] \in {"polling", "completed", "failed"}
  /\ row[w] \in {"completed", "failed"}
  /\ panel' = [panel EXCEPT ![w] = row[w]]
  /\ UNCHANGED <<row, branch, pushed, pr, marked>>

Next ==
  \E w \in Workflow :
    \/ \E b \in Branch : Request(w, b)
    \/ RequestFails(w)
    \/ Prepare(w)
    \/ \E c \in Commit : Push(w, c)
    \/ Open(w) \/ Complete(w) \/ Fail(w) \/ Link(w) \/ Poll(w)

Spec == Init /\ [][Next]_vars

=============================================================================
