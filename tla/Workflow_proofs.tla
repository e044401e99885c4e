--------------------------- MODULE Workflow_proofs ---------------------------
(***************************************************************************)
(* Proofs about Workflow, for any number of workflows, files, branches,    *)
(* versions of the base branch and faults.                                 *)
(***************************************************************************)
EXTENDS Workflow, TLAPS

\* The types, and a workflow whose task runs or that has a row has a branch.
TypeInv ==
  /\ TypeOK
  /\ \A w \in Workflow : at[w] \in Running \/ row[w] # None => branch[w] \in Branch

-----------------------------------------------------------------------------
(* Values of the clone. *)

LEMMA ChangeType == \A w \in Workflow : Change(w) \in Value
  BY DEF Change, Value

LEMMA UpTreeType == \A k \in 0..MaxUpstream : UpTree(k) \in Tree
  BY DEF UpTree, Tree, Value

LEMMA UpType == \A k \in 0..MaxUpstream : Up(k) \in Commit
  BY UpTreeType DEF Up, Commit

LEMMA SetFile ==
  ASSUME NEW t \in Tree, NEW f \in File, NEW v \in Value
  PROVE  [t EXCEPT ![f] = v] \in Tree
  BY DEF Tree

LEMMA DefaultType == \A k \in 0..MaxUpstream : Default(k) \in Tree
  BY UpTreeType DEF Default, Tree, Value

LEMMA NewCloneType ==
  ASSUME NEW k \in 0..MaxUpstream
  PROVE  /\ NewClone(k) \in Repo
         /\ NewClone(k).tracking = k
         /\ NewClone(k).tree = Default(k) /\ NewClone(k).index = Default(k)
<1>1. NoBranch \in [Branch -> Commit \union {None}]
  BY DEF NoBranch
<1>2. Default(k) \in Tree
  BY DefaultType
<1> QED
  BY <1>1, <1>2 DEF NewClone, Repo

LEMMA CleanType ==
  ASSUME clone \in Repo, NEW k \in 0..MaxUpstream
  PROVE  /\ Clean(k) \in Repo
         /\ Clean(k).tracking = clone.tracking
         /\ Clean(k).tree = UpTree(k) /\ Clean(k).index = UpTree(k)
<1>1. UpTree(k) \in Tree /\ Up(k) \in Commit
  BY UpTreeType, UpType
<1> DEFINE refs == IF clone.head = None THEN clone.refs
                   ELSE [clone.refs EXCEPT ![clone.head] = Up(k)]
<1>2. refs \in [Branch -> Commit \union {None}]
  BY <1>1 DEF Repo
<1>3. Clean(k) = [clone EXCEPT !.refs = refs, !.tree = UpTree(k), !.index = UpTree(k)]
  BY DEF Clean
<1> HIDE DEF refs
<1> QED
  BY <1>1, <1>2, <1>3 DEF Repo

-----------------------------------------------------------------------------
(* The types. *)

\* Where a task is, and what its row says.
LEMMA MoveTypes ==
  ASSUME TypeInv, NEW w \in Workflow, NEW s \in Places, Go(w, s)
  PROVE  /\ at' \in [Workflow -> Places] /\ at'[w] = s
         /\ \A v \in Workflow \ {w} : at'[v] = at[v]
  BY DEF TypeInv, TypeOK, Go

LEMMA StatusTypes ==
  ASSUME TypeInv, NEW w \in Workflow, NEW s \in Rows, Status(w, s)
  PROVE  /\ row' \in [Workflow -> Rows] /\ row'[w] = s
         /\ \A v \in Workflow \ {w} : row'[v] = row[v]
  BY DEF TypeInv, TypeOK, Status

LEMMA TouchTypes ==
  ASSUME TypeInv, NEW w \in Workflow, Touch(w)
  PROVE  crossed' \subseteq Workflow /\ crossed \subseteq crossed'
  BY DEF TypeInv, TypeOK, Touch

\* What a step of a task may do to the types.
LEMMA StepTypes ==
  ASSUME TypeInv, NEW w \in Workflow, at[w] \in Running,
         NEW s \in Places, Go(w, s),
         \/ UNCHANGED row
         \/ \E r \in Rows : Status(w, r),
         UNCHANGED branch
  PROVE  /\ at' \in [Workflow -> Places] /\ row' \in [Workflow -> Rows]
         /\ branch' \in [Workflow -> Branch \union {None}]
         /\ \A v \in Workflow : at'[v] \in Running \/ row'[v] # None => branch'[v] \in Branch
<1>1. branch[w] \in Branch /\ at' \in [Workflow -> Places]
      /\ \A v \in Workflow \ {w} : at'[v] = at[v]
  BY MoveTypes DEF TypeInv
<1>2. row' \in [Workflow -> Rows] /\ \A v \in Workflow \ {w} : row'[v] = row[v]
  BY StatusTypes DEF TypeInv, TypeOK
<1> QED
  BY <1>1, <1>2 DEF TypeInv, TypeOK

\* The places and statuses the steps lead to.
LEMMA Names ==
  /\ {"pending", "fetched", "wiped", "ready", "written", "staged", "committed", "pushed",
      "created", "completed", "erring"} = Running
  /\ Places = Running \union {"new", "ended"}
  /\ {"pending", "cloning", "applying", "committing", "pushing", "creating_pr",
      "completed", "failed"} \subseteq Rows
  BY DEF Running, Using, Places, Rows

\* No step takes a variable out of its type.
LEMMA TypeStep == TypeInv /\ [Next]_vars => TypeInv'
<1> SUFFICES ASSUME TypeInv, [Next]_vars
             PROVE  TypeInv'
  OBVIOUS
<1> USE WorkflowAssumption
<1>0. /\ clone \in Repo /\ upstream \in 0..MaxUpstream
      /\ \A w \in Workflow : got[w] \in 0..MaxUpstream /\ index[w] \in Tree
  BY DEF TypeInv, TypeOK
<1>1. CASE UNCHANGED vars
  BY <1>1 DEF TypeInv, TypeOK, vars, gitVars, hubVars
<1>2. ASSUME NEW w \in Workflow, NEW b \in Branch, Submit(w, b) PROVE TypeInv'
  <2>1. /\ at' \in [Workflow -> Places] /\ at'[w] = "pending"
        /\ \A v \in Workflow \ {w} : at'[v] = at[v]
    BY <1>2, Names, MoveTypes DEF Submit
  <2>2. /\ row' \in [Workflow -> Rows] /\ row'[w] = "pending"
        /\ \A v \in Workflow \ {w} : row'[v] = row[v]
    BY <1>2, Names, StatusTypes DEF Submit
  <2>3. /\ branch' \in [Workflow -> Branch \union {None}] /\ branch'[w] = b
        /\ \A v \in Workflow \ {w} : branch'[v] = branch[v]
    BY <1>2 DEF Submit, TypeInv, TypeOK
  <2>4. panel' \in [Workflow -> {"editing", "polling", "completed", "failed", "unsent"}]
        /\ faults' \in 0..MaxFaults
    BY <1>2 DEF Submit, Fault, TypeInv, TypeOK
  <2> QED
    BY <1>2, <2>1, <2>2, <2>3, <2>4 DEF Submit, TypeInv, TypeOK, hubVars
<1>3. ASSUME NEW w \in Workflow, SubmitFails(w) PROVE TypeInv'
  <2>1. /\ at' \in [Workflow -> Places] /\ at'[w] = "ended"
        /\ \A v \in Workflow \ {w} : at'[v] = at[v]
    BY <1>3, Names, MoveTypes DEF SubmitFails
  <2>2. "ended" \notin Running
    BY Names
  <2>3. panel' \in [Workflow -> {"editing", "polling", "completed", "failed", "unsent"}]
        /\ faults' \in 0..MaxFaults
    BY <1>3 DEF SubmitFails, Fault, TypeInv, TypeOK
  <2>4. /\ UNCHANGED <<row, branch>>
        /\ \A v \in Workflow : at'[v] \in Running => at[v] \in Running
    BY <1>3, <2>1, <2>2 DEF SubmitFails, gitVars
  <2> QED
    BY <1>3, <2>1, <2>3, <2>4 DEF SubmitFails, TypeInv, TypeOK, hubVars, gitVars
\* The steps on the clone.
<1>4. ASSUME NEW w \in Workflow, at[w] \in Running, NEW s \in Places, Go(w, s),
             UNCHANGED row \/ \E r \in Rows : Status(w, r),
             clone' \in Repo, index' \in [Workflow -> Tree],
             got' \in [Workflow -> 0..MaxUpstream],
             remote' \in [Branch -> Commit \union {None}],
             UNCHANGED crossed \/ Touch(w),
             UNCHANGED cloned \/ cloned' = cloned \union {w},
             faults' \in 0..MaxFaults,
             UNCHANGED <<branch, upstream, pr, marked, panel, unwritten>>
      PROVE  TypeInv'
  BY <1>4, StepTypes, TouchTypes DEF TypeInv, TypeOK
<1>5. ASSUME NEW w \in Workflow, Fetch(w) PROVE TypeInv'
  <2>1. clone' \in Repo
    BY <1>0, <1>5 DEF Fetch, Repo
  <2>2. got' \in [Workflow -> 0..MaxUpstream]
    BY <1>0, <1>5 DEF Fetch, TypeInv, TypeOK
  <2> QED
    BY <1>4, <1>5, <2>1, <2>2, Names DEF Fetch, TypeInv, TypeOK, hubVars
<1>6. ASSUME NEW w \in Workflow, Reset(w) PROVE TypeInv'
  <2>1. clone' \in Repo /\ clone'.index \in Tree
    BY <1>0, <1>6, CleanType, UpTreeType DEF Reset
  <2>2. index' \in [Workflow -> Tree]
    BY <1>6, <2>1 DEF Reset, TypeInv, TypeOK
  <2> QED
    BY <1>4, <1>6, <2>1, <2>2, Names DEF Reset, TypeInv, TypeOK, hubVars
<1>7. ASSUME NEW w \in Workflow, Discard(w) PROVE TypeInv'
  <2>1. clone' \in Repo
    BY <1>0, <1>7 DEF Discard, Repo
  <2>2. faults' \in 0..MaxFaults
    BY <1>7 DEF Discard, Fault, TypeInv, TypeOK
  <2> QED
    BY <1>4, <1>7, <2>1, <2>2, Names DEF Discard, TypeInv, TypeOK, hubVars
<1>8. ASSUME NEW w \in Workflow, Clone(w) PROVE TypeInv'
  <2>1. clone' \in Repo /\ clone'.index \in Tree
    BY <1>0, <1>8, NewCloneType, DefaultType DEF Clone
  <2>2. index' \in [Workflow -> Tree]
    BY <1>8, <2>1 DEF Clone, TypeInv, TypeOK
  <2> QED
    BY <1>4, <1>8, <2>1, <2>2, Names DEF Clone, TypeInv, TypeOK, hubVars
<1>9. ASSUME NEW w \in Workflow, Write(w) PROVE TypeInv'
  <2>1. FileOf[w] \in File /\ Change(w) \in Value
    BY ChangeType DEF WorkflowAssumption
  <2>2. [clone.tree EXCEPT ![FileOf[w]] = Change(w)] \in Tree
    BY <1>0, <2>1, SetFile DEF Repo
  <2>3. clone' = [clone EXCEPT !.tree = [clone.tree EXCEPT ![FileOf[w]] = Change(w)]]
    BY <1>9 DEF Write
  <2>4. clone' \in Repo
    BY <1>0, <2>2, <2>3 DEF Repo
  <2> QED
    BY <1>4, <1>9, <2>4, Names DEF Write, TypeInv, TypeOK, hubVars
<1>10. ASSUME NEW w \in Workflow, Stage(w) PROVE TypeInv'
  <2> DEFINE v == IF w \in Deletes THEN None ELSE clone.tree[FileOf[w]]
  <2>1. FileOf[w] \in File /\ v \in Value
    BY <1>0 DEF WorkflowAssumption, Repo, Tree, Value
  <2>2. index' = [index EXCEPT ![w] = [index[w] EXCEPT ![FileOf[w]] = v]]
    BY <1>10 DEF Stage
  <2>3. [index[w] EXCEPT ![FileOf[w]] = v] \in Tree
    BY <1>0, <2>1, SetFile
  <2>4. index' \in [Workflow -> Tree] /\ index'[w] \in Tree
    BY <2>2, <2>3 DEF TypeInv, TypeOK
  <2>5. clone' \in Repo
    BY <1>0, <1>10, <2>4 DEF Stage, Repo
  <2> QED
    BY <1>4, <1>10, <2>4, <2>5, Names DEF Stage, TypeInv, TypeOK, hubVars
<1>11. ASSUME NEW w \in Workflow, MakeCommit(w) PROVE TypeInv'
  <2> DEFINE c == [base |-> clone.tracking, by |-> w, tree |-> index[w]]
  <2>1. branch[w] \in Branch /\ c \in Commit
    BY <1>0, <1>11, Names DEF MakeCommit, TypeInv, Repo, Commit
  <2>2. [clone.refs EXCEPT ![branch[w]] = c] \in [Branch -> Commit \union {None}]
    BY <1>0, <2>1 DEF Repo
  <2>3. clone' = [clone EXCEPT !.refs = [clone.refs EXCEPT ![branch[w]] = c],
                               !.head = branch[w]]
    BY <1>11 DEF MakeCommit
  <2>4. clone' \in Repo
    BY <1>0, <2>1, <2>2, <2>3 DEF Repo
  <2> QED
    BY <1>4, <1>11, <2>4, Names DEF MakeCommit, TypeInv, TypeOK, hubVars
<1>12. ASSUME NEW w \in Workflow, Push(w) PROVE TypeInv'
  <2>1. branch[w] \in Branch /\ clone.refs[branch[w]] \in Commit
    BY <1>0, <1>12, Names DEF Push, TypeInv, Repo
  <2>2. remote' \in [Branch -> Commit \union {None}]
    BY <1>12, <2>1 DEF Push, TypeInv, TypeOK
  <2> QED
    BY <1>4, <1>12, <2>2, Names DEF Push, TypeInv, TypeOK
\* The steps at GitHub and in the database.
<1>13. ASSUME NEW w \in Workflow, at[w] \in Running, NEW s \in Places, Go(w, s),
              UNCHANGED row \/ \E r \in Rows : Status(w, r),
              pr' \in [Branch -> Workflow \union {None}],
              marked' \in [Event -> Branch \union {None}],
              faults' \in 0..MaxFaults, unwritten' \subseteq Workflow,
              UNCHANGED <<branch, got, index, clone, crossed, cloned, remote, upstream, panel>>
       PROVE  TypeInv'
  BY <1>13, StepTypes DEF TypeInv, TypeOK
<1>14. ASSUME NEW w \in Workflow, CreatePr(w) PROVE TypeInv'
  <2>1. branch[w] \in Branch
    BY <1>14, Names DEF CreatePr, TypeInv
  <2>2. pr' \in [Branch -> Workflow \union {None}]
    BY <1>14, <2>1 DEF CreatePr, TypeInv, TypeOK
  <2>3. faults' \in 0..MaxFaults /\ (Go(w, "created") \/ Go(w, "erring"))
    BY <1>14 DEF CreatePr, Fault, TypeInv, TypeOK
  <2> QED
    BY <1>13, <1>14, <2>2, <2>3, Names DEF CreatePr, TypeInv, TypeOK, gitVars
<1>15. ASSUME NEW w \in Workflow, Complete(w) PROVE TypeInv'
  <2>1. faults' \in 0..MaxFaults /\ (Go(w, "completed") \/ Go(w, "erring"))
    BY <1>15 DEF Complete, Fault, TypeInv, TypeOK
  <2> QED
    BY <1>13, <1>15, <2>1, Names DEF Complete, TypeInv, TypeOK, gitVars, hubVars
<1>16. ASSUME NEW w \in Workflow, Mark(w) PROVE TypeInv'
  <2>1. branch[w] \in Branch
    BY <1>16, Names DEF Mark, TypeInv
  <2>2. marked' \in [Event -> Branch \union {None}] /\ faults' \in 0..MaxFaults
    BY <1>16, <2>1 DEF Mark, Fault, TypeInv, TypeOK
  <2> QED
    BY <1>13, <1>16, <2>2, Names DEF Mark, TypeInv, TypeOK, gitVars
<1>17. ASSUME NEW w \in Workflow, Fail(w) PROVE TypeInv'
  <2>1. faults' \in 0..MaxFaults /\ Go(w, "erring")
    BY <1>17 DEF Fail, Failing, Fault, TypeInv, TypeOK
  <2> QED
    BY <1>13, <1>17, <2>1, Names DEF Fail, TypeInv, TypeOK, gitVars, hubVars
<1>18. ASSUME NEW w \in Workflow, Report(w) PROVE TypeInv'
  <2>1. faults' \in 0..MaxFaults /\ unwritten' \subseteq Workflow
    BY <1>18 DEF Report, Fault, TypeInv, TypeOK
  <2> QED
    BY <1>13, <1>18, <2>1, Names DEF Report, TypeInv, TypeOK, gitVars, hubVars
<1>19. CASE Restart
  <2>1. /\ at' \in [Workflow -> Places]
        /\ \A w \in Workflow : at'[w] \in Running => at[w] \in Running
    BY <1>19, Names DEF Restart, TypeInv, TypeOK
  <2>2. faults' \in 0..MaxFaults /\ unwritten' \subseteq Workflow
    BY <1>19 DEF Restart, Fault, TypeInv, TypeOK
  <2> QED
    BY <1>19, <2>1, <2>2 DEF Restart, TypeInv, TypeOK, gitVars, hubVars
<1>20. CASE Advance
  BY <1>20 DEF Advance, TypeInv, TypeOK, gitVars
<1>21. ASSUME NEW w \in Workflow, Poll(w) PROVE TypeInv'
  <2>1. panel' \in [Workflow -> {"editing", "polling", "completed", "failed", "unsent"}]
    BY <1>21 DEF Poll, Final, TypeInv, TypeOK
  <2> QED
    BY <1>21, <2>1 DEF Poll, TypeInv, TypeOK, gitVars, hubVars
<1> QED
  BY <1>1, <1>2, <1>3, <1>5, <1>6, <1>7, <1>8, <1>9, <1>10, <1>11, <1>12, <1>14, <1>15,
     <1>16, <1>17, <1>18, <1>19, <1>20, <1>21 DEF Next, Work

LEMMA TypeInit == Init => TypeInv
<1> SUFFICES ASSUME Init PROVE TypeInv
  OBVIOUS
<1>1. 0 \in 0..MaxUpstream
  BY WorkflowAssumption
<1>2. NewClone(0) \in Repo /\ UpTree(0) \in Tree
  BY <1>1, NewCloneType, UpTreeType
<1>3. [NewClone(0) EXCEPT !.there = FALSE] \in Repo
  BY <1>2 DEF Repo
<1>4. /\ NoBranch \in [Branch -> Workflow \union {None}]
      /\ [b \in Branch |-> IF b \in Taken THEN Up(0) ELSE None] \in [Branch -> Commit \union {None}]
  BY <1>1, UpType DEF NoBranch
<1> QED
  BY <1>1, <1>2, <1>3, <1>4, WorkflowAssumption DEF Init, TypeInv, TypeOK, Rows, Places,
     Running, Using

\* Every variable keeps its type in every behaviour of every instance.
THEOREM TypeCorrect == Spec => []TypeOK
<1>1. TypeInv => TypeOK
  BY DEF TypeInv
<1> QED
  BY <1>1, TypeInit, TypeStep, PTL DEF Spec

-----------------------------------------------------------------------------
(* What has been pushed, and what is said to be completed. *)

\* What a workflow has pushed is never pushed over, be it with the same name and from
\* a clone that knows nothing of it, and a branch at a version of the base branch only
\* goes forward (push_branch).
Kept ==
  [][\A b \in Branch : remote[b] # None =>
       \/ remote'[b] = remote[b]
       \/ remote[b].by = None /\ remote'[b] # None /\ remote[b].base <= remote'[b].base]_vars

\* Only Push changes the branches at GitHub, and a commit of a workflow is the
\* ancestor of no other: the workflow that pushes has a branch, by TypeInv.
THEOREM PushKeeps == Spec => Kept
<1> DEFINE Keeps(b) ==
      \/ remote'[b] = remote[b]
      \/ remote[b].by = None /\ remote'[b] # None /\ remote[b].base <= remote'[b].base
<1>1. TypeInv /\ [Next]_vars => [\A b \in Branch : remote[b] # None => Keeps(b)]_vars
  <2> SUFFICES ASSUME TypeInv, Next, NEW b \in Branch, remote[b] # None
               PROVE  Keeps(b)
    BY DEF vars
  <2>1. CASE UNCHANGED remote
    BY <2>1
  <2>2. ASSUME NEW w \in Workflow, Push(w) PROVE Keeps(b)
    <3> DEFINE c == clone.refs[branch[w]]
    <3>1. /\ c # None /\ remote' = [remote EXCEPT ![branch[w]] = c]
          /\ remote[branch[w]] \notin {None, c} => Ancestor(remote[branch[w]], c)
      BY <2>2 DEF Push, Pushes
    <3>2. remote \in [Branch -> Commit \union {None}]
      BY DEF TypeInv, TypeOK
    <3> HIDE DEF c
    <3>3. CASE b # branch[w]
      BY <3>1, <3>2, <3>3
    <3>4. CASE b = branch[w]
      <4>1. remote'[b] = c /\ (remote[b] # c => Ancestor(remote[b], c))
        BY <3>1, <3>2, <3>4
      <4> QED
        BY <3>1, <4>1 DEF Ancestor
    <3> QED
      BY <3>3, <3>4
  <2>3. ASSUME NEW w \in Workflow, Work(w), ~Push(w) PROVE UNCHANGED remote
    BY <2>3 DEF Work, Fetch, Reset, Discard, Clone, Write, Stage, MakeCommit, CreatePr,
       Complete, Mark, Fail, Report, hubVars
  <2>4. ASSUME \/ \E w \in Workflow : Poll(w) \/ SubmitFails(w)
               \/ \E w \in Workflow, c \in Branch : Submit(w, c)
               \/ Restart \/ Advance
        PROVE  UNCHANGED remote
    BY <2>4 DEF Poll, SubmitFails, Submit, Restart, Advance, hubVars
  <2> QED
    BY <2>1, <2>2, <2>3, <2>4 DEF Next
<1> QED
  BY <1>1, TypeInit, TypeStep, PTL DEF Spec, Kept

\* A workflow past its pull request, or said to be completed, has that of its
\* branch; one not asked for yet has no row and no panel; marks are as Truthful says.
PrInv ==
  /\ \A w \in Workflow :
       at[w] \in {"created", "completed"} \/ "completed" \in {row[w], panel[w]} =>
         branch[w] \in Branch /\ pr[branch[w]] = w
  /\ \A w \in Workflow : at[w] = "new" => row[w] = None /\ panel[w] = "editing"
  /\ \A e \in Event : marked[e] # None => pr[marked[e]] # None /\ EventOf[pr[marked[e]]] = e

LEMMA PrInit == Init => PrInv
  BY WorkflowAssumption DEF Init, PrInv

\* A step that makes no pull request and marks no event, and that says
\* "completed" of a workflow only on the strength of the state before it.
LEMMA QuietStep ==
  ASSUME PrInv, UNCHANGED <<branch, pr, marked>>,
         \A w \in Workflow :
           /\ at'[w] \in {"created", "completed"} => at[w] \in {"created", "completed"}
           /\ row'[w] = "completed" => row[w] = "completed" \/ at[w] = "created"
           /\ panel'[w] = "completed" => "completed" \in {row[w], panel[w]}
           /\ at'[w] = "new" => at[w] = "new" /\ row'[w] = row[w] /\ panel'[w] = panel[w]
  PROVE  PrInv'
  BY DEF PrInv

LEMMA PrStep == TypeInv /\ PrInv /\ [Next]_vars => PrInv'
<1> SUFFICES ASSUME TypeInv, PrInv, [Next]_vars PROVE PrInv'
  OBVIOUS
<1> USE WorkflowAssumption
<1>0. /\ at \in [Workflow -> Places] /\ row \in [Workflow -> Rows]
      /\ panel \in [Workflow -> {"editing", "polling", "completed", "failed", "unsent"}]
      /\ branch \in [Workflow -> Branch \union {None}]
      /\ pr \in [Branch -> Workflow \union {None}]
      /\ marked \in [Event -> Branch \union {None}]
      /\ \A w \in Workflow : at[w] \in Running => branch[w] \in Branch
  BY DEF TypeInv, TypeOK
<1>1. CASE UNCHANGED vars
  BY <1>1, QuietStep DEF vars, gitVars, hubVars
<1>2. ASSUME NEW w \in Workflow, NEW b \in Branch, Submit(w, b) PROVE PrInv'
  <2>1. \A v \in Workflow \ {w} : /\ at'[v] = at[v] /\ row'[v] = row[v]
                                  /\ panel'[v] = panel[v] /\ branch'[v] = branch[v]
    BY <1>0, <1>2 DEF Submit, Go, Status
  <2>2. at'[w] = "pending" /\ row'[w] = "pending" /\ panel'[w] \in {"polling", "unsent"}
    BY <1>0, <1>2 DEF Submit, Go, Status
  <2> QED
    BY <1>2, <2>1, <2>2 DEF Submit, PrInv, hubVars
<1>3. ASSUME NEW w \in Workflow, SubmitFails(w) PROVE PrInv'
  <2>1. \A v \in Workflow \ {w} : at'[v] = at[v] /\ panel'[v] = panel[v]
    BY <1>0, <1>3 DEF SubmitFails, Go
  <2>2. at'[w] = "ended" /\ panel'[w] = "unsent"
    BY <1>0, <1>3 DEF SubmitFails, Go
  <2> QED
    BY <1>3, <2>1, <2>2, QuietStep DEF SubmitFails, hubVars, gitVars
\* The steps of a task that neither make a pull request nor complete.
<1>4. ASSUME NEW w \in Workflow, NEW s \in Places \ {"new", "created", "completed"}, Go(w, s),
             UNCHANGED row \/ \E r \in Rows \ {"completed"} : Status(w, r),
             UNCHANGED <<branch, pr, marked, panel>>
      PROVE  PrInv'
  <2>1. at'[w] = s /\ \A v \in Workflow \ {w} : at'[v] = at[v]
    BY <1>0, <1>4 DEF Go
  <2>2. /\ row'[w] = "completed" => row[w] = "completed"
        /\ \A v \in Workflow \ {w} : row'[v] = row[v]
    BY <1>0, <1>4 DEF Status
  <2> QED
    BY <1>4, <2>1, <2>2, QuietStep
<1>5. /\ {"fetched", "wiped", "ready", "written", "staged", "committed", "pushed", "erring",
          "ended"} \subseteq Places \ {"new", "created", "completed"}
      /\ {"cloning", "applying", "committing", "pushing", "failed"} \subseteq Rows \ {"completed"}
  BY DEF Places, Running, Using, Rows
<1>6. ASSUME NEW w \in Workflow,
             \/ Fetch(w) \/ Reset(w) \/ Discard(w) \/ Clone(w) \/ Write(w) \/ Stage(w)
             \/ MakeCommit(w) \/ Push(w)
      PROVE  PrInv'
  BY <1>4, <1>5, <1>6 DEF Fetch, Reset, Discard, Clone, Write, Stage, MakeCommit, Push, hubVars
<1>7. ASSUME NEW w \in Workflow, Fail(w) \/ Report(w) PROVE PrInv'
  BY <1>4, <1>5, <1>7 DEF Fail, Failing, Report, gitVars, hubVars
\* The pull request of a branch is made once, so no other workflow has it.
<1>8. ASSUME NEW w \in Workflow, CreatePr(w) PROVE PrInv'
  <2>1. branch[w] \in Branch /\ pr[branch[w]] = None /\ pr' = [pr EXCEPT ![branch[w]] = w]
    BY <1>0, <1>8, Names DEF CreatePr
  <2>2. /\ pr'[branch[w]] = w
        /\ \A b \in Branch : pr[b] # None => pr'[b] = pr[b]
    BY <1>0, <2>1
  <2>3. \A v \in Workflow \ {w} : at'[v] = at[v] /\ row'[v] = row[v]
    BY <1>0, <1>8 DEF CreatePr, Go, Status
  <2>4. at'[w] # "new" /\ UNCHANGED <<branch, marked, panel>>
    BY <1>0, <1>8 DEF CreatePr, Go, gitVars
  <2>5. \A v \in Workflow : pr[branch[v]] = v /\ branch[v] \in Branch => pr'[branch[v]] = v
    BY <2>2
  <2>6. branch[w] \in Branch /\ pr'[branch'[w]] = w
    BY <2>1, <2>2, <2>4
  <2>7. \A e \in Event : marked'[e] # None => pr'[marked'[e]] = pr[marked[e]] /\ marked'[e] = marked[e]
    BY <1>0, <2>2, <2>4 DEF PrInv
  <2> QED
    BY <1>0, <2>2, <2>3, <2>4, <2>5, <2>6, <2>7 DEF PrInv
<1>9. ASSUME NEW w \in Workflow, Complete(w) PROVE PrInv'
  <2>1. /\ at[w] = "created" /\ at'[w] \in {"completed", "erring"}
        /\ \A v \in Workflow \ {w} : at'[v] = at[v] /\ row'[v] = row[v]
    BY <1>0, <1>9 DEF Complete, Go, Status
  <2> QED
    BY <1>9, <2>1, QuietStep DEF Complete, gitVars, hubVars
<1>10. ASSUME NEW w \in Workflow, Mark(w) PROVE PrInv'
  <2>1. pr[branch[w]] = w /\ branch[w] \in Branch
    BY <1>0, <1>10, Names DEF Mark, PrInv
  <2>2. at'[w] = "ended" /\ \A v \in Workflow \ {w} : at'[v] = at[v]
    BY <1>0, <1>10 DEF Mark, Go
  <2>3. \A e \in Event : marked'[e] # None => pr[marked'[e]] # None /\ EventOf[pr[marked'[e]]] = e
    BY <1>0, <1>10, <2>1 DEF Mark, PrInv
  <2> QED
    BY <1>10, <2>2, <2>3 DEF Mark, PrInv, gitVars
<1>11. CASE Restart
  <2>1. \A w \in Workflow : at'[w] = "ended" \/ (at[w] \notin Running /\ at'[w] = at[w])
    BY <1>11 DEF Restart
  <2> QED
    BY <1>11, <2>1, Names, QuietStep DEF Restart, gitVars, hubVars
<1>12. CASE Advance
  BY <1>12, QuietStep DEF Advance, gitVars
<1>13. ASSUME NEW w \in Workflow, Poll(w) PROVE PrInv'
  <2>1. /\ panel[w] # "editing" /\ panel'[w] = row[w]
        /\ \A v \in Workflow \ {w} : panel'[v] = panel[v]
    BY <1>0, <1>13 DEF Poll
  <2>2. at[w] # "new"
    BY <2>1 DEF PrInv
  <2> QED
    BY <1>13, <2>1, <2>2, QuietStep DEF Poll, gitVars, hubVars
<1> QED
  BY <1>1, <1>2, <1>3, <1>6, <1>7, <1>8, <1>9, <1>10, <1>11, <1>12, <1>13 DEF Next, Work

\* A workflow said to be completed has made the pull request of its branch, and a
\* link on an event is to a pull request made for that event.
THEOREM CompletedHasPr == Spec => []Truthful
<1>1. PrInv => Truthful
  BY DEF PrInv, Truthful
<1> QED
  BY <1>1, TypeInit, TypeStep, PrInit, PrStep, PTL DEF Spec

-----------------------------------------------------------------------------
(* The commit of a workflow that has the clone to itself. *)

\* The files w starts from: those of a new clone, or those it resets to.
Files(w, k) == IF w \in cloned THEN Default(k) ELSE UpTree(k)
Mine(w, k) == [Files(w, k) EXCEPT ![FileOf[w]] = Change(w)]
Own(w, k) == [base |-> k, by |-> w, tree |-> Mine(w, k)]

\* How far w has come in the clone, on the version of the base branch it fetched.
InClone(w) ==
  LET k == clone.tracking IN
  /\ at[w] = "fetched" => got[w] = k
  /\ at[w] = "ready" => clone.tree = Files(w, k) /\ index[w] = Files(w, k)
  /\ at[w] = "written" => clone.tree = Mine(w, k) /\ index[w] = Files(w, k)
  /\ at[w] = "staged" => index[w] = Mine(w, k)
  /\ at[w] = "committed" => clone.refs[branch[w]] = Own(w, k)

\* What w has pushed.
AtGitHub(w) ==
  at[w] \in {"pushed", "created", "completed"} =>
    branch[w] \in Branch /\ \E k \in 0..upstream : remote[branch[w]] = Own(w, k)

SoloInv ==
  /\ clone.tracking \in 0..upstream
  /\ \A w \in Workflow : at[w] \in {"new", "pending", "fetched"} => w \notin cloned
  /\ \A w \in Workflow \ crossed : InClone(w) /\ AtGitHub(w)

LEMMA SoloInit == Init => SoloInv
<1> SUFFICES ASSUME Init PROVE SoloInv
  OBVIOUS
<1>1. clone.tracking = 0 /\ upstream = 0
  BY DEF Init, NewClone
<1> QED
  BY <1>1 DEF Init, SoloInv, InClone, AtGitHub

LEMMA OwnIsCommit ==
  ASSUME NEW w \in Workflow, NEW k \in 0..MaxUpstream
  PROVE  Own(w, k) \in Commit /\ Own(w, k) # None
<1>1. Mine(w, k) \in Tree
  BY UpTreeType, DefaultType, ChangeType, SetFile, WorkflowAssumption DEF Mine, Files
<1> QED
  BY <1>1, NoneAssumption DEF Own, Commit

\* A step that leaves the clone alone: a workflow stays where it is, goes where
\* it has no commit to answer for, or goes on from its push.
LEMMA SoloElsewhere ==
  ASSUME SoloInv, upstream \in Nat, upstream' \in Nat, upstream <= upstream',
         UNCHANGED <<got, index, clone, crossed, cloned, remote>>,
         \A u \in Workflow :
           \/ at'[u] = at[u] /\ branch'[u] = branch[u]
           \/ at[u] = "new" /\ at'[u] = "pending"
           \/ at'[u] \in {"ended", "erring"}
           \/ /\ at[u] \in {"pushed", "created"} /\ at'[u] \in {"created", "completed"}
              /\ branch'[u] = branch[u]
  PROVE  SoloInv'
<1>1. \A k \in 0..upstream : k \in 0..upstream'
  OBVIOUS
<1>2. clone'.tracking \in 0..upstream'
  BY <1>1 DEF SoloInv
<1>3. ASSUME NEW u \in Workflow \ crossed' PROVE InClone(u)' /\ AtGitHub(u)'
  <2>1. InClone(u) /\ AtGitHub(u)
    BY DEF SoloInv
  <2>2. CASE at'[u] = at[u] /\ branch'[u] = branch[u]
    BY <1>1, <2>1, <2>2 DEF InClone, AtGitHub, Own, Mine, Files
  <2>3. CASE at'[u] \in {"pending", "ended", "erring"}
    BY <2>3 DEF InClone, AtGitHub
  <2>4. CASE /\ at[u] \in {"pushed", "created"} /\ at'[u] \in {"created", "completed"}
             /\ branch'[u] = branch[u]
    BY <1>1, <2>1, <2>4 DEF InClone, AtGitHub, Own, Mine, Files
  <2> QED
    BY <2>2, <2>3, <2>4
<1>4. \A u \in Workflow : at'[u] \in {"new", "pending", "fetched"} => u \notin cloned'
  BY DEF SoloInv
<1> QED
  BY <1>2, <1>3, <1>4 DEF SoloInv

\* A step of w in the clone: whoever else is in it is crossed from then on, so
\* only w and what was pushed before have to be looked at.
LEMMA SoloInClone ==
  ASSUME TypeInv, SoloInv, NEW w \in Workflow, NEW s \in Places \ {"new", "pending"},
         Go(w, s), Touch(w), UNCHANGED <<branch, upstream>>,
         clone'.tracking \in 0..upstream,
         \A b \in Branch : remote[b] # None /\ remote[b].by # None => remote'[b] = remote[b],
         UNCHANGED cloned \/ (cloned' = cloned \union {w} /\ s = "ready"),
         s = "fetched" => w \notin cloned,
         w \notin crossed' => InClone(w)' /\ AtGitHub(w)'
  PROVE  SoloInv'
<1>1. crossed \subseteq crossed'
  BY TouchTypes
<1>2. \A u \in Workflow \ {w} : u \notin crossed' => at[u] \notin Using
  BY DEF Touch
<1>3. \A u \in Workflow \ {w} : at'[u] = at[u]
  BY MoveTypes
<1>4. ASSUME NEW u \in Workflow \ {w}, u \notin crossed' PROVE InClone(u)' /\ AtGitHub(u)'
  <2>1. at'[u] = at[u] /\ at[u] \notin Using
    BY <1>2, <1>3, <1>4
  <2>2. InClone(u)'
    BY <2>1 DEF InClone, Using
  <2>3. AtGitHub(u)
    BY <1>1, <1>4 DEF SoloInv
  <2>4. \A k \in 0..upstream : k \in 0..MaxUpstream
    BY WorkflowAssumption DEF TypeInv, TypeOK
  <2>5. \A k : Own(u, k)' = Own(u, k) /\ Own(u, k).by = u
    BY <1>4 DEF Own, Mine, Files
  <2>6. u # None
    BY WorkflowAssumption
  <2>7. AtGitHub(u)'
    BY <2>1, <2>3, <2>4, <2>5, <2>6, OwnIsCommit DEF AtGitHub
  <2> QED
    BY <2>2, <2>7
<1>5. \A u \in Workflow : at'[u] \in {"new", "pending", "fetched"} => u \notin cloned'
  BY <1>3, MoveTypes DEF SoloInv, Touch
<1> QED
  BY <1>4, <1>5 DEF SoloInv

\* In the clone, before the push.
LEMMA SoloWork ==
  ASSUME TypeInv, SoloInv, NEW w \in Workflow, NEW s \in Using, Go(w, s), Touch(w),
         UNCHANGED <<branch, upstream, remote>>,
         clone'.tracking \in 0..upstream,
         UNCHANGED cloned \/ (cloned' = cloned \union {w} /\ s = "ready"),
         s = "fetched" => w \notin cloned,
         w \notin crossed' => InClone(w)'
  PROVE  SoloInv'
<1>1. s \in Places \ {"new", "pending"} /\ at'[w] = s /\ s \notin {"pushed", "created", "completed"}
  BY MoveTypes DEF Places, Running, Using
<1>2. AtGitHub(w)'
  BY <1>1 DEF AtGitHub
<1> QED
  BY <1>1, <1>2, SoloInClone

LEMMA SoloStep == TypeInv /\ SoloInv /\ [Next]_vars => SoloInv'
<1> SUFFICES ASSUME TypeInv, SoloInv, [Next]_vars PROVE SoloInv'
  OBVIOUS
<1> USE WorkflowAssumption
<1>0. /\ at \in [Workflow -> Places] /\ branch \in [Workflow -> Branch \union {None}]
      /\ clone \in Repo /\ upstream \in Nat /\ upstream \in 0..MaxUpstream
      /\ got \in [Workflow -> 0..MaxUpstream] /\ index \in [Workflow -> Tree]
      /\ remote \in [Branch -> Commit \union {None}]
      /\ clone.tracking \in 0..upstream /\ upstream \in 0..upstream
      /\ {"fetched", "wiped", "ready", "written", "staged", "committed"} = Using
      /\ {"fetched", "wiped", "ready", "written", "staged", "committed", "pushed"}
           \subseteq Places \ {"new", "pending"}
      /\ \A w \in Workflow : at[w] \in Running => branch[w] \in Branch
  BY DEF TypeInv, TypeOK, SoloInv, Using, Places, Running
<1>a. /\ \A w \in Workflow \ crossed : InClone(w) /\ AtGitHub(w)
      /\ \A w \in Workflow : at[w] \in {"new", "pending", "fetched"} => w \notin cloned
  BY DEF SoloInv
<1>b. ASSUME NEW w \in Workflow, Touch(w), w \notin crossed' PROVE InClone(w) /\ AtGitHub(w)
  BY <1>a, <1>b, TouchTypes
<1>1. CASE UNCHANGED vars
  BY <1>0, <1>1, SoloElsewhere DEF vars, gitVars, hubVars
<1>2. ASSUME NEW w \in Workflow, NEW b \in Branch, Submit(w, b) PROVE SoloInv'
  <2>1. /\ at[w] = "new" /\ at'[w] = "pending"
        /\ \A v \in Workflow \ {w} : at'[v] = at[v] /\ branch'[v] = branch[v]
    BY <1>0, <1>2 DEF Submit, Go
  <2> QED
    BY <1>0, <1>2, <2>1, SoloElsewhere DEF Submit, hubVars
\* The steps of a task that leave the clone alone.
<1>3. ASSUME NEW w \in Workflow, NEW s \in {"created", "completed", "ended", "erring"}, Go(w, s),
             s = "created" => at[w] = "pushed", s = "completed" => at[w] = "created",
             UNCHANGED <<gitVars, remote, upstream>>
      PROVE  SoloInv'
  <2>1. at'[w] = s /\ \A v \in Workflow \ {w} : at'[v] = at[v]
    BY <1>0, <1>3 DEF Go
  <2> QED
    BY <1>0, <1>3, <2>1, SoloElsewhere DEF gitVars
<1>4. ASSUME NEW w \in Workflow,
             SubmitFails(w) \/ CreatePr(w) \/ Complete(w) \/ Mark(w) \/ Fail(w) \/ Report(w)
      PROVE  SoloInv'
  BY <1>3, <1>4 DEF SubmitFails, CreatePr, Complete, Mark, Fail, Failing, Report, hubVars
<1>5. ASSUME NEW w \in Workflow, Poll(w) PROVE SoloInv'
  BY <1>0, <1>5, SoloElsewhere DEF Poll, gitVars, hubVars
<1>6. CASE Restart
  <2>1. \A w \in Workflow : at'[w] = "ended" \/ at'[w] = at[w]
    BY <1>6 DEF Restart
  <2> QED
    BY <1>0, <1>6, <2>1, SoloElsewhere DEF Restart, gitVars, hubVars
<1>7. CASE Advance
  <2>1. upstream' \in Nat /\ upstream <= upstream'
    BY <1>0, <1>7 DEF Advance
  <2> QED
    BY <1>0, <1>7, <2>1, SoloElsewhere DEF Advance, gitVars
\* The steps in the clone.
<1>8. ASSUME NEW w \in Workflow, Fetch(w) PROVE SoloInv'
  <2>1. at'[w] = "fetched" /\ got'[w] = upstream /\ clone'.tracking = upstream
    BY <1>0, <1>8 DEF Fetch, Go, Repo
  <2>2. InClone(w)' /\ w \notin cloned
    BY <1>8, <1>a, <2>1 DEF InClone, Fetch
  <2> QED
    BY <1>0, <1>8, <2>1, <2>2, SoloWork DEF Fetch, hubVars
<1>9. ASSUME NEW w \in Workflow, Reset(w) PROVE SoloInv'
  <2>1. got[w] \in 0..MaxUpstream /\ clone' = Clean(got[w]) /\ at[w] = "fetched"
    BY <1>0, <1>9 DEF Reset
  <2>2. /\ clone'.tracking = clone.tracking
        /\ clone'.tree = UpTree(got[w]) /\ clone'.index = UpTree(got[w])
    BY <1>0, <2>1, CleanType
  <2>3. at'[w] = "ready" /\ index'[w] = clone'.index
    BY <1>0, <1>9 DEF Reset, Go
  <2>4. w \notin crossed' => got[w] = clone.tracking
    BY <1>9, <1>b, <2>1 DEF Reset, InClone
  <2>5. w \notin cloned'
    BY <1>9, <1>a, <2>1 DEF Reset
  <2>6. w \notin crossed' => InClone(w)'
    BY <2>2, <2>3, <2>4, <2>5 DEF InClone, Files
  <2> QED
    BY <1>0, <1>9, <2>2, <2>6, SoloWork DEF Reset, hubVars
<1>10. ASSUME NEW w \in Workflow, Discard(w) PROVE SoloInv'
  <2>1. at'[w] = "wiped" /\ clone'.tracking = clone.tracking
    BY <1>0, <1>10 DEF Discard, Go, Repo
  <2>2. InClone(w)'
    BY <2>1 DEF InClone
  <2> QED
    BY <1>0, <1>10, <2>1, <2>2, SoloWork DEF Discard, hubVars
<1>11. ASSUME NEW w \in Workflow, Clone(w) PROVE SoloInv'
  <2>1. /\ clone'.tracking = upstream
        /\ clone'.tree = Default(upstream) /\ clone'.index = Default(upstream)
    BY <1>0, <1>11, NewCloneType DEF Clone
  <2>2. at'[w] = "ready" /\ index'[w] = clone'.index /\ w \in cloned'
    BY <1>0, <1>11 DEF Clone, Go
  <2>3. InClone(w)'
    BY <2>1, <2>2 DEF InClone, Files
  <2> QED
    BY <1>0, <1>11, <2>1, <2>3, SoloWork DEF Clone, hubVars
<1>12. ASSUME NEW w \in Workflow, Write(w) PROVE SoloInv'
  <2>1. /\ clone'.tracking = clone.tracking
        /\ clone'.tree = [clone.tree EXCEPT ![FileOf[w]] = Change(w)]
        /\ at[w] = "ready" /\ at'[w] = "written" /\ index' = index /\ cloned' = cloned
    BY <1>0, <1>12 DEF Write, Go, Repo
  <2>2. w \notin crossed' => clone.tree = Files(w, clone.tracking)
                             /\ index[w] = Files(w, clone.tracking)
    BY <1>12, <1>b, <2>1 DEF Write, InClone
  <2>3. w \notin crossed' => InClone(w)'
    BY <2>1, <2>2 DEF InClone, Mine, Files
  <2> QED
    BY <1>0, <1>12, <2>1, <2>3, SoloWork DEF Write, hubVars
<1>13. ASSUME NEW w \in Workflow, Stage(w) PROVE SoloInv'
  <2> DEFINE v == IF w \in Deletes THEN None ELSE clone.tree[FileOf[w]]
  <2>1. /\ clone'.tracking = clone.tracking
        /\ at[w] = "written" /\ at'[w] = "staged" /\ cloned' = cloned
        /\ index'[w] = [index[w] EXCEPT ![FileOf[w]] = v]
    BY <1>0, <1>13 DEF Stage, Go, Repo
  <2>2. w \notin crossed' => clone.tree = Mine(w, clone.tracking)
                             /\ index[w] = Files(w, clone.tracking)
    BY <1>13, <1>b, <2>1 DEF Stage, InClone
  <2>3. FileOf[w] \in File /\ Mine(w, clone.tracking)[FileOf[w]] = Change(w)
    BY WorkflowAssumption DEF Mine, Files, Default, UpTree
  <2>4. w \notin crossed' => v = Change(w)
    BY <2>2, <2>3 DEF Change
  <2>5. w \notin crossed' => InClone(w)'
    BY <2>1, <2>2, <2>4 DEF InClone, Mine, Files
  <2> QED
    BY <1>0, <1>13, <2>1, <2>5, SoloWork DEF Stage, hubVars
<1>14. ASSUME NEW w \in Workflow, MakeCommit(w) PROVE SoloInv'
  <2>1. at[w] = "staged" /\ branch[w] \in Branch
    BY <1>0, <1>14, Names DEF MakeCommit
  <2>2. /\ clone'.tracking = clone.tracking /\ at'[w] = "committed"
        /\ branch' = branch /\ cloned' = cloned
        /\ clone'.refs[branch[w]] = [base |-> clone.tracking, by |-> w, tree |-> index[w]]
    BY <1>0, <1>14, <2>1 DEF MakeCommit, Go, Repo
  <2>3. w \notin crossed' => index[w] = Mine(w, clone.tracking)
    BY <1>14, <1>b, <2>1 DEF MakeCommit, InClone
  <2>4. w \notin crossed' => InClone(w)'
    BY <2>2, <2>3 DEF InClone, Own, Mine, Files
  <2> QED
    BY <1>0, <1>14, <2>2, <2>4, SoloWork DEF MakeCommit, hubVars
<1>15. ASSUME NEW w \in Workflow, Push(w) PROVE SoloInv'
  <2>1. at[w] = "committed" /\ branch[w] \in Branch
    BY <1>0, <1>15, Names DEF Push
  <2>2. /\ at'[w] = "pushed" /\ branch' = branch /\ upstream' = upstream /\ clone' = clone
        /\ cloned' = cloned
        /\ remote'[branch[w]] = clone.refs[branch[w]]
        /\ \A b \in Branch : remote[b] # None /\ remote[b].by # None => remote'[b] = remote[b]
    BY <1>0, <1>15, <2>1 DEF Push, Pushes, Ancestor, Go
  <2>3. w \notin crossed' => clone.refs[branch[w]] = Own(w, clone.tracking)
    BY <1>15, <1>b, <2>1 DEF Push, InClone
  <2>4. InClone(w)'
    BY <2>2 DEF InClone
  <2>5. w \notin crossed' => AtGitHub(w)'
    BY <1>0, <2>1, <2>2, <2>3 DEF AtGitHub, Own, Mine, Files
  <2> QED
    BY <1>0, <1>15, <2>2, <2>4, <2>5, SoloInClone DEF Push
<1> QED
  BY <1>1, <1>2, <1>4, <1>5, <1>6, <1>7, <1>8, <1>9, <1>10, <1>11, <1>12, <1>13, <1>14, <1>15
     DEF Next, Work

\* A workflow that had the clone to itself pushes its own change of its own file, on the
\* files of a version of the base branch, or on those of the default branch when it had
\* the clone made, whatever earlier workflows left in the clone.
THEOREM PushesOwnChange == Spec => []OwnChange
<1>1. SoloInv => OwnChange
  BY DEF SoloInv, AtGitHub, OwnChange, Own, Mine, Files
<1> QED
  BY <1>1, TypeInit, TypeStep, SoloInit, SoloStep, PTL DEF Spec

-----------------------------------------------------------------------------
(* The workflows implement the pull requests.                              *)

\* The status in the row of a workflow whose task is at a.
Says(a, r) ==
  /\ a = "new" => r = None
  /\ a = "pending" => r = "pending"
  /\ a \in {"fetched", "wiped", "ready"} => r = "cloning"
  /\ a \in {"written", "staged"} => r = "applying"
  /\ a = "committed" => r = "committing"
  /\ a = "pushed" => r = "pushing"
  /\ a = "created" => r = "creating_pr"
  /\ a = "completed" => r = "completed"
  /\ a = "erring" => r \notin {None, "failed"}

StatusInv == \A w \in Workflow : Says(at[w], row[w])

\* A step of one task, or the end of all.
LEMMA StatusMove ==
  ASSUME TypeInv, StatusInv, NEW w \in Workflow, NEW s \in Places, Go(w, s),
         \/ UNCHANGED row /\ Says(s, row[w])
         \/ \E r \in Rows : Status(w, r) /\ Says(s, r)
  PROVE  StatusInv'
<1>1. at'[w] = s /\ \A v \in Workflow \ {w} : at'[v] = at[v]
  BY MoveTypes
<1>2. Says(s, row'[w]) /\ \A v \in Workflow \ {w} : row'[v] = row[v]
  BY StatusTypes
<1> QED
  BY <1>1, <1>2 DEF StatusInv, Says

LEMMA StatusStep == TypeInv /\ StatusInv /\ [Next]_vars => StatusInv'
<1> SUFFICES ASSUME TypeInv, StatusInv, [Next]_vars PROVE StatusInv'
  OBVIOUS
<1> USE WorkflowAssumption
<1>0. Places = {"pending", "fetched", "wiped", "ready", "written", "staged", "committed",
                "pushed", "created", "completed", "erring", "new", "ended"}
  BY DEF Places, Running, Using
<1>1. CASE UNCHANGED <<at, row>>
  BY <1>1 DEF StatusInv
<1>2. ASSUME NEW w \in Workflow, NEW b \in Branch, Submit(w, b) PROVE StatusInv'
  BY <1>0, <1>2, StatusMove, Names DEF Submit, Says
<1>3. ASSUME NEW w \in Workflow, SubmitFails(w) PROVE StatusInv'
  BY <1>0, <1>3, StatusMove DEF SubmitFails, Says
<1>4. ASSUME NEW w \in Workflow, Fetch(w) \/ Discard(w) PROVE StatusInv'
  BY <1>0, <1>4, StatusMove, Names DEF Fetch, Discard, Says
<1>5. ASSUME NEW w \in Workflow, Reset(w) \/ Clone(w) \/ Stage(w) PROVE StatusInv'
  <2>1. Says(at[w], row[w])
    BY DEF StatusInv
  <2>2. CASE Reset(w) \/ Clone(w)
    <3>1. Says("ready", row[w])
      BY <2>1, <2>2 DEF Reset, Clone, Says
    <3> QED
      BY <1>0, <2>2, <3>1, StatusMove DEF Reset, Clone
  <2>3. CASE Stage(w)
    <3>1. Says("staged", row[w])
      BY <2>1, <2>3 DEF Stage, Says
    <3> QED
      BY <1>0, <2>3, <3>1, StatusMove DEF Stage
  <2> QED
    BY <1>5, <2>2, <2>3
<1>6. ASSUME NEW w \in Workflow, Write(w) \/ MakeCommit(w) \/ Push(w) PROVE StatusInv'
  BY <1>0, <1>6, StatusMove, Names DEF Write, MakeCommit, Push, Says
<1>7. ASSUME NEW w \in Workflow, CreatePr(w) \/ Complete(w) PROVE StatusInv'
  <2>1. CASE CreatePr(w)
    <3>1. Says("created", "creating_pr") /\ Says("erring", "creating_pr")
      BY DEF Says
    <3> QED
      BY <1>0, <2>1, <3>1, StatusMove, Names DEF CreatePr
  <2>2. CASE Complete(w)
    <3>1. Says("completed", "completed") /\ Says("erring", "completed")
      BY DEF Says
    <3> QED
      BY <1>0, <2>2, <3>1, StatusMove, Names DEF Complete
  <2> QED
    BY <1>7, <2>1, <2>2
<1>8. ASSUME NEW w \in Workflow, Mark(w) PROVE StatusInv'
  BY <1>0, <1>8, StatusMove DEF Mark, Says
<1>9. ASSUME NEW w \in Workflow, Fail(w) PROVE StatusInv'
  <2>1. Says(at[w], row[w])
    BY DEF StatusInv
  <2>2. at[w] \in {"pending", "fetched", "wiped", "ready", "written", "staged", "committed",
                   "pushed", "created"}
    BY <1>9, Names DEF Fail
  <2>3. Says("erring", row[w])
    BY <2>1, <2>2 DEF Says
  <2> QED
    BY <1>0, <1>9, <2>3, StatusMove DEF Fail, Failing
<1>10. ASSUME NEW w \in Workflow, Report(w) PROVE StatusInv'
  <2>1. \A r : Says("ended", r)
    BY DEF Says
  <2> QED
    BY <1>0, <1>10, <2>1, StatusMove, Names DEF Report
<1>11. CASE Restart
  <2>1. \A w \in Workflow : at'[w] = "ended" \/ at'[w] = at[w]
    BY <1>11 DEF Restart
  <2>2. row' = row /\ \A r : Says("ended", r)
    BY <1>11 DEF Restart, Says
  <2> QED
    BY <2>1, <2>2 DEF StatusInv
<1>12. ASSUME \/ Advance
              \/ \E w \in Workflow : Poll(w)
              \/ UNCHANGED vars
       PROVE  StatusInv'
  BY <1>1, <1>12 DEF Advance, Poll, vars
<1> QED
  BY <1>2, <1>3, <1>4, <1>5, <1>6, <1>7, <1>8, <1>9, <1>10, <1>11, <1>12 DEF Next, Work

\* What is pushed is a commit, and stays.
PushedInv == \A w \in Workflow : at[w] = "pushed" => remote[branch[w]] \in Commit

LEMMA PushedStep == TypeInv /\ PushedInv /\ [Next]_vars => PushedInv'
<1> SUFFICES ASSUME TypeInv, PushedInv, [Next]_vars PROVE PushedInv'
  OBVIOUS
<1>0. /\ at \in [Workflow -> Places] /\ branch \in [Workflow -> Branch \union {None}]
      /\ remote \in [Branch -> Commit \union {None}]
      /\ \A w \in Workflow : at[w] \in Running => branch[w] \in Branch
  BY DEF TypeInv, TypeOK
\* It is enough that nobody else comes to have pushed.
<1>1. ASSUME UNCHANGED remote,
             \A w \in Workflow :
               at'[w] = "pushed" => at[w] = "pushed" /\ branch'[w] = branch[w]
      PROVE  PushedInv'
  BY <1>1 DEF PushedInv
<1>2. ASSUME NEW w \in Workflow, NEW s \in Places \ {"pushed"}, Go(w, s),
             UNCHANGED <<remote, branch>>
      PROVE  PushedInv'
  <2>1. at'[w] = s /\ \A v \in Workflow \ {w} : at'[v] = at[v]
    BY <1>2, MoveTypes
  <2> QED
    BY <1>1, <1>2, <2>1
<1>3. {"fetched", "wiped", "ready", "written", "staged", "committed", "created", "completed",
       "erring", "pending", "ended"} \subseteq Places \ {"pushed"}
  BY DEF Places, Running, Using
<1>4. ASSUME NEW w \in Workflow, Work(w), ~Push(w) PROVE PushedInv'
  BY <1>2, <1>3, <1>4 DEF Work, Fetch, Reset, Discard, Clone, Write, Stage, MakeCommit, CreatePr,
     Complete, Mark, Fail, Failing, Report, gitVars, hubVars
<1>5. ASSUME NEW w \in Workflow, Push(w) PROVE PushedInv'
  <2> DEFINE c == clone.refs[branch[w]]
  <2>1. branch[w] \in Branch /\ c \in Commit
    BY <1>0, <1>5, Names DEF Push, TypeInv, TypeOK, Repo
  <2>2. remote' = [remote EXCEPT ![branch[w]] = c] /\ branch' = branch
    BY <1>5 DEF Push
  <2> HIDE DEF c
  <2>3. \A b \in Branch : remote[b] \in Commit => remote'[b] \in Commit
    BY <1>0, <2>1, <2>2
  <2>4. remote'[branch'[w]] \in Commit
    BY <1>0, <2>1, <2>2
  <2>5. \A v \in Workflow \ {w} : at'[v] = at[v]
    BY <1>0, <1>5 DEF Push, Go
  <2>6. \A v \in Workflow : at[v] = "pushed" => branch[v] \in Branch
    BY <1>0, Names
  <2> QED
    BY <2>2, <2>3, <2>4, <2>5, <2>6 DEF PushedInv
<1>6. ASSUME NEW w \in Workflow, NEW b \in Branch, Submit(w, b) PROVE PushedInv'
  <2>1. /\ at'[w] = "pending"
        /\ \A v \in Workflow \ {w} : at'[v] = at[v] /\ branch'[v] = branch[v]
    BY <1>0, <1>6 DEF Submit, Go
  <2> QED
    BY <1>1, <1>6, <2>1 DEF Submit, hubVars
<1>7. ASSUME NEW w \in Workflow, SubmitFails(w) PROVE PushedInv'
  BY <1>2, <1>3, <1>7 DEF SubmitFails, gitVars, hubVars
<1>8. CASE Restart
  <2>1. \A w \in Workflow : at'[w] = "ended" \/ at'[w] = at[w]
    BY <1>8 DEF Restart
  <2> QED
    BY <1>1, <1>8, <2>1 DEF Restart, gitVars, hubVars
<1>9. ASSUME Advance \/ (\E w \in Workflow : Poll(w)) \/ UNCHANGED vars PROVE PushedInv'
  BY <1>1, <1>9 DEF Advance, Poll, vars, gitVars, hubVars
<1> QED
  BY <1>4, <1>5, <1>6, <1>7, <1>8, <1>9 DEF Next

\* Every execution of the workflows is one of the pull requests: the steps in the
\* clone are the preparation of a commit, each status is given once and in its
\* turn, and a restart or an error that cannot be written is not seen at all.
THEOREM Implementation == Spec => ImplementsPullRequests
<1>1. Init => Abstract!Init
  <2>1. Up(0) \in Commit /\ Up(0).by = None
    BY UpType, WorkflowAssumption DEF Up
  <2>2. [b \in Branch |-> IF b \in Taken THEN Up(0) ELSE None]
          \in [Branch -> (Commit \ {c \in Commit : c.by # None}) \union {None}]
    BY <2>1
  <2> QED
    BY <2>2 DEF Init, NoBranch, Abstract!Init
<1>2. TypeInv /\ PrInv /\ StatusInv /\ PushedInv /\ [Next]_vars => [Abstract!Next]_(Abstract!vars)
  <2> SUFFICES ASSUME TypeInv, PrInv, StatusInv, PushedInv, [Next]_vars
               PROVE  [Abstract!Next]_(Abstract!vars)
    OBVIOUS
  <2> USE WorkflowAssumption
  <2>0. /\ \A w \in Workflow : Says(at[w], row[w])
        /\ \A w \in Workflow : at[w] = "new" => panel[w] = "editing"
        /\ \A w \in Workflow : at[w] \in Running => branch[w] \in Branch
    BY DEF StatusInv, PrInv, TypeInv
  <2>1. CASE UNCHANGED <<row, branch, remote, pr, marked, panel>>
    BY <2>1 DEF Abstract!vars
  <2>2. ASSUME NEW w \in Workflow, NEW b \in Branch, Submit(w, b) PROVE Abstract!Request(w, b)
    BY <2>0, <2>2 DEF Submit, Status, hubVars, Abstract!Request, Abstract!Status
  <2>3. ASSUME NEW w \in Workflow, SubmitFails(w) PROVE Abstract!RequestFails(w)
    BY <2>0, <2>3 DEF SubmitFails, gitVars, hubVars, Abstract!RequestFails
\* The steps in the clone.
  <2>4. ASSUME NEW w \in Workflow, Fetch(w) PROVE Abstract!Prepare(w)
    BY <2>0, <2>4 DEF Fetch, Says, Status, hubVars, Abstract!Prepare, Abstract!Status
  <2>5. ASSUME NEW w \in Workflow, Discard(w)
        PROVE  Abstract!Prepare(w) \/ UNCHANGED <<row, branch, remote, pr, marked, panel>>
    <3>1. CASE at[w] = "pending"
      BY <2>0, <2>5, <3>1 DEF Discard, Says, Status, hubVars, Abstract!Prepare, Abstract!Status
    <3>2. CASE at[w] = "fetched"
      <4>1. row[w] = "cloning" /\ row \in [Workflow -> Rows]
        BY <2>0, <3>2 DEF Says, TypeInv, TypeOK
      <4>2. row' = row
        BY <2>5, <4>1 DEF Discard, Status
      <4> QED
        BY <2>5, <4>2 DEF Discard, hubVars
    <3> QED
      BY <2>5, <3>1, <3>2 DEF Discard
  <2>6. ASSUME NEW w \in Workflow, Reset(w) \/ Clone(w) \/ Stage(w) \/ Fail(w)
        PROVE  UNCHANGED <<row, branch, remote, pr, marked, panel>>
    BY <2>6 DEF Reset, Clone, Stage, Fail, gitVars, hubVars
  <2>7. ASSUME NEW w \in Workflow, Write(w) \/ MakeCommit(w) PROVE Abstract!Prepare(w)
    BY <2>0, <2>7 DEF Write, MakeCommit, Says, Status, hubVars, Abstract!Prepare, Abstract!Status
\* The steps that are seen.
  <2>8. ASSUME NEW w \in Workflow, Push(w)
        PROVE  \E c \in Commit : Abstract!Push(w, c)
    <3> DEFINE c == clone.refs[branch[w]]
    <3>1. branch[w] \in Branch /\ c \in Commit
      BY <2>0, <2>8, Names DEF Push, TypeInv, TypeOK, Repo
    <3>2. /\ remote[branch[w]] \in {d \in Commit : d.by # None} => remote[branch[w]] = c
          /\ remote' = [remote EXCEPT ![branch[w]] = c] /\ row[w] = "committing"
      BY <2>0, <2>8, NoneAssumption DEF Push, Pushes, Ancestor, Says
    <3>3. Abstract!Push(w, c)
      BY <2>8, <3>2 DEF Push, Status, Abstract!Push, Abstract!Status
    <3> QED
      BY <3>1, <3>3
  <2>9. ASSUME NEW w \in Workflow, CreatePr(w) PROVE Abstract!Open(w)
    <3>1. branch[w] \in Branch /\ remote[branch[w]] \in Commit
      BY <2>0, <2>9, Names DEF CreatePr, PushedInv
    <3>2. row[w] = "pushing"
      BY <2>0, <2>9 DEF CreatePr, Says
    <3> QED
      BY <2>9, <3>1, <3>2 DEF CreatePr, Status, gitVars, Abstract!Open, Abstract!Status
  <2>10. ASSUME NEW w \in Workflow, Complete(w) PROVE Abstract!Complete(w)
    BY <2>0, <2>10 DEF Complete, PrInv, Says, Status, gitVars, hubVars, Abstract!Complete,
       Abstract!Status
  <2>11. ASSUME NEW w \in Workflow, Mark(w)
         PROVE  Abstract!Link(w) \/ UNCHANGED <<row, branch, remote, pr, marked, panel>>
    BY <2>0, <2>11 DEF Mark, Says, gitVars, Abstract!Link
  <2>12. ASSUME NEW w \in Workflow, Report(w)
         PROVE  Abstract!Fail(w) \/ UNCHANGED <<row, branch, remote, pr, marked, panel>>
    BY <2>0, <2>12 DEF Report, Says, Status, gitVars, hubVars, Abstract!Fail, Abstract!Status
  <2>13. ASSUME NEW w \in Workflow, Poll(w) PROVE Abstract!Poll(w)
    BY <2>13 DEF Poll, Final, gitVars, hubVars, Abstract!Poll
  <2>14. ASSUME Restart \/ Advance \/ UNCHANGED vars
         PROVE  UNCHANGED <<row, branch, remote, pr, marked, panel>>
    BY <2>14 DEF Restart, Advance, vars, gitVars, hubVars
  <2>15. ASSUME NEW w \in Workflow, Work(w) PROVE [Abstract!Next]_(Abstract!vars)
    BY <2>1, <2>4, <2>5, <2>6, <2>7, <2>8, <2>9, <2>10, <2>11, <2>12, <2>15
       DEF Work, Abstract!Next
  <2> QED
    BY <2>1, <2>2, <2>3, <2>13, <2>14, <2>15 DEF Next, Abstract!Next
<1>3. Init => StatusInv /\ PushedInv
  BY DEF Init, StatusInv, PushedInv, Says
<1> QED
  BY <1>1, <1>2, <1>3, TypeInit, TypeStep, PrInit, PrStep, StatusStep, PushedStep, PTL
     DEF Spec, ImplementsPullRequests, Abstract!Spec

-----------------------------------------------------------------------------
(* The panel. *)

\* A task that is over has left a final status, or could not, or was never begun
\* and the panel has been told.
EndInv ==
  \A w \in Workflow : at[w] = "ended" =>
    row[w] \in Final \/ w \in unwritten \/ panel[w] = "unsent"

LEMMA EndStep ==
  TypeInv /\ PrInv /\ StatusInv /\ EndInv /\ [Next]_vars => EndInv'
<1> SUFFICES ASSUME TypeInv, PrInv, StatusInv, EndInv, [Next]_vars PROVE EndInv'
  OBVIOUS
<1> USE WorkflowAssumption
<1>0. /\ at \in [Workflow -> Places] /\ row \in [Workflow -> Rows]
      /\ panel \in [Workflow -> {"editing", "polling", "completed", "failed", "unsent"}]
  BY DEF TypeInv, TypeOK
\* A step of w: the others are left as they are.
<1>1. ASSUME NEW w \in Workflow,
             unwritten \subseteq unwritten',
             \A v \in Workflow \ {w} :
               at'[v] = at[v] /\ row'[v] = row[v] /\ panel'[v] = panel[v],
             at'[w] = "ended" => row'[w] \in Final \/ w \in unwritten' \/ panel'[w] = "unsent"
      PROVE  EndInv'
  BY <1>1 DEF EndInv
<1>2. ASSUME NEW w \in Workflow, NEW s \in Places \ {"ended"}, Go(w, s),
             UNCHANGED row \/ \E r \in Rows : Status(w, r),
             UNCHANGED <<panel, unwritten>>
      PROVE  EndInv'
  <2>1. at'[w] = s /\ \A v \in Workflow \ {w} : at'[v] = at[v]
    BY <1>2, MoveTypes
  <2>2. \A v \in Workflow \ {w} : row'[v] = row[v]
    BY <1>2, StatusTypes
  <2> QED
    BY <1>1, <1>2, <2>1, <2>2
<1>3. {"fetched", "wiped", "ready", "written", "staged", "committed", "pushed", "created",
       "completed", "erring"} \subseteq Places \ {"ended"}
  BY DEF Places, Running, Using
<1>4. ASSUME NEW w \in Workflow, Work(w), ~Mark(w), ~Report(w) PROVE EndInv'
  BY <1>2, <1>3, <1>4, Names DEF Work, Fetch, Reset, Discard, Clone, Write, Stage, MakeCommit,
     Push, CreatePr, Complete, Fail, Failing, gitVars, hubVars
\* The row has been completed before the event is linked.
<1>5. ASSUME NEW w \in Workflow, Mark(w) PROVE EndInv'
  <2>1. row[w] = "completed"
    BY <1>5 DEF Mark, StatusInv, Says
  <2>2. \A v \in Workflow \ {w} : at'[v] = at[v]
    BY <1>0, <1>5 DEF Mark, Go
  <2> QED
    BY <1>1, <1>5, <2>1, <2>2 DEF Mark, Final
<1>6. ASSUME NEW w \in Workflow, Report(w) PROVE EndInv'
  <2>1. \A v \in Workflow \ {w} : at'[v] = at[v] /\ row'[v] = row[v]
    BY <1>0, <1>6 DEF Report, Go, Status
  <2>2. row'[w] \in Final \/ w \in unwritten'
    BY <1>0, <1>6 DEF Report, Status, Final
  <2> QED
    BY <1>1, <1>6, <2>1, <2>2 DEF Report
<1>7. ASSUME NEW w \in Workflow, NEW b \in Branch, Submit(w, b) PROVE EndInv'
  <2>1. at'[w] = "pending"
        /\ \A v \in Workflow \ {w} : at'[v] = at[v] /\ row'[v] = row[v] /\ panel'[v] = panel[v]
    BY <1>0, <1>7 DEF Submit, Go, Status
  <2> QED
    BY <1>1, <1>7, <2>1 DEF Submit
<1>8. ASSUME NEW w \in Workflow, SubmitFails(w) PROVE EndInv'
  <2>1. panel'[w] = "unsent"
        /\ \A v \in Workflow \ {w} : at'[v] = at[v] /\ panel'[v] = panel[v]
    BY <1>0, <1>8 DEF SubmitFails, Go
  <2> QED
    BY <1>1, <1>8, <2>1 DEF SubmitFails
\* A task that had completed its row has nothing left to say.
<1>9. CASE Restart
  <2>1. ASSUME NEW w \in Workflow, at'[w] = "ended"
        PROVE  row'[w] \in Final \/ w \in unwritten' \/ panel'[w] = "unsent"
    <3>1. CASE at[w] \in Running \ {"completed"}
      BY <1>9, <3>1 DEF Restart
    <3>2. CASE at[w] = "completed"
      BY <1>9, <3>2 DEF Restart, StatusInv, Says, Final
    <3>3. CASE at[w] \notin Running
      BY <1>9, <2>1, <3>3 DEF Restart, EndInv
    <3> QED
      BY <3>1, <3>2, <3>3
  <2> QED
    BY <2>1 DEF EndInv
<1>10. ASSUME NEW w \in Workflow, Poll(w) PROVE EndInv'
  <2>1. \A v \in Workflow \ {w} : panel'[v] = panel[v]
    BY <1>0, <1>10 DEF Poll
  <2> QED
    BY <1>1, <1>10, <2>1 DEF Poll, EndInv
<1>11. CASE Advance \/ UNCHANGED vars
  BY <1>11 DEF Advance, vars, EndInv
<1> QED
  BY <1>4, <1>5, <1>6, <1>7, <1>8, <1>9, <1>10, <1>11 DEF Next, Work

\* A panel that polls, as it goes on to do when it has shown a verdict, follows a
\* workflow whose task still runs, or whose row has a verdict, unless the server was
\* restarted or the failure could not be written: there is no other way in which a
\* workflow is left alone (run_workflow reports every error; workflow_panel.rs).
Followed ==
  \A w \in Workflow : panel[w] \in {"polling", "completed", "failed"} =>
    at[w] \in Running \/ row[w] \in Final \/ w \in unwritten

THEOREM PanelFollows == Spec => []Followed
<1>1. Init => EndInv
  BY DEF Init, EndInv
<1>2. TypeInv /\ PrInv /\ EndInv => Followed
  BY DEF TypeInv, TypeOK, PrInv, EndInv, Followed, Places
<1>3. Init => StatusInv
  BY DEF Init, StatusInv, Says
<1> QED
  BY <1>1, <1>2, <1>3, TypeInit, TypeStep, PrInit, PrStep, StatusStep, EndStep, PTL DEF Spec

=============================================================================
