---------------------------- MODULE Access_proofs ----------------------------
(***************************************************************************)
(* Proofs about Access, for any number of users, forms, requests,          *)
(* decisions and faults.                                                   *)
(***************************************************************************)
EXTENDS Access, TLAPS

\* A handler that has still to give out a token has one.
Waiting(h) == h.at = "create" => h.id \in Session

\* The types, with the tokens of the handlers.
TypeInv == TypeOK /\ \A u \in User : Waiting(signUp[u]) /\ Waiting(signIn[u])

-----------------------------------------------------------------------------
(* What an update leaves and sets. *)

Stage == {"idle", "mark", "revoke", "check", "deny", "answer"}

LEMMA BlankTypes ==
  /\ Idle \in Handler /\ Waiting(Idle) /\ Idle.at = "idle"
  /\ Blank \in Request /\ Blank.at = "idle" /\ ~Blank.late
  BY AccessAssumption DEF Idle, Handler, Reply, Waiting, Blank, Request

LEMMA NoToken == 0 \in 0..MaxSession
  BY AccessAssumption DEF AccessAssumption

LEMMA SetAccountTypes ==
  ASSUME account \in [User -> Account], NEW u \in User, NEW a \in Account, SetAccount(u, a)
  PROVE  /\ account' \in [User -> Account] /\ account'[u] = a
         /\ \A v \in User \ {u} : account'[v] = account[v]
  BY DEF SetAccount

LEMMA SetPageTypes ==
  ASSUME browser \in [User -> Page], NEW u \in User, NEW b \in Page, SetPage(u, b)
  PROVE  /\ browser' \in [User -> Page] /\ browser'[u] = b
         /\ \A v \in User \ {u} : browser'[v] = browser[v]
  BY DEF SetPage

LEMMA SetRequestTypes ==
  ASSUME request \in [User -> [Slot -> Request]], NEW u \in User, NEW k \in Slot,
         NEW r \in Request, SetRequest(u, k, r)
  PROVE  /\ request' \in [User -> [Slot -> Request]] /\ request'[u][k] = r
         /\ \A v \in User, j \in Slot :
              v # u \/ j # k => request'[v][j] = request[v][j]
  BY DEF SetRequest

LEMMA SetUpTypes ==
  ASSUME TypeInv, NEW u \in User, NEW h \in Handler, Waiting(h), SetUp(u, h)
  PROVE  /\ signUp' \in [User -> Handler] /\ signUp'[u] = h
         /\ \A v \in User \ {u} : signUp'[v] = signUp[v]
         /\ \A v \in User : Waiting(signUp'[v])
<1>1. /\ signUp' \in [User -> Handler] /\ signUp'[u] = h
      /\ \A v \in User \ {u} : signUp'[v] = signUp[v]
  BY DEF TypeInv, TypeOK, SetUp
<1> QED
  BY <1>1 DEF TypeInv

LEMMA UpToTypes ==
  ASSUME TypeInv, NEW u \in User, NEW step \in Stage, UpTo(u, step)
  PROVE  /\ signUp' \in [User -> Handler] /\ signUp'[u].at = step
         /\ \A v \in User \ {u} : signUp'[v] = signUp[v]
         /\ \A v \in User : Waiting(signUp'[v])
<1>1. signUp[u] \in Handler
  BY DEF TypeInv, TypeOK
<1>2. [signUp[u] EXCEPT !.at = step] \in Handler
  BY <1>1 DEF Handler, Stage
<1>3. [signUp[u] EXCEPT !.at = step].at = step
  BY <1>1 DEF Handler
<1>4. Waiting([signUp[u] EXCEPT !.at = step])
  BY <1>3 DEF Waiting, Stage
<1> QED
  BY <1>2, <1>3, <1>4, SetUpTypes DEF UpTo

LEMMA UpEndsTypes ==
  ASSUME TypeInv, NEW u \in User, NEW say \in Reply, UpEnds(u, say)
  PROVE  /\ signUp' \in [User -> Handler] /\ signUp'[u].at = "answer"
         /\ \A v \in User \ {u} : signUp'[v] = signUp[v]
         /\ \A v \in User : Waiting(signUp'[v])
<1>1. signUp[u] \in Handler
  BY DEF TypeInv, TypeOK
<1>2. [signUp[u] EXCEPT !.at = "answer", !.say = say] \in Handler
  BY <1>1 DEF Handler
<1>3. [signUp[u] EXCEPT !.at = "answer", !.say = say].at = "answer"
  BY <1>1 DEF Handler
<1>4. Waiting([signUp[u] EXCEPT !.at = "answer", !.say = say])
  BY <1>3 DEF Waiting
<1> QED
  BY <1>2, <1>3, <1>4, SetUpTypes DEF UpEnds

LEMMA SetInTypes ==
  ASSUME TypeInv, NEW u \in User, NEW h \in Handler, Waiting(h), SetIn(u, h)
  PROVE  /\ signIn' \in [User -> Handler] /\ signIn'[u] = h
         /\ \A v \in User \ {u} : signIn'[v] = signIn[v]
         /\ \A v \in User : Waiting(signIn'[v])
<1>1. /\ signIn' \in [User -> Handler] /\ signIn'[u] = h
      /\ \A v \in User \ {u} : signIn'[v] = signIn[v]
  BY DEF TypeInv, TypeOK, SetIn
<1> QED
  BY <1>1 DEF TypeInv

LEMMA InToTypes ==
  ASSUME TypeInv, NEW u \in User, NEW step \in Stage, InTo(u, step)
  PROVE  /\ signIn' \in [User -> Handler] /\ signIn'[u].at = step
         /\ \A v \in User \ {u} : signIn'[v] = signIn[v]
         /\ \A v \in User : Waiting(signIn'[v])
<1>1. signIn[u] \in Handler
  BY DEF TypeInv, TypeOK
<1>2. [signIn[u] EXCEPT !.at = step] \in Handler
  BY <1>1 DEF Handler, Stage
<1>3. [signIn[u] EXCEPT !.at = step].at = step
  BY <1>1 DEF Handler
<1>4. Waiting([signIn[u] EXCEPT !.at = step])
  BY <1>3 DEF Waiting, Stage
<1> QED
  BY <1>2, <1>3, <1>4, SetInTypes DEF InTo

LEMMA InEndsTypes ==
  ASSUME TypeInv, NEW u \in User, NEW say \in Reply, InEnds(u, say)
  PROVE  /\ signIn' \in [User -> Handler] /\ signIn'[u].at = "answer"
         /\ \A v \in User \ {u} : signIn'[v] = signIn[v]
         /\ \A v \in User : Waiting(signIn'[v])
<1>1. signIn[u] \in Handler
  BY DEF TypeInv, TypeOK
<1>2. [signIn[u] EXCEPT !.at = "answer", !.say = say] \in Handler
  BY <1>1 DEF Handler
<1>3. [signIn[u] EXCEPT !.at = "answer", !.say = say].at = "answer"
  BY <1>1 DEF Handler
<1>4. Waiting([signIn[u] EXCEPT !.at = "answer", !.say = say])
  BY <1>3 DEF Waiting
<1> QED
  BY <1>2, <1>3, <1>4, SetInTypes DEF InEnds

LEMMA Words == {"ok", "pending", "refused"} \subseteq Reply
  BY DEF Reply

LEMMA CheckTypes ==
  ASSUME TypeInv, NEW u \in User, Check(u)
  PROVE  /\ signIn' \in [User -> Handler]
         /\ \A v \in User \ {u} : signIn'[v] = signIn[v]
         /\ \A v \in User : Waiting(signIn'[v])
         /\ signIn'[u].at = IF Allowed(account[u]) THEN "answer" ELSE "deny"
<1>1. CASE Allowed(account[u])
  BY <1>1, Words, InEndsTypes DEF Check
<1>2. CASE ~Allowed(account[u])
  <2> DEFINE h == [signIn[u] EXCEPT !.at = "deny", !.say = Says(account[u])]
  <2>1. signIn[u] \in Handler /\ Says(account[u]) \in Reply
    BY Words DEF TypeInv, TypeOK, Says
  <2>2. h \in Handler /\ h.at = "deny"
    BY <2>1 DEF Handler
  <2>3. Waiting(h)
    BY <2>2 DEF Waiting
  <2>4. SetIn(u, h)
    BY <1>2 DEF Check
  <2> HIDE DEF h
  <2> QED
    BY <1>2, <2>2, <2>3, <2>4, SetInTypes
<1> QED
  BY <1>1, <1>2

LEMMA ReceivesTypes ==
  ASSUME TypeInv, NEW u \in User, NEW form, NEW h \in Handler, Receives(u, form, h)
  PROVE  /\ browser' \in [User -> Page]
         /\ \A v \in User \ {u} : browser'[v] = browser[v]
         /\ browser'[u].auth = browser[u].auth
         /\ browser'[u].closed => browser[u].closed
         /\ browser'[u].reply = "ok" /\ browser'[u] # browser[u] => browser'[u].csrf
<1>1. browser \in [User -> Page] /\ browser[u] \in Page
  BY DEF TypeInv, TypeOK
<1>2. CASE browser[u].form # form \/ browser[u].reply # "none"
  BY <1>1, <1>2 DEF Receives
<1>3. CASE ~(browser[u].form # form \/ browser[u].reply # "none") /\ h.say = "ok"
  <2> DEFINE b == [browser[u] EXCEPT !.cookie = h.id, !.csrf = TRUE, !.reply = "ok",
                     !.closed = FALSE]
  <2>1. b \in Page /\ b.auth = browser[u].auth /\ b.csrf
    BY <1>1, Words DEF Page, Handler
  <2>2. SetPage(u, b) /\ ~b.closed
    BY <1>1, <1>3 DEF Receives, Page
  <2> HIDE DEF b
  <2> QED
    BY <1>1, <2>1, <2>2, SetPageTypes
<1>4. CASE ~(browser[u].form # form \/ browser[u].reply # "none") /\ h.say # "ok"
  <2> DEFINE b == [browser[u] EXCEPT !.reply = h.say]
  <2>1. b \in Page /\ b.auth = browser[u].auth /\ b.reply # "ok" /\ b.closed = browser[u].closed
    BY <1>1, <1>4 DEF Page, Handler
  <2>2. SetPage(u, b)
    BY <1>4 DEF Receives
  <2> HIDE DEF b
  <2> QED
    BY <1>1, <2>1, <2>2, SetPageTypes
<1> QED
  BY <1>2, <1>3, <1>4

-----------------------------------------------------------------------------
(* The types. *)

\* No step takes a variable out of its type.
LEMMA TypeStep == TypeInv /\ [Next]_vars => TypeInv'
<1> SUFFICES ASSUME TypeInv, [Next]_vars
             PROVE  TypeInv'
  OBVIOUS
<1> USE AccessAssumption
<1> USE DEF TypeInv, TypeOK
<1>0. CASE UNCHANGED vars
  BY <1>0 DEF vars, serverVars
<1>1. ASSUME NEW u \in User, SubmitSignUp(u) PROVE TypeInv'
  <2>1. made' \in 0..MaxSession /\ made' \in Session
    BY <1>1 DEF SubmitSignUp, Submits, Session
  <2>2. [browser[u] EXCEPT !.form = "signUp"] \in Page
    BY SMTT(40) DEF Page
  <2>3. browser' \in [User -> Page]
    BY <1>1, <2>2, SetPageTypes DEF SubmitSignUp, Submits
  <2> DEFINE h == [at |-> "create", id |-> made', say |-> "none"]
  <2>4. h \in Handler /\ Waiting(h)
    BY <2>1 DEF Handler, Reply, Waiting
  <2>5. signUp' \in [User -> Handler] /\ \A v \in User : Waiting(signUp'[v])
    BY <1>1, <2>4, SetUpTypes DEF SubmitSignUp
  <2> QED
    BY <1>1, <2>1, <2>3, <2>5 DEF SubmitSignUp
<1>2. ASSUME NEW u \in User, SubmitSignIn(u) PROVE TypeInv'
  <2>1. made' \in 0..MaxSession /\ made' \in Session
    BY <1>2 DEF SubmitSignIn, Submits, Session
  <2>2. [browser[u] EXCEPT !.form = "signIn"] \in Page
    BY SMTT(40) DEF Page
  <2>3. browser' \in [User -> Page]
    BY <1>2, <2>2, SetPageTypes DEF SubmitSignIn, Submits
  <2> DEFINE h == [at |-> "create", id |-> made', say |-> "none"]
  <2>4. h \in Handler /\ Waiting(h)
    BY <2>1 DEF Handler, Reply, Waiting
  <2>5. signIn' \in [User -> Handler] /\ \A v \in User : Waiting(signIn'[v])
    BY <1>2, <2>4, SetInTypes DEF SubmitSignIn
  <2> QED
    BY <1>2, <2>1, <2>3, <2>5 DEF SubmitSignIn
<1>3. ASSUME NEW u \in User, SigningUp(u) PROVE TypeInv'
  <2> USE DEF upFrame
  <2>1. CASE CreateAccount(u)
    <3>1. signUp' \in [User -> Handler] /\ \A v \in User : Waiting(signUp'[v])
      BY <2>1, Words, UpToTypes, UpEndsTypes DEF CreateAccount, Stage
    <3>2. signUp[u].id \in Session
      BY <2>1 DEF CreateAccount, Waiting
    <3>3. sessions' \in [User -> SUBSET Session]
      BY <2>1, <3>2 DEF CreateAccount, Add
    <3>4. PICK role \in {"none", "user"} :
            SetAccount(u, [exists |-> TRUE, banned |-> FALSE, role |-> role])
      BY <2>1 DEF CreateAccount
    <3>5. [exists |-> TRUE, banned |-> FALSE, role |-> role] \in Account
      BY DEF Account
    <3>6. account' \in [User -> Account]
      BY <3>4, <3>5, SetAccountTypes
    <3> QED
      BY <2>1, <3>1, <3>3, <3>6 DEF CreateAccount
  <2>2. CASE AccountRefused(u)
    <3>1. signUp' \in [User -> Handler] /\ \A v \in User : Waiting(signUp'[v])
      BY <2>2, Words, UpEndsTypes DEF AccountRefused
    <3> QED
      BY <2>2, <3>1 DEF AccountRefused
  <2>3. CASE MarkPending(u)
    <3>1. signUp' \in [User -> Handler] /\ \A v \in User : Waiting(signUp'[v])
      BY <2>3, UpToTypes DEF MarkPending, Stage
    <3>2. [account[u] EXCEPT !.banned = TRUE, !.role = "pending"] \in Account
      BY DEF Account
    <3>3. account' \in [User -> Account]
      BY <2>3, <3>2, SetAccountTypes DEF MarkPending
    <3> QED
      BY <2>3, <3>1, <3>3 DEF MarkPending
  <2>4. CASE MarkFails(u)
    <3>1. signUp' \in [User -> Handler] /\ \A v \in User : Waiting(signUp'[v])
      BY <2>4, Words, UpEndsTypes DEF MarkFails
    <3> QED
      BY <2>4, <3>1 DEF MarkFails, Slips, Fault
  <2>5. CASE RevokeNew(u)
    <3>1. signUp' \in [User -> Handler] /\ \A v \in User : Waiting(signUp'[v])
      BY <2>5, Words, UpEndsTypes DEF RevokeNew
    <3>2. sessions' \in [User -> SUBSET Session]
      BY <2>5 DEF RevokeNew, Revoke
    <3> QED
      BY <2>5, <3>1, <3>2 DEF RevokeNew, Slips, Fault
  <2>6. CASE AnswerSignUp(u)
    <3>1. signUp' \in [User -> Handler] /\ \A v \in User : Waiting(signUp'[v])
      BY <2>6, BlankTypes, SetUpTypes DEF AnswerSignUp
    <3>2. signUp[u] \in Handler
      OBVIOUS
    <3>3. browser' \in [User -> Page]
      BY <2>6, <3>2, ReceivesTypes DEF AnswerSignUp
    <3> QED
      BY <2>6, <3>1, <3>3 DEF AnswerSignUp
  <2> QED
    BY <1>3, <2>1, <2>2, <2>3, <2>4, <2>5, <2>6 DEF SigningUp
<1>4. ASSUME NEW u \in User, SigningIn(u) PROVE TypeInv'
  <2> USE DEF inFrame
  <2>1. CASE CreateSession(u)
    <3>1. signIn' \in [User -> Handler] /\ \A v \in User : Waiting(signIn'[v])
      BY <2>1, InToTypes DEF CreateSession, Stage
    <3>2. signIn[u].id \in Session
      BY <2>1 DEF CreateSession, Waiting
    <3>3. sessions' \in [User -> SUBSET Session]
      BY <2>1, <3>2 DEF CreateSession, Add
    <3> QED
      BY <2>1, <3>1, <3>3 DEF CreateSession
  <2>2. CASE SessionRefused(u)
    <3>1. signIn' \in [User -> Handler] /\ \A v \in User : Waiting(signIn'[v])
      BY <2>2, Words, InEndsTypes DEF SessionRefused
    <3> QED
      BY <2>2, <3>1 DEF SessionRefused
  <2>3. CASE Check(u)
    BY <2>3, CheckTypes DEF Check
  <2>4. CASE CheckFails(u)
    <3>1. signIn' \in [User -> Handler] /\ \A v \in User : Waiting(signIn'[v])
      BY <2>4, Words, InEndsTypes DEF CheckFails
    <3> QED
      BY <2>4, <3>1 DEF CheckFails, Slips, Fault
  <2>5. CASE Deny(u)
    <3>1. signIn' \in [User -> Handler] /\ \A v \in User : Waiting(signIn'[v])
      BY <2>5, InToTypes DEF Deny, Stage
    <3>2. sessions' \in [User -> SUBSET Session]
      BY <2>5 DEF Deny, Revoke
    <3> QED
      BY <2>5, <3>1, <3>2 DEF Deny, Slips, Fault
  <2>6. CASE AnswerSignIn(u)
    <3>1. signIn' \in [User -> Handler] /\ \A v \in User : Waiting(signIn'[v])
      BY <2>6, BlankTypes, SetInTypes DEF AnswerSignIn
    <3>2. signIn[u] \in Handler
      OBVIOUS
    <3>3. browser' \in [User -> Page]
      BY <2>6, <3>2, ReceivesTypes DEF AnswerSignIn
    <3> QED
      BY <2>6, <3>1, <3>3 DEF AnswerSignIn
  <2> QED
    BY <1>4, <2>1, <2>2, <2>3, <2>4, <2>5, <2>6 DEF SigningIn
<1>5. ASSUME NEW u \in User, Shows(u) PROVE TypeInv'
  <2>1. browser[u] \in Page /\ browser[u].reply # "none"
    BY <1>5 DEF Shows
  <2>2. Shown(browser[u]) \in Page
    BY <2>1 DEF Shown, AfterError, Page, Reply
  <2>3. browser' \in [User -> Page]
    BY <1>5, <2>2, SetPageTypes DEF Shows
  <2> QED
    BY <1>5, <2>3 DEF Shows, serverVars
<1>6. ASSUME NEW u \in User, Breaks(u) PROVE TypeInv'
  <2>1. [browser[u] EXCEPT !.reply = "refused"] \in Page
    BY Words, ZenonT(40) DEF Page
  <2>2. browser' \in [User -> Page]
    BY <1>6, <2>1, SetPageTypes DEF Breaks
  <2>3. signUp' \in [User -> Handler] /\ \A v \in User : Waiting(signUp'[v])
    BY <1>6, BlankTypes, SetUpTypes DEF Breaks
  <2>4. signIn' \in [User -> Handler] /\ \A v \in User : Waiting(signIn'[v])
    BY <1>6, BlankTypes, SetInTypes DEF Breaks
  <2>5. faults' \in 0..MaxFaults /\ slipped' \subseteq User
    BY <1>6 DEF Breaks, Slips, Fault
  <2> QED
    BY <1>6, <2>2, <2>3, <2>4, <2>5 DEF Breaks
<1>7. ASSUME NEW u \in User, Administers(u) PROVE TypeInv'
  <2> USE DEF adminFrame
  <2>0. account[u] \in Account
    OBVIOUS
  <2>1. CASE Approve(u)
    <3>1. [account[u] EXCEPT !.banned = FALSE, !.role = "user"] \in Account
      BY <2>0 DEF Account
    <3>2. account' \in [User -> Account]
      BY <2>1, <3>1, SetAccountTypes DEF Approve
    <3>3. \A r \in Request : [r EXCEPT !.late = FALSE] \in Request
      BY DEF Request
    <3>4. request' \in [User -> [Slot -> Request]]
      BY <2>1, <3>3 DEF Approve
    <3> QED
      BY <2>1, <3>2, <3>4 DEF Approve, Decides
  <2>2. CASE SetRole(u)
    <3>1. [account[u] EXCEPT !.role = "user"] \in Account
      BY <2>0 DEF Account
    <3>2. account' \in [User -> Account]
      BY <2>2, <3>1, SetAccountTypes DEF SetRole
    <3> QED
      BY <2>2, <3>2 DEF SetRole, Decides
  <2>3. ASSUME NEW step, RejectStep(u, step)
        PROVE  account' \in [User -> Account] /\ sessions' \in [User -> SUBSET Session]
    <3>1. [account[u] EXCEPT !.banned = @ \/ step = "ban"] \in Account
      BY <2>0 DEF Account
    <3> QED
      BY <2>3, <3>1, SetAccountTypes DEF RejectStep
  <2>4. CASE Reject(u)
    BY <2>3, <2>4 DEF Reject, Decides
  <2>5. CASE RejectEnds(u)
    BY <2>3, <2>5 DEF RejectEnds, Slips, Fault
  <2> QED
    BY <1>7, <2>1, <2>2, <2>4, <2>5 DEF Administers
<1>8. ASSUME NEW u \in User, Asking(u) PROVE TypeInv'
  <2> USE DEF askFrame
  <2>0. /\ browser[u] \in Page
        /\ \A k \in Slot : request[u][k] \in Request
    OBVIOUS
  <2>1. ASSUME NEW k \in Slot, NEW kind \in {"read", "write", "ticket", "signOut"},
               Ask(u, k, kind)
        PROVE  TypeInv'
    <3>1. [kind |-> kind, at |-> "session", cookie |-> browser[u].cookie,
           csrf |-> NeedsToken(kind) /\ browser[u].csrf, late |-> IsLate(u)] \in Request
      BY <2>0 DEF Request, Page, NeedsToken, IsLate, Account
    <3>2. request' \in [User -> [Slot -> Request]]
      BY <2>1, <3>1, SetRequestTypes DEF Ask
    <3> QED
      BY <2>1, <3>2 DEF Ask
  <2>2. ASSUME NEW k \in Slot, NEW step \in {"ok", "refused"}, Ends(u, k, request[u][k].kind, step)
        PROVE  request' \in [User -> [Slot -> Request]]
    <3>1. [Blank EXCEPT !.kind = request[u][k].kind, !.at = step] \in Request
      BY <2>0, BlankTypes DEF Request
    <3> QED
      BY <2>2, <3>1, SetRequestTypes DEF Ends
  <2>3. ASSUME NEW k \in Slot, FindSession(u, k) PROVE TypeInv'
    <3>1. [request[u][k] EXCEPT !.at = "user", !.cookie = 0] \in Request
      BY <2>0, NoToken DEF Request
    <3>2. request' \in [User -> [Slot -> Request]]
      BY <2>2, <2>3, <3>1, SetRequestTypes DEF FindSession
    <3>3. sessions' \in [User -> SUBSET Session]
      BY <2>3 DEF FindSession
    <3> QED
      BY <2>3, <3>2, <3>3 DEF FindSession
  <2>4. ASSUME NEW k \in Slot, FindUser(u, k) PROVE TypeInv'
    <3>1. request' \in [User -> [Slot -> Request]]
      BY <2>2, <2>4 DEF FindUser
    <3> QED
      BY <2>4, <3>1 DEF FindUser
  <2>5. ASSUME NEW k \in Slot, Present(u, k) PROVE TypeInv'
    <3> DEFINE r == request[u][k]
    <3>1. /\ [r EXCEPT !.kind = "stream", !.at = "user", !.late = IsLate(u)] \in Request
          /\ [r EXCEPT !.kind = "stream", !.at = "refused", !.late = FALSE] \in Request
      BY <2>0 DEF Request, IsLate, Account
    <3>2. request' \in [User -> [Slot -> Request]]
      BY <2>5, <3>1, SetRequestTypes DEF Present
    <3> QED
      BY <2>5, <3>2 DEF Present
  <2>6. ASSUME NEW k \in Slot, Hear(u, k) PROVE TypeInv'
    <3>1. [request[u][k] EXCEPT !.at = "open"] \in Request
      BY <2>0 DEF Request
    <3>2. request' \in [User -> [Slot -> Request]]
      BY <2>6, <3>1, BlankTypes, SetRequestTypes DEF Hear
    <3>3. ASSUME NEW b \in Page, LogOut(u, b)
          PROVE  browser' \in [User -> Page] /\ crossed' \subseteq User
      <4>1. LoggedOut(b) \in Page
        BY DEF LoggedOut, Page
      <4> QED
        BY <3>3, <4>1, SetPageTypes DEF LogOut
    <3>4. [browser[u] EXCEPT !.cookie = 0] \in Page
      BY <2>0, NoToken DEF Page
    <3>5. browser' \in [User -> Page] /\ crossed' \subseteq User
      BY <2>0, <2>6, <3>3, <3>4 DEF Hear
    <3> QED
      BY <2>6, <3>2, <3>5 DEF Hear
  <2>11. ASSUME NEW k \in Slot, Fails(u, k) PROVE TypeInv'
    <3>1. request' \in [User -> [Slot -> Request]]
      BY <2>2, <2>11, BlankTypes, SetRequestTypes DEF Fails
    <3> QED
      BY <2>11, <3>1 DEF Fails
  <2>7. ASSUME NEW k \in Slot, CloseStream(u, k) PROVE TypeInv'
    <3>1. request' \in [User -> [Slot -> Request]]
      BY <2>7, BlankTypes, SetRequestTypes DEF CloseStream
    <3> QED
      BY <2>7, <3>1 DEF CloseStream
  <2>8. CASE Expire(u)
    BY <2>8 DEF Expire
  <2>9. CASE BackToLogin(u)
    <3>1. [browser[u] EXCEPT !.pending = FALSE] \in Page
      BY <2>0 DEF Page
    <3>2. browser' \in [User -> Page]
      BY <2>9, <3>1, SetPageTypes DEF BackToLogin
    <3> QED
      BY <2>9, <3>2 DEF BackToLogin
  <2>10. CASE Reload(u)
    <3>1. [browser[u] EXCEPT !.pending = FALSE, !.form = "free", !.reply = "none"] \in Page
      BY <2>0 DEF Page, Reply
    <3>2. browser' \in [User -> Page]
      BY <2>10, <3>1, SetPageTypes DEF Reload
    <3>3. request' \in [User -> [Slot -> Request]]
      BY <2>10, BlankTypes DEF Reload
    <3> QED
      BY <2>10, <3>2, <3>3 DEF Reload
  <2>12. CASE Reopen(u)
    <3> DEFINE b == [FreshPage EXCEPT !.auth = browser[u].auth, !.closed = browser[u].auth,
                                      !.cookie = browser[u].cookie]
    <3>1. b \in Page
      BY <2>0 DEF Page, FreshPage, Reply
    <3>2. SetPage(u, b)
      BY <2>12 DEF Reopen
    <3> HIDE DEF b
    <3>3. browser' \in [User -> Page]
      BY <3>1, <3>2, SetPageTypes
    <3>4. request' \in [User -> [Slot -> Request]]
      BY <2>12, BlankTypes DEF Reopen
    <3> QED
      BY <2>12, <3>3, <3>4 DEF Reopen
  <2> QED
    BY <1>8, <2>1, <2>3, <2>4, <2>5, <2>6, <2>7, <2>8, <2>9, <2>10, <2>11, <2>12 DEF Asking
<1> QED
  BY <1>0, <1>1, <1>2, <1>3, <1>4, <1>5, <1>6, <1>7, <1>8 DEF Next

\* At the start.
LEMMA TypeInit == Init => TypeInv
<1> SUFFICES ASSUME Init PROVE TypeInv
  OBVIOUS
<1>1. Nobody \in Account /\ FreshPage \in Page
  BY AccessAssumption DEF Nobody, Account, FreshPage, Page, Reply
<1> QED
  BY <1>1, BlankTypes, AccessAssumption DEF Init, TypeInv, TypeOK

\* Every variable keeps its type in every behaviour of every instance.
THEOREM TypeCorrect == Spec => []TypeOK
<1>1. TypeInv => TypeOK
  BY DEF TypeInv
<1> QED
  BY <1>1, TypeInit, TypeStep, PTL DEF Spec

-----------------------------------------------------------------------------
(* Accounts and sessions. *)

\* An account is marked, or has been approved, or marking it went wrong.
Marked(u) ==
  requireApproval /\ account[u].exists /\ signUp[u].at # "mark" =>
    account[u].banned \/ u \in approved \union slipped

RevokedOf(u) ==
  account[u].banned /\ u \notin reject /\ u \notin slipped
    /\ signUp[u].at # "revoke" /\ signIn[u].at \notin {"check", "deny"}
  => sessions[u] = {}

\* Who does not exist is nobody, and nothing is decided about him.
Existing(u) ==
  /\ ~account[u].exists => ~account[u].banned /\ account[u].role = "none"
  /\ u \in reject \/ signUp[u].at = "mark" => account[u].exists

ServerOf(u) == Marked(u) /\ RevokedOf(u) /\ Existing(u)

ServerInv == \A u \in User : ServerOf(u)

\* What the steps about one user leave alone of another.
SameServer(u) ==
  /\ account'[u] = account[u] /\ sessions'[u] = sessions[u]
  /\ signUp'[u] = signUp[u] /\ signIn'[u] = signIn[u]
  /\ u \in reject' <=> u \in reject
  /\ u \in approved' <=> u \in approved
  /\ u \in slipped => u \in slipped'

LEMMA SameServerKeeps ==
  ASSUME NEW u, ServerOf(u), SameServer(u), requireApproval' = requireApproval
  PROVE  ServerOf(u)'
  BY DEF ServerOf, Marked, RevokedOf, Existing, SameServer

\* The setting stays.
LEMMA SettingKept == [Next]_vars => requireApproval' = requireApproval
<1> SUFFICES ASSUME [Next]_vars PROVE requireApproval' = requireApproval
  OBVIOUS
<1>1. CASE UNCHANGED vars
  BY <1>1 DEF vars
<1>2. ASSUME NEW u \in User, SubmitSignUp(u) \/ SubmitSignIn(u) \/ Shows(u) \/ Breaks(u)
      PROVE  requireApproval' = requireApproval
  BY <1>2 DEF SubmitSignUp, SubmitSignIn, Shows, Breaks
<1>3. ASSUME NEW u \in User, SigningUp(u) PROVE requireApproval' = requireApproval
  BY <1>3 DEF SigningUp, CreateAccount, AccountRefused, MarkPending, MarkFails, RevokeNew,
       AnswerSignUp, upFrame
<1>4. ASSUME NEW u \in User, SigningIn(u) PROVE requireApproval' = requireApproval
  BY <1>4 DEF SigningIn, CreateSession, SessionRefused, Check, CheckFails, Deny,
       AnswerSignIn, inFrame
<1>5. ASSUME NEW u \in User, Administers(u) PROVE requireApproval' = requireApproval
  BY <1>5 DEF Administers, Approve, SetRole, Reject, RejectEnds, adminFrame
<1>6. ASSUME NEW u \in User, Asking(u) PROVE requireApproval' = requireApproval
  BY <1>6 DEF Asking, Ask, FindSession, FindUser, Fails, Present, Hear, CloseStream, Expire,
       BackToLogin, Reload, Reopen, askFrame
<1> QED
  BY <1>1, <1>2, <1>3, <1>4, <1>5, <1>6 DEF Next

\* Accounts are marked or excused, and sessions are revoked, step by step.
LEMMA ServerStep == TypeInv /\ ServerInv /\ [Next]_vars => ServerInv'
<1> SUFFICES ASSUME TypeInv, ServerInv, [Next]_vars
             PROVE  ServerInv'
  OBVIOUS
<1>1. /\ account \in [User -> Account] /\ sessions \in [User -> SUBSET Session]
      /\ signUp \in [User -> Handler] /\ signIn \in [User -> Handler]
  BY DEF TypeInv, TypeOK
<1>2. requireApproval' = requireApproval
  BY SettingKept
\* It is enough to look at the user of the step.
<1>3. ASSUME NEW u \in User, \A v \in User \ {u} : SameServer(v), ServerOf(u)'
      PROVE  ServerInv'
  <2> SUFFICES ASSUME NEW v \in User PROVE ServerOf(v)'
    BY DEF ServerInv
  <2>1. CASE v # u
    BY <1>2, <1>3, <2>1, SameServerKeeps DEF ServerInv
  <2>2. CASE v = u
    BY <1>3, <2>2
  <2> QED
    BY <2>1, <2>2
<1>4. ASSUME \A v \in User : SameServer(v)
      PROVE  ServerInv'
  BY <1>2, <1>4, SameServerKeeps DEF ServerInv
<1> USE DEF SameServer, ServerOf
<1>5. CASE UNCHANGED vars
  BY <1>4, <1>5 DEF vars, serverVars
<1>6. ASSUME NEW u \in User, SubmitSignUp(u) PROVE ServerInv'
  <2>1. /\ signUp[u].at = "idle" /\ signUp'[u].at = "create"
        /\ \A v \in User \ {u} : signUp'[v] = signUp[v]
    BY <1>1, <1>6 DEF SubmitSignUp, SetUp, Idle
  <2>2. ServerOf(u)'
    BY <1>2, <1>6, <2>1 DEF SubmitSignUp, ServerInv, Marked, RevokedOf, Existing
  <2> QED
    BY <1>3, <1>6, <2>1, <2>2 DEF SubmitSignUp
<1>7. ASSUME NEW u \in User, SubmitSignIn(u) PROVE ServerInv'
  <2>1. /\ signIn[u].at = "idle" /\ signIn'[u].at = "create"
        /\ \A v \in User \ {u} : signIn'[v] = signIn[v]
    BY <1>1, <1>7 DEF SubmitSignIn, SetIn, Idle
  <2>2. ServerOf(u)'
    BY <1>2, <1>7, <2>1 DEF SubmitSignIn, ServerInv, Marked, RevokedOf, Existing
  <2> QED
    BY <1>3, <1>7, <2>1, <2>2 DEF SubmitSignIn
<1>8. ASSUME NEW u \in User, SigningUp(u) PROVE ServerInv'
  <2> USE DEF upFrame, Marked, RevokedOf, Existing
  <2>0. ServerOf(u)
    BY DEF ServerInv
  <2>1. CASE CreateAccount(u)
    <3>1. PICK role \in {"none", "user"} :
            SetAccount(u, [exists |-> TRUE, banned |-> FALSE, role |-> role])
      BY <2>1 DEF CreateAccount
    <3>2. [exists |-> TRUE, banned |-> FALSE, role |-> role] \in Account
      BY DEF Account
    <3>3. /\ account'[u].exists /\ ~account'[u].banned
          /\ \A v \in User \ {u} : account'[v] = account[v]
      BY <1>1, <3>1, <3>2, SetAccountTypes
    <3>4. /\ signUp'[u].at = IF requireApproval THEN "mark" ELSE "answer"
          /\ \A v \in User \ {u} : signUp'[v] = signUp[v]
      BY <2>1, Words, UpToTypes, UpEndsTypes DEF CreateAccount, Stage
    <3>5. \A v \in User \ {u} : sessions'[v] = sessions[v]
      BY <1>1, <2>1 DEF CreateAccount, Add
    <3>6. ServerOf(u)'
      BY <1>2, <3>3, <3>4
    <3> QED
      BY <1>3, <2>1, <3>3, <3>4, <3>5, <3>6 DEF CreateAccount
  <2>2. CASE AccountRefused(u)
    <3>1. signUp'[u].at = "answer" /\ \A v \in User \ {u} : signUp'[v] = signUp[v]
      BY <2>2, Words, UpEndsTypes DEF AccountRefused
    <3>2. ServerOf(u)'
      BY <1>2, <2>0, <2>2, <3>1 DEF AccountRefused
    <3> QED
      BY <1>3, <2>2, <3>1, <3>2 DEF AccountRefused
  <2>3. CASE MarkPending(u)
    <3>1. account[u] \in Account /\ account[u].exists
      BY <1>1, <2>0, <2>3 DEF MarkPending
    <3>2. [account[u] EXCEPT !.banned = TRUE, !.role = "pending"] \in Account
      BY <3>1 DEF Account
    <3>3. /\ account'[u].exists /\ account'[u].banned
          /\ \A v \in User \ {u} : account'[v] = account[v]
      BY <1>1, <2>3, <3>1, <3>2, SetAccountTypes, ZenonT(40) DEF MarkPending, Account
    <3>4. signUp'[u].at = "revoke" /\ \A v \in User \ {u} : signUp'[v] = signUp[v]
      BY <2>3, UpToTypes DEF MarkPending, Stage
    <3>5. ServerOf(u)'
      BY <1>2, <3>3, <3>4
    <3> QED
      BY <1>3, <2>3, <3>3, <3>4, <3>5 DEF MarkPending
  <2>4. CASE MarkFails(u)
    <3>1. signUp'[u].at = "answer" /\ \A v \in User \ {u} : signUp'[v] = signUp[v]
      BY <2>4, Words, UpEndsTypes DEF MarkFails
    <3>2. ServerOf(u)'
      BY <1>2, <2>0, <2>4, <3>1 DEF MarkFails, Slips
    <3> QED
      BY <1>3, <2>4, <3>1, <3>2 DEF MarkFails, Slips
  <2>5. CASE RevokeNew(u)
    <3>1. signUp[u].at = "revoke" /\ signUp'[u].at = "answer"
          /\ \A v \in User \ {u} : signUp'[v] = signUp[v]
      BY <2>5, Words, UpEndsTypes DEF RevokeNew
    <3>2. /\ sessions'[u] = {} \/ u \in slipped'
          /\ \A v \in User \ {u} : sessions'[v] = sessions[v]
      BY <1>1, <2>5 DEF RevokeNew, Revoke, Slips
    <3>3. ServerOf(u)'
      BY <1>2, <2>0, <2>5, <3>1, <3>2 DEF RevokeNew, Slips
    <3> QED
      BY <1>3, <2>5, <3>1, <3>2, <3>3 DEF RevokeNew, Slips
  <2>6. CASE AnswerSignUp(u)
    <3>1. signUp'[u].at = "idle" /\ \A v \in User \ {u} : signUp'[v] = signUp[v]
      BY <2>6, BlankTypes, SetUpTypes DEF AnswerSignUp
    <3>2. ServerOf(u)'
      BY <1>2, <2>0, <2>6, <3>1 DEF AnswerSignUp
    <3> QED
      BY <1>3, <2>6, <3>1, <3>2 DEF AnswerSignUp
  <2> QED
    BY <1>8, <2>1, <2>2, <2>3, <2>4, <2>5, <2>6 DEF SigningUp
<1>9. ASSUME NEW u \in User, SigningIn(u) PROVE ServerInv'
  <2> USE DEF inFrame, Marked, RevokedOf, Existing
  <2>0. ServerOf(u)
    BY DEF ServerInv
  <2>1. CASE CreateSession(u)
    <3>1. signIn'[u].at = "check" /\ \A v \in User \ {u} : signIn'[v] = signIn[v]
      BY <2>1, InToTypes DEF CreateSession, Stage
    <3>2. \A v \in User \ {u} : sessions'[v] = sessions[v]
      BY <1>1, <2>1 DEF CreateSession, Add
    <3>3. ServerOf(u)'
      BY <1>2, <2>0, <2>1, <3>1 DEF CreateSession
    <3> QED
      BY <1>3, <2>1, <3>1, <3>2, <3>3 DEF CreateSession
  <2>2. CASE SessionRefused(u)
    <3>1. signIn'[u].at = "answer" /\ \A v \in User \ {u} : signIn'[v] = signIn[v]
      BY <2>2, Words, InEndsTypes DEF SessionRefused
    <3>2. ServerOf(u)'
      BY <1>2, <2>0, <2>2, <3>1 DEF SessionRefused
    <3> QED
      BY <1>3, <2>2, <3>1, <3>2 DEF SessionRefused
  <2>3. CASE Check(u)
    <3>1. /\ signIn'[u].at = IF Allowed(account[u]) THEN "answer" ELSE "deny"
          /\ \A v \in User \ {u} : signIn'[v] = signIn[v]
      BY <2>3, CheckTypes
    <3>2. ServerOf(u)'
      BY <1>2, <2>0, <2>3, <3>1 DEF Check, Allowed
    <3> QED
      BY <1>3, <2>3, <3>1, <3>2 DEF Check
  <2>4. CASE CheckFails(u)
    <3>1. signIn'[u].at = "answer" /\ \A v \in User \ {u} : signIn'[v] = signIn[v]
      BY <2>4, Words, InEndsTypes DEF CheckFails
    <3>2. ServerOf(u)'
      BY <1>2, <2>0, <2>4, <3>1 DEF CheckFails, Slips
    <3> QED
      BY <1>3, <2>4, <3>1, <3>2 DEF CheckFails, Slips
  <2>5. CASE Deny(u)
    <3>1. signIn'[u].at = "answer" /\ \A v \in User \ {u} : signIn'[v] = signIn[v]
      BY <2>5, InToTypes DEF Deny, Stage
    <3>2. /\ sessions'[u] = {} \/ u \in slipped'
          /\ \A v \in User \ {u} : sessions'[v] = sessions[v]
      BY <1>1, <2>5 DEF Deny, Revoke, Slips
    <3>3. ServerOf(u)'
      BY <1>2, <2>0, <2>5, <3>1, <3>2 DEF Deny, Slips
    <3> QED
      BY <1>3, <2>5, <3>1, <3>2, <3>3 DEF Deny, Slips
  <2>6. CASE AnswerSignIn(u)
    <3>1. signIn[u].at = "answer" /\ \A v \in User \ {u} : signIn'[v] = signIn[v]
      BY <2>6, BlankTypes, SetInTypes DEF AnswerSignIn
    <3>2. ServerOf(u)'
      BY <1>2, <2>0, <2>6, <3>1 DEF AnswerSignIn
    <3> QED
      BY <1>3, <2>6, <3>1, <3>2 DEF AnswerSignIn
  <2> QED
    BY <1>9, <2>1, <2>2, <2>3, <2>4, <2>5, <2>6 DEF SigningIn
<1>10. ASSUME NEW u \in User, Shows(u) PROVE ServerInv'
  BY <1>4, <1>10 DEF Shows, serverVars
<1>11. ASSUME NEW u \in User, Breaks(u) PROVE ServerInv'
  <2>1. CASE Fault /\ UNCHANGED <<signUp, signIn, slipped>>
    BY <1>4, <1>11, <2>1 DEF Breaks
  <2>2. CASE Slips(u)
    <3>1. \A v \in User \ {u} : signUp'[v] = signUp[v] /\ signIn'[v] = signIn[v]
      BY <1>1, <1>11, <2>2 DEF Breaks, SetUp, SetIn
    <3>2. signUp'[u] \in {signUp[u], Idle} /\ u \in slipped'
      BY <1>1, <1>11, <2>2 DEF Breaks, SetUp, SetIn, Slips
    <3>3. ServerOf(u)'
      BY <1>2, <1>11, <3>2, BlankTypes DEF Breaks, ServerInv, Marked, RevokedOf, Existing
    <3> QED
      BY <1>3, <1>11, <2>2, <3>1, <3>3 DEF Breaks, Slips
  <2> QED
    BY <1>11, <2>1, <2>2 DEF Breaks
<1>12. ASSUME NEW u \in User, Administers(u) PROVE ServerInv'
  <2> USE DEF adminFrame, Marked, RevokedOf, Existing
  <2>0. account[u] \in Account /\ ServerOf(u)
    BY <1>1 DEF ServerInv
  <2>1. CASE Approve(u)
    <3>1. [account[u] EXCEPT !.banned = FALSE, !.role = "user"] \in Account
      BY <2>0 DEF Account
    <3>2. /\ account'[u].exists /\ ~account'[u].banned
          /\ \A v \in User \ {u} : account'[v] = account[v]
      BY <1>1, <2>0, <2>1, <3>1, SetAccountTypes, ZenonT(40) DEF Approve, Account
    <3>3. ServerOf(u)'
      BY <1>2, <2>0, <2>1, <3>2 DEF Approve
    <3> QED
      BY <1>3, <2>1, <3>2, <3>3 DEF Approve
  <2>2. CASE SetRole(u)
    <3>1. [account[u] EXCEPT !.role = "user"] \in Account
      BY <2>0 DEF Account
    <3>2. /\ account'[u].exists /\ (account'[u].banned <=> account[u].banned)
          /\ \A v \in User \ {u} : account'[v] = account[v]
      BY <1>1, <2>0, <2>2, <3>1, SetAccountTypes DEF SetRole, Account
    <3>3. ServerOf(u)'
      BY <1>2, <2>0, <2>2, <3>2 DEF SetRole
    <3> QED
      BY <1>3, <2>2, <3>2, <3>3 DEF SetRole
  <2>3. ASSUME NEW step, RejectStep(u, step)
        PROVE  /\ account'[u].exists <=> account[u].exists
               /\ account'[u].banned <=> account[u].banned \/ step = "ban"
               /\ sessions'[u] = IF step = "revoke" THEN {} ELSE sessions[u]
               /\ \A v \in User \ {u} : /\ account'[v] = account[v]
                                        /\ sessions'[v] = sessions[v]
    <3>1. [account[u] EXCEPT !.banned = @ \/ step = "ban"] \in Account
      BY <2>0 DEF Account
    <3> QED
      BY <1>1, <2>0, <2>3, <3>1, SetAccountTypes DEF RejectStep, Account
  <2>4. CASE Reject(u)
    <3>1. RejectStep(u, "ban")
      BY <2>4 DEF Reject, RejectOrder
    <3>2. ServerOf(u)'
      BY <1>2, <2>0, <2>3, <2>4, <3>1 DEF Reject
    <3> QED
      BY <1>3, <2>3, <2>4, <3>1, <3>2 DEF Reject
  <2>5. CASE RejectEnds(u)
    <3>1. CASE Slips(u) /\ UNCHANGED <<account, sessions>>
      <4>1. ServerOf(u)'
        BY <1>2, <2>0, <2>5, <3>1 DEF RejectEnds, Slips
      <4> QED
        BY <1>3, <2>5, <3>1, <4>1 DEF RejectEnds, Slips
    <3>2. CASE RejectStep(u, "revoke") /\ UNCHANGED <<faults, slipped>>
      <4>1. /\ account'[u].exists <=> account[u].exists
            /\ account'[u].banned <=> account[u].banned
            /\ sessions'[u] = {}
            /\ \A v \in User \ {u} : /\ account'[v] = account[v]
                                     /\ sessions'[v] = sessions[v]
        BY <2>3, <3>2
      <4>2. u \in reject /\ account[u].exists
        BY <2>0, <2>5 DEF RejectEnds
      <4>3. ServerOf(u)'
        BY <1>2, <2>0, <2>5, <3>2, <4>1, <4>2 DEF RejectEnds
      <4> QED
        BY <1>3, <2>5, <3>2, <4>1, <4>3 DEF RejectEnds
    <3> QED
      BY <2>5, <3>1, <3>2 DEF RejectEnds, RejectOrder
  <2> QED
    BY <1>12, <2>1, <2>2, <2>4, <2>5 DEF Administers
<1>13. ASSUME NEW u \in User, Asking(u) PROVE ServerInv'
  <2>1. /\ sessions'[u] \subseteq sessions[u]
        /\ \A v \in User \ {u} : sessions'[v] = sessions[v]
    BY <1>1, <1>13 DEF Asking, Ask, FindSession, FindUser, Fails, Present, Hear, CloseStream,
         Expire, BackToLogin, Reload, Reopen
  <2>2. UNCHANGED <<account, signUp, signIn, reject, approved, slipped>>
    BY <1>13 DEF Asking, Ask, FindSession, FindUser, Fails, Present, Hear, CloseStream,
         Expire, BackToLogin, Reload, Reopen, askFrame
  <2>3. ServerOf(u)'
    BY <1>2, <2>1, <2>2 DEF ServerInv, Marked, RevokedOf, Existing
  <2> QED
    BY <1>3, <2>1, <2>2, <2>3
<1> QED
  BY <1>5, <1>6, <1>7, <1>8, <1>9, <1>10, <1>11, <1>12, <1>13 DEF Next

LEMMA ServerInit == Init => ServerInv
  BY BlankTypes
     DEF Init, ServerInv, ServerOf, Marked, RevokedOf, Existing, Nobody

\* A banned account has no session left once no handler works for it
\* (auth_proxy_handler, reject_user_handler).
THEOREM NoSessionLeft == Spec => []Revoked
<1>1. ServerInv => Revoked
  BY DEF ServerInv, ServerOf, RevokedOf, Revoked
<1> QED
  BY <1>1, TypeInit, TypeStep, ServerInit, ServerStep, PTL DEF Spec

-----------------------------------------------------------------------------
(* Requests. *)

\* What is late was asked for by one who still is banned.
LateInv == \A u \in User : \A k \in Slot : request[u][k].late => account[u].banned

\* A ban outlasts what was asked under it, unless there is an approval.
LEMMA LateStep == TypeInv /\ ServerInv /\ LateInv /\ [Next]_vars => LateInv'
<1> SUFFICES ASSUME TypeInv, ServerInv, LateInv, [Next]_vars
             PROVE  LateInv'
  OBVIOUS
<1>1. /\ account \in [User -> Account] /\ request \in [User -> [Slot -> Request]]
  BY DEF TypeInv, TypeOK
<1>0. /\ \A v \in User, j \in Slot : request[v][j] \in Request
      /\ \A v \in User : account[v] \in Account
  BY <1>1
\* It is enough that no account is unbanned, and no request late for another reason.
<1>2. ASSUME \A u \in User : account[u].banned => account'[u].banned,
             \A u \in User, k \in Slot :
               request'[u][k].late => request[u][k].late \/ account'[u].banned
      PROVE  LateInv'
  BY <1>2 DEF LateInv
<1>3. CASE UNCHANGED <<account, request>>
  BY <1>2, <1>3
<1>4. ASSUME NEW u \in User, CreateAccount(u) PROVE LateInv'
  <2>1. PICK role \in {"none", "user"} :
          SetAccount(u, [exists |-> TRUE, banned |-> FALSE, role |-> role])
    BY <1>4 DEF CreateAccount
  <2>2. \A v \in User \ {u} : account'[v] = account[v]
    BY <1>1, <2>1 DEF SetAccount
  <2>3. ~account[u].banned
    BY <1>4 DEF CreateAccount, ServerInv, ServerOf, Existing
  <2> QED
    BY <1>2, <1>4, <2>2, <2>3 DEF CreateAccount, upFrame
<1>5. ASSUME NEW u \in User, MarkPending(u) PROVE LateInv'
  <2>1. [account[u] EXCEPT !.banned = TRUE, !.role = "pending"] \in Account
    BY <1>1 DEF Account
  <2>2. account'[u].banned /\ \A v \in User \ {u} : account'[v] = account[v]
    BY <1>1, <1>5, <2>1, SetAccountTypes DEF MarkPending, Account
  <2> QED
    BY <1>2, <1>5, <2>2 DEF MarkPending, upFrame
<1>6. ASSUME NEW u \in User, Approve(u) PROVE LateInv'
  <2>1. \A v \in User \ {u} : account'[v] = account[v] /\ request'[v] = request[v]
    BY <1>1, <1>6 DEF Approve, SetAccount
  <2>2. \A k \in Slot : request'[u][k] = [request[u][k] EXCEPT !.late = FALSE]
    BY <1>1, <1>6 DEF Approve
  <2>3. \A r \in Request : ~[r EXCEPT !.late = FALSE].late
    BY DEF Request
  <2>4. \A k \in Slot : ~request'[u][k].late
    BY <1>1, <2>2, <2>3, ZenonT(40)
  <2> QED
    BY <2>1, <2>4 DEF LateInv
<1>7. ASSUME NEW u \in User, SetRole(u) PROVE LateInv'
  <2>1. [account[u] EXCEPT !.role = "user"] \in Account
    BY <1>1 DEF Account
  <2>2. /\ account'[u].banned <=> account[u].banned
        /\ \A v \in User \ {u} : account'[v] = account[v]
    BY <1>1, <1>7, <2>1, SetAccountTypes DEF SetRole, Account
  <2> QED
    BY <1>2, <1>7, <2>2 DEF SetRole
<1>8. ASSUME NEW u \in User, NEW step, RejectStep(u, step), UNCHANGED request PROVE LateInv'
  <2>1. [account[u] EXCEPT !.banned = @ \/ step = "ban"] \in Account
    BY <1>1 DEF Account
  <2>2. /\ account[u].banned => account'[u].banned
        /\ \A v \in User \ {u} : account'[v] = account[v]
    BY <1>1, <1>8, <2>1, SetAccountTypes DEF RejectStep, Account
  <2> QED
    BY <1>2, <1>8, <2>2
<1>9. ASSUME NEW u \in User, NEW k \in Slot, NEW r \in Request, SetRequest(u, k, r),
             r.late => request[u][k].late \/ account[u].banned, UNCHANGED account
      PROVE  LateInv'
  <2>1. /\ request'[u][k] = r
        /\ \A v \in User, j \in Slot : v # u \/ j # k => request'[v][j] = request[v][j]
    BY <1>1, <1>9, SetRequestTypes
  <2>2. \A v \in User, j \in Slot :
          request'[v][j].late => request[v][j].late \/ account'[v].banned
    BY <1>9, <2>1
  <2> QED
    BY <1>2, <1>9, <2>2
<1>10. ASSUME NEW u \in User, NEW k \in Slot, NEW kind \in {"read", "write", "ticket", "signOut"},
              Ask(u, k, kind)
       PROVE  LateInv'
  <2> DEFINE r == [kind |-> kind, at |-> "session", cookie |-> browser[u].cookie,
                   csrf |-> NeedsToken(kind) /\ browser[u].csrf, late |-> IsLate(u)]
  <2>1. r \in Request
    BY <1>0 DEF Request, Page, NeedsToken, IsLate, Account, TypeInv, TypeOK
  <2>2. r.late => account[u].banned
    BY DEF IsLate
  <2> QED
    BY <1>9, <1>10, <2>1, <2>2 DEF Ask, askFrame
<1>11. ASSUME NEW u \in User, NEW k \in Slot, NEW kind \in {request[u][k].kind},
              NEW step \in {"ok", "refused"}, Ends(u, k, kind, step), UNCHANGED account
       PROVE  LateInv'
  <2> DEFINE r == [Blank EXCEPT !.kind = kind, !.at = step]
  <2>1. r \in Request /\ ~r.late
    BY <1>0, BlankTypes DEF Request
  <2> QED
    BY <1>9, <1>11, <2>1 DEF Ends
<1>12. ASSUME NEW u \in User, NEW k \in Slot, FindSession(u, k) PROVE LateInv'
  <2> DEFINE r == [request[u][k] EXCEPT !.at = "user", !.cookie = 0]
  <2>1. r \in Request /\ (r.late <=> request[u][k].late)
    BY <1>0, NoToken DEF Request
  <2>2. UNCHANGED account
    BY <1>12 DEF FindSession, askFrame
  <2>3. \/ SetRequest(u, k, r)
        \/ \E step \in {"ok", "refused"} : Ends(u, k, request[u][k].kind, step)
    BY <1>12 DEF FindSession
  <2> QED
    BY <1>9, <1>11, <2>1, <2>2, <2>3
<1>13. ASSUME NEW u \in User, NEW k \in Slot, FindUser(u, k) PROVE LateInv'
  BY <1>11, <1>13 DEF FindUser, askFrame
<1>24. ASSUME NEW u \in User, NEW k \in Slot, Fails(u, k) PROVE LateInv'
  <2>1. UNCHANGED account
    BY <1>24 DEF Fails, askFrame
  <2>2. Ends(u, k, request[u][k].kind, "refused") \/ SetRequest(u, k, Blank)
    BY <1>24 DEF Fails
  <2> QED
    BY <1>9, <1>11, <2>1, <2>2, BlankTypes
<1>14. ASSUME NEW u \in User, NEW k \in Slot, Present(u, k) PROVE LateInv'
  <2> DEFINE s == [request[u][k] EXCEPT !.kind = "stream", !.at = "user", !.late = IsLate(u)]
             t == [request[u][k] EXCEPT !.kind = "stream", !.at = "refused", !.late = FALSE]
  <2>1. s \in Request /\ (s.late => account[u].banned)
    BY <1>0, ZenonT(40) DEF Request, IsLate, Account
  <2>2. t \in Request /\ ~t.late
    BY <1>0 DEF Request
  <2>3. UNCHANGED account
    BY <1>14 DEF Present, askFrame
  <2>4. SetRequest(u, k, s) \/ SetRequest(u, k, t)
    BY <1>14 DEF Present
  <2> QED
    BY <1>9, <2>1, <2>2, <2>3, <2>4
<1>15. ASSUME NEW u \in User, NEW k \in Slot, Hear(u, k) \/ CloseStream(u, k) PROVE LateInv'
  <2> DEFINE s == [request[u][k] EXCEPT !.at = "open"]
  <2>1. s \in Request /\ (s.late <=> request[u][k].late)
    BY <1>0 DEF Request
  <2>2. SetRequest(u, k, s) \/ SetRequest(u, k, Blank)
    BY <1>15 DEF Hear, CloseStream
  <2>3. UNCHANGED account
    BY <1>15 DEF Hear, CloseStream, askFrame
  <2> QED
    BY <1>9, <2>1, <2>2, <2>3, BlankTypes
<1>16. ASSUME NEW u \in User, Reload(u) \/ Reopen(u) PROVE LateInv'
  <2>1. \A v \in User, k \in Slot : request'[v][k] \in {request[v][k], Blank}
    BY <1>1, <1>16 DEF Reload, Reopen
  <2> QED
    BY <1>2, <1>16, <2>1, BlankTypes DEF Reload, Reopen, askFrame
\* The other steps leave accounts and requests alone.
<1>17. CASE UNCHANGED vars
  BY <1>3, <1>17 DEF vars, serverVars
<1>18. ASSUME NEW u \in User, SubmitSignUp(u) \/ SubmitSignIn(u) \/ Shows(u) \/ Breaks(u)
       PROVE  LateInv'
  BY <1>3, <1>18 DEF SubmitSignUp, SubmitSignIn, Shows, Breaks, serverVars
<1>19. ASSUME NEW u \in User, SigningUp(u) PROVE LateInv'
  <2>1. ASSUME AccountRefused(u) \/ MarkFails(u) \/ RevokeNew(u) \/ AnswerSignUp(u)
        PROVE  LateInv'
    BY <1>3, <2>1 DEF AccountRefused, MarkFails, RevokeNew, AnswerSignUp, upFrame
  <2> QED
    BY <1>4, <1>5, <1>19, <2>1 DEF SigningUp
<1>20. ASSUME NEW u \in User, SigningIn(u) PROVE LateInv'
  BY <1>3, <1>20 DEF SigningIn, CreateSession, SessionRefused, Check, CheckFails, Deny,
       AnswerSignIn, inFrame
<1>21. ASSUME NEW u \in User, Administers(u) PROVE LateInv'
  <2>1. CASE Reject(u)
    BY <1>8, <2>1 DEF Reject
  <2>2. CASE RejectEnds(u)
    BY <1>3, <1>8, <2>2 DEF RejectEnds
  <2> QED
    BY <1>6, <1>7, <1>21, <2>1, <2>2 DEF Administers
<1>22. ASSUME NEW u \in User, Expire(u) \/ BackToLogin(u) PROVE LateInv'
  BY <1>3, <1>22 DEF Expire, BackToLogin, askFrame
<1>23. ASSUME NEW u \in User, Asking(u) PROVE LateInv'
  BY <1>10, <1>12, <1>13, <1>14, <1>15, <1>16, <1>22, <1>23, <1>24 DEF Asking
<1> QED
  BY <1>17, <1>18, <1>19, <1>20, <1>21, <1>23 DEF Next

\* What is granted is granted by FindUser, to one who is let in.
LEMMA GrantedIsAllowed ==
  ASSUME TypeInv, [Next]_vars, NEW u \in User, NEW k \in Slot, Granted(u, k)
  PROVE  Allowed(account[u])
<1>1. /\ request \in [User -> [Slot -> Request]]
      /\ request[u][k].at = "user" /\ request'[u][k].at = "ok"
  BY DEF TypeInv, TypeOK, Granted
<1>0. /\ \A v \in User, j \in Slot : request[v][j] \in Request
      /\ \A v \in User : account[v] \in Account
  BY DEF TypeInv, TypeOK
<1>2. CASE UNCHANGED request
  BY <1>1, <1>2
<1>3. ASSUME NEW v \in User, NEW j \in Slot, NEW r \in Request, SetRequest(v, j, r),
             r.at # "ok" \/ request[v][j].at # "user" \/ Allowed(account[v])
      PROVE  Allowed(account[u])
  <2>1. /\ request'[v][j] = r
        /\ \A w \in User, i \in Slot : w # v \/ i # j => request'[w][i] = request[w][i]
    BY <1>1, <1>3, SetRequestTypes
  <2>2. u = v /\ k = j
    BY <1>1, <2>1
  <2> QED
    BY <1>1, <1>3, <2>1, <2>2
<1>4. ASSUME NEW v \in User, Approve(v) PROVE Allowed(account[u])
  <2>1. \A w \in User \ {v} : request'[w] = request[w]
    BY <1>1, <1>4 DEF Approve
  <2>2. \A i \in Slot : request'[v][i] = [request[v][i] EXCEPT !.late = FALSE]
    BY <1>1, <1>4 DEF Approve
  <2>3. \A r \in Request : [r EXCEPT !.late = FALSE].at = r.at
    BY DEF Request
  <2>4. request'[u][k].at = request[u][k].at
    BY <1>1, <2>1, <2>2, <2>3
  <2> QED
    BY <1>1, <2>4
<1>5. ASSUME NEW v \in User, Reload(v) \/ Reopen(v) PROVE Allowed(account[u])
  <2>1. request'[u][k] \in {request[u][k], Blank}
    BY <1>1, <1>5 DEF Reload, Reopen
  <2> QED
    BY <1>1, <2>1, BlankTypes
<1>6. ASSUME NEW v \in User, NEW j \in Slot, NEW kind \in {"read", "write", "ticket", "signOut"},
             Ask(v, j, kind)
      PROVE  Allowed(account[u])
  <2> DEFINE r == [kind |-> kind, at |-> "session", cookie |-> browser[v].cookie,
                   csrf |-> NeedsToken(kind) /\ browser[v].csrf, late |-> IsLate(v)]
  <2>1. r \in Request /\ r.at = "session"
    BY DEF Request, Page, NeedsToken, IsLate, Account, TypeInv, TypeOK
  <2> QED
    BY <1>3, <1>6, <2>1 DEF Ask
<1>7. ASSUME NEW v \in User, NEW j \in Slot, NEW step \in {"ok", "refused"},
             Ends(v, j, request[v][j].kind, step),
             step # "ok" \/ request[v][j].at # "user" \/ Allowed(account[v])
      PROVE  Allowed(account[u])
  <2> DEFINE r == [Blank EXCEPT !.kind = request[v][j].kind, !.at = step]
  <2>1. r \in Request /\ r.at = step
    BY <1>0, BlankTypes DEF Request
  <2> QED
    BY <1>3, <1>7, <2>1 DEF Ends
<1>8. ASSUME NEW v \in User, NEW j \in Slot, FindSession(v, j) PROVE Allowed(account[u])
  <2> DEFINE r == [request[v][j] EXCEPT !.at = "user", !.cookie = 0]
  <2>1. r \in Request /\ r.at = "user"
    BY <1>0, NoToken, ZenonT(40) DEF Request
  <2>2. request[v][j].at = "session"
    BY <1>8 DEF FindSession
  <2>3. \/ SetRequest(v, j, r)
        \/ \E step \in {"ok", "refused"} : Ends(v, j, request[v][j].kind, step)
    BY <1>8 DEF FindSession
  <2> QED
    BY <1>3, <1>7, <2>1, <2>2, <2>3
<1>9. ASSUME NEW v \in User, NEW j \in Slot, FindUser(v, j) PROVE Allowed(account[u])
  BY <1>7, <1>9 DEF FindUser, Admits
<1>10. ASSUME NEW v \in User, NEW j \in Slot, Present(v, j) PROVE Allowed(account[u])
  <2> DEFINE s == [request[v][j] EXCEPT !.kind = "stream", !.at = "user", !.late = IsLate(v)]
             t == [request[v][j] EXCEPT !.kind = "stream", !.at = "refused", !.late = FALSE]
  <2>0. IsLate(v) \in BOOLEAN
    BY <1>0 DEF IsLate, Account
  <2>1. s \in Request /\ s.at = "user"
    BY <1>0, <2>0, ZenonT(40) DEF Request
  <2>3. t \in Request /\ t.at = "refused"
    BY <1>0, ZenonT(40) DEF Request
  <2>2. SetRequest(v, j, s) \/ SetRequest(v, j, t)
    BY <1>10 DEF Present
  <2> QED
    BY <1>3, <2>1, <2>2, <2>3
<1>11. ASSUME NEW v \in User, NEW j \in Slot, Hear(v, j) \/ CloseStream(v, j)
       PROVE  Allowed(account[u])
  <2> DEFINE s == [request[v][j] EXCEPT !.at = "open"]
  <2>1. s \in Request /\ s.at = "open"
    BY <1>0 DEF Request
  <2>2. SetRequest(v, j, s) \/ SetRequest(v, j, Blank)
    BY <1>11 DEF Hear, CloseStream
  <2> QED
    BY <1>3, <2>1, <2>2, BlankTypes
<1>20. ASSUME NEW v \in User, NEW j \in Slot, Fails(v, j) PROVE Allowed(account[u])
  <2>1. Ends(v, j, request[v][j].kind, "refused") \/ SetRequest(v, j, Blank)
    BY <1>20 DEF Fails
  <2> QED
    BY <1>3, <1>7, <2>1, BlankTypes
<1>12. CASE UNCHANGED vars
  BY <1>2, <1>12 DEF vars
<1>13. ASSUME NEW v \in User,
              SubmitSignUp(v) \/ SubmitSignIn(v) \/ Shows(v) \/ Breaks(v) \/ Expire(v) \/ BackToLogin(v)
       PROVE  Allowed(account[u])
  BY <1>2, <1>13 DEF SubmitSignUp, SubmitSignIn, Shows, Breaks, Expire, BackToLogin, askFrame
<1>14. ASSUME NEW v \in User, SigningUp(v) PROVE Allowed(account[u])
  BY <1>2, <1>14 DEF SigningUp, CreateAccount, AccountRefused, MarkPending, MarkFails,
       RevokeNew, AnswerSignUp, upFrame
<1>15. ASSUME NEW v \in User, SigningIn(v) PROVE Allowed(account[u])
  BY <1>2, <1>15 DEF SigningIn, CreateSession, SessionRefused, Check, CheckFails, Deny,
       AnswerSignIn, inFrame
<1>16. ASSUME NEW v \in User, Administers(v) PROVE Allowed(account[u])
  <2>1. CASE SetRole(v) \/ Reject(v) \/ RejectEnds(v)
    BY <1>2, <2>1 DEF SetRole, Reject, RejectEnds
  <2> QED
    BY <1>4, <1>16, <2>1 DEF Administers
<1>17. ASSUME NEW v \in User, Asking(v) PROVE Allowed(account[u])
  BY <1>5, <1>6, <1>8, <1>9, <1>10, <1>11, <1>13, <1>17, <1>20 DEF Asking
<1> QED
  BY <1>12, <1>13, <1>14, <1>15, <1>16, <1>17 DEF Next

LEMMA LateInit == Init => LateInv
  BY BlankTypes DEF Init, LateInv

\* Where approval is required nobody is let through who was not approved, but
\* for the sign-up under way and the errors named (auth_proxy_handler).
THEOREM ApprovedOnly == Spec => OnlyApproved
<1>1. TypeInv /\ ServerInv /\ [Next]_vars =>
        [\A u \in User : \A k \in Slot :
           Granted(u, k) /\ requireApproval
           => u \in approved \union slipped \/ signUp[u].at = "mark"]_vars
  <2> SUFFICES ASSUME TypeInv, ServerInv, [Next]_vars, NEW u \in User, NEW k \in Slot,
                      Granted(u, k), requireApproval
               PROVE  u \in approved \union slipped \/ signUp[u].at = "mark"
    OBVIOUS
  <2>1. ~account[u].banned /\ account[u].role = "user"
    BY GrantedIsAllowed DEF Allowed
  <2> QED
    BY <2>1 DEF ServerInv, ServerOf, Marked, Existing
<1> QED
  BY <1>1, TypeInit, TypeStep, ServerInit, ServerStep, PTL DEF Spec, OnlyApproved

\* Nothing asked for under a rejection is granted before an approval, whatever
\* session or ticket it carries (the extractors).
THEOREM RejectedStaysOut == Spec => RejectionHolds
<1>1. TypeInv /\ LateInv /\ [Next]_vars =>
        [\A u \in User : \A k \in Slot : Granted(u, k) => ~request[u][k].late]_vars
  <2> SUFFICES ASSUME TypeInv, LateInv, [Next]_vars, NEW u \in User, NEW k \in Slot,
                      Granted(u, k)
               PROVE  ~request[u][k].late
    OBVIOUS
  <2>1. ~account[u].banned
    BY GrantedIsAllowed DEF Allowed
  <2> QED
    BY <2>1 DEF LateInv
<1> QED
  BY <1>1, TypeInit, TypeStep, ServerInit, ServerStep, LateInit, LateStep, PTL
     DEF Spec, RejectionHolds

-----------------------------------------------------------------------------
(* Pages. *)

\* A page with an identity, or the answer that gives it one, has the token, and the
\* page that has kept its identity has been closed if it has not.
TokenOf(u) ==
  /\ browser[u].reply = "ok" => browser[u].csrf \/ u \in crossed
  /\ browser[u].auth => browser[u].csrf \/ browser[u].closed \/ u \in crossed

TokenInv == \A u \in User : TokenOf(u)

\* An identity comes with a token and goes with it: only the end of the browser and an
\* answer that crosses a sign-in part the two.
LEMMA TokenStep == TypeInv /\ TokenInv /\ [Next]_vars => TokenInv'
<1> SUFFICES ASSUME TypeInv, TokenInv, [Next]_vars
             PROVE  TokenInv'
  OBVIOUS
<1>1. /\ browser \in [User -> Page]
      /\ \A u \in User : browser[u] \in Page
  BY DEF TypeInv, TypeOK
\* It is enough to look at the page of the step.
<1>2. ASSUME NEW u \in User, NEW b \in Page, SetPage(u, b),
             \A v \in User \ {u} : v \in crossed' <=> v \in crossed,
             b.reply = "ok" => b.csrf \/ u \in crossed',
             b.auth => b.csrf \/ b.closed \/ u \in crossed'
      PROVE  TokenInv'
  <2>1. browser'[u] = b /\ \A v \in User \ {u} : browser'[v] = browser[v]
    BY <1>1, <1>2, SetPageTypes
  <2> QED
    BY <1>2, <2>1 DEF TokenInv, TokenOf
<1>3. CASE UNCHANGED <<browser, crossed>>
  BY <1>3 DEF TokenInv, TokenOf
<1>4. ASSUME NEW u \in User, NEW form, Submits(u, form), form \in {"signUp", "signIn"},
             UNCHANGED crossed
      PROVE  TokenInv'
  <2> DEFINE b == [browser[u] EXCEPT !.form = form]
  <2>1. /\ b \in Page /\ (b.auth <=> browser[u].auth) /\ (b.csrf <=> browser[u].csrf)
        /\ (b.closed <=> browser[u].closed)
        /\ b.reply = browser[u].reply
    BY <1>1, <1>4 DEF Page
  <2>2. SetPage(u, b)
    BY <1>4 DEF Submits
  <2> HIDE DEF b
  <2> QED
    BY <1>2, <1>4, <2>1, <2>2 DEF TokenInv, TokenOf
<1>5. ASSUME NEW u \in User, NEW form, NEW h \in Handler, Receives(u, form, h),
             UNCHANGED crossed
      PROVE  TokenInv'
  <2> SUFFICES ASSUME NEW v \in User PROVE TokenOf(v)'
    BY DEF TokenInv
  <2>1. CASE v # u
    BY <1>5, <2>1, ReceivesTypes DEF TokenInv, TokenOf
  <2>2. CASE v = u /\ browser'[u] = browser[u]
    BY <1>5, <2>2 DEF TokenInv, TokenOf
  <2>3. CASE v = u /\ browser'[u] # browser[u] /\ browser'[u].reply = "ok"
    BY <1>5, <2>3, ReceivesTypes DEF TokenOf
  <2>4. CASE v = u /\ browser'[u] # browser[u] /\ browser'[u].reply # "ok"
    <3>1. browser'[u].auth = browser[u].auth
      BY <1>5, ReceivesTypes
    <3>2. browser'[u].csrf = browser[u].csrf /\ browser'[u].closed = browser[u].closed
      <4>1. h.say # "ok" /\ SetPage(u, [browser[u] EXCEPT !.reply = h.say])
        <5>1. CASE h.say = "ok"
          <6>1. [browser[u] EXCEPT !.cookie = h.id, !.csrf = TRUE, !.reply = "ok",
                     !.closed = FALSE] \in Page
            BY <1>1, Words, ZenonT(40) DEF Page, Handler
          <6>2. [browser[u] EXCEPT !.cookie = h.id, !.csrf = TRUE, !.reply = "ok",
                     !.closed = FALSE].reply = "ok"
            BY <1>1 DEF Page
          <6> QED
            BY <1>1, <1>5, <2>4, <5>1, <6>1, <6>2, SetPageTypes DEF Receives
        <5> QED
          BY <1>5, <2>4, <5>1 DEF Receives
      <4>2. /\ [browser[u] EXCEPT !.reply = h.say] \in Page
            /\ [browser[u] EXCEPT !.reply = h.say].csrf = browser[u].csrf
            /\ [browser[u] EXCEPT !.reply = h.say].closed = browser[u].closed
        BY <1>1 DEF Page, Handler
      <4> QED
        BY <1>1, <4>1, <4>2, SetPageTypes
    <3> QED
      BY <1>5, <2>4, <3>1, <3>2 DEF TokenInv, TokenOf
  <2> QED
    BY <2>1, <2>2, <2>3, <2>4
<1>6. ASSUME NEW u \in User, Shows(u) PROVE TokenInv'
  <2> DEFINE b == Shown(browser[u])
  <2>1. browser[u] \in Page /\ browser[u].reply # "none"
    BY <1>1, <1>6 DEF Shows
  <2>2. b \in Page /\ (b.csrf <=> browser[u].csrf) /\ b.reply # "ok"
        /\ (b.closed <=> browser[u].closed)
    BY <2>1 DEF Shown, AfterError, Page, Reply
  <2>3. b.auth => browser[u].auth \/ browser[u].reply = "ok"
    BY <2>1 DEF Shown, AfterError, Page, Reply
  <2>4. SetPage(u, b) /\ UNCHANGED crossed
    BY <1>6 DEF Shows
  <2> HIDE DEF b
  <2> QED
    BY <1>2, <2>2, <2>3, <2>4 DEF TokenInv, TokenOf
<1>7. ASSUME NEW u \in User, Breaks(u) PROVE TokenInv'
  <2> DEFINE b == [browser[u] EXCEPT !.reply = "refused"]
  <2>1. /\ b \in Page /\ (b.auth <=> browser[u].auth) /\ (b.csrf <=> browser[u].csrf)
        /\ (b.closed <=> browser[u].closed)
        /\ b.reply # "ok"
    BY <1>1, Words DEF Page
  <2>2. SetPage(u, b) /\ UNCHANGED crossed
    BY <1>7 DEF Breaks
  <2> HIDE DEF b
  <2> QED
    BY <1>2, <2>1, <2>2 DEF TokenInv, TokenOf
\* A log-out takes both, and says so when an answer is still to be shown.
<1>8. ASSUME NEW u \in User, NEW b \in Page, LogOut(u, b) PROVE TokenInv'
  <2>1. /\ LoggedOut(b) \in Page /\ ~LoggedOut(b).auth
        /\ LoggedOut(b).reply = b.reply
    BY DEF LoggedOut, Page
  <2>2. /\ SetPage(u, LoggedOut(b))
        /\ crossed' = IF b.reply = "ok" THEN crossed \union {u} ELSE crossed \ {u}
    BY <1>8 DEF LogOut
  <2> QED
    BY <1>2, <2>1, <2>2
<1>9. ASSUME NEW u \in User, NEW k \in Slot, Hear(u, k) PROVE TokenInv'
  <2>1. [browser[u] EXCEPT !.cookie = 0] \in Page
    BY <1>1, NoToken DEF Page
  <2> QED
    BY <1>1, <1>3, <1>8, <1>9, <2>1 DEF Hear
<1>10. ASSUME NEW u \in User, NEW b \in Page, SetPage(u, b), UNCHANGED crossed,
              b.auth <=> browser[u].auth, b.csrf <=> browser[u].csrf,
              b.closed <=> browser[u].closed,
              b.reply \in {browser[u].reply, "none"}
       PROVE  TokenInv'
  BY <1>2, <1>10 DEF TokenInv, TokenOf
<1>11. ASSUME NEW u \in User, BackToLogin(u) PROVE TokenInv'
  <2> DEFINE b == [browser[u] EXCEPT !.pending = FALSE]
  <2>1. /\ b \in Page /\ (b.auth <=> browser[u].auth) /\ (b.csrf <=> browser[u].csrf)
        /\ (b.closed <=> browser[u].closed)
        /\ b.reply = browser[u].reply
    BY <1>1 DEF Page
  <2>2. SetPage(u, b) /\ UNCHANGED crossed
    BY <1>11 DEF BackToLogin
  <2> HIDE DEF b
  <2> QED
    BY <1>10, <2>1, <2>2
<1>12. ASSUME NEW u \in User, Reload(u) PROVE TokenInv'
  <2> DEFINE b == [browser[u] EXCEPT !.pending = FALSE, !.form = "free", !.reply = "none"]
  <2>1. /\ b \in Page /\ (b.auth <=> browser[u].auth) /\ (b.csrf <=> browser[u].csrf)
        /\ (b.closed <=> browser[u].closed)
        /\ b.reply = "none"
    BY <1>1 DEF Page, Reply
  <2>2. SetPage(u, b) /\ UNCHANGED crossed
    BY <1>12 DEF Reload
  <2> HIDE DEF b
  <2> QED
    BY <1>10, <2>1, <2>2
<1>19. ASSUME NEW u \in User, Reopen(u) PROVE TokenInv'
  <2> DEFINE b == [FreshPage EXCEPT !.auth = browser[u].auth, !.closed = browser[u].auth,
                                    !.cookie = browser[u].cookie]
  <2>1. b \in Page /\ (b.auth <=> b.closed) /\ b.reply = "none"
    BY <1>1 DEF Page, FreshPage, Reply
  <2>2. SetPage(u, b) /\ UNCHANGED crossed
    BY <1>19 DEF Reopen
  <2> HIDE DEF b
  <2> QED
    BY <1>2, <2>1, <2>2
\* The other steps leave the pages alone.
<1>13. CASE UNCHANGED vars
  BY <1>3, <1>13 DEF vars
<1>14. ASSUME NEW u \in User, SubmitSignUp(u) \/ SubmitSignIn(u) PROVE TokenInv'
  BY <1>4, <1>14 DEF SubmitSignUp, SubmitSignIn
<1>15. ASSUME NEW u \in User, SigningUp(u) PROVE TokenInv'
  <2>1. CASE AnswerSignUp(u)
    <3>1. signUp[u] \in Handler
      BY DEF TypeInv, TypeOK
    <3> QED
      BY <1>5, <2>1, <3>1 DEF AnswerSignUp
  <2> QED
    BY <1>3, <1>15, <2>1 DEF SigningUp, CreateAccount, AccountRefused, MarkPending,
         MarkFails, RevokeNew, upFrame
<1>16. ASSUME NEW u \in User, SigningIn(u) PROVE TokenInv'
  <2>1. CASE AnswerSignIn(u)
    <3>1. signIn[u] \in Handler
      BY DEF TypeInv, TypeOK
    <3> QED
      BY <1>5, <2>1, <3>1 DEF AnswerSignIn
  <2> QED
    BY <1>3, <1>16, <2>1 DEF SigningIn, CreateSession, SessionRefused, Check, CheckFails,
         Deny, inFrame
<1>17. ASSUME NEW u \in User, Administers(u) PROVE TokenInv'
  BY <1>3, <1>17 DEF Administers, Approve, SetRole, Reject, RejectEnds, adminFrame
<1>18. ASSUME NEW u \in User, Asking(u) PROVE TokenInv'
  BY <1>3, <1>9, <1>11, <1>12, <1>18, <1>19
     DEF Asking, Ask, FindSession, FindUser, Fails, Present, CloseStream, Expire
<1> QED
  BY <1>6, <1>7, <1>13, <1>14, <1>15, <1>16, <1>17, <1>18 DEF Next

\* A dashboard with an identity has the token of its writes, unless the browser was
\* closed since the sign-in or an earlier session's answer crossed that of a sign-in
\* (on_unauthorized, sign_in, load_auth_data).
THEOREM DashboardHasToken == Spec => []Tokened
<1>1. Init => TokenInv
  BY DEF Init, TokenInv, TokenOf, FreshPage
<1>2. TokenInv => Tokened
  BY DEF TokenInv, TokenOf, Tokened
<1> QED
  BY <1>1, <1>2, TypeInit, TypeStep, TokenStep, PTL DEF Spec

-----------------------------------------------------------------------------
(* Forms. *)

\* A handler that is about to answer has something to say.
Speaks(h) == h.at \in {"deny", "answer"} => h.say # "none"

SpeakInv == \A u \in User : Speaks(signUp[u]) /\ Speaks(signIn[u])

\* How an update of a handler says what it says.
LEMMA SpeakUpdate ==
  ASSUME NEW h \in Handler, NEW step \in Stage, NEW say \in Reply \ {"none"}
  PROVE  /\ Speaks([h EXCEPT !.at = "answer", !.say = say])
         /\ Speaks([h EXCEPT !.at = "deny", !.say = say])
         /\ step \notin {"deny", "answer"} => Speaks([h EXCEPT !.at = step])
         /\ h.at = "deny" /\ Speaks(h) => Speaks([h EXCEPT !.at = "answer"])
         /\ Speaks(Idle)
  BY DEF Handler, Speaks, Idle

LEMMA SpeakStep == TypeInv /\ SpeakInv /\ [Next]_vars => SpeakInv'
<1> SUFFICES ASSUME TypeInv, SpeakInv, [Next]_vars PROVE SpeakInv'
  OBVIOUS
<1>1. /\ signUp \in [User -> Handler] /\ signIn \in [User -> Handler]
      /\ \A u \in User : signUp[u] \in Handler /\ signIn[u] \in Handler
  BY DEF TypeInv, TypeOK
<1>2. /\ {"ok", "pending", "refused"} \subseteq Reply \ {"none"}
      /\ {"mark", "revoke", "check"} \subseteq Stage \ {"deny", "answer"}
      /\ \A a : Says(a) \in Reply \ {"none"}
  BY DEF Reply, Stage, Says
\* It is enough to look at the handler of the step.
<1>3. ASSUME NEW u \in User, NEW h, Speaks(h), SetUp(u, h), UNCHANGED signIn
      PROVE  SpeakInv'
  BY <1>1, <1>3 DEF SetUp, SpeakInv
<1>4. ASSUME NEW u \in User, NEW h, Speaks(h), SetIn(u, h), UNCHANGED signUp
      PROVE  SpeakInv'
  BY <1>1, <1>4 DEF SetIn, SpeakInv
<1>5. CASE UNCHANGED <<signUp, signIn>>
  BY <1>5 DEF SpeakInv
<1>6. ASSUME NEW u \in User, SubmitSignUp(u) \/ SubmitSignIn(u) PROVE SpeakInv'
  <2>1. Speaks([at |-> "create", id |-> made', say |-> "none"])
    BY DEF Speaks
  <2> QED
    BY <1>3, <1>4, <1>6, <2>1 DEF SubmitSignUp, SubmitSignIn
<1>7. ASSUME NEW u \in User, SigningUp(u) PROVE SpeakInv'
  <2>1. UNCHANGED signIn
    BY <1>7 DEF SigningUp, CreateAccount, AccountRefused, MarkPending, MarkFails, RevokeNew,
       AnswerSignUp, upFrame
  <2>2. \/ \E step \in {"mark", "revoke"} : UpTo(u, step)
        \/ \E say \in {"ok", "pending", "refused"} : UpEnds(u, say)
        \/ SetUp(u, Idle)
    BY <1>7 DEF SigningUp, CreateAccount, AccountRefused, MarkPending, MarkFails, RevokeNew,
       AnswerSignUp
  <2> QED
    BY <1>1, <1>2, <1>3, <2>1, <2>2, SpeakUpdate DEF UpTo, UpEnds
<1>8. ASSUME NEW u \in User, SigningIn(u) PROVE SpeakInv'
  <2>1. UNCHANGED signUp
    BY <1>8 DEF SigningIn, CreateSession, SessionRefused, Check, CheckFails, Deny,
       AnswerSignIn, inFrame
  <2>2. \/ InTo(u, "check")
        \/ \E say \in {"ok", "refused"} : InEnds(u, say)
        \/ SetIn(u, [signIn[u] EXCEPT !.at = "deny", !.say = Says(account[u])])
        \/ signIn[u].at = "deny" /\ InTo(u, "answer")
        \/ SetIn(u, Idle)
    BY <1>8 DEF SigningIn, CreateSession, SessionRefused, Check, CheckFails, Deny, AnswerSignIn
  <2>3. Speaks(signIn[u])
    BY DEF SpeakInv
  <2> QED
    BY <1>1, <1>2, <1>4, <2>1, <2>2, <2>3, SpeakUpdate DEF InTo, InEnds
<1>9. ASSUME NEW u \in User, Breaks(u) PROVE SpeakInv'
  <2>1. Speaks(Idle)
    BY DEF Speaks, Idle
  <2> QED
    BY <1>3, <1>4, <1>5, <1>9, <2>1 DEF Breaks
<1>10. ASSUME NEW u \in User, Shows(u) \/ Administers(u) PROVE SpeakInv'
  BY <1>5, <1>10 DEF Shows, serverVars, Administers, Approve, SetRole, Reject, RejectEnds,
     adminFrame
<1>11. ASSUME NEW u \in User, Asking(u) PROVE SpeakInv'
  BY <1>5, <1>11 DEF Asking, Ask, FindSession, FindUser, Fails, Present, Hear, CloseStream, Expire,
     BackToLogin, Reload, Reopen, askFrame
<1>12. CASE UNCHANGED vars
  BY <1>5, <1>12 DEF vars
<1> QED
  BY <1>6, <1>7, <1>8, <1>9, <1>10, <1>11, <1>12 DEF Next

\* A form that was sent is with its handler, or its answer is with the page.
ServedOf(u) ==
  /\ browser[u].form = "signUp" => browser[u].reply # "none" \/ signUp[u].at # "idle"
  /\ browser[u].form = "signIn" => browser[u].reply # "none" \/ signIn[u].at # "idle"

\* No form of the login page waits for an answer that nobody is going to give, be
\* the connection broken, the handler dropped, the page loaded again or logged out
\* (login.rs, auth_proxy_handler).
FormServed == \A u \in User : ServedOf(u)

LEMMA ServedStep ==
  TypeInv /\ SpeakInv /\ FormServed /\ [Next]_vars => FormServed'
<1> SUFFICES ASSUME TypeInv, SpeakInv, FormServed, [Next]_vars PROVE FormServed'
  OBVIOUS
<1>1. /\ browser \in [User -> Page] /\ \A u \in User : browser[u] \in Page
      /\ signUp \in [User -> Handler] /\ signIn \in [User -> Handler]
      /\ \A u \in User : signUp[u] \in Handler /\ signIn[u] \in Handler
  BY DEF TypeInv, TypeOK
<1>2. CASE UNCHANGED <<browser, signUp, signIn>>
  BY <1>2 DEF FormServed, ServedOf
\* A handler that goes on.
<1>3. ASSUME UNCHANGED browser,
             \A v \in User : /\ signUp'[v].at = "idle" => signUp[v].at = "idle"
                             /\ signIn'[v].at = "idle" => signIn[v].at = "idle"
      PROVE  FormServed'
  BY <1>3 DEF FormServed, ServedOf
\* A page that is changed, with its form not sent or its answer there.
<1>4. ASSUME NEW u \in User, NEW b \in Page, SetPage(u, b),
             \A v \in User \ {u} : signUp'[v] = signUp[v] /\ signIn'[v] = signIn[v],
             \/ b.form \notin {"signUp", "signIn"} \/ b.reply # "none"
             \/ b.form = "signUp" /\ signUp'[u].at # "idle"
             \/ b.form = "signIn" /\ signIn'[u].at # "idle"
             \/ /\ b.form = browser[u].form /\ b.reply = browser[u].reply
                /\ UNCHANGED <<signUp, signIn>>
      PROVE  FormServed'
  <2>1. browser'[u] = b /\ \A v \in User \ {u} : browser'[v] = browser[v]
    BY <1>1, <1>4, SetPageTypes
  <2> QED
    BY <1>4, <2>1 DEF FormServed, ServedOf
<1>5. ASSUME NEW u \in User, SubmitSignUp(u) PROVE FormServed'
  <2> DEFINE b == [browser[u] EXCEPT !.form = "signUp"]
  <2>1. b \in Page /\ b.form = "signUp" /\ SetPage(u, b)
    BY <1>1, <1>5 DEF Page, SubmitSignUp, Submits
  <2>2. /\ signUp'[u].at = "create" /\ UNCHANGED signIn
        /\ \A v \in User \ {u} : signUp'[v] = signUp[v]
    BY <1>1, <1>5 DEF SubmitSignUp, SetUp
  <2> HIDE DEF b
  <2> QED
    BY <1>4, <2>1, <2>2
<1>6. ASSUME NEW u \in User, SubmitSignIn(u) PROVE FormServed'
  <2> DEFINE b == [browser[u] EXCEPT !.form = "signIn"]
  <2>1. b \in Page /\ b.form = "signIn" /\ SetPage(u, b)
    BY <1>1, <1>6 DEF Page, SubmitSignIn, Submits
  <2>2. /\ signIn'[u].at = "create" /\ UNCHANGED signUp
        /\ \A v \in User \ {u} : signIn'[v] = signIn[v]
    BY <1>1, <1>6 DEF SubmitSignIn, SetIn
  <2> HIDE DEF b
  <2> QED
    BY <1>4, <2>1, <2>2
\* The answer to the form is in the page before its handler is gone.
<1>7. ASSUME NEW u \in User, NEW form \in {"signUp", "signIn"}, NEW h \in Handler,
             Receives(u, form, h), h.say # "none",
             \A v \in User \ {u} : signUp'[v] = signUp[v] /\ signIn'[v] = signIn[v],
             form = "signUp" => UNCHANGED signIn,
             form = "signIn" => UNCHANGED signUp
      PROVE  FormServed'
  <2>1. CASE browser[u].form # form \/ browser[u].reply # "none"
    <3>1. UNCHANGED browser
      BY <1>7, <2>1 DEF Receives
    <3> QED
      BY <1>7, <2>1, <3>1 DEF FormServed, ServedOf
  <2>2. CASE ~(browser[u].form # form \/ browser[u].reply # "none") /\ h.say = "ok"
    <3> DEFINE b == [browser[u] EXCEPT !.cookie = h.id, !.csrf = TRUE, !.reply = "ok",
                     !.closed = FALSE]
    <3>1. b \in Page /\ b.reply # "none"
      BY <1>1, Words, ZenonT(40) DEF Page, Handler
    <3>2. SetPage(u, b)
      BY <1>7, <2>2 DEF Receives
    <3> HIDE DEF b
    <3> QED
      BY <1>4, <1>7, <3>1, <3>2
  <2>3. CASE ~(browser[u].form # form \/ browser[u].reply # "none") /\ h.say # "ok"
    <3> DEFINE b == [browser[u] EXCEPT !.reply = h.say]
    <3>1. b \in Page /\ b.reply # "none"
      <4>1. browser[u] \in Page /\ h.say \in Reply \ {"none"}
        BY <1>1, <1>7 DEF Handler
      <4> QED
        BY <4>1 DEF Page
    <3>2. SetPage(u, b)
      BY <1>7, <2>3 DEF Receives
    <3> HIDE DEF b
    <3> QED
      BY <1>4, <1>7, <3>1, <3>2
  <2> QED
    BY <2>1, <2>2, <2>3
<1>8. ASSUME NEW u \in User, AnswerSignUp(u) PROVE FormServed'
  <2>1. signUp[u].say # "none" /\ Receives(u, "signUp", signUp[u]) /\ UNCHANGED signIn
    BY <1>8 DEF AnswerSignUp, SpeakInv, Speaks
  <2>2. \A v \in User \ {u} : signUp'[v] = signUp[v]
    BY <1>1, <1>8 DEF AnswerSignUp, SetUp
  <2> QED
    BY <1>1, <1>7, <2>1, <2>2
<1>9. ASSUME NEW u \in User, AnswerSignIn(u) PROVE FormServed'
  <2>1. signIn[u].say # "none" /\ Receives(u, "signIn", signIn[u]) /\ UNCHANGED signUp
    BY <1>9 DEF AnswerSignIn, SpeakInv, Speaks
  <2>2. \A v \in User \ {u} : signIn'[v] = signIn[v]
    BY <1>1, <1>9 DEF AnswerSignIn, SetIn
  <2> QED
    BY <1>1, <1>7, <2>1, <2>2
<1>10. ASSUME NEW u \in User, SigningUp(u), ~AnswerSignUp(u) PROVE FormServed'
  <2>1. UNCHANGED <<browser, signIn>>
    BY <1>10 DEF SigningUp, CreateAccount, AccountRefused, MarkPending, MarkFails, RevokeNew,
       upFrame
  <2>2. \/ \E step \in {"mark", "revoke"} : UpTo(u, step)
        \/ \E say \in {"ok", "pending", "refused"} : UpEnds(u, say)
    BY <1>10 DEF SigningUp, CreateAccount, AccountRefused, MarkPending, MarkFails, RevokeNew
  <2>3. signUp'[u].at # "idle" /\ \A v \in User \ {u} : signUp'[v] = signUp[v]
    BY <2>2, Words, UpToTypes, UpEndsTypes DEF Stage
  <2> QED
    BY <1>3, <2>1, <2>3
<1>11. ASSUME NEW u \in User, SigningIn(u), ~AnswerSignIn(u) PROVE FormServed'
  <2>1. UNCHANGED <<browser, signUp>>
    BY <1>11 DEF SigningIn, CreateSession, SessionRefused, Check, CheckFails, Deny, inFrame
  <2>2. signIn'[u].at # "idle" /\ \A v \in User \ {u} : signIn'[v] = signIn[v]
    <3>1. CASE Check(u)
      BY <3>1, CheckTypes
    <3>2. CASE ~Check(u)
      <4>1. \/ \E step \in {"check", "answer"} : InTo(u, step)
            \/ \E say \in {"ok", "refused"} : InEnds(u, say)
        BY <1>11, <3>2 DEF SigningIn, CreateSession, SessionRefused, CheckFails, Deny
      <4> QED
        BY <4>1, Words, InToTypes, InEndsTypes DEF Stage
    <3> QED
      BY <3>1, <3>2
  <2> QED
    BY <1>3, <2>1, <2>2
<1>12. ASSUME NEW u \in User, Shows(u) PROVE FormServed'
  <2> DEFINE b == Shown(browser[u])
  <2>1. browser[u] \in Page /\ browser[u].reply # "none"
    BY <1>1, <1>12 DEF Shows
  <2>2. b \in Page /\ b.form \notin {"signUp", "signIn"}
    BY <2>1 DEF Shown, AfterError, Page, Reply
  <2>3. SetPage(u, b) /\ UNCHANGED <<signUp, signIn>>
    BY <1>12 DEF Shows, serverVars
  <2> HIDE DEF b
  <2> QED
    BY <1>4, <2>2, <2>3
<1>13. ASSUME NEW u \in User, Breaks(u) PROVE FormServed'
  <2> DEFINE b == [browser[u] EXCEPT !.reply = "refused"]
  <2>1. b \in Page /\ b.reply # "none" /\ SetPage(u, b)
    BY <1>1, <1>13, Words DEF Page, Breaks
  <2>2. \A v \in User \ {u} : signUp'[v] = signUp[v] /\ signIn'[v] = signIn[v]
    BY <1>1, <1>13 DEF Breaks, SetUp, SetIn
  <2> HIDE DEF b
  <2> QED
    BY <1>4, <2>1, <2>2
<1>14. ASSUME NEW u \in User, NEW b \in Page, LogOut(u, b), UNCHANGED <<signUp, signIn>>,
              b.form = browser[u].form, b.reply = browser[u].reply
       PROVE  FormServed'
  <2>1. /\ LoggedOut(b) \in Page /\ LoggedOut(b).form = browser[u].form
        /\ LoggedOut(b).reply = browser[u].reply
    BY <1>14 DEF LoggedOut, Page
  <2>2. SetPage(u, LoggedOut(b))
    BY <1>14 DEF LogOut
  <2> QED
    BY <1>4, <1>14, <2>1, <2>2
<1>15. ASSUME NEW u \in User, NEW k \in Slot, Hear(u, k) PROVE FormServed'
  <2> DEFINE b == [browser[u] EXCEPT !.cookie = 0]
  <2>1. b \in Page /\ b.form = browser[u].form /\ b.reply = browser[u].reply
    BY <1>1, NoToken DEF Page
  <2>2. UNCHANGED <<signUp, signIn>>
    BY <1>15 DEF Hear, askFrame
  <2>3. UNCHANGED browser \/ LogOut(u, b) \/ LogOut(u, browser[u])
    BY <1>15 DEF Hear
  <2> HIDE DEF b
  <2> QED
    BY <1>1, <1>2, <1>14, <2>1, <2>2, <2>3
<1>16. ASSUME NEW u \in User, BackToLogin(u) PROVE FormServed'
  <2> DEFINE b == [browser[u] EXCEPT !.pending = FALSE]
  <2>1. b \in Page /\ b.form = browser[u].form /\ b.reply = browser[u].reply
    BY <1>1 DEF Page
  <2>2. SetPage(u, b) /\ UNCHANGED <<signUp, signIn>>
    BY <1>16 DEF BackToLogin, askFrame
  <2> HIDE DEF b
  <2> QED
    BY <1>4, <2>1, <2>2
<1>17. ASSUME NEW u \in User, Reload(u) PROVE FormServed'
  <2> DEFINE b == [browser[u] EXCEPT !.pending = FALSE, !.form = "free", !.reply = "none"]
  <2>1. b \in Page /\ b.form = "free"
    BY <1>1 DEF Page, Reply
  <2>2. SetPage(u, b) /\ UNCHANGED <<signUp, signIn>>
    BY <1>17 DEF Reload, askFrame
  <2> HIDE DEF b
  <2> QED
    BY <1>4, <2>1, <2>2
<1>21. ASSUME NEW u \in User, Reopen(u) PROVE FormServed'
  <2> DEFINE b == [FreshPage EXCEPT !.auth = browser[u].auth, !.closed = browser[u].auth,
                                    !.cookie = browser[u].cookie]
  <2>1. b \in Page /\ b.form = "free"
    BY <1>1 DEF Page, FreshPage, Reply
  <2>2. SetPage(u, b) /\ UNCHANGED <<signUp, signIn>>
    BY <1>21 DEF Reopen, askFrame
  <2> HIDE DEF b
  <2> QED
    BY <1>4, <2>1, <2>2
<1>18. ASSUME NEW u \in User, Administers(u) PROVE FormServed'
  BY <1>2, <1>18 DEF Administers, Approve, SetRole, Reject, RejectEnds, adminFrame
<1>19. ASSUME NEW u \in User, Asking(u) PROVE FormServed'
  BY <1>2, <1>15, <1>16, <1>17, <1>19, <1>21
     DEF Asking, Ask, FindSession, FindUser, Fails, Present, CloseStream, Expire, askFrame
<1>20. CASE UNCHANGED vars
  BY <1>2, <1>20 DEF vars
<1> QED
  BY <1>5, <1>6, <1>8, <1>9, <1>10, <1>11, <1>12, <1>13, <1>18, <1>19, <1>20 DEF Next

\* A form that was sent has a handler at work on it or an answer to show.
THEOREM FormsServed == Spec => []FormServed
<1>1. Init => SpeakInv
  BY DEF Init, SpeakInv, Speaks, Idle
<1>2. Init => FormServed
  BY DEF Init, FormServed, ServedOf, FreshPage
<1> QED
  BY <1>1, <1>2, TypeInit, TypeStep, SpeakStep, ServedStep, PTL DEF Spec

=============================================================================
