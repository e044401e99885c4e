------------------------------- MODULE Access -------------------------------
(***************************************************************************)
(* Operators: how they sign up, are approved or rejected, sign in, and are *)
(* let through by the handlers of the control plane, and what the login    *)
(* page and the dashboard make of the answers.                             *)
(*                                                                         *)
(* Each operator has one browser.  The library behind /auth (accounts,     *)
(* passwords, sessions, cookies) is external: it is what the proxy handler *)
(* expects of it.  The roles user and admin differ in nothing here, for no *)
(* route asks for the second; headers of origin, addresses and the time of *)
(* the last login are left out.                                            *)
(***************************************************************************)
EXTENDS Naturals, FiniteSets

CONSTANTS
  User,
  MaxSession, \* sign-ups and sign-ins sent
  MaxRequest, \* requests a dashboard has under way
  MaxAdmin,   \* decisions of an administrator
  MaxFaults   \* failing statements and lost connections

ASSUME AccessAssumption ==
  /\ MaxSession \in Nat /\ MaxRequest \in Nat
  /\ MaxAdmin \in Nat /\ MaxFaults \in Nat

VARIABLES
  requireApproval, \* the setting
  account,  \* users: each row
  sessions, \* sessions: the live ones of each user
  made,     \* session tokens given out
  signUp, signIn, \* the proxy handler of each user's request
  reject,   \* the users whose rejection is being handled
  browser,  \* the page of each user
  request,  \* its requests
  decided, faults,
  approved, \* history: the users an administrator has approved
  slipped,  \* history: those for whom a statement failed or a handler was dropped
  crossed   \* history: pages that were logged out while a sign-in was answered

serverVars == <<account, sessions, signUp, signIn, reject, decided, approved, slipped>>
vars == <<requireApproval, account, sessions, made, signUp, signIn, reject, browser, request,
          decided, faults, approved, slipped, crossed>>

Session == 1..MaxSession
Slot == 1..MaxRequest

Fault == faults < MaxFaults /\ faults' = faults + 1

\* A fault that leaves a step undone for u.
Slips(u) == Fault /\ slipped' = slipped \union {u}

-----------------------------------------------------------------------------

Nobody == [exists |-> FALSE, banned |-> FALSE, role |-> "none"]

\* A faulty variant of Allowed: the role is taken for the whole answer.
AllowedByRole(a) == a.role = "user"

\* Who is let in.
Allowed(a) == ~a.banned /\ a.role = "user"

\* A faulty variant of Says: the role of the account is passed on.
SaysRole(a) == IF a.banned THEN a.role ELSE "refused"

\* What the one who is not is told.
Says(a) == IF a.banned /\ a.role = "pending" THEN "pending" ELSE "refused"

Idle == [at |-> "idle", id |-> 0, say |-> "none"]

Blank == [kind |-> "none", at |-> "idle", cookie |-> 0, csrf |-> FALSE, late |-> FALSE]

FreshPage == [auth |-> FALSE, csrf |-> FALSE, cookie |-> 0, pending |-> FALSE,
              form |-> "free", reply |-> "none", closed |-> FALSE]

\* What the page shows.
View(b) == IF b.pending THEN "pending" ELSE IF b.auth THEN "dashboard" ELSE "login"

SetAccount(u, a) == account' = [account EXCEPT ![u] = a]
SetUp(u, h) == signUp' = [signUp EXCEPT ![u] = h]
SetIn(u, h) == signIn' = [signIn EXCEPT ![u] = h]
SetPage(u, b) == browser' = [browser EXCEPT ![u] = b]
SetRequest(u, k, r) == request' = [request EXCEPT ![u][k] = r]

UpTo(u, step) == SetUp(u, [signUp[u] EXCEPT !.at = step])
InTo(u, step) == SetIn(u, [signIn[u] EXCEPT !.at = step])
UpEnds(u, say) == SetUp(u, [signUp[u] EXCEPT !.at = "answer", !.say = say])
InEnds(u, say) == SetIn(u, [signIn[u] EXCEPT !.at = "answer", !.say = say])

Revoke(u) == sessions' = [sessions EXCEPT ![u] = {}]
Add(u, id) == sessions' = [sessions EXCEPT ![u] = @ \union {id}]

-----------------------------------------------------------------------------
\* The login page sends a form and does not take another before the answer.

Submits(u, form) ==
  /\ View(browser[u]) = "login" /\ browser[u].form = "free"
  /\ made < MaxSession
  /\ made' = made + 1
  /\ SetPage(u, [browser[u] EXCEPT !.form = form])

SubmitSignUp(u) ==
  /\ signUp[u] = Idle
  /\ Submits(u, "signUp")
  /\ SetUp(u, [at |-> "create", id |-> made', say |-> "none"])
  /\ UNCHANGED <<requireApproval, account, sessions, signIn, reject, request, decided,
                 faults, approved, slipped, crossed>>

SubmitSignIn(u) ==
  /\ signIn[u] = Idle
  /\ Submits(u, "signIn")
  /\ SetIn(u, [at |-> "create", id |-> made', say |-> "none"])
  /\ UNCHANGED <<requireApproval, account, sessions, signUp, reject, request, decided,
                 faults, approved, slipped, crossed>>

-----------------------------------------------------------------------------
\* Sign-up.  The library makes the account, and a session too unless approval
\* is required; the handler then marks the account, deletes its sessions and
\* says that approval is pending, whatever came of these two.

upFrame == <<requireApproval, made, signIn, reject, browser, request, decided, approved,
             crossed>>

\* The role of a new account is the library's choice.
CreateAccount(u) ==
  /\ signUp[u].at = "create" /\ ~account[u].exists
  /\ \E role \in {"none", "user"} :
       SetAccount(u, [exists |-> TRUE, banned |-> FALSE, role |-> role])
  /\ IF requireApproval THEN UpTo(u, "mark") /\ UNCHANGED sessions
                        ELSE UpEnds(u, "ok") /\ Add(u, signUp[u].id)
  /\ UNCHANGED <<upFrame, faults, slipped>>

AccountRefused(u) ==
  /\ signUp[u].at = "create"
  /\ UpEnds(u, "refused")
  /\ UNCHANGED <<upFrame, account, sessions, faults, slipped>>

MarkPending(u) ==
  /\ signUp[u].at = "mark"
  /\ SetAccount(u, [account[u] EXCEPT !.banned = TRUE, !.role = "pending"])
  /\ UpTo(u, "revoke")
  /\ UNCHANGED <<upFrame, sessions, faults, slipped>>

MarkFails(u) ==
  /\ signUp[u].at = "mark"
  /\ Slips(u)
  /\ UpEnds(u, "pending")
  /\ UNCHANGED <<upFrame, account, sessions>>

RevokeNew(u) ==
  /\ signUp[u].at = "revoke"
  /\ UpEnds(u, "pending")
  /\ \/ Revoke(u) /\ UNCHANGED <<faults, slipped>>
     \/ Slips(u) /\ UNCHANGED sessions
  /\ UNCHANGED <<upFrame, account>>

-----------------------------------------------------------------------------
\* Sign-in.  The library makes a session; the handler then looks at the
\* account, and deletes the sessions of one that is not let in.

inFrame == <<requireApproval, account, made, signUp, reject, browser, request, decided,
             approved, crossed>>

CreateSession(u) ==
  /\ signIn[u].at = "create" /\ account[u].exists
  /\ Add(u, signIn[u].id)
  /\ InTo(u, "check")
  /\ UNCHANGED <<inFrame, faults, slipped>>

\* No such account, a wrong password, or another error of the library.
SessionRefused(u) ==
  /\ signIn[u].at = "create"
  /\ InEnds(u, "refused")
  /\ UNCHANGED <<inFrame, sessions, faults, slipped>>

Check(u) ==
  /\ signIn[u].at = "check"
  /\ IF Allowed(account[u])
     THEN InEnds(u, "ok")
     ELSE SetIn(u, [signIn[u] EXCEPT !.at = "deny", !.say = Says(account[u])])
  /\ UNCHANGED <<inFrame, sessions, faults, slipped>>

\* When the account cannot be read the sign-in goes through.
CheckFails(u) ==
  /\ signIn[u].at = "check"
  /\ Slips(u)
  /\ InEnds(u, "ok")
  /\ UNCHANGED <<inFrame, sessions>>

Deny(u) ==
  /\ signIn[u].at = "deny"
  /\ InTo(u, "answer")
  /\ \/ Revoke(u) /\ UNCHANGED <<faults, slipped>>
     \/ Slips(u) /\ UNCHANGED sessions
  /\ UNCHANGED inFrame

-----------------------------------------------------------------------------
\* The answer to a form.  The cookies of a successful one are set when it
\* arrives; the page takes up the identity when it has read the body.

Receives(u, form, handler) ==
  LET b == browser[u] IN
  IF b.form # form \/ b.reply # "none" THEN UNCHANGED browser
  ELSE IF handler.say = "ok"
       THEN SetPage(u, [b EXCEPT !.cookie = handler.id, !.csrf = TRUE, !.reply = "ok",
                                    !.closed = FALSE])
       ELSE SetPage(u, [b EXCEPT !.reply = handler.say])

AnswerSignUp(u) ==
  /\ signUp[u].at = "answer"
  /\ Receives(u, "signUp", signUp[u])
  /\ SetUp(u, Idle)
  /\ UNCHANGED <<requireApproval, account, sessions, made, signIn, reject, request, decided,
                 faults, approved, slipped, crossed>>

AnswerSignIn(u) ==
  /\ signIn[u].at = "answer"
  /\ Receives(u, "signIn", signIn[u])
  /\ SetIn(u, Idle)
  /\ UNCHANGED <<requireApproval, account, sessions, made, signUp, reject, request, decided,
                 faults, approved, slipped, crossed>>

\* A faulty variant of AfterError: the callback of the sign-up for both.
AfterErrorBoth(form) == "stuck"

\* What the form is after an error.  The callback of a sign-up does not end the
\* loading: the form stays disabled until the page is loaded again.
AfterError(form) == IF form = "signUp" THEN "stuck" ELSE "free"

\* What the page makes of an answer.
Shown(b) ==
  CASE b.reply = "ok"      -> [b EXCEPT !.reply = "none", !.form = "free", !.auth = TRUE]
    [] b.reply = "pending" -> [b EXCEPT !.reply = "none", !.form = "free", !.pending = TRUE]
    [] b.reply = "refused" -> [b EXCEPT !.reply = "none", !.form = AfterError(b.form)]

Shows(u) ==
  /\ browser[u].reply # "none"
  /\ SetPage(u, Shown(browser[u]))
  /\ UNCHANGED <<requireApproval, serverVars, made, request, faults, crossed>>

\* The connection of a form breaks.  The page shows an error; the handler goes
\* on, or is dropped where it stands.
Breaks(u) ==
  /\ browser[u].form \in {"signUp", "signIn"} /\ browser[u].reply = "none"
  /\ SetPage(u, [browser[u] EXCEPT !.reply = "refused"])
  /\ \/ Fault /\ UNCHANGED <<signUp, signIn, slipped>>
     \/ /\ Slips(u)
        /\ IF browser[u].form = "signUp"
           THEN SetUp(u, Idle) /\ UNCHANGED signIn
           ELSE SetIn(u, Idle) /\ UNCHANGED signUp
  /\ UNCHANGED <<requireApproval, account, sessions, made, reject, request, decided, approved,
                 crossed>>

-----------------------------------------------------------------------------
\* Decisions of an administrator.

adminFrame == <<requireApproval, made, signUp, signIn, browser, crossed>>

Decides == decided < MaxAdmin /\ decided' = decided + 1

Approve(u) ==
  /\ account[u].exists
  /\ Decides
  /\ SetAccount(u, [account[u] EXCEPT !.banned = FALSE, !.role = "user"])
  /\ approved' = approved \union {u}
  /\ request' = [request EXCEPT ![u] = [k \in Slot |-> [@[k] EXCEPT !.late = FALSE]]]
  /\ UNCHANGED <<adminFrame, sessions, reject, faults, slipped>>

SetRole(u) ==
  /\ account[u].exists
  /\ Decides
  /\ SetAccount(u, [account[u] EXCEPT !.role = "user"])
  /\ UNCHANGED <<adminFrame, sessions, reject, request, faults, approved, slipped>>

\* A rejection is two statements; the error of the second is ignored.
RejectStep(u, step) ==
  /\ SetAccount(u, [account[u] EXCEPT !.banned = @ \/ step = "ban"])
  /\ sessions' = [sessions EXCEPT ![u] = IF step = "revoke" THEN {} ELSE @]

\* A faulty variant of RejectOrder: the sessions go first.
RejectOrderSwapped == [first |-> "revoke", last |-> "ban"]

RejectOrder == [first |-> "ban", last |-> "revoke"]

Reject(u) ==
  /\ account[u].exists /\ u \notin reject
  /\ Decides
  /\ RejectStep(u, RejectOrder.first)
  /\ reject' = reject \union {u}
  /\ UNCHANGED <<adminFrame, request, faults, approved, slipped>>

RejectEnds(u) ==
  /\ u \in reject
  /\ reject' = reject \ {u}
  /\ \/ RejectStep(u, RejectOrder.last) /\ UNCHANGED <<faults, slipped>>
     \/ Slips(u) /\ UNCHANGED <<account, sessions>>
  /\ UNCHANGED <<adminFrame, request, decided, approved>>

-----------------------------------------------------------------------------
\* The dashboard.  A read needs the session, a write and the request for a
\* stream ticket the CSRF token too; a stream is opened with the ticket, by the
\* signature and the age of which its holder is known.

askFrame == <<requireApproval, account, made, signUp, signIn, reject, decided, faults,
              approved, slipped>>

\* History: what is sent by one who has been rejected, until approved.
IsLate(u) == account[u].banned

NeedsToken(kind) == kind \in {"write", "ticket"}

Ask(u, k, kind) ==
  /\ View(browser[u]) = "dashboard"
  /\ request[u][k] = Blank /\ \A j \in 1..(k - 1) : request[u][j] # Blank
  /\ SetRequest(u, k, [kind |-> kind, at |-> "session", cookie |-> browser[u].cookie,
                        csrf |-> NeedsToken(kind) /\ browser[u].csrf, late |-> IsLate(u)])
  /\ UNCHANGED <<askFrame, sessions, browser, crossed>>

\* Nothing else of a request is looked at again.
Ends(u, k, kind, step) ==
  SetRequest(u, k, [Blank EXCEPT !.kind = kind, !.at = step])

\* A sign-out deletes the session it finds.
FindSession(u, k) ==
  LET r == request[u][k] IN
  /\ r.at = "session"
  /\ IF r.cookie \notin sessions[u] THEN Ends(u, k, r.kind, "refused")
     ELSE IF r.kind = "signOut" THEN Ends(u, k, r.kind, "ok")
     ELSE SetRequest(u, k, [r EXCEPT !.at = "user", !.cookie = 0])
  /\ sessions' = [sessions EXCEPT ![u] = IF r.kind = "signOut" THEN @ \ {r.cookie} ELSE @]
  /\ UNCHANGED <<askFrame, browser, crossed>>

\* A faulty variant of Admits: a ticket is enough for a stream.
AdmitsTicket(u, r) == r.kind = "stream" \/ Allowed(account[u])

\* The account is read again for a stream.
Admits(u, r) == Allowed(account[u])

FindUser(u, k) ==
  LET r == request[u][k] IN
  /\ r.at = "user"
  /\ Ends(u, k, r.kind, IF Admits(u, r) /\ (NeedsToken(r.kind) => r.csrf) THEN "ok" ELSE "refused")
  /\ UNCHANGED <<askFrame, sessions, browser, crossed>>

\* The ticket is presented within its 30 seconds, or too late.
Present(u, k) ==
  LET r == request[u][k] IN
  /\ r.kind = "ticket" /\ r.at = "ok"
  /\ \/ SetRequest(u, k, [r EXCEPT !.kind = "stream", !.at = "user", !.late = IsLate(u)])
     \/ SetRequest(u, k, [r EXCEPT !.kind = "stream", !.at = "refused", !.late = FALSE])
  /\ UNCHANGED <<askFrame, sessions, browser, crossed>>

\* A session comes to its end.
Expire(u) ==
  /\ \E id \in sessions[u] : sessions' = [sessions EXCEPT ![u] = @ \ {id}]
  /\ UNCHANGED <<askFrame, browser, request, crossed>>

\* An error of the server's, or a broken connection: only the page of a sign-out
\* makes anything of it.
Fails(u, k) ==
  LET r == request[u][k] IN
  /\ r.at \in {"session", "user"}
  /\ IF r.kind = "signOut" THEN Ends(u, k, r.kind, "refused") ELSE SetRequest(u, k, Blank)
  /\ UNCHANGED <<askFrame, sessions, browser, crossed>>

\* A faulty variant of LoggedOut: the identity is kept.
LoggedOutHalf(b) == [b EXCEPT !.csrf = FALSE]

\* What a page keeps: the session's cookie is not its to delete.
LoggedOut(b) == [b EXCEPT !.auth = FALSE, !.csrf = FALSE]

LogOut(u, b) ==
  /\ SetPage(u, LoggedOut(b))
  /\ crossed' = IF b.reply = "ok" THEN crossed \union {u} ELSE crossed \ {u}

\* A sign-out logs the page out whatever the answer, and so does a read that is
\* refused, but for the poll of a workflow; a write or a ticket does not.
\* A stream stays open, whatever is decided about its user.
Hear(u, k) ==
  LET r == request[u][k]
      b == browser[u] IN
  /\ r.at \in {"ok", "refused"} /\ ~(r.kind = "ticket" /\ r.at = "ok")
  /\ SetRequest(u, k, IF r.kind = "stream" /\ r.at = "ok" THEN [r EXCEPT !.at = "open"]
                       ELSE Blank)
  /\ \/ r.kind = "signOut" /\ LogOut(u, IF r.at = "ok" THEN [b EXCEPT !.cookie = 0] ELSE b)
     \/ r.kind = "read" /\ r.at = "refused" /\ LogOut(u, b)
     \/ r.kind # "signOut" /\ UNCHANGED <<browser, crossed>>
  /\ UNCHANGED <<askFrame, sessions>>

CloseStream(u, k) ==
  /\ request[u][k].at = "open"
  /\ SetRequest(u, k, Blank)
  /\ UNCHANGED <<askFrame, sessions, browser, crossed>>

BackToLogin(u) ==
  /\ browser[u].pending
  /\ SetPage(u, [browser[u] EXCEPT !.pending = FALSE])
  /\ UNCHANGED <<askFrame, sessions, request, crossed>>

\* A page that is loaded again has the cookies and the identity, and hears no
\* answer to what it sent before.
Reload(u) ==
  /\ browser[u] # FreshPage
  /\ SetPage(u, [browser[u] EXCEPT !.pending = FALSE, !.form = "free", !.reply = "none"])
  /\ request' = [request EXCEPT ![u] = [k \in Slot |-> Blank]]
  /\ UNCHANGED <<askFrame, sessions, crossed>>

\* A browser that is closed and opened again has the identity, which is stored,
\* and not the token, whose cookie ends with it.  The library's cookie is kept: to
\* lose it is, for the page, what it is that the session ends.
Reopen(u) ==
  /\ browser[u] # FreshPage
  /\ SetPage(u, [FreshPage EXCEPT !.auth = browser[u].auth, !.closed = browser[u].auth,
                                  !.cookie = browser[u].cookie])
  /\ request' = [request EXCEPT ![u] = [k \in Slot |-> Blank]]
  /\ UNCHANGED <<askFrame, sessions, crossed>>

-----------------------------------------------------------------------------

Init ==
  /\ requireApproval \in BOOLEAN
  /\ account = [u \in User |-> Nobody]
  /\ sessions = [u \in User |-> {}]
  /\ made = 0
  /\ signUp = [u \in User |-> Idle]
  /\ signIn = [u \in User |-> Idle]
  /\ reject = {}
  /\ browser = [u \in User |-> FreshPage]
  /\ request = [u \in User |-> [k \in Slot |-> Blank]]
  /\ decided = 0
  /\ faults = 0
  /\ approved = {}
  /\ slipped = {}
  /\ crossed = {}

SigningUp(u) ==
  \/ CreateAccount(u) \/ AccountRefused(u) \/ MarkPending(u) \/ MarkFails(u)
  \/ RevokeNew(u) \/ AnswerSignUp(u)

SigningIn(u) ==
  \/ CreateSession(u) \/ SessionRefused(u) \/ Check(u) \/ CheckFails(u)
  \/ Deny(u) \/ AnswerSignIn(u)

Asking(u) ==
  \/ \E k \in Slot :
       \/ \E kind \in {"read", "write", "ticket", "signOut"} : Ask(u, k, kind)
       \/ FindSession(u, k) \/ FindUser(u, k) \/ Fails(u, k) \/ Present(u, k)
       \/ Hear(u, k) \/ CloseStream(u, k)
  \/ Expire(u) \/ BackToLogin(u) \/ Reload(u) \/ Reopen(u)

Administers(u) == Approve(u) \/ SetRole(u) \/ Reject(u) \/ RejectEnds(u)

Next ==
  \E u \in User :
    \/ SubmitSignUp(u) \/ SubmitSignIn(u) \/ SigningUp(u) \/ SigningIn(u)
    \/ Shows(u) \/ Breaks(u) \/ Administers(u) \/ Asking(u)

\* The server handles what it was sent, and the page what it is answered.
Fairness == \A u \in User : WF_vars(SigningIn(u)) /\ WF_vars(Shows(u))

Spec == Init /\ [][Next]_vars /\ Fairness

-----------------------------------------------------------------------------

Reply == {"none", "ok", "pending", "refused"}

Account == [exists : BOOLEAN, banned : BOOLEAN, role : {"none", "pending", "user"}]

Handler == [at : {"idle", "create", "mark", "revoke", "check", "deny", "answer"},
            id : 0..MaxSession, say : Reply]

Page == [auth : BOOLEAN, csrf : BOOLEAN, cookie : 0..MaxSession, pending : BOOLEAN,
         form : {"free", "signUp", "signIn", "stuck"}, reply : Reply,
         closed : BOOLEAN] \* history: the identity has outlived the browser it was made in

Request == [kind : {"none", "read", "write", "ticket", "stream", "signOut"},
            at : {"idle", "session", "user", "ok", "refused", "open"},
            cookie : 0..MaxSession, csrf : BOOLEAN, late : BOOLEAN]

\* Every variable has its type.
TypeOK ==
  /\ requireApproval \in BOOLEAN
  /\ account \in [User -> Account]
  /\ sessions \in [User -> SUBSET Session]
  /\ made \in 0..MaxSession
  /\ signUp \in [User -> Handler] /\ signIn \in [User -> Handler]
  /\ reject \subseteq User
  /\ browser \in [User -> Page]
  /\ request \in [User -> [Slot -> Request]]
  /\ decided \in 0..MaxAdmin /\ faults \in 0..MaxFaults
  /\ approved \subseteq User /\ slipped \subseteq User /\ crossed \subseteq User

\* An account that is banned has no session left once no handler works for it,
\* unless one of the ignored errors came between: a sign-in that races a
\* rejection is caught by the one or the other
\* (auth_proxy_handler, reject_user_handler).
Revoked ==
  \A u \in User :
    account[u].banned /\ u \notin reject /\ u \notin slipped
      /\ signUp[u].at # "revoke" /\ signIn[u].at \notin {"check", "deny"}
    => sessions[u] = {}

\* A dashboard that shows an identity has the CSRF token its writes need, unless
\* the browser was closed since the sign-in, or an answer to an earlier session
\* took the token while a sign-in was answered; no refusal, error or reload leaves
\* the one without the other (on_unauthorized, sign_in, load_auth_data).
Tokened ==
  \A u \in User : browser[u].auth => browser[u].csrf \/ browser[u].closed \/ u \in crossed

Granted(u, k) == request[u][k].at = "user" /\ request'[u][k].at = "ok"

\* Where approval is required, a user whom nobody approved is let through only
\* while the sign-up that is to mark the account is still handled, or when that
\* failed; a role that is set is no approval (auth_proxy_handler, set_role_handler).
OnlyApproved ==
  [][\A u \in User : \A k \in Slot :
       Granted(u, k) /\ requireApproval
       => u \in approved \union slipped \/ signUp[u].at = "mark"]_vars

\* Nothing that a user asks for when rejected is granted before an approval, with
\* whatever session or ticket obtained earlier (the extractors).
RejectionHolds ==
  [][\A u \in User : \A k \in Slot : Granted(u, k) => ~request[u][k].late]_vars

\* A sign-in comes to an end: the form of the login page can be used again, or
\* the page has moved on (login.rs).
SignInEnds ==
  \A u \in User : (browser[u].form = "signIn") ~> (browser[u].form = "free")
=============================================================================
