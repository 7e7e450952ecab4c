------------------------------ MODULE Sessions ------------------------------
(***************************************************************************)
(* How a browser gets in: logging in and out (api/auth.go), the cookie     *)
(* (api/cookies.go), and the chain requireAuth, requireMembership,         *)
(* requireAdmin in front of the handlers (api/middleware.go,               *)
(* api/routes.go).                                                         *)
(*                                                                         *)
(* Each link of the chain is a query of its own, and the browser may have  *)
(* several requests on their way, answered in any order: a request is cut  *)
(* at every query.  A request that is refused without a query (no cookie,  *)
(* a malformed body) or with the wrong password changes nothing and is     *)
(* left out.  Roles and users.active are decided elsewhere (module         *)
(* Membership); here they change under the requests' feet.                 *)
(***************************************************************************)
CONSTANTS
    UserIds,        \* accounts
    FirstRole,      \* their roles at the start
    Tokens,         \* tokens a login can issue
    Requests,       \* requests the browser can have in progress at a time
    None            \* no token, no user

ASSUME SessionsAssumption ==
    /\ FirstRole \in [UserIds -> {"outsider", "member", "admin"}]
    /\ None \notin UserIds \cup Tokens

VARIABLES
    role, active,   \* users.role and users.active
    session,        \* a row of sessions: none yet, live, expired, or gone
    owner,          \* sessions.user_id
    ended,          \* history: the tokens a logout was answered 204 for
    cookie,         \* what the browser has under activity_library_session
    req             \* the browser's requests

users    == <<role, active>>
sessions == <<session, owner, ended>>
vars     == <<role, active, session, owner, ended, cookie, req>>

\* Which part of the chain a route is behind.
Levels == {"session", "member", "admin"}

(***************************************************************************)
(* A request: logging in as `user', logging out, or on its way to a        *)
(* handler of `level', with the cookie `token' it was sent with and the    *)
(* `user' the chain found.  Its answer, if it `sets' the cookie, gives it  *)
(* `value' (None clears it).  History: the token had been logged out of    *)
(* when the request was sent (`late'); its owner had been deactivated      *)
(* (`barred').                                                             *)
(***************************************************************************)
Steps    == {"idle", "login", "found", "logout", "sent", "authed", "member", "handling",
             "answered"}
Admitted == {"authed", "member", "handling"}

Idle == [pc |-> "idle", level |-> "session", token |-> None, user |-> None,
         sets |-> FALSE, value |-> None, late |-> FALSE, barred |-> FALSE]

Starting(step, level, token, user) ==
    [pc |-> step, level |-> level, token |-> token, user |-> user,
     sets |-> FALSE, value |-> None, late |-> token \in ended,
     barred |-> token # None /\ ~active[owner[token]]]

Reaching(r, step, u) ==
    [pc |-> step, level |-> req[r].level, token |-> req[r].token, user |-> u,
     sets |-> FALSE, value |-> None, late |-> req[r].late, barred |-> req[r].barred]

Answer(r, sets, value) ==
    [pc |-> "answered", level |-> req[r].level, token |-> req[r].token, user |-> req[r].user,
     sets |-> sets, value |-> value, late |-> req[r].late, barred |-> req[r].barred]

Becomes(r, record) == req' = [req EXCEPT ![r] = record]

\* setSessionCookie, clearSessionCookie, and an answer with neither.
SetCookie(r, t) == Becomes(r, Answer(r, TRUE, t))
ClearCookie(r)  == Becomes(r, Answer(r, TRUE, None))
KeepCookie(r)   == Becomes(r, Answer(r, FALSE, None))

Init ==
    /\ role = FirstRole
    /\ active = [u \in UserIds |-> TRUE]
    /\ session = [t \in Tokens |-> "none"]
    /\ owner = [t \in Tokens |-> None]
    /\ ended = {}
    /\ cookie = None
    /\ req = [r \in Requests |-> Idle]

(***************************************************************************)
(* handleLogin.                                                            *)
(***************************************************************************)
SendLogin(r, u) ==
    /\ req[r].pc = "idle"
    /\ Becomes(r, Starting("login", "session", None, u))
    /\ UNCHANGED <<users, sessions, cookie>>

\* GetUserByEmail finds active accounts; the password is verified next.
FindUser(r) ==
    /\ req[r].pc = "login"
    /\ IF active[req[r].user]
       THEN Becomes(r, Reaching(r, "found", req[r].user))
       ELSE KeepCookie(r)
    /\ UNCHANGED <<users, sessions, cookie>>

\* CreateSession, with a token nobody has had.
CreateSession(r, t) ==
    /\ req[r].pc = "found"
    /\ session[t] = "none"
    /\ session' = [session EXCEPT ![t] = "live"]
    /\ owner' = [owner EXCEPT ![t] = req[r].user]
    /\ SetCookie(r, t)
    /\ UNCHANGED <<users, ended, cookie>>

(***************************************************************************)
(* handleLogout.                                                           *)
(***************************************************************************)
SendLogout(r) ==
    /\ req[r].pc = "idle"
    /\ cookie # None
    /\ Becomes(r, Starting("logout", "session", cookie, None))
    /\ UNCHANGED <<users, sessions, cookie>>

\* Mutant: expires the cookie and leaves the row.
DeleteCookieOnly(r) ==
    /\ req[r].pc = "logout"
    /\ ended' = ended \cup {req[r].token}
    /\ ClearCookie(r)
    /\ UNCHANGED <<users, session, owner, cookie>>

\* Mutant: a row marked as revoked rather than deleted.
RevokeSession(r) ==
    LET t == req[r].token IN
    /\ req[r].pc = "logout"
    /\ session' = [session EXCEPT ![t] = "revoked"]
    /\ ended' = ended \cup {t}
    /\ ClearCookie(r)
    /\ UNCHANGED <<users, owner, cookie>>

\* DeleteSession: 204, or 401 when there was no row; the cookie goes anyway.
DeleteSession(r) ==
    LET t == req[r].token IN
    /\ req[r].pc = "logout"
    /\ \/ /\ session[t] \in {"live", "expired"}
          /\ session' = [session EXCEPT ![t] = "gone"]
          /\ ended' = ended \cup {t}
       \/ /\ session[t] = "gone"
          /\ UNCHANGED <<session, ended>>
    /\ ClearCookie(r)
    /\ UNCHANGED <<users, owner, cookie>>

(***************************************************************************)
(* The chain in front of a handler.                                        *)
(***************************************************************************)
Send(r, level) ==
    /\ req[r].pc = "idle"
    /\ cookie # None
    /\ Becomes(r, Starting("sent", level, cookie, None))
    /\ UNCHANGED <<users, sessions, cookie>>

\* requireAuth: GetSession finds live sessions, whoever they belong to.
RequireAuth(r) ==
    LET t == req[r].token IN
    /\ req[r].pc = "sent"
    /\ \/ /\ session[t] = "live"
          /\ Becomes(r, Reaching(r, IF req[r].level = "session" THEN "handling" ELSE "authed",
                                 owner[t]))
       \/ /\ session[t] # "live"
          /\ ClearCookie(r)
    /\ UNCHANGED <<users, sessions, cookie>>

\* Mutant: a refused outsider's cookie is cleared like a deactivated one's.
RequireMembershipClearing(r) ==
    LET u == req[r].user IN
    /\ req[r].pc = "authed"
    /\ IF active[u] /\ role[u] \in {"member", "admin"}
       THEN Becomes(r, Reaching(r, IF req[r].level = "member" THEN "handling" ELSE "member", u))
       ELSE ClearCookie(r)
    /\ UNCHANGED <<users, sessions, cookie>>

\* Mutant: any active account is a member.
RequireActive(r) ==
    LET u == req[r].user IN
    /\ req[r].pc = "authed"
    /\ IF active[u]
       THEN Becomes(r, Reaching(r, IF req[r].level = "member" THEN "handling" ELSE "member", u))
       ELSE ClearCookie(r)
    /\ UNCHANGED <<users, sessions, cookie>>

\* requireMembership: a deactivated account is signed out, an outsider is
\* only refused.
RequireMembership(r) ==
    LET u == req[r].user IN
    /\ req[r].pc = "authed"
    /\ \/ /\ ~active[u]
          /\ ClearCookie(r)
       \/ /\ active[u] /\ role[u] = "outsider"
          /\ KeepCookie(r)
       \/ /\ active[u] /\ role[u] \in {"member", "admin"}
          /\ Becomes(r, Reaching(r, IF req[r].level = "member" THEN "handling" ELSE "member", u))
    /\ UNCHANGED <<users, sessions, cookie>>

\* requireAdmin reads the account once more.
RequireAdmin(r) ==
    LET u == req[r].user IN
    /\ req[r].pc = "member"
    /\ IF role[u] = "admin" THEN Becomes(r, Reaching(r, "handling", u)) ELSE KeepCookie(r)
    /\ UNCHANGED <<users, sessions, cookie>>

\* The handler has done what the other modules say it does.
Handle(r) ==
    /\ req[r].pc = "handling"
    /\ KeepCookie(r)
    /\ UNCHANGED <<users, sessions, cookie>>

(***************************************************************************)
(* The answer arrives, after whichever others, or the request is lost: its *)
(* time is up, or the connection is gone.                                  *)
(***************************************************************************)
Deliver(r) ==
    /\ req[r].pc = "answered"
    /\ cookie' = IF req[r].sets THEN req[r].value ELSE cookie
    /\ Becomes(r, Idle)
    /\ UNCHANGED <<users, sessions>>

Lose(r) ==
    /\ req[r].pc # "idle"
    /\ Becomes(r, Idle)
    /\ UNCHANGED <<users, sessions, cookie>>

(***************************************************************************)
(* What happens meanwhile.                                                 *)
(***************************************************************************)
Expire(t) ==
    /\ session[t] = "live"
    /\ session' = [session EXCEPT ![t] = "expired"]
    /\ UNCHANGED <<users, owner, ended, cookie, req>>

\* Mutant: rejecting a join request puts the requester back outside.
PromoteOrDemote(u) ==
    /\ role' = [role EXCEPT ![u] = IF @ = "outsider" THEN "member" ELSE "outsider"]
    /\ UNCHANGED <<active, sessions, cookie, req>>

\* A join request is approved.
Promote(u) ==
    /\ role[u] = "outsider"
    /\ role' = [role EXCEPT ![u] = "member"]
    /\ UNCHANGED <<active, sessions, cookie, req>>

\* By hand.
Deactivate(u) ==
    /\ active[u]
    /\ active' = [active EXCEPT ![u] = FALSE]
    /\ UNCHANGED <<role, sessions, cookie, req>>

Next ==
    \/ \E r \in Requests :
        \/ \E u \in UserIds : SendLogin(r, u)
        \/ FindUser(r)
        \/ \E t \in Tokens : CreateSession(r, t)
        \/ SendLogout(r) \/ DeleteSession(r)
        \/ \E level \in Levels : Send(r, level)
        \/ RequireAuth(r) \/ RequireMembership(r) \/ RequireAdmin(r) \/ Handle(r)
        \/ Deliver(r) \/ Lose(r)
    \/ \E t \in Tokens : Expire(t)
    \/ \E u \in UserIds : Promote(u) \/ Deactivate(u)

Spec == Init /\ [][Next]_vars

(***************************************************************************)
(* What the chain promises.                                                *)
(***************************************************************************)
\* Every variable has its type.
TypeOK ==
    /\ role \in [UserIds -> {"outsider", "member", "admin"}]
    /\ active \in [UserIds -> BOOLEAN]
    /\ session \in [Tokens -> {"none", "live", "expired", "gone"}]
    /\ owner \in [Tokens -> UserIds \cup {None}]
    /\ ended \subseteq Tokens
    /\ cookie \in Tokens \cup {None}
    /\ req \in [Requests -> [pc : Steps, level : Levels,
                             token : Tokens \cup {None}, user : UserIds \cup {None},
                             sets : BOOLEAN, value : Tokens \cup {None},
                             late : BOOLEAN, barred : BOOLEAN]]

\* While a handler runs, the account it acts for owns the session the request
\* came with and has the rank the route asks for: the role was read by an
\* earlier query, and no decision taken since may have lowered it.  It was not
\* deactivated when the request was sent: a session it still has, or got from a
\* login that was under way, is good for the routes that ask for a session only.
ActsWithRank ==
    \A r \in Requests : req[r].pc = "handling" =>
        /\ req[r].user = owner[req[r].token]
        /\ req[r].level = "member" => role[req[r].user] \in {"member", "admin"}
        /\ req[r].level = "admin" => role[req[r].user] = "admin"
        /\ req[r].level # "session" => ~req[r].barred

\* No request sent after a logout was carried out gets in with its token,
\* though one sent before it may still be on its way.
LogoutIsFinal == \A r \in Requests : req[r].late => req[r].pc \notin Admitted

\* Tokens in use belong to somebody, ended ones have no row, and the chain
\* has found what it has checked.
RequestsKeepTheirGround ==
    /\ \A t \in Tokens : session[t] # "none" => owner[t] \in UserIds
    /\ \A t \in ended : session[t] = "gone"
    /\ cookie # None => session[cookie] # "none"
    /\ \A r \in Requests :
        /\ req[r].pc \in {"login", "found"} => req[r].user \in UserIds
        /\ req[r].pc \in {"logout", "sent"} \cup Admitted =>
            req[r].token \in Tokens /\ session[req[r].token] # "none"
        /\ req[r].pc \in Admitted => req[r].user = owner[req[r].token]
        /\ req[r].pc \in {"authed", "member"} => req[r].level # "session"
        /\ req[r].pc = "member" => req[r].level = "admin"
        /\ req[r].late => req[r].token \in ended
        /\ req[r].barred =>
            /\ req[r].token \in Tokens /\ session[req[r].token] # "none"
            /\ ~active[owner[req[r].token]]
        /\ req[r].pc = "member" => ~req[r].barred
        /\ req[r].value # None => session[req[r].value] # "none"

\* The inductive invariant.
IInv == TypeOK /\ RequestsKeepTheirGround /\ ActsWithRank /\ LogoutIsFinal

\* An answer that drops the cookie it was asked with drops a dead one: its
\* session is gone, or would get the browser nowhere.  (An answer that comes
\* after a login has replaced the cookie drops the new one.)
DropsOnlyDeadCookies == [][
    \A r \in Requests : Deliver(r) /\ cookie # None /\ cookie' = None /\ cookie = req[r].token =>
        session[cookie] # "live" \/ ~active[owner[cookie]]]_vars
=============================================================================
