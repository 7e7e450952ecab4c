--------------------------- MODULE SessionsProofs ---------------------------
(***************************************************************************)
(* Proofs about Sessions, for any number of accounts, tokens and requests. *)
(* The argument: a request that is past requireAuth names a token that has *)
(* a row, and the owner of a row never changes; roles only rise, so what   *)
(* requireMembership and requireAdmin read stays true; nobody is activated *)
(* again, so who was deactivated is still so when requireMembership looks; *)
(* a token that was logged out of has no row, so requireAuth lets nobody   *)
(* in with it.  An answer clears the cookie only of a session that is no   *)
(* good, and such a session never becomes good again, however late the     *)
(* answer arrives.                                                         *)
(***************************************************************************)
EXTENDS Sessions, TLAPS

USE SessionsAssumption
USE DEF Steps, Admitted, Levels, Idle, Becomes, users, sessions

\* The empty tables satisfy the invariant.
LEMMA InitIInv == Init => IInv
BY DEF Init, IInv, TypeOK, RequestsKeepTheirGround, ActsWithRank, LogoutIsFinal

\* The records a request can be.
RequestRecords == [pc : Steps, level : Levels,
                   token : Tokens \cup {None}, user : UserIds \cup {None},
                   sets : BOOLEAN, value : Tokens \cup {None},
                   late : BOOLEAN, barred : BOOLEAN]

\* A request that goes on with somebody, or is answered, has its type.
LEMMA RecordsHaveTheirType ==
    ASSUME TypeOK, NEW r \in Requests
    PROVE  /\ \A step \in Steps, u \in UserIds \cup {None} : Reaching(r, step, u) \in RequestRecords
           /\ \A sets \in BOOLEAN, value \in Tokens \cup {None} :
                 Answer(r, sets, value) \in RequestRecords
<1>1. req[r] \in RequestRecords BY DEF TypeOK, RequestRecords
<1> QED BY <1>1 DEF RequestRecords, Reaching, Answer

\* So a step that only moves a request to such a record keeps the types.
LEMMA MovesKeepTypes ==
    ASSUME TypeOK, NEW r \in Requests, NEW record \in RequestRecords,
           Becomes(r, record), UNCHANGED <<users, sessions>>, cookie' \in Tokens \cup {None}
    PROVE  TypeOK'
BY DEF TypeOK, RequestRecords

\* What one step of a request that leaves the tables alone keeps.
LEMMA LoginKeeps ==
    ASSUME IInv, NEW r \in Requests, NEW u \in UserIds,
           SendLogin(r, u) \/ FindUser(r)
    PROVE  IInv'
<1>1. CASE SendLogin(r, u)
  <2>1. TypeOK' BY <1>1 DEF IInv, TypeOK, SendLogin, Starting
  <2>2. RequestsKeepTheirGround'
    BY <1>1 DEF IInv, TypeOK, RequestsKeepTheirGround, SendLogin, Starting
  <2>3. ActsWithRank' BY <1>1 DEF IInv, TypeOK, ActsWithRank, SendLogin, Starting
  <2>4. LogoutIsFinal' BY <1>1 DEF IInv, TypeOK, LogoutIsFinal, SendLogin, Starting
  <2> QED BY <2>1, <2>2, <2>3, <2>4 DEF IInv
<1>2. CASE FindUser(r)
  <2>1. TypeOK'
    <3>1. TypeOK BY DEF IInv
    <3>2. PICK record \in RequestRecords : Becomes(r, record)
      BY <1>2, <3>1, RecordsHaveTheirType DEF FindUser, KeepCookie, TypeOK, IInv, RequestsKeepTheirGround
    <3> QED BY <1>2, <3>1, <3>2, MovesKeepTypes DEF FindUser, users, sessions, TypeOK
  <2>2. RequestsKeepTheirGround'
    BY <1>2 DEF IInv, TypeOK, RequestsKeepTheirGround, FindUser, Reaching, KeepCookie, Answer
  <2>3. ActsWithRank'
    BY <1>2 DEF IInv, TypeOK, ActsWithRank, FindUser, Reaching, KeepCookie, Answer
  <2>4. LogoutIsFinal'
    BY <1>2 DEF IInv, TypeOK, LogoutIsFinal, FindUser, Reaching, KeepCookie, Answer
  <2> QED BY <2>1, <2>2, <2>3, <2>4 DEF IInv
<1> QED BY <1>1, <1>2

\* A new row: its token was nobody's, so no request named it.
LEMMA CreateSessionKeeps ==
    ASSUME IInv, NEW r \in Requests, NEW t \in Tokens, CreateSession(r, t)
    PROVE  IInv'
<1> USE DEF CreateSession, SetCookie, Answer
<1>1. TypeOK' BY DEF IInv, TypeOK, RequestsKeepTheirGround
<1>2. t \notin ended BY DEF IInv, RequestsKeepTheirGround
<1>3. RequestsKeepTheirGround' BY <1>2 DEF IInv, TypeOK, RequestsKeepTheirGround
<1>4. ActsWithRank' BY DEF IInv, TypeOK, ActsWithRank, RequestsKeepTheirGround
<1>5. LogoutIsFinal' BY DEF IInv, TypeOK, LogoutIsFinal
<1> QED BY <1>1, <1>3, <1>4, <1>5 DEF IInv

\* A row that goes stays gone, and its owner is still on record.
LEMMA LogoutKeeps ==
    ASSUME IInv, NEW r \in Requests, SendLogout(r) \/ DeleteSession(r)
    PROVE  IInv'
<1>1. CASE SendLogout(r)
  <2>1. TypeOK' BY <1>1 DEF IInv, TypeOK, SendLogout, Starting
  <2>2. RequestsKeepTheirGround'
    BY <1>1 DEF IInv, TypeOK, RequestsKeepTheirGround, SendLogout, Starting
  <2>3. ActsWithRank' BY <1>1 DEF IInv, TypeOK, ActsWithRank, SendLogout, Starting
  <2>4. LogoutIsFinal' BY <1>1 DEF IInv, TypeOK, LogoutIsFinal, SendLogout, Starting
  <2> QED BY <2>1, <2>2, <2>3, <2>4 DEF IInv
<1>2. CASE DeleteSession(r)
  <2> USE DEF DeleteSession, ClearCookie, Answer
  <2>0. req[r].token \in Tokens BY <1>2 DEF IInv, TypeOK, RequestsKeepTheirGround
  <2>1. TypeOK'
    <3>1. TypeOK BY DEF IInv
    <3>2. PICK record \in RequestRecords : Becomes(r, record)
      BY <1>2, <3>1, RecordsHaveTheirType
    <3>3. req' \in [Requests -> RequestRecords] BY <3>1, <3>2 DEF TypeOK, RequestRecords
    <3>4. session' \in [Tokens -> {"none", "live", "expired", "gone"}] /\ ended' \subseteq Tokens
      BY <1>2, <2>0, <3>1 DEF TypeOK
    <3> QED BY <1>2, <3>1, <3>3, <3>4 DEF TypeOK, RequestRecords
  <2>2. RequestsKeepTheirGround'
    <3>1. /\ UNCHANGED <<role, active, owner, cookie>> /\ ended \subseteq ended'
          /\ \A t \in Tokens : session[t] # "none" => session'[t] # "none"
          /\ \A t \in Tokens : session'[t] # "none" => session[t] # "none"
          /\ \A t \in ended' : session'[t] = "gone"
      BY <1>2, <2>0 DEF IInv, TypeOK, RequestsKeepTheirGround
    <3>2. /\ \A q \in Requests \ {r} : req'[q] = req[q]
          /\ req'[r].pc = "answered" /\ req'[r].token = req[r].token /\ req'[r].value = None
          /\ (req'[r].late => req[r].late) /\ (req'[r].barred => req[r].barred)
      BY <1>2 DEF IInv, TypeOK
    <3>3. cookie \in Tokens \cup {None} /\ \A q \in Requests : req[q].value \in Tokens \cup {None}
      BY DEF IInv, TypeOK
    <3> HIDE DEF DeleteSession
    <3> QED BY <3>1, <3>2, <3>3 DEF IInv, RequestsKeepTheirGround
  <2>3. ActsWithRank' BY <1>2 DEF IInv, TypeOK, ActsWithRank
  <2>4. LogoutIsFinal' BY <1>2 DEF IInv, TypeOK, LogoutIsFinal
  <2> QED BY <2>1, <2>2, <2>3, <2>4 DEF IInv
<1> QED BY <1>1, <1>2

\* A request sent now is late exactly when its token was logged out of.
LEMMA SendKeeps ==
    ASSUME IInv, NEW r \in Requests, NEW level \in Levels, Send(r, level)
    PROVE  IInv'
<1>1. TypeOK' BY DEF IInv, TypeOK, Send, Starting
<1>2. RequestsKeepTheirGround' BY DEF IInv, TypeOK, RequestsKeepTheirGround, Send, Starting
<1>3. ActsWithRank' BY DEF IInv, TypeOK, ActsWithRank, Send, Starting
<1>4. LogoutIsFinal' BY DEF IInv, TypeOK, LogoutIsFinal, Send, Starting
<1> QED BY <1>1, <1>2, <1>3, <1>4 DEF IInv

\* requireAuth: only a token with a live row gets in, and then as its owner.
LEMMA RequireAuthKeeps ==
    ASSUME IInv, NEW r \in Requests, RequireAuth(r)
    PROVE  IInv'
<1>0. /\ req[r].token \in Tokens
      /\ session[req[r].token] = "live" => owner[req[r].token] \in UserIds /\ ~req[r].late
  BY DEF IInv, TypeOK, RequestsKeepTheirGround, RequireAuth
<1>1. TypeOK'
  <2>1. TypeOK BY DEF IInv
  <2>2. PICK record \in RequestRecords : Becomes(r, record)
    BY <1>0, <2>1, RecordsHaveTheirType DEF RequireAuth, ClearCookie
  <2> QED BY <1>0, <2>1, <2>2, MovesKeepTypes DEF RequireAuth, users, sessions, TypeOK
<1> USE DEF RequireAuth, Reaching, ClearCookie, Answer
<1>2. RequestsKeepTheirGround' BY <1>0 DEF IInv, TypeOK, RequestsKeepTheirGround
<1>3. ActsWithRank' BY <1>0 DEF IInv, TypeOK, ActsWithRank
<1>4. LogoutIsFinal' BY <1>0 DEF IInv, TypeOK, LogoutIsFinal
<1> QED BY <1>1, <1>2, <1>3, <1>4 DEF IInv

\* requireMembership and requireAdmin: what they read is what they pass on.
LEMMA RankKeeps ==
    ASSUME IInv, NEW r \in Requests, RequireMembership(r) \/ RequireAdmin(r)
    PROVE  IInv'
<1>0. req[r].pc \in {"authed", "member"} =>
        /\ req[r].token \in Tokens
        /\ req[r].user = owner[req[r].token] /\ req[r].user \in UserIds
        /\ ~req[r].late
  BY DEF IInv, TypeOK, RequestsKeepTheirGround, LogoutIsFinal
<1>1. CASE RequireMembership(r)
  <2>1. TypeOK'
    <3>1. TypeOK BY DEF IInv
    <3>2. PICK record \in RequestRecords : Becomes(r, record)
      BY <1>0, <1>1, <3>1, RecordsHaveTheirType DEF RequireMembership, ClearCookie, KeepCookie
    <3> QED BY <1>0, <1>1, <3>1, <3>2, MovesKeepTypes DEF RequireMembership, users, sessions, TypeOK
  <2> USE DEF Reaching, ClearCookie, KeepCookie, Answer
  <2>2. RequestsKeepTheirGround'
    <3>1. UNCHANGED <<users, sessions, cookie>> /\ req[r].pc = "authed"
      BY <1>1 DEF RequireMembership
    <3>2. CASE ClearCookie(r)
      BY <1>0, <3>1, <3>2 DEF IInv, TypeOK, RequestsKeepTheirGround
    <3>3. CASE KeepCookie(r)
      BY <1>0, <3>1, <3>3 DEF IInv, TypeOK, RequestsKeepTheirGround
    <3>4. CASE /\ req[r].level = "member"
               /\ Becomes(r, Reaching(r, "handling", req[r].user))
      BY <1>0, <3>1, <3>4 DEF IInv, TypeOK, RequestsKeepTheirGround
    <3>5. CASE /\ req[r].level # "member" /\ active[req[r].user]
               /\ Becomes(r, Reaching(r, "member", req[r].user))
      <4>1. req[r].level = "admin"
        BY <3>1, <3>5 DEF IInv, TypeOK, RequestsKeepTheirGround
      <4> QED BY <1>0, <3>1, <3>5, <4>1 DEF IInv, TypeOK, RequestsKeepTheirGround
    <3> HIDE DEF Reaching, ClearCookie, KeepCookie, Answer, Becomes
    <3> QED BY <1>1, <3>2, <3>3, <3>4, <3>5 DEF RequireMembership
  <2>3. ActsWithRank'
    BY <1>0, <1>1 DEF IInv, TypeOK, RequestsKeepTheirGround, ActsWithRank, RequireMembership
  <2>4. LogoutIsFinal' BY <1>0, <1>1 DEF IInv, TypeOK, LogoutIsFinal, RequireMembership
  <2> QED BY <2>1, <2>2, <2>3, <2>4 DEF IInv
<1>2. CASE RequireAdmin(r)
  <2>1. TypeOK'
    <3>1. TypeOK BY DEF IInv
    <3>2. PICK record \in RequestRecords : Becomes(r, record)
      BY <1>0, <1>2, <3>1, RecordsHaveTheirType DEF RequireAdmin, ClearCookie, KeepCookie
    <3> QED BY <1>0, <1>2, <3>1, <3>2, MovesKeepTypes DEF RequireAdmin, users, sessions, TypeOK
  <2> USE DEF Reaching, ClearCookie, KeepCookie, Answer
  <2>2. RequestsKeepTheirGround'
    BY <1>0, <1>2 DEF IInv, TypeOK, RequestsKeepTheirGround, RequireAdmin
  <2>3. ActsWithRank'
    BY <1>0, <1>2 DEF IInv, TypeOK, RequestsKeepTheirGround, ActsWithRank, RequireAdmin
  <2>4. LogoutIsFinal' BY <1>0, <1>2 DEF IInv, TypeOK, LogoutIsFinal, RequireAdmin
  <2> QED BY <2>1, <2>2, <2>3, <2>4 DEF IInv
<1> QED BY <1>1, <1>2

\* A request ends: answered, delivered or lost.
LEMMA AnswerKeeps ==
    ASSUME IInv, NEW r \in Requests, Handle(r) \/ Deliver(r) \/ Lose(r)
    PROVE  IInv'
<1>1. TypeOK'
  <2>1. TypeOK BY DEF IInv
  <2>2. Idle \in RequestRecords BY DEF RequestRecords
  <2>3. PICK record \in RequestRecords : Becomes(r, record)
    BY <2>1, <2>2, RecordsHaveTheirType DEF Handle, Deliver, Lose, KeepCookie
  <2>4. cookie' \in Tokens \cup {None} /\ UNCHANGED <<users, sessions>>
    BY <2>1 DEF TypeOK, Handle, Deliver, Lose
  <2> QED BY <2>1, <2>3, <2>4, MovesKeepTypes
<1> USE DEF KeepCookie, Answer
<1>2. RequestsKeepTheirGround'
  BY DEF IInv, TypeOK, RequestsKeepTheirGround, Handle, Deliver, Lose
<1>3. ActsWithRank' BY DEF IInv, TypeOK, ActsWithRank, Handle, Deliver, Lose
<1>4. LogoutIsFinal' BY DEF IInv, TypeOK, LogoutIsFinal, Handle, Deliver, Lose
<1> QED BY <1>1, <1>2, <1>3, <1>4 DEF IInv

\* Time passes.
LEMMA ExpireKeeps ==
    ASSUME IInv, NEW t \in Tokens, Expire(t)
    PROVE  IInv'
<1>1. TypeOK' BY DEF IInv, TypeOK, Expire
<1>2. RequestsKeepTheirGround' BY DEF IInv, TypeOK, RequestsKeepTheirGround, Expire
<1>3. ActsWithRank' BY DEF IInv, TypeOK, ActsWithRank, Expire
<1>4. LogoutIsFinal' BY DEF IInv, TypeOK, LogoutIsFinal, Expire
<1> QED BY <1>1, <1>2, <1>3, <1>4 DEF IInv

\* Accounts change: a role only rises.
LEMMA AccountKeeps ==
    ASSUME IInv, NEW u \in UserIds, Promote(u) \/ Deactivate(u)
    PROVE  IInv'
<1>1. TypeOK' BY DEF IInv, TypeOK, Promote, Deactivate
<1>2. RequestsKeepTheirGround'
  BY DEF IInv, TypeOK, RequestsKeepTheirGround, Promote, Deactivate
<1>3. ActsWithRank' BY DEF IInv, TypeOK, RequestsKeepTheirGround, ActsWithRank, Promote, Deactivate
<1>4. LogoutIsFinal' BY DEF IInv, TypeOK, LogoutIsFinal, Promote, Deactivate
<1> QED BY <1>1, <1>2, <1>3, <1>4 DEF IInv

\* Every step keeps the invariant.
LEMMA StepIInv == IInv /\ [Next]_vars => IInv'
<1> SUFFICES ASSUME IInv, [Next]_vars PROVE IInv'
  OBVIOUS
<1>1. ASSUME NEW r \in Requests, NEW u \in UserIds, SendLogin(r, u) PROVE IInv'
  BY <1>1, LoginKeeps
<1>2. ASSUME NEW r \in Requests, FindUser(r) PROVE IInv'
  <2>1. req[r].user \in UserIds
    BY <1>2 DEF FindUser, IInv, RequestsKeepTheirGround
  <2> QED BY <1>2, <2>1, LoginKeeps
<1>3. ASSUME NEW r \in Requests, NEW t \in Tokens, CreateSession(r, t) PROVE IInv'
  BY <1>3, CreateSessionKeeps
<1>4. ASSUME NEW r \in Requests, SendLogout(r) \/ DeleteSession(r) PROVE IInv'
  BY <1>4, LogoutKeeps
<1>5. ASSUME NEW r \in Requests, NEW level \in Levels, Send(r, level) PROVE IInv'
  BY <1>5, SendKeeps
<1>6. ASSUME NEW r \in Requests, RequireAuth(r) PROVE IInv'
  BY <1>6, RequireAuthKeeps
<1>7. ASSUME NEW r \in Requests, RequireMembership(r) \/ RequireAdmin(r) PROVE IInv'
  BY <1>7, RankKeeps
<1>8. ASSUME NEW r \in Requests, Handle(r) \/ Deliver(r) \/ Lose(r) PROVE IInv'
  BY <1>8, AnswerKeeps
<1>9. ASSUME NEW t \in Tokens, Expire(t) PROVE IInv'
  BY <1>9, ExpireKeeps
<1>10. ASSUME NEW u \in UserIds, Promote(u) \/ Deactivate(u) PROVE IInv'
  BY <1>10, AccountKeeps
<1>11. CASE UNCHANGED vars
  BY <1>11 DEF vars, IInv, TypeOK, RequestsKeepTheirGround, ActsWithRank, LogoutIsFinal
<1> QED
  BY <1>1, <1>2, <1>3, <1>4, <1>5, <1>6, <1>7, <1>8, <1>9, <1>10, <1>11 DEF Next

\* The inductive invariant holds of every reachable state.
THEOREM Invariance == Spec => []IInv
BY InitIInv, StepIInv, PTL DEF Spec

\* The tables and the requests have their types.
THEOREM TypeCorrectness == Spec => []TypeOK
<1>1. IInv => TypeOK BY DEF IInv
<1> QED BY <1>1, Invariance, PTL

\* Handlers act for the owner of the session, with the rank of their route,
\* and not for one deactivated before the request was sent, however many
\* requests and decisions are under way (api/middleware.go).
THEOREM HandlersActWithRank == Spec => []ActsWithRank
<1>1. IInv => ActsWithRank BY DEF IInv
<1> QED BY <1>1, Invariance, PTL

\* A token that was logged out of lets no later request in (handleLogout,
\* requireAuth).
THEOREM LogoutStands == Spec => []LogoutIsFinal
<1>1. IInv => LogoutIsFinal BY DEF IInv
<1> QED BY <1>1, Invariance, PTL

(***************************************************************************)
(* The cookie.  A session that is no good never becomes good again, so an  *)
(* answer may be as old as it likes when it arrives.                       *)
(***************************************************************************)
\* A session that gets nobody anywhere: ended, expired, or of an account that
\* was deactivated.
Dead(t) ==
    /\ t \in Tokens
    /\ session[t] # "none"
    /\ session[t] # "live" \/ ~active[owner[t]]

Clearing(answer) == answer.pc = "answered" /\ answer.sets /\ answer.value = None

\* The invariant of the answers on their way.
ClearedCookiesAreDead ==
    \A r \in Requests : Clearing(req[r]) => Dead(req[r].token)

LEMMA DeadStaysDead ==
    ASSUME IInv, [Next]_vars, NEW t, Dead(t)
    PROVE  Dead(t)'
<1>1. t \in Tokens /\ session \in [Tokens -> {"none", "live", "expired", "gone"}]
  BY DEF Dead, IInv, TypeOK
<1>2. ASSUME NEW r \in Requests, NEW s \in Tokens, CreateSession(r, s) PROVE Dead(t)'
  <2>1. s # t BY <1>2 DEF CreateSession, Dead
  <2> QED BY <1>1, <1>2, <2>1 DEF CreateSession, Dead, IInv, TypeOK
<1>3. ASSUME NEW r \in Requests, DeleteSession(r) PROVE Dead(t)'
  BY <1>1, <1>3 DEF DeleteSession, Dead
<1>4. ASSUME NEW s \in Tokens, Expire(s) PROVE Dead(t)'
  BY <1>1, <1>4 DEF Expire, Dead
<1>5. ASSUME NEW u \in UserIds, Promote(u) \/ Deactivate(u) PROVE Dead(t)'
  <2>1. CASE Promote(u) BY <2>1 DEF Promote, Dead
  <2>2. CASE Deactivate(u)
    <3>1. owner[t] \in UserIds BY DEF Dead, IInv, RequestsKeepTheirGround
    <3>2. ~active[owner[t]] => ~active'[owner[t]]
      BY <2>2, <3>1, Zenon DEF Deactivate, IInv, TypeOK
    <3> QED BY <2>2, <3>2 DEF Deactivate, Dead
  <2> QED BY <1>5, <2>1, <2>2
<1>6. ASSUME UNCHANGED <<session, owner, active>> PROVE Dead(t)'
  BY <1>6 DEF Dead
<1>7. ASSUME NEW r \in Requests,
             \/ \E u \in UserIds : SendLogin(r, u)
             \/ FindUser(r) \/ SendLogout(r)
             \/ \E level \in Levels : Send(r, level)
             \/ RequireAuth(r) \/ RequireMembership(r) \/ RequireAdmin(r) \/ Handle(r)
             \/ Deliver(r) \/ Lose(r)
      PROVE  UNCHANGED <<session, owner, active>>
  BY <1>7 DEF SendLogin, FindUser, SendLogout, Send, RequireAuth, RequireMembership,
              RequireAdmin, Handle, Deliver, Lose
<1>8. CASE UNCHANGED vars BY <1>6, <1>8 DEF vars
<1> QED BY <1>2, <1>3, <1>4, <1>5, <1>6, <1>7, <1>8 DEF Next

\* A step that moves one request to what is no clearing answer, or to one
\* whose token is dead.
LEMMA MovesKeepCookiesDead ==
    ASSUME IInv, ClearedCookiesAreDead, [Next]_vars,
           NEW r \in Requests, NEW record, Becomes(r, record),
           Clearing(record) => Dead(record.token)'
    PROVE  ClearedCookiesAreDead'
<1>1. ASSUME NEW q \in Requests, NEW now, now = req'[q], Clearing(now)
      PROVE  Dead(now.token)'
  <2>1. CASE q = r
    <3>1. now = record BY <1>1, <2>1 DEF IInv, TypeOK
    <3> QED BY <1>1, <3>1
  <2>2. CASE q # r
    <3>1. now = req[q] BY <1>1, <2>2 DEF IInv, TypeOK
    <3>2. Dead(now.token) BY <1>1, <3>1 DEF ClearedCookiesAreDead
    <3> QED BY <3>2, DeadStaysDead
  <2> QED BY <2>1, <2>2
<1> SUFFICES ASSUME NEW q \in Requests, Clearing(req[q])' PROVE Dead(req[q].token)'
  BY DEF ClearedCookiesAreDead
<1> PICK now \in {req'[q]} : TRUE OBVIOUS
<1>2. now = req'[q] /\ Clearing(now) BY DEF Clearing
<1>3. Dead(now.token)' BY <1>1, <1>2
<1> QED BY <1>2, <1>3 DEF Dead

\* The answers that clear: of a logout, of requireAuth to a token without a
\* live row, and of requireMembership to a deactivated account.
LEMMA ClearedCookiesStayDead ==
    IInv /\ ClearedCookiesAreDead /\ [Next]_vars => ClearedCookiesAreDead'
<1> SUFFICES ASSUME IInv, ClearedCookiesAreDead, [Next]_vars PROVE ClearedCookiesAreDead'
  OBVIOUS
<1>1. ASSUME NEW r \in Requests, NEW u \in UserIds, SendLogin(r, u)
      PROVE  \E record : Becomes(r, record) /\ ~Clearing(record)
  <2>1. Becomes(r, Starting("login", "session", None, u)) BY <1>1 DEF SendLogin
  <2>2. ~Clearing(Starting("login", "session", None, u)) BY DEF Starting, Clearing
  <2> QED BY <2>1, <2>2, Zenon
<1>2. ASSUME NEW r \in Requests, FindUser(r) \/ RequireAdmin(r) \/ Handle(r)
      PROVE  \E record : Becomes(r, record) /\ ~Clearing(record)
  BY <1>2 DEF FindUser, RequireAdmin, Handle, KeepCookie, Reaching, Answer, Clearing
<1>3. ASSUME NEW r \in Requests, NEW t \in Tokens, CreateSession(r, t)
      PROVE  \E record : Becomes(r, record) /\ ~Clearing(record)
  <2>1. Becomes(r, Answer(r, TRUE, t)) BY <1>3 DEF CreateSession, SetCookie
  <2>2. ~Clearing(Answer(r, TRUE, t)) BY DEF Answer, Clearing
  <2> QED BY <2>1, <2>2, Zenon
<1>4. ASSUME NEW r \in Requests, SendLogout(r) \/ \E level \in Levels : Send(r, level)
      PROVE  \E record : Becomes(r, record) /\ ~Clearing(record)
  BY <1>4 DEF SendLogout, Send, Starting, Clearing
<1>5. ASSUME NEW r \in Requests, Deliver(r) \/ Lose(r)
      PROVE  \E record : Becomes(r, record) /\ ~Clearing(record)
  <2>1. Becomes(r, Idle) BY <1>5 DEF Deliver, Lose
  <2>2. ~Clearing(Idle) BY DEF Clearing
  <2> QED BY <2>1, <2>2, Zenon
<1>6. ASSUME NEW r \in Requests, DeleteSession(r)
      PROVE  \E record : Becomes(r, record) /\ (Clearing(record) => Dead(record.token)')
  <2> DEFINE answer == Answer(r, TRUE, None)
  <2> PICK t \in Tokens : t = req[r].token
    BY <1>6 DEF DeleteSession, IInv, RequestsKeepTheirGround
  <2>1. Becomes(r, answer) /\ answer.token = t BY <1>6 DEF DeleteSession, ClearCookie, Answer
  <2>2. session'[t] = "gone" BY <1>6 DEF DeleteSession, IInv, TypeOK
  <2>3. Dead(t)' BY <2>2 DEF Dead
  <2> PICK record \in {answer} : TRUE OBVIOUS
  <2>4. Becomes(r, record) /\ record.token = t BY <2>1
  <2>5. Dead(record.token)' BY <2>3, <2>4
  <2> QED BY <2>4, <2>5
<1>7. ASSUME NEW r \in Requests, RequireAuth(r)
      PROVE  \E record : Becomes(r, record) /\ (Clearing(record) => Dead(record.token)')
  <2> PICK t \in Tokens : t = req[r].token /\ session[t] # "none"
    BY <1>7 DEF RequireAuth, IInv, RequestsKeepTheirGround
  <2>1. CASE session[t] = "live"
    BY <1>7, <2>1 DEF RequireAuth, Reaching, Clearing
  <2>2. CASE session[t] # "live"
    <3> DEFINE answer == Answer(r, TRUE, None)
    <3>1. Becomes(r, answer) /\ answer.token = t
      BY <1>7, <2>2 DEF RequireAuth, ClearCookie, Answer
    <3>2. Dead(t)' BY <1>7, <2>2 DEF RequireAuth, Dead
    <3> PICK record \in {answer} : TRUE OBVIOUS
    <3>3. Becomes(r, record) /\ record.token = t BY <3>1
    <3>4. Dead(record.token)' BY <3>2, <3>3
    <3> QED BY <3>3, <3>4
  <2> QED BY <2>1, <2>2
<1>8. ASSUME NEW r \in Requests, RequireMembership(r)
      PROVE  \E record : Becomes(r, record) /\ (Clearing(record) => Dead(record.token)')
  <2> PICK t \in Tokens : /\ t = req[r].token /\ session[t] # "none"
                          /\ req[r].user = owner[t]
    BY <1>8 DEF RequireMembership, IInv, RequestsKeepTheirGround
  <2>1. CASE active[owner[t]]
    BY <1>8, <2>1 DEF RequireMembership, Reaching, KeepCookie, Answer, Clearing
  <2>2. CASE ~active[owner[t]]
    <3> DEFINE answer == Answer(r, TRUE, None)
    <3>1. Becomes(r, answer) /\ answer.token = t
      BY <1>8, <2>2 DEF RequireMembership, ClearCookie, Answer
    <3>2. Dead(t)' BY <1>8, <2>2 DEF RequireMembership, Dead
    <3> PICK record \in {answer} : TRUE OBVIOUS
    <3>3. Becomes(r, record) /\ record.token = t BY <3>1
    <3>4. Dead(record.token)' BY <3>2, <3>3
    <3> QED BY <3>3, <3>4
  <2> QED BY <2>1, <2>2
<1>9. ASSUME UNCHANGED req PROVE ClearedCookiesAreDead'
  <2>1. ASSUME NEW q \in Requests, Clearing(req[q]) PROVE Dead(req[q].token)'
    <3> PICK t \in {req[q].token} : TRUE OBVIOUS
    <3>1. t = req[q].token /\ Dead(t) BY <2>1 DEF ClearedCookiesAreDead
    <3>2. Dead(t)' BY <3>1, DeadStaysDead
    <3> QED BY <1>9, <3>1, <3>2 DEF Dead
  <2> QED BY <1>9, <2>1 DEF ClearedCookiesAreDead
<1>10. ASSUME NEW r \in Requests, NEW record, Becomes(r, record),
              Clearing(record) => Dead(record.token)'
       PROVE  ClearedCookiesAreDead'
  BY <1>10, MovesKeepCookiesDead
<1> HIDE DEF IInv, Becomes
<1> QED
  BY <1>1, <1>2, <1>3, <1>4, <1>5, <1>6, <1>7, <1>8, <1>9, <1>10
  DEF Next, Expire, Promote, Deactivate, vars

\* A browser loses the cookie it asked with only when its session was good
\* for nothing any more (clearSessionCookie in api/middleware.go and
\* api/auth.go), however late the answer comes.
THEOREM OnlyDeadCookiesAreDropped == Spec => DropsOnlyDeadCookies
<1>1. Init => ClearedCookiesAreDead BY DEF Init, ClearedCookiesAreDead, Clearing
<1>2. IInv /\ ClearedCookiesAreDead /\ [Next]_vars =>
        [\A r \in Requests : Deliver(r) /\ cookie # None /\ cookie' = None /\ cookie = req[r].token =>
            session[cookie] # "live" \/ ~active[owner[cookie]]]_vars
  BY DEF ClearedCookiesAreDead, Clearing, Deliver, Dead
<1> HIDE DEF IInv, ClearedCookiesAreDead
<1> QED BY <1>1, <1>2, ClearedCookiesStayDead, Invariance, PTL DEF Spec, DropsOnlyDeadCookies
=============================================================================
