----------------------------- MODULE Membership -----------------------------
(***************************************************************************)
(* Who may use the library: the accounts, the invitations an admin sends   *)
(* and the join requests an outsider makes (store/users.go,                *)
(* store/invitations.go, store/join_requests.go and their tables).         *)
(*                                                                         *)
(* The tables hold what is committed.  A request that runs a transaction   *)
(* of several statements is one record of `req', one action per statement; *)
(* what it has written and not committed is visible only through the locks *)
(* it holds.  PostgreSQL runs these transactions at READ COMMITTED: a      *)
(* statement that needs a row or a unique-index entry another transaction  *)
(* holds waits for it to end and then looks at the row again, so such a    *)
(* statement is an action guarded by the absence of the other holder.  An  *)
(* operation that is a single statement commits by itself and is a single  *)
(* action.  A refused operation (ErrNotFound, ErrConflict, a failed check) *)
(* leaves the tables alone: outside a transaction it is a stuttering step, *)
(* inside one it ends the transaction.                                     *)
(***************************************************************************)
CONSTANTS
    UserIds,        \* ids users.id can take
    Emails,         \* addresses, compared as lower(email) compares them
    Invitations,    \* ids of invitations, each with its own token
    JoinRequests,   \* ids of join requests
    Requests,       \* HTTP requests that can be in a transaction at a time
    FounderEmail,   \* the accounts that exist at the start: id |-> address
    FounderRole,    \*                                       id |-> role
    None            \* an absent id or address (NULL)

VARIABLES
    role,           \* users.role, "none" where the row does not exist
    email,          \* users.email
    active,         \* users.active
    invState,       \* an invitation: none, open, accepted or revoked
    invEmail,       \* invitations.email
    expired,        \* has invitations.expires_at passed?
    acceptedBy,     \* invitations.accepted_by
    jrState,        \* join_requests.state, "none" where there is no row
    requester,      \* join_requests.requester
    req             \* the transaction each HTTP request is in

users       == <<role, email, active>>
invitations == <<invState, invEmail, expired, acceptedBy>>
joins       == <<jrState, requester>>
vars        == <<role, email, active, invState, invEmail, expired, acceptedBy,
                 jrState, requester, req>>

Founders     == DOMAIN FounderEmail
Roles        == {"outsider", "member", "admin"}
InvStates    == {"none", "open", "accepted", "revoked"}
JoinStates   == {"none", "pending", "approved", "rejected"}

\* Where a transaction is, named after the last statement it completed.
AcceptSteps  == {"begun", "locked", "inserted", "marked"}
DecideSteps  == {"asked", "decided", "promoted"}
Steps        == {"idle"} \cup AcceptSteps \cup DecideSteps

ASSUME FoundersAssumption ==
    /\ Founders \subseteq UserIds
    /\ FounderEmail \in [Founders -> Emails]
    /\ FounderRole \in [Founders -> Roles]
    /\ \A u, v \in Founders : FounderEmail[u] = FounderEmail[v] => u = v

ASSUME NoneAssumption ==
    None \notin UserIds \cup Emails \cup Invitations \cup JoinRequests

(***************************************************************************)
(* Locks and indexes, read off the state.                                  *)
(***************************************************************************)
\* The row lock SELECT ... FOR UPDATE takes and the transaction keeps.
HoldsInvitation(r, i) ==
    req[r].pc \in {"locked", "inserted", "marked"} /\ req[r].inv = i

\* The row lock the deciding UPDATE takes.
HoldsJoinRequest(r, j) == req[r].pc \in {"decided", "promoted"} /\ req[r].jr = j

\* The row lock of the promoting UPDATE, when it found an outsider.
HoldsAccount(r, u) == req[r].pc = "promoted" /\ req[r].user = u

\* An entry of users_email_key that is inserted and not yet committed.
HoldsEmail(r, e) == req[r].pc \in {"inserted", "marked"} /\ invEmail[req[r].inv] = e

\* users_email_key: an active account has this address.
EmailTaken(e) == \E u \in UserIds : active[u] /\ email[u] = e

\* invitations_pending_email_key: an unused, unrevoked invitation has it.
PendingInvitation(e) == \E i \in Invitations : invState[i] = "open" /\ invEmail[i] = e

\* join_requests_pending: this account already has a request waiting.
PendingJoinRequest(u) == \E j \in JoinRequests : jrState[j] = "pending" /\ requester[j] = u

\* A uuidv7 nobody has: neither a row nor a row that may yet be inserted.
FreshUserId(u) == role[u] = "none" /\ \A r \in Requests : req[r].user # u

(***************************************************************************)
(* Requests.                                                               *)
(***************************************************************************)
Idle == [pc |-> "idle", inv |-> None, jr |-> None, user |-> None, late |-> FALSE]

Accepting(step, i, u, late) ==
    [pc |-> step, inv |-> i, jr |-> None, user |-> u, late |-> late]

Deciding(step, j, u) == [pc |-> step, inv |-> None, jr |-> j, user |-> u, late |-> FALSE]

Becomes(r, record) == req' = [req EXCEPT ![r] = record]

\* The deferred tx.Rollback: locks go, nothing else was ever visible.
Rollback(r) == Becomes(r, Idle) /\ UNCHANGED <<users, invitations, joins>>

Init ==
    /\ role = [u \in UserIds |-> IF u \in Founders THEN FounderRole[u] ELSE "none"]
    /\ email = [u \in UserIds |-> IF u \in Founders THEN FounderEmail[u] ELSE None]
    /\ active = [u \in UserIds |-> u \in Founders]
    /\ invState = [i \in Invitations |-> "none"]
    /\ invEmail = [i \in Invitations |-> None]
    /\ expired = [i \in Invitations |-> FALSE]
    /\ acceptedBy = [i \in Invitations |-> None]
    /\ jrState = [j \in JoinRequests |-> "none"]
    /\ requester = [j \in JoinRequests |-> None]
    /\ req = [r \in Requests |-> Idle]

(***************************************************************************)
(* Accounts.                                                               *)
(***************************************************************************)
\* Mutant: looks for the address first and inserts without the unique index.
CreateUserUnindexed(u, e) ==
    /\ FreshUserId(u)
    /\ ~EmailTaken(e)
    /\ role' = [role EXCEPT ![u] = "outsider"]
    /\ email' = [email EXCEPT ![u] = e]
    /\ active' = [active EXCEPT ![u] = TRUE]
    /\ UNCHANGED <<invitations, joins, req>>

\* POST /users.  The role is the column's default.  The INSERT waits for an
\* uncommitted account of the same address and conflicts with a committed one.
CreateUser(u, e) ==
    /\ FreshUserId(u)
    /\ ~EmailTaken(e)
    /\ ~\E r \in Requests : HoldsEmail(r, e)
    /\ role' = [role EXCEPT ![u] = "outsider"]
    /\ email' = [email EXCEPT ![u] = e]
    /\ active' = [active EXCEPT ![u] = TRUE]
    /\ UNCHANGED <<invitations, joins, req>>

\* No route deactivates an account: users.active is cleared by hand, with an
\* UPDATE that waits for the row lock of a promotion.
Deactivate(u) ==
    /\ active[u]
    /\ ~\E r \in Requests : HoldsAccount(r, u)
    /\ active' = [active EXCEPT ![u] = FALSE]
    /\ UNCHANGED <<role, email, invitations, joins, req>>

(***************************************************************************)
(* Invitations.                                                            *)
(***************************************************************************)
\* Mutant: an index that lets go of an invitation when it expires.
CreateInvitationOverExpired(i, e) ==
    /\ invState[i] = "none"
    /\ ~\E k \in Invitations : invState[k] = "open" /\ ~expired[k] /\ invEmail[k] = e
    /\ invState' = [invState EXCEPT ![i] = "open"]
    /\ invEmail' = [invEmail EXCEPT ![i] = e]
    /\ UNCHANGED <<expired, acceptedBy, users, joins, req>>

\* POST /invitations.  The pending index ignores expires_at.
CreateInvitation(i, e) ==
    /\ invState[i] = "none"
    /\ ~PendingInvitation(e)
    /\ invState' = [invState EXCEPT ![i] = "open"]
    /\ invEmail' = [invEmail EXCEPT ![i] = e]
    /\ UNCHANGED <<expired, acceptedBy, users, joins, req>>

\* The clock passes expires_at.
Expire(i) ==
    /\ invState[i] = "open"
    /\ ~expired[i]
    /\ expired' = [expired EXCEPT ![i] = TRUE]
    /\ UNCHANGED <<invState, invEmail, acceptedBy, users, joins, req>>

\* Mutant: reads the invitation first and writes it by id.
RevokeInvitationUnlocked(i) ==
    /\ invState[i] = "open"
    /\ invState' = [invState EXCEPT ![i] = "revoked"]
    /\ UNCHANGED <<invEmail, expired, acceptedBy, users, joins, req>>

\* POST /invitations/{id}/revoke: one UPDATE, which waits for the row and
\* closes an expired invitation too.
RevokeInvitation(i) ==
    /\ ~\E r \in Requests : HoldsInvitation(r, i)
    /\ invState[i] = "open"
    /\ invState' = [invState EXCEPT ![i] = "revoked"]
    /\ UNCHANGED <<invEmail, expired, acceptedBy, users, joins, req>>

\* POST /invitations/accept.  now() is the start of the transaction, so the
\* expiry the lock statement will see is fixed here.  So is the id the account
\* will get: the INSERT draws it, but ids are bounded here and not there.
BeginAccept(r, i, u) ==
    /\ req[r].pc = "idle"
    /\ invState[i] # "none"
    /\ IF invState[i] = "open" THEN u \in UserIds /\ FreshUserId(u) ELSE u = None
    /\ Becomes(r, Accepting("begun", i, u, expired[i]))
    /\ UNCHANGED <<users, invitations, joins>>

\* Mutant: a plain SELECT.
LockOpenInvitationUnlocked(r) ==
    LET i == req[r].inv IN
    /\ req[r].pc = "begun"
    /\ \/ /\ invState[i] = "open"
          /\ ~req[r].late
          /\ Becomes(r, Accepting("locked", i, req[r].user, FALSE))
          /\ UNCHANGED <<users, invitations, joins>>
       \/ /\ invState[i] # "open" \/ req[r].late
          /\ Rollback(r)

\* Mutant: the token is looked up FOR SHARE when the transaction begins, and
\* the lock is an upgrade that waits for every other reader of the row.
LockOpenInvitationUpgraded(r) ==
    LET i == req[r].inv IN
    /\ req[r].pc = "begun"
    /\ ~\E s \in Requests \ {r} :
           req[s].pc \in AcceptSteps /\ req[s].inv = i /\ req[s].user # None
    /\ \/ /\ invState[i] = "open"
          /\ ~req[r].late
          /\ Becomes(r, Accepting("locked", i, req[r].user, FALSE))
          /\ UNCHANGED <<users, invitations, joins>>
       \/ /\ invState[i] # "open" \/ req[r].late
          /\ Rollback(r)

\* SELECT ... FOR UPDATE of the open invitation behind the token; a row that
\* is used, revoked or expired is ErrNotFound.
LockOpenInvitation(r) ==
    LET i == req[r].inv IN
    /\ req[r].pc = "begun"
    /\ ~\E s \in Requests : HoldsInvitation(s, i)
    /\ \/ /\ invState[i] = "open"
          /\ ~req[r].late
          /\ Becomes(r, Accepting("locked", i, req[r].user, FALSE))
          /\ UNCHANGED <<users, invitations, joins>>
       \/ /\ invState[i] # "open" \/ req[r].late
          /\ Rollback(r)

\* INSERT of the account, a member at once.  It waits for another
\* uncommitted account of the address; a committed one is ErrConflict and
\* leaves the invitation open.
CreateInvitedUser(r) ==
    LET e == invEmail[req[r].inv] IN
    /\ req[r].pc = "locked"
    /\ ~\E s \in Requests : HoldsEmail(s, e)
    /\ ~EmailTaken(e)
    /\ Becomes(r, Accepting("inserted", req[r].inv, req[r].user, FALSE))
    /\ UNCHANGED <<users, invitations, joins>>

InvitedEmailConflict(r) ==
    /\ req[r].pc = "locked"
    /\ EmailTaken(invEmail[req[r].inv])
    /\ Rollback(r)

\* Mutant: the UPDATE runs on the pool, not in the transaction.
MarkInvitationOnPool(r) ==
    /\ req[r].pc = "inserted"
    /\ invState' = [invState EXCEPT ![req[r].inv] = "accepted"]
    /\ acceptedBy' = [acceptedBy EXCEPT ![req[r].inv] = req[r].user]
    /\ Becomes(r, Accepting("marked", req[r].inv, req[r].user, FALSE))
    /\ UNCHANGED <<users, invEmail, expired, joins>>

\* UPDATE of the row the transaction has locked.
MarkInvitationAccepted(r) ==
    /\ req[r].pc = "inserted"
    /\ Becomes(r, Accepting("marked", req[r].inv, req[r].user, FALSE))
    /\ UNCHANGED <<users, invitations, joins>>

\* Mutant: the INSERT leaves the role to the column's default.
CommitAcceptDefaultRole(r) ==
    LET i == req[r].inv
        u == req[r].user IN
    /\ req[r].pc = "marked"
    /\ role' = [role EXCEPT ![u] = "outsider"]
    /\ email' = [email EXCEPT ![u] = invEmail[i]]
    /\ active' = [active EXCEPT ![u] = TRUE]
    /\ invState' = [invState EXCEPT ![i] = "accepted"]
    /\ acceptedBy' = [acceptedBy EXCEPT ![i] = u]
    /\ Becomes(r, Idle)
    /\ UNCHANGED <<invEmail, expired, joins>>

CommitAccept(r) ==
    LET i == req[r].inv
        u == req[r].user IN
    /\ req[r].pc = "marked"
    /\ role' = [role EXCEPT ![u] = "member"]
    /\ email' = [email EXCEPT ![u] = invEmail[i]]
    /\ active' = [active EXCEPT ![u] = TRUE]
    /\ invState' = [invState EXCEPT ![i] = "accepted"]
    /\ acceptedBy' = [acceptedBy EXCEPT ![i] = u]
    /\ Becomes(r, Idle)
    /\ UNCHANGED <<invEmail, expired, joins>>

(***************************************************************************)
(* Join requests.                                                          *)
(***************************************************************************)
\* POST /joinrequests.  The route asks for a session and nothing else, so the
\* requester may be a member, an admin or an account deactivated since.
CreateJoinRequest(u, j) ==
    /\ role[u] # "none"
    /\ jrState[j] = "none"
    /\ ~PendingJoinRequest(u)
    /\ jrState' = [jrState EXCEPT ![j] = "pending"]
    /\ requester' = [requester EXCEPT ![j] = u]
    /\ UNCHANGED <<users, invitations, req>>

\* POST /joinrequests/{id}/reject: one UPDATE of a pending row.
RejectJoinRequest(j) ==
    /\ ~\E r \in Requests : HoldsJoinRequest(r, j)
    /\ jrState[j] = "pending"
    /\ jrState' = [jrState EXCEPT ![j] = "rejected"]
    /\ UNCHANGED <<requester, users, invitations, req>>

\* POST /joinrequests/{id}/accept: the transaction begins, ...
BeginDecide(r, j) ==
    /\ req[r].pc = "idle"
    /\ jrState[j] # "none"
    /\ Becomes(r, Deciding("asked", j, None))
    /\ UNCHANGED <<users, invitations, joins>>

\* Mutant: reads the request first and decides it without its lock.
DecideJoinRequestUnlocked(r) ==
    LET j == req[r].jr IN
    /\ req[r].pc = "asked"
    /\ \/ /\ jrState[j] = "pending"
          /\ Becomes(r, Deciding("decided", j, None))
          /\ UNCHANGED <<users, invitations, joins>>
       \/ /\ jrState[j] # "pending"
          /\ Rollback(r)

\* ... the deciding UPDATE waits for the row of the request and finds it
\* pending, or decided by somebody else (ErrNotFound), ...
DecideJoinRequest(r) ==
    LET j == req[r].jr IN
    /\ req[r].pc = "asked"
    /\ ~\E s \in Requests : HoldsJoinRequest(s, j)
    /\ \/ /\ jrState[j] = "pending"
          /\ Becomes(r, Deciding("decided", j, None))
          /\ UNCHANGED <<users, invitations, joins>>
       \/ /\ jrState[j] # "pending"
          /\ Rollback(r)

\* Mutant: no "AND role = 'outsider'".
PromoteAnybody(r) ==
    LET u == requester[req[r].jr] IN
    /\ req[r].pc = "decided"
    /\ ~\E s \in Requests : HoldsAccount(s, u)
    /\ Becomes(r, Deciding("promoted", req[r].jr, u))
    /\ UNCHANGED <<users, invitations, joins>>

\* Mutant: promotes whoever is active, as login would have it.
PromoteOnlyActive(r) ==
    LET u == requester[req[r].jr] IN
    /\ req[r].pc = "decided"
    /\ ~\E s \in Requests : HoldsAccount(s, u)
    /\ Becomes(r, Deciding("promoted", req[r].jr,
                           IF role[u] = "outsider" /\ active[u] THEN u ELSE None))
    /\ UNCHANGED <<users, invitations, joins>>

\* ... the promoting UPDATE, which touches no row unless the requester is
\* still an outsider, ...
PromoteOutsider(r) ==
    LET u == requester[req[r].jr] IN
    /\ req[r].pc = "decided"
    /\ ~\E s \in Requests : HoldsAccount(s, u)
    /\ Becomes(r, Deciding("promoted", req[r].jr, IF role[u] = "outsider" THEN u ELSE None))
    /\ UNCHANGED <<users, invitations, joins>>

\* Mutant: a state the column's CHECK does not know.
CommitDecisionMisspelt(r) ==
    LET u == req[r].user IN
    /\ req[r].pc = "promoted"
    /\ jrState' = [jrState EXCEPT ![req[r].jr] = "accepted"]
    /\ role' = [v \in UserIds |-> IF v = u THEN "member" ELSE role[v]]
    /\ Becomes(r, Idle)
    /\ UNCHANGED <<email, active, requester, invitations>>

\* ... and the commit of both.
CommitDecision(r) ==
    LET u == req[r].user IN
    /\ req[r].pc = "promoted"
    /\ jrState' = [jrState EXCEPT ![req[r].jr] = "approved"]
    /\ role' = [v \in UserIds |-> IF v = u THEN "member" ELSE role[v]]
    /\ Becomes(r, Idle)
    /\ UNCHANGED <<email, active, requester, invitations>>

(***************************************************************************)
(* A statement fails, the handler's time is up, the client goes away, the  *)
(* connection or the process dies: the transaction is rolled back.  When   *)
(* it happens after the commit the client sees the same error, and the     *)
(* tables keep what was committed.                                         *)
(***************************************************************************)
Abort(r) == req[r].pc # "idle" /\ Rollback(r)

AcceptStatement(r) ==
    \/ LockOpenInvitation(r)
    \/ CreateInvitedUser(r)
    \/ InvitedEmailConflict(r)
    \/ MarkInvitationAccepted(r)
    \/ CommitAccept(r)

DecideStatement(r) == DecideJoinRequest(r) \/ PromoteOutsider(r) \/ CommitDecision(r)

Next ==
    \/ \E u \in UserIds : Deactivate(u)
    \/ \E u \in UserIds, e \in Emails : CreateUser(u, e)
    \/ \E i \in Invitations, e \in Emails : CreateInvitation(i, e)
    \/ \E i \in Invitations : Expire(i) \/ RevokeInvitation(i)
    \/ \E u \in UserIds, j \in JoinRequests : CreateJoinRequest(u, j)
    \/ \E j \in JoinRequests : RejectJoinRequest(j)
    \/ \E r \in Requests, i \in Invitations, u \in UserIds \cup {None} : BeginAccept(r, i, u)
    \/ \E r \in Requests, j \in JoinRequests : BeginDecide(r, j)
    \/ \E r \in Requests : AcceptStatement(r) \/ DecideStatement(r) \/ Abort(r)

Spec == Init /\ [][Next]_vars

(***************************************************************************)
(* Fairness: PostgreSQL runs a statement whose locks are free and queues   *)
(* the waiters of a lock, so a waiter is not passed over for ever.  Nobody *)
(* has to start a request, nothing has to fail and no clock has to run.    *)
(***************************************************************************)
Fairness == \A r \in Requests : SF_vars(AcceptStatement(r)) /\ SF_vars(DecideStatement(r))

FairSpec == Spec /\ Fairness
(***************************************************************************)
(* What the tables promise.                                                *)
(***************************************************************************)
\* Every variable has its type: the columns' CHECK constraints, and the
\* NOT NULL and _pair constraints that tie accepted_by to its state.
TypeOK ==
    /\ role \in [UserIds -> {"none"} \cup Roles]
    /\ email \in [UserIds -> Emails \cup {None}]
    /\ active \in [UserIds -> BOOLEAN]
    /\ invState \in [Invitations -> InvStates]
    /\ invEmail \in [Invitations -> Emails \cup {None}]
    /\ expired \in [Invitations -> BOOLEAN]
    /\ acceptedBy \in [Invitations -> UserIds \cup {None}]
    /\ jrState \in [JoinRequests -> JoinStates]
    /\ requester \in [JoinRequests -> UserIds \cup {None}]
    /\ req \in [Requests -> [pc : Steps,
                             inv : Invitations \cup {None},
                             jr : JoinRequests \cup {None},
                             user : UserIds \cup {None},
                             late : BOOLEAN]]

\* Two active accounts never share an address, however a sign-up, two
\* acceptances and a deactivation interleave: login finds one account.
OneAccountPerEmail ==
    \A u, v \in UserIds : active[u] /\ active[v] /\ email[u] = email[v] => u = v

\* At most one invitation to an address is open, expired ones included, while
\* others for it are being accepted and revoked.
OneOpenInvitationPerEmail ==
    \A i, k \in Invitations :
        invState[i] = "open" /\ invState[k] = "open" /\ invEmail[i] = invEmail[k] => i = k

\* The same of the requests of one account: join_requests_pending.
OnePendingRequestPerAccount ==
    \A j, k \in JoinRequests :
        jrState[j] = "pending" /\ jrState[k] = "pending" /\ requester[j] = requester[k] => j = k

\* The account an accepted invitation names is an account it made: it is in,
\* it has the invited address, and no other invitation made it.  So a token
\* submitted twice, or again after a lost answer, makes one account.
AcceptedInvitationMadeOneAccount ==
    \A i \in Invitations : invState[i] = "accepted" =>
        /\ acceptedBy[i] \in UserIds
        /\ role[acceptedBy[i]] \in {"member", "admin"}
        /\ email[acceptedBy[i]] = invEmail[i]
        /\ \A k \in Invitations : acceptedBy[k] = acceptedBy[i] => k = i

\* Nobody is in without a decision: an account above outsider was there at
\* the start, or an accepted invitation names it, or a join request of its
\* own was approved.  A lost decision would leave a member nobody admitted.
MembersWereAdmitted ==
    \A u \in UserIds : role[u] \in {"member", "admin"} =>
        \/ u \in Founders
        \/ \E i \in Invitations : invState[i] = "accepted" /\ acceptedBy[i] = u
        \/ \E j \in JoinRequests : jrState[j] = "approved" /\ requester[j] = u

\* An approval is never half done: whoever has an approved request is in.
ApprovedRequestersAreIn ==
    \A j \in JoinRequests : jrState[j] = "approved" => role[requester[j]] \in {"member", "admin"}

(***************************************************************************)
(* Why the promises hold: what a transaction found under its lock is still *)
(* true when it commits.                                                   *)
(***************************************************************************)
\* Rows that are not there hold nothing and nothing refers to them.
RowsAreWhole ==
    /\ \A u \in UserIds :
        /\ role[u] # "none" => email[u] \in Emails
        /\ role[u] = "none" => /\ ~active[u]
                               /\ \A i \in Invitations : acceptedBy[i] # u
                               /\ \A j \in JoinRequests : requester[j] # u
    /\ \A i \in Invitations :
        /\ invState[i] # "none" => invEmail[i] \in Emails
        /\ acceptedBy[i] # None <=> invState[i] = "accepted"
    /\ \A j \in JoinRequests : jrState[j] # "none" <=> requester[j] # None

\* Between its statements a transaction keeps what it has locked as it was.
TransactionsKeepTheirGround ==
    \A r \in Requests :
        /\ req[r].pc = "idle" => req[r] = Idle
        /\ req[r].pc \in AcceptSteps =>
            /\ req[r].inv \in Invitations /\ req[r].jr = None
            /\ invState[req[r].inv] # "none"
            /\ req[r].user = None => invState[req[r].inv] # "open"
            /\ req[r].user # None => role[req[r].user] = "none"
        /\ req[r].pc \in {"locked", "inserted", "marked"} =>
            invState[req[r].inv] = "open" /\ ~req[r].late
        /\ req[r].pc \in {"inserted", "marked"} => ~EmailTaken(invEmail[req[r].inv])
        /\ req[r].pc \in DecideSteps =>
            /\ req[r].jr \in JoinRequests /\ req[r].inv = None
            /\ jrState[req[r].jr] # "none"
        /\ req[r].pc \in {"decided", "promoted"} => jrState[req[r].jr] = "pending"
        /\ req[r].pc \in {"asked", "decided"} => req[r].user = None
        /\ req[r].pc = "promoted" =>
            IF req[r].user = None
            THEN role[requester[req[r].jr]] \in {"member", "admin"}
            ELSE req[r].user = requester[req[r].jr] /\ role[req[r].user] = "outsider"

\* No two transactions hold the same row or write the same account.
LocksAreExclusive ==
    \A r, s \in Requests : r # s =>
        /\ \A i \in Invitations : ~(HoldsInvitation(r, i) /\ HoldsInvitation(s, i))
        /\ \A j \in JoinRequests : ~(HoldsJoinRequest(r, j) /\ HoldsJoinRequest(s, j))
        /\ req[r].user # None => req[r].user # req[s].user

\* A transaction waits only for its first lock.  The INSERT of an invited
\* account and the promoting UPDATE run with a row locked already and never
\* find another transaction in their way, because an address has one open
\* invitation and an account one pending request: so no circle of waiting
\* transactions can close, in whatever order the clients send them.
WaitersHoldNothing ==
    \A r, s \in Requests :
        /\ req[r].pc = "locked" => ~HoldsEmail(s, invEmail[req[r].inv])
        /\ req[r].pc = "decided" => ~HoldsAccount(s, requester[req[r].jr])

\* The inductive invariant: the promises, and why each transaction keeps them.
IInv ==
    /\ TypeOK
    /\ RowsAreWhole
    /\ TransactionsKeepTheirGround
    /\ LocksAreExclusive
    /\ OneAccountPerEmail
    /\ OneOpenInvitationPerEmail
    /\ OnePendingRequestPerAccount
    /\ AcceptedInvitationMadeOneAccount
    /\ MembersWereAdmitted
    /\ ApprovedRequestersAreIn

KeepsDecisions ==
    /\ \A i \in Invitations : invState[i] \in {"accepted", "revoked"} =>
           /\ invState'[i] = invState[i]
           /\ acceptedBy'[i] = acceptedBy[i]
    /\ \A j \in JoinRequests : jrState[j] \in {"approved", "rejected"} =>
           jrState'[j] = jrState[j]

\* A used or revoked invitation and a decided join request stay as they are,
\* whichever of two racing decisions committed first.
DecisionsAreFinal == [][KeepsDecisions]_vars

RaisesRoles ==
    \A u \in UserIds : role[u] # "none" /\ role'[u] # role[u] =>
        role[u] = "outsider" /\ role'[u] = "member"

\* An existing account's role changes only from outsider to member.  Join
\* requests come from members and admins too (the route does not stop them),
\* and approving one must not demote anybody.
RolesOnlyRise == [][RaisesRoles]_vars

\* Under FairSpec every transaction ends, though nothing aborts one: two
\* acceptances of one invitation or one join request wait for each other's
\* row, whoever holds it gets to its end, and the waiter then gets the row or
\* ErrNotFound.
TransactionsEnd == \A r \in Requests : req[r].pc # "idle" ~> req[r].pc = "idle"

(***************************************************************************)
(* Hidden transactions and clocks: what other connections and the clients  *)
(* see is the one-step-at-a-time door of module Admission.  The mapping    *)
(* is the committed tables, without expired and req.                       *)
(***************************************************************************)
Door == INSTANCE Admission WITH
    role <- role, email <- email, active <- active,
    invState <- invState, invEmail <- invEmail, acceptedBy <- acceptedBy,
    jrState <- jrState, requester <- requester

ImplementsAdmission == Door!Spec
=============================================================================
