------------------------------ MODULE Admission ------------------------------
(***************************************************************************)
(* The door of the library as its users are promised it: every operation   *)
(* of Membership is one step that reads and writes all it is about, with   *)
(* no transaction, lock or clock in sight.                                 *)
(***************************************************************************)
CONSTANTS UserIds, Emails, Invitations, JoinRequests, FounderEmail, FounderRole, None

VARIABLES role, email, active, invState, invEmail, acceptedBy, jrState, requester

accounts == <<role, email, active>>
tickets  == <<invState, invEmail, acceptedBy>>
asks     == <<jrState, requester>>

\* A new active account with an address no active account has.
NewAccount(u, e, r) ==
    /\ role[u] = "none"
    /\ \A v \in UserIds : active[v] => email[v] # e
    /\ role' = [role EXCEPT ![u] = r]
    /\ email' = [email EXCEPT ![u] = e]
    /\ active' = [active EXCEPT ![u] = TRUE]

Init ==
    /\ role = [u \in UserIds |->
                 IF u \in DOMAIN FounderRole THEN FounderRole[u] ELSE "none"]
    /\ email = [u \in UserIds |->
                 IF u \in DOMAIN FounderRole THEN FounderEmail[u] ELSE None]
    /\ active = [u \in UserIds |-> u \in DOMAIN FounderRole]
    /\ invState = [i \in Invitations |-> "none"]
    /\ invEmail = [i \in Invitations |-> None]
    /\ acceptedBy = [i \in Invitations |-> None]
    /\ jrState = [j \in JoinRequests |-> "none"]
    /\ requester = [j \in JoinRequests |-> None]

SignUp(u, e) == NewAccount(u, e, "outsider") /\ UNCHANGED <<tickets, asks>>

Leave(u) ==
    /\ active[u]
    /\ active' = [active EXCEPT ![u] = FALSE]
    /\ UNCHANGED <<role, email, tickets, asks>>

Invite(i, e) ==
    /\ invState[i] = "none"
    /\ \A k \in Invitations : invState[k] = "open" => invEmail[k] # e
    /\ invState' = [invState EXCEPT ![i] = "open"]
    /\ invEmail' = [invEmail EXCEPT ![i] = e]
    /\ UNCHANGED <<acceptedBy, accounts, asks>>

Revoke(i) ==
    /\ invState[i] = "open"
    /\ invState' = [invState EXCEPT ![i] = "revoked"]
    /\ UNCHANGED <<invEmail, acceptedBy, accounts, asks>>

\* The account appears in the step that uses the invitation up.
Accept(i, u) ==
    /\ invState[i] = "open"
    /\ NewAccount(u, invEmail[i], "member")
    /\ invState' = [invState EXCEPT ![i] = "accepted"]
    /\ acceptedBy' = [acceptedBy EXCEPT ![i] = u]
    /\ UNCHANGED <<invEmail, asks>>

Ask(u, j) ==
    /\ role[u] # "none"
    /\ jrState[j] = "none"
    /\ \A k \in JoinRequests : jrState[k] = "pending" => requester[k] # u
    /\ jrState' = [jrState EXCEPT ![j] = "pending"]
    /\ requester' = [requester EXCEPT ![j] = u]
    /\ UNCHANGED <<accounts, tickets>>

Reject(j) ==
    /\ jrState[j] = "pending"
    /\ jrState' = [jrState EXCEPT ![j] = "rejected"]
    /\ UNCHANGED <<requester, accounts, tickets>>

\* The requester is in from the step that approves the request.
Approve(j) ==
    /\ jrState[j] = "pending"
    /\ jrState' = [jrState EXCEPT ![j] = "approved"]
    /\ role' = [u \in UserIds |->
                  IF u = requester[j] /\ role[u] = "outsider" THEN "member" ELSE role[u]]
    /\ UNCHANGED <<email, active, requester, tickets>>

Next ==
    \/ \E u \in UserIds, e \in Emails : SignUp(u, e)
    \/ \E u \in UserIds : Leave(u)
    \/ \E i \in Invitations, e \in Emails : Invite(i, e)
    \/ \E i \in Invitations : Revoke(i)
    \/ \E i \in Invitations, u \in UserIds : Accept(i, u)
    \/ \E u \in UserIds, j \in JoinRequests : Ask(u, j)
    \/ \E j \in JoinRequests : Reject(j) \/ Approve(j)

Spec == Init /\ [][Next]_<<accounts, tickets, asks>>
=============================================================================
