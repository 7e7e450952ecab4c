-------------------------- MODULE MembershipProofs --------------------------
(***************************************************************************)
(* The promises of Membership hold for every set of accounts, addresses,   *)
(* invitations, join requests and concurrent HTTP requests.                *)
(***************************************************************************)
EXTENDS Membership, TLAPS

USE FoundersAssumption, NoneAssumption
USE DEF users, invitations, joins, Becomes, Rollback, Idle, Accepting, Deciding, Founders, Roles,
        InvStates, JoinStates, AcceptSteps, DecideSteps, Steps

LEMMA InitIInv == Init => IInv
<1> SUFFICES ASSUME Init PROVE IInv  OBVIOUS
<1> USE DEF Init
<1>1. TypeOK  BY DEF TypeOK
<1>2. RowsAreWhole  BY DEF RowsAreWhole
<1>3. TransactionsKeepTheirGround  BY DEF TransactionsKeepTheirGround
<1>4. LocksAreExclusive
  BY DEF LocksAreExclusive, HoldsInvitation, HoldsJoinRequest
<1>5. OneAccountPerEmail  BY DEF OneAccountPerEmail
<1>6. OneOpenInvitationPerEmail  BY DEF OneOpenInvitationPerEmail
<1>7. AcceptedInvitationMadeOneAccount  BY DEF AcceptedInvitationMadeOneAccount
<1>8. MembersWereAdmitted  BY DEF MembersWereAdmitted
<1>9. ApprovedRequestersAreIn  BY DEF ApprovedRequestersAreIn
<1>10. OnePendingRequestPerAccount  BY DEF OnePendingRequestPerAccount
<1> QED  BY <1>1, <1>2, <1>3, <1>4, <1>5, <1>6, <1>7, <1>8, <1>9, <1>10 DEF IInv

LEMMA CreateUserKeepsIInv ==
  ASSUME IInv, NEW u \in UserIds, NEW e \in Emails, CreateUser(u, e)
  PROVE  IInv'
<1> USE DEF IInv, CreateUser
<1>1. TypeOK'  BY DEF TypeOK
<1>2. RowsAreWhole'  BY DEF TypeOK, RowsAreWhole, FreshUserId
<1>3. TransactionsKeepTheirGround'
  BY DEF TypeOK, RowsAreWhole, TransactionsKeepTheirGround, FreshUserId, EmailTaken, HoldsEmail
<1>4. LocksAreExclusive'
  BY DEF LocksAreExclusive, HoldsInvitation, HoldsJoinRequest
<1>5. OneAccountPerEmail'  BY DEF TypeOK, OneAccountPerEmail, EmailTaken
<1>6. OneOpenInvitationPerEmail'  BY DEF OneOpenInvitationPerEmail
<1>7. AcceptedInvitationMadeOneAccount'
  BY DEF TypeOK, RowsAreWhole, AcceptedInvitationMadeOneAccount, FreshUserId
<1>8. MembersWereAdmitted'  BY DEF TypeOK, MembersWereAdmitted
<1>9. ApprovedRequestersAreIn'
  BY DEF TypeOK, RowsAreWhole, ApprovedRequestersAreIn, FreshUserId
<1>10. OnePendingRequestPerAccount'  BY DEF OnePendingRequestPerAccount
<1> QED  BY <1>1, <1>2, <1>3, <1>4, <1>5, <1>6, <1>7, <1>8, <1>9, <1>10 DEF IInv

LEMMA DeactivateKeepsIInv ==
  ASSUME IInv, NEW u \in UserIds, Deactivate(u)
  PROVE  IInv'
<1> USE DEF IInv, Deactivate
<1>1. TypeOK'  BY DEF TypeOK
<1>2. RowsAreWhole'  BY DEF TypeOK, RowsAreWhole
<1>3. TransactionsKeepTheirGround'
  BY DEF TypeOK, RowsAreWhole, TransactionsKeepTheirGround, EmailTaken
<1>4. LocksAreExclusive'
  BY DEF LocksAreExclusive, HoldsInvitation, HoldsJoinRequest
<1>5. OneAccountPerEmail'  BY DEF OneAccountPerEmail, TypeOK
<1>6. OneOpenInvitationPerEmail'  BY DEF OneOpenInvitationPerEmail
<1>7. AcceptedInvitationMadeOneAccount'
  BY DEF AcceptedInvitationMadeOneAccount
<1>8. MembersWereAdmitted'  BY DEF MembersWereAdmitted
<1>9. ApprovedRequestersAreIn'  BY DEF ApprovedRequestersAreIn
<1>10. OnePendingRequestPerAccount'  BY DEF OnePendingRequestPerAccount
<1> QED  BY <1>1, <1>2, <1>3, <1>4, <1>5, <1>6, <1>7, <1>8, <1>9, <1>10 DEF IInv

LEMMA CreateInvitationKeepsIInv ==
  ASSUME IInv, NEW i \in Invitations, NEW e \in Emails, CreateInvitation(i, e)
  PROVE  IInv'
<1> USE DEF IInv, CreateInvitation
<1>1. TypeOK'  BY DEF TypeOK
<1>2. RowsAreWhole'  BY DEF TypeOK, RowsAreWhole
<1>3. TransactionsKeepTheirGround'
  BY DEF TypeOK, RowsAreWhole, TransactionsKeepTheirGround, EmailTaken
<1>4. LocksAreExclusive'
  BY DEF LocksAreExclusive, HoldsInvitation, HoldsJoinRequest
<1>5. OneAccountPerEmail'  BY DEF OneAccountPerEmail
<1>6. OneOpenInvitationPerEmail'
  BY DEF OneOpenInvitationPerEmail, TypeOK, PendingInvitation
<1>7. AcceptedInvitationMadeOneAccount'
  BY DEF AcceptedInvitationMadeOneAccount, TypeOK, RowsAreWhole
<1>8. MembersWereAdmitted'  BY DEF MembersWereAdmitted, TypeOK
<1>9. ApprovedRequestersAreIn'  BY DEF ApprovedRequestersAreIn
<1>10. OnePendingRequestPerAccount'  BY DEF OnePendingRequestPerAccount
<1> QED  BY <1>1, <1>2, <1>3, <1>4, <1>5, <1>6, <1>7, <1>8, <1>9, <1>10 DEF IInv

LEMMA ExpireKeepsIInv ==
  ASSUME IInv, NEW i \in Invitations, Expire(i)
  PROVE  IInv'
<1> USE DEF IInv, Expire
<1>1. TypeOK'  BY DEF TypeOK
<1>2. RowsAreWhole'  BY DEF TypeOK, RowsAreWhole
<1>3. TransactionsKeepTheirGround'
  BY DEF TypeOK, RowsAreWhole, TransactionsKeepTheirGround, EmailTaken
<1>4. LocksAreExclusive'
  BY DEF LocksAreExclusive, HoldsInvitation, HoldsJoinRequest
<1>5. OneAccountPerEmail'  BY DEF OneAccountPerEmail
<1>6. OneOpenInvitationPerEmail'  BY DEF OneOpenInvitationPerEmail
<1>7. AcceptedInvitationMadeOneAccount'
  BY DEF AcceptedInvitationMadeOneAccount
<1>8. MembersWereAdmitted'  BY DEF MembersWereAdmitted
<1>9. ApprovedRequestersAreIn'  BY DEF ApprovedRequestersAreIn
<1>10. OnePendingRequestPerAccount'  BY DEF OnePendingRequestPerAccount
<1> QED  BY <1>1, <1>2, <1>3, <1>4, <1>5, <1>6, <1>7, <1>8, <1>9, <1>10 DEF IInv

LEMMA RevokeInvitationKeepsIInv ==
  ASSUME IInv, NEW i \in Invitations, RevokeInvitation(i)
  PROVE  IInv'
<1> USE DEF IInv, RevokeInvitation
<1>1. TypeOK'  BY DEF TypeOK
<1>2. RowsAreWhole'  BY DEF TypeOK, RowsAreWhole
<1>3. TransactionsKeepTheirGround'
  BY DEF TypeOK, RowsAreWhole, TransactionsKeepTheirGround, EmailTaken, HoldsInvitation
<1>4. LocksAreExclusive'
  BY DEF LocksAreExclusive, HoldsInvitation, HoldsJoinRequest
<1>5. OneAccountPerEmail'  BY DEF OneAccountPerEmail
<1>6. OneOpenInvitationPerEmail'  BY DEF OneOpenInvitationPerEmail, TypeOK
<1>7. AcceptedInvitationMadeOneAccount'
  BY DEF AcceptedInvitationMadeOneAccount, TypeOK
<1>8. MembersWereAdmitted'  BY DEF MembersWereAdmitted, TypeOK
<1>9. ApprovedRequestersAreIn'  BY DEF ApprovedRequestersAreIn
<1>10. OnePendingRequestPerAccount'  BY DEF OnePendingRequestPerAccount
<1> QED  BY <1>1, <1>2, <1>3, <1>4, <1>5, <1>6, <1>7, <1>8, <1>9, <1>10 DEF IInv

LEMMA CreateJoinRequestKeepsIInv ==
  ASSUME IInv, NEW u \in UserIds, NEW j \in JoinRequests, CreateJoinRequest(u, j)
  PROVE  IInv'
<1> USE DEF IInv, CreateJoinRequest
<1>1. TypeOK'  BY DEF TypeOK
<1>2. RowsAreWhole'  BY DEF TypeOK, RowsAreWhole
<1>3. TransactionsKeepTheirGround'
  BY DEF TypeOK, RowsAreWhole, TransactionsKeepTheirGround, EmailTaken
<1>4. LocksAreExclusive'
  BY DEF LocksAreExclusive, HoldsInvitation, HoldsJoinRequest
<1>5. OneAccountPerEmail'  BY DEF OneAccountPerEmail
<1>6. OneOpenInvitationPerEmail'  BY DEF OneOpenInvitationPerEmail
<1>7. AcceptedInvitationMadeOneAccount'
  BY DEF AcceptedInvitationMadeOneAccount
<1>8. MembersWereAdmitted'  BY DEF MembersWereAdmitted, TypeOK
<1>9. ApprovedRequestersAreIn'  BY DEF ApprovedRequestersAreIn, TypeOK
<1>10. OnePendingRequestPerAccount'  BY DEF OnePendingRequestPerAccount, TypeOK, PendingJoinRequest
<1> QED  BY <1>1, <1>2, <1>3, <1>4, <1>5, <1>6, <1>7, <1>8, <1>9, <1>10 DEF IInv

LEMMA RejectJoinRequestKeepsIInv ==
  ASSUME IInv, NEW j \in JoinRequests, RejectJoinRequest(j)
  PROVE  IInv'
<1> USE DEF IInv, RejectJoinRequest
<1>1. TypeOK'  BY DEF TypeOK
<1>2. RowsAreWhole'  BY DEF TypeOK, RowsAreWhole
<1>3. TransactionsKeepTheirGround'
  BY DEF TypeOK, RowsAreWhole, TransactionsKeepTheirGround, EmailTaken, HoldsJoinRequest
<1>4. LocksAreExclusive'
  BY DEF LocksAreExclusive, HoldsInvitation, HoldsJoinRequest
<1>5. OneAccountPerEmail'  BY DEF OneAccountPerEmail
<1>6. OneOpenInvitationPerEmail'  BY DEF OneOpenInvitationPerEmail
<1>7. AcceptedInvitationMadeOneAccount'
  BY DEF AcceptedInvitationMadeOneAccount
<1>8. MembersWereAdmitted'  BY DEF MembersWereAdmitted, TypeOK
<1>9. ApprovedRequestersAreIn'  BY DEF ApprovedRequestersAreIn, TypeOK
<1>10. OnePendingRequestPerAccount'  BY DEF OnePendingRequestPerAccount, TypeOK
<1> QED  BY <1>1, <1>2, <1>3, <1>4, <1>5, <1>6, <1>7, <1>8, <1>9, <1>10 DEF IInv

(***************************************************************************)
(* The statements of a transaction that write no table.                    *)
(***************************************************************************)
LEMMA UnchangedTables ==
  ASSUME IInv, UNCHANGED <<users, invitations, joins>>
  PROVE  /\ RowsAreWhole'
         /\ OneAccountPerEmail' /\ OneOpenInvitationPerEmail'
         /\ OnePendingRequestPerAccount'
         /\ AcceptedInvitationMadeOneAccount'
         /\ MembersWereAdmitted' /\ ApprovedRequestersAreIn'
<1> USE DEF IInv
<1>1. RowsAreWhole'  BY DEF RowsAreWhole
<1>2. OneAccountPerEmail'  BY DEF OneAccountPerEmail
<1>3. OneOpenInvitationPerEmail'  BY DEF OneOpenInvitationPerEmail
<1>4. AcceptedInvitationMadeOneAccount'  BY DEF AcceptedInvitationMadeOneAccount
<1>5. MembersWereAdmitted'  BY DEF MembersWereAdmitted
<1>6. ApprovedRequestersAreIn'  BY DEF ApprovedRequestersAreIn
<1>7. OnePendingRequestPerAccount'  BY DEF OnePendingRequestPerAccount
<1> QED  BY <1>1, <1>2, <1>3, <1>4, <1>5, <1>6, <1>7

LEMMA RollbackKeepsIInv ==
  ASSUME IInv, NEW r \in Requests, Rollback(r)
  PROVE  IInv'
<1> USE DEF IInv
<1>1. TypeOK'  BY DEF TypeOK
<1>2. TransactionsKeepTheirGround'  BY DEF TypeOK, TransactionsKeepTheirGround, EmailTaken
<1>3. LocksAreExclusive'
  BY DEF TypeOK, LocksAreExclusive, HoldsInvitation, HoldsJoinRequest
<1> QED  BY <1>1, <1>2, <1>3, UnchangedTables DEF IInv

LEMMA BeginAcceptKeepsIInv ==
  ASSUME IInv, NEW r \in Requests, NEW i \in Invitations,
         NEW u \in UserIds \cup {None}, BeginAccept(r, i, u)
  PROVE  IInv'
<1> USE DEF IInv, BeginAccept
<1>1. TypeOK'  BY DEF TypeOK
<1>2. TransactionsKeepTheirGround'
  BY DEF TypeOK, RowsAreWhole, TransactionsKeepTheirGround, EmailTaken, FreshUserId
<1>3. LocksAreExclusive'
  BY DEF TypeOK, LocksAreExclusive, HoldsInvitation, HoldsJoinRequest, FreshUserId
<1> QED  BY <1>1, <1>2, <1>3, UnchangedTables DEF IInv

LEMMA LockOpenInvitationKeepsIInv ==
  ASSUME IInv, NEW r \in Requests, LockOpenInvitation(r)
  PROVE  IInv'
<1>1. CASE Rollback(r)  BY <1>1, RollbackKeepsIInv
<1>2. CASE ~Rollback(r)
  <2>1. /\ req[r].pc = "begun" /\ invState[req[r].inv] = "open"
        /\ \A s \in Requests : ~HoldsInvitation(s, req[r].inv)
        /\ req' = [req EXCEPT ![r] = Accepting("locked", req[r].inv, req[r].user, FALSE)]
        /\ UNCHANGED <<users, invitations, joins>>
    BY <1>2 DEF LockOpenInvitation
  <2>2. TypeOK'  BY <2>1 DEF IInv, TypeOK, TransactionsKeepTheirGround
  <2>3. TransactionsKeepTheirGround'
    BY <2>1 DEF IInv, TypeOK, TransactionsKeepTheirGround, EmailTaken
  <2>4. LocksAreExclusive'
    BY <2>1 DEF IInv, TypeOK, LocksAreExclusive, HoldsInvitation, HoldsJoinRequest
  <2> QED  BY <2>1, <2>2, <2>3, <2>4, UnchangedTables DEF IInv
<1> QED  BY <1>1, <1>2

LEMMA CreateInvitedUserKeepsIInv ==
  ASSUME IInv, NEW r \in Requests, CreateInvitedUser(r)
  PROVE  IInv'
<1> USE DEF IInv, CreateInvitedUser
<1>1. TypeOK'  BY DEF TypeOK
<1>2. TransactionsKeepTheirGround'
  BY DEF TypeOK, TransactionsKeepTheirGround, EmailTaken
<1>3. LocksAreExclusive'
  BY DEF TypeOK, LocksAreExclusive, HoldsInvitation, HoldsJoinRequest
<1> QED  BY <1>1, <1>2, <1>3, UnchangedTables DEF IInv

LEMMA MarkInvitationAcceptedKeepsIInv ==
  ASSUME IInv, NEW r \in Requests, MarkInvitationAccepted(r)
  PROVE  IInv'
<1> USE DEF IInv, MarkInvitationAccepted
<1>1. TypeOK'  BY DEF TypeOK
<1>2. TransactionsKeepTheirGround'
  BY DEF TypeOK, TransactionsKeepTheirGround, EmailTaken
<1>3. LocksAreExclusive'
  BY DEF TypeOK, LocksAreExclusive, HoldsInvitation, HoldsJoinRequest
<1> QED  BY <1>1, <1>2, <1>3, UnchangedTables DEF IInv

LEMMA BeginDecideKeepsIInv ==
  ASSUME IInv, NEW r \in Requests, NEW j \in JoinRequests, BeginDecide(r, j)
  PROVE  IInv'
<1> USE DEF IInv, BeginDecide
<1>1. TypeOK'  BY DEF TypeOK
<1>2. TransactionsKeepTheirGround'
  BY DEF TypeOK, TransactionsKeepTheirGround, EmailTaken
<1>3. LocksAreExclusive'
  BY DEF TypeOK, LocksAreExclusive, HoldsInvitation, HoldsJoinRequest
<1> QED  BY <1>1, <1>2, <1>3, UnchangedTables DEF IInv

LEMMA DecideJoinRequestKeepsIInv ==
  ASSUME IInv, NEW r \in Requests, DecideJoinRequest(r)
  PROVE  IInv'
<1>1. CASE Rollback(r)  BY <1>1, RollbackKeepsIInv
<1>2. CASE ~Rollback(r)
  <2>1. /\ req[r].pc = "asked" /\ jrState[req[r].jr] = "pending"
        /\ \A s \in Requests : ~HoldsJoinRequest(s, req[r].jr)
        /\ req' = [req EXCEPT ![r] = Deciding("decided", req[r].jr, None)]
        /\ UNCHANGED <<users, invitations, joins>>
    BY <1>2 DEF DecideJoinRequest
  <2>2. TypeOK'  BY <2>1 DEF IInv, TypeOK, TransactionsKeepTheirGround
  <2>3. TransactionsKeepTheirGround'
    BY <2>1 DEF IInv, TypeOK, TransactionsKeepTheirGround, EmailTaken
  <2>4. LocksAreExclusive'
    BY <2>1 DEF IInv, TypeOK, LocksAreExclusive, HoldsInvitation, HoldsJoinRequest
  <2> QED  BY <2>1, <2>2, <2>3, <2>4, UnchangedTables DEF IInv
<1> QED  BY <1>1, <1>2

LEMMA PromoteOutsiderKeepsIInv ==
  ASSUME IInv, NEW r \in Requests, PromoteOutsider(r)
  PROVE  IInv'
<1> USE DEF IInv, PromoteOutsider
<1>1. TypeOK'  BY DEF TypeOK, RowsAreWhole, TransactionsKeepTheirGround
<1>2. TransactionsKeepTheirGround'
  BY DEF TypeOK, RowsAreWhole, TransactionsKeepTheirGround, EmailTaken
<1>3. LocksAreExclusive'
  \* An account being promoted exists, one being inserted does not yet.
  <2>1. ASSUME NEW s \in Requests, s # r, req'[r].user # None
        PROVE  req[s].user # req'[r].user
    BY <2>1 DEF TypeOK, TransactionsKeepTheirGround, HoldsAccount
  <2>2. /\ \A s \in Requests : s # r => req'[s] = req[s]
        /\ req[r].pc = "decided" /\ req'[r].pc = "promoted"
        /\ req'[r].jr = req[r].jr
    BY DEF TypeOK
  <2> HIDE DEF PromoteOutsider
  <2> QED  BY <2>1, <2>2 DEF TypeOK, LocksAreExclusive, HoldsInvitation, HoldsJoinRequest
<1> QED  BY <1>1, <1>2, <1>3, UnchangedTables DEF IInv

(***************************************************************************)
(* The two commits of several writes.                                      *)
(***************************************************************************)
LEMMA CommitAcceptKeepsIInv ==
  ASSUME IInv, NEW r \in Requests, CommitAccept(r)
  PROVE  IInv'
<1> USE DEF IInv, CommitAccept
<1>1. TypeOK'
  BY DEF TypeOK, TransactionsKeepTheirGround
<1>2. RowsAreWhole'
  BY DEF TypeOK, RowsAreWhole, TransactionsKeepTheirGround
<1>3. TransactionsKeepTheirGround'
  BY DEF TypeOK, RowsAreWhole, TransactionsKeepTheirGround, LocksAreExclusive, OneOpenInvitationPerEmail, EmailTaken, HoldsInvitation, HoldsJoinRequest
<1>4. LocksAreExclusive'
  BY DEF TypeOK, LocksAreExclusive, HoldsInvitation, HoldsJoinRequest
<1>5. OneAccountPerEmail'
  BY DEF TypeOK, RowsAreWhole, TransactionsKeepTheirGround, OneAccountPerEmail, EmailTaken
<1>6. OneOpenInvitationPerEmail'
  BY DEF TypeOK, RowsAreWhole, TransactionsKeepTheirGround, OneOpenInvitationPerEmail
<1>7. AcceptedInvitationMadeOneAccount'
  BY DEF TypeOK, RowsAreWhole, TransactionsKeepTheirGround, AcceptedInvitationMadeOneAccount
<1>8. MembersWereAdmitted'
  BY DEF TypeOK, RowsAreWhole, TransactionsKeepTheirGround, MembersWereAdmitted
<1>9. ApprovedRequestersAreIn'
  BY DEF TypeOK, RowsAreWhole, TransactionsKeepTheirGround, ApprovedRequestersAreIn
<1>10. OnePendingRequestPerAccount'  BY DEF OnePendingRequestPerAccount
<1> QED  BY <1>1, <1>2, <1>3, <1>4, <1>5, <1>6, <1>7, <1>8, <1>9, <1>10 DEF IInv

LEMMA CommitDecisionKeepsIInv ==
  ASSUME IInv, NEW r \in Requests, CommitDecision(r)
  PROVE  IInv'
<1> USE DEF IInv, CommitDecision
<1>1. TypeOK'
  BY DEF TypeOK, TransactionsKeepTheirGround
<1>2. RowsAreWhole'
  BY DEF TypeOK, RowsAreWhole, TransactionsKeepTheirGround
<1>3. TransactionsKeepTheirGround'
  BY DEF TypeOK, RowsAreWhole, TransactionsKeepTheirGround, LocksAreExclusive, OneOpenInvitationPerEmail, EmailTaken, HoldsInvitation, HoldsJoinRequest
<1>4. LocksAreExclusive'
  BY DEF TypeOK, LocksAreExclusive, HoldsInvitation, HoldsJoinRequest
<1>5. OneAccountPerEmail'
  BY DEF TypeOK, RowsAreWhole, TransactionsKeepTheirGround, OneAccountPerEmail, EmailTaken
<1>6. OneOpenInvitationPerEmail'
  BY DEF TypeOK, RowsAreWhole, TransactionsKeepTheirGround, OneOpenInvitationPerEmail
<1>7. AcceptedInvitationMadeOneAccount'
  BY DEF TypeOK, RowsAreWhole, TransactionsKeepTheirGround, AcceptedInvitationMadeOneAccount
<1>8. MembersWereAdmitted'
  BY DEF TypeOK, RowsAreWhole, TransactionsKeepTheirGround, MembersWereAdmitted
<1>9. ApprovedRequestersAreIn'
  BY DEF TypeOK, RowsAreWhole, TransactionsKeepTheirGround, ApprovedRequestersAreIn
<1>10. OnePendingRequestPerAccount'  BY DEF TypeOK, TransactionsKeepTheirGround, OnePendingRequestPerAccount
<1> QED  BY <1>1, <1>2, <1>3, <1>4, <1>5, <1>6, <1>7, <1>8, <1>9, <1>10 DEF IInv

LEMMA AbortKeepsIInv ==
  ASSUME IInv, NEW r \in Requests, Abort(r)
  PROVE  IInv'
BY RollbackKeepsIInv DEF Abort

LEMMA NextKeepsIInv == IInv /\ [Next]_vars => IInv'
<1> SUFFICES ASSUME IInv, [Next]_vars PROVE IInv'  OBVIOUS
<1>1. CASE UNCHANGED vars
  <2>1. UNCHANGED <<users, invitations, joins, req>>  BY <1>1 DEF vars
  <2>2. TypeOK'  BY <2>1 DEF IInv, TypeOK
  <2>3. TransactionsKeepTheirGround'
    BY <2>1 DEF IInv, TransactionsKeepTheirGround, EmailTaken
  <2>4. LocksAreExclusive'
    BY <2>1 DEF IInv, LocksAreExclusive, HoldsInvitation, HoldsJoinRequest
  <2> QED  BY <2>1, <2>2, <2>3, <2>4, UnchangedTables DEF IInv
<1>2. CASE \E u \in UserIds : Deactivate(u)
  BY <1>2, DeactivateKeepsIInv
<1>3. CASE \E u \in UserIds, e \in Emails : CreateUser(u, e)
  BY <1>3, CreateUserKeepsIInv
<1>4. CASE \E i \in Invitations, e \in Emails : CreateInvitation(i, e)
  BY <1>4, CreateInvitationKeepsIInv
<1>5. CASE \E i \in Invitations : Expire(i) \/ RevokeInvitation(i)
  BY <1>5, ExpireKeepsIInv, RevokeInvitationKeepsIInv
<1>6. CASE \E u \in UserIds, j \in JoinRequests : CreateJoinRequest(u, j)
  BY <1>6, CreateJoinRequestKeepsIInv
<1>7. CASE \E j \in JoinRequests : RejectJoinRequest(j)
  BY <1>7, RejectJoinRequestKeepsIInv
<1>8. CASE \E r \in Requests, i \in Invitations, u \in UserIds \cup {None} : BeginAccept(r, i, u)
  BY <1>8, BeginAcceptKeepsIInv
<1>9. CASE \E r \in Requests, j \in JoinRequests : BeginDecide(r, j)
  BY <1>9, BeginDecideKeepsIInv
<1>10. ASSUME NEW r \in Requests, AcceptStatement(r) PROVE IInv'
  <2>1. CASE LockOpenInvitation(r)  BY <2>1, LockOpenInvitationKeepsIInv
  <2>2. CASE CreateInvitedUser(r)  BY <2>2, CreateInvitedUserKeepsIInv
  <2>3. CASE InvitedEmailConflict(r)  BY <2>3, RollbackKeepsIInv DEF InvitedEmailConflict
  <2>4. CASE MarkInvitationAccepted(r)  BY <2>4, MarkInvitationAcceptedKeepsIInv
  <2>5. CASE CommitAccept(r)  BY <2>5, CommitAcceptKeepsIInv
  <2> QED  BY <1>10, <2>1, <2>2, <2>3, <2>4, <2>5 DEF AcceptStatement
<1>11. ASSUME NEW r \in Requests, DecideStatement(r) PROVE IInv'
  BY <1>11, DecideJoinRequestKeepsIInv, PromoteOutsiderKeepsIInv, CommitDecisionKeepsIInv
  DEF DecideStatement
<1>12. ASSUME NEW r \in Requests, Abort(r) PROVE IInv'
  BY <1>12, AbortKeepsIInv
<1> QED
  BY <1>1, <1>2, <1>3, <1>4, <1>5, <1>6, <1>7, <1>8, <1>9, <1>10, <1>11, <1>12 DEF Next

(***************************************************************************)
(* The invariants of the specification.                                    *)
(***************************************************************************)
\* Every reachable state satisfies the inductive invariant.
THEOREM Invariance == Spec => []IInv
<1>1. Init => IInv  BY InitIInv
<1>2. IInv /\ [Next]_vars => IInv'  BY NextKeepsIInv
<1> QED  BY <1>1, <1>2, PTL DEF Spec

\* Every column keeps its type.
THEOREM TypeCorrectness == Spec => []TypeOK
<1>1. IInv => TypeOK  BY DEF IInv
<1> QED  BY <1>1, Invariance, PTL

\* However many sign-ups and acceptances run at once, an address has at most
\* one active account.
THEOREM AccountsAreUnique == Spec => []OneAccountPerEmail
<1>1. IInv => OneAccountPerEmail  BY DEF IInv
<1> QED  BY <1>1, Invariance, PTL

\* An address has at most one open invitation.
THEOREM InvitationsAreUnique == Spec => []OneOpenInvitationPerEmail
<1>1. IInv => OneOpenInvitationPerEmail  BY DEF IInv
<1> QED  BY <1>1, Invariance, PTL

\* A transaction that holds a row is in nobody's way for its next statement:
\* it waits, if at all, for its first lock, so waiting is never circular.
THEOREM WaitingIsShallow == Spec => []WaitersHoldNothing
<1>1. ASSUME IInv, NEW r \in Requests, NEW s \in Requests,
             req[r].pc = "locked", HoldsEmail(s, invEmail[req[r].inv])
      PROVE  FALSE
  \* Both hold an open invitation of one address: the same one, held once.
  <2>1. r # s  BY <1>1 DEF HoldsEmail
  <2>2. /\ req[r].inv \in Invitations /\ invState[req[r].inv] = "open"
        /\ req[s].inv \in Invitations /\ invState[req[s].inv] = "open"
    BY <1>1 DEF IInv, TransactionsKeepTheirGround, HoldsEmail
  <2>3. req[r].inv = req[s].inv
    BY <1>1, <2>2 DEF IInv, OneOpenInvitationPerEmail, HoldsEmail
  <2> QED  BY <1>1, <2>1, <2>2, <2>3 DEF IInv, LocksAreExclusive, HoldsInvitation, HoldsEmail
<1>2. ASSUME IInv, NEW r \in Requests, NEW s \in Requests,
             req[r].pc = "decided", HoldsAccount(s, requester[req[r].jr])
      PROVE  FALSE
  \* Both hold a pending request of one account: the same one, held once.
  <2>1. r # s  BY <1>2 DEF HoldsAccount
  <2>2. /\ req[r].jr \in JoinRequests /\ jrState[req[r].jr] = "pending"
        /\ req[s].jr \in JoinRequests /\ jrState[req[s].jr] = "pending"
        /\ requester[req[r].jr] \in UserIds
    BY <1>2 DEF IInv, TypeOK, RowsAreWhole, TransactionsKeepTheirGround, HoldsAccount
  <2>3. req[r].jr = req[s].jr
    BY <1>2, <2>2 DEF IInv, TransactionsKeepTheirGround, OnePendingRequestPerAccount, HoldsAccount
  <2> QED  BY <1>2, <2>1, <2>2, <2>3 DEF IInv, LocksAreExclusive, HoldsJoinRequest, HoldsAccount
<1>3. IInv => WaitersHoldNothing  BY <1>1, <1>2 DEF WaitersHoldNothing
<1> QED  BY <1>3, Invariance, PTL

\* An invitation makes at most one account, with its own address.
THEOREM AcceptanceIsExact == Spec => []AcceptedInvitationMadeOneAccount
<1>1. IInv => AcceptedInvitationMadeOneAccount  BY DEF IInv
<1> QED  BY <1>1, Invariance, PTL

\* Nobody is a member without an accepted invitation or an approved request,
\* and every approved requester is in.
THEOREM AdmissionIsDecided == Spec => [](MembersWereAdmitted /\ ApprovedRequestersAreIn)
<1>1. IInv => MembersWereAdmitted /\ ApprovedRequestersAreIn  BY DEF IInv
<1> QED  BY <1>1, Invariance, PTL

\* Nobody has an approved request and is not in: the decision and the
\* promotion are one transaction (store/join_requests.go).
THEOREM ApprovalIsWhole == Spec => []ApprovedRequestersAreIn
<1>1. IInv => ApprovedRequestersAreIn  BY DEF IInv
<1> QED  BY <1>1, Invariance, PTL

(***************************************************************************)
(* What a step may never do.                                               *)
(***************************************************************************)
\* The actions that write a table; the others only move a transaction on.
LEMMA TableWriters ==
  Next => \/ UNCHANGED <<users, invitations, joins>>
          \/ \E u \in UserIds : Deactivate(u)
          \/ \E u \in UserIds, e \in Emails : CreateUser(u, e)
          \/ \E i \in Invitations, e \in Emails : CreateInvitation(i, e)
          \/ \E i \in Invitations : Expire(i) \/ RevokeInvitation(i)
          \/ \E u \in UserIds, j \in JoinRequests : CreateJoinRequest(u, j)
          \/ \E j \in JoinRequests : RejectJoinRequest(j)
          \/ \E r \in Requests : CommitAccept(r) \/ CommitDecision(r)
<1> DEFINE Still == UNCHANGED <<users, invitations, joins>>
<1>1. ASSUME NEW r \in Requests, NEW i \in Invitations, NEW u \in UserIds \cup {None},
             BeginAccept(r, i, u)
      PROVE  Still
  BY <1>1 DEF BeginAccept
<1>2. ASSUME NEW r \in Requests, NEW j \in JoinRequests, BeginDecide(r, j)
      PROVE  Still
  BY <1>2 DEF BeginDecide
<1>3. ASSUME NEW r \in Requests, AcceptStatement(r), ~CommitAccept(r)
      PROVE  Still
  BY <1>3 DEF AcceptStatement, LockOpenInvitation, CreateInvitedUser,
              InvitedEmailConflict, MarkInvitationAccepted
<1>4. ASSUME NEW r \in Requests, DecideStatement(r), ~CommitDecision(r)
      PROVE  Still
  BY <1>4 DEF DecideStatement, DecideJoinRequest, PromoteOutsider
<1>5. ASSUME NEW r \in Requests, Abort(r) PROVE Still
  BY <1>5 DEF Abort
<1> HIDE DEF Still
<1> QED  BY <1>1, <1>2, <1>3, <1>4, <1>5 DEF Next, Still

LEMMA StepKeepsDecisions == ASSUME IInv, Next PROVE KeepsDecisions
<1> USE DEF IInv, TypeOK, KeepsDecisions
<1>1. CASE UNCHANGED <<users, invitations, joins>>  BY <1>1
<1>2. ASSUME NEW u \in UserIds, Deactivate(u) PROVE KeepsDecisions
  BY <1>2 DEF Deactivate
<1>3. ASSUME NEW u \in UserIds, NEW e \in Emails, CreateUser(u, e) PROVE KeepsDecisions
  BY <1>3 DEF CreateUser
<1>4. ASSUME NEW i \in Invitations, NEW e \in Emails, CreateInvitation(i, e)
      PROVE  KeepsDecisions
  BY <1>4 DEF CreateInvitation
<1>5. ASSUME NEW i \in Invitations, Expire(i) \/ RevokeInvitation(i) PROVE KeepsDecisions
  BY <1>5 DEF Expire, RevokeInvitation
<1>6. ASSUME NEW u \in UserIds, NEW j \in JoinRequests, CreateJoinRequest(u, j)
      PROVE  KeepsDecisions
  BY <1>6 DEF CreateJoinRequest
<1>7. ASSUME NEW j \in JoinRequests, RejectJoinRequest(j) PROVE KeepsDecisions
  BY <1>7 DEF RejectJoinRequest
<1>8. ASSUME NEW r \in Requests, CommitAccept(r) PROVE KeepsDecisions
  BY <1>8 DEF CommitAccept, TransactionsKeepTheirGround
<1>9. ASSUME NEW r \in Requests, CommitDecision(r) PROVE KeepsDecisions
  BY <1>9 DEF CommitDecision, TransactionsKeepTheirGround
<1> HIDE DEF IInv, TypeOK, KeepsDecisions
<1> QED  BY TableWriters, <1>1, <1>2, <1>3, <1>4, <1>5, <1>6, <1>7, <1>8, <1>9

\* Accepted, revoked, approved and rejected are for ever.
THEOREM DecisionsStand == Spec => DecisionsAreFinal
<1>1. IInv /\ [Next]_vars => [KeepsDecisions]_vars  BY StepKeepsDecisions
<1> QED  BY <1>1, Invariance, PTL DEF Spec, DecisionsAreFinal

LEMMA StepRaisesRoles == ASSUME IInv, Next PROVE RaisesRoles
<1> USE DEF IInv, TypeOK, RaisesRoles
<1>1. CASE UNCHANGED role  BY <1>1
<1>2. ASSUME NEW u \in UserIds, NEW e \in Emails, CreateUser(u, e) PROVE RaisesRoles
  BY <1>2 DEF CreateUser, FreshUserId
<1>3. ASSUME NEW r \in Requests, CommitAccept(r) PROVE RaisesRoles
  BY <1>3 DEF CommitAccept, TransactionsKeepTheirGround
<1>4. ASSUME NEW r \in Requests, CommitDecision(r) PROVE RaisesRoles
  BY <1>4 DEF CommitDecision, TransactionsKeepTheirGround
<1> HIDE DEF IInv, TypeOK, RaisesRoles
<1>5. \/ UNCHANGED role
      \/ \E u \in UserIds, e \in Emails : CreateUser(u, e)
      \/ \E r \in Requests : CommitAccept(r) \/ CommitDecision(r)
  BY TableWriters DEF Deactivate, CreateInvitation, Expire, RevokeInvitation,
                      CreateJoinRequest, RejectJoinRequest
<1> QED  BY <1>1, <1>2, <1>3, <1>4, <1>5

\* Nobody is demoted, and nobody becomes an admin.
THEOREM RolesRise == Spec => RolesOnlyRise
<1>1. IInv /\ [Next]_vars => [RaisesRoles]_vars  BY StepRaisesRoles
<1> QED  BY <1>1, Invariance, PTL DEF Spec, RolesOnlyRise

(***************************************************************************)
(* The transactions implement the door: a step that writes the tables is a *)
(* step of Admission, every other step is invisible to it.                 *)
(***************************************************************************)
LEMMA InitImplementsAdmission == Init => Door!Init
BY DEF Init, Door!Init

LEMMA StepImplementsAdmission ==
  ASSUME IInv, Next
  PROVE  [Door!Next]_<<Door!accounts, Door!tickets, Door!asks>>
<1> DEFINE Visible == <<Door!accounts, Door!tickets, Door!asks>>
<1> USE DEF IInv, TypeOK, Door!accounts, Door!tickets, Door!asks
<1>1. ASSUME UNCHANGED <<users, invitations, joins>> PROVE UNCHANGED Visible
  BY <1>1
<1>2. ASSUME NEW u \in UserIds, Deactivate(u) PROVE Door!Leave(u)
  BY <1>2 DEF Deactivate, Door!Leave
<1>3. ASSUME NEW u \in UserIds, NEW e \in Emails, CreateUser(u, e) PROVE Door!SignUp(u, e)
  BY <1>3 DEF CreateUser, FreshUserId, EmailTaken, Door!SignUp, Door!NewAccount
<1>4. ASSUME NEW i \in Invitations, NEW e \in Emails, CreateInvitation(i, e)
      PROVE  Door!Invite(i, e)
  BY <1>4 DEF CreateInvitation, PendingInvitation, Door!Invite
<1>5. ASSUME NEW i \in Invitations, Expire(i) PROVE UNCHANGED Visible
  BY <1>5 DEF Expire
<1>6. ASSUME NEW i \in Invitations, RevokeInvitation(i) PROVE Door!Revoke(i)
  BY <1>6 DEF RevokeInvitation, Door!Revoke
<1>7. ASSUME NEW u \in UserIds, NEW j \in JoinRequests, CreateJoinRequest(u, j)
      PROVE  Door!Ask(u, j)
  BY <1>7 DEF CreateJoinRequest, PendingJoinRequest, Door!Ask
<1>8. ASSUME NEW j \in JoinRequests, RejectJoinRequest(j) PROVE Door!Reject(j)
  BY <1>8 DEF RejectJoinRequest, Door!Reject
<1>9. ASSUME NEW r \in Requests, CommitAccept(r)
      PROVE  \E i \in Invitations, u \in UserIds : Door!Accept(i, u)
  <2>1. req[r].inv \in Invitations /\ req[r].user \in UserIds
    BY <1>9 DEF CommitAccept, TransactionsKeepTheirGround
  <2>2. Door!Accept(req[r].inv, req[r].user)
    BY <1>9, <2>1 DEF CommitAccept, TransactionsKeepTheirGround, EmailTaken,
                      Door!Accept, Door!NewAccount
  <2> QED  BY <2>1, <2>2
<1>10. ASSUME NEW r \in Requests, CommitDecision(r)
       PROVE  \E j \in JoinRequests : Door!Approve(j)
  <2>1. req[r].jr \in JoinRequests
    BY <1>10 DEF CommitDecision, TransactionsKeepTheirGround
  <2>2. Door!Approve(req[r].jr)
    BY <1>10, <2>1 DEF CommitDecision, TransactionsKeepTheirGround, Door!Approve
  <2> QED  BY <2>1, <2>2
<1> HIDE DEF IInv, TypeOK, Door!accounts, Door!tickets, Door!asks, Visible
<1> QED
  BY TableWriters, <1>1, <1>2, <1>3, <1>4, <1>5, <1>6, <1>7, <1>8, <1>9, <1>10
  DEF Door!Next, Visible

\* What the clients see of Membership is a behaviour of Admission.
THEOREM Implementation == Spec => ImplementsAdmission
<1>1. IInv /\ [Next]_vars => [Door!Next]_<<Door!accounts, Door!tickets, Door!asks>>
  BY StepImplementsAdmission
     DEF vars, Door!accounts, Door!tickets, Door!asks
<1> QED
  BY <1>1, InitImplementsAdmission, Invariance, PTL
  DEF Spec, ImplementsAdmission, Door!Spec
=============================================================================
