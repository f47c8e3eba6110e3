--------------------------- MODULE AccountsProofs ---------------------------
(***************************************************************************)
(* Proofs about Accounts: the tables keep their keys, an organization       *)
(* without an ADMIN stays so however requests interleave, and what holds    *)
(* while one request runs at a time.                                        *)
(***************************************************************************)
EXTENDS Accounts, FiniteSetTheorems, TLAPS

Tables == <<users, sessions, tokens, invitations>>

(***************************************************************************)
(* Type correctness                                                        *)
(***************************************************************************)

\* Handler r goes on to a step it has the locals of.
GoesOn(r) ==
    /\ Goto(r, req'[r])
    /\ req'[r] \in RequestState
    /\ Named(req'[r])
    /\ UNCHANGED Tables

LEMMA GoesOnTypeOK ==
  ASSUME TypeOK, NEW r \in Request, GoesOn(r)
  PROVE  TypeOK'
<1>1. /\ req' \in [Request -> RequestState]
      /\ \A q \in Request : q # r => req'[q] = req[q]
  BY DEF TypeOK, Goto, GoesOn
<1>2. \A q \in Request : Named(req[q])'
  BY <1>1 DEF TypeOK, Named, Tables, GoesOn
<1>3. UsersOK' /\ SessionsOK' /\ TokensOK' /\ InvitationsOK'
  BY DEF TypeOK, Tables, GoesOn, UsersOK, SessionsOK, TokensOK, InvitationsOK
<1>. QED
  BY <1>1, <1>2, <1>3 DEF TypeOK

\* A handler that ends, with a table changed.
LEMMA GotoReq ==
  ASSUME TypeOK, NEW r \in Request, NEW state \in RequestState,
         state.at \in {"idle", "issue"}, Goto(r, state), DOMAIN invitations \subseteq DOMAIN invitations'
  PROVE  req' \in [Request -> RequestState] /\ \A q \in Request : Named(req[q])'
<1>1. /\ req' \in [Request -> RequestState]
      /\ \A q \in Request : req'[q] = IF q = r THEN state ELSE req[q]
  BY DEF TypeOK, Goto
<1>. QED
  BY <1>1 DEF TypeOK, Named

LEMMA IdleState == Idle \in RequestState /\ Named(Idle) /\ Idle.at = "idle"
BY DEF Idle, RequestState, Named

\* The users after an insertion.
LEMMA InsertOK ==
  ASSUME TypeOK, NEW u \in User \ DOMAIN users, NEW row \in UserRow, Insert(u, row)
  PROVE  UsersOK' /\ DOMAIN users \subseteq DOMAIN users' /\ u \in DOMAIN users'
BY DEF TypeOK, UsersOK, Insert, WithRow, MembersOf

\* Rows whose users and senders are still there.
LEMMA UsersGrow ==
  ASSUME TypeOK, DOMAIN users \subseteq DOMAIN users'
  PROVE  /\ UNCHANGED sessions => SessionsOK'
         /\ UNCHANGED tokens => TokensOK'
         /\ UNCHANGED invitations => InvitationsOK'
BY DEF TypeOK, SessionsOK, TokensOK, InvitationsOK

LEMMA InitTypeOK == Init => TypeOK
<1>. SUFFICES ASSUME Init PROVE TypeOK
  OBVIOUS
<1>1. DOMAIN NoRows = {} /\ \A S : NoRows \in [DOMAIN NoRows -> S]
  BY DEF NoRows
<1>2. UsersOK /\ SessionsOK /\ TokensOK /\ InvitationsOK
  BY <1>1 DEF Init, UsersOK, SessionsOK, TokensOK, InvitationsOK
<1>. QED
  BY <1>2, IdleState DEF Init, TypeOK

LEMMA BeginPublicGoesOn ==
  ASSUME TypeOK, NEW r \in Request, BeginPublic(r)
  PROVE  GoesOn(r)
<1>. USE DEF GoesOn, Goto, RequestState, Named, Tables, TypeOK
<1>1. ASSUME NEW e \in Email, NEW password \in Password, Signup(r, e, password)
      PROVE  GoesOn(r)
  BY <1>1 DEF Signup, OrgRole, InvitationsOK
<1>2. ASSUME NEW e \in Email, Google(r, e) PROVE GoesOn(r)
  BY <1>2 DEF Google, OrgRole, UsersOK, UserRow, WithEmail
<1>3. ASSUME NEW u \in DOMAIN users, Login(r, u) \/ Forgot(r, u) PROVE GoesOn(r)
  BY <1>3 DEF Login, Forgot, UsersOK, UserRow
<1>4. ASSUME NEW t \in DOMAIN tokens, NEW password \in Password, Reset(r, t, password)
      PROVE  GoesOn(r)
  BY <1>4 DEF Reset, TokensOK, TokenRow
<1>. QED
  BY <1>1, <1>2, <1>3, <1>4 DEF BeginPublic

LEMMA BeginGuardedGoesOn ==
  ASSUME TypeOK, NEW r \in Request, NEW s \in DOMAIN sessions, BeginGuarded(r, s)
  PROVE  GoesOn(r)
<1>1. /\ s \in Session /\ sessions[s].user \in User /\ OrgOf(s) \in Org
      /\ users[sessions[s].user].email \in Email
  BY DEF TypeOK, UsersOK, SessionsOK, SessionRow, UserRow, OrgOf
<1>2. /\ DOMAIN users \subseteq User /\ DOMAIN invitations \subseteq Invitation
      /\ DOMAIN sessions \subseteq Session
  BY DEF TypeOK, UsersOK, SessionsOK, InvitationsOK
<1>. USE <1>1, <1>2 DEF GoesOn, Goto, RequestState, Named, Tables, TypeOK
<1>3. ASSUME NEW scope \in {Session} \cup {{x} : x \in DOMAIN sessions},
             Logout(r, s, scope)
      PROVE  GoesOn(r)
  BY <1>3 DEF Logout
<1>4. ASSUME NEW password \in Password, ChangePassword(r, s, password) PROVE GoesOn(r)
  BY <1>4 DEF ChangePassword
<1>5. ASSUME NEW target \in DOMAIN users, NEW role \in OrgRole,
             UpdateMemberRole(r, s, target, role)
      PROVE  GoesOn(r)
  BY <1>5 DEF UpdateMemberRole
<1>6. ASSUME NEW target \in DOMAIN users, RemoveMember(r, s, target) PROVE GoesOn(r)
  BY <1>6 DEF RemoveMember
<1>7. ASSUME NEW e \in Email, NEW role \in OrgRole, Invite(r, s, e, role) PROVE GoesOn(r)
  BY <1>7 DEF Invite
<1>8. ASSUME NEW i \in DOMAIN invitations, RevokeInvitation(r, s, i) \/ Accept(r, s, i)
      PROVE  GoesOn(r)
  BY <1>8 DEF RevokeInvitation, Accept
<1>. QED
  BY <1>3, <1>4, <1>5, <1>6, <1>7, <1>8 DEF BeginGuarded

\* The steps that only check.
Checks(r) ==
    \/ SignupInvitation(r) \/ ChangePasswordRead(r)
    \/ RoleFind(r) \/ RoleCount(r) \/ RoleAudit(r)
    \/ RemoveFind(r) \/ RemoveCount(r)
    \/ InviteUser(r) \/ InviteActive(r)
    \/ RevokeFind(r) \/ AcceptFind(r)
    \/ Fail(r)

LEMMA ChecksGoesOn ==
  ASSUME TypeOK, NEW r \in Request, Checks(r)
  PROVE  GoesOn(r)
<1>0. req \in [Request -> RequestState] /\ req[r] \in RequestState /\ Named(req[r])
  BY DEF TypeOK
<1>. USE <1>0 DEF GoesOn, Step, StepIf, Goto, Finish, Idle, RequestState, Named, Tables
<1>1. CASE SignupInvitation(r)
  BY <1>1 DEF SignupInvitation
<1>2. CASE ChangePasswordRead(r)
  BY <1>2 DEF ChangePasswordRead
<1>3. CASE RoleFind(r) \/ RoleCount(r) \/ RoleAudit(r)
  BY <1>3 DEF RoleFind, RoleCount, RoleAudit
<1>4. CASE RemoveFind(r) \/ RemoveCount(r)
  BY <1>4 DEF RemoveFind, RemoveCount
<1>5. CASE InviteUser(r) \/ InviteActive(r)
  BY <1>5 DEF InviteUser, InviteActive
<1>6. CASE RevokeFind(r) \/ AcceptFind(r)
  BY <1>6 DEF RevokeFind, AcceptFind
<1>7. CASE Fail(r)
  BY <1>7 DEF Fail
<1>. QED
  BY <1>1, <1>2, <1>3, <1>4, <1>5, <1>6, <1>7 DEF Checks

\* The steps that write.
Writes(r) ==
    \/ \E u \in FreshUser : SignupCommit(r, u)
    \/ \E u \in FreshUser, o \in FreshOrg : Found(r, u, o)
    \/ \E s \in FreshSession : Issue(r, s)
    \/ LogoutCommit(r)
    \/ \E t \in FreshToken : ForgotCommit(r, t)
    \/ ResetCommit(r)
    \/ ChangePasswordCommit(r)
    \/ RoleCommit(r)
    \/ RemoveCommit(r)
    \/ \E i \in FreshInvitation : InviteCommit(r, i)
    \/ RevokeCommit(r)
    \/ AcceptCommit(r)

\* Sessions after some have gone.
LEMMA KeepSessionsOK ==
  ASSUME TypeOK, DOMAIN users' = DOMAIN users, NEW S, sessions' = Keep(sessions, S)
  PROVE  SessionsOK'
BY DEF TypeOK, SessionsOK, Keep

LEMMA WritesTypeOK ==
  ASSUME TypeOK, NEW r \in Request, Writes(r)
  PROVE  TypeOK'
<1>0. req \in [Request -> RequestState] /\ req[r] \in RequestState /\ Named(req[r])
  BY DEF TypeOK
<1>. USE DEF Finish
<1>1. ASSUME NEW u \in FreshUser, SignupCommit(r, u) PROVE TypeOK'
  <2>. DEFINE i == req[r].invitation
              row == [org |-> invitations[i].org, email |-> req[r].email,
                      role |-> invitations[i].role, password |-> req[r].password]
              next == [at |-> "issue", user |-> u, role |-> invitations[i].role,
                       proof |-> req[r].password]
  <2>1. i \in DOMAIN invitations /\ req[r].email \in Email /\ req[r].password \in Password
    BY <1>0, <1>1 DEF SignupCommit, RequestState, Named
  <2>2. u \in User \ DOMAIN users /\ invitations[i] \in InvitationRow
    BY <2>1 DEF FreshUser, TypeOK, InvitationsOK
  <2>3. row \in UserRow /\ next \in RequestState /\ next.at = "issue"
    BY <2>1, <2>2 DEF UserRow, InvitationRow, RequestState, Named
  <2>4. Insert(u, row) /\ Goto(r, next)
        /\ invitations' = [invitations EXCEPT ![i].accepted = TRUE]
        /\ UNCHANGED <<sessions, tokens>>
    BY <1>1 DEF SignupCommit
  <2>. HIDE DEF row, next
  <2>5. UsersOK' /\ DOMAIN users \subseteq DOMAIN users'
    BY <2>2, <2>3, <2>4, InsertOK
  <2>6. InvitationsOK' /\ DOMAIN invitations' = DOMAIN invitations
    BY <2>1, <2>4, <2>5 DEF TypeOK, InvitationsOK, InvitationRow
  <2>7. req' \in [Request -> RequestState] /\ \A q \in Request : Named(req[q])'
    BY <2>3, <2>4, <2>6, GotoReq
  <2>. QED
    BY <2>4, <2>5, <2>6, <2>7, UsersGrow DEF TypeOK
<1>2. ASSUME NEW u \in FreshUser, NEW o \in FreshOrg, Found(r, u, o) PROVE TypeOK'
  <2>. DEFINE row == [org |-> o, email |-> req[r].email, role |-> req[r].role,
                      password |-> req[r].password]
              next == [at |-> "issue", user |-> u, role |-> req[r].role,
                       proof |-> req[r].password]
  <2>1. /\ req[r].email \in Email /\ req[r].role \in OrgRole
        /\ req[r].password \in Password \cup {NoPassword}
    BY <1>0, <1>2 DEF Found, RequestState
  <2>2. u \in User \ DOMAIN users /\ o \in Org
    BY DEF FreshUser, FreshOrg
  <2>3. row \in UserRow /\ next \in RequestState /\ next.at = "issue"
    BY <2>1, <2>2 DEF UserRow, RequestState, Named
  <2>4. Insert(u, row) /\ Goto(r, next) /\ UNCHANGED <<sessions, tokens, invitations>>
    BY <1>2 DEF Found
  <2>. HIDE DEF row, next
  <2>5. UsersOK' /\ DOMAIN users \subseteq DOMAIN users'
    BY <2>2, <2>3, <2>4, InsertOK
  <2>6. req' \in [Request -> RequestState] /\ \A q \in Request : Named(req[q])'
    BY <2>3, <2>4, GotoReq
  <2>. QED
    BY <2>4, <2>5, <2>6, UsersGrow DEF TypeOK
<1>3. ASSUME NEW s \in FreshSession, Issue(r, s) PROVE TypeOK'
  <2>. DEFINE row == [user |-> req[r].user, role |-> req[r].role, proof |-> req[r].proof]
  <2>1. row \in SessionRow /\ s \in Session
    BY <1>0, <1>3 DEF Issue, RequestState, FreshSession, SessionRow
  <2>2. row.user \in DOMAIN users
    BY <1>3 DEF Issue
  <2>3. sessions' = WithRow(sessions, s, row) /\ UNCHANGED users
    BY <1>3 DEF Issue
  <2>. HIDE DEF row
  <2>4. SessionsOK'
    BY <2>1, <2>2, <2>3 DEF TypeOK, SessionsOK, WithRow
  <2>. QED
    BY <1>3, <2>4, UsersGrow, GotoReq, IdleState DEF TypeOK, Issue, UsersOK
<1>4. CASE LogoutCommit(r)
  <2>. SessionsOK'
    BY <1>4, KeepSessionsOK DEF LogoutCommit
  <2>. QED
    BY <1>4, UsersGrow, GotoReq, IdleState DEF TypeOK, LogoutCommit, UsersOK
<1>5. ASSUME NEW t \in FreshToken, ForgotCommit(r, t) PROVE TypeOK'
  <2>. DEFINE row == [user |-> req[r].user, used |-> FALSE]
  <2>1. row \in TokenRow /\ t \in ResetToken /\ row.user \in DOMAIN users
    BY <1>0, <1>5 DEF ForgotCommit, RequestState, FreshToken, TokenRow
  <2>2. tokens' = WithRow(tokens, t, row) /\ UNCHANGED users
    BY <1>5 DEF ForgotCommit
  <2>. HIDE DEF row
  <2>3. TokensOK'
    BY <2>1, <2>2 DEF TypeOK, TokensOK, WithRow
  <2>. QED
    BY <1>5, <2>3, UsersGrow, GotoReq, IdleState DEF TypeOK, ForgotCommit, UsersOK
<1>6. CASE ResetCommit(r)
  <2>1. /\ req[r].user \in User /\ req[r].password \in Password
        /\ req[r].token \in DOMAIN tokens
    BY <1>0, <1>6 DEF ResetCommit, RequestState
  <2>2. UsersOK' /\ DOMAIN users' = DOMAIN users
    <3>1. users' = [users EXCEPT ![req[r].user].password = req[r].password]
      BY <1>6 DEF ResetCommit, SetPassword
    <3>2. CASE req[r].user \in DOMAIN users
      BY <2>1, <3>1, <3>2 DEF TypeOK, UsersOK, UserRow
    <3>3. CASE req[r].user \notin DOMAIN users
      <4>1. users = [u \in DOMAIN users |-> users[u]]
        BY DEF TypeOK, UsersOK
      <4>2. users' = users
        BY <3>1, <3>3, <4>1
      <4>. QED
        BY <4>2 DEF TypeOK, UsersOK
    <3>. QED
      BY <3>2, <3>3
  <2>3. SessionsOK'
    BY <1>6, <2>2, KeepSessionsOK DEF ResetCommit
  <2>4. TokensOK'
    BY <1>6, <2>1, <2>2 DEF ResetCommit, TypeOK, TokensOK, TokenRow
  <2>. QED
    BY <1>6, <2>2, <2>3, <2>4, UsersGrow, GotoReq, IdleState DEF TypeOK, ResetCommit
<1>7. CASE ChangePasswordCommit(r)
  <2>1. req[r].sub \in DOMAIN users /\ req[r].password \in Password
    BY <1>0, <1>7 DEF ChangePasswordCommit, RequestState
  <2>2. UsersOK' /\ DOMAIN users' = DOMAIN users
    BY <1>7, <2>1 DEF ChangePasswordCommit, SetPassword, TypeOK, UsersOK, UserRow
  <2>3. SessionsOK'
    <3>1. /\ DOMAIN sessions' \subseteq DOMAIN sessions
          /\ \A s \in DOMAIN sessions' : sessions'[s] \in
                {sessions[s], [sessions[s] EXCEPT !.proof = req[r].password]}
          /\ sessions' = [s \in DOMAIN sessions' |-> sessions'[s]]
      BY <1>7 DEF ChangePasswordCommit
    <3>2. \A s \in DOMAIN sessions :
             /\ sessions[s] \in SessionRow /\ sessions[s].user \in DOMAIN users
             /\ [sessions[s] EXCEPT !.proof = req[r].password] \in SessionRow
             /\ [sessions[s] EXCEPT !.proof = req[r].password].user = sessions[s].user
      BY <2>1 DEF TypeOK, SessionsOK, SessionRow
    <3>3. \A s \in DOMAIN sessions' :
             sessions'[s] \in SessionRow /\ sessions'[s].user \in DOMAIN users'
      BY <2>2, <3>1, <3>2
    <3>4. DOMAIN sessions' \subseteq Session
      BY <3>1 DEF TypeOK, SessionsOK
    <3>. QED
      BY <3>1, <3>3, <3>4 DEF SessionsOK
  <2>. QED
    BY <1>7, <2>2, <2>3, UsersGrow, GotoReq, IdleState DEF TypeOK, ChangePasswordCommit
<1>8. CASE RoleCommit(r)
  <2>1. req[r].target \in DOMAIN users /\ req[r].role \in OrgRole
    BY <1>0, <1>8 DEF RoleCommit, RequestState
  <2>2. UsersOK' /\ DOMAIN users' = DOMAIN users
    BY <1>8, <2>1 DEF RoleCommit, TypeOK, UsersOK, UserRow
  <2>. QED
    BY <1>8, <2>2, UsersGrow, GotoReq, IdleState DEF TypeOK, RoleCommit
<1>9. CASE RemoveCommit(r)
  <2>. DEFINE gone == req[r].target
  <2>1. UsersOK' /\ DOMAIN users' = DOMAIN users \ {gone}
    BY <1>9 DEF RemoveCommit, Keep, TypeOK, UsersOK
  <2>2. SessionsOK'
    BY <1>9, <2>1 DEF RemoveCommit, Keep, TypeOK, SessionsOK, SessionsOf
  <2>3. TokensOK'
    BY <1>9, <2>1 DEF RemoveCommit, Keep, TypeOK, TokensOK
  <2>4. InvitationsOK'
    BY <1>9, <2>1 DEF RemoveCommit, TypeOK, InvitationsOK
  <2>. QED
    BY <1>9, <2>1, <2>2, <2>3, <2>4, GotoReq, IdleState DEF TypeOK, RemoveCommit
<1>10. ASSUME NEW i \in FreshInvitation, InviteCommit(r, i) PROVE TypeOK'
  <2>. DEFINE row == [org |-> req[r].org, email |-> req[r].email, role |-> req[r].role,
                      by |-> req[r].sub, accepted |-> FALSE, revoked |-> FALSE,
                      expired |-> FALSE]
  <2>1. row \in InvitationRow /\ i \in Invitation /\ row.by \in DOMAIN users
    BY <1>0, <1>10 DEF InviteCommit, RequestState, FreshInvitation, InvitationRow
  <2>2. invitations' = WithRow(invitations, i, row) /\ UNCHANGED users
    BY <1>10 DEF InviteCommit
  <2>. HIDE DEF row
  <2>3. InvitationsOK' /\ DOMAIN invitations \subseteq DOMAIN invitations'
    BY <2>1, <2>2 DEF TypeOK, InvitationsOK, WithRow
  <2>. QED
    BY <1>10, <2>3, UsersGrow, GotoReq, IdleState DEF TypeOK, InviteCommit, UsersOK
<1>11. CASE RevokeCommit(r)
  <2>1. req[r].invitation \in DOMAIN invitations
    BY <1>0, <1>11 DEF RevokeCommit, Named
  <2>2. InvitationsOK' /\ DOMAIN invitations' = DOMAIN invitations
    BY <1>11, <2>1 DEF RevokeCommit, TypeOK, InvitationsOK, InvitationRow
  <2>. QED
    BY <1>11, <2>2, UsersGrow, GotoReq, IdleState DEF TypeOK, RevokeCommit, UsersOK
<1>12. CASE AcceptCommit(r)
  <2>1. req[r].invitation \in DOMAIN invitations /\ req[r].sub \in DOMAIN users
    BY <1>0, <1>12 DEF AcceptCommit, Named
  <2>2. invitations[req[r].invitation].role \in OrgRole
    BY <2>1 DEF TypeOK, InvitationsOK, InvitationRow
  <2>3. UsersOK' /\ DOMAIN users' = DOMAIN users
    BY <1>12, <2>1, <2>2 DEF AcceptCommit, TypeOK, UsersOK, UserRow
  <2>4. InvitationsOK' /\ DOMAIN invitations' = DOMAIN invitations
    BY <1>12, <2>1, <2>3 DEF AcceptCommit, TypeOK, InvitationsOK, InvitationRow
  <2>. QED
    BY <1>12, <2>3, <2>4, UsersGrow, GotoReq, IdleState DEF TypeOK, AcceptCommit
<1>. QED
  BY <1>1, <1>2, <1>3, <1>4, <1>5, <1>6, <1>7, <1>8, <1>9, <1>10, <1>11, <1>12 DEF Writes

\* The steps of Next, by what they do.
LEMMA Cases ==
  ASSUME Next
  PROVE  \/ \E r \in Request :
               \/ BeginPublic(r)
               \/ \E s \in DOMAIN sessions : BeginGuarded(r, s)
               \/ Checks(r)
               \/ Writes(r)
         \/ \E s \in DOMAIN sessions : SessionExpires(s)
         \/ \E i \in DOMAIN invitations : InvitationExpires(i)
BY DEF Next, ContinueAccount, ContinueMember, Checks, Writes

LEMMA NextTypeOK == TypeOK /\ [Next]_vars => TypeOK'
<1>. SUFFICES ASSUME TypeOK, [Next]_vars PROVE TypeOK'
  OBVIOUS
<1>1. CASE Next
  <2>1. ASSUME NEW s \in DOMAIN sessions, SessionExpires(s) PROVE TypeOK'
    <3>1. SessionsOK' /\ TokensOK' /\ InvitationsOK' /\ UsersOK'
      BY <2>1, UsersGrow, KeepSessionsOK DEF SessionExpires, TypeOK, UsersOK
    <3>. QED
      BY <2>1, <3>1 DEF TypeOK, SessionExpires, Named
  <2>2. ASSUME NEW i \in DOMAIN invitations, InvitationExpires(i) PROVE TypeOK'
    <3>1. InvitationsOK' /\ DOMAIN invitations' = DOMAIN invitations
      BY <2>2 DEF InvitationExpires, TypeOK, InvitationsOK, InvitationRow
    <3>. QED
      BY <2>2, <3>1, UsersGrow DEF TypeOK, InvitationExpires, Named, UsersOK
  <2>. QED
    BY <1>1, <2>1, <2>2, Cases, BeginPublicGoesOn, BeginGuardedGoesOn, ChecksGoesOn,
       GoesOnTypeOK, WritesTypeOK
<1>2. CASE UNCHANGED vars
  BY <1>2 DEF TypeOK, vars, UsersOK, SessionsOK, TokensOK, InvitationsOK, Named
<1>. QED
  BY <1>1, <1>2

\* Every table keeps its type and its keys, whatever the ids and requests are.
THEOREM TypeCorrect == Spec => []TypeOK
<1>. QED
  BY InitTypeOK, NextTypeOK, PTL DEF Spec

(***************************************************************************)
(* However requests interleave                                             *)
(***************************************************************************)

\* A handler's caller and target are of the handler's organization.
Belongs(state) ==
    /\ state.at \in {"accept.find", "accept.commit"} /\ state.sub \in DOMAIN users
       => users[state.sub].org = state.org
    /\ state.at = "accept.commit" => invitations[state.invitation].org = state.org
    /\ state.at \in {"role.count", "role.audit", "role.commit", "remove.count",
                     "remove.commit"} /\ state.target \in DOMAIN users
       => users[state.target].org = state.org

AllBelong == \A r \in Request : Belongs(req[r])

\* A fresh id is in no handler's hands.
LEMMA FreshUserUnnamed ==
  ASSUME TypeOK, NEW u \in FreshUser, NEW r \in Request
  PROVE  /\ u \in User \ DOMAIN users
         /\ req[r].at = "issue" => req[r].user # u
         /\ req[r].at \in {"accept.find", "accept.commit"} => req[r].sub # u
         /\ req[r].at \in {"role.find", "role.count", "role.audit", "role.commit",
                           "remove.find", "remove.count", "remove.commit"} => req[r].target # u
<1>1. req[r] \in RequestState /\ u \in User \ DOMAIN users
      /\ \A f \in DOMAIN req[r] : req[r][f] # u
  BY DEF TypeOK, FreshUser, Unnamed
<1>2. /\ req[r].at = "issue" => "user" \in DOMAIN req[r]
      /\ req[r].at \in {"accept.find", "accept.commit"} => "sub" \in DOMAIN req[r]
      /\ req[r].at \in {"role.find", "role.count", "role.audit", "role.commit",
                        "remove.find", "remove.count", "remove.commit"}
         => "target" \in DOMAIN req[r]
  BY <1>1 DEF RequestState
<1>. QED
  BY <1>1, <1>2

\* What a writing step leaves: the other handlers, where users belong, what
\* invitations are for and that they do not open again.
LEMMA WritesFrame ==
  ASSUME TypeOK, NEW r \in Request, Writes(r)
  PROVE  /\ \A q \in Request \ {r} : req'[q] = req[q]
         /\ req'[r].at \in {"idle", "issue"}
         /\ \A u \in DOMAIN users' : u \in DOMAIN users => users'[u].org = users[u].org
         /\ \A u \in DOMAIN users' : u \notin DOMAIN users => u \in FreshUser
         /\ \A i \in DOMAIN invitations :
               /\ i \in DOMAIN invitations'
               /\ invitations'[i].org = invitations[i].org
               /\ invitations'[i].email = invitations[i].email
               /\ invitations'[i].role = invitations[i].role
               /\ Open(i)' => Open(i)
<1>. DEFINE others == /\ \A q \in Request \ {r} : req'[q] = req[q]
                      /\ req'[r].at \in {"idle", "issue"}
            stay == \A u \in DOMAIN users' : u \in DOMAIN users => users'[u].org = users[u].org
            fresh == \A u \in DOMAIN users' : u \notin DOMAIN users => u \in FreshUser
            settled == \A i \in DOMAIN invitations :
                          /\ i \in DOMAIN invitations'
                          /\ invitations'[i].org = invitations[i].org
                          /\ invitations'[i].email = invitations[i].email
                          /\ invitations'[i].role = invitations[i].role
                          /\ Open(i)' => Open(i)
<1>0. req \in [Request -> RequestState]
  BY DEF TypeOK
<1>1. others
  <2>1. ASSUME NEW state, state.at \in {"idle", "issue"}, Goto(r, state) PROVE others
    BY <1>0, <2>1 DEF Goto
  <2>2. ASSUME NEW u, SignupCommit(r, u) PROVE others
    BY <2>1, <2>2 DEF SignupCommit
  <2>3. ASSUME NEW u, NEW o, Found(r, u, o) PROVE others
    BY <2>1, <2>3 DEF Found
  <2>4. CASE Finish(r)
    BY <2>1, <2>4, IdleState DEF Finish
  <2>. HIDE DEF others
  <2>. QED
    BY <2>2, <2>3, <2>4 DEF Writes, Issue, LogoutCommit, ForgotCommit, ResetCommit,
       ChangePasswordCommit, RoleCommit, RemoveCommit, InviteCommit, RevokeCommit, AcceptCommit
<1>2. ASSUME UNCHANGED users PROVE stay /\ fresh
  BY <1>2
<1>3. ASSUME UNCHANGED invitations PROVE settled
  BY <1>3 DEF Open, Pending
<1>4. ASSUME NEW u \in FreshUser, NEW row, Insert(u, row) PROVE stay /\ fresh
  BY <1>4 DEF Insert, WithRow, FreshUser
<1>5. ASSUME NEW u, NEW role, users' = [users EXCEPT ![u].role = role] PROVE stay /\ fresh
  BY <1>5 DEF TypeOK, UsersOK, UserRow
<1>6. ASSUME NEW u, NEW password, SetPassword(u, password) PROVE stay /\ fresh
  BY <1>6 DEF TypeOK, UsersOK, UserRow, SetPassword
<1>7. ASSUME NEW i, \/ invitations' = [invitations EXCEPT ![i].accepted = TRUE]
                    \/ invitations' = [invitations EXCEPT ![i].revoked = TRUE]
      PROVE  settled
  BY <1>7 DEF TypeOK, InvitationsOK, InvitationRow, Open, Pending
<1>8. ASSUME NEW i \in FreshInvitation, NEW row, invitations' = WithRow(invitations, i, row)
      PROVE  settled
  BY <1>8 DEF FreshInvitation, WithRow, Open, Pending
<1>9. ASSUME NEW S, users' = Keep(users, S) PROVE stay /\ fresh
  BY <1>9 DEF Keep
<1>. HIDE DEF others, stay, fresh, settled
<1>10. stay /\ fresh
  BY <1>2, <1>4, <1>5, <1>6, <1>9 DEF Writes, SignupCommit, Found, Issue, LogoutCommit,
     ForgotCommit, ResetCommit, ChangePasswordCommit, RoleCommit, RemoveCommit, InviteCommit,
     RevokeCommit, AcceptCommit
<1>11. settled
  BY <1>3, <1>7, <1>8 DEF Writes, SignupCommit, Found, Issue, LogoutCommit,
     ForgotCommit, ResetCommit, ChangePasswordCommit, RoleCommit, RemoveCommit, InviteCommit,
     RevokeCommit, AcceptCommit
<1>. QED
  BY <1>1, <1>10, <1>11 DEF others, stay, fresh, settled

LEMMA BelongsNext == TypeOK /\ AllBelong /\ [Next]_vars => AllBelong'
<1>. SUFFICES ASSUME TypeOK, AllBelong, [Next]_vars PROVE AllBelong'
  OBVIOUS
<1>0. req \in [Request -> RequestState]
  BY DEF TypeOK
<1>1. ASSUME NEW r \in Request, GoesOn(r), Belongs(req'[r]) PROVE AllBelong'
  BY <1>0, <1>1 DEF GoesOn, Goto, Tables, AllBelong, Belongs
<1>2. ASSUME NEW r \in Request, BeginPublic(r) PROVE AllBelong'
  <2>1. Belongs(req'[r])
    BY <1>0, <1>2 DEF BeginPublic, Signup, Google, Login, Forgot, Reset, Goto, Belongs
  <2>. QED
    BY <1>1, <1>2, <2>1, BeginPublicGoesOn
<1>3. ASSUME NEW r \in Request, NEW s \in DOMAIN sessions, BeginGuarded(r, s)
      PROVE  AllBelong'
  <2>1. Belongs(req'[r])
    BY <1>0, <1>3 DEF BeginGuarded, Logout, ChangePassword, UpdateMemberRole, RemoveMember,
       Invite, RevokeInvitation, Accept, Goto, Belongs, OrgOf
  <2>. QED
    BY <1>1, <1>3, <2>1, BeginGuardedGoesOn
<1>4. ASSUME NEW r \in Request, Checks(r) PROVE AllBelong'
  <2>. USE <1>0 DEF Step, StepIf, Goto, Finish, Idle, Belongs
  <2>0. Belongs(req[r]) /\ req[r] \in RequestState
    BY DEF AllBelong
  <2>1. CASE RoleFind(r) \/ RoleCount(r) \/ RoleAudit(r)
    <3>. Belongs(req'[r])
      BY <2>0, <2>1 DEF RoleFind, RoleCount, RoleAudit, MembersOf, RequestState
    <3>. QED
      BY <1>1, <1>4, ChecksGoesOn
  <2>2. CASE RemoveFind(r) \/ RemoveCount(r)
    <3>. Belongs(req'[r])
      BY <2>0, <2>2 DEF RemoveFind, RemoveCount, MembersOf, RequestState
    <3>. QED
      BY <1>1, <1>4, ChecksGoesOn
  <2>3. CASE AcceptFind(r)
    <3>. Belongs(req'[r])
      BY <2>0, <2>3 DEF AcceptFind, OpenFor, RequestState
    <3>. QED
      BY <1>1, <1>4, ChecksGoesOn
  <2>4. CASE \/ SignupInvitation(r) \/ ChangePasswordRead(r) \/ InviteUser(r)
             \/ InviteActive(r) \/ RevokeFind(r) \/ Fail(r)
    <3>. Belongs(req'[r])
      BY <2>0, <2>4 DEF SignupInvitation, ChangePasswordRead, InviteUser, InviteActive,
         RevokeFind, Fail, RequestState
    <3>. QED
      BY <1>1, <1>4, ChecksGoesOn
  <2>. QED
    BY <1>4, <2>1, <2>2, <2>3, <2>4 DEF Checks
<1>5. ASSUME NEW r \in Request, Writes(r) PROVE AllBelong'
  <2>1. ASSUME NEW q \in Request \ {r} PROVE Belongs(req[q])'
    <3>1. Belongs(req[q]) /\ Named(req[q]) /\ req'[q] = req[q]
      BY <1>5, WritesFrame DEF AllBelong, TypeOK
    <3>. QED
      BY <1>5, <3>1, WritesFrame, FreshUserUnnamed DEF Belongs, Named
  <2>2. Belongs(req[r])'
    BY <1>5, WritesFrame DEF Belongs
  <2>. QED
    BY <2>1, <2>2 DEF AllBelong
<1>6. ASSUME NEW s \in DOMAIN sessions, SessionExpires(s) PROVE AllBelong'
  BY <1>6 DEF SessionExpires, AllBelong, Belongs
<1>7. ASSUME NEW i \in DOMAIN invitations, InvitationExpires(i) PROVE AllBelong'
  <2>1. /\ UNCHANGED <<users, req>>
        /\ \A k \in DOMAIN invitations : invitations'[k].org = invitations[k].org
    BY <1>7 DEF InvitationExpires, TypeOK, InvitationsOK, InvitationRow
  <2>2. \A q \in Request : Named(req[q]) /\ Belongs(req[q])
    BY DEF TypeOK, AllBelong
  <2>. QED
    BY <2>1, <2>2 DEF AllBelong, Belongs, Named
<1>8. CASE UNCHANGED vars
  BY <1>8 DEF vars, AllBelong, Belongs
<1>. QED
  BY <1>2, <1>3, <1>4, <1>5, <1>6, <1>7, <1>8, Cases

\* A handler that goes on without gaining a role leaves the organization locked.
LEMMA LockedGoesOn ==
  ASSUME TypeOK, NEW o \in Org, Locked(o), NEW r \in Request, GoesOn(r),
         Powerless(o, req'[r])
  PROVE  Locked(o)'
<1>1. \A q \in Request : q # r => req'[q] = req[q]
  BY DEF TypeOK, GoesOn, Goto
<1>2. \A q \in Request : Powerless(o, req[q])'
  BY <1>1 DEF GoesOn, Tables, Locked, Powerless, MembersOf
<1>. QED
  BY <1>2 DEF GoesOn, Tables, Locked, MembersOf, AdminsOf, OrgOf, Open, Pending

LEMMA LockedBegins ==
  ASSUME TypeOK, NEW o \in Org, Locked(o), NEW r \in Request,
         \/ BeginPublic(r)
         \/ \E s \in DOMAIN sessions : BeginGuarded(r, s)
  PROVE  Locked(o)'
<1>0. req \in [Request -> RequestState] /\ AdminsOf(o) = {}
      /\ \A u \in DOMAIN users : users[u].role \in OrgRole
  BY DEF TypeOK, Locked, UsersOK, UserRow
<1>. USE <1>0 DEF Goto, Powerless
<1>1. CASE BeginPublic(r)
  <2>. Powerless(o, req'[r])
    BY <1>1 DEF BeginPublic, Signup, Google, Login, Forgot, Reset, AdminsOf, MembersOf
  <2>. QED
    BY <1>1, LockedGoesOn, BeginPublicGoesOn
<1>2. ASSUME NEW s \in DOMAIN sessions, BeginGuarded(r, s) PROVE Locked(o)'
  <2>1. sessions[s].role = "ADMIN" => OrgOf(s) # o
    BY DEF Locked
  <2>. Powerless(o, req'[r])
    BY <1>2, <2>1 DEF BeginGuarded, Logout, ChangePassword, UpdateMemberRole, RemoveMember,
       Invite, RevokeInvitation, Accept
  <2>. QED
    BY <1>2, LockedGoesOn, BeginGuardedGoesOn
<1>. QED
  BY <1>1, <1>2

LEMMA LockedChecks ==
  ASSUME TypeOK, NEW o \in Org, Locked(o), NEW r \in Request, Checks(r)
  PROVE  Locked(o)'
<1>0. /\ req \in [Request -> RequestState] /\ req[r] \in RequestState
      /\ Powerless(o, req[r]) /\ Named(req[r])
      /\ \A i \in DOMAIN invitations :
            invitations[i].org = o /\ Open(i) => invitations[i].role # "ADMIN"
  BY DEF TypeOK, Locked
<1>1. Powerless(o, req'[r])
  <2>. USE <1>0 DEF Step, StepIf, Goto, Finish, Idle, RequestState, Powerless
  <2>1. CASE SignupInvitation(r)
    BY <2>1 DEF SignupInvitation, Named
  <2>2. CASE AcceptFind(r)
    BY <2>2 DEF AcceptFind, OpenFor
  <2>3. CASE RoleFind(r) \/ RoleCount(r) \/ RoleAudit(r)
    BY <2>3 DEF RoleFind, RoleCount, RoleAudit
  <2>4. CASE RemoveFind(r) \/ RemoveCount(r)
    BY <2>4 DEF RemoveFind, RemoveCount
  <2>5. CASE InviteUser(r) \/ InviteActive(r)
    BY <2>5 DEF InviteUser, InviteActive
  <2>6. CASE ChangePasswordRead(r) \/ RevokeFind(r) \/ Fail(r)
    BY <2>6 DEF ChangePasswordRead, RevokeFind, Fail
  <2>. QED
    BY <2>1, <2>2, <2>3, <2>4, <2>5, <2>6 DEF Checks
<1>. QED
  BY <1>1, LockedGoesOn, ChecksGoesOn

\* What a writing step has to respect.
LEMMA LockedFrame ==
  ASSUME TypeOK, NEW o \in Org, Locked(o), NEW r \in Request, Writes(r),
         \E u \in MembersOf(o) : u \in DOMAIN users',
         \A u \in DOMAIN users' : users'[u].org = o => users'[u].role # "ADMIN",
         \A s \in DOMAIN sessions' :
             users'[sessions'[s].user].org = o => sessions'[s].role # "ADMIN",
         \A i \in DOMAIN invitations' :
             i \notin DOMAIN invitations /\ invitations'[i].org = o
                => invitations'[i].role # "ADMIN",
         req'[r].at = "issue" /\ req'[r].user \in DOMAIN users'
             /\ users'[req'[r].user].org = o => req'[r].role # "ADMIN"
  PROVE  Locked(o)'
<1>1. MembersOf(o)' # {} /\ AdminsOf(o)' = {}
  BY WritesFrame DEF MembersOf, AdminsOf
<1>2. \A s \in DOMAIN sessions' : OrgOf(s)' = o => sessions'[s].role # "ADMIN"
  BY DEF OrgOf
<1>3. \A i \in DOMAIN invitations' :
         invitations'[i].org = o /\ Open(i)' => invitations'[i].role # "ADMIN"
  BY WritesFrame DEF Locked
<1>4. ASSUME NEW q \in Request \ {r} PROVE Powerless(o, req[q])'
  <2>1. req'[q] = req[q] /\ Powerless(o, req[q]) /\ Named(req[q])
    BY WritesFrame DEF Locked, TypeOK
  <2>2. req[q].at = "issue" /\ req[q].user \in MembersOf(o)' => req[q].user \in MembersOf(o)
    BY WritesFrame, FreshUserUnnamed DEF MembersOf
  <2>. QED
    BY <2>1, <2>2, WritesFrame DEF Powerless, Named
<1>5. Powerless(o, req[r])'
  BY WritesFrame DEF Powerless, MembersOf
<1>. QED
  BY <1>1, <1>2, <1>3, <1>4, <1>5 DEF Locked

LEMMA LockedWrites ==
  ASSUME TypeOK, AllBelong, NEW o \in Org, Locked(o), NEW r \in Request, Writes(r)
  PROVE  Locked(o)'
<1>0. /\ req \in [Request -> RequestState] /\ req[r] \in RequestState
      /\ Powerless(o, req[r]) /\ Named(req[r]) /\ Belongs(req[r])
      /\ \E u \in DOMAIN users : users[u].org = o
      /\ \A u \in DOMAIN users : users[u].org = o => users[u].role # "ADMIN"
      /\ \A s \in DOMAIN sessions :
            users[sessions[s].user].org = o => sessions[s].role # "ADMIN"
      /\ \A s \in DOMAIN sessions : sessions[s].user \in DOMAIN users
  BY DEF TypeOK, Locked, AllBelong, MembersOf, AdminsOf, OrgOf, SessionsOK
<1>. DEFINE stays == \E u \in MembersOf(o) : u \in DOMAIN users'
            roles == \A u \in DOMAIN users' : users'[u].org = o => users'[u].role # "ADMIN"
            said == \A s \in DOMAIN sessions' :
                       users'[sessions'[s].user].org = o => sessions'[s].role # "ADMIN"
            asked == \A i \in DOMAIN invitations' :
                       i \notin DOMAIN invitations /\ invitations'[i].org = o
                          => invitations'[i].role # "ADMIN"
            issued == req'[r].at = "issue" /\ req'[r].user \in DOMAIN users'
                         /\ users'[req'[r].user].org = o => req'[r].role # "ADMIN"
<1>1. stays /\ roles /\ said /\ asked /\ issued => Locked(o)'
  BY LockedFrame
<1>2. ASSUME UNCHANGED users PROVE stays /\ roles
  BY <1>0, <1>2 DEF MembersOf
<1>3. ASSUME UNCHANGED sessions,
             \A u \in DOMAIN users : u \in DOMAIN users' /\ users'[u].org = users[u].org
      PROVE  said
  BY <1>0, <1>3
<1>4. ASSUME UNCHANGED invitations PROVE asked
  BY <1>4
<1>5. ASSUME Finish(r) PROVE issued
  BY <1>0, <1>5 DEF Finish, Goto, Idle
<1>6. ASSUME NEW S, sessions' = Keep(sessions, S),
             \A u \in DOMAIN users : u \in DOMAIN users' => users'[u].org = users[u].org,
             \A s \in DOMAIN sessions' : sessions'[s].user \in DOMAIN users'
      PROVE  said
  BY <1>0, <1>6 DEF Keep
<1>7. ASSUME NEW i, \/ invitations' = [invitations EXCEPT ![i].accepted = TRUE]
                    \/ invitations' = [invitations EXCEPT ![i].revoked = TRUE]
      PROVE  asked
  BY <1>7
<1>8. ASSUME NEW u, NEW password, SetPassword(u, password)
      PROVE  /\ stays /\ roles /\ DOMAIN users' = DOMAIN users
             /\ \A v \in DOMAIN users : users'[v].org = users[v].org
  BY <1>0, <1>8 DEF SetPassword, TypeOK, UsersOK, UserRow, MembersOf
<1>9. ASSUME NEW u \in DOMAIN users, NEW role, users' = [users EXCEPT ![u].role = role],
             users[u].org = o => role # "ADMIN"
      PROVE  /\ stays /\ roles /\ DOMAIN users' = DOMAIN users
             /\ \A v \in DOMAIN users : users'[v].org = users[v].org
  BY <1>0, <1>9 DEF TypeOK, UsersOK, UserRow, MembersOf
<1>10. ASSUME NEW u \in FreshUser, NEW row, Insert(u, row), UNCHANGED sessions,
              row.org = o => row.role # "ADMIN"
       PROVE  stays /\ roles /\ said /\ users'[u] = row
  BY <1>0, <1>10 DEF Insert, WithRow, FreshUser, MembersOf
<1>. HIDE DEF stays, roles, said, asked, issued
<1>11. ASSUME NEW u \in FreshUser, SignupCommit(r, u) PROVE Locked(o)'
  <2>. DEFINE i == req[r].invitation
              row == [org |-> invitations[i].org, email |-> req[r].email,
                      role |-> invitations[i].role, password |-> req[r].password]
              next == [at |-> "issue", user |-> u, role |-> invitations[i].role,
                       proof |-> req[r].password]
  <2>1. row.org = o => row.role # "ADMIN"
    BY <1>0, <1>11 DEF SignupCommit, Powerless
  <2>2. Insert(u, row) /\ UNCHANGED sessions
    BY <1>11 DEF SignupCommit
  <2>3. stays /\ roles /\ said /\ users'[u] = row
    BY <1>10, <2>1, <2>2
  <2>4. req'[r] = next
    BY <1>0, <1>11 DEF SignupCommit, Goto
  <2>5. issued
    BY <2>1, <2>3, <2>4 DEF issued
  <2>. QED
    BY <1>1, <1>7, <1>11, <2>3, <2>5 DEF SignupCommit
<1>12. ASSUME NEW u \in FreshUser, NEW p \in FreshOrg, Found(r, u, p) PROVE Locked(o)'
  <2>. DEFINE row == [org |-> p, email |-> req[r].email, role |-> req[r].role,
                      password |-> req[r].password]
              next == [at |-> "issue", user |-> u, role |-> req[r].role,
                       proof |-> req[r].password]
  <2>1. p # o
    BY <1>0 DEF FreshOrg, MembersOf
  <2>2. Insert(u, row) /\ UNCHANGED sessions
    BY <1>12 DEF Found
  <2>3. stays /\ roles /\ said /\ users'[u] = row
    BY <1>10, <2>1, <2>2
  <2>4. req'[r] = next
    BY <1>0, <1>12 DEF Found, Goto
  <2>5. issued
    BY <2>1, <2>3, <2>4 DEF issued
  <2>. QED
    BY <1>1, <1>4, <1>12, <2>3, <2>5 DEF Found
<1>13. ASSUME NEW s \in FreshSession, Issue(r, s) PROVE Locked(o)'
  <2>1. said
    BY <1>0, <1>13 DEF Issue, WithRow, Powerless, MembersOf, said
  <2>. QED
    BY <1>1, <1>2, <1>4, <1>5, <1>13, <2>1 DEF Issue
<1>14. CASE LogoutCommit(r)
  <2>1. said
    BY <1>0, <1>6, <1>14 DEF LogoutCommit, Keep
  <2>. QED
    BY <1>1, <1>2, <1>4, <1>5, <1>14, <2>1 DEF LogoutCommit
<1>15. ASSUME NEW t \in FreshToken, ForgotCommit(r, t) PROVE Locked(o)'
  BY <1>1, <1>2, <1>3, <1>4, <1>5, <1>15 DEF ForgotCommit
<1>16. CASE ResetCommit(r)
  <2>1. /\ stays /\ roles /\ DOMAIN users' = DOMAIN users
        /\ \A v \in DOMAIN users : users'[v].org = users[v].org
    BY <1>8, <1>16 DEF ResetCommit
  <2>2. said
    BY <1>0, <1>6, <1>16, <2>1 DEF ResetCommit, Keep
  <2>. QED
    BY <1>1, <1>4, <1>5, <1>16, <2>1, <2>2 DEF ResetCommit
<1>17. CASE ChangePasswordCommit(r)
  <2>1. /\ stays /\ roles /\ DOMAIN users' = DOMAIN users
        /\ \A v \in DOMAIN users : users'[v].org = users[v].org
    BY <1>8, <1>17 DEF ChangePasswordCommit
  <2>2. \A s \in DOMAIN sessions' :
           /\ s \in DOMAIN sessions
           /\ sessions'[s].user = sessions[s].user /\ sessions'[s].role = sessions[s].role
    BY <1>17 DEF ChangePasswordCommit, TypeOK, SessionsOK, SessionRow
  <2>3. said
    BY <1>0, <2>1, <2>2 DEF said
  <2>. QED
    BY <1>1, <1>4, <1>5, <1>17, <2>1, <2>3 DEF ChangePasswordCommit
<1>18. CASE RoleCommit(r)
  <2>1. req[r].target \in DOMAIN users
        /\ (users[req[r].target].org = o => req[r].role # "ADMIN")
    BY <1>0, <1>18 DEF RoleCommit, Powerless, Belongs
  <2>2. /\ stays /\ roles /\ DOMAIN users' = DOMAIN users
        /\ \A v \in DOMAIN users : users'[v].org = users[v].org
    BY <1>9, <1>18, <2>1 DEF RoleCommit
  <2>. QED
    BY <1>1, <1>3, <1>4, <1>5, <1>18, <2>2 DEF RoleCommit
<1>19. CASE RemoveCommit(r)
  <2>1. users[req[r].target].org # o
    BY <1>0, <1>19 DEF RemoveCommit, Powerless, Belongs
  <2>2. /\ DOMAIN users' = DOMAIN users \ {req[r].target}
        /\ \A v \in DOMAIN users' : users'[v] = users[v]
    BY <1>19 DEF RemoveCommit, Keep, TypeOK, UsersOK
  <2>3. stays /\ roles
    BY <1>0, <2>1, <2>2 DEF stays, roles, MembersOf
  <2>4. \A s \in DOMAIN sessions' : sessions'[s].user \in DOMAIN users'
    BY <1>19, WritesTypeOK DEF TypeOK, SessionsOK
  <2>5. said
    BY <1>6, <1>19, <2>2, <2>4 DEF RemoveCommit
  <2>. QED
    BY <1>1, <1>4, <1>5, <1>19, <2>3, <2>5 DEF RemoveCommit
<1>20. ASSUME NEW i \in FreshInvitation, InviteCommit(r, i) PROVE Locked(o)'
  <2>1. asked
    BY <1>0, <1>20 DEF InviteCommit, WithRow, Powerless, asked
  <2>. QED
    BY <1>1, <1>2, <1>3, <1>5, <1>20, <2>1 DEF InviteCommit
<1>21. CASE RevokeCommit(r)
  BY <1>1, <1>2, <1>3, <1>5, <1>7, <1>21 DEF RevokeCommit
<1>22. CASE AcceptCommit(r)
  <2>1. /\ req[r].sub \in DOMAIN users
        /\ users[req[r].sub].org = o => invitations[req[r].invitation].role # "ADMIN"
    BY <1>0, <1>22 DEF AcceptCommit, Powerless, Belongs
  <2>2. /\ stays /\ roles /\ DOMAIN users' = DOMAIN users
        /\ \A v \in DOMAIN users : users'[v].org = users[v].org
    BY <1>9, <1>22, <2>1 DEF AcceptCommit
  <2>. QED
    BY <1>1, <1>3, <1>5, <1>7, <1>22, <2>2 DEF AcceptCommit
<1>. QED
  BY <1>11, <1>12, <1>13, <1>14, <1>15, <1>16, <1>17, <1>18, <1>19, <1>20, <1>21, <1>22
     DEF Writes

LEMMA LockedNext ==
  ASSUME TypeOK, AllBelong, [Next]_vars
  PROVE  \A o \in Org : Locked(o) => Locked(o)'
<1>. SUFFICES ASSUME NEW o \in Org, Locked(o) PROVE Locked(o)'
  OBVIOUS
<1>1. ASSUME NEW s \in DOMAIN sessions, SessionExpires(s) PROVE Locked(o)'
  BY <1>1 DEF SessionExpires, Keep, Locked, Powerless, MembersOf, AdminsOf, OrgOf, Open, Pending
<1>2. ASSUME NEW i \in DOMAIN invitations, InvitationExpires(i) PROVE Locked(o)'
  <2>1. /\ UNCHANGED <<users, sessions, req>>
        /\ DOMAIN invitations' = DOMAIN invitations
        /\ \A k \in DOMAIN invitations :
              /\ invitations'[k].org = invitations[k].org
              /\ invitations'[k].role = invitations[k].role
              /\ Open(k)' => Open(k)
    BY <1>2 DEF InvitationExpires, TypeOK, InvitationsOK, InvitationRow, Open, Pending
  <2>2. \A q \in Request : Named(req[q]) /\ Powerless(o, req[q])
    BY DEF TypeOK, Locked
  <2>3. \A q \in Request : Powerless(o, req[q])'
    BY <2>1, <2>2 DEF Powerless, Named, MembersOf
  <2>. QED
    BY <2>1, <2>3 DEF Locked, MembersOf, AdminsOf, OrgOf
<1>3. CASE UNCHANGED vars
  BY <1>3 DEF vars, Locked, Powerless, MembersOf, AdminsOf, OrgOf, Open, Pending
<1>. QED
  BY <1>1, <1>2, <1>3, Cases, LockedBegins, LockedChecks, LockedWrites

\* OrganizationService and signup: however requests interleave, an organization
\* without an ADMIN, an open invitation or a token for one stays without.
THEOREM LockedStays == Spec => LockedStaysLocked
<1>1. Init => AllBelong
  BY DEF Init, Idle, AllBelong, Belongs
<1>2. TypeOK /\ AllBelong /\ [Next]_vars => (\A o \in Org : Locked(o) => Locked(o)')
  BY LockedNext
<1>. QED
  BY <1>1, <1>2, InitTypeOK, NextTypeOK, BelongsNext, PTL DEF Spec, LockedStaysLocked

(***************************************************************************)
(* One request at a time                                                   *)
(***************************************************************************)

OneEmail ==
    \A u \in DOMAIN users, v \in DOMAIN users : users[u].email = users[v].email => u = v

\* Somebody besides one member of a set that has more.
LEMMA AnotherAdmin ==
  ASSUME TypeOK, NEW o, Cardinality(AdminsOf(o)) > 1, NEW u
  PROVE  AdminsOf(o) \ {u} # {}
<1>1. IsFiniteSet(AdminsOf(o))
  <2>1. AdminsOf(o) \subseteq User
    BY DEF AdminsOf, MembersOf, TypeOK, UsersOK
  <2>. QED
    BY <2>1, AccountsAssumption, FS_Subset
<1>2. SUFFICES ASSUME AdminsOf(o) \ {u} = {} PROVE FALSE
  OBVIOUS
<1>3. CASE u \in AdminsOf(o)
  <2>1. AdminsOf(o) = {u}
    BY <1>2, <1>3
  <2>2. Cardinality({u}) = 1
    BY FS_Singleton
  <2>. HIDE DEF AdminsOf
  <2>. QED
    BY <2>1, <2>2
<1>4. CASE u \notin AdminsOf(o)
  <2>1. AdminsOf(o) = {}
    BY <1>2, <1>4
  <2>2. Cardinality({}) = 0
    BY FS_EmptySet
  <2>. QED
    BY <2>1, <2>2
<1>. QED
  BY <1>3, <1>4

LEMMA InitSerial == Init => SerialInv
BY DEF Init, NoRows, Idle, SerialInv, SessionsFollowPassword, InvitationsForStrangers,
   InvitationSettled, Holds

\* The only handler goes on.
LEMMA SerialGoesOn ==
  ASSUME OneRequest, TypeOK, SerialInv, NEW r \in Request, GoesOn(r), Holds(req'[r])
  PROVE  SerialInv'
<1>1. Request = {r}
  BY DEF OneRequest
<1>2. \A q \in Request : Holds(req[q])'
  BY <1>1 DEF GoesOn, Tables, Holds, WithEmail, Pending, OpenFor, Open, MembersOf, AdminsOf
<1>. QED
  BY <1>2 DEF GoesOn, Tables, SerialInv, SessionsFollowPassword, InvitationsForStrangers,
     InvitationSettled, OpenFor, Open, Pending, MembersOf, WithEmail

LEMMA SerialBegins ==
  ASSUME OneRequest, TypeOK, SerialInv, NEW r \in Request,
         \/ BeginPublic(r)
         \/ \E s \in DOMAIN sessions : BeginGuarded(r, s)
  PROVE  SerialInv'
<1>0. req \in [Request -> RequestState]
  BY DEF TypeOK
<1>. USE <1>0 DEF Goto, Holds
<1>1. CASE BeginPublic(r)
  <2>. Holds(req'[r])
    BY <1>1 DEF BeginPublic, Signup, Google, Login, Forgot, Reset, WithEmail
  <2>. QED
    BY <1>1, SerialGoesOn, BeginPublicGoesOn
<1>2. ASSUME NEW s \in DOMAIN sessions, BeginGuarded(r, s) PROVE SerialInv'
  <2>1. sessions[s].user \in DOMAIN users
    BY DEF TypeOK, SessionsOK
  <2>. Holds(req'[r])
    BY <1>2, <2>1 DEF BeginGuarded, Logout, ChangePassword, UpdateMemberRole, RemoveMember,
       Invite, RevokeInvitation, Accept, OrgOf, MembersOf, WithEmail
  <2>. QED
    BY <1>2, SerialGoesOn, BeginGuardedGoesOn
<1>. QED
  BY <1>1, <1>2

LEMMA SerialChecks ==
  ASSUME OneRequest, TypeOK, SerialInv, NEW r \in Request, Checks(r)
  PROVE  SerialInv'
<1>0. /\ req \in [Request -> RequestState] /\ req[r] \in RequestState
      /\ Holds(req[r]) /\ Named(req[r]) /\ InvitationsForStrangers
  BY DEF TypeOK, SerialInv
<1>1. Holds(req'[r])
  <2>. USE <1>0 DEF Step, StepIf, Goto, Finish, Idle, RequestState, Holds
  <2>1. CASE SignupInvitation(r)
    BY <2>1 DEF SignupInvitation, Named, Open, InvitationsForStrangers
  <2>2. CASE AcceptFind(r)
    <3>1. req[r].invitation \notin OpenFor(req[r].org, req[r].email)
      BY <2>2 DEF AcceptFind, OpenFor, InvitationsForStrangers
    <3>. QED
      BY <2>2, <3>1 DEF AcceptFind
  <2>3. CASE RoleFind(r) \/ RemoveFind(r)
    BY <2>3 DEF RoleFind, RemoveFind
  <2>4. CASE RoleCount(r) \/ RemoveCount(r)
    <3>1. \A o, u : u \in AdminsOf(o) => u \in MembersOf(o)
      BY DEF AdminsOf
    <3>2. \A o, u : Cardinality(AdminsOf(o)) > 1 => AdminsOf(o) \ {u} # {}
      BY AnotherAdmin
    <3>. QED
      BY <2>4, <3>1, <3>2 DEF RoleCount, RemoveCount
  <2>5. CASE RoleAudit(r)
    BY <2>5 DEF RoleAudit
  <2>6. CASE InviteUser(r) \/ InviteActive(r)
    BY <2>6 DEF InviteUser, InviteActive
  <2>7. CASE RevokeFind(r)
    BY <2>7 DEF RevokeFind
  <2>8. CASE ChangePasswordRead(r) \/ Fail(r)
    BY <2>8 DEF ChangePasswordRead, Fail
  <2>. QED
    BY <2>1, <2>2, <2>3, <2>4, <2>5, <2>6, <2>7, <2>8 DEF Checks
<1>. QED
  BY <1>1, SerialGoesOn, ChecksGoesOn

\* What is left to show for a step that writes: the tables, and a session that is
\* about to begin.
LEMMA SerialFrame ==
  ASSUME OneRequest, NEW r \in Request, Holds(req[r])',
         SessionsFollowPassword', InvitationsForStrangers', InvitationSettled', OneEmail'
  PROVE  SerialInv'
<1>1. Request = {r}
  BY DEF OneRequest
<1>. QED
  BY <1>1 DEF SerialInv, OneEmail

\* No e-mail or organization changes, and nobody comes.
LEMMA NobodyComes ==
  ASSUME TypeOK, SerialInv, DOMAIN users' \subseteq DOMAIN users,
         \A u \in DOMAIN users' : users'[u].org = users[u].org /\ users'[u].email = users[u].email
  PROVE  /\ OneEmail'
         /\ \A o, e : MembersOf(o)' \cap WithEmail(e)' \subseteq MembersOf(o) \cap WithEmail(e)
         /\ UNCHANGED invitations => InvitationsForStrangers' /\ InvitationSettled'
<1>1. OneEmail'
  BY DEF SerialInv, OneEmail
<1>2. \A o, e : MembersOf(o)' \cap WithEmail(e)' \subseteq MembersOf(o) \cap WithEmail(e)
  BY DEF MembersOf, WithEmail
<1>3. ASSUME UNCHANGED invitations PROVE InvitationsForStrangers' /\ InvitationSettled'
  <2>1. \A o, e : OpenFor(o, e)' = OpenFor(o, e)
    BY <1>3 DEF OpenFor, Open, Pending
  <2>2. \A i \in DOMAIN invitations : Open(i)' = Open(i)
    BY <1>3 DEF Open, Pending
  <2>. QED
    BY <1>2, <1>3, <2>1, <2>2 DEF SerialInv, InvitationsForStrangers, InvitationSettled
<1>. QED
  BY <1>1, <1>2, <1>3

\* Invitations only close.
LEMMA InvitationsClose ==
  ASSUME InvitationsForStrangers, DOMAIN invitations' = DOMAIN invitations,
         \A i \in DOMAIN invitations :
            /\ invitations'[i].org = invitations[i].org
            /\ invitations'[i].email = invitations[i].email
            /\ Open(i)' => Open(i)
            /\ Open(i)' => (MembersOf(invitations[i].org) \cap WithEmail(invitations[i].email))' = {}
  PROVE  InvitationsForStrangers'
<1>1. SUFFICES ASSUME NEW i \in DOMAIN invitations, Open(i)'
      PROVE  OpenFor(invitations[i].org, invitations[i].email)' = {i}
  BY DEF InvitationsForStrangers
<1>2. OpenFor(invitations[i].org, invitations[i].email) = {i}
  BY <1>1 DEF InvitationsForStrangers
<1>. QED
  BY <1>1, <1>2 DEF OpenFor

LEMMA SerialWrites ==
  ASSUME OneRequest, TypeOK, SerialInv, NEW r \in Request, Writes(r)
  PROVE  SerialInv'
<1>0. /\ req \in [Request -> RequestState] /\ req[r] \in RequestState
      /\ Holds(req[r]) /\ Named(req[r]) /\ OneEmail
      /\ SessionsFollowPassword /\ InvitationsForStrangers /\ InvitationSettled
      /\ \A s \in DOMAIN sessions : sessions[s].user \in DOMAIN users
  BY DEF TypeOK, SerialInv, SessionsOK, OneEmail
<1>1. ASSUME Finish(r) PROVE Holds(req[r])'
  BY <1>0, <1>1 DEF Finish, Goto, Idle, Holds
<1>2. ASSUME NEW S, sessions' = Keep(sessions, S),
             \A s \in DOMAIN sessions' :
                users'[sessions[s].user].password = users[sessions[s].user].password
      PROVE  SessionsFollowPassword'
  BY <1>0, <1>2 DEF Keep, SessionsFollowPassword
<1>3. ASSUME NEW u, NEW password, SetPassword(u, password)
      PROVE  /\ DOMAIN users' = DOMAIN users
             /\ \A v \in DOMAIN users :
                   users'[v].org = users[v].org /\ users'[v].email = users[v].email
             /\ \A v \in DOMAIN users : v # u => users'[v] = users[v]
             /\ u \in DOMAIN users => users'[u].password = password
  BY <1>3 DEF SetPassword, TypeOK, UsersOK, UserRow
<1>4. ASSUME NEW u \in FreshUser, NEW row \in UserRow, Insert(u, row), UNCHANGED sessions,
             WithEmail(row.email) = {}
      PROVE  /\ SessionsFollowPassword' /\ OneEmail' /\ u \in DOMAIN users' /\ users'[u] = row
             /\ \A o, e : MembersOf(o)' \cap WithEmail(e)' \subseteq
                    (MembersOf(o) \cap WithEmail(e))
                       \cup (IF o = row.org /\ e = row.email THEN {u} ELSE {})
  <2>1. /\ DOMAIN users' = DOMAIN users \cup {u} /\ u \notin DOMAIN users
        /\ users'[u] = row /\ \A v \in DOMAIN users : users'[v] = users[v]
    BY <1>4 DEF Insert, WithRow, FreshUser
  <2>2. SessionsFollowPassword'
    BY <1>0, <1>4, <2>1 DEF SessionsFollowPassword
  <2>3. OneEmail'
    BY <1>0, <1>4, <2>1 DEF OneEmail, WithEmail
  <2>4. \A o, e : MembersOf(o)' \cap WithEmail(e)' \subseteq
            (MembersOf(o) \cap WithEmail(e))
               \cup (IF o = row.org /\ e = row.email THEN {u} ELSE {})
    BY <2>1 DEF MembersOf, WithEmail
  <2>. QED
    BY <2>1, <2>2, <2>3, <2>4
<1>5. ASSUME NEW u \in FreshUser, SignupCommit(r, u) PROVE SerialInv'
  <2>. DEFINE i == req[r].invitation
              row == [org |-> invitations[i].org, email |-> req[r].email,
                      role |-> invitations[i].role, password |-> req[r].password]
              next == [at |-> "issue", user |-> u, role |-> invitations[i].role,
                       proof |-> req[r].password]
  <2>1. /\ i \in DOMAIN invitations /\ req[r].email \in Email /\ req[r].password \in Password
        /\ Pending(i) /\ invitations[i].email = req[r].email
        /\ WithEmail(req[r].email) = {}
        /\ OpenFor(invitations[i].org, req[r].email) \subseteq {i}
    BY <1>0, <1>5 DEF SignupCommit, RequestState, Named, Holds
  <2>2. row \in UserRow
    BY <2>1 DEF TypeOK, InvitationsOK, InvitationRow, UserRow
  <2>3. Insert(u, row) /\ UNCHANGED sessions /\ req'[r] = next
        /\ invitations' = [invitations EXCEPT ![i].accepted = TRUE]
    BY <1>0, <1>5 DEF SignupCommit, Goto
  <2>4. /\ SessionsFollowPassword' /\ OneEmail' /\ u \in DOMAIN users' /\ users'[u] = row
        /\ \A o, e : MembersOf(o)' \cap WithEmail(e)' \subseteq
               (MembersOf(o) \cap WithEmail(e))
                  \cup (IF o = row.org /\ e = row.email THEN {u} ELSE {})
    BY <1>4, <2>1, <2>2, <2>3
  <2>5. /\ DOMAIN invitations' = DOMAIN invitations
        /\ \A k \in DOMAIN invitations :
              /\ invitations'[k].org = invitations[k].org
              /\ invitations'[k].email = invitations[k].email
              /\ invitations'[k].revoked = invitations[k].revoked
              /\ k # i => invitations'[k] = invitations[k]
              /\ Open(k)' => k # i /\ Open(k)
        /\ invitations'[i].accepted
    BY <2>1, <2>3 DEF TypeOK, InvitationsOK, InvitationRow, Open, Pending
  <2>6. InvitationSettled'
    BY <1>0, <2>1, <2>5 DEF InvitationSettled, Pending
  <2>7. ASSUME NEW k \in DOMAIN invitations, Open(k)'
        PROVE  (MembersOf(invitations[k].org) \cap WithEmail(invitations[k].email))' = {}
    <3>1. k # i /\ Open(k)
      BY <2>5, <2>7
    <3>2. ~(invitations[k].org = row.org /\ invitations[k].email = row.email)
      BY <2>1, <3>1 DEF OpenFor
    <3>3. MembersOf(invitations[k].org) \cap WithEmail(invitations[k].email) = {}
      BY <1>0, <3>1 DEF InvitationsForStrangers
    <3>. QED
      BY <2>4, <2>5, <3>2, <3>3
  <2>8. InvitationsForStrangers'
    BY <1>0, <2>5, <2>7, InvitationsClose
  <2>9. Holds(req[r])'
    BY <2>3, <2>4 DEF Holds
  <2>. QED
    BY <2>4, <2>6, <2>8, <2>9, SerialFrame
<1>6. ASSUME NEW u \in FreshUser, NEW o \in FreshOrg, Found(r, u, o) PROVE SerialInv'
  <2>. DEFINE row == [org |-> o, email |-> req[r].email, role |-> req[r].role,
                      password |-> req[r].password]
              next == [at |-> "issue", user |-> u, role |-> req[r].role,
                       proof |-> req[r].password]
  <2>1. /\ row \in UserRow /\ WithEmail(req[r].email) = {}
        /\ \A k \in DOMAIN invitations : invitations[k].org # o
    BY <1>0, <1>6 DEF Found, RequestState, Holds, FreshOrg, UserRow
  <2>2. Insert(u, row) /\ UNCHANGED <<sessions, invitations>> /\ req'[r] = next
    BY <1>0, <1>6 DEF Found, Goto
  <2>3. /\ SessionsFollowPassword' /\ OneEmail' /\ u \in DOMAIN users' /\ users'[u] = row
        /\ \A p, e : MembersOf(p)' \cap WithEmail(e)' \subseteq
               (MembersOf(p) \cap WithEmail(e))
                  \cup (IF p = row.org /\ e = row.email THEN {u} ELSE {})
    BY <1>4, <2>1, <2>2
  <2>4. ASSUME NEW k \in DOMAIN invitations, Open(k)'
        PROVE  (MembersOf(invitations[k].org) \cap WithEmail(invitations[k].email))' = {}
    <3>1. MembersOf(invitations[k].org) \cap WithEmail(invitations[k].email) = {}
      BY <1>0, <2>2, <2>4 DEF InvitationsForStrangers, Open, Pending
    <3>. QED
      BY <2>1, <2>2, <2>3, <3>1
  <2>5. InvitationsForStrangers' /\ InvitationSettled'
    BY <1>0, <2>2, <2>4, InvitationsClose DEF Open, Pending, InvitationSettled
  <2>6. Holds(req[r])'
    BY <2>2, <2>3 DEF Holds
  <2>. QED
    BY <2>3, <2>5, <2>6, SerialFrame
<1>7. CASE UNCHANGED users /\ UNCHANGED invitations
           /\ (LogoutCommit(r) \/ (\E s \in FreshSession : Issue(r, s))
                  \/ (\E t \in FreshToken : ForgotCommit(r, t)))
  <2>1. OneEmail' /\ InvitationsForStrangers' /\ InvitationSettled'
    BY <1>7, NobodyComes
  <2>2. CASE LogoutCommit(r)
    BY <1>1, <1>2, <1>7, <2>1, <2>2, SerialFrame DEF LogoutCommit
  <2>3. ASSUME NEW s \in FreshSession, Issue(r, s) PROVE SerialInv'
    <3>1. SessionsFollowPassword'
      BY <1>0, <2>3 DEF Issue, Holds, WithRow, SessionsFollowPassword
    <3>. QED
      BY <1>1, <2>1, <2>3, <3>1, SerialFrame DEF Issue
  <2>4. ASSUME NEW t \in FreshToken, ForgotCommit(r, t) PROVE SerialInv'
    <3>1. SessionsFollowPassword'
      BY <1>0, <2>4 DEF ForgotCommit, SessionsFollowPassword
    <3>. QED
      BY <1>1, <2>1, <2>4, <3>1, SerialFrame DEF ForgotCommit
  <2>. QED
    BY <1>7, <2>2, <2>3, <2>4
<1>8. CASE ResetCommit(r)
  <2>1. OneEmail' /\ InvitationsForStrangers' /\ InvitationSettled'
    BY <1>3, <1>8, NobodyComes DEF ResetCommit
  <2>2. SessionsFollowPassword'
    <3>1. \A s \in DOMAIN sessions' :
             s \in DOMAIN sessions /\ sessions[s].user # req[r].user
      BY <1>8 DEF ResetCommit, Keep, SessionsOf
    <3>2. \A s \in DOMAIN sessions' : users'[sessions[s].user] = users[sessions[s].user]
      BY <1>0, <1>3, <1>8, <3>1 DEF ResetCommit
    <3>. QED
      BY <1>2, <1>8, <3>2 DEF ResetCommit
  <2>. QED
    BY <1>1, <1>8, <2>1, <2>2, SerialFrame DEF ResetCommit
<1>9. CASE ChangePasswordCommit(r)
  <2>1. OneEmail' /\ InvitationsForStrangers' /\ InvitationSettled'
    BY <1>3, <1>9, NobodyComes DEF ChangePasswordCommit
  <2>2. SessionsFollowPassword'
    <3>1. ASSUME NEW s \in DOMAIN sessions'
          PROVE  /\ s \in DOMAIN sessions
                 /\ sessions'[s] = IF sessions[s].user = req[r].sub
                                   THEN [sessions[s] EXCEPT !.proof = req[r].password]
                                   ELSE sessions[s]
                 /\ sessions[s] \in SessionRow
      BY <1>9 DEF ChangePasswordCommit, TypeOK, SessionsOK
    <3>2. /\ users'[req[r].sub].password = req[r].password
          /\ \A v \in DOMAIN users : v # req[r].sub => users'[v] = users[v]
      BY <1>3, <1>9 DEF ChangePasswordCommit
    <3>. QED
      BY <1>0, <3>1, <3>2 DEF SessionsFollowPassword, SessionRow
  <2>. QED
    BY <1>1, <1>9, <2>1, <2>2, SerialFrame DEF ChangePasswordCommit
<1>10. CASE RoleCommit(r)
  <2>1. /\ DOMAIN users' = DOMAIN users
        /\ \A v \in DOMAIN users :
              /\ users'[v].org = users[v].org /\ users'[v].email = users[v].email
              /\ users'[v].password = users[v].password
    BY <1>10 DEF RoleCommit, TypeOK, UsersOK, UserRow
  <2>2. OneEmail' /\ InvitationsForStrangers' /\ InvitationSettled'
    BY <1>10, <2>1, NobodyComes DEF RoleCommit
  <2>3. SessionsFollowPassword'
    BY <1>0, <1>10, <2>1 DEF RoleCommit, SessionsFollowPassword
  <2>. QED
    BY <1>1, <1>10, <2>2, <2>3, SerialFrame DEF RoleCommit
<1>11. CASE RemoveCommit(r)
  <2>1. /\ DOMAIN users' \subseteq DOMAIN users
        /\ \A v \in DOMAIN users' : users'[v] = users[v]
        /\ DOMAIN users' = DOMAIN users \ {req[r].target}
    BY <1>11 DEF RemoveCommit, Keep, TypeOK, UsersOK
  <2>2. OneEmail' /\ InvitationsForStrangers' /\ InvitationSettled'
    BY <1>11, <2>1, NobodyComes DEF RemoveCommit
  <2>3. \A s \in DOMAIN sessions' : sessions[s].user \in DOMAIN users'
    BY <1>0, <1>11, <2>1 DEF RemoveCommit, Keep, SessionsOf
  <2>4. SessionsFollowPassword'
    BY <1>2, <1>11, <2>1, <2>3 DEF RemoveCommit
  <2>. QED
    BY <1>1, <1>11, <2>2, <2>4, SerialFrame DEF RemoveCommit
<1>12. ASSUME NEW i \in FreshInvitation, InviteCommit(r, i) PROVE SerialInv'
  <2>. DEFINE row == [org |-> req[r].org, email |-> req[r].email, role |-> req[r].role,
                      by |-> req[r].sub, accepted |-> FALSE, revoked |-> FALSE,
                      expired |-> FALSE]
  <2>1. /\ MembersOf(req[r].org) \cap WithEmail(req[r].email) = {}
        /\ OpenFor(req[r].org, req[r].email) = {}
    BY <1>0, <1>12 DEF InviteCommit, Holds
  <2>2. /\ UNCHANGED <<users, sessions>>
        /\ i \notin DOMAIN invitations /\ DOMAIN invitations' = DOMAIN invitations \cup {i}
        /\ invitations'[i] = row
        /\ \A k \in DOMAIN invitations : invitations'[k] = invitations[k]
    BY <1>12 DEF InviteCommit, WithRow, FreshInvitation
  <2>3. OneEmail' /\ SessionsFollowPassword' /\ InvitationSettled'
    BY <1>0, <2>2 DEF OneEmail, SessionsFollowPassword, InvitationSettled
  <2>4. \A k \in DOMAIN invitations : Open(k)' = Open(k)
    BY <2>2 DEF Open, Pending
  <2>5. ASSUME NEW k \in DOMAIN invitations', Open(k)'
        PROVE  /\ OpenFor(invitations[k].org, invitations[k].email)' = {k}
               /\ (MembersOf(invitations[k].org) \cap WithEmail(invitations[k].email))' = {}
    <3>1. CASE k = i
      BY <2>1, <2>2, <2>4, <2>5, <3>1 DEF OpenFor, MembersOf, WithEmail
    <3>2. CASE k # i
      <4>1. /\ k \in DOMAIN invitations /\ Open(k)
            /\ OpenFor(invitations[k].org, invitations[k].email) = {k}
            /\ MembersOf(invitations[k].org) \cap WithEmail(invitations[k].email) = {}
        BY <1>0, <2>2, <2>4, <2>5, <3>2 DEF InvitationsForStrangers
      <4>2. ~(invitations[k].org = row.org /\ invitations[k].email = row.email)
        BY <2>1, <4>1
      <4>. QED
        BY <2>2, <2>4, <2>5, <4>1, <4>2 DEF OpenFor, MembersOf, WithEmail
    <3>. QED
      BY <3>1, <3>2
  <2>6. InvitationsForStrangers'
    BY <2>5 DEF InvitationsForStrangers
  <2>. QED
    BY <1>1, <1>12, <2>3, <2>6, SerialFrame DEF InviteCommit
<1>13. CASE RevokeCommit(r)
  <2>. DEFINE i == req[r].invitation
  <2>1. i \in DOMAIN invitations /\ Pending(i)
    BY <1>0, <1>13 DEF RevokeCommit, Named, Holds
  <2>2. /\ UNCHANGED <<users, sessions>> /\ DOMAIN invitations' = DOMAIN invitations
        /\ \A k \in DOMAIN invitations :
              /\ invitations'[k].org = invitations[k].org
              /\ invitations'[k].email = invitations[k].email
              /\ invitations'[k].accepted = invitations[k].accepted
              /\ k # i => invitations'[k] = invitations[k]
              /\ Open(k)' => Open(k)
    BY <1>13, <2>1 DEF RevokeCommit, TypeOK, InvitationsOK, InvitationRow, Open, Pending
  <2>3. OneEmail' /\ SessionsFollowPassword'
    BY <1>0, <2>2 DEF OneEmail, SessionsFollowPassword
  <2>4. InvitationSettled'
    BY <1>0, <2>1, <2>2 DEF InvitationSettled, Pending
  <2>5. \A k \in DOMAIN invitations :
           Open(k)' => (MembersOf(invitations[k].org) \cap WithEmail(invitations[k].email))' = {}
    BY <1>0, <2>2 DEF InvitationsForStrangers, MembersOf, WithEmail
  <2>6. InvitationsForStrangers'
    BY <1>0, <2>2, <2>5, InvitationsClose
  <2>. QED
    BY <1>1, <1>13, <2>3, <2>4, <2>6, SerialFrame DEF RevokeCommit
<1>14. ~AcceptCommit(r)
  BY <1>0 DEF AcceptCommit, Holds
<1>. QED
  BY <1>5, <1>6, <1>7, <1>8, <1>9, <1>10, <1>11, <1>12, <1>13, <1>14
     DEF Writes, LogoutCommit, Issue, ForgotCommit

LEMMA SerialNext == OneRequest /\ TypeOK /\ SerialInv /\ [Next]_vars => SerialInv'
<1>. SUFFICES ASSUME OneRequest, TypeOK, SerialInv, [Next]_vars PROVE SerialInv'
  OBVIOUS
<1>1. ASSUME NEW s \in DOMAIN sessions, SessionExpires(s) PROVE SerialInv'
  BY <1>1 DEF SessionExpires, Keep, SerialInv, SessionsFollowPassword,
     InvitationsForStrangers, InvitationSettled, Holds, OpenFor, Open, Pending, MembersOf,
     WithEmail, AdminsOf
<1>2. ASSUME NEW i \in DOMAIN invitations, InvitationExpires(i) PROVE SerialInv'
  <2>1. /\ UNCHANGED <<users, sessions, tokens, req>>
        /\ DOMAIN invitations' = DOMAIN invitations
        /\ \A k \in DOMAIN invitations :
              /\ invitations'[k].org = invitations[k].org
              /\ invitations'[k].email = invitations[k].email
              /\ invitations'[k].accepted = invitations[k].accepted
              /\ invitations'[k].revoked = invitations[k].revoked
              /\ Open(k)' => Open(k)
    BY <1>2 DEF InvitationExpires, TypeOK, InvitationsOK, InvitationRow, Open, Pending
  <2>2. /\ OneEmail' /\ SessionsFollowPassword' /\ InvitationSettled'
    BY <2>1 DEF SerialInv, OneEmail, SessionsFollowPassword, InvitationSettled
  <2>3. \A k \in DOMAIN invitations :
           Open(k)' => (MembersOf(invitations[k].org) \cap WithEmail(invitations[k].email))' = {}
    BY <2>1 DEF SerialInv, InvitationsForStrangers, MembersOf, WithEmail
  <2>4. InvitationsForStrangers'
    BY <2>1, <2>3, InvitationsClose DEF SerialInv
  <2>5. ASSUME NEW r \in Request PROVE Holds(req[r])'
    <3>1. Holds(req[r]) /\ Named(req[r])
      BY DEF SerialInv, TypeOK
    <3>2. \A k \in DOMAIN invitations : Pending(k)' = Pending(k)
      BY <2>1 DEF Pending
    <3>3. \A o, e : OpenFor(o, e)' \subseteq OpenFor(o, e)
      BY <2>1 DEF OpenFor
    <3>. QED
      BY <2>1, <3>1, <3>2, <3>3 DEF Holds, Named, MembersOf, WithEmail, AdminsOf
  <2>. QED
    BY <2>2, <2>4, <2>5 DEF SerialInv, OneEmail
<1>3. CASE UNCHANGED vars
  BY <1>3 DEF vars, SerialInv, SessionsFollowPassword, InvitationsForStrangers,
     InvitationSettled, Holds, OpenFor, Open, Pending, MembersOf, WithEmail, AdminsOf
<1>. QED
  BY <1>1, <1>2, <1>3, Cases, SerialBegins, SerialChecks, SerialWrites

\* With one request at a time the invariant above holds: sessions follow passwords,
\* invitations are for strangers, and handlers can rely on what they have checked.
THEOREM SerialInvHolds ==
  ASSUME OneRequest
  PROVE  Spec => []SerialInv
<1>1. TypeOK /\ SerialInv /\ [Next]_vars => SerialInv'
  BY SerialNext
<1>. QED
  BY <1>1, InitTypeOK, NextTypeOK, InitSerial, PTL DEF Spec

\* With one request at a time, a session that began with a password ends when
\* somebody else replaces that password.
THEOREM SessionsFollow ==
  ASSUME OneRequest
  PROVE  Spec => []SessionsFollowPassword
<1>1. SerialInv => SessionsFollowPassword
  BY DEF SerialInv
<1>. QED
  BY <1>1, SerialInvHolds, PTL

\* With one request at a time, an open invitation is the only one for its e-mail,
\* which is not a member's.
THEOREM InvitesStrangers ==
  ASSUME OneRequest
  PROVE  Spec => []InvitationsForStrangers
<1>1. SerialInv => InvitationsForStrangers
  BY DEF SerialInv
<1>. QED
  BY <1>1, SerialInvHolds, PTL

\* With one request at a time, no e-mail is registered twice in all organizations.
THEOREM RegisteredOnce ==
  ASSUME OneRequest
  PROVE  Spec => []EmailsOnce
<1>1. SerialInv => EmailsOnce
  <2>. SUFFICES ASSUME SerialInv, NEW e \in Email PROVE Cardinality(WithEmail(e)) <= 1
    BY DEF EmailsOnce
  <2>1. CASE WithEmail(e) = {}
    BY <2>1, FS_EmptySet
  <2>2. CASE WithEmail(e) # {}
    <3>1. PICK u : u \in WithEmail(e)
      BY <2>2
    <3>2. WithEmail(e) = {u}
      BY <3>1 DEF SerialInv, WithEmail
    <3>3. Cardinality({u}) = 1
      BY FS_Singleton
    <3>. HIDE DEF WithEmail
    <3>. QED
      BY <3>2, <3>3
  <2>. QED
    BY <2>1, <2>2
<1>. QED
  BY <1>1, SerialInvHolds, PTL

\* With one request at a time, an organization that has an ADMIN keeps one.
THEOREM AdminStays ==
  ASSUME OneRequest
  PROVE  Spec => KeepsAdmin
<1>1. TypeOK /\ SerialInv /\ [Next]_vars =>
        (\A o \in Org : AdminsOf(o) # {} => AdminsOf(o)' # {})
  <2>. SUFFICES ASSUME TypeOK, SerialInv, [Next]_vars, NEW o \in Org, AdminsOf(o) # {}
                PROVE  AdminsOf(o)' # {}
    OBVIOUS
  <2>1. CASE UNCHANGED users
    BY <2>1 DEF AdminsOf, MembersOf
  <2>2. ASSUME NEW r \in Request, Writes(r) PROVE AdminsOf(o)' # {}
    <3>0. Holds(req[r]) /\ req[r] \in RequestState
      BY DEF SerialInv, TypeOK
    <3>1. ASSUME NEW u \in FreshUser, NEW row, Insert(u, row) PROVE AdminsOf(o)' # {}
      BY <3>1 DEF FreshUser, Insert, WithRow, AdminsOf, MembersOf
    <3>2. ASSUME NEW u, NEW password, SetPassword(u, password) PROVE AdminsOf(o)' # {}
      BY <3>2 DEF SetPassword, AdminsOf, MembersOf, TypeOK, UsersOK, UserRow
    <3>3. CASE RoleCommit(r)
      <4>1. /\ DOMAIN users' = DOMAIN users
            /\ \A v \in DOMAIN users :
                  /\ users'[v].org = users[v].org
                  /\ users'[v].role = IF v = req[r].target THEN req[r].role ELSE users[v].role
        BY <3>3 DEF RoleCommit, TypeOK, UsersOK, UserRow
      <4>2. req[r].target \in MembersOf(req[r].org)
        BY <3>0, <3>3 DEF RoleCommit, Holds
      <4>3. req[r].role = "ADMIN" \/ req[r].target \notin AdminsOf(o)
            \/ AdminsOf(o) \ {req[r].target} # {}
        BY <3>0, <3>3, <4>2 DEF RoleCommit, Holds, AdminsOf, MembersOf
      <4>. QED
        BY <4>1, <4>3 DEF AdminsOf, MembersOf
    <3>4. CASE RemoveCommit(r)
      <4>1. /\ DOMAIN users' = DOMAIN users \ {req[r].target}
            /\ \A v \in DOMAIN users' : users'[v] = users[v]
        BY <3>4 DEF RemoveCommit, Keep, TypeOK, UsersOK
      <4>2. req[r].target \in MembersOf(req[r].org)
        BY <3>0, <3>4 DEF RemoveCommit, Holds
      <4>3. req[r].target \notin AdminsOf(o) \/ AdminsOf(o) \ {req[r].target} # {}
        BY <3>0, <3>4, <4>2 DEF RemoveCommit, Holds, AdminsOf, MembersOf
      <4>. QED
        BY <4>1, <4>3 DEF AdminsOf, MembersOf
    <3>5. ~AcceptCommit(r)
      BY <3>0 DEF AcceptCommit, Holds
    <3>. QED
      BY <2>1, <2>2, <3>1, <3>2, <3>3, <3>4, <3>5
         DEF Writes, SignupCommit, Found, Issue, LogoutCommit, ForgotCommit, ResetCommit,
             ChangePasswordCommit, InviteCommit, RevokeCommit
  <2>3. ASSUME NEW r \in Request, GoesOn(r) PROVE AdminsOf(o)' # {}
    BY <2>1, <2>3 DEF GoesOn, Tables
  <2>. QED
    BY <2>1, <2>2, <2>3, Cases, BeginPublicGoesOn, BeginGuardedGoesOn, ChecksGoesOn
       DEF SessionExpires, InvitationExpires, vars
<1>. QED
  BY <1>1, TypeCorrect, SerialInvHolds, PTL DEF Spec, KeepsAdmin

\* With one request at a time, a reset token sets one password.
THEOREM OnePasswordPerToken ==
  ASSUME OneRequest
  PROVE  Spec => TokensSetOnePassword
<1>1. TypeOK /\ SerialInv /\ [Next]_vars =>
        (\A r \in Request :
            req[r].at = "reset" /\ users' # users =>
                ~tokens[req[r].token].used /\ tokens'[req[r].token].used)
  <2>. SUFFICES ASSUME OneRequest, TypeOK, SerialInv, [Next]_vars, NEW r \in Request,
                       req[r].at = "reset", users' # users
                PROVE  ~tokens[req[r].token].used /\ tokens'[req[r].token].used
    OBVIOUS
  <2>1. ResetCommit(r)
    <3>1. ~UNCHANGED Tables
      BY DEF Tables
    <3>2. \A q \in Request : q = r
      BY DEF OneRequest
    <3>3. Writes(r)
      BY <3>1, <3>2, Cases, BeginPublicGoesOn, BeginGuardedGoesOn, ChecksGoesOn
         DEF GoesOn, SessionExpires, InvitationExpires, vars
    <3>. QED
      BY <3>3 DEF Writes, SignupCommit, Found, Issue, LogoutCommit, ForgotCommit,
         ChangePasswordCommit, RoleCommit, RemoveCommit, InviteCommit, RevokeCommit,
         AcceptCommit
  <2>2. req[r].token \in DOMAIN tokens /\ ~tokens[req[r].token].used
    BY DEF SerialInv, Holds
  <2>3. tokens'[req[r].token].used
    BY <2>1, <2>2 DEF ResetCommit, TypeOK, TokensOK, TokenRow
  <2>. QED
    BY <2>2, <2>3
<1>. QED
  BY <1>1, TypeCorrect, SerialInvHolds, PTL DEF Spec, TokensSetOnePassword
=============================================================================
