---------------------------- MODULE SharesProofs ----------------------------
(***************************************************************************)
(* Proofs about Shares: what the audit trail says of shares holds, and the  *)
(* status of a share only advances, for any users, shares and number of     *)
(* handlers in flight.                                                      *)
(***************************************************************************)
EXTENDS Shares, TLAPS

(***************************************************************************)
(* Types                                                                   *)
(***************************************************************************)

CreateAt == {"create.file", "create.role", "create.recipients", "create.insert"}
ManageAt == {"share.read", "share.file", "share.role", "update.recipient", "update.write",
             "remove.delete", "revoke.write", "manage.trail"}

CreateState == [at : CreateAt, user : User, body : ValidBody]
ManageState == [at : ManageAt, op : ManageOp, user : User, share : Share, target : User,
                permission : SharePermission]
VerifyState == [at : {"verify.expire", "verify.sign"}, share : Share]

\* The locals of a handler are those of the request it serves.
LEMMA StateOfStep ==
  ASSUME ShareTypeOK, NEW r \in Request
  PROVE  /\ req[r].at \in CreateAt => req[r] \in CreateState
         /\ req[r].at \in ManageAt => req[r] \in ManageState
         /\ req[r].at = "create.trail" => req[r].share \in Share
         /\ req[r].at = "verify.read" => req[r].share \in Share
         /\ req[r].at \in {"verify.expire", "verify.sign"} => req[r] \in VerifyState
BY DEF ShareTypeOK, RequestState, CreateAt, ManageAt, CreateState, ManageState, VerifyState,
       Idle

LEMMA StatesAreTyped ==
  /\ CreateState \subseteq RequestState
  /\ ManageState \subseteq RequestState
  /\ VerifyState \subseteq RequestState
  /\ Idle \in RequestState
  /\ \A s \in Share : [at |-> "create.trail", share |-> s] \in RequestState
BY DEF RequestState, CreateAt, ManageAt, CreateState, ManageState, VerifyState, Idle

LEMMA GotoType ==
  ASSUME ShareTypeOK, NEW r \in Request, NEW state \in RequestState, Goto(r, state)
  PROVE  req' \in [Request -> RequestState]
BY DEF Goto, ShareTypeOK

\* A row of the table is replaced by another row.
LEMMA RowReplaced ==
  ASSUME ShareTypeOK, NEW s, NEW row, s \in DOMAIN shares => row \in ShareRow,
         shares' = [shares EXCEPT ![s] = row]
  PROVE  /\ DOMAIN shares' = DOMAIN shares
         /\ shares' \in [DOMAIN shares' -> ShareRow]
<1>1. /\ DOMAIN shares' = DOMAIN shares
      /\ shares' = [t \in DOMAIN shares |-> IF t = s THEN row ELSE shares[t]]
  BY DEF ShareTypeOK
<1>2. \A t \in DOMAIN shares : (IF t = s THEN row ELSE shares[t]) \in ShareRow
  BY DEF ShareTypeOK
<1>. QED
  BY <1>1, <1>2

\* The steps of POST /shares keep the types.
LEMMA CreateType ==
  ASSUME ShareTypeOK, NEW r \in Request,
         \/ \E u \in User, body \in Body : BeginCreate(r, u, body)
         \/ CreateReadsFile(r) \/ CreateReadsRole(r) \/ LookupRecipients(r)
         \/ \E s \in Share : InsertShare(r, s)
         \/ CreateTrail(r)
  PROVE  ShareTypeOK'
<1>. USE StatesAreTyped
<1>1. ASSUME NEW u \in User, NEW body \in Body, BeginCreate(r, u, body)
      PROVE  ShareTypeOK'
  <2>1. [at |-> "create.file", user |-> u, body |-> body] \in RequestState
    BY <1>1 DEF CreateState, CreateAt, BeginCreate, ValidBody
  <2>. QED
    BY <1>1, <2>1, GotoType DEF BeginCreate, ShareTypeOK
<1>2. CASE CreateReadsFile(r) \/ CreateReadsRole(r) \/ LookupRecipients(r)
  <2>1. req[r] \in CreateState
    BY <1>2, StateOfStep DEF CreateReadsFile, CreateReadsRole, LookupRecipients, CreateAt
  <2>2. \A a \in CreateAt : [req[r] EXCEPT !.at = a] \in RequestState
    BY <2>1 DEF CreateState
  <2>3. \E state \in RequestState : Goto(r, state)
    BY <1>2, <2>2 DEF CreateReadsFile, CreateReadsRole, LookupRecipients, GotoIf, CreateAt
  <2>. QED
    BY <1>2, <2>3, GotoType DEF CreateReadsFile, CreateReadsRole, LookupRecipients, ShareTypeOK
<1>3. ASSUME NEW s \in Share, InsertShare(r, s)
      PROVE  ShareTypeOK'
  <2>. DEFINE body == req[r].body
              row == [permission |-> body.permission, status |-> "ACTIVE",
                      password |-> body.password, ends |-> body.ends,
                      download |-> body.download, recipients |-> Found(body.recipients)]
  <2>1. body \in CreateBody /\ body.permission \in SharePermission
    BY <1>3, StateOfStep, SharesAssumption
       DEF InsertShare, CreateAt, CreateState, ValidBody, Valid
  <2>2. shares' = [t \in DOMAIN shares \cup {s} |-> IF t = s THEN row ELSE shares[t]]
    BY <1>3 DEF InsertShare
  <2>3. /\ req' \in [Request -> RequestState]
        /\ UNCHANGED <<trashed, roles, trail>>
    BY <1>3, GotoType DEF InsertShare
  <2>4. row \in ShareRow
    BY <2>1 DEF CreateBody, ShareRow, Status, Found
  <2>. QED
    BY <2>2, <2>3, <2>4 DEF ShareTypeOK
<1>4. CASE CreateTrail(r)
  <2>1. req[r].share \in Share
    BY <1>4, StateOfStep DEF CreateTrail
  <2>. QED
    BY <1>4, <2>1, GotoType DEF CreateTrail, Finish, Entry, ShareTypeOK
<1>. QED
  BY <1>1, <1>2, <1>3, <1>4

\* So do those of the handlers that manage a share.
LEMMA ManageType ==
  ASSUME ShareTypeOK, NEW r \in Request,
         \/ \E op \in ManageOp, u \in User, s \in Share, t \in User, p \in SharePermission :
                BeginManage(r, op, u, s, t, p)
         \/ ReadShare(r) \/ ReadSharedFile(r) \/ ReadSharerRole(r)
         \/ FindRecipient(r) \/ UpdatePermission(r) \/ DeleteRecipient(r) \/ RevokeWrite(r)
         \/ ManageTrail(r)
  PROVE  ShareTypeOK'
<1>. USE StatesAreTyped
<1>1. ASSUME NEW op \in ManageOp, NEW u \in User, NEW s \in Share, NEW t \in User,
             NEW p \in SharePermission, BeginManage(r, op, u, s, t, p)
      PROVE  ShareTypeOK'
  <2>1. [at |-> "share.read", op |-> op, user |-> u, share |-> s,
         target |-> t, permission |-> p] \in RequestState
    BY DEF ManageState, ManageAt
  <2>. QED
    BY <1>1, <2>1, GotoType DEF BeginManage, ShareTypeOK
<1>2. ASSUME ~\E op \in ManageOp, u \in User, s \in Share, t \in User, p \in SharePermission :
                  BeginManage(r, op, u, s, t, p)
      PROVE  ShareTypeOK'
  <2>1. req[r] \in ManageState
    BY <1>2, StateOfStep DEF ReadShare, ReadSharedFile, ReadSharerRole, FindRecipient,
       UpdatePermission, DeleteRecipient, RevokeWrite, ManageTrail, ManageAt
  <2>2. \A a \in ManageAt : [req[r] EXCEPT !.at = a] \in RequestState
    BY <2>1 DEF ManageState
  <2>3. CASE ReadShare(r) \/ ReadSharedFile(r) \/ FindRecipient(r)
    <3>1. \E state \in RequestState : Goto(r, state)
      BY <2>2, <2>3 DEF ReadShare, ReadSharedFile, FindRecipient, GotoIf, ManageAt
    <3>. QED
      BY <2>3, <3>1, GotoType DEF ReadShare, ReadSharedFile, FindRecipient, ShareTypeOK
  <2>4. CASE ReadSharerRole(r)
    <3>. DEFINE a == CASE req[r].op = "update" -> "update.recipient"
                       [] req[r].op = "remove" -> "remove.delete"
                       [] req[r].op = "revoke" -> "revoke.write"
    <3>1. a \in ManageAt
      BY <2>1 DEF ManageState, ManageOp, ManageAt
    <3>2. [req[r] EXCEPT !.at = a] \in RequestState
      BY <2>2, <3>1
    <3>3. \E state \in RequestState : Goto(r, state)
      BY <2>4, <3>2 DEF ReadSharerRole, GotoIf
    <3>. QED
      BY <2>4, <3>3, GotoType DEF ReadSharerRole, ShareTypeOK
  <2>5. CASE UpdatePermission(r)
    <3>. DEFINE row == [shares[req[r].share] EXCEPT !.permission = req[r].permission]
    <3>a. req[r].share \in DOMAIN shares => row \in ShareRow
      BY <2>1 DEF ManageState, ShareRow, ShareTypeOK
    <3>1. shares' \in [DOMAIN shares' -> ShareRow] /\ DOMAIN shares' = DOMAIN shares
      BY <2>5, <3>a, RowReplaced DEF UpdatePermission
    <3>2. req' \in [Request -> RequestState]
      BY <2>2, <2>5, GotoType DEF UpdatePermission, Continue, ManageAt
    <3>. QED
      BY <2>5, <3>1, <3>2 DEF UpdatePermission, ShareTypeOK
  <2>6. CASE DeleteRecipient(r)
    <3>. DEFINE old == shares[req[r].share]
                row == [old EXCEPT !.recipients = @ \ {req[r].target}]
    <3>a. req[r].share \in DOMAIN shares => row \in ShareRow
      BY DEF ShareRow, ShareTypeOK
    <3>1. shares' \in [DOMAIN shares' -> ShareRow] /\ DOMAIN shares' = DOMAIN shares
      BY <2>6, <3>a, RowReplaced DEF DeleteRecipient
    <3>2. \E state \in RequestState : Goto(r, state)
      BY <2>2, <2>6 DEF DeleteRecipient, GotoIf, ManageAt
    <3>. QED
      BY <2>6, <3>1, <3>2, GotoType DEF DeleteRecipient, ShareTypeOK
  <2>7. CASE RevokeWrite(r)
    <3>. DEFINE row == [shares[req[r].share] EXCEPT !.status = "REVOKED"]
    <3>a. req[r].share \in DOMAIN shares => row \in ShareRow
      BY DEF ShareRow, Status, ShareTypeOK
    <3>1. shares' \in [DOMAIN shares' -> ShareRow] /\ DOMAIN shares' = DOMAIN shares
      BY <2>7, <3>a, RowReplaced DEF RevokeWrite
    <3>2. req' \in [Request -> RequestState]
      BY <2>2, <2>7, GotoType DEF RevokeWrite, Continue, ManageAt
    <3>. QED
      BY <2>7, <3>1, <3>2 DEF RevokeWrite, ShareTypeOK
  <2>8. CASE ManageTrail(r)
    <3>1. EntryOf(req[r]) \in Entry
      BY <2>1 DEF EntryOf, Entry, ManageState, ManageOp
    <3>. QED
      BY <2>8, <3>1, GotoType DEF ManageTrail, Finish, ShareTypeOK
  <2>. QED
    BY <1>2, <2>3, <2>4, <2>5, <2>6, <2>7, <2>8
<1>. QED
  BY <1>1, <1>2

\* And those of a visitor's request, of a crash and of the rest of the system.
LEMMA VerifyType ==
  ASSUME ShareTypeOK, NEW r \in Request,
         \/ \E s \in Share, p \in Password \cup {NoPassword} : BeginVerify(r, s, p)
         \/ ReadLink(r) \/ Expire(r) \/ SignLink(r) \/ Crash(r)
  PROVE  ShareTypeOK'
<1>. USE StatesAreTyped
<1>1. ASSUME NEW s \in Share, NEW p \in Password \cup {NoPassword}, BeginVerify(r, s, p)
      PROVE  ShareTypeOK'
  <2>1. [at |-> "verify.read", share |-> s, password |-> p] \in RequestState
    BY DEF RequestState
  <2>. QED
    BY <1>1, <2>1, GotoType DEF BeginVerify, ShareTypeOK
<1>2. CASE ReadLink(r)
  <2>1. \A a \in {"verify.expire", "verify.sign"} :
            [at |-> a, share |-> req[r].share] \in RequestState
    BY <1>2, StateOfStep DEF ReadLink, VerifyState
  <2>2. \E state \in RequestState : Goto(r, state)
    BY <1>2, <2>1 DEF ReadLink
  <2>. QED
    BY <1>2, <2>2, GotoType DEF ReadLink, ShareTypeOK
<1>3. CASE Expire(r)
  <2>. DEFINE row == [shares[req[r].share] EXCEPT !.status = IF @ = "ACTIVE" THEN "EXPIRED" ELSE @]
  <2>a. req[r].share \in DOMAIN shares => row \in ShareRow
    BY DEF ShareRow, Status, ShareTypeOK
  <2>1. shares' \in [DOMAIN shares' -> ShareRow] /\ DOMAIN shares' = DOMAIN shares
    BY <1>3, <2>a, RowReplaced DEF Expire
  <2>. QED
    BY <1>3, <2>1, GotoType DEF Expire, Finish, ShareTypeOK
<1>4. CASE SignLink(r) \/ Crash(r)
  BY <1>4, GotoType DEF SignLink, Crash, Finish, ShareTypeOK
<1>. QED
  BY <1>1, <1>2, <1>3, <1>4

LEMMA EnvironmentType ==
  ASSUME ShareTypeOK, Environment
  PROVE  ShareTypeOK'
<1>1. ASSUME NEW s \in Share, TimePasses(s)
      PROVE  ShareTypeOK'
  <2>1. shares' \in [DOMAIN shares' -> ShareRow] /\ DOMAIN shares' = DOMAIN shares
    BY <1>1 DEF TimePasses, ShareRow, ShareTypeOK
  <2>. QED
    BY <1>1, <2>1 DEF TimePasses, ShareTypeOK
<1>2. CASE TrashOrRestoreFile
  BY <1>2 DEF TrashOrRestoreFile, ShareTypeOK
<1>3. ASSUME NEW u \in User, NEW role \in Role \cup {NoRole}, ChangeRole(u, role)
      PROVE  ShareTypeOK'
  BY <1>3 DEF ChangeRole, ShareTypeOK
<1>. QED
  BY <1>1, <1>2, <1>3 DEF Environment

LEMMA InitType == ShareInit => ShareTypeOK
<1>. SUFFICES ASSUME ShareInit PROVE ShareTypeOK
  OBVIOUS
<1>1. shares \in [DOMAIN shares -> ShareRow] /\ DOMAIN shares = {}
  BY DEF ShareInit
<1>2. roles \in [User -> Role \cup {NoRole}]
  BY SharesAssumption DEF ShareInit
<1>3. req \in [Request -> RequestState]
  BY StatesAreTyped DEF ShareInit
<1>. QED
  BY <1>1, <1>2, <1>3 DEF ShareInit, ShareTypeOK

LEMMA StepType ==
  ASSUME ShareTypeOK, ShareNext
  PROVE  ShareTypeOK'
<1>1. ASSUME NEW r \in Request, Begin(r) \/ Step(r)
      PROVE  ShareTypeOK'
  <2>1. "VIEW" \in SharePermission /\ {"update", "remove", "revoke"} = ManageOp
    BY DEF SharePermission, ManageOp
  <2>2. CASE Begin(r)
    BY <2>1, <2>2, CreateType, ManageType, VerifyType, SharesAssumption DEF Begin
  <2>3. CASE Step(r)
    BY <2>3, CreateType, ManageType, VerifyType DEF Step
  <2>. QED
    BY <1>1, <2>2, <2>3
<1>. QED
  BY <1>1, EnvironmentType DEF ShareNext

LEMMA StutterType ==
  ASSUME ShareTypeOK, UNCHANGED shareVars
  PROVE  ShareTypeOK'
BY DEF ShareTypeOK, shareVars

\* Every variable of the shares has its type in every reachable state.
THEOREM SharesTyped == ShareSpec => []ShareTypeOK
<1>1. ShareTypeOK /\ [ShareNext]_shareVars => ShareTypeOK'
  BY StepType, StutterType
<1>. QED
  BY <1>1, InitType, PTL DEF ShareSpec

(***************************************************************************)
(* Shares only close                                                       *)
(***************************************************************************)

\* What any step does to the row of a share that exists: its status goes
\* forward or stays, and nobody is added to its recipients.
Closing(s) ==
    /\ s \in DOMAIN shares'
    /\ Progress[shares[s].status] <= Progress[shares'[s].status]
    /\ shares'[s].recipients \subseteq shares[s].recipients

LEMMA UnchangedCloses ==
  ASSUME ShareTypeOK, NEW s \in DOMAIN shares, UNCHANGED shares
  PROVE  Closing(s)
BY DEF Closing, ShareTypeOK, ShareRow, Status, Progress

\* A step that replaces one row by a row that is not less closed.
LEMMA ReplacedCloses ==
  ASSUME ShareTypeOK, NEW s \in DOMAIN shares, NEW t, NEW row,
         shares' = [shares EXCEPT ![t] = row],
         t \in DOMAIN shares => /\ Progress[shares[t].status] <= Progress[row.status]
                               /\ row.recipients \subseteq shares[t].recipients
  PROVE  Closing(s)
<1>1. /\ DOMAIN shares' = DOMAIN shares
      /\ shares'[s] = IF s = t THEN row ELSE shares[s]
  BY DEF ShareTypeOK
<1>2. CASE s = t
  BY <1>1, <1>2 DEF Closing
<1>3. CASE s # t
  BY <1>1, <1>3 DEF Closing, ShareTypeOK, ShareRow, Status, Progress
<1>. QED
  BY <1>2, <1>3

LEMMA StepCloses ==
  ASSUME ShareTypeOK, ShareNext, NEW s \in DOMAIN shares
  PROVE  Closing(s)
<1>1. ASSUME NEW r \in Request, NEW t \in Share, InsertShare(r, t)
      PROVE  Closing(s)
  <2>1. s \in DOMAIN shares' /\ shares'[s] = shares[s]
    BY <1>1 DEF InsertShare
  <2>. QED
    BY <2>1 DEF Closing, ShareTypeOK, ShareRow, Status, Progress
<1>2. ASSUME NEW r \in Request, UpdatePermission(r)
      PROVE  Closing(s)
  <2>. DEFINE row == [shares[req[r].share] EXCEPT !.permission = req[r].permission]
  <2>1. shares' = [shares EXCEPT ![req[r].share] = row]
    BY <1>2 DEF UpdatePermission
  <2>2. req[r].share \in DOMAIN shares =>
           /\ Progress[shares[req[r].share].status] <= Progress[row.status]
           /\ row.recipients \subseteq shares[req[r].share].recipients
    BY DEF ShareTypeOK, ShareRow, Status, Progress
  <2>. QED
    BY <2>1, <2>2, ReplacedCloses
<1>3. ASSUME NEW r \in Request, DeleteRecipient(r)
      PROVE  Closing(s)
  <2>. DEFINE old == shares[req[r].share]
              row == [old EXCEPT !.recipients = @ \ {req[r].target}]
  <2>1. shares' = [shares EXCEPT ![req[r].share] = row]
    BY <1>3 DEF DeleteRecipient
  <2>2. req[r].share \in DOMAIN shares =>
           /\ Progress[shares[req[r].share].status] <= Progress[row.status]
           /\ row.recipients \subseteq shares[req[r].share].recipients
    BY DEF ShareTypeOK, ShareRow, Status, Progress
  <2>. QED
    BY <2>1, <2>2, ReplacedCloses
<1>4. ASSUME NEW r \in Request, RevokeWrite(r)
      PROVE  Closing(s)
  <2>. DEFINE row == [shares[req[r].share] EXCEPT !.status = "REVOKED"]
  <2>1. shares' = [shares EXCEPT ![req[r].share] = row]
    BY <1>4 DEF RevokeWrite
  <2>2. req[r].share \in DOMAIN shares =>
           /\ Progress[shares[req[r].share].status] <= Progress[row.status]
           /\ row.recipients \subseteq shares[req[r].share].recipients
    BY DEF ShareTypeOK, ShareRow, Status, Progress
  <2>. QED
    BY <2>1, <2>2, ReplacedCloses
<1>5. ASSUME NEW r \in Request, Expire(r)
      PROVE  Closing(s)
  <2>. DEFINE row == [shares[req[r].share] EXCEPT !.status = IF @ = "ACTIVE" THEN "EXPIRED" ELSE @]
  <2>1. shares' = [shares EXCEPT ![req[r].share] = row]
    BY <1>5 DEF Expire
  <2>2. req[r].share \in DOMAIN shares =>
           /\ Progress[shares[req[r].share].status] <= Progress[row.status]
           /\ row.recipients \subseteq shares[req[r].share].recipients
    BY DEF ShareTypeOK, ShareRow, Status, Progress
  <2>. QED
    BY <2>1, <2>2, ReplacedCloses
<1>6. ASSUME NEW t \in Share, TimePasses(t)
      PROVE  Closing(s)
  <2>. DEFINE row == [shares[t] EXCEPT !.ends = "past"]
  <2>1. shares' = [shares EXCEPT ![t] = row]
    BY <1>6 DEF TimePasses
  <2>2. t \in DOMAIN shares =>
           /\ Progress[shares[t].status] <= Progress[row.status]
           /\ row.recipients \subseteq shares[t].recipients
    BY DEF ShareTypeOK, ShareRow, Status, Progress
  <2>. QED
    BY <2>1, <2>2, ReplacedCloses
<1>7. CASE UNCHANGED shares
  BY <1>7, UnchangedCloses
<1>8. ASSUME NEW r \in Request, Begin(r)
      PROVE  UNCHANGED shares
  BY <1>8 DEF Begin, BeginCreate, BeginManage, BeginVerify
<1>9. ASSUME NEW r \in Request, Step(r)
      PROVE  Closing(s)
  <2>1. CASE \/ CreateReadsFile(r) \/ CreateReadsRole(r) \/ LookupRecipients(r)
             \/ CreateTrail(r) \/ ReadShare(r) \/ ReadSharedFile(r) \/ ReadSharerRole(r)
             \/ FindRecipient(r) \/ ManageTrail(r) \/ ReadLink(r) \/ SignLink(r) \/ Crash(r)
    BY <2>1, <1>7 DEF CreateReadsFile, CreateReadsRole, LookupRecipients, CreateTrail, ReadShare,
       ReadSharedFile, ReadSharerRole, FindRecipient, ManageTrail, ReadLink, SignLink, Crash
  <2>. QED
    BY <1>9, <2>1, <1>1, <1>2, <1>3, <1>4, <1>5 DEF Step
<1>. QED
  BY <1>6, <1>7, <1>8, <1>9 DEF ShareNext, Environment, TrashOrRestoreFile, ChangeRole

\* The status of a share never goes back, for any number of handlers that
\* revoke it, let it expire or change it at the same time.
THEOREM StatusAdvances == ShareSpec => StatusOnlyAdvances
<1>1. ShareTypeOK /\ [ShareNext]_shareVars =>
        [\A s \in DOMAIN shares :
            /\ s \in DOMAIN shares'
            /\ Progress[shares[s].status] <= Progress[shares'[s].status]]_shareVars
  BY StepCloses DEF Closing
<1>. QED
  BY <1>1, SharesTyped, PTL DEF ShareSpec, StatusOnlyAdvances

(***************************************************************************)
(* The audit trail                                                         *)
(***************************************************************************)

\* A handler past its first read holds the id of a row that exists, and one
\* that is about to write its trail entry has done what the entry will say.
Holding == {"share.file", "share.role", "update.recipient", "update.write", "remove.delete",
            "revoke.write", "manage.trail", "create.trail", "verify.expire", "verify.sign"}

OpFits(at, op) == /\ at \in {"update.recipient", "update.write"} => op = "update"
                  /\ at = "remove.delete" => op = "remove"
                  /\ at = "revoke.write" => op = "revoke"

HandlerHolds(r) ==
    /\ req[r].at \in Holding => req[r].share \in DOMAIN shares
    /\ OpFits(req[r].at, req[r].op)
    /\ req[r].at = "manage.trail" =>
         /\ req[r].op = "revoke" => shares[req[r].share].status = "REVOKED"
         /\ req[r].op = "remove" => req[r].target \notin shares[req[r].share].recipients

\* An entry names a row, and says of it what can no longer change.
EntryHolds(entry) ==
    /\ entry.share \in DOMAIN shares
    /\ entry.what = "SHARE_REVOKED" => shares[entry.share].status = "REVOKED"
    /\ entry.what = "SHARE_ACCESS_REMOVED" => entry.user \notin shares[entry.share].recipients

TrailInv == /\ ShareTypeOK
            /\ \A r \in Request : HandlerHolds(r)
            /\ \A entry \in trail : EntryHolds(entry)

\* What an entry says lasts, because shares only close.
LEMMA EntriesLast ==
  ASSUME TrailInv, ShareNext, NEW entry \in trail
  PROVE  EntryHolds(entry)'
<1>1. entry.share \in DOMAIN shares /\ Closing(entry.share)
  BY StepCloses DEF TrailInv, EntryHolds
<1>2. ShareTypeOK'
  BY StepType DEF TrailInv
<1>3. shares[entry.share].status \in Status /\ shares'[entry.share].status \in Status
  BY <1>1, <1>2 DEF TrailInv, ShareTypeOK, ShareRow, Closing
<1>4. shares[entry.share].status = "REVOKED" => shares'[entry.share].status = "REVOKED"
  BY <1>1, <1>3 DEF Closing, Status, Progress
<1>. QED
  BY <1>1, <1>4 DEF TrailInv, EntryHolds, Closing

\* So does what a handler holds while others make steps.
LEMMA OthersHold ==
  ASSUME TrailInv, ShareNext, NEW q \in Request, req'[q] = req[q]
  PROVE  HandlerHolds(q)'
<1>1. CASE req[q].at \in Holding
  <2>1. req[q].share \in DOMAIN shares /\ Closing(req[q].share)
    BY <1>1, StepCloses DEF TrailInv, HandlerHolds
  <2>2. ShareTypeOK'
    BY StepType DEF TrailInv
  <2>3. shares[req[q].share].status \in Status /\ shares'[req[q].share].status \in Status
    BY <2>1, <2>2 DEF TrailInv, ShareTypeOK, ShareRow, Closing
  <2>4. shares[req[q].share].status = "REVOKED" => shares'[req[q].share].status = "REVOKED"
    BY <2>1, <2>3 DEF Closing, Status, Progress
  <2>. QED
    BY <2>1, <2>4 DEF TrailInv, HandlerHolds, Closing
<1>2. CASE req[q].at \notin Holding
  BY <1>2 DEF TrailInv, HandlerHolds, Holding
<1>. QED
  BY <1>1, <1>2

\* A step that begins a request writes no entry and holds no row yet.
LEMMA BeginHolds ==
  ASSUME TrailInv, NEW r \in Request, Begin(r)
  PROVE  HandlerHolds(r)' /\ trail' = trail /\ \A q \in Request \ {r} : req'[q] = req[q]
<1>. DEFINE Fresh == {"create.file", "share.read", "verify.read"}
<1>1. ASSUME NEW state, Goto(r, state), state.at \in Fresh
      PROVE  HandlerHolds(r)' /\ \A q \in Request \ {r} : req'[q] = req[q]
  BY <1>1 DEF Goto, HandlerHolds, OpFits, Holding, TrailInv, ShareTypeOK
<1>2. ASSUME NEW u \in User, NEW body \in Body, BeginCreate(r, u, body)
      PROVE  trail' = trail /\ \E state : Goto(r, state) /\ state.at \in Fresh
  BY <1>2 DEF BeginCreate
<1>3. ASSUME NEW op, NEW u, NEW s, NEW t, NEW p, BeginManage(r, op, u, s, t, p)
      PROVE  trail' = trail /\ \E state : Goto(r, state) /\ state.at \in Fresh
  BY <1>3 DEF BeginManage
<1>4. ASSUME NEW s, NEW p, BeginVerify(r, s, p)
      PROVE  trail' = trail /\ \E state : Goto(r, state) /\ state.at \in Fresh
  BY <1>4 DEF BeginVerify
<1>5. trail' = trail /\ \E state : Goto(r, state) /\ state.at \in Fresh
  BY <1>2, <1>3, <1>4 DEF Begin
<1>. QED
  BY <1>1, <1>5

\* A step of a handler keeps what the handler itself holds.
LEMMA StepHolds ==
  ASSUME TrailInv, NEW r \in Request, Step(r)
  PROVE  HandlerHolds(r)' /\ \A q \in Request \ {r} : req'[q] = req[q]
<1>. DEFINE at(a) == [req[r] EXCEPT !.at = a]
<1>1. req \in [Request -> RequestState] /\ HandlerHolds(r)
  BY DEF TrailInv, ShareTypeOK
<1>2. \A state : Goto(r, state) => /\ req'[r] = state
                                  /\ \A q \in Request \ {r} : req'[q] = req[q]
  BY <1>1 DEF Goto
<1>3. Goto(r, Idle) => HandlerHolds(r)'
  BY <1>2 DEF HandlerHolds, OpFits, Holding, Idle
<1>4. CASE \/ CreateReadsFile(r) \/ CreateReadsRole(r) \/ LookupRecipients(r)
           \/ CreateTrail(r) \/ ManageTrail(r) \/ Expire(r) \/ SignLink(r) \/ Crash(r)
  <2>1. CASE CreateReadsFile(r) \/ CreateReadsRole(r) \/ LookupRecipients(r)
    <3>1. req[r] \in CreateState
      BY <2>1, StateOfStep
         DEF TrailInv, CreateReadsFile, CreateReadsRole, LookupRecipients, CreateAt
    <3>2. \A a \in CreateAt : at(a).at = a /\ a \notin Holding
      BY <3>1 DEF CreateState, CreateAt, Holding
    <3>3. Goto(r, Idle) \/ \E a \in CreateAt : Goto(r, at(a))
      BY <2>1 DEF CreateReadsFile, CreateReadsRole, LookupRecipients, GotoIf, CreateAt
    <3>4. ASSUME NEW a \in CreateAt, Goto(r, at(a)) PROVE HandlerHolds(r)'
      BY <1>2, <3>2, <3>4 DEF HandlerHolds, OpFits, Holding, CreateAt
    <3>. QED
      BY <1>2, <1>3, <3>3, <3>4
  <2>. QED
    BY <1>2, <1>3, <1>4, <2>1 DEF CreateTrail, ManageTrail, Expire, SignLink, Crash, Finish
<1>5. ASSUME NEW s \in Share, InsertShare(r, s)
      PROVE  HandlerHolds(r)' /\ \A q \in Request \ {r} : req'[q] = req[q]
  <2>1. s \in DOMAIN shares' /\ Goto(r, [at |-> "create.trail", share |-> s])
    BY <1>5 DEF InsertShare
  <2>. QED
    BY <1>2, <2>1 DEF HandlerHolds, OpFits
<1>6. CASE \/ ReadShare(r) \/ ReadSharedFile(r) \/ ReadSharerRole(r) \/ FindRecipient(r)
  <2>1. req[r] \in ManageState
    BY <1>6, StateOfStep
       DEF TrailInv, ReadShare, ReadSharedFile, ReadSharerRole, FindRecipient, ManageAt
  <2>2. req[r].share \in DOMAIN shares \/ Goto(r, Idle)
    BY <1>1, <1>6 DEF ReadShare, ReadSharedFile, ReadSharerRole, FindRecipient, GotoIf,
       HandlerHolds, Holding
  <2>. DEFINE Next3 == {"share.file", "share.role", "update.recipient", "update.write",
                        "remove.delete", "revoke.write"}
  <2>. DEFINE Moves == \E a \in Next3 : OpFits(a, req[r].op) /\ Goto(r, at(a))
  <2>3. shares' = shares /\ (Goto(r, Idle) \/ Moves)
    <3>1. CASE ReadSharerRole(r)
      BY <2>1, <3>1 DEF ReadSharerRole, GotoIf, ManageState, ManageOp, OpFits
    <3>2. CASE FindRecipient(r)
      BY <1>1, <3>2 DEF FindRecipient, GotoIf, HandlerHolds, OpFits
    <3>. QED
      BY <1>6, <3>1, <3>2 DEF ReadShare, ReadSharedFile, GotoIf, OpFits
  <2>4. ASSUME NEW a \in Next3, OpFits(a, req[r].op), Goto(r, at(a)),
               req[r].share \in DOMAIN shares
        PROVE  HandlerHolds(r)'
    <3>1. req'[r].at = a /\ req'[r].share = req[r].share /\ req'[r].op = req[r].op
      BY <1>2, <2>1, <2>4 DEF ManageState
    <3>. QED
      BY <2>3, <2>4, <3>1 DEF HandlerHolds
  <2>. QED
    BY <1>2, <1>3, <2>2, <2>3, <2>4
<1>7. CASE UpdatePermission(r) \/ RevokeWrite(r) \/ DeleteRecipient(r)
  <2>1. req[r] \in ManageState /\ req[r].share \in DOMAIN shares
    BY <1>1, <1>7, StateOfStep DEF TrailInv, UpdatePermission, RevokeWrite, DeleteRecipient,
       ManageAt, HandlerHolds, Holding
  <2>2. /\ at("manage.trail").at = "manage.trail"
        /\ at("manage.trail").share = req[r].share
        /\ at("manage.trail").op = req[r].op
        /\ at("manage.trail").target = req[r].target
    BY <2>1 DEF ManageState
  <2>3. DOMAIN shares' = DOMAIN shares
    BY <1>7 DEF UpdatePermission, RevokeWrite, DeleteRecipient, TrailInv, ShareTypeOK
  <2>4. Goto(r, Idle) \/ Goto(r, at("manage.trail"))
    BY <1>7 DEF UpdatePermission, RevokeWrite, DeleteRecipient, Continue, GotoIf
  <2>5. /\ UpdatePermission(r) => req[r].op = "update"
        /\ RevokeWrite(r) => /\ req[r].op = "revoke"
                             /\ shares'[req[r].share].status = "REVOKED"
        /\ DeleteRecipient(r) => /\ req[r].op = "remove"
                                 /\ req[r].target \notin shares'[req[r].share].recipients
    <3>1. ASSUME UpdatePermission(r)
          PROVE  req[r].op = "update"
      BY <1>1, <3>1 DEF UpdatePermission, HandlerHolds, OpFits
    <3>2. ASSUME RevokeWrite(r)
          PROVE  req[r].op = "revoke" /\ shares'[req[r].share].status = "REVOKED"
      BY <1>1, <2>1, <3>2 DEF RevokeWrite, HandlerHolds, OpFits, TrailInv, ShareTypeOK, ShareRow
    <3>3. ASSUME DeleteRecipient(r)
          PROVE  req[r].op = "remove" /\ req[r].target \notin shares'[req[r].share].recipients
      BY <1>1, <2>1, <3>3
         DEF DeleteRecipient, HandlerHolds, OpFits, TrailInv, ShareTypeOK, ShareRow
    <3>. QED
      BY <3>1, <3>2, <3>3
  <2>6. ASSUME Goto(r, at("manage.trail"))
        PROVE  HandlerHolds(r)'
    <3>1. /\ req'[r].at = "manage.trail" /\ req'[r].share = req[r].share
          /\ req'[r].op = req[r].op /\ req'[r].target = req[r].target
      BY <1>2, <2>2, <2>6
    <3>. QED
      BY <1>7, <2>1, <2>3, <2>5, <3>1 DEF HandlerHolds, OpFits
  <2>. QED
    BY <1>2, <1>3, <2>4, <2>6
<1>8. CASE ReadLink(r)
  <2>1. ASSUME NEW a \in {"verify.expire", "verify.sign"}, req[r].share \in DOMAIN shares,
               Goto(r, [at |-> a, share |-> req[r].share])
        PROVE  HandlerHolds(r)'
    BY <1>2, <1>8, <2>1 DEF ReadLink, HandlerHolds, OpFits
  <2>2. \/ Goto(r, Idle)
        \/ \E a \in {"verify.expire", "verify.sign"} :
              req[r].share \in DOMAIN shares /\ Goto(r, [at |-> a, share |-> req[r].share])
    BY <1>8 DEF ReadLink
  <2>. QED
    BY <1>2, <1>3, <2>1, <2>2
<1>. QED
  BY <1>4, <1>5, <1>6, <1>7, <1>8 DEF Step

\* Every entry that a step adds is true when it is added.
LEMMA EntriesHold ==
  ASSUME TrailInv, ShareNext, NEW entry \in trail'
  PROVE  EntryHolds(entry)'
<1>1. CASE entry \in trail
  BY <1>1, EntriesLast
<1>2. ASSUME NEW r \in Request, CreateTrail(r), entry \notin trail
      PROVE  EntryHolds(entry)'
  <2>1. entry = [what |-> "SHARE_CREATED", share |-> req[r].share] /\ shares' = shares
    BY <1>2 DEF CreateTrail
  <2>2. req[r].share \in DOMAIN shares
    BY <1>2 DEF CreateTrail, TrailInv, HandlerHolds, Holding
  <2>. QED
    BY <2>1, <2>2 DEF EntryHolds
<1>3. ASSUME NEW r \in Request, ManageTrail(r), entry \notin trail
      PROVE  EntryHolds(entry)'
  <2>1. entry = EntryOf(req[r]) /\ shares' = shares
    BY <1>3 DEF ManageTrail
  <2>2. req[r] \in ManageState /\ req[r].share \in DOMAIN shares /\ HandlerHolds(r)
    BY <1>3, StateOfStep DEF ManageTrail, ManageAt, TrailInv, HandlerHolds, Holding
  <2>3. req[r].at = "manage.trail"
    BY <1>3 DEF ManageTrail
  <2>. QED
    BY <2>1, <2>2, <2>3 DEF EntryOf, EntryHolds, HandlerHolds, ManageState, ManageOp
<1>4. ASSUME NEW r \in Request, Begin(r) \/ Step(r), ~CreateTrail(r), ~ManageTrail(r)
      PROVE  trail' = trail
  BY <1>4, BeginHolds DEF Step, CreateReadsFile, CreateReadsRole, LookupRecipients,
     InsertShare, ReadShare, ReadSharedFile, ReadSharerRole, FindRecipient, UpdatePermission,
     DeleteRecipient, RevokeWrite, ReadLink, Expire, SignLink, Crash
<1>5. Environment => trail' = trail
  BY DEF Environment, TimePasses, TrashOrRestoreFile, ChangeRole
<1>. QED
  BY <1>1, <1>2, <1>3, <1>4, <1>5 DEF ShareNext

LEMMA TrailInvStep ==
  ASSUME TrailInv, [ShareNext]_shareVars
  PROVE  TrailInv'
<1>1. CASE ShareNext
  <2>1. ShareTypeOK'
    BY <1>1, StepType DEF TrailInv
  <2>2. ASSUME NEW q \in Request
        PROVE  HandlerHolds(q)'
    <3>1. CASE Environment
      BY <1>1, <3>1, OthersHold DEF Environment, TimePasses, TrashOrRestoreFile, ChangeRole
    <3>2. ASSUME NEW r \in Request, Begin(r) \/ Step(r)
          PROVE  HandlerHolds(q)'
      <4>1. HandlerHolds(r)' /\ \A p \in Request \ {r} : req'[p] = req[p]
        BY <3>2, BeginHolds, StepHolds
      <4>. QED
        BY <1>1, <4>1, OthersHold
    <3>. QED
      BY <1>1, <3>1, <3>2 DEF ShareNext
  <2>. QED
    BY <1>1, <2>1, <2>2, EntriesHold DEF TrailInv
<1>2. CASE UNCHANGED shareVars
  BY <1>2, StutterType DEF TrailInv, shareVars, HandlerHolds, EntryHolds
<1>. QED
  BY <1>1, <1>2

LEMMA TrailInvInit == ShareInit => TrailInv
BY InitType DEF ShareInit, TrailInv, HandlerHolds, Holding, OpFits, Idle

\* What the trail says of a revoked share or of a removed recipient is true
\* of the lists and of the link for ever, whatever handlers overlap or stop.
THEOREM TrailIsTrue == ShareSpec => []TrailTellsTruth
<1>1. TrailInv => TrailTellsTruth
  <2>. SUFFICES ASSUME TrailInv, NEW entry \in trail
                PROVE  Truth(entry)
    BY DEF TrailTellsTruth
  <2>1. EntryHolds(entry) /\ entry \in Entry
    BY DEF TrailInv, ShareTypeOK
  <2>. QED
    BY <2>1 DEF EntryHolds, Entry, Truth, SharedByMe, SharedWithMe
<1>. QED
  BY <1>1, TrailInvInit, TrailInvStep, PTL DEF ShareSpec
=============================================================================
