------------------------------- MODULE Pages --------------------------------
(***************************************************************************)
(* Two pages of the web client: the trash (frontend/src/app/files/trash/    *)
(* page.tsx) and the organization (frontend/src/app/organization/page.tsx). *)
(* Their handlers stop at every call to the server; each ends with a load   *)
(* of the page, whose error is shown and not thrown.  What a list answers   *)
(* is left open, as are names, notices and the clipboard.                   *)
(***************************************************************************)
CONSTANTS
    Trashed,        \* ids of files that the trash can list
    NoRow,          \* no row is busy
    PageJob         \* handlers that can be under way together

ASSUME PagesAssumption == NoRow \notin Trashed /\ PageJob # {}

VARIABLES
    inTrash, trashLoading, trashError,
    busyRow,        \* busyId: the row whose buttons are off
    trashJobs,      \* trashJobs[j]: what handler j of the trash waits for
    orgRole,        \* org.role, "none" before the first answer
    orgBusy, orgError,
    orgJobs

trashVars == <<inTrash, trashLoading, trashError, busyRow, trashJobs>>
orgVars == <<orgRole, orgBusy, orgError, orgJobs>>
pageVars == <<trashVars, orgVars>>

\* A handler waits for its own call or for the load that ends it; "frees" says
\* that its finally block ends the busy state.
NoCall == [at |-> "none", frees |-> FALSE]
PageJobState == [at : {"none", "act", "load"}, frees : BOOLEAN]
PageLoad(frees) == [at |-> "load", frees |-> frees]
PageAct(frees) == [at |-> "act", frees |-> frees]

\* The load of the mounted page is under way; which handler carries it is one.
FirstLoad ==
    [j \in PageJob |->
        IF j = (CHOOSE first \in PageJob : TRUE) THEN PageLoad(FALSE) ELSE NoCall]

PagesInit ==
    /\ inTrash = {} /\ trashLoading = TRUE /\ trashError = FALSE /\ busyRow = NoRow
    /\ orgRole = "none" /\ orgBusy = FALSE /\ orgError = FALSE
    /\ trashJobs = FirstLoad
    /\ orgJobs = FirstLoad

-----------------------------------------------------------------------------
(* The trash                                                                 *)

TrashWaits(j, state) == trashJobs' = [trashJobs EXCEPT ![j] = state]

TrashHandlerEnds(j) ==
    /\ TrashWaits(j, NoCall)
    /\ busyRow' = IF trashJobs[j].frees THEN NoRow ELSE busyRow

\* load, up to its await
LoadTrash(j, frees) ==
    /\ trashLoading' = TRUE /\ trashError' = FALSE
    /\ TrashWaits(j, PageLoad(frees))

Refresh(j) ==
    /\ trashJobs[j] = NoCall /\ ~trashLoading
    /\ LoadTrash(j, FALSE)
    /\ UNCHANGED <<inTrash, busyRow>>

TrashLoaded(j) ==
    /\ trashJobs[j].at = "load"
    /\ trashLoading' = FALSE
    /\ \/ inTrash' \in SUBSET Trashed /\ UNCHANGED trashError
       \/ trashError' = TRUE /\ UNCHANGED inTrash
    /\ TrashHandlerEnds(j)

\* handleRestore and handleDeleteForever: a row that is not the busy one.
PressRow(j, f) ==
    /\ trashJobs[j] = NoCall /\ ~trashLoading
    /\ f \in inTrash /\ busyRow # f
    /\ busyRow' = f /\ trashError' = FALSE
    /\ TrashWaits(j, PageAct(TRUE))
    /\ UNCHANGED <<inTrash, trashLoading>>

\* handleEmptyTrash, also while the list loads.
PressEmpty(j) ==
    /\ trashJobs[j] = NoCall /\ inTrash # {}
    /\ trashError' = FALSE
    /\ TrashWaits(j, PageAct(FALSE))
    /\ UNCHANGED <<inTrash, trashLoading, busyRow>>

TrashActed(j) ==
    /\ trashJobs[j].at = "act"
    /\ \/ LoadTrash(j, trashJobs[j].frees) /\ UNCHANGED busyRow
       \/ trashError' = TRUE /\ TrashHandlerEnds(j) /\ UNCHANGED trashLoading
    /\ UNCHANGED inTrash

TrashStep(j) == TrashLoaded(j) \/ TrashActed(j)

TrashNext ==
    \E j \in PageJob :
        \/ TrashStep(j) \/ Refresh(j) \/ PressEmpty(j)
        \/ \E f \in Trashed : PressRow(j, f)

-----------------------------------------------------------------------------
(* The organization                                                          *)

OrgWaits(j, state) == orgJobs' = [orgJobs EXCEPT ![j] = state]

\* Mutant: the busy state ends with the handler's last statement, not finally.
OrgEndsIfDone(j, done) ==
    /\ OrgWaits(j, NoCall)
    /\ orgBusy' = IF orgJobs[j].frees /\ done THEN FALSE ELSE orgBusy

OrgEnds(j, done) ==
    /\ OrgWaits(j, NoCall)
    /\ orgBusy' = IF orgJobs[j].frees THEN FALSE ELSE orgBusy

\* save and invite
Submit(j) ==
    /\ orgJobs[j] = NoCall /\ orgRole = "ADMIN" /\ ~orgBusy
    /\ orgBusy' = TRUE /\ orgError' = FALSE
    /\ OrgWaits(j, PageAct(TRUE))
    /\ UNCHANGED orgRole

\* The role of a member, its removal, the end of an invitation: none of them
\* looks at the busy state.
ChangeMember(j) ==
    /\ orgJobs[j] = NoCall /\ orgRole = "ADMIN"
    /\ OrgWaits(j, PageAct(FALSE))
    /\ UNCHANGED <<orgRole, orgBusy, orgError>>

OrgActed(j) ==
    /\ orgJobs[j].at = "act"
    /\ \/ OrgWaits(j, PageLoad(orgJobs[j].frees)) /\ UNCHANGED <<orgBusy, orgError>>
       \/ OrgEnds(j, FALSE) /\ orgError' = TRUE
    /\ UNCHANGED orgRole

\* One of the three calls of load, the list of invitations, is answered to an
\* administrator only: for anyone else load fails, and the page keeps what it has.
OrgLoaded(j) ==
    /\ orgJobs[j].at = "load"
    /\ \/ orgRole' = "ADMIN" /\ UNCHANGED orgError
       \/ orgError' = TRUE /\ UNCHANGED orgRole
    /\ OrgEnds(j, TRUE)

OrgStep(j) == OrgActed(j) \/ OrgLoaded(j)

OrgNext == \E j \in PageJob : OrgStep(j) \/ Submit(j) \/ ChangeMember(j)

-----------------------------------------------------------------------------
PagesTypeOK ==
    /\ inTrash \subseteq Trashed /\ busyRow \in Trashed \cup {NoRow}
    /\ trashLoading \in BOOLEAN /\ trashError \in BOOLEAN
    /\ trashJobs \in [PageJob -> PageJobState]
    /\ orgRole \in {"none", "ADMIN"}
    /\ orgBusy \in BOOLEAN /\ orgError \in BOOLEAN
    /\ orgJobs \in [PageJob -> PageJobState]
=============================================================================
