----------------------------- MODULE WebClient ------------------------------
(***************************************************************************)
(* The parts of the web client that run beside each other in one page and   *)
(* share no state: the file preview, the upload queue, the file browser, and  *)
(* the pages of the trash and the organization.  Each behaviour exercises   *)
(* one of them.                                                             *)
(***************************************************************************)
EXTENDS Preview, UploadQueue, FileBrowser, Pages

VARIABLE widget     \* the part that this behaviour exercises

clientVars == <<widget, previewVars, uploadVars, browserVars, pageVars>>

ClientInit ==
    /\ widget \in {"preview", "upload", "browser", "trash", "organization"}
    /\ PreviewInit /\ UploadInit /\ BrowserInit /\ PagesInit
    /\ widget # "browser" => mayChange

ClientNext ==
    \/ /\ widget = "preview" /\ PreviewNext
       /\ UNCHANGED <<widget, uploadVars, browserVars, pageVars>>
    \/ /\ widget = "upload" /\ UploadNext
       /\ UNCHANGED <<widget, previewVars, browserVars, pageVars>>
    \/ /\ widget = "browser" /\ BrowserNext
       /\ UNCHANGED <<widget, previewVars, uploadVars, pageVars>>
    \/ /\ widget = "trash" /\ TrashNext
       /\ UNCHANGED <<widget, previewVars, uploadVars, browserVars, orgVars>>
    \/ /\ widget = "organization" /\ OrgNext
       /\ UNCHANGED <<widget, previewVars, uploadVars, browserVars, trashVars>>

\* The server answers in the end, or the browser gives up; a load of what is
\* exercised is under way from the start.
ClientSpec ==
    /\ ClientInit /\ [][ClientNext]_clientVars
    /\ PreviewFairness /\ UploadFairness
    /\ \A j \in Job : WF_browserVars(widget = "browser" /\ JobStep(j))
    /\ \A j \in PageJob : /\ WF_trashVars(widget = "trash" /\ TrashStep(j))
                          /\ WF_orgVars(widget = "organization" /\ OrgStep(j))

-----------------------------------------------------------------------------
\* The variables of every part have their types.
ClientTypeOK == PreviewTypeOK /\ UploadTypeOK /\ BrowserTypeOK /\ PagesTypeOK

\* The loading states that the handlers switch on and off themselves end: that of
\* the fetch behind a mounted preview, that of the browser's list and that of the
\* trash, the busy row of the trash and the busy forms of the organization page,
\* whatever fails and however fetches, loads and handlers overlap.  It says
\* nothing of the loading states inside the viewers, which RetryFetches and
\* FailureShown are about (preview-blob.ts: 25-69, file-browser.tsx: 84-116,
\* trash/page.tsx: 32-96, organization/page.tsx: 63-93).
SpinnersEnd ==
    /\ (opened = "yes" /\ blob.loading) ~> ~(opened = "yes" /\ blob.loading)
    /\ (widget = "browser" /\ loading) ~> ~loading
    /\ (widget = "trash" /\ trashLoading) ~> ~trashLoading
    /\ busyRow # NoRow ~> busyRow = NoRow
    /\ orgBusy ~> ~orgBusy
=============================================================================
