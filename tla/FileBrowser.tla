---------------------------- MODULE FileBrowser -----------------------------
(***************************************************************************)
(* The file browser of the web client (frontend/src/components/file-        *)
(* browser, file-table, rename-modal, delete-modal): the list it shows, the *)
(* selection, the dialogs, and its handlers, which stop at every call to    *)
(* the server and use when they go on what they read before.  What the      *)
(* server answers is any list or a refusal.  Left out: labels, sorting,     *)
(* favorites, the errors that dialogs show, sharing and the version panel.  *)
(***************************************************************************)
EXTENDS Naturals

CONSTANTS
    FolderRow, FileRow,     \* ids of folders and of files
    Job                     \* handlers that can be under way together

ASSUME FileBrowserAssumption == FolderRow \cap FileRow = {} /\ Job # {}

VARIABLES
    mayChange,      \* canMutateContent(role, readOnly)
    rows,           \* the folders and files of the list
    selected,       \* selectedIds
    loading, error,
    dialog,         \* which of renameTarget and deleteTarget is set
    previewed,      \* previewTarget: its id, in a set
    jobs            \* jobs[j]: what handler j waits for

browserVars == <<mayChange, rows, selected, loading, error, dialog, previewed, jobs>>

Row == FolderRow \cup FileRow
NoJob == [at |-> "none"]
DialogKind == {"rename", "delete"}

\* A load, and the dialog that waits for it.
Load(dlg) == [at |-> "begin", closes |-> dlg]

JobState ==
    [at : {"none", "search", "create"}]
    \cup [at : {"begin", "favorites", "contents"}, closes : DialogKind \cup {"none"}]
    \cup [at : {"confirm"}, kind : DialogKind]
    \cup [at : {"preview"}, file : FileRow]
    \cup [at : {"trashFolders", "trashFiles"}, files : SUBSET FileRow]

\* canMutateContent, for the roles that a Team Folder gives; "none" is no role.
CanMutate(role, readOnly) == ~readOnly /\ role # "VIEWER"

BrowserInit ==
    /\ \E role \in {"none", "VIEWER", "EDITOR"}, readOnly \in BOOLEAN :
            mayChange = CanMutate(role, readOnly)
    /\ rows = {} /\ selected = {}
    /\ loading = TRUE /\ error = FALSE
    /\ dialog = "none" /\ previewed = {}
    /\ \E j \in Job : jobs = [x \in Job |-> IF x = j THEN Load("none") ELSE NoJob]

Begin(j, state) == jobs[j] = NoJob /\ jobs' = [jobs EXCEPT ![j] = state]
Continue(j, state) == jobs' = [jobs EXCEPT ![j] = state]
End(j) == Continue(j, NoJob)

-----------------------------------------------------------------------------
(* load                                                                      *)

\* The folder or the query of the route changes.
Navigate(j) ==
    /\ Begin(j, Load("none"))
    /\ selected' = {}
    /\ UNCHANGED <<mayChange, rows, loading, error, dialog, previewed>>

\* The Retry button, the empty search and onUploaded.
Reload(j) ==
    /\ Begin(j, Load("none"))
    /\ UNCHANGED <<mayChange, rows, selected, loading, error, dialog, previewed>>

LoadBegins(j) ==
    /\ jobs[j].at = "begin"
    /\ loading' = TRUE /\ error' = FALSE
    /\ Continue(j, [jobs[j] EXCEPT !.at = "favorites"])
    /\ UNCHANGED <<mayChange, rows, selected, dialog, previewed>>

FavoritesArrive(j) ==
    /\ jobs[j].at = "favorites"
    /\ Continue(j, [jobs[j] EXCEPT !.at = "contents"])
    /\ UNCHANGED <<mayChange, rows, selected, loading, error, dialog, previewed>>

\* onClose of the dialog that awaited the load; by now another may be open.
CloseDialog(kind) == dialog' = IF dialog = kind THEN "none" ELSE dialog

\* Mutant: only a list that has arrived ends the spinner.
SpinUnlessListed(failed) == loading' = failed

\* finally: also while a later load is still under way.
StopSpinner(failed) == loading' = FALSE

ContentsArrive(j) ==
    /\ jobs[j].at = "contents"
    /\ rows' \in SUBSET Row
    /\ StopSpinner(FALSE)
    /\ CloseDialog(jobs[j].closes)
    /\ End(j)
    /\ UNCHANGED <<mayChange, selected, error, previewed>>

\* The error goes to the banner: who awaits the load takes it for done.
LoadFails(j) ==
    /\ jobs[j].at \in {"favorites", "contents"}
    /\ error' = TRUE
    /\ StopSpinner(TRUE)
    /\ CloseDialog(jobs[j].closes)
    /\ End(j)
    /\ UNCHANGED <<mayChange, rows, selected, previewed>>

-----------------------------------------------------------------------------
(* The other handlers                                                        *)

Waits(j, state) ==
    /\ Begin(j, state)
    /\ UNCHANGED <<mayChange, rows, selected, loading, dialog, previewed>>

\* onSearch, with a query
Search(j) == Waits(j, [at |-> "search"]) /\ error' = FALSE

SearchEnds(j) ==
    /\ jobs[j].at = "search"
    /\ \/ rows' \in SUBSET Row /\ UNCHANGED error
       \/ error' = TRUE /\ UNCHANGED rows
    /\ End(j)
    /\ UNCHANGED <<mayChange, selected, loading, dialog, previewed>>

\* onCreateFolder; a refusal is nobody's to catch.
Create(j) == mayChange /\ Waits(j, [at |-> "create"]) /\ UNCHANGED error

CreateEnds(j) ==
    /\ jobs[j].at = "create"
    /\ Continue(j, Load("none")) \/ End(j)
    /\ UNCHANGED <<mayChange, rows, selected, loading, error, dialog, previewed>>

\* The rows of the table are there while nothing loads.
Listed(id) == ~loading /\ id \in rows

OpenDialog(kind, id) ==
    /\ mayChange /\ Listed(id) /\ dialog = "none"
    /\ dialog' = kind
    /\ UNCHANGED <<mayChange, rows, selected, loading, error, previewed, jobs>>

CancelDialog ==
    /\ dialog # "none"
    /\ dialog' = "none"
    /\ UNCHANGED <<mayChange, rows, selected, loading, error, previewed, jobs>>

\* submit and confirm; the button can be pressed again meanwhile.
Confirm(j) ==
    /\ dialog # "none"
    /\ Waits(j, [at |-> "confirm", kind |-> dialog])
    /\ UNCHANGED error

ConfirmEnds(j) ==
    /\ jobs[j].at = "confirm"
    /\ Continue(j, Load(jobs[j].kind)) \/ End(j)
    /\ UNCHANGED <<mayChange, rows, selected, loading, error, dialog, previewed>>

\* onPreview on a row, handlePrevFile and handleNextFile, which need the file
\* that is previewed in the list.
Preview(j, id) ==
    /\ id \in FileRow \cap rows
    /\ ~loading \/ (previewed # {} /\ previewed \subseteq rows)
    /\ Waits(j, [at |-> "preview", file |-> id])
    /\ UNCHANGED error

\* The preview opens even if it was closed since.
PreviewEnds(j) ==
    /\ jobs[j].at = "preview"
    /\ \/ previewed' = {jobs[j].file} /\ UNCHANGED error
       \/ error' = TRUE /\ UNCHANGED previewed
    /\ End(j)
    /\ UNCHANGED <<mayChange, rows, selected, loading, dialog>>

ClosePreview ==
    /\ previewed # {}
    /\ previewed' = {}
    /\ UNCHANGED <<mayChange, rows, selected, loading, error, dialog, jobs>>

\* handleSelectRow, handleSelectAll and the Deselect button
Select(ids) ==
    /\ \/ ~loading /\ \E id \in rows : ids \in {selected \cup {id}, selected \ {id}}
       \/ ~loading /\ ids = rows
       \/ ids = {}
    /\ selected' = ids
    /\ UNCHANGED <<mayChange, rows, loading, error, dialog, previewed, jobs>>

\* The Delete button of the toolbar, which is there for every role: folders
\* and then files, of those selected that the list still has.
TrashSelected(j) ==
    /\ selected # {}
    /\ LET files == selected \cap rows \cap FileRow
           folders == selected \cap rows \cap FolderRow
       IN  \/ folders # {} /\ Begin(j, [at |-> "trashFolders", files |-> files])
              /\ UNCHANGED selected
           \/ folders = {} /\ files # {} /\ Begin(j, [at |-> "trashFiles", files |-> files])
              /\ UNCHANGED selected
           \/ folders = {} /\ files = {} /\ Begin(j, Load("none"))
              /\ selected' = {}
    /\ UNCHANGED <<mayChange, rows, loading, error, dialog, previewed>>

\* A refusal leaves the selection and the list as they are.
TrashEnds(j) ==
    /\ jobs[j].at \in {"trashFolders", "trashFiles"}
    /\ \/ /\ jobs[j].at = "trashFolders" /\ jobs[j].files # {}
          /\ Continue(j, [jobs[j] EXCEPT !.at = "trashFiles"])
          /\ UNCHANGED selected
       \/ /\ jobs[j].at = "trashFiles" \/ jobs[j].files = {}
          /\ Continue(j, Load("none"))
          /\ selected' = {}
       \/ End(j) /\ UNCHANGED selected
    /\ UNCHANGED <<mayChange, rows, loading, error, dialog, previewed>>

JobStep(j) ==
    \/ LoadBegins(j) \/ FavoritesArrive(j) \/ ContentsArrive(j) \/ LoadFails(j)
    \/ SearchEnds(j) \/ CreateEnds(j) \/ ConfirmEnds(j)
    \/ PreviewEnds(j) \/ TrashEnds(j)

BrowserNext ==
    \/ \E j \in Job :
        \/ JobStep(j) \/ Navigate(j) \/ Reload(j) \/ Search(j) \/ Create(j) \/ Confirm(j)
        \/ TrashSelected(j)
        \/ \E id \in FileRow : Preview(j, id)
    \/ \E kind \in DialogKind, id \in Row : OpenDialog(kind, id)
    \/ \E ids \in SUBSET Row : Select(ids)
    \/ CancelDialog \/ ClosePreview

\* The server answers in the end, or the browser gives up.
BrowserFairness == \A j \in Job : WF_browserVars(JobStep(j))

BrowserSpec == BrowserInit /\ [][BrowserNext]_browserVars /\ BrowserFairness

-----------------------------------------------------------------------------
BrowserTypeOK ==
    /\ mayChange \in BOOLEAN
    /\ rows \subseteq Row /\ selected \subseteq Row
    /\ loading \in BOOLEAN /\ error \in BOOLEAN
    /\ dialog \in DialogKind \cup {"none"}
    /\ previewed \subseteq FileRow
    /\ jobs \in [Job -> JobState]

\* What the docs say and the code does not do: whoever may not change the content
\* of a Team Folder finds no control to do so, so none of the calls that create,
\* rename or trash is ever under way (specs/001-team-folders-acl/spec.md: 82;
\* file-browser.tsx: 268-284, where the Delete button asks for no role).
ViewersChangeNothing ==
    ~mayChange =>
        \A j \in Job : jobs[j].at \notin {"create", "confirm", "trashFolders", "trashFiles"}
=============================================================================
