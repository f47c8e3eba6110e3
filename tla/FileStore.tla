------------------------------ MODULE FileStore ------------------------------
(***************************************************************************)
(* FilesService (backend/src/files/files.service.ts): the rows of files,   *)
(* file_versions and trash_entries, the bytes in the object store and the  *)
(* organization's quota counter, as the service's handlers change them; and *)
(* the files of a folder that FoldersService deletes permanently.          *)
(*                                                                         *)
(* A handler is a sequence of awaited statements; any other request may    *)
(* run between two of them.  A step of this specification is what happens  *)
(* up to the next await that another request can observe: one statement,   *)
(* or one $transaction.  req[r] holds what the handler read so far.        *)
(*                                                                         *)
(* Modelled requests are those that pass the permission checks; a refused  *)
(* request changes nothing.  Sizes are one unit per uploaded object; a     *)
(* content (size, mime type, hash, bytes) is named by the key it was       *)
(* uploaded under.                                                         *)
(***************************************************************************)
EXTENDS Naturals, FiniteSets

CONSTANTS
    File,           \* the ids randomUUID() hands to files
    Request,        \* handler invocations that can be in flight together
    MaxLegacy,      \* versions a file may have from before this release
    LegacyTrash,    \* bound: files that may be in the trash at start-up
    MaxFolderFiles, \* bound: files of a folder that is deleted permanently
    MaxVersions,    \* bound: newest number at which restoreVersion() is not called
    MaxEntries,     \* bound: open trash entries at which trash() is not called
    MaxUsedBytes,   \* bound: usedBytes at which upload-complete is not called
    QuotaBytes,     \* storage_quotas.quota_bytes, in objects
    StepsMayFail    \* TRUE: any await of a handler may throw, or the server die

ASSUME FileStoreAssumption ==
    /\ IsFiniteSet(File)
    /\ MaxLegacy \in Nat \ {0}
    /\ LegacyTrash \subseteq File
    /\ MaxFolderFiles \in Nat
    /\ MaxVersions \in Nat
    /\ MaxEntries \in Nat
    /\ MaxUsedBytes \in Nat
    /\ QuotaBytes \in Nat
    /\ StepsMayFail \in BOOLEAN

VARIABLES
    unused,         \* ids not handed out yet
    files,          \* files rows: a function on the ids that have one
    versions,       \* versions[f]: file_versions of f, a function on numbers
    openEntries,    \* openEntries[f]: trash_entries of f with restored_at NULL
    bytes,          \* storage keys with bytes behind them
    uploadUrls,     \* storage keys with a signed PUT URL
    usedBytes,      \* storage_quotas.used_bytes
    req             \* req[r]: the step handler r is about to run, its locals

vars == <<unused, files, versions, openEntries, bytes, uploadUrls, usedBytes, req>>

Number == Nat \ {0}

\* buildObjectKey(fileId, versionId): deterministic; a version id is named by
\* its file and number.
ObjectKey(f, n) == <<f, n>>

\* storage_objects rows, named by their storage key: the key of the version they
\* were uploaded for.  This release uploads version 1 only.
Key == File \X (1..MaxLegacy)

\* deleted_at: not set, set by the release before trash_entries, or by this one.
DeletedAt == {"null", "V1", "V2"}

FileRow == [deletedAt : DeletedAt,
            facts     : Key,      \* content that size, mime type, hash describe
            fileType  : Key]      \* content that file_type was derived from

VersionStatus == {"ACTIVE", "RESTORED", "SUPERSEDED"}
VersionRow == [object : Key, status : VersionStatus]

Idle == [at |-> "idle"]

\* A purge of the files in doomed together: one file of the trash, or those of a
\* folder.  Once todo is empty, doomed are the rows still to delete.
PurgeState ==
    [at : {"purge.count"}, doomed : SUBSET File, queue : SUBSET File, todo : SUBSET Key,
     folder : BOOLEAN]

RequestState ==
         [at : {"idle", "upload.commit"}]
    \cup [at : {"complete.exists", "complete.commit"}, file : File, number : Number,
           object : Key]
    \cup [at : {"restoreVersion.number"}, file : File, source : Number, object : Key]
    \cup [at : {"restoreVersion.commit"}, file : File, number : Number, object : Key]
    \cup [at : {"copy.commit"}, row : FileRow, object : Key]
    \cup [at : {"trash.update", "trash.entry", "restore.update", "restore.entries"},
          file : File]
    \cup PurgeState
    \cup [at : {"purge.bytes"}, object : Key, next : PurgeState]

-----------------------------------------------------------------------------
(* Tables *)

\* INSERT or UPDATE of one row.
WithRow(table, key, row) ==
    [k \in DOMAIN table \cup {key} |-> IF k = key THEN row ELSE table[k]]

WithoutRow(table, key) == [k \in DOMAIN table \ {key} |-> table[k]]

Trashed(f) == f \in DOMAIN files /\ files[f].deletedAt # "null"
Listed(f)  == f \in DOMAIN files /\ files[f].deletedAt = "null"

\* findFirst({ orderBy: { versionNumber: 'desc' } }) found number n.
IsNewest(f, n) ==
    /\ n \in DOMAIN versions[f]
    /\ \A m \in DOMAIN versions[f] : m <= n

Objects(f) == {versions[f][n].object : n \in DOMAIN versions[f]}

\* Mutant: the count leaves out files that are in the trash.
ReferencedByListed(o, doomed) ==
    \E g \in File \ doomed : Listed(g) /\ o \in Objects(g)

\* fileVersion.count({ storageObjectId, fileId: { notIn: doomed } }) > 0
ReferencedElsewhere(o, doomed) == \E g \in File \ doomed : o \in Objects(g)

\* The key createDownloadUrl and createVersionDownloadUrl sign.
SignedKey(f, n) == ObjectKey(f, n)

\* Bound: every upload and copy under way has a fresh id left to take.
IdsLeft ==
    Cardinality({r \in Request : req[r].at \in {"upload.commit", "copy.commit"}})
        < Cardinality(unused)

Goto(r, state) == req' = [req EXCEPT ![r] = state]
Finish(r)      == Goto(r, Idle)

-----------------------------------------------------------------------------
(* Files that exist at start-up come from an earlier release, which uploaded *)
(* and restored versions too; one with no version is what an interrupted     *)
(* folder copy leaves.  The migration marks a file that the earlier release  *)
(* had deleted as TRASHED and makes no trash entry for it.                    *)

\* Version n holds what was uploaded as version source[n].
LegacySource ==
    {source \in [1..MaxLegacy -> 1..MaxLegacy] : \A n \in 1..MaxLegacy : source[n] <= n}

\* The migration that added the status column made every existing row ACTIVE;
\* rows written under the new schema have older versions SUPERSEDED.
LegacyStatus(n, count, migrated) ==
    IF migrated \/ n = count THEN "ACTIVE" ELSE "SUPERSEDED"

Legacy(present, gone, count, source, migrated) ==
    /\ \A f \in File \ present : count[f] = 0
    /\ unused = File \ present
    /\ versions = [f \in File |->
                      [n \in 1..count[f] |->
                          [object |-> ObjectKey(f, source[f][n]),
                           status |-> LegacyStatus(n, count[f], migrated)]]]
    /\ files = [f \in present |->
                   LET newest == ObjectKey(f, source[f][IF count[f] = 0 THEN 1 ELSE count[f]])
                       deleted == IF migrated THEN "V1" ELSE "V2"
                   IN  [deletedAt |-> IF f \in gone THEN deleted ELSE "null",
                        facts |-> newest, fileType |-> newest]]
    /\ openEntries = [f \in File |-> IF f \in gone /\ ~migrated THEN 1 ELSE 0]
    /\ bytes = UNION {Objects(f) : f \in File}
    /\ uploadUrls = {}
    /\ usedBytes = Cardinality(bytes)
    /\ req = [r \in Request |-> Idle]

Init ==
    \E present \in SUBSET File : \E gone \in SUBSET (present \cap LegacyTrash),
       count \in [File -> 0..MaxLegacy], source \in [File -> LegacySource],
       migrated \in BOOLEAN :
        Legacy(present, gone, count, source, migrated)

-----------------------------------------------------------------------------
(* POST /files/upload-request *)

\* quota.assertAvailable: reads the counter and reserves nothing.
RequestUpload(r) ==
    /\ req[r] = Idle
    /\ usedBytes + 1 <= QuotaBytes
    /\ IdsLeft
    /\ Goto(r, [at |-> "upload.commit"])
    /\ UNCHANGED <<unused, files, versions, openEntries, bytes, uploadUrls, usedBytes>>

\* The transaction that creates File, StorageObject and FileVersion 1; the
\* signed PUT URL is handed out after it.
RequestUploadCommit(r, f) ==
    LET key == ObjectKey(f, 1) IN
    /\ req[r].at = "upload.commit"
    /\ f \in unused
    /\ unused' = unused \ {f}
    /\ files' = WithRow(files, f, [deletedAt |-> "null", facts |-> key, fileType |-> key])
    /\ versions' = [versions EXCEPT
                       ![f] = WithRow(@, 1, [object |-> key, status |-> "ACTIVE"])]
    /\ uploadUrls' = uploadUrls \cup {key}
    /\ Finish(r)
    /\ UNCHANGED <<openEntries, bytes, usedBytes>>

\* The client's PUT.  The URL is good for any number of PUTs, at any time: its
\* expiry only takes a PUT away that the client need not make.
PutBytes(key) ==
    /\ key \in uploadUrls
    /\ bytes' = bytes \cup {key}
    /\ UNCHANGED <<unused, files, versions, openEntries, uploadUrls, usedBytes, req>>

(* POST /files/upload-complete: may be called again for the same version.   *)

CompleteUpload(r, f, n) ==
    /\ req[r] = Idle
    /\ usedBytes < MaxUsedBytes
    /\ Listed(f)
    /\ n \in DOMAIN versions[f]
    /\ Goto(r, [at |-> "complete.exists", file |-> f, number |-> n,
                object |-> versions[f][n].object])
    /\ UNCHANGED <<unused, files, versions, openEntries, bytes, uploadUrls, usedBytes>>

\* storage.assertObjectExists throws when the key has no bytes.
CompleteUploadExists(r) ==
    /\ req[r].at = "complete.exists"
    /\ IF ObjectKey(req[r].file, req[r].number) \in bytes
       THEN Goto(r, [req[r] EXCEPT !.at = "complete.commit"])
       ELSE Finish(r)
    /\ UNCHANGED <<unused, files, versions, openEntries, bytes, uploadUrls, usedBytes>>

\* The transaction: quota increment, file facts := this version's facts.
CompleteUploadCommit(r) ==
    LET f == req[r].file
        content == req[r].object
    IN
    /\ req[r].at = "complete.commit"
    /\ f \in DOMAIN files
    /\ usedBytes' = usedBytes + 1
    /\ files' = [files EXCEPT ![f] = [@ EXCEPT !.facts = content, !.fileType = content]]
    /\ Finish(r)
    /\ UNCHANGED <<unused, versions, openEntries, bytes, uploadUrls>>

-----------------------------------------------------------------------------
(* POST /files/:id/versions/:n/restore *)

\* Mutant: the restored version points at the key derived from its own id, as
\* downloads do, instead of at the version's storage object.
RestoreVersionOwnKey(r, f, n) ==
    /\ req[r] = Idle
    /\ Listed(f)
    /\ n \in DOMAIN versions[f]
    /\ \A m \in DOMAIN versions[f] : m < MaxVersions
    /\ Goto(r, [at |-> "restoreVersion.number", file |-> f, source |-> n,
                object |-> ObjectKey(f, n)])
    /\ UNCHANGED <<unused, files, versions, openEntries, bytes, uploadUrls, usedBytes>>

\* findFirst of the file, not in the trash, with the version to restore.
RestoreVersion(r, f, n) ==
    /\ req[r] = Idle
    /\ Listed(f)
    /\ n \in DOMAIN versions[f]
    /\ \A m \in DOMAIN versions[f] : m < MaxVersions
    /\ Goto(r, [at |-> "restoreVersion.number", file |-> f, source |-> n,
                object |-> versions[f][n].object])
    /\ UNCHANGED <<unused, files, versions, openEntries, bytes, uploadUrls, usedBytes>>

\* Mutant: the next number is off by one.
RestoreVersionSkipsNumber(r) ==
    LET f == req[r].file IN
    /\ req[r].at = "restoreVersion.number"
    /\ \E newest \in DOMAIN versions[f] :
           /\ IsNewest(f, newest)
           /\ IF req[r].source = newest
              THEN Finish(r)
              ELSE Goto(r, [at |-> "restoreVersion.commit", file |-> f,
                            number |-> newest + 2, object |-> req[r].object])
    /\ UNCHANGED <<unused, files, versions, openEntries, bytes, uploadUrls, usedBytes>>

\* findFirst of the newest version: the current version is not restored (400),
\* otherwise the copy gets the next number.  The code reads the newest version
\* twice, for the check and for the number; a version that was not the newest at
\* the first read is not at the second, so one read stands for both.
RestoreVersionNumber(r) ==
    LET f == req[r].file IN
    /\ req[r].at = "restoreVersion.number"
    /\ \E newest \in DOMAIN versions[f] :
           /\ IsNewest(f, newest)
           /\ IF req[r].source = newest
              THEN Finish(r)
              ELSE Goto(r, [at |-> "restoreVersion.commit", file |-> f,
                            number |-> newest + 1, object |-> req[r].object])
    /\ UNCHANGED <<unused, files, versions, openEntries, bytes, uploadUrls, usedBytes>>

\* Mutant of Superseded: no lower bound on the number, and not only ACTIVE rows.
SupersededAll(number, n, status) == status # "SUPERSEDED"

\* Mutant of Superseded: only the row just below.
SupersededPrevious(number, n, status) == n = number - 1 /\ status = "ACTIVE"

\* where: { versionNumber: { lt: newVersionNumber }, status: ACTIVE }
Superseded(number, n, status) == n < number /\ status = "ACTIVE"

\* The version rows of f with the new row, after the updateMany.
RestoredRows(f, number, content) ==
    [n \in DOMAIN versions[f] \cup {number} |->
        IF n = number THEN [object |-> content,
                            status |-> IF Superseded(number, n, "RESTORED")
                                       THEN "SUPERSEDED" ELSE "RESTORED"]
        ELSE IF Superseded(number, n, versions[f][n].status)
             THEN [versions[f][n] EXCEPT !.status = "SUPERSEDED"]
             ELSE versions[f][n]]

\* Mutant: the maximum itself instead of the number after it, written over.
RestoreVersionOverwrites(r) ==
    LET f == req[r].file
        number == req[r].number - 1
        content == req[r].object
    IN
    /\ req[r].at = "restoreVersion.commit"
    /\ f \in DOMAIN files
    /\ versions' = [versions EXCEPT ![f] = RestoredRows(f, number, content)]
    /\ files' = [files EXCEPT ![f].facts = content]
    /\ Finish(r)
    /\ UNCHANGED <<unused, openEntries, bytes, uploadUrls, usedBytes>>

\* The transaction.  unique (file_id, version_number) refuses a number that
\* another restore has taken; it reads neither deleted_at nor the maximum again.
RestoreVersionCommit(r) ==
    LET f == req[r].file
        number == req[r].number
        content == req[r].object
    IN
    /\ req[r].at = "restoreVersion.commit"
    /\ f \in DOMAIN files
    /\ number \notin DOMAIN versions[f]
    /\ versions' = [versions EXCEPT ![f] = RestoredRows(f, number, content)]
    /\ files' = [files EXCEPT ![f].facts = content]
    /\ Finish(r)
    /\ UNCHANGED <<unused, openEntries, bytes, uploadUrls, usedBytes>>

-----------------------------------------------------------------------------
(* POST /files/:id/copy *)

\* findFirst of the file, not in the trash, with its newest version.
Copy(r, f) ==
    /\ req[r] = Idle
    /\ IdsLeft
    /\ Listed(f)
    /\ \E n \in DOMAIN versions[f] :
           /\ IsNewest(f, n)
           /\ Goto(r, [at |-> "copy.commit", row |-> files[f],
                       object |-> versions[f][n].object])
    /\ UNCHANGED <<unused, files, versions, openEntries, bytes, uploadUrls, usedBytes>>

\* Mutant: the copy's id can be handed out again.
CopyCommitKeepsId(r, g) ==
    /\ req[r].at = "copy.commit"
    /\ g \in unused
    /\ files' = WithRow(files, g, [req[r].row EXCEPT !.deletedAt = "null"])
    /\ versions' = [versions EXCEPT
           ![g] = WithRow(@, 1, [object |-> req[r].object, status |-> "ACTIVE"])]
    /\ Finish(r)
    /\ UNCHANGED <<unused, openEntries, bytes, uploadUrls, usedBytes>>

\* The transaction: a file with the row's facts and one version that shares
\* the storage object.
CopyCommit(r, g) ==
    /\ req[r].at = "copy.commit"
    /\ g \in unused
    /\ unused' = unused \ {g}
    /\ files' = WithRow(files, g, [req[r].row EXCEPT !.deletedAt = "null"])
    /\ versions' = [versions EXCEPT
           ![g] = WithRow(@, 1, [object |-> req[r].object, status |-> "ACTIVE"])]
    /\ Finish(r)
    /\ UNCHANGED <<openEntries, bytes, uploadUrls, usedBytes>>

-----------------------------------------------------------------------------
(* DELETE /files/:id (to the trash) and POST /files/:id/restore *)

\* Mutant: a file can be trashed again.
TrashAgain(r, f) ==
    /\ req[r] = Idle
    /\ openEntries[f] < MaxEntries
    /\ f \in DOMAIN files
    /\ Goto(r, [at |-> "trash.update", file |-> f])
    /\ UNCHANGED <<unused, files, versions, openEntries, bytes, uploadUrls, usedBytes>>

Trash(r, f) ==
    /\ req[r] = Idle
    /\ openEntries[f] < MaxEntries
    /\ Listed(f)
    /\ Goto(r, [at |-> "trash.update", file |-> f])
    /\ UNCHANGED <<unused, files, versions, openEntries, bytes, uploadUrls, usedBytes>>

TrashUpdate(r) ==
    /\ req[r].at = "trash.update"
    /\ req[r].file \in DOMAIN files
    /\ files' = [files EXCEPT ![req[r].file].deletedAt = "V2"]
    /\ Goto(r, [req[r] EXCEPT !.at = "trash.entry"])
    /\ UNCHANGED <<unused, versions, openEntries, bytes, uploadUrls, usedBytes>>

TrashEntry(r) ==
    /\ req[r].at = "trash.entry"
    /\ req[r].file \in DOMAIN files
    /\ openEntries' = [openEntries EXCEPT ![req[r].file] = @ + 1]
    /\ Finish(r)
    /\ UNCHANGED <<unused, files, versions, bytes, uploadUrls, usedBytes>>

Restore(r, f) ==
    /\ req[r] = Idle
    /\ Trashed(f)
    /\ Goto(r, [at |-> "restore.update", file |-> f])
    /\ UNCHANGED <<unused, files, versions, openEntries, bytes, uploadUrls, usedBytes>>

RestoreUpdate(r) ==
    /\ req[r].at = "restore.update"
    /\ req[r].file \in DOMAIN files
    /\ files' = [files EXCEPT ![req[r].file].deletedAt = "null"]
    /\ Goto(r, [req[r] EXCEPT !.at = "restore.entries"])
    /\ UNCHANGED <<unused, versions, openEntries, bytes, uploadUrls, usedBytes>>

\* updateMany({ fileId, restoredAt: null }): stamps every open entry.
RestoreEntries(r) ==
    /\ req[r].at = "restore.entries"
    /\ openEntries' = [openEntries EXCEPT ![req[r].file] = 0]
    /\ Finish(r)
    /\ UNCHANGED <<unused, files, versions, bytes, uploadUrls, usedBytes>>

-----------------------------------------------------------------------------
(* DELETE /files/:id/permanent, DELETE /files/trash (empty the trash), and      *)
(* DELETE /folders/:id/permanent, for the files of the folder.                 *)

\* Purge the doomed files, then the rest of the queue one by one.  Versions added
\* after this read only share objects their file already has, so the objects to
\* visit stay the same.
Purge(doomed, queue, folder) ==
    [at |-> "purge.count", doomed |-> doomed, queue |-> queue \ doomed,
     todo |-> UNION {Objects(f) : f \in doomed}, folder |-> folder]

\* Mutant: the file need not be in the trash.
PermanentDeleteAny(r, f) ==
    /\ req[r] = Idle
    /\ f \in DOMAIN files
    /\ Goto(r, Purge({f}, {}, FALSE))
    /\ UNCHANGED <<unused, files, versions, openEntries, bytes, uploadUrls, usedBytes>>

PermanentDelete(r, f) ==
    /\ req[r] = Idle
    /\ Trashed(f)
    /\ Goto(r, Purge({f}, {}, FALSE))
    /\ UNCHANGED <<unused, files, versions, openEntries, bytes, uploadUrls, usedBytes>>

\* Every trashed file the caller may read, one after another; with none, the
\* handler returns at once.
EmptyTrash(r, readable) ==
    /\ req[r] = Idle
    /\ \A f \in readable : Trashed(f)
    /\ IF readable = {}
       THEN UNCHANGED req
       ELSE \E f \in readable : Goto(r, Purge({f}, readable, FALSE))
    /\ UNCHANGED <<unused, files, versions, openEntries, bytes, uploadUrls, usedBytes>>

\* The files below the folder, in the trash or not.
FolderDelete(r, descendants) ==
    /\ req[r] = Idle
    /\ descendants # {}
    /\ Cardinality(descendants) <= MaxFolderFiles
    /\ Goto(r, Purge(descendants, {}, TRUE))
    /\ UNCHANGED <<unused, files, versions, openEntries, bytes, uploadUrls, usedBytes>>

\* The references of other files to one object are counted.
PurgeCount(r) ==
    LET state == req[r] IN
    /\ state.at = "purge.count"
    /\ \E o \in state.todo :
           LET rest == [state EXCEPT !.todo = @ \ {o}] IN
           IF ReferencedElsewhere(o, state.doomed)
           THEN Goto(r, rest)
           ELSE Goto(r, [at |-> "purge.bytes", object |-> o, next |-> rest])
    /\ UNCHANGED <<unused, files, versions, openEntries, bytes, uploadUrls, usedBytes>>

PurgeBytes(r) ==
    /\ req[r].at = "purge.bytes"
    /\ bytes' = bytes \ {req[r].object}
    /\ Goto(r, req[r].next)
    /\ UNCHANGED <<unused, files, versions, openEntries, uploadUrls, usedBytes>>

\* What is left after the row of f is gone.
AfterRow(r, f) ==
    LET rest == req[r].doomed \ {f}
        queue == req[r].queue
    IN
    IF rest # {} THEN Goto(r, [req[r] EXCEPT !.doomed = rest])
    ELSE IF queue = {} THEN Finish(r)
    ELSE \E g \in queue : Goto(r, Purge({g}, queue, req[r].folder))

\* file.delete.  file_versions.file_id is ON DELETE RESTRICT: the row of a file
\* with versions stays and the exception ends the handler.  Open entries
\* cascade away with a row that does go, and the handler continues.
PurgeRow(r) ==
    /\ req[r].at = "purge.count"
    /\ req[r].todo = {}
    /\ \E f \in req[r].doomed :
           IF f \in DOMAIN files /\ DOMAIN versions[f] = {}
           THEN /\ files' = WithoutRow(files, f)
                /\ openEntries' = [openEntries EXCEPT ![f] = 0]
                /\ AfterRow(r, f)
           ELSE /\ Finish(r)
                /\ UNCHANGED <<files, openEntries>>
    /\ UNCHANGED <<unused, versions, bytes, uploadUrls, usedBytes>>

-----------------------------------------------------------------------------
\* A statement that cannot succeed: its row is gone, or its key is taken.
Refused(r) ==
    \/ /\ req[r].at \in {"complete.commit", "trash.update", "trash.entry",
                         "restore.update"}
       /\ req[r].file \notin DOMAIN files
    \/ /\ req[r].at = "restoreVersion.commit"
       /\ req[r].number \in DOMAIN versions[req[r].file]

\* The handler ends here; what it has written stays.
Fail(r) ==
    /\ req[r] # Idle
    /\ StepsMayFail \/ Refused(r)
    /\ Finish(r)
    /\ UNCHANGED <<unused, files, versions, openEntries, bytes, uploadUrls, usedBytes>>

Begin(r) ==
    \/ RequestUpload(r)
    \/ \E f \in File : \E n \in DOMAIN versions[f] : CompleteUpload(r, f, n)
    \/ \E f \in File : \E n \in DOMAIN versions[f] : RestoreVersion(r, f, n)
    \/ \E f \in File : Copy(r, f)
    \/ \E f \in File : Trash(r, f)
    \/ \E f \in File : Restore(r, f)
    \/ \E f \in File : PermanentDelete(r, f)
    \/ \E readable \in SUBSET File : EmptyTrash(r, readable)
    \/ \E descendants \in SUBSET DOMAIN files : FolderDelete(r, descendants)

Continue(r) ==
    \/ \E f \in File : RequestUploadCommit(r, f)
    \/ CompleteUploadExists(r)
    \/ CompleteUploadCommit(r)
    \/ RestoreVersionNumber(r)
    \/ RestoreVersionCommit(r)
    \/ \E g \in File : CopyCommit(r, g)
    \/ TrashUpdate(r)
    \/ TrashEntry(r)
    \/ RestoreUpdate(r)
    \/ RestoreEntries(r)
    \/ PurgeCount(r)
    \/ PurgeBytes(r)
    \/ PurgeRow(r)
    \/ Fail(r)

Client == \E key \in uploadUrls : PutBytes(key)

Next == Client \/ \E r \in Request : Begin(r) \/ Continue(r)

Spec == Init /\ [][Next]_vars

\* The runtime keeps running a handler whose awaited statement has answered;
\* clients owe nothing.
FairSpec == Spec /\ \A r \in Request : WF_vars(Continue(r))

-----------------------------------------------------------------------------
(* Type invariant and safety *)

TypeOK ==
    /\ unused \subseteq File
    /\ DOMAIN files \subseteq File \ unused
    /\ files \in [DOMAIN files -> FileRow]
    /\ versions = [f \in File |-> versions[f]]
    /\ \A f \in File : /\ DOMAIN versions[f] \subseteq Number
                       /\ versions[f] \in [DOMAIN versions[f] -> VersionRow]
    /\ openEntries \in [File -> Nat]
    /\ bytes \subseteq Key
    /\ uploadUrls \subseteq Key
    /\ usedBytes \in Nat
    /\ req \in [Request -> RequestState]

\* The version numbers of a file have no gap, although restoreVersion() reads
\* the maximum before the transaction that inserts the next number.
VersionsContiguous ==
    \A f \in File : \A n \in DOMAIN versions[f] : 1..n \subseteq DOMAIN versions[f]

\* "Current = max version_number among non-superseded rows": the newest version
\* of a file is never SUPERSEDED, whatever order restores commit in, so the
\* version that downloads pick (highest number) is the current one.
CurrentIsNewest ==
    \A f \in File : \A n \in DOMAIN versions[f] :
        IsNewest(f, n) => versions[f][n].status # "SUPERSEDED"

\* A restore leaves no ACTIVE version behind: it supersedes the ACTIVE rows below
\* a number it chose earlier, and none can appear above it meanwhile.
RestoredEndsActive ==
    \A f \in File : \A m, n \in DOMAIN versions[f] :
        versions[f][n].status = "RESTORED" => versions[f][m].status # "ACTIVE"

HistoryKept ==
    \A f \in File : \A n \in DOMAIN versions[f] :
        /\ n \in DOMAIN versions'[f]
        /\ versions'[f][n].object = versions[f][n].object
        /\ versions'[f][n].status # versions[f][n].status =>
              /\ versions[f][n].status = "ACTIVE"
              /\ versions'[f][n].status = "SUPERSEDED"
              /\ \E m \in DOMAIN versions'[f] : m > n

\* "History is never destroyed": no step removes a version or changes what it
\* points at, and the only change of status is that a newer version supersedes
\* an ACTIVE one.
HistoryImmutable == [][HistoryKept]_vars

\* Ids not handed out have no versions.
UnusedAreBlank == \A f \in unused : DOMAIN versions[f] = {}

\* The number a restore is about to insert has no gap below it.
PendingNumbersFit ==
    \A r \in Request : req[r].at = "restoreVersion.commit" =>
        1..(req[r].number - 1) \subseteq DOMAIN versions[req[r].file]

\* What the four properties above need to be inductive: in-flight restores hold
\* numbers that are at most one above the newest, however stale.
HistoryInv ==
    /\ TypeOK
    /\ VersionsContiguous
    /\ CurrentIsNewest
    /\ RestoredEndsActive
    /\ UnusedAreBlank
    /\ PendingNumbersFit

\* Numbering by "read the maximum, insert, let the unique key refuse" behaves
\* like an append-only log per file: see VersionLog.
Log == INSTANCE VersionLog WITH
    Content <- Key,
    history <- [f \in File |-> [n \in DOMAIN versions[f] |-> versions[f][n].object]]

LogSpec == Log!Spec

-----------------------------------------------------------------------------
(* What holds while one request runs at a time *)

OneRequest == \A r, q \in Request : r = q

Quiet == \A r \in Request : req[r] = Idle

\* The files that a purge about to delete the bytes of o has before it.
Doomed(r, o) ==
    IF req[r].at = "purge.bytes" /\ req[r].object = o THEN req[r].next.doomed ELSE {}

\* "A StorageObject is physically deleted only when no other file_version row
\* references it": every reference to bytes that go is of a file in that purge.
SharedBytesSurvive ==
    [][\A o \in bytes \ bytes' : \E r \in Request : \A f \in File :
          o \in Objects(f) => f \in Doomed(r, o)]_vars

\* The trash ledger agrees with the rows: between requests, a file has one open
\* entry if this release put it in the trash, and none otherwise.
TrashLedger ==
    Quiet => \A f \in File :
        openEntries[f] =
            IF f \in DOMAIN files /\ files[f].deletedAt = "V2" THEN 1 ELSE 0

\* Bytes that go belong to files in the trash, or to the files of a folder that is
\* deleted permanently: a purge of the trash touches nothing that is listed, also
\* when a listed file shares an object with it.
LiveBytesSurvive ==
    [][\A o \in bytes \ bytes' : \E r \in Request : \A f \in File :
          o \in Objects(f) =>
              Trashed(f) \/ (f \in Doomed(r, o) /\ req[r].next.folder)]_vars

-----------------------------------------------------------------------------
(* What the documentation says and the code does not keep *)

\* files.size, mime_type, sha256_hash: "denormalized snapshot of the newest
\* version's content facts (kept in sync by service code)".
FactsFollowNewest ==
    \A f \in DOMAIN files : \A n \in DOMAIN versions[f] :
        IsNewest(f, n) => files[f].facts = versions[f][n].object

\* The same sentence names file_type.
FileTypeFollowsNewest ==
    \A f \in DOMAIN files : \A n \in DOMAIN versions[f] :
        IsNewest(f, n) => files[f].fileType = versions[f][n].object

\* Restoring an old version: "previous current becomes SUPERSEDED".
PreviousCurrentSuperseded ==
    [][\A f \in File : \A n \in DOMAIN versions[f] :
          IsNewest(f, n) /\ n + 1 \in DOMAIN versions'[f] =>
              versions'[f][n].status = "SUPERSEDED"]_vars

\* "Any historical version can be downloaded directly": if a version's object
\* has bytes, so has the key that a download of the version signs.
VersionsDownloadable ==
    \A f \in File : \A n \in DOMAIN versions[f] :
        versions[f][n].object \in bytes => SignedKey(f, n) \in bytes


\* "Quota accounting happens once per completed upload".
QuotaOncePerUpload == usedBytes <= Cardinality(UNION {Objects(f) : f \in File})
=============================================================================
