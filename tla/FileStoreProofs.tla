-------------------------- MODULE FileStoreProofs --------------------------
(***************************************************************************)
(* Proofs about FileStore, for any files, versions and contents.  With any  *)
(* number of requests in flight: types, the numbering of versions, and that *)
(* the version tables implement an append-only log per file.  With one      *)
(* request at a time: the trash ledger, and which bytes a purge deletes.    *)
(***************************************************************************)
EXTENDS FileStore, FiniteSetTheorems, SequenceTheorems, TLAPS

(***************************************************************************)
(* Type correctness                                                        *)
(***************************************************************************)

LEMMA InitTypeOK == Init => TypeOK
<1>. SUFFICES ASSUME Init PROVE TypeOK
  OBVIOUS
<1>. PICK present \in SUBSET File : \E gone \in SUBSET (present \cap LegacyTrash),
          count \in [File -> 0..MaxLegacy], source \in [File -> LegacySource],
          migrated \in BOOLEAN :
       Legacy(present, gone, count, source, migrated)
  BY DEF Init
<1>. PICK gone \in SUBSET (present \cap LegacyTrash),
          count \in [File -> 0..MaxLegacy], source \in [File -> LegacySource],
          migrated \in BOOLEAN :
       Legacy(present, gone, count, source, migrated)
  OBVIOUS
<1>. /\ MaxLegacy \in Nat \ {0}
     /\ \A f \in File : count[f] \in Nat /\ count[f] <= MaxLegacy
  BY FileStoreAssumption
<1>1. \A f \in File : \A n \in 1..MaxLegacy : ObjectKey(f, source[f][n]) \in Key
  <2>1. \A f \in File : source[f] \in [1..MaxLegacy -> 1..MaxLegacy]
    BY DEF LegacySource
  <2>. QED
    BY <2>1 DEF ObjectKey, Key
<1>. USE DEF Legacy
<1>2. /\ unused \subseteq File
      /\ DOMAIN files \subseteq File \ unused
  OBVIOUS
<1>3. files \in [DOMAIN files -> FileRow]
  <2>. SUFFICES ASSUME NEW f \in present PROVE files[f] \in FileRow
    OBVIOUS
  <2>. DEFINE newest == ObjectKey(f, source[f][IF count[f] = 0 THEN 1 ELSE count[f]])
  <2>1. newest \in Key
    BY <1>1
  <2>. QED
    BY <2>1 DEF FileRow, DeletedAt
<1>4. versions = [f \in File |-> versions[f]]
  OBVIOUS
<1>5. \A f \in File : /\ DOMAIN versions[f] \subseteq Number
                     /\ versions[f] \in [DOMAIN versions[f] -> VersionRow]
  BY <1>1 DEF Number, VersionRow, VersionStatus, LegacyStatus
<1>6. openEntries \in [File -> Nat] /\ uploadUrls \subseteq Key
  OBVIOUS
<1>7. bytes \subseteq Key
  BY <1>5 DEF Objects, VersionRow
<1>8. usedBytes \in Nat
  <2>1. IsFiniteSet(Key)
    <3>1. IsFiniteSet(1..MaxLegacy)
      BY FS_Interval
    <3>. QED
      BY <3>1, FileStoreAssumption, FS_Product DEF Key
  <2>. QED
    BY <1>7, <2>1, FS_Subset, FS_CardinalityType
<1>9. req \in [Request -> RequestState]
  BY DEF Idle, RequestState
<1>. QED
  BY <1>2, <1>3, <1>4, <1>5, <1>6, <1>7, <1>8, <1>9 DEF TypeOK

LEMMA FileRowTyped ==
  /\ \A row \in FileRow, d \in DeletedAt : [row EXCEPT !.deletedAt = d] \in FileRow
  /\ \A row \in FileRow, k \in Key : [row EXCEPT !.facts = k] \in FileRow
  /\ \A row \in FileRow, k \in Key : [row EXCEPT !.facts = k, !.fileType = k] \in FileRow
BY DEF FileRow

\* The rows of the tables after one file's rows are replaced.
LEMMA FilesTyped ==
  ASSUME TypeOK, NEW f, NEW row \in FileRow, files' = WithRow(files, f, row)
  PROVE  files' \in [DOMAIN files' -> FileRow]
BY DEF TypeOK, WithRow

LEMMA FileUpdateTyped ==
  ASSUME TypeOK, NEW f \in DOMAIN files, NEW row \in FileRow,
         files' = [files EXCEPT ![f] = row]
  PROVE  /\ DOMAIN files' = DOMAIN files
         /\ files' \in [DOMAIN files' -> FileRow]
BY DEF TypeOK

LEMMA VersionsTyped ==
  ASSUME TypeOK, NEW f \in File,
         NEW rows, DOMAIN rows \subseteq Number, rows \in [DOMAIN rows -> VersionRow],
         versions' = [versions EXCEPT ![f] = rows]
  PROVE  /\ versions' = [g \in File |-> versions'[g]]
         /\ \A g \in File : /\ DOMAIN versions'[g] \subseteq Number
                            /\ versions'[g] \in [DOMAIN versions'[g] -> VersionRow]
<1>1. \A g \in File : versions'[g] = IF g = f THEN rows ELSE versions[g]
  BY DEF TypeOK
<1>2. versions' = [g \in File |-> versions'[g]]
  BY DEF TypeOK
<1>. QED
  BY <1>1, <1>2 DEF TypeOK

LEMMA FirstVersionTyped ==
  ASSUME TypeOK, NEW f \in File, NEW row \in VersionRow
  PROVE  LET rows == WithRow(versions[f], 1, row)
         IN  DOMAIN rows \subseteq Number /\ rows \in [DOMAIN rows -> VersionRow]
BY DEF TypeOK, WithRow, Number

LEMMA PurgeTyped ==
  ASSUME TypeOK, NEW doomed \in SUBSET File, NEW queue \in SUBSET File,
         NEW folder \in BOOLEAN
  PROVE  Purge(doomed, queue, folder) \in RequestState
<1>1. \A f \in File : Objects(f) \subseteq Key
  BY DEF TypeOK, Objects, VersionRow
<1>. QED
  BY <1>1 DEF Purge, RequestState, PurgeState

LEMMA NextTypeOK == TypeOK /\ [Next]_vars => TypeOK'
<1>. SUFFICES ASSUME TypeOK, [Next]_vars PROVE TypeOK'
  OBVIOUS
<1>. USE DEF Goto, Finish, Idle, RequestState, PurgeState
<1>1. ASSUME NEW r \in Request, RequestUpload(r) PROVE TypeOK'
  BY <1>1 DEF TypeOK, RequestUpload
<1>2. ASSUME NEW r \in Request, NEW f \in File, RequestUploadCommit(r, f) PROVE TypeOK'
  <2>. DEFINE key == ObjectKey(f, 1)
  <2>1. key \in Key
    BY FileStoreAssumption DEF ObjectKey, Key
  <2>2. /\ [deletedAt |-> "null", facts |-> key, fileType |-> key] \in FileRow
        /\ [object |-> key, status |-> "ACTIVE"] \in VersionRow
    BY <2>1 DEF FileRow, DeletedAt, VersionRow, VersionStatus
  <2>. DEFINE row == [deletedAt |-> "null", facts |-> key, fileType |-> key]
              rows == WithRow(versions[f], 1, [object |-> key, status |-> "ACTIVE"])
  <2>3. files' = WithRow(files, f, row) /\ versions' = [versions EXCEPT ![f] = rows]
    BY <1>2 DEF RequestUploadCommit
  <2>4. DOMAIN rows \subseteq Number /\ rows \in [DOMAIN rows -> VersionRow]
    BY <2>2, FirstVersionTyped
  <2>5. req' \in [Request -> RequestState]
    BY <1>2 DEF TypeOK, RequestUploadCommit
  <2>6. /\ unused' \subseteq File
        /\ DOMAIN files' \subseteq File \ unused'
    BY <1>2 DEF TypeOK, RequestUploadCommit, WithRow
  <2>7. openEntries' = openEntries /\ bytes' = bytes /\ usedBytes' = usedBytes
        /\ uploadUrls' \subseteq Key
    BY <1>2, <2>1 DEF TypeOK, RequestUploadCommit
  <2>. HIDE DEF key, row, rows
  <2>8. files' \in [DOMAIN files' -> FileRow]
    BY <2>2, <2>3, FilesTyped DEF row
  <2>. QED
    BY <2>3, <2>4, <2>5, <2>6, <2>7, <2>8, VersionsTyped DEF TypeOK
<1>3. ASSUME NEW r \in Request, NEW f \in File, NEW n \in DOMAIN versions[f],
             CompleteUpload(r, f, n)
      PROVE TypeOK'
  BY <1>3 DEF TypeOK, CompleteUpload, Number, VersionRow
<1>4. ASSUME NEW r \in Request, CompleteUploadExists(r) PROVE TypeOK'
  BY <1>4 DEF TypeOK, CompleteUploadExists
<1>5. ASSUME NEW r \in Request, CompleteUploadCommit(r) PROVE TypeOK'
  <2>. DEFINE f == req[r].file
              content == req[r].object
              row == [files[f] EXCEPT !.facts = content, !.fileType = content]
  <2>1. f \in DOMAIN files /\ files' = [files EXCEPT ![f] = row]
    BY <1>5 DEF CompleteUploadCommit
  <2>2. content \in Key
    BY <1>5 DEF TypeOK, CompleteUploadCommit
  <2>3. row \in FileRow
    BY <2>1, <2>2, FileRowTyped DEF TypeOK
  <2>4. files' \in [DOMAIN files' -> FileRow] /\ DOMAIN files' = DOMAIN files
    BY <2>1, <2>3, FileUpdateTyped
  <2>. QED
    BY <1>5, <2>4 DEF TypeOK, CompleteUploadCommit
<1>6. ASSUME NEW r \in Request, NEW f \in File, NEW n \in DOMAIN versions[f],
             RestoreVersion(r, f, n)
      PROVE TypeOK'
  BY <1>6 DEF TypeOK, RestoreVersion, VersionRow
<1>7. ASSUME NEW r \in Request, RestoreVersionNumber(r) PROVE TypeOK'
  BY <1>7 DEF TypeOK, RestoreVersionNumber, IsNewest, Number
<1>8. ASSUME NEW r \in Request, RestoreVersionCommit(r) PROVE TypeOK'
  <2>. DEFINE f == req[r].file
              number == req[r].number
              content == req[r].object
              row == [files[f] EXCEPT !.facts = content]
              rows == versions'[f]
  <2>1. /\ f \in DOMAIN files /\ f \in File
        /\ number \in Number /\ content \in Key
    BY <1>8 DEF TypeOK, RestoreVersionCommit
  <2>2. files' = [files EXCEPT ![f] = row]
    BY <1>8 DEF RestoreVersionCommit
  <2>3. files' \in [DOMAIN files' -> FileRow] /\ DOMAIN files' = DOMAIN files
    BY <2>1, <2>2, FileRowTyped, FileUpdateTyped DEF TypeOK
  <2>4. DOMAIN rows \subseteq Number /\ rows \in [DOMAIN rows -> VersionRow]
    <3>1. rows = [n \in DOMAIN versions[f] \cup {number} |->
                    IF n = number THEN [object |-> content, status |-> "RESTORED"]
                    ELSE IF n < number
                         THEN IF versions[f][n].status = "ACTIVE"
                              THEN [versions[f][n] EXCEPT !.status = "SUPERSEDED"]
                              ELSE versions[f][n]
                         ELSE versions[f][n]]
      BY <1>8, <2>1 DEF TypeOK, RestoreVersionCommit, RestoredRows, Superseded, Number
    <3>2. [object |-> content, status |-> "RESTORED"] \in VersionRow
      BY <2>1 DEF VersionRow, VersionStatus
    <3>3. /\ DOMAIN versions[f] \subseteq Number
          /\ \A n \in DOMAIN versions[f] :
                /\ versions[f][n] \in VersionRow
                /\ [versions[f][n] EXCEPT !.status = "SUPERSEDED"] \in VersionRow
      BY SMTT(30), <2>1 DEF TypeOK, VersionRow, VersionStatus
    <3>. HIDE DEF rows
    <3>. QED
      BY <2>1, <3>1, <3>2, <3>3
  <2>5. versions' = [versions EXCEPT ![f] = rows]
    BY <1>8, <2>1 DEF TypeOK, RestoreVersionCommit
  <2>6. req' \in [Request -> RequestState]
    BY <1>8 DEF TypeOK, RestoreVersionCommit
  <2>7. UNCHANGED <<unused, openEntries, bytes, uploadUrls, usedBytes>>
    BY <1>8 DEF RestoreVersionCommit
  <2>. HIDE DEF f, row, rows
  <2>. QED
    BY <2>1, <2>3, <2>4, <2>5, <2>6, <2>7, VersionsTyped DEF TypeOK
<1>9. ASSUME NEW r \in Request, NEW f \in File, Copy(r, f) PROVE TypeOK'
  <2>1. files[f] \in FileRow
    BY <1>9 DEF TypeOK, Copy, Listed
  <2>. QED
    BY <1>9, <2>1 DEF TypeOK, Copy, VersionRow
<1>10. ASSUME NEW r \in Request, NEW g \in File, CopyCommit(r, g) PROVE TypeOK'
  <2>. DEFINE row == [req[r].row EXCEPT !.deletedAt = "null"]
              rows == WithRow(versions[g], 1,
                              [object |-> req[r].object, status |-> "ACTIVE"])
  <2>1. req[r].row \in FileRow /\ req[r].object \in Key
    BY <1>10 DEF TypeOK, CopyCommit
  <2>2. row \in FileRow
    BY <2>1, FileRowTyped DEF DeletedAt
  <2>3. files' = WithRow(files, g, row) /\ versions' = [versions EXCEPT ![g] = rows]
    BY <1>10 DEF CopyCommit
  <2>4. DOMAIN rows \subseteq Number /\ rows \in [DOMAIN rows -> VersionRow]
    BY <2>1, FirstVersionTyped DEF VersionRow, VersionStatus
  <2>5. req' \in [Request -> RequestState]
    BY <1>10 DEF TypeOK, CopyCommit
  <2>6. /\ unused' \subseteq File
        /\ DOMAIN files' \subseteq File \ unused'
    BY <1>10 DEF TypeOK, CopyCommit, WithRow
  <2>7. UNCHANGED <<openEntries, bytes, uploadUrls, usedBytes>>
    BY <1>10 DEF CopyCommit
  <2>. HIDE DEF row, rows
  <2>8. files' \in [DOMAIN files' -> FileRow]
    BY <2>2, <2>3, FilesTyped
  <2>. QED
    BY <2>3, <2>4, <2>5, <2>6, <2>7, <2>8, VersionsTyped DEF TypeOK
<1>11. ASSUME NEW r \in Request, NEW f \in File, Trash(r, f) PROVE TypeOK'
  BY <1>11 DEF TypeOK, Trash
<1>12. ASSUME NEW r \in Request, TrashUpdate(r) PROVE TypeOK'
  <2>. DEFINE f == req[r].file
              row == [files[f] EXCEPT !.deletedAt = "V2"]
  <2>1. f \in DOMAIN files /\ files' = [files EXCEPT ![f] = row]
    BY <1>12 DEF TrashUpdate
  <2>2. row \in FileRow
    BY <2>1, FileRowTyped DEF TypeOK, DeletedAt
  <2>3. files' \in [DOMAIN files' -> FileRow] /\ DOMAIN files' = DOMAIN files
    BY <2>1, <2>2, FileUpdateTyped
  <2>4. req' \in [Request -> RequestState]
    BY <1>12 DEF TypeOK, TrashUpdate
  <2>. QED
    BY <1>12, <2>3, <2>4 DEF TypeOK, TrashUpdate
<1>13. ASSUME NEW r \in Request, TrashEntry(r) PROVE TypeOK'
  BY <1>13 DEF TypeOK, TrashEntry
<1>14. ASSUME NEW r \in Request, NEW f \in File, Restore(r, f) PROVE TypeOK'
  BY <1>14 DEF TypeOK, Restore
<1>15. ASSUME NEW r \in Request, RestoreUpdate(r) PROVE TypeOK'
  <2>. DEFINE f == req[r].file
              row == [files[f] EXCEPT !.deletedAt = "null"]
  <2>1. f \in DOMAIN files /\ files' = [files EXCEPT ![f] = row]
    BY <1>15 DEF RestoreUpdate
  <2>2. row \in FileRow
    BY <2>1, FileRowTyped DEF TypeOK, DeletedAt
  <2>3. files' \in [DOMAIN files' -> FileRow] /\ DOMAIN files' = DOMAIN files
    BY <2>1, <2>2, FileUpdateTyped
  <2>4. req' \in [Request -> RequestState]
    BY <1>15 DEF TypeOK, RestoreUpdate
  <2>. QED
    BY <1>15, <2>3, <2>4 DEF TypeOK, RestoreUpdate
<1>16. ASSUME NEW r \in Request, RestoreEntries(r) PROVE TypeOK'
  BY <1>16 DEF TypeOK, RestoreEntries
<1>17. ASSUME NEW r \in Request, NEW f \in File, PermanentDelete(r, f) PROVE TypeOK'
  <2>1. Purge({f}, {}, FALSE) \in RequestState
    BY PurgeTyped
  <2>. QED
    BY <1>17, <2>1 DEF TypeOK, PermanentDelete
<1>18. ASSUME NEW r \in Request, NEW readable \in SUBSET File, EmptyTrash(r, readable)
       PROVE TypeOK'
  <2>. HIDE DEF RequestState, PurgeState
  <2>1. \A f \in readable : Purge({f}, readable, FALSE) \in RequestState
    BY PurgeTyped
  <2>. QED
    BY <1>18, <2>1 DEF TypeOK, EmptyTrash
<1>25. ASSUME NEW r \in Request, NEW descendants \in SUBSET DOMAIN files,
              FolderDelete(r, descendants)
       PROVE TypeOK'
  <2>1. Purge(descendants, {}, TRUE) \in RequestState
    BY PurgeTyped DEF TypeOK
  <2>. QED
    BY <1>25, <2>1 DEF TypeOK, FolderDelete
<1>19. ASSUME NEW r \in Request, PurgeCount(r) PROVE TypeOK'
  BY <1>19 DEF TypeOK, PurgeCount
<1>20. ASSUME NEW r \in Request, PurgeBytes(r) PROVE TypeOK'
  BY <1>20 DEF TypeOK, PurgeBytes
<1>21. ASSUME NEW r \in Request, PurgeRow(r) PROVE TypeOK'
  <2>1. /\ UNCHANGED <<unused, versions, bytes, uploadUrls, usedBytes>>
        /\ req[r] \in PurgeState /\ req[r].doomed \in SUBSET File
    BY <1>21 DEF TypeOK, PurgeRow
  <2>. PICK f \in req[r].doomed :
          \/ /\ files' = WithoutRow(files, f)
             /\ openEntries' = [openEntries EXCEPT ![f] = 0]
             /\ AfterRow(r, f)
          \/ req' = [req EXCEPT ![r] = Idle] /\ UNCHANGED <<files, openEntries>>
    BY <1>21 DEF PurgeRow
  <2>2. CASE /\ files' = WithoutRow(files, f)
             /\ openEntries' = [openEntries EXCEPT ![f] = 0]
             /\ AfterRow(r, f)
    <3>1. req' \in [Request -> RequestState]
      <4>1. [req[r] EXCEPT !.doomed = req[r].doomed \ {f}] \in RequestState
        BY <2>1
      <4>0. /\ req[r].queue \in SUBSET File /\ req[r].folder \in BOOLEAN
            /\ [at |-> "idle"] \in RequestState
        BY <2>1
      <4>. HIDE DEF RequestState, PurgeState
      <4>2. \A g \in req[r].queue : Purge({g}, req[r].queue, req[r].folder) \in RequestState
        BY <2>1, <4>0, PurgeTyped
      <4>. QED
        BY <2>2, <4>0, <4>1, <4>2 DEF AfterRow, TypeOK
    <3>2. /\ DOMAIN files' \subseteq DOMAIN files
          /\ files' \in [DOMAIN files' -> FileRow]
      BY <2>2 DEF TypeOK, WithoutRow
    <3>3. openEntries' \in [File -> Nat]
      BY <2>1, <2>2 DEF TypeOK
    <3>. QED
      BY <2>1, <3>1, <3>2, <3>3 DEF TypeOK
  <2>3. CASE req' = [req EXCEPT ![r] = Idle] /\ UNCHANGED <<files, openEntries>>
    BY <2>1, <2>3 DEF TypeOK
  <2>. QED
    BY <2>2, <2>3
<1>22. ASSUME NEW r \in Request, Fail(r) PROVE TypeOK'
  BY <1>22 DEF TypeOK, Fail
<1>23. ASSUME NEW key \in uploadUrls, PutBytes(key) PROVE TypeOK'
  BY <1>23 DEF TypeOK, PutBytes
<1>24. CASE UNCHANGED vars
  BY <1>24 DEF TypeOK, vars
<1>. QED
  BY <1>1, <1>2, <1>3, <1>4, <1>5, <1>6, <1>7, <1>8, <1>9, <1>10, <1>11, <1>12,
     <1>13, <1>14, <1>15, <1>16, <1>17, <1>18, <1>19, <1>20, <1>21, <1>22, <1>23,
     <1>24, <1>25
  DEF Next, Client, Begin, Continue

\* The tables, the keys and every handler's locals keep their types, whatever the
\* interleaving of handlers and wherever one of them stops.
THEOREM TypeCorrect == Spec => []TypeOK
<1>1. Init => TypeOK
  BY InitTypeOK
<1>2. TypeOK /\ [Next]_vars => TypeOK'
  BY NextTypeOK
<1>. QED
  BY <1>1, <1>2, PTL DEF Spec

(***************************************************************************)
(* The numbering of versions                                               *)
(*                                                                         *)
(* restoreVersion() picks a number from a maximum it read earlier.  What   *)
(* saves it is that a number in flight has no gap below it                 *)
(* (PendingNumbersFit): if the unique key lets it in, it is the one after  *)
(* the newest, however many restores committed in between.                 *)
(***************************************************************************)

\* HistoryInv without its typing: the part about one file.
FileHistory(f) ==
  \A n \in DOMAIN versions[f] :
     /\ 1..n \subseteq DOMAIN versions[f]
     /\ IsNewest(f, n) => versions[f][n].status # "SUPERSEDED"
     /\ versions[f][n].status = "RESTORED" =>
           \A m \in DOMAIN versions[f] : versions[f][m].status # "ACTIVE"

LEMMA HistoryInvByFile ==
  HistoryInv <=> /\ TypeOK
                 /\ \A f \in File : FileHistory(f)
                 /\ UnusedAreBlank
                 /\ PendingNumbersFit
BY DEF HistoryInv, FileHistory, VersionsContiguous, CurrentIsNewest, RestoredEndsActive

LEMMA InitHistoryInv == Init => HistoryInv
<1>. SUFFICES ASSUME Init PROVE HistoryInv
  OBVIOUS
<1>. PICK present \in SUBSET File : \E gone \in SUBSET (present \cap LegacyTrash),
          count \in [File -> 0..MaxLegacy], source \in [File -> LegacySource],
          migrated \in BOOLEAN :
       Legacy(present, gone, count, source, migrated)
  BY DEF Init
<1>. PICK gone \in SUBSET (present \cap LegacyTrash),
          count \in [File -> 0..MaxLegacy], source \in [File -> LegacySource],
          migrated \in BOOLEAN :
       Legacy(present, gone, count, source, migrated)
  OBVIOUS
<1>. USE DEF Legacy
<1>. MaxLegacy \in Nat /\ \A f \in File : count[f] \in Nat
  BY FileStoreAssumption
<1>1. ASSUME NEW f \in File PROVE FileHistory(f)
  <2>1. /\ DOMAIN versions[f] = 1..count[f]
        /\ \A n \in 1..count[f] : versions[f][n].status # "RESTORED"
        /\ \A n \in 1..count[f] : n = count[f] => versions[f][n].status = "ACTIVE"
    BY DEF LegacyStatus
  <2>. HIDE DEF Legacy
  <2>. QED
    BY SMTT(30), <2>1 DEF FileHistory, IsNewest
<1>2. UnusedAreBlank
  BY DEF UnusedAreBlank
<1>3. PendingNumbersFit
  BY DEF PendingNumbersFit, Idle
<1>. QED
  BY <1>1, <1>2, <1>3, InitTypeOK, HistoryInvByFile

\* A step that leaves the version tables alone, takes no id back, and puts no new
\* number in flight.
LEMMA HistoryUntouched ==
  ASSUME HistoryInv, TypeOK', UNCHANGED versions, unused' \subseteq unused,
         \A r \in Request : req'[r].at = "restoreVersion.commit" => req'[r] = req[r]
  PROVE  HistoryInv'
<1>1. \A f \in File : FileHistory(f)'
  BY HistoryInvByFile DEF FileHistory, IsNewest
<1>2. UnusedAreBlank' /\ PendingNumbersFit'
  BY DEF HistoryInv, UnusedAreBlank, PendingNumbersFit
<1>. QED
  BY <1>1, <1>2
  DEF HistoryInv, FileHistory, VersionsContiguous, CurrentIsNewest, RestoredEndsActive

\* A fresh id gets its version 1.
LEMMA HistoryFirstVersion ==
  ASSUME HistoryInv, TypeOK', NEW f \in unused, NEW row, row.status = "ACTIVE",
         versions' = [versions EXCEPT ![f] = WithRow(@, 1, row)],
         unused' = unused \ {f},
         \A r \in Request : req'[r].at = "restoreVersion.commit" => req'[r] = req[r]
  PROVE  HistoryInv'
<1>1. f \in File /\ DOMAIN versions[f] = {}
  BY DEF HistoryInv, TypeOK, UnusedAreBlank
<1>2. \A g \in File \ {f} : versions'[g] = versions[g]
  BY DEF HistoryInv, TypeOK
<1>3. DOMAIN versions'[f] = {1} /\ versions'[f][1] = row
  <2>1. versions'[f] = WithRow(versions[f], 1, row)
    BY <1>1 DEF HistoryInv, TypeOK
  <2>. QED
    BY <1>1, <2>1 DEF WithRow
<1>4. \A g \in File : FileHistory(g)'
  BY <1>1, <1>2, <1>3, HistoryInvByFile DEF FileHistory, IsNewest
<1>5. UnusedAreBlank'
  BY <1>1, <1>2 DEF HistoryInv, TypeOK, UnusedAreBlank
<1>6. PendingNumbersFit'
  <2>. SUFFICES ASSUME NEW r \in Request, req'[r].at = "restoreVersion.commit"
                PROVE  1..(req'[r].number - 1) \subseteq DOMAIN versions'[req'[r].file]
    BY DEF PendingNumbersFit
  <2>1. /\ req[r] = req'[r] /\ req[r].file \in File
        /\ 1..(req[r].number - 1) \subseteq DOMAIN versions[req[r].file]
    BY DEF HistoryInv, PendingNumbersFit, TypeOK, RequestState, PurgeState
  <2>. QED
    BY <1>1, <1>2, <2>1
<1>. QED
  BY <1>4, <1>5, <1>6
  DEF HistoryInv, FileHistory, VersionsContiguous, CurrentIsNewest, RestoredEndsActive

\* restoreVersion() reads the maximum: the number it will try has no gap below.
LEMMA HistoryNumber ==
  ASSUME HistoryInv, TypeOK', NEW r \in Request, RestoreVersionNumber(r)
  PROVE  HistoryInv'
<1>. DEFINE f == req[r].file
<1>1. f \in File /\ DOMAIN versions[f] \subseteq Number
  BY DEF HistoryInv, TypeOK, RestoreVersionNumber, RequestState, PurgeState
<1>2. PICK newest \in DOMAIN versions[f] :
        /\ 1..newest \subseteq DOMAIN versions[f]
        /\ \/ req' = [req EXCEPT ![r] = Idle]
           \/ req' = [req EXCEPT ![r] = [at |-> "restoreVersion.commit", file |-> f,
                                        number |-> newest + 1, object |-> req[r].object]]
  BY <1>1 DEF HistoryInv, VersionsContiguous, RestoreVersionNumber, Goto, Finish
<1>3. \A q \in Request : q # r => req'[q] = req[q]
  BY <1>2 DEF HistoryInv, TypeOK
<1>4. UNCHANGED <<versions, unused>>
  BY DEF RestoreVersionNumber
<1>5. \A g \in File : FileHistory(g)'
  BY <1>4, HistoryInvByFile DEF FileHistory, IsNewest
<1>6. UnusedAreBlank'
  BY <1>4 DEF HistoryInv, UnusedAreBlank
<1>7. PendingNumbersFit'
  <2>. SUFFICES ASSUME NEW q \in Request, req'[q].at = "restoreVersion.commit"
                PROVE  1..(req'[q].number - 1) \subseteq DOMAIN versions[req'[q].file]
    BY <1>4 DEF PendingNumbersFit
  <2>1. CASE q # r
    BY <1>3, <2>1 DEF HistoryInv, PendingNumbersFit
  <2>2. CASE q = r
    <3>1. req'[r].number = newest + 1 /\ req'[r].file = f
      BY <1>2, <2>2 DEF Idle, HistoryInv, TypeOK
    <3>. QED
      BY <1>1, <1>2, <2>2, <3>1 DEF Number
  <2>. QED
    BY <2>1, <2>2
<1>. QED
  BY <1>5, <1>6, <1>7
  DEF HistoryInv, FileHistory, VersionsContiguous, CurrentIsNewest, RestoredEndsActive

\* What the transaction of restoreVersion() does to the version table, given a
\* number with no gap below it that nobody has taken.
LEMMA RestoreVersionAppends ==
  ASSUME HistoryInv, NEW r \in Request, RestoreVersionCommit(r)
  PROVE  LET f == req[r].file
             number == req[r].number
         IN  /\ f \in File
             /\ number \in Number
             /\ DOMAIN versions[f] = 1..(number - 1)
             /\ DOMAIN versions'[f] = 1..number
             /\ \A g \in File \ {f} : versions'[g] = versions[g]
             /\ versions'[f][number] = [object |-> req[r].object, status |-> "RESTORED"]
             /\ \A n \in 1..(number - 1) :
                   versions'[f][n] = IF versions[f][n].status = "ACTIVE"
                                     THEN [versions[f][n] EXCEPT !.status = "SUPERSEDED"]
                                     ELSE versions[f][n]
<1>. DEFINE f == req[r].file
            number == req[r].number
<1>1. f \in File /\ number \in Number /\ DOMAIN versions[f] \subseteq Number
  BY DEF HistoryInv, TypeOK, RestoreVersionCommit, RequestState, PurgeState
<1>2. 1..(number - 1) \subseteq DOMAIN versions[f] /\ number \notin DOMAIN versions[f]
  BY DEF HistoryInv, PendingNumbersFit, RestoreVersionCommit
<1>3. \A n \in DOMAIN versions[f] : 1..n \subseteq DOMAIN versions[f]
  BY <1>1 DEF HistoryInv, VersionsContiguous
<1>4. \A n \in DOMAIN versions[f] : n < number
  BY <1>1, <1>2, <1>3 DEF Number
<1>5. DOMAIN versions[f] = 1..(number - 1)
  <2>1. \A n \in DOMAIN versions[f] : n \in 1..(number - 1)
    BY <1>1, <1>4 DEF Number
  <2>. QED
    BY <1>2, <2>1
<1>6. versions'[f] =
        [n \in DOMAIN versions[f] \cup {number} |->
            IF n = number THEN [object |-> req[r].object, status |-> "RESTORED"]
            ELSE IF n < number
                 THEN IF versions[f][n].status = "ACTIVE"
                      THEN [versions[f][n] EXCEPT !.status = "SUPERSEDED"]
                      ELSE versions[f][n]
                 ELSE versions[f][n]]
  BY <1>1 DEF HistoryInv, TypeOK, RestoreVersionCommit, RestoredRows, Superseded, Number
<1>7. \A g \in File \ {f} : versions'[g] = versions[g]
  BY <1>1 DEF HistoryInv, TypeOK, RestoreVersionCommit
<1>8. DOMAIN versions'[f] = 1..number
  BY <1>1, <1>5, <1>6 DEF Number
<1>. QED
  BY <1>1, <1>4, <1>5, <1>6, <1>7, <1>8 DEF Number

LEMMA HistoryRestore ==
  ASSUME HistoryInv, TypeOK', NEW r \in Request, RestoreVersionCommit(r)
  PROVE  HistoryInv'
<1>. PICK f \in File, number \in Number : f = req[r].file /\ number = req[r].number
  BY RestoreVersionAppends
<1>1. /\ f \in File
      /\ number \in Number
      /\ DOMAIN versions[f] = 1..(number - 1)
      /\ DOMAIN versions'[f] = 1..number
      /\ \A g \in File \ {f} : versions'[g] = versions[g]
      /\ versions'[f][number] = [object |-> req[r].object, status |-> "RESTORED"]
      /\ \A n \in 1..(number - 1) :
            versions'[f][n] = IF versions[f][n].status = "ACTIVE"
                              THEN [versions[f][n] EXCEPT !.status = "SUPERSEDED"]
                              ELSE versions[f][n]
  BY RestoreVersionAppends
<1>2. /\ unused' = unused
      /\ \A q \in Request : q # r => req'[q] = req[q]
      /\ req'[r] = Idle
  BY DEF HistoryInv, TypeOK, RestoreVersionCommit, Finish, Goto
<1>3. FileHistory(f)'
  <2>1. ASSUME NEW n \in 1..(number - 1) PROVE versions'[f][n].status # "ACTIVE"
    <3>1. versions[f][n] \in VersionRow
      BY <1>1 DEF HistoryInv, TypeOK
    <3>. QED
      BY <1>1, <3>1 DEF VersionRow
  <2>2. versions'[f][number].status = "RESTORED"
    BY <1>1
  <2>3. \A n \in 1..number : 1..n \subseteq DOMAIN versions'[f]
    BY <1>1 DEF Number
  <2>4. \A n \in 1..number : versions'[f][n].status # "ACTIVE"
    BY <1>1, <2>1, <2>2 DEF Number
  <2>5. \A n \in 1..number : IsNewest(f, n)' => n = number
    BY <1>1 DEF IsNewest, Number
  <2>. QED
    BY <1>1, <2>2, <2>3, <2>4, <2>5 DEF FileHistory
<1>4. \A g \in File : FileHistory(g)'
  <2>1. \A g \in File \ {f} : FileHistory(g)'
    BY <1>1, HistoryInvByFile DEF FileHistory, IsNewest
  <2>. QED
    BY <1>3, <2>1
<1>5. UnusedAreBlank'
  <2>1. number \in DOMAIN versions'[f] /\ f \in DOMAIN files
    BY <1>1 DEF RestoreVersionCommit, Number
  <2>2. f \notin unused
    BY <2>1 DEF HistoryInv, TypeOK
  <2>. QED
    BY <1>1, <1>2, <2>2 DEF HistoryInv, TypeOK, UnusedAreBlank
<1>6. PendingNumbersFit'
  <2>. SUFFICES ASSUME NEW q \in Request, req'[q].at = "restoreVersion.commit"
                PROVE  1..(req'[q].number - 1) \subseteq DOMAIN versions'[req'[q].file]
    BY DEF PendingNumbersFit
  <2>1. q # r /\ req'[q] = req[q]
    BY <1>2 DEF Idle
  <2>2. req[q].file \in File
    BY <2>1 DEF HistoryInv, TypeOK, RequestState, PurgeState
  <2>3. DOMAIN versions[req[q].file] \subseteq DOMAIN versions'[req[q].file]
    BY <1>1, <2>2 DEF Number
  <2>. QED
    BY <2>1, <2>3 DEF HistoryInv, PendingNumbersFit
<1>. QED
  BY <1>4, <1>5, <1>6
  DEF HistoryInv, FileHistory, VersionsContiguous, CurrentIsNewest, RestoredEndsActive

\* After a row, the handler is idle or still purging.
LEMMA PurgeRowGoesOn ==
  ASSUME TypeOK, NEW r \in Request, PurgeRow(r)
  PROVE  /\ req[r].at = "purge.count" /\ req'[r].at \in {"idle", "purge.count"}
         /\ \A q \in Request \ {r} : req'[q] = req[q]
<1>1. req[r].at = "purge.count" /\ req[r] \in PurgeState
  BY DEF TypeOK, PurgeRow, RequestState, PurgeState, Idle
<1>. PICK f \in req[r].doomed : AfterRow(r, f) \/ Finish(r)
  BY DEF PurgeRow
<1>2. [req[r] EXCEPT !.doomed = req[r].doomed \ {f}].at = "purge.count"
  BY <1>1 DEF PurgeState
<1>3. PICK state : /\ req' = [req EXCEPT ![r] = state]
                   /\ state.at \in {"idle", "purge.count"}
  BY <1>2 DEF AfterRow, Finish, Goto, Purge, Idle
<1>. QED
  BY <1>1, <1>3 DEF TypeOK

LEMMA NextHistoryInv == HistoryInv /\ [Next]_vars => HistoryInv'
<1>. SUFFICES ASSUME HistoryInv, [Next]_vars PROVE HistoryInv'
  OBVIOUS
<1>. TypeOK /\ TypeOK'
  BY NextTypeOK DEF HistoryInv
<1>. USE DEF Goto, Finish, Idle
<1>1. ASSUME NEW r \in Request, RequestUpload(r) PROVE HistoryInv'
  BY <1>1, HistoryUntouched DEF RequestUpload, TypeOK
<1>2. ASSUME NEW r \in Request, NEW f \in File, RequestUploadCommit(r, f) PROVE HistoryInv'
  <2>. DEFINE row == [object |-> ObjectKey(f, 1), status |-> "ACTIVE"]
  <2>1. /\ f \in unused /\ unused' = unused \ {f}
        /\ versions' = [versions EXCEPT ![f] = WithRow(@, 1, row)]
        /\ \A q \in Request : req'[q].at = "restoreVersion.commit" => req'[q] = req[q]
    BY <1>2 DEF RequestUploadCommit, TypeOK
  <2>2. row.status = "ACTIVE"
    OBVIOUS
  <2>. HIDE DEF row
  <2>. QED
    BY <2>1, <2>2, HistoryFirstVersion
<1>3. ASSUME NEW r \in Request, NEW f \in File, NEW n \in DOMAIN versions[f],
             CompleteUpload(r, f, n)
      PROVE HistoryInv'
  BY <1>3, HistoryUntouched DEF CompleteUpload, TypeOK
<1>4. ASSUME NEW r \in Request, CompleteUploadExists(r) PROVE HistoryInv'
  BY <1>4, HistoryUntouched DEF CompleteUploadExists, TypeOK, RequestState, PurgeState
<1>5. ASSUME NEW r \in Request, CompleteUploadCommit(r) PROVE HistoryInv'
  BY <1>5, HistoryUntouched DEF CompleteUploadCommit, TypeOK
<1>6. ASSUME NEW r \in Request, NEW f \in File, NEW n \in DOMAIN versions[f],
             RestoreVersion(r, f, n)
      PROVE HistoryInv'
  BY <1>6, HistoryUntouched DEF RestoreVersion, TypeOK
<1>7. ASSUME NEW r \in Request, RestoreVersionNumber(r) PROVE HistoryInv'
  BY <1>7, HistoryNumber
<1>8. ASSUME NEW r \in Request, RestoreVersionCommit(r) PROVE HistoryInv'
  BY <1>8, HistoryRestore
<1>9. ASSUME NEW r \in Request, NEW f \in File, Copy(r, f) PROVE HistoryInv'
  BY <1>9, HistoryUntouched DEF Copy, TypeOK
<1>10. ASSUME NEW r \in Request, NEW g \in File, CopyCommit(r, g) PROVE HistoryInv'
  <2>. DEFINE row == [object |-> req[r].object, status |-> "ACTIVE"]
  <2>1. /\ g \in unused /\ unused' = unused \ {g}
        /\ versions' = [versions EXCEPT ![g] = WithRow(@, 1, row)]
        /\ \A q \in Request : req'[q].at = "restoreVersion.commit" => req'[q] = req[q]
    BY <1>10 DEF CopyCommit, TypeOK
  <2>2. row.status = "ACTIVE"
    OBVIOUS
  <2>. HIDE DEF row
  <2>. QED
    BY <2>1, <2>2, HistoryFirstVersion
<1>11. ASSUME NEW r \in Request, NEW f \in File, Trash(r, f) PROVE HistoryInv'
  BY <1>11, HistoryUntouched DEF Trash, TypeOK
<1>12. ASSUME NEW r \in Request, TrashUpdate(r) PROVE HistoryInv'
  BY <1>12, HistoryUntouched DEF TrashUpdate, TypeOK, RequestState, PurgeState
<1>13. ASSUME NEW r \in Request, TrashEntry(r) PROVE HistoryInv'
  BY <1>13, HistoryUntouched DEF TrashEntry, TypeOK
<1>14. ASSUME NEW r \in Request, NEW f \in File, Restore(r, f) PROVE HistoryInv'
  BY <1>14, HistoryUntouched DEF Restore, TypeOK
<1>15. ASSUME NEW r \in Request, RestoreUpdate(r) PROVE HistoryInv'
  BY <1>15, HistoryUntouched DEF RestoreUpdate, TypeOK, RequestState, PurgeState
<1>16. ASSUME NEW r \in Request, RestoreEntries(r) PROVE HistoryInv'
  BY <1>16, HistoryUntouched DEF RestoreEntries, TypeOK
<1>17. ASSUME NEW r \in Request, NEW f \in File, PermanentDelete(r, f) PROVE HistoryInv'
  BY <1>17, HistoryUntouched DEF PermanentDelete, Purge, TypeOK
<1>18. ASSUME NEW r \in Request, NEW readable \in SUBSET File, EmptyTrash(r, readable)
       PROVE HistoryInv'
  BY <1>18, HistoryUntouched DEF EmptyTrash, Purge, TypeOK
<1>25. ASSUME NEW r \in Request, NEW descendants \in SUBSET DOMAIN files,
              FolderDelete(r, descendants)
       PROVE HistoryInv'
  BY <1>25, HistoryUntouched DEF FolderDelete, Purge, TypeOK
<1>19. ASSUME NEW r \in Request, PurgeCount(r) PROVE HistoryInv'
  BY <1>19, HistoryUntouched DEF PurgeCount, TypeOK, RequestState, PurgeState
<1>20. ASSUME NEW r \in Request, PurgeBytes(r) PROVE HistoryInv'
  BY <1>20, HistoryUntouched DEF PurgeBytes, TypeOK, RequestState, PurgeState
<1>21. ASSUME NEW r \in Request, PurgeRow(r) PROVE HistoryInv'
  <2>1. UNCHANGED versions /\ unused' \subseteq unused
    BY <1>21 DEF PurgeRow
  <2>2. \A q \in Request : req'[q].at = "restoreVersion.commit" => req'[q] = req[q]
    BY <1>21, PurgeRowGoesOn
  <2>. QED
    BY <2>1, <2>2, HistoryUntouched
<1>22. ASSUME NEW r \in Request, Fail(r) PROVE HistoryInv'
  BY <1>22, HistoryUntouched DEF Fail, TypeOK
<1>23. ASSUME NEW key \in uploadUrls, PutBytes(key) PROVE HistoryInv'
  BY <1>23, HistoryUntouched DEF PutBytes
<1>24. CASE UNCHANGED vars
  BY <1>24, HistoryUntouched DEF vars
<1>. QED
  BY <1>1, <1>2, <1>3, <1>4, <1>5, <1>6, <1>7, <1>8, <1>9, <1>10, <1>11, <1>12,
     <1>13, <1>14, <1>15, <1>16, <1>17, <1>18, <1>19, <1>20, <1>21, <1>22, <1>23,
     <1>24, <1>25
  DEF Next, Client, Begin, Continue

\* The inductive invariant holds in every reachable state.
THEOREM HistoryInvHolds == Spec => []HistoryInv
<1>1. Init => HistoryInv
  BY InitHistoryInv
<1>2. HistoryInv /\ [Next]_vars => HistoryInv'
  BY NextHistoryInv
<1>. QED
  BY <1>1, <1>2, PTL DEF Spec

\* Version numbers have no gap, although restoreVersion() reads the maximum before
\* the transaction that inserts the next number.
THEOREM Contiguous == Spec => []VersionsContiguous
<1>1. HistoryInv => VersionsContiguous
  BY DEF HistoryInv
<1>. QED
  BY <1>1, HistoryInvHolds, PTL

\* The newest version is never SUPERSEDED, so the version with the highest number,
\* which downloads pick, is the current one of the documentation.
THEOREM NewestIsCurrent == Spec => []CurrentIsNewest
<1>1. HistoryInv => CurrentIsNewest
  BY DEF HistoryInv
<1>. QED
  BY <1>1, HistoryInvHolds, PTL

\* A restore leaves no ACTIVE version, although it supersedes the ACTIVE rows below
\* a number it chose earlier.
THEOREM RestoreEndsActive == Spec => []RestoredEndsActive
<1>1. HistoryInv => RestoredEndsActive
  BY DEF HistoryInv
<1>. QED
  BY <1>1, HistoryInvHolds, PTL

\* The version tables change in two ways only.
LEMMA VersionsSteps ==
  ASSUME HistoryInv, [Next]_vars
  PROVE  \/ UNCHANGED versions
         \/ \E r \in Request, f \in unused : RequestUploadCommit(r, f)
         \/ \E r \in Request, f \in unused : CopyCommit(r, f)
         \/ \E r \in Request : RestoreVersionCommit(r)
<1>1. ASSUME NEW r \in Request, Begin(r) PROVE UNCHANGED versions
  BY <1>1 DEF Begin, RequestUpload, CompleteUpload, RestoreVersion, Copy, Trash,
              Restore, PermanentDelete, EmptyTrash, FolderDelete
<1>2. ASSUME NEW r \in Request, Continue(r)
      PROVE  \/ UNCHANGED versions
             \/ \E f \in unused : RequestUploadCommit(r, f)
             \/ \E f \in unused : CopyCommit(r, f)
             \/ RestoreVersionCommit(r)
  <2>1. CASE \/ CompleteUploadExists(r) \/ CompleteUploadCommit(r)
             \/ RestoreVersionNumber(r) \/ TrashUpdate(r) \/ TrashEntry(r)
             \/ RestoreUpdate(r) \/ RestoreEntries(r) \/ PurgeCount(r)
             \/ PurgeBytes(r) \/ PurgeRow(r) \/ Fail(r)
    BY <2>1 DEF CompleteUploadExists, CompleteUploadCommit, RestoreVersionNumber,
                TrashUpdate, TrashEntry, RestoreUpdate, RestoreEntries, PurgeCount,
                PurgeBytes, PurgeRow, Fail
  <2>2. CASE \E f \in File : RequestUploadCommit(r, f)
    BY <2>2 DEF RequestUploadCommit
  <2>3. CASE \E f \in File : CopyCommit(r, f)
    BY <2>3 DEF CopyCommit
  <2>. QED
    BY <1>2, <2>1, <2>2, <2>3 DEF Continue
<1>3. ASSUME Client PROVE UNCHANGED versions
  BY <1>3 DEF Client, PutBytes
<1>4. CASE UNCHANGED vars
  BY <1>4 DEF vars
<1>. QED
  BY <1>1, <1>2, <1>3, <1>4 DEF Next

\* A step keeps every version, what it points at, and its status unless a newer
\* version supersedes it.
LEMMA StepKeepsHistory == ASSUME HistoryInv, [Next]_vars PROVE HistoryKept
<1>1. CASE UNCHANGED versions
  BY <1>1 DEF HistoryKept
<1>2. ASSUME NEW g \in unused, NEW row, versions' = [versions EXCEPT ![g] = row]
      PROVE  HistoryKept
  <2>1. DOMAIN versions[g] = {}
    BY DEF HistoryInv, UnusedAreBlank
  <2>2. \A f \in File \ {g} : versions'[f] = versions[f]
    BY <1>2 DEF HistoryInv, TypeOK
  <2>. QED
    BY <2>1, <2>2 DEF HistoryKept
<1>3. ASSUME NEW r \in Request, RestoreVersionCommit(r) PROVE HistoryKept
  <2>. PICK f \in File, number \in Number : f = req[r].file /\ number = req[r].number
    BY <1>3, RestoreVersionAppends
  <2>1. /\ DOMAIN versions[f] = 1..(number - 1)
        /\ DOMAIN versions'[f] = 1..number
        /\ \A g \in File \ {f} : versions'[g] = versions[g]
        /\ \A n \in 1..(number - 1) :
              versions'[f][n] = IF versions[f][n].status = "ACTIVE"
                                THEN [versions[f][n] EXCEPT !.status = "SUPERSEDED"]
                                ELSE versions[f][n]
    BY <1>3, RestoreVersionAppends
  <2>2. ASSUME NEW n \in 1..(number - 1)
        PROVE  /\ n \in DOMAIN versions'[f] /\ number \in DOMAIN versions'[f] /\ number > n
               /\ versions'[f][n].object = versions[f][n].object
               /\ versions'[f][n].status # versions[f][n].status =>
                     /\ versions[f][n].status = "ACTIVE"
                     /\ versions'[f][n].status = "SUPERSEDED"
    <3>1. n \in 1..number /\ number \in 1..number /\ number > n
      BY DEF Number
    <3>2. versions[f][n] \in VersionRow
      BY <2>1 DEF HistoryInv, TypeOK
    <3>. QED
      BY <2>1, <3>1, <3>2 DEF VersionRow
  <2>3. \A g \in File \ {f} : \A n \in DOMAIN versions[g] :
           n \in DOMAIN versions'[g] /\ versions'[g][n] = versions[g][n]
    BY <2>1
  <2>4. \A n \in DOMAIN versions[f] : n \in 1..(number - 1)
    BY <2>1
  <2>. SUFFICES ASSUME NEW g \in File, NEW n \in DOMAIN versions[g]
                PROVE  /\ n \in DOMAIN versions'[g]
                       /\ versions'[g][n].object = versions[g][n].object
                       /\ versions'[g][n].status # versions[g][n].status =>
                             /\ versions[g][n].status = "ACTIVE"
                             /\ versions'[g][n].status = "SUPERSEDED"
                             /\ \E m \in DOMAIN versions'[g] : m > n
    BY DEF HistoryKept
  <2>5. CASE g = f
    BY <2>2, <2>4, <2>5
  <2>6. CASE g # f
    BY <2>3, <2>6
  <2>. QED
    BY <2>5, <2>6
<1>. QED
  BY <1>1, <1>2, <1>3, VersionsSteps DEF RequestUploadCommit, CopyCommit

\* No step removes a version, repoints it, or changes its status other than from
\* ACTIVE to SUPERSEDED by a newer one.
THEOREM HistoryNeverRewritten == Spec => HistoryImmutable
<1>1. HistoryInv /\ [Next]_vars => HistoryKept
  BY StepKeepsHistory
<1>. QED
  BY <1>1, HistoryInvHolds, PTL DEF Spec, HistoryImmutable

(***************************************************************************)
(* FileStore implements VersionLog                                         *)
(*                                                                         *)
(* The version tables are logs: the rows of a file are 1..k for some k, a  *)
(* content a handler holds is one that some file has, and no file has a    *)
(* content of an id that is not handed out yet, so what an upload adds is  *)
(* new and what a copy or a restore adds is not.                           *)
(***************************************************************************)

\* What a handler holds was read from a version that is still there.
Grounded(state) ==
  /\ state.at \in {"restoreVersion.number", "restoreVersion.commit"} =>
        state.object \in Objects(state.file)
  /\ state.at = "copy.commit" => \E g \in File : state.object \in Objects(g)

NumbersAreLog == \A f \in File : \E k \in Nat : DOMAIN versions[f] = 1..k

\* An object is named by the id it was uploaded for.
ObjectsHaveOwners == \A f \in File : \A o \in Objects(f) : o[1] \notin unused

LogInv ==
  /\ NumbersAreLog
  /\ ObjectsHaveOwners
  /\ \A r \in Request : Grounded(req[r])

LEMMA InitLogInv == Init => LogInv
<1>. SUFFICES ASSUME Init PROVE LogInv
  OBVIOUS
<1>. PICK present \in SUBSET File : \E gone \in SUBSET (present \cap LegacyTrash),
          count \in [File -> 0..MaxLegacy], source \in [File -> LegacySource],
          migrated \in BOOLEAN :
       Legacy(present, gone, count, source, migrated)
  BY DEF Init
<1>. PICK gone \in SUBSET (present \cap LegacyTrash),
          count \in [File -> 0..MaxLegacy], source \in [File -> LegacySource],
          migrated \in BOOLEAN :
       Legacy(present, gone, count, source, migrated)
  OBVIOUS
<1>. USE DEF Legacy
<1>. MaxLegacy \in Nat /\ \A f \in File : count[f] \in Nat
  BY FileStoreAssumption
<1>1. NumbersAreLog
  BY DEF NumbersAreLog
<1>2. ASSUME NEW f \in File, NEW o \in Objects(f) PROVE o[1] \notin unused
  <2>1. f \in present /\ o[1] = f
    BY DEF Objects, ObjectKey
  <2>. QED
    BY <2>1
<1>3. \A r \in Request : Grounded(req[r])
  BY DEF Grounded, Idle
<1>. QED
  BY <1>1, <1>2, <1>3 DEF LogInv, ObjectsHaveOwners

\* Of the handlers' steps, only the reads of a version put one in a handler's hand.
LEMMA GroundedReads ==
  ASSUME HistoryInv, LogInv, [Next]_vars, NEW q \in Request
  PROVE  Grounded(req'[q])
<1>. HistoryInv => TypeOK
  BY DEF HistoryInv
<1>0. /\ req \in [Request -> RequestState]
      /\ \A r \in Request : Grounded(req[r])
      /\ \A f \in File : \A n \in DOMAIN versions[f] : versions[f][n].object \in Objects(f)
  BY DEF TypeOK, LogInv, Objects
<1>. USE <1>0 DEF Goto, Finish, Idle
<1>1. ASSUME NEW r \in Request, Begin(r) PROVE Grounded(req'[q])
  <2>1. CASE RequestUpload(r)
    BY <2>1 DEF RequestUpload, Grounded
  <2>2. ASSUME NEW f \in File, NEW n \in DOMAIN versions[f],
               CompleteUpload(r, f, n) \/ RestoreVersion(r, f, n)
        PROVE Grounded(req'[q])
    BY <2>2 DEF CompleteUpload, RestoreVersion, Grounded
  <2>3. ASSUME NEW f \in File, Copy(r, f) PROVE Grounded(req'[q])
    BY <2>3 DEF Copy, Grounded
  <2>4. ASSUME NEW f \in File, Trash(r, f) \/ Restore(r, f) \/ PermanentDelete(r, f)
        PROVE Grounded(req'[q])
    BY <2>4 DEF Trash, Restore, PermanentDelete, Purge, Grounded
  <2>5. ASSUME NEW readable \in SUBSET File, EmptyTrash(r, readable)
        PROVE Grounded(req'[q])
    BY <2>5 DEF EmptyTrash, Purge, Grounded
  <2>6. ASSUME NEW descendants \in SUBSET DOMAIN files, FolderDelete(r, descendants)
        PROVE Grounded(req'[q])
    BY <2>6 DEF FolderDelete, Purge, Grounded
  <2>. QED
    BY <1>1, <2>1, <2>2, <2>3, <2>4, <2>5, <2>6 DEF Begin
<1>2. ASSUME NEW r \in Request, Continue(r) PROVE Grounded(req'[q])
  <2>1. CASE \/ CompleteUploadCommit(r) \/ RestoreVersionCommit(r) \/ TrashEntry(r)
             \/ RestoreEntries(r) \/ Fail(r)
             \/ (\E f \in File : RequestUploadCommit(r, f) \/ CopyCommit(r, f))
    <3>1. req' = [req EXCEPT ![r] = [at |-> "idle"]]
      BY <2>1 DEF CompleteUploadCommit, RestoreVersionCommit, TrashEntry, RestoreEntries,
                  Fail, RequestUploadCommit, CopyCommit
    <3>. QED
      BY <3>1 DEF Grounded
  <2>5. CASE CompleteUploadExists(r) \/ TrashUpdate(r) \/ RestoreUpdate(r)
    BY <2>5 DEF CompleteUploadExists, TrashUpdate, RestoreUpdate, Grounded, RequestState,
                PurgeState
  <2>2. CASE RestoreVersionNumber(r)
    BY <2>2 DEF RestoreVersionNumber, Grounded
  <2>3. CASE PurgeCount(r)
    BY <2>3 DEF PurgeCount, Grounded, RequestState, PurgeState
  <2>6. CASE PurgeRow(r)
    BY <2>6, PurgeRowGoesOn DEF Grounded
  <2>4. CASE PurgeBytes(r)
    BY <2>4 DEF PurgeBytes, Grounded, RequestState, PurgeState
  <2>. QED
    BY <1>2, <2>1, <2>2, <2>3, <2>4, <2>5, <2>6 DEF Continue
<1>3. CASE Client
  BY <1>3 DEF Client, PutBytes
<1>4. CASE UNCHANGED vars
  BY <1>4 DEF vars
<1>. QED
  BY <1>1, <1>2, <1>3, <1>4 DEF Next

LEMMA ObjectsStay ==
  ASSUME HistoryInv, [Next]_vars, NEW f \in File
  PROVE  Objects(f) \subseteq Objects(f)'
BY StepKeepsHistory DEF HistoryKept, Objects

LEMMA IdsNotTakenBack ==
  ASSUME [Next]_vars
  PROVE  unused' \subseteq unused
<1>1. ASSUME NEW r \in Request, Begin(r) PROVE unused' = unused
  BY <1>1 DEF Begin, RequestUpload, CompleteUpload, RestoreVersion, Copy, Trash,
              Restore, PermanentDelete, EmptyTrash, FolderDelete
<1>2. ASSUME NEW r \in Request, Continue(r) PROVE unused' \subseteq unused
  BY <1>2 DEF Continue, RequestUploadCommit, CompleteUploadExists, CompleteUploadCommit,
     RestoreVersionNumber, RestoreVersionCommit, CopyCommit, TrashUpdate, TrashEntry,
     RestoreUpdate, RestoreEntries, PurgeCount, PurgeBytes, PurgeRow, Fail
<1>3. CASE Client
  BY <1>3 DEF Client, PutBytes
<1>4. CASE UNCHANGED vars
  BY <1>4 DEF vars
<1>. QED
  BY <1>1, <1>2, <1>3, <1>4 DEF Next

\* The transactions of upload and copy give a fresh id its only version.
LEMMA FirstVersion ==
  ASSUME HistoryInv, NEW f \in unused, NEW row,
         versions' = [versions EXCEPT ![f] = WithRow(@, 1, row)]
  PROVE  /\ f \in File
         /\ DOMAIN versions[f] = {}
         /\ DOMAIN versions'[f] = {1}
         /\ versions'[f][1] = row
         /\ \A g \in File \ {f} : versions'[g] = versions[g]
<1>1. f \in File /\ DOMAIN versions[f] = {}
  BY DEF HistoryInv, TypeOK, UnusedAreBlank
<1>2. versions'[f] = WithRow(versions[f], 1, row)
  BY <1>1 DEF HistoryInv, TypeOK
<1>3. \A g \in File \ {f} : versions'[g] = versions[g]
  BY <1>1 DEF HistoryInv, TypeOK
<1>. QED
  BY <1>1, <1>2, <1>3 DEF WithRow

LEMMA NextLogInv == HistoryInv /\ LogInv /\ [Next]_vars => LogInv'
<1>. SUFFICES ASSUME HistoryInv, LogInv, [Next]_vars PROVE LogInv'
  OBVIOUS
<1>1. \A q \in Request : Grounded(req[q])'
  <2>. SUFFICES ASSUME NEW q \in Request PROVE Grounded(req[q])'
    OBVIOUS
  <2>1. Grounded(req'[q]) /\ req'[q] \in RequestState
    BY GroundedReads, NextHistoryInv DEF HistoryInv, TypeOK
  <2>2. req'[q].at \in {"restoreVersion.number", "restoreVersion.commit"} =>
           req'[q].file \in File
    BY <2>1 DEF RequestState, PurgeState
  <2>. QED
    BY <2>1, <2>2, ObjectsStay DEF Grounded
<1>. unused' \subseteq unused
  BY IdsNotTakenBack
<1>2. CASE UNCHANGED versions
  BY <1>1, <1>2 DEF LogInv, NumbersAreLog, ObjectsHaveOwners, Objects
<1>3. ASSUME NEW f \in unused, NEW row, versions' = [versions EXCEPT ![f] = WithRow(@, 1, row)],
             row.object[1] \notin unused'
      PROVE  LogInv'
  <2>1. NumbersAreLog'
    <3>1. \A g \in File \ {f} : \E k \in Nat : DOMAIN versions'[g] = 1..k
      BY <1>3, FirstVersion DEF LogInv, NumbersAreLog
    <3>2. DOMAIN versions'[f] = 1..1
      <4>1. DOMAIN versions'[f] = {1}
        BY <1>3, FirstVersion
      <4>. QED
        BY <4>1
    <3>. QED
      BY <3>1, <3>2 DEF NumbersAreLog
  <2>2. ObjectsHaveOwners'
    <3>1. /\ f \in File
          /\ Objects(f)' = {row.object}
          /\ \A g \in File \ {f} : versions'[g] = versions[g]
      <4>1. /\ f \in File
            /\ DOMAIN versions'[f] = {1}
            /\ versions'[f][1] = row
            /\ \A g \in File \ {f} : versions'[g] = versions[g]
        BY <1>3, FirstVersion
      <4>. QED
        BY <4>1 DEF Objects
    <3>2. \A g \in File \ {f} : Objects(g)' = Objects(g)
      BY <3>1 DEF Objects
    <3>. QED
      BY <1>3, <3>1, <3>2 DEF LogInv, ObjectsHaveOwners
  <2>. QED
    BY <1>1, <2>1, <2>2 DEF LogInv
<1>4. ASSUME NEW r \in Request, NEW f \in unused, RequestUploadCommit(r, f) PROVE LogInv'
  <2>. DEFINE row == [object |-> ObjectKey(f, 1), status |-> "ACTIVE"]
  <2>1. versions' = [versions EXCEPT ![f] = WithRow(@, 1, row)] /\ f \notin unused'
    BY <1>4 DEF RequestUploadCommit
  <2>2. row.object[1] = f
    BY DEF ObjectKey
  <2>. HIDE DEF row
  <2>. QED
    BY <1>3, <2>1, <2>2
<1>5. ASSUME NEW r \in Request, NEW f \in unused, CopyCommit(r, f) PROVE LogInv'
  <2>. DEFINE row == [object |-> req[r].object, status |-> "ACTIVE"]
  <2>1. versions' = [versions EXCEPT ![f] = WithRow(@, 1, row)]
    BY <1>5 DEF CopyCommit
  <2>2. row.object[1] \notin unused
    BY <1>5 DEF CopyCommit, LogInv, Grounded, ObjectsHaveOwners
  <2>. HIDE DEF row
  <2>. QED
    BY <1>3, <2>1, <2>2
<1>6. ASSUME NEW r \in Request, RestoreVersionCommit(r) PROVE LogInv'
  <2>. PICK f \in File, number \in Number : f = req[r].file /\ number = req[r].number
    BY <1>6, RestoreVersionAppends
  <2>1. /\ DOMAIN versions'[f] = 1..number
        /\ \A g \in File \ {f} : versions'[g] = versions[g]
        /\ versions'[f][number].object = req[r].object
        /\ \A n \in 1..(number - 1) :
              n \in DOMAIN versions[f] /\ versions'[f][n].object = versions[f][n].object
    <3>1. \A n \in 1..(number - 1) :
             n \in DOMAIN versions[f] /\ versions[f][n] \in VersionRow
      BY <1>6, RestoreVersionAppends DEF HistoryInv, TypeOK
    <3>2. \A row \in VersionRow : [row EXCEPT !.status = "SUPERSEDED"].object = row.object
      BY DEF VersionRow
    <3>. QED
      <4>1. /\ DOMAIN versions'[f] = 1..number
            /\ \A g \in File \ {f} : versions'[g] = versions[g]
            /\ versions'[f][number] = [object |-> req[r].object, status |-> "RESTORED"]
            /\ \A n \in 1..(number - 1) :
                  versions'[f][n] = IF versions[f][n].status = "ACTIVE"
                                    THEN [versions[f][n] EXCEPT !.status = "SUPERSEDED"]
                                    ELSE versions[f][n]
        BY <1>6, RestoreVersionAppends
      <4>2. versions'[f][number].object = req[r].object
        BY <4>1
      <4>. QED
        BY <3>1, <3>2, <4>1, <4>2
  <2>2. NumbersAreLog'
    BY <2>1 DEF LogInv, NumbersAreLog, Number
  <2>3. Objects(f)' \subseteq Objects(f) \cup {req[r].object}
    BY <2>1 DEF Objects, Number
  <2>4. req[r].object \in Objects(f)
    BY <1>6 DEF RestoreVersionCommit, LogInv, Grounded
  <2>5. \A g \in File : Objects(g)' \subseteq Objects(g)
    <3>1. \A g \in File \ {f} : Objects(g)' = Objects(g)
      BY <2>1 DEF Objects
    <3>. QED
      BY <2>3, <2>4, <3>1
  <2>. QED
    BY <1>1, <2>2, <2>5 DEF LogInv, ObjectsHaveOwners
<1>. QED
  BY <1>2, <1>4, <1>5, <1>6, VersionsSteps

\* The log under the mapping of a file with these version rows.
LogOf(rows) == [n \in DOMAIN rows |-> rows[n].object]

LEMMA RowsAreLog ==
  ASSUME NEW k \in Nat, NEW rows \in [1..k -> VersionRow]
  PROVE  LogOf(rows) \in Seq(Key) /\ Len(LogOf(rows)) = k
<1>1. LogOf(rows) \in [1..k -> Key]
  BY DEF LogOf, VersionRow
<1>2. LogOf(rows) \in Seq(Key)
  BY <1>1, SeqDef
<1>. QED
  BY <1>1, <1>2, LenProperties

\* A file without versions has the empty log; with version 1 only, a log of one.
LEMMA ShortLogs ==
  ASSUME NEW rows
  PROVE  /\ DOMAIN rows = {} => LogOf(rows) = << >>
         /\ DOMAIN rows = {1} => LogOf(rows) = <<rows[1].object>>
<1>1. ASSUME DOMAIN rows = {} PROVE LogOf(rows) = << >>
  BY <1>1 DEF LogOf
<1>2. ASSUME DOMAIN rows = {1} PROVE LogOf(rows) = <<rows[1].object>>
  BY <1>2 DEF LogOf
<1>. QED
  BY <1>1, <1>2

\* A restore makes the log of its file one longer.
LEMMA RestoreAppends ==
  ASSUME HistoryInv, TypeOK', NEW r \in Request, RestoreVersionCommit(r)
  PROVE  LET f == req[r].file
         IN  /\ f \in File
             /\ LogOf(versions'[f]) = Append(LogOf(versions[f]), req[r].object)
             /\ \A g \in File \ {f} : versions'[g] = versions[g]
<1>. PICK f \in File, number \in Number : f = req[r].file /\ number = req[r].number
  BY RestoreVersionAppends
<1>. DEFINE older == LogOf(versions[f])
            newer == LogOf(versions'[f])
            longer == Append(older, req[r].object)
<1>1. /\ DOMAIN versions[f] = 1..(number - 1)
      /\ DOMAIN versions'[f] = 1..number
      /\ \A g \in File \ {f} : versions'[g] = versions[g]
      /\ versions'[f][number] = [object |-> req[r].object, status |-> "RESTORED"]
  BY RestoreVersionAppends
<1>2. [Next]_vars
  BY DEF Next, Continue
<1>3. \A n \in 1..(number - 1) : versions'[f][n].object = versions[f][n].object
  BY <1>1, <1>2, StepKeepsHistory DEF HistoryKept
<1>4. number - 1 \in Nat /\ number \in Nat
  BY DEF Number
<1>5. older \in Seq(Key) /\ Len(older) = number - 1
  <2>1. versions[f] \in [1..(number - 1) -> VersionRow]
    BY <1>1 DEF HistoryInv, TypeOK
  <2>. QED
    BY <1>4, <2>1, RowsAreLog
<1>6. newer \in Seq(Key) /\ Len(newer) = number
  <2>1. versions'[f] \in [1..number -> VersionRow]
    BY <1>1 DEF TypeOK
  <2>. QED
    BY <1>4, <2>1, RowsAreLog
<1>7. /\ \A n \in 1..(number - 1) : newer[n] = older[n]
      /\ newer[number] = req[r].object
  BY SMTT(30), <1>1, <1>3 DEF LogOf, Number
<1>8. req[r].object \in Key
  BY DEF HistoryInv, TypeOK, RestoreVersionCommit, RequestState, PurgeState
<1>9. /\ longer \in Seq(Key)
      /\ Len(longer) = number
      /\ \A n \in 1..(number - 1) : longer[n] = older[n]
      /\ longer[number] = req[r].object
  BY <1>4, <1>5, <1>8, AppendProperties
<1>10. \A n \in 1..number : newer[n] = longer[n]
  BY <1>4, <1>7, <1>9
<1>. HIDE DEF older, newer, longer
<1>11. newer = longer
  BY <1>6, <1>9, <1>10, SeqEqual
<1>. QED
  BY <1>1, <1>11 DEF older, newer, longer

\* Numbering by "read the maximum, insert, let the unique key refuse" implements an
\* append-only log per file, with any number of requests in flight and whichever
\* fails: what an upload appends is new, what a copy or a restore appends is not.
THEOREM ImplementsLog == Spec => LogSpec
<1>. DEFINE log == [f \in File |-> [n \in DOMAIN versions[f] |-> versions[f][n].object]]
<1>0. \A f \in File : /\ log[f] = LogOf(versions[f])
                      /\ log'[f] = LogOf(versions'[f])
                      /\ Log!Contents(f) = Objects(f)
  BY DEF LogOf, Log!Contents, Objects
<1>1. HistoryInv /\ LogInv => Log!Init
  <2>. SUFFICES ASSUME HistoryInv, LogInv, NEW f \in File PROVE LogOf(versions[f]) \in Seq(Key)
    BY <1>0 DEF Log!Init
  <2>1. PICK k \in Nat : DOMAIN versions[f] = 1..k
    BY DEF LogInv, NumbersAreLog
  <2>2. versions[f] \in [1..k -> VersionRow]
    BY <2>1 DEF HistoryInv, TypeOK
  <2>. QED
    BY <2>2, RowsAreLog
<1>2. ASSUME HistoryInv, LogInv, [Next]_vars PROVE [Log!Next]_log
  <2>1. CASE UNCHANGED versions
    BY <2>1
  <2>2. ASSUME NEW f \in unused, NEW row,
               versions' = [versions EXCEPT ![f] = WithRow(@, 1, row)]
        PROVE  f \in File /\ log[f] = << >> /\ log' = [log EXCEPT ![f] = <<row.object>>]
    <3>1. /\ f \in File
          /\ DOMAIN versions[f] = {}
          /\ DOMAIN versions'[f] = {1}
          /\ versions'[f][1] = row
          /\ \A g \in File \ {f} : versions'[g] = versions[g]
      BY <1>2, <2>2, FirstVersion
    <3>2. LogOf(versions[f]) = << >> /\ LogOf(versions'[f]) = <<row.object>>
      BY <3>1, ShortLogs
    <3>. QED
      BY <1>0, <3>1, <3>2
  <2>3. ASSUME NEW r \in Request, NEW f \in unused, RequestUploadCommit(r, f)
        PROVE  Log!Next
    <3>. DEFINE key == ObjectKey(f, 1)
                row == [object |-> key, status |-> "ACTIVE"]
    <3>1. versions' = [versions EXCEPT ![f] = WithRow(@, 1, row)] /\ row.object = key
      BY <2>3 DEF RequestUploadCommit
    <3>2. key \in Key /\ f \in File
      BY <1>2, FileStoreAssumption DEF ObjectKey, Key, HistoryInv, TypeOK
    <3>3. \A g \in File : key \notin Log!Contents(g)
      <4>1. key[1] = f
        BY DEF ObjectKey
      <4>2. \A g \in File : key \notin Objects(g)
        BY <1>2, <4>1 DEF LogInv, ObjectsHaveOwners
      <4>. QED
        BY <1>0, <4>2
    <3>. HIDE DEF log, key, row
    <3>4. log[f] = << >> /\ log' = [log EXCEPT ![f] = <<key>>]
      BY <2>2, <3>1
    <3>5. Log!Upload(f, key)
      BY <3>3, <3>4 DEF Log!Upload, log
    <3>. QED
      BY <3>2, <3>5 DEF Log!Next
  <2>4. ASSUME NEW r \in Request, NEW f \in unused, CopyCommit(r, f)
        PROVE  Log!Next
    <3>. DEFINE row == [object |-> req[r].object, status |-> "ACTIVE"]
    <3>1. PICK g \in File : req[r].object \in Log!Contents(g)
      BY ZenonT(30), <1>0, <1>2, <2>4 DEF CopyCommit, LogInv, Grounded
    <3>2. versions' = [versions EXCEPT ![f] = WithRow(@, 1, row)]
          /\ row.object = req[r].object
      BY <2>4 DEF CopyCommit
    <3>. HIDE DEF log, row
    <3>3. log[f] = << >> /\ log' = [log EXCEPT ![f] = <<req[r].object>>] /\ f \in File
      BY ZenonT(30), <2>2, <3>2
    <3>4. Log!Copy(f, g)
      BY <3>1, <3>3 DEF Log!Copy, log
    <3>. QED
      BY <3>3, <3>4 DEF Log!Next
  <2>5. ASSUME NEW r \in Request, RestoreVersionCommit(r)
        PROVE  Log!Next
    <3>. PICK f \in File : f = req[r].file
      BY <1>2, <2>5, RestoreAppends, NextTypeOK DEF HistoryInv
    <3>1. /\ f \in File
          /\ LogOf(versions'[f]) = Append(LogOf(versions[f]), req[r].object)
          /\ \A g \in File \ {f} : versions'[g] = versions[g]
      BY <1>2, <2>5, RestoreAppends, NextTypeOK DEF HistoryInv
    <3>2. req[r].object \in Objects(f)
      BY <1>2, <2>5 DEF RestoreVersionCommit, LogInv, Grounded
    <3>3. PICK n \in DOMAIN log[f] : log[f][n] = req[r].object
      BY <3>1, <3>2 DEF Objects
    <3>4. log' = [log EXCEPT ![f] = Append(log[f], log[f][n])]
      <4>1. \A g \in File : log'[g] = IF g = f THEN Append(log[f], req[r].object)
                                     ELSE log[g]
        BY <1>0, <3>1
      <4>. QED
        BY <3>3, <4>1
    <3>5. Log!RestoreForward(f, n)
      BY <3>4 DEF Log!RestoreForward
    <3>6. \E g \in File : \E m \in DOMAIN log[g] : Log!RestoreForward(g, m)
      BY <3>1, <3>3, <3>5
    <3>. QED
      BY <3>6 DEF Log!Next
  <2>. QED
    BY <1>2, <2>1, <2>3, <2>4, <2>5, VersionsSteps
<1>3. Init => HistoryInv /\ LogInv
  BY InitHistoryInv, InitLogInv
<1>4. HistoryInv /\ LogInv /\ [Next]_vars => LogInv'
  BY NextLogInv
<1>. QED
  BY <1>1, <1>2, <1>3, <1>4, HistoryInvHolds, PTL DEF Spec, LogSpec, Log!Spec

(***************************************************************************)
(* One request at a time                                                   *)
(***************************************************************************)

\* This release put f in the trash.
Entered(f) == f \in DOMAIN files /\ files[f].deletedAt = "V2"

\* The handler has moved f into the trash and not written the entry, or out of the
\* trash and not stamped the entries.
Owes(state, f)   == state.at = "trash.entry" /\ state.file = f
Stamps(state, f) == state.at = "restore.entries" /\ state.file = f

Agrees(f, owed, stamped) ==
  stamped \/ openEntries[f] = IF Entered(f) /\ ~owed THEN 1 ELSE 0

\* What a handler of the trash has found or written holds until it ends.
TrashHands(state) ==
  /\ state.at \in {"trash.update", "restore.entries"} => Listed(state.file)
  /\ state.at = "trash.entry" => Entered(state.file)
  /\ state.at = "restore.update" => Trashed(state.file)

\* The entries of a file agree with its row, or the running handler is between the
\* two writes.
LedgerInv ==
  /\ \A f \in File : Agrees(f, \E r \in Request : Owes(req[r], f),
                               \E r \in Request : Stamps(req[r], f))
  /\ \A r \in Request : TrashHands(req[r])

\* A purge of the trash has only files in the trash before it, each once.
PurgesTrash(state) ==
  /\ \A f \in state.doomed : Trashed(f) \/ state.folder
  /\ \A g \in state.queue : Trashed(g)
  /\ state.doomed \cap state.queue = {}

\* The count of references that a purge made still holds when it deletes the bytes.
PurgeInv ==
  \A r \in Request :
     /\ req[r].at = "purge.count" => PurgesTrash(req[r])
     /\ req[r].at = "purge.bytes" => /\ PurgesTrash(req[r].next)
                                     /\ ~ReferencedElsewhere(req[r].object, req[r].next.doomed)

LEMMA LedgerOfOne ==
  ASSUME OneRequest, NEW r \in Request
  PROVE  LedgerInv <=> /\ \A f \in File : Agrees(f, Owes(req[r], f), Stamps(req[r], f))
                       /\ TrashHands(req[r])
<1>1. Request = {r}
  BY DEF OneRequest
<1>. QED
  BY <1>1 DEF LedgerInv, Agrees

\* What a step has to show of the new state.
LEMMA LedgerFrame ==
  ASSUME OneRequest, NEW r \in Request, TrashHands(req[r])',
         \A f \in File : Agrees(f, Owes(req[r], f), Stamps(req[r], f))'
  PROVE  LedgerInv'
<1>1. Request = {r}
  BY DEF OneRequest
<1>. QED
  BY <1>1 DEF LedgerInv, Agrees

\* A step of a handler that neither moves a file into or out of the trash nor writes
\* entries.
LEMMA LedgerPasses ==
  ASSUME OneRequest, LedgerInv, NEW r \in Request, UNCHANGED openEntries,
         \A f \in File : Entered(f)' <=> Entered(f),
         req[r].at \notin {"trash.entry", "restore.entries"},
         req'[r].at \notin {"trash.entry", "restore.entries"},
         TrashHands(req[r])'
  PROVE  LedgerInv'
<1>1. \A f \in File : Agrees(f, Owes(req[r], f), Stamps(req[r], f))
  BY LedgerOfOne
<1>2. \A f \in File : Agrees(f, Owes(req[r], f), Stamps(req[r], f))'
  BY <1>1 DEF Agrees, Owes, Stamps
<1>. QED
  BY <1>2, LedgerFrame

LEMMA InitLedgerInv == Init => LedgerInv
<1>. SUFFICES ASSUME Init PROVE LedgerInv
  OBVIOUS
<1>. PICK present \in SUBSET File : \E gone \in SUBSET (present \cap LegacyTrash),
          count \in [File -> 0..MaxLegacy], source \in [File -> LegacySource],
          migrated \in BOOLEAN :
       Legacy(present, gone, count, source, migrated)
  BY DEF Init
<1>. PICK gone \in SUBSET (present \cap LegacyTrash),
          count \in [File -> 0..MaxLegacy], source \in [File -> LegacySource],
          migrated \in BOOLEAN :
       Legacy(present, gone, count, source, migrated)
  OBVIOUS
<1>1. \A f \in File : openEntries[f] = IF Entered(f) THEN 1 ELSE 0
  BY DEF Legacy, Entered
<1>2. \A r \in Request : req[r] = [at |-> "idle"]
  BY DEF Legacy, Idle
<1>. QED
  BY <1>1, <1>2 DEF LedgerInv, Agrees, Owes, Stamps, TrashHands

LEMMA LedgerBegins ==
  ASSUME OneRequest, TypeOK, LedgerInv, NEW r \in Request, Begin(r)
  PROVE  LedgerInv'
<1>. USE DEF Goto, Idle
<1>1. req \in [Request -> RequestState] /\ req[r] = Idle
  BY DEF TypeOK, Begin, RequestUpload, CompleteUpload, RestoreVersion, Copy, Trash, Restore,
         PermanentDelete, EmptyTrash, FolderDelete
<1>2. UNCHANGED <<files, openEntries>>
  BY DEF Begin, RequestUpload, CompleteUpload, RestoreVersion, Copy, Trash, Restore,
         PermanentDelete, EmptyTrash, FolderDelete
<1>3. /\ req'[r].at \notin {"trash.entry", "restore.entries"}
      /\ req'[r].at = "trash.update" => Listed(req'[r].file)
      /\ req'[r].at = "restore.update" => Trashed(req'[r].file)
  BY <1>1 DEF Begin, RequestUpload, CompleteUpload, RestoreVersion, Copy, Trash, Restore,
         PermanentDelete, EmptyTrash, FolderDelete, Purge
<1>4. TrashHands(req[r])'
  BY <1>2, <1>3 DEF TrashHands, Trashed, Listed
<1>. QED
  BY <1>1, <1>2, <1>3, <1>4, LedgerPasses DEF Entered

LEMMA LedgerContinues ==
  ASSUME OneRequest, ~StepsMayFail, TypeOK, LedgerInv, NEW r \in Request, Continue(r)
  PROVE  LedgerInv'
<1>. USE DEF Goto, Finish, Idle
<1>0. /\ req \in [Request -> RequestState] /\ req[r] \in RequestState
      /\ openEntries \in [File -> Nat]
      /\ unused \subseteq File /\ DOMAIN files \subseteq File \ unused
      /\ TrashHands(req[r])
      /\ \A f \in File : Agrees(f, Owes(req[r], f), Stamps(req[r], f))
  BY LedgerOfOne DEF TypeOK
<1>1. ASSUME NEW f \in File, RequestUploadCommit(r, f) \/ CopyCommit(r, f) PROVE LedgerInv'
  <2>1. /\ req[r].at \in {"upload.commit", "copy.commit"} /\ req'[r] = [at |-> "idle"]
        /\ UNCHANGED openEntries
        /\ f \notin DOMAIN files /\ DOMAIN files' = DOMAIN files \cup {f}
        /\ \A g \in DOMAIN files : files'[g] = files[g]
    BY <1>0, <1>1 DEF RequestUploadCommit, CopyCommit, WithRow
  <2>2. files'[f].deletedAt = "null"
    <3>1. CASE RequestUploadCommit(r, f)
      BY <3>1 DEF RequestUploadCommit, WithRow
    <3>2. CASE CopyCommit(r, f)
      <4>1. files'[f] = [req[r].row EXCEPT !.deletedAt = "null"] /\ req[r].row \in FileRow
        BY <1>0, <3>2 DEF CopyCommit, WithRow, RequestState, PurgeState
      <4>. QED
        BY <4>1 DEF FileRow
    <3>. QED
      BY <1>1, <3>1, <3>2
  <2>. QED
    BY <2>1, <2>2, LedgerPasses DEF Entered, Listed, Trashed, TrashHands
<1>2. CASE CompleteUploadExists(r) \/ RestoreVersionNumber(r) \/ PurgeCount(r) \/ PurgeBytes(r)
  <2>1. /\ UNCHANGED <<files, openEntries>>
        /\ req[r].at \in {"complete.exists", "restoreVersion.number", "purge.count",
                          "purge.bytes"}
    BY <1>2 DEF CompleteUploadExists, RestoreVersionNumber, PurgeCount, PurgeBytes
  <2>2. req'[r].at \in {"idle", "complete.commit", "restoreVersion.commit", "purge.count",
                        "purge.bytes"}
    BY <1>0, <1>2 DEF CompleteUploadExists, RestoreVersionNumber, PurgeCount, PurgeBytes,
       RequestState, PurgeState
  <2>. QED
    BY <2>1, <2>2, LedgerPasses DEF Entered, Listed, Trashed, TrashHands
<1>3. CASE CompleteUploadCommit(r) \/ RestoreVersionCommit(r)
  <2>1. /\ req[r].at \in {"complete.commit", "restoreVersion.commit"}
        /\ req'[r] = [at |-> "idle"] /\ UNCHANGED openEntries
        /\ DOMAIN files' = DOMAIN files
    BY <1>0, <1>3 DEF CompleteUploadCommit, RestoreVersionCommit
  <2>2. \A f \in DOMAIN files : files'[f].deletedAt = files[f].deletedAt
    <3>1. PICK g, k, l :
             /\ g \in DOMAIN files
             /\ \/ files' = [files EXCEPT ![g] = [files[g] EXCEPT !.facts = k, !.fileType = l]]
                \/ files' = [files EXCEPT ![g] = [files[g] EXCEPT !.facts = k]]
      BY ZenonT(30), <1>3 DEF CompleteUploadCommit, RestoreVersionCommit
    <3>2. \A f \in DOMAIN files : files[f] \in FileRow
      BY DEF TypeOK
    <3>. QED
      BY <3>1, <3>2 DEF FileRow
  <2>. QED
    BY <2>1, <2>2, LedgerPasses DEF Entered, Listed, Trashed, TrashHands
<1>4. CASE TrashUpdate(r) \/ RestoreUpdate(r)
  <2>. DEFINE f == req[r].file
  <2>1. /\ f \in DOMAIN files /\ DOMAIN files' = DOMAIN files
        /\ \A g \in DOMAIN files \ {f} : files'[g] = files[g]
        /\ UNCHANGED openEntries /\ req'[r].file = f
        /\ req[r].at \in {"trash.update", "restore.update"}
    BY <1>0, <1>4 DEF TrashUpdate, RestoreUpdate, RequestState, PurgeState
  <2>2. CASE TrashUpdate(r)
    <3>1. files'[f].deletedAt = "V2" /\ req'[r].at = "trash.entry" /\ Listed(f)
      BY <1>0, <2>1, <2>2 DEF TrashUpdate, RequestState, PurgeState, TypeOK, FileRow, TrashHands
    <3>. QED
      BY <1>0, <2>1, <3>1, LedgerFrame DEF Agrees, Owes, Stamps, Entered, Trashed, Listed, TrashHands
  <2>3. CASE RestoreUpdate(r)
    <3>1. files'[f].deletedAt = "null" /\ req'[r].at = "restore.entries" /\ Trashed(f)
      BY <1>0, <2>1, <2>3 DEF RestoreUpdate, RequestState, PurgeState, TypeOK, FileRow, TrashHands
    <3>. QED
      BY <1>0, <2>1, <3>1, LedgerFrame DEF Agrees, Owes, Stamps, Entered, Trashed, Listed, TrashHands
  <2>. QED
    BY <1>4, <2>2, <2>3
<1>5. CASE TrashEntry(r)
  <2>1. /\ Entered(req[r].file) /\ UNCHANGED files /\ req'[r] = [at |-> "idle"]
        /\ req[r].file \in File /\ req[r].at = "trash.entry"
        /\ openEntries' = [openEntries EXCEPT ![req[r].file] = @ + 1]
    BY <1>0, <1>5 DEF TrashEntry, TrashHands, RequestState, PurgeState
  <2>. QED
    BY <1>0, <2>1, LedgerFrame DEF Agrees, Owes, Stamps, Entered, Trashed, TrashHands
<1>6. CASE RestoreEntries(r)
  <2>1. /\ Listed(req[r].file) /\ UNCHANGED files /\ req'[r] = [at |-> "idle"]
        /\ req[r].file \in File /\ req[r].at = "restore.entries"
        /\ openEntries' = [openEntries EXCEPT ![req[r].file] = 0]
    BY <1>0, <1>6 DEF RestoreEntries, TrashHands, RequestState, PurgeState
  <2>. QED
    BY <1>0, <2>1, LedgerFrame DEF Agrees, Owes, Stamps, Entered, Trashed, Listed, TrashHands
<1>7. CASE PurgeRow(r)
  <2>1. req[r].at = "purge.count" /\ req'[r].at \in {"idle", "purge.count"}
    BY <1>7, PurgeRowGoesOn
  <2>2. CASE UNCHANGED <<files, openEntries>>
    BY <2>1, <2>2, LedgerPasses DEF Entered, Trashed, TrashHands
  <2>3. ASSUME NEW f \in File,
               files' = WithoutRow(files, f), openEntries' = [openEntries EXCEPT ![f] = 0]
        PROVE  LedgerInv'
    <3>1. /\ f \notin DOMAIN files' /\ openEntries'[f] = 0
          /\ \A g \in File \ {f} : /\ g \in DOMAIN files' <=> g \in DOMAIN files
                                   /\ g \in DOMAIN files => files'[g] = files[g]
                                   /\ openEntries'[g] = openEntries[g]
      BY <1>0, <2>3 DEF WithoutRow
    <3>. QED
      BY <1>0, <2>1, <3>1, LedgerFrame DEF Agrees, Owes, Stamps, Entered, Trashed, TrashHands
  <2>4. req[r].doomed \subseteq File
    BY <1>0, <2>1 DEF RequestState, PurgeState
  <2>. QED
    BY <1>7, <2>2, <2>3, <2>4 DEF PurgeRow
<1>8. CASE Fail(r)
  <2>1. /\ Refused(r) /\ UNCHANGED <<files, openEntries>> /\ req'[r] = [at |-> "idle"]
    BY <1>0, <1>8 DEF Fail
  <2>2. req[r].at \notin {"trash.entry", "restore.entries"}
    BY <1>0, <2>1 DEF Refused, TrashHands, Entered
  <2>. QED
    BY <2>1, <2>2, LedgerPasses DEF Entered, Listed, Trashed, TrashHands
<1>. QED
  BY <1>1, <1>2, <1>3, <1>4, <1>5, <1>6, <1>7, <1>8 DEF Continue

LEMMA NextLedgerInv ==
  ASSUME OneRequest, ~StepsMayFail
  PROVE  TypeOK /\ LedgerInv /\ [Next]_vars => LedgerInv'
<1>. SUFFICES ASSUME TypeOK, LedgerInv, [Next]_vars PROVE LedgerInv'
  OBVIOUS
<1>1. CASE Client
  BY <1>1 DEF Client, PutBytes, LedgerInv, Agrees, Owes, Stamps, Entered, TrashHands, Trashed, Listed
<1>2. CASE UNCHANGED vars
  BY <1>2 DEF vars, LedgerInv, Agrees, Owes, Stamps, Entered, TrashHands, Trashed, Listed
<1>. QED
  BY <1>1, <1>2, LedgerBegins, LedgerContinues DEF Next

\* With one request at a time that nothing interrupts, a file has one open entry if
\* this release put it in the trash and none otherwise, whatever is trashed, restored,
\* purged, copied between, and whatever was in the trash before there were entries.
THEOREM LedgerAgrees ==
  ASSUME OneRequest, ~StepsMayFail
  PROVE  Spec => []TrashLedger
<1>1. TypeOK /\ LedgerInv /\ [Next]_vars => LedgerInv'
  BY NextLedgerInv
<1>2. LedgerInv => TrashLedger
  BY DEF LedgerInv, TrashLedger, Quiet, Agrees, Entered, Owes, Stamps, Idle
<1>. QED
  BY <1>1, <1>2, InitTypeOK, NextTypeOK, InitLedgerInv, PTL DEF Spec

\* The only handler is a purge, or it is not.
LEMMA PurgeFrame ==
  ASSUME OneRequest, NEW r \in Request,
         req'[r].at = "purge.count" => PurgesTrash(req[r])',
         req'[r].at = "purge.bytes" =>
            PurgesTrash(req[r].next)' /\ ~ReferencedElsewhere(req[r].object, req[r].next.doomed)'
  PROVE  PurgeInv'
<1>1. Request = {r}
  BY DEF OneRequest
<1>. QED
  BY <1>1 DEF PurgeInv, PurgesTrash, ReferencedElsewhere, Objects, Trashed

LEMMA NextPurgeInv ==
  ASSUME OneRequest
  PROVE  TypeOK /\ PurgeInv /\ [Next]_vars => PurgeInv'
<1>. SUFFICES ASSUME TypeOK, PurgeInv, [Next]_vars PROVE PurgeInv'
  OBVIOUS
<1>. USE DEF Goto, Finish, Idle
<1>0. req \in [Request -> RequestState] /\ \A r \in Request : req[r] \in RequestState
  BY DEF TypeOK
<1>1. ASSUME NEW r \in Request, req'[r].at \notin {"purge.count", "purge.bytes"} PROVE PurgeInv'
  BY <1>1, PurgeFrame
<1>2. ASSUME NEW r \in Request, Begin(r) PROVE PurgeInv'
  <2>1. CASE \/ RequestUpload(r)
             \/ \E f \in File : \E n \in DOMAIN versions[f] :
                   CompleteUpload(r, f, n) \/ RestoreVersion(r, f, n)
             \/ \E f \in File : Copy(r, f) \/ Trash(r, f) \/ Restore(r, f)
    <3>1. req'[r].at \notin {"purge.count", "purge.bytes"}
      BY <1>0, <2>1 DEF RequestUpload, CompleteUpload, RestoreVersion, Copy, Trash, Restore
    <3>. QED
      BY <1>1, <3>1
  <2>2. ASSUME NEW f \in File, PermanentDelete(r, f) PROVE PurgeInv'
    <3>1. req'[r] = Purge({f}, {}, FALSE) /\ Trashed(f) /\ UNCHANGED files
      BY <1>0, <2>2 DEF PermanentDelete
    <3>. QED
      BY <3>1, PurgeFrame DEF Purge, PurgesTrash, Trashed
  <2>3. ASSUME NEW readable \in SUBSET File, EmptyTrash(r, readable) PROVE PurgeInv'
    <3>1. CASE req' = req
      BY <1>0, <1>1, <2>3, <3>1 DEF EmptyTrash
    <3>2. ASSUME NEW f \in readable, req'[r] = Purge({f}, readable, FALSE) PROVE PurgeInv'
      <4>1. UNCHANGED files /\ \A g \in readable : Trashed(g)
        BY <2>3 DEF EmptyTrash
      <4>. QED
        BY <3>2, <4>1, PurgeFrame DEF Purge, PurgesTrash, Trashed
    <3>. QED
      BY <1>0, <2>3, <3>1, <3>2 DEF EmptyTrash
  <2>4. ASSUME NEW descendants \in SUBSET DOMAIN files, FolderDelete(r, descendants)
        PROVE  PurgeInv'
    <3>1. req'[r] = Purge(descendants, {}, TRUE)
      BY <1>0, <2>4 DEF FolderDelete
    <3>. QED
      BY <3>1, PurgeFrame DEF Purge, PurgesTrash
  <2>. QED
    BY <1>2, <2>1, <2>2, <2>3, <2>4 DEF Begin
<1>3. ASSUME NEW r \in Request, Continue(r) PROVE PurgeInv'
  <2>1. CASE \/ CompleteUploadExists(r) \/ CompleteUploadCommit(r) \/ RestoreVersionNumber(r)
             \/ RestoreVersionCommit(r) \/ TrashUpdate(r) \/ TrashEntry(r)
             \/ RestoreUpdate(r) \/ RestoreEntries(r) \/ Fail(r)
             \/ \E f \in File : RequestUploadCommit(r, f) \/ CopyCommit(r, f)
    <3>1. CASE CompleteUploadExists(r) \/ TrashUpdate(r) \/ RestoreUpdate(r)
      BY <1>0, <1>1, <3>1 DEF CompleteUploadExists, TrashUpdate, RestoreUpdate, RequestState,
         PurgeState
    <3>2. CASE RestoreVersionNumber(r)
      BY <1>0, <1>1, <3>2 DEF RestoreVersionNumber
    <3>3. CASE \/ CompleteUploadCommit(r) \/ RestoreVersionCommit(r) \/ TrashEntry(r)
               \/ RestoreEntries(r) \/ Fail(r)
               \/ \E f \in File : RequestUploadCommit(r, f) \/ CopyCommit(r, f)
      <4>1. req' = [req EXCEPT ![r] = [at |-> "idle"]]
        BY <3>3 DEF CompleteUploadCommit, RestoreVersionCommit, TrashEntry, RestoreEntries,
           Fail, RequestUploadCommit, CopyCommit
      <4>. QED
        BY <1>0, <1>1, <4>1
    <3>. QED
      BY <2>1, <3>1, <3>2, <3>3
  <2>2. CASE PurgeCount(r)
    <3>1. /\ req[r].at = "purge.count" /\ PurgesTrash(req[r]) /\ req[r] \in PurgeState
          /\ UNCHANGED <<files, versions>>
      BY <1>0, <2>2 DEF PurgeCount, PurgeInv, RequestState
    <3>2. PICK o \in req[r].todo :
             LET rest == [req[r] EXCEPT !.todo = @ \ {o}]
             IN  IF ReferencedElsewhere(o, req[r].doomed)
                 THEN req'[r] = rest
                 ELSE req'[r] = [at |-> "purge.bytes", object |-> o, next |-> rest]
      BY <1>0, <2>2 DEF PurgeCount
    <3>. DEFINE rest == [req[r] EXCEPT !.todo = @ \ {o}]
    <3>3. /\ rest.doomed = req[r].doomed /\ rest.queue = req[r].queue
          /\ rest.folder = req[r].folder /\ rest.at = "purge.count"
      BY <3>1 DEF PurgeState
    <3>. HIDE DEF rest
    <3>5. CASE req'[r] = rest
      BY <3>1, <3>3, <3>5, PurgeFrame DEF PurgesTrash, Trashed
    <3>6. CASE /\ req'[r] = [at |-> "purge.bytes", object |-> o, next |-> rest]
               /\ ~ReferencedElsewhere(o, req[r].doomed)
      BY <3>1, <3>3, <3>6, PurgeFrame DEF PurgesTrash, Trashed, ReferencedElsewhere, Objects
    <3>. QED
      BY <3>2, <3>5, <3>6 DEF rest
  <2>3. CASE PurgeBytes(r)
    <3>1. /\ req'[r] = req[r].next /\ UNCHANGED files
          /\ PurgesTrash(req[r].next) /\ req[r].next.at = "purge.count"
      BY <1>0, <2>3 DEF PurgeBytes, PurgeInv, RequestState, PurgeState
    <3>. QED
      BY <3>1, PurgeFrame DEF PurgesTrash, Trashed
  <2>4. CASE PurgeRow(r)
    <3>1. req[r].at = "purge.count" /\ PurgesTrash(req[r]) /\ req[r] \in PurgeState
      BY <1>0, <2>4 DEF PurgeRow, PurgeInv, RequestState
    <3>2. CASE req' = [req EXCEPT ![r] = Idle]
      BY <1>0, <1>1, <3>2
    <3>3. ASSUME NEW f \in req[r].doomed, files' = WithoutRow(files, f)
          PROVE  \A h : h # f /\ Trashed(h) => Trashed(h)'
      BY <3>3 DEF WithoutRow, Trashed
    <3>4. ASSUME NEW f \in req[r].doomed, files' = WithoutRow(files, f),
                 req'[r] = [req[r] EXCEPT !.doomed = req[r].doomed \ {f}]
          PROVE  PurgeInv'
      <4>1. /\ req'[r].at = "purge.count" /\ req'[r].doomed = req[r].doomed \ {f}
            /\ req'[r].queue = req[r].queue /\ req'[r].folder = req[r].folder
        BY <3>1, <3>4 DEF PurgeState
      <4>. QED
        BY <3>1, <3>3, <3>4, <4>1, PurgeFrame DEF PurgesTrash
    <3>5. ASSUME NEW f \in req[r].doomed, files' = WithoutRow(files, f),
                 NEW g \in req[r].queue, req'[r] = Purge({g}, req[r].queue, req[r].folder)
          PROVE  PurgeInv'
      <4>1. /\ req'[r].at = "purge.count" /\ req'[r].doomed = {g}
            /\ req'[r].queue = req[r].queue \ {g}
        BY <3>5 DEF Purge
      <4>. QED
        BY <3>1, <3>3, <3>5, <4>1, PurgeFrame DEF PurgesTrash
    <3>6. PICK f \in req[r].doomed :
             \/ req' = [req EXCEPT ![r] = Idle]
             \/ files' = WithoutRow(files, f) /\ AfterRow(r, f)
      BY <2>4 DEF PurgeRow
    <3>7. CASE files' = WithoutRow(files, f) /\ AfterRow(r, f)
      BY <1>0, <3>2, <3>4, <3>5, <3>7 DEF AfterRow
    <3>. QED
      BY <3>2, <3>6, <3>7
  <2>. QED
    BY <1>3, <2>1, <2>2, <2>3, <2>4 DEF Continue
<1>4. CASE Client
  BY <1>4 DEF Client, PutBytes, PurgeInv, PurgesTrash, ReferencedElsewhere, Objects, Trashed
<1>5. CASE UNCHANGED vars
  BY <1>5 DEF vars, PurgeInv, PurgesTrash, ReferencedElsewhere, Objects, Trashed
<1>. QED
  BY <1>2, <1>3, <1>4, <1>5 DEF Next

\* With one request at a time, what a purge has counted as referenced by no file but
\* its own still is when it deletes the bytes, and unless it purges a folder its files
\* are in the trash.
THEOREM PurgeInvHolds ==
  ASSUME OneRequest
  PROVE  Spec => []PurgeInv
<1>1. Init => PurgeInv
  BY DEF Init, Legacy, PurgeInv, Idle
<1>2. TypeOK /\ PurgeInv /\ [Next]_vars => PurgeInv'
  BY NextPurgeInv
<1>. QED
  BY <1>1, <1>2, InitTypeOK, NextTypeOK, PTL DEF Spec

\* Bytes go in one step only, which a purge takes for an object that only the files it
\* purges refer to.
LEMMA BytesGo ==
  ASSUME TypeOK, PurgeInv, [Next]_vars, NEW o \in bytes \ bytes'
  PROVE  \E r \in Request : \A f \in File : o \in Objects(f) =>
            f \in Doomed(r, o) /\ (Trashed(f) \/ req[r].next.folder)
<1>1. PICK r \in Request : PurgeBytes(r)
  <2>1. ASSUME NEW r \in Request, Begin(r) PROVE FALSE
    BY <2>1 DEF Begin, RequestUpload, CompleteUpload, RestoreVersion, Copy, Trash, Restore,
       PermanentDelete, EmptyTrash, FolderDelete
  <2>2. ASSUME NEW r \in Request, Continue(r) PROVE PurgeBytes(r)
    BY <2>2 DEF Continue, RequestUploadCommit, CompleteUploadExists, CompleteUploadCommit,
       RestoreVersionNumber, RestoreVersionCommit, CopyCommit, TrashUpdate, TrashEntry,
       RestoreUpdate, RestoreEntries, PurgeCount, PurgeRow, Fail
  <2>3. ~Client /\ ~UNCHANGED vars
    BY DEF Client, PutBytes, vars
  <2>. QED
    BY <2>1, <2>2, <2>3 DEF Next
<1>2. /\ Doomed(r, o) = req[r].next.doomed
      /\ PurgesTrash(req[r].next) /\ ~ReferencedElsewhere(o, req[r].next.doomed)
  BY <1>1 DEF PurgeBytes, PurgeInv, Doomed
<1>. QED
  BY <1>2 DEF ReferencedElsewhere, PurgesTrash

\* "A StorageObject is physically deleted only when no other file_version row
\* references it": with one request at a time, bytes that go are referenced by the
\* files of that purge only, although the count and the deletion are separate steps.
THEOREM SharedBytesStay ==
  ASSUME OneRequest
  PROVE  Spec => SharedBytesSurvive
<1>1. TypeOK /\ PurgeInv /\ [Next]_vars =>
        \A o \in bytes \ bytes' : \E r \in Request : \A f \in File :
           o \in Objects(f) => f \in Doomed(r, o)
  BY BytesGo
<1>. QED
  BY <1>1, TypeCorrect, PurgeInvHolds, PTL DEF Spec, SharedBytesSurvive

\* With one request at a time, bytes that go are those of files in the trash, or all
\* of files of the folder that is deleted permanently.
THEOREM LiveBytesStay ==
  ASSUME OneRequest
  PROVE  Spec => LiveBytesSurvive
<1>1. TypeOK /\ PurgeInv /\ [Next]_vars =>
        \A o \in bytes \ bytes' : \E r \in Request : \A f \in File :
           o \in Objects(f) =>
              Trashed(f) \/ (f \in Doomed(r, o) /\ req[r].next.folder)
  BY BytesGo
<1>. QED
  BY <1>1, TypeCorrect, PurgeInvHolds, PTL DEF Spec, LiveBytesSurvive
=============================================================================
