------------------------------- MODULE Seed --------------------------------
(***************************************************************************)
(* The seed script (backend/prisma/seed.ts, its data in                     *)
(* backend/src/auth/seed-data.ts): a fixed sequence of statements, none of  *)
(* them in a transaction with another, that developers run again and again  *)
(* over a database which users change in between and meanwhile.  Nearly all *)
(* are upserts: some refresh the row that they find, the others leave it    *)
(* alone.  A row that is missing is created with the id of the data and     *)
(* with references to such ids, which the foreign keys check.               *)
(***************************************************************************)
EXTENDS Naturals, Sequences, SequencesExt

CONSTANTS
    MaxRuns,        \* bound: how often the script is started
    MaxUploads,     \* bound: uploads of other files that users complete
    MaxRemovals     \* bound: how often users delete something

ASSUME SeedAssumption == MaxRuns \in Nat /\ MaxUploads \in Nat /\ MaxRemovals \in Nat

-----------------------------------------------------------------------------
(* The script *)

OrganizationRows == <<"organization", "admin", "organizer", "viewer">>
TeamFolderRows   == <<"teamFolder", "member", "teamRoot">>
FileRows         == <<"folder", "file", "object", "version1", "version2", "metadata",
                      "activities">>
ShareRows        == <<"share", "recipient">>
CommentRows      == <<"notification", "comment", "reply">>
FavoriteRows     == <<"favorite", "tag", "fileTag">>
QuotaRows        == <<"quota">>

\* Mutant: the Team Folder comes before the users.
ScriptTeamFolderFirst ==
    <<"organization">> \o TeamFolderRows \o Tail(OrganizationRows) \o FileRows \o ShareRows
    \o CommentRows \o FavoriteRows \o QuotaRows

Script == OrganizationRows \o TeamFolderRows \o FileRows \o ShareRows
          \o CommentRows \o FavoriteRows \o QuotaRows

SeededRow == ToSet(Script) \ {"activities"}

SeededUser == {"admin", "organizer", "viewer"}

\* Rows that a created row refers to, besides the organization's.
Needs(row) ==
    CASE row = "organization"            -> {}
      [] row = "member"                  -> {"teamFolder", "organizer"}
      [] row = "teamRoot"                -> {"teamFolder", "admin"}
      [] row = "folder"                  -> {"admin"}
      [] row = "file"                    -> {"folder", "admin"}
      [] row \in {"version1", "version2"} -> {"file", "object", "admin"}
      [] row \in {"object", "metadata"}  -> {"file"}
      [] row = "share"                   -> {"file", "admin"}
      [] row = "recipient"               -> {"share", "organizer"}
      [] row \in {"notification", "favorite"} -> {"organizer"}
      [] row = "comment"                 -> {"file", "organizer"}
      [] row = "reply"                   -> {"comment", "admin"}
      [] row = "fileTag"                 -> {"file", "tag"}
      [] OTHER                           -> {"organization"}

\* Rows whose statement has something to update.
Refreshed == {"organization", "admin", "organizer", "viewer", "teamFolder", "file",
              "version1", "version2", "quota"}

\* The rows that go with a user they refer to (ON DELETE CASCADE); the others
\* keep the user from being deleted (ON DELETE RESTRICT).
Cascading == {"recipient", "notification", "comment", "reply"}

\* "otherId": a user of that e-mail address, who does not have the id of the data.
RowState == {"absent", "seeded", "edited", "otherId"}

Outcome == {"none", "running", "complete", "refused", "interrupted"}

VARIABLES
    rows,           \* rows[x]: how the row stands, "edited" if a user wrote it
    active,         \* versions of the seeded file whose status is ACTIVE
    used,           \* used_bytes, in versions
    uploads,        \* uploads of other files that users have completed
    removals,       \* how often users have deleted something
    removed,        \* rows users deleted while the script runs, and that are still gone
    touched,        \* a user has changed something
    at,             \* position in the script, 0 when it does not run
    runs,
    outcome         \* how the last run ended

seedVars == <<rows, active, used, uploads, removals, removed, touched, at, runs, outcome>>

SeedInit ==
    /\ rows = [x \in SeededRow |-> "absent"]
    /\ active = {}
    /\ used = 0
    /\ uploads = 0
    /\ removals = 0 /\ removed = {}
    /\ touched = FALSE
    /\ at = 0 /\ runs = 0
    /\ outcome = "none"

Start ==
    /\ at = 0 /\ runs < MaxRuns
    /\ at' = 1 /\ runs' = runs + 1
    /\ outcome' = "running"
    /\ UNCHANGED <<rows, active, used, uploads, removals, removed, touched>>

\* A row with the id that the data give it.
Present(x) == rows[x] \in {"seeded", "edited"}

\* Mutant: inserts, which a row that is there already refuses.
Inserted(row) == rows[row] = "absent" /\ \A x \in Needs(row) : Present(x)

\* The statement finds the row by its key, or what a new row refers to exists.
Accepted(row) == rows[row] # "absent" \/ \A x \in Needs(row) : Present(x)

\* A user is found by e-mail address, and the update leaves the id alone.
Upserted(row) ==
    CASE rows[row] = "absent" -> "seeded"
      [] rows[row] = "edited" /\ row \in Refreshed -> "seeded"
      [] OTHER -> rows[row]

\* Mutant: the number after the second version's becomes ACTIVE.
ActiveAfterNext(row) == CASE row = "version1" -> active \ {1}
                          [] row = "version2" -> active \cup {3}
                          [] OTHER -> active

\* The statuses that the version rows have after a statement; a version that
\* users restored keeps its own.
ActiveAfter(row) == CASE row = "version1" -> active \ {1}
                      [] row = "version2" -> active \cup {2}
                      [] OTHER -> active

\* The script ends: what users delete from here on, the next run finds gone.
End(how) == at' = 0 /\ outcome' = how /\ removed' = {}

\* On to the next statement; the rows in written are there now.
Advance(written) ==
    IF at = Len(Script) THEN End("complete")
    ELSE at' = at + 1 /\ outcome' = outcome /\ removed' = removed \ written

Statement ==
    /\ at # 0 /\ Script[at] # "activities"
    /\ LET row == Script[at] IN
       IF Accepted(row)
       THEN /\ rows' = [rows EXCEPT ![row] = Upserted(row)]
            /\ active' = ActiveAfter(row)
            /\ used' = IF row = "quota" THEN 2 ELSE used
            /\ Advance({row})
       ELSE End("refused") /\ UNCHANGED <<rows, active, used>>
    /\ UNCHANGED <<uploads, removals, touched, runs>>

\* Rows of a log, with new ids on every run; the statement's failure is swallowed.
AddActivities ==
    /\ at # 0 /\ Script[at] = "activities"
    /\ Advance({})
    /\ UNCHANGED <<rows, active, used, uploads, removals, touched, runs>>

\* The script is interrupted, or loses the database.
Interrupt ==
    /\ at # 0
    /\ End("interrupted")
    /\ UNCHANGED <<rows, active, used, uploads, removals, touched, runs>>

-----------------------------------------------------------------------------
(* Users, between two runs and during one *)

\* The organization has members: it keeps one once the script has made one.
Peopled == touched \/ rows["admin"] # "absent"

\* restoreVersion of the seeded file: a version above the two, RESTORED, and
\* every ACTIVE one SUPERSEDED; used_bytes stays.
RestoreSeeded ==
    /\ rows["version2"] # "absent"
    /\ rows' = [rows EXCEPT !["file"] = "edited"]
    /\ active' = {}
    /\ touched' = TRUE
    /\ UNCHANGED <<used, uploads, removals, removed, at, runs, outcome>>

\* An upload is complete: always one of another file, which the quota counts.
UploadOther ==
    /\ Peopled
    /\ uploads < MaxUploads
    /\ uploads' = uploads + 1
    /\ used' = used + 1
    /\ rows' = [rows EXCEPT !["quota"] = "edited"]
    /\ touched' = TRUE
    /\ UNCHANGED <<active, removals, removed, at, runs, outcome>>

\* A user makes a row that the script would find by its key.
Add(row) ==
    /\ row \in {"member", "recipient", "favorite"}
    /\ rows[row] = "absent"
    /\ \A x \in Needs(row) : Present(x)
    /\ rows' = [rows EXCEPT ![row] = "edited"]
    /\ removed' = removed \ {row}
    /\ touched' = TRUE
    /\ UNCHANGED <<active, used, uploads, removals, at, runs, outcome>>

\* The e-mail address of a seeded user, invited and registered: a new id.
Join(u) ==
    /\ Peopled
    /\ rows[u] = "absent"
    /\ rows' = [rows EXCEPT ![u] = "otherId"]
    /\ removed' = removed \ {u}
    /\ touched' = TRUE
    /\ UNCHANGED <<active, used, uploads, removals, at, runs, outcome>>

\* One call of a user deletes these rows.
DeleteRows(gone) ==
    /\ removals < MaxRemovals
    /\ removals' = removals + 1
    /\ rows' = [x \in SeededRow |-> IF x \in gone THEN "absent" ELSE rows[x]]
    /\ removed' = IF at = 0 THEN removed
                  ELSE removed \cup {x \in gone : rows[x] # "absent"}
    /\ touched' = TRUE
    /\ UNCHANGED <<active, used, uploads, at, runs, outcome>>

RemoveMember   == Present("member") /\ DeleteRows({"member"})
RemoveFavorite == Present("favorite") /\ DeleteRows({"favorite"})
RemoveRecipient == Present("recipient") /\ DeleteRows({"recipient"})

\* An empty folder.  The seeded file may be in the trash or have moved away, and
\* its row keeps no reference to the folder (ON DELETE SET NULL).
RemoveFolder(f) == f \in {"folder", "teamRoot"} /\ Present(f) /\ DeleteRows({f})

\* With its members and its folders; the seeded one is at the top level.
RemoveTeamFolder == Present("teamFolder") /\ DeleteRows({"teamFolder", "member", "teamRoot"})

\* A permanent deletion: versions keep the file's row (ON DELETE RESTRICT), so it
\* is one that an interrupted run left without them.
RemoveFile == Present("file") /\ rows["version1"] = "absent" /\ DeleteRows({"file"})

\* An admin removes another member of the organization.
RemoveUser(u) ==
    LET referring == IF Present(u) THEN {x \in SeededRow : u \in Needs(x) /\ Present(x)}
                     ELSE {}
        replies == {x \in Cascading : Needs(x) \cap referring # {}}
    IN
    /\ rows[u] # "absent"
    /\ referring \subseteq Cascading
    /\ DeleteRows({u} \cup referring \cup replies)

Users ==
    \/ RestoreSeeded \/ UploadOther
    \/ \E row \in SeededRow : Add(row)
    \/ \E u \in SeededUser : Join(u)
    \/ RemoveMember \/ RemoveFavorite \/ RemoveRecipient
    \/ \E f \in SeededRow : RemoveFolder(f)
    \/ RemoveTeamFolder \/ RemoveFile
    \/ \E u \in SeededUser : RemoveUser(u)

SeedNext == Start \/ Statement \/ AddActivities \/ Interrupt \/ Users

SeedSpec == SeedInit /\ [][SeedNext]_seedVars

-----------------------------------------------------------------------------
SeedTypeOK ==
    /\ rows \in [SeededRow -> RowState]
    /\ active \subseteq {1, 2}
    /\ used \in Nat
    /\ uploads \in Nat /\ removals \in Nat
    /\ removed \subseteq SeededRow
    /\ touched \in BOOLEAN
    /\ at \in 0..Len(Script) /\ runs \in Nat
    /\ outcome \in Outcome

\* However often the script was interrupted, no statement of a later run is
\* refused, and a run that is complete leaves what the data say, unless users
\* changed something: every row, one active version of the file, the second, and
\* a quota that counts both (seed.ts: 326-338).
SeedSettles ==
    ~touched =>
        /\ outcome # "refused"
        /\ outcome = "complete" =>
              /\ \A x \in SeededRow : rows[x] = "seeded"
              /\ active = {2} /\ used = 2

\* A run rebuilds whatever users deleted before it and earlier runs left undone:
\* a statement is refused only if a row that it refers to was deleted since this
\* run passed it, or is a user who has come back under another id; and a complete
\* run leaves every row in place that nobody deleted meanwhile.
SeedRebuilds ==
    [][outcome = "running" =>
          /\ outcome' = "refused" =>
                \E x \in Needs(Script[at]) : x \in removed \/ rows[x] = "otherId"
          /\ outcome' = "complete" =>
                \A x \in SeededRow : rows'[x] = "absent" => x \in removed]_seedVars
=============================================================================
