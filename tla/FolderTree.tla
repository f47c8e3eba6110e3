----------------------------- MODULE FolderTree -----------------------------
(***************************************************************************)
(* FoldersService (backend/src/folders/folders.service.ts): the tree that   *)
(* folders.parent_id makes, and the Team Folder each folder belongs to.     *)
(*                                                                         *)
(* Every await of a handler is a step of its own; the checks of a move read *)
(* the ancestors of the destination one row at a time, and nothing is       *)
(* locked.  Requests are those that pass the permission checks, which do    *)
(* not depend on where a folder is.  What matters of the files in a folder  *)
(* is whether it holds one that is listed, or in the trash.                 *)
(***************************************************************************)
EXTENDS Naturals, Sequences, FiniteSets

CONSTANTS
    Folder,         \* ids of folders
    TeamFolder,     \* ids of Team Folders
    None,           \* NULL: no parent, no Team Folder
    Request,        \* handler invocations that can be in flight together
    Mover,          \* those that move folders
    Filed,          \* bound: the folders that files are uploaded to
    StepsMayFail    \* TRUE: any await of a handler may throw, or the server die

ASSUME FolderTreeAssumption ==
    /\ IsFiniteSet(Folder)
    /\ None \notin Folder \cup TeamFolder
    /\ Mover \subseteq Request
    /\ Filed \subseteq Folder
    /\ StepsMayFail \in BOOLEAN

VARIABLES
    unused,         \* ids not handed out yet
    parent,         \* folders.parent_id: a function on the ids that have a row
    team,           \* folders.team_folder_id
    listed,         \* folders that hold a file that is not in the trash
    trashed,        \* folders that hold a file that is
    lost,           \* folders that hold a listed file whose bytes are gone
    req             \* req[r]: the step handler r is about to run, its locals

vars == <<unused, parent, team, listed, trashed, lost, req>>

Rows == DOMAIN parent
Children(f) == {c \in Rows : parent[c] = f}

Idle == [at |-> "idle"]

\* What copyTree still has to do: the folders to copy, under which copy, the
\* innermost call first.
Frame == [under : Folder \cup {None}, sources : SUBSET Folder]

RequestState ==
         [at : {"idle"}]
    \cup [at : {"create.commit"}, under : Folder \cup {None}, team : TeamFolder \cup {None}]
    \cup [at : {"move.destination", "copy.destination"}, folder : Folder, under : Folder]
    \cup [at : {"move.walk", "copy.walk"}, folder : Folder, under : Folder \cup {None},
          current : Folder \cup {None}]
    \cup [at : {"copy.read"}, team : TeamFolder \cup {None}, todo : Seq(Frame),
          made : SUBSET Folder]
    \cup [at : {"copy.create"}, team : TeamFolder \cup {None}, todo : Seq(Frame),
          made : SUBSET Folder, source : Folder, under : Folder \cup {None},
          children : SUBSET Folder, filed : BOOLEAN]
    \cup [at : {"copy.files"}, team : TeamFolder \cup {None}, todo : Seq(Frame),
          made : SUBSET Folder, copy : Folder, filed : BOOLEAN]
    \cup [at : {"remove.child", "remove.file", "remove.commit"}, folder : Folder]
    \cup [at : {"purge.collect"}, folder : Folder, todo : SUBSET Folder,
          seen : SUBSET Folder]
    \cup [at : {"purge.bytes"}, folder : Folder, todo : SUBSET Folder, filed : BOOLEAN]

WithRow(table, key, row) ==
    [k \in DOMAIN table \cup {key} |-> IF k = key THEN row ELSE table[k]]

Goto(r, state) == req' = [req EXCEPT ![r] = state]
Finish(r)      == Goto(r, Idle)
GotoIf(r, ok, state) == Goto(r, IF ok THEN state ELSE Idle)

\* A step that only reads.
Reads == UNCHANGED <<unused, parent, team, listed, trashed, lost>>

Init ==
    /\ unused = Folder
    /\ parent = [f \in {} |-> None]
    /\ team = [f \in {} |-> None]
    /\ listed = {}
    /\ trashed = {}
    /\ lost = {}
    /\ req = [r \in Request |-> Idle]

-----------------------------------------------------------------------------
(* POST /folders *)

\* resolveCreateTeamFolderId: a parent's Team Folder is inherited; without a
\* parent the caller may name one.  Bound: an id is left.
Create(r, under, named) ==
    /\ req[r] = Idle
    /\ unused # {}
    /\ under \in Rows => named = team[under]
    /\ Goto(r, [at |-> "create.commit", under |-> under, team |-> named])
    /\ Reads

CreateCommit(r, f) ==
    /\ req[r].at = "create.commit"
    /\ f \in unused
    /\ req[r].under \in Rows \cup {None}
    /\ unused' = unused \ {f}
    /\ parent' = WithRow(parent, f, req[r].under)
    /\ team' = WithRow(team, f, req[r].team)
    /\ Finish(r)
    /\ UNCHANGED <<listed, trashed, lost>>

-----------------------------------------------------------------------------
(* PATCH /folders/:id/move and POST /folders/:id/copy *)

\* requireMutableFolder; a destination of NULL is the top level and is not checked.
Move(r, f, d) ==
    /\ req[r] = Idle
    /\ r \in Mover
    /\ f \in Rows
    /\ d # f
    /\ Goto(r, IF d = None
               THEN [at |-> "move.walk", folder |-> f, under |-> None, current |-> None]
               ELSE [at |-> "move.destination", folder |-> f, under |-> d])
    /\ Reads

\* Bound: ids enough to copy every folder there is.
Copy(r, f, d) ==
    /\ req[r] = Idle
    /\ Cardinality(Rows) <= Cardinality(unused)
    /\ f \in Rows
    /\ d # f
    /\ Goto(r, IF d = None
               THEN [at |-> "copy.walk", folder |-> f, under |-> None, current |-> None]
               ELSE [at |-> "copy.destination", folder |-> f, under |-> d])
    /\ Reads

WalkOf(at) == IF at = "move.destination" THEN "move.walk" ELSE "copy.walk"

\* Mutant: the ancestors of the destination are not walked.
DestinationUnwalked(r) ==
    LET d == req[r].under IN
    /\ req[r].at \in {"move.destination", "copy.destination"}
    /\ GotoIf(r, d \in Rows, [at |-> WalkOf(req[r].at), folder |-> req[r].folder,
                              under |-> d, current |-> None])
    /\ Reads

\* assertDestination reads the destination's row,
Destination(r) ==
    LET d == req[r].under IN
    /\ req[r].at \in {"move.destination", "copy.destination"}
    /\ GotoIf(r, d \in Rows, [at |-> WalkOf(req[r].at), folder |-> req[r].folder,
                              under |-> d, current |-> parent[d]])
    /\ Reads

\* Mutant: the walk does not move on.
WalkStays(r) ==
    LET c == req[r].current IN
    /\ req[r].at \in {"move.walk", "copy.walk"}
    /\ c # None
    /\ GotoIf(r, c # req[r].folder, [req[r] EXCEPT !.current = c])
    /\ Reads

\* Mutant: only the destination's parent is looked at.
WalkOnce(r) ==
    LET c == req[r].current IN
    /\ req[r].at \in {"move.walk", "copy.walk"}
    /\ c # None
    /\ GotoIf(r, c # req[r].folder, [req[r] EXCEPT !.current = None])
    /\ Reads

\* and then one ancestor after another; a row that is gone ends the walk.
Walk(r) ==
    LET c == req[r].current IN
    /\ req[r].at \in {"move.walk", "copy.walk"}
    /\ c # None
    /\ GotoIf(r, c # req[r].folder,
              [req[r] EXCEPT !.current = IF c \in Rows THEN parent[c] ELSE None])
    /\ Reads

\* The update sets parent_id and nothing else.
MoveCommit(r) ==
    /\ req[r].at = "move.walk"
    /\ req[r].current = None
    /\ req[r].folder \in Rows
    /\ req[r].under \in Rows \cup {None}
    /\ parent' = [parent EXCEPT ![req[r].folder] = req[r].under]
    /\ Finish(r)
    /\ UNCHANGED <<unused, team, listed, trashed, lost>>

\* The Team Folder of the destination, none if that is gone; then copyTree.
CopyTeam(r) ==
    LET d == req[r].under IN
    /\ req[r].at = "copy.walk"
    /\ req[r].current = None
    /\ Goto(r, [at |-> "copy.read", team |-> IF d \in Rows THEN team[d] ELSE None,
                todo |-> <<[under |-> d, sources |-> {req[r].folder}]>>, made |-> {}])
    /\ Reads

\* copyTree reads one folder, its files and its children.
CopyRead(r) ==
    LET top == Head(req[r].todo) IN
    /\ req[r].at = "copy.read"
    /\ req[r].todo # <<>>
    /\ \E f \in top.sources :
          GotoIf(r, f \in Rows,
                 [at |-> "copy.create", team |-> req[r].team, made |-> req[r].made,
                  todo |-> <<[top EXCEPT !.sources = @ \ {f}]>> \o Tail(req[r].todo),
                  source |-> f, under |-> top.under, children |-> Children(f),
                  filed |-> f \in listed \cup trashed])
    /\ Reads

\* made is not in the code: the folders this handler has created.
CopyCreate(r, g) ==
    /\ req[r].at = "copy.create"
    /\ g \in unused
    /\ req[r].under \in Rows \cup {None}
    /\ unused' = unused \ {g}
    /\ parent' = WithRow(parent, g, req[r].under)
    /\ team' = WithRow(team, g, req[r].team)
    /\ Goto(r, [at |-> "copy.files", team |-> req[r].team, copy |-> g,
                made |-> req[r].made \cup {g}, filed |-> req[r].filed,
                todo |-> <<[under |-> g, sources |-> req[r].children]>> \o req[r].todo])
    /\ UNCHANGED <<listed, trashed, lost>>

\* The files, those in the trash too, are copied as listed files.
CopyFiles(r) ==
    LET g == req[r].copy IN
    /\ req[r].at = "copy.files"
    /\ ~req[r].filed \/ g \in Rows
    /\ listed' = IF req[r].filed THEN listed \cup {g} ELSE listed
    /\ Goto(r, [at |-> "copy.read", team |-> req[r].team, made |-> req[r].made,
                todo |-> req[r].todo])
    /\ UNCHANGED <<unused, parent, team, trashed, lost>>

\* A call of copyTree has no child left and returns; the outermost ends the copy.
CopyReturn(r) ==
    /\ req[r].at = "copy.read"
    /\ req[r].todo # <<>>
    /\ Head(req[r].todo).sources = {}
    /\ GotoIf(r, Len(req[r].todo) > 1, [req[r] EXCEPT !.todo = Tail(@)])
    /\ Reads

-----------------------------------------------------------------------------
(* DELETE /folders/:id, for an empty folder *)

Remove(r, f) ==
    /\ req[r] = Idle
    /\ f \in Rows
    /\ Goto(r, [at |-> "remove.child", folder |-> f])
    /\ Reads

\* Mutant: children are not looked for.
RemoveChildUnchecked(r) ==
    /\ req[r].at = "remove.child"
    /\ Goto(r, [req[r] EXCEPT !.at = "remove.file"])
    /\ Reads

RemoveChild(r) ==
    /\ req[r].at = "remove.child"
    /\ GotoIf(r, Children(req[r].folder) = {}, [req[r] EXCEPT !.at = "remove.file"])
    /\ Reads

RemoveFile(r) ==
    /\ req[r].at = "remove.file"
    /\ GotoIf(r, req[r].folder \notin listed, [req[r] EXCEPT !.at = "remove.commit"])
    /\ Reads

\* Mutant: parent_id without its foreign key.
DeleteRowKeepsChildren(f) ==
    /\ parent' = [g \in Rows \ {f} |-> parent[g]]
    /\ team' = [g \in Rows \ {f} |-> team[g]]
    /\ listed' = listed \ {f}
    /\ trashed' = trashed \ {f}
    /\ lost' = lost \ {f}

\* The row goes; parent_id and folder_id of what it held are ON DELETE SET NULL.
DeleteRow(f) ==
    /\ parent' = [g \in Rows \ {f} |-> IF parent[g] = f THEN None ELSE parent[g]]
    /\ team' = [g \in Rows \ {f} |-> team[g]]
    /\ listed' = listed \ {f}
    /\ trashed' = trashed \ {f}
    /\ lost' = lost \ {f}

RemoveCommit(r) ==
    /\ req[r].at = "remove.commit"
    /\ req[r].folder \in Rows
    /\ DeleteRow(req[r].folder)
    /\ Finish(r)
    /\ UNCHANGED unused

-----------------------------------------------------------------------------
(* DELETE /folders/:id/permanent *)

Purge(r, f) ==
    /\ req[r] = Idle
    /\ f \in Rows
    /\ Goto(r, [at |-> "purge.collect", folder |-> f, todo |-> {f}, seen |-> {}])
    /\ Reads

\* collectDescendantFiles looks for the children of one folder after another.
PurgeCollect(r) ==
    /\ req[r].at = "purge.collect"
    /\ \E f \in req[r].todo :
          Goto(r, [req[r] EXCEPT !.todo = (@ \ {f}) \cup Children(f), !.seen = @ \cup {f}])
    /\ Reads

\* Then for the files in all of them.
PurgeFiles(r) ==
    LET doomed == req[r].seen \cap (listed \cup trashed) IN
    /\ req[r].at = "purge.collect"
    /\ req[r].todo = {}
    /\ Goto(r, [at |-> "purge.bytes", folder |-> req[r].folder, todo |-> doomed,
                filed |-> doomed # {}])
    /\ Reads

\* The bytes behind the files, listed or not, unless another file shares them.
PurgeBytes(r) ==
    /\ req[r].at = "purge.bytes"
    /\ \E f \in req[r].todo :
          /\ lost' \in {lost, lost \cup ({f} \cap listed)}
          /\ Goto(r, [req[r] EXCEPT !.todo = @ \ {f}])
    /\ UNCHANGED <<unused, parent, team, listed, trashed>>

\* file.delete is refused for a file with versions (ON DELETE RESTRICT) and ends
\* the handler; without files the folder's row goes, and only its row.
PurgeRow(r) ==
    LET f == req[r].folder IN
    /\ req[r].at = "purge.bytes"
    /\ req[r].todo = {}
    /\ IF ~req[r].filed /\ f \in Rows
       THEN DeleteRow(f)
       ELSE UNCHANGED <<parent, team, listed, trashed, lost>>
    /\ Finish(r)
    /\ UNCHANGED unused

-----------------------------------------------------------------------------
(* What FilesService does to a folder: uploads, moves, deletions. *)

Upload(f) ==
    /\ f \in Filed
    /\ listed' = listed \cup {f}
    /\ UNCHANGED <<unused, parent, team, trashed, lost, req>>

TrashFiles(f) ==
    /\ f \in listed
    /\ listed' = listed \ {f}
    /\ trashed' = trashed \cup {f}
    /\ lost' = lost \ {f}
    /\ UNCHANGED <<unused, parent, team, req>>

\* Moved elsewhere, all of them.
TakeFiles(f) ==
    /\ listed' = listed \ {f}
    /\ trashed' = trashed \ {f}
    /\ lost' = lost \ {f}
    /\ UNCHANGED <<unused, parent, team, req>>

-----------------------------------------------------------------------------
\* A write that cannot succeed: its row, or the parent it names, is gone.
Refused(r) ==
    \/ req[r].at = "create.commit" /\ req[r].under \notin Rows \cup {None}
    \/ req[r].at = "copy.create" /\ req[r].under \notin Rows \cup {None}
    \/ req[r].at = "copy.files" /\ req[r].filed /\ req[r].copy \notin Rows
    \/ /\ req[r].at = "move.walk" /\ req[r].current = None
       /\ \/ req[r].folder \notin Rows
          \/ req[r].under \notin Rows \cup {None}
    \/ req[r].at = "remove.commit" /\ req[r].folder \notin Rows

Fail(r) ==
    /\ req[r] # Idle
    /\ StepsMayFail \/ Refused(r)
    /\ Finish(r)
    /\ Reads

Begin(r) ==
    \/ \E under \in Rows \cup {None}, named \in TeamFolder \cup {None} :
          Create(r, under, named)
    \/ \E f \in Rows, d \in Folder \cup {None} : Move(r, f, d) \/ Copy(r, f, d)
    \/ \E f \in Rows : Remove(r, f) \/ Purge(r, f)

Continue(r) ==
    \/ \E f \in Folder : CreateCommit(r, f) \/ CopyCreate(r, f)
    \/ Destination(r)
    \/ Walk(r)
    \/ MoveCommit(r)
    \/ CopyTeam(r)
    \/ CopyRead(r)
    \/ CopyFiles(r)
    \/ CopyReturn(r)
    \/ RemoveChild(r)
    \/ RemoveFile(r)
    \/ RemoveCommit(r)
    \/ PurgeCollect(r)
    \/ PurgeFiles(r)
    \/ PurgeBytes(r)
    \/ PurgeRow(r)
    \/ Fail(r)

Files == \E f \in Rows : Upload(f) \/ TrashFiles(f) \/ TakeFiles(f)

Next == Files \/ \E r \in Request : Begin(r) \/ Continue(r)

Spec == Init /\ [][Next]_vars

\* The runtime keeps running a handler whose awaited statement has answered.
FairSpec == Spec /\ \A r \in Request : WF_vars(Continue(r))

-----------------------------------------------------------------------------
(* Type invariant, foreign keys included *)

TypeOK ==
    /\ unused \subseteq Folder
    /\ Rows \subseteq Folder \ unused
    /\ parent \in [Rows -> Rows \cup {None}]
    /\ team \in [Rows -> TeamFolder \cup {None}]
    /\ listed \subseteq Rows
    /\ trashed \subseteq Rows
    /\ lost \subseteq listed
    /\ req \in [Request -> RequestState]

-----------------------------------------------------------------------------
(* What holds while one request at a time moves folders *)

\* No folder is its own ancestor: in every set of folders one has its parent
\* outside the set.
Acyclic ==
    \A S \in SUBSET Rows : S # {} => \E f \in S : parent[f] \notin S

\* "Cannot move a folder into its descendant": the folders between the destination
\* and the row the walk has come to do not include the one that moves, whatever
\* was created, copied or deleted meanwhile.
WalkClear ==
    \A r \in Mover : req[r].at = "move.walk" =>
        \E path \in SUBSET Folder :
            /\ req[r].under \in path \cup {None}
            /\ req[r].folder \notin path
            /\ path \cap unused = {}
            /\ \A f \in path \cap Rows : parent[f] \in path \cup {req[r].current, None}

\* Only movers move.
MovesAreMovers ==
    \A r \in Request : req[r].at \in {"move.destination", "move.walk"} => r \in Mover

\* A move is not into the folder itself, and what it keeps in hand had a row once.
WalkKnown ==
    \A r \in Mover :
        /\ req[r].at = "move.destination" => req[r].under # req[r].folder
        /\ req[r].at = "move.walk" =>
              req[r].under \notin unused /\ req[r].current \notin unused

\* Inductive when Mover has one element.
TreeInv == TypeOK /\ Acyclic /\ MovesAreMovers /\ WalkClear /\ WalkKnown

-----------------------------------------------------------------------------
(* What holds while one request runs at a time *)

OneRequest == \A r, q \in Request : r = q

\* "Folder is not empty": deleting a folder does not move folders that were in it
\* to the top level.
RemoveLeavesNothingBehind ==
    [][\A r \in Request : \A f \in Rows :
          req[r].at = "remove.commit" /\ f \notin DOMAIN parent' => Children(f) = {}]_vars

\* A copy does not come upon its own copies, so it comes to an end.
CopyLeavesItself ==
    \A r \in Request : req[r].at = "copy.create" => req[r].source \notin req[r].made

\* Every handler ends: the walks up and down the tree, and the recursion of the
\* copy.
HandlersFinish == \A r \in Request : req[r] # Idle ~> req[r] = Idle

-----------------------------------------------------------------------------
(* What is said and not kept *)

\* "Child folders and files MUST inherit the ancestor Team Folder".
TeamFollowsParent == \A f \in Rows : parent[f] # None => team[f] = team[parent[f]]

\* "Deletion routes through the trash": a listed file keeps its bytes.
ListedKeepBytes == lost = {}
=============================================================================
