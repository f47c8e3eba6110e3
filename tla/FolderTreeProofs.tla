-------------------------- MODULE FolderTreeProofs --------------------------
(***************************************************************************)
(* Proofs about FolderTree: its types, foreign keys included; that the      *)
(* folders stay a forest while no two moves are in flight together; and,    *)
(* with one request at a time, what a recursive copy and a permanent delete *)
(* do, for any folders and any depth.                                       *)
(***************************************************************************)
EXTENDS FolderTree, SequenceTheorems, TLAPS

(***************************************************************************)
(* Type correctness                                                        *)
(***************************************************************************)

\* The tables after a row is added, and after one is deleted.
LEMMA RowAdded ==
  ASSUME TypeOK, NEW f \in unused, NEW up \in Rows \cup {None},
         NEW named \in TeamFolder \cup {None}
  PROVE  /\ DOMAIN WithRow(parent, f, up) = Rows \cup {f}
         /\ WithRow(parent, f, up) \in [Rows \cup {f} -> Rows \cup {f, None}]
         /\ WithRow(team, f, named) \in [Rows \cup {f} -> TeamFolder \cup {None}]
BY DEF TypeOK, WithRow, Rows

LEMMA RowDeleted ==
  ASSUME TypeOK, NEW f, DeleteRow(f)
  PROVE  /\ Rows' = Rows \ {f}
         /\ Rows' \subseteq Folder \ unused
         /\ parent' \in [Rows' -> Rows' \cup {None}]
         /\ team' \in [Rows' -> TeamFolder \cup {None}]
         /\ listed' \subseteq Rows'
         /\ trashed' \subseteq Rows'
         /\ lost' \subseteq listed'
BY DEF TypeOK, DeleteRow, Rows

\* A list of frames, or of any kind of them, stays one when a call is made or returns.
LEMMA TodoTyped ==
  ASSUME NEW S, NEW todo \in Seq(S)
  PROVE  /\ \A frame \in S : <<frame>> \o todo \in Seq(S)
         /\ todo # <<>> => Head(todo) \in S /\ Tail(todo) \in Seq(S)
<1>1. \A frame \in S : <<frame>> \o todo \in Seq(S)
  OBVIOUS
<1>2. todo # <<>> => Head(todo) \in S /\ Tail(todo) \in Seq(S)
  OBVIOUS
<1>. QED
  BY <1>1, <1>2

LEMMA InitTypeOK == Init => TypeOK
<1>. SUFFICES ASSUME Init PROVE TypeOK
  OBVIOUS
<1>1. req \in [Request -> RequestState]
  BY DEF Init, Idle, RequestState
<1>. QED
  BY <1>1 DEF Init, TypeOK, Rows

LEMMA BeginTypeOK ==
  ASSUME TypeOK, NEW r \in Request, Begin(r)
  PROVE  TypeOK'
<1>. USE DEF Goto, Idle, RequestState, Reads
<1>1. ASSUME NEW under \in Rows \cup {None}, NEW named \in TeamFolder \cup {None},
             Create(r, under, named)
      PROVE  TypeOK'
  BY <1>1 DEF TypeOK, Create, Rows
<1>2. ASSUME NEW f \in Rows, NEW d \in Folder \cup {None}, Move(r, f, d) PROVE TypeOK'
  BY <1>2 DEF TypeOK, Move, Rows
<1>3. ASSUME NEW f \in Rows, NEW d \in Folder \cup {None}, Copy(r, f, d) PROVE TypeOK'
  BY <1>3 DEF TypeOK, Copy, Rows
<1>4. ASSUME NEW f \in Rows, Remove(r, f) PROVE TypeOK'
  BY <1>4 DEF TypeOK, Remove, Rows
<1>5. ASSUME NEW f \in Rows, Purge(r, f) PROVE TypeOK'
  BY <1>5 DEF TypeOK, Purge, Rows
<1>. QED
  BY <1>1, <1>2, <1>3, <1>4, <1>5 DEF Begin

LEMMA ContinueTypeOK ==
  ASSUME TypeOK, NEW r \in Request, Continue(r)
  PROVE  TypeOK'
<1>. USE DEF Goto, GotoIf, Finish, Idle, RequestState, Reads
<1>1. ASSUME NEW f \in Folder, CreateCommit(r, f) PROVE TypeOK'
  <2>1. f \in unused /\ req[r].under \in Rows \cup {None}
        /\ req[r].team \in TeamFolder \cup {None}
    BY <1>1 DEF TypeOK, CreateCommit
  <2>2. /\ Rows' = Rows \cup {f}
        /\ parent' \in [Rows' -> Rows' \cup {None}]
        /\ team' \in [Rows' -> TeamFolder \cup {None}]
    BY ZenonT(30), <1>1, <2>1, RowAdded DEF CreateCommit, Rows
  <2>3. req' \in [Request -> RequestState]
    BY <1>1 DEF TypeOK, CreateCommit
  <2>. QED
    BY <1>1, <2>1, <2>2, <2>3 DEF TypeOK, CreateCommit
<1>2. ASSUME NEW g \in Folder, CopyCreate(r, g) PROVE TypeOK'
  <2>1. /\ g \in unused /\ req[r].under \in Rows \cup {None}
        /\ req[r].team \in TeamFolder \cup {None}
        /\ req[r].todo \in Seq(Frame)
        /\ [under |-> g, sources |-> req[r].children] \in Frame
        /\ req[r].made \cup {g} \in SUBSET Folder
        /\ req[r].filed \in BOOLEAN
    BY <1>2 DEF TypeOK, CopyCreate, Frame
  <2>2. <<[under |-> g, sources |-> req[r].children]>> \o req[r].todo \in Seq(Frame)
    BY <2>1, TodoTyped
  <2>3. req' \in [Request -> RequestState]
    BY <1>2, <2>1, <2>2 DEF TypeOK, CopyCreate
  <2>4. /\ Rows' = Rows \cup {g}
        /\ parent' \in [Rows' -> Rows' \cup {None}]
        /\ team' \in [Rows' -> TeamFolder \cup {None}]
    BY ZenonT(30), <1>2, <2>1, RowAdded DEF CopyCreate, Rows
  <2>. QED
    BY <1>2, <2>1, <2>3, <2>4 DEF TypeOK, CopyCreate
<1>3. CASE Destination(r)
  BY <1>3 DEF TypeOK, Destination, WalkOf, Rows
<1>4. CASE Walk(r)
  BY <1>4 DEF TypeOK, Walk, Rows
<1>5. CASE MoveCommit(r)
  BY <1>5 DEF TypeOK, MoveCommit, Rows
<1>6. CASE CopyTeam(r)
  <2>1. <<[under |-> req[r].under, sources |-> {req[r].folder}]>> \in Seq(Frame)
    BY <1>6 DEF TypeOK, CopyTeam, Frame
  <2>. QED
    BY <1>6, <2>1 DEF TypeOK, CopyTeam, Rows
<1>7. CASE CopyRead(r)
  <2>1. /\ req[r].todo \in Seq(Frame) /\ req[r].todo # <<>>
        /\ req[r].team \in TeamFolder \cup {None}
        /\ req[r].made \in SUBSET Folder
    BY <1>7 DEF TypeOK, CopyRead
  <2>2. Head(req[r].todo) \in Frame /\ Tail(req[r].todo) \in Seq(Frame)
    BY <2>1, TodoTyped
  <2>3. PICK f \in Head(req[r].todo).sources :
          GotoIf(r, f \in Rows,
                 [at |-> "copy.create", team |-> req[r].team, made |-> req[r].made,
                  todo |-> <<[Head(req[r].todo) EXCEPT !.sources = @ \ {f}]>>
                             \o Tail(req[r].todo),
                  source |-> f, under |-> Head(req[r].todo).under,
                  children |-> Children(f), filed |-> f \in listed \cup trashed])
    BY <1>7 DEF CopyRead
  <2>4. [Head(req[r].todo) EXCEPT !.sources = @ \ {f}] \in Frame
    BY <2>2 DEF Frame
  <2>5. <<[Head(req[r].todo) EXCEPT !.sources = @ \ {f}]>> \o Tail(req[r].todo) \in Seq(Frame)
    BY <2>2, <2>4, TodoTyped
  <2>6. /\ f \in Folder /\ Head(req[r].todo).under \in Folder \cup {None}
        /\ Children(f) \in SUBSET Folder
    BY <2>2 DEF Frame, Children, Rows, TypeOK
  <2>7. req' \in [Request -> RequestState]
    BY <2>1, <2>3, <2>5, <2>6 DEF TypeOK
  <2>. QED
    BY <1>7, <2>7 DEF TypeOK, CopyRead, Rows
<1>8. CASE CopyFiles(r)
  BY <1>8 DEF TypeOK, CopyFiles, Rows
<1>9. CASE CopyReturn(r)
  <2>1. req[r].todo \in Seq(Frame) /\ req[r].todo # <<>>
    BY <1>9 DEF TypeOK, CopyReturn
  <2>2. Tail(req[r].todo) \in Seq(Frame)
    BY <2>1, TodoTyped
  <2>3. req[r] \in [at : {"copy.read"}, team : TeamFolder \cup {None},
                     todo : Seq(Frame), made : SUBSET Folder]
    BY <1>9 DEF TypeOK, CopyReturn
  <2>4. [req[r] EXCEPT !.todo = Tail(@)]
          \in [at : {"copy.read"}, team : TeamFolder \cup {None},
                  todo : Seq(Frame), made : SUBSET Folder]
    BY <2>2, <2>3
  <2>5. [req[r] EXCEPT !.todo = Tail(@)] \in RequestState
    BY <2>4
  <2>6. req' \in [Request -> RequestState]
    BY <1>9, <2>5 DEF TypeOK, CopyReturn
  <2>. QED
    BY <1>9, <2>6 DEF TypeOK, CopyReturn, Rows
<1>10. CASE RemoveChild(r)
  BY <1>10 DEF TypeOK, RemoveChild, Rows
<1>11. CASE RemoveFile(r)
  BY <1>11 DEF TypeOK, RemoveFile, Rows
<1>12. CASE RemoveCommit(r)
  BY <1>12, RowDeleted DEF TypeOK, RemoveCommit, Rows
<1>13. CASE PurgeCollect(r)
  <2>1. PICK f \in req[r].todo :
          req' = [req EXCEPT ![r] = [req[r] EXCEPT !.todo = (@ \ {f}) \cup Children(f),
                                                   !.seen = @ \cup {f}]]
    BY <1>13 DEF PurgeCollect
  <2>2. /\ req[r] \in [at : {"purge.collect"}, folder : Folder, todo : SUBSET Folder,
                        seen : SUBSET Folder]
        /\ Children(f) \in SUBSET Folder
    BY <1>13 DEF TypeOK, PurgeCollect, Children, Rows
  <2>3. [req[r] EXCEPT !.todo = (@ \ {f}) \cup Children(f), !.seen = @ \cup {f}]
          \in [at : {"purge.collect"}, folder : Folder, todo : SUBSET Folder,
                  seen : SUBSET Folder]
    BY <2>2
  <2>4. [req[r] EXCEPT !.todo = (@ \ {f}) \cup Children(f), !.seen = @ \cup {f}]
          \in RequestState
    BY <2>3
  <2>5. req' \in [Request -> RequestState]
    BY <2>1, <2>4 DEF TypeOK
  <2>. QED
    BY <1>13, <2>5 DEF TypeOK, PurgeCollect, Rows
<1>14. CASE PurgeFiles(r)
  BY <1>14 DEF TypeOK, PurgeFiles, Rows
<1>15. CASE PurgeBytes(r)
  BY <1>15 DEF TypeOK, PurgeBytes, Rows
<1>16. CASE PurgeRow(r)
  <2>1. CASE ~req[r].filed /\ req[r].folder \in Rows
    BY <1>16, <2>1, RowDeleted DEF TypeOK, PurgeRow, Rows
  <2>2. CASE ~(~req[r].filed /\ req[r].folder \in Rows)
    BY <1>16, <2>2 DEF TypeOK, PurgeRow, Rows
  <2>. QED
    BY <2>1, <2>2
<1>17. CASE Fail(r)
  BY <1>17 DEF TypeOK, Fail, Rows
<1>. QED
  BY <1>1, <1>2, <1>3, <1>4, <1>5, <1>6, <1>7, <1>8, <1>9, <1>10, <1>11, <1>12, <1>13,
     <1>14, <1>15, <1>16, <1>17 DEF Continue

LEMMA NextTypeOK == TypeOK /\ [Next]_vars => TypeOK'
<1>. SUFFICES ASSUME TypeOK, [Next]_vars PROVE TypeOK'
  OBVIOUS
<1>1. CASE Files
  BY <1>1 DEF TypeOK, Files, Upload, TrashFiles, TakeFiles, Rows
<1>2. CASE UNCHANGED vars
  BY <1>2 DEF TypeOK, vars, Rows
<1>. QED
  BY <1>1, <1>2, BeginTypeOK, ContinueTypeOK DEF Next

\* Every request record has the fields of its step; parent_id and team_folder_id
\* refer to rows there are.
THEOREM TypeCorrect == Spec => []TypeOK
BY InitTypeOK, NextTypeOK, PTL DEF Spec

(***************************************************************************)
(* The folders are a forest                                                *)
(***************************************************************************)

Grown(f, up) ==
    /\ f \in unused
    /\ up \in Rows \cup {None}
    /\ unused' = unused \ {f}
    /\ parent' = WithRow(parent, f, up)

Pruned(f) ==
    /\ unused' = unused
    /\ parent' = [g \in Rows \ {f} |-> IF parent[g] = f THEN None ELSE parent[g]]

\* What a step can do to the tree: move a folder, add a row, delete one, or
\* nothing.
LEMMA TreeSteps ==
  ASSUME TypeOK, [Next]_vars
  PROVE  \/ \E r \in Request : MoveCommit(r)
         \/ \E f, up : Grown(f, up)
         \/ \E d : Pruned(d)
         \/ UNCHANGED <<unused, parent>>
<1>. DEFINE Goal == \/ \E r \in Request : MoveCommit(r)
                   \/ \E f, up : Grown(f, up)
                   \/ \E d : Pruned(d)
                   \/ UNCHANGED <<unused, parent>>
<1>1. CASE Files
  BY <1>1 DEF Files, Upload, TrashFiles, TakeFiles
<1>2. ASSUME NEW r \in Request, Begin(r) PROVE Goal
  BY <1>2 DEF Begin, Create, Move, Copy, Remove, Purge, Reads
<1>3. ASSUME NEW r \in Request, Continue(r) PROVE Goal
  <2>1. ASSUME NEW f \in Folder, CreateCommit(r, f) \/ CopyCreate(r, f) PROVE Goal
    <3>1. Grown(f, req[r].under)
      BY <2>1 DEF CreateCommit, CopyCreate, Grown
    <3>. QED
      BY <3>1
  <2>2. CASE RemoveCommit(r) \/ PurgeRow(r)
    <3>1. Pruned(req[r].folder) \/ UNCHANGED <<unused, parent>>
      BY <2>2 DEF RemoveCommit, PurgeRow, DeleteRow, Pruned
    <3>. QED
      BY <3>1
  <2>3. CASE MoveCommit(r)
    BY <2>3
  <2>. QED
    BY <1>3, <2>1, <2>2, <2>3 DEF Continue, Destination, Walk, CopyTeam, CopyRead, CopyFiles,
       CopyReturn, RemoveChild, RemoveFile, PurgeCollect, PurgeFiles, PurgeBytes, Fail, Reads
<1>. QED
  BY <1>1, <1>2, <1>3 DEF Next, vars

\* A new row has no children yet, so it closes no cycle.
LEMMA GrownAcyclic ==
  ASSUME TypeOK, Acyclic, NEW f, NEW up, Grown(f, up)
  PROVE  Acyclic'
<1>. USE FolderTreeAssumption
<1>1. f \in Folder /\ f \notin Rows /\ None \notin Folder /\ Rows \subseteq Folder
  BY DEF TypeOK, Grown
<1>2. Rows' = Rows \cup {f} /\ parent'[f] = up /\ \A g \in Rows : parent'[g] = parent[g]
  BY <1>1 DEF Grown, WithRow, Rows
<1>3. ASSUME NEW S \in SUBSET Rows', S # {}
      PROVE  \E g \in S : parent'[g] \notin S
  <2>1. CASE S = {f}
    BY <1>1, <1>2, <2>1 DEF Grown
  <2>2. CASE S # {f}
    <3>1. S \ {f} \in SUBSET Rows /\ S \ {f} # {}
      BY <1>2, <1>3, <2>2
    <3>2. PICK g \in S \ {f} : parent[g] \notin S \ {f}
      BY <3>1 DEF Acyclic
    <3>3. parent[g] # f
      BY <1>1, <3>1, <3>2 DEF TypeOK
    <3>. QED
      BY <1>2, <3>1, <3>2, <3>3
  <2>. QED
    BY <2>1, <2>2
<1>. QED
  BY <1>3 DEF Acyclic

\* Deleting a row moves its children to the top level.
LEMMA PrunedAcyclic ==
  ASSUME TypeOK, Acyclic, NEW f, Pruned(f)
  PROVE  Acyclic'
<1>1. Rows' = Rows \ {f} /\ \A g \in Rows' : parent'[g] \in {parent[g], None}
  BY DEF Pruned, Rows
<1>2. None \notin Rows
  BY FolderTreeAssumption DEF TypeOK
<1>3. ASSUME NEW S \in SUBSET Rows', S # {}
      PROVE  \E g \in S : parent'[g] \notin S
  BY <1>1, <1>2, <1>3 DEF Acyclic
<1>. QED
  BY <1>3 DEF Acyclic

\* A folder moved under one whose ancestors do not include it: a set closed under
\* parent' would have a part on the walked path that was closed under parent.
LEMMA MoveAcyclic ==
  ASSUME TreeInv, NEW r \in Request, MoveCommit(r)
  PROVE  Acyclic'
<1>. DEFINE folder == req[r].folder
            under == req[r].under
<1>1. r \in Mover
  BY DEF TreeInv, MovesAreMovers, MoveCommit
<1>2. PICK path \in SUBSET Folder :
        /\ under \in path \cup {None}
        /\ folder \notin path
        /\ \A f \in path \cap Rows : parent[f] \in path \cup {None}
  BY <1>1 DEF TreeInv, WalkClear, MoveCommit
<1>3. /\ Rows' = Rows /\ folder \in Rows /\ None \notin Rows
      /\ parent'[folder] = under
      /\ \A g \in Rows \ {folder} : parent'[g] = parent[g]
  BY FolderTreeAssumption DEF TreeInv, TypeOK, MoveCommit, Rows
<1>4. ASSUME NEW S \in SUBSET Rows, S # {}, \A g \in S : parent'[g] \in S
      PROVE  FALSE
  <2>1. CASE folder \notin S
    BY <1>3, <1>4, <2>1 DEF TreeInv, Acyclic
  <2>2. CASE folder \in S
    <3>1. under \in S \cap path
      BY <1>2, <1>3, <1>4, <2>2
    <3>2. \A g \in S \cap path : parent[g] \in S \cap path
      BY <1>2, <1>3, <1>4
    <3>. QED
      BY <3>1, <3>2 DEF TreeInv, Acyclic
  <2>. QED
    BY <2>1, <2>2
<1>. QED
  BY <1>3, <1>4 DEF Acyclic

LEMMA NextAcyclic == TreeInv /\ [Next]_vars => Acyclic'
<1>. SUFFICES ASSUME TreeInv, [Next]_vars PROVE Acyclic'
  OBVIOUS
<1>1. TypeOK /\ Acyclic
  BY DEF TreeInv
<1>2. CASE UNCHANGED <<unused, parent>>
  BY <1>1, <1>2 DEF Acyclic, Rows
<1>. QED
  BY <1>1, <1>2, TreeSteps, GrownAcyclic, PrunedAcyclic, MoveAcyclic

(***************************************************************************)
(* One mover: the walk stays true while others change the tree             *)
(***************************************************************************)

\* How a handler comes to be walking, or further on the way.
LEMMA WalkSteps ==
  ASSUME TypeOK, [Next]_vars, NEW r \in Request, req'[r] # req[r],
         req'[r].at \in {"move.destination", "move.walk"}
  PROVE  \/ \E f \in Rows, d \in Folder \cup {None} : Move(r, f, d)
         \/ req[r].at = "move.destination" /\ Destination(r)
         \/ req[r].at = "move.walk" /\ Walk(r)
<1>. USE DEF Goto, GotoIf, Finish, Idle
<1>1. ~(Files \/ UNCHANGED vars)
  BY DEF Files, Upload, TrashFiles, TakeFiles, vars
<1>2. PICK s \in Request : Begin(s) \/ Continue(s)
  BY <1>1 DEF Next
<1>3. s = r
  <2>1. \E state : req' = [req EXCEPT ![s] = state]
    BY <1>2 DEF Begin, Continue, Create, Move, Copy, Remove, Purge, CreateCommit, CopyCreate,
       Destination, Walk, MoveCommit, CopyTeam, CopyRead, CopyFiles, CopyReturn, RemoveChild,
       RemoveFile, RemoveCommit, PurgeCollect, PurgeFiles, PurgeBytes, PurgeRow, Fail
  <2>. QED
    BY <2>1 DEF TypeOK
<1>4. CASE Begin(r)
  BY <1>4 DEF TypeOK, Begin, Create, Copy, Remove, Purge
<1>5. CASE Continue(r)
  <2>1. req[r] \in RequestState
    BY DEF TypeOK
  <2>2. \A new : /\ [req[r] EXCEPT !.todo = new].at = req[r].at
                /\ \A more : [req[r] EXCEPT !.todo = new, !.seen = more].at = req[r].at
    BY <2>1 DEF RequestState
  <2>3. CASE CopyReturn(r)
    BY <2>2, <2>3 DEF TypeOK, CopyReturn
  <2>4. CASE PurgeCollect(r)
    <3>1. PICK f \in req[r].todo :
            req' = [req EXCEPT ![r] = [req[r] EXCEPT !.todo = (@ \ {f}) \cup Children(f),
                                                     !.seen = @ \cup {f}]]
      BY <2>4 DEF PurgeCollect
    <3>2. req'[r] = [req[r] EXCEPT !.todo = (@ \ {f}) \cup Children(f), !.seen = @ \cup {f}]
      BY <3>1 DEF TypeOK
    <3>. QED
      BY <2>2, <2>4, <3>2 DEF PurgeCollect
  <2>5. CASE PurgeBytes(r)
    <3>1. \E new : req'[r] = [req[r] EXCEPT !.todo = new]
      BY <2>5 DEF TypeOK, PurgeBytes
    <3>. QED
      BY <2>2, <2>5, <3>1 DEF PurgeBytes
  <2>6. CASE RemoveChild(r) \/ RemoveFile(r)
    <3>1. req'[r].at \in {"idle", "remove.file", "remove.commit"}
      BY <2>1, <2>6 DEF TypeOK, RequestState, RemoveChild, RemoveFile
    <3>. QED
      BY <3>1
  <2>7. CASE Destination(r) \/ Walk(r)
    BY <2>1, <2>7 DEF TypeOK, RequestState, Destination, Walk, WalkOf
  <2>8. CASE MoveCommit(r) \/ RemoveCommit(r) \/ PurgeRow(r) \/ Fail(r)
    BY <2>8 DEF TypeOK, MoveCommit, RemoveCommit, PurgeRow, Fail
  <2>9. CASE CopyTeam(r) \/ CopyFiles(r) \/ PurgeFiles(r)
    BY <2>9 DEF TypeOK, CopyTeam, CopyFiles, PurgeFiles
  <2>10. CASE CopyRead(r)
    BY <2>10 DEF TypeOK, CopyRead
  <2>11. ASSUME NEW f \in Folder, CreateCommit(r, f) \/ CopyCreate(r, f) PROVE FALSE
    BY <2>11 DEF TypeOK, CreateCommit, CopyCreate
  <2>. QED
    BY <1>5, <2>3, <2>4, <2>5, <2>6, <2>7, <2>8, <2>9, <2>10, <2>11 DEF Continue
<1>. QED
  BY <1>2, <1>3, <1>4, <1>5

LEMMA NextWalkKnown == TreeInv /\ [Next]_vars => MovesAreMovers' /\ WalkKnown'
<1>. SUFFICES ASSUME TreeInv, [Next]_vars,
                     NEW r \in Request, req'[r].at \in {"move.destination", "move.walk"}
              PROVE  /\ r \in Mover
                     /\ req'[r].at = "move.destination" => req'[r].under # req'[r].folder
                     /\ req'[r].at = "move.walk" =>
                           req'[r].under \notin unused' /\ req'[r].current \notin unused'
  BY FolderTreeAssumption DEF MovesAreMovers, WalkKnown
<1>1. unused' \subseteq unused
  BY TreeSteps DEF TreeInv, Grown, Pruned, MoveCommit
<1>2. TypeOK /\ None \notin unused
  BY FolderTreeAssumption DEF TreeInv, TypeOK
<1>3. CASE req'[r] = req[r]
  BY <1>1, <1>3 DEF TreeInv, MovesAreMovers, WalkKnown
<1>4. ASSUME NEW f \in Rows, NEW d \in Folder \cup {None}, Move(r, f, d)
      PROVE  /\ r \in Mover
             /\ req'[r].at = "move.destination" => req'[r].under # req'[r].folder
             /\ req'[r].at = "move.walk" => req'[r].under = None /\ req'[r].current = None
  BY <1>2, <1>4 DEF Move, Goto, TypeOK
<1>5. ASSUME req[r].at = "move.destination", Destination(r)
      PROVE  /\ r \in Mover
             /\ req'[r].at = "move.walk"
             /\ req'[r].under \in Rows /\ req'[r].current \in Rows \cup {None}
  BY <1>2, <1>5 DEF Destination, WalkOf, Goto, GotoIf, Idle, TypeOK, TreeInv, MovesAreMovers, Rows
<1>6. ASSUME req[r].at = "move.walk", Walk(r)
      PROVE  /\ r \in Mover
             /\ req'[r].at = "move.walk"
             /\ req'[r].under = req[r].under /\ req'[r].current \in Rows \cup {None}
  BY <1>2, <1>6 DEF Walk, Goto, GotoIf, Idle, TypeOK, RequestState, TreeInv, MovesAreMovers, Rows
<1>7. Rows \cap unused = {}
  BY <1>2 DEF TypeOK
<1>. QED
  BY <1>1, <1>2, <1>3, <1>4, <1>5, <1>6, <1>7, WalkSteps DEF TreeInv, WalkKnown

\* A path walked stays a path: rows are added without children, and a row's parent
\* changes only to none.
LEMMA PathStays ==
  ASSUME TypeOK, NEW path \in SUBSET Folder, path \cap unused = {}, NEW end,
         \A f \in path \cap Rows : parent[f] \in path \cup {end, None},
         [Next]_vars, \A r \in Request : ~MoveCommit(r)
  PROVE  /\ path \cap unused' = {}
         /\ \A f \in path \cap Rows' : parent'[f] \in path \cup {end, None}
<1>1. CASE UNCHANGED <<unused, parent>>
  BY <1>1 DEF Rows
<1>2. ASSUME NEW f, NEW up, Grown(f, up)
      PROVE  /\ path \cap unused' = {}
             /\ \A g \in path \cap Rows' : parent'[g] \in path \cup {end, None}
  BY <1>2 DEF TypeOK, Grown, WithRow, Rows
<1>3. ASSUME NEW f, Pruned(f)
      PROVE  /\ path \cap unused' = {}
             /\ \A g \in path \cap Rows' : parent'[g] \in path \cup {end, None}
  BY <1>3 DEF Pruned, Rows
<1>. QED
  BY <1>1, <1>2, <1>3, TreeSteps

LEMMA NextWalkClear ==
  ASSUME NEW m, Mover = {m}, TreeInv, [Next]_vars
  PROVE  WalkClear'
<1>. SUFFICES ASSUME req'[m].at = "move.walk"
              PROVE  \E path \in SUBSET Folder :
                        /\ req'[m].under \in path \cup {None}
                        /\ req'[m].folder \notin path
                        /\ path \cap unused' = {}
                        /\ \A f \in path \cap Rows' :
                              parent'[f] \in path \cup {req'[m].current, None}
  BY DEF WalkClear
<1>1. m \in Request /\ TypeOK /\ None \notin Folder
  BY FolderTreeAssumption DEF TreeInv
<1>2. \A r \in Request : ~MoveCommit(r)
  <2>. SUFFICES ASSUME NEW r \in Request, MoveCommit(r) PROVE FALSE
    OBVIOUS
  <2>1. r = m
    BY DEF TreeInv, MovesAreMovers, MoveCommit
  <2>. QED
    BY <1>1, <2>1 DEF MoveCommit, Finish, Goto, Idle, TypeOK
<1>3. CASE req'[m] = req[m]
  <2>1. PICK path \in SUBSET Folder :
          /\ req[m].under \in path \cup {None}
          /\ req[m].folder \notin path
          /\ path \cap unused = {}
          /\ \A f \in path \cap Rows : parent[f] \in path \cup {req[m].current, None}
    BY <1>3 DEF TreeInv, WalkClear
  <2>2. /\ path \cap unused' = {}
        /\ \A f \in path \cap Rows' : parent'[f] \in path \cup {req[m].current, None}
    BY <1>1, <1>2, <2>1, PathStays
  <2>. QED
    BY <1>3, <2>1, <2>2
<1>4. ASSUME NEW f \in Rows, NEW d \in Folder \cup {None}, Move(m, f, d)
      PROVE  req'[m].under = None
  BY <1>1, <1>4 DEF Move, Goto, TypeOK
<1>5. CASE req[m].at = "move.destination" /\ Destination(m)
  <2>1. /\ req'[m].under \in Rows /\ req'[m].under # req'[m].folder
        /\ req'[m].current = parent[req'[m].under]
        /\ UNCHANGED <<unused, parent>>
    BY <1>1, <1>5 DEF Destination, WalkOf, Goto, GotoIf, Idle, Reads, TypeOK, TreeInv, WalkKnown
  <2>2. {req'[m].under} \in SUBSET Folder /\ {req'[m].under} \cap unused = {}
    BY <1>1, <2>1 DEF TypeOK
  <2>. QED
    BY <2>1, <2>2 DEF Rows
<1>6. CASE req[m].at = "move.walk" /\ Walk(m)
  <2>1. PICK path \in SUBSET Folder :
          /\ req[m].under \in path \cup {None}
          /\ req[m].folder \notin path
          /\ path \cap unused = {}
          /\ \A f \in path \cap Rows : parent[f] \in path \cup {req[m].current, None}
    BY <1>6 DEF TreeInv, WalkClear
  <2>2. /\ req[m].current \in Folder \ unused /\ req[m].current # req[m].folder
        /\ req'[m].under = req[m].under /\ req'[m].folder = req[m].folder
        /\ req'[m].current = IF req[m].current \in Rows THEN parent[req[m].current] ELSE None
        /\ UNCHANGED <<unused, parent>>
    BY <1>1, <1>6 DEF Walk, Goto, GotoIf, Idle, Reads, TypeOK, RequestState, TreeInv, WalkKnown
  <2>3. path \cup {req[m].current} \in SUBSET Folder
    BY <2>2
  <2>. WITNESS path \cup {req[m].current} \in SUBSET Folder
  <2>. QED
    BY <2>1, <2>2 DEF Rows
<1>7. CASE req'[m].under = None
  <2>. WITNESS {} \in SUBSET Folder
  <2>. QED
    BY <1>7
<1>. QED
  BY <1>1, <1>3, <1>4, <1>5, <1>6, <1>7, WalkSteps

LEMMA InitTreeInv == Init => TreeInv
<1>. SUFFICES ASSUME Init PROVE TreeInv
  OBVIOUS
<1>1. \A r \in Request : req[r].at = "idle"
  BY DEF Init, Idle
<1>2. Rows = {}
  BY DEF Init, Rows
<1>. QED
  BY <1>1, <1>2, InitTypeOK, FolderTreeAssumption
     DEF TreeInv, Acyclic, MovesAreMovers, WalkClear, WalkKnown

\* The inductive invariant of one mover and any number of other requests.
THEOREM TreeInvHolds ==
  ASSUME NEW CONSTANT m, Mover = {m}
  PROVE  Spec => []TreeInv
<1>1. TreeInv /\ [Next]_vars => TreeInv'
  BY NextTypeOK, NextAcyclic, NextWalkKnown, NextWalkClear DEF TreeInv
<1>. QED
  BY <1>1, InitTreeInv, PTL DEF Spec

\* No folder becomes its own ancestor, however many folders there are and whatever
\* else is created, copied and deleted, while moves come one at a time.
THEOREM MovesKeepForest ==
  ASSUME NEW CONSTANT m, Mover = {m}
  PROVE  Spec => []Acyclic
<1>1. TreeInv => Acyclic
  BY DEF TreeInv
<1>2. Spec => []TreeInv
  BY TreeInvHolds
<1>. QED
  BY <1>1, <1>2, PTL

(***************************************************************************)
(* One request at a time: removal                                          *)
(***************************************************************************)

\* What removal has found holds until it deletes the row.
RemoveInv ==
  \A r \in Request :
     req[r].at \in {"remove.file", "remove.commit"} => Children(req[r].folder) = {}

\* Which steps come to a place in a removal or a copy.
LEMMA ComesTo ==
  ASSUME TypeOK, NEW r \in Request, Begin(r) \/ Continue(r)
  PROVE  /\ req'[r].at \in {"remove.file", "remove.commit"} => RemoveChild(r) \/ RemoveFile(r)
         /\ req'[r].at \in {"copy.destination", "copy.walk", "copy.read", "copy.create",
                            "copy.files"} =>
               \/ \E f \in Rows, d \in Folder \cup {None} : Copy(r, f, d)
               \/ Destination(r) \/ Walk(r) \/ CopyTeam(r) \/ CopyRead(r)
               \/ \E g \in Folder : CopyCreate(r, g)
               \/ CopyFiles(r) \/ CopyReturn(r)
<1>. DEFINE Copying == {"copy.destination", "copy.walk", "copy.read", "copy.create", "copy.files"}
            Removing == {"remove.file", "remove.commit"}
<1>. USE DEF Goto, GotoIf, Finish, Idle
<1>0. req \in [Request -> RequestState] /\ req[r] \in RequestState
  BY DEF TypeOK
<1>1. CASE MoveCommit(r) \/ RemoveCommit(r) \/ PurgeRow(r) \/ Fail(r)
           \/ \E f \in Folder : CreateCommit(r, f)
  <2>1. req' = [req EXCEPT ![r] = [at |-> "idle"]]
    BY <1>1 DEF MoveCommit, RemoveCommit, PurgeRow, Fail, CreateCommit
  <2>. QED
    BY <1>0, <2>1
<1>2. CASE PurgeFiles(r)
  <2>1. req'[r].at = "purge.bytes"
    BY <1>0, <1>2 DEF PurgeFiles
  <2>. QED
    BY <2>1
<1>3. CASE PurgeBytes(r) \/ PurgeCollect(r)
  <2>1. \A new : /\ [req[r] EXCEPT !.todo = new].at = req[r].at
                 /\ \A more : [req[r] EXCEPT !.todo = new, !.seen = more].at = req[r].at
    BY <1>0 DEF RequestState
  <2>2. CASE PurgeBytes(r)
    <3>1. \E new : req'[r] = [req[r] EXCEPT !.todo = new]
      BY <1>0, <2>2 DEF PurgeBytes
    <3>. QED
      BY <2>1, <2>2, <3>1 DEF PurgeBytes
  <2>3. CASE PurgeCollect(r)
    <3>1. PICK f \in req[r].todo :
            req' = [req EXCEPT ![r] = [req[r] EXCEPT !.todo = (@ \ {f}) \cup Children(f),
                                                     !.seen = @ \cup {f}]]
      BY <2>3 DEF PurgeCollect
    <3>2. req'[r] = [req[r] EXCEPT !.todo = (@ \ {f}) \cup Children(f), !.seen = @ \cup {f}]
      BY <1>0, <3>1
    <3>. QED
      BY <2>1, <2>3, <3>2 DEF PurgeCollect
  <2>. QED
    BY <1>3, <2>2, <2>3
<1>4. CASE RemoveChild(r) \/ RemoveFile(r)
  <2>1. req'[r].at \in {"idle", "remove.file", "remove.commit"}
    BY <1>0, <1>4 DEF RequestState, RemoveChild, RemoveFile
  <2>. QED
    BY <1>4, <2>1
<1>5. CASE Begin(r)
  <2>1. req'[r].at \notin Removing
    BY <1>0, <1>5 DEF Begin, Create, Move, Copy, Remove, Purge
  <2>2. ASSUME NEW f \in Rows, NEW d \in Folder \cup {None}, Move(r, f, d)
        PROVE  req'[r].at \notin Copying
    BY <1>0, <2>2 DEF Move
  <2>. QED
    BY <1>0, <1>5, <2>1, <2>2 DEF Begin, Create, Remove, Purge
<1>6. CASE Destination(r) \/ Walk(r) \/ CopyReturn(r)
  BY <1>0, <1>6 DEF Destination, Walk, WalkOf, CopyReturn, RequestState
<1>7. CASE CopyTeam(r)
  BY <1>0, <1>7 DEF CopyTeam
<1>8. CASE CopyRead(r)
  <2>1. PICK f \in Head(req[r].todo).sources :
          GotoIf(r, f \in Rows,
                 [at |-> "copy.create", team |-> req[r].team, made |-> req[r].made,
                  todo |-> <<[Head(req[r].todo) EXCEPT !.sources = @ \ {f}]>>
                             \o Tail(req[r].todo),
                  source |-> f, under |-> Head(req[r].todo).under,
                  children |-> Children(f), filed |-> f \in listed \cup trashed])
    BY <1>8 DEF CopyRead
  <2>2. req'[r].at \in {"idle", "copy.create"}
    BY <1>0, <2>1
  <2>. QED
    BY <1>8, <2>2
<1>9. CASE CopyFiles(r)
  BY <1>0, <1>9 DEF CopyFiles
<1>10. ASSUME NEW g \in Folder, CopyCreate(r, g)
       PROVE  req'[r].at \notin Removing
  BY <1>0, <1>10 DEF CopyCreate
<1>. QED
  BY <1>1, <1>2, <1>3, <1>4, <1>5, <1>6, <1>7, <1>8, <1>9, <1>10 DEF Continue

LEMMA NextRemoveInv ==
  ASSUME OneRequest
  PROVE  TypeOK /\ RemoveInv /\ [Next]_vars => RemoveInv'
<1>. SUFFICES ASSUME TypeOK, RemoveInv, [Next]_vars PROVE RemoveInv'
  OBVIOUS
<1>1. CASE Files \/ UNCHANGED vars
  BY <1>1 DEF Files, Upload, TrashFiles, TakeFiles, vars, RemoveInv, Children, Rows
<1>2. ASSUME NEW r \in Request, Begin(r) \/ Continue(r) PROVE RemoveInv'
  <2>0. Request = {r} /\ req \in [Request -> RequestState] /\ req[r] \in RequestState
    BY DEF OneRequest, TypeOK
  <2>1. CASE RemoveChild(r) \/ RemoveFile(r)
    <3>1. /\ UNCHANGED parent
          /\ \/ req'[r].at = "idle"
             \/ req'[r].folder = req[r].folder /\ Children(req[r].folder) = {}
      BY <2>0, <2>1 DEF RemoveChild, RemoveFile, RemoveInv, RequestState, Goto, GotoIf, Idle,
         Reads
    <3>. QED
      BY <2>0, <3>1 DEF RemoveInv, Children, Rows
  <2>2. CASE req'[r].at \notin {"remove.file", "remove.commit"}
    BY <2>0, <2>2 DEF RemoveInv
  <2>. QED
    BY <1>2, <2>1, <2>2, ComesTo
<1>. QED
  BY <1>1, <1>2 DEF Next

\* "Folder is not empty": with one request at a time, deleting a folder moves no
\* folder that was in it to the top level.
THEOREM RemovalLeavesNothing ==
  ASSUME OneRequest
  PROVE  Spec => RemoveLeavesNothingBehind
<1>1. Init => RemoveInv
  BY DEF Init, RemoveInv, Idle
<1>2. TypeOK /\ RemoveInv /\ [Next]_vars => RemoveInv'
  BY NextRemoveInv
<1>3. TypeOK /\ RemoveInv /\ [Next]_vars =>
        \A r \in Request : \A f \in Rows :
           req[r].at = "remove.commit" /\ f \notin DOMAIN parent' => Children(f) = {}
  <2>. SUFFICES ASSUME TypeOK, RemoveInv, [Next]_vars, NEW r \in Request, NEW f \in Rows,
                       req[r].at = "remove.commit", f \notin DOMAIN parent'
                PROVE  Children(f) = {}
    OBVIOUS
  <2>1. Request = {r}
    BY DEF OneRequest
  <2>2. ~(Files \/ UNCHANGED vars)
    BY DEF Files, Upload, TrashFiles, TakeFiles, vars, Rows
  <2>3. ~Begin(r)
    BY DEF Begin, Create, Move, Copy, Remove, Purge, Reads, Rows
  <2>4. Continue(r)
    BY <2>1, <2>2, <2>3 DEF Next
  <2>5. RemoveCommit(r)
    BY <2>4 DEF Continue, CreateCommit, CopyCreate, Destination, Walk, MoveCommit, CopyTeam,
       CopyRead, CopyFiles, CopyReturn, RemoveChild, RemoveFile, PurgeCollect, PurgeFiles,
       PurgeBytes, PurgeRow, Fail, Reads, Rows
  <2>6. f = req[r].folder
    BY <2>5 DEF RemoveCommit, DeleteRow, Rows
  <2>. QED
    BY <2>6 DEF RemoveInv
<1>. QED
  BY <1>1, <1>2, <1>3, TypeCorrect, PTL DEF Spec, RemoveLeavesNothingBehind

(***************************************************************************)
(* One request at a time: the copy of a tree                               *)
(***************************************************************************)

\* Everything outside is not to be copied: the destination, its ancestors, and what
\* this copy has made.  Every folder outside has its parent outside, so no child of
\* a source is.
Outside(state, path) == path \cup state.made

ClearFrame(outside) ==
  [under : outside \cup {None}, sources : SUBSET (Folder \ (outside \cup unused))]

UpwardClosed(outside, end) == \A f \in outside \cap Rows : parent[f] \in outside \cup {end, None}

\* The walk of a copy has come up the path, from the destination to the row it looks at.
CopyWalkClear(state) ==
  /\ state.folder \notin unused
  /\ state.current \notin unused
  /\ \E path \in SUBSET (Folder \ unused) :
        /\ state.under \in path \cup {None}
        /\ state.folder \notin path
        /\ UpwardClosed(path, state.current)

\* A copy under way has only sources before it that are not outside.
CopyClear(state, path) ==
  LET outside == Outside(state, path) IN
  /\ state.made \cap unused = {}
  /\ UpwardClosed(outside, None)
  /\ state.todo \in Seq(ClearFrame(outside))
  /\ state.at = "copy.create" =>
        /\ state.under \in outside \cup {None}
        /\ ({state.source} \cup state.children) \cap (outside \cup unused) = {}
  /\ state.at = "copy.files" => state.copy \in state.made

CopyHands(state) ==
  /\ state.at = "copy.destination" =>
        state.under # state.folder /\ state.folder \notin unused
  /\ state.at = "copy.walk" => CopyWalkClear(state)
  /\ state.at \in {"copy.read", "copy.create", "copy.files"} =>
        \E path \in SUBSET (Folder \ unused) : CopyClear(state, path)

CopyInv == \A r \in Request : CopyHands(req[r])

\* No child of a folder that is not outside is outside.
LEMMA ChildrenNotOutside ==
  ASSUME TypeOK, NEW outside, UpwardClosed(outside, None), NEW f \in Folder, f \notin outside
  PROVE  Children(f) \cap (outside \cup unused) = {}
BY FolderTreeAssumption DEF UpwardClosed, Children, TypeOK

\* A step that only reads the tree leaves to show what it takes in hand.
LEMMA CopyReads ==
  ASSUME OneRequest, NEW r \in Request, UNCHANGED <<unused, parent>>,
         NEW state, req'[r] = state, CopyHands(state)
  PROVE  CopyInv'
<1>1. Request = {r}
  BY DEF OneRequest
<1>. QED
  BY <1>1 DEF CopyInv, CopyHands, CopyWalkClear, CopyClear, Outside, ClearFrame, UpwardClosed,
     Rows

LEMMA CopyWalks ==
  ASSUME OneRequest, TypeOK, CopyInv, NEW r \in Request,
         \/ \E f \in Rows, d \in Folder \cup {None} : Copy(r, f, d)
         \/ Destination(r) \/ Walk(r)
  PROVE  CopyInv'
<1>. USE DEF Goto, GotoIf, Idle, Reads
<1>0. /\ req \in [Request -> RequestState] /\ req[r] \in RequestState
      /\ CopyHands(req[r]) /\ None \notin Folder /\ unused \subseteq Folder
      /\ Rows \subseteq Folder \ unused
  BY FolderTreeAssumption DEF TypeOK, CopyInv
<1>1. ASSUME NEW f \in Rows, NEW d \in Folder \cup {None}, Copy(r, f, d) PROVE CopyInv'
  <2>1. CASE d = None
    <3>. DEFINE state == [at |-> "copy.walk", folder |-> f, under |-> None, current |-> None]
    <3>1. CopyWalkClear(state)
      <4>1. {} \in SUBSET (Folder \ unused) /\ UpwardClosed({}, None)
        BY DEF UpwardClosed
      <4>. QED
        BY <1>0, <4>1 DEF CopyWalkClear
    <3>2. CopyHands(state) /\ req'[r] = state /\ UNCHANGED <<unused, parent>>
      BY <1>0, <1>1, <2>1, <3>1 DEF CopyHands, Copy
    <3>. QED
      BY <3>2, CopyReads
  <2>2. CASE d # None
    <3>. DEFINE state == [at |-> "copy.destination", folder |-> f, under |-> d]
    <3>1. CopyHands(state) /\ req'[r] = state /\ UNCHANGED <<unused, parent>>
      BY <1>0, <1>1, <2>2 DEF CopyHands, Copy
    <3>. QED
      BY <3>1, CopyReads
  <2>. QED
    BY <2>1, <2>2
<1>2. ASSUME req'[r].at \notin {"copy.destination", "copy.walk", "copy.read", "copy.create",
                                "copy.files"},
             UNCHANGED <<unused, parent>>
      PROVE  CopyInv'
  BY <1>2, CopyReads DEF CopyHands
<1>3. CASE Destination(r)
  <2>. DEFINE d == req[r].under
              state == [at |-> "copy.walk", folder |-> req[r].folder, under |-> d,
                        current |-> parent[d]]
  <2>1. CASE req[r].at = "copy.destination" /\ d \in Rows
    <3>1. req'[r] = state /\ UNCHANGED <<unused, parent>>
      BY <1>0, <1>3, <2>1 DEF Destination, WalkOf
    <3>2. /\ parent[d] \notin unused /\ d # req[r].folder /\ req[r].folder \notin unused
          /\ {d} \in SUBSET (Folder \ unused)
          /\ UpwardClosed({d}, parent[d])
      BY <1>0, <2>1 DEF TypeOK, CopyHands, UpwardClosed
    <3>3. CopyWalkClear(state)
      BY <3>2 DEF CopyWalkClear
    <3>. QED
      BY <3>1, <3>3, CopyReads DEF CopyHands
  <2>2. CASE ~(req[r].at = "copy.destination" /\ d \in Rows)
    <3>1. req'[r].at \in {"idle", "move.walk"} /\ UNCHANGED <<unused, parent>>
      BY <1>0, <1>3, <2>2 DEF Destination, WalkOf
    <3>. QED
      BY <1>2, <3>1
  <2>. QED
    BY <2>1, <2>2
<1>4. CASE Walk(r)
  <2>. DEFINE c == req[r].current
              state == [req[r] EXCEPT !.current = IF c \in Rows THEN parent[c] ELSE None]
  <2>1. CASE req[r].at = "copy.walk" /\ c # req[r].folder
    <3>1. req'[r] = state /\ UNCHANGED <<unused, parent>> /\ c # None
      BY <1>0, <1>4, <2>1 DEF Walk
    <3>2. /\ c \in Folder \ unused /\ req[r].folder \notin unused
          /\ state.at = "copy.walk" /\ state.folder = req[r].folder
          /\ state.under = req[r].under
          /\ state.current = IF c \in Rows THEN parent[c] ELSE None
      BY <1>0, <2>1, <3>1 DEF RequestState, CopyHands, CopyWalkClear
    <3>3. PICK path \in SUBSET (Folder \ unused) :
            /\ req[r].under \in path \cup {None}
            /\ req[r].folder \notin path
            /\ UpwardClosed(path, c)
      BY <1>0, <2>1 DEF CopyHands, CopyWalkClear
    <3>. HIDE DEF state, c
    <3>4. UpwardClosed(path \cup {c}, state.current)
      BY <3>2, <3>3 DEF UpwardClosed
    <3>5. state.current \notin unused
      BY <1>0, <3>2 DEF TypeOK
    <3>6. path \cup {c} \in SUBSET (Folder \ unused) /\ req[r].folder \notin path \cup {c}
      BY <2>1, <3>2, <3>3
    <3>7. CopyWalkClear(state)
      BY <3>2, <3>3, <3>4, <3>5, <3>6 DEF CopyWalkClear
    <3>. QED
      BY <3>1, <3>2, <3>7, CopyReads DEF CopyHands
  <2>2. CASE ~(req[r].at = "copy.walk" /\ c # req[r].folder)
    <3>1. req'[r].at \in {"idle", "move.walk"} /\ UNCHANGED <<unused, parent>>
      BY <1>0, <1>4, <2>2 DEF Walk, RequestState
    <3>. QED
      BY <1>2, <3>1
  <2>. QED
    BY <2>1, <2>2
<1>. QED
  BY <1>1, <1>3, <1>4

LEMMA CopyGoesOn ==
  ASSUME OneRequest, TypeOK, CopyInv, NEW r \in Request,
         CopyTeam(r) \/ CopyRead(r) \/ CopyFiles(r) \/ CopyReturn(r)
  PROVE  CopyInv'
<1>. USE DEF Goto, GotoIf, Idle, Reads
<1>0. /\ req \in [Request -> RequestState] /\ req[r] \in RequestState
      /\ CopyHands(req[r]) /\ None \notin Folder /\ unused \subseteq Folder
      /\ UNCHANGED <<unused, parent>>
  BY FolderTreeAssumption DEF TypeOK, CopyInv, CopyTeam, CopyRead, CopyFiles, CopyReturn
<1>1. CASE req'[r] = Idle
  BY <1>0, <1>1, CopyReads DEF CopyHands
<1>2. CASE CopyTeam(r)
  <2>. DEFINE d == req[r].under
              frame == [under |-> d, sources |-> {req[r].folder}]
              state == [at |-> "copy.read", team |-> IF d \in Rows THEN team[d] ELSE None,
                        todo |-> <<frame>>, made |-> {}]
  <2>1. req'[r] = state
    BY <1>0, <1>2 DEF CopyTeam
  <2>2. PICK path \in SUBSET (Folder \ unused) :
          /\ d \in path \cup {None}
          /\ req[r].folder \notin path
          /\ UpwardClosed(path, None)
    BY <1>0, <1>2 DEF CopyTeam, CopyHands, CopyWalkClear
  <2>3. frame \in ClearFrame(path)
    BY <1>0, <1>2, <2>2 DEF CopyTeam, CopyHands, CopyWalkClear, ClearFrame, RequestState
  <2>4. <<frame>> \in Seq(ClearFrame(path))
    BY <2>3
  <2>5. CopyClear(state, path)
    BY <2>2, <2>4 DEF CopyClear, Outside
  <2>. QED
    BY <1>0, <2>1, <2>5, CopyReads DEF CopyHands
<1>3. CASE CopyRead(r)
  <2>. DEFINE todo == req[r].todo
              top == Head(todo)
  <2>1. PICK f \in top.sources :
          GotoIf(r, f \in Rows,
                 [at |-> "copy.create", team |-> req[r].team, made |-> req[r].made,
                  todo |-> <<[top EXCEPT !.sources = @ \ {f}]>> \o Tail(todo),
                  source |-> f, under |-> top.under, children |-> Children(f),
                  filed |-> f \in listed \cup trashed])
    BY <1>3 DEF CopyRead
  <2>. DEFINE rest == <<[top EXCEPT !.sources = @ \ {f}]>> \o Tail(todo)
              state == [at |-> "copy.create", team |-> req[r].team, made |-> req[r].made,
                        todo |-> rest, source |-> f, under |-> top.under,
                        children |-> Children(f), filed |-> f \in listed \cup trashed]
  <2>2. req'[r] = Idle \/ req'[r] = state
    BY <1>0, <2>1
  <2>3. PICK path \in SUBSET (Folder \ unused) : CopyClear(req[r], path)
    BY <1>0, <1>3 DEF CopyRead, CopyHands
  <2>. DEFINE outside == Outside(req[r], path)
  <2>4. todo \in Seq(ClearFrame(outside)) /\ todo # <<>>
    BY <1>3, <2>3 DEF CopyRead, CopyClear
  <2>5. top \in ClearFrame(outside) /\ Tail(todo) \in Seq(ClearFrame(outside))
    BY <2>4, TodoTyped
  <2>6. [top EXCEPT !.sources = @ \ {f}] \in ClearFrame(outside)
    BY <2>5 DEF ClearFrame
  <2>7. rest \in Seq(ClearFrame(outside))
    BY <2>5, <2>6, TodoTyped
  <2>8. f \in Folder /\ f \notin outside \cup unused /\ top.under \in outside \cup {None}
    BY <2>1, <2>5 DEF ClearFrame
  <2>9. Children(f) \cap (outside \cup unused) = {}
    BY <2>3, <2>8, ChildrenNotOutside DEF CopyClear
  <2>10. CopyClear(state, path)
    <3>1. Outside(state, path) = outside /\ state.made = req[r].made
      BY DEF Outside
    <3>. HIDE DEF outside, rest, top, todo
    <3>. QED
      BY <2>3, <2>7, <2>8, <2>9, <3>1 DEF CopyClear, outside
  <2>11. state.at = "copy.create"
    OBVIOUS
  <2>. HIDE DEF state
  <2>12. CopyHands(state)
    BY <2>10, <2>11 DEF CopyHands
  <2>. QED
    BY <1>0, <1>1, <2>2, <2>12, CopyReads
<1>4. CASE CopyFiles(r)
  <2>. DEFINE state == [at |-> "copy.read", team |-> req[r].team, made |-> req[r].made,
                        todo |-> req[r].todo]
  <2>1. req'[r] = state
    BY <1>0, <1>4 DEF CopyFiles
  <2>2. PICK path \in SUBSET (Folder \ unused) : CopyClear(req[r], path)
    BY <1>0, <1>4 DEF CopyFiles, CopyHands
  <2>3. CopyClear(state, path)
    BY <2>2 DEF CopyClear, Outside
  <2>. QED
    BY <1>0, <2>1, <2>3, CopyReads DEF CopyHands
<1>5. CASE CopyReturn(r)
  <2>. DEFINE state == [req[r] EXCEPT !.todo = Tail(@)]
  <2>1. req'[r] = Idle \/ req'[r] = state
    BY <1>0, <1>5 DEF CopyReturn
  <2>2. PICK path \in SUBSET (Folder \ unused) : CopyClear(req[r], path)
    BY <1>0, <1>5 DEF CopyReturn, CopyHands
  <2>3. /\ state.at = "copy.read" /\ state.made = req[r].made
        /\ state.todo = Tail(req[r].todo) /\ req[r].todo # <<>>
    BY <1>0, <1>5 DEF CopyReturn, RequestState
  <2>4. Tail(req[r].todo) \in Seq(ClearFrame(Outside(req[r], path)))
    BY <2>2, <2>3, TodoTyped DEF CopyClear
  <2>. HIDE DEF state
  <2>5. CopyClear(state, path)
    BY <2>2, <2>3, <2>4 DEF CopyClear, Outside
  <2>. QED
    BY <1>0, <1>1, <2>1, <2>3, <2>5, CopyReads DEF CopyHands
<1>. QED
  BY <1>2, <1>3, <1>4, <1>5

\* A new copy is outside, under a folder outside, and its children are still to come.
LEMMA CopyMakes ==
  ASSUME OneRequest, TypeOK, CopyInv, NEW r \in Request, NEW g \in Folder, CopyCreate(r, g)
  PROVE  CopyInv'
<1>. DEFINE frame == [under |-> g, sources |-> req[r].children]
            todo == <<frame>> \o req[r].todo
            state == [at |-> "copy.files", team |-> req[r].team, copy |-> g,
                      made |-> req[r].made \cup {g}, filed |-> req[r].filed, todo |-> todo]
<1>1. /\ Request = {r} /\ req'[r] = state /\ req[r].at = "copy.create"
      /\ g \in unused /\ unused' = unused \ {g}
      /\ Rows' = Rows \cup {g}
      /\ parent'[g] = req[r].under /\ \A f \in Rows : f # g => parent'[f] = parent[f]
  BY DEF OneRequest, TypeOK, CopyCreate, Goto, WithRow, Rows
<1>2. PICK path \in SUBSET (Folder \ unused) : CopyClear(req[r], path)
  BY <1>1 DEF CopyInv, CopyHands
<1>. DEFINE outside == Outside(req[r], path)
<1>3. /\ Outside(state, path) = outside \cup {g}
      /\ (outside \cup {g}) \cup unused' = outside \cup unused
      /\ state.made \cap unused' = {}
  BY <1>1, <1>2 DEF Outside, CopyClear
<1>4. UpwardClosed(outside, None) /\ req[r].under \in outside \cup {None}
  BY <1>1, <1>2 DEF CopyClear
<1>5. \A f \in (outside \cup {g}) \cap Rows' : parent'[f] \in outside \cup {g, None}
  BY <1>1, <1>4 DEF UpwardClosed
<1>. DEFINE Clear == [under : outside \cup {g} \cup {None},
                      sources : SUBSET (Folder \ (outside \cup unused))]
<1>6. req[r].todo \in Seq(Clear)
  <2>1. ClearFrame(outside) \subseteq Clear
    BY DEF ClearFrame
  <2>2. req[r].todo \in Seq(ClearFrame(outside))
    BY <1>2 DEF CopyClear
  <2>. HIDE DEF Clear
  <2>. QED
    BY <2>1, <2>2, SeqMonotonic
<1>7. frame \in Clear
  <2>1. req[r].children \in SUBSET Folder
    BY <1>1 DEF TypeOK, RequestState
  <2>. QED
    BY <1>1, <1>2, <2>1 DEF CopyClear
<1>8. todo \in Seq(Clear)
  <2>. HIDE DEF Clear, frame
  <2>. QED
    BY <1>6, <1>7, TodoTyped
<1>9. path \in SUBSET (Folder \ unused')
  BY <1>1
<1>. HIDE DEF todo
<1>10. CopyHands(req[r])'
  <2>1. /\ req'[r].at = "copy.files" /\ req'[r].copy \in req'[r].made
        /\ req'[r].made = req[r].made \cup {g} /\ req'[r].todo = todo
    BY <1>1
  <2>2. path \cup req'[r].made = outside \cup {g}
    BY <2>1 DEF Outside
  <2>3. Clear = [under : (path \cup req'[r].made) \cup {None},
                 sources : SUBSET (Folder \ ((path \cup req'[r].made) \cup unused'))]
    BY <1>3, <2>2
  <2>4. req'[r].made \cap unused' = {}
    BY <1>3, <2>1
  <2>. HIDE DEF outside, Clear, state
  <2>. QED
    BY <1>5, <1>8, <1>9, <2>1, <2>2, <2>3, <2>4
    DEF CopyHands, CopyClear, Outside, UpwardClosed, ClearFrame
<1>. QED
  BY <1>1, <1>10 DEF CopyInv

LEMMA NextCopyInv ==
  ASSUME OneRequest
  PROVE  TypeOK /\ CopyInv /\ [Next]_vars => CopyInv'
<1>. SUFFICES ASSUME TypeOK, CopyInv, [Next]_vars PROVE CopyInv'
  OBVIOUS
<1>1. CASE Files \/ UNCHANGED vars
  <2>1. UNCHANGED <<unused, parent, req>>
    BY <1>1 DEF Files, Upload, TrashFiles, TakeFiles, vars
  <2>. QED
    BY ZenonT(30), <2>1 DEF CopyInv, CopyHands, CopyWalkClear, CopyClear, Outside, ClearFrame,
       UpwardClosed, Rows
<1>2. ASSUME NEW r \in Request, Begin(r) \/ Continue(r) PROVE CopyInv'
  <2>1. CASE req'[r].at \notin {"copy.destination", "copy.walk", "copy.read", "copy.create",
                                "copy.files"}
    <3>1. Request = {r}
      BY DEF OneRequest
    <3>. QED
      BY <2>1, <3>1 DEF CopyInv, CopyHands
  <2>. QED
    BY <1>2, <2>1, ComesTo, CopyWalks, CopyGoesOn, CopyMakes
<1>. QED
  BY <1>1, <1>2 DEF Next

\* With one request at a time, the copy of a tree never comes upon a folder that it
\* has made itself, although it writes into the tree that it reads.
THEOREM CopyKeepsOut ==
  ASSUME OneRequest
  PROVE  Spec => []CopyLeavesItself
<1>1. Init => CopyInv
  BY DEF Init, CopyInv, CopyHands, Idle
<1>2. TypeOK /\ CopyInv /\ [Next]_vars => CopyInv'
  BY NextCopyInv
<1>3. CopyInv => CopyLeavesItself
  BY DEF CopyInv, CopyHands, CopyClear, Outside, CopyLeavesItself
<1>. QED
  BY <1>1, <1>2, <1>3, TypeCorrect, PTL DEF Spec
=============================================================================
