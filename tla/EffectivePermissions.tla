------------------------ MODULE EffectivePermissions ------------------------
(***************************************************************************)
(* EffectivePermissionService (backend/src/permissions/                     *)
(* effective-permission.service.ts): the access level of one user, from     *)
(* roles, from access rows along the chain of parent folders and from       *)
(* shares.  One call of resolve, each await a step; while it walks up the   *)
(* chain, folders move.  No module of the server uses the service yet, and  *)
(* the schema lacks four of the tables it reads.                            *)
(***************************************************************************)
EXTENDS Permissions, Sequences

CONSTANTS
    Folder,
    NoFolder,       \* no parent, no folder
    OwnGroup,       \* groups the user is in; other groups' rows are not read
    AclRow,         \* bound: rows that folder_permissions may hold
    Call,           \* bound: calls of resolve, and what they find
    ChainLimit,     \* 100: how far up the walk goes
    MaxMoves        \* bound: folders moved or purged meanwhile

Level == {"NONE", "VIEW", "COMMENT", "EDIT", "ORGANIZE", "FULL_ACCESS"}
Subject == {"user"} \cup OwnGroup
Acl == [folder : Folder, subject : Subject, level : Level]

\* What a call is about: the folder it starts at (for a file its folder, if it
\* has one), the user's roles, and the active shares with the user.
CallFacts ==
    [type : {"FILE", "FOLDER"}, folder : Folder \cup {NoFolder}, owner : BOOLEAN,
     membership : {"ADMIN", "MEMBER", "NONE"}, teamFolder : BOOLEAN,
     teamRoles : SUBSET TeamFolderRole, folderShares : SUBSET Level,
     fileShares : SUBSET Level]

ASSUME EffectivePermissionsAssumption ==
    /\ NoFolder \notin Folder
    /\ AclRow \subseteq Acl
    /\ Call \subseteq CallFacts
    /\ ChainLimit \in Nat \ {0} /\ MaxMoves \in Nat

VARIABLES
    parent,         \* parent[f] of the folders there are, NoFolder at a root
    moves,          \* folders moved or purged so far
    acl,            \* rows of folder_permissions
    call,           \* the call that is under way, or the last one
    step,           \* what it does next
    level,          \* the best level so far
    current,        \* where the walk up the folders is
    chain,          \* the folders it has passed
    todo,           \* access rows not looked at yet
    taken,          \* those that are
    best            \* subjectBest: the row that counts, for each subject met

effVars == <<parent, moves, acl, call, step, level, current, chain, todo, taken, best>>

-----------------------------------------------------------------------------
(* Levels *)

LevelRank == [NONE |-> 0, VIEW |-> 10, COMMENT |-> 20, EDIT |-> 30, ORGANIZE |-> 40,
              FULL_ACCESS |-> 50]

TeamRoleLevel == [ADMIN |-> "ORGANIZE", ORGANIZER |-> "ORGANIZE", EDITOR |-> "EDIT",
                  COMMENTER |-> "COMMENT", VIEWER |-> "VIEW"]

MaxLevel(levels) ==
    CHOOSE l \in levels \cup {"NONE"} :
        \A other \in levels : LevelRank[other] <= LevelRank[l]

BaseLevels(c) ==
    IF c.membership = "ADMIN" \/ (~c.teamFolder /\ c.owner) THEN {"FULL_ACCESS"} ELSE {}

TeamLevels(c) == IF c.teamFolder THEN {TeamRoleLevel[role] : role \in c.teamRoles} ELSE {}

-----------------------------------------------------------------------------
(* The folders, which others move and purge *)

Forest(p) ==
    /\ \A f \in DOMAIN p : p[f] \in DOMAIN p \cup {NoFolder}
    /\ \A S \in SUBSET DOMAIN p : S # {} => \E f \in S : p[f] \notin S

MoveFolder(f, to) ==
    /\ moves < MaxMoves
    /\ f \in DOMAIN parent
    /\ parent' = [parent EXCEPT ![f] = to]
    /\ Forest(parent')
    /\ moves' = moves + 1
    /\ UNCHANGED <<acl, call, step, level, current, chain, todo, taken, best>>

PurgeFolder(f) ==
    /\ moves < MaxMoves
    /\ f \in DOMAIN parent /\ \A g \in DOMAIN parent : parent[g] # f
    /\ parent' = [g \in DOMAIN parent \ {f} |-> parent[g]]
    /\ acl' = {row \in acl : row.folder # f}
    /\ moves' = moves + 1
    /\ UNCHANGED <<call, step, level, current, chain, todo, taken, best>>

-----------------------------------------------------------------------------
(* A call *)

EffInit ==
    /\ parent \in [Folder -> Folder \cup {NoFolder}] /\ Forest(parent)
    /\ moves = 0
    /\ acl \in SUBSET AclRow
    /\ call \in Call
    /\ step = "idle"
    /\ level = "NONE"
    /\ current = NoFolder
    /\ chain = <<>>
    /\ todo = {}
    /\ taken = {}
    /\ best = [s \in {} |-> s]

Then(c) == IF c.folder # NoFolder THEN "walk" ELSE "shares"

\* resolveFolder, resolveFile: what is not found is denied.
BeginCall(c) ==
    /\ step = "idle"
    /\ c.folder # NoFolder => c.folder \in DOMAIN parent
    /\ call' = c
    /\ step' = "membership"
    /\ level' = "NONE" /\ current' = c.folder /\ chain' = <<>>
    /\ todo' = {} /\ taken' = {} /\ best' = [s \in {} |-> s]
    /\ UNCHANGED <<parent, moves, acl>>

ReadMembership ==
    /\ step = "membership"
    /\ step' = IF call.membership = "NONE" THEN "idle"
               ELSE IF call.teamFolder THEN "team" ELSE Then(call)
    /\ level' = IF call.membership = "NONE" THEN "NONE" ELSE MaxLevel(BaseLevels(call))
    /\ UNCHANGED <<parent, moves, acl, call, current, chain, todo, taken, best>>

\* The user's own role and those of the user's groups.
ReadTeamRoles ==
    /\ step = "team"
    /\ step' = Then(call)
    /\ level' = MaxLevel({level} \cup TeamLevels(call))
    /\ UNCHANGED <<parent, moves, acl, call, current, chain, todo, taken, best>>

\* folderChain, one folder.
WalkUp ==
    /\ step = "walk"
    /\ IF current \in DOMAIN parent /\ Len(chain) < ChainLimit
       THEN /\ chain' = Append(chain, current)
            /\ current' = parent[current]
            /\ step' = step
       ELSE /\ step' = "rows"
            /\ UNCHANGED <<chain, current>>
    /\ UNCHANGED <<parent, moves, acl, call, level, todo, taken, best>>

InChain(f) == \E i \in DOMAIN chain : chain[i] = f

ReadRows ==
    /\ step = "rows"
    /\ todo' = {row \in acl : InChain(row.folder)}
    /\ step' = "loop"
    /\ UNCHANGED <<parent, moves, acl, call, level, current, chain, taken, best>>

\* The map from ids to positions keeps the last position of an id.
Depth(f) == CHOOSE i \in DOMAIN chain :
                chain[i] = f /\ \A j \in DOMAIN chain : chain[j] = f => j <= i

Value(row) == [level |-> row.level, depth |-> Depth(row.folder)]

\* Mutant: at the same depth the later row wins.
NearerOrLater(v, w) == v.depth <= w.depth

\* A row replaces the one that counted.
Beats(v, w) == \/ v.depth < w.depth
               \/ v.depth = w.depth /\ LevelRank[v.level] > LevelRank[w.level]

\* One turn of the loop over aclRows, which come in no stated order.
TakeRow(row) ==
    /\ step = "loop" /\ row \in todo
    /\ todo' = todo \ {row}
    /\ taken' = taken \cup {row}
    /\ LET s == row.subject IN
       best' = IF s \in DOMAIN best /\ ~Beats(Value(row), best[s]) THEN best
               ELSE [t \in DOMAIN best \cup {s} |-> IF t = s THEN Value(row) ELSE best[t]]
    /\ UNCHANGED <<parent, moves, acl, call, step, level, current, chain>>

\* The rows that count are merged, then the folder shares.
MergeRows ==
    /\ step = "loop" /\ todo = {}
    /\ level' = MaxLevel({level} \cup {best[s].level : s \in DOMAIN best} \cup call.folderShares)
    /\ step' = "shares"
    /\ UNCHANGED <<parent, moves, acl, call, current, chain, todo, taken, best>>

ReadFileShares ==
    /\ step = "shares"
    /\ level' = IF call.type = "FILE" THEN MaxLevel({level} \cup call.fileShares) ELSE level
    /\ step' = "done"
    /\ UNCHANGED <<parent, moves, acl, call, current, chain, todo, taken, best>>

Answer ==
    /\ step = "done"
    /\ step' = "idle"
    /\ UNCHANGED <<parent, moves, acl, call, level, current, chain, todo, taken, best>>

EffNext ==
    \/ \E c \in Call : BeginCall(c)
    \/ ReadMembership \/ ReadTeamRoles \/ WalkUp \/ ReadRows
    \/ \E row \in todo : TakeRow(row)
    \/ MergeRows \/ ReadFileShares \/ Answer
    \/ \E f \in Folder : PurgeFolder(f) \/ \E to \in Folder \cup {NoFolder} : MoveFolder(f, to)

EffSpec == EffInit /\ [][EffNext]_effVars

-----------------------------------------------------------------------------
EffTypeOK ==
    /\ parent \in [DOMAIN parent -> Folder \cup {NoFolder}] /\ DOMAIN parent \subseteq Folder
    /\ moves \in Nat
    /\ acl \subseteq AclRow
    /\ call \in Call
    /\ step \in {"idle", "membership", "team", "walk", "rows", "loop", "shares", "done"}
    /\ level \in Level
    /\ current \in Folder \cup {NoFolder}
    /\ chain \in Seq(Folder)
    /\ todo \subseteq AclRow /\ taken \subseteq AclRow
    /\ best \in [DOMAIN best -> [level : Level, depth : Nat]] /\ DOMAIN best \subseteq Subject

\* A row counts when no other row of its subject is nearer to the resource, or
\* as near and higher.
Counts(row, rows) == \A other \in rows : other.subject = row.subject =>
                                            ~Beats(Value(other), Value(row))

\* The level of an answer, whatever order the rows came in and whatever moved
\* meanwhile: the highest of the user's roles, of the shares, and for each
\* subject of the nearest row to it on the chain that was walked, which may be
\* lower than rows further up (effective-permission.service.ts: 258-291).
NearestRowsDecide ==
    step = "done" =>
        level = MaxLevel(BaseLevels(call) \cup TeamLevels(call)
                         \cup {row.level : row \in {r \in taken : Counts(r, taken)}}
                         \cup (IF call.folder # NoFolder THEN call.folderShares ELSE {})
                         \cup (IF call.type = "FILE" THEN call.fileShares ELSE {}))
=============================================================================
