--------------------- MODULE EffectivePermissionsProofs ---------------------
(***************************************************************************)
(* Proofs about EffectivePermissions: an answer is the highest of the       *)
(* levels that count, whatever order the access rows come in and however    *)
(* folders move during the walk, for any folders, groups, rows and calls.   *)
(***************************************************************************)
EXTENDS EffectivePermissions, TLAPS, WellFoundedInduction

(***************************************************************************)
(* Levels                                                                  *)
(***************************************************************************)

LEMMA RankType == \A l \in Level : LevelRank[l] \in Nat
BY DEF Level, LevelRank

LEMMA RankInjective ==
  ASSUME NEW l \in Level, NEW m \in Level, LevelRank[l] = LevelRank[m]
  PROVE  l = m
BY DEF Level, LevelRank

\* The highest of a set of levels, NONE of no levels.
LEMMA MaxLevelIs ==
  ASSUME NEW S \in SUBSET Level
  PROVE  /\ MaxLevel(S) \in S \cup {"NONE"}
         /\ \A other \in S : LevelRank[other] <= LevelRank[MaxLevel(S)]
<1>1. \E l \in S \cup {"NONE"} : \A other \in S : LevelRank[other] <= LevelRank[l]
  <2>1. CASE "FULL_ACCESS" \in S
    BY <2>1 DEF Level, LevelRank
  <2>2. CASE "FULL_ACCESS" \notin S /\ "ORGANIZE" \in S
    BY <2>2 DEF Level, LevelRank
  <2>3. CASE "FULL_ACCESS" \notin S /\ "ORGANIZE" \notin S /\ "EDIT" \in S
    BY <2>3 DEF Level, LevelRank
  <2>4. CASE /\ "FULL_ACCESS" \notin S /\ "ORGANIZE" \notin S /\ "EDIT" \notin S
             /\ "COMMENT" \in S
    BY <2>4 DEF Level, LevelRank
  <2>5. CASE /\ "FULL_ACCESS" \notin S /\ "ORGANIZE" \notin S /\ "EDIT" \notin S
             /\ "COMMENT" \notin S /\ "VIEW" \in S
    BY <2>5 DEF Level, LevelRank
  <2>6. CASE S \subseteq {"NONE"}
    BY <2>6 DEF LevelRank
  <2>. QED
    BY <2>1, <2>2, <2>3, <2>4, <2>5, <2>6 DEF Level
<1>. QED
  BY <1>1 DEF MaxLevel

LEMMA MaxLevelType ==
  ASSUME NEW S \in SUBSET Level
  PROVE  MaxLevel(S) \in Level
BY MaxLevelIs DEF Level

\* The levels can be merged one set at a time.
LEMMA MaxLevelMerges ==
  ASSUME NEW A \in SUBSET Level, NEW B \in SUBSET Level
  PROVE  MaxLevel({MaxLevel(A)} \cup B) = MaxLevel(A \cup B)
<1>. DEFINE a == MaxLevel(A)
            m == MaxLevel({a} \cup B)
            n == MaxLevel(A \cup B)
<1>1. a \in Level /\ {a} \cup B \in SUBSET Level /\ A \cup B \in SUBSET Level
  BY MaxLevelType
<1>2. m \in Level /\ n \in Level /\ "NONE" \in Level
  BY <1>1, MaxLevelType DEF Level
<1>3. /\ a \in A \cup {"NONE"} /\ \A o \in A : LevelRank[o] <= LevelRank[a]
      /\ m \in {a} \cup B \cup {"NONE"} /\ \A o \in {a} \cup B : LevelRank[o] <= LevelRank[m]
      /\ n \in A \cup B \cup {"NONE"} /\ \A o \in A \cup B : LevelRank[o] <= LevelRank[n]
  BY <1>1, MaxLevelIs
<1>4. \A l \in Level : LevelRank["NONE"] <= LevelRank[l]
  BY DEF Level, LevelRank
<1>. HIDE DEF a, m, n
<1>5. LevelRank[m] <= LevelRank[n]
  BY <1>1, <1>2, <1>3, <1>4
<1>6. LevelRank[n] <= LevelRank[m]
  BY <1>1, <1>2, <1>3, <1>4, RankType
<1>7. m = n
  BY <1>2, <1>5, <1>6, RankType, RankInjective
<1>. QED
  BY <1>7 DEF a, m, n

(***************************************************************************)
(* Rows                                                                    *)
(***************************************************************************)

\* A folder of the chain has a last position in it.
LEMMA DepthType ==
  ASSUME chain \in Seq(Folder), NEW f, InChain(f)
  PROVE  Depth(f) \in Nat
<1>. DEFINE R == OpToRel(<, Nat)
            Position == {i \in DOMAIN chain : chain[i] = f}
            T == {Len(chain) - i : i \in Position}
<1>1. IsWellFoundedOn(R, Nat)
  BY NatLessThanWellFounded
<1>2. T \subseteq Nat /\ T # {}
  BY DEF InChain
<1>3. PICK x \in T : \A y \in T : ~ (<<y, x>> \in R)
  <2>. HIDE DEF R, T
  <2>. QED
    BY <1>1, <1>2, WFMin
<1>4. \A y \in T : ~ (y < x)
  BY <1>2, <1>3 DEF OpToRel
<1>5. PICK i \in Position : x = Len(chain) - i
  OBVIOUS
<1>6. \A j \in Position : j <= i
  <2>. SUFFICES ASSUME NEW j \in Position PROVE j <= i
    OBVIOUS
  <2>1. ~ (Len(chain) - j < Len(chain) - i)
    BY <1>4, <1>5
  <2>. QED
    BY <2>1
<1>7. \E k \in DOMAIN chain : chain[k] = f /\ \A j \in DOMAIN chain : chain[j] = f => j <= k
  BY <1>6
<1>8. Depth(f) \in DOMAIN chain
  BY <1>7 DEF Depth
<1>. QED
  BY <1>8

RowValue == [level : Level, depth : Nat]

LEMMA ValueType ==
  ASSUME chain \in Seq(Folder), NEW row \in Acl, InChain(row.folder)
  PROVE  Value(row) \in RowValue
BY DepthType DEF Value, Acl, RowValue

LEMMA BeatsOrder ==
  ASSUME NEW u \in RowValue, NEW v \in RowValue, NEW w \in RowValue
  PROVE  /\ ~Beats(u, u)
         /\ Beats(u, v) /\ Beats(v, w) => Beats(u, w)
         /\ ~Beats(u, v) /\ ~Beats(v, u) => u.level = v.level
<1>1. /\ u.level \in Level /\ v.level \in Level /\ w.level \in Level
      /\ u.depth \in Nat /\ v.depth \in Nat /\ w.depth \in Nat
  BY DEF RowValue
<1>. QED
  BY <1>1, RankType, RankInjective DEF Beats

(***************************************************************************)
(* The inductive invariant                                                 *)
(***************************************************************************)

\* Between its steps a call has looked at rows of its chain, keeps for each
\* subject the row that counts among them, and its level is that of what has
\* been merged so far.
Looking == {"membership", "team", "walk", "rows"}
RoleLevels == BaseLevels(call) \cup TeamLevels(call)
Counted == {row.level : row \in {r \in taken : Counts(r, taken)}}
FolderShares == IF call.folder # NoFolder THEN call.folderShares ELSE {}
FileShares == IF call.type = "FILE" THEN call.fileShares ELSE {}

RowsInv ==
    /\ \A row \in todo \cup taken : InChain(row.folder)
    /\ DOMAIN best = {row.subject : row \in taken}
    /\ \A s \in DOMAIN best : \E row \in taken :
          row.subject = s /\ best[s] = Value(row) /\ Counts(row, taken)
    /\ step \in Looking => todo = {} /\ taken = {}

LevelInv ==
    /\ step = "team" => call.teamFolder /\ level = MaxLevel(BaseLevels(call))
    /\ step \in {"walk", "rows", "loop"} =>
         call.folder # NoFolder /\ level = MaxLevel(RoleLevels)
    /\ step = "shares" => level = MaxLevel(RoleLevels \cup Counted \cup FolderShares)
    /\ NearestRowsDecide

EffInv == EffTypeOK /\ RowsInv /\ LevelInv

LEMMA SourcesType ==
  ASSUME EffTypeOK
  PROVE  /\ BaseLevels(call) \in SUBSET Level /\ TeamLevels(call) \in SUBSET Level
         /\ RoleLevels \in SUBSET Level /\ FolderShares \in SUBSET Level
         /\ FileShares \in SUBSET Level /\ Counted \in SUBSET Level
<1>1. call \in CallFacts
  BY EffectivePermissionsAssumption DEF EffTypeOK
<1>2. \A role \in TeamFolderRole : TeamRoleLevel[role] \in Level
  BY DEF TeamFolderRole, TeamRoleLevel, Level
<1>3. BaseLevels(call) \in SUBSET Level /\ TeamLevels(call) \in SUBSET Level
  BY <1>1, <1>2 DEF BaseLevels, TeamLevels, CallFacts, Level
<1>4. FolderShares \in SUBSET Level /\ FileShares \in SUBSET Level
  BY <1>1 DEF FolderShares, FileShares, CallFacts
<1>5. taken \in SUBSET Acl
  BY EffectivePermissionsAssumption DEF EffTypeOK
<1>6. Counted \in SUBSET Level
  BY <1>5 DEF Counted, Acl
<1>. QED
  BY <1>3, <1>4, <1>6 DEF RoleLevels

LEMMA EffInitInv == EffInit => EffInv
<1>. SUFFICES ASSUME EffInit PROVE EffInv
  OBVIOUS
<1>1. best \in [DOMAIN best -> RowValue] /\ DOMAIN best = {}
  BY DEF EffInit
<1>2. chain \in Seq(Folder) /\ moves \in Nat /\ level \in Level
  BY DEF EffInit, Level
<1>3. EffTypeOK
  BY <1>1, <1>2 DEF EffInit, EffTypeOK, RowValue
<1>4. RowsInv /\ LevelInv
  BY <1>1 DEF EffInit, RowsInv, LevelInv, NearestRowsDecide
<1>. QED
  BY <1>3, <1>4 DEF EffInv

\* A call that begins.
LEMMA BeginInv ==
  ASSUME EffInv, NEW c \in Call, BeginCall(c)
  PROVE  EffInv'
<1>1. best' \in [DOMAIN best' -> RowValue] /\ DOMAIN best' = {}
  BY DEF BeginCall
<1>2. call' \in CallFacts
  BY EffectivePermissionsAssumption DEF BeginCall
<1>3. EffTypeOK'
  BY <1>1, <1>2 DEF BeginCall, EffInv, EffTypeOK, RowValue, Level, CallFacts
<1>4. RowsInv' /\ LevelInv'
  BY <1>1 DEF BeginCall, RowsInv, LevelInv, NearestRowsDecide
<1>. QED
  BY <1>3, <1>4 DEF EffInv

\* The steps before the rows are looked at.
LEMMA RolesInv ==
  ASSUME EffInv, ReadMembership \/ ReadTeamRoles
  PROVE  EffInv'
<1>. DEFINE base == BaseLevels(call)
            team == TeamLevels(call)
<1>1. /\ base \in SUBSET Level /\ team \in SUBSET Level
      /\ call \in CallFacts
  BY SourcesType, EffectivePermissionsAssumption DEF EffInv, EffTypeOK
<1>2. MaxLevel(base) \in Level /\ MaxLevel(base \cup team) \in Level /\ "NONE" \in Level
  BY <1>1, MaxLevelType DEF Level
<1>3. MaxLevel({MaxLevel(base)} \cup team) = MaxLevel(base \cup team)
  BY <1>1, MaxLevelMerges
<1>4. /\ todo' = todo /\ taken' = taken /\ best' = best /\ chain' = chain /\ call' = call
      /\ todo = {} /\ taken = {}
      /\ step' \in {"idle", "team", "walk", "shares"}
      /\ UNCHANGED <<parent, moves, acl, current>>
  BY DEF ReadMembership, ReadTeamRoles, Then, EffInv, RowsInv, Looking
<1>5. level' \in Level
  BY <1>2, <1>3 DEF ReadMembership, ReadTeamRoles, EffInv, LevelInv
<1>6. EffTypeOK'
  BY <1>4, <1>5 DEF EffInv, EffTypeOK
<1>7. RowsInv'
  BY <1>4 DEF EffInv, RowsInv, InChain, Value, Depth, Counts
<1>8. Counted' = {}
  BY <1>4 DEF Counted
<1>9. /\ step' = "team" => call.teamFolder /\ level' = MaxLevel(base)
      /\ step' \in {"walk", "shares"} => level' = MaxLevel(base \cup team)
      /\ step' = "walk" => call.folder # NoFolder
      /\ step' = "shares" => call.folder = NoFolder
  <2>1. CASE ReadMembership
    <3>1. ~call.teamFolder => base \cup team = base
      BY DEF TeamLevels
    <3>. QED
      BY <2>1, <3>1 DEF ReadMembership, Then
  <2>2. CASE ReadTeamRoles
    BY <1>3, <2>2 DEF ReadTeamRoles, Then, EffInv, LevelInv
  <2>. QED
    BY <2>1, <2>2
<1>10. LevelInv'
  BY <1>4, <1>8, <1>9 DEF LevelInv, RoleLevels, FolderShares, NearestRowsDecide
<1>. QED
  BY <1>6, <1>7, <1>10 DEF EffInv

\* The walk, and the read of the rows.
LEMMA WalkInv ==
  ASSUME EffInv, WalkUp \/ ReadRows
  PROVE  EffInv'
<1>1. chain' \in Seq(Folder) /\ current' \in Folder \cup {NoFolder}
  BY DEF WalkUp, ReadRows, EffInv, EffTypeOK
<1>2. /\ taken' = taken /\ taken = {} /\ best' = best /\ call' = call /\ level' = level
      /\ todo = {} /\ step' \in {"walk", "rows", "loop"}
      /\ call.folder # NoFolder /\ level = MaxLevel(RoleLevels)
      /\ UNCHANGED <<parent, moves, acl>>
  BY DEF WalkUp, ReadRows, EffInv, RowsInv, LevelInv, Looking
<1>3. /\ step' # "loop" => todo' = {}
      /\ todo' \subseteq AclRow /\ \A row \in todo' : InChain(row.folder)'
  <2>1. CASE WalkUp
    BY <1>2, <2>1 DEF WalkUp
  <2>2. CASE ReadRows
    BY <2>2 DEF ReadRows, EffInv, EffTypeOK, InChain
  <2>. QED
    BY <2>1, <2>2
<1>4. EffTypeOK'
  BY <1>1, <1>2, <1>3 DEF EffInv, EffTypeOK
<1>5. RowsInv'
  BY <1>2, <1>3 DEF EffInv, RowsInv, Looking
<1>6. LevelInv'
  BY <1>2 DEF LevelInv, RoleLevels, NearestRowsDecide
<1>. QED
  BY <1>4, <1>5, <1>6 DEF EffInv

\* A step that touches neither the chain nor the rows.
LEMMA RowsStay ==
  ASSUME RowsInv, UNCHANGED <<chain, todo, taken, best>>,
         step' \in Looking => step \in Looking
  PROVE  RowsInv' /\ Counted' = Counted
<1>1. \A r : Value(r)' = Value(r) /\ InChain(r.folder)' = InChain(r.folder)
  BY DEF Value, Depth, InChain
<1>2. \A r : Counts(r, taken)' = Counts(r, taken)
  BY <1>1 DEF Counts
<1>3. \A r \in todo' \cup taken' : InChain(r.folder)'
  BY <1>1 DEF RowsInv
<1>4. \A t \in DOMAIN best' : \E r \in taken' :
         r.subject = t /\ best'[t] = Value(r)' /\ Counts(r, taken)'
  BY <1>1, <1>2 DEF RowsInv
<1>. QED
  BY <1>2, <1>3, <1>4 DEF RowsInv, Counted

\* A row of the loop, in whatever order it comes.
LEMMA TakeRowInv ==
  ASSUME EffInv, NEW row \in todo, TakeRow(row)
  PROVE  EffInv'
<1>. DEFINE s == row.subject
            v == Value(row)
            wins == ~(s \in DOMAIN best /\ ~Beats(v, best[s]))
<1>1. /\ taken' = taken \cup {row} /\ todo' = todo \ {row}
      /\ UNCHANGED <<parent, moves, acl, call, step, level, current, chain>>
      /\ step = "loop"
      /\ best' = IF wins THEN [t \in DOMAIN best \cup {s} |-> IF t = s THEN v ELSE best[t]]
                 ELSE best
  BY DEF TakeRow
<1>2. \A r \in todo \cup taken : r \in Acl /\ Value(r) \in RowValue /\ InChain(r.folder)
  BY ValueType, EffectivePermissionsAssumption DEF EffInv, EffTypeOK, RowsInv
<1>3. v \in RowValue /\ s \in Subject
  BY <1>2 DEF Acl
<1>4. \A r : Value(r)' = Value(r)
  BY <1>1 DEF Value, Depth
<1>5. EffTypeOK'
  <2>1. best' \in [DOMAIN best' -> RowValue] /\ DOMAIN best' \subseteq Subject
    BY <1>1, <1>3 DEF EffInv, EffTypeOK, RowValue
  <2>. QED
    BY <1>1, <2>1 DEF EffInv, EffTypeOK, RowValue
<1>6. DOMAIN best' = {r.subject : r \in taken'}
  BY <1>1 DEF EffInv, RowsInv
<1>7. ASSUME NEW t \in DOMAIN best'
      PROVE  \E r \in taken' : /\ r.subject = t /\ best'[t] = Value(r)
                               /\ \A o \in taken' : o.subject = t => ~Beats(Value(o), Value(r))
  <2>1. CASE t # s
    <3>1. t \in DOMAIN best /\ best'[t] = best[t]
      BY <1>1, <2>1
    <3>2. PICK r \in taken : r.subject = t /\ best[t] = Value(r) /\ Counts(r, taken)
      BY <3>1 DEF EffInv, RowsInv
    <3>. QED
      BY <1>1, <2>1, <3>1, <3>2 DEF Counts
  <2>2. CASE t = s /\ s \notin DOMAIN best
    <3>1. \A o \in taken : o.subject # s
      BY <2>2 DEF EffInv, RowsInv
    <3>2. best'[s] = v
      BY <1>1, <2>2
    <3>. QED
      BY <1>1, <1>3, <2>2, <3>1, <3>2, BeatsOrder
  <2>3. CASE t = s /\ s \in DOMAIN best
    <3>1. PICK q \in taken : q.subject = s /\ best[s] = Value(q) /\ Counts(q, taken)
      BY <2>3 DEF EffInv, RowsInv
    <3>2. \A o \in taken : o.subject = s => ~Beats(Value(o), Value(q))
      BY <3>1 DEF Counts
    <3>3. CASE wins
      <4>1. Beats(v, Value(q)) /\ best'[s] = v
        BY <1>1, <2>3, <3>1, <3>3
      <4>2. \A o \in taken : o.subject = s => ~Beats(Value(o), v)
        BY <1>2, <1>3, <3>1, <3>2, <4>1, BeatsOrder
      <4>. QED
        BY <1>1, <1>3, <2>3, <4>1, <4>2, BeatsOrder
    <3>4. CASE ~wins
      <4>1. ~Beats(v, Value(q)) /\ best'[s] = Value(q)
        BY <1>1, <3>1, <3>4
      <4>. QED
        BY <1>1, <2>3, <3>1, <3>2, <4>1
    <3>. QED
      BY <3>3, <3>4
  <2>. QED
    BY <2>1, <2>2, <2>3
<1>8. RowsInv'
  <2>1. \A r \in todo' \cup taken' : InChain(r.folder)'
    BY <1>1, <1>2 DEF InChain
  <2>2. \A t \in DOMAIN best' : \E r \in taken' :
           r.subject = t /\ best'[t] = Value(r)' /\ Counts(r, taken)'
    BY <1>4, <1>7 DEF Counts
  <2>3. step' \notin Looking
    BY <1>1 DEF Looking
  <2>. QED
    BY <1>6, <2>1, <2>2, <2>3 DEF RowsInv
<1>9. LevelInv'
  BY <1>1 DEF EffInv, LevelInv, RoleLevels, NearestRowsDecide
<1>. QED
  BY <1>5, <1>8, <1>9 DEF EffInv

\* The rows that the loop kept have the levels of the rows that count.
LEMMA KeptAreCounted ==
  ASSUME EffInv
  PROVE  {best[s].level : s \in DOMAIN best} = Counted
<1>1. \A r \in taken : Value(r) \in RowValue /\ Value(r).level = r.level
  BY ValueType, EffectivePermissionsAssumption DEF EffInv, EffTypeOK, RowsInv, Value
<1>2. ASSUME NEW s \in DOMAIN best
      PROVE  best[s].level \in Counted
  BY <1>1 DEF EffInv, RowsInv, Counted
<1>3. ASSUME NEW r \in taken, Counts(r, taken)
      PROVE  r.level = best[r.subject].level /\ r.subject \in DOMAIN best
  <2>1. r.subject \in DOMAIN best
    BY DEF EffInv, RowsInv
  <2>2. PICK q \in taken : /\ q.subject = r.subject /\ best[r.subject] = Value(q)
                           /\ Counts(q, taken)
    BY <2>1 DEF EffInv, RowsInv
  <2>3. ~Beats(Value(q), Value(r)) /\ ~Beats(Value(r), Value(q))
    BY <1>3, <2>2 DEF Counts
  <2>. QED
    BY <1>1, <2>1, <2>2, <2>3, BeatsOrder
<1>. QED
  BY <1>2, <1>3 DEF Counted

\* The steps that merge the rows and the shares, and the answer.
LEMMA MergeInv ==
  ASSUME EffInv, MergeRows \/ ReadFileShares \/ Answer
  PROVE  EffInv'
<1>1. UNCHANGED <<parent, moves, acl, call, current, chain, todo, taken, best>>
  BY DEF MergeRows, ReadFileShares, Answer
<1>2. step' \notin Looking /\ step' \in {"shares", "done", "idle"}
  BY DEF MergeRows, ReadFileShares, Answer, Looking
<1>3. RowsInv' /\ Counted' = Counted
  BY <1>1, <1>2, RowsStay DEF EffInv
<1>4. Counted' = Counted /\ RoleLevels' = RoleLevels /\ FolderShares' = FolderShares
  BY <1>1, <1>3 DEF RoleLevels, FolderShares
<1>5. /\ RoleLevels \in SUBSET Level /\ FolderShares \in SUBSET Level
      /\ FileShares \in SUBSET Level /\ Counted \in SUBSET Level
      /\ RoleLevels \cup Counted \cup FolderShares \in SUBSET Level
      /\ Counted \cup FolderShares \in SUBSET Level
      /\ RoleLevels \cup Counted \cup FolderShares \cup FileShares \in SUBSET Level
  BY SourcesType DEF EffInv
<1>6. CASE MergeRows
  <2>1. level' = MaxLevel({level} \cup Counted \cup FolderShares)
    BY <1>6, KeptAreCounted DEF MergeRows, EffInv, LevelInv, FolderShares
  <2>2. level = MaxLevel(RoleLevels)
    BY <1>6 DEF MergeRows, EffInv, LevelInv
  <2>3. level' = MaxLevel({level} \cup (Counted \cup FolderShares))
    <3>1. {level} \cup Counted \cup FolderShares = {level} \cup (Counted \cup FolderShares)
      OBVIOUS
    <3>. QED
      BY <2>1, <3>1
  <2>4. level' = MaxLevel(RoleLevels \cup (Counted \cup FolderShares))
    BY <1>5, <2>2, <2>3, MaxLevelMerges
  <2>5. RoleLevels \cup (Counted \cup FolderShares) = RoleLevels \cup Counted \cup FolderShares
    OBVIOUS
  <2>6. level' \in Level
    BY <1>5, <2>4, <2>5, MaxLevelType
  <2>7. EffTypeOK'
    BY <1>1, <1>2, <2>6 DEF EffInv, EffTypeOK
  <2>8. LevelInv'
    BY <1>4, <1>6, <2>4, <2>5 DEF MergeRows, LevelInv, NearestRowsDecide
  <2>. QED
    BY <1>3, <2>7, <2>8 DEF EffInv
<1>7. CASE ReadFileShares
  <2>. DEFINE sofar == RoleLevels \cup Counted \cup FolderShares
  <2>1. level = MaxLevel(sofar)
    BY <1>7 DEF ReadFileShares, EffInv, LevelInv
  <2>2. MaxLevel({level} \cup FileShares) = MaxLevel(sofar \cup FileShares)
    BY <1>5, <2>1, MaxLevelMerges
  <2>3. level' = MaxLevel(sofar \cup FileShares)
    <3>1. CASE call.type = "FILE"
      BY <1>7, <2>2, <3>1 DEF ReadFileShares, FileShares
    <3>2. CASE call.type # "FILE"
      <4>1. sofar \cup FileShares = sofar
        BY <3>2 DEF FileShares
      <4>. QED
        BY <1>7, <2>1, <3>2, <4>1 DEF ReadFileShares
    <3>. QED
      BY <3>1, <3>2
  <2>4. level' \in Level
    BY <1>5, <2>3, MaxLevelType
  <2>5. EffTypeOK'
    BY <1>1, <1>2, <2>4 DEF EffInv, EffTypeOK
  <2>6. NearestRowsDecide'
    BY <1>1, <1>4, <2>3 DEF NearestRowsDecide, RoleLevels, Counted, FolderShares, FileShares
  <2>7. LevelInv'
    BY <1>7, <2>6 DEF ReadFileShares, LevelInv
  <2>. QED
    BY <1>3, <2>5, <2>7 DEF EffInv
<1>8. CASE Answer
  BY <1>1, <1>3, <1>8 DEF Answer, EffInv, EffTypeOK, LevelInv, NearestRowsDecide
<1>. QED
  BY <1>6, <1>7, <1>8

\* Folders that move, that are purged, and stuttering.
LEMMA OthersInv ==
  ASSUME EffInv,
         \/ \E f \in Folder : PurgeFolder(f) \/ \E to \in Folder \cup {NoFolder} : MoveFolder(f, to)
         \/ UNCHANGED effVars
  PROVE  EffInv'
<1>1. UNCHANGED <<call, step, level, current, chain, todo, taken, best>>
  BY DEF PurgeFolder, MoveFolder, effVars
<1>2. RowsInv' /\ Counted' = Counted
  BY <1>1, RowsStay DEF EffInv
<1>3. LevelInv'
  <2>1. RoleLevels' = RoleLevels /\ FolderShares' = FolderShares /\ FileShares' = FileShares
    BY <1>1 DEF RoleLevels, FolderShares, FileShares
  <2>. QED
    BY <1>1, <1>2, <2>1 DEF EffInv, LevelInv, NearestRowsDecide, RoleLevels, Counted,
       FolderShares, FileShares
<1>4. EffTypeOK'
  <2>1. ASSUME NEW f \in Folder, PurgeFolder(f)
        PROVE  EffTypeOK'
    BY <1>1, <2>1 DEF PurgeFolder, EffInv, EffTypeOK
  <2>2. ASSUME NEW f \in Folder, NEW to \in Folder \cup {NoFolder}, MoveFolder(f, to)
        PROVE  EffTypeOK'
    BY <1>1, <2>2 DEF MoveFolder, EffInv, EffTypeOK
  <2>3. CASE UNCHANGED effVars
    BY <2>3 DEF effVars, EffInv, EffTypeOK
  <2>. QED
    BY <2>1, <2>2, <2>3
<1>. QED
  BY <1>2, <1>3, <1>4 DEF EffInv

LEMMA EffInvHolds == EffSpec => []EffInv
<1>1. EffInv /\ [EffNext]_effVars => EffInv'
  BY BeginInv, RolesInv, WalkInv, TakeRowInv, MergeInv, OthersInv DEF EffNext
<1>. QED
  BY <1>1, EffInitInv, PTL DEF EffSpec

\* Every variable of a call has its type in every reachable state.
THEOREM EffectiveTyped == EffSpec => []EffTypeOK
BY EffInvHolds, PTL DEF EffInv

\* An answer is the highest of the levels that count, whatever the order of the
\* rows and however folders move while the call is under way.
THEOREM AnswerIsHighest == EffSpec => []NearestRowsDecide
<1>1. EffInv => NearestRowsDecide
  BY DEF EffInv, LevelInv
<1>. QED
  BY <1>1, EffInvHolds, PTL
=============================================================================
