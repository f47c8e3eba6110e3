--------------------------- MODULE ServicesProofs ---------------------------
(***************************************************************************)
(* Proofs about the object store, the seed script and the services beside   *)
(* each other: types; that what was purged does not come back through an    *)
(* old upload URL, for any keys, clock and PUTs in flight; that the seed    *)
(* script settles and rebuilds, however often it is started and whatever    *)
(* users do; and that every behaviour of the services is one of each of     *)
(* them.                                                                    *)
(***************************************************************************)
EXTENDS Services, Seed, SharesProofs, EffectivePermissionsProofs, SequenceTheorems, TLAPS

(***************************************************************************)
(* The object store: types                                                 *)
(***************************************************************************)

LEMMA StoreInitType == StoreInit => StoreTypeOK
BY ObjectStoreAssumption DEF StoreInit, StoreTypeOK, TransferState, NoTransfer

\* A signed URL carries the method and the key it was made for.
LEMMA CreateUrlType ==
  ASSUME StoreTypeOK, NEW org, NEW method \in {"PUT", "GET"}, NEW k \in Key,
         CreateUrl(org, method, k)
  PROVE  StoreTypeOK'
BY ObjectStoreAssumption DEF CreateUrl, StoreTypeOK, Token

LEMMA PutType ==
  ASSUME StoreTypeOK, NEW x \in Transfer,
         \/ \E token \in tokens : BeginPut(x, token)
         \/ PutVerified(x) \/ PutOpens(x) \/ PutWrites(x) \/ PutStores(x) \/ PutFails(x)
  PROVE  StoreTypeOK'
<1>. USE DEF StoreTypeOK
<1>0. io[x] \in TransferState /\ NoTransfer \in TransferState
  BY DEF TransferState, NoTransfer
<1>1. ASSUME NEW token \in tokens, BeginPut(x, token)
      PROVE  StoreTypeOK'
  <2>1. [at |-> "body", token |-> token] \in TransferState
    BY DEF TransferState
  <2>. QED
    BY <1>1, <2>1 DEF BeginPut
<1>2. CASE PutVerified(x)
  <2>1. io[x].token \in Token /\ io[x].token.key \in Key
    BY <1>0, <1>2 DEF PutVerified, TransferState, Token, NoTransfer
  <2>2. [at |-> "open", key |-> io[x].token.key] \in TransferState
    BY <2>1 DEF TransferState
  <2>. QED
    BY <1>0, <1>2, <2>2 DEF PutVerified
<1>3. CASE PutOpens(x)
  <2>. DEFINE k == io[x].key
              others == {y \in Transfer : Writing(y, k)}
  <2>1. k \in Key
    BY <1>0, <1>3 DEF PutOpens, TransferState, NoTransfer
  <2>2. [at |-> "write", key |-> k, named |-> TRUE, mixed |-> others # {}] \in TransferState
    BY <2>1 DEF TransferState
  <2>3. ASSUME NEW y \in others
        PROVE  [io[y] EXCEPT !.mixed = TRUE] \in TransferState
    <3>1. io[y] \in TransferState /\ io[y].at = "write"
      BY DEF Writing
    <3>2. io[y] \in [at : {"write"}, key : Key, named : BOOLEAN, mixed : BOOLEAN]
      BY <3>1 DEF TransferState
    <3>. QED
      BY <3>2 DEF TransferState
  <2>4. \A y \in Transfer : io'[y] \in TransferState
    BY <1>3, <2>2, <2>3 DEF PutOpens
  <2>5. io' \in [Transfer -> TransferState]
    BY <1>3, <2>4 DEF PutOpens
  <2>6. stored' \in [Key -> {"absent", "partial", "whole"}] /\ UNCHANGED <<driver, tokens, now>>
    BY <1>3 DEF PutOpens
  <2>. QED
    BY <2>5, <2>6
<1>4. CASE PutWrites(x)
  <2>1. io[x].key \in Key
    BY <1>0, <1>4 DEF PutWrites, TransferState, NoTransfer
  <2>. QED
    BY <1>0, <1>4, <2>1 DEF PutWrites
<1>5. CASE PutStores(x)
  BY <1>0, <1>5 DEF PutStores
<1>6. CASE PutFails(x)
  BY <1>0, <1>6 DEF PutFails
<1>. QED
  BY <1>1, <1>2, <1>3, <1>4, <1>5, <1>6

LEMMA DeleteType ==
  ASSUME StoreTypeOK, NEW org, NEW k \in Key, Delete(org, k)
  PROVE  StoreTypeOK'
<1>1. ASSUME NEW x \in Transfer, Writing(x, k)
      PROVE  [io[x] EXCEPT !.named = FALSE] \in TransferState
  <2>1. io[x] \in TransferState /\ io[x].at = "write"
    BY <1>1 DEF Writing, StoreTypeOK
  <2>2. io[x] \in [at : {"write"}, key : Key, named : BOOLEAN, mixed : BOOLEAN]
    BY <2>1 DEF TransferState
  <2>. QED
    BY <2>2 DEF TransferState
<1>2. \A x \in Transfer : io'[x] \in TransferState
  BY <1>1 DEF Delete, StoreTypeOK
<1>3. io' \in [Transfer -> TransferState]
  BY <1>2 DEF Delete
<1>. QED
  BY <1>3 DEF Delete, StoreTypeOK

LEMMA StoreNextType == StoreTypeOK /\ [StoreNext]_storeVars => StoreTypeOK'
<1>. SUFFICES ASSUME StoreTypeOK, [StoreNext]_storeVars
              PROVE  StoreTypeOK'
  OBVIOUS
<1>1. CASE UNCHANGED storeVars
  BY <1>1 DEF storeVars, StoreTypeOK
<1>2. CASE Tick
  BY <1>2 DEF Tick, StoreTypeOK
<1>. QED
  BY <1>1, <1>2, CreateUrlType, PutType, DeleteType DEF StoreNext

\* The variables of the object store have their types (backend/src/storage).
THEOREM StoreTypes == StoreSpec => []StoreTypeOK
BY StoreInitType, StoreNextType, PTL DEF StoreSpec

(***************************************************************************)
(* What is closed stays closed                                             *)
(***************************************************************************)

\* The token of a PUT whose body is received is one that was handed out.
TokensKnown == \A x \in Transfer : io[x].at = "body" => io[x].token \in tokens

LEMMA TokensKnownNext ==
  ASSUME StoreTypeOK, TokensKnown, [StoreNext]_storeVars
  PROVE  TokensKnown'
<1>. USE DEF StoreTypeOK, TokensKnown
<1>1. ASSUME NEW org, NEW method, NEW k, CreateUrl(org, method, k)
      PROVE  TokensKnown'
  BY <1>1 DEF CreateUrl
<1>2. ASSUME NEW x \in Transfer,
             \/ \E token \in tokens : BeginPut(x, token)
             \/ PutVerified(x) \/ PutOpens(x) \/ PutWrites(x) \/ PutStores(x) \/ PutFails(x)
      PROVE  TokensKnown'
  <2>1. ASSUME NEW token \in tokens, BeginPut(x, token)
        PROVE  TokensKnown'
    BY <2>1 DEF BeginPut
  <2>2. CASE PutVerified(x)
    BY <2>2 DEF PutVerified, NoTransfer
  <2>3. CASE PutOpens(x)
    <3>1. \A y \in Transfer : io'[y].at = "body" => io'[y] = io[y]
      BY <2>3 DEF PutOpens, Writing
    <3>. QED
      BY <2>3, <3>1 DEF PutOpens
  <2>4. CASE PutWrites(x) \/ PutStores(x) \/ PutFails(x)
    BY <2>4 DEF PutWrites, PutStores, PutFails, NoTransfer
  <2>. QED
    BY <1>2, <2>1, <2>2, <2>3, <2>4
<1>3. ASSUME NEW org, NEW k \in Key, Delete(org, k)
      PROVE  TokensKnown'
  <2>1. \A y \in Transfer : io'[y].at = "body" => io'[y] = io[y]
    BY <1>3 DEF Delete, Writing
  <2>. QED
    BY <1>3, <2>1 DEF Delete
<1>4. CASE Tick
  BY <1>4 DEF Tick
<1>5. CASE UNCHANGED storeVars
  BY <1>5 DEF storeVars
<1>. QED
  BY <1>1, <1>2, <1>3, <1>4, <1>5 DEF StoreNext

\* A step of a PUT leaves a closed key closed.
LEMMA PutKeepsClosed ==
  ASSUME StoreTypeOK, TokensKnown, NEW k \in Key, Closed(k), NEW x \in Transfer,
         \/ \E token \in tokens : BeginPut(x, token)
         \/ PutVerified(x) \/ PutOpens(x) \/ PutWrites(x) \/ PutStores(x) \/ PutFails(x)
  PROVE  Closed(k)'
<1>. USE DEF StoreTypeOK, Closed
<1>1. ASSUME NEW token \in tokens, BeginPut(x, token)
      PROVE  Closed(k)'
  BY <1>1 DEF BeginPut
<1>2. CASE PutVerified(x)
  <2>1. io[x].token \in tokens /\ io[x].token.exp \in Nat
    BY <1>2 DEF PutVerified, TokensKnown, Token
  <2>2. Verify(io[x].token, "PUT") => io[x].token.key # k
    BY <2>1 DEF Verify
  <2>. QED
    BY <1>2, <2>2 DEF PutVerified, NoTransfer
<1>3. CASE PutOpens(x)
  <2>1. io[x].key # k
    BY <1>3 DEF PutOpens
  <2>2. stored'[k] = stored[k] /\ UNCHANGED <<tokens, now>>
    BY <1>3, <2>1 DEF PutOpens
  <2>3. \A y \in Transfer : io'[y].at \in {"open", "write"} => io'[y].key # k
    BY <1>3, <2>1 DEF PutOpens, Writing
  <2>. QED
    BY <2>2, <2>3
<1>4. CASE PutWrites(x)
  <2>1. io[x].key # k
    BY <1>4 DEF PutWrites
  <2>. QED
    BY <1>4, <2>1 DEF PutWrites, NoTransfer
<1>5. CASE PutStores(x)
  <2>1. io[x].key # k
    BY <1>5 DEF PutStores
  <2>. QED
    BY <1>5, <2>1 DEF PutStores, NoTransfer
<1>6. CASE PutFails(x)
  BY <1>6 DEF PutFails, NoTransfer
<1>. QED
  BY <1>1, <1>2, <1>3, <1>4, <1>5, <1>6

LEMMA ClosedStep ==
  ASSUME StoreTypeOK, TokensKnown, [StoreNext]_storeVars
  PROVE  [\A k \in Key : Closed(k) /\ tokens' = tokens => Closed(k)']_storeVars
<1>. SUFFICES ASSUME StoreNext, NEW k \in Key, Closed(k), tokens' = tokens
              PROVE  Closed(k)'
  BY DEF storeVars
<1>1. ASSUME NEW org, NEW method, NEW key, CreateUrl(org, method, key)
      PROVE  Closed(k)'
  BY <1>1 DEF CreateUrl, Closed
<1>2. ASSUME NEW org, NEW key \in Key, Delete(org, key)
      PROVE  Closed(k)'
  BY <1>2 DEF Delete, Closed, Writing, StoreTypeOK
<1>3. CASE Tick
  BY <1>3 DEF Tick, Closed, StoreTypeOK, Token
<1>. QED
  BY <1>1, <1>2, <1>3, PutKeepsClosed DEF StoreNext

\* A purged object does not come back: once its bytes are gone, no PUT of it
\* is under way and its upload URLs have expired, it stays absent until a new
\* URL is asked for, whatever clients still send to the old ones
\* (local-disk.storage.ts: 93-116, object-access-token.ts: 41-87).
THEOREM PurgedStaysPurged == StoreSpec => ClosedStaysClosed
<1>1. StoreInit => TokensKnown
  BY DEF StoreInit, TokensKnown, NoTransfer
<1>2. StoreTypeOK /\ TokensKnown /\ [StoreNext]_storeVars => TokensKnown'
  BY TokensKnownNext
<1>3. StoreTypeOK /\ TokensKnown /\ [StoreNext]_storeVars
        => [\A k \in Key : Closed(k) /\ tokens' = tokens => Closed(k)']_storeVars
  BY ClosedStep
<1>. QED
  BY StoreInitType, StoreNextType, <1>1, <1>2, <1>3, PTL DEF StoreSpec, ClosedStaysClosed

(***************************************************************************)
(* The seed script: its statements in order                                *)
(***************************************************************************)

\* u is s followed by t.
IsJoined(u, s, t) ==
    /\ Len(u) = Len(s) + Len(t)
    /\ \A i \in 1 .. Len(s) : u[i] = s[i]
    /\ \A i \in 1 .. Len(t) : u[Len(s) + i] = t[i]

LEMMA Joined ==
  ASSUME NEW S, NEW s \in Seq(S), NEW t \in Seq(S)
  PROVE  s \o t \in Seq(S) /\ IsJoined(s \o t, s, t)
BY DEF IsJoined

\* What the statements of the script are called.
Names == {"organization", "admin", "organizer", "viewer", "teamFolder", "member", "teamRoot",
    "folder", "file", "object", "version1", "version2", "metadata", "activities", "share",
    "recipient", "notification", "comment", "reply", "favorite", "tag", "fileTag", "quota"}

LEMMA Parts ==
  /\ OrganizationRows \in Seq(Names) /\ Len(OrganizationRows) = 4
  /\ TeamFolderRows \in Seq(Names) /\ Len(TeamFolderRows) = 3
  /\ FileRows \in Seq(Names) /\ Len(FileRows) = 7
  /\ ShareRows \in Seq(Names) /\ Len(ShareRows) = 2
  /\ CommentRows \in Seq(Names) /\ Len(CommentRows) = 3
  /\ FavoriteRows \in Seq(Names) /\ Len(FavoriteRows) = 3
  /\ QuotaRows \in Seq(Names) /\ Len(QuotaRows) = 1
BY DEF OrganizationRows, TeamFolderRows, FileRows, ShareRows, CommentRows, FavoriteRows,
       QuotaRows, Names

\* The parts of the script follow one another.
LEMMA ScriptIs ==
  /\ Script \in Seq(Names) /\ Len(Script) = 23
  /\ \A i \in 1 .. 4 : Script[i] = OrganizationRows[i]
  /\ \A i \in 1 .. 3 : Script[4 + i] = TeamFolderRows[i]
  /\ \A i \in 1 .. 7 : Script[7 + i] = FileRows[i]
  /\ \A i \in 1 .. 2 : Script[14 + i] = ShareRows[i]
  /\ \A i \in 1 .. 3 : Script[16 + i] = CommentRows[i]
  /\ \A i \in 1 .. 3 : Script[19 + i] = FavoriteRows[i]
  /\ Script[23] = QuotaRows[1]
<1>. DEFINE b == OrganizationRows \o TeamFolderRows
            c == b \o FileRows
            d == c \o ShareRows
            e == d \o CommentRows
            f == e \o FavoriteRows
            g == f \o QuotaRows
<1>1. b \in Seq(Names) /\ IsJoined(b, OrganizationRows, TeamFolderRows)
  BY Parts, Joined
<1>2. c \in Seq(Names) /\ IsJoined(c, b, FileRows)
  BY <1>1, Parts, Joined
<1>3. d \in Seq(Names) /\ IsJoined(d, c, ShareRows)
  BY <1>2, Parts, Joined
<1>4. e \in Seq(Names) /\ IsJoined(e, d, CommentRows)
  BY <1>3, Parts, Joined
<1>5. f \in Seq(Names) /\ IsJoined(f, e, FavoriteRows)
  BY <1>4, Parts, Joined
<1>6. g \in Seq(Names) /\ IsJoined(g, f, QuotaRows)
  BY <1>5, Parts, Joined
<1>7. Script = g
  BY DEF Script
<1>. HIDE DEF b, c, d, e, f, g
<1>8. Len(b) = 7 /\ Len(c) = 14 /\ Len(d) = 16 /\ Len(e) = 19 /\ Len(f) = 22 /\ Len(g) = 23
  BY <1>1, <1>2, <1>3, <1>4, <1>5, <1>6, Parts DEF IsJoined
<1>. QED
  BY <1>1, <1>2, <1>3, <1>4, <1>5, <1>6, <1>7, <1>8, Parts DEF IsJoined

LEMMA ScriptLength == Len(Script) = 23 /\ \A i \in 1 .. 23 : Script[i] \in Names
<1>1. Script \in Seq(Names) /\ Len(Script) = 23
  BY ScriptIs
<1>2. ASSUME NEW i \in 1 .. 23
      PROVE  Script[i] \in Names
  BY <1>1, ElementOfSeq
<1>. QED
  BY <1>1, <1>2

LEMMA ScriptRows ==
  /\ Script[1] = "organization" /\ Script[2] = "admin" /\ Script[3] = "organizer"
  /\ Script[4] = "viewer" /\ Script[5] = "teamFolder" /\ Script[6] = "member"
  /\ Script[7] = "teamRoot" /\ Script[8] = "folder" /\ Script[9] = "file"
  /\ Script[10] = "object" /\ Script[11] = "version1" /\ Script[12] = "version2"
  /\ Script[13] = "metadata" /\ Script[14] = "activities" /\ Script[15] = "share"
  /\ Script[16] = "recipient" /\ Script[17] = "notification" /\ Script[18] = "comment"
  /\ Script[19] = "reply" /\ Script[20] = "favorite" /\ Script[21] = "tag"
  /\ Script[22] = "fileTag" /\ Script[23] = "quota"
BY ScriptIs DEF OrganizationRows, TeamFolderRows, FileRows, ShareRows, CommentRows,
       FavoriteRows, QuotaRows

\* Every statement but one is about a seeded row, every seeded row has one.
LEMMA Rows == \A i \in 1 .. Len(Script) : Script[i] \in SeededRow \cup {"activities"}
BY SMTT(30), ScriptIs DEF SeededRow, ToSet

LEMMA RowsPassed == \A x \in SeededRow : \E i \in 1 .. Len(Script) : x = Script[i]
BY SMTT(30), ScriptIs DEF SeededRow, ToSet

\* The rows that statements refer to.
Referred == {"organization", "admin", "organizer", "teamFolder", "folder", "file", "object",
             "share", "comment", "tag"}

LEMMA NamedRows ==
  Referred \cup SeededUser \cup Cascading
     \cup {"member", "favorite", "teamRoot", "version1", "version2", "quota"} \subseteq SeededRow
<1>1. \A i \in 1 .. Len(Script) : Script[i] # "activities" => Script[i] \in SeededRow
  BY Rows
<1>. QED
  BY <1>1, ScriptIs, ScriptRows DEF Referred, SeededUser, Cascading

\* The place of a statement in the script.
Place ==
    [organization |-> 1, admin |-> 2, organizer |-> 3, viewer |-> 4, teamFolder |-> 5,
     member |-> 6, teamRoot |-> 7, folder |-> 8, file |-> 9, object |-> 10, version1 |-> 11,
     version2 |-> 12, metadata |-> 13, activities |-> 14, share |-> 15, recipient |-> 16,
     notification |-> 17, comment |-> 18, reply |-> 19, favorite |-> 20, tag |-> 21,
     fileTag |-> 22, quota |-> 23]

\* A statement refers to rows of earlier statements only.
LEMMA NeedsBefore ==
  ASSUME NEW row \in Names \ {"activities"}, NEW x \in Needs(row)
  PROVE  x \in Referred /\ Place[x] < Place[row]
<1>1. CASE row = "organization"
  BY <1>1 DEF Needs
<1>2. CASE row \in {"admin", "organizer", "viewer", "teamFolder", "tag", "quota"}
  BY <1>2 DEF Needs, Place, Referred
<1>3. CASE row \in {"member", "teamRoot", "folder", "file"}
  BY <1>3 DEF Needs, Place, Referred
<1>4. CASE row \in {"object", "version1", "version2", "metadata", "share"}
  BY <1>4 DEF Needs, Place, Referred
<1>5. CASE row \in {"recipient", "notification", "favorite"}
  BY <1>5 DEF Needs, Place, Referred
<1>6. CASE row \in {"comment", "reply", "fileTag"}
  BY <1>6 DEF Needs, Place, Referred
<1>. QED
  BY <1>1, <1>2, <1>3, <1>4, <1>5, <1>6 DEF Names

LEMMA PlaceIs ==
  /\ \A i \in 1 .. 23 : Place[Script[i]] = i
  /\ \A x \in Referred : Place[x] \in 1 .. 23 /\ Script[Place[x]] = x
<1>1. \A i \in 1 .. 4 : Place[Script[i]] = i
  BY ScriptRows DEF Place
<1>2. \A i \in 5 .. 9 : Place[Script[i]] = i
  BY ScriptRows DEF Place
<1>3. \A i \in 10 .. 14 : Place[Script[i]] = i
  BY ScriptRows DEF Place
<1>4. \A i \in 15 .. 19 : Place[Script[i]] = i
  BY ScriptRows DEF Place
<1>5. \A i \in 20 .. 23 : Place[Script[i]] = i
  BY ScriptRows DEF Place
<1>6. \A x \in Referred : Place[x] \in 1 .. 23 /\ Script[Place[x]] = x
  BY ScriptRows DEF Place, Referred
<1>. QED
  BY <1>1, <1>2, <1>3, <1>4, <1>5, <1>6

(***************************************************************************)
(* The seed script: the inductive invariant                                *)
(***************************************************************************)

\* While the script runs, what it has passed is there unless a user deleted it
\* meanwhile; as long as no user has changed anything, what is there is as the data
\* say.
Passed == {Script[i] : i \in 1 .. at - 1}

StandsOrRemoved == \A x \in Passed \cap SeededRow : rows[x] = "absent" => x \in removed

Untouched ==
    /\ \A x \in SeededRow : rows[x] \in {"absent", "seeded"}
    /\ removed = {}
    /\ active \subseteq {2} /\ ("version2" \in Passed => active = {2})
    /\ SeedSettles

SeedInv ==
    /\ SeedTypeOK
    /\ outcome = "running" <=> at # 0
    /\ at # 0 => StandsOrRemoved
    /\ ~touched => Untouched

\* The script is at one of its statements.
LEMMA AtStatement ==
  ASSUME SeedInv, at # 0
  PROVE  /\ at \in 1 .. 23 /\ Script[at] \in Names
         /\ Script[at] # "activities" => Script[at] \in SeededRow
<1>1. at \in 1 .. 23
  BY ScriptLength DEF SeedInv, SeedTypeOK
<1>. QED
  BY <1>1, ScriptLength, ScriptIs, Rows

\* What a statement refers to is there, unless a user deleted it meanwhile.
LEMMA NeedsStand ==
  ASSUME SeedInv, at # 0, Script[at] # "activities", NEW x \in Needs(Script[at])
  PROVE  x \in SeededRow /\ (rows[x] = "absent" => x \in removed)
<1>1. at \in 1 .. 23 /\ Script[at] \in Names
  BY AtStatement
<1>2. x \in Referred /\ Place[x] < Place[Script[at]]
  BY <1>1, NeedsBefore
<1>3. Place[x] \in 1 .. at - 1 /\ Script[Place[x]] = x
  BY <1>1, <1>2, PlaceIs
<1>4. x \in Passed /\ x \in SeededRow
  BY <1>2, <1>3, NamedRows DEF Passed
<1>. QED
  BY <1>4 DEF SeedInv, StandsOrRemoved

\* A statement is refused for a row that it refers to.
LEMMA RefusedFor ==
  ASSUME SeedInv, at # 0, Script[at] # "activities", ~Accepted(Script[at])
  PROVE  \E x \in Needs(Script[at]) : x \in removed \/ rows[x] = "otherId"
<1>1. PICK x \in Needs(Script[at]) : ~Present(x)
  BY DEF Accepted
<1>2. rows[x] \in RowState
  BY NeedsStand DEF SeedInv, SeedTypeOK
<1>3. rows[x] = "absent" \/ rows[x] = "otherId"
  BY <1>1, <1>2 DEF Present, RowState
<1>. QED
  BY <1>3, NeedsStand

LEMMA UpsertedRow ==
  ASSUME NEW row \in SeededRow, rows \in [SeededRow -> RowState]
  PROVE  /\ Upserted(row) \in RowState \ {"absent"}
         /\ rows[row] \in {"absent", "seeded"} => Upserted(row) = "seeded"
BY DEF Upserted, RowState

\* A statement that ends the script leaves every row that nobody deleted.
LEMMA LastStatement ==
  ASSUME SeedInv, at = 23, NEW row, row = Script[at],
         rows' = [rows EXCEPT ![row] = Upserted(row)]
  PROVE  \A x \in SeededRow : rows'[x] = "absent" => x \in removed
<1>1. row \in SeededRow /\ rows \in [SeededRow -> RowState]
  BY ScriptRows, NamedRows DEF SeedInv, SeedTypeOK
<1>. SUFFICES ASSUME NEW x \in SeededRow, rows'[x] = "absent"
              PROVE  x \in removed
  OBVIOUS
<1>2. x # row /\ rows[x] = "absent"
  BY <1>1, UpsertedRow
<1>3. PICK i \in 1 .. 23 : x = Script[i]
  BY RowsPassed, ScriptIs
<1>4. x \in Passed
  BY <1>2, <1>3 DEF Passed
<1>. QED
  BY <1>2, <1>4 DEF SeedInv, StandsOrRemoved

\* A statement that goes through, the last one included.
LEMMA AcceptedInv ==
  ASSUME SeedInv, Statement, Accepted(Script[at])
  PROVE  SeedInv'
<1>. DEFINE row == Script[at]
<1>1. /\ at \in 1 .. 23 /\ row # "activities" /\ row \in SeededRow
      /\ rows \in [SeededRow -> RowState]
  BY AtStatement DEF Statement, SeedInv, SeedTypeOK
<1>2. /\ rows' = [rows EXCEPT ![row] = Upserted(row)]
      /\ active' = ActiveAfter(row)
      /\ used' = IF row = "quota" THEN 2 ELSE used
      /\ Advance({row})
      /\ UNCHANGED <<uploads, removals, touched, runs>>
  BY DEF Statement
<1>3. CASE at < 23
  <2>1. at' = at + 1 /\ outcome' = outcome /\ removed' = removed \ {row}
    BY <1>2, <1>3, ScriptLength DEF Advance
  <2>2. Passed' = Passed \cup {row}
    <3>1. Passed' = {Script[i] : i \in 1 .. at}
      BY <1>1, <2>1 DEF Passed
    <3>. QED
      BY <1>1, <3>1 DEF Passed
  <2>3. SeedTypeOK'
    <3>1. rows' \in [SeededRow -> RowState]
      BY <1>1, <1>2, UpsertedRow
    <3>2. active' \subseteq {1, 2} /\ used' \in Nat /\ removed' \subseteq SeededRow
      BY <1>2, <2>1 DEF SeedInv, SeedTypeOK, ActiveAfter
    <3>3. at' \in 0 .. Len(Script)
      BY <1>1, <1>3, <2>1, ScriptLength
    <3>. QED
      BY <1>2, <2>1, <3>1, <3>2, <3>3 DEF SeedInv, SeedTypeOK
  <2>4. StandsOrRemoved'
    <3>. SUFFICES ASSUME NEW x \in Passed' \cap SeededRow, rows'[x] = "absent"
                  PROVE  x \in removed'
      BY DEF StandsOrRemoved
    <3>1. x # row
      BY <1>1, <1>2, UpsertedRow
    <3>. QED
      BY <1>1, <1>2, <2>1, <2>2, <3>1 DEF SeedInv, StandsOrRemoved
  <2>5. ASSUME ~touched
        PROVE  Untouched'
    <3>1. \A x \in SeededRow : rows'[x] \in {"absent", "seeded"}
      BY <1>1, <1>2, <2>5, UpsertedRow DEF SeedInv, Untouched
    <3>2. active' \subseteq {2} /\ ("version2" \in Passed' => active' = {2})
      BY <1>1, <1>2, <2>2, <2>5 DEF SeedInv, Untouched, ActiveAfter
    <3>3. removed' = {} /\ SeedSettles'
      BY <1>1, <2>1, <2>5 DEF SeedInv, Untouched, SeedSettles
    <3>. QED
      BY <3>1, <3>2, <3>3 DEF Untouched
  <2>. QED
    BY <1>1, <1>2, <2>1, <2>3, <2>4, <2>5 DEF SeedInv
<1>4. CASE at = 23
  <2>1. at' = 0 /\ outcome' = "complete" /\ removed' = {}
    BY <1>2, <1>4, ScriptLength DEF Advance, End
  <2>2. row = "quota" /\ active' = active /\ used' = 2 /\ Passed' = {}
    BY <1>2, <1>4, <2>1, ScriptRows DEF ActiveAfter, Passed
  <2>3. SeedTypeOK'
    <3>1. rows' \in [SeededRow -> RowState]
      BY <1>1, <1>2, UpsertedRow
    <3>2. at' \in 0 .. Len(Script) /\ outcome' \in Outcome
      BY <2>1, ScriptLength DEF Outcome
    <3>3. /\ active' \subseteq {1, 2} /\ touched' \in BOOLEAN
          /\ uploads' \in Nat /\ removals' \in Nat /\ runs' \in Nat
      BY <1>2, <2>2 DEF SeedInv, SeedTypeOK
    <3>. HIDE DEF row
    <3>. QED
      BY <2>1, <2>2, <3>1, <3>2, <3>3 DEF SeedTypeOK
  <2>4. ASSUME ~touched
        PROVE  Untouched'
    <3>1. \A x \in SeededRow : rows'[x] \in {"absent", "seeded"}
      BY <1>1, <1>2, <2>4, UpsertedRow DEF SeedInv, Untouched
    <3>2. \A x \in SeededRow : rows'[x] # "absent"
      BY <1>2, <1>4, <2>4, LastStatement DEF SeedInv, Untouched
    <3>3. "version2" \in Passed
      BY <1>4, ScriptRows DEF Passed
    <3>4. active' = {2}
      BY <2>2, <2>4, <3>3 DEF SeedInv, Untouched
    <3>. QED
      BY <2>1, <2>2, <3>1, <3>2, <3>4 DEF Untouched, SeedSettles
  <2>. QED
    BY <1>2, <2>1, <2>3, <2>4 DEF SeedInv
<1>. QED
  BY <1>1, <1>3, <1>4

\* A step of a user: every row that it takes away while the script runs is noted.
LEMMA UserStep ==
  ASSUME SeedInv, SeedTypeOK', touched' = TRUE, UNCHANGED <<at, outcome>>,
         at # 0 => \A x \in SeededRow :
            rows'[x] = "absent" => x \in removed' \/ (rows[x] = "absent" /\ x \notin removed)
  PROVE  SeedInv'
<1>1. Passed' = Passed
  BY DEF Passed
<1>. QED
  BY <1>1 DEF SeedInv, StandsOrRemoved

LEMMA DeleteInv ==
  ASSUME SeedInv, NEW gone \in SUBSET SeededRow, DeleteRows(gone)
  PROVE  SeedInv'
<1>1. SeedTypeOK'
  BY DEF DeleteRows, SeedInv, SeedTypeOK, RowState
<1>2. at # 0 => \A x \in SeededRow :
         rows'[x] = "absent" => x \in removed' \/ (rows[x] = "absent" /\ x \notin removed)
  BY DEF DeleteRows, SeedInv
<1>. QED
  BY <1>1, <1>2, UserStep DEF DeleteRows

LEMMA UsersInv == SeedInv /\ Users => SeedInv'
<1>. SUFFICES ASSUME SeedInv, Users PROVE SeedInv'
  OBVIOUS
<1>0. /\ SeedTypeOK /\ rows \in [SeededRow -> RowState]
      /\ "edited" \in RowState /\ "otherId" \in RowState
  BY DEF SeedInv, SeedTypeOK, RowState
<1>1. CASE RestoreSeeded
  <2>1. SeedTypeOK'
    BY <1>0, <1>1 DEF RestoreSeeded, SeedTypeOK
  <2>. QED
    BY <1>0, <1>1, <2>1, UserStep DEF RestoreSeeded
<1>2. CASE UploadOther
  <2>1. SeedTypeOK'
    <3>1. rows' \in [SeededRow -> RowState]
      BY <1>0, <1>2 DEF UploadOther
    <3>2. uploads' \in Nat /\ used' \in Nat
      BY <1>0, <1>2 DEF UploadOther, SeedTypeOK
    <3>. QED
      BY <1>0, <1>2, <3>1, <3>2 DEF UploadOther, SeedTypeOK
  <2>. QED
    BY <1>0, <1>2, <2>1, UserStep DEF UploadOther
<1>3. ASSUME NEW row \in SeededRow, Add(row) PROVE SeedInv'
  <2>1. SeedTypeOK'
    BY <1>0, <1>3 DEF Add, SeedTypeOK
  <2>. QED
    BY <1>0, <1>3, <2>1, UserStep DEF Add
<1>4. ASSUME NEW u \in SeededUser, Join(u) PROVE SeedInv'
  <2>1. SeedTypeOK'
    BY <1>0, <1>4 DEF Join, SeedTypeOK
  <2>. QED
    BY <1>0, <1>4, <2>1, UserStep DEF Join
<1>5. CASE \/ RemoveMember \/ RemoveFavorite \/ RemoveRecipient \/ RemoveTeamFolder \/ RemoveFile
           \/ \E f \in SeededRow : RemoveFolder(f)
  <2>1. PICK gone \in SUBSET SeededRow : DeleteRows(gone)
    <3>1. {"member", "favorite", "recipient", "teamFolder", "teamRoot", "file"} \subseteq SeededRow
      BY NamedRows DEF Referred, Cascading
    <3>. QED
      BY <1>5, <3>1 DEF RemoveMember, RemoveFavorite, RemoveRecipient, RemoveTeamFolder,
         RemoveFile, RemoveFolder
  <2>. QED
    BY <2>1, DeleteInv
<1>6. ASSUME NEW u \in SeededUser, RemoveUser(u) PROVE SeedInv'
  <2>1. PICK gone \in SUBSET SeededRow : DeleteRows(gone)
    BY <1>6, NamedRows DEF RemoveUser
  <2>. QED
    BY <2>1, DeleteInv
<1>. QED
  BY <1>1, <1>2, <1>3, <1>4, <1>5, <1>6 DEF Users

LEMMA SeedNextInv == SeedInv /\ [SeedNext]_seedVars => SeedInv'
<1>. SUFFICES ASSUME SeedInv, [SeedNext]_seedVars
              PROVE  SeedInv'
  OBVIOUS
<1>0. SeedTypeOK /\ at \in 0 .. 23
  BY ScriptLength DEF SeedInv, SeedTypeOK
<1>1. CASE Start
  <2>1. Passed' = {}
    BY <1>1 DEF Start, Passed
  <2>2. SeedTypeOK'
    BY <1>0, <1>1, ScriptLength DEF Start, SeedTypeOK, Outcome
  <2>. QED
    BY <1>1, <2>1, <2>2 DEF Start, SeedInv, StandsOrRemoved, Untouched, SeedSettles
<1>2. CASE Statement /\ ~Accepted(Script[at])
  <2>1. /\ at # 0 /\ at' = 0 /\ outcome' = "refused" /\ removed' = {}
        /\ UNCHANGED <<rows, active, used, uploads, removals, touched, runs>>
    BY <1>2 DEF Statement, End
  <2>2. SeedTypeOK'
    BY <1>0, <2>1, ScriptLength DEF SeedTypeOK, Outcome
  <2>3. touched
    <3>1. PICK x \in Needs(Script[at]) : x \in removed \/ rows[x] = "otherId"
      BY <1>2, RefusedFor DEF Statement
    <3>2. x \in SeededRow
      BY <1>2, NeedsStand DEF Statement
    <3>. QED
      BY <3>1, <3>2 DEF SeedInv, Untouched
  <2>. QED
    BY <2>1, <2>2, <2>3 DEF SeedInv
<1>3. CASE AddActivities
  <2>1. at = 14
    BY <1>0, <1>3, PlaceIs, ScriptRows DEF AddActivities
  <2>2. at' = 15 /\ outcome' = outcome /\ removed' = removed
    BY <1>3, <2>1, ScriptLength DEF AddActivities, Advance
  <2>3. Passed' = Passed \cup {"activities"}
    <3>1. Passed' = {Script[i] : i \in 1 .. 14}
      BY <2>2 DEF Passed
    <3>2. Passed = {Script[i] : i \in 1 .. 13}
      BY <2>1 DEF Passed
    <3>. QED
      BY <3>1, <3>2, ScriptRows
  <2>4. SeedTypeOK'
    BY <1>0, <1>3, <2>2, ScriptLength DEF AddActivities, SeedTypeOK
  <2>5. "activities" \notin SeededRow
    BY DEF SeededRow
  <2>. QED
    BY <1>3, <2>1, <2>2, <2>3, <2>4, <2>5
       DEF AddActivities, SeedInv, StandsOrRemoved, Untouched, SeedSettles
<1>4. CASE Interrupt
  <2>1. Passed' = {}
    BY <1>4 DEF Interrupt, End, Passed
  <2>2. SeedTypeOK'
    BY <1>0, <1>4, ScriptLength DEF Interrupt, End, SeedTypeOK, Outcome
  <2>. QED
    BY <1>4, <2>1, <2>2 DEF Interrupt, End, SeedInv, Untouched, SeedSettles
<1>5. CASE UNCHANGED seedVars
  <2>1. Passed' = Passed
    BY <1>5 DEF seedVars, Passed
  <2>. QED
    BY <1>5, <2>1 DEF seedVars, SeedInv, SeedTypeOK, StandsOrRemoved, Untouched, SeedSettles
<1>. QED
  BY <1>1, <1>2, <1>3, <1>4, <1>5, AcceptedInv, UsersInv DEF SeedNext

LEMMA SeedInitInv == SeedInit => SeedInv
<1>. SUFFICES ASSUME SeedInit PROVE SeedInv
  OBVIOUS
<1>1. SeedTypeOK
  <2>1. rows \in [SeededRow -> RowState] /\ outcome \in Outcome
    BY DEF SeedInit, RowState, Outcome
  <2>2. at \in 0 .. Len(Script)
    BY ScriptLength DEF SeedInit
  <2>. QED
    BY <2>1, <2>2 DEF SeedInit, SeedTypeOK
<1>2. Passed = {}
  BY DEF SeedInit, Passed
<1>. QED
  BY <1>1, <1>2 DEF SeedInit, SeedInv, Untouched, SeedSettles

\* The state of the database and of the script has its type (seed.ts).
THEOREM SeedTyped == SeedSpec => []SeedTypeOK
BY SeedInitInv, SeedNextInv, PTL DEF SeedSpec, SeedInv

\* However often the script was interrupted, no statement of a later run is refused,
\* and a complete run leaves what the data say, unless users changed something
\* (seed.ts: 326-338).
THEOREM SeedingSettles == SeedSpec => []SeedSettles
<1>1. SeedInv => SeedSettles
  BY DEF SeedInv, Untouched, SeedSettles
<1>. QED
  BY <1>1, SeedInitInv, SeedNextInv, PTL DEF SeedSpec

\* Whatever users deleted, also while the script runs, and whatever earlier runs left
\* undone: a statement is refused only for a row that was deleted since this run passed
\* it or for a user who came back under another id, and a complete run leaves every row
\* that nobody deleted meanwhile (seed.ts: 44-338).
THEOREM SeedingRebuilds == SeedSpec => SeedRebuilds
<1>1. ASSUME SeedInv, [SeedNext]_seedVars, outcome = "running", outcome' = "refused"
      PROVE  \E x \in Needs(Script[at]) : x \in removed \/ rows[x] = "otherId"
  <2>1. Statement /\ ~Accepted(Script[at])
    <3>1. ~Start /\ ~AddActivities /\ ~Interrupt /\ ~UNCHANGED seedVars
      BY <1>1 DEF Start, AddActivities, Interrupt, Advance, End, seedVars
    <3>2. ~Users
      BY <1>1 DEF Users, RestoreSeeded, UploadOther, Add, Join, RemoveMember, RemoveFavorite,
         RemoveRecipient, RemoveFolder, RemoveTeamFolder, RemoveFile, RemoveUser, DeleteRows
    <3>. QED
      BY <1>1, <3>1, <3>2 DEF SeedNext, Statement, Advance, End
  <2>. QED
    BY <1>1, <2>1, RefusedFor DEF Statement
<1>2. ASSUME SeedInv, [SeedNext]_seedVars, outcome = "running", outcome' = "complete"
      PROVE  \A x \in SeededRow : rows'[x] = "absent" => x \in removed
  <2>1. ~Users /\ ~Start /\ ~Interrupt /\ ~UNCHANGED seedVars
    BY <1>2 DEF Users, RestoreSeeded, UploadOther, Add, Join, RemoveMember, RemoveFavorite,
       RemoveRecipient, RemoveFolder, RemoveTeamFolder, RemoveFile, RemoveUser, DeleteRows,
       Start, Interrupt, End, seedVars
  <2>2. at = 23
    <3>1. CASE Statement
      BY <1>2, <3>1, ScriptLength DEF Statement, Advance, End
    <3>2. CASE AddActivities
      BY <1>2, <3>2, ScriptLength DEF AddActivities, Advance
    <3>. QED
      BY <1>2, <2>1, <3>1, <3>2 DEF SeedNext
  <2>3. ~AddActivities
    BY <2>2, ScriptRows DEF AddActivities
  <2>4. rows' = [rows EXCEPT ![Script[at]] = Upserted(Script[at])]
    BY <1>2, <2>1, <2>3 DEF SeedNext, Statement, End
  <2>. QED
    BY <1>2, <2>2, <2>4, LastStatement
<1>. QED
  BY <1>1, <1>2, SeedInitInv, SeedNextInv, PTL DEF SeedSpec, SeedRebuilds

(***************************************************************************)
(* The services beside each other                                          *)
(***************************************************************************)

\* Every behaviour of the services is one of each service: where another is
\* exercised, it stutters.  What is proved of a service alone holds here.
THEOREM EachServiceRuns == Spec => ShareSpec /\ StoreSpec /\ SeedSpec /\ EffSpec
<1>1. Init => ShareInit /\ StoreInit /\ SeedInit /\ EffInit
  BY DEF Init
<1>2. [Next]_vars => /\ [ShareNext]_shareVars /\ [StoreNext]_storeVars
                     /\ [SeedNext]_seedVars /\ [EffNext]_effVars
  BY DEF Next, vars
<1>. QED
  BY <1>1, <1>2, PTL DEF Spec, ShareSpec, StoreSpec, SeedSpec, EffSpec

\* The variables of every service have their types.
THEOREM ServicesTyped == Spec => []TypeOK
BY EachServiceRuns, SharesTyped, StoreTypes, SeedTyped, EffectiveTyped, PTL DEF TypeOK

\* In every behaviour of the services the trail of the shares tells the truth
\* and their status only advances, closed keys stay closed, the seed script
\* settles and rebuilds, and an answer about permissions is the highest of what counts.
THEOREM ServicesHold ==
    Spec => /\ []TrailTellsTruth /\ StatusOnlyAdvances /\ ClosedStaysClosed
            /\ []SeedSettles /\ SeedRebuilds /\ []NearestRowsDecide
BY EachServiceRuns, TrailIsTrue, StatusAdvances, PurgedStaysPurged, SeedingSettles,
   SeedingRebuilds, AnswerIsHighest, PTL
=============================================================================
