---------------------------- MODULE ObjectStore ----------------------------
(***************************************************************************)
(* The object store (backend/src/storage): the two drivers behind           *)
(* StorageService, and the signed URLs through which clients send and       *)
(* fetch bytes without a session.  An object is absent, whole, or partly    *)
(* written; its contents, its content type and the MAC of a token are left  *)
(* out.  With the driver "s3" a PUT is one step of the storage service.     *)
(***************************************************************************)
EXTENDS Naturals

CONSTANTS
    Org,
    Key,            \* object keys: tenant, file and version
    OrgOf,          \* OrgOf[k]: the tenant in key k
    Lifetime,       \* S3_SIGNED_URL_EXPIRES_SECONDS
    MaxTime,        \* bound: the clock stops here
    Transfer        \* PUTs that can be in flight together

ASSUME ObjectStoreAssumption ==
    /\ OrgOf \in [Key -> Org]
    /\ Lifetime \in Nat \ {0} /\ MaxTime \in Nat

VARIABLES
    driver,         \* STORAGE_DRIVER, read when the process starts
    stored,         \* stored[k]: what the key names
    tokens,         \* URLs handed out
    now,
    io              \* io[x]: how far PUT x has come

storeVars == <<driver, stored, tokens, now, io>>

Token == [method : {"PUT", "GET"}, key : Key, exp : Nat]
NoTransfer == [at |-> "idle"]

TransferState ==
    [at : {"idle"}]
    \cup [at : {"body"}, token : Token]
    \cup [at : {"open"}, key : Key]
    \cup [at : {"write"}, key : Key,
          named : BOOLEAN,  \* the key still names the file that is written
          mixed : BOOLEAN]  \* another PUT writes to it too

StoreInit ==
    /\ driver \in {"local", "s3"}
    /\ stored = [k \in Key |-> "absent"]
    /\ tokens = {}
    /\ now = 0
    /\ io = [x \in Transfer |-> NoTransfer]

\* authorize: the tenant context's organization owns the resource.
Authorized(org, key) == org = OrgOf[key]

\* createUploadUrl, createDownloadUrl
CreateUrl(org, method, key) ==
    /\ Authorized(org, key)
    /\ tokens' = tokens \cup {[method |-> method, key |-> key, exp |-> now + Lifetime]}
    /\ UNCHANGED <<driver, stored, now, io>>

\* Mutant: only the method is compared.
VerifyMethodOnly(token, method) == token.method = method

\* verifyObjectAccess
Verify(token, method) == token.method = method /\ token.exp > now

\* PUT /storage/objects: the body is received before the token is looked at.
BeginPut(x, token) ==
    /\ io[x] = NoTransfer
    /\ token \in tokens
    /\ io' = [io EXCEPT ![x] = [at |-> "body", token |-> token]]
    /\ UNCHANGED <<driver, stored, tokens, now>>

PutVerified(x) ==
    /\ io[x].at = "body"
    /\ LET token == io[x].token IN
       io' = [io EXCEPT ![x] = IF Verify(token, "PUT") THEN [at |-> "open", key |-> token.key]
                               ELSE NoTransfer]
    /\ UNCHANGED <<driver, stored, tokens, now>>

Writing(x, k) == io[x].at = "write" /\ io[x].key = k /\ io[x].named

\* writeFile opens the file and empties it, whoever else is writing to it.
PutOpens(x) ==
    /\ io[x].at = "open" /\ driver = "local"
    /\ LET k == io[x].key
           others == {y \in Transfer : Writing(y, k)}
       IN  /\ stored' = [stored EXCEPT ![k] = "partial"]
           /\ io' = [y \in Transfer |->
                        IF y = x THEN [at |-> "write", key |-> k, named |-> TRUE,
                                       mixed |-> others # {}]
                        ELSE IF y \in others THEN [io[y] EXCEPT !.mixed = TRUE]
                        ELSE io[y]]
    /\ UNCHANGED <<driver, tokens, now>>

\* The bytes of a file that was unlinked meanwhile are gone with it.
PutWrites(x) ==
    /\ io[x].at = "write"
    /\ LET k == io[x].key IN
       \E bytes \in IF ~io[x].named THEN {stored[k]}
                    ELSE IF \E y \in Transfer \ {x} : Writing(y, k) THEN {"partial"}
                    ELSE IF io[x].mixed THEN {"partial", "whole"}
                    ELSE {"whole"} :
            stored' = [stored EXCEPT ![k] = bytes]
    /\ io' = [io EXCEPT ![x] = NoTransfer]
    /\ UNCHANGED <<driver, tokens, now>>

\* A PUT to the storage service, all or nothing.
PutStores(x) ==
    /\ io[x].at = "open" /\ driver = "s3"
    /\ stored' = [stored EXCEPT ![io[x].key] = "whole"]
    /\ io' = [io EXCEPT ![x] = NoTransfer]
    /\ UNCHANGED <<driver, tokens, now>>

\* The process dies, or the disk is full: what was written stays.
PutFails(x) ==
    /\ io[x] # NoTransfer
    /\ io' = [io EXCEPT ![x] = NoTransfer]
    /\ UNCHANGED <<driver, stored, tokens, now>>

\* deleteObject and deleteStoredObject.  An unlink that fails is swallowed,
\* and nothing has changed; the same call to S3 throws.
Delete(org, key) ==
    /\ Authorized(org, key)
    /\ stored' = [stored EXCEPT ![key] = "absent"]
    /\ io' = [x \in Transfer |-> IF Writing(x, key) THEN [io[x] EXCEPT !.named = FALSE]
                                 ELSE io[x]]
    /\ UNCHANGED <<driver, tokens, now>>

Tick ==
    /\ now < MaxTime
    /\ now' = now + 1
    /\ UNCHANGED <<driver, stored, tokens, io>>

StoreNext ==
    \/ \E org \in Org, method \in {"PUT", "GET"}, k \in Key : CreateUrl(org, method, k)
    \/ \E x \in Transfer :
        \/ \E token \in tokens : BeginPut(x, token)
        \/ PutVerified(x) \/ PutOpens(x) \/ PutWrites(x) \/ PutStores(x) \/ PutFails(x)
    \/ \E org \in Org, k \in Key : Delete(org, k)
    \/ Tick

StoreSpec == StoreInit /\ [][StoreNext]_storeVars

-----------------------------------------------------------------------------
StoreTypeOK ==
    /\ driver \in {"local", "s3"}
    /\ stored \in [Key -> {"absent", "partial", "whole"}]
    /\ tokens \subseteq Token
    /\ now \in Nat
    /\ io \in [Transfer -> TransferState]

\* Nothing is left that could bring the object back.
Closed(k) ==
    /\ stored[k] = "absent"
    /\ \A x \in Transfer : io[x].at \in {"open", "write"} => io[x].key # k
    /\ \A token \in tokens : token.key = k /\ token.method = "PUT" => token.exp <= now

\* A purged object does not come back: once its bytes are gone, no PUT of it
\* is under way and its upload URLs have expired, it stays absent until a new
\* URL is asked for, whatever clients still send to the old ones
\* (local-disk.storage.ts: 93-116, object-access-token.ts: 41-87).
ClosedStaysClosed ==
    [][\A k \in Key : Closed(k) /\ tokens' = tokens => Closed(k)']_storeVars
=============================================================================
