---------------------------- MODULE UploadQueue -----------------------------
(***************************************************************************)
(* The upload queue of the web client (frontend/src/components/upload-zone, *)
(* upload-queue-logic, lib/api/upload-file).  Files that are dropped        *)
(* together form a chain that uploads one after the other; an upload is     *)
(* three calls, of which any can be refused, or take effect on the server   *)
(* and have its answer lost.  The row of a version is ACTIVE from the first *)
(* call on and no call changes that status, so what the model keeps of a    *)
(* version is how far the server came with it: the row was inserted, the    *)
(* bytes are stored, or they are also counted in the quota and described in *)
(* the row of the file.  Progress, sizes and messages are left out.         *)
(***************************************************************************)
EXTENDS Naturals, Sequences

CONSTANTS
    Item,           \* files the user can drop
    Drop,           \* sequences of items that are dropped together
    MaxTries        \* bound: an item with more versions is not retried

ASSUME UploadQueueAssumption ==
    /\ Drop \subseteq Seq(Item) \ {<<>>}
    /\ MaxTries \in Nat \ {0}

VARIABLES
    status,         \* what the queue shows of an item
    chains,         \* what is left of each drop, the upload under way included
    upload,         \* upload[i]: the call that the upload of i waits for
    versions        \* how far the server came with the versions made for an item

uploadVars == <<status, chains, upload, versions>>

Status == {"new", "queued", "processing", "completed", "failed", "removed"}

Members(c) == {c[n] : n \in DOMAIN c}

UploadInit ==
    /\ status = [i \in Item |-> "new"]
    /\ chains = {}
    /\ upload = [i \in Item |-> "none"]
    /\ versions = [i \in Item |-> <<>>]

\* updateUploadQueueItem: an item that was removed stays so.
Update(i, s) ==
    status' = [status EXCEPT ![i] = IF @ = "removed" THEN @ ELSE s]

\* enqueue
Enqueue(drop) ==
    /\ \A i \in Members(drop) : status[i] = "new"
    /\ status' = [i \in Item |-> IF i \in Members(drop) THEN "queued" ELSE status[i]]
    /\ chains' = chains \cup {drop}
    /\ UNCHANGED <<upload, versions>>

BeginUpload(i) ==
    /\ upload[i] = "none"
    /\ upload' = [upload EXCEPT ![i] = "request"]
    /\ Update(i, "processing")
    /\ UNCHANGED <<chains, versions>>

\* chain.then(() => upload(item)): also for an item that was removed.
GoOn(c) == c \in chains /\ BeginUpload(Head(c))

RetryUpload(i) == status[i] = "failed" /\ Len(versions[i]) <= MaxTries /\ BeginUpload(i)

Headed(i) == {c \in chains : Head(c) = i}

\* Mutant: the error is thrown on, and the chain of its item ends.
AdvanceUnlessFailed(i, s) ==
    chains' = IF s = "failed" THEN chains \ Headed(i)
              ELSE (chains \ Headed(i)) \cup ({Tail(c) : c \in Headed(i)} \ {<<>>})

\* Mutant: a chain is kept when nothing of it is left.
AdvanceKeepingEmpty(i, s) ==
    chains' = (chains \ Headed(i)) \cup {Tail(c) : c \in Headed(i)}

\* The chain goes on whatever became of its first item.
Advance(i, s) ==
    chains' = (chains \ Headed(i)) \cup ({Tail(c) : c \in Headed(i)} \ {<<>>})

EndUpload(i, s) ==
    /\ upload' = [upload EXCEPT ![i] = "none"]
    /\ Update(i, s)
    /\ Advance(i, s)

\* A call that is refused, or whose answer is lost after it took effect.
Fails(i, effect) ==
    /\ versions' \in {versions, [versions EXCEPT ![i] = effect]}
    /\ EndUpload(i, "failed")

Created(vs) == Append(vs, "created")
Newest(vs, s) == [vs EXCEPT ![Len(vs)] = s]

\* requestUpload: the rows of the file and of its version are inserted.
Requested(i) ==
    /\ upload[i] = "request"
    /\ \/ /\ versions' = [versions EXCEPT ![i] = Created(@)]
          /\ upload' = [upload EXCEPT ![i] = "put"]
          /\ UNCHANGED <<status, chains>>
       \/ Fails(i, Created(versions[i]))

\* Mutant: the upload is over when the bytes have been sent.
PutEndsUpload(i) ==
    /\ upload[i] = "put"
    /\ \/ /\ versions' = [versions EXCEPT ![i] = Newest(@, "stored")]
          /\ EndUpload(i, "completed")
       \/ Fails(i, Newest(versions[i], "stored"))

\* The PUT of the bytes to the signed URL.
Put(i) ==
    /\ upload[i] = "put"
    /\ \/ /\ versions' = [versions EXCEPT ![i] = Newest(@, "stored")]
          /\ upload' = [upload EXCEPT ![i] = "complete"]
          /\ UNCHANGED <<status, chains>>
       \/ Fails(i, Newest(versions[i], "stored"))

\* completeUpload: the object is there, and the quota and the file row follow.
Completed(i) ==
    /\ upload[i] = "complete"
    /\ \/ /\ versions' = [versions EXCEPT ![i] = Newest(@, "counted")]
          /\ EndUpload(i, "completed")
       \/ Fails(i, Newest(versions[i], "counted"))

Remove(i) ==
    /\ status[i] \in {"queued", "completed", "failed"}
    /\ status' = [status EXCEPT ![i] = "removed"]
    /\ UNCHANGED <<chains, upload, versions>>

ClearCompleted ==
    /\ \E i \in Item : status[i] = "completed"
    /\ status' = [i \in Item |-> IF status[i] = "completed" THEN "removed" ELSE status[i]]
    /\ UNCHANGED <<chains, upload, versions>>

\* The component is unmounted: the queue is gone, its chains go on.
Leave ==
    /\ status' = [i \in Item |-> "removed"]
    /\ UNCHANGED <<chains, upload, versions>>

\* The tab is closed.
CloseTab ==
    /\ status' = [i \in Item |-> "removed"]
    /\ chains' = {}
    /\ upload' = [i \in Item |-> "none"]
    /\ UNCHANGED versions

UploadSteps(i) == Requested(i) \/ Put(i) \/ Completed(i)

UploadNext ==
    \/ \E drop \in Drop : Enqueue(drop)
    \/ \E c \in chains : GoOn(c)
    \/ \E i \in Item : RetryUpload(i) \/ UploadSteps(i) \/ Remove(i)
    \/ ClearCompleted \/ Leave \/ CloseTab

\* A call is answered or fails in the end, and a chain goes on as soon as the
\* upload before has ended.
UploadFairness ==
    \A i \in Item :
        /\ WF_uploadVars(UploadSteps(i))
        /\ WF_uploadVars(\E c \in Headed(i) : GoOn(c))

UploadSpec == UploadInit /\ [][UploadNext]_uploadVars /\ UploadFairness

-----------------------------------------------------------------------------
UploadTypeOK ==
    /\ status \in [Item -> Status]
    /\ chains \subseteq Seq(Item) \ {<<>>}
    /\ upload \in [Item -> {"none", "request", "put", "complete"}]
    /\ versions \in [Item -> Seq({"created", "stored", "counted"})]

\* What the queue shows as uploaded is a version whose bytes the server stored
\* and counted, whichever calls were refused, lost or retried before: a request
\* or a PUT that was answered is not yet an upload
\* (upload-zone.tsx: 16-26, upload-file.ts: 6-25).
CompletedIsStored ==
    \A i \in Item : status[i] = "completed" =>
        \E n \in DOMAIN versions[i] : versions[i][n] = "counted"

\* Every file in the queue is uploaded, fails or is removed in the end: one that
\* fails, is removed or is retried does not hold up those dropped with it
\* (upload-zone.tsx: 16-32).
Underway(i) == status[i] \in {"queued", "processing"}

UploadsEnd == \A i \in Item : Underway(i) ~> ~Underway(i)
=============================================================================
