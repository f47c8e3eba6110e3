--------------------------- MODULE WebClientProofs ---------------------------
(***************************************************************************)
(* Proofs about the web client: the object URLs of the preview's hook and   *)
(* what the viewers show of them; that what the upload queue shows as       *)
(* uploaded is stored; the types of every part.  For any files, items,      *)
(* drops, lists and handlers under way, and any interleaving.               *)
(***************************************************************************)
EXTENDS WebClient, TLAPS

(***************************************************************************)
(* The preview: types                                                      *)
(***************************************************************************)

\* A viewer that is given a blob has a viewer's state.
LEMMA WatchType ==
  ASSUME NEW c, NEW v \in View, NEW b \in Blob
  PROVE  Watch(c, v, b) \in View
BY DEF Watch, WatchText, NewView, View, Blob

\* fetchBlob keeps the hook's state and its fetches well-formed.
LEMMA FetchBlobType ==
  ASSUME NEW url \in PreviewUrl \cup {NoUrl}, FetchBlob(url), blob \in Blob,
         asked \in Seq(PreviewUrl), fetching \subseteq 1 .. Len(asked)
  PROVE  /\ blob' \in Blob
         /\ asked' \in Seq(PreviewUrl)
         /\ fetching' \subseteq 1 .. Len(asked')
<1>1. CASE url = NoUrl
  BY <1>1 DEF FetchBlob, Blob
<1>2. CASE url # NoUrl
  <2>1. /\ asked' = Append(asked, url)
        /\ fetching' = fetching \cup {Len(asked) + 1}
        /\ blob' = [blob EXCEPT !.error = FALSE, !.loading = TRUE]
    BY <1>2 DEF FetchBlob
  <2>2. asked' \in Seq(PreviewUrl) /\ Len(asked') = Len(asked) + 1
    BY <2>1, <1>2
  <2>3. blob' \in Blob
    BY <2>1 DEF Blob
  <2>4. fetching' \subseteq 1 .. Len(asked')
    BY <2>1, <2>2
  <2>. QED
    BY <2>2, <2>3, <2>4
<1>. QED
  BY <1>1, <1>2

\* The steps of useBlobPreview keep the types.
LEMMA HookType ==
  ASSUME PreviewTypeOK, NEW url \in PreviewUrl \cup {NoUrl}, NEW c \in Category, NEW f,
         Open(url, c) \/ Show(url, c) \/ Close \/ Retry \/ FetchEnds(f)
  PROVE  PreviewTypeOK'
<1>. USE DEF PreviewTypeOK
<1>0. NewBlob \in Blob /\ NewView \in View
  BY DEF NewBlob, NewView, Blob, View
<1>1. CASE Open(url, c)
  <2>1. view' \in View
    BY <1>0, <1>1, WatchType DEF Open
  <2>2. /\ blob' \in Blob /\ asked' \in Seq(PreviewUrl)
        /\ fetching' \subseteq 1 .. Len(asked')
    BY <1>1, FetchBlobType DEF Open
  <2>. QED
    BY <1>1, <2>1, <2>2 DEF Open
<1>2. CASE Show(url, c)
  <2>1. view' \in View
    BY <1>0, <1>2, WatchType DEF Show
  <2>2. /\ blob' \in Blob /\ asked' \in Seq(PreviewUrl)
        /\ fetching' \subseteq 1 .. Len(asked')
    <3>1. CASE url = want
      BY <1>2, <3>1 DEF Show
    <3>2. CASE url # want
      <4>1. FetchBlob(url)
        BY <1>2, <3>2 DEF Show
      <4>. QED
        BY <4>1, FetchBlobType
    <3>. QED
      BY <3>1, <3>2
  <2>3. live' \subseteq Nat /\ ref' \in Nat
    <3>1. \/ live' = live /\ ref' = ref
          \/ live' = live \ {ref} /\ ref' = 0
      <4>1. CASE url = want /\ opened' = "crashed"
        BY <1>2, <4>1 DEF Show
      <4>2. CASE url = want /\ opened' # "crashed"
        BY <1>2, <4>2 DEF Show
      <4>3. CASE url # want
        BY <1>2, <4>3 DEF Show
      <4>. QED
        BY <4>1, <4>2, <4>3
    <3>2. CASE live' = live /\ ref' = ref
      BY <3>2
    <3>3. CASE live' = live \ {ref} /\ ref' = 0
      <4>1. live' \subseteq Nat
        BY <3>3
      <4>2. ref' \in Nat
        BY <3>3
      <4>. QED
        BY <4>1, <4>2
    <3>. QED
      BY <3>1, <3>2, <3>3
  <2>. QED
    BY <1>2, <2>1, <2>2, <2>3 DEF Show
<1>3. CASE Close
  BY <1>0, <1>3 DEF Close
<1>4. CASE Retry
  BY <1>4, FetchBlobType DEF Retry
<1>5. CASE FetchEnds(f)
  <2>1. f \in fetching /\ f \in Nat /\ fetching' = fetching \ {f}
    BY <1>5 DEF FetchEnds, Answered, FetchFails
  <2>2. CASE Answered(f)
    <3>. DEFINE b == [url |-> f, error |-> FALSE, loading |-> FALSE]
    <3>1. b \in Blob
      BY <2>1 DEF Blob
    <3>2. Watch(category, view, b) \in View
      BY <3>1, WatchType
    <3>3. CASE opened = "yes" /\ ~CleanupThrows
      BY <2>1, <2>2, <3>1, <3>2, <3>3 DEF Answered, Replace
    <3>4. CASE opened = "yes" /\ CleanupThrows
      <4>1. /\ opened' = "crashed" /\ blob' = b /\ view' = NewView
            /\ live' = live \ {ref} /\ ref' = 0
            /\ UNCHANGED <<want, category, asked>>
        BY <2>2, <3>4 DEF Answered
      <4>2. live' \subseteq Nat /\ fetching' \subseteq 1 .. Len(asked')
        BY <2>1, <4>1
      <4>. QED
        BY <1>0, <3>1, <4>1, <4>2
    <3>5. CASE opened \in {"gone", "crashed"}
      BY <2>1, <2>2, <3>5 DEF Answered, Replace
    <3>. QED
      BY <2>2, <3>3, <3>4, <3>5 DEF Answered
  <2>3. CASE FetchFails(f)
    BY <2>1, <2>3 DEF FetchFails, Blob
  <2>. QED
    BY <1>5, <2>2, <2>3 DEF FetchEnds
<1>. QED
  BY <1>1, <1>2, <1>3, <1>4, <1>5

\* The steps of the viewers keep the types: they change only the viewer's state.
LEMMA ViewerType ==
  ASSUME PreviewTypeOK, NEW u,
         ImportEnds(u) \/ ReadEnds(u) \/ ReadFails(u) \/ MediaLoads \/ MediaFails \/ ViewerRetry
  PROVE  PreviewTypeOK'
<1>1. \E v \in View : ViewerChanges(v)
  <2>. USE DEF PreviewTypeOK, View
  <2>0. CASE ImportEnds(u)
    <3>. DEFINE v == [view EXCEPT !.imports = @ \ {u}, !.task = TRUE]
    <3>1. u \in Nat /\ v \in View
      BY <2>0 DEF ImportEnds
    <3>2. CASE u \in live
      <4>1. ViewerChanges([v EXCEPT !.reads = @ \cup {u}])
        BY <2>0, <3>2 DEF ImportEnds
      <4>2. [v EXCEPT !.reads = @ \cup {u}] \in View
        BY <3>1
      <4>. QED
        BY <4>1, <4>2
    <3>3. CASE u \notin live
      <4>1. ViewerChanges([v EXCEPT !.error = TRUE])
        BY <2>0, <3>3 DEF ImportEnds
      <4>2. [v EXCEPT !.error = TRUE] \in View
        BY <3>1
      <4>. QED
        BY <4>1, <4>2
    <3>. QED
      BY <3>2, <3>3
  <2>1. CASE ReadEnds(u)
    BY <2>1 DEF ReadEnds
  <2>2. CASE ReadFails(u)
    BY <2>2 DEF ReadFails
  <2>3. CASE MediaLoads
    BY <2>3 DEF MediaLoads
  <2>4. CASE MediaFails
    BY <2>4 DEF MediaFails
  <2>5. CASE ViewerRetry
    <3>1. CASE category = "pdf" /\ ViewerChanges([view EXCEPT !.error = FALSE,
                                                              !.imports = @ \cup {blob.url}])
      BY <3>1 DEF Blob
    <3>2. CASE category = "image" /\ ~blob.error /\ ViewerChanges([view EXCEPT !.error = FALSE])
      BY <3>2
    <3>3. CASE /\ category = "text" /\ ~blob.error
               /\ ViewerChanges([view EXCEPT !.error = FALSE, !.loading = TRUE])
      BY <3>3
    <3>. QED
      BY <2>5, <3>1, <3>2, <3>3 DEF ViewerRetry
  <2>. QED
    BY <2>0, <2>1, <2>2, <2>3, <2>4, <2>5
<1>. QED
  BY <1>1 DEF ViewerChanges, PreviewTypeOK

(***************************************************************************)
(* The preview: object URLs                                                *)
(***************************************************************************)

\* Once nothing is loaded and there is no error, the hook's object URL exists.
BlobIsLive ==
  /\ opened = "no" => blob = NewBlob
  /\ opened = "yes" => blob.loading \/ blob.error \/ blob.url \in live

\* The text viewer reads the object URL it was given and no other, and is
\* loading, in error or done with it.
TextFollowsBlob ==
  opened = "yes" /\ category = "text" /\ blob.url # 0 =>
    /\ view.reads \subseteq {blob.url}
    /\ view.loading \/ view.error \/ view.shows = blob.url

NoTextYet == opened = "yes" /\ category = "text" /\ blob.url = 0 => view.reads = {}

PreviewInv == PreviewTypeOK /\ UrlsAccounted /\ BlobIsLive /\ TextFollowsBlob /\ NoTextYet

LEMMA InvImpliesSound == PreviewInv => ObjectUrlsSound
BY DEF PreviewInv, BlobIsLive, TextFollowsBlob, ObjectUrlsSound, UrlsAccounted, ShownIsLive,
       Screen, ViewerScreen, PreviewTypeOK, Category, Blob

\* fetchBlob keeps the object URL and leaves the hook loading or in error.
LEMMA FetchBlobKeepsUrl ==
  ASSUME NEW url, FetchBlob(url), blob \in Blob
  PROVE  /\ blob'.url = blob.url
         /\ blob'.loading \/ blob'.error
BY DEF FetchBlob, Blob

\* The text viewer that is mounted, or given the answer of a fetch.
LEMMA WatchFollowsBlob ==
  ASSUME NEW v \in View, NEW b \in Blob
  PROVE  /\ b.url # 0 => /\ Watch("text", v, b).reads = {b.url}
                         /\ Watch("text", v, b).loading
         /\ b.url = 0 => Watch("text", v, b).reads = v.reads
BY DEF Watch, WatchText, NewView, View

LEMMA HookInv ==
  ASSUME PreviewInv, NEW url \in PreviewUrl \cup {NoUrl}, NEW c \in Category, NEW f,
         Open(url, c) \/ Show(url, c) \/ Close \/ Retry \/ FetchEnds(f)
  PROVE  PreviewInv'
<1>0. PreviewTypeOK /\ PreviewTypeOK'
  BY HookType DEF PreviewInv
<1>. USE <1>0 DEF PreviewInv
<1>a. NewBlob \in Blob /\ NewView \in View /\ NewBlob.url = 0 /\ NewView.reads = {}
  BY DEF NewBlob, NewView, Blob, View
<1>1. CASE Open(url, c)
  <2>1. blob'.url = 0 /\ (blob'.loading \/ blob'.error)
    BY <1>1, <1>a, FetchBlobKeepsUrl DEF Open, BlobIsLive, PreviewTypeOK
  <2>2. c = "text" => view'.reads = {}
    BY <1>1, <1>a, WatchFollowsBlob DEF Open
  <2>. QED
    BY <1>1, <2>1, <2>2 DEF Open, UrlsAccounted, BlobIsLive, TextFollowsBlob, NoTextYet
<1>2. CASE Show(url, c)
  <2>1. blob'.url = blob.url /\ opened = "yes" /\ category' = c
    <3>1. CASE url = want
      BY <1>2, <3>1 DEF Show
    <3>2. CASE url # want
      BY <1>2, <3>2, FetchBlobKeepsUrl DEF Show, PreviewTypeOK
    <3>. QED
      BY <1>2, <3>1, <3>2 DEF Show
  <2>2. UrlsAccounted' /\ BlobIsLive'
    <3>1. CASE url = want /\ opened' = "crashed"
      <4>1. live' = live \ {ref} /\ ref' = 0
        BY <1>2, <3>1 DEF Show
      <4>. QED
        BY <3>1, <4>1 DEF UrlsAccounted, BlobIsLive
    <3>2. CASE url = want /\ opened' # "crashed"
      <4>1. live' = live /\ ref' = ref /\ blob' = blob /\ opened' = opened
        BY <1>2, <3>2 DEF Show
      <4>. QED
        BY <4>1 DEF UrlsAccounted, BlobIsLive
    <3>3. CASE url # want
      <4>1. live' = live \ {ref} /\ ref' = 0 /\ FetchBlob(url)
        BY <1>2, <3>3 DEF Show
      <4>2. opened' \in {"yes", "crashed"}
        BY <1>2 DEF Show
      <4>3. blob'.loading \/ blob'.error
        BY <4>1, FetchBlobKeepsUrl DEF PreviewTypeOK
      <4>. QED
        BY <4>1, <4>2, <4>3 DEF UrlsAccounted, BlobIsLive
    <3>. QED
      BY <3>1, <3>2, <3>3
  <2>3. TextFollowsBlob' /\ NoTextYet'
    <3>1. CASE c = category
      <4>1. view' = view /\ category' = category /\ opened' = opened
        BY <1>2, <3>1 DEF Show
      <4>. QED
        BY <2>1, <4>1 DEF TextFollowsBlob, NoTextYet
    <3>2. CASE c # category
      <4>1. view' = Watch(c, NewView, blob)
        BY <1>2, <3>2 DEF Show
      <4>2. c = "text" => /\ blob.url # 0 => view'.reads = {blob.url} /\ view'.loading
                          /\ blob.url = 0 => view'.reads = {}
        BY <4>1, <1>a, WatchFollowsBlob DEF PreviewTypeOK
      <4>. QED
        BY <2>1, <4>2 DEF TextFollowsBlob, NoTextYet
    <3>. QED
      BY <3>1, <3>2
  <2>. QED
    BY <2>2, <2>3
<1>3. CASE Close
  BY <1>3 DEF Close, UrlsAccounted, BlobIsLive, TextFollowsBlob, NoTextYet
<1>4. CASE Retry
  <2>1. blob'.url = blob.url /\ (blob'.loading \/ blob'.error)
    BY <1>4, FetchBlobKeepsUrl DEF Retry, PreviewTypeOK
  <2>. QED
    BY <1>4, <2>1 DEF Retry, UrlsAccounted, BlobIsLive, TextFollowsBlob, NoTextYet
<1>5. CASE FetchEnds(f)
  <2>0. f \in Nat /\ f # 0
    BY <1>5 DEF FetchEnds, Answered, FetchFails, PreviewTypeOK
  <2>1. CASE Answered(f)
    <3>. DEFINE b == [url |-> f, error |-> FALSE, loading |-> FALSE]
    <3>0. b \in Blob /\ b.url = f
      BY <2>0 DEF Blob
    <3>1. CASE opened = "yes" /\ ~CleanupThrows
      <4>1. /\ blob' = b /\ view' = Watch(category, view, b)
            /\ UNCHANGED <<opened, category>>
            /\ live' = (live \ {ref}) \cup {f} /\ ref' = f
        BY <2>1, <3>1 DEF Answered, Replace
      <4>2. category = "text" => view'.reads = {f} /\ view'.loading
        BY <4>1, <3>0, <2>0, WatchFollowsBlob DEF PreviewTypeOK
      <4>. QED
        BY <3>0, <3>1, <4>1, <4>2, <2>0
           DEF UrlsAccounted, BlobIsLive, TextFollowsBlob, NoTextYet
    <3>2. CASE opened = "yes" /\ CleanupThrows
      <4>1. opened' = "crashed" /\ live' = live \ {ref} /\ ref' = 0
        BY <2>1, <3>2 DEF Answered
      <4>. QED
        BY <4>1 DEF UrlsAccounted, BlobIsLive, TextFollowsBlob, NoTextYet
    <3>3. CASE opened \in {"gone", "crashed"}
      <4>1. opened' = opened /\ live' = (live \ {ref}) \cup {f} /\ ref' = f
        BY <2>1, <3>3 DEF Answered, Replace
      <4>. QED
        BY <3>3, <4>1 DEF UrlsAccounted, BlobIsLive, TextFollowsBlob, NoTextYet
    <3>. QED
      BY <2>1, <3>1, <3>2, <3>3 DEF Answered
  <2>2. CASE FetchFails(f)
    <3>1. UrlsAccounted'
      BY <2>2 DEF FetchFails, UrlsAccounted
    <3>2. CASE opened = "yes"
      <4>1. blob'.url = blob.url /\ blob'.error /\ UNCHANGED <<opened, category, view>>
        BY <2>2, <3>2 DEF FetchFails, PreviewTypeOK, Blob
      <4>. QED
        BY <3>1, <3>2, <4>1 DEF BlobIsLive, TextFollowsBlob, NoTextYet
    <3>3. CASE opened \in {"gone", "crashed"}
      BY <2>2, <3>1, <3>3 DEF FetchFails, BlobIsLive, TextFollowsBlob, NoTextYet
    <3>. QED
      BY <2>2, <3>2, <3>3 DEF FetchFails
  <2>. QED
    BY <1>5, <2>1, <2>2 DEF FetchEnds
<1>. QED
  BY <1>1, <1>2, <1>3, <1>4, <1>5

LEMMA ViewerInv ==
  ASSUME PreviewInv, NEW u,
         ImportEnds(u) \/ ReadEnds(u) \/ ReadFails(u) \/ MediaLoads \/ MediaFails \/ ViewerRetry
  PROVE  PreviewInv'
<1>0. PreviewTypeOK /\ PreviewTypeOK' /\ view \in View
  BY ViewerType DEF PreviewInv, PreviewTypeOK
<1>1. UNCHANGED <<opened, category, live, ref, blob>>
  BY DEF ImportEnds, ReadEnds, ReadFails, MediaLoads, MediaFails, ViewerRetry, ViewerChanges
<1>2. UrlsAccounted' /\ BlobIsLive'
  BY <1>1 DEF PreviewInv, UrlsAccounted, BlobIsLive
<1>3. category = "text" /\ opened = "yes" =>
        /\ view'.reads \subseteq view.reads
        /\ \/ view'.loading \/ view'.error
           \/ view'.shows \in view.reads
           \/ view'.shows = view.shows /\ ~view.loading /\ ~view.error
  BY <1>0 DEF ImportEnds, ReadEnds, ReadFails, MediaLoads, MediaFails, ViewerRetry,
              ViewerChanges, View
<1>. QED
  BY <1>0, <1>1, <1>2, <1>3 DEF PreviewInv, TextFollowsBlob, NoTextYet

(***************************************************************************)
(* The preview: theorems                                                   *)
(***************************************************************************)

LEMMA InitInv == PreviewInit => PreviewInv
BY DEF PreviewInit, PreviewInv, PreviewTypeOK, UrlsAccounted, BlobIsLive, TextFollowsBlob,
       NoTextYet, NewBlob, NewView, Blob, View, Category

LEMMA NextInv == PreviewInv /\ [PreviewNext]_previewVars => PreviewInv'
<1>. SUFFICES ASSUME PreviewInv, [PreviewNext]_previewVars
              PROVE  PreviewInv'
  OBVIOUS
<1>1. ASSUME NEW url \in PreviewUrl \cup {NoUrl}, NEW c \in Category,
             Open(url, c) \/ Show(url, c)
      PROVE  PreviewInv'
  BY <1>1, HookInv
<1>2. CASE Close \/ Retry
  BY <1>2, HookInv DEF Category
<1>3. ASSUME NEW f \in 1 .. MaxFetches, FetchEnds(f)
      PROVE  PreviewInv'
  BY <1>3, HookInv DEF Category
<1>4. ASSUME NEW f \in 1 .. MaxFetches, ImportEnds(f) \/ ReadEnds(f) \/ ReadFails(f)
      PROVE  PreviewInv'
  BY <1>4, ViewerInv
<1>5. CASE MediaLoads \/ MediaFails \/ ViewerRetry
  BY <1>5, ViewerInv
<1>6. CASE UNCHANGED previewVars
  BY <1>6 DEF previewVars, PreviewInv, PreviewTypeOK, UrlsAccounted, BlobIsLive,
              TextFollowsBlob, NoTextYet
<1>. QED
  BY <1>1, <1>2, <1>3, <1>4, <1>5, <1>6 DEF PreviewNext

\* The variables of the preview have their types (preview-blob.ts,
\* file-preview.tsx).
THEOREM PreviewTypes == PreviewSpec => []PreviewTypeOK
<1>1. PreviewInv => PreviewTypeOK
  BY DEF PreviewInv
<1>. QED
  BY <1>1, InitInv, NextInv, PTL DEF PreviewSpec

\* However fetches, retries, reads and changes of the file overlap, no object
\* URL is lost track of, none is shown after it was revoked, and text that was
\* read from one is not shown for another (preview-blob.ts: 53-62, 76-84,
\* file-preview.tsx: 655-687).
THEOREM ObjectUrlsAreSound == PreviewSpec => []ObjectUrlsSound
BY InitInv, NextInv, InvImpliesSound, PTL DEF PreviewSpec

(***************************************************************************)
(* The upload queue                                                        *)
(***************************************************************************)

\* An item whose upload is under way is shown so or removed, and once it has a
\* place for its bytes it has a version.
UploadsShown ==
    \A i \in Item :
        /\ upload[i] # "none" => status[i] \in {"processing", "removed"}
        /\ upload[i] \in {"put", "complete"} => versions[i] # <<>>

UploadInv == UploadTypeOK /\ UploadsShown /\ CompletedIsStored

VersionState == {"created", "stored", "counted"}

\* A chain that goes on is a chain.
LEMMA AdvanceType ==
  ASSUME UploadTypeOK, NEW i \in Item, NEW s, Advance(i, s)
  PROVE  chains' \subseteq Seq(Item) \ {<<>>}
<1>1. \A c \in chains : c \in Seq(Item) /\ c # <<>>
  BY DEF UploadTypeOK
<1>2. \A c \in chains : Tail(c) \in Seq(Item)
  BY <1>1
<1>. QED
  BY <1>1, <1>2 DEF Advance, Headed

\* The versions of an item, whose newest one changes.
LEMMA NewestIs ==
  ASSUME NEW vs \in Seq(VersionState), NEW s \in VersionState, vs # <<>>
  PROVE  /\ Newest(vs, s) \in Seq(VersionState) /\ Newest(vs, s) # <<>>
         /\ Len(Newest(vs, s)) = Len(vs)
         /\ Newest(vs, s)[Len(vs)] = s
         /\ Len(vs) \in DOMAIN Newest(vs, s)
BY DEF Newest

LEMMA CreatedIs ==
  ASSUME NEW vs \in Seq(VersionState)
  PROVE  Created(vs) \in Seq(VersionState) /\ Created(vs) # <<>>
BY DEF Created, VersionState

\* What becomes of the queue when the upload of i ends in s, the versions of i
\* being vs.
LEMMA EndUploadInv ==
  ASSUME UploadInv, NEW i \in Item, upload[i] # "none", NEW s \in {"completed", "failed"},
         NEW vs \in Seq(VersionState), versions' = [versions EXCEPT ![i] = vs],
         s = "completed" => \E n \in DOMAIN vs : vs[n] = "counted",
         EndUpload(i, s)
  PROVE  UploadInv'
<1>1. chains' \subseteq Seq(Item) \ {<<>>}
  BY AdvanceType DEF UploadInv, EndUpload
<1>2. /\ upload' = [upload EXCEPT ![i] = "none"]
      /\ status' = [status EXCEPT ![i] = IF status[i] = "removed" THEN status[i] ELSE s]
  BY DEF EndUpload, Update
<1>3. /\ status \in [Item -> Status]
      /\ upload \in [Item -> {"none", "request", "put", "complete"}]
      /\ versions \in [Item -> Seq(VersionState)]
  BY DEF UploadInv, UploadTypeOK, VersionState
<1>4. UploadTypeOK'
  BY <1>1, <1>2, <1>3 DEF UploadTypeOK, Status, VersionState
<1>5. UploadsShown'
  BY <1>2, <1>3 DEF UploadInv, UploadsShown
<1>6. CompletedIsStored'
  <2>1. ASSUME NEW j \in Item, status'[j] = "completed"
        PROVE  \E n \in DOMAIN versions'[j] : versions'[j][n] = "counted"
    <3>1. CASE j = i
      <4>1. versions'[j] = vs
        BY <1>3, <3>1
      <4>2. s = "completed"
        BY <1>2, <1>3, <2>1, <3>1
      <4>. QED
        BY <4>1, <4>2
    <3>2. CASE j # i
      <4>1. versions'[j] = versions[j] /\ status[j] = "completed"
        BY <1>2, <1>3, <2>1, <3>2
      <4>. QED
        BY <4>1 DEF UploadInv, CompletedIsStored
    <3>. QED
      BY <3>1, <3>2
  <2>. QED
    BY <2>1 DEF CompletedIsStored
<1>. QED
  BY <1>4, <1>5, <1>6 DEF UploadInv

\* A call that goes on to the next call, the versions of i being vs.
LEMMA GoesOnInv ==
  ASSUME UploadInv, NEW i \in Item, upload[i] # "none", NEW call \in {"put", "complete"},
         NEW vs \in Seq(VersionState), vs # <<>>,
         versions' = [versions EXCEPT ![i] = vs],
         upload' = [upload EXCEPT ![i] = call], UNCHANGED <<status, chains>>
  PROVE  UploadInv'
<1>3. /\ status \in [Item -> Status]
      /\ upload \in [Item -> {"none", "request", "put", "complete"}]
      /\ versions \in [Item -> Seq(VersionState)]
  BY DEF UploadInv, UploadTypeOK, VersionState
<1>4. UploadTypeOK'
  BY <1>3 DEF UploadInv, UploadTypeOK, VersionState
<1>5. UploadsShown'
  BY <1>3 DEF UploadInv, UploadsShown
<1>6. CompletedIsStored'
  <2>1. ASSUME NEW j \in Item, status[j] = "completed"
        PROVE  versions'[j] = versions[j]
    <3>1. j # i
      BY <2>1 DEF UploadInv, UploadsShown
    <3>. QED
      BY <1>3, <3>1
  <2>. QED
    BY <2>1 DEF UploadInv, CompletedIsStored
<1>. QED
  BY <1>4, <1>5, <1>6 DEF UploadInv

\* A call that fails leaves the versions as they were, or has taken effect.
LEMMA FailsInv ==
  ASSUME UploadInv, NEW i \in Item, upload[i] # "none", NEW effect \in Seq(VersionState),
         Fails(i, effect)
  PROVE  UploadInv'
<1>1. versions[i] \in Seq(VersionState) /\ versions = [versions EXCEPT ![i] = versions[i]]
  BY DEF UploadInv, UploadTypeOK, VersionState
<1>2. EndUpload(i, "failed")
  BY DEF Fails
<1>3. versions' = versions \/ versions' = [versions EXCEPT ![i] = effect]
  BY DEF Fails
<1>. QED
  BY <1>1, <1>2, <1>3, EndUploadInv

\* One of the three calls of an upload is answered, refused or lost.
LEMMA StepsInv ==
  ASSUME UploadInv, NEW i \in Item, UploadSteps(i)
  PROVE  UploadInv'
<1>. DEFINE vs == versions[i]
<1>1. /\ vs \in Seq(VersionState)
      /\ upload[i] \in {"put", "complete"} => vs # <<>>
  BY DEF UploadInv, UploadTypeOK, UploadsShown, VersionState
<1>. HIDE DEF vs
<1>2. CASE Requested(i)
  <2>1. upload[i] = "request" /\ Created(vs) \in Seq(VersionState) /\ Created(vs) # <<>>
    BY <1>1, <1>2, CreatedIs DEF Requested
  <2>2. \/ /\ versions' = [versions EXCEPT ![i] = Created(vs)]
           /\ upload' = [upload EXCEPT ![i] = "put"]
           /\ UNCHANGED <<status, chains>>
        \/ Fails(i, Created(vs))
    BY <1>2 DEF Requested, vs
  <2>. QED
    BY <2>1, <2>2, FailsInv, GoesOnInv
<1>3. CASE Put(i)
  <2>. DEFINE stored == Newest(vs, "stored")
  <2>1. upload[i] = "put" /\ stored \in Seq(VersionState) /\ stored # <<>>
    BY <1>1, <1>3, NewestIs DEF Put, VersionState
  <2>2. \/ /\ versions' = [versions EXCEPT ![i] = stored]
           /\ upload' = [upload EXCEPT ![i] = "complete"]
           /\ UNCHANGED <<status, chains>>
        \/ Fails(i, stored)
    BY <1>3 DEF Put, vs
  <2>. QED
    BY <2>1, <2>2, FailsInv, GoesOnInv
<1>4. CASE Completed(i)
  <2>. DEFINE counted == Newest(vs, "counted")
  <2>1. /\ upload[i] = "complete" /\ counted \in Seq(VersionState)
        /\ \E n \in DOMAIN counted : counted[n] = "counted"
    BY <1>1, <1>4, NewestIs DEF Completed, VersionState
  <2>2. \/ versions' = [versions EXCEPT ![i] = counted] /\ EndUpload(i, "completed")
        \/ Fails(i, counted)
    BY <1>4 DEF Completed, vs
  <2>. QED
    BY <2>1, <2>2, FailsInv, EndUploadInv
<1>. QED
  BY <1>2, <1>3, <1>4 DEF UploadSteps

\* An upload begins, the first of an item or a retry.
LEMMA BeginUploadInv ==
  ASSUME UploadInv, NEW i \in Item, BeginUpload(i)
  PROVE  UploadInv'
<1>1. /\ status \in [Item -> Status]
      /\ upload \in [Item -> {"none", "request", "put", "complete"}]
  BY DEF UploadInv, UploadTypeOK
<1>2. /\ upload' = [upload EXCEPT ![i] = "request"]
      /\ status' = [status EXCEPT ![i] = IF status[i] = "removed" THEN status[i]
                                         ELSE "processing"]
      /\ UNCHANGED <<chains, versions>>
  BY DEF BeginUpload, Update
<1>3. UploadTypeOK'
  BY <1>1, <1>2 DEF UploadInv, UploadTypeOK, Status
<1>. QED
  BY <1>1, <1>2, <1>3 DEF UploadInv, UploadsShown, CompletedIsStored

\* What the user does to the queue.
LEMMA QueueInv ==
  ASSUME UploadInv,
         \/ \E drop \in Drop : Enqueue(drop)
         \/ \E i \in Item : Remove(i)
         \/ ClearCompleted \/ Leave \/ CloseTab
  PROVE  UploadInv'
<1>0. /\ status \in [Item -> Status]
      /\ upload \in [Item -> {"none", "request", "put", "complete"}]
  BY DEF UploadInv, UploadTypeOK
<1>1. ASSUME NEW drop \in Drop, Enqueue(drop)
      PROVE  UploadInv'
  <2>1. drop \in Seq(Item) \ {<<>>}
    BY UploadQueueAssumption
  <2>2. UploadTypeOK'
    BY <1>0, <1>1, <2>1 DEF Enqueue, UploadInv, UploadTypeOK, Status
  <2>. QED
    BY <1>0, <1>1, <2>2 DEF Enqueue, UploadInv, UploadsShown, CompletedIsStored
<1>2. ASSUME NEW i \in Item, Remove(i)
      PROVE  UploadInv'
  BY <1>0, <1>2 DEF Remove, UploadInv, UploadTypeOK, UploadsShown, CompletedIsStored, Status
<1>3. CASE ClearCompleted
  BY <1>0, <1>3 DEF ClearCompleted, UploadInv, UploadTypeOK, UploadsShown, CompletedIsStored,
     Status
<1>4. CASE Leave \/ CloseTab
  BY <1>0, <1>4 DEF Leave, CloseTab, UploadInv, UploadTypeOK, UploadsShown, CompletedIsStored,
     Status
<1>. QED
  BY <1>1, <1>2, <1>3, <1>4

LEMMA UploadInitInv == UploadInit => UploadInv
BY DEF UploadInit, UploadInv, UploadTypeOK, UploadsShown, CompletedIsStored, Status

LEMMA UploadNextInv == UploadInv /\ [UploadNext]_uploadVars => UploadInv'
<1>. SUFFICES ASSUME UploadInv, [UploadNext]_uploadVars
              PROVE  UploadInv'
  OBVIOUS
<1>1. ASSUME NEW c \in chains, GoOn(c)
      PROVE  UploadInv'
  <2>1. Head(c) \in Item
    BY <1>1 DEF UploadInv, UploadTypeOK
  <2>. QED
    BY <1>1, <2>1, BeginUploadInv DEF GoOn
<1>2. ASSUME NEW i \in Item, RetryUpload(i)
      PROVE  UploadInv'
  BY <1>2, BeginUploadInv DEF RetryUpload
<1>3. CASE UNCHANGED uploadVars
  BY <1>3 DEF uploadVars, UploadInv, UploadTypeOK, UploadsShown, CompletedIsStored
<1>. QED
  BY <1>1, <1>2, <1>3, StepsInv, QueueInv DEF UploadNext

\* The variables of the upload queue have their types (upload-zone.tsx,
\* upload-queue-logic.ts, upload-file.ts).
THEOREM UploadsTyped == UploadSpec => []UploadTypeOK
<1>1. UploadInv => UploadTypeOK
  BY DEF UploadInv
<1>. QED
  BY <1>1, UploadInitInv, UploadNextInv, PTL DEF UploadSpec

\* What the queue shows as uploaded is a version that the server stored and counted,
\* whichever calls were refused, lost or retried before
\* (upload-zone.tsx: 16-26, upload-file.ts: 6-25).
THEOREM CompletedStaysStored == UploadSpec => []CompletedIsStored
<1>1. UploadInv => CompletedIsStored
  BY DEF UploadInv
<1>. QED
  BY <1>1, UploadInitInv, UploadNextInv, PTL DEF UploadSpec

(***************************************************************************)
(* The file browser: types                                                 *)
(***************************************************************************)

\* What a handler of the file browser waits for, by where it stands.
LEMMA JobStates ==
  /\ NoJob \in JobState
  /\ \A dlg \in DialogKind \cup {"none"} : Load(dlg) \in JobState
  /\ \A s \in JobState :
        /\ s.at \in {"begin", "favorites", "contents"} =>
              /\ s.closes \in DialogKind \cup {"none"}
              /\ \A at \in {"favorites", "contents"} : [s EXCEPT !.at = at] \in JobState
        /\ s.at = "confirm" => s.kind \in DialogKind
        /\ s.at = "preview" => s.file \in FileRow
        /\ s.at \in {"trashFolders", "trashFiles"} =>
              [s EXCEPT !.at = "trashFiles"] \in JobState
<1>1. NoJob \in JobState /\ \A dlg \in DialogKind \cup {"none"} : Load(dlg) \in JobState
  BY DEF NoJob, Load, JobState
<1>2. ASSUME NEW s \in JobState, s.at \in {"begin", "favorites", "contents"}
      PROVE  /\ s.closes \in DialogKind \cup {"none"}
             /\ \A at \in {"favorites", "contents"} : [s EXCEPT !.at = at] \in JobState
  <2>1. s \in [at : {"begin", "favorites", "contents"}, closes : DialogKind \cup {"none"}]
    BY <1>2 DEF JobState
  <2>. QED
    BY <2>1 DEF JobState
<1>3. ASSUME NEW s \in JobState, s.at \in {"trashFolders", "trashFiles"}
      PROVE  [s EXCEPT !.at = "trashFiles"] \in JobState
  <2>1. s \in [at : {"trashFolders", "trashFiles"}, files : SUBSET FileRow]
    BY <1>3 DEF JobState
  <2>. QED
    BY <2>1 DEF JobState
<1>4. ASSUME NEW s \in JobState
      PROVE  /\ s.at = "confirm" => s.kind \in DialogKind
             /\ s.at = "preview" => s.file \in FileRow
  BY DEF JobState
<1>. QED
  BY <1>1, <1>2, <1>3, <1>4

\* A handler that goes on waits for something again.
LEMMA ContinueType ==
  ASSUME BrowserTypeOK, NEW j \in Job, NEW state \in JobState, Continue(j, state)
  PROVE  jobs' \in [Job -> JobState]
BY DEF BrowserTypeOK, Continue

\* The steps of a handler that is under way.
LEMMA JobStepType ==
  ASSUME BrowserTypeOK, NEW j \in Job, JobStep(j)
  PROVE  BrowserTypeOK'
<1>0. jobs[j] \in JobState /\ NoJob \in JobState
  BY JobStates DEF BrowserTypeOK
<1>. USE DEF End
<1>1. CASE LoadBegins(j) \/ FavoritesArrive(j)
  <2>1. \E state \in JobState : Continue(j, state)
    BY <1>0, <1>1, JobStates DEF LoadBegins, FavoritesArrive
  <2>. QED
    BY <1>1, <2>1, ContinueType DEF LoadBegins, FavoritesArrive, BrowserTypeOK
<1>2. CASE ContentsArrive(j) \/ LoadFails(j)
  <2>1. Continue(j, NoJob)
    BY <1>2 DEF ContentsArrive, LoadFails
  <2>. QED
    BY <1>0, <1>2, <2>1, ContinueType
    DEF ContentsArrive, LoadFails, StopSpinner, CloseDialog, BrowserTypeOK
<1>3. CASE SearchEnds(j)
  BY <1>0, <1>3, ContinueType DEF SearchEnds, BrowserTypeOK
<1>4. CASE CreateEnds(j) \/ ConfirmEnds(j)
  <2>1. \E state \in JobState : Continue(j, state)
    BY <1>0, <1>4, JobStates DEF CreateEnds, ConfirmEnds
  <2>. QED
    BY <1>4, <2>1, ContinueType DEF CreateEnds, ConfirmEnds, BrowserTypeOK
<1>5. CASE PreviewEnds(j)
  <2>1. jobs[j].file \in FileRow
    BY <1>0, <1>5, JobStates DEF PreviewEnds
  <2>. QED
    BY <1>0, <1>5, <2>1, ContinueType DEF PreviewEnds, BrowserTypeOK
<1>6. CASE TrashEnds(j)
  <2>1. \E state \in JobState : Continue(j, state)
    BY <1>0, <1>6, JobStates DEF TrashEnds
  <2>. QED
    BY <1>6, <2>1, ContinueType DEF TrashEnds, BrowserTypeOK
<1>. QED
  BY <1>1, <1>2, <1>3, <1>4, <1>5, <1>6 DEF JobStep

\* What the user does: a handler begins, or the page changes at once.
LEMMA UserType ==
  ASSUME BrowserTypeOK,
         \/ \E j \in Job : \/ Navigate(j) \/ Reload(j) \/ Search(j) \/ Create(j)
                           \/ Confirm(j) \/ TrashSelected(j)
                           \/ \E id \in FileRow : Preview(j, id)
         \/ \E kind \in DialogKind, id \in Row : OpenDialog(kind, id)
         \/ \E ids \in SUBSET Row : Select(ids)
         \/ CancelDialog \/ ClosePreview
  PROVE  BrowserTypeOK'
<1>1. ASSUME NEW j \in Job, Navigate(j) \/ Reload(j)
      PROVE  BrowserTypeOK'
  <2>1. Continue(j, Load("none"))
    BY <1>1 DEF Navigate, Reload, Begin, Continue
  <2>. QED
    BY <1>1, <2>1, ContinueType, JobStates DEF Navigate, Reload, BrowserTypeOK
<1>2. ASSUME NEW j \in Job, Search(j) \/ Create(j)
      PROVE  BrowserTypeOK'
  <2>1. \E state \in JobState : Continue(j, state)
    BY <1>2 DEF Search, Create, Waits, Begin, Continue, JobState
  <2>. QED
    BY <1>2, <2>1, ContinueType DEF Search, Create, Waits, BrowserTypeOK
<1>3. ASSUME NEW j \in Job, Confirm(j)
      PROVE  BrowserTypeOK'
  <2>1. dialog \in DialogKind
    BY <1>3 DEF Confirm, BrowserTypeOK
  <2>2. [at |-> "confirm", kind |-> dialog] \in JobState
    BY <2>1 DEF JobState
  <2>3. Continue(j, [at |-> "confirm", kind |-> dialog])
    BY <1>3 DEF Confirm, Waits, Begin, Continue
  <2>. QED
    BY <1>3, <2>2, <2>3, ContinueType DEF Confirm, Waits, BrowserTypeOK
<1>4. ASSUME NEW j \in Job, TrashSelected(j)
      PROVE  BrowserTypeOK'
  <2>. DEFINE files == selected \cap rows \cap FileRow
  <2>1. /\ [at |-> "trashFolders", files |-> files] \in JobState
        /\ [at |-> "trashFiles", files |-> files] \in JobState
        /\ Load("none") \in JobState
    BY JobStates DEF JobState
  <2>2. \E state \in JobState : Continue(j, state)
    BY <1>4, <2>1 DEF TrashSelected, Begin, Continue
  <2>. QED
    BY <1>4, <2>2, ContinueType DEF TrashSelected, BrowserTypeOK
<1>5. ASSUME NEW j \in Job, NEW id \in FileRow, Preview(j, id)
      PROVE  BrowserTypeOK'
  <2>1. [at |-> "preview", file |-> id] \in JobState
    BY DEF JobState
  <2>2. Continue(j, [at |-> "preview", file |-> id])
    BY <1>5 DEF Preview, Waits, Begin, Continue
  <2>. QED
    BY <1>5, <2>1, <2>2, ContinueType DEF Preview, Waits, BrowserTypeOK
<1>6. ASSUME NEW kind \in DialogKind, NEW id \in Row, OpenDialog(kind, id)
      PROVE  BrowserTypeOK'
  BY <1>6 DEF OpenDialog, BrowserTypeOK
<1>7. ASSUME NEW ids \in SUBSET Row, Select(ids)
      PROVE  BrowserTypeOK'
  BY <1>7 DEF Select, BrowserTypeOK
<1>8. CASE CancelDialog \/ ClosePreview
  BY <1>8 DEF CancelDialog, ClosePreview, BrowserTypeOK
<1>. QED
  BY <1>1, <1>2, <1>3, <1>4, <1>5, <1>6, <1>7, <1>8

LEMMA BrowserInitType == BrowserInit => BrowserTypeOK
BY JobStates DEF BrowserInit, BrowserTypeOK, CanMutate

LEMMA BrowserNextType == BrowserTypeOK /\ [BrowserNext]_browserVars => BrowserTypeOK'
<1>. SUFFICES ASSUME BrowserTypeOK, [BrowserNext]_browserVars
              PROVE  BrowserTypeOK'
  OBVIOUS
<1>1. CASE UNCHANGED browserVars
  BY <1>1 DEF browserVars, BrowserTypeOK
<1>. QED
  BY <1>1, JobStepType, UserType DEF BrowserNext

(***************************************************************************)
(* The pages: types                                                        *)
(***************************************************************************)

LEMMA PagesInitType == PagesInit => PagesTypeOK
<1>1. PageLoad(FALSE) \in PageJobState /\ NoCall \in PageJobState
  BY DEF PageLoad, NoCall, PageJobState
<1>2. FirstLoad \in [PageJob -> PageJobState]
  BY <1>1 DEF FirstLoad
<1>. QED
  BY <1>2 DEF PagesInit, PagesTypeOK

LEMMA TrashType ==
  ASSUME PagesTypeOK, TrashNext, UNCHANGED orgVars
  PROVE  PagesTypeOK'
<1>0. PICK j \in PageJob : \/ TrashStep(j) \/ Refresh(j) \/ PressEmpty(j)
                           \/ \E f \in Trashed : PressRow(j, f)
  BY DEF TrashNext
<1>1. /\ NoCall \in PageJobState /\ trashJobs[j].frees \in BOOLEAN
      /\ \A frees \in BOOLEAN :
            PageLoad(frees) \in PageJobState /\ PageAct(frees) \in PageJobState
  BY DEF PagesTypeOK, PageJobState, NoCall, PageLoad, PageAct
<1>2. UNCHANGED <<orgRole, orgBusy, orgError, orgJobs>>
  BY DEF orgVars
<1>. USE DEF PagesTypeOK, TrashWaits, TrashHandlerEnds, LoadTrash
<1>3. CASE Refresh(j)
  BY <1>1, <1>2, <1>3 DEF Refresh
<1>4. CASE TrashLoaded(j)
  BY <1>1, <1>2, <1>4 DEF TrashLoaded
<1>5. CASE TrashActed(j)
  BY <1>1, <1>2, <1>5 DEF TrashActed
<1>6. ASSUME NEW f \in Trashed, PressRow(j, f)
      PROVE  PagesTypeOK'
  BY <1>1, <1>2, <1>6 DEF PressRow
<1>7. CASE PressEmpty(j)
  BY <1>1, <1>2, <1>7 DEF PressEmpty
<1>. QED
  BY <1>0, <1>3, <1>4, <1>5, <1>6, <1>7 DEF TrashStep

LEMMA OrgType ==
  ASSUME PagesTypeOK, OrgNext, UNCHANGED trashVars
  PROVE  PagesTypeOK'
<1>0. PICK j \in PageJob : OrgStep(j) \/ Submit(j) \/ ChangeMember(j)
  BY DEF OrgNext
<1>1. /\ NoCall \in PageJobState /\ orgJobs[j].frees \in BOOLEAN
      /\ \A frees \in BOOLEAN :
            PageLoad(frees) \in PageJobState /\ PageAct(frees) \in PageJobState
  BY DEF PagesTypeOK, PageJobState, NoCall, PageLoad, PageAct
<1>2. UNCHANGED <<inTrash, trashLoading, trashError, busyRow, trashJobs>>
  BY DEF trashVars
<1>. USE DEF PagesTypeOK, OrgWaits, OrgEnds
<1>3. CASE Submit(j) \/ ChangeMember(j)
  BY <1>1, <1>2, <1>3 DEF Submit, ChangeMember
<1>4. CASE OrgActed(j)
  BY <1>1, <1>2, <1>4 DEF OrgActed
<1>5. CASE OrgLoaded(j)
  BY <1>1, <1>2, <1>5 DEF OrgLoaded
<1>. QED
  BY <1>0, <1>3, <1>4, <1>5 DEF OrgStep

(***************************************************************************)
(* The parts of the client beside each other                               *)
(***************************************************************************)

\* A step of the two pages.
PagesNext == \/ TrashNext /\ UNCHANGED orgVars
             \/ OrgNext /\ UNCHANGED trashVars

LEMMA PagesNextType == PagesTypeOK /\ [PagesNext]_pageVars => PagesTypeOK'
<1>1. PagesTypeOK /\ UNCHANGED pageVars => PagesTypeOK'
  BY DEF pageVars, trashVars, orgVars, PagesTypeOK
<1>. QED
  BY <1>1, TrashType, OrgType DEF PagesNext

\* Every behaviour of the client is one of each of its parts: where another is
\* exercised, it stutters.  What is proved of a part alone holds here.
THEOREM EachWidgetRuns ==
    ClientSpec => /\ PreviewSpec /\ UploadSpec
                  /\ BrowserInit /\ [][BrowserNext]_browserVars
                  /\ PagesInit /\ [][PagesNext]_pageVars
<1>1. ClientInit => PreviewInit /\ UploadInit /\ BrowserInit /\ PagesInit
  BY DEF ClientInit
<1>2. [ClientNext]_clientVars =>
        /\ [PreviewNext]_previewVars /\ [UploadNext]_uploadVars
        /\ [BrowserNext]_browserVars /\ [PagesNext]_pageVars
  BY DEF ClientNext, clientVars, PagesNext, pageVars
<1>. QED
  BY <1>1, <1>2, PTL DEF ClientSpec, PreviewSpec, UploadSpec

\* The variables of every part have their types.
THEOREM ClientTyped == ClientSpec => []ClientTypeOK
BY EachWidgetRuns, PreviewTypes, UploadsTyped, BrowserInitType, BrowserNextType,
   PagesInitType, PagesNextType, PTL DEF ClientTypeOK

\* In every behaviour of the client the object URLs are sound, and what the
\* queue shows as uploaded is stored.
THEOREM ClientHolds == ClientSpec => [](ObjectUrlsSound /\ CompletedIsStored)
BY EachWidgetRuns, ObjectUrlsAreSound, CompletedStaysStored, PTL
=============================================================================
