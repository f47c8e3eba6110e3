------------------------------ MODULE Preview -------------------------------
(***************************************************************************)
(* The file preview of the web client: useBlobPreview, which fetches the    *)
(* bytes behind previewUrl into an object URL, and the viewer of the file's *)
(* category, which shows that object URL (frontend/src/lib/preview-blob.ts, *)
(* frontend/src/components/file-preview).  One opening of the preview, from *)
(* mount to unmount; a state change and the effects it sets off are one     *)
(* step.  An object URL has the number of the fetch that made it, and its   *)
(* bytes are named by the previewUrl they came from.  Zoom, rotation,       *)
(* panning, page turning, text search and the clipboard are left out.       *)
(***************************************************************************)
EXTENDS Naturals, Sequences

CONSTANTS
    PreviewUrl,     \* values of the property previewUrl
    NoUrl,          \* the empty previewUrl
    MaxFetches      \* bound: fetches that are ever started

ASSUME PreviewAssumption == NoUrl \notin PreviewUrl /\ MaxFetches \in Nat

VARIABLES
    opened,         \* "no", "yes" while mounted, "gone", "crashed" with its page
    want,           \* the property previewUrl
    category,       \* what getPreviewMimeCategory makes of the property mimeType
    asked,          \* asked[i]: the previewUrl of fetch i
    fetching,       \* the fetches that have not answered
    live,           \* object URLs that exist
    ref,            \* objectUrlRef.current; 0 is null
    blob,           \* what useBlobPreview returns
    view            \* the state of the viewer

previewVars == <<opened, want, category, asked, fetching, live, ref, blob, view>>

Category == {"pdf", "image", "video", "text", "unsupported"}

Blob == [url : Nat, error : BOOLEAN, loading : BOOLEAN]
NewBlob == [url |-> 0, error |-> FALSE, loading |-> TRUE]

View == [loading : BOOLEAN, error : BOOLEAN,
         shows : Nat,           \* the object URL whose text or pages are kept
         imports : SUBSET Nat,  \* those whose read awaits the PDF library
         reads : SUBSET Nat,    \* the object URLs that are being read
         task : BOOLEAN]        \* loadingTaskRef.current is set

NewView == [loading |-> TRUE, error |-> FALSE, shows |-> 0, imports |-> {},
            reads |-> {}, task |-> FALSE]

PreviewInit ==
    /\ opened = "no"
    /\ want = NoUrl /\ category = "unsupported"
    /\ asked = <<>> /\ fetching = {}
    /\ live = {} /\ ref = 0
    /\ blob = NewBlob /\ view = NewView

-----------------------------------------------------------------------------
(* The effects of the viewers on [objectUrl]                                 *)

\* Mutant: the read of the object URL before is not aborted.
WatchTextNoAbort(v, b) ==
    IF b.url # 0 THEN [NewView EXCEPT !.reads = v.reads \cup {b.url}]
    ELSE [v EXCEPT !.loading = b.loading, !.error = ~b.loading /\ b.error]

WatchText(v, b) ==
    IF b.url # 0 THEN [NewView EXCEPT !.reads = {b.url}]
    ELSE [v EXCEPT !.loading = b.loading, !.error = ~b.loading /\ b.error]

\* A viewer is given the blob b.  The PDF viewer keeps the pages it has until
\* those of the new document are there, and a read that still awaits the library
\* goes on.
Watch(c, v, b) ==
    CASE c = "text" -> WatchText(v, b)
      [] c = "pdf" /\ b.url # 0 -> [v EXCEPT !.error = FALSE, !.imports = @ \cup {b.url}]
      [] c \in {"image", "video"} -> NewView
      [] OTHER -> v

\* The cleanup of the PDF viewer's effect calls cancel(), which the loading task
\* of pdfjs-dist 6 does not have: it throws, no boundary catches that, and React
\* takes the whole page down.
CleanupThrows == category = "pdf" /\ view.task

\* What the viewer shows once the hook has neither a fetch nor an error.
ViewerScreen ==
    CASE category = "unsupported" -> IF want = NoUrl THEN "error" ELSE "content"
      [] category = "image" -> IF view.error \/ blob.url = 0 THEN "error" ELSE "content"
      [] category = "video" -> IF blob.url = 0 THEN "loading"
                               ELSE IF view.error THEN "error" ELSE "content"
      [] OTHER -> IF blob.url = 0 \/ view.loading THEN "loading"
                  ELSE IF view.error THEN "error" ELSE "content"

\* What the user sees; the PDF viewer does not look at the state of the hook.
Screen ==
    CASE category = "pdf" ->
            IF view.error THEN "error" ELSE IF view.shows # 0 THEN "content" ELSE "loading"
      [] category # "pdf" /\ blob.loading -> "loading"
      [] category # "pdf" /\ ~blob.loading /\ blob.error -> "error"
      [] OTHER -> ViewerScreen

-----------------------------------------------------------------------------
(* useBlobPreview                                                            *)

\* fetchBlob up to its first await.
FetchBlob(url) ==
    \/ /\ url = NoUrl
       /\ blob' = [blob EXCEPT !.error = TRUE, !.loading = FALSE]
       /\ UNCHANGED <<asked, fetching>>
    \/ /\ url # NoUrl
       /\ Len(asked) < MaxFetches
       /\ asked' = Append(asked, url)
       /\ fetching' = fetching \cup {Len(asked) + 1}
       /\ blob' = [blob EXCEPT !.error = FALSE, !.loading = TRUE]

Open(url, c) ==
    /\ opened = "no"
    /\ opened' = "yes"
    /\ want' = url /\ category' = c
    /\ view' = Watch(c, NewView, NewBlob)
    /\ FetchBlob(url)
    /\ UNCHANGED <<live, ref>>

\* Another file or version is shown.  A viewer of another category is a new
\* component; only a new previewUrl revokes the object URL and fetches.
Show(url, c) ==
    /\ opened = "yes"
    /\ <<url, c>> # <<want, category>>
    /\ want' = url /\ category' = c
    /\ view' = IF c = category THEN view ELSE Watch(c, NewView, blob)
    /\ opened' = IF c # category /\ CleanupThrows THEN "crashed" ELSE opened
    /\ \/ /\ url = want
          /\ live' = IF opened' = "crashed" THEN live \ {ref} ELSE live
          /\ ref' = IF opened' = "crashed" THEN 0 ELSE ref
          /\ UNCHANGED <<asked, fetching, blob>>
       \/ /\ url # want
          /\ live' = live \ {ref} /\ ref' = 0
          /\ FetchBlob(url)

Close ==
    /\ opened = "yes"
    /\ opened' = IF CleanupThrows THEN "crashed" ELSE "gone"
    /\ live' = live \ {ref} /\ ref' = 0
    /\ view' = NewView
    /\ UNCHANGED <<want, category, asked, fetching, blob>>

\* The Retry button of ErrorPreview.
Retry ==
    /\ opened = "yes" /\ category # "pdf" /\ ~blob.loading /\ blob.error
    /\ FetchBlob(want)
    /\ UNCHANGED <<opened, want, category, live, ref, view>>

\* Mutant: the object URL before is not revoked.
ReplaceWithoutRevoke(f) == live' = live \cup {f} /\ ref' = f

Replace(f) == live' = (live \ {ref}) \cup {f} /\ ref' = f

\* The answer of a fetch: whatever was asked for since, its bytes are shown.
\* After the unmount only the object URL is made.
Answered(f) ==
    /\ f \in fetching
    /\ fetching' = fetching \ {f}
    /\ LET b == [url |-> f, error |-> FALSE, loading |-> FALSE] IN
       \/ /\ opened = "yes" /\ ~CleanupThrows
          /\ Replace(f)
          /\ blob' = b
          /\ view' = Watch(category, view, b)
          /\ UNCHANGED opened
       \/ /\ opened = "yes" /\ CleanupThrows
          /\ opened' = "crashed"
          /\ live' = live \ {ref} /\ ref' = 0
          /\ blob' = b
          /\ view' = NewView
       \/ opened \in {"gone", "crashed"} /\ Replace(f) /\ UNCHANGED <<opened, blob, view>>
    /\ UNCHANGED <<want, category, asked>>

\* A status that is not 2xx, no bytes, or no answer.
FetchFails(f) ==
    /\ f \in fetching
    /\ fetching' = fetching \ {f}
    /\ \/ /\ opened = "yes"
          /\ blob' = [blob EXCEPT !.error = TRUE, !.loading = FALSE]
       \/ opened \in {"gone", "crashed"} /\ UNCHANGED blob
    /\ UNCHANGED <<opened, want, category, asked, live, ref, view>>

-----------------------------------------------------------------------------
(* The viewers                                                               *)

ViewerChanges(v) ==
    /\ opened = "yes"
    /\ view' = v
    /\ UNCHANGED <<opened, want, category, asked, fetching, live, ref, blob>>

\* The library is there: getDocument reads the object URL that the read began
\* with, which a revoked one does not survive.
ImportEnds(u) ==
    /\ category = "pdf" /\ u \in view.imports
    /\ LET v == [view EXCEPT !.imports = @ \ {u}, !.task = TRUE] IN
        ViewerChanges(IF u \in live THEN [v EXCEPT !.reads = @ \cup {u}]
                      ELSE [v EXCEPT !.error = TRUE])

\* The text or the document of the object URL is there.  A read that began
\* before the object URL was revoked still ends.
ReadEnds(u) ==
    /\ u \in view.reads
    /\ ViewerChanges([view EXCEPT !.reads = @ \ {u}, !.shows = u,
                                  !.loading = category # "text" /\ @])

\* A revoked object URL cannot be read, a whole one may not be a PDF, and the
\* library may not load.
ReadFails(u) ==
    /\ u \in view.reads \cup view.imports
    /\ ViewerChanges([view EXCEPT !.reads = @ \ {u}, !.imports = @ \ {u}, !.error = TRUE,
                                  !.loading = category # "text" /\ @])

\* <img> and <video> report on the object URL that is on the screen.
MediaLoads ==
    /\ category = "video" /\ Screen = "content" /\ view.loading
    /\ ViewerChanges([view EXCEPT !.loading = FALSE])

MediaFails ==
    /\ category \in {"image", "video"} /\ Screen = "content"
    /\ ViewerChanges([view EXCEPT !.error = TRUE, !.loading = category = "image" /\ @])

\* The Retry button of a viewer: the PDF viewer reads again, the image viewer
\* shows the image again, and the text viewer only turns its spinner on.
ViewerRetry ==
    /\ view.error /\ Screen = "error"
    /\ \/ category = "pdf" /\ ViewerChanges([view EXCEPT !.error = FALSE, !.imports = @ \cup {blob.url}])
       \/ category = "image" /\ ~blob.error /\ ViewerChanges([view EXCEPT !.error = FALSE])
       \/ /\ category = "text" /\ ~blob.error
          /\ ViewerChanges([view EXCEPT !.error = FALSE, !.loading = TRUE])

FetchEnds(f) == Answered(f) \/ FetchFails(f)

PreviewNext ==
    \/ \E url \in PreviewUrl \cup {NoUrl}, c \in Category : Open(url, c) \/ Show(url, c)
    \/ Close \/ Retry
    \/ \E f \in 1 .. MaxFetches : FetchEnds(f) \/ ImportEnds(f) \/ ReadEnds(f) \/ ReadFails(f)
    \/ MediaLoads \/ MediaFails \/ ViewerRetry

\* A fetch is answered or refused in the end: that is the browser's promise.
PreviewFairness == \A f \in 1 .. MaxFetches : WF_previewVars(FetchEnds(f))

PreviewSpec == PreviewInit /\ [][PreviewNext]_previewVars /\ PreviewFairness

-----------------------------------------------------------------------------
PreviewTypeOK ==
    /\ opened \in {"no", "yes", "gone", "crashed"}
    /\ want \in PreviewUrl \cup {NoUrl} /\ category \in Category
    /\ asked \in Seq(PreviewUrl) /\ fetching \subseteq 1 .. Len(asked)
    /\ live \subseteq Nat /\ ref \in Nat
    /\ blob \in Blob /\ view \in View

\* At most one object URL exists: the one the hook remembers.
UrlsAccounted == live \subseteq {ref}

\* A viewer other than the PDF viewer shows an object URL that exists, and the
\* text on the screen is that of the object URL the hook returned last.
ShownIsLive ==
    opened = "yes" /\ category # "pdf" /\ Screen = "content"
        => /\ blob.url \in live
           /\ category = "text" => view.shows = blob.url

\* However fetches, retries, reads and changes of the file overlap, no object
\* URL is lost track of, none is shown after it was revoked, and text that was
\* read from one is not shown for another (preview-blob.ts: 53-62, 76-84,
\* file-preview.tsx: 655-687).
ObjectUrlsSound == UrlsAccounted /\ ShownIsLive

\* What the docs say of the preview and the code does not do.

\* A preview that is closed leaves the page of the file browser as it was, and so
\* does the change to another file (specs/002-file-preview-ui/spec.md: 77;
\* file-preview.tsx: 221-225).
PageStays == opened # "crashed"

\* Once the fetch has failed, or cannot be made for want of a URL, the error is on
\* the screen, whatever the category (specs/002-file-preview-ui/spec.md: 98;
\* file-preview.tsx: 185-195, 330-352).
FailureShown ==
    opened = "yes" /\ blob.error /\ ~blob.loading => Screen = "error"

\* Pressing Retry has something fetched or read: the loading state that takes the
\* place of the error stands for that (specs/002-file-preview-ui/spec.md: 114;
\* file-preview.tsx: 741-747).
ErrorMakesWay ==
    /\ opened = "yes" /\ opened' = "yes"
    /\ <<want', category'>> = <<want, category>>
    /\ Screen = "error" /\ Screen' = "loading"

RetryFetches ==
    [][ErrorMakesWay => fetching' \cup view'.imports \cup view'.reads # {}]_previewVars
=============================================================================
