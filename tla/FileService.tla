----------------------------- MODULE FileService -----------------------------
(***************************************************************************)
(* The life of one File: its metadata document, the object under its       *)
(* storage key, its R2 multipart upload and the objects of its renditions, *)
(* worked on by concurrent requests of FileService (src/application/       *)
(* file-service.ts, with the decisions of file-policy.ts).  Requests on    *)
(* different files touch different streams and different keys, so one file *)
(* is enough.                                                              *)
(*                                                                         *)
(* A request is a sequence of awaited calls; between two of them any other *)
(* request may run.  A document command compares and appends in one step   *)
(* (DocumentStore shows that it may be taken so).  A command that was      *)
(* committed reads its document AGAIN before it answers, and that read may *)
(* already see the commits of others.  Every call may fail and a Worker    *)
(* may die between two calls (FaultBound).                                 *)
(***************************************************************************)
EXTENDS Naturals

CONSTANTS
    Requests,       \* slots in which requests run concurrently
    RequestBound,   \* how many requests are made in all
    FaultBound,     \* how many calls fail or requests die in all
    OverlayBound    \* how many contents the overlay of the rendition takes on

VARIABLES
    doc,        \* the File document, as its stream folds
    primary,    \* whether an object is stored under the file's key
    upload,     \* the R2 multipart upload of the key
    stored,     \* the etag of the part that R2 holds for the upload
    renditions, \* the rendition keys that hold an object
    infected,   \* what the scanner says of the file's content
    url,        \* the signed URL of a direct upload: none, issued
    overlay,    \* the etag of the object that the rendition lays over the file
    req,        \* the requests
    etags,      \* the last etag or attempt id given out
    started,    \* requests made so far
    faults,     \* faults so far
    requested,  \* history: a deletion of the file has been requested
    ackLost,    \* history: a commit was taken for a failure
    overtaken,  \* history: the command that ends a completion was refused
    late,       \* history: the client put the content after the upload was closed
    replaced    \* history: the keys of available entries that another attempt replaced

objects == <<primary, upload, stored, renditions>>
source == <<infected, url, overlay>>
counters == <<etags, started, faults>>
history == <<requested, ackLost, overtaken, late, replaced>>

vars == <<doc, objects, source, req, counters, history>>

\* No expectedVersion was given with a command.
NoVersion == 0

NoRendition == [status |-> "none", key |-> 0, source |-> 0]

NoDoc == [state |-> "none", version |-> 0, deleted |-> FALSE, multipart |-> FALSE,
          part |-> 0, rendition |-> NoRendition]

Idle == [op |-> "upload", pc |-> "idle", snap |-> NoDoc, expected |-> NoVersion, key |-> 0,
         source |-> 0]

-----------------------------------------------------------------------------
\* What the policy asks of a document.

Live(d) == d.state # "none" /\ ~d.deleted

isFileDeleteRequested(d) == d.state = "delete_requested"

ensureFilePendingDirectUpload(d) == d.state = "upload_pending"

ensureFilePendingMultipartPartUpload(d) == d.state = "upload_pending" /\ d.multipart

ensureFilePendingMultipartCompletion(d) ==
    d.state \in {"upload_pending", "upload_completing"} /\ d.multipart

ensureFileAvailableForDownload(d) == d.state = "available"

\* The parts a completion names must be the recorded ones and add up to the file.
ensureMultipartCompletionMatchesManifest(d) == d.part # 0

\* The entry was made of the same contents.  The file's own content never
\* changes, so its source is told by the etag of the overlay.
renditionSourcesMatch(entry, etag) == entry.source = etag

\* A pending entry is a lock on the rendition of its id, of the same sources.
ensureNoPendingFileRenditionForSource(d, etag) ==
    ~(d.rendition.status = "pending" /\ renditionSourcesMatch(d.rendition, etag))

\* The rendition can be served as it is, if its object is still there.
reusableFileRendition(d, etag) ==
    /\ d.rendition.status = "available"
    /\ renditionSourcesMatch(d.rendition, etag)
    /\ d.rendition.key \in renditions

\* Document fields after the upload: the scan decides.
completedState == IF infected THEN "scan_failed" ELSE "available"

-----------------------------------------------------------------------------
\* Requests and document commands.

Goto(r, pc) == req' = [req EXCEPT ![r].pc = pc]

End(r) == req' = [req EXCEPT ![r] = Idle]

GotoOrEnd(r, pc) == IF pc = "idle" THEN End(r) ELSE Goto(r, pc)

\* A new request, of the named key; it begins with reading the document.
StartOf(r, op, pc, expected, key) ==
    /\ req[r].pc = "idle"
    /\ started < RequestBound
    /\ started' = started + 1
    /\ req' = [req EXCEPT ![r] = [op |-> op, pc |-> pc, snap |-> doc, expected |-> expected,
                                  key |-> key, source |-> 0]]
    /\ UNCHANGED <<doc, objects, infected, overlay, etags, faults, history>>

Start(r, op, pc, expected) == StartOf(r, op, pc, expected, 0)

\* The versions a caller may send along: none, or the one it has read.
CallerVersions == {NoVersion, doc.version}

At(r, op, pc) == req[r].op = op /\ req[r].pc = pc

Accepts(version) == Live(doc) /\ version \in {NoVersion, doc.version}

\* The version that the document command at this point of the request expects.
expectedVersion(r) ==
    IF \/ req[r].op = "completeDirect"
       \/ req[r].op = "updateMetadata"
       \/ req[r].pc = "begin"
    THEN req[r].expected
    ELSE req[r].snap.version

Executing == {"begin", "execute", "request", "remove", "reserve", "executeFailed"}

\* DocumentService.execute: the patch applied to the current document.
execute(r, patched) ==
    /\ Accepts(expectedVersion(r))
    /\ doc' = [patched EXCEPT !.version = doc.version + 1]

\* Mutant: a completion that lost the race removes "its" object.
OnErrorRemoves(r) ==
    CASE req[r].op \in {"upload", "completeMultipart"} /\ req[r].pc \in {"scan", "create", "execute"} -> "cleanup"
      [] req[r].op = "prepareMultipart" /\ req[r].pc = "create" -> "abandon"
      [] req[r].op = "rendition" /\ req[r].pc \in {"transform", "latest", "execute"} -> "discard"
      [] req[r].op = "rendition" /\ req[r].pc = "discard" -> "latestFailed"
      [] OTHER -> "idle"

\* Where a request goes on when the call it is making throws.
OnError(r) ==
    CASE req[r].op = "upload" /\ req[r].pc \in {"scan", "create"} -> "cleanup"
      [] req[r].op = "prepareMultipart" /\ req[r].pc = "create" -> "abandon"
      [] req[r].op = "rendition" /\ req[r].pc \in {"transform", "latest", "execute"} -> "discard"
      [] req[r].op = "rendition" /\ req[r].pc = "discard" -> "latestFailed"
      [] OTHER -> "idle"

-----------------------------------------------------------------------------
\* Uploads that go through the Worker.

StartUpload(r) ==
    /\ started = 0
    /\ Start(r, "upload", "put", NoVersion)
    /\ UNCHANGED url

PutObject(r) ==
    /\ At(r, "upload", "put")
    /\ primary' = TRUE
    /\ Goto(r, "scan")
    /\ UNCHANGED <<doc, upload, stored, renditions, source, counters, history>>

\* scanObject: the verdict is a property of the content.
ScanObject(r) ==
    /\ req[r].pc = "scan"
    /\ Goto(r, IF req[r].op = "upload" THEN "create" ELSE "execute")
    /\ UNCHANGED <<doc, objects, source, counters, history>>

\* The metadata of a buffered upload; an infected one is kept as a record only.
CreateUploaded(r) ==
    /\ At(r, "upload", "create")
    /\ doc' = [NoDoc EXCEPT !.state = completedState, !.version = 1]
    /\ GotoOrEnd(r, IF infected THEN "cleanup" ELSE "idle")
    /\ UNCHANGED <<objects, source, counters, history>>

\* deleteFileObjectsIgnoringFailures of the file's own key.
CleanupObject(r) ==
    /\ req[r].pc = "cleanup"
    /\ primary' = FALSE
    /\ End(r)
    /\ UNCHANGED <<doc, upload, stored, renditions, source, counters, history>>

-----------------------------------------------------------------------------
\* Direct uploads.

StartPrepareDirectUpload(r) ==
    /\ started = 0
    /\ url' = "issued"
    /\ Start(r, "prepareDirect", "create", NoVersion)

CreatePendingDirect(r) ==
    /\ At(r, "prepareDirect", "create")
    /\ doc' = [NoDoc EXCEPT !.state = "upload_pending", !.version = 1]
    /\ End(r)
    /\ UNCHANGED <<objects, source, counters, history>>

\* The browser puts the content, once it was told the URL; it may do so again
\* (the expiry of the URL only ends that, and nothing waits for it).
ClientPut ==
    /\ url = "issued"
    /\ doc # NoDoc
    /\ primary' = TRUE
    /\ late' = (late \/ doc.state # "upload_pending")
    /\ UNCHANGED <<doc, upload, stored, renditions, source, req, counters, requested, ackLost,
                   overtaken, replaced>>

StartCompleteDirectUpload(r) ==
    /\ Live(doc)
    /\ ensureFilePendingDirectUpload(doc)
    /\ \E expected \in CallerVersions : Start(r, "completeDirect", "head", expected)
    /\ UNCHANGED url

\* Only an object that is there, and as large as reserved, is scanned.
HeadDirectObject(r) ==
    /\ At(r, "completeDirect", "head")
    /\ GotoOrEnd(r, IF primary THEN "scan" ELSE "idle")
    /\ UNCHANGED <<doc, objects, source, counters, history>>

\* Mutant: the object of an infected upload is left where it is.
ExecuteCompletionOnly(r) ==
    /\ req[r].op \in {"completeDirect", "completeMultipart"}
    /\ req[r].pc = "execute"
    /\ execute(r, [doc EXCEPT !.state = completedState])
    /\ End(r)
    /\ UNCHANGED <<objects, source, counters, history>>

\* completeDirectUpload, completeMultipartUpload or failScan.
ExecuteCompletion(r) ==
    /\ req[r].op \in {"completeDirect", "completeMultipart"}
    /\ req[r].pc = "execute"
    /\ execute(r, [doc EXCEPT !.state = completedState])
    /\ GotoOrEnd(r, IF infected THEN "cleanup" ELSE "idle")
    /\ UNCHANGED <<objects, source, counters, history>>

-----------------------------------------------------------------------------
\* Multipart uploads.

StartPrepareMultipartUpload(r) ==
    /\ started = 0
    /\ Start(r, "prepareMultipart", "createUpload", NoVersion)
    /\ UNCHANGED url

CreateMultipartUpload(r) ==
    /\ At(r, "prepareMultipart", "createUpload")
    /\ upload' = "open"
    /\ Goto(r, "create")
    /\ UNCHANGED <<doc, primary, stored, renditions, source, counters, history>>

CreatePendingMultipart(r) ==
    /\ At(r, "prepareMultipart", "create")
    /\ doc' = [NoDoc EXCEPT !.state = "upload_pending", !.version = 1, !.multipart = TRUE]
    /\ End(r)
    /\ UNCHANGED <<objects, source, counters, history>>

\* The upload of a reservation that got no document is aborted.
AbandonMultipartUpload(r) ==
    /\ At(r, "prepareMultipart", "abandon")
    /\ upload' = "aborted"
    /\ End(r)
    /\ UNCHANGED <<doc, primary, stored, renditions, source, counters, history>>

StartUploadMultipartPart(r) ==
    /\ Live(doc)
    /\ ensureFilePendingMultipartPartUpload(doc)
    /\ Start(r, "uploadPart", "storePart", NoVersion)
    /\ UNCHANGED url

\* R2 keeps the latest body of a part under a new etag.
StorePart(r) ==
    /\ At(r, "uploadPart", "storePart")
    /\ IF upload = "open"
       THEN /\ etags' = etags + 1
            /\ stored' = etags + 1
            /\ req' = [req EXCEPT ![r].pc = "execute", ![r].key = etags + 1]
       ELSE /\ End(r)
            /\ UNCHANGED <<etags, stored>>
    /\ UNCHANGED <<doc, primary, upload, renditions, source, started, faults, history>>

RecordPart(r) ==
    /\ At(r, "uploadPart", "execute")
    /\ execute(r, [doc EXCEPT !.part = req[r].key])
    /\ End(r)
    /\ UNCHANGED <<objects, source, counters, history>>

\* A completion that was begun before, by whomever, is taken up again.  The
\* caller names the parts, which are the recorded ones when the request begins.
StartCompleteMultipartUpload(r) ==
    /\ Live(doc)
    /\ ensureFilePendingMultipartCompletion(doc)
    /\ ensureMultipartCompletionMatchesManifest(doc)
    /\ \E expected \in CallerVersions :
         StartOf(r, "completeMultipart",
                 IF doc.state = "upload_completing" THEN "head" ELSE "begin", expected, doc.part)
    /\ UNCHANGED url

BeginMultipartUploadCompletion(r) ==
    /\ At(r, "completeMultipart", "begin")
    /\ execute(r, [doc EXCEPT !.state = "upload_completing"])
    /\ Goto(r, "reread")
    /\ UNCHANGED <<objects, source, counters, history>>

\* finishCommit: the answer to a command is what the stream folds to by now.
RereadDocument(r) ==
    /\ req[r].pc = "reread"
    /\ req' = [req EXCEPT ![r].snap = doc,
                          ![r].pc = IF req[r].op = "delete" THEN "deletePrimary" ELSE "head"]
    /\ UNCHANGED <<doc, objects, source, counters, history>>

\* completedMultipartObject: an object that is already there is used as it is.
HeadMultipartObject(r) ==
    /\ At(r, "completeMultipart", "head")
    /\ Goto(r, IF primary THEN "scan" ELSE "complete")
    /\ UNCHANGED <<doc, objects, source, counters, history>>

\* R2 makes the object of the parts it holds, if they are the ones named.
CompleteMultipartObject(r) ==
    /\ At(r, "completeMultipart", "complete")
    /\ IF upload = "open" /\ stored = req[r].key
       THEN /\ upload' = "completed"
            /\ primary' = TRUE
            /\ Goto(r, "scan")
       ELSE /\ End(r)
            /\ UNCHANGED <<upload, primary>>
    /\ UNCHANGED <<doc, stored, renditions, source, counters, history>>

StartAbortMultipartUpload(r) ==
    /\ Live(doc)
    /\ ensureFilePendingMultipartPartUpload(doc)
    /\ Start(r, "abort", "abortUpload", NoVersion)
    /\ UNCHANGED url

AbortMultipartObject(r) ==
    /\ At(r, "abort", "abortUpload")
    /\ IF upload = "open"
       THEN /\ upload' = "aborted"
            /\ Goto(r, "remove")
       ELSE /\ End(r)
            /\ UNCHANGED upload
    /\ UNCHANGED <<doc, primary, stored, renditions, source, counters, history>>

-----------------------------------------------------------------------------
\* Metadata and renditions.

StartUpdateMetadata(r) ==
    /\ Live(doc)
    /\ ~isFileDeleteRequested(doc)
    /\ \E expected \in CallerVersions : Start(r, "updateMetadata", "execute", expected)
    /\ UNCHANGED url

ExecuteMetadataUpdate(r) ==
    /\ At(r, "updateMetadata", "execute")
    /\ execute(r, doc)
    /\ End(r)
    /\ UNCHANGED <<objects, source, counters, history>>

\* The overlay is a File of its own, and another content may be put under its
\* key (a content it had before could only make an old rendition fit again).
ReplaceOverlay ==
    /\ overlay < OverlayBound
    /\ overlay' = overlay + 1
    /\ UNCHANGED <<doc, objects, infected, url, req, counters, history>>

\* Download, overlay, reuse check and the lock; the attempt's key is fresh.
\* Whatever comes between these reads raises the version, so that the lock is
\* refused, or changes the overlay, which may as well happen after them.
StartGenerateRendition(r) ==
    /\ Live(doc)
    /\ ensureFileAvailableForDownload(doc)
    /\ Start(r, "rendition", "head", NoVersion)
    /\ UNCHANGED url

PlanRendition(r) ==
    /\ At(r, "rendition", "head")
    /\ IF /\ primary
          /\ ~reusableFileRendition(req[r].snap, overlay)
          /\ ensureNoPendingFileRenditionForSource(req[r].snap, overlay)
       THEN /\ etags' = etags + 1
            /\ req' = [req EXCEPT ![r].pc = "reserve", ![r].key = etags + 1,
                                  ![r].source = overlay]
       ELSE /\ End(r)
            /\ UNCHANGED etags
    /\ UNCHANGED <<doc, objects, source, started, faults, history>>

Entry(r, status) == [status |-> status, key |-> req[r].key, source |-> req[r].source]

\* The entry of the id is replaced, whosever it was; its object is left alone.
upsertFileRenditionManifest(r, status) ==
    /\ execute(r, [doc EXCEPT !.rendition = Entry(r, status)])
    /\ replaced' = IF doc.rendition.status = "available" /\ doc.rendition.key # req[r].key
                   THEN replaced \cup {doc.rendition.key}
                   ELSE replaced

ReserveRendition(r) ==
    /\ At(r, "rendition", "reserve")
    /\ upsertFileRenditionManifest(r, "pending")
    /\ Goto(r, "transform")
    /\ UNCHANGED <<objects, source, counters, requested, ackLost, overtaken, late>>

PutRendition(r) ==
    /\ At(r, "rendition", "transform")
    /\ renditions' = renditions \cup {req[r].key}
    /\ Goto(r, "latest")
    /\ UNCHANGED <<doc, primary, upload, stored, source, counters, history>>

\* Mutant: a rendition whose document has gone just ends.
ReadLatestOrEnd(r) ==
    /\ req[r].pc \in {"latest", "latestFailed"}
    /\ IF Live(doc)
       THEN req' = [req EXCEPT ![r].snap = doc,
                               ![r].pc = IF req[r].pc = "latest" THEN "execute" ELSE "executeFailed"]
       ELSE End(r)
    /\ UNCHANGED <<doc, objects, source, counters, history>>

\* recordRenditionManifest reads the document before it writes.
ReadLatest(r) ==
    /\ req[r].pc \in {"latest", "latestFailed"}
    /\ IF Live(doc)
       THEN req' = [req EXCEPT ![r].snap = doc,
                               ![r].pc = IF req[r].pc = "latest" THEN "execute" ELSE "executeFailed"]
       ELSE GotoOrEnd(r, OnError(r))
    /\ UNCHANGED <<doc, objects, source, counters, history>>

RecordRendition(r) ==
    /\ At(r, "rendition", "execute")
    /\ upsertFileRenditionManifest(r, "available")
    /\ End(r)
    /\ UNCHANGED <<objects, source, counters, requested, ackLost, overtaken, late>>

\* The object of a rendition that could not be recorded is removed again.
DiscardRendition(r) ==
    /\ At(r, "rendition", "discard")
    /\ renditions' = renditions \ {req[r].key}
    /\ Goto(r, "latestFailed")
    /\ UNCHANGED <<doc, primary, upload, stored, source, counters, history>>

RecordFailedRendition(r) ==
    /\ At(r, "rendition", "executeFailed")
    /\ upsertFileRenditionManifest(r, "failed")
    /\ End(r)
    /\ UNCHANGED <<objects, source, counters, requested, ackLost, overtaken, late>>

-----------------------------------------------------------------------------
\* Deletion.

\* A deletion that was requested before is taken up again, whatever the version.
StartDelete(r) ==
    /\ Live(doc)
    /\ Start(r, "delete", IF isFileDeleteRequested(doc) THEN "deletePrimary" ELSE "request", NoVersion)
    /\ UNCHANGED url

RequestDelete(r) ==
    /\ At(r, "delete", "request")
    /\ execute(r, [doc EXCEPT !.state = "delete_requested"])
    /\ requested' = TRUE
    /\ Goto(r, "reread")
    /\ UNCHANGED <<objects, source, counters, ackLost, overtaken, late, replaced>>

DeletePrimaryObject(r) ==
    /\ At(r, "delete", "deletePrimary")
    /\ primary' = FALSE
    /\ Goto(r, IF req[r].snap.rendition = NoRendition THEN "remove" ELSE "deleteRendition")
    /\ UNCHANGED <<doc, upload, stored, renditions, source, counters, history>>

DeleteRenditionObject(r) ==
    /\ At(r, "delete", "deleteRendition")
    /\ renditions' = renditions \ {req[r].snap.rendition.key}
    /\ Goto(r, "remove")
    /\ UNCHANGED <<doc, primary, upload, stored, source, counters, history>>

\* documents.delete, the end of a deletion and of an abort.
RemoveDocument(r) ==
    /\ req[r].pc = "remove"
    /\ execute(r, [doc EXCEPT !.deleted = TRUE])
    /\ End(r)
    /\ UNCHANGED <<objects, source, counters, history>>

-----------------------------------------------------------------------------
\* What goes wrong.

EndsCompletion(r) ==
    req[r].op \in {"completeDirect", "completeMultipart"} /\ req[r].pc = "execute"

\* Another commit came first: the command answers with a conflict, or the
\* document is gone.
Refuse(r) ==
    /\ req[r].pc \in Executing
    /\ ~Accepts(expectedVersion(r))
    /\ GotoOrEnd(r, OnError(r))
    /\ overtaken' = (overtaken \/ EndsCompletion(r))
    /\ UNCHANGED <<doc, objects, source, counters, requested, ackLost, late, replaced>>

Fault == faults < FaultBound /\ faults' = faults + 1

\* The call throws before it had any effect.
CallFails(r) ==
    /\ req[r].pc # "idle"
    /\ Fault
    /\ GotoOrEnd(r, OnError(r))
    /\ UNCHANGED <<doc, objects, source, etags, started, history>>

\* The Worker dies.
RequestDies(r) ==
    /\ req[r].pc # "idle"
    /\ Fault
    /\ End(r)
    /\ UNCHANGED <<doc, objects, source, etags, started, history>>

\* The commit is made, but the read after it throws: the request takes the
\* command for failed and undoes what it did in the store.
CommitThenFail(r) ==
    /\ OnError(r) # "idle"
    /\ Fault
    /\ \/ /\ At(r, "upload", "create")
          /\ doc' = [NoDoc EXCEPT !.state = completedState, !.version = 1]
          /\ UNCHANGED replaced
       \/ /\ At(r, "prepareMultipart", "create")
          /\ doc' = [NoDoc EXCEPT !.state = "upload_pending", !.version = 1, !.multipart = TRUE]
          /\ UNCHANGED replaced
       \/ /\ At(r, "rendition", "execute")
          /\ upsertFileRenditionManifest(r, "available")
    /\ ackLost' = TRUE
    /\ Goto(r, OnError(r))
    /\ UNCHANGED <<objects, source, etags, started, requested, overtaken, late>>

-----------------------------------------------------------------------------
Init ==
    /\ doc = NoDoc
    /\ primary = FALSE
    /\ upload = "none"
    /\ stored = 0
    /\ renditions = {}
    /\ infected \in BOOLEAN
    /\ url = "none"
    /\ overlay = 1
    /\ req = [r \in Requests |-> Idle]
    /\ etags = 0
    /\ started = 0
    /\ faults = 0
    /\ requested = FALSE
    /\ ackLost = FALSE
    /\ overtaken = FALSE
    /\ late = FALSE
    /\ replaced = {}

UploadStep(r) ==
    \/ StartUpload(r) \/ PutObject(r) \/ ScanObject(r) \/ CreateUploaded(r) \/ CleanupObject(r)
    \/ StartPrepareDirectUpload(r) \/ CreatePendingDirect(r)
    \/ StartCompleteDirectUpload(r) \/ HeadDirectObject(r) \/ ExecuteCompletion(r)

MultipartStep(r) ==
    \/ StartPrepareMultipartUpload(r) \/ CreateMultipartUpload(r) \/ CreatePendingMultipart(r)
    \/ AbandonMultipartUpload(r) \/ StartUploadMultipartPart(r) \/ StorePart(r) \/ RecordPart(r)
    \/ StartCompleteMultipartUpload(r) \/ BeginMultipartUploadCompletion(r) \/ RereadDocument(r)
    \/ HeadMultipartObject(r) \/ CompleteMultipartObject(r)
    \/ StartAbortMultipartUpload(r) \/ AbortMultipartObject(r)

RenditionStep(r) ==
    \/ StartUpdateMetadata(r) \/ ExecuteMetadataUpdate(r)
    \/ StartGenerateRendition(r) \/ PlanRendition(r) \/ ReserveRendition(r) \/ PutRendition(r)
    \/ ReadLatest(r) \/ RecordRendition(r) \/ DiscardRendition(r) \/ RecordFailedRendition(r)

DeleteStep(r) ==
    \/ StartDelete(r) \/ RequestDelete(r) \/ DeletePrimaryObject(r) \/ DeleteRenditionObject(r)
    \/ RemoveDocument(r)

FaultStep(r) == Refuse(r) \/ CallFails(r) \/ RequestDies(r) \/ CommitThenFail(r)

Next ==
    \/ ClientPut
    \/ ReplaceOverlay
    \/ \E r \in Requests :
         UploadStep(r) \/ MultipartStep(r) \/ RenditionStep(r) \/ DeleteStep(r) \/ FaultStep(r)

Spec == Init /\ [][Next]_vars

-----------------------------------------------------------------------------
\* Properties.

Quiet == \A r \in Requests : req[r].pc = "idle"

(***************************************************************************)
(* A file that calls itself available has its content: however             *)
(* completions, aborts and rendition requests interleave or fail, the      *)
(* object is lost only by a requested deletion, or when an upload takes a  *)
(* commit whose answer it did not get for a failure and compensates it.    *)
(***************************************************************************)
ContentKept ==
    Live(doc) /\ doc.state = "available" /\ ~requested /\ ~ackLost => primary

(***************************************************************************)
(* Content that the scanner rejects is never available.  Once all requests *)
(* are through and none met a fault, it is stored only under a reservation *)
(* that nobody has completed yet; or because the command that ends a       *)
(* completion was refused, since another request had committed first; or   *)
(* because the client used its URL again after the upload was closed.      *)
(* After a refusal the object stays, since it is removed only after that   *)
(* command: the file waits to be completed or deleted again, or a deletion *)
(* has removed the document before the object was made, and nothing names  *)
(* it any more.  A file recorded as scan_failed has lost its content.      *)
(***************************************************************************)
InfectedRemoved ==
    infected =>
        /\ doc.state # "available"
        /\ Quiet /\ faults = 0 /\ ~late /\ primary =>
             \/ doc.state = "upload_pending"
             \/ overtaken /\ doc.state \in {"upload_completing", "delete_requested"}

(***************************************************************************)
(* When nothing fails and no request is under way, a rendition object is   *)
(* named by the manifest of a document that still exists, or its entry was *)
(* once available and another attempt replaced it, which leaves the object *)
(* behind; a rendition that fails, or that a deletion or another attempt   *)
(* overtakes, removes its own object.  While the overlay never changes no  *)
(* object is left behind: an available rendition is reused and a pending   *)
(* one keeps others out.  And as long as no deletion was requested, an     *)
(* entry marked available has its object.                                  *)
(***************************************************************************)
RenditionsOwned ==
    /\ Quiet /\ faults = 0 =>
         \A k \in renditions :
           \/ Live(doc) /\ doc.rendition.status = "available" /\ doc.rendition.key = k
           \/ overlay > 1 /\ k \in replaced
    /\ Live(doc) /\ doc.rendition.status = "available" /\ ~requested /\ ~ackLost =>
         doc.rendition.key \in renditions

(***************************************************************************)
(* What "deletes metadata and object content together" (tests/application/ *)
(* file-service.test.ts) promises: when all requests are through and none  *)
(* failed, a file that is available has its content.                       *)
(***************************************************************************)
ContentGoesWithMetadata ==
    Quiet /\ faults = 0 /\ Live(doc) /\ doc.state = "available" => primary
=============================================================================
