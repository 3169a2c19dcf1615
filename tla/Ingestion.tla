------------------------------ MODULE Ingestion ------------------------------
(* One source of a workspace from the authoring routes to the index: edits,  *)
(* deletion and revival, resync, the ingest_source job and its handler, the  *)
(* document versions it writes, the index_document_version job and its       *)
(* chunks.                                                                   *)
(*                                                                           *)
(* Handlers and requests are READ COMMITTED transactions on sessions that    *)
(* keep the object they read first.  Recording the result of an ingest, and  *)
(* recording a resync, write the whole metadata column, content included, as *)
(* it was at that first read.  The job tables fence the end of a job, not    *)
(* the commit of its handler: a handler whose lease lapsed still commits.    *)
EXTENDS Integers, Sequences, FiniteSets, SequencesExt

CONSTANTS
    Contents,       \* normalized and guarded texts, each its own hash
    ExternalIds,    \* names of the source, the stable_id of its documents
    Handlers,       \* handlers in flight, of any worker
    NoContent,
    MaxVersions,    \* bound: document versions ever created
    MaxAttempts     \* bound: attempts of the ingest job

ASSUME IngestionAssumption ==
    /\ MaxVersions \in Nat /\ MaxAttempts \in Nat /\ NoContent \notin Contents
    /\ ExternalIds # {}

VARIABLES
    source,     \* the row of the source
    documents,  \* [ExternalIds -> sequence of version ids]; empty: no document
    version,    \* [1..n -> Version], every version ever created
    ingestJob,  \* the last job of key source:<id>
    indexJob,   \* [1..n -> job of key document-version:<id>]
    handler,    \* [Handlers -> Handler]
    resync,     \* the resync request in flight: the content it read, or NoContent
    promised    \* history variable: what the last enqueue promised to ingest

ingestionVars ==
    <<source, documents, version, ingestJob, indexJob, handler, resync, promised>>

MaybeContent == Contents \cup {NoContent}
Source == [state : {"absent", "live", "deleted"}, content : MaybeContent, name : ExternalIds]
Version == [content : Contents, chunks : BOOLEAN]
JobStates == {"none", "queued", "running", "succeeded", "failed", "blocked"}

\* `read` is the source as the handler read it, `base` the versions it found,
\* `id` the one it reuses or indexes, `chunks` whether it found chunks.
Handler ==
    [step : {"idle", "claimed", "read", "checked", "done", "indexing"}, attempt : 0..MaxAttempts,
     read : Source, base : Seq(1..MaxVersions), id : 0..MaxVersions, chunks : BOOLEAN]

NoSource == [state |-> "absent", content |-> NoContent, name |-> CHOOSE n \in ExternalIds : TRUE]
NoHandler ==
    [step |-> "idle", attempt |-> 0, read |-> NoSource, base |-> <<>>, id |-> 0,
     chunks |-> FALSE]
NoPromise == NoSource

IngestionTypeOK ==
    /\ source \in Source
    /\ documents \in [ExternalIds -> Seq(1..Len(version))]
    /\ version \in Seq(Version) /\ Len(version) <= MaxVersions
    /\ ingestJob \in [state : JobStates, attempt : 0..MaxAttempts]
    /\ indexJob \in Seq(JobStates) /\ Len(indexJob) = Len(version)
    /\ handler \in [Handlers -> Handler]
    /\ resync \in MaybeContent
    /\ promised \in Source

IngestionInit ==
    /\ source = NoSource
    /\ documents = [n \in ExternalIds |-> <<>>]
    /\ version = <<>>
    /\ ingestJob = [state |-> "none", attempt |-> 0]
    /\ indexJob = <<>>
    /\ handler = [h \in Handlers |-> NoHandler]
    /\ resync = NoContent
    /\ promised = NoPromise

-----------------------------------------------------------------------------
\* A definition whose name ends in Fault is the definition after it with a
\* plausible bug.  No specification uses it: the properties must notice it.

Live == source.state = "live"
Open(s) == s \in {"queued", "running"}
InDocuments(id) == \E n \in ExternalIds : id \in Range(documents[n])
LatestContent(n) == IF documents[n] = <<>> THEN NoContent ELSE version[Last(documents[n])].content

\* The job that is queued reads the source later; one that runs has read it.
PromiseAfter(s) == IF ingestJob.state = "queued" THEN s ELSE NoPromise

-----------------------------------------------------------------------------
\* Authoring.

\* create_source: a live identity is refused, a deleted one is revived.
CreateSource(c) ==
    /\ ~Live
    /\ source' = [source EXCEPT !.state = "live", !.content = c]
    /\ promised' = PromiseAfter(source')
    /\ UNCHANGED <<documents, version, ingestJob, indexJob, handler, resync>>

\* update_source; new metadata replaces the old as a whole.
UpdateSource(c, n) ==
    /\ Live
    /\ source' = [source EXCEPT !.content = c, !.name = n]
    /\ promised' = PromiseAfter(source')
    /\ UNCHANGED <<documents, version, ingestJob, indexJob, handler, resync>>

\* soft_delete_source with _cascade_delete_source_index.
SoftDeleteSource ==
    /\ Live
    /\ source' = [source EXCEPT !.state = "deleted"]
    /\ documents' = [n \in ExternalIds |-> <<>>]
    /\ promised' = NoPromise
    /\ UNCHANGED <<version, ingestJob, indexJob, handler, resync>>

\* enqueue_source_ingestion: an open job of the key answers the request.
Enqueued ==
    /\ ingestJob' = IF Open(ingestJob.state) THEN ingestJob
                    ELSE [state |-> "queued", attempt |-> ingestJob.attempt]
    /\ promised' = IF ingestJob.state = "running" THEN NoPromise ELSE source

EnqueueIngestion ==
    /\ Live
    /\ Enqueued
    /\ UNCHANGED <<source, documents, version, indexJob, handler, resync>>

\* resync_source reads the source, enqueues, and writes the metadata it read.
BeginResync ==
    /\ Live /\ resync = NoContent
    /\ Enqueued
    /\ resync' = source.content
    /\ UNCHANGED <<source, documents, version, indexJob, handler>>

\* Metadata that were read as `c` are written back over what is there now.
WritesBack(c) ==
    /\ source' = [source EXCEPT !.content = c]
    /\ promised' = IF c = source.content THEN promised ELSE NoPromise

FinishResync ==
    /\ resync # NoContent
    /\ IF Live THEN WritesBack(resync) ELSE UNCHANGED <<source, promised>>
    /\ resync' = NoContent
    /\ UNCHANGED <<documents, version, ingestJob, indexJob, handler>>

-----------------------------------------------------------------------------
\* The ingest job.

ClaimIngest(h) ==
    /\ ingestJob.state = "queued" /\ ingestJob.attempt < MaxAttempts
    /\ handler[h].step = "idle"
    /\ ingestJob' = [state |-> "running", attempt |-> ingestJob.attempt + 1]
    /\ handler' = [handler EXCEPT ![h] =
                      [NoHandler EXCEPT !.step = "claimed", !.attempt = ingestJob.attempt + 1]]
    /\ UNCHANGED <<source, documents, version, indexJob, resync, promised>>

\* The lease lapses and the job is recovered; its handler goes on.
LeaseLapses ==
    /\ ingestJob.state = "running"
    /\ ingestJob' = [ingestJob EXCEPT !.state = "queued"]
    /\ UNCHANGED <<source, documents, version, indexJob, handler, resync, promised>>

\* The end of an attempt, which the job tables accept from its holder only.
Ends(h, s) ==
    /\ ingestJob' = IF ingestJob.state = "running" /\ ingestJob.attempt = handler[h].attempt
                    THEN [ingestJob EXCEPT !.state = s] ELSE ingestJob
    /\ handler' = [handler EXCEPT ![h] = NoHandler]

\* process_source up to the document: the source is read and parsed, or the
\* job is blocked.
ReadSource(h) ==
    /\ handler[h].step = "claimed"
    /\ \/ /\ Live
          /\ handler' = [handler EXCEPT ![h].step = "read", ![h].read = source]
          /\ UNCHANGED ingestJob
       \/ Ends(h, "blocked")
    /\ UNCHANGED <<source, documents, version, indexJob, resync, promised>>

\* The latest version, if it has the content.
Stored(n, c) ==
    {id \in Range(documents[n]) : id = Last(documents[n]) /\ version[id].content = c}

\* The versions are listed and the latest is reused or the next inserted; then
\* mark_source_synced asks once more for a source that is not deleted: the
\* error of one that is makes the attempt a failure to be retried.
ListVersions(h) ==
    LET n == handler[h].read.name
        stored == Stored(n, handler[h].read.content)
    IN
    /\ handler[h].step = "read"
    /\ IF Live
       THEN /\ handler' = [handler EXCEPT ![h].step = "checked", ![h].base = documents[n],
                                          ![h].id = IF stored = {} THEN 0 ELSE Last(documents[n])]
            /\ UNCHANGED ingestJob
       ELSE Ends(h, "queued")
    /\ UNCHANGED <<source, documents, version, indexJob, resync, promised>>

\* The job of key document-version:<id> after one more enqueue.
EnqueuedIndex(id) == IF Open(indexJob[id]) THEN indexJob[id] ELSE "queued"

\* The next version of the document; the job that indexes it comes in the same
\* transaction.
AddVersion(h, job) ==
    /\ Len(version) < MaxVersions
    /\ documents' = [documents EXCEPT ![handler[h].read.name] = Append(@, Len(version) + 1)]
    /\ version' = Append(version, [content |-> handler[h].read.content, chunks |-> FALSE])
    /\ indexJob' = Append(indexJob, job)

\* The job that indexes the version is enqueued after the commit, by the worker
\* that comes back from the handler.
CommitIngestFault(h) ==
    /\ handler[h].step = "checked"
    /\ handler[h].id # 0 \/ handler[h].base = documents[handler[h].read.name]
    /\ IF handler[h].id # 0
       THEN UNCHANGED <<documents, version, indexJob>>
       ELSE AddVersion(h, "none")
    /\ WritesBack(handler[h].read.content)
    /\ handler' = [handler EXCEPT ![h].step = "done"]
    /\ UNCHANGED <<ingestJob, resync>>

\* The handler commits, whether or not its attempt still holds the job and the
\* source is still there.
CommitIngest(h) ==
    LET id == handler[h].id IN
    /\ handler[h].step = "checked"
    /\ id # 0 \/ handler[h].base = documents[handler[h].read.name]
    /\ IF id # 0
       THEN /\ indexJob' = [indexJob EXCEPT ![id] = EnqueuedIndex(id)]
            /\ UNCHANGED <<documents, version>>
       ELSE AddVersion(h, "queued")
    /\ WritesBack(handler[h].read.content)
    /\ handler' = [handler EXCEPT ![h].step = "done"]
    /\ UNCHANGED <<ingestJob, resync>>

\* The version number was taken, or the document deleted, since the versions
\* were listed: IntegrityError, and the job is blocked.
NumberTaken(h) ==
    /\ handler[h].step = "checked" /\ handler[h].id = 0
    /\ handler[h].base # documents[handler[h].read.name]
    /\ Ends(h, "blocked")
    /\ UNCHANGED <<source, documents, version, indexJob, resync, promised>>

\* The worker completes the job of a handler that returned.
CompleteIngest(h) ==
    /\ handler[h].step = "done"
    /\ Ends(h, "succeeded")
    /\ UNCHANGED <<source, documents, version, indexJob, resync, promised>>

\* Any other error, or a crash, before the commit: retried, or dead-lettered.
IngestFails(h, s) ==
    /\ handler[h].step \in {"claimed", "read", "checked"}
    /\ Ends(h, s)
    /\ UNCHANGED <<source, documents, version, indexJob, resync, promised>>

-----------------------------------------------------------------------------
\* The index job.

\* index_document_version; a version that is gone is an error, retried until
\* the budget of the job is spent.
StartIndex(h, id) ==
    /\ indexJob[id] = "queued" /\ handler[h].step = "idle"
    /\ IF InDocuments(id)
       THEN /\ indexJob' = [indexJob EXCEPT ![id] = "running"]
            /\ handler' = [handler EXCEPT ![h] =
                  [NoHandler EXCEPT !.step = "indexing", !.id = id, !.chunks = version[id].chunks]]
       ELSE /\ indexJob' = [indexJob EXCEPT ![id] = "failed"]
            /\ UNCHANGED handler
    /\ UNCHANGED <<source, documents, version, ingestJob, resync, promised>>

\* The chunks with their summaries and both embeddings, in one transaction:
\* chunks that were there are kept, a second writer of the same ordinals or a
\* version that went away meanwhile fails.
CommitIndex(h) ==
    LET id == handler[h].id IN
    /\ handler[h].step = "indexing"
    /\ IF InDocuments(id) /\ version[id].chunks = handler[h].chunks
       THEN /\ version' = [version EXCEPT ![id].chunks = TRUE]
            /\ indexJob' = [indexJob EXCEPT ![id] = IF @ = "running" THEN "succeeded" ELSE @]
       ELSE /\ indexJob' = [indexJob EXCEPT ![id] = IF @ = "running" THEN "queued" ELSE @]
            /\ UNCHANGED version
    /\ handler' = [handler EXCEPT ![h] = NoHandler]
    /\ UNCHANGED <<source, documents, ingestJob, resync, promised>>

IndexFails(h, s) ==
    /\ handler[h].step = "indexing"
    /\ indexJob' = [indexJob EXCEPT ![handler[h].id] = IF @ = "running" THEN s ELSE @]
    /\ handler' = [handler EXCEPT ![h] = NoHandler]
    /\ UNCHANGED <<source, documents, version, ingestJob, resync, promised>>

IndexLeaseLapses(id) ==
    /\ indexJob[id] = "running"
    /\ indexJob' = [indexJob EXCEPT ![id] = "queued"]
    /\ UNCHANGED <<source, documents, version, ingestJob, handler, resync, promised>>

-----------------------------------------------------------------------------
Authoring ==
    \/ \E c \in Contents : CreateSource(c) \/ (\E n \in ExternalIds : UpdateSource(c, n))
    \/ SoftDeleteSource \/ EnqueueIngestion \/ BeginResync \/ FinishResync

IngestJob ==
    \/ LeaseLapses
    \/ \E h \in Handlers :
          \/ ClaimIngest(h) \/ ReadSource(h) \/ ListVersions(h) \/ CommitIngest(h)
          \/ NumberTaken(h) \/ CompleteIngest(h)
          \/ \E s \in {"queued", "failed"} : IngestFails(h, s)

IndexJob ==
    \/ \E id \in DOMAIN version : IndexLeaseLapses(id) \/ (\E h \in Handlers : StartIndex(h, id))
    \/ \E h \in Handlers :
          CommitIndex(h) \/ (\E s \in {"queued", "failed"} : IndexFails(h, s))

IngestionNext == Authoring \/ IngestJob \/ IndexJob

IngestionSpec == IngestionInit /\ [][IngestionNext]_ingestionVars

-----------------------------------------------------------------------------
\* Whatever the handlers of lapsed leases commit, no document has two
\* successive versions of the same content.
VersionsDiffer ==
    \A n \in ExternalIds : \A i \in 1..(Len(documents[n]) - 1) :
        version[documents[n][i]].content # version[documents[n][i + 1]].content

\* A version without chunks has an index job that is open or that failed: no
\* crash comes between a version and its way to the index.
NothingForgotten ==
    \A id \in DOMAIN version :
        InDocuments(id) /\ ~version[id].chunks => indexJob[id] \in {"queued", "running", "failed"}

\* An ingest that was enqueued after the last edit and succeeded leaves that
\* content as the latest version, unless the enqueue was answered by a job that
\* was running already or an older read was written back over the edit: these
\* two are the ways to lose an edit, and the only ones.
PromiseKept ==
    ingestJob.state = "succeeded" /\ promised # NoPromise =>
        LatestContent(promised.name) = promised.content

\* However edits, resyncs and handlers overlap or crash: no version twice, none
\* without its way to the index, and the content that was promised is the latest.
ContentArrives ==
    /\ VersionsDiffer
    /\ NothingForgotten
    /\ PromiseKept

=============================================================================
