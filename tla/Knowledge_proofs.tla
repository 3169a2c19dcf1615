-------------------------- MODULE Knowledge_proofs --------------------------
(* Proofs about Ingestion, for any contents, names of the source and          *)
(* handlers, about GraphProjection, for any chunks, watermarks and limit of a *)
(* search, about ChunkIndexing, for any runs, models and sizes, about         *)
(* Retrieval, for any chunks and limits, and about Chunking, for any texts    *)
(* and configurations: parts which share nothing here, and at the end         *)
(* together.                                                                  *)
EXTENDS MCKnowledge, FiniteSetTheorems, SequenceTheorems, WellFoundedInduction, TLAPS

-----------------------------------------------------------------------------
(* Ingestion: the invariant                                                  *)

\* What a handler has read of the source, and listed of its document.  The
\* versions it listed last have another content, or it reuses their last.
HandlerFits(h) ==
    /\ handler[h].attempt <= ingestJob.attempt
    /\ handler[h].id \in 0..Len(version)
    /\ handler[h].step \in {"read", "checked", "done"} => handler[h].read.content \in Contents
    /\ handler[h].step = "indexing" => handler[h].id # 0
    /\ handler[h].step = "checked" /\ handler[h].id = 0 =>
           LET base == handler[h].base IN
           /\ base \in Seq(1..Len(version))
           /\ base # <<>> => version[Last(base)].content # handler[h].read.content

\* What was promised is what the source has now, and the job that runs has read it.
PromiseIsSource ==
    promised # NoPromise => promised = source /\ Live

Latest == \A n \in ExternalIds : n = source.name => LatestContent(n) = source.content

\* The handler that holds the running job.
Current(h) ==
    /\ ingestJob.state = "running" /\ handler[h].attempt = ingestJob.attempt
    /\ handler[h].step \in {"read", "checked", "done"}

\* It read what was promised, and where it finds a version to reuse, or has
\* committed one, that is the latest.
CurrentReads(h) ==
    Current(h) /\ promised # NoPromise =>
        /\ handler[h].read = source
        /\ handler[h].step = "done" \/ (handler[h].step = "checked" /\ handler[h].id # 0) => Latest

SourcesFit ==
    /\ Live => source.content \in Contents
    /\ ingestJob.state = "succeeded" /\ promised # NoPromise => Latest

\* The inductive invariant of the ingestion.
IngestionInv ==
    /\ IngestionTypeOK
    /\ VersionsDiffer
    /\ NothingForgotten
    /\ PromiseIsSource
    /\ SourcesFit
    /\ \A h \in Handlers : HandlerFits(h) /\ CurrentReads(h)


LEMMA IngestionInvImplies == IngestionInv => ContentArrives
<1> SUFFICES ASSUME IngestionInv PROVE ContentArrives
    OBVIOUS
<1>1. PromiseKept
  <2> SUFFICES ASSUME ingestJob.state = "succeeded", promised # NoPromise
               PROVE  LatestContent(promised.name) = promised.content
      BY DEF PromiseKept
  <2>1. promised = source /\ source.name \in ExternalIds /\ Latest
        BY DEF IngestionInv, PromiseIsSource, SourcesFit, IngestionTypeOK, Source
  <2> QED BY <2>1 DEF Latest
<1> QED BY <1>1 DEF IngestionInv, ContentArrives

-----------------------------------------------------------------------------
(* What the steps have in common                                             *)

LEMMA WiderSeq ==
    ASSUME NEW S, NEW T, \A x \in S : x \in T, NEW s \in Seq(S)
    PROVE  s \in Seq(T)
<1>1. Len(s) \in Nat /\ s \in [1..Len(s) -> S]
      OBVIOUS
<1>2. s \in [1..Len(s) -> T]
      BY <1>1
<1> QED BY <1>1, <1>2

LEMMA LastOfSeq ==
    ASSUME NEW S, NEW s \in Seq(S), s # <<>>
    PROVE  Len(s) \in Nat /\ Len(s) \in 1..Len(s) /\ Last(s) = s[Len(s)] /\ Last(s) \in S
BY DEF Last

\* Indices of a sequence are indices of a longer one.
LEMMA WiderIndices ==
    ASSUME NEW n \in Nat, NEW s \in Seq(1..n)
    PROVE  s \in Seq(1..(n + 1))
<1>1. \A x \in 1..n : x \in 1..(n + 1)
      OBVIOUS
<1> QED BY <1>1, WiderSeq

LEMMA Nothings ==
    /\ NoSource \in Source /\ NoSource.state = "absent"
    /\ NoHandler \in Handler /\ NoHandler.step = "idle" /\ NoHandler.attempt = 0
    /\ NoHandler.id = 0
<1>1. NoSource \in Source /\ NoSource.state = "absent"
      BY IngestionAssumption DEF NoSource, Source, MaybeContent
<1>2. <<>> \in Seq(1..MaxVersions) /\ 0 \in 0..MaxAttempts /\ 0 \in 0..MaxVersions
      BY IngestionAssumption
<1> QED BY <1>1, <1>2 DEF NoHandler, Handler

\* The row of a handler is replaced by another of the type.
LEMMA HandlerRows ==
    ASSUME IngestionInv, NEW h \in Handlers, NEW r \in Handler,
           handler' = [handler EXCEPT ![h] = r]
    PROVE  /\ handler' \in [Handlers -> Handler]
           /\ \A g \in Handlers : handler'[g] = IF g = h THEN r ELSE handler[g]
BY DEF IngestionInv, IngestionTypeOK

\* The parts of the type, for the steps that leave most of them alone.
LEMMA IngestionTypes ==
    ASSUME IngestionInv
    PROVE  /\ source \in Source /\ resync \in MaybeContent /\ promised \in Source
           /\ documents \in [ExternalIds -> Seq(1..Len(version))]
           /\ version \in Seq(Version) /\ Len(version) \in Nat /\ Len(version) <= MaxVersions
           /\ ingestJob \in [state : JobStates, attempt : 0..MaxAttempts]
           /\ indexJob \in Seq(JobStates) /\ Len(indexJob) = Len(version)
           /\ handler \in [Handlers -> Handler]
           /\ \A n \in ExternalIds : documents[n] # <<>> => Last(documents[n]) \in 1..Len(version)
<1>1. /\ source \in Source /\ resync \in MaybeContent /\ promised \in Source
      /\ documents \in [ExternalIds -> Seq(1..Len(version))]
      /\ version \in Seq(Version) /\ Len(version) <= MaxVersions
      /\ ingestJob \in [state : JobStates, attempt : 0..MaxAttempts]
      /\ indexJob \in Seq(JobStates) /\ Len(indexJob) = Len(version)
      /\ handler \in [Handlers -> Handler]
      BY DEF IngestionInv, IngestionTypeOK
<1>2. Len(version) \in Nat
      BY <1>1
<1>3. ASSUME NEW n \in ExternalIds, documents[n] # <<>>
      PROVE  Last(documents[n]) \in 1..Len(version)
  <2>1. documents[n] \in Seq(1..Len(version))
        BY <1>1
  <2> QED BY <1>3, <2>1 DEF Last
<1> QED BY <1>1, <1>2, <1>3

\* Documents and the contents of their versions stay.
LEMMA VersionsStay ==
    ASSUME IngestionInv, UNCHANGED documents, version' \in Seq(Version),
           Len(version') = Len(version),
           \A id \in 1..Len(version) : version'[id].content = version[id].content
    PROVE  /\ VersionsDiffer'
           /\ \A n \in ExternalIds : LatestContent(n)' = LatestContent(n)
<1>1. VersionsDiffer'
  <2> SUFFICES ASSUME NEW n \in ExternalIds, NEW i \in 1..(Len(documents[n]) - 1)
               PROVE  version'[documents[n][i]].content # version'[documents[n][i + 1]].content
      BY DEF VersionsDiffer
  <2>1. documents[n] \in Seq(1..Len(version))
        BY IngestionTypes
  <2>2. documents[n][i] \in 1..Len(version) /\ documents[n][i + 1] \in 1..Len(version)
        BY <2>1
  <2>3. version[documents[n][i]].content # version[documents[n][i + 1]].content
        BY DEF IngestionInv, VersionsDiffer
  <2> QED BY <2>2, <2>3
<1>2. ASSUME NEW n \in ExternalIds PROVE LatestContent(n)' = LatestContent(n)
      BY IngestionTypes DEF LatestContent
<1> QED BY <1>1, <1>2

\* A step of the source and of its job alone.
LEMMA SourceStepInv ==
    ASSUME IngestionInv, UNCHANGED <<documents, version, indexJob, handler>>,
           source' \in Source, Live' => source'.content \in Contents,
           resync' \in MaybeContent, promised' \in Source,
           ingestJob' \in [state : JobStates, attempt : 0..MaxAttempts],
           ingestJob'.attempt = ingestJob.attempt,
           promised' # NoPromise => promised' = source' /\ Live',
           \/ promised' = NoPromise
           \/ ingestJob'.state = "queued"
           \/ UNCHANGED <<source, promised, ingestJob>>
    PROVE  IngestionInv'
<1>1. IngestionTypeOK'
      BY DEF IngestionInv, IngestionTypeOK
<1>2. VersionsDiffer' /\ \A n \in ExternalIds : LatestContent(n)' = LatestContent(n)
      BY IngestionTypes, VersionsStay
<1>3. NothingForgotten'
      BY DEF IngestionInv, NothingForgotten, InDocuments
<1>4. PromiseIsSource'
      BY DEF PromiseIsSource
<1>5. UNCHANGED source => (Latest => Latest')
      BY <1>2 DEF Latest
<1>6. SourcesFit'
      BY <1>5 DEF IngestionInv, SourcesFit
<1>7. ASSUME NEW h \in Handlers PROVE HandlerFits(h)' /\ CurrentReads(h)'
  <2>1. HandlerFits(h) /\ CurrentReads(h)
        BY DEF IngestionInv
  <2>2. HandlerFits(h)'
        BY <2>1 DEF HandlerFits
  <2>3. CurrentReads(h)'
        BY <1>5, <2>1 DEF CurrentReads, Current
  <2> QED BY <2>2, <2>3
<1> QED BY <1>1, <1>2, <1>3, <1>4, <1>6, <1>7 DEF IngestionInv

\* What a handler's next row has to agree with.
RowFits(r) ==
    /\ r.attempt <= ingestJob'.attempt /\ r.id \in 0..Len(version)
    /\ r.step \in {"read", "checked", "done"} => r.read.content \in Contents
    /\ r.step = "indexing" => r.id # 0
    /\ r.step = "checked" /\ r.id = 0 =>
           /\ r.base \in Seq(1..Len(version))
           /\ r.base # <<>> => version[Last(r.base)].content # r.read.content
    /\ (/\ ingestJob'.state = "running" /\ r.attempt = ingestJob'.attempt
        /\ r.step \in {"read", "checked", "done"}
        /\ promised # NoPromise) =>
           /\ r.read = source
           /\ r.step = "done" \/ (r.step = "checked" /\ r.id # 0) => Latest

\* A handler leaves the job alone, ends it or claims it.
JobMoves(h, r) ==
    /\ ingestJob' \in [state : JobStates, attempt : 0..MaxAttempts]
    /\ \/ ingestJob' = ingestJob
       \/ ingestJob'.attempt = ingestJob.attempt /\ ingestJob'.state # "running"
       \/ /\ ingestJob'.attempt = ingestJob.attempt + 1 /\ ingestJob'.state = "running"
          /\ r.step = "claimed"
    /\ ingestJob'.state = "succeeded" /\ ingestJob.state # "succeeded" =>
           Current(h) /\ handler[h].step = "done"

\* A step of one handler that changes neither documents nor what was promised.
LEMMA HandlerStepInv ==
    ASSUME IngestionInv, NEW h \in Handlers, NEW r \in Handler,
           handler' = [handler EXCEPT ![h] = r],
           UNCHANGED <<source, documents, resync, promised>>,
           version' \in Seq(Version), Len(version') = Len(version),
           \A id \in 1..Len(version) : version'[id].content = version[id].content,
           indexJob' \in Seq(JobStates), Len(indexJob') = Len(version), NothingForgotten',
           JobMoves(h, r), RowFits(r)
    PROVE  IngestionInv'
<1>1. /\ handler' \in [Handlers -> Handler]
      /\ \A g \in Handlers : handler'[g] = IF g = h THEN r ELSE handler[g]
      BY HandlerRows
<1>2. IngestionTypeOK'
      BY <1>1 DEF IngestionInv, IngestionTypeOK, JobMoves
<1>3. VersionsDiffer' /\ \A n \in ExternalIds : LatestContent(n)' = LatestContent(n)
      BY VersionsStay
<1>4. Latest => Latest'
      BY <1>3 DEF Latest
<1>5. PromiseIsSource' /\ UNCHANGED Live
      BY DEF IngestionInv, PromiseIsSource, Live
<1>6. SourcesFit'
  <2>1. ingestJob'.state = "succeeded" /\ promised # NoPromise => Latest
        BY DEF IngestionInv, SourcesFit, CurrentReads, JobMoves
  <2> QED BY <1>4, <1>5, <2>1 DEF IngestionInv, SourcesFit
<1>7. ASSUME NEW g \in Handlers PROVE HandlerFits(g)' /\ CurrentReads(g)'
  <2>1. CASE g = h
    <3>1. handler'[g] = r
          BY <1>1, <2>1
    <3>2. r.step = "checked" /\ r.id = 0 /\ r.base # <<>> =>
              version'[Last(r.base)].content # r.read.content
          BY IngestionTypes DEF RowFits, Last
    <3>3. HandlerFits(g)'
          BY <3>1, <3>2 DEF HandlerFits, RowFits
    <3>4. CurrentReads(g)'
          BY <1>4, <3>1 DEF CurrentReads, Current, RowFits
    <3> QED BY <3>3, <3>4
  <2>2. CASE g # h
    <3>1. handler'[g] = handler[g] /\ HandlerFits(g) /\ CurrentReads(g)
          BY <1>1, <2>2 DEF IngestionInv
    <3>2. handler[g].step = "checked" /\ handler[g].id = 0 /\ handler[g].base # <<>> =>
              version'[Last(handler[g].base)].content # handler[g].read.content
          BY <3>1, IngestionTypes DEF HandlerFits, Last
    <3>3. /\ handler[g].attempt \in Nat /\ ingestJob.attempt \in Nat /\ ingestJob'.attempt \in Nat
          BY IngestionTypes, IngestionAssumption DEF Handler, JobMoves
    <3>4. HandlerFits(g)'
          BY <3>1, <3>2, <3>3 DEF HandlerFits, JobMoves
    <3>5. Current(g)' => Current(g)
          BY <3>1, <3>3 DEF Current, HandlerFits, JobMoves
    <3>6. CurrentReads(g)'
          BY <1>4, <3>1, <3>5 DEF CurrentReads
    <3> QED BY <3>4, <3>6
  <2> QED BY <2>1, <2>2
<1> QED BY <1>2, <1>3, <1>5, <1>6, <1>7 DEF IngestionInv

\* The same for a step that leaves versions and their jobs alone.
LEMMA IngestStepInv ==
    ASSUME IngestionInv, NEW h \in Handlers, NEW r \in Handler,
           handler' = [handler EXCEPT ![h] = r],
           UNCHANGED <<source, documents, version, indexJob, resync, promised>>,
           JobMoves(h, r), RowFits(r)
    PROVE  IngestionInv'
<1>1. NothingForgotten'
      BY DEF IngestionInv, NothingForgotten, InDocuments
<1>2. /\ version \in Seq(Version) /\ indexJob \in Seq(JobStates) /\ Len(indexJob) = Len(version)
      /\ UNCHANGED <<version, indexJob>>
      BY IngestionTypes
<1>3. \A id \in 1..Len(version) : version'[id].content = version[id].content
      BY <1>2
<1> QED BY <1>1, <1>2, <1>3, HandlerStepInv

-----------------------------------------------------------------------------
(* Authoring                                                                 *)

\* A live source is a promise of its own.
LEMMA LiveIsSource == Live => source # NoPromise
BY Nothings DEF Live, NoPromise

\* Metadata written back, as they are or over an edit.
LEMMA WritesBackFacts ==
    ASSUME IngestionInv, NEW c \in Contents, WritesBack(c)
    PROVE  /\ source' \in Source /\ (Live' <=> Live) /\ (Live' => source'.content \in Contents)
           /\ source'.name = source.name /\ promised' \in Source
           /\ UNCHANGED <<source, promised>> \/ promised' = NoPromise
           /\ promised' # NoPromise => promised' = source' /\ Live' /\ c = source.content
<1>1. source \in Source /\ promised \in Source /\ source' = [source EXCEPT !.content = c]
      BY IngestionTypes DEF WritesBack
<1>2. /\ source' \in Source /\ source'.content = c /\ source'.state = source.state
      /\ source'.name = source.name
      BY <1>1 DEF Source, MaybeContent
<1>3. CASE c = source.content
  <2>1. source' = source
        BY <1>1, <1>3 DEF Source
  <2>2. promised' = promised
        BY <1>3 DEF WritesBack
  <2> QED BY <1>1, <1>2, <1>3, <2>1, <2>2 DEF Live, IngestionInv, PromiseIsSource
<1>4. CASE c # source.content
      BY <1>2, <1>4, Nothings DEF WritesBack, Live, NoPromise
<1> QED BY <1>3, <1>4

LEMMA EditInv ==
    ASSUME IngestionInv, source' \in Source, Live', source'.content \in Contents,
           promised' = PromiseAfter(source'),
           UNCHANGED <<documents, version, ingestJob, indexJob, handler, resync>>
    PROVE  IngestionInv'
<1>1. /\ ingestJob \in [state : JobStates, attempt : 0..MaxAttempts]
      /\ resync \in MaybeContent
      BY IngestionTypes
<1>2. promised' \in Source /\ (promised' # NoPromise => promised' = source')
      BY Nothings DEF PromiseAfter, NoPromise
<1>3. promised' = NoPromise \/ ingestJob'.state = "queued"
      BY DEF PromiseAfter
<1> QED BY <1>1, <1>2, <1>3, SourceStepInv

LEMMA CreateSourceInv ==
    ASSUME IngestionInv, NEW c \in Contents, CreateSource(c) PROVE IngestionInv'
<1>1. source \in Source /\ source' = [source EXCEPT !.state = "live", !.content = c]
      BY IngestionTypes DEF CreateSource
<1>2. source' \in Source /\ source'.state = "live" /\ source'.content = c
      BY <1>1 DEF Source, MaybeContent
<1> QED BY <1>2, EditInv DEF CreateSource, Live

LEMMA UpdateSourceInv ==
    ASSUME IngestionInv, NEW c \in Contents, NEW n \in ExternalIds, UpdateSource(c, n)
    PROVE  IngestionInv'
<1>1. /\ source \in Source /\ source.state = "live"
      /\ source' = [source EXCEPT !.content = c, !.name = n]
      BY IngestionTypes DEF UpdateSource, Live
<1>2. source' \in Source /\ source'.state = "live" /\ source'.content = c
      BY <1>1 DEF Source, MaybeContent
<1> QED BY <1>2, EditInv DEF UpdateSource, Live

LEMMA SoftDeleteInv == ASSUME IngestionInv, SoftDeleteSource PROVE IngestionInv'
<1>1. /\ source' = [source EXCEPT !.state = "deleted"] /\ promised' = NoPromise
      /\ documents' = [n \in ExternalIds |-> <<>>]
      /\ UNCHANGED <<version, ingestJob, indexJob, handler, resync>>
      BY DEF SoftDeleteSource
<1>2. source' \in Source /\ source'.state = "deleted"
      BY <1>1, IngestionTypes DEF Source
<1>3. IngestionTypeOK'
  <2>1. promised' \in Source
        BY <1>1, Nothings DEF NoPromise
  <2>2. documents' \in [ExternalIds -> Seq(1..Len(version))]
        BY <1>1
  <2> QED BY <1>1, <1>2, <2>1, <2>2 DEF IngestionInv, IngestionTypeOK
<1>4. VersionsDiffer' /\ NothingForgotten'
  <2>1. \A n \in ExternalIds : documents'[n] = <<>>
        BY <1>1
  <2> QED BY <2>1 DEF VersionsDiffer, NothingForgotten, InDocuments, Range
<1>5. PromiseIsSource' /\ SourcesFit'
      BY <1>1, <1>2 DEF PromiseIsSource, SourcesFit, Live, NoPromise
<1>6. ASSUME NEW h \in Handlers PROVE HandlerFits(h)' /\ CurrentReads(h)'
  <2>1. HandlerFits(h)
        BY DEF IngestionInv
  <2> QED BY <1>1, <2>1 DEF HandlerFits, CurrentReads, NoPromise
<1> QED BY <1>3, <1>4, <1>5, <1>6 DEF IngestionInv

LEMMA EnqueuedInv ==
    ASSUME IngestionInv, Live, Enqueued, resync' \in MaybeContent,
           UNCHANGED <<source, documents, version, indexJob, handler>>
    PROVE  IngestionInv'
<1>1. /\ source \in Source /\ source.content \in Contents /\ Live'
      /\ ingestJob \in [state : JobStates, attempt : 0..MaxAttempts]
      BY IngestionTypes DEF IngestionInv, SourcesFit, Live
<1>2. /\ promised' = NoPromise \/ promised' = source
      /\ ingestJob.state = "running" => promised' = NoPromise
      /\ promised' \in Source
      BY <1>1, Nothings DEF Enqueued, NoPromise
<1>3. /\ ingestJob' \in [state : JobStates, attempt : 0..MaxAttempts]
      /\ ingestJob'.attempt = ingestJob.attempt
      /\ ingestJob.state # "running" => ingestJob'.state = "queued"
      BY <1>1 DEF Enqueued, Open, JobStates
<1> QED BY <1>1, <1>2, <1>3, SourceStepInv

LEMMA FinishResyncInv == ASSUME IngestionInv, FinishResync PROVE IngestionInv'
<1>1. /\ resync \in Contents /\ NoContent \in MaybeContent /\ resync' = NoContent
      /\ UNCHANGED <<documents, version, ingestJob, indexJob, handler>>
      BY IngestionTypes DEF FinishResync, MaybeContent
<1>2. /\ source' \in Source /\ (Live' => source'.content \in Contents) /\ promised' \in Source
      /\ UNCHANGED <<source, promised>> \/ promised' = NoPromise
      /\ promised' # NoPromise => promised' = source' /\ Live'
  <2>1. CASE Live
        BY <1>1, <2>1, WritesBackFacts DEF FinishResync
  <2>2. CASE ~Live
    <3>1. UNCHANGED <<source, promised>>
          BY <2>2 DEF FinishResync
    <3> QED BY <2>2, <3>1, IngestionTypes DEF IngestionInv, PromiseIsSource, Live
  <2> QED BY <2>1, <2>2
<1> QED BY <1>1, <1>2, IngestionTypes, SourceStepInv

LEMMA AuthoringInv == ASSUME IngestionInv, Authoring PROVE IngestionInv'
<1>1. ASSUME EnqueueIngestion PROVE IngestionInv'
      BY <1>1, EnqueuedInv, IngestionTypes DEF EnqueueIngestion
<1>2. ASSUME BeginResync PROVE IngestionInv'
      BY <1>2, EnqueuedInv, IngestionTypes DEF BeginResync, Source
<1> QED BY <1>1, <1>2, CreateSourceInv, UpdateSourceInv, SoftDeleteInv, FinishResyncInv DEF Authoring

-----------------------------------------------------------------------------
(* The ingest job                                                            *)

LEMMA LeaseLapsesInv == ASSUME IngestionInv, LeaseLapses PROVE IngestionInv'
<1>1. /\ ingestJob' \in [state : JobStates, attempt : 0..MaxAttempts]
      /\ ingestJob'.attempt = ingestJob.attempt /\ ingestJob'.state = "queued"
      BY IngestionTypes DEF LeaseLapses, JobStates
<1>2. /\ source \in Source /\ promised \in Source /\ resync \in MaybeContent
      /\ Live => source.content \in Contents
      /\ promised # NoPromise => promised = source /\ Live
      BY IngestionTypes DEF IngestionInv, SourcesFit, PromiseIsSource
<1>3. UNCHANGED <<source, documents, version, indexJob, handler, resync, promised>>
      BY DEF LeaseLapses
<1>4. Live' <=> Live
      BY <1>3 DEF Live
<1> QED BY <1>1, <1>2, <1>3, <1>4, SourceStepInv

LEMMA ClaimIngestInv ==
    ASSUME IngestionInv, NEW h \in Handlers, ClaimIngest(h) PROVE IngestionInv'
<1> DEFINE a == ingestJob.attempt + 1
           r == [NoHandler EXCEPT !.step = "claimed", !.attempt = a]
<1>1. /\ a \in 0..MaxAttempts /\ ingestJob' = [state |-> "running", attempt |-> a]
      /\ handler' = [handler EXCEPT ![h] = r]
      /\ UNCHANGED <<source, documents, version, indexJob, resync, promised>>
      BY IngestionTypes, IngestionAssumption DEF ClaimIngest
<1>2. r \in Handler /\ r.step = "claimed" /\ r.attempt = a /\ r.id = 0
      BY <1>1, Nothings DEF Handler
<1>3. /\ ingestJob' \in [state : JobStates, attempt : 0..MaxAttempts]
      /\ ingestJob'.attempt = a /\ ingestJob'.state = "running"
      BY <1>1 DEF JobStates
<1> HIDE DEF r
<1>4. JobMoves(h, r) /\ RowFits(r)
      BY <1>2, <1>3, IngestionTypes, IngestionAssumption DEF JobMoves, RowFits
<1> QED BY <1>1, <1>2, <1>4, IngestStepInv

\* The end of an attempt, by a handler that still has something to do.
LEMMA EndsInv ==
    ASSUME IngestionInv, NEW h \in Handlers, NEW s \in JobStates \ {"running"}, Ends(h, s),
           handler[h].step \in {"claimed", "read", "checked", "done"},
           s = "succeeded" => handler[h].step = "done",
           UNCHANGED <<source, documents, version, indexJob, resync, promised>>
    PROVE  IngestionInv'
<1>1. /\ NoHandler \in Handler /\ NoHandler.step = "idle" /\ NoHandler.attempt = 0
      /\ NoHandler.id = 0
      BY Nothings
<1>2. /\ ingestJob \in [state : JobStates, attempt : 0..MaxAttempts] /\ ingestJob.attempt \in Nat
      BY IngestionTypes, IngestionAssumption
<1>3. handler' = [handler EXCEPT ![h] = NoHandler]
      BY DEF Ends
<1>4. JobMoves(h, NoHandler)
  <2>1. CASE ingestJob.state = "running" /\ ingestJob.attempt = handler[h].attempt
    <3>1. /\ ingestJob' \in [state : JobStates, attempt : 0..MaxAttempts]
          /\ ingestJob'.attempt = ingestJob.attempt /\ ingestJob'.state = s
          BY <1>2, <2>1 DEF Ends
    <3>2. s = "succeeded" => Current(h) /\ handler[h].step = "done"
          BY <2>1 DEF Current
    <3> QED BY <3>1, <3>2 DEF JobMoves
  <2>2. CASE ~(ingestJob.state = "running" /\ ingestJob.attempt = handler[h].attempt)
    <3>1. ingestJob' = ingestJob
          BY <2>2 DEF Ends
    <3> QED BY <1>2, <3>1 DEF JobMoves
  <2> QED BY <2>1, <2>2
<1>5. RowFits(NoHandler)
  <2>1. ingestJob'.attempt \in Nat
        BY <1>4, IngestionAssumption DEF JobMoves
  <2> QED BY <1>1, <2>1, IngestionTypes DEF RowFits
<1> QED BY <1>1, <1>3, <1>4, <1>5, IngestStepInv

LEMMA ReadSourceInv ==
    ASSUME IngestionInv, NEW h \in Handlers, ReadSource(h) PROVE IngestionInv'
<1>1. handler[h].step = "claimed" /\ UNCHANGED <<source, documents, version, indexJob, resync, promised>>
      BY DEF ReadSource
<1>2. ASSUME Live, handler' = [handler EXCEPT ![h].step = "read", ![h].read = source],
             UNCHANGED ingestJob
      PROVE  IngestionInv'
  <2> DEFINE r == [handler[h] EXCEPT !.step = "read", !.read = source]
  <2>1. handler[h] \in Handler /\ source \in Source /\ source.content \in Contents
        BY <1>2, IngestionTypes DEF IngestionInv, SourcesFit
  <2>2. handler' = [handler EXCEPT ![h] = r]
        BY <1>2, IngestionTypes
  <2>3. /\ r \in Handler /\ r.step = "read" /\ r.read = source /\ r.id = handler[h].id
        /\ r.attempt = handler[h].attempt
        BY <2>1 DEF Handler
  <2> HIDE DEF r
  <2>4. HandlerFits(h)
        BY DEF IngestionInv
  <2>5. JobMoves(h, r) /\ RowFits(r)
        BY <1>2, <2>1, <2>3, <2>4, IngestionTypes DEF JobMoves, RowFits, HandlerFits
  <2> QED BY <1>1, <2>2, <2>3, <2>5, IngestStepInv
<1>3. ASSUME Ends(h, "blocked") PROVE IngestionInv'
      BY <1>1, <1>3, EndsInv DEF JobStates
<1> QED BY <1>2, <1>3 DEF ReadSource

LEMMA ListVersionsInv ==
    ASSUME IngestionInv, NEW h \in Handlers, ListVersions(h) PROVE IngestionInv'
<1> DEFINE n == handler[h].read.name
           c == handler[h].read.content
           base == documents[n]
           i == IF Stored(n, c) = {} THEN 0 ELSE Last(base)
           r == [handler[h] EXCEPT !.step = "checked", !.base = base, !.id = i]
<1>1. /\ handler[h].step = "read"
      /\ UNCHANGED <<source, documents, version, indexJob, resync, promised>>
      BY DEF ListVersions
<1>2. CASE Live
  <2>1. handler[h] \in Handler /\ n \in ExternalIds /\ HandlerFits(h) /\ CurrentReads(h)
        BY IngestionTypes DEF IngestionInv, Handler, Source
  <2>2. c \in Contents
        BY <1>1, <2>1 DEF HandlerFits
  <2>3. base \in Seq(1..Len(version)) /\ (base # <<>> => Last(base) \in 1..Len(version))
        BY <2>1, IngestionTypes
  <2>4. base \in Seq(1..MaxVersions)
    <3>1. Len(version) \in Nat /\ Len(version) <= MaxVersions /\ MaxVersions \in Nat
          BY IngestionTypes, IngestionAssumption
    <3>2. \A k \in 1..Len(version) : k \in 1..MaxVersions
          BY <3>1
    <3> HIDE DEF base
    <3> QED BY <2>3, <3>2, WiderSeq
  <2>5. base # <<>> => Last(base) \in Range(base)
        BY <2>3 DEF Last, Range
  <2>6. /\ i \in 0..Len(version) /\ i \in 0..MaxVersions
        /\ i = 0 /\ base # <<>> => version[Last(base)].content # c
        /\ i # 0 => LatestContent(n) = c
    <3>1. CASE Stored(n, c) = {}
          BY <2>5, <3>1, IngestionTypes, IngestionAssumption DEF Stored
    <3>2. CASE Stored(n, c) # {}
      <4>1. PICK id \in Range(base) : id = Last(base) /\ version[id].content = c
            BY <3>2 DEF Stored
      <4>2. base # <<>>
            BY <4>1 DEF Range
      <4> QED BY <2>3, <3>2, <4>1, <4>2, IngestionTypes, IngestionAssumption DEF LatestContent
    <3> QED BY <3>1, <3>2
  <2>7. handler' = [handler EXCEPT ![h] = r] /\ UNCHANGED ingestJob
    <3>1. handler' = [handler EXCEPT ![h].step = "checked", ![h].base = base, ![h].id = i]
          BY <1>2 DEF ListVersions
    <3> HIDE DEF i, base
    <3> QED BY <1>2, <3>1, IngestionTypes DEF ListVersions
  <2> HIDE DEF i, base
  <2>8. /\ r \in Handler /\ r.step = "checked" /\ r.base = base /\ r.id = i
        /\ r.read = handler[h].read /\ r.attempt = handler[h].attempt
        BY <2>1, <2>4, <2>6 DEF Handler
  <2> HIDE DEF r
  <2>9. (/\ ingestJob'.state = "running" /\ r.attempt = ingestJob'.attempt
         /\ promised # NoPromise)
        => r.read = source /\ (r.id # 0 => Latest)
    <3>1. (/\ ingestJob'.state = "running" /\ r.attempt = ingestJob'.attempt
           /\ promised # NoPromise)
          => handler[h].read = source
          BY <1>1, <2>1, <2>7, <2>8 DEF CurrentReads, Current
    <3>2. handler[h].read = source /\ i # 0 => Latest
          BY <2>6 DEF Latest
    <3> QED BY <2>8, <3>1, <3>2
  <2>10. JobMoves(h, r)
         BY <2>7, IngestionTypes DEF JobMoves
  <2>11. RowFits(r)
         BY <2>1, <2>2, <2>3, <2>6, <2>7, <2>8, <2>9 DEF RowFits, HandlerFits
  <2> QED BY <1>1, <2>7, <2>8, <2>10, <2>11, IngestStepInv
<1>3. CASE ~Live
      BY <1>1, <1>3, EndsInv DEF ListVersions, JobStates
<1> QED BY <1>2, <1>3

\* A version is reused: its index job is enqueued once more.
LEMMA ReusesInv ==
    ASSUME IngestionInv, NEW h \in Handlers, CommitIngest(h), handler[h].id # 0
    PROVE  IngestionInv'
<1> DEFINE id == handler[h].id
           c == handler[h].read.content
           r == [handler[h] EXCEPT !.step = "done"]
<1>1. /\ handler[h] \in Handler /\ HandlerFits(h) /\ CurrentReads(h)
      /\ indexJob \in Seq(JobStates) /\ Len(indexJob) = Len(version) /\ Len(version) \in Nat
      BY IngestionTypes DEF IngestionInv
<1>2. /\ handler[h].step = "checked" /\ WritesBack(c)
      /\ indexJob' = [indexJob EXCEPT ![id] = EnqueuedIndex(id)]
      /\ UNCHANGED <<documents, version, ingestJob, resync>>
      /\ handler' = [handler EXCEPT ![h] = r]
      BY IngestionTypes DEF CommitIngest
<1>3. c \in Contents /\ id \in 1..Len(version)
      BY <1>1, <1>2 DEF HandlerFits
<1>4. /\ source' \in Source /\ (Live' <=> Live) /\ (Live' => source'.content \in Contents)
      /\ promised' \in Source
      /\ UNCHANGED <<source, promised>> \/ promised' = NoPromise
      /\ promised' # NoPromise => promised' = source' /\ Live'
      BY <1>2, <1>3, WritesBackFacts
<1>5. /\ r \in Handler /\ r.step = "done" /\ r.read = handler[h].read
      /\ r.attempt = handler[h].attempt /\ r.id = id
      BY <1>1 DEF Handler
<1> HIDE DEF r
<1>6. /\ handler' \in [Handlers -> Handler]
      /\ \A g \in Handlers : handler'[g] = IF g = h THEN r ELSE handler[g]
      BY <1>2, <1>5, HandlerRows
<1>7. EnqueuedIndex(id) \in {"queued", "running"}
      BY DEF EnqueuedIndex, Open
<1>8. indexJob' \in Seq(JobStates) /\ Len(indexJob') = Len(version)
      BY <1>1, <1>2, <1>3, <1>7 DEF JobStates
<1>9. IngestionTypeOK'
      BY <1>2, <1>4, <1>6, <1>8 DEF IngestionInv, IngestionTypeOK
<1>10. VersionsDiffer' /\ (UNCHANGED source => (Latest => Latest'))
      BY <1>2, IngestionTypes, VersionsStay DEF Latest
<1>11. NothingForgotten'
  <2> SUFFICES ASSUME NEW k \in DOMAIN version, InDocuments(k), ~version[k].chunks
               PROVE  indexJob'[k] \in {"queued", "running", "failed"}
      BY <1>2 DEF NothingForgotten, InDocuments
  <2>1. k \in 1..Len(version) /\ indexJob[k] \in {"queued", "running", "failed"}
        BY IngestionTypes DEF IngestionInv, NothingForgotten
  <2> QED BY <1>1, <1>2, <1>3, <1>7, <2>1
<1>12. PromiseIsSource' /\ SourcesFit'
      BY <1>2, <1>4, <1>10 DEF IngestionInv, PromiseIsSource, SourcesFit
<1>13. ASSUME NEW g \in Handlers PROVE HandlerFits(g)' /\ CurrentReads(g)'
  <2>1. HandlerFits(g) /\ CurrentReads(g)
        BY DEF IngestionInv
  <2>2. CASE g = h
    <3>1. HandlerFits(g)'
          BY <1>1, <1>2, <1>3, <1>5, <1>6, <2>2 DEF HandlerFits
    <3>2. CurrentReads(g)'
          BY <1>1, <1>2, <1>3, <1>4, <1>5, <1>6, <1>10, <2>2 DEF CurrentReads, Current
    <3> QED BY <3>1, <3>2
  <2>3. CASE g # h
    <3>1. handler'[g] = handler[g]
          BY <1>6, <2>3
    <3>2. HandlerFits(g)'
          BY <1>2, <2>1, <3>1 DEF HandlerFits
    <3>3. CurrentReads(g)'
          BY <1>2, <1>4, <1>10, <2>1, <3>1 DEF CurrentReads, Current
    <3> QED BY <3>2, <3>3
  <2> QED BY <2>2, <2>3
<1> QED BY <1>9, <1>10, <1>11, <1>12, <1>13 DEF IngestionInv

\* A version is added: the one before it was listed, and differs.
LEMMA AddsInv ==
    ASSUME IngestionInv, NEW h \in Handlers, CommitIngest(h), handler[h].id = 0
    PROVE  IngestionInv'
<1> DEFINE m == handler[h].read.name
           c == handler[h].read.content
           L == Len(version)
           v == [content |-> c, chunks |-> FALSE]
           r == [handler[h] EXCEPT !.step = "done"]
<1>1. /\ handler[h] \in Handler /\ m \in ExternalIds /\ HandlerFits(h) /\ CurrentReads(h)
      /\ indexJob \in Seq(JobStates) /\ Len(indexJob) = L /\ L \in Nat
      /\ version \in Seq(Version) /\ documents \in [ExternalIds -> Seq(1..L)]
      BY IngestionTypes DEF IngestionInv, Handler, Source
<1>2. /\ handler[h].step = "checked" /\ handler[h].base = documents[m] /\ WritesBack(c)
      /\ L < MaxVersions
      /\ documents' = [documents EXCEPT ![m] = Append(documents[m], L + 1)]
      /\ version' = Append(version, v)
      /\ indexJob' = Append(indexJob, "queued")
      /\ UNCHANGED <<ingestJob, resync>>
      /\ handler' = [handler EXCEPT ![h] = r]
      BY IngestionTypes DEF CommitIngest, AddVersion
<1>3. /\ c \in Contents /\ v \in Version /\ v.content = c
      /\ documents[m] # <<>> => version[Last(documents[m])].content # c
  <2>1. c \in Contents
        BY <1>1, <1>2 DEF HandlerFits
  <2> QED BY <1>1, <1>2, <2>1 DEF HandlerFits, Version
<1>4. /\ source' \in Source /\ (Live' <=> Live) /\ (Live' => source'.content \in Contents)
      /\ promised' \in Source
      /\ UNCHANGED <<source, promised>> \/ promised' = NoPromise
      /\ promised' # NoPromise => promised' = source' /\ Live' /\ c = source.content
      BY <1>2, <1>3, WritesBackFacts
<1>5. /\ r \in Handler /\ r.step = "done" /\ r.read = handler[h].read
      /\ r.attempt = handler[h].attempt /\ r.id = 0
      BY <1>1 DEF Handler
<1> HIDE DEF r, v, c, L
<1>6. /\ handler' \in [Handlers -> Handler]
      /\ \A g \in Handlers : handler'[g] = IF g = h THEN r ELSE handler[g]
      BY <1>2, <1>5, HandlerRows
<1>7. /\ version' \in Seq(Version) /\ Len(version') = L + 1 /\ version'[L + 1] = v
      /\ \A k \in 1..L : version'[k] = version[k]
      BY <1>1, <1>2, <1>3 DEF L
<1>8. /\ indexJob' \in Seq(JobStates) /\ Len(indexJob') = L + 1 /\ indexJob'[L + 1] = "queued"
      /\ \A k \in 1..L : indexJob'[k] = indexJob[k]
  <2>1. indexJob \in Seq(JobStates) /\ Len(indexJob) = L /\ L \in Nat
        BY <1>1
  <2>2. indexJob' = Append(indexJob, "queued") /\ "queued" \in JobStates
        BY <1>2 DEF JobStates
  <2> HIDE DEF L
  <2> QED BY <2>1, <2>2, AppendProperties
<1>9. /\ documents[m] \in Seq(1..(L + 1)) /\ documents'[m] \in Seq(1..(L + 1))
      /\ Len(documents'[m]) = Len(documents[m]) + 1
      /\ documents'[m][Len(documents[m]) + 1] = L + 1
      /\ \A i \in 1..Len(documents[m]) : documents'[m][i] = documents[m][i]
      /\ Len(documents[m]) \in Nat
      /\ \A n \in ExternalIds : n # m => documents'[n] = documents[n]
  <2>1. documents[m] \in Seq(1..L) /\ documents'[m] = Append(documents[m], L + 1)
        /\ \A n \in ExternalIds : n # m => documents'[n] = documents[n]
        BY <1>1, <1>2
  <2>2. \A x \in 1..L : x \in 1..(L + 1)
        BY <1>1
  <2>3. documents[m] \in Seq(1..(L + 1)) /\ L + 1 \in 1..(L + 1)
        BY <1>1, <2>1, <2>2, WiderSeq
  <2> DEFINE list == documents[m]
             more == Append(list, L + 1)
  <2>4. /\ more \in Seq(1..(L + 1)) /\ Len(more) = Len(list) + 1 /\ more[Len(list) + 1] = L + 1
        /\ \A i \in 1..Len(list) : more[i] = list[i]
    <3>1. list \in Seq(1..(L + 1)) /\ L + 1 \in 1..(L + 1)
          BY <2>3
    <3> HIDE DEF list
    <3> QED BY <3>1, AppendProperties
  <2>5. Len(list) \in Nat
        BY <2>3, LenProperties
  <2> HIDE DEF more
  <2>6. documents'[m] = more
        BY <2>1 DEF more
  <2> QED BY <2>1, <2>3, <2>4, <2>5, <2>6, Zenon
<1>16. \A n \in ExternalIds : n # m => documents'[n] = documents[n]
       BY <1>9
<1>17. DOMAIN documents'[m] = 1..(Len(documents[m]) + 1)
  <2>1. DOMAIN documents'[m] = 1..Len(documents'[m])
        BY <1>9, LenProperties, Zenon
  <2> QED BY <1>9, <2>1, Zenon
<1>10. IngestionTypeOK'
  <2>1. \A n \in ExternalIds : documents'[n] \in Seq(1..(L + 1))
    <3> SUFFICES ASSUME NEW n \in ExternalIds PROVE documents'[n] \in Seq(1..(L + 1))
        OBVIOUS
    <3>1. documents[n] \in Seq(1..L)
          BY <1>1
    <3>2. documents[n] \in Seq(1..(L + 1))
          BY <1>1, <3>1, WiderIndices
    <3> QED BY <1>9, <3>2
  <2>2. documents' \in [ExternalIds -> Seq(1..Len(version'))]
        BY <1>1, <1>2, <1>7, <2>1
  <2>3. Len(version') <= MaxVersions
        BY <1>1, <1>2, <1>7, IngestionAssumption
  <2> QED BY <1>2, <1>4, <1>6, <1>7, <1>8, <2>2, <2>3 DEF IngestionInv, IngestionTypeOK
<1>11. VersionsDiffer'
  <2> SUFFICES ASSUME NEW n \in ExternalIds, NEW i \in 1..(Len(documents'[n]) - 1)
               PROVE  version'[documents'[n][i]].content # version'[documents'[n][i + 1]].content
      BY DEF VersionsDiffer
  <2>1. documents[n] \in Seq(1..L) /\ Len(documents[n]) \in Nat
        BY <1>1
  <2>2. ASSUME i \in 1..(Len(documents[n]) - 1), documents'[n][i] = documents[n][i],
               documents'[n][i + 1] = documents[n][i + 1]
        PROVE  version'[documents'[n][i]].content # version'[documents'[n][i + 1]].content
    <3>1. documents[n][i] \in 1..L /\ documents[n][i + 1] \in 1..L
      <4>1. i \in 1..Len(documents[n]) /\ i + 1 \in 1..Len(documents[n])
            BY <2>1, <2>2
      <4> QED BY <2>1, <4>1, ElementOfSeq
    <3>2. version[documents[n][i]].content # version[documents[n][i + 1]].content
          BY <2>2 DEF IngestionInv, VersionsDiffer
    <3>3. /\ version'[documents[n][i]] = version[documents[n][i]]
          /\ version'[documents[n][i + 1]] = version[documents[n][i + 1]]
          BY <1>7, <3>1, Zenon
    <3> QED BY <2>2, <3>2, <3>3, Zenon
  <2>3. CASE n # m
    <3>1. documents'[n] = documents[n]
          BY <1>16, <2>3, Zenon
    <3> QED BY <2>2, <3>1
  <2>4. CASE n = m /\ i # Len(documents[m])
    <3>1. i \in 1..Len(documents[n]) /\ i + 1 \in 1..Len(documents[n])
      <4>1. i \in 1..((Len(documents[n]) + 1) - 1) /\ i # Len(documents[n])
            BY <1>9, <2>4, Zenon
      <4>2. Len(documents[n]) \in Nat
            BY <2>1, Zenon
      <4> QED BY <4>1, <4>2
    <3>2. documents'[n][i] = documents[n][i] /\ documents'[n][i + 1] = documents[n][i + 1]
          BY <1>9, <2>4, <3>1, Zenon
    <3>3. i \in 1..(Len(documents[n]) - 1)
          BY <2>1, <3>1
    <3> QED BY <2>2, <3>2, <3>3, Zenon
  <2>5. CASE n = m /\ i = Len(documents[m])
    <3>1. documents[m] # <<>> /\ Last(documents[m]) \in 1..L
          BY <2>1, <2>5, IngestionTypes DEF L
    <3>2. documents'[n][i] = Last(documents[m]) /\ documents'[n][i + 1] = L + 1
          BY <1>9, <2>5 DEF Last
    <3> QED BY <1>3, <1>7, <3>1, <3>2
  <2> QED BY <2>3, <2>4, <2>5
<1>12. NothingForgotten'
  <2> SUFFICES ASSUME NEW k \in DOMAIN version', InDocuments(k)', ~version'[k].chunks
               PROVE  indexJob'[k] \in {"queued", "running", "failed"}
      BY DEF NothingForgotten
  <2>1. k \in 1..(L + 1)
        BY <1>7
  <2>2. CASE k = L + 1
        BY <1>8, <2>2
  <2>3. CASE k \in 1..L
    <3>1. PICK n \in ExternalIds : k \in Range(documents'[n])
          BY DEF InDocuments
    <3>2. PICK i \in DOMAIN documents'[n] : k = documents'[n][i]
          BY <3>1 DEF Range
    <3>3. k \in Range(documents[n])
      <4>1. CASE n # m
        <5>1. documents'[n] = documents[n]
              BY <1>16, <4>1, Zenon
        <5> QED BY <3>1, <5>1
      <4>2. CASE n = m
        <5>1. i \in 1..Len(documents[m])
          <6>1. i \in 1..(Len(documents[m]) + 1)
                BY <1>17, <3>2, <4>2, Zenon
          <6>2. i # Len(documents[m]) + 1
            <7> SUFFICES ASSUME i = Len(documents[m]) + 1 PROVE FALSE
                OBVIOUS
            <7>1. k = L + 1
                  BY <1>9, <3>2, <4>2, Zenon
            <7> QED BY <1>1, <2>3, <7>1
          <6> QED BY <1>9, <6>1, <6>2
        <5>2. documents[m] \in Seq(1..L)
              BY <1>1
        <5>3. k = documents[m][i]
              BY <1>9, <3>2, <4>2, <5>1, Zenon
        <5>4. i \in DOMAIN documents[m]
              BY <5>1, <5>2
        <5> QED BY <4>2, <5>3, <5>4, Zenon DEF Range
      <4> QED BY <4>1, <4>2
    <3>4. InDocuments(k) /\ ~version[k].chunks /\ k \in DOMAIN version
          BY <1>1, <1>7, <2>3, <3>3 DEF InDocuments, L
    <3> QED BY <1>8, <2>3, <3>4 DEF IngestionInv, NothingForgotten
  <2> QED BY <1>1, <2>1, <2>2, <2>3
<1>13. promised' # NoPromise => (Latest \/ m = source.name => Latest')
  <2> SUFFICES ASSUME promised' # NoPromise, Latest \/ m = source.name,
                      NEW n \in ExternalIds, n = source'.name
               PROVE  LatestContent(n)' = source'.content
      BY DEF Latest
  <2>1. source' = source /\ c = source.content
        BY <1>4
  <2>2. CASE n = m
    <3>1. documents'[n] # <<>> /\ Last(documents'[n]) = L + 1
          BY <1>9, <2>2 DEF Last
    <3> QED BY <1>3, <1>7, <2>1, <3>1 DEF LatestContent
  <2>3. CASE n # m
    <3>1. LatestContent(n) = source.content
          BY <2>1, <2>3 DEF Latest
    <3>2. documents'[n] = documents[n]
          BY <1>9, <2>3
    <3>3. documents[n] # <<>> => Last(documents[n]) \in 1..L
          BY IngestionTypes DEF L
    <3> QED BY <1>7, <2>1, <3>1, <3>2, <3>3 DEF LatestContent
  <2> QED BY <2>2, <2>3
<1>14. PromiseIsSource' /\ SourcesFit'
  <2>1. ingestJob.state = "succeeded" /\ promised # NoPromise => Latest
        BY DEF IngestionInv, SourcesFit
  <2>2. ingestJob'.state = "succeeded" /\ promised' # NoPromise => Latest'
        BY <1>2, <1>4, <1>13, <2>1
  <2> QED BY <1>2, <1>4, <2>2 DEF PromiseIsSource, SourcesFit
<1>15. ASSUME NEW g \in Handlers PROVE HandlerFits(g)' /\ CurrentReads(g)'
  <2>1. HandlerFits(g) /\ CurrentReads(g) /\ handler[g] \in Handler
        BY IngestionTypes DEF IngestionInv
  <2>2. CASE g = h
    <3>1. HandlerFits(g)'
      <4>1. handler'[g] = r /\ ingestJob' = ingestJob
            BY <1>2, <1>6, <2>2, Zenon
      <4>2. r.attempt <= ingestJob.attempt
            BY <1>1, <1>5 DEF HandlerFits
      <4>3. r.read.content \in Contents
            BY <1>3, <1>5, Zenon DEF c
      <4>4. 0 \in 0..Len(version')
            BY <1>1, <1>7
      <4> QED BY <1>5, <4>1, <4>2, <4>3, <4>4 DEF HandlerFits
    <3>2. ASSUME Current(g)', promised' # NoPromise PROVE handler'[g].read = source' /\ Latest'
      <4>1. Current(h) /\ promised # NoPromise /\ source' = source
            BY <1>2, <1>4, <1>5, <1>6, <2>2, <3>2 DEF Current
      <4>2. handler[h].read = source
            BY <1>1, <4>1 DEF CurrentReads
      <4> QED BY <1>5, <1>6, <1>13, <2>2, <3>2, <4>1, <4>2
    <3> QED BY <3>1, <3>2 DEF CurrentReads
  <2>3. CASE g # h
    <3>1. handler'[g] = handler[g]
          BY <1>6, <2>3
    <3>2. /\ handler[g].id \in 0..Len(version')
          /\ handler[g].step = "checked" /\ handler[g].id = 0 =>
                 /\ handler[g].base \in Seq(1..Len(version'))
                 /\ handler[g].base # <<>> =>
                        version'[Last(handler[g].base)].content # handler[g].read.content
      <4>1. handler[g].id \in 0..L /\ handler[g].id \in 0..Len(version')
            BY <1>1, <1>7, <2>1 DEF HandlerFits, L
      <4>2. ASSUME handler[g].step = "checked", handler[g].id = 0
            PROVE  /\ handler[g].base \in Seq(1..Len(version'))
                   /\ handler[g].base # <<>> =>
                          version'[Last(handler[g].base)].content # handler[g].read.content
        <5>1. /\ handler[g].base \in Seq(1..L)
              /\ handler[g].base # <<>> =>
                     version[Last(handler[g].base)].content # handler[g].read.content
              BY <2>1, <4>2 DEF HandlerFits, L
        <5>2. \A x \in 1..L : x \in 1..Len(version')
              BY <1>1, <1>7
        <5>3. handler[g].base \in Seq(1..Len(version'))
              BY <5>1, <5>2, WiderSeq
        <5>4. handler[g].base # <<>> => Last(handler[g].base) \in 1..L
              BY <5>1, LastOfSeq
        <5> QED BY <1>7, <5>1, <5>3, <5>4
      <4> QED BY <4>1, <4>2
    <3>3. HandlerFits(g)'
          BY <1>2, <2>1, <3>1, <3>2 DEF HandlerFits
    <3>4. CurrentReads(g)'
          BY <1>2, <1>4, <1>13, <2>1, <3>1 DEF CurrentReads, Current
    <3> QED BY <3>3, <3>4
  <2> QED BY <2>2, <2>3
<1> QED BY <1>10, <1>11, <1>12, <1>14, <1>15 DEF IngestionInv

LEMMA IngestJobInv == ASSUME IngestionInv, IngestJob PROVE IngestionInv'
<1>1. ASSUME NEW h \in Handlers, CommitIngest(h) PROVE IngestionInv'
      BY <1>1, ReusesInv, AddsInv
<1>2. ASSUME NEW h \in Handlers, NumberTaken(h) PROVE IngestionInv'
      BY <1>2, EndsInv DEF NumberTaken, JobStates
<1>3. ASSUME NEW h \in Handlers, CompleteIngest(h) PROVE IngestionInv'
      BY <1>3, EndsInv DEF CompleteIngest, JobStates
<1>4. ASSUME NEW h \in Handlers, NEW s \in {"queued", "failed"}, IngestFails(h, s)
      PROVE  IngestionInv'
      BY <1>4, EndsInv DEF IngestFails, JobStates
<1> QED BY <1>1, <1>2, <1>3, <1>4, LeaseLapsesInv, ClaimIngestInv, ReadSourceInv, ListVersionsInv
        DEF IngestJob

-----------------------------------------------------------------------------
(* The index job                                                             *)

\* The state of one index job.
LEMMA IndexJobSet ==
    ASSUME IngestionInv, NEW id \in 1..Len(version), NEW s \in JobStates,
           indexJob' = [indexJob EXCEPT ![id] = s]
    PROVE  /\ indexJob' \in Seq(JobStates) /\ Len(indexJob') = Len(version)
           /\ \A k \in 1..Len(version) : indexJob'[k] = IF k = id THEN s ELSE indexJob[k]
BY IngestionTypes

LEMMA IndexLeaseLapsesInv ==
    ASSUME IngestionInv, NEW id \in DOMAIN version, IndexLeaseLapses(id) PROVE IngestionInv'
<1>1. /\ id \in 1..Len(version) /\ indexJob' = [indexJob EXCEPT ![id] = "queued"]
      /\ UNCHANGED <<source, documents, version, ingestJob, handler, resync, promised>>
      BY IngestionTypes DEF IndexLeaseLapses
<1>2. /\ indexJob' \in Seq(JobStates) /\ Len(indexJob') = Len(version)
      /\ \A k \in 1..Len(version) : indexJob'[k] = IF k = id THEN "queued" ELSE indexJob[k]
      BY <1>1, IndexJobSet DEF JobStates
<1>3. IngestionTypeOK'
      BY <1>1, <1>2 DEF IngestionInv, IngestionTypeOK
<1>4. NothingForgotten'
  <2> SUFFICES ASSUME NEW k \in DOMAIN version, InDocuments(k), ~version[k].chunks
               PROVE  indexJob'[k] \in {"queued", "running", "failed"}
      BY <1>1 DEF NothingForgotten, InDocuments
  <2>1. k \in 1..Len(version)
        BY IngestionTypes
  <2> QED BY <1>2, <2>1 DEF IngestionInv, NothingForgotten
<1>5. VersionsDiffer' /\ (Latest => Latest')
      BY <1>1, IngestionTypes, VersionsStay DEF Latest
<1>6. PromiseIsSource' /\ SourcesFit'
      BY <1>1, <1>5 DEF IngestionInv, PromiseIsSource, SourcesFit, Live
<1>7. ASSUME NEW h \in Handlers PROVE HandlerFits(h)' /\ CurrentReads(h)'
      BY <1>1, <1>5 DEF IngestionInv, HandlerFits, CurrentReads, Current
<1> QED BY <1>3, <1>4, <1>5, <1>6, <1>7 DEF IngestionInv

\* A handler that holds no ingest job starts or ends.
LEMMA IndexingRow ==
    ASSUME IngestionInv, NEW h \in Handlers, NEW r \in Handler, UNCHANGED ingestJob,
           r.step \in {"idle", "indexing"}, r.attempt = 0, r.id \in 0..Len(version),
           r.step = "indexing" => r.id # 0
    PROVE  JobMoves(h, r) /\ RowFits(r)
<1>1. ingestJob.attempt \in Nat
      BY IngestionTypes, IngestionAssumption
<1> QED BY <1>1, IngestionTypes DEF JobMoves, RowFits

LEMMA StartIndexInv ==
    ASSUME IngestionInv, NEW h \in Handlers, NEW id \in DOMAIN version, StartIndex(h, id)
    PROVE  IngestionInv'
<1>1. /\ id \in 1..Len(version) /\ handler[h].step = "idle"
      /\ UNCHANGED <<source, documents, version, ingestJob, resync, promised>>
      BY IngestionTypes DEF StartIndex
<1>2. /\ version' \in Seq(Version) /\ Len(version') = Len(version)
      /\ \A k \in 1..Len(version) : version'[k].content = version[k].content
      BY <1>1, IngestionTypes
<1>3. CASE InDocuments(id)
  <2> DEFINE b == version[id].chunks
             r == [NoHandler EXCEPT !.step = "indexing", !.id = id, !.chunks = b]
  <2>1. /\ indexJob' = [indexJob EXCEPT ![id] = "running"]
        /\ handler' = [handler EXCEPT ![h] = r]
        BY <1>3 DEF StartIndex
  <2>2. b \in BOOLEAN /\ id \in 0..MaxVersions
    <3>1. version[id] \in Version
          BY <1>1, IngestionTypes, ElementOfSeq
    <3>2. b \in BOOLEAN
          BY <3>1 DEF Version
    <3>3. id \in 0..MaxVersions
          BY <1>1, IngestionTypes, IngestionAssumption
    <3> QED BY <3>2, <3>3
  <2> HIDE DEF b
  <2>3. r \in Handler /\ r.step = "indexing" /\ r.attempt = 0 /\ r.id = id
        BY <2>2, Nothings DEF Handler
  <2> HIDE DEF r
  <2>4. JobMoves(h, r) /\ RowFits(r)
        BY <1>1, <2>3, IngestionTypes, IndexingRow
  <2>5. /\ indexJob' \in Seq(JobStates) /\ Len(indexJob') = Len(version)
        /\ \A k \in 1..Len(version) : indexJob'[k] = IF k = id THEN "running" ELSE indexJob[k]
        BY <1>1, <2>1, IndexJobSet DEF JobStates
  <2>6. NothingForgotten'
    <3> SUFFICES ASSUME NEW k \in DOMAIN version, InDocuments(k), ~version[k].chunks
                 PROVE  indexJob'[k] \in {"queued", "running", "failed"}
        BY <1>1 DEF NothingForgotten, InDocuments
    <3>1. k \in 1..Len(version)
          BY IngestionTypes
    <3> QED BY <2>5, <3>1 DEF IngestionInv, NothingForgotten
  <2> QED BY <1>1, <1>2, <2>1, <2>3, <2>4, <2>5, <2>6, HandlerStepInv
<1>4. CASE ~InDocuments(id)
  <2>1. indexJob' = [indexJob EXCEPT ![id] = "failed"] /\ UNCHANGED handler
        BY <1>4 DEF StartIndex
  <2>2. /\ indexJob' \in Seq(JobStates) /\ Len(indexJob') = Len(version)
        /\ \A k \in 1..Len(version) : indexJob'[k] = IF k = id THEN "failed" ELSE indexJob[k]
        BY <1>1, <2>1, IndexJobSet DEF JobStates
  <2>3. IngestionTypeOK'
        BY <1>1, <2>1, <2>2 DEF IngestionInv, IngestionTypeOK
  <2>4. NothingForgotten'
    <3> SUFFICES ASSUME NEW k \in DOMAIN version, InDocuments(k), ~version[k].chunks
                 PROVE  indexJob'[k] \in {"queued", "running", "failed"}
        BY <1>1 DEF NothingForgotten, InDocuments
    <3>1. k \in 1..Len(version)
          BY IngestionTypes
    <3> QED BY <2>2, <3>1 DEF IngestionInv, NothingForgotten
  <2>5. VersionsDiffer' /\ (Latest => Latest')
        BY <1>1, <1>2, VersionsStay DEF Latest
  <2>6. PromiseIsSource' /\ SourcesFit'
        BY <1>1, <2>5 DEF IngestionInv, PromiseIsSource, SourcesFit, Live
  <2>7. ASSUME NEW g \in Handlers PROVE HandlerFits(g)' /\ CurrentReads(g)'
        BY <1>1, <2>1, <2>5 DEF IngestionInv, HandlerFits, CurrentReads, Current
  <2> QED BY <2>3, <2>4, <2>5, <2>6, <2>7 DEF IngestionInv
<1> QED BY <1>3, <1>4

LEMMA CommitIndexInv ==
    ASSUME IngestionInv, NEW h \in Handlers, CommitIndex(h) PROVE IngestionInv'
<1> DEFINE id == handler[h].id
           s(done) == IF indexJob[id] = "running" THEN done ELSE indexJob[id]
<1>1. /\ handler[h].step = "indexing" /\ handler' = [handler EXCEPT ![h] = NoHandler]
      /\ UNCHANGED <<source, documents, ingestJob, resync, promised>>
      BY DEF CommitIndex
<1>2. id \in 1..Len(version) /\ handler[h] \in Handler
      BY <1>1, IngestionTypes DEF IngestionInv, HandlerFits
<1>3. \A done \in JobStates : s(done) \in JobStates
      BY <1>2, IngestionTypes
<1>4. JobMoves(h, NoHandler) /\ RowFits(NoHandler)
      BY <1>1, IngestionTypes, Nothings, IndexingRow
<1>5. CASE InDocuments(id) /\ version[id].chunks = handler[h].chunks
  <2>1. /\ version' = [version EXCEPT ![id].chunks = TRUE]
        /\ indexJob' = [indexJob EXCEPT ![id] = s("succeeded")]
        BY <1>5, IngestionTypes DEF CommitIndex
  <2>2. /\ version' \in Seq(Version) /\ Len(version') = Len(version) /\ version'[id].chunks
        /\ \A k \in 1..Len(version) : /\ version'[k].content = version[k].content
                                      /\ k # id => version'[k] = version[k]
    <3> DEFINE w == [version[id] EXCEPT !.chunks = TRUE]
    <3>1. version[id] \in Version
          BY <1>2, IngestionTypes, ElementOfSeq
    <3>2. w \in Version /\ w.chunks /\ w.content = version[id].content
          BY <3>1 DEF Version
    <3>3. version' = [version EXCEPT ![id] = w]
          BY <2>1
    <3> HIDE DEF w, id
    <3> QED BY <1>2, <3>2, <3>3, IngestionTypes
  <2>3. /\ indexJob' \in Seq(JobStates) /\ Len(indexJob') = Len(version)
        /\ \A k \in 1..Len(version) : k # id => indexJob'[k] = indexJob[k]
    <3> DEFINE z == s("succeeded")
    <3>1. z \in JobStates /\ indexJob' = [indexJob EXCEPT ![id] = z]
          BY <1>3, <2>1 DEF JobStates
    <3> HIDE DEF z, id
    <3>2. /\ indexJob' \in Seq(JobStates) /\ Len(indexJob') = Len(version)
          /\ \A k \in 1..Len(version) : indexJob'[k] = IF k = id THEN z ELSE indexJob[k]
          BY <1>2, <3>1, IndexJobSet
    <3> QED BY <3>2
  <2>4. NothingForgotten'
    <3> SUFFICES ASSUME NEW k \in DOMAIN version', InDocuments(k), ~version'[k].chunks
                 PROVE  indexJob'[k] \in {"queued", "running", "failed"}
        BY <1>1 DEF NothingForgotten, InDocuments
    <3>1. k \in 1..Len(version) /\ k # id /\ k \in DOMAIN version
          BY <2>2, IngestionTypes
    <3> QED BY <2>2, <2>3, <3>1 DEF IngestionInv, NothingForgotten
  <2> QED BY <1>1, <1>4, <2>2, <2>3, <2>4, Nothings, HandlerStepInv
<1>6. CASE ~(InDocuments(id) /\ version[id].chunks = handler[h].chunks)
  <2>1. UNCHANGED version /\ indexJob' = [indexJob EXCEPT ![id] = s("queued")]
        BY <1>6, IngestionTypes DEF CommitIndex
  <2>2. /\ version' \in Seq(Version) /\ Len(version') = Len(version)
        /\ \A k \in 1..Len(version) : version'[k].content = version[k].content
        BY <2>1, IngestionTypes
  <2>3. /\ indexJob' \in Seq(JobStates) /\ Len(indexJob') = Len(version)
        /\ \A k \in 1..Len(version) : indexJob'[k] = indexJob[k] \/ indexJob'[k] = "queued"
    <3> DEFINE z == s("queued")
    <3>1. /\ z \in JobStates /\ indexJob' = [indexJob EXCEPT ![id] = z]
          /\ z = "queued" \/ z = indexJob[id]
          BY <1>3, <2>1 DEF JobStates
    <3> HIDE DEF z, id
    <3>2. /\ indexJob' \in Seq(JobStates) /\ Len(indexJob') = Len(version)
          /\ \A k \in 1..Len(version) : indexJob'[k] = IF k = id THEN z ELSE indexJob[k]
          BY <1>2, <3>1, IndexJobSet
    <3> QED BY <3>1, <3>2
  <2>4. NothingForgotten'
    <3> SUFFICES ASSUME NEW k \in DOMAIN version, InDocuments(k), ~version[k].chunks
                 PROVE  indexJob'[k] \in {"queued", "running", "failed"}
        BY <1>1, <2>1 DEF NothingForgotten, InDocuments
    <3>1. k \in 1..Len(version)
          BY IngestionTypes
    <3> QED BY <2>3, <3>1 DEF IngestionInv, NothingForgotten
  <2> QED BY <1>1, <1>4, <2>2, <2>3, <2>4, Nothings, HandlerStepInv
<1> QED BY <1>5, <1>6

LEMMA IndexFailsInv ==
    ASSUME IngestionInv, NEW h \in Handlers, NEW f \in {"queued", "failed"}, IndexFails(h, f)
    PROVE  IngestionInv'
<1> DEFINE id == handler[h].id
           s == IF indexJob[id] = "running" THEN f ELSE indexJob[id]
<1>1. /\ handler[h].step = "indexing" /\ handler' = [handler EXCEPT ![h] = NoHandler]
      /\ UNCHANGED <<source, documents, version, ingestJob, resync, promised>>
      /\ indexJob' = [indexJob EXCEPT ![id] = s]
      BY IngestionTypes DEF IndexFails
<1>2. id \in 1..Len(version)
      BY <1>1, IngestionTypes DEF IngestionInv, HandlerFits
<1>3. s \in JobStates /\ (s = indexJob[id] \/ s \in {"queued", "failed"})
      BY <1>2, IngestionTypes DEF JobStates
<1>4. JobMoves(h, NoHandler) /\ RowFits(NoHandler)
      BY <1>1, IngestionTypes, Nothings, IndexingRow
<1> HIDE DEF s
<1>5. /\ version' \in Seq(Version) /\ Len(version') = Len(version)
      /\ \A k \in 1..Len(version) : version'[k].content = version[k].content
      BY <1>1, IngestionTypes
<1>6. /\ indexJob' \in Seq(JobStates) /\ Len(indexJob') = Len(version)
      /\ \A k \in 1..Len(version) :
             indexJob'[k] = indexJob[k] \/ indexJob'[k] \in {"queued", "failed"}
  <2> HIDE DEF id
  <2>1. /\ indexJob' \in Seq(JobStates) /\ Len(indexJob') = Len(version)
        /\ \A k \in 1..Len(version) : indexJob'[k] = IF k = id THEN s ELSE indexJob[k]
        BY <1>1, <1>2, <1>3, IndexJobSet
  <2> QED BY <1>3, <2>1
<1>7. NothingForgotten'
  <2> SUFFICES ASSUME NEW k \in DOMAIN version, InDocuments(k), ~version[k].chunks
               PROVE  indexJob'[k] \in {"queued", "running", "failed"}
      BY <1>1 DEF NothingForgotten, InDocuments
  <2>1. k \in 1..Len(version)
        BY IngestionTypes
  <2> QED BY <1>6, <2>1 DEF IngestionInv, NothingForgotten
<1> QED BY <1>1, <1>4, <1>5, <1>6, <1>7, Nothings, HandlerStepInv

LEMMA IndexJobInv == ASSUME IngestionInv, IndexJob PROVE IngestionInv'
BY IndexLeaseLapsesInv, StartIndexInv, CommitIndexInv, IndexFailsInv DEF IndexJob

-----------------------------------------------------------------------------
(* What holds of every behaviour                                             *)

LEMMA IngestionInitInv == IngestionInit => IngestionInv
<1> SUFFICES ASSUME IngestionInit PROVE IngestionInv
    OBVIOUS
<1>1. /\ source = NoSource /\ documents = [n \in ExternalIds |-> <<>>] /\ version = <<>>
      /\ ingestJob = [state |-> "none", attempt |-> 0] /\ indexJob = <<>>
      /\ handler = [h \in Handlers |-> NoHandler] /\ resync = NoContent /\ promised = NoPromise
      BY DEF IngestionInit
<1>2. IngestionTypeOK
  <2>1. source \in Source /\ promised \in Source /\ handler \in [Handlers -> Handler]
        BY <1>1, Nothings DEF NoPromise
  <2>2. version \in Seq(Version) /\ Len(version) = 0 /\ indexJob \in Seq(JobStates)
        /\ Len(indexJob) = 0
        BY <1>1
  <2>3. documents \in [ExternalIds -> Seq(1..Len(version))]
        BY <1>1
  <2>4. ingestJob \in [state : JobStates, attempt : 0..MaxAttempts]
        BY <1>1, IngestionAssumption DEF JobStates
  <2> QED BY <1>1, <2>1, <2>2, <2>3, <2>4, IngestionAssumption DEF IngestionTypeOK, MaybeContent
<1>3. VersionsDiffer /\ NothingForgotten
  <2>1. DOMAIN version = {} /\ \A n \in ExternalIds : documents[n] = <<>>
        BY <1>1
  <2> QED BY <2>1 DEF VersionsDiffer, NothingForgotten
<1>4. PromiseIsSource /\ SourcesFit
      BY <1>1, Nothings DEF PromiseIsSource, SourcesFit, Live
<1>5. \A h \in Handlers : HandlerFits(h) /\ CurrentReads(h)
  <2>1. \A h \in Handlers : handler[h] = NoHandler
        BY <1>1
  <2>2. ingestJob.attempt = 0 /\ Len(version) = 0
        BY <1>1
  <2> QED BY <2>1, <2>2, Nothings DEF HandlerFits, CurrentReads, Current
<1> QED BY <1>2, <1>3, <1>4, <1>5 DEF IngestionInv

LEMMA IngestionStutterInv == ASSUME IngestionInv, UNCHANGED ingestionVars PROVE IngestionInv'
<1>1. UNCHANGED <<source, documents, version, ingestJob, indexJob, handler, resync, promised>>
      BY DEF ingestionVars
<1>2. Live' <=> Live
      BY <1>1 DEF Live
<1>3. source \in Source /\ (Live => source.content \in Contents)
      /\ (promised # NoPromise => promised = source /\ Live)
      BY IngestionTypes DEF IngestionInv, SourcesFit, PromiseIsSource
<1> QED BY <1>1, <1>2, <1>3, IngestionTypes, SourceStepInv

\* The invariant holds in every state the ingestion of a source reaches.
THEOREM IngestionInvHolds == IngestionSpec => []IngestionInv
<1>1. IngestionInit => IngestionInv
      BY IngestionInitInv
<1>2. IngestionInv /\ [IngestionNext]_ingestionVars => IngestionInv'
      BY AuthoringInv, IngestJobInv, IndexJobInv, IngestionStutterInv DEF IngestionNext
<1> QED BY <1>1, <1>2, PTL DEF IngestionSpec

\* The rows and the handlers keep their types: documents refer to versions that
\* exist, and each version has its index job.
THEOREM IngestionTypeCorrect == IngestionSpec => []IngestionTypeOK
<1>1. IngestionInv => IngestionTypeOK
      BY DEF IngestionInv
<1> QED BY <1>1, IngestionInvHolds, PTL

\* However many handlers, names and contents there are: no document gets the same
\* content twice in a row, none is left without its way to the index, and what an
\* enqueue promised is the latest version when its job has succeeded.
THEOREM ContentAlwaysArrives == IngestionSpec => []ContentArrives
<1>1. IngestionInv => ContentArrives
      BY IngestionInvImplies
<1> QED BY <1>1, IngestionInvHolds, PTL


-----------------------------------------------------------------------------
(* The graph: the inductive invariant                                        *)

GraphStates ==
    [root : Watermarks \cup {NoWatermark}, chunks : SUBSET GraphChunks,
     links : SUBSET GraphChunks, of : SUBSET GraphChunks]

\* What a process at work knows of the row, which no other process writes, and
\* what the graph has at each point of its rebuild.
CommandFits(c, row, g) ==
    /\ c.pc # "idle" => c.held = row
    /\ c.pc = "pending" => row.status = "pending_backfill" /\ row.watermark = c.watermark
    /\ c.pc \in Rebuilding \cup {"linked", "broken"} =>
           row.status = "indexing" /\ row.watermark = c.watermark
    /\ c.pc \in {"deleted", "rooted"} => g.chunks = {}
    /\ c.pc \in {"deleted", "rooted", "chunked"} => g.links = {}
    /\ c.pc \in {"rooted", "chunked", "linked"} => g.root = c.watermark
    /\ c.pc \in {"chunked", "linked"} => g.chunks = c.loaded
    /\ c.pc = "linked" => g.links = Links(c.loaded)
    /\ c.pc = "broken" => c.failure # "none"

\* A row that says "ready" is that of a whole snapshot, a row with an error says
\* "failed".
ProjectionFits(row, g) ==
    /\ row.status = "ready" =>
           g.chunks = g.of /\ g.links = Links(g.of) /\ g.root = row.watermark
    /\ row.error # "none" => row.status = "failed"
    /\ row.status = "failed" => row.error # "none"

GraphInv ==
    /\ GraphTypeOK
    /\ ProjectionFits(projection, graph)
    /\ \A o \in Operators : CommandFits(command[o], projection, graph)

LEMMA GraphInitInv == GraphInit => GraphInv
BY DEF GraphInit, GraphInv, GraphTypeOK, CommandFits, ProjectionFits, NoRow, NoCommand, Row, Command,
   Statuses, Failures, Rebuilding

-----------------------------------------------------------------------------
(* The graph: the steps of an operator                                       *)

LEMMA FlushedFacts ==
    ASSUME NEW row \in Row, NEW new \in Row
    PROVE  Flushed(row, row, new) = new
<1>1. /\ DOMAIN row = {"status", "watermark", "error", "indexed"}
      /\ DOMAIN new = {"status", "watermark", "error", "indexed"}
      /\ new = [f \in DOMAIN new |-> new[f]]
      BY DEF Row
<1>2. Flushed(row, row, new) = [f \in DOMAIN row |-> new[f]]
      BY DEF Flushed
<1> QED BY <1>1, <1>2

LEMMA CommandFacts ==
    ASSUME GraphTypeOK, NEW o \in Operators
    PROVE  /\ command[o] \in Command /\ projection \in Row /\ graph \in GraphStates
           /\ command[o].watermark \in Watermarks \cup {NoWatermark}
           /\ command[o].held \in Row /\ command[o].loaded \in SUBSET GraphChunks
           /\ command[o].failure \in Failures
BY DEF GraphTypeOK, Command, GraphStates

\* One operator's process is at another point, with its row and its graph.
LEMMA CommandSet ==
    ASSUME GraphInv, NEW o, Operators = {o}, NEW c \in Command,
           command' = [command EXCEPT ![o] = c], UNCHANGED <<stored, smoke>>,
           projection' \in Row, graph' \in GraphStates,
           ProjectionFits(projection', graph'), CommandFits(c, projection', graph')
    PROVE  GraphInv'
<1>1. command' \in [Operators -> Command] /\ \A q \in Operators : command'[q] = c
      BY DEF GraphInv, GraphTypeOK
<1>2. GraphTypeOK'
      BY <1>1 DEF GraphInv, GraphTypeOK, GraphStates
<1> QED BY <1>1, <1>2 DEF GraphInv

LEMMA MoveInv ==
    ASSUME GraphInv, NEW o, Operators = {o}, NEW pc, NEW g \in GraphStates,
           pc \in {"deleted", "rooted", "chunked", "linked"},
           command[o].pc \in Rebuilding,
           Moves(o, pc), graph' = g, UNCHANGED <<stored, projection, smoke>>,
           pc \in {"deleted", "rooted"} => g.chunks = {},
           pc \in {"deleted", "rooted", "chunked"} => g.links = {},
           pc \in {"rooted", "chunked", "linked"} => g.root = command[o].watermark,
           pc \in {"chunked", "linked"} => g.chunks = command[o].loaded,
           pc = "linked" => g.links = Links(command[o].loaded)
    PROVE  GraphInv'
<1> DEFINE c == [command[o] EXCEPT !.pc = pc]
<1>1. command[o] \in Command /\ projection \in Row
      BY CommandFacts DEF GraphInv
<1>2. /\ c \in Command /\ c.pc = pc /\ c.watermark = command[o].watermark
      /\ c.held = command[o].held /\ c.loaded = command[o].loaded
      BY <1>1 DEF Command
<1>3. command' = [command EXCEPT ![o] = c]
      BY DEF Moves, GraphInv, GraphTypeOK
<1> HIDE DEF c
<1>4. CommandFits(command[o], projection, graph) /\ ProjectionFits(projection, graph)
      BY DEF GraphInv
<1>5. CommandFits(c, projection', graph')
      BY <1>2, <1>4 DEF CommandFits, Rebuilding
<1>6. ProjectionFits(projection', graph')
      BY <1>4 DEF CommandFits, ProjectionFits
<1> QED BY <1>1, <1>2, <1>3, <1>5, <1>6, CommandSet

LEMMA RebuildInv ==
    ASSUME GraphInv, NEW o, Operators = {o},
           DeleteGraph(o) \/ UpsertRoot(o) \/ UpsertChunks(o) \/ UpsertLinks(o)
    PROVE  GraphInv'
<1>1. /\ graph \in GraphStates /\ command[o] \in Command
      /\ command[o].watermark \in Watermarks \cup {NoWatermark}
      /\ command[o].loaded \in SUBSET GraphChunks
      BY CommandFacts DEF GraphInv
<1>2. CommandFits(command[o], projection, graph)
      BY DEF GraphInv
<1>3. CASE DeleteGraph(o)
  <2> DEFINE g == [graph EXCEPT !.root = NoWatermark, !.chunks = {}, !.links = {}]
  <2>1. g \in GraphStates /\ g.chunks = {} /\ g.links = {}
        BY <1>1 DEF GraphStates
  <2>2. graph' = g /\ Moves(o, "deleted") /\ command[o].pc \in Rebuilding
        BY <1>3 DEF DeleteGraph, At, Rebuilding
  <2> HIDE DEF g
  <2> QED BY <1>3, <2>1, <2>2, MoveInv DEF DeleteGraph
<1>4. CASE UpsertRoot(o)
  <2> DEFINE g == [graph EXCEPT !.root = command[o].watermark]
  <2>1. /\ g \in GraphStates /\ g.chunks = graph.chunks /\ g.links = graph.links
        /\ g.root = command[o].watermark
        BY <1>1 DEF GraphStates
  <2>2. /\ graph' = g /\ Moves(o, "rooted") /\ command[o].pc \in Rebuilding
        /\ graph.chunks = {} /\ graph.links = {}
        BY <1>2, <1>4 DEF UpsertRoot, At, Rebuilding, CommandFits
  <2> HIDE DEF g
  <2> QED BY <1>4, <2>1, <2>2, MoveInv DEF UpsertRoot
<1>5. CASE UpsertChunks(o)
  <2> DEFINE g == [graph EXCEPT !.chunks = @ \cup command[o].loaded]
  <2>1. /\ g \in GraphStates /\ g.chunks = graph.chunks \cup command[o].loaded
        /\ g.links = graph.links /\ g.root = graph.root
        BY <1>1 DEF GraphStates
  <2>2. /\ graph' = g /\ Moves(o, "chunked") /\ command[o].pc \in Rebuilding
        /\ graph.chunks = {} /\ graph.links = {} /\ graph.root = command[o].watermark
        BY <1>2, <1>5 DEF UpsertChunks, At, Rebuilding, CommandFits
  <2> HIDE DEF g
  <2>3. g.chunks = command[o].loaded
        BY <2>1, <2>2
  <2> QED BY <1>5, <2>1, <2>2, <2>3, MoveInv DEF UpsertChunks
<1>6. CASE UpsertLinks(o)
  <2> DEFINE links == graph.links \cup (Links(command[o].loaded) \cap Links(graph.chunks))
             g == [graph EXCEPT !.links = links]
  <2>1. links \in SUBSET GraphChunks
        BY <1>1 DEF GraphStates, Links
  <2>2. /\ graph' = [graph EXCEPT !.links = links] /\ Moves(o, "linked") /\ command[o].pc \in Rebuilding
        /\ graph.chunks = command[o].loaded /\ graph.links = {} /\ graph.root = command[o].watermark
        BY <1>1, <1>2, <1>6 DEF UpsertLinks, At, Rebuilding, CommandFits, GraphStates
  <2>3. links = Links(command[o].loaded)
        BY <2>2
  <2> HIDE DEF links
  <2>4. /\ g \in GraphStates /\ g.chunks = graph.chunks /\ g.links = links
        /\ g.root = graph.root
        BY <1>1, <2>1 DEF GraphStates
  <2>5. graph' = g
        BY <2>2
  <2> HIDE DEF g
  <2> QED BY <1>6, <2>2, <2>3, <2>4, <2>5, MoveInv DEF UpsertLinks
<1> QED BY <1>3, <1>4, <1>5, <1>6

\* A flush of a session that holds the row as it is writes the new row.
LEMMA WritesInv ==
    ASSUME GraphInv, NEW o, Operators = {o}, command[o].pc # "idle", NEW new \in Row
    PROVE  Flushed(projection, command[o].held, new) = new
<1>1. command[o].held = projection /\ projection \in Row
      BY DEF GraphInv, GraphTypeOK, CommandFits
<1> QED BY <1>1, FlushedFacts

LEMMA MarkPendingInv ==
    ASSUME GraphInv, NEW o, Operators = {o}, MarkPending(o)
    PROVE  GraphInv'
<1> DEFINE new == [status |-> "pending_backfill", watermark |-> command[o].watermark,
                   error |-> "none", indexed |-> FALSE]
           c == [command[o] EXCEPT !.held = new, !.pc = "pending"]
<1>1. command[o] \in Command /\ command[o].watermark \in Watermarks \cup {NoWatermark} /\ graph \in GraphStates
      BY CommandFacts DEF GraphInv
<1>2. new \in Row /\ new.status = "pending_backfill" /\ new.watermark = command[o].watermark
      /\ new.error = "none"
      BY <1>1 DEF Row, Statuses, Failures
<1>3. projection' = Flushed(projection, command[o].held, new) /\ command[o].pc = "read"
      /\ command' = [command EXCEPT ![o].held = new, ![o].pc = "pending"]
      /\ UNCHANGED <<stored, graph, smoke>>
      BY DEF MarkPending, Writes, At
<1> HIDE DEF new
<1>4. command' = [command EXCEPT ![o] = c]
      BY <1>3 DEF GraphInv, GraphTypeOK
<1>5. c \in Command /\ c.pc = "pending" /\ c.held = new /\ c.watermark = command[o].watermark
      BY <1>1, <1>2 DEF Command
<1> HIDE DEF c
<1>6. projection' = new
      BY <1>2, <1>3, WritesInv
<1>7. CommandFits(c, projection', graph') /\ ProjectionFits(projection', graph')
      BY <1>2, <1>5, <1>6 DEF CommandFits, ProjectionFits, Rebuilding
<1>8. projection' \in Row /\ graph' \in GraphStates /\ UNCHANGED <<stored, smoke>>
      BY <1>1, <1>2, <1>3, <1>6
<1> QED BY <1>4, <1>5, <1>7, <1>8, CommandSet, Zenon

LEMMA MarkIndexingInv ==
    ASSUME GraphInv, NEW o, Operators = {o}, MarkIndexing(o)
    PROVE  GraphInv'
<1> DEFINE held == command[o].held
           new == [held EXCEPT !.status = "indexing", !.error = "none"]
           c == [command[o] EXCEPT !.held = new, !.pc = "indexing"]
<1>1. command[o] \in Command /\ held \in Row /\ graph \in GraphStates
      BY CommandFacts DEF GraphInv
<1>2. new \in Row /\ new.status = "indexing" /\ new.watermark = held.watermark /\ new.error = "none"
      BY <1>1 DEF Row, Statuses, Failures
<1>3. projection' = Flushed(projection, command[o].held, new) /\ command[o].pc = "pending"
      /\ command' = [command EXCEPT ![o].held = new, ![o].pc = "indexing"]
      /\ UNCHANGED <<stored, graph, smoke>>
      BY DEF MarkIndexing, Writes, At
<1>4. held.watermark = command[o].watermark
      BY <1>3 DEF GraphInv, CommandFits
<1> HIDE DEF new
<1>5. command' = [command EXCEPT ![o] = c]
      BY <1>3 DEF GraphInv, GraphTypeOK
<1>6. c \in Command /\ c.pc = "indexing" /\ c.held = new /\ c.watermark = command[o].watermark
      BY <1>1, <1>2 DEF Command
<1> HIDE DEF c
<1>7. projection' = new
      BY <1>2, <1>3, WritesInv
<1>8. CommandFits(c, projection', graph') /\ ProjectionFits(projection', graph')
      BY <1>2, <1>4, <1>6, <1>7 DEF CommandFits, ProjectionFits, Rebuilding
<1>9. projection' \in Row /\ graph' \in GraphStates /\ UNCHANGED <<stored, smoke>>
      BY <1>1, <1>2, <1>3, <1>7
<1> QED BY <1>5, <1>6, <1>8, <1>9, CommandSet, Zenon

LEMMA NoCommandFacts ==
    /\ NoCommand \in Command
    /\ \A row, g : CommandFits(NoCommand, row, g)
BY DEF NoCommand, Command, CommandFits, NoRow, Row, Statuses, Failures, Rebuilding

LEMMA MarkReadyInv ==
    ASSUME GraphInv, NEW o, Operators = {o}, MarkReady(o)
    PROVE  GraphInv'
<1> DEFINE new == [status |-> "ready", watermark |-> command[o].watermark,
                   error |-> "none", indexed |-> TRUE]
           g == [graph EXCEPT !.of = command[o].loaded]
<1>1. /\ command[o].watermark \in Watermarks \cup {NoWatermark} /\ graph \in GraphStates
      /\ command[o].loaded \in SUBSET GraphChunks
      BY CommandFacts DEF GraphInv
<1>2. new \in Row /\ new.status = "ready" /\ new.watermark = command[o].watermark /\ new.error = "none"
      BY <1>1 DEF Row, Statuses, Failures
<1>3. projection' = Flushed(projection, command[o].held, new) /\ command[o].pc = "linked"
      /\ command' = [command EXCEPT ![o] = NoCommand]
      /\ graph' = g /\ UNCHANGED <<stored, smoke>>
      BY DEF MarkReady, At
<1> HIDE DEF new
<1>4. projection' = new
      BY <1>2, <1>3, WritesInv
<1>5. /\ g \in GraphStates /\ g.of = command[o].loaded /\ g.chunks = graph.chunks
      /\ g.links = graph.links /\ g.root = graph.root
      BY <1>1 DEF GraphStates
<1> HIDE DEF g
<1>6. /\ graph.chunks = command[o].loaded /\ graph.links = Links(command[o].loaded)
      /\ graph.root = command[o].watermark
      BY <1>3 DEF GraphInv, CommandFits
<1>7. ProjectionFits(projection', graph')
      BY <1>2, <1>3, <1>4, <1>5, <1>6 DEF ProjectionFits
<1> QED BY <1>2, <1>3, <1>4, <1>5, <1>7, NoCommandFacts, CommandSet

LEMMA MarkFailedInv ==
    ASSUME GraphInv, NEW o, Operators = {o}, MarkFailed(o)
    PROVE  GraphInv'
<1> DEFINE held == command[o].held
           new == [held EXCEPT !.status = "failed", !.error = command[o].failure]
<1>1. held \in Row /\ graph \in GraphStates /\ command[o].failure \in Failures
      BY CommandFacts DEF GraphInv
<1>2. new \in Row /\ new.status = "failed" /\ new.error = command[o].failure
      BY <1>1 DEF Row, Statuses
<1>3. projection' = Flushed(projection, command[o].held, new) /\ command[o].pc = "broken"
      /\ command' = [command EXCEPT ![o] = NoCommand]
      /\ UNCHANGED <<stored, graph, smoke>>
      BY DEF MarkFailed, At
<1> HIDE DEF new
<1>4. projection' = new
      BY <1>2, <1>3, WritesInv
<1>5. command[o].failure # "none"
      BY <1>3 DEF GraphInv, CommandFits
<1>6. ProjectionFits(projection', graph')
      BY <1>2, <1>4, <1>5 DEF ProjectionFits
<1> QED BY <1>1, <1>2, <1>3, <1>4, <1>6, NoCommandFacts, CommandSet

LEMMA OtherCommandInv ==
    ASSUME GraphInv, NEW o, Operators = {o},
           \/ \E w \in Watermarks : BeginBackfill(o, w)
           \/ LoadGraph(o) \/ QueryFails(o) \/ CrashCommand(o)
    PROVE  GraphInv'
<1>1. /\ command[o] \in Command /\ projection \in Row /\ graph \in GraphStates
      /\ ProjectionFits(projection, graph) /\ CommandFits(command[o], projection, graph)
      /\ stored \in SUBSET GraphChunks
      BY CommandFacts DEF GraphInv, GraphTypeOK
<1>2. UNCHANGED <<stored, projection, graph, smoke>>
      BY DEF BeginBackfill, LoadGraph, QueryFails, CrashCommand
<1>3. ASSUME NEW w \in Watermarks, BeginBackfill(o, w) PROVE GraphInv'
  <2> DEFINE c == [NoCommand EXCEPT !.pc = "read", !.watermark = w, !.held = projection]
  <2>1. command' = [command EXCEPT ![o] = c]
        BY <1>3 DEF BeginBackfill
  <2>2. c \in Command /\ c.pc = "read" /\ c.held = projection
        BY <1>1, NoCommandFacts DEF Command
  <2> HIDE DEF c
  <2>3. CommandFits(c, projection, graph)
        BY <2>2 DEF CommandFits, Rebuilding
  <2> QED BY <1>1, <1>2, <2>1, <2>2, <2>3, CommandSet
<1>4. CASE LoadGraph(o)
  <2> DEFINE c == [command[o] EXCEPT !.pc = "loaded", !.loaded = stored]
  <2>1. command' = [command EXCEPT ![o] = c] /\ command[o].pc = "indexing"
        BY <1>4 DEF LoadGraph, At, GraphInv, GraphTypeOK
  <2>2. /\ c \in Command /\ c.pc = "loaded" /\ c.held = command[o].held
        /\ c.watermark = command[o].watermark
        BY <1>1 DEF Command
  <2> HIDE DEF c
  <2>3. CommandFits(c, projection, graph)
        BY <1>1, <2>1, <2>2 DEF CommandFits, Rebuilding
  <2> QED BY <1>1, <1>2, <2>1, <2>2, <2>3, CommandSet
<1>5. CASE QueryFails(o)
  <2>1. PICK failure \in Failures \ {"none"} :
            command' = [command EXCEPT ![o].pc = "broken", ![o].failure = failure]
        BY <1>5 DEF QueryFails
  <2> DEFINE c == [command[o] EXCEPT !.pc = "broken", !.failure = failure]
  <2>2. command' = [command EXCEPT ![o] = c] /\ command[o].pc \in Rebuilding
        BY <1>5, <2>1 DEF QueryFails, GraphInv, GraphTypeOK
  <2>3. /\ c \in Command /\ c.pc = "broken" /\ c.held = command[o].held
        /\ c.watermark = command[o].watermark /\ c.failure = failure
        BY <1>1 DEF Command
  <2> HIDE DEF c
  <2>4. CommandFits(c, projection, graph)
        BY <1>1, <2>2, <2>3 DEF CommandFits, Rebuilding
  <2> QED BY <1>1, <1>2, <2>2, <2>3, <2>4, CommandSet
<1>6. CASE CrashCommand(o)
  <2>1. command' = [command EXCEPT ![o] = NoCommand]
        BY <1>6 DEF CrashCommand
  <2> QED BY <1>1, <1>2, <2>1, NoCommandFacts, CommandSet
<1> QED BY <1>3, <1>4, <1>5, <1>6

-----------------------------------------------------------------------------
(* The graph: ingestion, and the searches                                    *)

SearchSteps == AskGraph \/ ExpandSeeds \/ GraphUnavailable \/ SearchAgain

LEMMA SearchKeepsRows == SearchSteps => UNCHANGED <<stored, projection, graph, command>>
BY DEF SearchSteps, AskGraph, ExpandSeeds, GraphUnavailable, SearchAgain

Searches ==
    [pc : {"idle", "consults", "ready", "no_results", "fallback"},
     seeds : SUBSET GraphChunks, results : SUBSET GraphChunks]

LEMMA SearchTypes ==
    ASSUME GraphTypeOK, SearchSteps
    PROVE  smoke' \in Searches
<1>1. smoke \in Searches /\ stored \in SUBSET GraphChunks
      BY DEF GraphTypeOK, Searches
<1>2. CASE AskGraph
  <2>1. PICK seeds \in SUBSET stored :
            smoke' = [pc |-> IF Consulted THEN "consults" ELSE "fallback", seeds |-> seeds, results |-> {}]
        BY <1>2 DEF AskGraph
  <2> QED BY <1>1, <2>1 DEF Searches
<1>3. CASE ExpandSeeds
  <2> DEFINE results == Nearest(Near(smoke.seeds), smoke.seeds) \cap stored
  <2>1. smoke' = [smoke EXCEPT !.results = results,
                               !.pc = IF results = {} THEN "no_results" ELSE "ready"]
        BY <1>3 DEF ExpandSeeds
  <2>2. results \in SUBSET GraphChunks
        BY <1>1
  <2> HIDE DEF results
  <2> QED BY <1>1, <2>1, <2>2 DEF Searches
<1>4. CASE GraphUnavailable \/ SearchAgain
      BY <1>1, <1>4 DEF GraphUnavailable, SearchAgain, Searches
<1> QED BY <1>2, <1>3, <1>4 DEF SearchSteps

LEMMA GraphStepInv ==
    ASSUME GraphInv, NEW o, Operators = {o}, [GraphNext]_graphVars
    PROVE  GraphInv'
<1>1. CASE UNCHANGED graphVars
      BY <1>1 DEF graphVars, GraphInv, GraphTypeOK
<1>2. CASE \/ \E w \in Watermarks : BeginBackfill(o, w)
           \/ LoadGraph(o) \/ QueryFails(o) \/ CrashCommand(o)
      BY <1>2, OtherCommandInv
<1>3. CASE \E c \in GraphChunks : IndexChunk(c)
      BY <1>3 DEF IndexChunk, GraphInv, GraphTypeOK
<1>4. CASE SearchSteps
      BY <1>4, SearchKeepsRows, SearchTypes DEF GraphInv, GraphTypeOK, Searches
<1>5. CASE MarkPending(o) \/ MarkIndexing(o) \/ MarkReady(o) \/ MarkFailed(o)
      BY <1>5, MarkPendingInv, MarkIndexingInv, MarkReadyInv, MarkFailedInv
<1>6. CASE DeleteGraph(o) \/ UpsertRoot(o) \/ UpsertChunks(o) \/ UpsertLinks(o)
      BY <1>6, RebuildInv
<1> QED BY <1>1, <1>2, <1>3, <1>4, <1>5, <1>6 DEF GraphNext, SearchSteps

-----------------------------------------------------------------------------
(* The graph: types and searches, for any number of operators                *)

LEMMA FlushedType ==
    ASSUME NEW row \in Row, NEW held, NEW new \in Row
    PROVE  Flushed(row, held, new) \in Row
<1> DEFINE F(f) == IF new[f] # held[f] THEN new[f] ELSE row[f]
<1>1. DOMAIN row = {"status", "watermark", "error", "indexed"}
      BY DEF Row
<1>2. Flushed(row, held, new) = [f \in {"status", "watermark", "error", "indexed"} |-> F(f)]
      BY <1>1 DEF Flushed
<1>3. /\ F("status") \in Statuses /\ F("watermark") \in Watermarks \cup {NoWatermark}
      /\ F("error") \in Failures /\ F("indexed") \in BOOLEAN
      BY DEF Row
<1> HIDE DEF F
<1>4. [f \in {"status", "watermark", "error", "indexed"} |-> F(f)] =
          [status |-> F("status"), watermark |-> F("watermark"),
           error |-> F("error"), indexed |-> F("indexed")]
      OBVIOUS
<1> QED BY <1>2, <1>3, <1>4 DEF Row

LEMMA CommandTypes ==
    ASSUME GraphTypeOK, NEW o \in Operators,
           \/ \E w \in Watermarks : BeginBackfill(o, w)
           \/ MarkPending(o) \/ MarkIndexing(o) \/ LoadGraph(o) \/ DeleteGraph(o)
           \/ UpsertRoot(o) \/ UpsertChunks(o) \/ UpsertLinks(o)
           \/ MarkReady(o) \/ QueryFails(o) \/ MarkFailed(o) \/ CrashCommand(o)
    PROVE  /\ projection' \in Row /\ graph' \in GraphStates
           /\ command' \in [Operators -> Command]
           /\ UNCHANGED <<stored, smoke>>
<1> DEFINE c == command[o]
<1>1. /\ c \in Command /\ projection \in Row /\ graph \in GraphStates
      /\ c.watermark \in Watermarks \cup {NoWatermark}
      /\ c.held \in Row /\ c.loaded \in SUBSET GraphChunks /\ c.failure \in Failures
      /\ stored \in SUBSET GraphChunks /\ command \in [Operators -> Command]
      BY CommandFacts DEF GraphTypeOK
<1>2. ASSUME NEW pc \in {"pending", "indexing", "loaded", "deleted", "rooted", "chunked", "linked",
                         "broken"}
      PROVE  [c EXCEPT !.pc = pc] \in Command
      BY <1>1 DEF Command
<1>3. ASSUME NEW new \in Row, NEW pc \in {"pending", "indexing"}, Writes(o, new, pc)
      PROVE  projection' \in Row /\ command' \in [Operators -> Command]
  <2>1. projection' \in Row
        BY <1>1, <1>3, FlushedType DEF Writes
  <2>2. command' = [command EXCEPT ![o] = [c EXCEPT !.held = new, !.pc = pc]]
        BY <1>1, <1>3 DEF Writes
  <2>3. [c EXCEPT !.held = new, !.pc = pc] \in Command
        BY <1>1, <1>3 DEF Command
  <2> QED BY <1>1, <2>1, <2>2, <2>3
<1>4. CASE MarkPending(o)
  <2> DEFINE new == [status |-> "pending_backfill", watermark |-> c.watermark,
                     error |-> "none", indexed |-> FALSE]
  <2>1. new \in Row
        BY <1>1 DEF Row, Statuses, Failures
  <2>2. Writes(o, new, "pending") /\ UNCHANGED <<stored, graph, smoke>>
        BY <1>4 DEF MarkPending
  <2> HIDE DEF new
  <2> QED BY <1>1, <1>3, <2>1, <2>2
<1>5. CASE MarkIndexing(o)
  <2> DEFINE new == [c.held EXCEPT !.status = "indexing", !.error = "none"]
  <2>1. new \in Row
        BY <1>1 DEF Row, Statuses, Failures
  <2>2. Writes(o, new, "indexing") /\ UNCHANGED <<stored, graph, smoke>>
        BY <1>5 DEF MarkIndexing
  <2> HIDE DEF new
  <2> QED BY <1>1, <1>3, <2>1, <2>2
<1>6. CASE MarkReady(o)
  <2> DEFINE new == [status |-> "ready", watermark |-> c.watermark, error |-> "none", indexed |-> TRUE]
  <2>1. new \in Row
        BY <1>1 DEF Row, Statuses, Failures
  <2>2. projection' = Flushed(projection, c.held, new)
        BY <1>6 DEF MarkReady
  <2> HIDE DEF new
  <2>3. projection' \in Row
        BY <1>1, <2>1, <2>2, FlushedType
  <2>4. graph' \in GraphStates
        BY <1>1, <1>6 DEF MarkReady, GraphStates
  <2> QED BY <1>1, <1>6, <2>3, <2>4, NoCommandFacts DEF MarkReady
<1>7. CASE MarkFailed(o)
  <2> DEFINE new == [c.held EXCEPT !.status = "failed", !.error = c.failure]
  <2>1. new \in Row
        BY <1>1 DEF Row, Statuses
  <2>2. projection' = Flushed(projection, c.held, new)
        BY <1>7 DEF MarkFailed
  <2> HIDE DEF new
  <2>3. projection' \in Row
        BY <1>1, <2>1, <2>2, FlushedType
  <2> QED BY <1>1, <1>7, <2>3, NoCommandFacts DEF MarkFailed
<1>8. CASE \E w \in Watermarks : BeginBackfill(o, w)
  <2>1. PICK w \in Watermarks : BeginBackfill(o, w)
        BY <1>8
  <2>2. [NoCommand EXCEPT !.pc = "read", !.watermark = w, !.held = projection] \in Command
        BY <1>1, NoCommandFacts DEF Command
  <2> QED BY <1>1, <2>1, <2>2 DEF BeginBackfill
<1>9. CASE LoadGraph(o)
  <2>1. command' = [command EXCEPT ![o] = [c EXCEPT !.pc = "loaded", !.loaded = stored]]
        BY <1>1, <1>9 DEF LoadGraph
  <2>2. [c EXCEPT !.pc = "loaded", !.loaded = stored] \in Command
        BY <1>1 DEF Command
  <2> QED BY <1>1, <1>9, <2>1, <2>2 DEF LoadGraph
<1>10. CASE QueryFails(o)
  <2>1. PICK failure \in Failures :
            command' = [command EXCEPT ![o].pc = "broken", ![o].failure = failure]
        BY <1>10 DEF QueryFails
  <2>2. command' = [command EXCEPT ![o] = [c EXCEPT !.pc = "broken", !.failure = failure]]
        BY <1>1, <2>1
  <2>3. [c EXCEPT !.pc = "broken", !.failure = failure] \in Command
        BY <1>1 DEF Command
  <2> QED BY <1>1, <1>10, <2>2, <2>3 DEF QueryFails
<1>11. CASE CrashCommand(o)
      BY <1>1, <1>11, NoCommandFacts DEF CrashCommand
<1>12. ASSUME NEW pc \in {"deleted", "rooted", "chunked", "linked"}, Moves(o, pc)
       PROVE  command' \in [Operators -> Command]
  <2>1. command' = [command EXCEPT ![o] = [c EXCEPT !.pc = pc]]
        BY <1>1, <1>12 DEF Moves
  <2> QED BY <1>1, <1>2, <2>1
<1>13. CASE DeleteGraph(o) \/ UpsertRoot(o)
  <2>1. graph' \in GraphStates
        BY <1>1, <1>13 DEF DeleteGraph, UpsertRoot, GraphStates
  <2> QED BY <1>1, <1>12, <1>13, <2>1 DEF DeleteGraph, UpsertRoot
<1>14. CASE UpsertChunks(o)
  <2>1. graph.chunks \cup c.loaded \in SUBSET GraphChunks
        BY <1>1 DEF GraphStates
  <2>2. graph' = [graph EXCEPT !.chunks = graph.chunks \cup c.loaded]
        BY <1>1, <1>14 DEF UpsertChunks, GraphStates
  <2>3. graph' \in GraphStates
        BY <1>1, <2>1, <2>2 DEF GraphStates
  <2> QED BY <1>1, <1>12, <1>14, <2>3 DEF UpsertChunks
<1>15. CASE UpsertLinks(o)
  <2> DEFINE links == graph.links \cup (Links(c.loaded) \cap Links(graph.chunks))
  <2>1. links \in SUBSET GraphChunks
        BY <1>1 DEF GraphStates, Links
  <2>2. graph' = [graph EXCEPT !.links = links]
        BY <1>1, <1>15 DEF UpsertLinks, GraphStates
  <2> HIDE DEF links
  <2>3. graph' \in GraphStates
        BY <1>1, <2>1, <2>2 DEF GraphStates
  <2> QED BY <1>1, <1>12, <1>15, <2>3 DEF UpsertLinks
<1> QED BY <1>4, <1>5, <1>6, <1>7, <1>8, <1>9, <1>10, <1>11, <1>13, <1>14, <1>15

\* A search that consults the graph has no more seeds than its limit.
SeedsWithinLimit == smoke.pc = "consults" => Cardinality(smoke.seeds) <= GraphLimit

SearchInv == GraphTypeOK /\ SeedsWithinLimit

LEMMA SearchInitInv == GraphInit => SearchInv
<1> SUFFICES ASSUME GraphInit PROVE SearchInv
    OBVIOUS
<1>1. SeedsWithinLimit
      BY DEF GraphInit, SeedsWithinLimit
<1>2. GraphTypeOK
      BY NoCommandFacts DEF GraphInit, GraphTypeOK, NoRow, Row, Statuses, Failures
<1> QED BY <1>1, <1>2 DEF SearchInv

LEMMA SearchStepInv ==
    ASSUME SearchInv, [GraphNext]_graphVars
    PROVE  SearchInv'
<1>1. CASE UNCHANGED graphVars
      BY <1>1 DEF graphVars, SearchInv, GraphTypeOK, SeedsWithinLimit
<1>2. ASSUME NEW o \in Operators,
             \/ \E w \in Watermarks : BeginBackfill(o, w)
             \/ MarkPending(o) \/ MarkIndexing(o) \/ LoadGraph(o) \/ DeleteGraph(o)
             \/ UpsertRoot(o) \/ UpsertChunks(o) \/ UpsertLinks(o)
             \/ MarkReady(o) \/ QueryFails(o) \/ MarkFailed(o) \/ CrashCommand(o)
      PROVE  SearchInv'
  <2>1. /\ projection' \in Row /\ graph' \in GraphStates
        /\ command' \in [Operators -> Command] /\ UNCHANGED <<stored, smoke>>
        BY <1>2, CommandTypes DEF SearchInv
  <2> QED BY <2>1 DEF SearchInv, GraphTypeOK, GraphStates, SeedsWithinLimit
<1>3. CASE \E c \in GraphChunks : IndexChunk(c)
      BY <1>3 DEF IndexChunk, SearchInv, GraphTypeOK, SeedsWithinLimit
<1>4. CASE SearchSteps
  <2>1. GraphTypeOK'
        BY <1>4, SearchKeepsRows, SearchTypes DEF SearchInv, GraphTypeOK, Searches
  <2>2. SeedsWithinLimit'
    <3>1. smoke \in Searches
          BY DEF SearchInv, GraphTypeOK, Searches
    <3>2. CASE AskGraph
      <4>1. PICK seeds \in SUBSET stored :
               /\ Cardinality(seeds) <= GraphLimit
               /\ smoke' = [pc |-> IF Consulted THEN "consults" ELSE "fallback",
                            seeds |-> seeds, results |-> {}]
            BY <3>2 DEF AskGraph
      <4>2. smoke'.seeds = seeds
            BY <4>1
      <4> QED BY <4>1, <4>2 DEF SeedsWithinLimit
    <3>3. CASE ExpandSeeds
      <4>1. smoke'.pc # "consults"
            BY <3>1, <3>3 DEF ExpandSeeds, Searches
      <4> QED BY <4>1 DEF SeedsWithinLimit
    <3>4. CASE GraphUnavailable
      <4>1. smoke'.pc # "consults"
            BY <3>1, <3>4 DEF GraphUnavailable, Searches
      <4> QED BY <4>1 DEF SeedsWithinLimit
    <3>5. CASE SearchAgain
          BY <3>5 DEF SearchAgain, SeedsWithinLimit
    <3> QED BY <1>4, <3>2, <3>3, <3>4, <3>5 DEF SearchSteps
  <2> QED BY <2>1, <2>2 DEF SearchInv
<1> QED BY <1>1, <1>2, <1>3, <1>4 DEF GraphNext, SearchSteps

\* Of few seeds each is among the nearest: only seeds come before a seed.
LEMMA SeedsAreNearest ==
    ASSUME NEW among \in SUBSET GraphChunks, NEW seeds \in SUBSET GraphChunks,
           Cardinality(seeds) <= GraphLimit, NEW c \in seeds \cap among
    PROVE  c \in Nearest(among, seeds)
<1> DEFINE Before(d, e) == \/ d \in seeds /\ e \notin seeds
                           \/ (d \in seeds <=> e \in seeds) /\ d < e
           before == {d \in among : Before(d, c)}
<1>1. GraphChunks \subseteq Int /\ IsFiniteSet(GraphChunks)
      BY GraphAssumption, FS_Interval DEF GraphChunks
<1>2. before \subseteq seeds \ {c}
      BY <1>1
<1>3. IsFiniteSet(seeds) /\ Cardinality(seeds) \in Nat
      BY <1>1, FS_Subset, FS_CardinalityType
<1>4. IsFiniteSet(seeds \ {c}) /\ Cardinality(seeds \ {c}) = Cardinality(seeds) - 1
      BY <1>3, FS_RemoveElement
<1> HIDE DEF before
<1>5. Cardinality(before) \in Nat /\ Cardinality(before) <= Cardinality(seeds \ {c})
      BY <1>2, <1>4, FS_Subset, FS_CardinalityType
<1>6. Cardinality(before) < GraphLimit
      BY <1>3, <1>4, <1>5, GraphAssumption
<1> QED BY <1>6 DEF Nearest, before

LEMMA SearchStepSeeds ==
    ASSUME SearchInv, [GraphNext]_graphVars,
           smoke.pc = "consults", smoke'.pc \in {"ready", "no_results"}
    PROVE  /\ (smoke.seeds \cap graph.chunks \cap stored) \subseteq smoke'.results
           /\ smoke'.results \subseteq Near(smoke.seeds) \cap stored
<1>1. /\ smoke \in Searches /\ smoke.seeds \in SUBSET GraphChunks
      /\ graph.chunks \in SUBSET GraphChunks
      BY DEF SearchInv, GraphTypeOK, Searches
<1>2. smoke' # smoke
      OBVIOUS
<1>3. ExpandSeeds
  <2>1. \A o \in Operators, w \in Watermarks : ~BeginBackfill(o, w)
        BY <1>2 DEF BeginBackfill
  <2>2. \A o \in Operators :
            /\ ~MarkPending(o) /\ ~MarkIndexing(o) /\ ~LoadGraph(o) /\ ~DeleteGraph(o)
            /\ ~UpsertRoot(o) /\ ~UpsertChunks(o) /\ ~UpsertLinks(o)
            /\ ~MarkReady(o) /\ ~QueryFails(o) /\ ~MarkFailed(o) /\ ~CrashCommand(o)
        BY <1>2 DEF MarkPending, MarkIndexing, LoadGraph, DeleteGraph, UpsertRoot, UpsertChunks,
                    UpsertLinks, MarkReady, QueryFails, MarkFailed, CrashCommand
  <2>3. \A c \in GraphChunks : ~IndexChunk(c)
        BY <1>2 DEF IndexChunk
  <2>4. ~AskGraph /\ ~SearchAgain /\ ~GraphUnavailable
        BY <1>1 DEF AskGraph, SearchAgain, GraphUnavailable, Searches
  <2>5. ~UNCHANGED graphVars
        BY <1>2 DEF graphVars
  <2> QED BY <2>1, <2>2, <2>3, <2>4, <2>5 DEF GraphNext
<1> DEFINE near == Near(smoke.seeds)
           results == Nearest(near, smoke.seeds) \cap stored
<1>4. smoke' = [smoke EXCEPT !.results = results,
                             !.pc = IF results = {} THEN "no_results" ELSE "ready"]
      BY <1>3 DEF ExpandSeeds
<1>5. near \in SUBSET GraphChunks /\ smoke.seeds \cap graph.chunks \subseteq near
      BY <1>1 DEF Near
<1>6. results \subseteq near \cap stored
      BY DEF Nearest
<1> HIDE DEF near
<1>7. \A c \in smoke.seeds \cap near : c \in Nearest(near, smoke.seeds)
      BY <1>1, <1>5, SeedsAreNearest DEF SearchInv, SeedsWithinLimit
<1>8. (smoke.seeds \cap graph.chunks \cap stored) \subseteq results
      BY <1>5, <1>7
<1> HIDE DEF results
<1>9. smoke'.results = results
      BY <1>1, <1>4 DEF Searches
<1> QED BY <1>6, <1>8, <1>9 DEF near

-----------------------------------------------------------------------------
(* The graph: the theorems                                                   *)

\* The row of readiness, the graph, the processes of any number of operators and
\* the searches are always of their types.
THEOREM GraphTypeCorrect == GraphSpec => []GraphTypeOK
<1>1. SearchInv /\ [GraphNext]_graphVars => SearchInv'
      BY SearchStepInv
<1> QED BY <1>1, SearchInitInv, PTL DEF GraphSpec, SearchInv

\* However many operators rebuild the graph, a search that is answered by it loses
\* no seed that the graph and the tables have, and goes no farther than a link.
THEOREM SearchesKeepSeeds == GraphSpec => SeedsFirst
<1> DEFINE Kept == smoke.pc = "consults" /\ smoke'.pc \in {"ready", "no_results"} =>
                       /\ (smoke.seeds \cap graph.chunks \cap stored) \subseteq smoke'.results
                       /\ smoke'.results \subseteq Near(smoke.seeds) \cap stored
<1>1. SearchInv /\ [GraphNext]_graphVars => SearchInv' /\ Kept
      BY SearchStepInv, SearchStepSeeds
<1> HIDE DEF Kept
<1>2. GraphSpec => [][Kept]_graphVars
      BY <1>1, SearchInitInv, PTL DEF GraphSpec
<1> QED BY <1>2, PTL DEF SeedsFirst, Kept

\* While one operator rebuilds the graph, over and over, whatever fails or crashes
\* in the middle and whatever is ingested meanwhile: a row that says "ready" is
\* that of a whole snapshot (two operators at once are a hazard that the code
\* leaves open, graph/operations.py).
THEOREM GraphIsAlwaysWhole ==
    ASSUME NEW o, Operators = {o}
    PROVE  GraphSpec => GraphIsWhole
<1>1. GraphInv /\ [GraphNext]_graphVars => GraphInv'
      BY GraphStepInv
<1>2. GraphInv => ReadyIsComplete /\ ErrorIsOfFailure
      BY DEF GraphInv, ProjectionFits, ReadyIsComplete, ErrorIsOfFailure, Consulted
<1>3. GraphSpec => [](ReadyIsComplete /\ ErrorIsOfFailure)
      BY <1>1, <1>2, GraphInitInv, PTL DEF GraphSpec
<1> QED BY <1>3, SearchesKeepSeeds, PTL DEF GraphIsWhole

-----------------------------------------------------------------------------
(* The index: the invariant                                                  *)

\* A run that found chunks has their summaries; one that found none is alone with
\* those it makes.  What it read has dense vectors only where it has chunks.
KnowsChunks(mine, idx) ==
    /\ mine.own.chunked /\ mine.own.summary \in [Ordinals -> Models]
    /\ mine.seen.chunked => idx.chunked /\ mine.own.summary = idx.summary
    /\ ~mine.seen.chunked => ~idx.chunked
    /\ \A c \in Ordinals : mine.seen.dense[c] # Nothing => mine.seen.chunked

AskedModel(mine) == IF mine.step = "dense" THEN mine.models.dense ELSE mine.models.sparse

\* The vectors are those of the chunks asked so far, or fewer.
HasVectors(mine) ==
    /\ mine.asked <= Len(mine.pending)
    /\ \A i, j \in 1..Len(mine.pending) : mine.pending[i] = mine.pending[j] => i = j
    /\ Len(mine.vectors) <= mine.asked
    /\ Len(mine.vectors) = mine.asked =>
           \A i \in 1..mine.asked :
               mine.vectors[i] = VectorOf(mine.own, mine.pending[i], AskedModel(mine))

\* What is not pending is current.
Covers(mine, idx) ==
    /\ mine.step = "dense" =>
           /\ mine.own.dense = mine.seen.dense
           /\ \A c \in Ordinals :
                  c \in ToSet(mine.pending) \/ DenseIsCurrent(mine.own, c, mine.models)
    /\ mine.step = "sparse" =>
           \A c \in Ordinals :
               /\ DenseIsCurrent(mine.own, c, mine.models)
               /\ c \in ToSet(mine.pending) \/ SparseIsCurrent(mine.own, c, mine.models)
               /\ mine.own.sparse[c] # {} => idx.chunked

Embeds(mine) == mine.step \in {"dense", "sparse"}

RunFits(mine, idx) == Embeds(mine) => KnowsChunks(mine, idx) /\ HasVectors(mine) /\ Covers(mine, idx)

OneSparseRow == \A c \in Ordinals : \A v, w \in indexed.sparse[c] : v = w

OneCreator == \A r, q \in Runs : Creates(r) /\ Creates(q) => r = q

IndexInv ==
    /\ IndexingTypeOK
    /\ VectorsMatchChunks /\ NothingPartial
    /\ OneSparseRow /\ OneCreator
    /\ \A r \in Runs : RunFits(run[r], indexed)

-----------------------------------------------------------------------------
(* The index: sequences in order                                             *)

\* InOrder lists the numbers of a finite set, each once, and each in the place of
\* its rank.
LEMMA OrderFacts ==
    ASSUME NEW S \in SUBSET Int, IsFiniteSet(S)
    PROVE  /\ Cardinality(S) \in Nat
           /\ InOrder(S) \in Seq(S) /\ Len(InOrder(S)) = Cardinality(S)
           /\ \A i \in 1..Cardinality(S) :
                  InOrder(S)[i] \in S /\ Cardinality({d \in S : d <= InOrder(S)[i]}) = i
           /\ \A i, j \in 1..Cardinality(S) : InOrder(S)[i] = InOrder(S)[j] => i = j
           /\ \A c \in S : \E i \in 1..Cardinality(S) : InOrder(S)[i] = c
<1> DEFINE Below(c) == {d \in S : d <= c}
           n == Cardinality(S)
           rank == [c \in S |-> Cardinality(Below(c))]
<1>1. n \in Nat
      BY FS_CardinalityType
<1>2. \A c \in S : /\ IsFiniteSet(Below(c)) /\ Cardinality(Below(c)) \in Nat
                   /\ Cardinality(Below(c)) \in 1..n
  <2> SUFFICES ASSUME NEW c \in S
               PROVE  /\ IsFiniteSet(Below(c)) /\ Cardinality(Below(c)) \in Nat
                      /\ Cardinality(Below(c)) \in 1..n
      OBVIOUS
  <2>0. S \subseteq Int /\ c \in S
        OBVIOUS
  <2>1. Below(c) \subseteq S /\ c \in Below(c)
        BY <2>0 DEF Below
  <2> HIDE DEF Below
  <2>2. IsFiniteSet(Below(c)) /\ Cardinality(Below(c)) <= n
        BY <2>1, FS_Subset
  <2>3. Cardinality(Below(c)) \in Nat /\ Cardinality(Below(c)) # 0
        BY <2>1, <2>2, FS_CardinalityType, FS_EmptySet
  <2> QED BY <1>1, <2>2, <2>3
<1>3. \A c, d \in S : c < d => Cardinality(Below(c)) < Cardinality(Below(d))
  <2> SUFFICES ASSUME NEW c \in S, NEW d \in S, c < d
               PROVE  Cardinality(Below(c)) < Cardinality(Below(d))
      OBVIOUS
  <2>0. S \subseteq Int /\ c \in Int /\ d \in Int
        OBVIOUS
  <2>1. /\ \A e \in Below(c) : e \in Int /\ e # d /\ e \in Below(d)
        /\ d \in Below(d)
        BY <2>0 DEF Below
  <2>2. Below(c) \subseteq Below(d) \ {d}
        BY <2>1
  <2> HIDE DEF Below
  <2>3. /\ IsFiniteSet(Below(d) \ {d})
        /\ Cardinality(Below(d) \ {d}) = Cardinality(Below(d)) - 1
        BY <1>2, <2>1, FS_RemoveElement
  <2>4. Cardinality(Below(c)) <= Cardinality(Below(d) \ {d})
        BY <2>2, <2>3, FS_Subset
  <2> QED BY <1>2, <2>3, <2>4
<1> HIDE DEF Below
<1>4. rank \in [S -> 1..n] /\ \A c, d \in S : rank[c] = rank[d] => c = d
      BY <1>2, <1>3
<1>5. rank \in Injection(S, 1..n)
      BY <1>4 DEF Injection, IsInjective
<1>6. IsFiniteSet(1..n) /\ Cardinality(1..n) = n
      BY <1>1, FS_Interval
<1>7. rank \in Surjection(S, 1..n)
      BY <1>5, <1>6, FS_Injection
<1>8. \A i \in 1..n : \E c \in S : Cardinality(Below(c)) = i
      BY <1>7 DEF Surjection
<1>9. InOrder(S) = [i \in 1..n |-> CHOOSE c \in S : Cardinality(Below(c)) = i]
      BY DEF InOrder, Below
<1> HIDE DEF n
<1>10. \A i \in 1..n : InOrder(S)[i] \in S /\ Cardinality(Below(InOrder(S)[i])) = i
  <2> SUFFICES ASSUME NEW i \in 1..n
               PROVE  InOrder(S)[i] \in S /\ Cardinality(Below(InOrder(S)[i])) = i
      OBVIOUS
  <2>1. InOrder(S)[i] = CHOOSE c \in S : Cardinality(Below(c)) = i
        BY <1>9
  <2>2. \E c \in S : Cardinality(Below(c)) = i
        BY <1>8
  <2> QED BY <2>1, <2>2
<1>11. InOrder(S) \in [1..n -> S]
       BY <1>9, <1>10
<1>12. InOrder(S) \in Seq(S) /\ Len(InOrder(S)) = n
       BY <1>1, <1>11
<1>13. \A i, j \in 1..n : InOrder(S)[i] = InOrder(S)[j] => i = j
       BY <1>10
<1>14. \A c \in S : \E i \in 1..n : InOrder(S)[i] = c
  <2> SUFFICES ASSUME NEW c \in S
               PROVE  \E i \in 1..n : InOrder(S)[i] = c
      OBVIOUS
  <2> DEFINE i == Cardinality(Below(c))
  <2>1. i \in 1..n
        BY <1>2
  <2>2. InOrder(S)[i] \in S /\ Cardinality(Below(InOrder(S)[i])) = Cardinality(Below(c))
        BY <1>10, <2>1
  <2>3. InOrder(S)[i] = c
    <3> DEFINE e == InOrder(S)[i]
    <3>1. e \in S /\ Cardinality(Below(e)) = Cardinality(Below(c))
          BY <2>2
    <3> HIDE DEF e, i
    <3>2. e \in Int /\ c \in Int /\ Cardinality(Below(c)) \in Int /\ Cardinality(Below(e)) \in Int
          BY <1>2, <3>1
    <3>3. ~(e < c) /\ ~(c < e)
          BY <1>3, <3>1, <3>2
    <3>4. e = c
          BY <3>2, <3>3
    <3> QED BY <3>4 DEF e
  <2> QED BY <2>1, <2>3
<1> QED BY <1>1, <1>10, <1>12, <1>13, <1>14 DEF n, Below

LEMMA OrderOfInterval ==
    ASSUME NEW n \in Nat
    PROVE  \A i \in 1..n : InOrder(1..n)[i] = i
<1> SUFFICES ASSUME NEW i \in 1..n
             PROVE  InOrder(1..n)[i] = i
    OBVIOUS
<1>1. IsFiniteSet(1..n) /\ Cardinality(1..n) = n
      BY FS_Interval
<1> DEFINE c == InOrder(1..n)[i]
<1>2. c \in 1..n /\ Cardinality({d \in 1..n : d <= c}) = i
  <2>1. 1..n \in SUBSET Int
        OBVIOUS
  <2>2. \A k \in 1..Cardinality(1..n) :
            InOrder(1..n)[k] \in 1..n /\ Cardinality({d \in 1..n : d <= InOrder(1..n)[k]}) = k
        BY <1>1, <2>1, OrderFacts
  <2> QED BY <1>1, <2>2
<1> HIDE DEF c
<1>3. {d \in 1..n : d <= c} = 1..c
      BY <1>2
<1>4. Cardinality(1..c) = c
      BY <1>2, FS_Interval
<1>5. c = i
      BY <1>2, <1>3, <1>4
<1> QED BY <1>5 DEF c

-----------------------------------------------------------------------------
(* The index: a call of the provider                                         *)

\* The items of an answer, read in order, are places of the batch, and are all of
\* its places unless one is missing.
LEMMA AnswerFacts ==
    ASSUME NEW n \in Nat \ {0}, NEW answer \in AnswersTo(n)
    PROVE  /\ SortedItems(answer) \in Seq(1..n)
           /\ Len(SortedItems(answer)) <= n
           /\ Len(SortedItems(answer)) = n =>
                  \A i \in 1..n : SortedItems(answer)[i] = i
<1>1. PICK k \in {n - 1, n} : /\ answer \in [1..k -> 1..n]
                              /\ \A i, j \in 1..k : answer[i] = answer[j] => i = j
      BY DEF AnswersTo
<1> DEFINE S == ToSet(answer)
<1>2. S \subseteq 1..n /\ S = {answer[i] : i \in 1..k}
      BY <1>1 DEF ToSet
<1>3. IsFiniteSet(1..n) /\ Cardinality(1..n) = n
      BY FS_Interval
<1> HIDE DEF S
<1>4. IsFiniteSet(S) /\ Cardinality(S) <= n /\ (Cardinality(S) = n => S = 1..n)
      BY <1>2, <1>3, FS_Subset
<1>5. /\ InOrder(S) \in Seq(S) /\ Len(InOrder(S)) = Cardinality(S)
      BY <1>2, <1>4, OrderFacts
<1>6. InOrder(S) \in Seq(1..n)
      BY <1>2, <1>5, SeqMonotonic
<1>7. Cardinality(S) = n => \A i \in 1..n : InOrder(S)[i] = i
      BY <1>4, OrderOfInterval
<1> QED BY <1>4, <1>5, <1>6, <1>7 DEF SortedItems, S

EmbeddingRuns ==
    [step : {"dense", "sparse"}, models : Models3, seen : Index, own : Index,
     pending : Seq(Ordinals), asked : 0..LastOrdinal, vectors : Seq(Vector),
     tries : 0..MaxRetries]

LEMMA RunTypes ==
    ASSUME IndexingTypeOK, NEW r \in Runs, Embeds(run[r])
    PROVE  /\ run[r] \in EmbeddingRuns /\ run[r] \in Run
           /\ run[r].models \in Models3 /\ run[r].seen \in Index /\ run[r].own \in Index
           /\ run[r].pending \in Seq(Ordinals) /\ run[r].asked \in 0..LastOrdinal
           /\ run[r].vectors \in Seq(Vector) /\ run[r].tries \in 0..MaxRetries
<1>1. run[r] \in EmbeddingRuns
      BY DEF IndexingTypeOK, Run, Embeds, EmbeddingRuns
<1> QED BY <1>1 DEF IndexingTypeOK, EmbeddingRuns

LEMMA BatchFacts ==
    ASSUME IndexingTypeOK, NEW r \in Runs, MoreToAsk(r)
    PROVE  /\ Batch(r) \in Seq(Ordinals) /\ Len(Batch(r)) \in Nat \ {0}
           /\ run[r].asked + Len(Batch(r)) <= Len(run[r].pending)
           /\ \A i \in 1..Len(Batch(r)) : Batch(r)[i] = run[r].pending[run[r].asked + i]
<1> DEFINE pending == run[r].pending
           asked == run[r].asked
           last == IF asked + BatchSize < Len(pending) THEN asked + BatchSize ELSE Len(pending)
<1>1. pending \in Seq(Ordinals) /\ asked \in Nat /\ asked < Len(pending) /\ Len(pending) \in Nat
      BY RunTypes DEF MoreToAsk, Embeds
<1>2. Batch(r) = SubSeq(pending, asked + 1, last)
      BY DEF Batch
<1> HIDE DEF pending, asked
<1>3. last \in Nat /\ asked + 1 <= last /\ last <= Len(pending)
      BY <1>1, IndexingAssumption
<1> HIDE DEF last
<1>4. \A i \in (asked + 1)..last : pending[i] \in Ordinals
      BY <1>1, <1>3, ElementOfSeq
<1>5. /\ Batch(r) \in Seq(Ordinals) /\ Len(Batch(r)) = last - asked
      /\ \A i \in 1..(last - asked) : Batch(r)[i] = pending[asked + i]
  <2>1. /\ SubSeq(pending, asked + 1, last) \in Seq(Ordinals)
        /\ Len(SubSeq(pending, asked + 1, last)) = last - (asked + 1) + 1
        /\ \A i \in 1..(last - (asked + 1) + 1) :
               SubSeq(pending, asked + 1, last)[i] = pending[asked + 1 + i - 1]
        BY <1>1, <1>3, <1>4, SubSeqProperties
  <2>2. last - (asked + 1) + 1 = last - asked /\ \A i \in Nat : asked + 1 + i - 1 = asked + i
        BY <1>1, <1>3
  <2> QED BY <1>2, <2>1, <2>2
<1> QED BY <1>1, <1>3, <1>5 DEF pending, asked

LEMMA PendingIsShort ==
    ASSUME NEW pending \in Seq(Ordinals),
           \A i, j \in 1..Len(pending) : pending[i] = pending[j] => i = j
    PROVE  Len(pending) <= LastOrdinal
<1>1. Len(pending) \in Nat /\ pending \in [1..Len(pending) -> Ordinals]
      BY LenProperties
<1>2. /\ IsFiniteSet(1..Len(pending)) /\ Cardinality(1..Len(pending)) = Len(pending)
      /\ IsFiniteSet(Ordinals) /\ Cardinality(Ordinals) = LastOrdinal
  <2>1. Len(pending) \in Nat /\ LastOrdinal \in Nat
        BY <1>1, IndexingAssumption
  <2>2. \A n \in Nat : IsFiniteSet(1..n) /\ Cardinality(1..n) = n
        BY FS_Interval
  <2> QED BY <2>1, <2>2 DEF Ordinals
<1>3. pending \in Injection(1..Len(pending), Ordinals)
      BY <1>1 DEF Injection, IsInjective
<1> QED BY <1>2, <1>3, FS_Injection

-----------------------------------------------------------------------------
(* The index: the steps of a run                                             *)

\* A step that changes one run, and no table.
LEMMA UpdateRun ==
    ASSUME IndexInv, NEW r \in Runs, NEW new \in Run,
           run' = [run EXCEPT ![r] = new],
           indexed' = indexed, slots' = slots, edits' = edits, starts' \in 0..LastStart,
           RunFits(new, indexed),
           Embeds(new) /\ ~new.seen.chunked => \A q \in Runs \ {r} : ~Creates(q)
    PROVE  IndexInv'
<1>1. /\ run \in [Runs -> Run] /\ run' \in [Runs -> Run] /\ run'[r] = new
      /\ \A q \in Runs \ {r} : run'[q] = run[q]
      BY DEF IndexInv, IndexingTypeOK
<1>2. IndexingTypeOK'
      BY <1>1 DEF IndexInv, IndexingTypeOK
<1>3. VectorsMatchChunks' /\ NothingPartial' /\ OneSparseRow'
      BY DEF IndexInv, VectorsMatchChunks, NothingPartial, OneSparseRow
<1>4. \A q \in Runs : RunFits(run[q], indexed)'
  <2> SUFFICES ASSUME NEW q \in Runs PROVE RunFits(run'[q], indexed')
      OBVIOUS
  <2>1. RunFits(run[q], indexed)
        BY DEF IndexInv
  <2> QED BY <1>1, <2>1
<1>5. OneCreator'
  <2> SUFFICES ASSUME NEW p \in Runs, NEW q \in Runs, Creates(p)', Creates(q)'
               PROVE  p = q
      BY DEF OneCreator
  <2>1. \A s \in Runs \ {r} : Creates(s)' => Creates(s)
        BY <1>1 DEF Creates
  <2>2. Creates(r)' => \A s \in Runs \ {r} : ~Creates(s)
        BY <1>1 DEF Creates, Embeds
  <2> QED BY <2>1, <2>2 DEF IndexInv, OneCreator
<1> QED BY <1>2, <1>3, <1>4, <1>5 DEF IndexInv

LEMMA FailRunInv ==
    ASSUME IndexInv, NEW r \in Runs, FailRun(r)
    PROVE  IndexInv'
<1>1. IdleRun \in Run /\ IdleRun.step = "idle"
      BY DEF IdleRun, Run
<1>2. RunFits(IdleRun, indexed) /\ ~Embeds(IdleRun)
      BY <1>1 DEF RunFits, Embeds
<1> QED BY <1>1, <1>2, UpdateRun DEF FailRun, IndexInv, IndexingTypeOK

LEMMA RetryCallInv ==
    ASSUME IndexInv, NEW r \in Runs, RetryCall(r)
    PROVE  IndexInv'
<1> DEFINE new == [run[r] EXCEPT !.tries = run[r].tries + 1]
<1>1. /\ run \in [Runs -> Run] /\ Embeds(run[r]) /\ run[r].tries < MaxRetries
      /\ MaxRetries \in Nat /\ IndexingTypeOK
      BY IndexingAssumption DEF IndexInv, IndexingTypeOK, RetryCall, MoreToAsk, Embeds
<1>2. run[r] \in EmbeddingRuns /\ run[r].tries \in 0..MaxRetries
      BY <1>1, RunTypes
<1>3. run' = [run EXCEPT ![r] = new]
      BY DEF RetryCall
<1>4. /\ new \in EmbeddingRuns
      /\ new.step = run[r].step /\ new.models = run[r].models /\ new.seen = run[r].seen
      /\ new.own = run[r].own /\ new.pending = run[r].pending /\ new.asked = run[r].asked
      /\ new.vectors = run[r].vectors
      BY <1>1, <1>2 DEF EmbeddingRuns
<1> HIDE DEF new
<1>5. new \in Run
      BY <1>4 DEF Run, EmbeddingRuns
<1>6. RunFits(new, indexed)
      BY <1>4 DEF IndexInv, RunFits, Embeds, KnowsChunks, HasVectors, Covers, AskedModel
<1>7. Embeds(new) /\ ~new.seen.chunked => \A q \in Runs \ {r} : ~Creates(q)
      BY <1>1, <1>4 DEF IndexInv, OneCreator, Creates, Embeds
<1> QED BY <1>3, <1>5, <1>6, <1>7, UpdateRun DEF RetryCall, IndexInv, IndexingTypeOK

\* The vectors of one more batch.
LEMMA ExtractedFacts ==
    ASSUME IndexInv, NEW r \in Runs, MoreToAsk(r), NEW answer \in AnswersTo(Len(Batch(r)))
    PROVE  /\ Extracted(r, answer) \in Seq(Vector)
           /\ Len(Extracted(r, answer)) <= Len(Batch(r))
           /\ Len(Extracted(r, answer)) = Len(Batch(r)) =>
                  \A i \in 1..Len(Batch(r)) :
                      Extracted(r, answer)[i] =
                          VectorOf(run[r].own, run[r].pending[run[r].asked + i], AskedModel(run[r]))
<1> DEFINE batch == Batch(r)
           n == Len(batch)
           places == SortedItems(answer)
           own == run[r].own
           model == AskedModel(run[r])
<1>1. Embeds(run[r]) /\ IndexingTypeOK /\ own.summary \in [Ordinals -> Models]
      BY DEF MoreToAsk, Embeds, IndexInv, RunFits, KnowsChunks
<1>2. /\ batch \in Seq(Ordinals) /\ n \in Nat \ {0}
      /\ \A i \in 1..n : batch[i] = run[r].pending[run[r].asked + i]
      BY <1>1, BatchFacts
<1>3. model \in Models
      BY <1>1, RunTypes DEF AskedModel, Models3
<1>4. /\ places \in Seq(1..n) /\ Len(places) <= n
      /\ Len(places) = n => \A i \in 1..n : places[i] = i
      BY <1>2, AnswerFacts
<1>5. Extracted(r, answer) =
          [i \in DOMAIN places |-> VectorOf(own, batch[places[i]], model)]
      BY DEF Extracted, ModelAsked, AskedModel
<1> HIDE DEF batch, n, places, own, model
<1>6. /\ Len(places) \in Nat /\ DOMAIN places = 1..Len(places)
      /\ \A i \in 1..Len(places) : places[i] \in 1..n
      BY <1>4, LenProperties
<1>7. \A i \in 1..n : batch[i] \in Ordinals
      BY <1>2, ElementOfSeq DEF n
<1>8. \A i \in 1..Len(places) : VectorOf(own, batch[places[i]], model) \in Vector
      BY <1>1, <1>3, <1>6, <1>7 DEF VectorOf, Vector
<1>9. /\ Extracted(r, answer) \in [1..Len(places) -> Vector]
      /\ \A i \in 1..Len(places) :
             Extracted(r, answer)[i] = VectorOf(own, batch[places[i]], model)
      BY <1>5, <1>6, <1>8
<1>10. Extracted(r, answer) \in Seq(Vector) /\ Len(Extracted(r, answer)) = Len(places)
       BY <1>6, <1>9
<1>11. Len(places) = n =>
           \A i \in 1..n : Extracted(r, answer)[i] =
                              VectorOf(own, run[r].pending[run[r].asked + i], model)
       BY <1>2, <1>4, <1>9
<1> QED BY <1>4, <1>10, <1>11 DEF n, batch, own, model

LEMMA BatchAnsweredInv ==
    ASSUME IndexInv, NEW r \in Runs, BatchAnswered(r)
    PROVE  IndexInv'
<1>1. PICK answer \in AnswersTo(Len(Batch(r))) :
          run' = [run EXCEPT ![r].asked = @ + Len(Batch(r)),
                             ![r].vectors = @ \o Extracted(r, answer),
                             ![r].tries = 0]
      BY DEF BatchAnswered
<1> DEFINE n == Len(Batch(r))
           items == Extracted(r, answer)
           mine == run[r]
           new == [mine EXCEPT !.asked = mine.asked + n, !.vectors = mine.vectors \o items,
                               !.tries = 0]
<1>2. /\ run \in [Runs -> Run] /\ Embeds(mine) /\ IndexingTypeOK /\ MoreToAsk(r)
      /\ RunFits(mine, indexed) /\ MaxRetries \in Nat
      BY IndexingAssumption DEF IndexInv, IndexingTypeOK, BatchAnswered, MoreToAsk, Embeds
<1>3. /\ mine \in EmbeddingRuns /\ mine.pending \in Seq(Ordinals) /\ mine.asked \in 0..LastOrdinal
      /\ mine.vectors \in Seq(Vector)
      BY <1>2, RunTypes
<1>4. /\ n \in Nat \ {0} /\ mine.asked + n <= Len(mine.pending)
      BY <1>2, BatchFacts
<1>5. /\ items \in Seq(Vector) /\ Len(items) <= n
      /\ Len(items) = n =>
             \A i \in 1..n : items[i] = VectorOf(mine.own, mine.pending[mine.asked + i], AskedModel(mine))
      BY <1>2, ExtractedFacts
<1>6. HasVectors(mine) /\ KnowsChunks(mine, indexed) /\ Covers(mine, indexed)
      BY <1>2 DEF RunFits
<1>7. Len(mine.pending) \in Nat /\ Len(mine.pending) <= LastOrdinal /\ LastOrdinal \in Nat
      BY <1>3, <1>6, PendingIsShort, LenProperties, IndexingAssumption DEF HasVectors
<1> HIDE DEF n, items
<1>8. run' = [run EXCEPT ![r] = new]
      BY <1>1, <1>2 DEF n, items
<1>9. /\ mine.vectors \o items \in Seq(Vector)
      /\ Len(mine.vectors \o items) = Len(mine.vectors) + Len(items)
      /\ \A i \in 1..Len(mine.vectors) + Len(items) :
             (mine.vectors \o items)[i] =
                 IF i <= Len(mine.vectors) THEN mine.vectors[i] ELSE items[i - Len(mine.vectors)]
      BY <1>3, <1>5, ConcatProperties
<1>10. mine.asked + n \in 0..LastOrdinal
       BY <1>3, <1>4, <1>7
<1>11. /\ new \in EmbeddingRuns
       /\ new.step = mine.step /\ new.models = mine.models /\ new.seen = mine.seen
       /\ new.own = mine.own /\ new.pending = mine.pending /\ new.asked = mine.asked + n
       /\ new.vectors = mine.vectors \o items
  <2> DEFINE vectors == mine.vectors \o items
             asked == mine.asked + n
             updated == [mine EXCEPT !.asked = asked, !.vectors = vectors, !.tries = 0]
  <2>1. vectors \in Seq(Vector) /\ asked \in 0..LastOrdinal /\ 0 \in 0..MaxRetries
        BY <1>2, <1>9, <1>10
  <2> HIDE DEF vectors, asked, mine
  <2>2. /\ updated \in EmbeddingRuns
        /\ updated.step = mine.step /\ updated.models = mine.models /\ updated.seen = mine.seen
        /\ updated.own = mine.own /\ updated.pending = mine.pending /\ updated.asked = asked
        /\ updated.vectors = vectors
        BY <1>3, <2>1 DEF EmbeddingRuns
  <2> QED BY <2>2 DEF vectors, asked
<1> HIDE DEF new
<1>12. new \in Run
       BY <1>11 DEF Run, EmbeddingRuns
<1>13. Len(mine.vectors) \in Nat /\ Len(items) \in Nat /\ Len(mine.vectors) <= mine.asked
       BY <1>3, <1>5, <1>6, LenProperties DEF HasVectors
<1>14. ASSUME Len(new.vectors) = new.asked, NEW i \in 1..new.asked
       PROVE  new.vectors[i] = VectorOf(new.own, new.pending[i], AskedModel(new))
  <2>1. Len(mine.vectors) = mine.asked /\ Len(items) = n
        BY <1>3, <1>4, <1>5, <1>9, <1>11, <1>13, <1>14
  <2>2. new.vectors[i] = IF i <= mine.asked THEN mine.vectors[i] ELSE items[i - mine.asked]
        BY <1>9, <1>11, <1>14, <2>1
  <2>3. AskedModel(new) = AskedModel(mine)
        BY <1>11 DEF AskedModel
  <2>4. CASE i <= mine.asked
    <3>1. i \in 1..mine.asked
          BY <1>3, <1>14, <2>4
    <3>2. mine.vectors[i] = VectorOf(mine.own, mine.pending[i], AskedModel(mine))
          BY <1>6, <2>1, <3>1 DEF HasVectors
    <3> QED BY <1>11, <2>2, <2>3, <2>4, <3>2
  <2>5. CASE ~(i <= mine.asked)
    <3>1. i - mine.asked \in 1..n /\ mine.asked + (i - mine.asked) = i
          BY <1>3, <1>4, <1>11, <1>14, <2>5
    <3>2. items[i - mine.asked] = VectorOf(mine.own, mine.pending[i], AskedModel(mine))
          BY <1>5, <2>1, <3>1
    <3> QED BY <1>11, <2>2, <2>3, <2>5, <3>2
  <2> QED BY <2>4, <2>5
<1>15. Len(new.vectors) <= new.asked
       BY <1>3, <1>4, <1>5, <1>9, <1>11, <1>13
<1>16. HasVectors(new)
       BY <1>4, <1>6, <1>11, <1>14, <1>15 DEF HasVectors
<1>17. RunFits(new, indexed)
       BY <1>6, <1>11, <1>16 DEF RunFits, Embeds, KnowsChunks, Covers
<1>18. Embeds(new) /\ ~new.seen.chunked => \A q \in Runs \ {r} : ~Creates(q)
       BY <1>2, <1>11 DEF IndexInv, OneCreator, Creates, Embeds
<1> QED BY <1>8, <1>12, <1>17, <1>18, UpdateRun DEF BatchAnswered, IndexInv, IndexingTypeOK

LEMMA PendingFacts ==
    ASSUME NEW S \in SUBSET Ordinals
    PROVE  /\ InOrder(S) \in Seq(Ordinals) /\ ToSet(InOrder(S)) = S
           /\ \A i, j \in 1..Len(InOrder(S)) : InOrder(S)[i] = InOrder(S)[j] => i = j
<1>1. Ordinals \subseteq Int /\ IsFiniteSet(Ordinals)
      BY FS_Interval, IndexingAssumption DEF Ordinals
<1>2. S \in SUBSET Int /\ IsFiniteSet(S)
      BY <1>1, FS_Subset
<1>3. /\ InOrder(S) \in Seq(S) /\ Len(InOrder(S)) = Cardinality(S)
      /\ \A i, j \in 1..Cardinality(S) : InOrder(S)[i] = InOrder(S)[j] => i = j
      /\ \A c \in S : \E i \in 1..Cardinality(S) : InOrder(S)[i] = c
      BY <1>2, OrderFacts
<1>4. InOrder(S) \in Seq(Ordinals)
      BY <1>3, SeqMonotonic
<1>5. DOMAIN InOrder(S) = 1..Len(InOrder(S)) /\ \A i \in 1..Len(InOrder(S)) : InOrder(S)[i] \in S
      BY <1>3, LenProperties
<1>6. ToSet(InOrder(S)) = S
      BY <1>3, <1>5 DEF ToSet
<1> QED BY <1>3, <1>4, <1>6

LEMMA EmbeddingFacts ==
    ASSUME NEW step \in {"dense", "sparse"}, NEW models \in Models3, NEW seen \in Index,
           NEW own \in Index, NEW S \in SUBSET Ordinals,
           NEW new, new = Embedding(step, models, seen, own, InOrder(S))
    PROVE  /\ new \in Run /\ HasVectors(new) /\ Embeds(new)
           /\ new.step = step /\ new.models = models /\ new.seen = seen /\ new.own = own
           /\ ToSet(new.pending) = S
<1> DEFINE pending == InOrder(S)
<1>1. /\ pending \in Seq(Ordinals) /\ ToSet(pending) = S /\ Len(pending) \in Nat
      /\ \A i, j \in 1..Len(pending) : pending[i] = pending[j] => i = j
      BY PendingFacts, LenProperties
<1>2. new = [step |-> step, models |-> models, seen |-> seen, own |-> own, pending |-> pending,
             asked |-> 0, vectors |-> <<>>, tries |-> 0]
      BY DEF Embedding
<1> HIDE DEF pending
<1>3. 0 \in 0..LastOrdinal /\ 0 \in 0..MaxRetries /\ <<>> \in Seq(Vector)
      BY IndexingAssumption, EmptySeq
<1>4. new \in EmbeddingRuns
      BY <1>1, <1>2, <1>3 DEF EmbeddingRuns
<1>5. new \in Run
      BY <1>4 DEF Run, EmbeddingRuns
<1>6. /\ new.step = step /\ new.models = models /\ new.seen = seen /\ new.own = own
      /\ new.pending = pending /\ new.asked = 0 /\ new.vectors = <<>>
      BY <1>2
<1>7. HasVectors(new)
      BY <1>1, <1>6 DEF HasVectors
<1> QED BY <1>1, <1>5, <1>6, <1>7 DEF Embeds

LEMMA BegunFacts ==
    ASSUME IndexInv, NEW models \in Models3
    PROVE  /\ Begun(models) \in Run /\ RunFits(Begun(models), indexed)
           /\ Begun(models).seen = indexed
<1> DEFINE own == Summarised(Prepared(indexed), models)
           S == {c \in Ordinals : ~DenseIsCurrent(own, c, models)}
           new == Begun(models)
<1>1. indexed \in Index /\ models.context \in Models
      BY DEF IndexInv, IndexingTypeOK, Models3
<1>2. /\ own \in Index /\ own.chunked = TRUE /\ own.dense = indexed.dense
      /\ own.summary \in [Ordinals -> Models]
      /\ \A c \in Ordinals : indexed.summary[c] # Nothing => own.summary[c] = indexed.summary[c]
  <2> DEFINE summary == [c \in Ordinals |->
                            IF indexed.summary[c] = Nothing THEN models.context
                            ELSE indexed.summary[c]]
  <2>1. indexed.summary \in [Ordinals -> Models \cup {Nothing}]
        BY <1>1 DEF Index
  <2>2. summary \in [Ordinals -> Models]
        BY <1>1, <2>1
  <2>3. \A c \in Ordinals : indexed.summary[c] # Nothing => summary[c] = indexed.summary[c]
        OBVIOUS
  <2>4. Prepared(indexed) \in Index /\ Prepared(indexed).summary = indexed.summary
        BY <1>1 DEF Prepared, Index
  <2>5. own = [Prepared(indexed) EXCEPT !.summary = summary]
        BY <2>4 DEF Summarised
  <2> HIDE DEF summary, own
  <2>6. summary \in [Ordinals -> Models \cup {Nothing}]
        BY <2>2
  <2>7. own = [indexed EXCEPT !.chunked = TRUE, !.summary = summary]
        BY <1>1, <2>5 DEF Prepared, Index
  <2>8. /\ own \in Index /\ own.chunked = TRUE /\ own.dense = indexed.dense
        /\ own.summary = summary
        BY <1>1, <2>6, <2>7 DEF Index
  <2> QED BY <2>2, <2>3, <2>8
<1>3. new = Embedding("dense", models, indexed, own, InOrder(S))
      BY DEF Begun, DensePending
<1> HIDE DEF own, S, new
<1>4. S \in SUBSET Ordinals
      BY DEF S
<1>5. /\ new \in Run /\ HasVectors(new) /\ Embeds(new)
      /\ new.step = "dense" /\ new.models = models /\ new.seen = indexed /\ new.own = own
      /\ ToSet(new.pending) = S
      BY <1>1, <1>2, <1>3, <1>4, EmbeddingFacts
<1>6. KnowsChunks(new, indexed)
  <2>1. indexed.chunked \in BOOLEAN /\ indexed.summary \in [Ordinals -> Models \cup {Nothing}]
        BY <1>1 DEF Index
  <2>2. \A c \in Ordinals : indexed.dense[c] # Nothing => indexed.chunked
        BY <2>1 DEF IndexInv, NothingPartial
  <2>3. ASSUME indexed.chunked PROVE own.summary = indexed.summary
    <3>1. \A c \in Ordinals : indexed.summary[c] # Nothing
          BY <2>1, <2>3 DEF IndexInv, NothingPartial
    <3>2. \A c \in Ordinals : own.summary[c] = indexed.summary[c]
          BY <1>2, <3>1
    <3> QED BY <1>2, <2>1, <3>2
  <2> QED BY <1>2, <1>5, <2>1, <2>2, <2>3 DEF KnowsChunks
<1>7. Covers(new, indexed)
      BY <1>2, <1>5 DEF Covers, S
<1> QED BY <1>5, <1>6, <1>7 DEF RunFits, new

LEMMA StartRunInv ==
    ASSUME IndexInv, NEW r \in Runs, StartRun(r)
    PROVE  IndexInv'
<1>1. starts' \in 0..LastStart /\ slots \in Models3
      BY IndexingAssumption DEF StartRun, IndexInv, IndexingTypeOK
<1>2. CASE ~indexed.chunked /\ \E q \in Runs : Creates(q)
  <2> DEFINE new == [step |-> "waiting", models |-> slots]
  <2>1. new \in Run /\ ~Embeds(new)
        BY <1>1 DEF Run, Embeds
  <2>2. run' = [run EXCEPT ![r] = new]
        BY <1>2 DEF StartRun
  <2> HIDE DEF new
  <2> QED BY <1>1, <2>1, <2>2, UpdateRun DEF StartRun, RunFits
<1>3. CASE ~(~indexed.chunked /\ \E q \in Runs : Creates(q))
  <2>1. run' = [run EXCEPT ![r] = Begun(slots)]
        BY <1>3 DEF StartRun
  <2>2. /\ Begun(slots) \in Run /\ RunFits(Begun(slots), indexed)
        /\ Begun(slots).seen = indexed
        BY <1>1, BegunFacts
  <2>3. ~Begun(slots).seen.chunked => \A q \in Runs \ {r} : ~Creates(q)
        BY <1>3, <2>2
  <2> QED BY <1>1, <2>1, <2>2, <2>3, UpdateRun DEF StartRun
<1> QED BY <1>2, <1>3

LEMMA StopWaitingInv ==
    ASSUME IndexInv, NEW r \in Runs, StopWaiting(r)
    PROVE  IndexInv'
<1>1. /\ starts' \in 0..LastStart /\ UNCHANGED <<indexed, slots, edits>>
      /\ \A q \in Runs : ~Creates(q)
      BY DEF StopWaiting, IndexInv, IndexingTypeOK
<1>2. CASE indexed.chunked
  <2>1. FailRun(r)
        BY <1>2 DEF StopWaiting, FailRun
  <2> QED BY <2>1, FailRunInv
<1>3. CASE ~indexed.chunked
  <2> DEFINE models == run[r].models
  <2>1. run[r] \in Run /\ run[r].step = "waiting"
        BY DEF StopWaiting, IndexInv, IndexingTypeOK
  <2>2. models \in Models3
        BY <2>1 DEF Run
  <2>3. run' = [run EXCEPT ![r] = Begun(models)]
        BY <1>3 DEF StopWaiting
  <2> HIDE DEF models
  <2>4. Begun(models) \in Run /\ RunFits(Begun(models), indexed)
        BY <2>2, BegunFacts
  <2> QED BY <1>1, <2>3, <2>4, UpdateRun
<1> QED BY <1>2, <1>3

-----------------------------------------------------------------------------
(* The index: what a run writes                                              *)

LEMMA VectorForFacts ==
    ASSUME IndexInv, NEW r \in Runs, Embeds(run[r]),
           run[r].asked = Len(run[r].pending), Len(run[r].vectors) = Len(run[r].pending),
           NEW c \in ToSet(run[r].pending)
    PROVE  VectorFor(r, c) = VectorOf(run[r].own, c, AskedModel(run[r]))
<1> DEFINE mine == run[r]
           i == CHOOSE k \in DOMAIN mine.pending : mine.pending[k] = c
<1>1. mine.pending \in Seq(Ordinals) /\ HasVectors(mine)
      BY RunTypes DEF IndexInv, RunFits
<1>2. DOMAIN mine.pending = 1..Len(mine.pending)
      BY <1>1, LenProperties
<1>3. \E k \in DOMAIN mine.pending : mine.pending[k] = c
      BY DEF ToSet
<1>4. i \in 1..Len(mine.pending) /\ mine.pending[i] = c
      BY <1>2, <1>3
<1>5. VectorFor(r, c) = mine.vectors[i]
      BY DEF VectorFor
<1> HIDE DEF i
<1>6. mine.vectors[i] = VectorOf(mine.own, mine.pending[i], AskedModel(mine))
      BY <1>1, <1>4 DEF HasVectors
<1> QED BY <1>4, <1>5, <1>6

LEMMA VectorTypes ==
    ASSUME NEW idx, idx.summary \in [Ordinals -> Models], NEW c \in Ordinals, NEW m \in Models
    PROVE  /\ VectorOf(idx, c, m) \in Vector /\ VectorOf(idx, c, m) # Nothing
           /\ VectorOf(idx, c, m).text = c /\ VectorOf(idx, c, m).summary = idx.summary[c]
<1>1. VectorOf(idx, c, m) = [text |-> c, summary |-> idx.summary[c], model |-> m]
      BY DEF VectorOf
<1>2. VectorOf(idx, c, m) \in Vector
      BY <1>1 DEF Vector
<1>3. VectorOf(idx, c, m) # Nothing
      BY <1>2, IndexingAssumption, Zenon
<1>4. VectorOf(idx, c, m).text = c /\ VectorOf(idx, c, m).summary = idx.summary[c]
      BY Zenon DEF VectorOf
<1> QED BY <1>2, <1>3, <1>4

LEMMA StoreDenseInv ==
    ASSUME IndexInv, NEW r \in Runs, StoreDense(r)
    PROVE  IndexInv'
<1> DEFINE mine == run[r]
           dense == [c \in Ordinals |->
                        IF c \in ToSet(mine.pending) THEN VectorFor(r, c) ELSE mine.own.dense[c]]
           own == [mine.own EXCEPT !.dense = dense, !.sparse = indexed.sparse]
           S == {c \in Ordinals : ~SparseIsCurrent(own, c, mine.models)}
           new == Embedding("sparse", mine.models, mine.seen, own, InOrder(S))
<1>1. /\ IndexingTypeOK /\ mine.step = "dense" /\ Embeds(mine) /\ indexed \in Index
      /\ mine.asked = Len(mine.pending) /\ Len(mine.vectors) = Len(mine.pending)
      BY DEF IndexInv, IndexingTypeOK, StoreDense, AllAsked, Embeds
<1>2. /\ mine.own \in Index /\ mine.seen \in Index /\ mine.models \in Models3
      /\ mine.models.dense \in Models /\ mine.models.sparse \in Models
      BY <1>1, RunTypes DEF Models3
<1>3. KnowsChunks(mine, indexed) /\ Covers(mine, indexed)
      BY <1>1 DEF IndexInv, RunFits
<1>4. \A c \in Ordinals :
          /\ VectorOf(mine.own, c, mine.models.dense) \in Vector
          /\ dense[c] = VectorOf(mine.own, c, mine.models.dense)
  <2> SUFFICES ASSUME NEW c \in Ordinals
               PROVE  /\ VectorOf(mine.own, c, mine.models.dense) \in Vector
                      /\ dense[c] = VectorOf(mine.own, c, mine.models.dense)
      OBVIOUS
  <2>1. VectorOf(mine.own, c, mine.models.dense) \in Vector
        BY <1>2, <1>3, VectorTypes DEF KnowsChunks
  <2>2. CASE c \in ToSet(mine.pending)
    <3>1. VectorFor(r, c) = VectorOf(mine.own, c, AskedModel(mine))
          BY <1>1, <2>2, VectorForFacts
    <3> QED BY <1>1, <2>1, <2>2, <3>1 DEF AskedModel
  <2>3. CASE c \notin ToSet(mine.pending)
        BY <1>1, <1>3, <2>1, <2>3 DEF Covers, DenseIsCurrent
  <2> QED BY <2>2, <2>3
<1>5. run' = [run EXCEPT ![r] = new]
      BY DEF StoreDense, SparsePending
<1>6. dense \in [Ordinals -> Vector \cup {Nothing}]
      BY <1>4
<1> HIDE DEF dense, mine
<1>7. /\ own \in Index /\ own.dense = dense /\ own.sparse = indexed.sparse
      /\ own.chunked = mine.own.chunked /\ own.summary = mine.own.summary
      BY <1>1, <1>2, <1>6 DEF Index
<1> HIDE DEF own
<1>8. S \in SUBSET Ordinals
      OBVIOUS
<1> HIDE DEF S
<1>9. /\ new \in Run /\ HasVectors(new) /\ Embeds(new)
      /\ new.step = "sparse" /\ new.models = mine.models /\ new.seen = mine.seen /\ new.own = own
      /\ ToSet(new.pending) = S
      BY <1>2, <1>7, <1>8, EmbeddingFacts
<1> HIDE DEF new
<1>10. KnowsChunks(new, indexed)
       BY <1>3, <1>7, <1>9 DEF KnowsChunks
<1>11. Covers(new, indexed)
  <2> SUFFICES ASSUME NEW c \in Ordinals
               PROVE  /\ DenseIsCurrent(own, c, mine.models)
                      /\ c \in S \/ SparseIsCurrent(own, c, mine.models)
                      /\ own.sparse[c] # {} => indexed.chunked
      BY <1>9 DEF Covers
  <2>1. DenseIsCurrent(own, c, mine.models)
        BY <1>4, <1>7 DEF DenseIsCurrent, VectorOf
  <2>2. c \in S \/ SparseIsCurrent(own, c, mine.models)
        BY DEF S
  <2>3. indexed.chunked \in BOOLEAN
        BY <1>1 DEF Index
  <2>4. own.sparse[c] # {} => indexed.chunked
        BY <1>7, <2>3 DEF IndexInv, NothingPartial
  <2> QED BY <2>1, <2>2, <2>4
<1>12. Embeds(new) /\ ~new.seen.chunked => \A q \in Runs \ {r} : ~Creates(q)
       BY <1>1, <1>9 DEF IndexInv, OneCreator, Creates, Embeds, mine
<1> QED BY <1>5, <1>9, <1>10, <1>11, <1>12, UpdateRun
        DEF StoreDense, RunFits, IndexInv, IndexingTypeOK

\* What a run that commits leaves of each chunk.
LEMMA FinishedFacts ==
    ASSUME IndexInv, NEW r \in Runs, FinishRun(r)
    PROVE  /\ run[r].own \in Index /\ run[r].models \in Models3
           /\ indexed' \in Index /\ indexed'.chunked = TRUE
           /\ indexed'.summary = run[r].own.summary
           /\ \A c \in Ordinals :
                  /\ VectorOf(run[r].own, c, run[r].models.dense) = run[r].own.dense[c]
                  /\ \/ indexed'.dense[c] = run[r].own.dense[c]
                     \/ /\ indexed'.dense[c] = indexed.dense[c] /\ indexed.chunked
                        /\ run[r].own.dense[c] = run[r].seen.dense[c]
                  /\ \/ indexed'.sparse[c] = {VectorOf(run[r].own, c, run[r].models.sparse)}
                     \/ /\ indexed'.sparse[c] = indexed.sparse[c] /\ indexed.chunked
                        /\ VectorOf(run[r].own, c, run[r].models.sparse) \in run[r].own.sparse[c]
           /\ indexed.chunked => indexed'.summary = indexed.summary
<1> DEFINE mine == run[r]
           summary == IF mine.seen.chunked THEN indexed.summary ELSE mine.own.summary
           dense == [c \in Ordinals |->
                        IF mine.own.dense[c] # mine.seen.dense[c]
                        THEN mine.own.dense[c] ELSE indexed.dense[c]]
           sparse == [c \in Ordinals |->
                         IF c \in ToSet(mine.pending) THEN {VectorFor(r, c)} ELSE indexed.sparse[c]]
<1>1. /\ IndexingTypeOK /\ mine.step = "sparse" /\ Embeds(mine) /\ indexed \in Index
      /\ mine.asked = Len(mine.pending) /\ Len(mine.vectors) = Len(mine.pending)
      BY DEF IndexInv, IndexingTypeOK, FinishRun, AllAsked, Embeds
<1>2. /\ mine.own \in Index /\ mine.seen \in Index /\ mine.models \in Models3
      /\ mine.models.dense \in Models /\ mine.models.sparse \in Models
      BY <1>1, RunTypes DEF Models3
<1>3. KnowsChunks(mine, indexed) /\ Covers(mine, indexed)
      BY <1>1 DEF IndexInv, RunFits
<1>4. indexed' = [chunked |-> TRUE, summary |-> summary, dense |-> dense, sparse |-> sparse]
      BY DEF FinishRun
<1>5. \A c \in Ordinals :
          /\ VectorOf(mine.own, c, mine.models.dense) \in Vector
          /\ VectorOf(mine.own, c, mine.models.sparse) \in Vector
          /\ mine.own.dense[c] = VectorOf(mine.own, c, mine.models.dense)
          /\ mine.own.dense[c] # Nothing
  <2> SUFFICES ASSUME NEW c \in Ordinals
               PROVE  /\ VectorOf(mine.own, c, mine.models.dense) \in Vector
                      /\ VectorOf(mine.own, c, mine.models.sparse) \in Vector
                      /\ mine.own.dense[c] = VectorOf(mine.own, c, mine.models.dense)
                      /\ mine.own.dense[c] # Nothing
      OBVIOUS
  <2>1. /\ VectorOf(mine.own, c, mine.models.dense) \in Vector
        /\ VectorOf(mine.own, c, mine.models.sparse) \in Vector
        /\ VectorOf(mine.own, c, mine.models.dense) # Nothing
    <3> DEFINE own == mine.own
    <3>1. own.summary \in [Ordinals -> Models]
          BY <1>3 DEF KnowsChunks
    <3> HIDE DEF own
    <3>2. \A m \in Models : VectorOf(own, c, m) \in Vector /\ VectorOf(own, c, m) # Nothing
          BY <3>1, VectorTypes, Zenon
    <3> QED BY <1>2, <3>2, Zenon DEF own
  <2>2. mine.own.dense[c] = VectorOf(mine.own, c, mine.models.dense)
        BY <1>1, <1>3 DEF Covers, DenseIsCurrent
  <2> QED BY <2>1, <2>2
<1>6. \A c \in Ordinals :
          \/ dense[c] = mine.own.dense[c]
          \/ dense[c] = indexed.dense[c] /\ indexed.chunked /\ mine.own.dense[c] = mine.seen.dense[c]
  <2> SUFFICES ASSUME NEW c \in Ordinals, mine.own.dense[c] = mine.seen.dense[c]
               PROVE  dense[c] = indexed.dense[c] /\ indexed.chunked
      OBVIOUS
  <2>1. dense[c] = indexed.dense[c]
        OBVIOUS
  <2>2. indexed.chunked
        BY <1>3, <1>5 DEF KnowsChunks
  <2> QED BY <2>1, <2>2
<1>7. \A c \in Ordinals :
          \/ sparse[c] = {VectorOf(mine.own, c, mine.models.sparse)}
          \/ /\ sparse[c] = indexed.sparse[c] /\ indexed.chunked
             /\ VectorOf(mine.own, c, mine.models.sparse) \in mine.own.sparse[c]
  <2> SUFFICES ASSUME NEW c \in Ordinals
               PROVE  \/ sparse[c] = {VectorOf(mine.own, c, mine.models.sparse)}
                      \/ /\ sparse[c] = indexed.sparse[c] /\ indexed.chunked
                         /\ VectorOf(mine.own, c, mine.models.sparse) \in mine.own.sparse[c]
      OBVIOUS
  <2>1. CASE c \in ToSet(mine.pending)
    <3>1. VectorFor(r, c) = VectorOf(mine.own, c, AskedModel(mine))
          BY <1>1, <2>1, VectorForFacts
    <3>2. AskedModel(mine) = mine.models.sparse
          BY <1>1 DEF AskedModel
    <3> QED BY <2>1, <3>1, <3>2
  <2>2. CASE c \notin ToSet(mine.pending)
    <3>1. /\ VectorOf(mine.own, c, mine.models.sparse) \in mine.own.sparse[c]
          /\ mine.own.sparse[c] # {} => indexed.chunked
          BY <1>1, <1>3, <2>2 DEF Covers, SparseIsCurrent
    <3> QED BY <2>2, <3>1
  <2> QED BY <2>1, <2>2
<1>8. summary = mine.own.summary /\ (indexed.chunked => summary = indexed.summary)
      BY <1>1, <1>2, <1>3 DEF KnowsChunks, Index
<1>9. /\ summary \in [Ordinals -> Models \cup {Nothing}]
      /\ dense \in [Ordinals -> Vector \cup {Nothing}]
      /\ sparse \in [Ordinals -> SparseRows]
  <2>1. /\ indexed.dense \in [Ordinals -> Vector \cup {Nothing}]
        /\ mine.own.dense \in [Ordinals -> Vector \cup {Nothing}]
        /\ indexed.sparse \in [Ordinals -> SparseRows]
        /\ mine.own.summary \in [Ordinals -> Models \cup {Nothing}]
        BY <1>1, <1>2 DEF Index
  <2>2. \A c \in Ordinals : dense[c] \in Vector \cup {Nothing}
        BY <2>1
  <2>3. \A c \in Ordinals : sparse[c] \in SparseRows
    <3> SUFFICES ASSUME NEW c \in Ordinals PROVE sparse[c] \in SparseRows
        OBVIOUS
    <3>1. indexed.sparse[c] \in SparseRows
          BY <2>1
    <3> DEFINE v == VectorOf(mine.own, c, mine.models.sparse)
    <3>2. v \in Vector /\ (sparse[c] = {v} \/ sparse[c] = indexed.sparse[c])
          BY <1>5, <1>7, Zenon
    <3> HIDE DEF sparse, v
    <3> QED BY <3>1, <3>2 DEF SparseRows
  <2> QED BY <1>8, <2>1, <2>2, <2>3
<1> HIDE DEF summary, dense, sparse
<1>10. /\ indexed' \in Index /\ indexed'.chunked = TRUE /\ indexed'.summary = summary
       /\ indexed'.dense = dense /\ indexed'.sparse = sparse
       BY <1>4, <1>9 DEF Index
<1> QED BY <1>2, <1>5, <1>6, <1>7, <1>8, <1>10

LEMMA FinishRunInv ==
    ASSUME IndexInv, NEW r \in Runs, FinishRun(r)
    PROVE  IndexInv'
<1> DEFINE mine == run[r]
<1>1. /\ IndexingTypeOK /\ Embeds(mine) /\ indexed \in Index /\ run \in [Runs -> Run]
      /\ indexed.chunked \in BOOLEAN
      BY DEF IndexInv, IndexingTypeOK, FinishRun, AllAsked, Embeds, Index
<1>2. KnowsChunks(mine, indexed)
      BY <1>1 DEF IndexInv, RunFits
<1>3. mine.models.dense \in Models /\ mine.models.sparse \in Models
      BY FinishedFacts DEF Models3
<1>4. \A c \in Ordinals :
          /\ mine.own.dense[c] = VectorOf(mine.own, c, mine.models.dense)
          /\ mine.own.dense[c] # Nothing
          /\ mine.own.dense[c].text = c /\ mine.own.dense[c].summary = mine.own.summary[c]
          /\ VectorOf(mine.own, c, mine.models.sparse).text = c
          /\ VectorOf(mine.own, c, mine.models.sparse).summary = mine.own.summary[c]
  <2> SUFFICES ASSUME NEW c \in Ordinals
               PROVE  /\ mine.own.dense[c] = VectorOf(mine.own, c, mine.models.dense)
                      /\ mine.own.dense[c] # Nothing
                      /\ mine.own.dense[c].text = c
                      /\ mine.own.dense[c].summary = mine.own.summary[c]
                      /\ VectorOf(mine.own, c, mine.models.sparse).text = c
                      /\ VectorOf(mine.own, c, mine.models.sparse).summary = mine.own.summary[c]
      OBVIOUS
  <2>1. VectorOf(mine.own, c, mine.models.dense) = mine.own.dense[c]
        BY FinishedFacts
  <2>2. mine.own.summary \in [Ordinals -> Models]
        BY <1>2 DEF KnowsChunks
  <2>3. \A m \in Models :
            /\ VectorOf(mine.own, c, m) # Nothing /\ VectorOf(mine.own, c, m).text = c
            /\ VectorOf(mine.own, c, m).summary = mine.own.summary[c]
    <3> DEFINE own == mine.own
    <3>1. own.summary \in [Ordinals -> Models]
          BY <2>2
    <3> HIDE DEF own
    <3>2. \A m \in Models :
              /\ VectorOf(own, c, m) # Nothing /\ VectorOf(own, c, m).text = c
              /\ VectorOf(own, c, m).summary = own.summary[c]
          BY <3>1, VectorTypes, Zenon
    <3> QED BY <3>2, Zenon DEF own
  <2> QED BY <1>3, <2>1, <2>3
<1>5. /\ run' = [run EXCEPT ![r] = IdleRun] /\ UNCHANGED <<slots, starts, edits>>
      /\ IdleRun \in Run /\ ~Embeds(IdleRun)
      BY DEF FinishRun, IdleRun, Run, Embeds
<1>6. /\ run' \in [Runs -> Run] /\ run'[r] = IdleRun
      /\ \A q \in Runs \ {r} : run'[q] = run[q]
      BY <1>1, <1>5
<1>7. IndexingTypeOK'
      BY <1>5, <1>6, FinishedFacts DEF IndexInv, IndexingTypeOK
<1>8. VectorsMatchChunks'
  <2> SUFFICES ASSUME NEW c \in Ordinals,
                      NEW v \in indexed'.sparse[c] \cup ({indexed'.dense[c]} \ {Nothing})
               PROVE  v.text = c /\ v.summary = indexed'.summary[c]
      BY DEF VectorsMatchChunks
  <2>0. indexed'.summary = mine.own.summary
        BY FinishedFacts
  <2>1. indexed.chunked => mine.own.summary = indexed.summary
        BY FinishedFacts
  <2>2. indexed.chunked /\ v \in indexed.sparse[c] \cup ({indexed.dense[c]} \ {Nothing}) =>
            v.text = c /\ v.summary = mine.own.summary[c]
        BY <2>1 DEF IndexInv, VectorsMatchChunks
  <2>3. CASE v \in indexed'.sparse[c]
    <3>1. \/ indexed'.sparse[c] = {VectorOf(mine.own, c, mine.models.sparse)}
          \/ indexed'.sparse[c] = indexed.sparse[c] /\ indexed.chunked
          BY FinishedFacts
    <3>2. CASE v = VectorOf(mine.own, c, mine.models.sparse)
          BY <1>4, <2>0, <3>2
    <3>3. CASE v \in indexed.sparse[c] /\ indexed.chunked
          BY <2>0, <2>2, <3>3
    <3> QED BY <2>3, <3>1, <3>2, <3>3
  <2>4. CASE v = indexed'.dense[c] /\ v # Nothing
    <3>1. \/ indexed'.dense[c] = mine.own.dense[c]
          \/ indexed'.dense[c] = indexed.dense[c] /\ indexed.chunked
          BY FinishedFacts
    <3>2. CASE v = mine.own.dense[c]
          BY <1>4, <2>0, <3>2
    <3>3. CASE v = indexed.dense[c] /\ indexed.chunked
          BY <2>0, <2>2, <2>4, <3>3
    <3> QED BY <2>4, <3>1, <3>2, <3>3
  <2> QED BY <2>3, <2>4
<1>9. NothingPartial'
  <2> SUFFICES ASSUME NEW c \in Ordinals
               PROVE  /\ indexed'.summary[c] # Nothing /\ indexed'.dense[c] # Nothing
                      /\ indexed'.sparse[c] # {}
      BY FinishedFacts DEF NothingPartial
  <2>1. indexed.chunked => indexed.dense[c] # Nothing /\ indexed.sparse[c] # {}
        BY <1>1 DEF IndexInv, NothingPartial
  <2>2. mine.own.summary[c] \in Models
        BY <1>2 DEF KnowsChunks
  <2>3. indexed'.summary[c] # Nothing
        BY <2>2, FinishedFacts, IndexingAssumption
  <2>4. indexed'.dense[c] # Nothing
    <3>1. \/ indexed'.dense[c] = mine.own.dense[c]
          \/ indexed'.dense[c] = indexed.dense[c] /\ indexed.chunked
          BY FinishedFacts, Zenon
    <3>2. mine.own.dense[c] # Nothing
          BY <1>4, Zenon
    <3> QED BY <2>1, <3>1, <3>2, Zenon
  <2>5. indexed'.sparse[c] # {}
    <3>1. \/ indexed'.sparse[c] = {VectorOf(mine.own, c, mine.models.sparse)}
          \/ indexed'.sparse[c] = indexed.sparse[c] /\ indexed.chunked
          BY FinishedFacts, Zenon
    <3> HIDE DEF mine
    <3> QED BY <2>1, <3>1
  <2> QED BY <2>3, <2>4, <2>5
<1>10. OneSparseRow'
  <2> SUFFICES ASSUME NEW c \in Ordinals,
                      NEW v \in indexed'.sparse[c], NEW w \in indexed'.sparse[c]
               PROVE  v = w
      BY DEF OneSparseRow
  <2>1. CASE indexed'.sparse[c] = {VectorOf(mine.own, c, mine.models.sparse)}
        BY <2>1
  <2>2. CASE indexed'.sparse[c] = indexed.sparse[c]
        BY <2>2 DEF IndexInv, OneSparseRow
  <2> QED BY <2>1, <2>2, FinishedFacts
<1>11. \A q \in Runs : Creates(q)' => q # r /\ Creates(q)
       BY <1>5, <1>6 DEF Creates, Embeds
<1>12. OneCreator'
       BY <1>11 DEF IndexInv, OneCreator
<1>13. \A q \in Runs : RunFits(run'[q], indexed')
  <2> SUFFICES ASSUME NEW q \in Runs \ {r}, Embeds(run[q])
               PROVE  RunFits(run[q], indexed')
      BY <1>5, <1>6 DEF RunFits
  <2>1. KnowsChunks(run[q], indexed) /\ HasVectors(run[q]) /\ Covers(run[q], indexed)
        BY DEF IndexInv, RunFits
  <2>2. run[q].seen.chunked
    <3> SUFFICES ASSUME ~run[q].seen.chunked PROVE FALSE
        OBVIOUS
    <3>1. ~indexed.chunked
          BY <2>1 DEF KnowsChunks
    <3>2. ~mine.seen.chunked
          BY <1>2, <3>1 DEF KnowsChunks
    <3>3. Creates(q) /\ Creates(r)
          BY <1>1, <3>2 DEF Creates, Embeds
    <3> QED BY <3>3 DEF IndexInv, OneCreator
  <2>3. indexed.chunked /\ run[q].own.summary = indexed.summary
        BY <2>1, <2>2 DEF KnowsChunks
  <2>4. KnowsChunks(run[q], indexed')
        BY <2>1, <2>2, <2>3, FinishedFacts DEF KnowsChunks
  <2>5. Covers(run[q], indexed')
        BY <2>1, FinishedFacts DEF Covers
  <2> QED BY <2>1, <2>4, <2>5 DEF RunFits
<1> QED BY <1>7, <1>8, <1>9, <1>10, <1>12, <1>13 DEF IndexInv

-----------------------------------------------------------------------------
(* The index: what holds of every behaviour                                  *)

LEMMA IndexInitInv == IndexingInit => IndexInv
<1> SUFFICES ASSUME IndexingInit PROVE IndexInv
    OBVIOUS
<1>1. /\ indexed = EmptyIndex /\ run = [r \in Runs |-> IdleRun]
      /\ slots \in Models3 /\ starts = 0 /\ edits = 0
      BY DEF IndexingInit
<1>2. /\ indexed \in Index /\ indexed.chunked = FALSE
      /\ \A c \in Ordinals : /\ indexed.summary[c] = Nothing /\ indexed.dense[c] = Nothing
                             /\ indexed.sparse[c] = {}
      BY <1>1 DEF EmptyIndex, Index, SparseRows
<1>3. IdleRun \in Run /\ IdleRun.step = "idle"
      BY DEF IdleRun, Run
<1>4. run \in [Runs -> Run] /\ \A r \in Runs : run[r].step = "idle"
      BY <1>1, <1>3
<1>5. IndexingTypeOK
      BY <1>1, <1>2, <1>4, IndexingAssumption DEF IndexingTypeOK
<1>6. VectorsMatchChunks /\ NothingPartial /\ OneSparseRow
      BY <1>2 DEF VectorsMatchChunks, NothingPartial, OneSparseRow
<1>7. OneCreator /\ \A r \in Runs : RunFits(run[r], indexed)
      BY <1>4 DEF OneCreator, Creates, RunFits, Embeds
<1> QED BY <1>5, <1>6, <1>7 DEF IndexInv

LEMMA IndexStepInv ==
    ASSUME IndexInv, [IndexingNext]_indexingVars
    PROVE  IndexInv'
<1>1. CASE UNCHANGED indexingVars
      BY <1>1 DEF indexingVars, IndexInv, IndexingTypeOK, VectorsMatchChunks, NothingPartial,
                  OneSparseRow, OneCreator, Creates
<1>2. CASE ChangeSlots
      BY <1>2, IndexingAssumption
         DEF ChangeSlots, IndexInv, IndexingTypeOK, VectorsMatchChunks, NothingPartial,
             OneSparseRow, OneCreator, Creates
<1>3. ASSUME NEW r \in Runs,
             \/ StartRun(r) \/ StopWaiting(r)
             \/ BatchAnswered(r) \/ RetryCall(r)
             \/ CallRefused(r) \/ CallOverBudget(r) \/ WrongCount(r)
             \/ StoreDense(r) \/ FinishRun(r) \/ RunDies(r)
      PROVE  IndexInv'
  <2>1. CASE StartRun(r)        BY <2>1, StartRunInv
  <2>2. CASE StopWaiting(r)     BY <2>2, StopWaitingInv
  <2>3. CASE BatchAnswered(r)   BY <2>3, BatchAnsweredInv
  <2>4. CASE RetryCall(r)       BY <2>4, RetryCallInv
  <2>5. CASE CallRefused(r) \/ CallOverBudget(r) \/ WrongCount(r) \/ RunDies(r)
        BY <2>5, FailRunInv DEF CallRefused, CallOverBudget, WrongCount, RunDies
  <2>6. CASE StoreDense(r)      BY <2>6, StoreDenseInv
  <2>7. CASE FinishRun(r)       BY <2>7, FinishRunInv
  <2> QED BY <1>3, <2>1, <2>2, <2>3, <2>4, <2>5, <2>6, <2>7
<1> QED BY <1>1, <1>2, <1>3 DEF IndexingNext

\* What it leaves is current, if no vector it read has been replaced.
LEMMA FinishedIsCurrent ==
    ASSUME IndexInv, NEW r \in Runs, FinishRun(r),
           indexed.dense = run[r].seen.dense, indexed.sparse = run[r].own.sparse,
           NEW c \in Ordinals
    PROVE  /\ indexed'.dense[c] = VectorOf(indexed', c, run[r].models.dense)
           /\ indexed'.sparse[c] = {VectorOf(indexed', c, run[r].models.sparse)}
<1> DEFINE mine == run[r]
<1>1. \A m : VectorOf(indexed', c, m) = VectorOf(mine.own, c, m)
      BY FinishedFacts DEF VectorOf
<1>2. indexed'.dense[c] = mine.own.dense[c]
  <2>1. \/ indexed'.dense[c] = mine.own.dense[c]
        \/ indexed'.dense[c] = indexed.dense[c] /\ mine.own.dense[c] = mine.seen.dense[c]
        BY FinishedFacts, Zenon
  <2> QED BY <2>1
<1>3. indexed'.sparse[c] = {VectorOf(mine.own, c, mine.models.sparse)}
  <2>1. CASE indexed'.sparse[c] = {VectorOf(mine.own, c, mine.models.sparse)}
        BY <2>1
  <2>2. CASE /\ indexed'.sparse[c] = indexed.sparse[c]
             /\ VectorOf(mine.own, c, mine.models.sparse) \in mine.own.sparse[c]
        BY <2>2 DEF IndexInv, OneSparseRow
  <2>3. \/ indexed'.sparse[c] = {VectorOf(mine.own, c, mine.models.sparse)}
        \/ /\ indexed'.sparse[c] = indexed.sparse[c]
           /\ VectorOf(mine.own, c, mine.models.sparse) \in mine.own.sparse[c]
        BY FinishedFacts, Zenon
  <2> QED BY <2>1, <2>2, <2>3, Zenon
<1>4. VectorOf(mine.own, c, mine.models.dense) = mine.own.dense[c]
      BY FinishedFacts, Zenon
<1> QED BY <1>1, <1>2, <1>3, <1>4, Zenon

\* The committed rows and the runs are always of their types.
THEOREM IndexingTypeCorrect == IndexingSpec => []IndexingTypeOK
<1>1. IndexInv /\ [IndexingNext]_indexingVars => IndexInv'
      BY IndexStepInv
<1>2. IndexInv => IndexingTypeOK
      BY DEF IndexInv
<1> QED BY <1>1, <1>2, IndexInitInv, PTL DEF IndexingSpec

\* However many runs overlap, whatever models the slots name meanwhile, however
\* batches are cut, retried and answered, and wherever runs fail: a version is
\* indexed as a whole or not at all, every vector is of the chunk and the summary
\* it stands with, and a run leaves the vectors of its models.
THEOREM IndexIsAlwaysWhole == IndexingSpec => IndexIsWhole
<1> DEFINE VectorsCurrent ==
        \A r \in Runs :
            /\ FinishRun(r)
            /\ indexed.dense = run[r].seen.dense /\ indexed.sparse = run[r].own.sparse
            => \A c \in Ordinals :
                   /\ indexed'.dense[c] = VectorOf(indexed', c, run[r].models.dense)
                   /\ indexed'.sparse[c] = {VectorOf(indexed', c, run[r].models.sparse)}
<1>1. IndexInv /\ [IndexingNext]_indexingVars => IndexInv' /\ VectorsCurrent
      BY IndexStepInv, FinishedIsCurrent
<1>2. IndexInv => VectorsMatchChunks /\ NothingPartial
      BY DEF IndexInv
<1> HIDE DEF VectorsCurrent
<1>3. IndexingSpec => [](VectorsMatchChunks /\ NothingPartial) /\ [][VectorsCurrent]_indexingVars
      BY <1>1, <1>2, IndexInitInv, PTL DEF IndexingSpec
<1>4. IndexingSpec => CompletedIsCurrent
      BY <1>3, PTL DEF CompletedIsCurrent, VectorsCurrent
<1> QED BY <1>3, <1>4, PTL DEF IndexIsWhole

-----------------------------------------------------------------------------
(* Retrieval: sets in order                                                  *)

\* Sorted lists a finite set, each member once, so that of two members the one a
\* strict total order puts first comes first.
LEMMA SortedFacts ==
    ASSUME NEW S, IsFiniteSet(S), NEW before,
           \A c \in S : <<c, c>> \notin before,
           \A c, d, e \in S : <<c, d>> \in before /\ <<d, e>> \in before => <<c, e>> \in before,
           \A c, d \in S : c # d => <<c, d>> \in before \/ <<d, c>> \in before
    PROVE  /\ Cardinality(S) \in Nat
           /\ Sorted(S, before) \in Seq(S) /\ Len(Sorted(S, before)) = Cardinality(S)
           /\ \A i, j \in 1..Cardinality(S) : Sorted(S, before)[i] = Sorted(S, before)[j] => i = j
           /\ \A c \in S : \E i \in 1..Cardinality(S) : Sorted(S, before)[i] = c
           /\ \A i, j \in 1..Cardinality(S) :
                  <<Sorted(S, before)[i], Sorted(S, before)[j]>> \in before => i < j
<1> DEFINE Below(c) == {d \in S : <<d, c>> \in before}
           n == Cardinality(S)
           sorted == Sorted(S, before)
           rank == [c \in S |-> Cardinality(Below(c)) + 1]
<1>1. n \in Nat
      BY FS_CardinalityType
<1>2. \A c \in S : IsFiniteSet(Below(c)) /\ Cardinality(Below(c)) \in 0..(n - 1)
  <2> SUFFICES ASSUME NEW c \in S
               PROVE  IsFiniteSet(Below(c)) /\ Cardinality(Below(c)) \in 0..(n - 1)
      OBVIOUS
  <2>1. Below(c) \subseteq S \ {c}
        OBVIOUS
  <2> HIDE DEF Below
  <2>2. IsFiniteSet(S \ {c}) /\ Cardinality(S \ {c}) = n - 1
        BY FS_RemoveElement
  <2>3. IsFiniteSet(Below(c)) /\ Cardinality(Below(c)) <= n - 1
        BY <2>1, <2>2, FS_Subset
  <2>4. Cardinality(Below(c)) \in Nat
        BY <2>3, FS_CardinalityType
  <2> QED BY <1>1, <2>3, <2>4
<1>3. \A c, d \in S : <<c, d>> \in before => Cardinality(Below(c)) < Cardinality(Below(d))
  <2> SUFFICES ASSUME NEW c \in S, NEW d \in S, <<c, d>> \in before
               PROVE  Cardinality(Below(c)) < Cardinality(Below(d))
      OBVIOUS
  <2>1. c \in Below(d) /\ Below(c) \subseteq Below(d) \ {c}
        OBVIOUS
  <2> HIDE DEF Below
  <2>2. IsFiniteSet(Below(d) \ {c}) /\ Cardinality(Below(d) \ {c}) = Cardinality(Below(d)) - 1
        BY <1>2, <2>1, FS_RemoveElement
  <2>3. Cardinality(Below(c)) <= Cardinality(Below(d) \ {c})
        BY <2>1, <2>2, FS_Subset
  <2> QED BY <1>1, <1>2, <2>2, <2>3
<1>4. sorted = [i \in 1..n |-> CHOOSE c \in S : Cardinality(Below(c)) = i - 1]
      BY DEF Sorted
<1> HIDE DEF Below, n, sorted
<1>5. rank \in [S -> 1..n] /\ \A c, d \in S : rank[c] = rank[d] => c = d
  <2>1. rank \in [S -> 1..n]
        BY <1>1, <1>2
  <2>2. \A c, d \in S : rank[c] = rank[d] => c = d
    <3> SUFFICES ASSUME NEW c \in S, NEW d \in S, rank[c] = rank[d], c # d PROVE FALSE
        OBVIOUS
    <3>1. Cardinality(Below(c)) = Cardinality(Below(d))
          BY <1>1, <1>2
    <3>2. Cardinality(Below(c)) < Cardinality(Below(d)) \/ Cardinality(Below(d)) < Cardinality(Below(c))
          BY <1>3
    <3> QED BY <1>1, <1>2, <3>1, <3>2
  <2> QED BY <2>1, <2>2
<1>6. rank \in Injection(S, 1..n)
      BY <1>5 DEF Injection, IsInjective
<1>7. IsFiniteSet(1..n) /\ Cardinality(1..n) = n
      BY <1>1, FS_Interval
<1>8. rank \in Surjection(S, 1..n)
      BY <1>6, <1>7, FS_Injection DEF n
<1>9. \A i \in 1..n : \E c \in S : Cardinality(Below(c)) = i - 1
  <2> SUFFICES ASSUME NEW i \in 1..n PROVE \E c \in S : Cardinality(Below(c)) = i - 1
      OBVIOUS
  <2>1. PICK c \in S : rank[c] = i
        BY <1>8 DEF Surjection
  <2>2. Cardinality(Below(c)) = i - 1
        BY <1>1, <1>2, <2>1
  <2> QED BY <2>2
<1>10. \A i \in 1..n : sorted[i] \in S /\ Cardinality(Below(sorted[i])) = i - 1
  <2> SUFFICES ASSUME NEW i \in 1..n
               PROVE  sorted[i] \in S /\ Cardinality(Below(sorted[i])) = i - 1
      OBVIOUS
  <2>1. sorted[i] = CHOOSE c \in S : Cardinality(Below(c)) = i - 1
        BY <1>4
  <2>2. \E c \in S : Cardinality(Below(c)) = i - 1
        BY <1>9
  <2> QED BY <2>1, <2>2
<1>11. sorted \in Seq(S) /\ Len(sorted) = n
  <2>1. sorted \in [1..n -> S]
        BY <1>4, <1>10
  <2> QED BY <1>1, <2>1
<1>12. \A i, j \in 1..n : sorted[i] = sorted[j] => i = j
  <2> SUFFICES ASSUME NEW i \in 1..n, NEW j \in 1..n, sorted[i] = sorted[j] PROVE i = j
      OBVIOUS
  <2>1. i - 1 = j - 1
        BY <1>10
  <2> QED BY <1>1, <2>1
<1>13. \A c \in S : \E i \in 1..n : sorted[i] = c
  <2> SUFFICES ASSUME NEW c \in S PROVE \E i \in 1..n : sorted[i] = c
      OBVIOUS
  <2>1. rank[c] \in 1..n
        BY <1>5
  <2>2. PICK i \in 1..n : i = rank[c]
        BY <2>1
  <2>3. sorted[i] \in S /\ Cardinality(Below(sorted[i])) = i - 1
        BY <1>10
  <2>4. rank[sorted[i]] = rank[c]
        BY <1>1, <1>2, <2>2, <2>3
  <2> QED BY <1>5, <2>3, <2>4
<1>14. \A i, j \in 1..n : <<sorted[i], sorted[j]>> \in before => i < j
  <2> SUFFICES ASSUME NEW i \in 1..n, NEW j \in 1..n, <<sorted[i], sorted[j]>> \in before
               PROVE  i < j
      OBVIOUS
  <2>1. Cardinality(Below(sorted[i])) < Cardinality(Below(sorted[j]))
        BY <1>3, <1>10
  <2> QED BY <1>1, <1>10, <2>1
<1> QED BY <1>1, <1>11, <1>12, <1>13, <1>14 DEF n, sorted

\* Numbers are put in their order.
LEMMA NumbersSorted ==
    ASSUME NEW S \in SUBSET Int, IsFiniteSet(S)
    PROVE  LET sorted == Sorted(S, {p \in S \X S : p[1] < p[2]})
               n == Cardinality(S)
           IN  /\ n \in Nat
               /\ sorted \in Seq(S) /\ Len(sorted) = n
               /\ \A i, j \in 1..n : sorted[i] = sorted[j] => i = j
               /\ \A c \in S : \E i \in 1..n : sorted[i] = c
               /\ \A i, j \in 1..n : sorted[i] < sorted[j] => i < j
<1> DEFINE before == {p \in S \X S : p[1] < p[2]}
           sorted == Sorted(S, before)
           n == Cardinality(S)
<1>0. S \subseteq Int
      OBVIOUS
<1>1. \A c, d \in S : (<<c, d>> \in before => c < d) /\ (c < d => <<c, d>> \in before)
      BY <1>0
<1> HIDE DEF before
<1>2. /\ \A c \in S : <<c, c>> \notin before
      /\ \A c, d, e \in S : <<c, d>> \in before /\ <<d, e>> \in before => <<c, e>> \in before
      /\ \A c, d \in S : c # d => <<c, d>> \in before \/ <<d, c>> \in before
  <2>1. \A c \in S : <<c, c>> \notin before
        BY <1>0, <1>1
  <2>2. ASSUME NEW c \in S, NEW d \in S, NEW e \in S, <<c, d>> \in before, <<d, e>> \in before
        PROVE  <<c, e>> \in before
    <3>1. c < d /\ d < e
          BY <1>1, <2>2
    <3>2. c < e
          BY <1>0, <3>1
    <3> QED BY <1>1, <3>2
  <2>3. ASSUME NEW c \in S, NEW d \in S, c # d
        PROVE  <<c, d>> \in before \/ <<d, c>> \in before
    <3>1. c < d \/ d < c
          BY <1>0, <2>3
    <3> QED BY <1>1, <3>1
  <2> QED BY <2>1, <2>2, <2>3
<1>3. /\ n \in Nat
      /\ sorted \in Seq(S) /\ Len(sorted) = n
      /\ \A i, j \in 1..n : sorted[i] = sorted[j] => i = j
      /\ \A c \in S : \E i \in 1..n : sorted[i] = c
      /\ \A i, j \in 1..n : <<sorted[i], sorted[j]>> \in before => i < j
      BY <1>2, SortedFacts
<1> HIDE DEF sorted, n
<1>4. \A i, j \in 1..n : sorted[i] < sorted[j] => i < j
  <2> SUFFICES ASSUME NEW i \in 1..n, NEW j \in 1..n, sorted[i] < sorted[j] PROVE i < j
      OBVIOUS
  <2>1. sorted[i] \in S /\ sorted[j] \in S
        BY <1>3, ElementOfSeq
  <2> QED BY <1>1, <1>3, <2>1
<1> QED BY <1>3, <1>4 DEF sorted, n, before

\* A set of positions that is not empty has a first and a last one.
LEMMA PositionsBounded ==
    ASSUME NEW n \in Nat, NEW S \in SUBSET (1..n), S # {}
    PROVE  /\ Max(S) \in S /\ \A i \in S : i <= Max(S)
           /\ Min(S) \in S /\ \A i \in S : Min(S) <= i
<1> DEFINE sorted == Sorted(S, {p \in S \X S : p[1] < p[2]})
           m == Cardinality(S)
<1>1. IsFiniteSet(S) /\ S \in SUBSET Int /\ S \subseteq Int
  <2>1. IsFiniteSet(1..n)
        BY FS_Interval
  <2>2. IsFiniteSet(S)
        BY <2>1, FS_Subset
  <2>3. S \subseteq Int
        OBVIOUS
  <2> QED BY <2>2, <2>3
<1>2. /\ m \in Nat
      /\ sorted \in Seq(S) /\ Len(sorted) = m
      /\ \A i, j \in 1..m : sorted[i] = sorted[j] => i = j
      /\ \A c \in S : \E i \in 1..m : sorted[i] = c
      /\ \A i, j \in 1..m : sorted[i] < sorted[j] => i < j
      BY <1>1, NumbersSorted
<1> HIDE DEF sorted, m
<1>3. m >= 1
  <2>1. PICK c \in S : TRUE
        OBVIOUS
  <2>2. PICK i \in 1..m : sorted[i] = c
        BY <1>2, <2>1
  <2> QED BY <1>2, <2>2
<1>4. sorted[1] \in S /\ sorted[m] \in S
      BY <1>2, <1>3, ElementOfSeq
<1>5. \A c \in S : sorted[1] <= c /\ c <= sorted[m]
  <2> SUFFICES ASSUME NEW c \in S PROVE sorted[1] <= c /\ c <= sorted[m]
      OBVIOUS
  <2>1. PICK i \in 1..m : sorted[i] = c
        BY <1>2
  <2>2. ~(c < sorted[1]) /\ ~(sorted[m] < c)
        BY <1>2, <1>3, <2>1
  <2>3. c \in Int /\ sorted[1] \in Int /\ sorted[m] \in Int
        BY <1>1, <1>4
  <2> QED BY <2>2, <2>3
<1>6. (\E x \in S : \A y \in S : x >= y) /\ (\E x \in S : \A y \in S : x <= y)
      BY <1>1, <1>4, <1>5
<1>7. Max(S) \in S /\ \A y \in S : Max(S) >= y
      BY <1>6 DEF Max
<1>8. Min(S) \in S /\ \A y \in S : Min(S) <= y
      BY <1>6 DEF Min
<1> QED BY <1>1, <1>7, <1>8

-----------------------------------------------------------------------------
(* Retrieval: rankings                                                       *)

\* The first n of a list are members of it, in their order.
LEMMA PrefixFacts ==
    ASSUME NEW S, NEW s \in Seq(S), NEW n \in Nat
    PROVE  /\ Prefix(s, n) \in Seq(S)
           /\ Len(Prefix(s, n)) <= n /\ Len(Prefix(s, n)) <= Len(s)
           /\ Len(s) <= n => Prefix(s, n) = s
           /\ Len(Prefix(s, n)) = n \/ Len(Prefix(s, n)) = Len(s)
           /\ \A i \in 1..Len(Prefix(s, n)) : Prefix(s, n)[i] = s[i]
           /\ IsInjective(s) => IsInjective(Prefix(s, n))
           /\ IsPrefix(Prefix(s, n), s)
<1>0. PICK k \in Nat : Len(s) = k /\ DOMAIN s = 1..k
      BY LenProperties
<1>1. PICK m \in Nat : m = IF n < k THEN n ELSE k
      OBVIOUS
<1>2. m <= n /\ m <= k /\ (m = n \/ m = k) /\ (k <= n => m = k)
      BY <1>1
<1>3. Prefix(s, n) = SubSeq(s, 1, m)
      BY <1>0, <1>1 DEF Prefix
<1> DEFINE p == Prefix(s, n)
<1>4. \A i \in 1..m : i \in 1..k /\ s[i] \in S
  <2> SUFFICES ASSUME NEW i \in 1..m PROVE i \in 1..k /\ s[i] \in S
      OBVIOUS
  <2>1. i \in 1..k
        BY <1>2
  <2> QED BY <1>0, <2>1, ElementOfSeq
<1>5. /\ p \in Seq(S) /\ Len(p) = m
      /\ \A i \in 1..m : p[i] = s[i]
  <2>1. /\ SubSeq(s, 1, m) \in Seq(S)
        /\ Len(SubSeq(s, 1, m)) = IF 1 <= m THEN m - 1 + 1 ELSE 0
        /\ \A j \in 1..(m - 1 + 1) : SubSeq(s, 1, m)[j] = s[1 + j - 1]
        BY <1>4, SubSeqProperties
  <2>2. Len(SubSeq(s, 1, m)) = m
        BY <2>1
  <2>3. ASSUME NEW i \in 1..m PROVE SubSeq(s, 1, m)[i] = s[i]
    <3>1. i \in 1..(m - 1 + 1) /\ 1 + i - 1 = i
          OBVIOUS
    <3> QED BY <2>1, <3>1
  <2> QED BY <1>3, <2>1, <2>2, <2>3
<1> HIDE DEF p
<1>6. DOMAIN p = 1..m
      BY <1>5, LenProperties
<1>7. IsInjective(s) => IsInjective(p)
      BY <1>0, <1>4, <1>5, <1>6 DEF IsInjective
<1>8. Len(s) <= n => p = s
  <2> SUFFICES ASSUME Len(s) <= n PROVE p = s
      OBVIOUS
  <2>1. m = k
        BY <1>0, <1>2
  <2>2. Len(p) = Len(s) /\ \A i \in 1..Len(p) : p[i] = s[i]
        BY <1>0, <1>5, <2>1
  <2> QED BY <1>5, <2>2, SeqEqual
<1>9. IsPrefix(p, s)
  <2>1. SubSeq(p, 1, m) = p
    <3>1. \A i \in 1..m : p[i] \in S
          BY <1>4, <1>5
    <3>2. /\ SubSeq(p, 1, m) \in Seq(S)
          /\ Len(SubSeq(p, 1, m)) = IF 1 <= m THEN m - 1 + 1 ELSE 0
          /\ \A j \in 1..(m - 1 + 1) : SubSeq(p, 1, m)[j] = p[1 + j - 1]
          BY <3>1, SubSeqProperties
    <3>3. Len(SubSeq(p, 1, m)) = Len(p)
          BY <1>5, <3>2
    <3>4. ASSUME NEW i \in 1..Len(p) PROVE SubSeq(p, 1, m)[i] = p[i]
      <4>1. i \in 1..(m - 1 + 1) /\ 1 + i - 1 = i
            BY <1>5
      <4> QED BY <3>2, <4>1
    <3> QED BY <1>5, <3>2, <3>3, <3>4, SeqEqual
  <2>2. SubSeq(s, 1, m) = p
        BY <1>3 DEF p
  <2>3. Len(p) <= Len(s)
        BY <1>0, <1>2, <1>5
  <2> QED BY <1>5, <2>1, <2>2, <2>3 DEF IsPrefix
<1>10. Len(p) <= n /\ Len(p) <= Len(s) /\ (Len(p) = n \/ Len(p) = Len(s))
       BY <1>0, <1>2, <1>5
<1>11. \A i \in 1..Len(p) : p[i] = s[i]
       BY <1>5
<1> QED BY <1>5, <1>7, <1>8, <1>9, <1>10, <1>11 DEF p

\* An arrangement of a finite set lists some of its members, none twice.
LEMMA ArrangementFacts ==
    ASSUME NEW S, IsFiniteSet(S), NEW s \in Arrangements(S)
    PROVE  s \in Seq(S) /\ IsInjective(s)
<1>1. PICK T \in SUBSET S : s \in OrdersOf(T)
      BY DEF Arrangements
<1>2. IsFiniteSet(T) /\ Cardinality(T) \in Nat
      BY FS_Subset, FS_CardinalityType
<1> DEFINE n == Cardinality(T)
<1>3. s \in [1..n -> T] /\ Range(s) = T
      BY <1>1 DEF OrdersOf
<1> HIDE DEF n
<1>4. n \in Nat
      BY <1>2 DEF n
<1>5. s \in Surjection(1..n, T)
      BY <1>3 DEF Surjection, Range
<1>6. IsFiniteSet(1..n) /\ Cardinality(1..n) = Cardinality(T)
      BY <1>4, FS_Interval DEF n
<1>7. s \in Injection(1..n, T)
      BY <1>5, <1>6, FS_SurjSameCardinalityImpliesInj
<1>8. IsInjective(s)
      BY <1>7 DEF Injection
<1>9. s \in Seq(S)
      BY <1>3, <1>4
<1> QED BY <1>8, <1>9

LEMMA OrderIsArrangement ==
    ASSUME NEW S, NEW s \in OrdersOf(S)
    PROVE  s \in Arrangements(S)
BY DEF Arrangements

LEMMA EligibleFinite ==
    ASSUME RetrievalTypeOK
    PROVE  /\ Eligible \subseteq Chunks /\ IsFiniteSet(Eligible)
           /\ \A T \in SUBSET Chunks : IsFiniteSet(T)
<1>1. \A T \in SUBSET Chunks : IsFiniteSet(T)
      BY RetrievalAssumption, FS_Subset
<1>2. Eligible \subseteq Chunks
      BY DEF Eligible, RetrievalTypeOK
<1> QED BY <1>1, <1>2

\* A ranking lists eligible chunks, at most n, and none twice unless it is the
\* sparse one and a chunk has two sparse rows.
LEMMA RankingFacts ==
    ASSUME RetrievalTypeOK, NEW n \in Nat
    PROVE  /\ \A s \in DenseRankings(n) \cup TextRankings(n) :
                  s \in Seq(Eligible) /\ Len(s) <= n /\ IsInjective(s)
           /\ \A s \in SparseRankings(n) :
                  s \in Seq(Eligible) /\ Len(s) <= n /\ (IsInjective(s) \/ corpus.twice # {})
<1>1. Eligible \subseteq Chunks /\ IsFiniteSet(Eligible)
      BY EligibleFinite
<1>2. ASSUME NEW s \in DenseRankings(n) \cup TextRankings(n)
      PROVE  s \in Seq(Eligible) /\ Len(s) <= n /\ IsInjective(s)
  <2>1. PICK t \in Arrangements(Eligible) : s = Prefix(t, n)
        BY OrderIsArrangement DEF DenseRankings, TextRankings
  <2>2. t \in Seq(Eligible) /\ IsInjective(t)
        BY <1>1, ArrangementFacts
  <2> QED BY <2>1, <2>2, PrefixFacts
<1>3. ASSUME NEW s \in SparseRankings(n)
      PROVE  s \in Seq(Eligible) /\ Len(s) <= n /\ (IsInjective(s) \/ corpus.twice # {})
  <2> DEFINE twice == corpus.twice \cap Eligible
  <2>1. PICK t \in Arrangements(RankedRows) : s = Prefix([i \in DOMAIN t |-> t[i][1]], n)
        BY DEF SparseRankings
  <2>2. IsFiniteSet(RankedRows)
    <3>1. IsFiniteSet({1}) /\ IsFiniteSet({2}) /\ IsFiniteSet(twice)
          BY <1>1, FS_Singleton, FS_Subset
    <3>2. IsFiniteSet(Eligible \X {1}) /\ IsFiniteSet(twice \X {2})
          BY <1>1, <3>1, FS_Product
    <3> QED BY <3>2, FS_Union DEF RankedRows
  <2>3. t \in Seq(RankedRows) /\ IsInjective(t)
        BY <2>2, ArrangementFacts
  <2>4. \A row \in RankedRows : /\ row = <<row[1], row[2]>> /\ row[1] \in Eligible
                                /\ corpus.twice = {} => row[2] = 1
        BY DEF RankedRows
  <2> DEFINE u == [i \in DOMAIN t |-> t[i][1]]
  <2>5. DOMAIN t = 1..Len(t) /\ Len(t) \in Nat /\ \A i \in DOMAIN t : t[i] \in RankedRows
        BY <2>3, LenProperties, ElementOfSeq
  <2>6. u \in Seq(Eligible)
        BY <2>4, <2>5
  <2>7. corpus.twice = {} => IsInjective(u)
    <3> SUFFICES ASSUME corpus.twice = {}, NEW i \in DOMAIN t, NEW j \in DOMAIN t, t[i][1] = t[j][1]
                 PROVE  i = j
        BY DEF IsInjective
    <3>1. t[i] = <<t[i][1], 1>> /\ t[j] = <<t[j][1], 1>>
          BY <2>4, <2>5
    <3>2. t[i] = t[j]
          BY <3>1
    <3> QED BY <2>3, <3>2 DEF IsInjective
  <2>8. s = Prefix(u, n)
        BY <2>1
  <2> HIDE DEF u
  <2> QED BY <2>6, <2>7, <2>8, PrefixFacts
<1> QED BY <1>2, <1>3

-----------------------------------------------------------------------------
(* Retrieval: fusion                                                         *)

LEMMA ScoresFall ==
    /\ \A i \in Nat : RrfScore(i) \in Nat
    /\ \A i, j \in Nat : i <= j => RrfScore(j) <= RrfScore(i)
<1> DEFINE k == RrfScale
<1>1. k \in Nat
      BY DEF RrfScale
<1> HIDE DEF k
<1>2. ASSUME NEW i \in Nat PROVE RrfScore(i) \in Nat
  <2>1. 60 + i \in Nat \ {0}
        OBVIOUS
  <2>2. \A a \in Nat \ {0} : k \div a \in Nat
        BY <1>1
  <2> QED BY <2>1, <2>2 DEF RrfScore, k
<1>3. ASSUME NEW i \in Nat, NEW j \in Nat, i <= j PROVE RrfScore(j) <= RrfScore(i)
  <2>1. 60 + i \in Nat \ {0} /\ 60 + j \in Nat \ {0} /\ 60 + i <= 60 + j
        BY <1>3
  <2>2. \A a, b \in Nat \ {0} : a <= b => k \div b <= k \div a
        BY <1>1
  <2> QED BY <2>1, <2>2 DEF RrfScore, k
<1> QED BY <1>2, <1>3

LEMMA PositionFacts ==
    ASSUME NEW list \in Seq(Chunks), NEW c
    PROVE  /\ Positions(list, c) \in SUBSET (1..Len(list)) /\ Len(list) \in Nat
           /\ Positions(list, c) # {} =>
                  /\ Max(Positions(list, c)) \in Positions(list, c)
                  /\ Min(Positions(list, c)) \in Positions(list, c)
                  /\ \A i \in Positions(list, c) : Min(Positions(list, c)) <= i /\ i <= Max(Positions(list, c))
<1>1. Positions(list, c) \in SUBSET (1..Len(list)) /\ Len(list) \in Nat
      BY LenProperties DEF Positions
<1> QED BY <1>1, PositionsBounded

LEMMA KeyTypes ==
    ASSUME NEW list \in Seq(Chunks), NEW c
    PROVE  ScoreIn(list, c) \in Nat /\ RankIn(list, c) \in Nat
<1> DEFINE at == Positions(list, c)
<1>1. at = {} \/ (Max(at) \in Nat /\ Min(at) \in Nat)
      BY PositionFacts
<1> HIDE DEF at
<1>2. ScoreIn(list, c) \in Nat
  <2>1. CASE at = {}
        BY <2>1 DEF ScoreIn, at
  <2>2. CASE at # {}
    <3>1. RrfScore(Max(at)) \in Nat /\ RrfScore(Min(at)) \in Nat
          BY <1>1, <2>2, ScoresFall
    <3> DEFINE other == IF Min(at) < Max(at) THEN RrfScore(Min(at)) ELSE 0
    <3>2. other \in Nat
          BY <3>1
    <3>3. ScoreIn(list, c) = RrfScore(Max(at)) + other
          BY <2>2 DEF ScoreIn, at
    <3> HIDE DEF other
    <3> QED BY <3>1, <3>2, <3>3
  <2> QED BY <2>1, <2>2
<1>3. RankIn(list, c) \in Nat
  <2>1. NoRank \in Nat
        BY SMT DEF NoRank
  <2> QED BY <1>1, <2>1 DEF RankIn, at
<1> QED BY <1>2, <1>3

\* Of three keys in order, the first comes before the last.
LEMMA KeysTransitive ==
    ASSUME NEW a, NEW b, NEW c,
           \A i \in 1..4 : a[i] \in Int /\ b[i] \in Int /\ c[i] \in Int,
           \/ a[1] < b[1]
           \/ a[1] = b[1] /\ a[2] < b[2]
           \/ a[1] = b[1] /\ a[2] = b[2] /\ a[3] < b[3]
           \/ a[1] = b[1] /\ a[2] = b[2] /\ a[3] = b[3] /\ a[4] < b[4],
           \/ b[1] < c[1]
           \/ b[1] = c[1] /\ b[2] < c[2]
           \/ b[1] = c[1] /\ b[2] = c[2] /\ b[3] < c[3]
           \/ b[1] = c[1] /\ b[2] = c[2] /\ b[3] = c[3] /\ b[4] < c[4]
    PROVE  \/ a[1] < c[1]
           \/ a[1] = c[1] /\ a[2] < c[2]
           \/ a[1] = c[1] /\ a[2] = c[2] /\ a[3] < c[3]
           \/ a[1] = c[1] /\ a[2] = c[2] /\ a[3] = c[3] /\ a[4] < c[4]
<1>1. PICK a1 \in Int, a2 \in Int, a3 \in Int, a4 \in Int :
          a1 = a[1] /\ a2 = a[2] /\ a3 = a[3] /\ a4 = a[4]
      OBVIOUS
<1>2. PICK b1 \in Int, b2 \in Int, b3 \in Int, b4 \in Int :
          b1 = b[1] /\ b2 = b[2] /\ b3 = b[3] /\ b4 = b[4]
      OBVIOUS
<1>3. PICK c1 \in Int, c2 \in Int, c3 \in Int, c4 \in Int :
          c1 = c[1] /\ c2 = c[2] /\ c3 = c[3] /\ c4 = c[4]
      OBVIOUS
<1>4. \/ a1 < b1
      \/ a1 = b1 /\ a2 < b2
      \/ a1 = b1 /\ a2 = b2 /\ a3 < b3
      \/ a1 = b1 /\ a2 = b2 /\ a3 = b3 /\ a4 < b4
      BY <1>1, <1>2
<1>5. \/ b1 < c1
      \/ b1 = c1 /\ b2 < c2
      \/ b1 = c1 /\ b2 = c2 /\ b3 < c3
      \/ b1 = c1 /\ b2 = c2 /\ b3 = c3 /\ b4 < c4
      BY <1>2, <1>3
<1>6. \/ a1 < c1
      \/ a1 = c1 /\ a2 < c2
      \/ a1 = c1 /\ a2 = c2 /\ a3 < c3
      \/ a1 = c1 /\ a2 = c2 /\ a3 = c3 /\ a4 < c4
  <2>1. CASE a1 < b1
        BY <1>5, <2>1
  <2>2. CASE a1 = b1 /\ a2 < b2
        BY <1>5, <2>2
  <2>3. CASE a1 = b1 /\ a2 = b2 /\ a3 < b3
        BY <1>5, <2>3
  <2>4. CASE a1 = b1 /\ a2 = b2 /\ a3 = b3 /\ a4 < b4
        BY <1>5, <2>4
  <2> QED BY <1>4, <2>1, <2>2, <2>3, <2>4
<1> QED BY <1>1, <1>3, <1>6

\* The sort key orders chunks strictly and totally.
LEMMA KeysOrder ==
    ASSUME NEW first \in Seq(Chunks), NEW second \in Seq(Chunks)
    PROVE  /\ \A c \in Chunks : <<c, c>> \notin FusedBefore(first, second)
           /\ \A c, d, e \in Chunks :
                  <<c, d>> \in FusedBefore(first, second) /\ <<d, e>> \in FusedBefore(first, second)
                      => <<c, e>> \in FusedBefore(first, second)
           /\ \A c, d \in Chunks :
                  c # d => \/ <<c, d>> \in FusedBefore(first, second)
                           \/ <<d, c>> \in FusedBefore(first, second)
<1> DEFINE K(c) == FusedKey(first, second, c)
<1>0. Chunks \subseteq Int
      BY RetrievalAssumption
<1>1. \A c \in Chunks : /\ K(c)[1] \in Int /\ K(c)[2] \in Int /\ K(c)[3] \in Int
                        /\ K(c)[4] \in Int /\ K(c)[4] = c
  <2> SUFFICES ASSUME NEW c \in Chunks
               PROVE  /\ K(c)[1] \in Int /\ K(c)[2] \in Int /\ K(c)[3] \in Int
                      /\ K(c)[4] \in Int /\ K(c)[4] = c
      OBVIOUS
  <2>1. /\ ScoreIn(first, c) \in Nat /\ ScoreIn(second, c) \in Nat
        /\ RankIn(first, c) \in Nat /\ RankIn(second, c) \in Nat
        BY KeyTypes
  <2>2. -(ScoreIn(first, c) + ScoreIn(second, c)) \in Int
        BY <2>1
  <2> QED BY <1>0, <2>1, <2>2 DEF FusedKey
<1>2. \A c, d \in Chunks :
          <<c, d>> \in FusedBefore(first, second) =>
              KeyLess(K(c), K(d))
      BY DEF FusedBefore
<1>3. \A c, d \in Chunks :
          KeyLess(K(c), K(d)) => <<c, d>> \in FusedBefore(first, second)
      BY DEF FusedBefore
<1> HIDE DEF K
<1>4. \A c \in Chunks : ~KeyLess(K(c), K(c))
      BY <1>1 DEF KeyLess
<1>5. \A c, d \in Chunks : KeyLess(K(c), K(d)) =>
          \/ K(c)[1] < K(d)[1]
          \/ K(c)[1] = K(d)[1] /\ K(c)[2] < K(d)[2]
          \/ K(c)[1] = K(d)[1] /\ K(c)[2] = K(d)[2] /\ K(c)[3] < K(d)[3]
          \/ K(c)[1] = K(d)[1] /\ K(c)[2] = K(d)[2] /\ K(c)[3] = K(d)[3] /\ K(c)[4] < K(d)[4]
  <2> SUFFICES ASSUME NEW c \in Chunks, NEW d \in Chunks, KeyLess(K(c), K(d))
               PROVE  \/ K(c)[1] < K(d)[1]
                      \/ K(c)[1] = K(d)[1] /\ K(c)[2] < K(d)[2]
                      \/ K(c)[1] = K(d)[1] /\ K(c)[2] = K(d)[2] /\ K(c)[3] < K(d)[3]
                      \/ /\ K(c)[1] = K(d)[1] /\ K(c)[2] = K(d)[2] /\ K(c)[3] = K(d)[3]
                         /\ K(c)[4] < K(d)[4]
      OBVIOUS
  <2>1. PICK i \in 1..4 : K(c)[i] < K(d)[i] /\ \A j \in 1..(i - 1) : K(c)[j] = K(d)[j]
        BY DEF KeyLess
  <2>2. i = 1 \/ i = 2 \/ i = 3 \/ i = 4
        OBVIOUS
  <2> QED BY <2>1, <2>2
<1>6. \A c, d \in Chunks :
          (\/ K(c)[1] < K(d)[1]
           \/ K(c)[1] = K(d)[1] /\ K(c)[2] < K(d)[2]
           \/ K(c)[1] = K(d)[1] /\ K(c)[2] = K(d)[2] /\ K(c)[3] < K(d)[3]
           \/ K(c)[1] = K(d)[1] /\ K(c)[2] = K(d)[2] /\ K(c)[3] = K(d)[3] /\ K(c)[4] < K(d)[4])
          => KeyLess(K(c), K(d))
  <2> SUFFICES ASSUME NEW c \in Chunks, NEW d \in Chunks,
                      \/ K(c)[1] < K(d)[1]
                      \/ K(c)[1] = K(d)[1] /\ K(c)[2] < K(d)[2]
                      \/ K(c)[1] = K(d)[1] /\ K(c)[2] = K(d)[2] /\ K(c)[3] < K(d)[3]
                      \/ /\ K(c)[1] = K(d)[1] /\ K(c)[2] = K(d)[2] /\ K(c)[3] = K(d)[3]
                         /\ K(c)[4] < K(d)[4]
               PROVE  KeyLess(K(c), K(d))
      OBVIOUS
  <2>1. CASE K(c)[1] < K(d)[1]
    <3>1. 1 \in 1..4 /\ \A j \in 1..(1 - 1) : K(c)[j] = K(d)[j]
          OBVIOUS
    <3> QED BY <2>1, <3>1 DEF KeyLess
  <2>2. CASE K(c)[1] = K(d)[1] /\ K(c)[2] < K(d)[2]
    <3>1. 2 \in 1..4 /\ \A j \in 1..(2 - 1) : K(c)[j] = K(d)[j]
          BY <2>2
    <3> QED BY <2>2, <3>1 DEF KeyLess
  <2>3. CASE K(c)[1] = K(d)[1] /\ K(c)[2] = K(d)[2] /\ K(c)[3] < K(d)[3]
    <3>1. 3 \in 1..4 /\ \A j \in 1..(3 - 1) : K(c)[j] = K(d)[j]
          BY <2>3
    <3> QED BY <2>3, <3>1 DEF KeyLess
  <2>4. CASE /\ K(c)[1] = K(d)[1] /\ K(c)[2] = K(d)[2] /\ K(c)[3] = K(d)[3]
             /\ K(c)[4] < K(d)[4]
    <3>1. 4 \in 1..4 /\ \A j \in 1..(4 - 1) : K(c)[j] = K(d)[j]
          BY <2>4
    <3> QED BY <2>4, <3>1 DEF KeyLess
  <2> QED BY <2>1, <2>2, <2>3, <2>4
<1>7. \A c, d, e \in Chunks :
          KeyLess(K(c), K(d)) /\ KeyLess(K(d), K(e)) => KeyLess(K(c), K(e))
  <2> SUFFICES ASSUME NEW c \in Chunks, NEW d \in Chunks, NEW e \in Chunks,
                      KeyLess(K(c), K(d)), KeyLess(K(d), K(e))
               PROVE  KeyLess(K(c), K(e))
      OBVIOUS
  <2>1. \/ K(c)[1] < K(e)[1]
        \/ K(c)[1] = K(e)[1] /\ K(c)[2] < K(e)[2]
        \/ K(c)[1] = K(e)[1] /\ K(c)[2] = K(e)[2] /\ K(c)[3] < K(e)[3]
        \/ /\ K(c)[1] = K(e)[1] /\ K(c)[2] = K(e)[2] /\ K(c)[3] = K(e)[3]
           /\ K(c)[4] < K(e)[4]
    <3>1. \/ K(c)[1] < K(d)[1]
          \/ K(c)[1] = K(d)[1] /\ K(c)[2] < K(d)[2]
          \/ K(c)[1] = K(d)[1] /\ K(c)[2] = K(d)[2] /\ K(c)[3] < K(d)[3]
          \/ /\ K(c)[1] = K(d)[1] /\ K(c)[2] = K(d)[2] /\ K(c)[3] = K(d)[3]
             /\ K(c)[4] < K(d)[4]
          BY <1>5
    <3>2. \/ K(d)[1] < K(e)[1]
          \/ K(d)[1] = K(e)[1] /\ K(d)[2] < K(e)[2]
          \/ K(d)[1] = K(e)[1] /\ K(d)[2] = K(e)[2] /\ K(d)[3] < K(e)[3]
          \/ /\ K(d)[1] = K(e)[1] /\ K(d)[2] = K(e)[2] /\ K(d)[3] = K(e)[3]
             /\ K(d)[4] < K(e)[4]
          BY <1>5
    <3> QED BY <1>1, <3>1, <3>2, KeysTransitive
  <2> QED BY <1>6, <2>1
<1>8. \A c, d \in Chunks : c # d => KeyLess(K(c), K(d)) \/ KeyLess(K(d), K(c))
  <2> SUFFICES ASSUME NEW c \in Chunks, NEW d \in Chunks, c # d
               PROVE  KeyLess(K(c), K(d)) \/ KeyLess(K(d), K(c))
      OBVIOUS
  <2>1. /\ K(c)[4] \in Int /\ K(d)[4] \in Int /\ K(c)[4] # K(d)[4]
        /\ K(c)[1] \in Int /\ K(d)[1] \in Int /\ K(c)[2] \in Int /\ K(d)[2] \in Int
        /\ K(c)[3] \in Int /\ K(d)[3] \in Int
        BY <1>1
  <2>2. \/ K(c)[1] < K(d)[1]
        \/ K(c)[1] = K(d)[1] /\ K(c)[2] < K(d)[2]
        \/ K(c)[1] = K(d)[1] /\ K(c)[2] = K(d)[2] /\ K(c)[3] < K(d)[3]
        \/ K(c)[1] = K(d)[1] /\ K(c)[2] = K(d)[2] /\ K(c)[3] = K(d)[3] /\ K(c)[4] < K(d)[4]
        \/ K(d)[1] < K(c)[1]
        \/ K(d)[1] = K(c)[1] /\ K(d)[2] < K(c)[2]
        \/ K(d)[1] = K(c)[1] /\ K(d)[2] = K(c)[2] /\ K(d)[3] < K(c)[3]
        \/ K(d)[1] = K(c)[1] /\ K(d)[2] = K(c)[2] /\ K(d)[3] = K(c)[3] /\ K(d)[4] < K(c)[4]
        BY <2>1
  <2> QED BY <1>6, <2>2, Zenon
<1> QED BY <1>2, <1>3, <1>4, <1>7, <1>8

\* In a list without repetitions, whoever is ahead has no lower score and no
\* worse rank, and a better one than anybody the list has.
LEMMA AheadScores ==
    ASSUME NEW list \in Seq(Chunks), IsInjective(list), Len(list) < NoRank,
           NEW a, NEW b,
           Positions(list, b) # {} =>
               Positions(list, a) # {} /\ Max(Positions(list, a)) < Max(Positions(list, b))
    PROVE  /\ ScoreIn(list, b) <= ScoreIn(list, a)
           /\ RankIn(list, a) <= RankIn(list, b)
           /\ Positions(list, b) # {} => RankIn(list, a) < RankIn(list, b)
<1>1. \A c : Positions(list, c) = {} => ScoreIn(list, c) = 0 /\ RankIn(list, c) = NoRank
      BY DEF ScoreIn, RankIn
<1>2. ASSUME NEW c, Positions(list, c) # {}
      PROVE  /\ Max(Positions(list, c)) \in Nat /\ Max(Positions(list, c)) < NoRank
             /\ RankIn(list, c) = Max(Positions(list, c))
             /\ ScoreIn(list, c) = RrfScore(Max(Positions(list, c)))
  <2> DEFINE hi == Max(Positions(list, c))
             lo == Min(Positions(list, c))
  <2>1. /\ hi \in Positions(list, c) /\ lo \in Positions(list, c)
        /\ hi \in 1..Len(list) /\ lo \in 1..Len(list) /\ Len(list) \in Nat
        BY <1>2, PositionFacts
  <2> HIDE DEF hi, lo
  <2>2. list[hi] = c /\ list[lo] = c /\ hi \in DOMAIN list /\ lo \in DOMAIN list
        BY <2>1 DEF Positions
  <2>3. hi = lo
        BY <2>2 DEF IsInjective
  <2>4. hi \in Nat /\ lo \in Nat /\ ~(lo < hi)
        BY <2>1, <2>3
  <2>5. hi < NoRank
    <3>1. NoRank \in Int
          BY SMT DEF NoRank
    <3> QED BY <2>1, <3>1
  <2>6. RankIn(list, c) = hi
        BY <1>2 DEF RankIn, hi
  <2>7. ScoreIn(list, c) = RrfScore(hi) + 0
    <3>1. ScoreIn(list, c) = RrfScore(hi) + (IF lo < hi THEN RrfScore(lo) ELSE 0)
          BY <1>2 DEF ScoreIn, hi, lo
    <3> QED BY <2>4, <3>1
  <2>8. RrfScore(hi) \in Nat
        BY <2>4, ScoresFall
  <2>9. ScoreIn(list, c) = RrfScore(hi)
        BY <2>7, <2>8
  <2> QED BY <2>4, <2>5, <2>6, <2>9 DEF hi
<1>3. /\ ScoreIn(list, a) \in Nat /\ ScoreIn(list, b) \in Nat
      /\ RankIn(list, a) \in Nat /\ RankIn(list, b) \in Nat
      BY KeyTypes
<1>4. NoRank \in Nat
      BY SMT DEF NoRank
<1>5. CASE Positions(list, b) # {}
  <2> DEFINE i == Max(Positions(list, a))
             j == Max(Positions(list, b))
  <2>1. /\ i \in Nat /\ RankIn(list, a) = i /\ ScoreIn(list, a) = RrfScore(i)
        /\ j \in Nat /\ RankIn(list, b) = j /\ ScoreIn(list, b) = RrfScore(j)
        /\ i < j
        BY <1>2, <1>5
  <2> HIDE DEF i, j
  <2>2. RrfScore(j) <= RrfScore(i)
        BY <2>1, ScoresFall
  <2> QED BY <2>1, <2>2
<1>6. CASE Positions(list, b) = {}
  <2>1. ScoreIn(list, b) = 0 /\ RankIn(list, b) = NoRank
        BY <1>1, <1>6
  <2>2. RankIn(list, a) <= NoRank
    <3>1. CASE Positions(list, a) = {}
          BY <1>1, <1>4, <3>1
    <3>2. CASE Positions(list, a) # {}
      <4>1. RankIn(list, a) < NoRank
            BY <1>2, <3>2
      <4> QED BY <1>3, <1>4, <4>1
    <3> QED BY <3>1, <3>2
  <2> QED BY <1>3, <1>6, <2>1, <2>2
<1> QED BY <1>5, <1>6

\* A chunk that is ahead of another in every ranking that has the other comes
\* before it.
LEMMA AheadIsBefore ==
    ASSUME NEW first \in Seq(Chunks), IsInjective(first), Len(first) < NoRank,
           NEW second \in Seq(Chunks), IsInjective(second), Len(second) < NoRank,
           NEW a \in Chunks, NEW b \in Range(first) \cup Range(second),
           Positions(first, b) # {} =>
               Positions(first, a) # {} /\ Max(Positions(first, a)) < Max(Positions(first, b)),
           Positions(second, b) # {} =>
               Positions(second, a) # {} /\ Max(Positions(second, a)) < Max(Positions(second, b))
    PROVE  <<a, b>> \in FusedBefore(first, second)
<1>1. /\ ScoreIn(first, b) <= ScoreIn(first, a)
      /\ RankIn(first, a) <= RankIn(first, b)
      /\ Positions(first, b) # {} => RankIn(first, a) < RankIn(first, b)
      BY AheadScores
<1>2. /\ ScoreIn(second, b) <= ScoreIn(second, a)
      /\ RankIn(second, a) <= RankIn(second, b)
      /\ Positions(second, b) # {} => RankIn(second, a) < RankIn(second, b)
      BY AheadScores
<1>3. Positions(first, b) # {} \/ Positions(second, b) # {}
      BY DEF Range, Positions
<1>4. b \in Chunks
  <2>1. Range(first) \subseteq Chunks /\ Range(second) \subseteq Chunks
        BY ElementOfSeq, LenProperties DEF Range
  <2> QED BY <2>1
<1>5. PICK sa \in Nat, sb \in Nat, ta \in Nat, tb \in Nat :
          /\ sa = ScoreIn(first, a) /\ sb = ScoreIn(first, b)
          /\ ta = ScoreIn(second, a) /\ tb = ScoreIn(second, b)
      BY KeyTypes
<1>6. PICK ra \in Nat, rb \in Nat, qa \in Nat, qb \in Nat :
          /\ ra = RankIn(first, a) /\ rb = RankIn(first, b)
          /\ qa = RankIn(second, a) /\ qb = RankIn(second, b)
      BY KeyTypes
<1>7. /\ sb <= sa /\ tb <= ta /\ ra <= rb /\ qa <= qb
      /\ ra < rb \/ qa < qb
      BY <1>1, <1>2, <1>3, <1>5, <1>6
<1>8. \/ -(sa + ta) < -(sb + tb)
      \/ -(sa + ta) = -(sb + tb) /\ ra < rb
      \/ -(sa + ta) = -(sb + tb) /\ ra = rb /\ qa < qb
      BY <1>7
<1> DEFINE ka == <<-(sa + ta), ra, qa, a>>
           kb == <<-(sb + tb), rb, qb, b>>
<1>9. FusedKey(first, second, a) = ka /\ FusedKey(first, second, b) = kb
      BY <1>5, <1>6 DEF FusedKey
<1>10. /\ ka[1] = -(sa + ta) /\ ka[2] = ra /\ ka[3] = qa
       /\ kb[1] = -(sb + tb) /\ kb[2] = rb /\ kb[3] = qb
       OBVIOUS
<1> HIDE DEF ka, kb
<1>11. KeyLess(ka, kb)
  <2>1. CASE ka[1] < kb[1]
    <3>1. 1 \in 1..4 /\ \A j \in 1..(1 - 1) : ka[j] = kb[j]
          OBVIOUS
    <3> QED BY <2>1, <3>1 DEF KeyLess
  <2>2. CASE ka[1] = kb[1] /\ ka[2] < kb[2]
    <3>1. 2 \in 1..4 /\ \A j \in 1..(2 - 1) : ka[j] = kb[j]
          BY <2>2
    <3> QED BY <2>2, <3>1 DEF KeyLess
  <2>3. CASE ka[1] = kb[1] /\ ka[2] = kb[2] /\ ka[3] < kb[3]
    <3>1. 3 \in 1..4 /\ \A j \in 1..(3 - 1) : ka[j] = kb[j]
          BY <2>3
    <3> QED BY <2>3, <3>1 DEF KeyLess
  <2> QED BY <1>8, <1>10, <2>1, <2>2, <2>3
<1> QED BY <1>4, <1>9, <1>11 DEF FusedBefore

\* The fusion lists chunks of its rankings, none twice and at most n, and does
\* not list one without those that come before it.
LEMMA FusedFacts ==
    ASSUME NEW first \in Seq(Chunks), NEW second \in Seq(Chunks), NEW n \in Nat
    PROVE  /\ Fused(first, second, n) \in Seq(Range(first) \cup Range(second))
           /\ Len(Fused(first, second, n)) <= n
           /\ IsInjective(Fused(first, second, n))
           /\ \A b \in DOMAIN Fused(first, second, n) : \A a \in Range(first) \cup Range(second) :
                  <<a, Fused(first, second, n)[b]>> \in FusedBefore(first, second) =>
                      \E i \in 1..(b - 1) : Fused(first, second, n)[i] = a
<1> DEFINE S == Range(first) \cup Range(second)
           before == FusedBefore(first, second)
           sorted == Sorted(S, before)
           m == Cardinality(S)
           fused == Fused(first, second, n)
<1>1. S \subseteq Chunks
      BY ElementOfSeq, LenProperties DEF Range
<1>2. IsFiniteSet(S)
      BY <1>1, RetrievalAssumption, FS_Subset
<1>3. /\ \A c \in S : <<c, c>> \notin before
      /\ \A c, d, e \in S : <<c, d>> \in before /\ <<d, e>> \in before => <<c, e>> \in before
      /\ \A c, d \in S : c # d => <<c, d>> \in before \/ <<d, c>> \in before
  <2> HIDE DEF before, S
  <2>1. /\ \A c \in Chunks : <<c, c>> \notin before
        /\ \A c, d, e \in Chunks : <<c, d>> \in before /\ <<d, e>> \in before => <<c, e>> \in before
        /\ \A c, d \in Chunks : c # d => <<c, d>> \in before \/ <<d, c>> \in before
        BY KeysOrder DEF before
  <2> QED BY <1>1, <2>1
<1> HIDE DEF S, before
<1>4. /\ m \in Nat /\ sorted \in Seq(S) /\ Len(sorted) = m
      /\ \A i, j \in 1..m : sorted[i] = sorted[j] => i = j
      /\ \A c \in S : \E i \in 1..m : sorted[i] = c
      /\ \A i, j \in 1..m : <<sorted[i], sorted[j]>> \in before => i < j
      BY <1>2, <1>3, SortedFacts
<1>5. fused = Prefix(sorted, n)
      BY DEF Fused, S, before
<1> HIDE DEF sorted, m, fused
<1>6. IsInjective(sorted)
      BY <1>4, LenProperties DEF IsInjective
<1>7. /\ fused \in Seq(S) /\ Len(fused) <= n /\ Len(fused) <= m
      /\ \A i \in 1..Len(fused) : fused[i] = sorted[i]
      /\ IsInjective(fused)
      BY <1>4, <1>5, <1>6, PrefixFacts
<1>8. PICK k \in Nat : k = Len(fused) /\ DOMAIN fused = 1..k
      BY <1>7, LenProperties
<1>9. ASSUME NEW b \in DOMAIN fused, NEW a \in S, <<a, fused[b]>> \in before
      PROVE  \E i \in 1..(b - 1) : fused[i] = a
  <2>1. PICK i \in 1..m : sorted[i] = a
        BY <1>4
  <2>2. b \in 1..k /\ b \in 1..m /\ fused[b] = sorted[b]
        BY <1>4, <1>7, <1>8
  <2>3. i < b
        BY <1>4, <1>9, <2>1, <2>2
  <2>4. i \in 1..(b - 1) /\ i \in 1..k
        BY <2>1, <2>2, <2>3
  <2>5. fused[i] = a
        BY <1>7, <1>8, <2>1, <2>4
  <2> QED BY <2>4, <2>5
<1> QED BY <1>7, <1>9 DEF S, before, fused

\* What is cited of the hits are hits, in their order, which the tables still
\* have, each once.
LEMMA CitedFacts ==
    ASSUME RetrievalTypeOK, NEW hits \in Seq(Chunks)
    PROVE  /\ Cited(hits) \in Seq(Eligible) /\ Len(Cited(hits)) <= Len(hits)
           /\ IsInjective(Cited(hits))
<1> DEFINE kept == {i \in DOMAIN hits : /\ hits[i] \in Eligible
                                        /\ \A j \in 1..(i - 1) : hits[j] # hits[i]}
           places == Sorted(kept, {p \in kept \X kept : p[1] < p[2]})
           m == Cardinality(kept)
           cited == [i \in DOMAIN places |-> hits[places[i]]]
<1>1. PICK k \in Nat : k = Len(hits) /\ DOMAIN hits = 1..k
      BY LenProperties
<1>2. /\ kept \subseteq 1..k
      /\ \A i \in kept : i \in 1..k /\ hits[i] \in Eligible /\ \A j \in 1..(i - 1) : hits[j] # hits[i]
      BY <1>1
<1>3. Cited(hits) = cited
      BY DEF Cited
<1> HIDE DEF kept
<1>4. IsFiniteSet(kept) /\ Cardinality(kept) <= k /\ kept \in SUBSET Int
  <2>1. IsFiniteSet(1..k) /\ Cardinality(1..k) = k
        BY FS_Interval
  <2>2. IsFiniteSet(kept) /\ Cardinality(kept) <= Cardinality(1..k)
        BY <1>2, <2>1, FS_Subset
  <2>3. kept \subseteq Int
        BY <1>2
  <2> QED BY <2>1, <2>2, <2>3
<1>5. /\ m \in Nat /\ places \in Seq(kept) /\ Len(places) = m
      /\ \A i, j \in 1..m : places[i] = places[j] => i = j
      BY <1>4, NumbersSorted
<1> HIDE DEF places, m
<1>6. DOMAIN places = 1..m /\ \A i \in 1..m : places[i] \in kept
      BY <1>5, LenProperties, ElementOfSeq
<1>7. cited \in Seq(Eligible) /\ Len(cited) = m /\ DOMAIN cited = 1..m
  <2>1. \A i \in 1..m : hits[places[i]] \in Eligible
        BY <1>2, <1>6
  <2>2. cited \in [1..m -> Eligible]
        BY <1>6, <2>1
  <2> HIDE DEF cited
  <2> QED BY <1>5, <2>2
<1>8. IsInjective(cited)
  <2> SUFFICES ASSUME NEW i \in 1..m, NEW j \in 1..m, hits[places[i]] = hits[places[j]]
               PROVE  i = j
      BY <1>6, <1>7 DEF IsInjective
  <2>1. PICK p \in kept, q \in kept : p = places[i] /\ q = places[j]
        BY <1>6
  <2>2. hits[p] = hits[q] /\ p \in 1..k /\ q \in 1..k
        BY <1>2, <2>1
  <2>3. ~(p < q) /\ ~(q < p)
    <3>1. p \in 1..(q - 1) => FALSE
          BY <1>2, <2>2
    <3>2. q \in 1..(p - 1) => FALSE
          BY <1>2, <2>2
    <3> QED BY <2>2, <3>1, <3>2
  <2>4. p = q
        BY <2>2, <2>3
  <2> QED BY <1>5, <2>1, <2>4
<1> QED BY <1>1, <1>3, <1>4, <1>7, <1>8 DEF m

-----------------------------------------------------------------------------
(* Retrieval: the invariant                                                  *)

\* A list of chunks that match, of versions that were not superseded when the
\* search began.
CitesCurrent(list) ==
    \A i \in DOMAIN list :
        /\ ChunkTable[list[i]].matches
        /\ search.since[ChunkTable[list[i]].document] <= ChunkTable[list[i]].version

Accepts ==
    search.phase \in {"dense", "second", "found", "done"} =>
        /\ search.limit \in Nat \ {0} /\ search.candidateLimit \in Nat
        /\ search.limit <= search.candidateLimit /\ search.candidateLimit <= MaxLimit
        /\ ~search.rerank => search.candidateLimit = search.limit
        /\ Len(search.first) <= search.candidateLimit
        /\ Len(search.second) <= search.candidateLimit
        /\ Len(search.found) <= search.candidateLimit

\* The inductive invariant of a search.  The versions it may cite are never
\* older than those it saw when it began; its dense ranking has no repetition,
\* and its candidates have one only by two sparse rows of a chunk.
RetrievalInv ==
    /\ RetrievalTypeOK
    /\ \A d \in Documents : search.since[d] <= corpus.latest[d]
    /\ CitesCurrent(search.first) /\ CitesCurrent(search.second)
    /\ CitesCurrent(search.found) /\ CitesCurrent(search.results)
    /\ Accepts
    /\ IsInjective(search.first)
    /\ IsInjective(search.found) \/ (search.strategy = "sparse" /\ corpus.twice # {})
    /\ search.phase = "found" /\ search.strategy \in {"hybrid_rrf", "dense_sparse"} =>
           search.found = Fused(search.first, search.second, search.candidateLimit)
    /\ search.phase # "done" => ~search.reranked
    /\ AnswerIsDistinct
    /\ RerankChooses

LEMMA RetrievalInvImplies == RetrievalInv => AnswersAgree
<1> SUFFICES ASSUME RetrievalInv PROVE AnswersAgree
    OBVIOUS
<1> USE DEF RetrievalInv
<1>0. /\ search \in Search /\ search.first \in Seq(Chunks) /\ search.second \in Seq(Chunks)
      /\ search.found \in Seq(Chunks) /\ search.results \in Seq(Chunks)
      /\ search.since \in [Documents -> Nat]
      BY DEF RetrievalTypeOK, Search
<1>1. AnswerIsCurrent
  <2> SUFFICES ASSUME NEW c \in Range(search.results) \cup Range(search.found)
               PROVE  /\ ChunkTable[c].matches
                      /\ ChunkTable[c].version >= search.since[ChunkTable[c].document]
      BY DEF AnswerIsCurrent
  <2>1. /\ ChunkTable[c].matches
        /\ search.since[ChunkTable[c].document] <= ChunkTable[c].version
    <3>1. CASE c \in Range(search.results)
      <4>1. PICK i \in DOMAIN search.results : search.results[i] = c
            BY <3>1 DEF Range
      <4> QED BY <4>1 DEF CitesCurrent
    <3>2. CASE c \in Range(search.found)
      <4>1. PICK i \in DOMAIN search.found : search.found[i] = c
            BY <3>2 DEF Range
      <4> QED BY <4>1 DEF CitesCurrent
    <3> QED BY <3>1, <3>2
  <2>2. c \in Chunks
    <3>1. Range(search.results) \subseteq Chunks /\ Range(search.found) \subseteq Chunks
          BY <1>0, ElementOfSeq, LenProperties DEF Range
    <3> QED BY <3>1
  <2>3. ChunkTable[c].version \in Nat /\ ChunkTable[c].document \in Documents
        BY <2>2, RetrievalAssumption DEF Documents
  <2>4. search.since[ChunkTable[c].document] \in Nat
        BY <1>0, <2>3
  <2> QED BY <2>1, <2>3, <2>4
<1>2. FusionAgrees
  <2> DEFINE first == search.first
             second == search.second
             found == search.found
             ahead(list, a, b) ==
                 Positions(list, b) # {} =>
                     Positions(list, a) # {} /\ Max(Positions(list, a)) < Max(Positions(list, b))
  <2> SUFFICES ASSUME search.phase = "found", search.strategy \in {"hybrid_rrf", "dense_sparse"},
                      IsInjective(second), NEW b \in DOMAIN found,
                      NEW a \in (Range(first) \cup Range(second)) \ {found[b]},
                      ahead(first, a, found[b]), ahead(second, a, found[b])
               PROVE  a \in Range(SubSeq(found, 1, b - 1))
      BY DEF FusionAgrees
  <2>1. /\ search.candidateLimit \in Nat
        /\ Len(first) < NoRank /\ Len(second) < NoRank
    <3>1. NoRank \in Nat
          BY SMT DEF NoRank
    <3>2. /\ search.candidateLimit \in Nat /\ search.candidateLimit <= MaxLimit
          /\ Len(first) <= search.candidateLimit /\ Len(second) <= search.candidateLimit
          BY DEF Accepts
    <3>3. Len(first) \in Nat /\ Len(second) \in Nat
          BY <1>0, LenProperties
    <3>4. MaxLimit \in Nat /\ MaxLimit < NoRank
          BY RetrievalAssumption
    <3> QED BY <3>1, <3>2, <3>3, <3>4
  <2>2. found = Fused(first, second, search.candidateLimit)
        OBVIOUS
  <2> HIDE DEF first, second, found, ahead
  <2>3. first \in Seq(Chunks) /\ second \in Seq(Chunks) /\ IsInjective(first)
        BY <1>0 DEF first, second
  <2>4. /\ found \in Seq(Range(first) \cup Range(second))
        /\ \A d \in Range(first) \cup Range(second) :
               <<d, found[b]>> \in FusedBefore(first, second) =>
                   \E i \in 1..(b - 1) : found[i] = d
    <3> DEFINE n == search.candidateLimit
    <3>1. n \in Nat /\ found = Fused(first, second, n)
          BY <2>1, <2>2
    <3> HIDE DEF n
    <3>2. b \in DOMAIN Fused(first, second, n)
          BY <3>1
    <3>3. /\ Fused(first, second, n) \in Seq(Range(first) \cup Range(second))
          /\ \A d \in Range(first) \cup Range(second) :
                 <<d, Fused(first, second, n)[b]>> \in FusedBefore(first, second) =>
                     \E i \in 1..(b - 1) : Fused(first, second, n)[i] = d
          BY <2>3, <3>1, <3>2, FusedFacts
    <3> QED BY <3>1, <3>3, Zenon
  <2>5. found[b] \in Range(first) \cup Range(second) /\ a \in Range(first) \cup Range(second)
        BY <2>4, LenProperties, ElementOfSeq
  <2>6. a \in Chunks
    <3>1. Range(first) \subseteq Chunks /\ Range(second) \subseteq Chunks
          BY <2>3, ElementOfSeq, LenProperties DEF Range
    <3> QED BY <2>5, <3>1
  <2>7. <<a, found[b]>> \in FusedBefore(first, second)
    <3>1. PICK c \in Range(first) \cup Range(second) : c = found[b]
          BY <2>5
    <3>2. /\ Positions(first, c) # {} =>
                 Positions(first, a) # {} /\ Max(Positions(first, a)) < Max(Positions(first, c))
          /\ Positions(second, c) # {} =>
                 Positions(second, a) # {} /\ Max(Positions(second, a)) < Max(Positions(second, c))
          BY <3>1 DEF ahead
    <3>3. <<a, c>> \in FusedBefore(first, second)
          BY <2>1, <2>3, <2>6, <3>2, AheadIsBefore
    <3> QED BY <3>1, <3>3
  <2>8. PICK i \in 1..(b - 1) : found[i] = a
        BY <2>4, <2>5, <2>7
  <2>9. b \in Nat /\ b \in 1..Len(found) /\ Len(found) \in Nat
        BY <2>4, LenProperties
  <2>10. SubSeq(found, 1, b - 1)[i] = found[i] /\ i \in DOMAIN SubSeq(found, 1, b - 1)
    <3>1. \A j \in 1..(b - 1) : found[j] \in Range(first) \cup Range(second)
      <4> SUFFICES ASSUME NEW j \in 1..(b - 1) PROVE found[j] \in Range(first) \cup Range(second)
          OBVIOUS
      <4>1. j \in 1..Len(found)
            BY <2>9
      <4> QED BY <2>4, <4>1, ElementOfSeq
    <3>2. /\ SubSeq(found, 1, b - 1) \in Seq(Range(first) \cup Range(second))
          /\ Len(SubSeq(found, 1, b - 1)) = IF 1 <= b - 1 THEN (b - 1) - 1 + 1 ELSE 0
          /\ \A j \in 1..((b - 1) - 1 + 1) : SubSeq(found, 1, b - 1)[j] = found[1 + j - 1]
          BY <2>9, <3>1, SubSeqProperties
    <3>3. i \in 1..((b - 1) - 1 + 1) /\ 1 + i - 1 = i /\ 1 <= b - 1
          BY <2>9
    <3>4. Len(SubSeq(found, 1, b - 1)) = b - 1
          BY <2>9, <3>2, <3>3
    <3>5. DOMAIN SubSeq(found, 1, b - 1) = 1..(b - 1)
          BY <3>2, <3>4, LenProperties
    <3> QED BY <3>2, <3>3, <3>5
  <2> QED BY <2>8, <2>10 DEF Range
<1> QED BY <1>1, <1>2 DEF AnswersAgree

\* An empty list.
LEMMA NoHits ==
    /\ <<>> \in Seq(Chunks) /\ Len(<<>>) = 0 /\ IsInjective(<<>>) /\ Range(<<>>) = {}
    /\ CitesCurrent(<<>>)
    /\ \A list \in Seq(Chunks) : (Len(list) = 0 => list = <<>>) /\ IsPrefix(<<>>, list)
<1>1. DOMAIN <<>> = {} /\ <<>> \in Seq(Chunks) /\ Len(<<>>) = 0
      BY EmptySeq
<1>2. IsInjective(<<>>) /\ Range(<<>>) = {} /\ CitesCurrent(<<>>)
      BY <1>1 DEF IsInjective, Range, CitesCurrent
<1>3. ASSUME NEW list \in Seq(Chunks) PROVE (Len(list) = 0 => list = <<>>) /\ IsPrefix(<<>>, list)
  <2>1. Len(list) = 0 => list = <<>>
        BY EmptySeq
  <2>2. SubSeq(<<>>, 1, 0) = <<>> /\ SubSeq(list, 1, 0) = <<>>
        BY SubSeqEmpty
  <2>3. Len(<<>>) <= Len(list)
        BY <1>1, LenProperties
  <2> QED BY <1>1, <2>1, <2>2, <2>3 DEF IsPrefix
<1> QED BY <1>1, <1>2, <1>3

LEMMA PrefixOfItself ==
    ASSUME NEW list \in Seq(Chunks)
    PROVE  IsPrefix(list, list)
BY LenProperties DEF IsPrefix

\* What the tables cite now is as new as what the search began with.
LEMMA EligibleIsCurrent ==
    ASSUME RetrievalInv, NEW list \in Seq(Eligible)
    PROVE  list \in Seq(Chunks) /\ CitesCurrent(list)
<1>1. RetrievalTypeOK /\ \A d \in Documents : search.since[d] <= corpus.latest[d]
      BY DEF RetrievalInv
<1>2. Eligible \subseteq Chunks
      BY <1>1, EligibleFinite
<1>3. list \in Seq(Chunks)
      BY <1>2, SeqMonotonic
<1>4. ASSUME NEW i \in DOMAIN list
      PROVE  /\ ChunkTable[list[i]].matches
             /\ search.since[ChunkTable[list[i]].document] <= ChunkTable[list[i]].version
  <2>1. list[i] \in Eligible
        BY LenProperties, ElementOfSeq
  <2>2. /\ ChunkTable[list[i]].matches
        /\ ChunkTable[list[i]].version = corpus.latest[ChunkTable[list[i]].document]
        BY <2>1 DEF Eligible
  <2>3. ChunkTable[list[i]].document \in Documents
        BY <1>2, <2>1 DEF Documents
  <2> QED BY <1>1, <2>2, <2>3
<1> QED BY <1>3, <1>4 DEF CitesCurrent

LEMMA RetrievalInitInv == RetrievalInit => RetrievalInv
<1> SUFFICES ASSUME RetrievalInit PROVE RetrievalInv
    OBVIOUS
<1>1. /\ <<>> \in Seq(Chunks) /\ IsInjective(<<>>) /\ CitesCurrent(<<>>) /\ Len(<<>>) = 0
      BY NoHits
<1>2. search = NoSearch /\ NoVersions \in [Documents -> Nat] /\ \A d \in Documents : NoVersions[d] = 0
      BY DEF RetrievalInit, NoVersions
<1>3. search \in Search
      BY <1>1, <1>2 DEF NoSearch, Search, Strategies
<1>4. /\ corpus \in [latest : [Documents -> Nat], chunks : SUBSET Chunks, twice : SUBSET Chunks]
      /\ \A d \in Documents : corpus.latest[d] = 1
  <2>1. UNION {OfVersion(d, 1) : d \in Documents} \subseteq Chunks
        BY DEF OfVersion
  <2>2. [d \in Documents |-> 1] \in [Documents -> Nat]
        OBVIOUS
  <2> QED BY <2>1, <2>2 DEF RetrievalInit
<1>5. /\ search.phase = "idle" /\ search.strategy = "dense" /\ ~search.reranked
      /\ search.first = <<>> /\ search.second = <<>> /\ search.found = <<>> /\ search.results = <<>>
      /\ search.since = NoVersions
      BY <1>2 DEF NoSearch
<1>6. \A d \in Documents : search.since[d] <= corpus.latest[d]
      BY <1>2, <1>4, <1>5
<1> QED BY <1>1, <1>3, <1>4, <1>5, <1>6
        DEF RetrievalInv, RetrievalTypeOK, Accepts, AnswerIsDistinct, RerankChooses

\* Whatever ingestion commits: versions only grow, and a chunk keeps having two
\* sparse rows.
LEMMA IngestInv == ASSUME RetrievalInv, Ingest PROVE RetrievalInv'
<1>1. /\ corpus \in [latest : [Documents -> Nat], chunks : SUBSET Chunks, twice : SUBSET Chunks]
      /\ search \in Search /\ \A d \in Documents : search.since[d] <= corpus.latest[d]
      /\ search.since \in [Documents -> Nat]
      BY DEF RetrievalInv, RetrievalTypeOK, Search
<1>2. /\ corpus' \in [latest : [Documents -> Nat], chunks : SUBSET Chunks, twice : SUBSET Chunks]
      /\ search' = search
      /\ \A d \in Documents : search.since[d] <= corpus'.latest[d]
      /\ corpus.twice # {} => corpus'.twice # {}
  <2>1. ASSUME NEW d \in Documents, CommitVersion(d)
        PROVE  /\ corpus' \in [latest : [Documents -> Nat], chunks : SUBSET Chunks, twice : SUBSET Chunks]
               /\ search' = search
               /\ \A e \in Documents : search.since[e] <= corpus'.latest[e]
               /\ corpus.twice # {} => corpus'.twice # {}
    <3>1. PICK v \in {corpus.latest[d] + 1} : corpus' = [corpus EXCEPT !.latest[d] = v]
          BY <2>1 DEF CommitVersion
    <3>2. v \in Nat /\ corpus.latest[d] \in Nat /\ v = corpus.latest[d] + 1
          BY <1>1, <3>1
    <3>3. /\ corpus'.latest = [corpus.latest EXCEPT ![d] = v] /\ corpus'.twice = corpus.twice
          /\ corpus'.chunks = corpus.chunks
          /\ corpus' \in [latest : [Documents -> Nat], chunks : SUBSET Chunks, twice : SUBSET Chunks]
          BY <1>1, <3>1, <3>2
    <3>4. ASSUME NEW e \in Documents PROVE search.since[e] <= corpus'.latest[e]
      <4>1. /\ search.since[e] \in Nat /\ corpus.latest[e] \in Nat
            /\ search.since[e] <= corpus.latest[e]
            BY <1>1
      <4>2. corpus'.latest[e] = corpus.latest[e] \/ (e = d /\ corpus'.latest[e] = v)
            BY <1>1, <3>3
      <4> QED BY <3>2, <4>1, <4>2
    <3> QED BY <2>1, <3>3, <3>4 DEF CommitVersion
  <2>2. ASSUME NEW d \in Documents, CommitChunks(d)
        PROVE  /\ corpus' \in [latest : [Documents -> Nat], chunks : SUBSET Chunks, twice : SUBSET Chunks]
               /\ search' = search /\ corpus'.latest = corpus.latest /\ corpus'.twice = corpus.twice
    <3>1. OfVersion(d, corpus.latest[d]) \subseteq Chunks
          BY DEF OfVersion
    <3> QED BY <1>1, <2>2, <3>1 DEF CommitChunks
  <2>3. ASSUME NEW c \in Chunks, CommitSecondSparseRow(c)
        PROVE  /\ corpus' \in [latest : [Documents -> Nat], chunks : SUBSET Chunks, twice : SUBSET Chunks]
               /\ search' = search /\ corpus'.latest = corpus.latest /\ corpus'.twice # {}
        BY <1>1, <2>3 DEF CommitSecondSparseRow
  <2> QED BY <1>1, <2>1, <2>2, <2>3 DEF Ingest
<1>3. RetrievalTypeOK' /\ \A d \in Documents : search'.since[d] <= corpus'.latest[d]
      BY <1>1, <1>2 DEF RetrievalTypeOK
<1>4. /\ CitesCurrent(search.first)' /\ CitesCurrent(search.second)'
      /\ CitesCurrent(search.found)' /\ CitesCurrent(search.results)'
      BY <1>2 DEF RetrievalInv, CitesCurrent
<1>5. Accepts' /\ RerankChooses' /\ IsInjective(search'.first)
      BY <1>2 DEF RetrievalInv, Accepts, RerankChooses
<1>6. /\ IsInjective(search'.found) \/ (search'.strategy = "sparse" /\ corpus'.twice # {})
      /\ search'.phase # "done" => ~search'.reranked
      BY <1>2 DEF RetrievalInv
<1>7. search'.phase = "found" /\ search'.strategy \in {"hybrid_rrf", "dense_sparse"} =>
          search'.found = Fused(search'.first, search'.second, search'.candidateLimit)
      BY <1>2 DEF RetrievalInv
<1>8. AnswerIsDistinct'
      BY <1>2 DEF RetrievalInv, AnswerIsDistinct
<1> QED BY <1>3, <1>4, <1>5, <1>6, <1>7, <1>8 DEF RetrievalInv

-----------------------------------------------------------------------------
(* Retrieval: the steps of a search                                          *)

LEMMA SearchRow ==
    ASSUME RetrievalInv
    PROVE  /\ search \in Search
           /\ search.first \in Seq(Chunks) /\ search.second \in Seq(Chunks)
           /\ search.found \in Seq(Chunks) /\ search.results \in Seq(Chunks)
           /\ search.limit \in Int /\ search.candidateLimit \in Int
           /\ search.rerank \in BOOLEAN /\ search.since \in [Documents -> Nat]
           /\ search.strategy \in Strategies /\ search.fallback \in BOOLEAN
           /\ search.reranked \in BOOLEAN
BY DEF RetrievalInv, RetrievalTypeOK, Search

\* A step of the search that leaves the tables alone and does not say since when.
LEMMA SearchMovesInv ==
    ASSUME RetrievalInv, UNCHANGED corpus, search' \in Search, search'.since = search.since,
           CitesCurrent(search'.first), CitesCurrent(search'.second),
           CitesCurrent(search'.found), CitesCurrent(search'.results),
           Accepts', IsInjective(search'.first),
           IsInjective(search'.found) \/ (search'.strategy = "sparse" /\ corpus.twice # {}),
           search'.phase = "found" /\ search'.strategy \in {"hybrid_rrf", "dense_sparse"} =>
               search'.found = Fused(search'.first, search'.second, search'.candidateLimit),
           search'.phase # "done" => ~search'.reranked,
           AnswerIsDistinct', RerankChooses'
    PROVE  RetrievalInv'
<1>1. RetrievalTypeOK' /\ \A d \in Documents : search'.since[d] <= corpus'.latest[d]
      BY DEF RetrievalInv, RetrievalTypeOK
<1>2. /\ CitesCurrent(search.first)' /\ CitesCurrent(search.second)'
      /\ CitesCurrent(search.found)' /\ CitesCurrent(search.results)'
      BY DEF CitesCurrent
<1>3. /\ IsInjective(search'.found) \/ (search'.strategy = "sparse" /\ corpus'.twice # {})
      OBVIOUS
<1> QED BY <1>1, <1>2, <1>3 DEF RetrievalInv

\* The limits of the search that has begun.
LEMMA SearchLimits ==
    ASSUME RetrievalInv, search.phase \in {"dense", "second", "found", "done"}
    PROVE  /\ search.limit \in Nat \ {0} /\ search.candidateLimit \in Nat
           /\ search.limit <= search.candidateLimit /\ search.candidateLimit <= MaxLimit
           /\ ~search.rerank => search.candidateLimit = search.limit
           /\ Len(search.first) <= search.candidateLimit
           /\ Len(search.second) <= search.candidateLimit
           /\ Len(search.found) <= search.candidateLimit
BY DEF RetrievalInv, Accepts

LEMMA BeginSearchInv ==
    ASSUME RetrievalInv, NEW strategy \in Strategies, NEW limit \in Limits, NEW rerank \in BOOLEAN,
           NEW n \in Limits, BeginSearch(strategy, limit, rerank, n)
    PROVE  RetrievalInv'
<1>1. /\ <<>> \in Seq(Chunks) /\ IsInjective(<<>>) /\ Len(<<>>) = 0 /\ DOMAIN <<>> = {}
      BY NoHits, EmptySeq
<1>2. /\ NoVersions \in [Documents -> Nat] /\ limit \in Int /\ n \in Int
      /\ corpus.latest \in [Documents -> Nat]
      /\ corpus \in [latest : [Documents -> Nat], chunks : SUBSET Chunks, twice : SUBSET Chunks]
      BY RetrievalAssumption DEF NoVersions, RetrievalInv, RetrievalTypeOK
<1>3. NoSearch \in Search
      BY <1>1, <1>2 DEF NoSearch, Search, Strategies
<1>4. /\ NoSearch.first = <<>> /\ NoSearch.second = <<>> /\ NoSearch.found = <<>>
      /\ NoSearch.results = <<>> /\ NoSearch.reranked = FALSE
      BY DEF NoSearch
<1> DEFINE nextPhase == IF ~Accepted(limit, n) THEN "error"
                    ELSE IF strategy \in {"lexical", "bm25", "sparse"} THEN "second" ELSE "dense"
<1>5. /\ nextPhase \in {"error", "second", "dense"}
      /\ nextPhase # "error" => Accepted(limit, n)
      OBVIOUS
<1>6. /\ ~rerank => n = limit
      /\ search' = [NoSearch EXCEPT !.phase = nextPhase, !.strategy = strategy, !.limit = limit,
                        !.rerank = rerank, !.candidateLimit = n, !.since = corpus.latest]
      /\ corpus' = corpus
      BY DEF BeginSearch
<1> HIDE DEF nextPhase
<1>7. /\ search' \in Search /\ search'.phase = nextPhase /\ search'.strategy = strategy
      /\ search'.limit = limit /\ search'.rerank = rerank /\ search'.candidateLimit = n
      /\ search'.since = corpus.latest
      /\ search'.first = <<>> /\ search'.second = <<>> /\ search'.found = <<>>
      /\ search'.results = <<>> /\ search'.reranked = FALSE
  <2>1. nextPhase \in {"idle", "dense", "second", "found", "done", "error"}
        BY <1>5
  <2>2. search' \in Search
        BY <1>2, <1>3, <1>6, <2>1 DEF Search
  <2>3. /\ search'.phase = nextPhase /\ search'.strategy = strategy
        /\ search'.limit = limit /\ search'.rerank = rerank /\ search'.candidateLimit = n
        /\ search'.since = corpus.latest
        /\ search'.first = NoSearch.first /\ search'.second = NoSearch.second
        /\ search'.found = NoSearch.found /\ search'.results = NoSearch.results
        /\ search'.reranked = NoSearch.reranked
        BY <1>3, <1>6 DEF Search
  <2> QED BY <1>4, <2>2, <2>3
<1>8. RetrievalTypeOK'
      BY <1>2, <1>6, <1>7 DEF RetrievalTypeOK
<1>9. \A d \in Documents : search'.since[d] <= corpus'.latest[d]
      BY <1>2, <1>6, <1>7
<1>10. /\ CitesCurrent(search.first)' /\ CitesCurrent(search.second)'
       /\ CitesCurrent(search.found)' /\ CitesCurrent(search.results)'
       BY <1>1, <1>7 DEF CitesCurrent
<1>11. Accepts'
  <2> SUFFICES ASSUME search'.phase \in {"dense", "second", "found", "done"}
               PROVE  /\ limit \in Nat \ {0} /\ n \in Nat /\ limit <= n /\ n <= MaxLimit
                      /\ ~rerank => n = limit /\ 0 <= n
      BY <1>1, <1>7 DEF Accepts
  <2>1. limit \in 1..MaxLimit /\ n \in limit..MaxLimit
        BY <1>5, <1>7 DEF Accepted
  <2> QED BY <1>2, <1>6, <2>1, RetrievalAssumption
<1>12. /\ search'.phase # "done" /\ search'.phase # "found" /\ ~search'.reranked
       /\ IsInjective(search'.first) /\ IsInjective(search'.found)
       BY <1>1, <1>5, <1>7
<1>13. AnswerIsDistinct' /\ RerankChooses'
       BY <1>12 DEF AnswerIsDistinct, RerankChooses
<1> QED BY <1>8, <1>9, <1>10, <1>11, <1>12, <1>13 DEF RetrievalInv

\* The answer of a search that is not fused.
LEMMA AnswersInv ==
    ASSUME RetrievalInv, search.phase \in {"dense", "second"},
           search.strategy \notin {"hybrid_rrf", "dense_sparse"},
           NEW found \in Seq(Chunks), NEW fallback \in BOOLEAN, CitesCurrent(found),
           Len(found) <= search.candidateLimit,
           IsInjective(found) \/ (search.strategy = "sparse" /\ corpus.twice # {}),
           Answers(found, fallback), UNCHANGED corpus
    PROVE  RetrievalInv'
<1>1. /\ search \in Search /\ ~search.reranked /\ search.rerank \in BOOLEAN
      /\ IsInjective(search.first)
      /\ CitesCurrent(search.first) /\ CitesCurrent(search.second)
      BY SearchRow DEF RetrievalInv
<1>2. /\ <<>> \in Seq(Chunks) /\ Len(<<>>) = 0 /\ Range(<<>>) = {} /\ CitesCurrent(<<>>)
      /\ IsPrefix(<<>>, found) /\ IsPrefix(found, found)
      BY NoHits, PrefixOfItself
<1> DEFINE last == search.rerank /\ found # <<>>
           nextPhase == IF search.rerank /\ found # <<>> THEN "found" ELSE "done"
           results == IF search.rerank /\ found # <<>> THEN <<>> ELSE found
<1>3. /\ nextPhase \in {"found", "done"} /\ results \in Seq(Chunks) /\ CitesCurrent(results)
      /\ nextPhase = "done" => results = found /\ (~search.rerank \/ found = <<>>)
  <2>1. CASE last
        BY <1>2, <2>1
  <2>2. CASE ~last
        BY <1>2, <2>2
  <2> QED BY <2>1, <2>2
<1>4. search' = [search EXCEPT !.found = found, !.fallback = fallback, !.phase = nextPhase,
                               !.results = results]
      BY DEF Answers
<1> HIDE DEF nextPhase, results, last
<1>5. /\ search' \in Search /\ search'.phase = nextPhase /\ search'.found = found
      /\ search'.results = results /\ search'.since = search.since
      /\ search'.first = search.first /\ search'.second = search.second
      /\ search'.limit = search.limit /\ search'.candidateLimit = search.candidateLimit
      /\ search'.rerank = search.rerank /\ search'.strategy = search.strategy
      /\ search'.reranked = search.reranked
  <2>1. nextPhase \in {"idle", "dense", "second", "found", "done", "error"}
        BY <1>3
  <2> QED BY <1>1, <1>3, <1>4, <2>1 DEF Search
<1>6. Accepts'
      BY <1>3, <1>5, SearchLimits DEF Accepts
<1>7. AnswerIsDistinct'
  <2> SUFFICES ASSUME nextPhase = "done"
               PROVE  /\ Len(found) <= search.limit
                      /\ \/ IsInjective(found)
                         \/ search.strategy = "sparse" /\ ~search.reranked /\ corpus.twice # {}
      BY <1>3, <1>5 DEF AnswerIsDistinct
  <2>1. Len(found) <= search.limit
    <3>1. search.limit \in Nat /\ (~search.rerank => search.candidateLimit = search.limit)
          BY SearchLimits
    <3> QED BY <1>2, <1>3, <3>1
  <2> QED BY <1>1, <2>1
<1>8. RerankChooses'
      BY <1>1, <1>2, <1>3, <1>5 DEF RerankChooses
<1> QED BY <1>1, <1>3, <1>5, <1>6, <1>7, <1>8, SearchMovesInv

\* The fusion of the dense ranking and a second one.
LEMMA FuseWithInv ==
    ASSUME RetrievalInv, search.phase = "second",
           NEW second \in Seq(Chunks), NEW fallback \in BOOLEAN, CitesCurrent(second),
           Len(second) <= search.candidateLimit,
           FuseWith(second, fallback), UNCHANGED corpus
    PROVE  RetrievalInv'
<1>1. /\ search \in Search /\ ~search.reranked /\ search.rerank \in BOOLEAN
      /\ IsInjective(search.first) /\ search.first \in Seq(Chunks) /\ search.candidateLimit \in Nat
      /\ CitesCurrent(search.first) /\ CitesCurrent(search.results)
      BY SearchRow, SearchLimits DEF RetrievalInv
<1> DEFINE found == Fused(search.first, second, search.candidateLimit)
<1>2. /\ found \in Seq(Range(search.first) \cup Range(second))
      /\ Len(found) <= search.candidateLimit /\ IsInjective(found)
      BY <1>1, FusedFacts
<1>3. search' = [search EXCEPT !.second = second, !.found = found, !.fallback = fallback,
                               !.phase = "found"]
      BY DEF FuseWith
<1>4. found = Fused(search.first, second, search.candidateLimit)
      OBVIOUS
<1> HIDE DEF found
<1>5. found \in Seq(Chunks)
  <2>1. Range(search.first) \cup Range(second) \subseteq Chunks
        BY <1>1, ElementOfSeq, LenProperties DEF Range
  <2> QED BY <1>2, <2>1, SeqMonotonic
<1>6. CitesCurrent(found)
  <2> SUFFICES ASSUME NEW i \in DOMAIN found
               PROVE  /\ ChunkTable[found[i]].matches
                      /\ search.since[ChunkTable[found[i]].document] <= ChunkTable[found[i]].version
      BY DEF CitesCurrent
  <2>1. found[i] \in Range(search.first) \/ found[i] \in Range(second)
        BY <1>2, LenProperties, ElementOfSeq
  <2>2. CASE found[i] \in Range(search.first)
    <3>1. PICK j \in DOMAIN search.first : search.first[j] = found[i]
          BY <2>2 DEF Range
    <3> QED BY <1>1, <3>1 DEF CitesCurrent
  <2>3. CASE found[i] \in Range(second)
    <3>1. PICK j \in DOMAIN second : second[j] = found[i]
          BY <2>3 DEF Range
    <3> QED BY <3>1 DEF CitesCurrent
  <2> QED BY <2>1, <2>2, <2>3
<1>7. /\ search' \in Search /\ search'.phase = "found" /\ search'.found = found
      /\ search'.results = search.results /\ search'.since = search.since
      /\ search'.first = search.first /\ search'.second = second
      /\ search'.limit = search.limit /\ search'.candidateLimit = search.candidateLimit
      /\ search'.rerank = search.rerank /\ search'.strategy = search.strategy
      /\ search'.reranked = search.reranked
      BY <1>1, <1>3, <1>5 DEF Search
<1>8. Accepts'
      BY <1>2, <1>7, SearchLimits DEF Accepts
<1>9. AnswerIsDistinct' /\ RerankChooses'
      BY <1>7 DEF AnswerIsDistinct, RerankChooses
<1> QED BY <1>1, <1>2, <1>4, <1>6, <1>7, <1>8, <1>9, SearchMovesInv

\* What a retriever returns is current.
LEMMA RankingIsCurrent ==
    ASSUME RetrievalInv, NEW n \in Nat
    PROVE  /\ \A list \in DenseRankings(n) \cup TextRankings(n) :
                  /\ list \in Seq(Chunks) /\ CitesCurrent(list) /\ Len(list) <= n
                  /\ IsInjective(list)
           /\ \A list \in SparseRankings(n) :
                  /\ list \in Seq(Chunks) /\ CitesCurrent(list) /\ Len(list) <= n
                  /\ IsInjective(list) \/ corpus.twice # {}
<1>1. RetrievalTypeOK
      BY DEF RetrievalInv
<1>2. ASSUME NEW list \in DenseRankings(n) \cup TextRankings(n)
      PROVE  list \in Seq(Eligible) /\ Len(list) <= n /\ IsInjective(list)
      BY <1>1, RankingFacts
<1>3. ASSUME NEW list \in SparseRankings(n)
      PROVE  list \in Seq(Eligible) /\ Len(list) <= n /\ (IsInjective(list) \/ corpus.twice # {})
      BY <1>1, RankingFacts
<1> QED BY <1>2, <1>3, EligibleIsCurrent

LEMMA DenseSearchInv == ASSUME RetrievalInv, DenseSearch PROVE RetrievalInv'
<1>1. search.phase = "dense" /\ UNCHANGED corpus
      BY DEF DenseSearch
<1>2. PICK first \in DenseRankings(search.candidateLimit) :
          IF search.strategy = "dense"
          THEN Answers(first, FALSE)
          ELSE search' = [search EXCEPT !.phase = "second", !.first = first]
      BY DEF DenseSearch
<1>3. search.candidateLimit \in Nat
      BY <1>1, SearchLimits
<1>4. /\ first \in Seq(Chunks) /\ CitesCurrent(first) /\ Len(first) <= search.candidateLimit
      /\ IsInjective(first)
      BY <1>3, RankingIsCurrent
<1>5. CASE search.strategy = "dense"
  <2>1. Answers(first, FALSE)
        BY <1>2, <1>5
  <2>2. FALSE \in BOOLEAN
        OBVIOUS
  <2> QED BY <1>1, <1>4, <1>5, <2>1, <2>2, AnswersInv
<1>6. CASE search.strategy # "dense"
  <2>1. search' = [search EXCEPT !.phase = "second", !.first = first]
        BY <1>2, <1>6
  <2>2. search \in Search
        BY SearchRow
  <2>3. /\ search' \in Search /\ search'.phase = "second" /\ search'.found = search.found
        /\ search'.results = search.results /\ search'.since = search.since
        /\ search'.first = first /\ search'.second = search.second
        /\ search'.limit = search.limit /\ search'.candidateLimit = search.candidateLimit
        /\ search'.rerank = search.rerank /\ search'.strategy = search.strategy
        /\ search'.reranked = search.reranked
        BY <1>4, <2>1, <2>2 DEF Search
  <2>4. Accepts'
        BY <1>1, <1>4, <2>3, SearchLimits DEF Accepts
  <2>5. AnswerIsDistinct' /\ RerankChooses'
        BY <2>3 DEF AnswerIsDistinct, RerankChooses
  <2>6. /\ CitesCurrent(search.second) /\ CitesCurrent(search.found) /\ CitesCurrent(search.results)
        /\ ~search.reranked
        /\ IsInjective(search.found) \/ (search.strategy = "sparse" /\ corpus.twice # {})
        BY <1>1 DEF RetrievalInv
  <2> QED BY <1>1, <1>4, <2>3, <2>4, <2>5, <2>6, SearchMovesInv
<1> QED BY <1>5, <1>6

LEMMA SearchFailsInv == ASSUME RetrievalInv, SearchFails PROVE RetrievalInv'
<1>1. /\ search.phase \in {"dense", "second"} /\ UNCHANGED corpus
      /\ search' = [search EXCEPT !.phase = "error", !.first = <<>>]
      BY DEF SearchFails
<1>2. /\ <<>> \in Seq(Chunks) /\ IsInjective(<<>>) /\ CitesCurrent(<<>>) /\ Len(<<>>) = 0
      BY NoHits
<1>3. search \in Search
      BY SearchRow
<1>4. /\ search' \in Search /\ search'.phase = "error" /\ search'.found = search.found
      /\ search'.results = search.results /\ search'.since = search.since
      /\ search'.first = <<>> /\ search'.second = search.second
      /\ search'.strategy = search.strategy /\ search'.reranked = search.reranked
      BY <1>1, <1>2, <1>3 DEF Search
<1>5. Accepts' /\ AnswerIsDistinct' /\ RerankChooses'
      BY <1>4 DEF Accepts, AnswerIsDistinct, RerankChooses
<1>6. /\ CitesCurrent(search.second) /\ CitesCurrent(search.found) /\ CitesCurrent(search.results)
      /\ ~search.reranked
      /\ IsInjective(search.found) \/ (search.strategy = "sparse" /\ corpus.twice # {})
      BY <1>1 DEF RetrievalInv
<1> QED BY <1>1, <1>2, <1>4, <1>5, <1>6, SearchMovesInv

\* The second statement of a search, whichever retriever answers it.
LEMMA SecondInv ==
    ASSUME RetrievalInv, search.phase = "second", UNCHANGED corpus,
           NEW second \in Seq(Chunks), NEW fallback \in BOOLEAN, CitesCurrent(second),
           Len(second) <= search.candidateLimit,
           \/ /\ search.strategy \in {"hybrid_rrf", "dense_sparse"}
              /\ FuseWith(second, fallback)
           \/ /\ search.strategy \in {"lexical", "bm25", "sparse"}
              /\ IsInjective(second) \/ (search.strategy = "sparse" /\ corpus.twice # {})
              /\ Answers(second, fallback)
    PROVE  RetrievalInv'
<1>1. CASE FuseWith(second, fallback)
      BY <1>1, FuseWithInv
<1>2. CASE /\ search.strategy \in {"lexical", "bm25", "sparse"}
           /\ IsInjective(second) \/ (search.strategy = "sparse" /\ corpus.twice # {})
           /\ Answers(second, fallback)
  <2>1. search.strategy \notin {"hybrid_rrf", "dense_sparse"} /\ search.phase \in {"dense", "second"}
        BY <1>2
  <2> QED BY <1>2, <2>1, AnswersInv
<1> QED BY <1>1, <1>2

LEMMA TextSearchInv == ASSUME RetrievalInv, TextSearch PROVE RetrievalInv'
<1>1. /\ search.phase = "second" /\ search.strategy \in {"lexical", "bm25", "hybrid_rrf"}
      /\ UNCHANGED corpus
      BY DEF TextSearch
<1>2. PICK second \in TextRankings(search.candidateLimit) :
          IF search.strategy = "hybrid_rrf" THEN FuseWith(second, FALSE) ELSE Answers(second, FALSE)
      BY DEF TextSearch
<1>3. search.candidateLimit \in Nat
      BY <1>1, SearchLimits
<1>4. /\ second \in Seq(Chunks) /\ CitesCurrent(second) /\ Len(second) <= search.candidateLimit
      /\ IsInjective(second)
      BY <1>3, RankingIsCurrent
<1>5. PICK fallback \in BOOLEAN : fallback = FALSE
      OBVIOUS
<1>6. \/ search.strategy \in {"hybrid_rrf", "dense_sparse"} /\ FuseWith(second, fallback)
      \/ search.strategy \in {"lexical", "bm25", "sparse"} /\ Answers(second, fallback)
      BY <1>1, <1>2, <1>5
<1> QED BY <1>1, <1>4, <1>6, SecondInv

LEMMA SparseSearchInv == ASSUME RetrievalInv, SparseSearch PROVE RetrievalInv'
<1>1. /\ search.phase = "second" /\ search.strategy \in {"sparse", "dense_sparse"}
      /\ UNCHANGED corpus
      BY DEF SparseSearch
<1>2. PICK second \in SparseRankings(search.candidateLimit) :
          IF search.strategy = "dense_sparse" THEN FuseWith(second, FALSE) ELSE Answers(second, FALSE)
      BY DEF SparseSearch
<1>3. search.candidateLimit \in Nat
      BY <1>1, SearchLimits
<1>4. /\ second \in Seq(Chunks) /\ CitesCurrent(second) /\ Len(second) <= search.candidateLimit
      /\ IsInjective(second) \/ corpus.twice # {}
      BY <1>3, RankingIsCurrent
<1>5. PICK fallback \in BOOLEAN : fallback = FALSE
      OBVIOUS
<1>6. \/ search.strategy \in {"hybrid_rrf", "dense_sparse"} /\ FuseWith(second, fallback)
      \/ search.strategy = "sparse" /\ Answers(second, fallback)
      BY <1>1, <1>2, <1>5
<1> QED BY <1>1, <1>4, <1>6, SecondInv

LEMMA SparseFallsBackInv == ASSUME RetrievalInv, SparseFallsBack PROVE RetrievalInv'
<1>1. /\ search.phase = "second" /\ search.strategy \in {"sparse", "dense_sparse"}
      /\ UNCHANGED corpus
      BY DEF SparseFallsBack
<1>2. PICK second \in TextRankings(search.candidateLimit) :
          IF search.strategy = "dense_sparse" THEN FuseWith(second, TRUE) ELSE Answers(second, TRUE)
      BY DEF SparseFallsBack
<1>3. search.candidateLimit \in Nat
      BY <1>1, SearchLimits
<1>4. /\ second \in Seq(Chunks) /\ CitesCurrent(second) /\ Len(second) <= search.candidateLimit
      /\ IsInjective(second)
      BY <1>3, RankingIsCurrent
<1>5. PICK fallback \in BOOLEAN : fallback = TRUE
      OBVIOUS
<1>6. \/ search.strategy \in {"hybrid_rrf", "dense_sparse"} /\ FuseWith(second, fallback)
      \/ search.strategy \in {"lexical", "bm25", "sparse"} /\ Answers(second, fallback)
      BY <1>1, <1>2, <1>5
<1> QED BY <1>1, <1>4, <1>6, SecondInv

LEMMA GraphAnswersInv ==
    ASSUME RetrievalInv, GraphSearch \/ GraphFallsBack
    PROVE  RetrievalInv'
<1>1. /\ search.phase = "second" /\ search.strategy = "graph" /\ UNCHANGED corpus
      /\ search.strategy \notin {"hybrid_rrf", "dense_sparse"}
      BY DEF GraphSearch, GraphFallsBack
<1>2. search.candidateLimit \in Nat /\ Len(search.first) <= search.candidateLimit
      BY <1>1, SearchLimits
<1>3. PICK yes \in BOOLEAN, no \in BOOLEAN : yes = TRUE /\ no = FALSE
      OBVIOUS
<1>4. CASE GraphSearch
  <2>1. CASE search.first = <<>>
    <3>1. Answers(<<>>, no)
          BY <1>3, <1>4, <2>1 DEF GraphSearch
    <3>2. <<>> \in Seq(Chunks) /\ IsInjective(<<>>) /\ CitesCurrent(<<>>) /\ Len(<<>>) <= search.candidateLimit
          BY <1>2, NoHits
    <3> QED BY <1>1, <3>1, <3>2, AnswersInv
  <2>2. CASE search.first # <<>>
    <3> DEFINE T == {c \in corpus.chunks : ChunkTable[c].matches}
    <3>1. PICK s \in Arrangements(T) : Answers(Cited(Prefix(s, search.candidateLimit)), no)
          BY <1>3, <1>4, <2>2 DEF GraphSearch
    <3>2. RetrievalTypeOK
          BY DEF RetrievalInv
    <3>3. T \subseteq Chunks
          BY <3>2 DEF RetrievalTypeOK
    <3> HIDE DEF T
    <3>4. IsFiniteSet(T)
          BY <3>2, <3>3, EligibleFinite
    <3>5. s \in Seq(T)
          BY <3>4, ArrangementFacts
    <3>6. s \in Seq(Chunks)
          BY <3>3, <3>5, SeqMonotonic
    <3>7. PICK hits \in Seq(Chunks) : hits = Prefix(s, search.candidateLimit)
          BY <1>2, <3>6, PrefixFacts
    <3>8. Len(hits) <= search.candidateLimit
          BY <1>2, <3>6, <3>7, PrefixFacts
    <3>9. /\ Cited(hits) \in Seq(Eligible) /\ Len(Cited(hits)) <= Len(hits)
          /\ IsInjective(Cited(hits))
          BY <3>2, CitedFacts
    <3>10. PICK found \in Seq(Eligible) : found = Cited(hits)
           BY <3>9
    <3>11. /\ found \in Seq(Chunks) /\ CitesCurrent(found) /\ IsInjective(found)
           BY <3>9, <3>10, EligibleIsCurrent
    <3>12. Len(found) <= search.candidateLimit
           BY <1>2, <3>8, <3>9, <3>10, <3>11, LenProperties
    <3>13. Answers(found, no)
           BY <3>1, <3>7, <3>10
    <3> QED BY <1>1, <3>11, <3>12, <3>13, AnswersInv
  <2> QED BY <2>1, <2>2
<1>5. CASE GraphFallsBack
  <2>1. Answers(search.first, yes)
        BY <1>3, <1>5 DEF GraphFallsBack
  <2>2. search.first \in Seq(Chunks) /\ CitesCurrent(search.first) /\ IsInjective(search.first)
        BY SearchRow DEF RetrievalInv
  <2> QED BY <1>1, <1>2, <2>1, <2>2, AnswersInv
<1> QED BY <1>4, <1>5

\* The last step of a search with candidates: the answer lists candidates, at most
\* the limit, and keeps their order unless the reranker chose it.
LEMMA ConcludesInv ==
    ASSUME RetrievalInv, search.phase = "found", UNCHANGED corpus,
           NEW results \in Seq(Chunks), NEW reranked \in BOOLEAN, NEW fallback \in BOOLEAN,
           search' = [search EXCEPT !.phase = "done", !.results = results, !.reranked = reranked,
                                    !.fallback = fallback, !.first = <<>>, !.second = <<>>],
           Range(results) \subseteq Range(search.found), Len(results) <= search.limit,
           reranked => IsInjective(results) /\ results # <<>>,
           ~reranked => /\ IsPrefix(results, search.found)
                        /\ IsInjective(search.found) => IsInjective(results)
    PROVE  RetrievalInv'
<1>1. /\ <<>> \in Seq(Chunks) /\ IsInjective(<<>>) /\ CitesCurrent(<<>>) /\ Len(<<>>) = 0
      BY NoHits
<1>2. /\ search \in Search /\ CitesCurrent(search.found)
      /\ IsInjective(search.found) \/ (search.strategy = "sparse" /\ corpus.twice # {})
      BY SearchRow DEF RetrievalInv
<1>3. /\ search' \in Search /\ search'.phase = "done" /\ search'.found = search.found
      /\ search'.results = results /\ search'.since = search.since
      /\ search'.first = <<>> /\ search'.second = <<>>
      /\ search'.limit = search.limit /\ search'.candidateLimit = search.candidateLimit
      /\ search'.rerank = search.rerank /\ search'.strategy = search.strategy
      /\ search'.reranked = reranked
      BY <1>1, <1>2 DEF Search
<1>4. CitesCurrent(results)
  <2> SUFFICES ASSUME NEW i \in DOMAIN results
               PROVE  /\ ChunkTable[results[i]].matches
                      /\ search.since[ChunkTable[results[i]].document] <= ChunkTable[results[i]].version
      BY DEF CitesCurrent
  <2>1. PICK j \in DOMAIN search.found : search.found[j] = results[i]
        BY DEF Range
  <2> QED BY <1>2, <2>1 DEF CitesCurrent
<1>5. Accepts'
      BY <1>1, <1>3, SearchLimits DEF Accepts
<1>6. AnswerIsDistinct'
      BY <1>2, <1>3 DEF AnswerIsDistinct
<1>7. RerankChooses'
      BY <1>3 DEF RerankChooses
<1> QED BY <1>1, <1>2, <1>3, <1>4, <1>5, <1>6, <1>7, SearchMovesInv

LEMMA AnswerFusedInv == ASSUME RetrievalInv, AnswerFused PROVE RetrievalInv'
<1>1. /\ search.phase = "found" /\ UNCHANGED corpus
      /\ ~search.rerank \/ search.found = <<>>
      /\ search' = [search EXCEPT !.phase = "done", !.results = search.found,
                                  !.first = <<>>, !.second = <<>>]
      BY DEF AnswerFused
<1>2. /\ search \in Search /\ search.found \in Seq(Chunks) /\ search.reranked = FALSE
      /\ search.fallback \in BOOLEAN
      BY <1>1, SearchRow DEF RetrievalInv
<1>3. search' = [search EXCEPT !.phase = "done", !.results = search.found,
                               !.reranked = search.reranked, !.fallback = search.fallback,
                               !.first = <<>>, !.second = <<>>]
      BY <1>1, <1>2 DEF Search
<1>4. Len(search.found) <= search.limit
  <2>1. /\ search.limit \in Nat /\ (~search.rerank => search.candidateLimit = search.limit)
        /\ Len(search.found) <= search.candidateLimit
        BY <1>1, SearchLimits
  <2>2. Len(<<>>) = 0
        BY NoHits
  <2> QED BY <1>1, <2>1, <2>2
<1>5. IsPrefix(search.found, search.found)
      BY <1>2, PrefixOfItself
<1>6. PICK fallback \in BOOLEAN, reranked \in BOOLEAN :
          fallback = search.fallback /\ reranked = search.reranked
      BY <1>2
<1> QED BY <1>1, <1>2, <1>3, <1>4, <1>5, <1>6, ConcludesInv

LEMMA RerankInv == ASSUME RetrievalInv, Rerank PROVE RetrievalInv'
<1>1. search.phase = "found" /\ UNCHANGED corpus
      BY DEF Rerank
<1>2. PICK scores \in Scores :
          /\ Applied(scores)
          /\ search' = [search EXCEPT !.phase = "done", !.results = scores, !.reranked = TRUE,
                                      !.first = <<>>, !.second = <<>>]
      BY DEF Rerank
<1>3. /\ search \in Search /\ search.found \in Seq(Chunks) /\ search.fallback \in BOOLEAN
      BY SearchRow
<1>4. /\ search.limit \in Nat
      BY <1>1, SearchLimits
<1>5. PICK k \in Nat : k = Len(search.found)
      BY <1>3, LenProperties
<1>6. PICK n \in 0..TopK : scores \in [1..n -> Range(search.found)]
      BY DEF Scores
<1>7. n \in Nat /\ n <= search.limit
  <2>1. TopK = search.limit \/ (TopK = k /\ ~(search.limit < k))
        BY <1>5 DEF TopK
  <2> QED BY <1>4, <1>5, <1>6, <2>1
<1>8. scores \in Seq(Range(search.found)) /\ Len(scores) = n
      BY <1>6, <1>7
<1>9. Range(search.found) \subseteq Chunks
      BY <1>3, ElementOfSeq, LenProperties DEF Range
<1>10. scores \in Seq(Chunks)
       BY <1>8, <1>9, SeqMonotonic
<1>11. Range(scores) \subseteq Range(search.found)
  <2>1. DOMAIN scores = 1..n
        BY <1>6
  <2>2. \A i \in DOMAIN scores : scores[i] \in Range(search.found)
        BY <1>6, <2>1
  <2>3. Range(scores) = {scores[i] : i \in DOMAIN scores}
        BY DEF Range
  <2> QED BY <2>2, <2>3
<1>12. IsInjective(scores) /\ scores # <<>>
       BY <1>2 DEF Applied
<1>13. PICK fallback \in BOOLEAN, reranked \in BOOLEAN :
           fallback = search.fallback /\ reranked = TRUE
       BY <1>3
<1>14. search' = [search EXCEPT !.phase = "done", !.results = scores, !.reranked = reranked,
                                !.fallback = fallback, !.first = <<>>, !.second = <<>>]
       BY <1>2, <1>3, <1>13 DEF Search
<1>15. Len(scores) <= search.limit
       BY <1>7, <1>8
<1> QED BY <1>1, <1>10, <1>11, <1>12, <1>13, <1>14, <1>15, ConcludesInv

LEMMA RerankFallsBackInv == ASSUME RetrievalInv, RerankFallsBack PROVE RetrievalInv'
<1>1. /\ search.phase = "found" /\ UNCHANGED corpus
      /\ search' = [search EXCEPT !.phase = "done", !.results = Unreranked, !.fallback = TRUE,
                                  !.first = <<>>, !.second = <<>>]
      BY DEF RerankFallsBack
<1>2. /\ search \in Search /\ search.found \in Seq(Chunks) /\ search.reranked = FALSE
      BY <1>1, SearchRow DEF RetrievalInv
<1>3. search.limit \in Nat
      BY <1>1, SearchLimits
<1>4. PICK results : results = Unreranked
      OBVIOUS
<1>5. /\ results \in Seq(Chunks) /\ Len(results) <= search.limit
      /\ Len(results) <= Len(search.found)
      /\ \A i \in 1..Len(results) : results[i] = search.found[i]
      /\ IsInjective(search.found) => IsInjective(results)
      /\ IsPrefix(results, search.found)
      BY <1>2, <1>3, <1>4, PrefixFacts DEF Unreranked
<1>6. Range(results) \subseteq Range(search.found)
  <2> SUFFICES ASSUME NEW i \in DOMAIN results PROVE results[i] \in Range(search.found)
      BY DEF Range
  <2>1. PICK k \in Nat, m \in Nat : /\ k = Len(search.found) /\ DOMAIN search.found = 1..k
                                    /\ m = Len(results) /\ DOMAIN results = 1..m
        BY <1>2, <1>5, LenProperties
  <2>2. i \in 1..m /\ m <= k
        BY <1>5, <2>1
  <2>3. i \in 1..k
        BY <2>2
  <2>4. results[i] = search.found[i]
        BY <1>5, <2>1, <2>2
  <2> QED BY <2>1, <2>3, <2>4 DEF Range
<1>7. PICK fallback \in BOOLEAN, reranked \in BOOLEAN : fallback = TRUE /\ reranked = FALSE
      OBVIOUS
<1>8. search' = [search EXCEPT !.phase = "done", !.results = results, !.reranked = reranked,
                               !.fallback = fallback, !.first = <<>>, !.second = <<>>]
      BY <1>1, <1>2, <1>4, <1>7 DEF Search
<1> QED BY <1>1, <1>5, <1>6, <1>7, <1>8, ConcludesInv

LEMMA RetrievalStutterInv == ASSUME RetrievalInv, UNCHANGED retrievalVars PROVE RetrievalInv'
<1> SUFFICES /\ RetrievalTypeOK' /\ Accepts' /\ AnswerIsDistinct' /\ RerankChooses'
             /\ CitesCurrent(search.first)' /\ CitesCurrent(search.second)'
             /\ CitesCurrent(search.found)' /\ CitesCurrent(search.results)'
    BY DEF RetrievalInv, retrievalVars
<1> QED BY DEF RetrievalInv, retrievalVars, RetrievalTypeOK, Accepts, AnswerIsDistinct,
               RerankChooses, CitesCurrent

-----------------------------------------------------------------------------
(* Retrieval: the theorems                                                   *)

\* In every behaviour the strengthened invariant holds.
THEOREM RetrievalInvHolds == RetrievalSpec => []RetrievalInv
<1>1. RetrievalInv /\ [RetrievalNext]_retrievalVars => RetrievalInv'
  <2> SUFFICES ASSUME RetrievalInv, [RetrievalNext]_retrievalVars PROVE RetrievalInv'
      OBVIOUS
  <2>1. CASE Ingest
        BY <2>1, IngestInv
  <2>2. ASSUME NEW strategy \in Strategies, NEW limit \in Limits, NEW rerank \in BOOLEAN,
               NEW n \in Limits, BeginSearch(strategy, limit, rerank, n)
        PROVE  RetrievalInv'
        BY <2>2, BeginSearchInv
  <2>3. CASE DenseSearch
        BY <2>3, DenseSearchInv
  <2>4. CASE SearchFails
        BY <2>4, SearchFailsInv
  <2>5. CASE TextSearch
        BY <2>5, TextSearchInv
  <2>6. CASE SparseSearch
        BY <2>6, SparseSearchInv
  <2>7. CASE SparseFallsBack
        BY <2>7, SparseFallsBackInv
  <2>8. CASE GraphSearch \/ GraphFallsBack
        BY <2>8, GraphAnswersInv
  <2>9. CASE AnswerFused
        BY <2>9, AnswerFusedInv
  <2>10. CASE Rerank
         BY <2>10, RerankInv
  <2>11. CASE RerankFallsBack
         BY <2>11, RerankFallsBackInv
  <2>12. CASE UNCHANGED retrievalVars
         BY <2>12, RetrievalStutterInv
  <2> QED BY <2>1, <2>2, <2>3, <2>4, <2>5, <2>6, <2>7, <2>8, <2>9, <2>10, <2>11, <2>12
          DEF RetrievalNext
<1> QED BY <1>1, RetrievalInitInv, PTL DEF RetrievalSpec

\* Every state of a search and of its tables has its type.
THEOREM RetrievalTypeCorrect == RetrievalSpec => []RetrievalTypeOK
<1>1. RetrievalInv => RetrievalTypeOK
      BY DEF RetrievalInv
<1> QED BY <1>1, RetrievalInvHolds, PTL

\* Whatever ingestion commits between the statements of a search, whatever falls
\* back and whatever a stale graph or the reranker contribute: answers are
\* current, distinct and in the order of their rankings.
THEOREM AnswersAlwaysAgree == RetrievalSpec => []AnswersAgree
BY RetrievalInvImplies, RetrievalInvHolds, PTL

-----------------------------------------------------------------------------
(* Chunking: least, greatest, sums and texts                                 *)

LEMMA LeastFacts ==
    ASSUME NEW set \in SUBSET Nat, set # {}
    PROVE  Least(set) \in set /\ \A y \in set : Least(set) <= y
<1>1. PICK x \in set : \A y \in set : ~(<<y, x>> \in OpToRel(<, Nat))
      BY NatLessThanWellFounded, WFMin
<1>2. \A y \in set : x <= y
  <2>1. ASSUME NEW y \in set, y < x PROVE <<y, x>> \in OpToRel(<, Nat)
    <3>1. <<y, x>> \in Nat \X Nat /\ <<y, x>>[1] < <<y, x>>[2]
          BY <2>1
    <3>2. OpToRel(<, Nat) = {ss \in Nat \X Nat : ss[1] < ss[2]}
          BY DEF OpToRel
    <3> QED BY <3>1, <3>2
  <2>2. \A y \in set : ~(y < x)
        BY <1>1, <2>1, Zenon
  <2>3. x \in Nat /\ \A y \in set : y \in Nat
        OBVIOUS
  <2> QED BY <2>2, <2>3
<1> QED BY <1>2 DEF Least

LEMMA GreatestFacts ==
    ASSUME NEW t \in Nat, NEW set \in SUBSET (0..t), set # {}
    PROVE  Greatest(set) \in set /\ \A y \in set : y <= Greatest(set)
<1> DEFINE back == {t - o : o \in set}
<1>1. back \in SUBSET Nat /\ back # {}
  <2>1. ASSUME NEW o \in set PROVE t - o \in Nat
        OBVIOUS
  <2>2. PICK o \in set : TRUE
        OBVIOUS
  <2>3. t - o \in back
        OBVIOUS
  <2> QED BY <2>1, <2>3
<1>2. Least(back) \in back /\ \A b \in back : Least(back) <= b
      BY <1>1, LeastFacts
<1>3. PICK x \in set : Least(back) = t - x
      BY <1>2
<1>4. ASSUME NEW y \in set PROVE y <= x
  <2>1. t - y \in back
        OBVIOUS
  <2>2. t - x <= t - y
        BY <1>2, <1>3, <2>1
  <2> QED BY <2>2
<1>5. \A y \in set : y <= x
      BY <1>4
<1> QED BY <1>5 DEF Greatest

\* What holds of the first and goes from each to the next holds of all.
LEMMA UpTo ==
    ASSUME NEW n \in Nat, NEW S, 0 \in S,
           \A k \in 0..n : k \in S /\ k < n => k + 1 \in S
    PROVE  \A k \in 0..n : k \in S
<1> SUFFICES ASSUME {k \in 0..n : k \notin S} # {} PROVE FALSE
    OBVIOUS
<1> DEFINE left == {k \in 0..n : k \notin S}
<1>1. left \in SUBSET Nat
      OBVIOUS
<1>2. Least(left) \in left /\ \A y \in left : Least(left) <= y
      BY <1>1, LeastFacts
<1>3. PICK k \in left : \A y \in left : k <= y
      BY <1>2
<1>4. k # 0 /\ k - 1 \in 0..n /\ k - 1 \notin left
      BY <1>3
<1>5. k - 1 \in S
      BY <1>4
<1> QED BY <1>4, <1>5

LEMMA CountedExists ==
    ASSUME NEW text \in Seq(Nat)
    PROVE  Counted(text) = [n \in 0..Len(text) |->
                               IF n = 0 THEN 0 ELSE Counted(text)[n - 1] + text[n]]
<1> DEFINE Step(f, m) == [n \in 0..m |-> IF n = 0 THEN 0 ELSE f[n - 1] + text[n]]
           S == {m \in 0..Len(text) : \E f : f = Step(f, m)}
<1>0. Len(text) \in Nat
      BY LenProperties
<1>1. 0 \in S
  <2> DEFINE f == [n \in 0..0 |-> 0]
  <2>1. f = Step(f, 0)
        OBVIOUS
  <2>2. \E g : g = Step(g, 0)
        BY <2>1
  <2>3. 0 \in 0..Len(text)
        BY <1>0
  <2> QED BY <2>2, <2>3
<1>2. ASSUME NEW k \in 0..Len(text), k \in S, k < Len(text) PROVE k + 1 \in S
  <2>1. PICK f : f = Step(f, k)
        BY <1>2
  <2> DEFINE g == [n \in 0..(k + 1) |-> IF n <= k THEN f[n] ELSE f[k] + text[k + 1]]
  <2>2. g = Step(g, k + 1)
    <3>1. ASSUME NEW n \in 0..(k + 1) PROVE g[n] = IF n = 0 THEN 0 ELSE g[n - 1] + text[n]
      <4>1. CASE n <= k
            BY <2>1, <4>1
      <4>2. CASE n = k + 1
            BY <2>1, <4>2
      <4> QED BY <4>1, <4>2
    <3> QED BY <3>1
  <2>3. k + 1 \in 0..Len(text)
        BY <1>0, <1>2
  <2> QED BY <2>2, <2>3
<1>3. Len(text) \in S
  <2>1. \A k \in 0..Len(text) : k \in S /\ k < Len(text) => k + 1 \in S
        BY <1>2
  <2> HIDE DEF S
  <2>2. \A k \in 0..Len(text) : k \in S
        BY <1>0, <1>1, <2>1, UpTo
  <2> QED BY <1>0, <2>2
<1>4. \E f : f = Step(f, Len(text))
      BY <1>3
<1> HIDE DEF S
<1> QED BY <1>4, Zenon DEF Counted

LEMMA CountedFacts ==
    ASSUME NEW text \in Seq(Nat)
    PROVE  /\ Counted(text)[0] = 0
           /\ \A n \in 1..Len(text) : Counted(text)[n] = Counted(text)[n - 1] + text[n]
           /\ \A n \in 0..Len(text) : Counted(text)[n] \in Nat
<1> DEFINE count == Counted(text)
           S == {k \in 0..Len(text) : count[k] \in Nat}
<1>1. Len(text) \in Nat /\ \A n \in 1..Len(text) : text[n] \in Nat
      BY LenProperties, ElementOfSeq
<1>2. count = [n \in 0..Len(text) |-> IF n = 0 THEN 0 ELSE count[n - 1] + text[n]]
      BY CountedExists
<1> HIDE DEF count
<1>3. count[0] = 0
      BY <1>1, <1>2
<1>4. \A n \in 1..Len(text) : count[n] = count[n - 1] + text[n]
  <2> SUFFICES ASSUME NEW n \in 1..Len(text) PROVE count[n] = count[n - 1] + text[n]
      OBVIOUS
  <2>1. n \in 0..Len(text) /\ n # 0
        BY <1>1
  <2>2. count[n] = IF n = 0 THEN 0 ELSE count[n - 1] + text[n]
        BY <1>2, <2>1, Zenon
  <2> QED BY <2>1, <2>2, Zenon
<1>5. 0 \in S
      BY <1>1, <1>3
<1>6. ASSUME NEW k \in 0..Len(text), k \in S, k < Len(text) PROVE k + 1 \in S
  <2>1. k + 1 \in 1..Len(text) /\ k + 1 \in 0..Len(text) /\ (k + 1) - 1 = k
        BY <1>1, <1>6
  <2>2. count[k + 1] = count[k] + text[k + 1]
        BY <1>4, <2>1
  <2>3. count[k] \in Nat /\ text[k + 1] \in Nat
        BY <1>1, <1>6, <2>1
  <2>4. count[k + 1] \in Nat
        BY <2>2, <2>3
  <2> QED BY <2>1, <2>4
<1>7. \A k \in 0..Len(text) : k \in S
  <2>1. \A k \in 0..Len(text) : k \in S /\ k < Len(text) => k + 1 \in S
        BY <1>6
  <2> HIDE DEF S
  <2> QED BY <1>1, <1>5, <2>1, UpTo
<1> QED BY <1>3, <1>4, <1>7 DEF count

LEMMA CountedGrows ==
    ASSUME NEW text \in Seq(Nat), NEW a \in 0..Len(text), NEW b \in 0..Len(text), a <= b
    PROVE  Counted(text)[a] <= Counted(text)[b]
<1> DEFINE count == Counted(text)
           S == {k \in 0..Len(text) : a <= k => count[a] <= count[k]}
<1>1. Len(text) \in Nat /\ \A n \in 1..Len(text) : text[n] \in Nat
      BY LenProperties, ElementOfSeq
<1>2. /\ \A n \in 1..Len(text) : count[n] = count[n - 1] + text[n]
      /\ \A n \in 0..Len(text) : count[n] \in Nat
      BY CountedFacts
<1> HIDE DEF count
<1>3. 0 \in S
      BY <1>1, <1>2
<1>4. ASSUME NEW k \in 0..Len(text), k \in S, k < Len(text) PROVE k + 1 \in S
  <2>1. k + 1 \in 1..Len(text) /\ k + 1 \in 0..Len(text) /\ (k + 1) - 1 = k
        BY <1>1, <1>4
  <2>2. count[k + 1] = count[k] + text[k + 1] /\ text[k + 1] \in Nat
        BY <1>1, <1>2, <2>1
  <2>3. count[k] \in Nat /\ count[a] \in Nat
        BY <1>2
  <2>4. a <= k + 1 => count[a] <= count[k + 1]
    <3>1. CASE a <= k
          BY <1>4, <2>2, <2>3, <3>1
    <3>2. CASE a = k + 1
          BY <3>2, <2>2, <2>3
    <3> QED BY <3>1, <3>2
  <2> QED BY <2>1, <2>4
<1>5. \A k \in 0..Len(text) : k \in S
  <2>1. \A k \in 0..Len(text) : k \in S /\ k < Len(text) => k + 1 \in S
        BY <1>4
  <2> HIDE DEF S
  <2> QED BY <1>1, <1>3, <2>1, UpTo
<1> QED BY <1>5 DEF count

LEMMA FlattenUnfolds ==
    ASSUME NEW T, NEW s \in Seq(Seq(T)), s # <<>>
    PROVE  \E f : /\ FlattenSeq(s) = f[Len(s)]
                  /\ f[1] = s[1]
                  /\ \A i \in 2..Len(s) : f[i] = f[i - 1] \o s[i]
<1> DEFINE Step(f, m) == [i \in 1..m |-> IF i = 1 THEN s[i] ELSE f[i - 1] \o s[i]]
           S == {m \in 0..Len(s) : \E f : f = Step(f, m)}
<1>0. Len(s) \in Nat /\ Len(s) # 0
      BY LenProperties, EmptySeq
<1>1. 0 \in S
  <2> DEFINE f == [i \in 1..0 |-> 0]
  <2>1. f = Step(f, 0)
        OBVIOUS
  <2>2. \E g : g = Step(g, 0)
        BY <2>1
  <2>3. 0 \in 0..Len(s)
        BY <1>0
  <2> QED BY <2>2, <2>3
<1>2. ASSUME NEW k \in 0..Len(s), k \in S, k < Len(s) PROVE k + 1 \in S
  <2>1. PICK f : f = Step(f, k)
        BY <1>2
  <2> DEFINE x == IF k = 0 THEN s[1] ELSE f[k] \o s[k + 1]
             g == [i \in 1..(k + 1) |-> IF i <= k THEN f[i] ELSE x]
  <2>2. g = Step(g, k + 1)
    <3>1. ASSUME NEW i \in 1..(k + 1) PROVE g[i] = IF i = 1 THEN s[i] ELSE g[i - 1] \o s[i]
      <4>1. CASE i <= k
        <5>0. i \in 1..k
              BY <4>1
        <5>1. f[i] = IF i = 1 THEN s[i] ELSE f[i - 1] \o s[i]
              BY <2>1, <5>0, Zenon
        <5>3. g[i] = f[i]
              BY <4>1
        <5>2. i # 1 => g[i - 1] = f[i - 1]
              BY <4>1
        <5> QED BY <5>1, <5>2, <5>3, Zenon
      <4>2. CASE i = k + 1
        <5>1. g[i] = x
              BY <4>2
        <5>2. i # 1 => g[i - 1] = f[k] /\ k # 0
              BY <4>2
        <5>3. i = 1 => k = 0
              BY <4>2
        <5> QED BY <4>2, <5>1, <5>2, <5>3
      <4> QED BY <4>1, <4>2
    <3> QED BY <3>1
  <2>3. k + 1 \in 0..Len(s)
        BY <1>0, <1>2
  <2> QED BY <2>2, <2>3
<1>3. Len(s) \in S
  <2>1. \A k \in 0..Len(s) : k \in S /\ k < Len(s) => k + 1 \in S
        BY <1>2
  <2> HIDE DEF S
  <2>2. \A k \in 0..Len(s) : k \in S
        BY <1>0, <1>1, <2>1, UpTo
  <2> QED BY <1>0, <2>2
<1>4. \E f : f = Step(f, Len(s))
      BY <1>3
<1> DEFINE flat == CHOOSE f : f = Step(f, Len(s))
<1>5. flat = Step(flat, Len(s))
  <2> HIDE DEF S, Step
  <2> QED BY <1>4
<1>6. FlattenSeq(s) = flat[Len(s)]
      BY <1>0 DEF FlattenSeq
<1> HIDE DEF flat
<1>7. \A i \in 1..Len(s) : flat[i] = IF i = 1 THEN s[i] ELSE flat[i - 1] \o s[i]
      BY <1>5, Zenon
<1>8. 1 \in 1..Len(s) /\ \A i \in 2..Len(s) : i \in 1..Len(s) /\ i # 1
      BY <1>0
<1>9. flat[1] = s[1]
      BY <1>7, <1>8, Zenon
<1>10. ASSUME NEW i \in 2..Len(s) PROVE flat[i] = flat[i - 1] \o s[i]
      BY <1>7, <1>8, Zenon
<1> QED BY <1>6, <1>9, <1>10

LEMMA FlattenFacts ==
    ASSUME NEW T, NEW s \in Seq(Seq(T))
    PROVE  /\ FlattenSeq(s) \in Seq(T)
           /\ \A x \in Seq(T) : FlattenSeq(Append(s, x)) = FlattenSeq(s) \o x
<1> DEFINE n == Len(s)
<1>0. n \in Nat /\ (s # <<>> => n # 0) /\ \A i \in 1..n : s[i] \in Seq(T)
      BY LenProperties, EmptySeq, ElementOfSeq
<1>1. CASE s = <<>>
  <2>1. FlattenSeq(s) = <<>>
        BY <1>1 DEF FlattenSeq
  <2>2. ASSUME NEW x \in Seq(T) PROVE FlattenSeq(Append(s, x)) = FlattenSeq(s) \o x
    <3>1. Append(s, x) \in Seq(Seq(T)) /\ Append(s, x) # <<>>
          /\ Len(Append(s, x)) = 1 /\ Append(s, x)[1] = x
          BY <1>1, AppendProperties, EmptySeq
    <3>2. PICK f : FlattenSeq(Append(s, x)) = f[Len(Append(s, x))] /\ f[1] = Append(s, x)[1]
          BY <3>1, FlattenUnfolds
    <3>3. <<>> \o x = x
          BY ConcatEmptySeq
    <3> QED BY <2>1, <3>1, <3>2, <3>3
  <2>3. <<>> \in Seq(T)
        BY EmptySeq
  <2> QED BY <2>1, <2>2, <2>3
<1>2. CASE s # <<>>
  <2>1. PICK f : /\ FlattenSeq(s) = f[n]
                 /\ f[1] = s[1]
                 /\ \A i \in 2..n : f[i] = f[i - 1] \o s[i]
        BY <1>2, FlattenUnfolds
  <2> DEFINE S == {k \in 0..n : k = 0 \/ f[k] \in Seq(T)}
  <2>2. \A k \in 0..n : k \in S
    <3>1. 0 \in S
          BY <1>0
    <3>2. ASSUME NEW k \in 0..n, k \in S, k < n PROVE k + 1 \in S
      <4>1. k + 1 \in 0..n /\ k + 1 \in 1..n /\ s[k + 1] \in Seq(T)
            BY <1>0, <3>2
      <4>2. CASE k = 0
            BY <2>1, <4>1, <4>2
      <4>3. CASE k # 0
        <5>1. f[k] \in Seq(T) /\ k + 1 \in 2..n /\ (k + 1) - 1 = k
              BY <1>0, <3>2, <4>3
        <5>2. f[k + 1] = f[k] \o s[k + 1]
              BY <2>1, <5>1
        <5>3. f[k + 1] \in Seq(T)
              BY <4>1, <5>1, <5>2, ConcatProperties
        <5> QED BY <4>1, <5>3
      <4> QED BY <4>2, <4>3
    <3>3. \A k \in 0..n : k \in S /\ k < n => k + 1 \in S
          BY <3>2
    <3> HIDE DEF S
    <3> QED BY <1>0, <3>1, <3>3, UpTo
  <2>3. f[n] \in Seq(T)
        BY <1>0, <1>2, <2>2
  <2>4. ASSUME NEW x \in Seq(T) PROVE FlattenSeq(Append(s, x)) = FlattenSeq(s) \o x
    <3> DEFINE a == Append(s, x)
    <3>1. /\ a \in Seq(Seq(T)) /\ a # <<>> /\ Len(a) = n + 1 /\ a[n + 1] = x
          /\ \A i \in 1..n : a[i] = s[i]
          BY AppendProperties
    <3> HIDE DEF a
    <3>2. PICK g : /\ FlattenSeq(a) = g[Len(a)]
                   /\ g[1] = a[1]
                   /\ \A i \in 2..Len(a) : g[i] = g[i - 1] \o a[i]
          BY <3>1, FlattenUnfolds
    <3> DEFINE Q == {k \in 0..n : k = 0 \/ g[k] = f[k]}
    <3>3. 0 \in Q
          BY <1>0
    <3>4. ASSUME NEW k \in 0..n, k \in Q, k < n PROVE k + 1 \in Q
      <4>0. k + 1 \in 0..n /\ k + 1 \in 1..n
            BY <1>0, <3>4
      <4>1. k + 1 \in 0..n /\ k + 1 \in 1..n /\ a[k + 1] = s[k + 1]
            BY <3>1, <4>0
      <4>2. CASE k = 0
            BY <2>1, <3>2, <4>1, <4>2
      <4>3. CASE k # 0
        <5>1. g[k] = f[k] /\ k + 1 \in 2..n /\ k + 1 \in 2..Len(a) /\ (k + 1) - 1 = k
              BY <1>0, <3>1, <3>4, <4>3
        <5>2. f[k + 1] = f[k] \o s[k + 1] /\ g[k + 1] = g[k] \o a[k + 1]
              BY <2>1, <3>2, <5>1
        <5> QED BY <4>1, <5>1, <5>2
      <4> QED BY <4>2, <4>3
    <3>5. \A k \in 0..n : k \in Q
      <4>1. \A k \in 0..n : k \in Q /\ k < n => k + 1 \in Q
            BY <3>4
      <4> HIDE DEF Q
      <4> QED BY <1>0, <3>3, <4>1, UpTo
    <3>6. g[n] = f[n]
          BY <1>0, <1>2, <3>5
    <3>7. n + 1 \in 2..Len(a) /\ (n + 1) - 1 = n
          BY <1>0, <1>2, <3>1
    <3>8. g[n + 1] = g[n] \o a[n + 1]
          BY <3>2, <3>7
    <3>9. FlattenSeq(a) = f[n] \o x
          BY <3>1, <3>2, <3>6, <3>8
    <3> QED BY <2>1, <3>9 DEF a
  <2> QED BY <2>1, <2>3, <2>4
<1> QED BY <1>1, <1>2

LEMMA FlattenEmpty == FlattenSeq(<<>>) = <<>>
BY EmptySeq DEF FlattenSeq

LEMMA TextGrows ==
    ASSUME NEW someLines \in Seq(LineTypes), NEW k \in 0..(Len(someLines) - 1)
    PROVE  /\ TextOf(SubSeq(someLines, 1, k)) \in Seq(Nat)
           /\ TextOf(SubSeq(someLines, 1, k + 1)) =
                  TextOf(SubSeq(someLines, 1, k)) \o someLines[k + 1].tokens
<1> DEFINE s == SubSeq(someLines, 1, k)
           t == SubSeq(someLines, 1, k + 1)
           a == [i \in DOMAIN s |-> s[i].tokens]
           b == [i \in DOMAIN t |-> t[i].tokens]
           x == someLines[k + 1].tokens
<1>0. k \in Nat /\ Len(someLines) \in Nat /\ k + 1 \in 1..Len(someLines)
      BY LenProperties
<1>1. \A i \in 1..Len(someLines) : someLines[i].tokens \in Seq(Nat)
      BY ElementOfSeq, ChunkingAssumption
<1>2. s \in Seq(LineTypes) /\ Len(s) = k /\ \A i \in 1..k : s[i] = someLines[i]
  <2>1. \A i \in 1..k : someLines[i] \in LineTypes
        BY <1>0, ElementOfSeq
  <2> QED BY <1>0, <2>1, SubSeqProperties
<1>3. t \in Seq(LineTypes) /\ Len(t) = k + 1 /\ \A i \in 1..(k + 1) : t[i] = someLines[i]
  <2>1. \A i \in 1..(k + 1) : someLines[i] \in LineTypes
        BY <1>0, ElementOfSeq
  <2> QED BY <1>0, <2>1, SubSeqProperties
<1>4. DOMAIN s = 1..k /\ DOMAIN t = 1..(k + 1)
      BY <1>2, <1>3, LenProperties
<1> HIDE DEF s, t
<1>5. a \in Seq(Seq(Nat)) /\ Len(a) = k /\ \A i \in 1..k : a[i] = someLines[i].tokens
  <2>1. \A i \in 1..k : s[i].tokens \in Seq(Nat)
        BY <1>0, <1>1, <1>2
  <2>2. a \in [1..k -> Seq(Nat)]
        BY <1>4, <2>1
  <2>3. a \in Seq(Seq(Nat)) /\ Len(a) = k
        BY <1>0, <2>2
  <2> QED BY <1>2, <1>4, <2>3
<1>6. b \in Seq(Seq(Nat)) /\ Len(b) = k + 1 /\ \A i \in 1..(k + 1) : b[i] = someLines[i].tokens
  <2>1. \A i \in 1..(k + 1) : t[i].tokens \in Seq(Nat)
        BY <1>0, <1>1, <1>3
  <2>2. b \in [1..(k + 1) -> Seq(Nat)]
        BY <1>4, <2>1
  <2>3. b \in Seq(Seq(Nat)) /\ Len(b) = k + 1
        BY <1>0, <2>2
  <2> QED BY <1>3, <1>4, <2>3
<1>7. x \in Seq(Nat)
      BY <1>0, <1>1
<1> HIDE DEF a, b, x
<1>8. b = Append(a, x)
  <2>1. /\ Append(a, x) \in Seq(Seq(Nat)) /\ Len(Append(a, x)) = k + 1
        /\ \A i \in 1..k : Append(a, x)[i] = a[i]
        /\ Append(a, x)[k + 1] = x
        BY <1>5, <1>7, AppendProperties
  <2>2. \A i \in 1..(k + 1) : b[i] = Append(a, x)[i]
    <3>1. ASSUME NEW i \in 1..(k + 1) PROVE b[i] = Append(a, x)[i]
      <4>1. CASE i \in 1..k
            BY <1>5, <1>6, <2>1, <4>1
      <4>2. CASE i = k + 1
            BY <1>6, <2>1, <4>2 DEF x
      <4>3. i \in 1..k \/ i = k + 1
            BY <1>0
      <4> QED BY <4>1, <4>2, <4>3
    <3> QED BY <3>1
  <2> QED BY <1>6, <2>1, <2>2, SeqEqual
<1>9. FlattenSeq(a) \in Seq(Nat) /\ FlattenSeq(b) = FlattenSeq(a) \o x
      BY <1>5, <1>7, <1>8, FlattenFacts
<1> QED BY <1>9 DEF TextOf, a, b, s, t, x

LEMMA TextIsWhole ==
    ASSUME NEW someLines \in Seq(LineTypes)
    PROVE  /\ TextOf(SubSeq(someLines, 1, Len(someLines))) = TextOf(someLines)
           /\ TextOf(SubSeq(someLines, 1, 0)) = <<>>
           /\ TextOf(someLines) \in Seq(Nat)
<1> DEFINE a == [i \in DOMAIN someLines |-> someLines[i].tokens]
<1>1. SubSeq(someLines, 1, Len(someLines)) = someLines
      BY SubSeqFull
<1>2. TextOf(SubSeq(someLines, 1, 0)) = <<>>
  <2>1. SubSeq(someLines, 1, 0) = <<>>
        BY SubSeqEmpty
  <2>2. [i \in DOMAIN <<>> |-> <<>>[i].tokens] = <<>>
        OBVIOUS
  <2> QED BY <2>1, <2>2, FlattenEmpty DEF TextOf
<1>3. DOMAIN someLines = 1..Len(someLines) /\ Len(someLines) \in Nat
      BY LenProperties
<1>4. \A i \in 1..Len(someLines) : someLines[i].tokens \in Seq(Nat)
      BY ElementOfSeq, ChunkingAssumption
<1>5. a \in Seq(Seq(Nat))
  <2>1. a \in [1..Len(someLines) -> Seq(Nat)]
        BY <1>3, <1>4
  <2> QED BY <1>3, <2>1
<1>6. FlattenSeq(a) \in Seq(Nat)
      BY <1>5, FlattenFacts
<1> QED BY <1>1, <1>2, <1>6 DEF TextOf
-----------------------------------------------------------------------------
(* Chunking: the invariant                                                   *)

\* Blocks that lie one after the other from one place to another.
Tile(s, from, to) ==
    /\ s = <<>> => from = to
    /\ s # <<>> => s[1].start = from /\ s[Len(s)].end = to
    /\ \A i \in 1..(Len(s) - 1) : s[i].end = s[i + 1].start

StartOf(s, end) == IF s = <<>> THEN end ELSE s[1].start

\* The chunks lie so too, by what each adds to the one before it, and none starts
\* before that one or after its end.
ChunksTile(to) ==
    /\ chunks = <<>> => to = 1
    /\ chunks # <<>> => /\ chunks[1].start = 1 /\ chunks[1].base = 1
                        /\ chunks[Len(chunks)].end = to
    /\ \A i \in 1..Len(chunks) : /\ chunks[i].start <= chunks[i].base
                                 /\ chunks[i].base < chunks[i].end
    /\ \A i \in 1..(Len(chunks) - 1) : /\ chunks[i].end = chunks[i + 1].base
                                       /\ chunks[i].start <= chunks[i + 1].start

\* Whatever loop runs, what it has made and what it has still to do are the whole
\* text.
LoopsTile ==
    /\ phase = "parse" =>
           /\ Tile(blocks, 1, Offset(index))
           /\ parts = <<>> /\ current = <<>> /\ chunks = <<>>
    /\ phase = "split" =>
           /\ Tile(parts, 1, StartOf(blocks, TextEnd))
           /\ Tile(blocks, StartOf(blocks, TextEnd), TextEnd)
           /\ parts # <<>> \/ blocks # <<>>
           /\ current = <<>> /\ chunks = <<>>
    /\ phase = "cut" =>
           /\ blocks # <<>>
           /\ Tile(parts, 1, cut.start)
           /\ Tile(blocks, blocks[1].start, TextEnd)
           /\ blocks[1].start <= cut.start /\ cut.end <= blocks[1].end
           /\ cut.start < cut.end \/ (cut.start = cut.end /\ cut.end = blocks[1].start)
           /\ current = <<>> /\ chunks = <<>>
    /\ phase = "pack" =>
           /\ parts = <<>>
           /\ current = <<>> => chunks = <<>> /\ blocks # <<>>
           /\ Tile(current, StartOf(current, StartOf(blocks, TextEnd)), StartOf(blocks, TextEnd))
           /\ Tile(blocks, StartOf(blocks, TextEnd), TextEnd)
           /\ ChunksTile(StartOf(current, StartOf(blocks, TextEnd)))
    /\ phase = "done" =>
           /\ chunks # <<>> /\ ChunksTile(TextEnd)
           /\ blocks = <<>> /\ parts = <<>> /\ current = <<>>

\* No more than the maximum, or one word.
Fits(start, end) ==
    \/ Tokens(start, end) <= config.max
    \/ \E p \in start..end : WordsFrom(start, end) = {p}

\* Parts are no longer than a chunk may be, the part being cut is no longer than
\* the target or one word, and what is left of its block starts with a word.
LoopsFit ==
    /\ \A i \in 1..Len(parts) : Fits(parts[i].start, parts[i].end)
    /\ phase = "cut" =>
           /\ \/ Tokens(cut.start, cut.end) <= config.target
              \/ \E p \in cut.start..cut.end : WordsFrom(cut.start, cut.end) = {p}
           /\ cut.end < blocks[1].end => WordsFrom(cut.end, blocks[1].end) # {}
    /\ phase = "pack" =>
           /\ \A i \in 1..Len(blocks) : Fits(blocks[i].start, blocks[i].end)
           /\ current # <<>> => Fits(current[1].start, current[Len(current)].end)

\* The headings above a place, of a set of headings.
OpenAt(H, p) ==
    {h \in H : /\ Offset(h) <= p
               /\ \A k \in H : h < k /\ Offset(k) <= p => lines[k].level > lines[h].level}

\* Each heading is one level below a heading before it, with none above that in
\* between.
Stepwise(H) ==
    \A h \in H : lines[h].level = 1 \/ \E k \in H :
        /\ k < h /\ lines[k].level = lines[h].level - 1
        /\ \A j \in H : k < j /\ j < h => lines[j].level >= lines[h].level - 1

\* A block has no heading inside, and none at its start unless it is one; what it
\* is filed under is open there.
BlockUnder(H, b) ==
    /\ \A h \in H : \/ Offset(h) < b.start \/ b.end <= Offset(h)
                    \/ b.kind = "heading" /\ Offset(h) = b.start
    /\ ToSet(b.path) \subseteq H
    /\ Stepwise(H) => ToSet(b.path) = OpenAt(H, b.start)

SpanUnder(H, start, end, under) ==
    /\ \A h \in H : Offset(h) <= start \/ end <= Offset(h)
    /\ ToSet(under) \subseteq H
    /\ Stepwise(H) => ToSet(under) = OpenAt(H, start)

AllUnder(H, s) == \A i \in 1..Len(s) : BlockUnder(H, s[i])

PlansUnder(H, plans) ==
    \A i \in 1..Len(plans) : SpanUnder(H, plans[i].base, plans[i].end, plans[i].path)

\* A heading among some blocks is at the start of the first.
NoneInside(H, s) ==
    s # <<>> => \A h \in H : Offset(h) <= s[1].start \/ s[Len(s)].end <= Offset(h)

\* Every heading is still in what has been made of it: a block, the first of those
\* being packed, or a chunk.
Headed(s, h) == \E i \in 1..Len(s) : s[i].kind = "heading" /\ h \in ToSet(s[i].path)

FirstHeaded(s, h) == s # <<>> /\ s[1].kind = "heading" /\ h \in ToSet(s[1].path)

PlanHas(plans, h) == \E i \in 1..Len(plans) : h \in ToSet(plans[i].path)

HeadKept(H) ==
    \A h \in H : \/ Headed(blocks, h) \/ Headed(parts, h)
                 \/ FirstHeaded(current, h) \/ PlanHas(chunks, h)

\* While the text is parsed, the path has the headings that are open, each in the
\* place of its level.
PathOf(H, q) ==
    /\ ToSet(q) \subseteq H
    /\ Stepwise(H) =>
           /\ \A m \in 1..Len(q) : /\ lines[q[m]].level = m
                                   /\ \A k \in H : q[m] < k => lines[k].level > m
           /\ \A h \in H : \/ h \in ToSet(q)
                           \/ \E k \in H : h < k /\ lines[k].level <= lines[h].level

Sections(H) ==
    /\ \A h \in H : lines[h].kind = "heading"
    /\ AllUnder(H, blocks) /\ AllUnder(H, parts) /\ AllUnder(H, current)
    /\ NoneInside(H, current)
    /\ PlansUnder(H, chunks)
    /\ HeadKept(H)
    /\ phase = "parse" => PathOf(H, path) /\ \A h \in H : h < index

SectionsKept == \E H \in SUBSET DOMAIN lines : Sections(H)

ChunkingInv ==
    /\ ChunkingTypeOK
    /\ LoopsTile /\ LoopsFit
    /\ FitsMaximum /\ OverlapIsLeast
    /\ SectionsKept
    /\ lines # <<>>

\* Where the lines of a text start.
LEMMA OffsetFacts ==
    ASSUME lines \in Seq(LineTypes)
    PROVE  /\ Text \in Seq(Nat) /\ TextEnd \in Nat
           /\ Offset(1) = 1 /\ Offset(Len(lines) + 1) = TextEnd
           /\ \A k \in 1..(Len(lines) + 1) : Offset(k) \in 1..TextEnd
           /\ \A a \in 1..(Len(lines) + 1), b \in 1..(Len(lines) + 1) :
                  a < b => Offset(a) < Offset(b)
<1> DEFINE n == Len(lines)
           start(k) == Len(TextOf(SubSeq(lines, 1, k)))
<1>1. /\ n \in Nat
      /\ \A i \in 1..n : lines[i].tokens \in Seq(Nat) /\ lines[i].tokens # <<>>
      BY LenProperties, ElementOfSeq, ChunkingAssumption
<1>2. start(0) = 0 /\ start(n) = Len(Text) /\ Text \in Seq(Nat)
      BY TextIsWhole, EmptySeq DEF Text
<1>3. ASSUME NEW k \in 0..(n - 1)
      PROVE  start(k) \in Nat /\ start(k) < start(k + 1)
  <2>1. /\ TextOf(SubSeq(lines, 1, k)) \in Seq(Nat)
        /\ TextOf(SubSeq(lines, 1, k + 1)) =
               TextOf(SubSeq(lines, 1, k)) \o lines[k + 1].tokens
        BY TextGrows
  <2>2. k + 1 \in 1..n
        BY <1>1
  <2>3. lines[k + 1].tokens \in Seq(Nat) /\ Len(lines[k + 1].tokens) \in Nat \ {0}
        BY <1>1, <2>2, EmptySeq
  <2>4. PICK d \in Nat \ {0} : d = Len(lines[k + 1].tokens)
        BY <2>3
  <2>5. start(k) \in Nat /\ start(k + 1) = start(k) + d
        BY <2>1, <2>3, <2>4, LenProperties, ConcatProperties
  <2> HIDE DEF start
  <2>6. start(k) < start(k) + d
        BY <2>4, <2>5
  <2> QED BY <2>5, <2>6
<1>4. Len(Text) \in Nat
      BY <1>2, LenProperties
<1>5. ASSUME NEW k \in 0..n PROVE start(k) \in Nat
  <2>1. CASE k = n
        BY <1>2, <1>4, <2>1
  <2>2. CASE k # n
    <3>1. k \in 0..(n - 1)
          BY <1>1, <2>2
    <3> QED BY <1>3, <3>1
  <2> QED BY <2>1, <2>2
<1>6. \A k \in 0..n : start(k) \in Nat
      BY <1>5
<1>7. \A k \in 0..(n - 1) : start(k) < start(k + 1)
      BY <1>3
<1>8. \A k \in 1..(n + 1) : Offset(k) = 1 + start(k - 1)
      BY DEF Offset
<1>9. TextEnd = 1 + start(n)
      BY <1>2, <1>4 DEF TextEnd
<1> HIDE DEF start
<1>10. ASSUME NEW a \in 0..n, NEW b \in 0..n, a < b PROVE start(a) < start(b)
  <2> DEFINE S == {k \in 0..n : a < k => start(a) < start(k)}
  <2>1. 0 \in S
        BY <1>1
  <2>2. ASSUME NEW k \in 0..n, k \in S, k < n PROVE k + 1 \in S
    <3>1. k \in 0..(n - 1) /\ k + 1 \in 0..n
          BY <1>1, <2>2
    <3>2. start(k) < start(k + 1) /\ start(k) \in Nat /\ start(k + 1) \in Nat /\ start(a) \in Nat
          BY <1>6, <1>7, <3>1
    <3>3. a < k + 1 => start(a) < start(k + 1)
      <4>1. CASE a < k
            BY <2>2, <3>2, <4>1
      <4>2. CASE a = k
            BY <3>2, <4>2
      <4> QED BY <4>1, <4>2
    <3> QED BY <3>1, <3>3
  <2>3. \A k \in 0..n : k \in S
    <3>1. \A k \in 0..n : k \in S /\ k < n => k + 1 \in S
          BY <2>2
    <3> HIDE DEF S
    <3> QED BY <1>1, <2>1, <3>1, UpTo
  <2> QED BY <1>10, <2>3
<1>11. \A a \in 0..n, b \in 0..n : a < b => start(a) < start(b)
      BY <1>10
<1>12. ASSUME NEW k \in 1..(n + 1) PROVE Offset(k) \in 1..TextEnd
  <2>1. k - 1 \in 0..n /\ n \in 0..n
        BY <1>1
  <2>2. k - 1 < n => start(k - 1) < start(n)
        BY <1>11, <2>1
  <2>3. start(k - 1) \in Nat /\ start(n) \in Nat
        BY <1>6, <2>1
  <2>4. k - 1 < n \/ k - 1 = n
        BY <1>1
  <2>5. start(k - 1) <= start(n)
        BY <2>2, <2>3, <2>4
  <2> QED BY <1>8, <1>9, <2>3, <2>5
<1>13. ASSUME NEW a \in 1..(n + 1), NEW b \in 1..(n + 1), a < b
       PROVE  Offset(a) < Offset(b)
  <2>1. a - 1 \in 0..n /\ b - 1 \in 0..n /\ a - 1 < b - 1
        BY <1>1, <1>13
  <2>2. start(a - 1) < start(b - 1) /\ start(a - 1) \in Nat /\ start(b - 1) \in Nat
        BY <1>6, <1>11, <2>1
  <2> QED BY <1>8, <2>2
<1>14. Offset(1) = 1 /\ Offset(n + 1) = TextEnd
  <2>1. 1 \in 1..(n + 1) /\ n + 1 \in 1..(n + 1) /\ 1 - 1 = 0 /\ (n + 1) - 1 = n
        BY <1>1
  <2> QED BY <1>2, <1>8, <1>9, <2>1
<1> QED BY <1>2, <1>4, <1>12, <1>13, <1>14 DEF TextEnd

\* What is counted of a span is the sum of what is counted of its parts.
LEMMA TokensFacts ==
    ASSUME lines \in Seq(LineTypes),
           NEW a \in 1..TextEnd, NEW b \in 1..TextEnd, NEW c \in 1..TextEnd, a <= b, b <= c
    PROVE  /\ Tokens(a, b) \in Nat /\ Tokens(b, c) \in Nat /\ Tokens(a, c) \in Nat
           /\ Tokens(a, c) = Tokens(a, b) + Tokens(b, c)
           /\ Tokens(a, a) = 0
<1>1. Text \in Seq(Nat) /\ Len(Text) \in Nat
      BY OffsetFacts, LenProperties
<1> DEFINE count == Counted(Text)
<1>2. a - 1 \in 0..Len(Text) /\ b - 1 \in 0..Len(Text) /\ c - 1 \in 0..Len(Text)
      /\ a - 1 <= b - 1 /\ b - 1 <= c - 1
      BY <1>1 DEF TextEnd
<1>3. count[a - 1] <= count[b - 1] /\ count[b - 1] <= count[c - 1]
      BY <1>1, <1>2, CountedGrows
<1>4. count[a - 1] \in Nat /\ count[b - 1] \in Nat /\ count[c - 1] \in Nat
      BY <1>1, <1>2, CountedFacts
<1> HIDE DEF count
<1>5. /\ count[b - 1] - count[a - 1] \in Nat /\ count[c - 1] - count[b - 1] \in Nat
      /\ count[c - 1] - count[a - 1] \in Nat /\ count[a - 1] - count[a - 1] = 0
      /\ count[c - 1] - count[a - 1]
             = (count[b - 1] - count[a - 1]) + (count[c - 1] - count[b - 1])
      BY <1>3, <1>4
<1> QED BY <1>5, Zenon DEF Tokens, count

LEMMA NoWords ==
    ASSUME lines \in Seq(LineTypes),
           NEW a \in 1..TextEnd, NEW b \in 1..TextEnd, a <= b, WordsFrom(a, b) = {}
    PROVE  Tokens(a, b) = 0
<1> DEFINE count == Counted(Text)
           S == {k \in 0..Len(Text) : a <= k + 1 /\ k + 1 <= b => count[k] = count[a - 1]}
<1>1. /\ Text \in Seq(Nat) /\ Len(Text) \in Nat
      /\ \A n \in 1..Len(Text) : Text[n] \in Nat
      BY OffsetFacts, LenProperties, ElementOfSeq
<1>2. /\ \A n \in 1..Len(Text) : count[n] = count[n - 1] + Text[n]
      /\ \A n \in 0..Len(Text) : count[n] \in Nat
      BY <1>1, CountedFacts
<1>3. \A p \in a..(b - 1) : Text[p] = 0
  <2>1. ASSUME NEW p \in a..(b - 1) PROVE p \in 1..Len(Text)
        BY <1>1 DEF TextEnd
  <2> QED BY <1>1, <2>1 DEF WordsFrom
<1> HIDE DEF count
<1>4. 0 \in S
      BY <1>1
<1>5. ASSUME NEW k \in 0..Len(Text), k \in S, k < Len(Text) PROVE k + 1 \in S
  <2>1. k + 1 \in 1..Len(Text) /\ k + 1 \in 0..Len(Text) /\ (k + 1) - 1 = k
        BY <1>1, <1>5
  <2>2. ASSUME a <= k + 2, k + 2 <= b PROVE count[k + 1] = count[a - 1]
    <3>1. CASE a = k + 2
      <4>1. a - 1 = k + 1
            BY <3>1
      <4> QED BY <4>1
    <3>2. CASE a <= k + 1
      <4>1. count[k] = count[a - 1]
            BY <1>5, <2>2, <3>2
      <4>2. k + 1 \in a..(b - 1)
            BY <2>2, <3>2
      <4>3. Text[k + 1] = 0 /\ count[k + 1] = count[k] + Text[k + 1] /\ count[k] \in Nat
            BY <1>2, <1>3, <2>1, <4>2
      <4> QED BY <4>1, <4>3
    <3> QED BY <2>2, <3>1, <3>2
  <2>3. (k + 1) + 1 = k + 2
        OBVIOUS
  <2> QED BY <2>1, <2>2, <2>3
<1>6. \A k \in 0..Len(Text) : k \in S
  <2>1. \A k \in 0..Len(Text) : k \in S /\ k < Len(Text) => k + 1 \in S
        BY <1>5
  <2> HIDE DEF S
  <2> QED BY <1>1, <1>4, <2>1, UpTo
<1>7. b - 1 \in 0..Len(Text) /\ a - 1 \in 0..Len(Text) /\ (b - 1) + 1 = b
      BY <1>1 DEF TextEnd
<1>8. count[b - 1] = count[a - 1]
      BY <1>6, <1>7
<1>9. count[a - 1] \in Nat
      BY <1>2, <1>7
<1> QED BY <1>8, <1>9 DEF Tokens, count

\* White space at the front of a span counts for nothing.
LEMMA SkipBlank ==
    ASSUME lines \in Seq(LineTypes),
           NEW a \in 1..TextEnd, NEW b \in 1..TextEnd, a <= b, Tokens(a, b) # 0
    PROVE  \E w \in WordsFrom(a, b) : Tokens(w, b) = Tokens(a, b)
<1>1. TextEnd \in Nat
      BY OffsetFacts
<1>2. WordsFrom(a, b) # {}
      BY NoWords
<1>3. WordsFrom(a, b) \in SUBSET Nat
      BY DEF WordsFrom
<1>4. PICK w \in WordsFrom(a, b) : \A y \in WordsFrom(a, b) : w <= y
      BY <1>2, <1>3, LeastFacts
<1>5. w \in 1..TextEnd /\ a <= w /\ w <= b
      BY <1>1 DEF WordsFrom
<1>6. WordsFrom(a, w) = {}
  <2>1. ASSUME NEW y \in WordsFrom(a, w) PROVE FALSE
    <3>1. y \in WordsFrom(a, b) /\ y < w
          BY <1>1, <1>5 DEF WordsFrom
    <3> QED BY <1>3, <1>4, <3>1
  <2> QED BY <2>1
<1>7. Tokens(a, w) = 0
      BY <1>5, <1>6, NoWords
<1>8. Tokens(a, b) = Tokens(a, w) + Tokens(w, b) /\ Tokens(w, b) \in Nat
      BY <1>5, TokensFacts
<1> QED BY <1>7, <1>8

-----------------------------------------------------------------------------
(* Chunking: the loops                                                       *)

\* A text and a configuration never change.
LEMMA SameText ==
    ASSUME lines' = lines, config' = config
    PROVE  /\ TextEnd' = TextEnd /\ Blocks' = Blocks /\ ChunkPlans' = ChunkPlans
           /\ Text' = Text
           /\ \A i : Offset(i)' = Offset(i)
           /\ \A a, b : Tokens(a, b)' = Tokens(a, b)
           /\ \A a, b : WordsFrom(a, b)' = WordsFrom(a, b)
           /\ \A a, b : Fits(a, b)' = Fits(a, b)
<1>1. Text' = Text
      BY DEF Text
<1>2. TextEnd' = TextEnd
      BY <1>1 DEF TextEnd
<1>3. Blocks' = Blocks /\ ChunkPlans' = ChunkPlans
      BY <1>2 DEF Blocks, ChunkPlans
<1>4. \A i : Offset(i)' = Offset(i)
      BY DEF Offset
<1>5. \A a, b : Tokens(a, b)' = Tokens(a, b)
      BY <1>1 DEF Tokens
<1>6. \A a, b : WordsFrom(a, b)' = WordsFrom(a, b)
      BY <1>1 DEF WordsFrom
<1>7. \A a, b : Fits(a, b)' = Fits(a, b)
      BY <1>5, <1>6 DEF Fits
<1> QED BY <1>1, <1>2, <1>3, <1>4, <1>5, <1>6, <1>7

\* The lines of a block: at least one, up to the end of the text at most.
LEMMA AfterFacts ==
    ASSUME lines \in Seq(LineTypes), NEW i \in 1..(Len(lines) + 1)
    PROVE  /\ AfterBlanks(i) \in i..(Len(lines) + 1)
           /\ i <= Len(lines) /\ lines[i].kind \notin {"blank", "heading"} =>
                  AfterContent(i) \in (i + 1)..(Len(lines) + 1)
<1> DEFINE n == Len(lines)
<1>1. n \in Nat /\ i \in Nat /\ i <= n + 1
      BY LenProperties
<1> HIDE DEF n
<1>2. ASSUME NEW S \in SUBSET (i..n)
      PROVE  Least(S \cup {n + 1}) \in S \cup {n + 1} /\ Least(S \cup {n + 1}) \in i..(n + 1)
  <2>0. ASSUME NEW x \in S \cup {n + 1} PROVE x \in Nat /\ x \in i..(n + 1)
    <3>1. x \in i..n \/ x = n + 1
          OBVIOUS
    <3> QED BY <1>1, <3>1
  <2>1. S \cup {n + 1} \in SUBSET Nat /\ S \cup {n + 1} # {}
        BY <2>0
  <2>2. Least(S \cup {n + 1}) \in S \cup {n + 1}
        BY <2>1, LeastFacts
  <2>3. S \cup {n + 1} \subseteq i..(n + 1)
        BY <2>0
  <2> QED BY <2>2, <2>3
<1>3. AfterBlanks(i) \in i..(n + 1)
  <2> DEFINE S == {k \in i..n : lines[k].kind # "blank"}
  <2>1. S \in SUBSET (i..n)
        OBVIOUS
  <2>2. AfterBlanks(i) = Least(S \cup {n + 1})
        BY DEF AfterBlanks, FirstLine, n
  <2> HIDE DEF S
  <2> QED BY <1>2, <2>1, <2>2
<1>4. ASSUME i <= n, lines[i].kind \notin {"blank", "heading"}
      PROVE  AfterContent(i) \in (i + 1)..(n + 1)
  <2>0. ASSUME NEW S \in SUBSET ((i + 1)..n)
        PROVE  Least(S \cup {n + 1}) \in (i + 1)..(n + 1)
    <3>1. S \in SUBSET (i..n)
      <4>1. (i + 1)..n \subseteq i..n
            BY <1>1
      <4> QED BY <4>1
    <3>2. Least(S \cup {n + 1}) \in S \cup {n + 1}
          BY <1>2, <3>1
    <3>3. ASSUME NEW x \in S \cup {n + 1} PROVE x \in (i + 1)..(n + 1)
      <4>1. x \in (i + 1)..n \/ x = n + 1
            OBVIOUS
      <4> QED BY <1>1, <1>4, <4>1
    <3> QED BY <3>2, <3>3
  <2>1. CASE IsFence(lines[i])
    <3> DEFINE S == {k \in (i + 1)..n : lines[k].kind = lines[i].kind}
               close == Least(S \cup {n + 1})
    <3>1. S \in SUBSET ((i + 1)..n)
          OBVIOUS
    <3>2. AfterFence(i) = IF close > n THEN close ELSE close + 1
          BY DEF AfterFence, FirstLine, n
    <3> HIDE DEF S
    <3>3. close \in (i + 1)..(n + 1)
          BY <2>0, <3>1
    <3> HIDE DEF close
    <3>4. AfterFence(i) \in (i + 1)..(n + 1)
          BY <1>1, <3>2, <3>3
    <3>5. AfterContent(i) = AfterFence(i)
          BY <2>1 DEF AfterContent, IsFence, StartsTable, HasPipe
    <3> QED BY <3>4, <3>5
  <2>2. CASE ~IsFence(lines[i]) /\ StartsTable(i)
    <3> DEFINE S == {k \in (i + 1)..n : ~HasPipe(lines[k])}
    <3>1. S \in SUBSET ((i + 1)..n)
          OBVIOUS
    <3>2. AfterTable(i) = Least(S \cup {n + 1})
          BY DEF AfterTable, FirstLine, n
    <3> HIDE DEF S
    <3>3. AfterTable(i) \in (i + 1)..(n + 1)
          BY <2>0, <3>1, <3>2
    <3>4. AfterContent(i) = AfterTable(i)
          BY <2>2 DEF AfterContent, IsFence, StartsTable, HasPipe
    <3> QED BY <3>3, <3>4
  <2>3. CASE ~IsFence(lines[i]) /\ ~StartsTable(i) /\ lines[i].kind = "item"
    <3> DEFINE S == {k \in i..n : \/ lines[k].kind = "blank"
                                  \/ lines[k].kind # "item" /\ ~lines[k].indented}
    <3>1. S \in SUBSET (i..n) /\ i \notin S
          BY <2>3
    <3>2. AfterList(i) = Least(S \cup {n + 1})
          BY DEF AfterList, FirstLine, n
    <3> HIDE DEF S
    <3>3. S \in SUBSET ((i + 1)..n)
          BY <1>1, <3>1
    <3>4. AfterList(i) \in (i + 1)..(n + 1)
          BY <2>0, <3>2, <3>3
    <3> QED BY <2>3, <3>4 DEF AfterContent
  <2>4. CASE ~IsFence(lines[i]) /\ ~StartsTable(i) /\ lines[i].kind # "item"
    <3> DEFINE S == {k \in i..n : \/ lines[k].kind \in {"blank", "heading", "item"}
                                  \/ IsFence(lines[k]) \/ StartsTable(k)}
    <3>1. S \in SUBSET (i..n) /\ i \notin S
          BY <1>4, <2>4
    <3>2. AfterParagraph(i) = Least(S \cup {n + 1})
          BY DEF AfterParagraph, FirstLine, n
    <3> HIDE DEF S
    <3>3. S \in SUBSET ((i + 1)..n)
          BY <1>1, <3>1
    <3>4. AfterParagraph(i) \in (i + 1)..(n + 1)
          BY <2>0, <3>2, <3>3
    <3> QED BY <2>4, <3>4 DEF AfterContent
  <2> QED BY <2>1, <2>2, <2>3, <2>4
<1> QED BY <1>3, <1>4 DEF n

\* The path above a heading is a part of the one before it.
LEMMA AboveFacts ==
    ASSUME path \in Seq(DOMAIN lines), NEW level \in Nat \ {0}
    PROVE  /\ Above(level) \in Seq(DOMAIN lines)
           /\ Len(Above(level)) = IF level - 1 < Len(path) THEN level - 1 ELSE Len(path)
           /\ \A m \in 1..Len(Above(level)) : Above(level)[m] = path[m] /\ m \in 1..Len(path)
<1> DEFINE n == IF level - 1 < Len(path) THEN level - 1 ELSE Len(path)
<1>1. Len(path) \in Nat /\ \A m \in 1..Len(path) : path[m] \in DOMAIN lines
      BY LenProperties, ElementOfSeq
<1>2. n \in Nat /\ n <= Len(path)
      BY <1>1
<1>3. Above(level) = SubSeq(path, 1, n)
      BY DEF Above
<1> HIDE DEF n
<1>4. \A m \in 1..n : path[m] \in DOMAIN lines /\ m \in 1..Len(path)
      BY <1>1, <1>2
<1>5. /\ Above(level) \in Seq(DOMAIN lines) /\ Len(Above(level)) = n
      /\ \A m \in 1..n : Above(level)[m] = path[m]
      BY <1>2, <1>3, <1>4, SubSeqProperties
<1> QED BY <1>4, <1>5 DEF n

\* What the parser adds.
LEMMA ParseFacts ==
    ASSUME ChunkingTypeOK, ParseBlock
    PROVE  /\ index \in 1..Len(lines) /\ index' \in (index + 1)..(Len(lines) + 1)
           /\ path' \in Seq(DOMAIN lines)
           /\ lines[index].kind = "heading" =>
                  /\ lines[index].level \in Nat \ {0}
                  /\ path' = Append(Above(lines[index].level), index)
           /\ lines[index].kind # "heading" => path' = path
           /\ \E b \in Blocks :
                  /\ blocks' = Append(blocks, b)
                  /\ b.start = Offset(index) /\ b.end = Offset(index') /\ b.start < b.end
                  /\ b.path = path'
                  /\ b.kind = "heading" => lines[index].kind = "heading"
                  /\ lines[index].kind = "heading" => b.kind = "heading"
<1> DEFINE kind == IF lines[index].kind \in {"blank", "heading"}
                   THEN lines[index].kind ELSE "content"
           last == CASE kind = "blank" -> index
                     [] kind = "heading" -> index + 1
                     [] OTHER -> AfterContent(index)
           under == IF kind = "heading" THEN Above(lines[index].level) \o <<index>>
                    ELSE path
           b == [start |-> Offset(index), end |-> Offset(index'), kind |-> kind, path |-> under]
           n == Len(lines)
<1>1. /\ lines \in Seq(LineTypes) /\ n \in Nat /\ index \in 1..n
      /\ path \in Seq(DOMAIN lines) /\ blocks \in Seq(Blocks)
      BY LenProperties DEF ChunkingTypeOK, ParseBlock
<1>2. index' = AfterBlanks(last) /\ path' = under /\ blocks' = Append(blocks, b)
      BY DEF ParseBlock
<1>3. DOMAIN lines = 1..n /\ lines[index] \in LineTypes
      BY <1>1, LenProperties, ElementOfSeq
<1>4. lines[index].kind = "heading" => lines[index].level \in Nat \ {0}
      BY <1>3, ChunkingAssumption
<1>5. kind \in {"blank", "heading", "content"}
      OBVIOUS
<1>6. index' \in (index + 1)..(n + 1)
  <2>1. CASE lines[index].kind = "blank"
    <3>1. last = index
          BY <2>1
    <3> DEFINE S == {k \in index..n : lines[k].kind # "blank"}
    <3>2. AfterBlanks(index) = Least(S \cup {n + 1})
          BY DEF AfterBlanks, FirstLine, n
    <3>3. S \cup {n + 1} \subseteq (index + 1)..(n + 1) /\ S \cup {n + 1} # {}
          BY <1>1, <2>1
    <3> HIDE DEF S
    <3>4. S \cup {n + 1} \in SUBSET Nat
          BY <1>1, <3>3
    <3>5. Least(S \cup {n + 1}) \in S \cup {n + 1}
          BY <3>3, <3>4, LeastFacts
    <3> HIDE DEF last
    <3> QED BY <1>2, <3>1, <3>2, <3>3, <3>5
  <2>2. CASE lines[index].kind = "heading"
    <3>1. last = index + 1
          BY <2>2
    <3>2. last \in 1..(n + 1)
          BY <1>1, <3>1
    <3>3. AfterBlanks(last) \in last..(n + 1)
          BY <1>1, <3>2, AfterFacts
    <3> HIDE DEF last
    <3> QED BY <1>2, <3>1, <3>3
  <2>3. CASE lines[index].kind \notin {"blank", "heading"}
    <3>1. last = AfterContent(index)
          BY <2>3
    <3>2. last \in (index + 1)..(n + 1)
          BY <1>1, <2>3, <3>1, AfterFacts
    <3> HIDE DEF last
    <3>3. last \in 1..(n + 1)
          BY <1>1, <3>2
    <3>4. AfterBlanks(last) \in last..(n + 1)
          BY <1>1, <3>3, AfterFacts
    <3> QED BY <1>1, <1>2, <3>2, <3>4
  <2> QED BY <2>1, <2>2, <2>3
<1>7. lines[index].kind = "heading" => path' = Append(Above(lines[index].level), index)
  <2>1. ASSUME lines[index].kind = "heading"
        PROVE  Above(lines[index].level) \o <<index>> = Append(Above(lines[index].level), index)
        BY <1>1, <1>3, <1>4, <2>1, AboveFacts, AppendIsConcat
  <2> QED BY <1>2, <2>1
<1>8. lines[index].kind # "heading" => path' = path
      BY <1>2
<1>9. path' \in Seq(DOMAIN lines)
  <2>1. CASE lines[index].kind = "heading"
    <3>1. Above(lines[index].level) \in Seq(DOMAIN lines)
          BY <1>1, <1>4, <2>1, AboveFacts
    <3>2. index \in DOMAIN lines
          BY <1>1, <1>3
    <3> QED BY <1>7, <2>1, <3>1, <3>2, AppendProperties
  <2> QED BY <1>1, <1>8, <2>1
<1>10. Offset(index) \in 1..TextEnd /\ Offset(index') \in 1..TextEnd
       /\ Offset(index) < Offset(index')
  <2>1. index \in 1..(n + 1) /\ index' \in 1..(n + 1) /\ index < index'
        BY <1>1, <1>6
  <2> QED BY <1>1, <2>1, OffsetFacts
<1>11. b.start = Offset(index) /\ b.end = Offset(index') /\ b.kind = kind /\ b.path = path'
       BY <1>2
<1>12. b \in Blocks
       BY <1>2, <1>5, <1>9, <1>10 DEF Blocks
<1>13. kind = "heading" => lines[index].kind = "heading"
       OBVIOUS
<1>14. lines[index].kind = "heading" => kind = "heading"
       OBVIOUS
<1> HIDE DEF b, kind
<1>15. \E x \in Blocks :
           /\ blocks' = Append(blocks, x)
           /\ x.start = Offset(index) /\ x.end = Offset(index') /\ x.start < x.end
           /\ x.path = path'
           /\ x.kind = "heading" => lines[index].kind = "heading"
           /\ lines[index].kind = "heading" => x.kind = "heading"
       BY <1>2, <1>10, <1>11, <1>12, <1>13, <1>14
<1> QED BY <1>1, <1>4, <1>6, <1>7, <1>8, <1>9, <1>15

LEMMA TileAppend ==
    ASSUME NEW S, NEW s \in Seq(S), NEW b \in S, NEW a, Tile(s, a, b.start)
    PROVE  Tile(Append(s, b), a, b.end)
<1> DEFINE t == Append(s, b)
<1>1. Len(s) \in Nat /\ (s # <<>> => Len(s) # 0)
      BY LenProperties, EmptySeq
<1>2. /\ t # <<>> /\ Len(t) = Len(s) + 1 /\ t[Len(s) + 1] = b
      /\ \A i \in 1..Len(s) : t[i] = s[i]
      BY AppendProperties
<1> HIDE DEF t
<1>3. t[1].start = a
  <2>1. CASE s = <<>>
    <3>1. Len(s) = 0
          BY <2>1, EmptySeq
    <3> QED BY <1>2, <2>1, <3>1 DEF Tile
  <2>2. CASE s # <<>>
    <3>1. 1 \in 1..Len(s)
          BY <1>1, <2>2
    <3> QED BY <1>2, <2>2, <3>1 DEF Tile
  <2> QED BY <2>1, <2>2
<1>4. ASSUME NEW i \in 1..(Len(t) - 1) PROVE t[i].end = t[i + 1].start
  <2>1. i \in 1..Len(s)
        BY <1>1, <1>2
  <2>2. CASE i = Len(s)
    <3>1. s # <<>>
          BY <1>1, <2>1, <2>2, EmptySeq
    <3>2. s[Len(s)].end = b.start
          BY <3>1 DEF Tile
    <3> QED BY <1>2, <2>1, <2>2, <3>2
  <2>3. CASE i # Len(s)
    <3>1. i \in 1..(Len(s) - 1) /\ i + 1 \in 1..Len(s)
          BY <1>1, <2>1, <2>3
    <3>2. s[i].end = s[i + 1].start
          BY <3>1 DEF Tile
    <3> QED BY <1>2, <2>1, <3>1, <3>2
  <2> QED BY <2>2, <2>3
<1>5. t[Len(t)].end = b.end
      BY <1>2
<1> QED BY <1>2, <1>3, <1>4, <1>5 DEF Tile, t

LEMMA TileTail ==
    ASSUME NEW S, NEW s \in Seq(S), s # <<>>, NEW z, Tile(s, s[1].start, z)
    PROVE  /\ Head(s) = s[1] /\ s[1] \in S /\ Tail(s) \in Seq(S)
           /\ Len(Tail(s)) = Len(s) - 1
           /\ \A i \in 1..Len(Tail(s)) : Tail(s)[i] = s[i + 1] /\ i + 1 \in 1..Len(s)
           /\ Tile(Tail(s), s[1].end, z) /\ StartOf(Tail(s), z) = s[1].end
<1> DEFINE t == Tail(s)
<1>1. Len(s) \in Nat \ {0}
      BY EmptySeq
<1>2. /\ t \in Seq(S) /\ Len(t) = Len(s) - 1
      /\ \A i \in 1..Len(t) : t[i] = s[i + 1]
      BY HeadTailProperties
<1>3. Head(s) = s[1] /\ s[1] \in S
      BY <1>1, ElementOfSeq
<1>4. t # <<>> => Len(t) \in Nat \ {0}
      BY <1>2, EmptySeq
<1>5. t = <<>> => Len(t) = 0
      BY EmptySeq
<1> HIDE DEF t
<1>6. \A i \in 1..Len(t) : i + 1 \in 1..Len(s)
      BY <1>1, <1>2
<1>7. CASE t = <<>>
  <2>1. Len(s) = 1
        BY <1>1, <1>2, <1>5, <1>7
  <2>2. s[1].end = z
        BY <2>1 DEF Tile
  <2>3. Tile(t, s[1].end, z) /\ StartOf(t, z) = s[1].end
        BY <1>5, <1>7, <2>2 DEF Tile, StartOf
  <2> QED BY <1>2, <1>3, <1>6, <2>3 DEF t
<1>8. CASE t # <<>>
  <2>1. Len(t) \in Nat \ {0} /\ 1 \in 1..Len(t) /\ 1 \in 1..(Len(s) - 1) /\ Len(t) \in 1..Len(t)
        BY <1>1, <1>2, <1>4, <1>8
  <2>2. t[1] = s[2] /\ s[1].end = s[2].start
        BY <1>2, <2>1 DEF Tile
  <2>3. t[Len(t)] = s[Len(s)]
        BY <1>1, <1>2, <2>1
  <2>4. ASSUME NEW i \in 1..(Len(t) - 1) PROVE t[i].end = t[i + 1].start
    <3>1. i \in 1..Len(t) /\ i + 1 \in 1..Len(t) /\ i + 1 \in 1..(Len(s) - 1)
          BY <1>1, <1>2, <2>1
    <3>2. t[i] = s[i + 1] /\ t[i + 1] = s[(i + 1) + 1]
          BY <1>2, <3>1
    <3> QED BY <3>1, <3>2 DEF Tile
  <2>5. Tile(t, s[1].end, z) /\ StartOf(t, z) = s[1].end
        BY <1>8, <2>2, <2>3, <2>4 DEF Tile, StartOf
  <2> QED BY <1>2, <1>3, <1>6, <2>5 DEF t
<1> QED BY <1>7, <1>8

\* Where a chunk that overlaps the one before it starts.
LEMMA OverlapFacts ==
    ASSUME lines \in Seq(LineTypes), config \in Configs,
           NEW base \in 1..TextEnd, NEW end \in 1..TextEnd, base <= end,
           chunks # <<>> => Last(chunks).start \in 1..TextEnd /\ Last(chunks).start <= base
    PROVE  /\ chunks = <<>> => OverlapStart(base, end) = base
           /\ chunks # <<>> => OverlapStart(base, end) \in Last(chunks).start..base
           /\ OverlapStart(base, end) = base
              \/ /\ Tokens(OverlapStart(base, end), end) <= config.max
                 /\ Tokens(OverlapStart(base, end) + 1, base) < config.overlap
                 /\ \/ Tokens(OverlapStart(base, end), base) >= config.overlap
                    \/ WordsFrom(Last(chunks).start, OverlapStart(base, end)) = {}
<1> DEFINE first == Last(chunks).start
           words == WordsFrom(first, base)
           s == Candidate(base)
<1>1. CASE \/ chunks = <<>> \/ config.overlap = 0 \/ words = {}
           \/ Tokens(Candidate(base), end) > config.max
  <2>1. OverlapStart(base, end) = base
        BY <1>1 DEF OverlapStart
  <2>2. chunks # <<>> => base \in first..base
        OBVIOUS
  <2> QED BY <2>1, <2>2
<1>2. CASE ~(\/ chunks = <<>> \/ config.overlap = 0 \/ words = {}
             \/ Tokens(Candidate(base), end) > config.max)
  <2>1. OverlapStart(base, end) = s
        BY <1>2 DEF OverlapStart
  <2>2. /\ first \in 1..TextEnd /\ first <= base /\ TextEnd \in Nat /\ base \in Nat
        /\ config.overlap \in Nat \ {0} /\ config.max \in Nat /\ end \in Nat
        BY <1>2, OffsetFacts, ChunkingAssumption
  <2> HIDE DEF first
  <2>3. words \subseteq first..(base - 1) /\ words # {}
        BY <1>2 DEF WordsFrom
  <2>4. s \in words /\ Tokens(s + 1, base) < config.overlap
        /\ (Tokens(s, base) >= config.overlap \/ WordsFrom(first, s) = {})
    <3> DEFINE enough == Enough(base)
    <3>1. enough = {p \in words : Tokens(p, base) >= config.overlap}
          BY DEF Enough, first
    <3>2. CASE enough # {}
      <4>1. s = Greatest(enough)
            BY <3>2 DEF Candidate
      <4>2. enough \in SUBSET (0..base)
            BY <2>2, <2>3, <3>1
      <4> HIDE DEF enough
      <4>3. s \in enough /\ \A y \in enough : y <= s
            BY <2>2, <3>2, <4>1, <4>2, GreatestFacts
      <4> HIDE DEF s
      <4>4. s \in words /\ s \in first..(base - 1) /\ Tokens(s, base) >= config.overlap
            BY <2>3, <3>1, <4>3
      <4>5. s + 1 \in 1..TextEnd /\ s + 1 <= base /\ s \in Nat
            BY <2>2, <4>4
      <4>6. Tokens(s + 1, base) \in Nat
            BY <4>5, TokensFacts
      <4>7. ASSUME Tokens(s + 1, base) >= config.overlap PROVE FALSE
        <5>1. Tokens(s + 1, base) # 0
              BY <2>2, <4>6, <4>7
        <5>2. PICK w \in WordsFrom(s + 1, base) : Tokens(w, base) = Tokens(s + 1, base)
              BY <4>5, <5>1, SkipBlank
        <5>3. w \in words /\ w > s
              BY <2>2, <4>4, <4>5 DEF WordsFrom
        <5>4. w \in enough
              BY <3>1, <4>7, <5>2, <5>3
        <5>5. w \in Nat
              BY <4>5 DEF WordsFrom
        <5> QED BY <4>3, <4>5, <5>3, <5>4, <5>5
      <4>8. Tokens(s + 1, base) < config.overlap
            BY <2>2, <4>6, <4>7
      <4> QED BY <4>4, <4>8
    <3>3. CASE enough = {}
      <4>1. s = Least(words)
            BY <3>3 DEF Candidate, first
      <4>2. words \in SUBSET Nat
            BY <2>2, <2>3
      <4> HIDE DEF words
      <4>3. s \in words /\ \A y \in words : s <= y
            BY <2>3, <4>1, <4>2, LeastFacts
      <4> HIDE DEF s
      <4>4. s \in first..(base - 1) /\ s \in Nat
            BY <2>2, <2>3, <4>3
      <4>5. s \in 1..TextEnd /\ s + 1 \in 1..TextEnd /\ s + 1 <= base /\ s <= s + 1
            BY <2>2, <4>4
      <4>6. /\ Tokens(s, base) = Tokens(s, s + 1) + Tokens(s + 1, base)
            /\ Tokens(s, base) \in Nat /\ Tokens(s, s + 1) \in Nat /\ Tokens(s + 1, base) \in Nat
            BY <4>5, TokensFacts
      <4>7. ~(Tokens(s, base) >= config.overlap)
            BY <3>1, <3>3, <4>3
      <4>8. Tokens(s + 1, base) < config.overlap
            BY <2>2, <4>6, <4>7
      <4>9. WordsFrom(first, s) = {}
        <5>1. ASSUME NEW y \in WordsFrom(first, s) PROVE FALSE
          <6>1. y \in words /\ y < s /\ y \in Nat
                BY <2>2, <4>4 DEF WordsFrom, words
          <6> QED BY <4>3, <4>4, <6>1
        <5> QED BY <5>1
      <4> QED BY <4>3, <4>8, <4>9
    <3> QED BY <3>2, <3>3
  <2>5. s \in first..base
        BY <2>2, <2>3, <2>4
  <2>6. Tokens(s, end) <= config.max
    <3>1. ~(Tokens(s, end) > config.max)
          BY <1>2
    <3>2. s \in 1..TextEnd /\ s <= end
          BY <2>2, <2>5
    <3>3. Tokens(s, end) \in Nat
          BY <3>2, TokensFacts
    <3> QED BY <2>2, <3>1, <3>3
  <2>7. chunks # <<>>
        BY <1>2
  <2> HIDE DEF s, words
  <2>8. OverlapStart(base, end) \in Last(chunks).start..base
        BY <2>1, <2>5 DEF first
  <2>9. /\ Tokens(OverlapStart(base, end), end) <= config.max
        /\ Tokens(OverlapStart(base, end) + 1, base) < config.overlap
        /\ \/ Tokens(OverlapStart(base, end), base) >= config.overlap
           \/ WordsFrom(Last(chunks).start, OverlapStart(base, end)) = {}
        BY <2>1, <2>4, <2>6 DEF first
  <2> QED BY <2>7, <2>8, <2>9
<1> QED BY <1>1, <1>2

LEMMA TileGrows ==
    ASSUME ChunkingTypeOK, NEW s \in Seq(Blocks), s # <<>>, NEW a, NEW z, Tile(s, a, z)
    PROVE  a \in 1..TextEnd /\ z \in 1..TextEnd /\ a < z
<1> DEFINE S == {k \in 0..Len(s) : k = 0 \/ s[1].start < s[k].end}
<1>0. TextEnd \in Nat
      BY OffsetFacts DEF ChunkingTypeOK
<1>1. Len(s) \in Nat \ {0}
      BY EmptySeq
<1>2. ASSUME NEW i \in 1..Len(s)
      PROVE  s[i].start \in 1..TextEnd /\ s[i].end \in 1..TextEnd /\ s[i].start < s[i].end
  <2>1. s[i] \in Blocks
        BY ElementOfSeq
  <2> QED BY <2>1 DEF Blocks
<1>3. \A i \in 1..(Len(s) - 1) : s[i].end = s[i + 1].start
      BY DEF Tile
<1>4. 0 \in S
      BY <1>1
<1>5. ASSUME NEW k \in 0..Len(s), k \in S, k < Len(s) PROVE k + 1 \in S
  <2>1. k + 1 \in 1..Len(s) /\ k + 1 \in 0..Len(s) /\ 1 \in 1..Len(s)
        BY <1>1, <1>5
  <2>2. /\ s[k + 1].start \in 1..TextEnd /\ s[k + 1].end \in 1..TextEnd
        /\ s[k + 1].start < s[k + 1].end /\ s[1].start \in 1..TextEnd
        BY <1>2, <2>1
  <2>3. CASE k = 0
        BY <1>0, <2>1, <2>2, <2>3
  <2>4. CASE k # 0
    <3>1. k \in 1..(Len(s) - 1)
          BY <1>1, <1>5, <2>4
    <3>2. s[1].start < s[k].end /\ s[k].end = s[k + 1].start
          BY <1>3, <1>5, <2>4, <3>1
    <3>3. s[1].start < s[k + 1].end
          BY <1>0, <2>2, <3>2
    <3> QED BY <2>1, <3>3
  <2> QED BY <2>3, <2>4
<1>6. \A k \in 0..Len(s) : k \in S
  <2>1. \A k \in 0..Len(s) : k \in S /\ k < Len(s) => k + 1 \in S
        BY <1>5
  <2> HIDE DEF S
  <2> QED BY <1>1, <1>4, <2>1, UpTo
<1>7. 1 \in 1..Len(s) /\ Len(s) \in 1..Len(s) /\ Len(s) \in 0..Len(s) /\ Len(s) # 0
      BY <1>1
<1>8. s[1].start < s[Len(s)].end
      BY <1>6, <1>7
<1>9. s[1].start = a /\ s[Len(s)].end = z
      BY DEF Tile
<1> QED BY <1>2, <1>7, <1>8, <1>9

\* The chunk that is made of the blocks filled.
LEMMA PlannedFacts ==
    ASSUME ChunkingTypeOK, LoopsTile, phase = "pack", current # <<>>
    PROVE  \E c \in ChunkPlans :
               /\ Planned(current) = Append(chunks, c)
               /\ c.base = current[1].start /\ c.end = current[Len(current)].end
               /\ c.base < c.end /\ c.start <= c.base
               /\ chunks = <<>> => c.start = c.base
               /\ chunks # <<>> =>
                      /\ chunks[Len(chunks)].start <= c.start
                      /\ chunks[Len(chunks)].end = c.base
               /\ c.start = c.base
                  \/ /\ Tokens(c.start, c.end) <= config.max
                     /\ Tokens(c.start + 1, c.base) < config.overlap
                     /\ \/ Tokens(c.start, c.base) >= config.overlap
                        \/ WordsFrom(chunks[Len(chunks)].start, c.start) = {}
               /\ \E m \in 1..Len(current) :
                      /\ c.path = current[m].path
                      /\ current[1].kind # "blank" => m = 1
<1> DEFINE base == current[1].start
           end == current[Len(current)].end
           n == Len(current)
<1>1. /\ lines \in Seq(LineTypes) /\ config \in Configs /\ chunks \in Seq(ChunkPlans)
      /\ current \in Seq(Blocks) /\ TextEnd \in Nat
      BY OffsetFacts DEF ChunkingTypeOK
<1>2. n \in Nat \ {0}
      BY <1>1, EmptySeq
<1>3. Tile(current, base, StartOf(blocks, TextEnd))
      BY DEF LoopsTile, StartOf
<1>4. base \in 1..TextEnd /\ end \in 1..TextEnd /\ base < end
  <2>1. end = StartOf(blocks, TextEnd)
        BY <1>3 DEF Tile
  <2> QED BY <1>1, <1>3, <2>1, TileGrows
<1>5. ASSUME chunks # <<>>
      PROVE  /\ Last(chunks) = chunks[Len(chunks)]
             /\ Last(chunks).start \in 1..TextEnd /\ Last(chunks).start <= base
             /\ Last(chunks).end = base
  <2>1. Len(chunks) \in 1..Len(chunks)
        BY <1>1, <1>5, EmptySeq
  <2>2. Last(chunks) = chunks[Len(chunks)]
        BY DEF Last
  <2>3. chunks[Len(chunks)] \in ChunkPlans
        BY <1>1, <2>1, ElementOfSeq
  <2>4. ChunksTile(base)
        BY DEF LoopsTile, StartOf
  <2>5. /\ chunks[Len(chunks)].end = base
        /\ chunks[Len(chunks)].start <= chunks[Len(chunks)].base
        /\ chunks[Len(chunks)].base < chunks[Len(chunks)].end
        BY <1>5, <2>1, <2>4 DEF ChunksTile
  <2>6. /\ chunks[Len(chunks)].start \in 1..TextEnd /\ chunks[Len(chunks)].base \in 1..TextEnd
        /\ chunks[Len(chunks)].end \in 1..TextEnd
        BY <2>3 DEF ChunkPlans
  <2>7. chunks[Len(chunks)].start <= base
        BY <1>1, <2>5, <2>6
  <2> QED BY <2>2, <2>5, <2>6, <2>7
<1>6. PICK m \in 1..n : FirstNonBlank(current) = current[m]
                        /\ (current[1].kind # "blank" => m = 1)
  <2> DEFINE marked == {i \in DOMAIN current : current[i].kind # "blank"}
  <2>1. DOMAIN current = 1..n
        BY <1>1, LenProperties
  <2>2. CASE marked = {}
    <3>1. FirstNonBlank(current) = current[1]
          BY <2>2 DEF FirstNonBlank
    <3>2. 1 \in 1..n
          BY <1>2
    <3> QED BY <3>1, <3>2
  <2>3. CASE marked # {}
    <3>1. FirstNonBlank(current) = current[Least(marked)]
          BY <2>3 DEF FirstNonBlank
    <3>2. marked \in SUBSET Nat /\ marked \subseteq 1..n
          BY <2>1
    <3>3. Least(marked) \in marked /\ \A y \in marked : Least(marked) <= y
          BY <2>3, <3>2, LeastFacts
    <3>4. current[1].kind # "blank" => 1 \in marked
          BY <1>2, <2>1
    <3> HIDE DEF marked
    <3>5. ASSUME current[1].kind # "blank" PROVE Least(marked) = 1
      <4>1. Least(marked) <= 1
            BY <3>3, <3>4, <3>5
      <4>2. Least(marked) \in 1..n
            BY <3>2, <3>3
      <4> QED BY <1>2, <4>1, <4>2
    <3> QED BY <3>1, <3>2, <3>3, <3>5
  <2> QED BY <2>2, <2>3
<1> DEFINE s == OverlapStart(base, end)
           plan == [start |-> s, base |-> base, end |-> end, path |-> current[m].path]
<1>7. Planned(current) = Append(chunks, plan)
      BY <1>6 DEF Planned, Last
<1>8. /\ chunks = <<>> => s = base
      /\ chunks # <<>> => s \in Last(chunks).start..base
      /\ s = base
         \/ /\ Tokens(s, end) <= config.max
            /\ Tokens(s + 1, base) < config.overlap
            /\ \/ Tokens(s, base) >= config.overlap
               \/ WordsFrom(Last(chunks).start, s) = {}
  <2> HIDE DEF base, end, s
  <2>1. base <= end
        BY <1>1, <1>4
  <2>2. chunks # <<>> => Last(chunks).start \in 1..TextEnd /\ Last(chunks).start <= base
        BY <1>5
  <2> QED BY <1>1, <1>4, <2>1, <2>2, OverlapFacts DEF s
<1> HIDE DEF base, end, s
<1>9. s \in 1..TextEnd /\ s <= base
      BY <1>1, <1>4, <1>5, <1>8
<1>10. chunks # <<>> => chunks[Len(chunks)].start <= s
       BY <1>1, <1>4, <1>5, <1>8
<1>11. current[m].path \in Seq(DOMAIN lines)
  <2>1. current[m] \in Blocks
        BY <1>1, <1>6, ElementOfSeq
  <2> QED BY <2>1 DEF Blocks
<1>12. plan \in ChunkPlans /\ plan.start = s /\ plan.base = base /\ plan.end = end
       /\ plan.path = current[m].path
       BY <1>4, <1>9, <1>11 DEF ChunkPlans
<1>13. base = current[1].start /\ end = current[Len(current)].end
       BY DEF base, end
<1> HIDE DEF plan
<1>14. s = base
       \/ /\ Tokens(s, end) <= config.max
          /\ Tokens(s + 1, base) < config.overlap
          /\ \/ Tokens(s, base) >= config.overlap
             \/ WordsFrom(chunks[Len(chunks)].start, s) = {}
  <2>1. chunks # <<>> => Last(chunks) = chunks[Len(chunks)]
        BY <1>5
  <2>2. s # base => chunks # <<>>
        BY <1>8
  <2> QED BY <1>8, <2>1, <2>2
<1>15. \E i \in 1..Len(current) : /\ plan.path = current[i].path
                                  /\ current[1].kind # "blank" => i = 1
       BY <1>6, <1>12
<1>16. chunks # <<>> => chunks[Len(chunks)].end = base
       BY <1>5
<1>17. base < end /\ (chunks = <<>> => s = base)
       BY <1>4, <1>8
<1> QED BY <1>7, <1>9, <1>10, <1>12, <1>13, <1>14, <1>15, <1>16, <1>17

LEMMA ChunksAppend ==
    ASSUME NEW plans, chunks \in Seq(plans), NEW c \in plans,
           ChunksTile(c.base), c.base < c.end, c.start <= c.base,
           chunks = <<>> => c.start = c.base,
           chunks # <<>> => chunks[Len(chunks)].start <= c.start,
           chunks' = Append(chunks, c)
    PROVE  ChunksTile(c.end)'
<1> DEFINE n == Len(chunks)
<1>1. n \in Nat /\ (chunks # <<>> => n # 0) /\ (chunks = <<>> => n = 0)
      BY LenProperties, EmptySeq
<1>2. /\ chunks' # <<>> /\ Len(chunks') = n + 1 /\ chunks'[n + 1] = c
      /\ \A i \in 1..n : chunks'[i] = chunks[i]
      BY AppendProperties
<1>3. chunks'[1].start = 1 /\ chunks'[1].base = 1
  <2>1. CASE chunks = <<>>
        BY <1>1, <1>2, <2>1 DEF ChunksTile
  <2>2. CASE chunks # <<>>
    <3>1. 1 \in 1..n
          BY <1>1, <2>2
    <3> QED BY <1>2, <2>2, <3>1 DEF ChunksTile
  <2> QED BY <2>1, <2>2
<1>4. ASSUME NEW i \in 1..(n + 1)
      PROVE  chunks'[i].start <= chunks'[i].base /\ chunks'[i].base < chunks'[i].end
  <2>1. CASE i = n + 1
        BY <1>2, <2>1
  <2>2. CASE i # n + 1
    <3>1. i \in 1..n
          BY <1>1, <2>2
    <3> QED BY <1>2, <3>1 DEF ChunksTile
  <2> QED BY <2>1, <2>2
<1>5. ASSUME NEW i \in 1..n
      PROVE  /\ chunks'[i].end = chunks'[i + 1].base
             /\ chunks'[i].start <= chunks'[i + 1].start
  <2>1. CASE i = n
    <3>1. chunks # <<>>
          BY <1>1, <2>1
    <3>2. chunks[n].end = c.base
          BY <3>1 DEF ChunksTile
    <3> QED BY <1>2, <2>1, <3>1, <3>2
  <2>2. CASE i # n
    <3>1. i \in 1..(n - 1) /\ i + 1 \in 1..n
          BY <1>1, <2>2
    <3>2. chunks[i].end = chunks[i + 1].base /\ chunks[i].start <= chunks[i + 1].start
          BY <3>1 DEF ChunksTile
    <3> QED BY <1>2, <3>1, <3>2
  <2> QED BY <2>1, <2>2
<1>6. (n + 1) - 1 = n
      BY <1>1
<1> QED BY <1>2, <1>3, <1>4, <1>5, <1>6 DEF ChunksTile

\* The next word of a span and the white space after it.
LEMMA WordEndFacts ==
    ASSUME lines \in Seq(LineTypes), NEW a \in 1..TextEnd, NEW b \in 1..TextEnd,
           WordsFrom(a, b) # {}
    PROVE  /\ WordEnd(a, b) \in (a + 1)..b
           /\ \E p \in a..WordEnd(a, b) : WordsFrom(a, WordEnd(a, b)) = {p}
           /\ WordEnd(a, b) < b => WordsFrom(WordEnd(a, b), b) # {}
<1> DEFINE words == WordsFrom(a, b)
           w == Least(words)
           later == words \ {w}
<1>0. TextEnd \in Nat
      BY OffsetFacts
<1>1. words \in SUBSET Nat /\ words # {} /\ words \subseteq a..(b - 1)
      /\ \A p \in a..(b - 1) : p \in words \/ ~(Text[p] > 0)
      BY DEF WordsFrom
<1>2. w \in words /\ \A y \in words : w <= y
      BY <1>1, LeastFacts
<1>3. WordEnd(a, b) = IF later = {} THEN b ELSE Least(later)
      BY DEF WordEnd
<1>4. \A p \in words : Text[p] > 0
      BY DEF WordsFrom
<1> HIDE DEF words, w
<1>5. w \in a..(b - 1) /\ w \in Nat
      BY <1>0, <1>1, <1>2
<1>6. PICK e \in (w + 1)..b : /\ WordEnd(a, b) = e
                              /\ \A y \in words : y < e => y = w
                              /\ e < b => e \in words
  <2>1. CASE later = {}
    <3>1. WordEnd(a, b) = b
          BY <1>3, <2>1
    <3>2. \A y \in words : y = w
          BY <2>1
    <3>3. b \in (w + 1)..b
          BY <1>0, <1>5
    <3>4. ~(b < b)
          BY <1>0
    <3> QED BY <3>1, <3>2, <3>3, <3>4
  <2>2. CASE later # {}
    <3>1. later \in SUBSET Nat
          BY <1>1
    <3> DEFINE e == Least(later)
    <3>2. e \in later /\ \A y \in later : e <= y
          BY <2>2, <3>1, LeastFacts
    <3>3. WordEnd(a, b) = e
          BY <1>3, <2>2
    <3> HIDE DEF e
    <3>4. e \in words /\ e # w /\ w <= e /\ e \in Nat
          BY <1>1, <1>2, <3>2
    <3>5. e \in (w + 1)..b
          BY <1>0, <1>1, <1>5, <3>4
    <3>6. ASSUME NEW y \in words, y < e PROVE y = w
      <4>1. y \in Nat
            BY <1>1
      <4>2. ~(e <= y)
            BY <3>4, <3>6, <4>1
      <4> QED BY <3>2, <4>2
    <3> QED BY <3>3, <3>4, <3>5, <3>6
  <2> QED BY <2>1, <2>2
<1>7. e \in (a + 1)..b /\ e \in Nat /\ w \in a..e /\ w < e
      BY <1>0, <1>5, <1>6
<1>8. WordsFrom(a, e) = {w}
  <2>1. ASSUME NEW y \in WordsFrom(a, e) PROVE y = w
    <3>1. y \in a..(e - 1) /\ Text[y] > 0
          BY DEF WordsFrom
    <3>2. y \in a..(b - 1) /\ y < e
          BY <1>0, <1>7, <3>1
    <3>3. y \in words
          BY <1>1, <3>1, <3>2
    <3> QED BY <1>6, <3>2, <3>3
  <2>2. w \in WordsFrom(a, e)
    <3>1. w \in a..(e - 1)
          BY <1>0, <1>7
    <3> QED BY <1>2, <1>4, <3>1 DEF WordsFrom
  <2> QED BY <2>1, <2>2
<1>9. ASSUME e < b PROVE WordsFrom(e, b) # {}
  <2>1. e \in words /\ e \in e..(b - 1)
        BY <1>0, <1>6, <1>7, <1>9
  <2>2. e \in WordsFrom(e, b)
        BY <1>4, <2>1 DEF WordsFrom
  <2> QED BY <2>2
<1> QED BY <1>6, <1>7, <1>8, <1>9

\* The part of a block that is being cut.
LEMMA CutFacts ==
    ASSUME ChunkingTypeOK, LoopsTile, phase = "cut"
    PROVE  /\ Head(blocks) = blocks[1] /\ blocks[1] \in Blocks
           /\ cut.start \in 1..TextEnd /\ cut.end \in 1..TextEnd /\ cut.start <= cut.end
           /\ cut.end <= blocks[1].end
           /\ CutPart.start = cut.start /\ CutPart.end = cut.end
           /\ CutPart.kind = blocks[1].kind /\ CutPart.path = blocks[1].path
           /\ cut.start < cut.end => CutPart \in Blocks
<1>1. TextEnd \in Nat /\ blocks \in Seq(Blocks) /\ blocks # <<>>
      /\ cut \in [start : 0..TextEnd, end : 0..TextEnd]
      /\ cut.start \in 0..TextEnd /\ cut.end \in 0..TextEnd
      BY OffsetFacts DEF ChunkingTypeOK, LoopsTile
<1>2. Head(blocks) = blocks[1] /\ blocks[1] \in Blocks
  <2>1. 1 \in 1..Len(blocks)
        BY <1>1, EmptySeq
  <2> QED BY <1>1, <2>1, ElementOfSeq, HeadTailProperties
<1>3. /\ blocks[1].start \in 1..TextEnd /\ blocks[1].end \in 1..TextEnd
      /\ blocks[1].kind \in {"blank", "heading", "content"} /\ blocks[1].path \in Seq(DOMAIN lines)
      /\ blocks[1] \in [start : 1..TextEnd, end : 1..TextEnd,
                        kind : {"blank", "heading", "content"}, path : Seq(DOMAIN lines)]
      BY <1>2 DEF Blocks
<1>4. /\ blocks[1].start <= cut.start /\ cut.end <= blocks[1].end
      /\ cut.start < cut.end \/ cut.start = cut.end
      BY DEF LoopsTile
<1>5. /\ cut.start \in 1..TextEnd /\ cut.end \in 1..TextEnd /\ cut.start <= cut.end
      BY <1>1, <1>3, <1>4
<1>6. CutPart = [blocks[1] EXCEPT !.start = cut.start, !.end = cut.end]
      BY <1>2 DEF CutPart
<1>7. /\ CutPart \in [start : 1..TextEnd, end : 1..TextEnd,
                      kind : {"blank", "heading", "content"}, path : Seq(DOMAIN lines)]
      /\ CutPart.start = cut.start /\ CutPart.end = cut.end
      /\ CutPart.kind = blocks[1].kind /\ CutPart.path = blocks[1].path
      BY <1>3, <1>5, <1>6
<1>8. cut.start < cut.end => CutPart \in Blocks
      BY <1>7 DEF Blocks
<1> QED BY <1>2, <1>4, <1>5, <1>7, <1>8

TileInv == ChunkingTypeOK /\ LoopsTile /\ lines # <<>>

LEMMA ParseTiles == ASSUME TileInv, ParseBlock PROVE TileInv'
<1> USE DEF TileInv
<1>1. /\ lines' = lines /\ config' = config /\ phase = "parse" /\ phase' = "parse"
      /\ cut' = cut /\ parts' = parts /\ current' = current /\ chunks' = chunks
      BY DEF ParseBlock
<1>2. TextEnd' = TextEnd /\ Blocks' = Blocks /\ ChunkPlans' = ChunkPlans
      /\ \A i : Offset(i)' = Offset(i)
      BY <1>1, SameText
<1>3. PICK b \in Blocks :
          blocks' = Append(blocks, b) /\ b.start = Offset(index) /\ b.end = Offset(index')
      BY ParseFacts
<1>4. index' \in 1..(Len(lines) + 1) /\ path' \in Seq(DOMAIN lines)
  <2>1. index' \in (index + 1)..(Len(lines) + 1) /\ index \in 1..Len(lines)
        BY ParseFacts
  <2>2. Len(lines) \in Nat
        BY LenProperties DEF ChunkingTypeOK
  <2> QED BY <2>1, <2>2, ParseFacts
<1>5. blocks' \in Seq(Blocks)
      BY <1>3, AppendProperties DEF ChunkingTypeOK
<1>6. ChunkingTypeOK'
      BY <1>1, <1>2, <1>4, <1>5 DEF ChunkingTypeOK
<1>7. Tile(blocks', 1, Offset(index'))
      BY <1>1, <1>3, TileAppend DEF LoopsTile, ChunkingTypeOK
<1>8. LoopsTile'
      BY <1>1, <1>2, <1>7 DEF LoopsTile
<1> QED BY <1>1, <1>6, <1>8

LEMMA EndTiles == ASSUME TileInv, EndOfText PROVE TileInv'
<1> USE DEF TileInv
<1>1. /\ lines' = lines /\ config' = config /\ phase = "parse" /\ phase' = "split"
      /\ cut' = cut /\ parts' = parts /\ current' = current /\ chunks' = chunks
      /\ blocks' = blocks /\ index' = index /\ path' = path /\ index > Len(lines)
      BY DEF EndOfText
<1>2. TextEnd' = TextEnd /\ Blocks' = Blocks /\ ChunkPlans' = ChunkPlans
      BY <1>1, SameText
<1>3. ChunkingTypeOK'
      BY <1>1, <1>2 DEF ChunkingTypeOK
<1>4. /\ lines \in Seq(LineTypes) /\ Len(lines) \in Nat \ {0} /\ index = Len(lines) + 1
      /\ TextEnd \in Nat /\ Offset(index) = TextEnd /\ Offset(1) < TextEnd /\ Offset(1) = 1
  <2>1. lines \in Seq(LineTypes) /\ Len(lines) \in Nat \ {0}
        BY EmptySeq DEF ChunkingTypeOK
  <2>2. index = Len(lines) + 1
        BY <1>1, <2>1 DEF ChunkingTypeOK
  <2>3. 1 \in 1..(Len(lines) + 1) /\ Len(lines) + 1 \in 1..(Len(lines) + 1) /\ 1 < Len(lines) + 1
        BY <2>1
  <2> QED BY <2>1, <2>2, <2>3, OffsetFacts
<1>5. Tile(blocks, 1, TextEnd)
      BY <1>1, <1>4 DEF LoopsTile
<1>6. blocks # <<>> /\ StartOf(blocks, TextEnd) = 1
      BY <1>4, <1>5 DEF Tile, StartOf
<1>7. Tile(parts, 1, 1) /\ parts = <<>> /\ current = <<>> /\ chunks = <<>>
  <2>1. parts = <<>> /\ current = <<>> /\ chunks = <<>>
        BY <1>1 DEF LoopsTile
  <2>2. Len(<<>>) = 0
        BY EmptySeq
  <2> QED BY <2>1, <2>2 DEF Tile
<1>8. LoopsTile'
      BY <1>1, <1>2, <1>5, <1>6, <1>7 DEF LoopsTile
<1> QED BY <1>1, <1>3, <1>8

LEMMA KeepTiles == ASSUME TileInv, KeepBlock PROVE TileInv'
<1> USE DEF TileInv
<1>1. /\ lines' = lines /\ config' = config /\ phase = "split" /\ phase' = "split"
      /\ cut' = cut /\ current' = current /\ chunks' = chunks
      /\ index' = index /\ path' = path
      /\ blocks # <<>> /\ blocks' = Tail(blocks) /\ parts' = Append(parts, Head(blocks))
      BY DEF KeepBlock
<1>2. TextEnd' = TextEnd /\ Blocks' = Blocks /\ ChunkPlans' = ChunkPlans
      BY <1>1, SameText
<1>3. blocks \in Seq(Blocks) /\ parts \in Seq(Blocks)
      BY DEF ChunkingTypeOK
<1>4. /\ Tile(parts, 1, blocks[1].start) /\ Tile(blocks, blocks[1].start, TextEnd)
      /\ current = <<>> /\ chunks = <<>>
      BY <1>1 DEF LoopsTile, StartOf
<1>5. /\ Head(blocks) = blocks[1] /\ blocks[1] \in Blocks /\ Tail(blocks) \in Seq(Blocks)
      /\ Tile(Tail(blocks), blocks[1].end, TextEnd)
      /\ StartOf(Tail(blocks), TextEnd) = blocks[1].end
      BY <1>1, <1>3, <1>4, TileTail
<1>6. Tile(parts', 1, blocks[1].end) /\ parts' \in Seq(Blocks) /\ parts' # <<>>
  <2>1. parts' = Append(parts, blocks[1])
        BY <1>1, <1>5
  <2>2. Tile(Append(parts, blocks[1]), 1, blocks[1].end)
        BY <1>3, <1>4, <1>5, TileAppend
  <2> QED BY <1>3, <1>5, <2>1, <2>2, AppendProperties
<1>7. ChunkingTypeOK'
      BY <1>1, <1>2, <1>5, <1>6 DEF ChunkingTypeOK
<1>8. LoopsTile'
      BY <1>1, <1>2, <1>4, <1>5, <1>6 DEF LoopsTile
<1> QED BY <1>1, <1>7, <1>8

LEMMA StartCutTiles == ASSUME TileInv, StartCut PROVE TileInv'
<1> USE DEF TileInv
<1>1. /\ lines' = lines /\ config' = config /\ phase = "split" /\ phase' = "cut"
      /\ current' = current /\ chunks' = chunks /\ parts' = parts
      /\ index' = index /\ path' = path
      /\ blocks # <<>> /\ blocks' = blocks
      /\ cut' = [start |-> Head(blocks).start, end |-> Head(blocks).start]
      BY DEF StartCut
<1>2. TextEnd' = TextEnd /\ Blocks' = Blocks /\ ChunkPlans' = ChunkPlans
      BY <1>1, SameText
<1>3. blocks \in Seq(Blocks) /\ parts \in Seq(Blocks) /\ TextEnd \in Nat
      BY OffsetFacts DEF ChunkingTypeOK
<1>4. /\ Tile(parts, 1, blocks[1].start) /\ Tile(blocks, blocks[1].start, TextEnd)
      /\ current = <<>> /\ chunks = <<>>
      BY <1>1 DEF LoopsTile, StartOf
<1>5. Head(blocks) = blocks[1] /\ blocks[1] \in Blocks
      BY <1>1, <1>3, <1>4, TileTail
<1>6. /\ blocks[1].start \in 1..TextEnd /\ blocks[1].end \in 1..TextEnd
      /\ blocks[1].start < blocks[1].end
      BY <1>5 DEF Blocks
<1>7. /\ cut'.start = blocks[1].start /\ cut'.end = blocks[1].start
      /\ cut' \in [start : 0..TextEnd, end : 0..TextEnd]
      BY <1>1, <1>3, <1>5, <1>6
<1>8. ChunkingTypeOK'
      BY <1>1, <1>2, <1>7 DEF ChunkingTypeOK
<1>9. blocks[1].start <= blocks[1].start /\ blocks[1].start <= blocks[1].end
      BY <1>3, <1>6
<1>10. LoopsTile'
       BY <1>1, <1>2, <1>4, <1>7, <1>9 DEF LoopsTile
<1> QED BY <1>1, <1>8, <1>10

LEMMA CutTiles == ASSUME TileInv, LoopsFit, CutWord PROVE TileInv'
<1> USE DEF TileInv
<1> DEFINE wordEnd == WordEnd(cut.end, Head(blocks).end)
           full == cut.end > cut.start /\ Tokens(cut.start, wordEnd) > config.target
<1>1. /\ lines' = lines /\ config' = config /\ phase = "cut" /\ phase' = "cut"
      /\ current' = current /\ chunks' = chunks
      /\ index' = index /\ path' = path /\ blocks' = blocks
      /\ cut.end < Head(blocks).end
      /\ parts' = (IF full THEN Append(parts, CutPart) ELSE parts)
      /\ cut' = [start |-> IF full THEN cut.end ELSE cut.start, end |-> wordEnd]
      BY DEF CutWord
<1>2. TextEnd' = TextEnd /\ Blocks' = Blocks /\ ChunkPlans' = ChunkPlans
      BY <1>1, SameText
<1>3. /\ blocks \in Seq(Blocks) /\ parts \in Seq(Blocks) /\ TextEnd \in Nat
      /\ lines \in Seq(LineTypes)
      BY OffsetFacts DEF ChunkingTypeOK
<1>4. /\ Tile(parts, 1, cut.start) /\ Tile(blocks, blocks[1].start, TextEnd)
      /\ current = <<>> /\ chunks = <<>> /\ blocks # <<>>
      /\ blocks[1].start <= cut.start
      BY <1>1 DEF LoopsTile
<1>5. /\ Head(blocks) = blocks[1] /\ blocks[1] \in Blocks
      /\ cut.start \in 1..TextEnd /\ cut.end \in 1..TextEnd /\ cut.start <= cut.end
      /\ CutPart.start = cut.start /\ CutPart.end = cut.end
      /\ cut.start < cut.end => CutPart \in Blocks
      BY <1>1, CutFacts
<1>6. blocks[1].start \in 1..TextEnd /\ blocks[1].end \in 1..TextEnd
      BY <1>5 DEF Blocks
<1>7. WordsFrom(cut.end, blocks[1].end) # {}
      BY <1>1, <1>5 DEF LoopsFit
<1>8. wordEnd \in (cut.end + 1)..blocks[1].end
      BY <1>3, <1>5, <1>6, <1>7, WordEndFacts
<1> HIDE DEF wordEnd
<1>9. wordEnd \in 1..TextEnd /\ cut.end < wordEnd /\ wordEnd <= blocks[1].end /\ wordEnd \in 0..TextEnd
      BY <1>3, <1>5, <1>6, <1>8
<1>10. CASE full
  <2>1. cut.start < cut.end /\ CutPart \in Blocks
        BY <1>5, <1>10
  <2>2. Tile(parts', 1, cut.end) /\ parts' \in Seq(Blocks)
        BY <1>1, <1>3, <1>4, <1>5, <1>10, <2>1, TileAppend, AppendProperties
  <2>3. cut' = [start |-> cut.end, end |-> wordEnd]
        BY <1>1, <1>10
  <2>4. cut'.start = cut.end /\ cut'.end = wordEnd /\ cut' \in [start : 0..TextEnd, end : 0..TextEnd]
        BY <1>3, <1>5, <1>9, <2>3
  <2>5. ChunkingTypeOK'
        BY <1>1, <1>2, <2>2, <2>4 DEF ChunkingTypeOK
  <2>6. blocks[1].start <= cut.end
        BY <1>4, <1>5, <1>6, <2>1
  <2>7. LoopsTile'
        BY <1>1, <1>2, <1>4, <1>9, <2>2, <2>4, <2>6 DEF LoopsTile
  <2> QED BY <1>1, <2>5, <2>7
<1>11. CASE ~full
  <2>1. parts' = parts /\ cut' = [start |-> cut.start, end |-> wordEnd]
        BY <1>1, <1>11
  <2>2. cut'.start = cut.start /\ cut'.end = wordEnd /\ cut' \in [start : 0..TextEnd, end : 0..TextEnd]
        BY <1>3, <1>5, <1>9, <2>1
  <2>3. ChunkingTypeOK'
        BY <1>1, <1>2, <2>1, <2>2 DEF ChunkingTypeOK
  <2>4. cut.start < wordEnd
        BY <1>5, <1>9
  <2>5. LoopsTile'
        BY <1>1, <1>2, <1>4, <1>9, <2>1, <2>2, <2>4 DEF LoopsTile
  <2> QED BY <1>1, <2>3, <2>5
<1> QED BY <1>10, <1>11

LEMMA LastCutTiles == ASSUME TileInv, LastCut PROVE TileInv'
<1> USE DEF TileInv
<1>1. /\ lines' = lines /\ config' = config /\ phase = "cut" /\ phase' = "split"
      /\ cut' = NoCut /\ current' = current /\ chunks' = chunks
      /\ index' = index /\ path' = path /\ cut.end = Head(blocks).end
      /\ blocks' = Tail(blocks) /\ parts' = Append(parts, CutPart)
      BY DEF LastCut
<1>2. TextEnd' = TextEnd /\ Blocks' = Blocks /\ ChunkPlans' = ChunkPlans
      BY <1>1, SameText
<1>3. /\ blocks \in Seq(Blocks) /\ parts \in Seq(Blocks) /\ TextEnd \in Nat
      BY OffsetFacts DEF ChunkingTypeOK
<1>4. /\ Tile(parts, 1, cut.start) /\ Tile(blocks, blocks[1].start, TextEnd)
      /\ current = <<>> /\ chunks = <<>> /\ blocks # <<>>
      /\ cut.start < cut.end \/ cut.end = blocks[1].start
      BY <1>1 DEF LoopsTile
<1>5. /\ Head(blocks) = blocks[1] /\ blocks[1] \in Blocks
      /\ CutPart.start = cut.start /\ CutPart.end = cut.end
      /\ cut.start < cut.end => CutPart \in Blocks
      BY <1>1, CutFacts
<1>6. blocks[1].start < blocks[1].end /\ blocks[1].start \in 1..TextEnd /\ blocks[1].end \in 1..TextEnd
      BY <1>5 DEF Blocks
<1>7. CutPart \in Blocks /\ cut.end = blocks[1].end
      BY <1>1, <1>4, <1>5, <1>6
<1>8. /\ Tail(blocks) \in Seq(Blocks)
      /\ Tile(Tail(blocks), blocks[1].end, TextEnd)
      /\ StartOf(Tail(blocks), TextEnd) = blocks[1].end
      BY <1>1, <1>3, <1>4, TileTail
<1>9. Tile(parts', 1, blocks[1].end) /\ parts' \in Seq(Blocks) /\ parts' # <<>>
  <2> DEFINE b == CutPart
  <2>1. /\ b \in Blocks /\ b.start = cut.start /\ b.end = blocks[1].end
        /\ parts \in Seq(Blocks) /\ Tile(parts, 1, b.start) /\ parts' = Append(parts, b)
        BY <1>1, <1>3, <1>4, <1>5, <1>7
  <2> HIDE DEF b
  <2>2. Tile(Append(parts, b), 1, b.end)
        BY <2>1, TileAppend, Zenon
  <2>3. Append(parts, b) \in Seq(Blocks) /\ Append(parts, b) # <<>>
        BY <2>1, AppendProperties
  <2> QED BY <2>1, <2>2, <2>3
<1>10. NoCut \in [start : 0..TextEnd, end : 0..TextEnd]
       BY <1>3 DEF NoCut
<1>11. ChunkingTypeOK'
       BY <1>1, <1>2, <1>8, <1>9, <1>10 DEF ChunkingTypeOK
<1>12. LoopsTile'
       BY <1>1, <1>2, <1>4, <1>8, <1>9 DEF LoopsTile
<1> QED BY <1>1, <1>11, <1>12

LEMMA AllSplitTiles == ASSUME TileInv, AllSplit PROVE TileInv'
<1> USE DEF TileInv
<1>1. /\ lines' = lines /\ config' = config /\ phase = "split" /\ phase' = "pack"
      /\ cut' = cut /\ current' = current /\ chunks' = chunks
      /\ index' = index /\ path' = path
      /\ blocks = <<>> /\ blocks' = parts /\ parts' = <<>>
      BY DEF AllSplit
<1>2. TextEnd' = TextEnd /\ Blocks' = Blocks /\ ChunkPlans' = ChunkPlans
      BY <1>1, SameText
<1>3. /\ Tile(parts, 1, TextEnd) /\ parts # <<>> /\ current = <<>> /\ chunks = <<>>
      BY <1>1 DEF LoopsTile, StartOf
<1>4. StartOf(parts, TextEnd) = 1 /\ StartOf(<<>>, 1) = 1
      BY <1>3 DEF StartOf, Tile
<1>5. Tile(<<>>, 1, 1) /\ ChunksTile(1)
  <2>1. Len(<<>>) = 0
        BY EmptySeq
  <2> QED BY <1>3, <2>1 DEF Tile, ChunksTile
<1>6. ChunkingTypeOK'
  <2>1. <<>> \in Seq(Blocks)
        BY EmptySeq
  <2> QED BY <1>1, <1>2, <2>1 DEF ChunkingTypeOK
<1>7. ChunksTile(1)'
      BY <1>1, <1>5 DEF ChunksTile
<1>8. LoopsTile'
      BY <1>1, <1>2, <1>3, <1>4, <1>5, <1>7 DEF LoopsTile
<1> QED BY <1>1, <1>6, <1>8

\* Wherever a block begins, the chunk before it ends.
LEMMA PackFacts ==
    ASSUME TileInv, phase = "pack"
    PROVE  /\ blocks \in Seq(Blocks) /\ current \in Seq(Blocks) /\ chunks \in Seq(ChunkPlans)
           /\ Tile(blocks, StartOf(blocks, TextEnd), TextEnd)
           /\ current # <<>> =>
                  /\ Tile(current, current[1].start, StartOf(blocks, TextEnd))
                  /\ current[Len(current)].end = StartOf(blocks, TextEnd)
                  /\ ChunksTile(current[1].start)
           /\ current = <<>> =>
                  /\ chunks = <<>> /\ blocks # <<>>
                  /\ ChunksTile(StartOf(blocks, TextEnd))
BY DEF TileInv, LoopsTile, StartOf, Tile, ChunkingTypeOK

\* What a chunk that was closed leaves behind.
LEMMA PlannedTiles ==
    ASSUME TileInv, phase = "pack", current # <<>>,
           lines' = lines, config' = config, chunks' = Planned(current)
    PROVE  /\ chunks' \in Seq(ChunkPlans) /\ chunks' # <<>>
           /\ \E z : z = StartOf(blocks, TextEnd) /\ ChunksTile(z)'
<1>1. PICK c \in ChunkPlans :
          /\ Planned(current) = Append(chunks, c)
          /\ c.base = current[1].start /\ c.end = current[Len(current)].end
          /\ c.base < c.end /\ c.start <= c.base
          /\ chunks = <<>> => c.start = c.base
          /\ chunks # <<>> => chunks[Len(chunks)].start <= c.start
      BY PlannedFacts DEF TileInv
<1>2. chunks \in Seq(ChunkPlans) /\ ChunksTile(c.base) /\ c.end = StartOf(blocks, TextEnd)
      BY <1>1, PackFacts
<1>3. ChunksTile(c.end)'
      BY <1>1, <1>2, ChunksAppend
<1>4. chunks' \in Seq(ChunkPlans) /\ chunks' # <<>>
      BY <1>1, <1>2, AppendProperties
<1> QED BY <1>2, <1>3, <1>4

LEMMA PackTiles == ASSUME TileInv, PackBlock PROVE TileInv'
<1> USE DEF TileInv
<1> DEFINE block == Head(blocks)
           full == /\ current # <<>>
                   /\ \/ block.kind = "heading"
                      \/ Tokens(current[1].start, block.end) > config.target
<1>1. /\ lines' = lines /\ config' = config /\ phase = "pack" /\ phase' = "pack"
      /\ cut' = cut /\ parts' = parts /\ index' = index /\ path' = path
      /\ blocks # <<>> /\ blocks' = Tail(blocks)
      /\ chunks' = (IF full THEN Planned(current) ELSE chunks)
      /\ current' = IF full THEN <<block>> ELSE Append(current, block)
      BY DEF PackBlock
<1>2. TextEnd' = TextEnd /\ Blocks' = Blocks /\ ChunkPlans' = ChunkPlans
      BY <1>1, SameText
<1>3. /\ blocks \in Seq(Blocks) /\ current \in Seq(Blocks) /\ chunks \in Seq(ChunkPlans)
      /\ StartOf(blocks, TextEnd) = blocks[1].start
      /\ Tile(blocks, blocks[1].start, TextEnd)
      BY <1>1, PackFacts DEF StartOf
<1>4. /\ block = blocks[1] /\ blocks[1] \in Blocks /\ Tail(blocks) \in Seq(Blocks)
      /\ Tile(Tail(blocks), blocks[1].end, TextEnd)
      /\ StartOf(Tail(blocks), TextEnd) = blocks[1].end
      BY <1>1, <1>3, TileTail
<1>5. CASE full
  <2>1. chunks' = Planned(current) /\ current' = <<blocks[1]>> /\ current # <<>>
        BY <1>1, <1>4, <1>5
  <2>2. PICK z : chunks' \in Seq(ChunkPlans) /\ z = StartOf(blocks, TextEnd) /\ ChunksTile(z)'
        BY <1>1, <2>1, PlannedTiles
  <2>3. /\ current' \in Seq(Blocks) /\ current' # <<>> /\ current'[1] = blocks[1]
        /\ Len(current') = 1
        BY <1>4, <2>1
  <2>4. Tile(current', blocks[1].start, blocks[1].end)
        BY <2>3 DEF Tile
  <2>5. StartOf(current', blocks[1].end) = blocks[1].start
        BY <2>3 DEF StartOf
  <2>6. ChunkingTypeOK'
        BY <1>1, <1>2, <1>4, <2>2, <2>3 DEF ChunkingTypeOK
  <2>7. /\ StartOf(blocks, TextEnd)' = blocks[1].end
        /\ StartOf(current, StartOf(blocks, TextEnd))' = z
        BY <1>1, <1>2, <1>3, <1>4, <2>2, <2>5
  <2>8. Tile(current', z, blocks[1].end)
        BY <1>3, <2>2, <2>4
  <2>9. LoopsTile'
        BY <1>1, <1>2, <1>4, <2>2, <2>3, <2>7, <2>8 DEF LoopsTile
  <2> QED BY <1>1, <2>6, <2>9
<1>6. CASE ~full
  <2>1. chunks' = chunks /\ current' = Append(current, blocks[1])
        BY <1>1, <1>4, <1>6
  <2>2. PICK z : /\ Tile(current, z, blocks[1].start)
                 /\ ChunksTile(z)
                 /\ StartOf(Append(current, blocks[1]), blocks[1].end) = z
    <3>1. /\ Append(current, blocks[1]) # <<>>
          /\ current # <<>> => Append(current, blocks[1])[1] = current[1]
          /\ current = <<>> => Append(current, blocks[1])[1] = blocks[1]
      <4>1. /\ Append(current, blocks[1]) # <<>>
            /\ Append(current, blocks[1])[Len(current) + 1] = blocks[1]
            /\ \A i \in 1..Len(current) : Append(current, blocks[1])[i] = current[i]
            BY <1>3, <1>4, AppendProperties
      <4>2. current # <<>> => 1 \in 1..Len(current)
            BY <1>3, EmptySeq
      <4>3. current = <<>> => Len(current) + 1 = 1
            BY EmptySeq
      <4> QED BY <4>1, <4>2, <4>3
    <3>2. CASE current # <<>>
      <4>1. StartOf(Append(current, blocks[1]), blocks[1].end) = current[1].start
            BY <3>1, <3>2 DEF StartOf
      <4> QED BY <1>1, <1>3, <3>2, <4>1, PackFacts
    <3>3. CASE current = <<>>
      <4>1. StartOf(Append(current, blocks[1]), blocks[1].end) = blocks[1].start
            BY <3>1, <3>3 DEF StartOf
      <4>2. Tile(current, blocks[1].start, blocks[1].start)
        <5>1. Len(<<>>) = 0
              BY EmptySeq
        <5> QED BY <3>3, <5>1 DEF Tile
      <4> QED BY <1>1, <1>3, <3>3, <4>1, <4>2, PackFacts
    <3> QED BY <3>2, <3>3
  <2>3. Tile(current', z, blocks[1].end) /\ current' \in Seq(Blocks) /\ current' # <<>>
    <3>1. Tile(Append(current, blocks[1]), z, blocks[1].end)
          BY <1>3, <1>4, <2>2, TileAppend
    <3> QED BY <1>3, <1>4, <2>1, <3>1, AppendProperties
  <2>4. ChunksTile(z)'
        BY <2>1, <2>2 DEF ChunksTile
  <2>5. ChunkingTypeOK'
        BY <1>1, <1>2, <1>4, <2>1, <2>3 DEF ChunkingTypeOK
  <2>6. /\ StartOf(blocks, TextEnd)' = blocks[1].end
        /\ StartOf(current, StartOf(blocks, TextEnd))' = z
        BY <1>1, <1>2, <1>4, <2>1, <2>2
  <2>7. LoopsTile'
        BY <1>1, <1>2, <1>4, <2>3, <2>4, <2>6 DEF LoopsTile
  <2> QED BY <1>1, <2>5, <2>7
<1> QED BY <1>5, <1>6

LEMMA LastTiles == ASSUME TileInv, LastBlock PROVE TileInv'
<1> USE DEF TileInv
<1>1. /\ lines' = lines /\ config' = config /\ phase = "pack" /\ phase' = "done"
      /\ cut' = cut /\ parts' = parts /\ index' = index /\ path' = path
      /\ blocks = <<>> /\ blocks' = blocks
      /\ chunks' = Planned(current) /\ current' = <<>>
      BY DEF LastBlock
<1>2. TextEnd' = TextEnd /\ Blocks' = Blocks /\ ChunkPlans' = ChunkPlans
      BY <1>1, SameText
<1>3. current # <<>> /\ StartOf(blocks, TextEnd) = TextEnd
      BY <1>1, PackFacts DEF StartOf
<1>4. PICK z : /\ chunks' \in Seq(ChunkPlans) /\ chunks' # <<>>
               /\ z = StartOf(blocks, TextEnd) /\ ChunksTile(z)'
      BY <1>1, <1>3, PlannedTiles
<1>5. ChunkingTypeOK'
  <2>1. <<>> \in Seq(Blocks)
        BY EmptySeq
  <2> QED BY <1>1, <1>2, <1>4, <2>1 DEF ChunkingTypeOK
<1>6. z = TextEnd'
      BY <1>2, <1>3, <1>4
<1>7. LoopsTile'
      BY <1>1, <1>4, <1>6 DEF LoopsTile
<1> QED BY <1>1, <1>5, <1>7

LEMMA InitTiles == ASSUME ChunkingInit PROVE TileInv
<1>1. PICK n \in 1..MaxLines : lines \in [1..n -> LineTypes]
      BY DEF ChunkingInit
<1>2. n \in Nat \ {0}
      BY <1>1
<1>3. lines \in Seq(LineTypes) /\ Len(lines) = n
      BY <1>1, <1>2
<1>4. lines # <<>>
      BY <1>2, <1>3, EmptySeq
<1>5. /\ phase = "parse" /\ index = 1 /\ path = <<>> /\ config \in Configs
      /\ blocks = <<>> /\ cut = NoCut /\ parts = <<>> /\ current = <<>> /\ chunks = <<>>
      BY DEF ChunkingInit
<1>6. TextEnd \in Nat /\ Offset(1) = 1
      BY <1>3, OffsetFacts
<1>7. ChunkingTypeOK
  <2>1. <<>> \in Seq(Blocks) /\ <<>> \in Seq(ChunkPlans) /\ <<>> \in Seq(DOMAIN lines)
        BY EmptySeq
  <2>2. NoCut \in [start : 0..TextEnd, end : 0..TextEnd]
        BY <1>6 DEF NoCut
  <2>3. 1 \in 1..(Len(lines) + 1)
        BY <1>2, <1>3
  <2> QED BY <1>3, <1>5, <2>1, <2>2, <2>3 DEF ChunkingTypeOK
<1>8. LoopsTile
  <2>1. Len(<<>>) = 0
        BY EmptySeq
  <2>2. Tile(<<>>, 1, 1)
        BY <2>1 DEF Tile
  <2> QED BY <1>5, <1>6, <2>2 DEF LoopsTile
<1> QED BY <1>4, <1>7, <1>8 DEF TileInv

LEMMA TileStep == ASSUME TileInv, LoopsFit, ChunkingNext PROVE TileInv'
BY ParseTiles, EndTiles, KeepTiles, StartCutTiles, CutTiles, LastCutTiles, AllSplitTiles,
   PackTiles, LastTiles DEF ChunkingNext

-----------------------------------------------------------------------------
(* Chunking: sizes and overlaps                                              *)

FitInv == TileInv /\ LoopsFit /\ FitsMaximum /\ OverlapIsLeast

LEMMA KeepsChunks ==
    ASSUME lines' = lines, config' = config, chunks' = chunks, FitsMaximum, OverlapIsLeast
    PROVE  FitsMaximum' /\ OverlapIsLeast'
<1>1. /\ \A a, b : Tokens(a, b)' = Tokens(a, b)
      /\ \A a, b : WordsFrom(a, b)' = WordsFrom(a, b)
      BY SameText
<1>2. FitsMaximum'
      BY <1>1 DEF FitsMaximum
<1>3. OverlapIsLeast'
      BY <1>1 DEF OverlapIsLeast
<1> QED BY <1>2, <1>3

LEMMA ConfigFacts ==
    ASSUME config \in Configs
    PROVE  config.target \in Nat /\ config.max \in Nat /\ config.overlap \in Nat
           /\ config.target <= config.max
BY ChunkingAssumption

LEMMA FitsAppend ==
    ASSUME NEW S, NEW s \in Seq(S), NEW b \in S,
           \A i \in 1..Len(s) : Fits(s[i].start, s[i].end), Fits(b.start, b.end)
    PROVE  \A i \in 1..Len(Append(s, b)) : Fits(Append(s, b)[i].start, Append(s, b)[i].end)
<1> DEFINE t == Append(s, b)
<1>1. /\ Len(s) \in Nat /\ Len(t) = Len(s) + 1 /\ t[Len(s) + 1] = b
      /\ \A i \in 1..Len(s) : t[i] = s[i]
      BY LenProperties, AppendProperties
<1> HIDE DEF t
<1>2. ASSUME NEW i \in 1..Len(t) PROVE Fits(t[i].start, t[i].end)
  <2>1. CASE i = Len(s) + 1
        BY <1>1, <2>1
  <2>2. CASE i # Len(s) + 1
    <3>1. i \in 1..Len(s)
          BY <1>1, <2>2
    <3> QED BY <1>1, <3>1
  <2> QED BY <2>1, <2>2
<1> QED BY <1>2 DEF t

\* The same text, sizes and blocks of a sequence fit as they did.
LEMMA StillFit ==
    ASSUME lines' = lines, config' = config,
           NEW s, \A i \in 1..Len(s) : Fits(s[i].start, s[i].end)
    PROVE  \A i \in 1..Len(s) : Fits(s[i].start, s[i].end)'
<1>1. \A a, b : Fits(a, b)' = Fits(a, b)
      BY SameText
<1> QED BY <1>1

LEMMA ParseFits == ASSUME FitInv, ParseBlock \/ EndOfText PROVE FitInv'
<1> USE DEF FitInv
<1>1. /\ lines' = lines /\ config' = config /\ parts' = parts /\ chunks' = chunks
      /\ phase' \in {"parse", "split"}
      BY DEF ParseBlock, EndOfText
<1>2. \A a, b : Fits(a, b)' = Fits(a, b)
      BY <1>1, SameText
<1>3. LoopsFit'
      BY <1>1, <1>2 DEF LoopsFit
<1> QED BY <1>1, <1>3, KeepsChunks, ParseTiles, EndTiles

LEMMA KeepFits == ASSUME FitInv, KeepBlock PROVE FitInv'
<1> USE DEF FitInv
<1>1. /\ lines' = lines /\ config' = config /\ chunks' = chunks /\ phase' = "split"
      /\ phase = "split" /\ blocks # <<>> /\ Whole(Head(blocks))
      /\ parts' = Append(parts, Head(blocks))
      BY DEF KeepBlock
<1>2. \A a, b : Fits(a, b)' = Fits(a, b)
      BY <1>1, SameText
<1>3. /\ lines \in Seq(LineTypes) /\ config \in Configs
      /\ blocks \in Seq(Blocks) /\ parts \in Seq(Blocks) /\ TextEnd \in Nat
      BY OffsetFacts DEF TileInv, ChunkingTypeOK
<1>4. PICK b \in Blocks : b = Head(blocks)
      BY <1>1, <1>3, HeadTailProperties
<1>5. b.start \in 1..TextEnd /\ b.end \in 1..TextEnd /\ b.start <= b.end
      BY <1>3 DEF Blocks
<1>6. Fits(b.start, b.end)
  <2>1. CASE Tokens(b.start, b.end) <= config.max
        BY <2>1 DEF Fits
  <2>2. CASE WordsFrom(b.start, b.end) = {}
    <3>1. Tokens(b.start, b.end) = 0
          BY <1>3, <1>5, <2>2, NoWords
    <3> QED BY <1>3, <3>1, ConfigFacts DEF Fits
  <2> QED BY <1>1, <1>4, <2>1, <2>2 DEF Whole
<1>7. \A i \in 1..Len(parts) : Fits(parts[i].start, parts[i].end)
      BY DEF LoopsFit
<1>8. \A i \in 1..Len(parts') : Fits(parts'[i].start, parts'[i].end)
  <2>1. parts' = Append(parts, b)
        BY <1>1, <1>4
  <2> QED BY <1>3, <1>6, <1>7, <2>1, FitsAppend
<1>9. LoopsFit'
      BY <1>1, <1>2, <1>8 DEF LoopsFit
<1> QED BY <1>1, <1>9, KeepsChunks, KeepTiles

LEMMA StartCutFits == ASSUME FitInv, StartCut PROVE FitInv'
<1> USE DEF FitInv
<1>1. /\ lines' = lines /\ config' = config /\ chunks' = chunks /\ phase' = "cut"
      /\ phase = "split" /\ blocks # <<>> /\ ~Whole(Head(blocks))
      /\ parts' = parts /\ blocks' = blocks
      /\ cut' = [start |-> Head(blocks).start, end |-> Head(blocks).start]
      BY DEF StartCut
<1>2. /\ \A a, b : Fits(a, b)' = Fits(a, b)
      /\ \A a, b : Tokens(a, b)' = Tokens(a, b)
      /\ \A a, b : WordsFrom(a, b)' = WordsFrom(a, b)
      BY <1>1, SameText
<1>3. /\ lines \in Seq(LineTypes) /\ config \in Configs
      /\ blocks \in Seq(Blocks) /\ TextEnd \in Nat
      BY OffsetFacts DEF TileInv, ChunkingTypeOK
<1>4. Head(blocks) = blocks[1] /\ blocks[1] \in Blocks
  <2>1. 1 \in 1..Len(blocks)
        BY <1>1, <1>3, EmptySeq
  <2> QED BY <1>1, <1>3, <2>1, ElementOfSeq, HeadTailProperties
<1>5. blocks[1].start \in 1..TextEnd
      BY <1>4 DEF Blocks
<1>6. Tokens(blocks[1].start, blocks[1].start) = 0
  <2>1. blocks[1].start <= blocks[1].start
        BY <1>3, <1>5
  <2> QED BY <1>3, <1>5, <2>1, TokensFacts
<1>7. WordsFrom(blocks[1].start, blocks[1].end) # {}
      BY <1>1, <1>4 DEF Whole
<1>8. Tokens(blocks[1].start, blocks[1].start) <= config.target
      BY <1>3, <1>6, ConfigFacts
<1>9. cut'.start = blocks[1].start /\ cut'.end = blocks[1].start
      BY <1>1, <1>4
<1>10. LoopsFit'
       BY <1>1, <1>2, <1>7, <1>8, <1>9 DEF LoopsFit
<1> QED BY <1>1, <1>10, KeepsChunks, StartCutTiles

LEMMA CutPartFits == ASSUME FitInv, phase = "cut" PROVE Fits(cut.start, cut.end)
<1>1. /\ lines \in Seq(LineTypes) /\ config \in Configs
      BY DEF FitInv, TileInv, ChunkingTypeOK
<1>2. cut.start \in 1..TextEnd /\ cut.end \in 1..TextEnd /\ cut.start <= cut.end
      BY CutFacts DEF FitInv, TileInv
<1>3. TextEnd \in Nat
      BY <1>1, OffsetFacts
<1>4. Tokens(cut.start, cut.end) \in Nat
  <2>1. cut.end <= cut.end
        BY <1>2, <1>3
  <2> QED BY <1>1, <1>2, <2>1, TokensFacts
<1>5. Tokens(cut.start, cut.end) <= config.target => Tokens(cut.start, cut.end) <= config.max
      BY <1>1, <1>4, ConfigFacts
<1> QED BY <1>5 DEF FitInv, LoopsFit, Fits

LEMMA CutFits == ASSUME FitInv, CutWord PROVE FitInv'
<1> USE DEF FitInv
<1> DEFINE wordEnd == WordEnd(cut.end, Head(blocks).end)
           full == cut.end > cut.start /\ Tokens(cut.start, wordEnd) > config.target
<1>1. /\ lines' = lines /\ config' = config /\ chunks' = chunks /\ phase' = "cut"
      /\ phase = "cut" /\ blocks' = blocks /\ cut.end < Head(blocks).end
      /\ parts' = (IF full THEN Append(parts, CutPart) ELSE parts)
      /\ cut' = [start |-> IF full THEN cut.end ELSE cut.start, end |-> wordEnd]
      BY DEF CutWord
<1>2. /\ \A a, b : Fits(a, b)' = Fits(a, b)
      /\ \A a, b : Tokens(a, b)' = Tokens(a, b)
      /\ \A a, b : WordsFrom(a, b)' = WordsFrom(a, b)
      BY <1>1, SameText
<1>3. /\ lines \in Seq(LineTypes) /\ config \in Configs
      /\ blocks \in Seq(Blocks) /\ parts \in Seq(Blocks) /\ TextEnd \in Nat
      BY OffsetFacts DEF TileInv, ChunkingTypeOK
<1>4. /\ Head(blocks) = blocks[1] /\ blocks[1] \in Blocks
      /\ cut.start \in 1..TextEnd /\ cut.end \in 1..TextEnd /\ cut.start <= cut.end
      /\ CutPart.start = cut.start /\ CutPart.end = cut.end
      /\ cut.start < cut.end => CutPart \in Blocks
      BY <1>1, CutFacts DEF TileInv
<1>5. blocks[1].start \in 1..TextEnd /\ blocks[1].end \in 1..TextEnd
      BY <1>4 DEF Blocks
<1>6. WordsFrom(cut.end, blocks[1].end) # {}
      BY <1>1, <1>4 DEF LoopsFit
<1>7. /\ wordEnd \in (cut.end + 1)..blocks[1].end
      /\ \E p \in cut.end..wordEnd : WordsFrom(cut.end, wordEnd) = {p}
      /\ wordEnd < blocks[1].end => WordsFrom(wordEnd, blocks[1].end) # {}
      BY <1>3, <1>4, <1>5, <1>6, WordEndFacts
<1>8. wordEnd \in 1..TextEnd /\ cut.start <= wordEnd
      BY <1>3, <1>4, <1>5, <1>7
<1>9. Tokens(cut.start, wordEnd) \in Nat
  <2>1. wordEnd <= wordEnd
        BY <1>3, <1>8
  <2> QED BY <1>3, <1>4, <1>8, <2>1, TokensFacts
<1> HIDE DEF wordEnd
<1>10. \A i \in 1..Len(parts) : Fits(parts[i].start, parts[i].end)
       BY DEF LoopsFit
<1>11. cut'.end = wordEnd
       BY <1>1
<1>12. CASE full
  <2>1. cut.start < cut.end /\ CutPart \in Blocks
        BY <1>4, <1>12
  <2>2. parts' = Append(parts, CutPart) /\ cut'.start = cut.end
        BY <1>1, <1>12
  <2>3. Fits(CutPart.start, CutPart.end)
        BY <1>1, <1>4, CutPartFits
  <2>4. \A i \in 1..Len(parts') : Fits(parts'[i].start, parts'[i].end)
    <3> DEFINE c == CutPart
    <3>1. c \in Blocks /\ Fits(c.start, c.end) /\ parts' = Append(parts, c)
          BY <2>1, <2>2, <2>3
    <3> HIDE DEF c
    <3> QED BY <1>3, <1>10, <3>1, FitsAppend
  <2>5. LoopsFit'
        BY <1>1, <1>2, <1>7, <1>11, <2>2, <2>4 DEF LoopsFit
  <2> QED BY <1>1, <2>5, KeepsChunks, CutTiles
<1>13. CASE ~full
  <2>1. parts' = parts /\ cut'.start = cut.start
        BY <1>1, <1>13
  <2>2. \/ Tokens(cut.start, wordEnd) <= config.target
        \/ \E p \in cut.start..wordEnd : WordsFrom(cut.start, wordEnd) = {p}
    <3>1. CASE cut.start = cut.end
          BY <1>7, <3>1
    <3>2. CASE cut.start # cut.end
      <4>1. cut.end > cut.start
            BY <1>3, <1>4, <3>2
      <4>2. ~(Tokens(cut.start, wordEnd) > config.target)
            BY <1>13, <4>1
      <4> QED BY <1>3, <1>9, <4>2, ConfigFacts
    <3> QED BY <3>1, <3>2
  <2>3. LoopsFit'
        BY <1>1, <1>2, <1>7, <1>10, <1>11, <2>1, <2>2 DEF LoopsFit
  <2> QED BY <1>1, <2>3, KeepsChunks, CutTiles
<1> QED BY <1>12, <1>13

LEMMA LastCutFits == ASSUME FitInv, LastCut PROVE FitInv'
<1> USE DEF FitInv
<1>1. /\ lines' = lines /\ config' = config /\ chunks' = chunks /\ phase' = "split"
      /\ phase = "cut" /\ parts' = Append(parts, CutPart) /\ cut.end = Head(blocks).end
      BY DEF LastCut
<1>2. \A a, b : Fits(a, b)' = Fits(a, b)
      BY <1>1, SameText
<1>3. parts \in Seq(Blocks) /\ TextEnd \in Nat
      BY OffsetFacts DEF TileInv, ChunkingTypeOK
<1>4. /\ Head(blocks) = blocks[1] /\ blocks[1] \in Blocks
      /\ CutPart.start = cut.start /\ CutPart.end = cut.end
      /\ cut.start < cut.end => CutPart \in Blocks
      BY <1>1, CutFacts DEF TileInv
<1>5. blocks[1].start < blocks[1].end /\ blocks[1].start \in 1..TextEnd
      /\ blocks[1].end \in 1..TextEnd
      BY <1>4 DEF Blocks
<1>6. cut.start < cut.end
  <2>1. cut.start < cut.end \/ cut.end = blocks[1].start
        BY <1>1 DEF TileInv, LoopsTile
  <2> QED BY <1>1, <1>3, <1>4, <1>5, <2>1
<1> DEFINE c == CutPart
<1>7. c \in Blocks /\ Fits(c.start, c.end) /\ parts' = Append(parts, c)
      BY <1>1, <1>4, <1>6, CutPartFits
<1>8. \A i \in 1..Len(parts) : Fits(parts[i].start, parts[i].end)
      BY DEF LoopsFit
<1> HIDE DEF c
<1>9. \A i \in 1..Len(parts') : Fits(parts'[i].start, parts'[i].end)
      BY <1>3, <1>7, <1>8, FitsAppend
<1>10. LoopsFit'
       BY <1>1, <1>2, <1>9 DEF LoopsFit
<1> QED BY <1>1, <1>10, KeepsChunks, LastCutTiles

LEMMA AllSplitFits == ASSUME FitInv, AllSplit PROVE FitInv'
<1> USE DEF FitInv
<1>1. /\ lines' = lines /\ config' = config /\ chunks' = chunks /\ phase' = "pack"
      /\ phase = "split" /\ blocks' = parts /\ parts' = <<>> /\ current' = current
      BY DEF AllSplit
<1>2. \A a, b : Fits(a, b)' = Fits(a, b)
      BY <1>1, SameText
<1>3. current = <<>>
      BY <1>1 DEF TileInv, LoopsTile
<1>4. Len(<<>>) = 0
      BY EmptySeq
<1>5. LoopsFit'
      BY <1>1, <1>2, <1>3, <1>4 DEF LoopsFit
<1> QED BY <1>1, <1>5, KeepsChunks, AllSplitTiles

\* A chunk that is planned fits, and overlaps by no more than it must.
LEMMA PlannedFits ==
    ASSUME FitInv, phase = "pack", current # <<>>,
           lines' = lines, config' = config, chunks' = Planned(current)
    PROVE  FitsMaximum' /\ OverlapIsLeast'
<1> DEFINE n == Len(chunks)
<1>1. PICK c \in ChunkPlans :
          /\ Planned(current) = Append(chunks, c)
          /\ c.base = current[1].start /\ c.end = current[Len(current)].end
          /\ chunks = <<>> => c.start = c.base
          /\ chunks # <<>> => chunks[Len(chunks)].end = c.base
          /\ c.start = c.base
             \/ /\ Tokens(c.start, c.end) <= config.max
                /\ Tokens(c.start + 1, c.base) < config.overlap
                /\ \/ Tokens(c.start, c.base) >= config.overlap
                   \/ WordsFrom(chunks[Len(chunks)].start, c.start) = {}
      BY PlannedFacts DEF FitInv, TileInv
<1>2. chunks \in Seq(ChunkPlans) /\ n \in Nat /\ TextEnd \in Nat
      BY LenProperties, OffsetFacts DEF FitInv, TileInv, ChunkingTypeOK
<1>3. /\ chunks' \in Seq(ChunkPlans) /\ Len(chunks') = n + 1 /\ chunks'[n + 1] = c
      /\ \A i \in 1..n : chunks'[i] = chunks[i]
      BY <1>1, <1>2, AppendProperties
<1>4. DOMAIN chunks' = 1..(n + 1) /\ DOMAIN chunks = 1..n
      BY <1>2, <1>3, LenProperties
<1>5. /\ \A a, b : Tokens(a, b)' = Tokens(a, b)
      /\ \A a, b : WordsFrom(a, b)' = WordsFrom(a, b)
      BY SameText
<1>6. Fits(c.start, c.end)
  <2>1. CASE c.start = c.base
        BY <1>1, <2>1 DEF FitInv, LoopsFit
  <2>2. CASE c.start # c.base
        BY <1>1, <2>2 DEF Fits
  <2> QED BY <2>1, <2>2
<1>7. ASSUME NEW i \in 1..(n + 1) PROVE Fits(chunks'[i].start, chunks'[i].end)
  <2>1. CASE i = n + 1
        BY <1>3, <1>6, <2>1
  <2>2. CASE i # n + 1
    <3>1. i \in 1..n
          BY <1>2, <2>2
    <3>2. Fits(chunks[i].start, chunks[i].end)
          BY <1>4, <3>1 DEF FitInv, FitsMaximum, Fits
    <3> QED BY <1>3, <3>1, <3>2
  <2> QED BY <2>1, <2>2
<1>8. FitsMaximum'
      BY <1>4, <1>5, <1>7 DEF FitsMaximum, Fits
<1>9. ASSUME NEW i \in 2..(n + 1), chunks'[i].start..(chunks'[i - 1].end - 1) # {}
      PROVE  /\ Tokens(chunks'[i].start + 1, chunks'[i - 1].end) < config.overlap
             /\ \/ Tokens(chunks'[i].start, chunks'[i - 1].end) >= config.overlap
                \/ WordsFrom(chunks'[i - 1].start, chunks'[i].start) = {}
  <2>1. CASE i = n + 1
    <3>1. chunks # <<>> /\ i - 1 = n /\ n \in 1..n
          BY <1>2, <2>1, EmptySeq
    <3>2. chunks'[i] = c /\ chunks'[i - 1] = chunks[n] /\ chunks[n].end = c.base
          BY <1>1, <1>3, <2>1, <3>1
    <3>3. c.start # c.base
      <4>1. c.base \in Int
            BY <1>2 DEF ChunkPlans
      <4>2. c.base..(c.base - 1) = {}
            BY <4>1
      <4> QED BY <1>9, <3>2, <4>2
    <3> QED BY <1>1, <3>2, <3>3
  <2>2. CASE i # n + 1
    <3>1. i \in 2..n /\ i \in 1..n /\ i - 1 \in 1..n
          BY <1>2, <2>2
    <3>2. chunks'[i] = chunks[i] /\ chunks'[i - 1] = chunks[i - 1]
          BY <1>3, <3>1
    <3> QED BY <1>9, <3>1, <3>2 DEF FitInv, OverlapIsLeast
  <2> QED BY <2>1, <2>2
<1>10. OverlapIsLeast'
       BY <1>3, <1>5, <1>9 DEF OverlapIsLeast
<1> QED BY <1>8, <1>10

LEMMA PackFits == ASSUME FitInv, PackBlock PROVE FitInv'
<1> USE DEF FitInv
<1> DEFINE block == Head(blocks)
           full == /\ current # <<>>
                   /\ \/ block.kind = "heading"
                      \/ Tokens(current[1].start, block.end) > config.target
<1>1. /\ lines' = lines /\ config' = config /\ phase = "pack" /\ phase' = "pack"
      /\ parts' = parts /\ blocks # <<>> /\ blocks' = Tail(blocks)
      /\ chunks' = (IF full THEN Planned(current) ELSE chunks)
      /\ current' = IF full THEN <<block>> ELSE Append(current, block)
      BY DEF PackBlock
<1>2. \A a, b : Fits(a, b)' = Fits(a, b)
      BY <1>1, SameText
<1>3. /\ lines \in Seq(LineTypes) /\ config \in Configs
      /\ blocks \in Seq(Blocks) /\ current \in Seq(Blocks) /\ TextEnd \in Nat
      BY OffsetFacts DEF TileInv, ChunkingTypeOK
<1>4. /\ block = blocks[1] /\ blocks[1] \in Blocks
      /\ \A i \in 1..Len(Tail(blocks)) : Tail(blocks)[i] = blocks[i + 1] /\ i + 1 \in 1..Len(blocks)
  <2>1. Tile(blocks, blocks[1].start, TextEnd)
        BY <1>1, PackFacts DEF StartOf
  <2> QED BY <1>1, <1>3, <2>1, TileTail
<1>5. /\ \A i \in 1..Len(blocks) : Fits(blocks[i].start, blocks[i].end)
      /\ \A i \in 1..Len(parts) : Fits(parts[i].start, parts[i].end)
      /\ current # <<>> => Fits(current[1].start, current[Len(current)].end)
      BY <1>1 DEF LoopsFit
<1>6. \A i \in 1..Len(blocks') : Fits(blocks'[i].start, blocks'[i].end)
      BY <1>1, <1>4, <1>5
<1>7. Fits(blocks[1].start, blocks[1].end)
  <2>1. 1 \in 1..Len(blocks)
        BY <1>1, <1>3, EmptySeq
  <2> QED BY <1>5, <2>1
<1>8. Fits(current'[1].start, current'[Len(current')].end)
  <2>1. CASE full
    <3>1. current' = <<blocks[1]>>
          BY <1>1, <1>4, <2>1
    <3>2. current'[1] = blocks[1] /\ Len(current') = 1
          BY <3>1
    <3> QED BY <1>7, <3>2
  <2>2. CASE ~full
    <3>1. current' = Append(current, blocks[1])
          BY <1>1, <1>4, <2>2
    <3>2. /\ Len(current) \in Nat /\ Len(current') = Len(current) + 1
          /\ current'[Len(current) + 1] = blocks[1]
          /\ \A i \in 1..Len(current) : current'[i] = current[i]
          BY <1>3, <1>4, <3>1, LenProperties, AppendProperties
    <3>3. CASE current = <<>>
      <4>1. Len(current) = 0
            BY <3>3, EmptySeq
      <4> QED BY <1>7, <3>2, <4>1
    <3>4. CASE current # <<>>
      <4>1. 1 \in 1..Len(current)
            BY <1>3, <3>4, EmptySeq
      <4>2. current'[1] = current[1] /\ current'[Len(current')] = blocks[1]
            BY <3>2, <4>1
      <4>3. ~(Tokens(current[1].start, blocks[1].end) > config.target)
            BY <1>4, <2>2, <3>4
      <4>4. Tokens(current[1].start, blocks[1].end) \in Nat
        <5>1. current[1].start \in 1..TextEnd /\ current[1].start < blocks[1].start
          <6>1. Tile(current, current[1].start, blocks[1].start)
                BY <1>1, <3>4, PackFacts DEF StartOf
          <6> QED BY <1>3, <3>4, <6>1, TileGrows DEF TileInv
        <5>2. blocks[1].start \in 1..TextEnd /\ blocks[1].end \in 1..TextEnd
              /\ blocks[1].start < blocks[1].end
              BY <1>4 DEF Blocks
        <5>3. current[1].start <= blocks[1].end /\ blocks[1].end <= blocks[1].end
              BY <1>3, <5>1, <5>2
        <5> QED BY <1>3, <5>1, <5>2, <5>3, TokensFacts
      <4>5. Tokens(current[1].start, blocks[1].end) <= config.max
            BY <1>3, <4>3, <4>4, ConfigFacts
      <4> QED BY <4>2, <4>5 DEF Fits
    <3> QED BY <3>3, <3>4
  <2> QED BY <2>1, <2>2
<1>9. LoopsFit'
      BY <1>1, <1>2, <1>5, <1>6, <1>8 DEF LoopsFit
<1>10. FitsMaximum' /\ OverlapIsLeast'
  <2>1. CASE full
    <3>1. current # <<>> /\ chunks' = Planned(current)
          BY <1>1, <2>1
    <3> QED BY <1>1, <3>1, PlannedFits
  <2>2. CASE ~full
        BY <1>1, <2>2, KeepsChunks
  <2> QED BY <2>1, <2>2
<1> QED BY <1>9, <1>10, PackTiles

LEMMA LastFits == ASSUME FitInv, LastBlock PROVE FitInv'
<1> USE DEF FitInv
<1>1. /\ lines' = lines /\ config' = config /\ phase = "pack" /\ phase' = "done"
      /\ parts' = parts /\ blocks = <<>> /\ chunks' = Planned(current)
      BY DEF LastBlock
<1>2. \A a, b : Fits(a, b)' = Fits(a, b)
      BY <1>1, SameText
<1>3. current # <<>>
      BY <1>1, PackFacts
<1>4. LoopsFit'
      BY <1>1, <1>2 DEF LoopsFit
<1> QED BY <1>1, <1>3, <1>4, PlannedFits, LastTiles

LEMMA InitFits == ASSUME ChunkingInit PROVE FitInv
<1>1. phase = "parse" /\ parts = <<>> /\ chunks = <<>>
      BY DEF ChunkingInit
<1>2. Len(<<>>) = 0 /\ DOMAIN <<>> = {}
      BY EmptySeq
<1>3. LoopsFit /\ FitsMaximum /\ OverlapIsLeast
      BY <1>1, <1>2 DEF LoopsFit, FitsMaximum, OverlapIsLeast
<1> QED BY <1>3, InitTiles DEF FitInv

LEMMA FitStep == ASSUME FitInv, ChunkingNext PROVE FitInv'
BY ParseFits, KeepFits, StartCutFits, CutFits, LastCutFits, AllSplitFits, PackFits, LastFits
   DEF ChunkingNext

-----------------------------------------------------------------------------
(* Chunking: the text comes back                                             *)

LEMMA TextComesBack == ASSUME TileInv PROVE Reconstructible
<1> SUFFICES ASSUME phase = "done" PROVE Reconstructible
    BY DEF Reconstructible
<1> DEFINE n == Len(chunks)
           Fresh(i) == IF i = 1 THEN SubSeq(Text, chunks[1].start, chunks[1].end - 1)
                       ELSE SubSeq(Text, chunks[i - 1].end, chunks[i].end - 1)
           fresh == [i \in DOMAIN chunks |-> Fresh(i)]
           upto(k) == IF k = 0 THEN 1 ELSE chunks[k].end
<1>1. /\ lines \in Seq(LineTypes) /\ chunks \in Seq(ChunkPlans) /\ chunks # <<>>
      /\ ChunksTile(TextEnd)
      BY DEF TileInv, ChunkingTypeOK, LoopsTile
<1>2. n \in Nat \ {0} /\ DOMAIN chunks = 1..n
      BY <1>1, EmptySeq, LenProperties
<1>3. Text \in Seq(Nat) /\ Len(Text) \in Nat /\ TextEnd = Len(Text) + 1
      BY <1>1, OffsetFacts, LenProperties DEF TextEnd
<1>4. ASSUME NEW i \in 1..n
      PROVE  /\ chunks[i].start \in 1..TextEnd /\ chunks[i].base \in 1..TextEnd
             /\ chunks[i].end \in 1..TextEnd
             /\ chunks[i].start <= chunks[i].base /\ chunks[i].base < chunks[i].end
  <2>1. chunks[i] \in ChunkPlans
        BY <1>1, ElementOfSeq
  <2>2. chunks[i].start <= chunks[i].base /\ chunks[i].base < chunks[i].end
        BY <1>1 DEF ChunksTile
  <2> QED BY <2>1, <2>2 DEF ChunkPlans
<1>5. /\ chunks[1].start = 1 /\ chunks[1].base = 1 /\ chunks[n].end = TextEnd
      /\ \A i \in 1..(n - 1) : /\ chunks[i].end = chunks[i + 1].base
                               /\ chunks[i].start <= chunks[i + 1].start
      BY <1>1 DEF ChunksTile
<1>6. \A i \in 2..n : /\ chunks[i - 1].start <= chunks[i].start
                      /\ chunks[i].start <= chunks[i - 1].end
  <2>1. ASSUME NEW i \in 2..n
        PROVE  /\ chunks[i - 1].start <= chunks[i].start
               /\ chunks[i].start <= chunks[i - 1].end
    <3>1. i - 1 \in 1..(n - 1) /\ (i - 1) + 1 = i /\ i \in 1..n
          BY <1>2
    <3>2. chunks[i - 1].end = chunks[i].base /\ chunks[i - 1].start <= chunks[i].start
          BY <1>5, <3>1
    <3> QED BY <1>4, <3>1, <3>2
  <2> QED BY <2>1
<1>7. ASSUME NEW k \in 0..(n - 1)
      PROVE  /\ k + 1 \in 1..n
             /\ upto(k) \in 1..TextEnd /\ upto(k + 1) \in 1..TextEnd /\ upto(k) < upto(k + 1)
             /\ Fresh(k + 1) = SubSeq(Text, upto(k), upto(k + 1) - 1)
  <2>1. k + 1 \in 1..n /\ k + 1 # 0 /\ upto(k + 1) = chunks[k + 1].end
        BY <1>2
  <2>2. CASE k = 0
    <3>1. upto(k) = 1 /\ k + 1 = 1
          BY <2>2
    <3>2. Fresh(k + 1) = SubSeq(Text, 1, chunks[1].end - 1)
          BY <1>5, <3>1
    <3>3. 1 \in 1..TextEnd /\ chunks[1].end \in 1..TextEnd /\ 1 < chunks[1].end
          BY <1>2, <1>3, <1>4, <1>5
    <3> QED BY <2>1, <3>1, <3>2, <3>3
  <2>3. CASE k # 0
    <3>1. k \in 1..(n - 1) /\ k \in 1..n /\ k + 1 # 1 /\ (k + 1) - 1 = k
          BY <1>2, <2>3
    <3>2. upto(k) = chunks[k].end
          BY <2>3
    <3>4. Fresh(k + 1) = SubSeq(Text, chunks[(k + 1) - 1].end, chunks[k + 1].end - 1)
          BY <3>1
    <3>5. Fresh(k + 1) = SubSeq(Text, chunks[k].end, chunks[k + 1].end - 1)
          BY <3>1, <3>4
    <3>3. chunks[k].end = chunks[k + 1].base
          BY <1>5, <3>1
    <3> QED BY <1>4, <2>1, <3>1, <3>2, <3>3, <3>5
  <2> QED BY <2>2, <2>3
<1>8. ASSUME NEW i \in 1..n PROVE Fresh(i) \in Seq(Nat)
  <2>1. PICK k \in 0..(n - 1) : i = k + 1
    <3>1. i - 1 \in 0..(n - 1) /\ i = (i - 1) + 1
          BY <1>2
    <3> QED BY <3>1
  <2>2. /\ upto(k) \in 1..TextEnd /\ upto(k + 1) \in 1..TextEnd
        /\ Fresh(i) = SubSeq(Text, upto(k), upto(k + 1) - 1)
        BY <1>7, <2>1
  <2> HIDE DEF upto, Fresh
  <2>3. \A p \in upto(k)..(upto(k + 1) - 1) : Text[p] \in Nat
    <3>1. ASSUME NEW p \in upto(k)..(upto(k + 1) - 1) PROVE Text[p] \in Nat
      <4>1. p \in 1..Len(Text)
            BY <1>3, <2>2
      <4> QED BY <1>3, <4>1, ElementOfSeq
    <3> QED BY <3>1
  <2>4. upto(k) \in Int /\ upto(k + 1) - 1 \in Int
        BY <2>2
  <2> QED BY <2>2, <2>3, <2>4, SubSeqProperties
<1>9. /\ fresh \in Seq(Seq(Nat)) /\ Len(fresh) = n
      /\ \A i \in 1..n : fresh[i] = Fresh(i)
  <2> HIDE DEF Fresh
  <2>1. fresh \in [1..n -> Seq(Nat)]
        BY <1>2, <1>8
  <2> QED BY <1>2, <2>1
<1> HIDE DEF fresh, Fresh
<1> DEFINE S == {k \in 0..n : FlattenSeq(SubSeq(fresh, 1, k)) = SubSeq(Text, 1, upto(k) - 1)}
<1>10. 0 \in S
  <2>1. SubSeq(fresh, 1, 0) = <<>> /\ SubSeq(Text, 1, 0) = <<>>
        BY SubSeqEmpty
  <2>2. upto(0) - 1 = 0 /\ 0 \in 0..n
        BY <1>2
  <2> QED BY <2>1, <2>2, FlattenEmpty
<1>11. ASSUME NEW k \in 0..n, k \in S, k < n PROVE k + 1 \in S
  <2>1. k \in 0..(n - 1) /\ k + 1 \in 1..n /\ k + 1 \in 0..n
        BY <1>2, <1>11
  <2>2. /\ upto(k) \in 1..TextEnd /\ upto(k + 1) \in 1..TextEnd /\ upto(k) < upto(k + 1)
        /\ Fresh(k + 1) = SubSeq(Text, upto(k), upto(k + 1) - 1)
        BY <1>7, <2>1
  <2> DEFINE a == SubSeq(fresh, 1, k)
  <2>3. SubSeq(fresh, 1, k + 1) = Append(a, fresh[k + 1]) /\ a \in Seq(Seq(Nat))
    <3>1. 1 \in 1..Len(fresh) /\ k + 1 \in 1..Len(fresh) /\ (k + 1) - 1 = k
          BY <1>2, <1>9, <2>1
    <3>2. SubSeq(fresh, 1, k + 1) = a \o <<fresh[k + 1]>>
          BY <1>9, <3>1, SubSeqRecursiveSecond
    <3>3. \A i \in 1..k : fresh[i] \in Seq(Nat)
          BY <1>2, <1>8, <1>9, <2>1
    <3>4. a \in Seq(Seq(Nat))
          BY <2>1, <3>3, SubSeqProperties
    <3>5. fresh[k + 1] \in Seq(Nat)
          BY <1>8, <1>9, <2>1
    <3> HIDE DEF a
    <3> QED BY <3>2, <3>4, <3>5, AppendIsConcat
  <2> HIDE DEF a
  <2>4. FlattenSeq(SubSeq(fresh, 1, k + 1)) = FlattenSeq(a) \o fresh[k + 1]
        BY <1>8, <1>9, <2>1, <2>3, FlattenFacts
  <2>5. FlattenSeq(a) = SubSeq(Text, 1, upto(k) - 1)
        BY <1>11 DEF a
  <2> HIDE DEF upto
  <2>6. SubSeq(Text, 1, upto(k) - 1) \o SubSeq(Text, upto(k), upto(k + 1) - 1)
            = SubSeq(Text, 1, upto(k + 1) - 1)
    <3> DEFINE x == upto(k) - 1
               z == upto(k + 1) - 1
    <3>1. /\ 1 \in 1..(Len(Text) + 1) /\ x \in 0..Len(Text) /\ z \in x..Len(Text)
          /\ x + 1 = upto(k) /\ 1 - 1 = 0
          BY <1>3, <2>2
    <3> HIDE DEF x, z
    <3>2. x \in (1 - 1)..Len(Text)
          BY <3>1
    <3>3. SubSeq(Text, 1, x) \o SubSeq(Text, x + 1, z) = SubSeq(Text, 1, z)
          BY <1>3, <3>1, <3>2, ConcatAdjacentSubSeq
    <3> QED BY <3>1, <3>3 DEF x, z
  <2>7. FlattenSeq(SubSeq(fresh, 1, k + 1)) = SubSeq(Text, 1, upto(k + 1) - 1)
        BY <1>9, <2>1, <2>2, <2>4, <2>5, <2>6
  <2> QED BY <2>1, <2>7
<1>12. n \in S
  <2>1. \A k \in 0..n : k \in S /\ k < n => k + 1 \in S
        BY <1>11
  <2> HIDE DEF S
  <2>2. \A k \in 0..n : k \in S
        BY <1>2, <1>10, <2>1, UpTo
  <2> QED BY <1>2, <2>2
<1>13. FlattenSeq(fresh) = Text
  <2>1. SubSeq(fresh, 1, n) = fresh
        BY <1>9, SubSeqFull
  <2>2. upto(n) - 1 = Len(Text)
        BY <1>2, <1>3, <1>5
  <2>3. SubSeq(Text, 1, Len(Text)) = Text
        BY <1>3, SubSeqFull
  <2> QED BY <1>12, <2>1, <2>2, <2>3
<1> QED BY <1>6, <1>13 DEF Reconstructible, fresh, Fresh

-----------------------------------------------------------------------------
(* Chunking: the sections                                                    *)

LEMMA SameSections ==
    ASSUME lines' = lines, config' = config
    PROVE  /\ \A H, q : PathOf(H, q)' = PathOf(H, q)
           /\ \A H, s : AllUnder(H, s)' = AllUnder(H, s)
           /\ \A H, s : PlansUnder(H, s)' = PlansUnder(H, s)
           /\ \A H, s : NoneInside(H, s)' = NoneInside(H, s)
<1>1. \A i : Offset(i)' = Offset(i)
      BY SameText
<1>2. \A H : Stepwise(H)' = Stepwise(H)
      BY DEF Stepwise
<1>3. \A H, p : OpenAt(H, p)' = OpenAt(H, p)
      BY <1>1 DEF OpenAt
<1>4. \A H, q : PathOf(H, q)' = PathOf(H, q)
      BY <1>2 DEF PathOf
<1>5. \A H, b : BlockUnder(H, b)' = BlockUnder(H, b)
      BY <1>1, <1>2, <1>3 DEF BlockUnder
<1>6. \A H, s : AllUnder(H, s)' = AllUnder(H, s)
      BY <1>5 DEF AllUnder
<1>7. \A H, a, z, u : SpanUnder(H, a, z, u)' = SpanUnder(H, a, z, u)
      BY <1>1, <1>2, <1>3 DEF SpanUnder
<1>8. \A H, s : PlansUnder(H, s)' = PlansUnder(H, s)
      BY <1>7 DEF PlansUnder
<1>9. \A H, s : NoneInside(H, s)' = NoneInside(H, s)
      BY <1>1 DEF NoneInside
<1> QED BY <1>4, <1>6, <1>8, <1>9

\* Sequences of blocks that have lost or won one.
LEMMA UnderNone ==
    ASSUME NEW H
    PROVE  /\ AllUnder(H, <<>>) /\ NoneInside(H, <<>>) /\ PlansUnder(H, <<>>)
           /\ \A h : ~Headed(<<>>, h) /\ ~FirstHeaded(<<>>, h) /\ ~PlanHas(<<>>, h)
<1>1. Len(<<>>) = 0 /\ 1..0 = {}
      OBVIOUS
<1> QED BY <1>1 DEF AllUnder, NoneInside, PlansUnder, Headed, FirstHeaded, PlanHas

LEMMA UnderAppend ==
    ASSUME NEW S, NEW s \in Seq(S), NEW b \in S, NEW H
    PROVE  /\ AllUnder(H, s) /\ BlockUnder(H, b) => AllUnder(H, Append(s, b))
           /\ \A h : Headed(s, h) => Headed(Append(s, b), h)
           /\ \A h : b.kind = "heading" /\ h \in ToSet(b.path) => Headed(Append(s, b), h)
           /\ PlansUnder(H, s) /\ SpanUnder(H, b.base, b.end, b.path)
                  => PlansUnder(H, Append(s, b))
           /\ \A h : PlanHas(s, h) => PlanHas(Append(s, b), h)
           /\ \A h : h \in ToSet(b.path) => PlanHas(Append(s, b), h)
<1> DEFINE t == Append(s, b)
<1>1. /\ Len(s) \in Nat /\ Len(t) = Len(s) + 1 /\ t[Len(s) + 1] = b
      /\ \A i \in 1..Len(s) : t[i] = s[i]
      BY LenProperties, AppendProperties
<1> HIDE DEF t
<1>2. 1..Len(t) = 1..Len(s) \cup {Len(s) + 1}
      BY <1>1
<1>3. AllUnder(H, s) /\ BlockUnder(H, b) => AllUnder(H, t)
      BY <1>1, <1>2 DEF AllUnder
<1>4. PlansUnder(H, s) /\ SpanUnder(H, b.base, b.end, b.path) => PlansUnder(H, t)
      BY <1>1, <1>2 DEF PlansUnder
<1>5. \A h : Headed(s, h) => Headed(t, h)
      BY <1>1, <1>2 DEF Headed
<1>6. \A h : b.kind = "heading" /\ h \in ToSet(b.path) => Headed(t, h)
      BY <1>1, <1>2 DEF Headed
<1>7. \A h : PlanHas(s, h) => PlanHas(t, h)
      BY <1>1, <1>2 DEF PlanHas
<1>8. \A h : h \in ToSet(b.path) => PlanHas(t, h)
      BY <1>1, <1>2 DEF PlanHas
<1> QED BY <1>3, <1>4, <1>5, <1>6, <1>7, <1>8 DEF t

LEMMA UnderTail ==
    ASSUME NEW S, NEW s \in Seq(S), s # <<>>, NEW H, AllUnder(H, s)
    PROVE  /\ Head(s) = s[1] /\ s[1] \in S /\ Tail(s) \in Seq(S)
           /\ BlockUnder(H, s[1]) /\ AllUnder(H, Tail(s))
           /\ \A h : Headed(s, h) => \/ Headed(Tail(s), h)
                                     \/ s[1].kind = "heading" /\ h \in ToSet(s[1].path)
<1> DEFINE t == Tail(s)
<1>1. /\ Len(s) \in Nat \ {0} /\ Len(t) = Len(s) - 1 /\ t \in Seq(S)
      /\ \A i \in 1..Len(t) : t[i] = s[i + 1]
      /\ Head(s) = s[1]
      BY EmptySeq, LenProperties, HeadTailProperties
<1> HIDE DEF t
<1>2. 1 \in 1..Len(s) /\ s[1] \in S
      BY <1>1, ElementOfSeq
<1>3. BlockUnder(H, s[1])
      BY <1>2 DEF AllUnder
<1>4. AllUnder(H, t)
  <2>1. ASSUME NEW i \in 1..Len(t) PROVE BlockUnder(H, t[i])
    <3>1. i + 1 \in 1..Len(s) /\ t[i] = s[i + 1]
          BY <1>1
    <3> QED BY <3>1 DEF AllUnder
  <2> QED BY <2>1 DEF AllUnder
<1>5. ASSUME NEW h, Headed(s, h)
      PROVE  Headed(t, h) \/ (s[1].kind = "heading" /\ h \in ToSet(s[1].path))
  <2>1. PICK i \in 1..Len(s) : s[i].kind = "heading" /\ h \in ToSet(s[i].path)
        BY <1>5 DEF Headed
  <2>2. CASE i = 1
        BY <2>1, <2>2
  <2>3. CASE i # 1
    <3>1. PICK j \in 1..Len(t) : t[j] = s[i]
      <4>1. i - 1 \in 1..Len(t) /\ (i - 1) + 1 = i
            BY <1>1, <2>3
      <4> QED BY <1>1, <4>1
    <3>2. t[j].kind = "heading" /\ h \in ToSet(t[j].path)
          BY <2>1, <3>1
    <3> QED BY <3>1, <3>2 DEF Headed
  <2> QED BY <2>2, <2>3
<1> QED BY <1>1, <1>2, <1>3, <1>4, <1>5 DEF t

\* Without a heading in between, the same headings are open.
LEMMA OpenSame ==
    ASSUME NEW H, NEW a, NEW p, \A h \in H : (Offset(h) <= a) = (Offset(h) <= p)
    PROVE  OpenAt(H, a) = OpenAt(H, p)
BY DEF OpenAt

LEMMA HeadingFacts ==
    ASSUME lines \in Seq(LineTypes), NEW H \in SUBSET DOMAIN lines,
           \A h \in H : lines[h].kind = "heading"
    PROVE  /\ H \subseteq Nat /\ H \subseteq 1..Len(lines)
           /\ \A h \in H : lines[h].level \in Nat \ {0} /\ Offset(h) \in 1..TextEnd
<1>1. Len(lines) \in Nat /\ DOMAIN lines = 1..Len(lines)
      BY LenProperties
<1>2. \A h \in H : lines[h] \in LineTypes
      BY <1>1, ElementOfSeq
<1>3. \A h \in H : lines[h].level \in Nat \ {0}
      BY <1>2, ChunkingAssumption
<1>4. \A h \in H : h \in 1..(Len(lines) + 1)
      BY <1>1
<1> QED BY <1>1, <1>3, <1>4, OffsetFacts

\* A part of a block is filed as the block is.
LEMMA PartUnder ==
    ASSUME lines \in Seq(LineTypes), NEW H \in SUBSET DOMAIN lines,
           \A h \in H : lines[h].kind = "heading",
           NEW b \in Blocks, NEW c \in Blocks, BlockUnder(H, b),
           c.kind = b.kind, c.path = b.path, b.start <= c.start, c.end <= b.end
    PROVE  BlockUnder(H, c)
<1>1. \A h \in H : Offset(h) \in Nat
      BY HeadingFacts, OffsetFacts
<1>2. /\ b.start \in Nat /\ b.end \in Nat /\ c.start \in Nat /\ c.end \in Nat
      /\ c.start < c.end
      BY OffsetFacts DEF Blocks
<1> DEFINE o(h) == Offset(h)
<1>3. \A h \in H : \/ o(h) < b.start \/ b.end <= o(h)
                   \/ b.kind = "heading" /\ o(h) = b.start
      BY DEF BlockUnder
<1>4. \A h \in H : o(h) \in Nat
      BY <1>1
<1> HIDE DEF o
<1>5. \A h \in H : \/ o(h) < c.start \/ c.end <= o(h)
                   \/ c.kind = "heading" /\ o(h) = c.start
      BY <1>2, <1>3, <1>4
<1>6. \A h \in H : (o(h) <= b.start) = (o(h) <= c.start)
      BY <1>2, <1>3, <1>4
<1>7. OpenAt(H, b.start) = OpenAt(H, c.start)
      BY <1>6, OpenSame DEF o
<1> QED BY <1>5, <1>7 DEF BlockUnder, o

\* The path of a heading: under headings that go down a level at a time it has one
\* heading of each level above.
LEMMA EnoughPath ==
    ASSUME lines \in Seq(LineTypes), NEW H \in SUBSET DOMAIN lines,
           \A h \in H : lines[h].kind = "heading",
           PathOf(H, path), path \in Seq(DOMAIN lines),
           NEW l \in DOMAIN lines, lines[l].kind = "heading", \A h \in H : h < l,
           Stepwise(H \cup {l})
    PROVE  /\ Stepwise(H) /\ lines[l].level \in Nat \ {0}
           /\ lines[l].level - 1 <= Len(path)
<1> DEFINE L == lines[l].level
<1>1. /\ H \subseteq 1..Len(lines) /\ Len(lines) \in Nat /\ l \in 1..Len(lines)
      /\ \A h \in H : lines[h].level \in Nat \ {0}
      BY HeadingFacts, LenProperties
<1>2. L \in Nat \ {0}
  <2>1. lines[l] \in LineTypes
        BY <1>1, ElementOfSeq
  <2> QED BY <2>1, ChunkingAssumption
<1>3. Stepwise(H)
  <2>1. ASSUME NEW h \in H, lines[h].level # 1
        PROVE  \E k \in H : /\ k < h /\ lines[k].level = lines[h].level - 1
                            /\ \A j \in H : k < j /\ j < h => lines[j].level >= lines[h].level - 1
    <3>1. PICK k \in H \cup {l} :
              /\ k < h /\ lines[k].level = lines[h].level - 1
              /\ \A j \in H \cup {l} : k < j /\ j < h => lines[j].level >= lines[h].level - 1
          BY <2>1 DEF Stepwise
    <3>2. h < l
          OBVIOUS
    <3>3. k # l
          BY <1>1, <3>1, <3>2
    <3> QED BY <3>1, <3>3
  <2> QED BY <2>1 DEF Stepwise
<1>4. ASSUME L # 1 PROVE L - 1 <= Len(path)
  <2>1. PICK k \in H \cup {l} :
            /\ k < l /\ lines[k].level = L - 1
            /\ \A j \in H \cup {l} : k < j /\ j < l => lines[j].level >= L - 1
        BY <1>4 DEF Stepwise
  <2>2. k \in H
        BY <1>1, <2>1
  <2> DEFINE alike == {j \in H : k <= j /\ lines[j].level = L - 1}
  <2>3. k \in alike /\ alike \in SUBSET (0..Len(lines))
        BY <1>1, <2>1, <2>2
  <2> DEFINE g == Greatest(alike)
  <2>4. g \in alike /\ \A j \in alike : j <= g
        BY <1>1, <2>3, GreatestFacts
  <2> HIDE DEF g
  <2>5. g \in H /\ k <= g /\ lines[g].level = L - 1
        BY <2>4
  <2>6. g \in ToSet(path)
    <3> SUFFICES ASSUME NEW j \in H, g < j, lines[j].level <= lines[g].level PROVE FALSE
        BY <1>3, <2>5 DEF PathOf
    <3>1. k < j /\ j < l
          BY <1>1, <2>2, <2>5
    <3>2. lines[j].level = L - 1
          BY <1>1, <1>2, <2>1, <2>5, <3>1
    <3> QED BY <1>1, <2>2, <2>4, <3>1, <3>2
  <2>7. PICK m \in 1..Len(path) : path[m] = g
        BY <2>6, LenProperties DEF ToSet
  <2>8. lines[path[m]].level = m
        BY <1>3 DEF PathOf
  <2> QED BY <1>2, <2>5, <2>7, <2>8, LenProperties
<1>5. L - 1 <= Len(path)
      BY <1>2, <1>4, LenProperties
<1> QED BY <1>2, <1>3, <1>5

LEMMA PathGrows ==
    ASSUME lines \in Seq(LineTypes), NEW H \in SUBSET DOMAIN lines,
           \A h \in H : lines[h].kind = "heading",
           PathOf(H, path), path \in Seq(DOMAIN lines),
           NEW l \in DOMAIN lines, lines[l].kind = "heading", \A h \in H : h < l
    PROVE  PathOf(H \cup {l}, Append(Above(lines[l].level), l))
<1> DEFINE L == lines[l].level
           a == Above(L)
           q == Append(a, l)
           G == H \cup {l}
<1>1. /\ H \subseteq 1..Len(lines) /\ Len(lines) \in Nat /\ l \in 1..Len(lines)
      /\ \A h \in H : lines[h].level \in Nat \ {0}
      BY HeadingFacts, LenProperties
<1>2. L \in Nat \ {0}
  <2>1. lines[l] \in LineTypes
        BY <1>1, ElementOfSeq
  <2> QED BY <2>1, ChunkingAssumption
<1>3. /\ a \in Seq(DOMAIN lines)
      /\ Len(a) = IF L - 1 < Len(path) THEN L - 1 ELSE Len(path)
      /\ \A m \in 1..Len(a) : a[m] = path[m] /\ m \in 1..Len(path)
      BY <1>2, AboveFacts
<1> HIDE DEF a
<1>4. /\ Len(a) \in Nat /\ q \in Seq(DOMAIN lines) /\ Len(q) = Len(a) + 1
      /\ q[Len(a) + 1] = l /\ \A m \in 1..Len(a) : q[m] = path[m]
      BY <1>3, AppendProperties, LenProperties
<1>5. DOMAIN q = 1..Len(q) /\ DOMAIN path = 1..Len(path) /\ Len(path) \in Nat
      BY <1>4, LenProperties
<1> HIDE DEF q
<1>6. ToSet(path) \subseteq H
      BY DEF PathOf
<1>7. ToSet(q) \subseteq G
  <2>1. ASSUME NEW m \in 1..Len(q) PROVE q[m] \in G
    <3>1. CASE m = Len(a) + 1
          BY <1>4, <3>1
    <3>2. CASE m # Len(a) + 1
      <4>1. m \in 1..Len(a)
            BY <1>4, <3>2
      <4>2. q[m] = path[m] /\ m \in DOMAIN path
            BY <1>3, <1>4, <1>5, <4>1
      <4> QED BY <1>6, <4>2 DEF ToSet
    <3> QED BY <3>1, <3>2
  <2> QED BY <1>5, <2>1 DEF ToSet
<1>8. ASSUME Stepwise(G)
      PROVE  /\ \A m \in 1..Len(q) : /\ lines[q[m]].level = m
                                     /\ \A k \in G : q[m] < k => lines[k].level > m
             /\ \A h \in G : \/ h \in ToSet(q)
                             \/ \E k \in G : h < k /\ lines[k].level <= lines[h].level
  <2>1. Stepwise(H) /\ L - 1 <= Len(path)
        BY <1>8, EnoughPath
  <2>2. Len(a) = L - 1 /\ Len(q) = L
        BY <1>2, <1>3, <1>4, <1>5, <2>1
  <2>3. /\ \A m \in 1..Len(path) : /\ lines[path[m]].level = m
                                   /\ \A k \in H : path[m] < k => lines[k].level > m
        /\ \A h \in H : \/ h \in ToSet(path)
                        \/ \E k \in H : h < k /\ lines[k].level <= lines[h].level
        BY <2>1 DEF PathOf
  <2>4. ASSUME NEW m \in 1..Len(q)
        PROVE  lines[q[m]].level = m /\ \A k \in G : q[m] < k => lines[k].level > m
    <3>1. CASE m = L
      <4>1. q[m] = l
            BY <1>2, <1>4, <2>2, <3>1
      <4> QED BY <1>1, <3>1, <4>1
    <3>2. CASE m # L
      <4>1. m \in 1..Len(a) /\ m < L
            BY <1>2, <2>2, <3>2
      <4>2. q[m] = path[m] /\ m \in 1..Len(path)
            BY <1>3, <1>4, <4>1
      <4>3. lines[q[m]].level = m /\ \A k \in H : q[m] < k => lines[k].level > m
            BY <2>3, <4>2
      <4>4. lines[l].level > m
            BY <1>2, <4>1
      <4> QED BY <4>3, <4>4
    <3> QED BY <3>1, <3>2
  <2>5. ASSUME NEW h \in G
        PROVE  h \in ToSet(q) \/ \E k \in G : h < k /\ lines[k].level <= lines[h].level
    <3>1. CASE h = l
      <4>1. Len(a) + 1 \in DOMAIN q
            BY <1>4, <1>5
      <4> QED BY <1>4, <3>1, <4>1 DEF ToSet
    <3>2. CASE h # l /\ \E k \in H : h < k /\ lines[k].level <= lines[h].level
          BY <3>2
    <3>3. CASE h # l /\ h \in ToSet(path)
      <4>1. PICK m \in 1..Len(path) : path[m] = h
            BY <1>5, <3>3 DEF ToSet
      <4>2. lines[h].level = m /\ h \in H /\ h < l
            BY <2>3, <3>3, <4>1
      <4>3. CASE m < L
        <5>1. m \in 1..Len(a) /\ m \in DOMAIN q
              BY <1>2, <1>4, <1>5, <2>2, <4>3
        <5>2. q[m] = h
              BY <1>4, <4>1, <5>1
        <5> QED BY <5>1, <5>2 DEF ToSet
      <4>4. CASE ~(m < L)
        <5>1. lines[l].level <= lines[h].level
              BY <1>2, <1>5, <4>2, <4>4
        <5> QED BY <4>2, <5>1
      <4> QED BY <4>3, <4>4
    <3> QED BY <2>3, <3>1, <3>2, <3>3
  <2> QED BY <2>4, <2>5
<1>9. PathOf(G, q)
      BY <1>7, <1>8 DEF PathOf
<1> QED BY <1>9 DEF q, a

\* The path is what is open at a place that no heading is behind.
LEMMA PathIsOpen ==
    ASSUME lines \in Seq(LineTypes), NEW H \in SUBSET DOMAIN lines,
           \A h \in H : lines[h].kind = "heading",
           NEW q \in Seq(DOMAIN lines), PathOf(H, q), Stepwise(H),
           NEW p, \A h \in H : Offset(h) <= p
    PROVE  ToSet(q) = OpenAt(H, p)
<1>1. /\ \A h \in H : lines[h].level \in Nat \ {0}
      /\ H \subseteq Nat
      BY HeadingFacts
<1>2. /\ ToSet(q) \subseteq H
      /\ \A m \in 1..Len(q) : /\ lines[q[m]].level = m
                              /\ \A k \in H : q[m] < k => lines[k].level > m
      /\ \A h \in H : \/ h \in ToSet(q)
                      \/ \E k \in H : h < k /\ lines[k].level <= lines[h].level
      BY DEF PathOf
<1>3. OpenAt(H, p) = {h \in H : \A k \in H : h < k => lines[k].level > lines[h].level}
      BY DEF OpenAt
<1>4. ASSUME NEW h \in ToSet(q) PROVE h \in OpenAt(H, p)
  <2>1. PICK m \in 1..Len(q) : q[m] = h
        BY LenProperties DEF ToSet
  <2> QED BY <1>2, <1>3, <2>1
<1>5. ASSUME NEW h \in OpenAt(H, p) PROVE h \in ToSet(q)
      BY <1>1, <1>2, <1>3
<1> QED BY <1>4, <1>5

\* Blocks that lie one after the other are between the first start and the last end.
LEMMA TileBounds ==
    ASSUME lines \in Seq(LineTypes), NEW s \in Seq(Blocks), s # <<>>, NEW a, NEW z, Tile(s, a, z)
    PROVE  /\ Len(s) \in Nat \ {0} /\ a = s[1].start /\ z = s[Len(s)].end
           /\ \A i \in 1..Len(s) : /\ a <= s[i].start /\ s[i].end <= z
                                   /\ s[i].start < s[i].end
                                   /\ s[i].start \in Nat /\ s[i].end \in Nat
<1> DEFINE n == Len(s)
<1>1. n \in Nat \ {0} /\ TextEnd \in Nat
      BY EmptySeq, LenProperties, OffsetFacts
<1>2. /\ s[1].start = a /\ s[n].end = z
      /\ \A i \in 1..(n - 1) : s[i].end = s[i + 1].start
      BY DEF Tile
<1>3. \A i \in 1..n : s[i].start \in Nat /\ s[i].end \in Nat /\ s[i].start < s[i].end
  <2>1. \A i \in 1..n : s[i] \in Blocks
        BY ElementOfSeq
  <2> QED BY <1>1, <2>1 DEF Blocks
<1>4. a \in Nat /\ z \in Nat
      BY <1>1, <1>2, <1>3
<1> HIDE DEF n
<1> DEFINE S == {k \in 0..n : k = 0 \/ a <= s[k].start}
<1>5. 0 \in S
      BY <1>1
<1>6. \A k \in 0..n : k \in S /\ k < n => k + 1 \in S
  <2>1. ASSUME NEW k \in 0..n, k \in S, k < n PROVE k + 1 \in S
    <3>1. CASE k = 0
          BY <1>1, <1>2, <1>4, <3>1
    <3>2. CASE k # 0
      <4>1. k \in 1..(n - 1) /\ k \in 1..n /\ k + 1 \in 1..n /\ k + 1 \in 0..n
            BY <1>1, <2>1, <3>2
      <4>2. a <= s[k].start /\ s[k].start < s[k].end /\ s[k].end = s[k + 1].start
            BY <1>2, <1>3, <2>1, <3>2, <4>1
      <4>3. a <= s[k + 1].start
            BY <1>3, <1>4, <4>1, <4>2
      <4> QED BY <4>1, <4>3
    <3> QED BY <3>1, <3>2
  <2> QED BY <2>1
<1> HIDE DEF S
<1>7. \A k \in 0..n : k \in S
      BY <1>1, <1>5, <1>6, UpTo
<1>8. \A i \in 1..n : a <= s[i].start
      BY <1>1, <1>7 DEF S
<1> DEFINE R == {k \in 0..n : k = n \/ s[n - k].end <= z}
<1>9. 0 \in R
      BY <1>1, <1>2, <1>4
<1>10. \A k \in 0..n : k \in R /\ k < n => k + 1 \in R
  <2>1. ASSUME NEW k \in 0..n, k \in R, k < n PROVE k + 1 \in R
    <3>1. CASE k + 1 = n
          BY <1>1, <3>1
    <3>2. CASE k + 1 # n
      <4> DEFINE m == n - (k + 1)
      <4>1. m \in 1..(n - 1) /\ m \in 1..n /\ m + 1 \in 1..n /\ m + 1 = n - k /\ k + 1 \in 0..n
            BY <1>1, <2>1, <3>2
      <4> HIDE DEF m
      <4>2. s[m + 1].end <= z
            BY <1>1, <2>1, <4>1
      <4>3. s[m].end = s[m + 1].start /\ s[m + 1].start < s[m + 1].end
            BY <1>2, <1>3, <4>1
      <4>4. s[m].end <= z
            BY <1>3, <1>4, <4>1, <4>2, <4>3
      <4> QED BY <4>1, <4>4 DEF m
    <3> QED BY <3>1, <3>2
  <2> QED BY <2>1
<1> HIDE DEF R
<1>11. \A k \in 0..n : k \in R
       BY <1>1, <1>9, <1>10, UpTo
<1>12. ASSUME NEW i \in 1..n PROVE s[i].end <= z
  <2> DEFINE k == n - i
  <2>1. k \in 0..n /\ k # n /\ n - k = i
        BY <1>1
  <2> HIDE DEF k
  <2>2. s[n - k].end <= z
        BY <1>11, <2>1 DEF R
  <2> QED BY <2>1, <2>2
<1> QED BY <1>1, <1>2, <1>3, <1>8, <1>12 DEF n

LEMMA ParsedBefore ==
    ASSUME TileInv, phase = "parse", NEW i \in 1..Len(blocks)
    PROVE  /\ blocks[i].start < Offset(index) /\ blocks[i].end <= Offset(index)
           /\ blocks[i].start \in Nat /\ blocks[i].end \in Nat
<1>1. /\ lines \in Seq(LineTypes) /\ blocks \in Seq(Blocks)
      /\ Tile(blocks, 1, Offset(index)) /\ index \in 1..(Len(lines) + 1)
      BY DEF TileInv, ChunkingTypeOK, LoopsTile
<1>2. blocks # <<>>
      BY EmptySeq
<1>3. /\ blocks[i].start \in Nat /\ blocks[i].end \in Nat
      /\ blocks[i].start < blocks[i].end /\ blocks[i].end <= Offset(index)
      BY <1>1, <1>2, TileBounds
<1>4. Offset(index) \in Nat
      BY <1>1, OffsetFacts
<1> QED BY <1>3, <1>4

\* One more block is parsed.
LEMMA ParseSections ==
    ASSUME TileInv, ParseBlock, NEW H \in SUBSET DOMAIN lines, Sections(H)
    PROVE  SectionsKept'
<1>1. /\ lines' = lines /\ config' = config /\ phase = "parse" /\ phase' = "parse"
      /\ parts' = parts /\ current' = current /\ chunks' = chunks
      BY DEF ParseBlock
<1>2. /\ parts = <<>> /\ current = <<>> /\ chunks = <<>>
      BY <1>1 DEF TileInv, LoopsTile
<1>3. /\ lines \in Seq(LineTypes) /\ blocks \in Seq(Blocks) /\ path \in Seq(DOMAIN lines)
      BY DEF TileInv, ChunkingTypeOK
<1>4. /\ index \in 1..Len(lines) /\ index' \in (index + 1)..(Len(lines) + 1)
      /\ path' \in Seq(DOMAIN lines)
      /\ lines[index].kind = "heading" => path' = Append(Above(lines[index].level), index)
      /\ lines[index].kind # "heading" => path' = path
      BY ParseFacts DEF TileInv
<1>5. PICK b \in Blocks :
          /\ blocks' = Append(blocks, b)
          /\ b.start = Offset(index) /\ b.end = Offset(index') /\ b.start < b.end
          /\ b.path = path'
          /\ b.kind = "heading" => lines[index].kind = "heading"
          /\ lines[index].kind = "heading" => b.kind = "heading"
      BY ParseFacts DEF TileInv
<1>6. /\ \A h \in H : lines[h].kind = "heading"
      /\ AllUnder(H, blocks) /\ HeadKept(H)
      /\ PathOf(H, path) /\ \A h \in H : h < index
      BY <1>1 DEF Sections
<1>7. DOMAIN lines = 1..Len(lines) /\ Len(lines) \in Nat
      BY <1>3, LenProperties
<1> DEFINE G == IF lines[index].kind = "heading" THEN H \cup {index} ELSE H
<1>8. /\ G \in SUBSET DOMAIN lines /\ \A h \in G : lines[h].kind = "heading"
      /\ H \subseteq G
      /\ \A h \in G : h \in H \/ (h = index /\ lines[index].kind = "heading")
      BY <1>4, <1>6, <1>7
<1>9. PathOf(G, path')
  <2>1. CASE lines[index].kind = "heading"
        BY <1>3, <1>4, <1>6, <1>7, <2>1, PathGrows
  <2>2. CASE lines[index].kind # "heading"
        BY <1>4, <1>6, <2>2
  <2> QED BY <2>1, <2>2
<1> HIDE DEF G
<1>10. \A h \in G : h < index'
       BY <1>4, <1>6, <1>7, <1>8
<1>11. ASSUME NEW h \in H PROVE Offset(h) < b.start /\ Offset(h) \in Nat /\ b.start \in Nat
  <2>1. h \in 1..(Len(lines) + 1) /\ index \in 1..(Len(lines) + 1) /\ h < index
        BY <1>4, <1>6, <1>7
  <2>2. Offset(h) < Offset(index) /\ Offset(h) \in Nat /\ Offset(index) \in Nat
        BY <1>3, <2>1, OffsetFacts
  <2> QED BY <1>5, <2>2
<1>12. Offset(index) \in Nat
  <2>1. index \in 1..(Len(lines) + 1)
        BY <1>4, <1>7
  <2> QED BY <1>3, <2>1, OffsetFacts
<1>13. BlockUnder(G, b)
  <2>1. \A h \in G : \/ Offset(h) < b.start \/ b.end <= Offset(h)
                     \/ b.kind = "heading" /\ Offset(h) = b.start
        BY <1>5, <1>8, <1>11
  <2>2. \A h \in G : Offset(h) <= b.start
        BY <1>5, <1>8, <1>11, <1>12
  <2>3. ToSet(b.path) \subseteq G
        BY <1>5, <1>9 DEF PathOf
  <2>4. Stepwise(G) => ToSet(b.path) = OpenAt(G, b.start)
        BY <1>3, <1>4, <1>5, <1>8, <1>9, <2>2, PathIsOpen
  <2> QED BY <2>1, <2>3, <2>4 DEF BlockUnder
<1>14. ASSUME NEW i \in 1..Len(blocks) PROVE BlockUnder(G, blocks[i])
  <2> DEFINE e == blocks[i]
  <2>1. BlockUnder(H, e)
        BY <1>6 DEF AllUnder
  <2>2. e.start < Offset(index) /\ e.end <= Offset(index) /\ e.start \in Nat /\ e.end \in Nat
        BY <1>1, <1>3, ParsedBefore DEF TileInv
  <2> HIDE DEF e
  <2>3. ASSUME lines[index].kind # "heading" PROVE BlockUnder(G, e)
        BY <2>1, <2>3 DEF G
  <2>4. ASSUME lines[index].kind = "heading" PROVE BlockUnder(G, e)
    <3>1. G = H \cup {index}
          BY <2>4 DEF G
    <3>2. \A h \in G : \/ Offset(h) < e.start \/ e.end <= Offset(h)
                       \/ e.kind = "heading" /\ Offset(h) = e.start
          BY <2>1, <2>2, <3>1 DEF BlockUnder
    <3>3. ToSet(e.path) \subseteq G
          BY <2>1, <3>1 DEF BlockUnder
    <3>4. ASSUME Stepwise(G) PROVE ToSet(e.path) = OpenAt(G, e.start)
      <4>1. Stepwise(H)
            BY <1>3, <1>4, <1>6, <1>7, <2>4, <3>1, <3>4, EnoughPath
      <4>2. ToSet(e.path) = OpenAt(H, e.start)
            BY <2>1, <4>1 DEF BlockUnder
      <4>3. ~(Offset(index) <= e.start)
            BY <1>12, <2>2
      <4>4. OpenAt(G, e.start) = OpenAt(H, e.start)
            BY <3>1, <4>3 DEF OpenAt
      <4> QED BY <4>2, <4>4
    <3> QED BY <3>2, <3>3, <3>4 DEF BlockUnder
  <2> QED BY <2>3, <2>4 DEF e
<1>15. AllUnder(G, blocks')
  <2>1. AllUnder(G, blocks)
        BY <1>14 DEF AllUnder
  <2> QED BY <1>3, <1>5, <1>13, <2>1, UnderAppend
<1>16. ASSUME NEW h \in G PROVE Headed(blocks', h)
  <2>1. CASE h \in H
    <3>1. Headed(blocks, h)
          BY <1>2, <1>6, <2>1, UnderNone DEF HeadKept
    <3> QED BY <1>3, <1>5, <3>1, UnderAppend
  <2>2. CASE h = index /\ lines[index].kind = "heading"
    <3>1. b.kind = "heading" /\ h \in ToSet(b.path)
      <4>1. PICK a \in Seq(DOMAIN lines) : b.path = Append(a, index)
        <5>1. lines[index] \in LineTypes
              BY <1>3, <1>4, ElementOfSeq
        <5>2. lines[index].level \in Nat \ {0}
              BY <2>2, <5>1, ChunkingAssumption
        <5> QED BY <1>3, <1>4, <1>5, <2>2, <5>2, AboveFacts
      <4>2. Len(a) + 1 \in DOMAIN b.path /\ b.path[Len(a) + 1] = index
            BY <1>4, <1>7, <4>1, AppendProperties, LenProperties
      <4> QED BY <1>5, <2>2, <4>2 DEF ToSet
    <3> QED BY <1>3, <1>5, <3>1, UnderAppend
  <2> QED BY <1>8, <2>1, <2>2
<1>17. /\ \A i, q : PathOf(i, q)' = PathOf(i, q)
       /\ \A i, s : AllUnder(i, s)' = AllUnder(i, s)
       /\ \A i, s : PlansUnder(i, s)' = PlansUnder(i, s)
       /\ \A i, s : NoneInside(i, s)' = NoneInside(i, s)
       BY <1>1, SameSections
<1>18. ASSUME NEW g, g = G PROVE Sections(g)'
  <2>1. /\ AllUnder(g, parts') /\ AllUnder(g, current') /\ NoneInside(g, current')
        /\ PlansUnder(g, chunks')
        BY <1>1, <1>2, UnderNone
  <2>2. HeadKept(g)'
        BY <1>16, <1>18 DEF HeadKept
  <2>3. PathOf(g, path') /\ AllUnder(g, blocks')
        BY <1>9, <1>15, <1>18
  <2>4. \A h \in g : lines'[h].kind = "heading" /\ h < index'
        BY <1>1, <1>8, <1>10, <1>18
  <2> QED BY <1>17, <2>1, <2>2, <2>3, <2>4 DEF Sections
<1> QED BY <1>1, <1>8, <1>18 DEF SectionsKept

\* What the actions after the parser keep of the headings.
LEMMA EndSections ==
    ASSUME TileInv, EndOfText, NEW H \in SUBSET DOMAIN lines, Sections(H)
    PROVE  Sections(H)'
<1>1. /\ lines' = lines /\ config' = config /\ phase' = "split" /\ index' = index
      /\ path' = path /\ blocks' = blocks /\ parts' = parts /\ current' = current
      /\ chunks' = chunks
      BY DEF EndOfText
<1>2. /\ \A i, s : AllUnder(i, s)' = AllUnder(i, s)
      /\ \A i, s : PlansUnder(i, s)' = PlansUnder(i, s)
      /\ \A i, s : NoneInside(i, s)' = NoneInside(i, s)
      BY <1>1, SameSections
<1>3. HeadKept(H)'
      BY <1>1 DEF Sections, HeadKept
<1> QED BY <1>1, <1>2, <1>3 DEF Sections

LEMMA KeepSections ==
    ASSUME TileInv, KeepBlock, NEW H \in SUBSET DOMAIN lines, Sections(H)
    PROVE  Sections(H)'
<1>1. /\ lines' = lines /\ config' = config /\ phase' = "split" /\ blocks # <<>>
      /\ blocks' = Tail(blocks) /\ parts' = Append(parts, Head(blocks))
      /\ current' = current /\ chunks' = chunks
      BY DEF KeepBlock
<1>2. /\ \A i, s : AllUnder(i, s)' = AllUnder(i, s)
      /\ \A i, s : PlansUnder(i, s)' = PlansUnder(i, s)
      /\ \A i, s : NoneInside(i, s)' = NoneInside(i, s)
      BY <1>1, SameSections
<1>3. blocks \in Seq(Blocks) /\ parts \in Seq(Blocks)
      BY DEF TileInv, ChunkingTypeOK
<1>4. /\ AllUnder(H, blocks) /\ AllUnder(H, parts) /\ HeadKept(H)
      BY DEF Sections
<1>5. /\ Head(blocks) = blocks[1] /\ blocks[1] \in Blocks /\ BlockUnder(H, blocks[1])
      /\ AllUnder(H, Tail(blocks))
      /\ \A h : Headed(blocks, h) => \/ Headed(Tail(blocks), h)
                                     \/ blocks[1].kind = "heading" /\ h \in ToSet(blocks[1].path)
      BY <1>1, <1>3, <1>4, UnderTail
<1> DEFINE b == blocks[1]
<1>6. parts' = Append(parts, b) /\ b \in Blocks /\ BlockUnder(H, b)
      BY <1>1, <1>5
<1>7. \A h : Headed(blocks, h) => \/ Headed(blocks', h)
                                  \/ b.kind = "heading" /\ h \in ToSet(b.path)
      BY <1>1, <1>5
<1> HIDE DEF b
<1>8. /\ AllUnder(H, parts') /\ \A h : Headed(parts, h) => Headed(parts', h)
      /\ \A h : b.kind = "heading" /\ h \in ToSet(b.path) => Headed(parts', h)
      BY <1>3, <1>4, <1>6, UnderAppend
<1>9. HeadKept(H)'
      BY <1>1, <1>4, <1>7, <1>8 DEF HeadKept
<1> QED BY <1>1, <1>2, <1>5, <1>8, <1>9 DEF Sections

LEMMA StartCutSections ==
    ASSUME TileInv, StartCut, NEW H \in SUBSET DOMAIN lines, Sections(H)
    PROVE  Sections(H)'
<1>1. /\ lines' = lines /\ config' = config /\ phase' = "cut"
      /\ blocks' = blocks /\ parts' = parts /\ current' = current
      /\ chunks' = chunks
      BY DEF StartCut
<1>2. /\ \A i, s : AllUnder(i, s)' = AllUnder(i, s)
      /\ \A i, s : PlansUnder(i, s)' = PlansUnder(i, s)
      /\ \A i, s : NoneInside(i, s)' = NoneInside(i, s)
      BY <1>1, SameSections
<1>3. HeadKept(H)'
      BY <1>1 DEF Sections, HeadKept
<1> QED BY <1>1, <1>2, <1>3 DEF Sections

\* The part that is cut is filed as its block is.
LEMMA CutPartUnder ==
    ASSUME TileInv, phase = "cut", cut.start < cut.end,
           NEW H \in SUBSET DOMAIN lines, Sections(H)
    PROVE  CutPart \in Blocks /\ BlockUnder(H, CutPart)
<1>1. /\ Head(blocks) = blocks[1] /\ blocks[1] \in Blocks
      /\ cut.end <= blocks[1].end /\ blocks[1].start <= cut.start
      /\ CutPart.start = cut.start /\ CutPart.end = cut.end
      /\ CutPart.kind = blocks[1].kind /\ CutPart.path = blocks[1].path
      /\ CutPart \in Blocks
      BY CutFacts DEF TileInv, LoopsTile
<1>2. blocks # <<>> /\ blocks \in Seq(Blocks) /\ lines \in Seq(LineTypes)
      BY DEF TileInv, LoopsTile, ChunkingTypeOK
<1>3. BlockUnder(H, blocks[1])
      BY <1>2, UnderTail DEF Sections
<1> DEFINE b == blocks[1]
           c == CutPart
<1>4. /\ b \in Blocks /\ c \in Blocks /\ BlockUnder(H, b)
      /\ c.kind = b.kind /\ c.path = b.path /\ b.start <= c.start /\ c.end <= b.end
      BY <1>1, <1>3
<1>5. \A h \in H : lines[h].kind = "heading"
      BY DEF Sections
<1> HIDE DEF b, c
<1>6. BlockUnder(H, c)
      BY <1>2, <1>4, <1>5, PartUnder
<1> QED BY <1>4, <1>6 DEF c

LEMMA CutSections ==
    ASSUME TileInv, CutWord, NEW H \in SUBSET DOMAIN lines, Sections(H)
    PROVE  Sections(H)'
<1>1. /\ lines' = lines /\ config' = config /\ phase = "cut" /\ phase' = "cut"
      /\ blocks' = blocks /\ current' = current /\ chunks' = chunks
      /\ parts' = parts \/ (parts' = Append(parts, CutPart) /\ cut.end > cut.start)
      BY DEF CutWord
<1>2. /\ \A i, s : AllUnder(i, s)' = AllUnder(i, s)
      /\ \A i, s : PlansUnder(i, s)' = PlansUnder(i, s)
      /\ \A i, s : NoneInside(i, s)' = NoneInside(i, s)
      BY <1>1, SameSections
<1>3. AllUnder(H, parts') /\ \A h : Headed(parts, h) => Headed(parts', h)
  <2>1. AllUnder(H, parts) /\ parts \in Seq(Blocks)
        BY DEF Sections, TileInv, ChunkingTypeOK
  <2>2. CASE parts' = parts
        BY <2>1, <2>2
  <2>3. CASE parts' = Append(parts, CutPart) /\ cut.end > cut.start
    <3>1. cut.start < cut.end
      <4>1. cut.start \in Int /\ cut.end \in Int
            BY <1>1, CutFacts, OffsetFacts DEF TileInv, ChunkingTypeOK
      <4> QED BY <2>3, <4>1
    <3> DEFINE c == CutPart
    <3>2. c \in Blocks /\ BlockUnder(H, c) /\ parts' = Append(parts, c)
          BY <1>1, <2>3, <3>1, CutPartUnder
    <3> HIDE DEF c
    <3> QED BY <2>1, <3>2, UnderAppend
  <2> QED BY <1>1, <2>2, <2>3
<1>4. HeadKept(H)'
      BY <1>1, <1>3 DEF Sections, HeadKept
<1> QED BY <1>1, <1>2, <1>3, <1>4 DEF Sections

LEMMA LastCutSections ==
    ASSUME TileInv, LastCut, NEW H \in SUBSET DOMAIN lines, Sections(H)
    PROVE  Sections(H)'
<1>1. /\ lines' = lines /\ config' = config /\ phase = "cut" /\ phase' = "split"
      /\ blocks' = Tail(blocks) /\ parts' = Append(parts, CutPart)
      /\ current' = current /\ chunks' = chunks /\ cut.end = Head(blocks).end
      BY DEF LastCut
<1>2. /\ \A i, s : AllUnder(i, s)' = AllUnder(i, s)
      /\ \A i, s : PlansUnder(i, s)' = PlansUnder(i, s)
      /\ \A i, s : NoneInside(i, s)' = NoneInside(i, s)
      BY <1>1, SameSections
<1>3. blocks \in Seq(Blocks) /\ parts \in Seq(Blocks) /\ TextEnd \in Nat
      BY OffsetFacts DEF TileInv, ChunkingTypeOK
<1>4. /\ AllUnder(H, blocks) /\ AllUnder(H, parts) /\ HeadKept(H) /\ blocks # <<>>
      BY <1>1 DEF Sections, TileInv, LoopsTile
<1>5. /\ Head(blocks) = blocks[1] /\ blocks[1] \in Blocks
      /\ AllUnder(H, Tail(blocks))
      /\ \A h : Headed(blocks, h) => \/ Headed(Tail(blocks), h)
                                     \/ blocks[1].kind = "heading" /\ h \in ToSet(blocks[1].path)
      BY <1>3, <1>4, UnderTail
<1>6. cut.start < cut.end
  <2>1. cut.start < cut.end \/ cut.end = blocks[1].start
        BY <1>1 DEF TileInv, LoopsTile
  <2>2. blocks[1].start < blocks[1].end /\ blocks[1].start \in Nat /\ blocks[1].end \in Nat
        BY <1>3, <1>5 DEF Blocks
  <2> QED BY <1>1, <1>5, <2>1, <2>2
<1> DEFINE c == CutPart
<1>7. parts' = Append(parts, c) /\ c \in Blocks /\ BlockUnder(H, c)
      BY <1>1, <1>6, CutPartUnder
<1>8. \A h : Headed(blocks, h) => \/ Headed(blocks', h)
                                  \/ c.kind = "heading" /\ h \in ToSet(c.path)
  <2>1. c.kind = blocks[1].kind /\ c.path = blocks[1].path
        BY <1>1, CutFacts DEF TileInv
  <2> QED BY <1>1, <1>5, <2>1
<1> HIDE DEF c
<1>9. /\ AllUnder(H, parts') /\ \A h : Headed(parts, h) => Headed(parts', h)
      /\ \A h : c.kind = "heading" /\ h \in ToSet(c.path) => Headed(parts', h)
      BY <1>3, <1>4, <1>7, UnderAppend
<1>10. HeadKept(H)'
       BY <1>1, <1>4, <1>8, <1>9 DEF HeadKept
<1> QED BY <1>1, <1>2, <1>5, <1>9, <1>10 DEF Sections

LEMMA AllSplitSections ==
    ASSUME TileInv, AllSplit, NEW H \in SUBSET DOMAIN lines, Sections(H)
    PROVE  Sections(H)'
<1>1. /\ lines' = lines /\ config' = config /\ phase' = "pack"
      /\ blocks = <<>> /\ blocks' = parts /\ parts' = <<>>
      /\ current' = current /\ chunks' = chunks
      BY DEF AllSplit
<1>2. /\ \A i, s : AllUnder(i, s)' = AllUnder(i, s)
      /\ \A i, s : PlansUnder(i, s)' = PlansUnder(i, s)
      /\ \A i, s : NoneInside(i, s)' = NoneInside(i, s)
      BY <1>1, SameSections
<1>3. AllUnder(H, <<>>) /\ \A h : ~Headed(<<>>, h)
      BY UnderNone
<1>4. HeadKept(H)'
      BY <1>1, <1>3 DEF Sections, HeadKept
<1> QED BY <1>1, <1>2, <1>3, <1>4 DEF Sections

\* A chunk is filed as its first block is.
LEMMA PlannedUnder ==
    ASSUME TileInv, phase = "pack", current # <<>>,
           NEW H \in SUBSET DOMAIN lines, Sections(H)
    PROVE  \E c \in ChunkPlans :
               /\ Planned(current) = Append(chunks, c)
               /\ SpanUnder(H, c.base, c.end, c.path)
               /\ \A h : FirstHeaded(current, h) => h \in ToSet(c.path)
<1>1. PICK c \in ChunkPlans :
          /\ Planned(current) = Append(chunks, c)
          /\ c.base = current[1].start /\ c.end = current[Len(current)].end
          /\ \E m \in 1..Len(current) :
                 /\ c.path = current[m].path
                 /\ current[1].kind # "blank" => m = 1
      BY PlannedFacts DEF TileInv
<1>2. PICK m \in 1..Len(current) :
          /\ c.path = current[m].path
          /\ current[1].kind # "blank" => m = 1
      BY <1>1
<1>3. /\ lines \in Seq(LineTypes) /\ current \in Seq(Blocks)
      /\ \E z : Tile(current, current[1].start, z)
      BY PackFacts DEF TileInv, ChunkingTypeOK
<1>4. /\ c.end = current[Len(current)].end /\ c.base <= current[m].start
      /\ current[m].start < current[m].end /\ current[m].end <= c.end
      /\ current[m].start \in Nat /\ current[m].end \in Nat
      BY <1>1, <1>3, TileBounds
<1>5. c.base \in Nat /\ c.end \in Nat
      BY <1>3, OffsetFacts DEF ChunkPlans
<1>6. /\ \A h \in H : lines[h].kind = "heading"
      /\ BlockUnder(H, current[m])
      BY DEF Sections, AllUnder
<1> DEFINE o(h) == Offset(h)
<1>7. \A h \in H : o(h) <= c.base \/ c.end <= o(h)
      BY <1>1 DEF Sections, NoneInside
<1>8. \A h \in H : o(h) \in Nat
      BY <1>3, <1>6, HeadingFacts, OffsetFacts
<1> HIDE DEF o
<1>9. \A h \in H : (o(h) <= c.base) = (o(h) <= current[m].start)
      BY <1>4, <1>5, <1>7, <1>8
<1>10. OpenAt(H, c.base) = OpenAt(H, current[m].start)
       BY <1>9, OpenSame DEF o
<1>11. /\ ToSet(c.path) \subseteq H
       /\ Stepwise(H) => ToSet(c.path) = OpenAt(H, c.base)
       BY <1>2, <1>6, <1>10 DEF BlockUnder
<1>12. SpanUnder(H, c.base, c.end, c.path)
       BY <1>7, <1>11 DEF SpanUnder, o
<1>13. \A h : FirstHeaded(current, h) => h \in ToSet(c.path)
       BY <1>2 DEF FirstHeaded
<1> QED BY <1>1, <1>12, <1>13

\* One block among those being packed, the first or after others that it follows.
LEMMA PackedUnder ==
    ASSUME lines \in Seq(LineTypes), NEW H, H \subseteq 1..Len(lines),
           NEW b \in Blocks, BlockUnder(H, b)
    PROVE  /\ AllUnder(H, <<b>>) /\ NoneInside(H, <<b>>)
           /\ \A h : b.kind = "heading" /\ h \in ToSet(b.path) => FirstHeaded(<<b>>, h)
<1>1. Len(<<b>>) = 1 /\ <<b>>[1] = b /\ <<b>> # <<>> /\ 1..1 = {1}
      OBVIOUS
<1>2. AllUnder(H, <<b>>)
      BY <1>1 DEF AllUnder
<1>3. NoneInside(H, <<b>>)
  <2>1. ASSUME NEW h \in H PROVE Offset(h) <= b.start \/ b.end <= Offset(h)
    <3>1. h \in 1..(Len(lines) + 1)
          BY LenProperties
    <3>2. Offset(h) \in Nat /\ b.start \in Nat
          BY <3>1, OffsetFacts DEF Blocks
    <3>3. \/ Offset(h) < b.start \/ b.end <= Offset(h) \/ Offset(h) = b.start
          BY DEF BlockUnder
    <3> QED BY <3>2, <3>3
  <2> QED BY <1>1, <2>1 DEF NoneInside
<1>4. \A h : b.kind = "heading" /\ h \in ToSet(b.path) => FirstHeaded(<<b>>, h)
      BY <1>1 DEF FirstHeaded
<1> QED BY <1>2, <1>3, <1>4

LEMMA PackSections ==
    ASSUME TileInv, PackBlock, NEW H \in SUBSET DOMAIN lines, Sections(H)
    PROVE  Sections(H)'
<1>1. /\ lines' = lines /\ config' = config /\ phase = "pack" /\ phase' = "pack"
      /\ blocks # <<>> /\ blocks' = Tail(blocks) /\ parts' = parts
      BY DEF PackBlock
<1>2. /\ \A i, s : AllUnder(i, s)' = AllUnder(i, s)
      /\ \A i, s : PlansUnder(i, s)' = PlansUnder(i, s)
      /\ \A i, s : NoneInside(i, s)' = NoneInside(i, s)
      BY <1>1, SameSections
<1>3. /\ blocks \in Seq(Blocks) /\ current \in Seq(Blocks) /\ chunks \in Seq(ChunkPlans)
      /\ lines \in Seq(LineTypes)
      BY DEF TileInv, ChunkingTypeOK
<1>4. /\ \A h \in H : lines[h].kind = "heading"
      /\ AllUnder(H, blocks) /\ AllUnder(H, parts) /\ AllUnder(H, current)
      /\ NoneInside(H, current) /\ PlansUnder(H, chunks) /\ HeadKept(H)
      BY DEF Sections
<1>5. /\ Head(blocks) = blocks[1] /\ blocks[1] \in Blocks /\ BlockUnder(H, blocks[1])
      /\ AllUnder(H, Tail(blocks))
      /\ \A h : Headed(blocks, h) => \/ Headed(Tail(blocks), h)
                                     \/ blocks[1].kind = "heading" /\ h \in ToSet(blocks[1].path)
      BY <1>1, <1>3, <1>4, UnderTail
<1>6. parts = <<>> /\ StartOf(blocks, TextEnd) = blocks[1].start
      BY <1>1 DEF TileInv, LoopsTile, StartOf
<1> DEFINE b == blocks[1]
<1>7. /\ b \in Blocks /\ BlockUnder(H, b) /\ b.start \in Nat /\ b.end \in Nat
      /\ \A h : Headed(blocks, h) => \/ Headed(blocks', h)
                                     \/ b.kind = "heading" /\ h \in ToSet(b.path)
      BY <1>1, <1>3, <1>5, OffsetFacts DEF Blocks
<1>8. \/ chunks' = Planned(current) /\ current' = <<b>> /\ current # <<>>
      \/ chunks' = chunks /\ current' = Append(current, b)
         /\ (current = <<>> \/ b.kind # "heading")
      BY <1>5 DEF PackBlock
<1>9. current # <<>> => current[Len(current)].end = b.start
      BY <1>1, <1>6, PackFacts
<1> HIDE DEF b
<1>10. H \subseteq 1..Len(lines)
       BY <1>3, <1>4, HeadingFacts
<1>11. \A h : ~Headed(parts, h)
       BY <1>6, UnderNone
<1>12. /\ AllUnder(H, <<b>>) /\ NoneInside(H, <<b>>)
       /\ \A h : b.kind = "heading" /\ h \in ToSet(b.path) => FirstHeaded(<<b>>, h)
       BY <1>3, <1>7, <1>10, PackedUnder
<1>13. CASE chunks' = Planned(current) /\ current' = <<b>> /\ current # <<>>
  <2>1. PICK c \in ChunkPlans :
            /\ Planned(current) = Append(chunks, c)
            /\ SpanUnder(H, c.base, c.end, c.path)
            /\ \A h : FirstHeaded(current, h) => h \in ToSet(c.path)
        BY <1>1, <1>13, PlannedUnder
  <2>2. chunks' = Append(chunks, c)
        BY <1>13, <2>1
  <2>3. /\ PlansUnder(H, chunks')
        /\ \A h : PlanHas(chunks, h) => PlanHas(chunks', h)
        /\ \A h : h \in ToSet(c.path) => PlanHas(chunks', h)
        BY <1>3, <1>4, <2>1, <2>2, UnderAppend
  <2>4. /\ AllUnder(H, current') /\ NoneInside(H, current')
        /\ \A h : b.kind = "heading" /\ h \in ToSet(b.path) => FirstHeaded(current', h)
        BY <1>12, <1>13
  <2>5. \A h \in H : Headed(blocks', h) \/ FirstHeaded(current', h) \/ PlanHas(chunks', h)
        BY <1>4, <1>7, <1>11, <2>1, <2>3, <2>4 DEF HeadKept
  <2>6. HeadKept(H)'
        BY <2>5 DEF HeadKept
  <2> QED BY <1>1, <1>2, <1>4, <1>5, <2>3, <2>4, <2>6 DEF Sections
<1>14. CASE chunks' = chunks /\ current' = Append(current, b)
            /\ (current = <<>> \/ b.kind # "heading")
  <2>1. AllUnder(H, current')
        BY <1>3, <1>4, <1>7, <1>14, UnderAppend
  <2>2. /\ NoneInside(H, current')
        /\ \A h : FirstHeaded(current, h) => FirstHeaded(current', h)
        /\ \A h : b.kind = "heading" /\ h \in ToSet(b.path) => FirstHeaded(current', h)
    <3>1. CASE current = <<>>
      <4>1. current' = <<b>>
            BY <1>14, <3>1
      <4> QED BY <1>12, <3>1, <4>1, UnderNone
    <3>2. CASE current # <<>> /\ b.kind # "heading"
      <4>1. /\ Len(current) \in Nat \ {0} /\ Len(current') = Len(current) + 1
            /\ current'[Len(current) + 1] = b
            /\ \A i \in 1..Len(current) : current'[i] = current[i]
            BY <1>3, <1>7, <1>14, <3>2, EmptySeq, LenProperties, AppendProperties
      <4>2. current' # <<>> /\ current'[1] = current[1] /\ current'[Len(current')] = b
            BY <4>1
      <4>3. ASSUME NEW h \in H PROVE Offset(h) <= current[1].start \/ b.end <= Offset(h)
        <5>1. Offset(h) <= current[1].start \/ b.start <= Offset(h)
              BY <1>4, <1>9, <3>2 DEF NoneInside
        <5>2. Offset(h) < b.start \/ b.end <= Offset(h)
              BY <1>7, <3>2 DEF BlockUnder
        <5>3. Offset(h) \in Nat
          <6>1. \A x \in H : Offset(x) \in 1..TextEnd
                BY <1>3, <1>4, HeadingFacts, Zenon
          <6>2. TextEnd \in Nat
                BY <1>3, OffsetFacts, Zenon
          <6> QED BY <6>1, <6>2
        <5> QED BY <1>7, <5>1, <5>2, <5>3
      <4>4. NoneInside(H, current')
            BY <4>2, <4>3 DEF NoneInside
      <4> QED BY <3>2, <4>2, <4>4 DEF FirstHeaded
    <3> QED BY <1>14, <3>1, <3>2
  <2>3. HeadKept(H)'
        BY <1>4, <1>7, <1>11, <1>14, <2>2 DEF HeadKept
  <2> QED BY <1>1, <1>2, <1>4, <1>5, <1>14, <2>1, <2>2, <2>3 DEF Sections
<1> QED BY <1>8, <1>13, <1>14

LEMMA LastSections ==
    ASSUME TileInv, LastBlock, NEW H \in SUBSET DOMAIN lines, Sections(H)
    PROVE  Sections(H)'
<1>1. /\ lines' = lines /\ config' = config /\ phase = "pack" /\ phase' = "done"
      /\ blocks = <<>> /\ blocks' = blocks /\ parts' = parts
      /\ chunks' = Planned(current) /\ current' = <<>>
      BY DEF LastBlock
<1>2. /\ \A i, s : AllUnder(i, s)' = AllUnder(i, s)
      /\ \A i, s : PlansUnder(i, s)' = PlansUnder(i, s)
      /\ \A i, s : NoneInside(i, s)' = NoneInside(i, s)
      BY <1>1, SameSections
<1>3. current # <<>> /\ chunks \in Seq(ChunkPlans)
      BY <1>1, PackFacts
<1>4. /\ AllUnder(H, blocks) /\ AllUnder(H, parts) /\ PlansUnder(H, chunks) /\ HeadKept(H)
      BY DEF Sections
<1>5. PICK c \in ChunkPlans :
          /\ Planned(current) = Append(chunks, c)
          /\ SpanUnder(H, c.base, c.end, c.path)
          /\ \A h : FirstHeaded(current, h) => h \in ToSet(c.path)
      BY <1>1, <1>3, PlannedUnder
<1>6. chunks' = Append(chunks, c)
      BY <1>1, <1>5
<1>7. /\ PlansUnder(H, chunks')
      /\ \A h : PlanHas(chunks, h) => PlanHas(chunks', h)
      /\ \A h : h \in ToSet(c.path) => PlanHas(chunks', h)
      BY <1>3, <1>4, <1>5, <1>6, UnderAppend
<1>8. AllUnder(H, <<>>) /\ NoneInside(H, <<>>)
      BY UnderNone
<1>9. \A h \in H : Headed(blocks', h) \/ Headed(parts', h) \/ PlanHas(chunks', h)
      BY <1>1, <1>4, <1>5, <1>7 DEF HeadKept
<1>10. HeadKept(H)'
       BY <1>9 DEF HeadKept
<1> QED BY <1>1, <1>2, <1>4, <1>7, <1>8, <1>10 DEF Sections

LEMMA SectionsStep == ASSUME TileInv, SectionsKept, ChunkingNext PROVE SectionsKept'
<1>1. PICK H \in SUBSET DOMAIN lines : Sections(H)
      BY DEF SectionsKept
<1>2. CASE ParseBlock
      BY <1>1, <1>2, ParseSections
<1>3. CASE EndOfText \/ KeepBlock \/ StartCut \/ CutWord \/ LastCut
           \/ AllSplit \/ PackBlock \/ LastBlock
  <2>1. lines' = lines
        BY <1>3 DEF EndOfText, KeepBlock, StartCut, CutWord, LastCut, AllSplit, PackBlock,
                    LastBlock
  <2>2. ASSUME NEW g, g = H PROVE Sections(g)'
    <3>1. Sections(g) /\ g \in SUBSET DOMAIN lines
          BY <1>1, <2>2
    <3> QED BY <1>3, <3>1, EndSections, KeepSections, StartCutSections, CutSections,
               LastCutSections, AllSplitSections, PackSections, LastSections
  <2> QED BY <1>1, <2>1, <2>2 DEF SectionsKept
<1> QED BY <1>2, <1>3 DEF ChunkingNext

LEMMA InitSections == ASSUME ChunkingInit PROVE SectionsKept
<1>1. /\ blocks = <<>> /\ parts = <<>> /\ current = <<>> /\ chunks = <<>> /\ path = <<>>
      BY DEF ChunkingInit
<1>2. PICK H : H = {}
      OBVIOUS
<1>3. /\ AllUnder(H, <<>>) /\ NoneInside(H, <<>>) /\ PlansUnder(H, <<>>)
      BY UnderNone
<1>4. PathOf(H, <<>>)
  <2>1. ToSet(<<>>) = {} /\ Len(<<>>) = 0
        BY DEF ToSet
  <2> QED BY <1>2, <2>1 DEF PathOf
<1>5. Sections(H)
      BY <1>1, <1>2, <1>3, <1>4 DEF Sections, HeadKept
<1> QED BY <1>2, <1>5 DEF SectionsKept

\* When all is planned the headings there are are those the chunks are filed under.
LEMMA SectionsComeOut ==
    ASSUME TileInv, SectionsKept
    PROVE  SectionsEnclose
<1> SUFFICES ASSUME phase = "done" PROVE SectionsEnclose
    BY DEF SectionsEnclose
<1>1. PICK H \in SUBSET DOMAIN lines : Sections(H)
      BY DEF SectionsKept
<1>2. /\ lines \in Seq(LineTypes) /\ chunks \in Seq(ChunkPlans)
      /\ blocks = <<>> /\ parts = <<>> /\ current = <<>>
      BY DEF TileInv, ChunkingTypeOK, LoopsTile
<1>3. DOMAIN chunks = 1..Len(chunks)
      BY <1>2, LenProperties
<1> DEFINE headings == {i \in DOMAIN lines : \E c \in DOMAIN chunks : i \in ToSet(chunks[c].path)}
<1>4. headings = H
  <2>1. \A h \in H : PlanHas(chunks, h)
        BY <1>1, <1>2, UnderNone DEF Sections, HeadKept
  <2>2. \A h \in H : h \in headings
        BY <1>3, <2>1 DEF PlanHas
  <2>3. \A c \in DOMAIN chunks : ToSet(chunks[c].path) \subseteq H
        BY <1>1, <1>3 DEF Sections, PlansUnder, SpanUnder
  <2> QED BY <2>2, <2>3
<1>5. ASSUME Stepwise(H), NEW c \in DOMAIN chunks, WordsFrom(chunks[c].base, chunks[c].end) # {}
      PROVE  ToSet(chunks[c].path) = OpenAt(H, Least(WordsFrom(chunks[c].base, chunks[c].end)))
  <2> DEFINE base == chunks[c].base
             end == chunks[c].end
             words == WordsFrom(base, end)
             w == Least(words)
  <2>1. SpanUnder(H, base, end, chunks[c].path)
        BY <1>1, <1>3 DEF Sections, PlansUnder
  <2>2. base \in Nat /\ end \in Nat
    <3>1. chunks[c] \in ChunkPlans
          BY <1>2, <1>3, ElementOfSeq
    <3>2. TextEnd \in Nat
          BY <1>2, OffsetFacts, Zenon
    <3>3. base \in 1..TextEnd /\ end \in 1..TextEnd
          BY <3>1 DEF ChunkPlans
    <3> HIDE DEF base, end
    <3> QED BY <3>2, <3>3
  <2>3. words \in SUBSET Nat /\ words # {} /\ \A p \in words : base <= p /\ p < end /\ p \in Nat
        BY <1>5, <2>2 DEF WordsFrom
  <2> HIDE DEF words
  <2>4. w \in words
        BY <2>3, LeastFacts
  <2> HIDE DEF w
  <2>5. base <= w /\ w < end /\ w \in Nat
        BY <2>3, <2>4
  <2>6. \A h \in H : Offset(h) \in Nat
        BY <1>1, <1>2, HeadingFacts, OffsetFacts DEF Sections
  <2>7. \A h \in H : Offset(h) <= base \/ end <= Offset(h)
        BY <2>1 DEF SpanUnder
  <2>8. ToSet(chunks[c].path) = OpenAt(H, base)
        BY <1>5, <2>1 DEF SpanUnder
  <2> HIDE DEF base, end
  <2>9. \A h \in H : (Offset(h) <= base) = (Offset(h) <= w)
        BY <2>2, <2>5, <2>6, <2>7
  <2>10. OpenAt(H, base) = OpenAt(H, w)
         BY <2>9, OpenSame
  <2> QED BY <2>8, <2>10 DEF w, words, base, end
<1> DEFINE stepwise ==
        \A h \in headings :
            lines[h].level = 1 \/ \E k \in headings :
                /\ k < h /\ lines[k].level = lines[h].level - 1
                /\ \A j \in headings :
                       k < j /\ j < h => lines[j].level >= lines[h].level - 1
           OpenHere(i) == {h \in headings :
                          /\ Offset(h) <= i
                          /\ \A k \in headings :
                                 h < k /\ Offset(k) <= i => lines[k].level > lines[h].level}
<1>6. stepwise => Stepwise(H)
      BY <1>4 DEF Stepwise
<1>7. \A i : OpenHere(i) = OpenAt(H, i)
      BY <1>4 DEF OpenAt
<1> HIDE DEF headings
<1>8. stepwise =>
          \A c \in DOMAIN chunks :
              LET words == WordsFrom(chunks[c].base, chunks[c].end) IN
              words # {} => ToSet(chunks[c].path) = OpenHere(Least(words))
      BY <1>5, <1>6, <1>7
<1> QED BY <1>8 DEF SectionsEnclose, headings

-----------------------------------------------------------------------------
(* Chunking: the theorems                                                    *)

LEMMA ChunkingInvInit == ASSUME ChunkingInit PROVE ChunkingInv
BY InitFits, InitSections DEF ChunkingInv, FitInv, TileInv

LEMMA ChunkingInvNext == ASSUME ChunkingInv, [ChunkingNext]_chunkingVars PROVE ChunkingInv'
<1>1. CASE ChunkingNext
  <2>1. FitInv'
        BY <1>1, FitStep DEF ChunkingInv, FitInv, TileInv
  <2>2. SectionsKept'
        BY <1>1, SectionsStep DEF ChunkingInv, TileInv
  <2> QED BY <2>1, <2>2 DEF ChunkingInv, FitInv, TileInv
<1>2. CASE UNCHANGED chunkingVars
  <2>1. /\ lines' = lines /\ config' = config /\ phase' = phase /\ index' = index
        /\ path' = path /\ blocks' = blocks /\ cut' = cut /\ parts' = parts
        /\ current' = current /\ chunks' = chunks
        BY <1>2 DEF chunkingVars
  <2>2. /\ TextEnd' = TextEnd /\ Blocks' = Blocks /\ ChunkPlans' = ChunkPlans
        /\ \A i : Offset(i)' = Offset(i)
        /\ \A a, b : Tokens(a, b)' = Tokens(a, b)
        /\ \A a, b : WordsFrom(a, b)' = WordsFrom(a, b)
        /\ \A a, b : Fits(a, b)' = Fits(a, b)
        BY <2>1, SameText
  <2>3. ChunkingTypeOK'
        BY <2>1, <2>2 DEF ChunkingInv, ChunkingTypeOK
  <2>4. LoopsTile'
    <3>1. \A z : ChunksTile(z)' = ChunksTile(z)
          BY <2>1 DEF ChunksTile
    <3> QED BY <2>1, <2>2, <3>1 DEF ChunkingInv, LoopsTile
  <2>5. LoopsFit'
        BY <2>1, <2>2 DEF ChunkingInv, LoopsFit
  <2>6. FitsMaximum' /\ OverlapIsLeast'
        BY <2>1, KeepsChunks DEF ChunkingInv
  <2>7. SectionsKept'
    <3>1. PICK H \in SUBSET DOMAIN lines : Sections(H)
          BY DEF ChunkingInv, SectionsKept
    <3>2. /\ \A i, q : PathOf(i, q)' = PathOf(i, q)
          /\ \A i, s : AllUnder(i, s)' = AllUnder(i, s)
          /\ \A i, s : PlansUnder(i, s)' = PlansUnder(i, s)
          /\ \A i, s : NoneInside(i, s)' = NoneInside(i, s)
          BY <2>1, SameSections
    <3>3. ASSUME NEW g, g = H PROVE Sections(g)'
      <4>1. HeadKept(g)'
            BY <2>1, <3>1, <3>3 DEF Sections, HeadKept
      <4> QED BY <2>1, <3>1, <3>2, <3>3, <4>1 DEF Sections
    <3> QED BY <2>1, <3>1, <3>3 DEF SectionsKept
  <2> QED BY <2>1, <2>3, <2>4, <2>5, <2>6, <2>7 DEF ChunkingInv
<1> QED BY <1>1, <1>2

LEMMA ChunkingInvCovers == ASSUME ChunkingInv PROVE ChunksCover
BY TextComesBack, SectionsComeOut DEF ChunkingInv, TileInv, ChunksCover

\* Every configuration and every text, of any lines, takes the chunker through its
\* three loops with blocks and plans that are spans of the text.
THEOREM ChunkingTypeCorrect == ChunkingSpec => []ChunkingTypeOK
<1>1. ChunkingInv => ChunkingTypeOK
      BY DEF ChunkingInv
<1> QED BY <1>1, ChunkingInvInit, ChunkingInvNext, PTL DEF ChunkingSpec

\* The chunks of a text give it back word for word, none is longer than the maximum,
\* none repeats more than the overlap asks for and each is filed under the headings
\* that enclose it: whatever the text, however long, and whatever the configuration.
THEOREM ChunksAlwaysCover == ChunkingSpec => []ChunksCover
BY ChunkingInvInit, ChunkingInvNext, ChunkingInvCovers, PTL DEF ChunkingSpec

-----------------------------------------------------------------------------
(* The parts together.                                                       *)

\* Whatever part a behaviour is of, the state of every one keeps its type: a step is
\* one of a part, and the others stand still.
THEOREM KnowledgeTypeCorrect == KnowledgeSpec => []KnowledgeTypeOK
<1>1. KnowledgeSpec => IngestionSpec
  <2>1. KnowledgeInit => IngestionInit
        BY DEF KnowledgeInit
  <2>2. [KnowledgeNext]_knowledgeVars => [IngestionNext]_ingestionVars
        BY DEF KnowledgeNext, Others, knowledgeVars
  <2> QED BY <2>1, <2>2, PTL DEF KnowledgeSpec, IngestionSpec
<1>2. KnowledgeSpec => RetrievalSpec
  <2>1. KnowledgeInit => RetrievalInit
        BY DEF KnowledgeInit
  <2>2. [KnowledgeNext]_knowledgeVars => [RetrievalNext]_retrievalVars
        BY DEF KnowledgeNext, Others, knowledgeVars
  <2> QED BY <2>1, <2>2, PTL DEF KnowledgeSpec, RetrievalSpec
<1>3. KnowledgeSpec => GraphSpec
  <2>1. KnowledgeInit => GraphInit
        BY DEF KnowledgeInit
  <2>2. [KnowledgeNext]_knowledgeVars => [GraphNext]_graphVars
        BY DEF KnowledgeNext, Others, knowledgeVars
  <2> QED BY <2>1, <2>2, PTL DEF KnowledgeSpec, GraphSpec
<1>4. KnowledgeSpec => IndexingSpec
  <2>1. KnowledgeInit => IndexingInit
        BY DEF KnowledgeInit
  <2>2. [KnowledgeNext]_knowledgeVars => [IndexingNext]_indexingVars
        BY DEF KnowledgeNext, Others, knowledgeVars
  <2> QED BY <2>1, <2>2, PTL DEF KnowledgeSpec, IndexingSpec
<1>5. KnowledgeSpec => ChunkingSpec
  <2>1. KnowledgeInit => ChunkingInit
        BY DEF KnowledgeInit
  <2>2. [KnowledgeNext]_knowledgeVars => [ChunkingNext]_chunkingVars
        BY DEF KnowledgeNext, Others, knowledgeVars
  <2> QED BY <2>1, <2>2, PTL DEF KnowledgeSpec, ChunkingSpec
<1> QED BY <1>1, <1>2, <1>3, <1>4, <1>5, IngestionTypeCorrect, RetrievalTypeCorrect,
           GraphTypeCorrect, IndexingTypeCorrect, ChunkingTypeCorrect, PTL
        DEF KnowledgeTypeOK

=============================================================================
