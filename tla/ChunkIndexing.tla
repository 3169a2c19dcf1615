--------------------------- MODULE ChunkIndexing ---------------------------
(* The index of one document version: its chunks, their contextual summaries  *)
(* and their dense and sparse vectors, made by runs of the handler of         *)
(* index_document_version.  A run is one transaction that stays open while    *)
(* the provider is called, batch by batch, and reuses whatever it finds       *)
(* current.  Two runs may overlap: the job of a worker that lost its lease is *)
(* claimed again while the first attempt still waits for the provider.        *)
(*                                                                            *)
(* A text is the number of its chunk, a vector the text, the summary and the  *)
(* model it was computed from: what its metadata records of it.               *)
EXTENDS Integers, FiniteSets, SequencesExt

CONSTANTS
    Runs,           \* runs that may overlap
    Models,         \* models a slot may name
    Nothing,        \* NULL
    LastOrdinal,    \* the version has the chunks 1..LastOrdinal
    BatchSize,      \* DASHSCOPE_EMBEDDING_BATCH_SIZE
    MaxRetries,     \* retries of one call
    LastStart,      \* bound: runs started
    LastEdit        \* bound: changes of the slots

Ordinals == 1..LastOrdinal

Vector == [text : Ordinals, summary : Models, model : Models]

ASSUME IndexingAssumption ==
    /\ Nothing \notin Models \cup Vector
    /\ LastOrdinal \in Nat \ {0} /\ BatchSize \in Nat \ {0}
    /\ {MaxRetries, LastStart, LastEdit} \subseteq Nat

VARIABLES
    indexed,    \* the committed rows of the version
    slots,      \* the model of each slot
    run,        \* [Runs -> Run]
    starts,     \* runs started
    edits       \* changes of the slots

indexingVars == <<indexed, slots, run, starts, edits>>

SparseRows == SUBSET Vector

Index ==
    [chunked : BOOLEAN, summary : [Ordinals -> Models \cup {Nothing}],
     dense : [Ordinals -> Vector \cup {Nothing}], sparse : [Ordinals -> SparseRows]]

Models3 == [dense : Models, sparse : Models, context : Models]

\* `seen` is the index as the run read it and `own` as the run has it now; of
\* the `pending` chunks the first `asked` have been sent to the provider.
Run ==
    [step : {"idle"}] \cup [step : {"waiting"}, models : Models3]
        \cup [step : {"dense", "sparse"}, models : Models3, seen : Index, own : Index,
              pending : Seq(Ordinals), asked : 0..LastOrdinal, vectors : Seq(Vector),
              tries : 0..MaxRetries]

IdleRun == [step |-> "idle"]

IndexingTypeOK ==
    /\ indexed \in Index /\ slots \in Models3
    /\ run \in [Runs -> Run]
    /\ starts \in 0..LastStart /\ edits \in 0..LastEdit

EmptyIndex ==
    [chunked |-> FALSE, summary |-> [c \in Ordinals |-> Nothing],
     dense |-> [c \in Ordinals |-> Nothing], sparse |-> [c \in Ordinals |-> {}]]

IndexingInit ==
    /\ indexed = EmptyIndex
    /\ slots \in Models3
    /\ run = [r \in Runs |-> IdleRun]
    /\ starts = 0 /\ edits = 0

----------------------------------------------------------------------------
(* What a run finds and what is left to do.                                  *)

\* What the provider computes for the input built from a chunk.
VectorOf(idx, c, model) == [text |-> c, summary |-> idx.summary[c], model |-> model]

\* Chunks and summaries are made once and reused whatever the slots name now.
Prepared(idx) == [idx EXCEPT !.chunked = TRUE]

Summarised(idx, models) ==
    [idx EXCEPT !.summary =
        [c \in Ordinals |-> IF @[c] = Nothing THEN models.context ELSE @[c]]]

\* A vector is reused if its metadata names the model and the input of today.
DenseIsCurrent(idx, c, models) == idx.dense[c] = VectorOf(idx, c, models.dense)

SparseIsCurrent(idx, c, models) == VectorOf(idx, c, models.sparse) \in idx.sparse[c]

\* The numbers of a finite set, the least first.
InOrder(S) ==
    [i \in 1..Cardinality(S) |-> CHOOSE c \in S : Cardinality({d \in S : d <= c}) = i]

DensePending(idx, models) == InOrder({c \in Ordinals : ~DenseIsCurrent(idx, c, models)})
SparsePending(idx, models) == InOrder({c \in Ordinals : ~SparseIsCurrent(idx, c, models)})

Embedding(step, models, seen, own, pending) ==
    [step |-> step, models |-> models, seen |-> seen, own |-> own, pending |-> pending,
     asked |-> 0, vectors |-> <<>>, tries |-> 0]

Begun(models) ==
    LET own == Summarised(Prepared(indexed), models) IN
    Embedding("dense", models, indexed, own, DensePending(own, models))

\* A run that has inserted the chunks and not committed them.
Creates(r) == run[r].step \in {"dense", "sparse"} /\ ~run[r].seen.chunked

\* The rows that hold a dense vector a run has written stay locked until it ends.
HoldsChunks(r) == run[r].step = "sparse" /\ run[r].own.dense # run[r].seen.dense

----------------------------------------------------------------------------
(* A call of the provider.                                                   *)

MoreToAsk(r) == run[r].step \in {"dense", "sparse"} /\ run[r].asked < Len(run[r].pending)
AllAsked(r, step) == run[r].step = step /\ run[r].asked = Len(run[r].pending)

Batch(r) ==
    LET last == run[r].asked + BatchSize
        length == Len(run[r].pending)
    IN  SubSeq(run[r].pending, run[r].asked + 1, IF last < length THEN last ELSE length)

ModelAsked(r) == IF run[r].step = "dense" THEN run[r].models.dense ELSE run[r].models.sparse

\* The items of an answer come in any order, each with the place of its text in
\* the batch; one of them may be missing.
AnswersTo(n) ==
    {a \in UNION {[1..k -> 1..n] : k \in {n - 1, n}} :
        \A i, j \in DOMAIN a : a[i] = a[j] => i = j}

\* A definition whose name ends in Fault is the definition after it with a
\* plausible bug. No specification uses it: the properties must notice it.
SortedItemsFault(answer) == answer

\* sorted by index, or by text_index
SortedItems(answer) == InOrder(ToSet(answer))

\* The vectors read out of an answer, in the order the items are read in.
Extracted(r, answer) ==
    LET places == SortedItems(answer) IN
    [i \in DOMAIN places |-> VectorOf(run[r].own, Batch(r)[places[i]], ModelAsked(r))]

----------------------------------------------------------------------------
(* The runs.                                                                 *)

\* A run reads the slots and the index. If another one is inserting the chunks,
\* its own insert waits for that one to end.
StartRun(r) ==
    /\ run[r].step = "idle" /\ starts < LastStart
    /\ run' = [run EXCEPT ![r] =
           IF ~indexed.chunked /\ \E q \in Runs : Creates(q)
           THEN [step |-> "waiting", models |-> slots] ELSE Begun(slots)]
    /\ starts' = starts + 1
    /\ UNCHANGED <<indexed, slots, edits>>

\* The insert fails if the other run committed the chunks, and goes on if not.
StopWaiting(r) ==
    /\ run[r].step = "waiting"
    /\ \A q \in Runs : ~Creates(q)
    /\ run' = [run EXCEPT ![r] = IF indexed.chunked THEN IdleRun ELSE Begun(run[r].models)]
    /\ UNCHANGED <<indexed, slots, starts, edits>>

\* A batch is answered, and the call cost no more than the limit of one call.
BatchAnswered(r) ==
    /\ MoreToAsk(r)
    /\ \E answer \in AnswersTo(Len(Batch(r))) :
           run' = [run EXCEPT
                      ![r].asked = @ + Len(Batch(r)),
                      ![r].vectors = @ \o Extracted(r, answer),
                      ![r].tries = 0]
    /\ UNCHANGED <<indexed, slots, starts, edits>>

RetryCallFault(r) ==
    /\ MoreToAsk(r)
    /\ run[r].tries <= MaxRetries
    /\ run' = [run EXCEPT ![r].tries = @ + 1]
    /\ UNCHANGED <<indexed, slots, starts, edits>>

\* A server error or a lost connection is tried again.
RetryCall(r) ==
    /\ MoreToAsk(r)
    /\ run[r].tries < MaxRetries
    /\ run' = [run EXCEPT ![r].tries = @ + 1]
    /\ UNCHANGED <<indexed, slots, starts, edits>>

\* The error leaves the handler and closes its session: nothing is committed.
FailRun(r) ==
    /\ run' = [run EXCEPT ![r] = IdleRun]
    /\ UNCHANGED <<indexed, slots, starts, edits>>

\* A client error, an answer that is no list of vectors, or no retry left.
CallRefused(r) == MoreToAsk(r) /\ FailRun(r)

\* The answer cost more than the limit: it was paid, and it is not used.
CallOverBudget(r) == MoreToAsk(r) /\ FailRun(r)

\* The answers to all batches together are counted.
WrongCount(r) ==
    /\ \E step \in {"dense", "sparse"} : AllAsked(r, step)
    /\ Len(run[r].vectors) # Len(run[r].pending)
    /\ FailRun(r)

\* The vectors of the pending chunks, in their order.
VectorFor(r, c) ==
    run[r].vectors[CHOOSE i \in DOMAIN run[r].pending : run[r].pending[i] = c]

StoreDense(r) ==
    /\ AllAsked(r, "dense")
    /\ Len(run[r].vectors) = Len(run[r].pending)
    /\ run[r].pending # <<>> => \A q \in Runs \ {r} : ~HoldsChunks(q)
    /\ LET mine == run[r]
           own == [mine.own EXCEPT
                      !.dense = [c \in Ordinals |->
                          IF c \in ToSet(mine.pending) THEN VectorFor(r, c) ELSE @[c]],
                      !.sparse = indexed.sparse]
       IN  run' = [run EXCEPT ![r] =
               Embedding("sparse", mine.models, mine.seen, own,
                         SparsePending(own, mine.models))]
    /\ UNCHANGED <<indexed, slots, starts, edits>>

\* Each sparse vector replaces those of other models and inputs, and the run is
\* committed. The chunks it did not write keep what others made of them.  No
\* provider is called from the first sparse row to the commit: the two are one
\* step, and Retrieval has what two runs leave that overlap even there.
FinishRun(r) ==
    /\ AllAsked(r, "sparse")
    /\ Len(run[r].vectors) = Len(run[r].pending)
    /\ LET mine == run[r] IN
       indexed' = [chunked |-> TRUE,
                 summary |-> IF mine.seen.chunked THEN indexed.summary ELSE mine.own.summary,
                 dense |-> [c \in Ordinals |->
                     IF mine.own.dense[c] # mine.seen.dense[c]
                     THEN mine.own.dense[c] ELSE indexed.dense[c]],
                 sparse |-> [c \in Ordinals |->
                     IF c \in ToSet(mine.pending) THEN {VectorFor(r, c)} ELSE indexed.sparse[c]]]
    /\ run' = [run EXCEPT ![r] = IdleRun]
    /\ UNCHANGED <<slots, starts, edits>>

\* The worker dies: PostgreSQL rolls its transaction back.
RunDies(r) == run[r].step # "idle" /\ FailRun(r)

\* An operator gives a slot another model.
ChangeSlots ==
    /\ edits < LastEdit
    /\ edits' = edits + 1
    /\ slots' \in Models3 \ {slots}
    /\ UNCHANGED <<indexed, run, starts>>

IndexingNext ==
    \/ \E r \in Runs :
           \/ StartRun(r) \/ StopWaiting(r)
           \/ BatchAnswered(r) \/ RetryCall(r)
           \/ CallRefused(r) \/ CallOverBudget(r) \/ WrongCount(r)
           \/ StoreDense(r) \/ FinishRun(r) \/ RunDies(r)
    \/ ChangeSlots

IndexingSpec == IndexingInit /\ [][IndexingNext]_indexingVars

----------------------------------------------------------------------------
(* Properties.                                                               *)

\* Every stored vector was computed from the text and the summary of the chunk
\* it is stored with, however the batches were cut, retried and answered, and
\* whichever runs overlapped.
VectorsMatchChunks ==
    \A c \in Ordinals :
        \A v \in indexed.sparse[c] \cup ({indexed.dense[c]} \ {Nothing}) :
            v.text = c /\ v.summary = indexed.summary[c]

\* A version is indexed as a whole or not at all: a run that fails in the middle
\* leaves no chunk, no summary and no vector of its own behind.
NothingPartial ==
    \A c \in Ordinals :
        /\ (indexed.summary[c] # Nothing) = indexed.chunked
        /\ (indexed.dense[c] # Nothing) = indexed.chunked
        /\ (indexed.sparse[c] # {}) = indexed.chunked

\* A run that succeeds leaves the vectors of the models it was started with and
\* no others, whatever it reused, unless the vectors are no longer those that it
\* read, the dense ones when it began and the sparse ones after its dense ones.
CompletedIsCurrent ==
    [][\A r \in Runs :
        /\ FinishRun(r)
        /\ indexed.dense = run[r].seen.dense /\ indexed.sparse = run[r].own.sparse
        => \A c \in Ordinals :
               /\ indexed'.dense[c] = VectorOf(indexed', c, run[r].models.dense)
               /\ indexed'.sparse[c] = {VectorOf(indexed', c, run[r].models.sparse)}]_indexingVars

\* Whatever runs overlap, die or are answered out of order: vectors belong to their
\* chunks, a version is indexed as a whole, and what a run leaves is current.
IndexIsWhole ==
    /\ [](VectorsMatchChunks /\ NothingPartial)
    /\ CompletedIsCurrent

=============================================================================
