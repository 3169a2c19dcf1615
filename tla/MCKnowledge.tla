----------------------------- MODULE MCKnowledge ----------------------------
(* Small instances of the parts that make knowledge and find it.  They     *)
(* share no state, so that a behaviour is one of one part, while the       *)
(* others stay in their initial states.                                    *)
EXTENDS Ingestion, MCRetrieval, GraphProjection, ChunkIndexing, MCChunking, TLC

VARIABLE stage    \* the part a behaviour is of

knowledgeVars ==
    <<ingestionVars, retrievalVars, graphVars, indexingVars, chunkingVars,
      stage>>

Others(part) ==
    /\ part # "ingestion" => UNCHANGED ingestionVars
    /\ part # "retrieval" => UNCHANGED retrievalVars
    /\ part # "graph" => UNCHANGED graphVars
    /\ part # "indexing" => UNCHANGED indexingVars
    /\ part # "chunking" => UNCHANGED chunkingVars

KnowledgeInit ==
    /\ stage \in {"ingestion", "retrieval", "graph", "indexing", "chunking"}
    /\ IngestionInit
    /\ RetrievalInit
    /\ GraphInit
    /\ stage # "graph" =>
           stored = {}
    /\ IndexingInit
    /\ stage # "indexing" =>
           slots = CHOOSE models \in Models3 : TRUE
    /\ ChunkingInit
    /\ stage # "chunking" =>
           /\ lines = <<CHOOSE line \in LineTypes : TRUE>>
           /\ config = CHOOSE c \in Configs : TRUE

KnowledgeNext ==
    /\ UNCHANGED stage /\ Others(stage)
    /\ \/ stage = "ingestion" /\ IngestionNext
       \/ stage = "retrieval" /\ RetrievalNext
       \/ stage = "graph" /\ GraphNext
       \/ stage = "indexing" /\ IndexingNext
       \/ stage = "chunking" /\ ChunkingNext

KnowledgeSpec == KnowledgeInit /\ [][KnowledgeNext]_knowledgeVars

\* The state of every part has its type.
KnowledgeTypeOK ==
    /\ IngestionTypeOK
    /\ RetrievalTypeOK
    /\ GraphTypeOK
    /\ IndexingTypeOK
    /\ ChunkingTypeOK

\* No handler and no text is different from another.
KnowledgeSymmetry == Permutations(Handlers) \cup Permutations(Contents)

=============================================================================
