-------------------------- MODULE GraphProjection ---------------------------
(* The rebuild of a workspace's graph: an operator's command takes a row of   *)
(* readiness through its states, loads the chunks from the tables, deletes    *)
(* the graph and writes it again, one query after another, while ingestion    *)
(* goes on.  A failure of a query ends it in "failed"; a crash leaves it      *)
(* where it was.                                                             *)
EXTENDS Integers, FiniteSets

CONSTANTS
    Operators,      \* commands that may run
    Watermarks,
    NoWatermark,    \* NULL
    LastChunk,      \* bound: chunks of the workspace, each linked to the next
    GraphLimit      \* the limit of a search

ASSUME GraphAssumption == LastChunk \in Nat /\ GraphLimit \in Nat \ {0} /\ NoWatermark \notin Watermarks

VARIABLES
    stored,         \* the chunks in the tables
    projection,     \* the row of readiness
    graph,          \* the nodes and links of the graph store
    command,        \* the operators' processes
    smoke           \* a graph search and what it reports

graphVars == <<stored, projection, graph, command, smoke>>

GraphChunks == 1..LastChunk
Statuses == {"disabled", "pending_backfill", "indexing", "ready", "stale", "failed"}
Failures == {"none", "unavailable", "query_failed"}

Row == [status : Statuses, watermark : Watermarks \cup {NoWatermark},
        error : Failures, indexed : BOOLEAN]

\* What a process holds: `held` is the row as its session has it, `loaded` the
\* snapshot it writes.
Command == [pc : {"idle", "read", "pending", "indexing", "loaded", "deleted", "rooted",
                  "chunked", "linked", "broken"},
            watermark : Watermarks \cup {NoWatermark}, held : Row,
            loaded : SUBSET GraphChunks, failure : Failures]

Links(chunks) == {c \in chunks : c + 1 \in chunks}
NoRow == [status |-> "disabled", watermark |-> NoWatermark, error |-> "none", indexed |-> FALSE]
NoCommand == [pc |-> "idle", watermark |-> NoWatermark, held |-> NoRow, loaded |-> {},
              failure |-> "none"]

GraphTypeOK ==
    /\ stored \subseteq GraphChunks
    /\ projection \in Row
    /\ graph \in [root : Watermarks \cup {NoWatermark}, chunks : SUBSET GraphChunks,
                  links : SUBSET GraphChunks, of : SUBSET GraphChunks]
    /\ command \in [Operators -> Command]
    /\ smoke \in [pc : {"idle", "consults", "ready", "no_results", "fallback"},
                  seeds : SUBSET GraphChunks, results : SUBSET GraphChunks]

\* `of` is a history variable: the snapshot of the last rebuild to become ready.
GraphInit ==
    /\ stored \in SUBSET GraphChunks
    /\ projection = NoRow
    /\ graph = [root |-> NoWatermark, chunks |-> {}, links |-> {}, of |-> {}]
    /\ command = [o \in Operators |-> NoCommand]
    /\ smoke = [pc |-> "idle", seeds |-> {}, results |-> {}]

-----------------------------------------------------------------------------
\* A definition whose name ends in Fault is the definition after it with a
\* plausible bug.  No specification uses it: the properties must notice it.

\* A flush writes the columns that differ from what the session holds, and only
\* those, whatever another process has written since.
Flushed(row, held, new) ==
    [f \in DOMAIN row |-> IF new[f] # held[f] THEN new[f] ELSE row[f]]

Writes(o, new, pc) ==
    /\ projection' = Flushed(projection, command[o].held, new)
    /\ command' = [command EXCEPT ![o].held = new, ![o].pc = pc]

Moves(o, pc) == command' = [command EXCEPT ![o].pc = pc]
At(o, pc) == command[o].pc = pc

BeginBackfill(o, watermark) ==
    /\ At(o, "idle")
    /\ command' = [command EXCEPT ![o] =
                      [NoCommand EXCEPT !.pc = "read", !.watermark = watermark, !.held = projection]]
    /\ UNCHANGED <<stored, projection, graph, smoke>>

\* The row is marked when the rebuild has begun, not before.
MarkPendingFault(o) ==
    /\ At(o, "read")
    /\ Writes(o, [command[o].held EXCEPT !.watermark = command[o].watermark, !.error = "none"],
                 "pending")
    /\ UNCHANGED <<stored, graph, smoke>>

MarkPending(o) ==
    /\ At(o, "read")
    /\ Writes(o, [status |-> "pending_backfill", watermark |-> command[o].watermark,
                  error |-> "none", indexed |-> FALSE], "pending")
    /\ UNCHANGED <<stored, graph, smoke>>

MarkIndexing(o) ==
    /\ At(o, "pending")
    /\ Writes(o, [command[o].held EXCEPT !.status = "indexing", !.error = "none"], "indexing")
    /\ UNCHANGED <<stored, graph, smoke>>

\* load_workspace_graph: links only between chunks that were loaded.
LoadGraph(o) ==
    /\ At(o, "indexing")
    /\ command' = [command EXCEPT ![o].pc = "loaded", ![o].loaded = stored]
    /\ UNCHANGED <<stored, projection, graph, smoke>>

DeleteGraph(o) ==
    /\ At(o, "loaded") /\ Moves(o, "deleted")
    /\ graph' = [graph EXCEPT !.root = NoWatermark, !.chunks = {}, !.links = {}]
    /\ UNCHANGED <<stored, projection, smoke>>

UpsertRoot(o) ==
    /\ At(o, "deleted") /\ Moves(o, "rooted")
    /\ graph' = [graph EXCEPT !.root = command[o].watermark]
    /\ UNCHANGED <<stored, projection, smoke>>

UpsertChunks(o) ==
    /\ At(o, "rooted") /\ Moves(o, "chunked")
    /\ graph' = [graph EXCEPT !.chunks = @ \cup command[o].loaded]
    /\ UNCHANGED <<stored, projection, smoke>>

\* A link whose ends the graph does not have is left out.
UpsertLinks(o) ==
    /\ At(o, "chunked") /\ Moves(o, "linked")
    /\ graph' = [graph EXCEPT !.links = @ \cup (Links(command[o].loaded) \cap Links(graph.chunks))]
    /\ UNCHANGED <<stored, projection, smoke>>

\* An error that another process has put into the row in the meantime stays:
\* this session holds none.
MarkReady(o) ==
    /\ At(o, "linked")
    /\ projection' = Flushed(projection, command[o].held,
                             [status |-> "ready", watermark |-> command[o].watermark,
                              error |-> "none", indexed |-> TRUE])
    /\ graph' = [graph EXCEPT !.of = command[o].loaded]
    /\ command' = [command EXCEPT ![o] = NoCommand]
    /\ UNCHANGED <<stored, smoke>>

Rebuilding == {"indexing", "loaded", "deleted", "rooted", "chunked"}

\* The loader or a query fails; the queries before it stay.
QueryFails(o) ==
    /\ command[o].pc \in Rebuilding
    /\ \E failure \in Failures \ {"none"} :
          command' = [command EXCEPT ![o].pc = "broken", ![o].failure = failure]
    /\ UNCHANGED <<stored, projection, graph, smoke>>

MarkFailed(o) ==
    /\ At(o, "broken")
    /\ projection' = Flushed(projection, command[o].held,
                             [command[o].held EXCEPT !.status = "failed", !.error = command[o].failure])
    /\ command' = [command EXCEPT ![o] = NoCommand]
    /\ UNCHANGED <<stored, graph, smoke>>

CrashCommand(o) ==
    /\ ~At(o, "idle")
    /\ command' = [command EXCEPT ![o] = NoCommand]
    /\ UNCHANGED <<stored, projection, graph, smoke>>

\* Ingestion, indexing and deletion of sources: they do not touch the row.
IndexChunk(c) ==
    /\ stored' = IF c \in stored THEN stored \ {c} ELSE stored \cup {c}
    /\ UNCHANGED <<projection, graph, command, smoke>>

-----------------------------------------------------------------------------
(* A search of the graph, as retrieval-smoke reports it.                     *)

\* should_use_dense_fallback: a search asks the graph only where it is ready.
Consulted == projection.status = "ready"

Linked(c, d) == (c \in graph.links /\ d = c + 1) \/ (d \in graph.links /\ c = d + 1)
Near(seeds) == {c \in graph.chunks : c \in seeds \/ \E d \in seeds \cap graph.chunks : Linked(c, d)}

\* The seeds that the graph has come before their neighbours, up to the limit.
Nearest(chunks, seeds) ==
    LET Before(d, c) == \/ d \in seeds /\ c \notin seeds
                        \/ (d \in seeds <=> c \in seeds) /\ d < c
    IN {c \in chunks : Cardinality({d \in chunks : Before(d, c)}) < GraphLimit}

\* The dense search has found the seeds.
AskGraph ==
    /\ smoke.pc = "idle"
    /\ \E seeds \in SUBSET stored :
          /\ Cardinality(seeds) <= GraphLimit
          /\ smoke' = [pc |-> IF Consulted THEN "consults" ELSE "fallback",
                       seeds |-> seeds, results |-> {}]
    /\ UNCHANGED <<stored, projection, graph, command>>

\* A rebuild may have begun since the row was read.  What the tables no longer
\* have is left out.
ExpandSeeds ==
    /\ smoke.pc = "consults"
    /\ LET results == Nearest(Near(smoke.seeds), smoke.seeds) \cap stored IN
          smoke' = [smoke EXCEPT !.results = results,
                                 !.pc = IF results = {} THEN "no_results" ELSE "ready"]
    /\ UNCHANGED <<stored, projection, graph, command>>

GraphUnavailable ==
    /\ smoke.pc = "consults"
    /\ smoke' = [smoke EXCEPT !.pc = "fallback"]
    /\ UNCHANGED <<stored, projection, graph, command>>

SearchAgain ==
    /\ smoke.pc \in {"ready", "no_results", "fallback"}
    /\ smoke' = [pc |-> "idle", seeds |-> {}, results |-> {}]
    /\ UNCHANGED <<stored, projection, graph, command>>

GraphNext ==
    \/ \E o \in Operators, w \in Watermarks : BeginBackfill(o, w)
    \/ \E o \in Operators : \/ MarkPending(o) \/ MarkIndexing(o) \/ LoadGraph(o) \/ DeleteGraph(o)
                            \/ UpsertRoot(o) \/ UpsertChunks(o) \/ UpsertLinks(o)
                            \/ MarkReady(o) \/ QueryFails(o) \/ MarkFailed(o) \/ CrashCommand(o)
    \/ \E c \in GraphChunks : IndexChunk(c)
    \/ AskGraph \/ ExpandSeeds \/ GraphUnavailable \/ SearchAgain

GraphSpec == GraphInit /\ [][GraphNext]_graphVars

-----------------------------------------------------------------------------
\* A graph that a search consults is the whole of one snapshot of the workspace:
\* no failure and no crash of a rebuild leaves a part of it, or a chunk of an
\* earlier one, behind a row that says "ready".
ReadyIsComplete ==
    Consulted =>
        /\ graph.chunks = graph.of /\ graph.links = Links(graph.of)
        /\ graph.root = projection.watermark

\* An error code stands in the row exactly while it says "failed", whichever
\* rebuild comes next.
ErrorIsOfFailure == (projection.error # "none") <=> (projection.status = "failed")

\* The answer of a graph search has every seed that the graph has and the tables
\* still have when the answer is given, and nothing farther than a link from one.
SeedsFirst ==
    [][smoke.pc = "consults" /\ smoke'.pc \in {"ready", "no_results"} =>
          /\ (smoke.seeds \cap graph.chunks \cap stored) \subseteq smoke'.results
          /\ smoke'.results \subseteq Near(smoke.seeds) \cap stored]_graphVars

\* Wherever a rebuild fails or crashes: a graph that is searched is complete, errors
\* are those of failures, and a search loses no seed.
GraphIsWhole ==
    /\ [](ReadyIsComplete /\ ErrorIsOfFailure)
    /\ SeedsFirst

=============================================================================
