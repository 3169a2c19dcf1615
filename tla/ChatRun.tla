------------------------------ MODULE ChatRun -------------------------------
(* The run of a model within a streamed turn: the calls of the provider with *)
(* their retries, the tools, the second model that is tried when the first    *)
(* cannot be reached, and the pieces of the answer on their way to the client.*)
(*                                                                           *)
(* The runner works in a thread of its own with the database session of the   *)
(* request; the generator of the turn passes on what the thread puts into its *)
(* queue and uses the session again when the thread has ended.                *)
EXTENDS Integers, Sequences, FiniteSets, SequencesExt

CONSTANTS
    Evidence,       \* chunks the retrieval may find
    Texts,          \* texts of knowledge drafts
    MaxTools,       \* bound: tool calls of one answer of a model
    MaxPieces       \* bound: pieces of a streamed answer

ASSUME ChatRunAssumption == MaxTools \in Nat /\ MaxPieces \in Nat \ {0}

VARIABLES
    runner,         \* the thread
    toolCalls,      \* the audit rows of the tools, by their time: Seq(ToolStatuses)
    drafts,         \* the drafts of the session: Seq(Draft)
    found,          \* [results, logged]: chunks retrieved, and with an audit row
    providerCalls,  \* [made, kept]: calls that ended, and rows of provider_usage
    answering,      \* [queue, sent, answer]: the pieces of the answer
    outcome         \* the turn, and what was committed at its end

runVars == <<runner, toolCalls, drafts, found, providerCalls, answering, outcome>>

Models == {"primary", "fallback"}
Tools == {"search", "commit", "refine", "cancel", "approve"}
ToolStatuses == {"running", "succeeded", "failed"}
Draft == [text : Texts, refined : BOOLEAN, status : {"pending", "rejected"}]

\* A piece of an answer: the provider call, the attempt of the call, its place.
Piece == Nat \X (1..2) \X (0..MaxPieces)

Runner == [pc : {"first", "tools", "tool", "final", "ended"}, model : Models,
           second : BOOLEAN, attempt : 1..2, todo : 0..MaxTools,
           tool : Tools \cup {"none"}, placed : 0..MaxPieces,
           error : {"none", "unreachable", "fatal"}]

RunTypeOK ==
    /\ runner \in Runner
    /\ toolCalls \in Seq(ToolStatuses) /\ drafts \in Seq(Draft)
    /\ found \in [results : SUBSET Evidence, logged : SUBSET Evidence]
    /\ providerCalls \in [made : Nat, kept : Nat]
    /\ answering \in [queue : Seq(Piece), sent : Seq(Piece), answer : Seq(Piece)]
    /\ outcome \in [turn : {"running", "answered", "failed", "left"}, redacted : BOOLEAN,
                    cited : SUBSET Evidence, rows : Seq(ToolStatuses)]

RunInit ==
    /\ \E second \in BOOLEAN :
          runner = [pc |-> "first", model |-> "primary", second |-> second, attempt |-> 1,
                    todo |-> 0, tool |-> "none", placed |-> 0, error |-> "none"]
    /\ toolCalls = <<>> /\ drafts = <<>>
    /\ found = [results |-> {}, logged |-> {}]
    /\ providerCalls = [made |-> 0, kept |-> 0]
    /\ answering = [queue |-> <<>>, sent |-> <<>>, answer |-> <<>>]
    /\ outcome = [turn |-> "running", redacted |-> FALSE, cited |-> {}, rows |-> <<>>]

-----------------------------------------------------------------------------
\* A definition whose name ends in Fault is the definition after it with a
\* plausible bug.  No specification uses it: the properties must notice it.

\* request_cancel: a call in flight ends, the next one is not made.
Cancelled == outcome.turn = "left"
Calling == runner.pc \in {"first", "final"} /\ ~Cancelled

\* A call that ended has one record, whatever became of it and however often it
\* was tried.
Recorded == providerCalls' = [providerCalls EXCEPT !.made = @ + 1]

Goes(pc) == [runner EXCEPT !.pc = pc, !.attempt = 1, !.placed = 0]
Fails(error) == [Goes("ended") EXCEPT !.error = error, !.tool = "none"]

\* The first answer asks for tools.
FirstAsksTools ==
    /\ Calling /\ runner.pc = "first"
    /\ \E n \in 1..MaxTools : runner' = [Goes("tools") EXCEPT !.todo = n]
    /\ Recorded
    /\ UNCHANGED <<toolCalls, drafts, found, answering, outcome>>

\* The first answer is the answer: one piece.
FirstAnswers ==
    /\ Calling /\ runner.pc = "first"
    /\ LET answer == <<<<providerCalls.made, 1, 0>>>> IN
          answering' = [answering EXCEPT !.queue = @ \o answer, !.answer = answer]
    /\ runner' = Goes("ended")
    /\ Recorded
    /\ UNCHANGED <<toolCalls, drafts, found, outcome>>

TriesAgainFault ==
    /\ Calling /\ runner.attempt <= 2
    /\ runner' = [runner EXCEPT !.attempt = @ + 1, !.placed = 0]
    /\ UNCHANGED <<toolCalls, drafts, found, providerCalls, answering, outcome>>

\* 429, 5xx or no connection, once, if the wait fits the budget.
TriesAgain ==
    /\ Calling /\ runner.attempt = 1
    /\ runner' = [runner EXCEPT !.attempt = 2, !.placed = 0]
    /\ UNCHANGED <<toolCalls, drafts, found, providerCalls, answering, outcome>>

\* The same without another attempt.  A stream may break after some pieces.
Unreachable ==
    /\ Calling
    /\ runner' = Fails("unreachable")
    /\ Recorded
    /\ UNCHANGED <<toolCalls, drafts, found, answering, outcome>>

\* Refused, not to be parsed, over the budget of the request, or canceled: then
\* perhaps before it began.
CallFatal ==
    /\ runner.pc \in {"first", "final"}
    /\ runner' = Fails("fatal")
    /\ Recorded \/ (Cancelled /\ UNCHANGED providerCalls)
    /\ UNCHANGED <<toolCalls, drafts, found, answering, outcome>>

-----------------------------------------------------------------------------
\* A tool call that is malformed ends the run, without an audit row; a query
\* that is routed past the retrieval has none either.
BadToolCall ==
    /\ runner.pc = "tools" /\ runner.todo > 0
    /\ runner' = Fails("fatal")
    /\ UNCHANGED <<toolCalls, drafts, found, providerCalls, answering, outcome>>

SkipsRetrieval ==
    /\ runner.pc = "tools" /\ runner.todo > 0
    /\ runner' = [runner EXCEPT !.todo = @ - 1]
    /\ UNCHANGED <<toolCalls, drafts, found, providerCalls, answering, outcome>>

StartTool ==
    /\ runner.pc = "tools" /\ runner.todo > 0
    /\ \E tool \in Tools :
          runner' = [runner EXCEPT !.pc = "tool", !.tool = tool, !.todo = @ - 1]
    /\ toolCalls' = Append(toolCalls, "running")
    /\ UNCHANGED <<drafts, found, providerCalls, answering, outcome>>

CloseRow(status) == toolCalls' = [toolCalls EXCEPT ![Len(toolCalls)] = status]
ToolDone(tool) == runner.pc = "tool" /\ runner.tool = tool
BackToTools == runner' = [runner EXCEPT !.pc = "tools", !.tool = "none"]

PendingDraft(i) == drafts[i].status = "pending"
NewDraft(text) == [text |-> text, refined |-> FALSE, status |-> "pending"]

\* complete_retrieval_tool closes the row and then writes one row a chunk.
SearchEnds ==
    /\ ToolDone("search")
    /\ \E some \in SUBSET Evidence :
          found' = [results |-> found.results \cup some, logged |-> found.logged \cup some]
    /\ CloseRow("succeeded") /\ BackToTools
    /\ UNCHANGED <<drafts, providerCalls, answering, outcome>>

\* A chunk is gone by then: the row stays closed, the run ends.
SearchUnlogged ==
    /\ ToolDone("search")
    /\ \E some \in SUBSET Evidence : found' = [found EXCEPT !.results = @ \cup some]
    /\ CloseRow("succeeded") /\ runner' = Fails("fatal")
    /\ UNCHANGED <<drafts, providerCalls, answering, outcome>>

\* Every call makes a draft.
CommitDraftFault ==
    /\ ToolDone("commit")
    /\ \E text \in Texts :
          drafts' = Append(drafts, NewDraft(text))
    /\ CloseRow("succeeded") /\ BackToTools
    /\ UNCHANGED <<found, providerCalls, answering, outcome>>

\* commit: a pending draft of the session with this text, or the one that is
\* named, is answered as it is.
CommitDraft ==
    /\ ToolDone("commit")
    /\ \E text \in Texts :
          drafts' = IF \E i \in DOMAIN drafts : PendingDraft(i) /\ drafts[i].text = text
                    THEN drafts
                    ELSE Append(drafts, NewDraft(text))
    /\ CloseRow("succeeded") /\ BackToTools
    /\ UNCHANGED <<found, providerCalls, answering, outcome>>

RefineDraft ==
    /\ ToolDone("refine")
    /\ \E i \in DOMAIN drafts, text \in Texts :
          PendingDraft(i) /\ drafts' = [drafts EXCEPT ![i].text = text, ![i].refined = TRUE]
    /\ CloseRow("succeeded") /\ BackToTools
    /\ UNCHANGED <<found, providerCalls, answering, outcome>>

CancelDraft ==
    /\ ToolDone("cancel")
    /\ \E i \in DOMAIN drafts : PendingDraft(i) /\ drafts' = [drafts EXCEPT ![i].status = "rejected"]
    /\ CloseRow("succeeded") /\ BackToTools
    /\ UNCHANGED <<found, providerCalls, answering, outcome>>

\* approve only asks the client for the approval.
AskApproval ==
    /\ ToolDone("approve")
    /\ CloseRow("succeeded") /\ BackToTools
    /\ UNCHANGED <<drafts, found, providerCalls, answering, outcome>>

ToolFails ==
    /\ runner.pc = "tool"
    /\ CloseRow("failed")
    /\ runner' = Fails("fatal")
    /\ UNCHANGED <<drafts, found, providerCalls, answering, outcome>>

-----------------------------------------------------------------------------
AskAnswer ==
    /\ runner.pc = "tools" /\ runner.todo = 0
    /\ runner' = Goes("final")
    /\ UNCHANGED <<toolCalls, drafts, found, providerCalls, answering, outcome>>

\* A piece of the answer in the stream of the provider.
NextPiece ==
    /\ Calling /\ runner.pc = "final" /\ runner.placed < MaxPieces
    /\ runner' = [runner EXCEPT !.placed = @ + 1]
    /\ answering' = [answering EXCEPT !.queue =
                    Append(@, <<providerCalls.made, runner.attempt, runner.placed + 1>>)]
    /\ UNCHANGED <<toolCalls, drafts, found, providerCalls, outcome>>

\* The end of the stream.  What stands in its last lines need not have been
\* extracted on the way, and then the queue has less than the answer.
FinalAnswers ==
    /\ Calling /\ runner.pc = "final"
    /\ answering' = [answering EXCEPT !.answer =
                    [i \in 1..MaxPieces |-> <<providerCalls.made, runner.attempt, i>>]]
    /\ runner' = Goes("ended")
    /\ Recorded
    /\ UNCHANGED <<toolCalls, drafts, found, outcome>>

\* The whole run again with the other model, its tools as well.
UseFallback ==
    /\ runner.pc = "ended" /\ runner.error = "unreachable"
    /\ runner.second /\ runner.model = "primary"
    /\ runner' = [Goes("first") EXCEPT !.model = "fallback", !.error = "none", !.todo = 0]
    /\ UNCHANGED <<toolCalls, drafts, found, providerCalls, answering, outcome>>

Ended ==
    /\ runner.pc = "ended"
    /\ ~(runner.error = "unreachable" /\ runner.second /\ runner.model = "primary")

-----------------------------------------------------------------------------
(* The generator of the turn.                                                *)

Passes ==
    /\ outcome.turn = "running" /\ answering.queue # <<>>
    /\ answering' = [answering EXCEPT !.queue = Tail(@), !.sent = Append(@, Head(answering.queue))]
    /\ UNCHANGED <<runner, toolCalls, drafts, found, providerCalls, outcome>>

\* What the client still lacks, if what it has is the beginning of the answer.
Rest(answer) ==
    IF IsPrefix(answering.sent, answer) THEN SubSeq(answer, Len(answering.sent) + 1, Len(answer))
    ELSE <<>>

\* _resolve_citations: ids that no tool of the turn returned are skipped.
Citable(claimed) == claimed \cap found.results

\* The audit of the turn and its commit.
Finishes(turn, redacted, cited) ==
    /\ outcome' = [turn |-> turn, redacted |-> redacted, cited |-> cited, rows |-> toolCalls]
    /\ providerCalls' = [providerCalls EXCEPT !.kept = @ + providerCalls.made]

\* The answer is redacted and filtered before it is stored; what was passed on
\* is not, and where the two differ nothing more is sent.
AnswerTurn ==
    /\ outcome.turn = "running" /\ Ended /\ runner.error = "none" /\ answering.queue = <<>>
    /\ \E claimed \in SUBSET Evidence, redacted \in BOOLEAN :
          /\ Finishes("answered", redacted, Citable(claimed))
          /\ answering' = IF redacted THEN answering
                      ELSE [answering EXCEPT !.sent = @ \o Rest(answering.answer)]
    /\ UNCHANGED <<runner, toolCalls, drafts, found>>

FailTurn ==
    /\ outcome.turn = "running" /\ Ended /\ runner.error # "none" /\ answering.queue = <<>>
    /\ Finishes("failed", FALSE, {})
    /\ UNCHANGED <<runner, toolCalls, drafts, found, answering>>

\* The request commits what was flushed and does not wait for the thread.
ClientLeaves ==
    /\ outcome.turn = "running"
    /\ outcome' = [outcome EXCEPT !.turn = "left", !.rows = toolCalls]
    /\ UNCHANGED <<runner, toolCalls, drafts, found, providerCalls, answering>>

RunNext ==
    \/ FirstAsksTools \/ FirstAnswers \/ TriesAgain \/ Unreachable \/ CallFatal
    \/ BadToolCall \/ SkipsRetrieval \/ StartTool \/ SearchEnds \/ SearchUnlogged
    \/ CommitDraft \/ RefineDraft \/ CancelDraft \/ AskApproval \/ ToolFails
    \/ AskAnswer \/ NextPiece \/ FinalAnswers \/ UseFallback
    \/ Passes \/ AnswerTurn \/ FailTurn \/ ClientLeaves

RunSpec == RunInit /\ [][RunNext]_runVars

-----------------------------------------------------------------------------
Finished == outcome.turn \in {"answered", "failed"}

\* However the run ended, and although a second model repeats it, no audit row of
\* a tool is left running; only a client that leaves can leave one.
ToolRowsClosed == Finished => "running" \notin Range(outcome.rows)

\* What an answer cites was retrieved in this turn, by either model, and the
\* audit has a row that says so.
CitedIsLogged == outcome.turn = "answered" => outcome.cited \subseteq found.logged

\* A turn that repeats itself with the second model, or asks twice, does not make
\* a draft of the same text twice; only a refinement can make two texts equal.
DraftsDistinct ==
    \A i, k \in DOMAIN drafts :
        (i # k /\ PendingDraft(i) /\ PendingDraft(k) /\ drafts[i].text = drafts[k].text) =>
            drafts[i].refined \/ drafts[k].refined

\* Every call of the provider has its usage row once the turn has ended, those
\* of the model that could not be reached as well.
UsageIsKept == Finished => providerCalls.kept = providerCalls.made

\* A client that was sent pieces of no other attempt, of an answer that needed no
\* redaction, has the whole answer, in order and once.
StreamAgrees ==
    (outcome.turn = "answered" /\ ~outcome.redacted
        /\ \A p \in Range(answering.sent) : p[1] = answering.answer[1][1] /\ p[2] = answering.answer[1][2])
    => answering.sent = answering.answer

\* Whatever fails, is retried or repeated by the second model: audit, citations,
\* drafts, usage and stream agree with the answer.
RunIsAccounted ==
    /\ ToolRowsClosed
    /\ CitedIsLogged
    /\ DraftsDistinct
    /\ UsageIsKept
    /\ StreamAgrees

=============================================================================
