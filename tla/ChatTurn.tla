------------------------------ MODULE ChatTurn ------------------------------
(* Turns of one chat session: streamed or plain, in any of the API processes, *)
(* with the guards of a process, the writes of a turn to the audit tables,    *)
(* the moments they are committed at, the client that leaves and the process  *)
(* that crashes.                                                              *)
(*                                                                            *)
(* A streamed turn is a generator inside a generator.  The client can leave   *)
(* at any event: the outer generator then commits what was flushed and gives  *)
(* its guards back, and only when it is gone is the inner one closed: the     *)
(* cancellation it writes comes after the commit and is rolled back with the  *)
(* request.  A generator nobody asked for an event runs no handler at all.    *)
EXTENDS Integers, Sequences, FiniteSets, Functions

CONSTANTS
    Turns,          \* the turns of the session, each streamed or plain
    Processes,      \* API processes, each with its own guards
    NoTurn

ASSUME ChatTurnAssumption == NoTurn \notin Turns /\ IsFiniteSet(Turns)

VARIABLES
    chatSession,    \* the committed row of the session
    said,           \* every message recorded, <<turn, role>>, by its time
    stored,         \* the messages that are committed
    rowLock,        \* the turn with an uncommitted status, or NoTurn
    flight,         \* [Processes -> the turn in _CHAT_USER_IN_FLIGHT, or NoTurn]
    turn            \* [Turns -> Turn]

chatTurnVars == <<chatSession, said, stored, rowLock, flight, turn>>

Roles == {"user", "assistant"}
Messages == Turns \X Roles
TurnStatuses == {"running", "succeeded", "failed"}

\* `fresh`: the turn creates the session; `wrote` an uncommitted status; `wrote`
\* and the messages of the turn outside `stored` are lost with its transaction.
\* `history` is what its runner is given, `seen` the events its client got,
\* `after` the streams of its process whose final event came before it began.
Turn == [kind : {"stream", "plain"}, process : Processes, fresh : BOOLEAN,
         phase : {"idle", "guarded", "opened", "announced", "running", "answered", "over"},
         wrote : TurnStatuses \cup {"none"}, history : SUBSET Messages,
         seen : SUBSET {"started", "final", "error", "broken"},
         fate : {"none", "left", "crashed"}, after : SUBSET Turns]

ChatTurnTypeOK ==
    /\ chatSession \in [state : {"absent", "present", "deleted"}, status : TurnStatuses,
                        archived : BOOLEAN]
    /\ said \in Seq(Messages) /\ stored \subseteq Range(said)
    /\ rowLock \in Turns \cup {NoTurn}
    /\ flight \in [Processes -> Turns \cup {NoTurn}]
    /\ turn \in [Turns -> Turn]

ChatTurnInit ==
    /\ chatSession = [state |-> "absent", status |-> "running", archived |-> FALSE]
    /\ said = <<>> /\ stored = {}
    /\ rowLock = NoTurn
    /\ flight = [p \in Processes |-> NoTurn]
    /\ \E kind \in [Turns -> {"stream", "plain"}], process \in [Turns -> Processes] :
          turn = [t \in Turns |->
              [kind |-> kind[t], process |-> process[t], fresh |-> FALSE, phase |-> "idle",
               wrote |-> "none", history |-> {}, seen |-> {}, fate |-> "none", after |-> {}]]

-----------------------------------------------------------------------------
\* A definition whose name ends in Fault is the definition after it with a
\* plausible bug.  No specification uses it: the properties must notice it.

Present == chatSession.state = "present"
InFlight(t) == turn[t].phase \notin {"idle", "over"}
Uncommitted(t) == {m \in Range(said) : m[1] = t /\ m \notin stored}
LockFree(t) == rowLock \in {NoTurn, t}

\* The row is there for this transaction: committed, or its own.
RowFor(t) == Present \/ turn[t].fresh

\* The commit of a turn's transaction and what its client has then.
Commits(t, changed) ==
    LET wrote == turn[t].wrote IN
    /\ chatSession' = IF turn[t].fresh
                      THEN [chatSession EXCEPT !.state = "present", !.status = wrote]
                      ELSE IF Present /\ wrote # "none" THEN [chatSession EXCEPT !.status = wrote]
                      ELSE chatSession
    /\ stored' = IF RowFor(t) THEN stored \cup Uncommitted(t) ELSE stored
    /\ rowLock' = IF rowLock = t THEN NoTurn ELSE rowLock
    /\ turn' = [turn EXCEPT ![t] = [changed EXCEPT !.wrote = "none", !.fresh = FALSE]]

\* The rollback of the transactions of some turns.
RollsBack(who, changed) ==
    /\ rowLock' = IF rowLock \in who THEN NoTurn ELSE rowLock
    /\ turn' = [t \in Turns |->
                   IF t \in who THEN [changed[t] EXCEPT !.wrote = "none", !.fresh = FALSE]
                   ELSE turn[t]]
    /\ UNCHANGED <<chatSession, stored>>

Releases(t) ==
    flight' = [p \in Processes |-> IF flight[p] = t THEN NoTurn ELSE flight[p]]

-----------------------------------------------------------------------------
\* The guards of a process: one streamed turn of a user at a time, which makes
\* it one of his session too.  A turn that is refused changes nothing.
Acquire(t) ==
    LET p == turn[t].process IN
    /\ turn[t].kind = "stream" /\ turn[t].phase = "idle" /\ flight[p] = NoTurn
    /\ flight' = [flight EXCEPT ![p] = t]
    /\ turn' = [turn EXCEPT ![t].phase = "guarded",
                    ![t].after = {u \in Turns : /\ turn[u].kind = "stream" /\ turn[u].process = p
                                                /\ "final" \in turn[u].seen}]
    /\ UNCHANGED <<chatSession, said, stored, rowLock>>

Starting(t) ==
    \/ turn[t].kind = "stream" /\ turn[t].phase = "guarded"
    \/ turn[t].kind = "plain" /\ turn[t].phase = "idle"

\* A status that is there already is not written again, and no lock is taken.
WritesRunning(t) ==
    IF Present /\ chatSession.status = "running" THEN "none" ELSE "running"

\* start_session: a new session, or the row of one that is not archived.
StartsSession(t) ==
    \/ chatSession.state = "absent" /\ \A u \in Turns : ~turn[u].fresh
    \/ Present /\ ~chatSession.archived /\ (WritesRunning(t) = "none" \/ LockFree(t))

TakesLock(t) == rowLock' = IF Present /\ WritesRunning(t) # "none" THEN t ELSE rowLock

OpenStream(t) ==
    /\ turn[t].kind = "stream" /\ Starting(t) /\ StartsSession(t)
    /\ TakesLock(t)
    /\ turn' = [turn EXCEPT ![t].phase = "opened", ![t].fresh = ~Present,
                            ![t].wrote = WritesRunning(t)]
    /\ UNCHANGED <<chatSession, said, stored, flight>>

\* A plain turn reads the history before it records its own message.
OpenPlain(t) ==
    /\ turn[t].kind = "plain" /\ Starting(t) /\ StartsSession(t)
    /\ TakesLock(t)
    /\ said' = Append(said, <<t, "user">>)
    /\ turn' = [turn EXCEPT ![t].phase = "running", ![t].fresh = ~Present,
                            ![t].wrote = WritesRunning(t), ![t].history = stored]
    /\ UNCHANGED <<chatSession, stored, flight>>

\* A session that is archived, or not there any more: 422, guards released.
StartRefused(t) ==
    /\ Starting(t)
    /\ chatSession.state = "deleted" \/ (Present /\ chatSession.archived)
    /\ turn' = [turn EXCEPT ![t].phase = "over"]
    /\ Releases(t)
    /\ UNCHANGED <<chatSession, said, stored, rowLock>>

\* The first event: the message of the user is recorded, the client learns the
\* session.
Announce(t) ==
    /\ turn[t].phase = "opened" /\ RowFor(t)
    /\ said' = Append(said, <<t, "user">>)
    /\ turn' = [turn EXCEPT ![t].phase = "announced", ![t].seen = @ \cup {"started"}]
    /\ UNCHANGED <<chatSession, stored, rowLock, flight>>

\* The messages a stream reads after its commit, without its own if that is the
\* last one.
HistoryFor(t) ==
    LET visible == {n \in DOMAIN said : said[n] \in stored \/ said[n][1] = t}
        own == {n \in visible : said[n] = <<t, "user">> /\ \A later \in visible : later <= n}
    IN {said[n] : n \in visible \ own}

CommitStart(t) ==
    /\ turn[t].phase = "announced"
    /\ Commits(t, [turn[t] EXCEPT !.phase = "running", !.history = HistoryFor(t)])
    /\ UNCHANGED <<said, flight>>

-----------------------------------------------------------------------------
\* The answer: its message, the status, and for a stream the final event, all
\* before the commit.
Answer(t) ==
    /\ turn[t].phase = "running" /\ RowFor(t) /\ LockFree(t)
    /\ said' = Append(said, <<t, "assistant">>)
    /\ rowLock' = t
    /\ turn' = [turn EXCEPT ![t].phase = "answered", ![t].wrote = "succeeded",
                    ![t].seen = IF turn[t].kind = "stream" THEN @ \cup {"final"} ELSE @]
    /\ UNCHANGED <<chatSession, stored, flight>>

\* The runner, a tool or a provider fails.
RunFails(t) ==
    /\ turn[t].phase = "running" /\ RowFor(t) /\ LockFree(t)
    /\ rowLock' = t
    /\ turn' = [turn EXCEPT ![t].phase = "answered", ![t].wrote = "failed",
                    ![t].seen = IF turn[t].kind = "stream" THEN @ \cup {"error"} ELSE @]
    /\ UNCHANGED <<chatSession, said, stored, flight>>

\* The session was deleted: recording the failure fails too, the error leaves
\* the generator and there is no event.
Break(t) ==
    /\ turn[t].phase \in {"opened", "running"} /\ ~RowFor(t)
    /\ Commits(t, [turn[t] EXCEPT !.phase = "over", !.seen = @ \cup {"broken"}])
    /\ Releases(t)
    /\ UNCHANGED said

\* The end of the request; the client of a plain turn has its answer now.
CommitTurn(t) ==
    /\ turn[t].phase = "answered"
    /\ Commits(t, [turn[t] EXCEPT !.phase = "over",
                      !.seen = IF turn[t].kind = "stream" THEN @
                               ELSE @ \cup {IF turn[t].wrote = "succeeded" THEN "final" ELSE "error"}])
    /\ Releases(t)
    /\ UNCHANGED said

-----------------------------------------------------------------------------
\* The client leaves a stream before its first event: no handler runs, the
\* request is rolled back and the guards stay.
LeaveUnstarted(t) ==
    /\ turn[t].kind = "stream" /\ turn[t].phase = "opened"
    /\ RollsBack({t}, [turn EXCEPT ![t].phase = "over", ![t].fate = "left"])
    /\ UNCHANGED <<said, flight>>

\* The handler of the outer generator does not commit.
LeaveFault(t) ==
    /\ turn[t].kind = "stream" /\ turn[t].phase \in {"announced", "running", "answered"}
    /\ RollsBack({t}, [turn EXCEPT ![t].phase = "over", ![t].fate = "left"])
    /\ Releases(t)
    /\ UNCHANGED said

\* At any later event: what was flushed is committed, the cancellation is not.
Leave(t) ==
    /\ turn[t].kind = "stream" /\ turn[t].phase \in {"announced", "running", "answered"}
    /\ Commits(t, [turn[t] EXCEPT !.phase = "over", !.fate = "left"])
    /\ Releases(t)
    /\ UNCHANGED said

Crash(p) ==
    LET who == {t \in Turns : turn[t].process = p /\ InFlight(t)} IN
    /\ who # {}
    /\ RollsBack(who, [t \in Turns |-> [turn[t] EXCEPT !.phase = "over", !.fate = "crashed"]])
    /\ flight' = [flight EXCEPT ![p] = NoTurn]
    /\ UNCHANGED said

-----------------------------------------------------------------------------
\* The owner's requests; they wait for the transaction that wrote the row, and
\* a deletion for one that wrote a message too.
ArchiveSession(archived) ==
    /\ Present /\ rowLock = NoTurn
    /\ chatSession' = [chatSession EXCEPT !.archived = archived]
    /\ UNCHANGED <<said, stored, rowLock, flight, turn>>

DeleteSession ==
    /\ Present /\ rowLock = NoTurn
    /\ \A t \in Turns : InFlight(t) => Uncommitted(t) = {}
    /\ chatSession' = [chatSession EXCEPT !.state = "deleted"]
    /\ stored' = {}
    /\ UNCHANGED <<said, rowLock, flight, turn>>

ChatTurnNext ==
    \/ \E t \in Turns :
          \/ Acquire(t) \/ OpenStream(t) \/ OpenPlain(t) \/ StartRefused(t) \/ Announce(t)
          \/ CommitStart(t) \/ Answer(t) \/ RunFails(t) \/ Break(t) \/ CommitTurn(t)
          \/ LeaveUnstarted(t) \/ Leave(t)
    \/ \E p \in Processes : Crash(p)
    \/ \E archived \in BOOLEAN : ArchiveSession(archived)
    \/ DeleteSession

ChatTurnSpec == ChatTurnInit /\ [][ChatTurnNext]_chatTurnVars

-----------------------------------------------------------------------------
\* What a client was told is in the tables once its turn is over, whether it
\* stayed or left: the session it learned of with its message, and the answer
\* it got.  Only a crash or the deletion of the session takes them away.
SeenIsStored ==
    \A t \in Turns : (turn[t].phase = "over" /\ turn[t].fate # "crashed" /\ Present) =>
        /\ "started" \in turn[t].seen => <<t, "user">> \in stored
        /\ "final" \in turn[t].seen => <<t, "assistant">> \in stored

\* No turn in flight, no session left running, unless a client left or a
\* process crashed.
RunningHasTurn ==
    (Present /\ chatSession.status = "running" /\ \A t \in Turns : ~InFlight(t)) =>
        \E t \in Turns : turn[t].fate # "none"

\* A streamed turn that began after the final event of another in its process
\* is given the answer of that other, although that event comes before the
\* commit: the guard is what makes it wait.
FollowUpSeesAnswer ==
    \A t \in Turns : (turn[t].phase = "running" /\ Present) =>
        \A u \in turn[t].after : turn[u].fate # "crashed" => <<u, "assistant">> \in turn[t].history

\* A guard is held by a turn in flight, or its client left before the first
\* event: then the user is refused until the process ends.
FlightIsATurn ==
    \A p \in Processes : flight[p] # NoTurn =>
        InFlight(flight[p]) \/ (turn[flight[p]].fate = "left" /\ turn[flight[p]].seen = {})

\* Whoever leaves, crashes or deletes the session: rows, guards and what the
\* clients were sent agree.
TurnsAreWhole ==
    /\ SeenIsStored
    /\ RunningHasTurn
    /\ FollowUpSeesAnswer
    /\ FlightIsATurn

=============================================================================
